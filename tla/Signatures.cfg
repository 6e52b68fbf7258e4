CONSTANTS
    Digests = {"d1", "d2"}
    Images <- Repeated
    Unverified <- Altered
    MaxRuns = 3
SPECIFICATION Spec
INVARIANTS
    AllOrNothing
    ClientInv
    GoodRunsSucceed
    CachedNotRequested
