CONSTANTS
    BATCH_SIZE = 2
    MaxImages = 2
SPECIFICATION Spec
INVARIANT EveryErrorLogged
