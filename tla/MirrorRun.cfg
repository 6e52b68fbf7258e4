CONSTANT MaxRetry = 2
SPECIFICATION FairSpec
INVARIANTS
    NilMeansDone
    RetriesSpent
    RunInv
PROPERTIES
    RetriesOnlyTransient
    Termination
    ImplementsCopyCall
