CONSTANTS
    BATCH_SIZE = 3
    MaxImages = 6
SPECIFICATION FairSpec
INVARIANTS
    OkMeansCopied
    WaitGroupExact
    PanicNeedsTwoFailures
    WorkerInv
PROPERTIES
    LaunchInOrder
    Termination
    ImplementsCopyJob
