CONSTANTS
    a1 = a1
    a2 = a2
    b1 = b1
    NoJob = NoJob
    Job <- LiveJob
    Target <- MCTarget
    TargetOf <- LiveTargetOf
    Compose <- MCCompose
    Batches <- LiveBatches
    MaxEnqueueFailures = 0
    MaxWorkerFailures = 0
    MaxRestarts = 2
    MaxReboots = 0
SPECIFICATION FairSpec
PROPERTY EveryJobEnds
CHECK_DEADLOCK FALSE
