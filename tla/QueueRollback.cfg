CONSTANTS
    a1 = a1
    a2 = a2
    b1 = b1
    NoJob = NoJob
    Job <- MCJob
    Target <- MCTarget
    TargetOf <- MCTargetOf
    Compose <- MCCompose
    Batches <- MCBatches
    MaxEnqueueFailures = 1
    MaxWorkerFailures = 0
    MaxRestarts = 0
    MaxReboots = 0
SPECIFICATION Spec
INVARIANT OneScriptAtATime
CHECK_DEADLOCK FALSE
