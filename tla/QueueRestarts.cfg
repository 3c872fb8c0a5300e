CONSTANTS
    a1 = a1
    a2 = a2
    b1 = b1
    NoJob = NoJob
    Job <- MCJob
    Target <- MCTarget
    TargetOf <- MCTargetOf
    Compose <- MCCompose
    Batches <- MCBatches
    MaxEnqueueFailures = 0
    MaxWorkerFailures = 2
    MaxRestarts = 2
    MaxReboots = 0
SPECIFICATION Spec
INVARIANT ScriptsInOrder
PROPERTY AdmittedStaysSaved
PROPERTY ImplementsSerialJobs
SYMMETRY SameTarget
CHECK_DEADLOCK FALSE
