CONSTANTS
    a1 = a1
    a2 = a2
    b1 = b1
    NoJob = NoJob
    Job <- MCJob
    Target <- MCTarget
    TargetOf <- MCTargetOf
    Compose <- MCCompose
    Batches <- MCBatches
    MaxEnqueueFailures = 1
    MaxWorkerFailures = 0
    MaxRestarts = 1
    MaxReboots = 1
SPECIFICATION Spec
INVARIANT TypeOK
INVARIANT SerialBatch
INVARIANT IntentBeforeLaunch
INVARIANT OncePerBoot
INVARIANT NoDuplicateTarget
SYMMETRY SameTarget
CHECK_DEADLOCK FALSE
