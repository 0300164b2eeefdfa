SPECIFICATION FairLifecycle
CONSTANTS
    VC_WORKER_THREADS = 3
    MaxThreads = 5
INVARIANTS
    ServesUntilStop
    DestroyAfterWorkers
PROPERTIES
    StopReturns
