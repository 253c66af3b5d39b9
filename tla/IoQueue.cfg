SPECIFICATION MCSpec
CONSTANTS
    NR_MAX_PARALLEL_IO = 4
    Latencies = {0, 1, 2}
    MaxOps = 5
    MaxTime = 2
    WorkerMayStall = FALSE
INVARIANTS
    ListsSound
    OpsKept
    CopiedBeforePosted
PROPERTIES
    AllSignalled
