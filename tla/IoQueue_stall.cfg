SPECIFICATION Spec
CONSTANTS
    NR_MAX_PARALLEL_IO = 3
    Latencies = {0}
    MaxOps = 5
    MaxTime = 0
    WorkerMayStall = TRUE
INVARIANT CopiedBeforePosted
