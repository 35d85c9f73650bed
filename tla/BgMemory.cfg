SPECIFICATION Spec
CONSTANTS
    r1 = r1
    r2 = r2
    w1 = w1
    w2 = w2
    NoWorker = NoWorker
    Ids = {r1, r2}
    Workers = {w1}
    Canceller = w1
    Backend = "memory"
    MaxSize = 0
    TTL = FALSE
    CleanupBatch = 1
    MaxSecond = 0
    Deletable = {r1}
    MaxFaults = 1
CHECK_DEADLOCK FALSE
INVARIANTS Attended ResultConsistent CancelSticks
PROPERTY LifecycleRefinement
