SPECIFICATION FairSpec
CONSTANTS
    r1 = r1
    r2 = r2
    w1 = w1
    w2 = w2
    NoWorker = NoWorker
    Ids = {r1, r2}
    Workers = {w1}
    Canceller = w1
    Backend = "memory"
    MaxSize = 2
    TTL = TRUE
    CleanupBatch = 1
    MaxSecond = 0
    Deletable = {}
    MaxFaults = 0
CHECK_DEADLOCK FALSE
INVARIANT CapacityKept
PROPERTY QueuedEventuallySettled
