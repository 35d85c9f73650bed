SPECIFICATION FairSpec
CONSTANTS
    r1 = r1
    r2 = r2
    w1 = w1
    w2 = w2
    NoWorker = NoWorker
    Ids = {r1}
    Workers = {w1, w2}
    Canceller = NoWorker
    Backend = "postgres"
    MaxSize = 0
    TTL = TRUE
    CleanupBatch = 1
    MaxSecond = 0
    Deletable = {r1}
    MaxFaults = 2
CHECK_DEADLOCK FALSE
INVARIANT ClaimCarriesRequest
PROPERTIES ClaimedOnce DeletedFrozen ClaimedEventuallySettled
