SPECIFICATION Spec
CONSTANTS
    r1 = r1
    r2 = r2
    w1 = w1
    w2 = w2
    NoWorker = NoWorker
    Ids = {r1}
    Workers = {w1}
    Canceller = NoWorker
    Backend = "postgres"
    MaxSize = 0
    TTL = FALSE
    CleanupBatch = 1
    MaxSecond = 0
    Deletable = {}
    MaxFaults = 1
CHECK_DEADLOCK FALSE
PROPERTY TerminalIsFinal
