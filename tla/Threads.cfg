SPECIFICATION Spec
CONSTANTS
    Ids = {1, 2, 3, 4}
    Foreign = {4}
    c1 = c1
    c2 = c2
    None = None
    Clients = {c1, c2}
    Readers = {"history", "responses", "entries", "items"}
    Content <- MCContent
    MaxSize = 3
    MaxSecond = 1
    MaxItems = 4
    MaxSeen = 5
    Inserted = 3
    Shuffle <- MCShuffle
    Limit = 1
INVARIANTS HistoryWhole DeleteKeepsChain ListedOnce ItemsInOrder
CHECK_DEADLOCK FALSE
