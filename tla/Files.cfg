SPECIFICATION Spec
CONSTANTS
    f1 = f1
    f2 = f2
    s1 = s1
    s2 = s2
    j1 = j1
    j2 = j2
    b1 = b1
    c1 = c1
    c2 = c2
    None = None
    Files = {f1}
    Stores = {s1}
    Jobs = {j1, j2}
    Batches = {b1}
    Clients = {c1}
    SlotCounts = {1, 2}
    NeedsDocling = {}
    Docling = FALSE
    Qdrant = TRUE
CHECK_DEADLOCK FALSE
INVARIANTS Attended ContentForMetadata IndexAgrees BatchHonest
PROPERTY IngestionEnds
