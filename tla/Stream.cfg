SPECIFICATION FairSpec
CONSTANTS
    Calls = {"c1", "c2"}
    MaxTurns = 1
    Cap = 1
    MaxChunks = 2
    Deltas = {"role", "text", "reasoning", "both"}
    Finishes = {"completed", "incomplete"}
    BackendErrors = TRUE
    Requests <- DirectAndLoop
    ToolType <- MCPTools
CHECK_DEADLOCK FALSE
INVARIANTS TypeOK StreamAnswered RegistryClean SequenceIncreasing TruncationReported ItemsClosed
PROPERTY CancelEnds
