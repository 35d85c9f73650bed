SPECIFICATION LiveBackendSpec
CONSTANTS
    Calls = {}
    MaxTurns = 1
    Cap = 1
    MaxChunks = 3
    Deltas = {"text"}
    Finishes = {"completed"}
    BackendErrors = FALSE
    Requests <- DirectOnly
    ToolType <- MCPTools
CHECK_DEADLOCK FALSE
PROPERTY ReaderEnds
