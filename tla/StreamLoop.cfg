SPECIFICATION Spec
CONSTANTS
    Calls = {"c1", "c2"}
    MaxTurns = 2
    Cap = 1
    MaxChunks = 2
    Deltas = {"text"}
    Finishes = {"completed"}
    BackendErrors = TRUE
    Requests <- LoopRequests
    ToolType <- MCPTools
CHECK_DEADLOCK FALSE
INVARIANTS ToolCallsAnswered ToolEventsOrdered
