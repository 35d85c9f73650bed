--------------------------- MODULE MCEventStream ---------------------------
(***************************************************************************)
(* Instances of EventStream for TLC.                                       *)
(***************************************************************************)
EXTENDS EventStream

\* Every call a turn may make is for a tool of an MCP server.
MCPTools == [c \in Calls |-> "mcp"]

Direct ==
    [agentic |-> FALSE, turns |-> 1, parallel |-> FALSE,
     client |-> {}, rejected |-> {}]

Sequential == [Direct EXCEPT !.agentic = TRUE]

Concurrent == [Sequential EXCEPT !.parallel = TRUE]

\* One tool that is not allowed, in two turns; one that only the client can run.
OneRejected == [Sequential EXCEPT !.turns = 2, !.rejected = {"c2"}]

OneClient == [Sequential EXCEPT !.client = {"c2"}]

DirectAndLoop == {Direct, OneClient}

LoopRequests == {Sequential, Concurrent, OneRejected}

DirectOnly == {Direct}

=============================================================================
