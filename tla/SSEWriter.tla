------------------------------ MODULE SSEWriter ------------------------------
(***************************************************************************)
(* The SSE response writer (pkg/transport/http/sse.go) and the registry of *)
(* in-flight streams (pkg/transport/inflight.go).  WriteEvent holds the    *)
(* writer's mutex; events one goroutine writes in a row are written in one *)
(* step.                                                                   *)
(***************************************************************************)
EXTENDS StreamEvents

VARIABLES
    conn,       \* the client's connection: up or gone
    writer,     \* writerState
    wire,       \* the events the client has been sent, with their numbers
    registered  \* the response is in the InFlightRegistry

writerVars == <<writer, wire, registered>>

WriterStates == {"idle", "streaming", "completed"}

Numbered(events, from) ==
    [k \in 1..Len(events) |->
        [type |-> events[k].type, item |-> events[k].item,
         index |-> events[k].index, seq |-> from + k - 1]]

Has(events, types) == \E k \in 1..Len(events) : events[k].type \in types

(***************************************************************************)
(* WriteEvent.  A completed writer refuses.  Over a broken connection a    *)
(* write fails, or is lost without an error.  A terminal event completes   *)
(* the writer, response.created registers the response.                    *)
(***************************************************************************)
Write(events, ok) ==
    \/ /\ writer = "completed" /\ events # <<>>
       /\ ~ok
       /\ UNCHANGED writerVars
    \/ /\ events = <<>>
       /\ ok
       /\ UNCHANGED writerVars
    \/ /\ writer # "completed" /\ events # <<>>
       /\ conn = "up" => ok
       /\ wire' = IF conn = "up" THEN wire \o events ELSE wire
       /\ writer' = IF ok /\ Has(events, TerminalTypes) THEN "completed"
                    ELSE "streaming"
       /\ registered' = (registered \/ Has(events, {"created"}))

WriterInit ==
    /\ conn = "up"
    /\ writer = "idle"
    /\ wire = <<>>
    /\ registered = FALSE

=============================================================================
