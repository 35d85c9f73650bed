----------------------------- MODULE EventStream -----------------------------
(***************************************************************************)
(* One streamed response (stream: true), from the POST handler to its      *)
(* terminal event: handleStreaming and runAgenticLoopStreaming of the      *)
(* engine, the provider's streams (ProviderStream), the tool goroutines,   *)
(* the SSE writer (SSEWriter), and a DELETE of the response or a client    *)
(* that goes away at any moment.                                           *)
(***************************************************************************)
EXTENDS ProviderStream, SSEWriter, Filtering

CONSTANTS
    Requests,   \* the requests considered
    ToolType    \* the kind of tool each call is for

(***************************************************************************)
(* What matters of a request: whether it runs in the agentic loop and for  *)
(* how many turns (max_tool_calls below the engine's limit), its           *)
(* parallel_tool_calls, the calls whose tool has no executor (client) and  *)
(* those whose tool is not among its allowed_tools (rejected).             *)
(***************************************************************************)
Request == [agentic: BOOLEAN, turns: 1..MaxTurns, parallel: BOOLEAN,
            client: SUBSET Calls, rejected: SUBSET Calls]

ASSUME ToolAssumption ==
    /\ Requests \subseteq Request
    /\ ToolType \in [Calls -> {"function", "mcp", "search"}]

VARIABLES
    req,    \* the request
    pc,     \* where the handler's goroutine is
    turn,   \* the current turn
    seq,    \* streamState.seq
    st,     \* the rest of streamState
    msg,    \* the text item of this turn: added, and with a non-empty text
    calls,  \* toolCallItems of this turn, in the order they were completed
    tools,  \* the tool goroutines of this turn
    acked   \* a DELETE was answered from the registry

engineVars == <<pc, turn, seq, st, msg, calls>>

vars == <<ctx, prod, conn, writerVars, engineVars, tools, acked, req>>

PcStates == {"start", "turn", "connect", "consume", "decide", "tools",
             "return", "error", "report", "ended"}

NoMessage == [added |-> FALSE, text |-> FALSE]

NoTool == [pc |-> "idle", left |-> 0, n |-> 0, ran |-> FALSE,
           item |-> NoItem, index |-> 0]

-----------------------------------------------------------------------------
(***************************************************************************)
(* The engine writes events, numbered by nextSeq, and goes on; a failed    *)
(* write ends it with an error.                                            *)
(***************************************************************************)
Emit(events, next) ==
    /\ \E ok \in BOOLEAN :
          /\ Write(Numbered(events, seq), ok)
          /\ pc' = IF ok THEN next ELSE "error"
    /\ seq' = seq + Len(events)

Terminate(type) == Emit(<<ResponseEvent(type)>>, "return")

Goto(label) == pc' = label /\ UNCHANGED <<seq, writerVars>>

Opening == <<ResponseEvent("created"), ResponseEvent("in_progress")>>

(***************************************************************************)
(* The agentic loop announces the response before it calls the provider,   *)
(* the direct path after.                                                  *)
(***************************************************************************)
Start ==
    /\ pc = "start"
    /\ IF req.agentic THEN Emit(Opening, "turn") ELSE Goto("connect")
    /\ UNCHANGED <<ctx, prod, conn, turn, st, msg, calls, tools, acked, req>>

TurnStart ==
    /\ pc = "turn"
    /\ IF turn > req.turns THEN Terminate("incomplete")
       ELSE IF ctx THEN Terminate("cancelled") ELSE Goto("connect")
    /\ UNCHANGED <<ctx, prod, conn, turn, st, msg, calls, tools, acked, req>>

Connect ==
    /\ pc = "connect"
    /\ OpenStream(turn)
    /\ IF req.agentic THEN Goto("consume") ELSE Emit(Opening, "consume")
    /\ msg' = NoMessage
    /\ calls' = <<>>
    /\ UNCHANGED <<ctx, conn, turn, st, tools, acked, req>>

ConnectFails ==
    /\ pc = "connect"
    /\ BackendErrors \/ ctx
    /\ IF ~req.agentic THEN Goto("error")
       ELSE Terminate(IF ctx THEN "cancelled" ELSE "failed")
    /\ UNCHANGED <<ctx, prod, conn, turn, st, msg, calls, tools, acked, req>>

-----------------------------------------------------------------------------
(***************************************************************************)
(* The loops over the provider's channel, in handleStreaming and in        *)
(* consumeStreamTurn.                                                      *)
(***************************************************************************)
Receivable == pc = "consume" /\ prod[turn].chan # <<>>

Received == Head(prod[turn].chan)

Receive == prod' = [prod EXCEPT ![turn].chan = Tail(@)]

\* Variant with a bug: the terminal event carries no sequence number.
RecvCancelledUnnumbered ==
    /\ Receivable /\ ctx
    /\ Receive
    /\ IF req.agentic THEN Goto("error")
       ELSE /\ \E ok \in BOOLEAN :
                 /\ Write(Numbered(<<ResponseEvent("cancelled")>>, 0), ok)
                 /\ pc' = IF ok THEN "return" ELSE "error"
            /\ UNCHANGED seq
    /\ UNCHANGED <<ctx, conn, turn, st, msg, calls, tools, acked, req>>

\* The direct path reports the cancellation itself, the loop returns ctx.Err.
RecvCancelled ==
    /\ Receivable /\ ctx
    /\ Receive
    /\ IF req.agentic THEN Goto("error") ELSE Terminate("cancelled")
    /\ UNCHANGED <<ctx, conn, turn, st, msg, calls, tools, acked, req>>

\* Likewise for an error of the provider.
RecvError ==
    /\ Receivable /\ ~ctx
    /\ Received.kind = "error"
    /\ Receive
    /\ IF req.agentic THEN Goto("error") ELSE Terminate("failed")
    /\ UNCHANGED <<ctx, conn, turn, st, msg, calls, tools, acked, req>>

\* emitItemLifecycleStart, at the index the state has; the loop advances it.
OpensText == ~msg.added /\ Received.kind \in {"role", "text", "textdone"}

Opened == IF OpensText /\ req.agentic THEN [st EXCEPT !.index = @ + 1] ELSE st

TextOpening ==
    IF OpensText THEN <<Event("added", TextItem(turn), Opened.index),
                        Event("part", TextItem(turn), Opened.index)>>
    ELSE <<>>

RecvDelta ==
    /\ Receivable /\ ~ctx
    /\ Received.kind \notin {"error", "done"}
    /\ LET mapped == MapProviderEvent(Received, Opened, turn)
       IN  /\ Emit(TextOpening \o mapped.events, "consume")
           /\ st' = mapped.st
    /\ Receive
    /\ msg' = [added |-> msg.added \/ OpensText,
               text |-> msg.text \/ Received.kind = "text"]
    /\ calls' = IF Received.kind = "calldone" /\ st.callIndex[Received.arg] # 0
                THEN Append(calls, Received.arg) ELSE calls
    /\ UNCHANGED <<ctx, conn, turn, tools, acked, req>>

(***************************************************************************)
(* The end of the text item.  emitStreamComplete always puts it at index   *)
(* 0; the loop closes it only if it has a text.                            *)
(***************************************************************************)
TextClosing ==
    IF req.agentic
    THEN IF msg.added /\ msg.text
         THEN <<Event("part", TextItem(turn), st.index),
                Event("part", TextItem(turn), st.index),
                Event("done", TextItem(turn), st.index)>>
         ELSE <<>>
    ELSE IF msg.added THEN <<Event("part", TextItem(turn), 0),
                             Event("done", TextItem(turn), 0)>>
    ELSE <<>>

\* Variant with a bug: the finish reason is ignored.
FinalStatusCompleted(status) == "completed"

FinalStatus(status) == status

RecvDone ==
    /\ Receivable /\ ~ctx
    /\ Received.kind = "done"
    /\ Receive
    /\ IF req.agentic THEN Emit(TextClosing, "decide")
       ELSE Emit(Append(TextClosing, ResponseEvent(FinalStatus(Received.arg))), "return")
    /\ UNCHANGED <<ctx, conn, turn, st, msg, calls, tools, acked, req>>

\* Variant with a bug: a stream that breaks off gets no terminal event.
RecvClosedSilently ==
    /\ pc = "consume"
    /\ prod[turn].chan = <<>> /\ prod[turn].phase = "ended"
    /\ Goto(IF req.agentic THEN "decide" ELSE "return")
    /\ UNCHANGED <<ctx, prod, conn, turn, st, msg, calls, tools, acked, req>>

\* The channel is closed without an end of the stream.
RecvClosed ==
    /\ pc = "consume"
    /\ prod[turn].chan = <<>> /\ prod[turn].phase = "ended"
    /\ IF req.agentic THEN Goto("decide")
       ELSE IF ctx THEN Terminate("cancelled")
       ELSE Emit(Append(TextClosing, ResponseEvent("incomplete")), "return")
    /\ UNCHANGED <<ctx, prod, conn, turn, st, msg, calls, tools, acked, req>>

-----------------------------------------------------------------------------
(***************************************************************************)
(* The agentic loop after a turn.  (A tool_choice of none never gets here: *)
(* CreateResponse sends it down the direct path.)                          *)
(***************************************************************************)
CallSet == {calls[k] : k \in 1..Len(calls)}

AllowedCalls == Kept(calls, Calls \ req.rejected)

ToolIndex(c) ==
    st.index + CHOOSE k \in 1..Len(AllowedCalls) : AllowedCalls[k] = c

\* The goroutine of a call, with the item and the index its events carry.
QueuedTool(c) ==
    [NoTool EXCEPT !.pc = "queued", !.item = CallItem(turn, c),
                   !.index = ToolIndex(c)]

Decide ==
    /\ pc = "decide"
    /\ \/ /\ calls = <<>>
          /\ Terminate("completed")
          /\ UNCHANGED tools
       \/ /\ CallSet \cap req.client # {}
          /\ Terminate("requires_action")
          /\ UNCHANGED tools
       \/ /\ calls # <<>>
          /\ CallSet \cap req.client = {}
          /\ Goto("tools")
          /\ tools' = [c \in Calls |-> IF c \in CallSet \ req.rejected
                                       THEN QueuedTool(c) ELSE NoTool]
    /\ UNCHANGED <<ctx, prod, conn, turn, st, msg, calls, acked, req>>

(***************************************************************************)
(* executeToolsWithEvents: in_progress (and searching) before a tool runs, *)
(* completed or failed after it.                                           *)
(***************************************************************************)
EventsBefore(c) ==
    IF ToolType[c] = "function" THEN 0 ELSE IF ToolType[c] = "mcp" THEN 1 ELSE 2

EventsAfter(c, ok) ==
    IF ToolType[c] = "mcp" \/ (ToolType[c] = "search" /\ ok) THEN 1 ELSE 0

\* After the remaining events of this phase the tool runs, or is done.
ToolNext(tool, left) ==
    [tool EXCEPT !.left = left,
                 !.pc = IF left > 0 THEN "load"
                        ELSE IF tool.ran THEN "done" ELSE "run"]

\* Without parallel_tool_calls the tools run one after the other.
ToolStart(c) ==
    /\ tools[c].pc = "queued"
    /\ req.parallel \/ \A d \in Calls : tools[d].index < tools[c].index
                                          => tools[d].pc \in {"idle", "done"}
    /\ tools' = [tools EXCEPT ![c] = ToolNext(@, EventsBefore(c))]
    /\ UNCHANGED <<ctx, prod, conn, writerVars, engineVars, acked, req>>

(***************************************************************************)
(* nextSeq without synchronisation: the number is read, then the counter   *)
(* is incremented, from the value read or from the one it has by then.     *)
(***************************************************************************)
ToolLoadSeq(c) ==
    /\ tools[c].pc = "load"
    /\ tools' = [tools EXCEPT ![c].n = seq, ![c].pc = "store"]
    /\ UNCHANGED <<ctx, prod, conn, writerVars, engineVars, acked, req>>

ToolStoreSeq(c) ==
    /\ tools[c].pc = "store"
    /\ seq' \in {tools[c].n + 1, seq + 1}
    /\ tools' = [tools EXCEPT ![c].pc = "write"]
    /\ UNCHANGED <<ctx, prod, conn, writerVars, pc, turn, st, msg, calls, acked, req>>

\* The outcome of the write is ignored.
ToolWrite(c) ==
    /\ tools[c].pc = "write"
    /\ \E ok \in BOOLEAN :
          Write(Numbered(<<Event("tool", tools[c].item, tools[c].index)>>,
                         tools[c].n), ok)
    /\ tools' = [tools EXCEPT ![c] = ToolNext(@, @.left - 1)]
    /\ UNCHANGED <<ctx, prod, conn, engineVars, acked, req>>

ToolRun(c) ==
    /\ tools[c].pc = "run"
    /\ \E ok \in BOOLEAN :
          tools' = [tools EXCEPT ![c] =
                      ToolNext([@ EXCEPT !.ran = TRUE], EventsAfter(c, ok))]
    /\ UNCHANGED <<ctx, prod, conn, writerVars, engineVars, acked, req>>

\* Variant with a bug: calls of tools that are not allowed get no result.
AllowedResults == AllowedCalls

Results == AllowedCalls \o Kept(calls, req.rejected)

ResultEvents ==
    [k \in 1..(2 * Len(Results)) |->
        LET r == (k + 1) \div 2
        IN  Event(IF k % 2 = 1 THEN "added" ELSE "done",
                  ResultItem(turn, Results[r]), st.index + r)]

\* Variant with a bug: the goroutines are not waited for.
ToolsNotAwaited ==
    /\ pc = "tools"
    /\ Emit(ResultEvents, "turn")
    /\ st' = [st EXCEPT !.index = @ + Len(Results), !.textStarted = FALSE,
                        !.callIndex = [c \in Calls |-> 0]]
    /\ turn' = turn + 1
    /\ UNCHANGED <<ctx, prod, conn, msg, calls, tools, acked, req>>

\* All tools have returned: their results are emitted and the next turn begins.
ToolsReturned ==
    /\ pc = "tools"
    /\ \A c \in Calls : tools[c].pc \in {"idle", "done"}
    /\ Emit(ResultEvents, "turn")
    /\ st' = [st EXCEPT !.index = @ + Len(Results), !.textStarted = FALSE,
                        !.callIndex = [c \in Calls |-> 0]]
    /\ turn' = turn + 1
    /\ UNCHANGED <<ctx, prod, conn, msg, calls, tools, acked, req>>

-----------------------------------------------------------------------------
\* Variant with a bug: the registry is cleaned only after a success.
CleanupOnSuccess ==
    /\ pc \in {"return", "error"}
    /\ registered' = (registered /\ pc = "error")
    /\ pc' = IF pc = "return" THEN "ended" ELSE "report"
    /\ ctx' = (ctx \/ pc = "return")
    /\ UNCHANGED <<prod, conn, writer, wire, turn, seq, st, msg, calls, tools, acked, req>>

(***************************************************************************)
(* The adapter, once CreateResponse has returned: the response leaves the  *)
(* registry, and at its end the handler cancels the context.               *)
(***************************************************************************)
Cleanup ==
    /\ pc \in {"return", "error"}
    /\ registered' = FALSE
    /\ pc' = IF pc = "return" THEN "ended" ELSE "report"
    /\ ctx' = (ctx \/ pc = "return")
    /\ UNCHANGED <<prod, conn, writer, wire, turn, seq, st, msg, calls, tools, acked, req>>

(***************************************************************************)
(* writeHandlerError: a JSON error if nothing was streamed, otherwise a    *)
(* failed event, whose sequence number is not set.                         *)
(***************************************************************************)
Report ==
    /\ pc = "report"
    /\ IF writer = "idle" THEN UNCHANGED writerVars
       ELSE \E ok \in BOOLEAN : Write(Numbered(<<ResponseEvent("failed")>>, 0), ok)
    /\ pc' = "ended"
    /\ ctx' = TRUE
    /\ UNCHANGED <<prod, conn, turn, seq, st, msg, calls, tools, acked, req>>

\* DELETE of a registered response: InFlightRegistry.Cancel, then 204.
Delete ==
    /\ registered
    /\ registered' = FALSE
    /\ ctx' = TRUE
    /\ acked' = TRUE
    /\ UNCHANGED <<prod, conn, writer, wire, engineVars, tools, req>>

\* The client goes away; the server then cancels the request's context.
ClientGone ==
    /\ conn = "up" /\ pc # "ended"
    /\ conn' = "gone"
    /\ UNCHANGED <<ctx, prod, writerVars, engineVars, tools, acked, req>>

ServerNotices ==
    /\ conn = "gone" /\ ~ctx
    /\ ctx' = TRUE
    /\ UNCHANGED <<prod, conn, writerVars, engineVars, tools, acked, req>>

-----------------------------------------------------------------------------
Init ==
    /\ WriterInit
    /\ req \in Requests
    /\ ctx = FALSE
    /\ prod = [t \in Turns |-> NoStream]
    /\ pc = "start"
    /\ turn = 1
    /\ seq = 0
    /\ st = InitStreamState
    /\ msg = NoMessage
    /\ calls = <<>>
    /\ tools = [c \in Calls |-> NoTool]
    /\ acked = FALSE

HandlerStep ==
    \/ Start \/ TurnStart \/ Connect \/ ConnectFails
    \/ RecvCancelled \/ RecvError \/ RecvDelta \/ RecvDone \/ RecvClosed
    \/ Decide \/ ToolsReturned
    \/ Cleanup \/ Report

ToolStep(c) ==
    ToolStart(c) \/ ToolLoadSeq(c) \/ ToolStoreSeq(c) \/ ToolWrite(c) \/ ToolRun(c)

Unchanged == UNCHANGED <<conn, writerVars, engineVars, tools, acked, req>>

BackendStep(t) == Read(t) /\ Unchanged

StreamStep(t) == (Send(t) \/ CloseStream(t)) /\ Unchanged

Next ==
    \/ HandlerStep
    \/ \E c \in Calls : ToolStep(c)
    \/ \E t \in Turns : BackendStep(t) \/ StreamStep(t)
    \/ Delete \/ ClientGone \/ ServerNotices

Spec == Init /\ [][Next]_vars

(***************************************************************************)
(* Goroutines are scheduled.  A call that opens a stream or runs a tool    *)
(* need not return while its context lives, and does once the context is   *)
(* cancelled; ToolServers has the one tool call that does not, behind a    *)
(* silent discovery.  A cancelled read of a body returns.  The backend     *)
(* owes nothing: a stream it has opened has no timeout and may stay silent.*)
(***************************************************************************)
FairSpec ==
    /\ Spec
    /\ WF_vars(HandlerStep /\ (pc # "connect" \/ ctx))
    /\ \A c \in Calls : WF_vars(ToolStep(c) /\ (tools[c].pc # "run" \/ ctx))
    /\ \A t \in Turns : WF_vars(StreamStep(t))
    /\ WF_vars(ServerNotices)

\* Moreover the backend goes on sending, and ends its streams.
LiveBackendSpec ==
    /\ FairSpec
    /\ \A t \in Turns : WF_vars(BackendStep(t))

-----------------------------------------------------------------------------
(***************************************************************************)
(* Properties.                                                             *)
(***************************************************************************)
Ending == IF wire = <<>> THEN None ELSE Last(wire).type

OnWire(type, item) == \E k \in 1..Len(wire) : wire[k].type = type /\ wire[k].item = item

\* Every variable has its type.
TypeOK ==
    /\ req \in Requests
    /\ ctx \in BOOLEAN /\ acked \in BOOLEAN /\ registered \in BOOLEAN
    /\ conn \in {"up", "gone"}
    /\ writer \in WriterStates
    /\ pc \in PcStates
    /\ turn \in 1..(MaxTurns + 1)
    /\ seq \in Nat
    /\ st \in StreamStates
    /\ \A k \in 1..Len(wire) : wire[k].type \in EventTypes
    /\ \A t \in Turns : Len(prod[t].chan) <= Cap
    /\ CallSet \subseteq Calls

(***************************************************************************)
(* A stream that was begun ends with exactly one terminal event, and with  *)
(* nothing after it, on every path: normal ends, provider errors,          *)
(* cancellation at any moment, failed writes (WriteEvent,                  *)
(* writeHandlerError).  Only a client that went away gets none.            *)
(***************************************************************************)
StreamAnswered ==
    /\ \A k \in 1..(Len(wire) - 1) : wire[k].type \notin TerminalTypes
    /\ pc = "ended" /\ conn = "up" /\ writer # "idle" => Ending \in TerminalTypes

(***************************************************************************)
(* The registry knows a response only while its handler works on it, so a  *)
(* DELETE is never acknowledged for a stream that has ended                *)
(* (handleStreamingResponse, InFlightRegistry).                            *)
(***************************************************************************)
RegistryClean == registered => pc \notin {"report", "ended"}

(***************************************************************************)
(* "Next sequence number (monotonically increasing from 0)": the events of *)
(* the direct path are numbered 0, 1, 2, ... on every path to the end      *)
(* (streamState.seq, nextSeq).                                             *)
(***************************************************************************)
SequenceIncreasing ==
    ~req.agentic => \A k \in 1..Len(wire) : wire[k].seq = k - 1

(***************************************************************************)
(* The direct path reports a response as completed only if the backend     *)
(* finished it: a stream cut off by the token limit or by the end of the   *)
(* connection is not (handleStreaming).  The one exception is a usage-only *)
(* chunk before the finish chunk, or in place of one that was skipped: it  *)
(* alone completes the response.  The agentic loop does not look at the    *)
(* finish reason.                                                          *)
(***************************************************************************)
TruncationReported ==
    ~req.agentic /\ Ending = "completed" =>
       prod[turn].finish = "completed" \/ prod[turn].usage = "early"

(***************************************************************************)
(* In a completed response of the direct path every message that was added *)
(* was also finished, and every tool call too, unless an early usage-only  *)
(* chunk completed the response with calls still buffered                  *)
(* (emitStreamComplete, FlushToolCalls).                                   *)
(***************************************************************************)
ItemsClosed ==
    ~req.agentic /\ Ending = "completed" =>
       \A k \in 1..Len(wire) :
          wire[k].type = "added" /\ wire[k].item # ReasoningItem
             => \/ OnWire("done", wire[k].item)
                \/ prod[turn].usage = "early" /\ wire[k].item # TextItem(turn)

(***************************************************************************)
(* When the agentic loop ends by itself, every tool call of every turn has *)
(* its result on the stream, rejected calls included                       *)
(* (runAgenticLoopStreaming, executeToolsWithEvents).                      *)
(***************************************************************************)
ToolCallsAnswered ==
    req.agentic /\ Ending \in {"completed", "incomplete"} =>
       \A t \in Turns, c \in Calls :
          OnWire("done", CallItem(t, c)) => OnWire("done", ResultItem(t, c))

(***************************************************************************)
(* The events of a tool precede the results of its turn, however the tool  *)
(* goroutines interleave: none of them outlives its turn                   *)
(* (executeToolsWithEvents).  And a tool event has a larger number than    *)
(* all events before it (FR-008 of 023) when the tools run one after the   *)
(* other; tools that run in parallel share nextSeq without a lock.         *)
(***************************************************************************)
ToolEventsOrdered ==
    /\ \A j, k \in 1..Len(wire) :
          /\ wire[j].item[1] = "result" /\ wire[k].type = "tool"
          /\ wire[j].item[2] >= wire[k].item[2]
          => k < j
    /\ \A j, k \in 1..Len(wire) :
          ~req.parallel /\ wire[k].type = "tool" /\ j < k
             => wire[j].seq < wire[k].seq

(***************************************************************************)
(* An acknowledged DELETE ends the stream, even when the backend stays     *)
(* silent and whatever the goroutines were doing.                          *)
(***************************************************************************)
CancelEnds == acked ~> pc = "ended"

-----------------------------------------------------------------------------
(***************************************************************************)
(* "Context cancellation stops reading immediately" (openaicompat): no     *)
(* reader of a body is left behind.  A reader blocked on a full channel    *)
(* does not look at the context.                                           *)
(***************************************************************************)
ReaderEnds ==
    \A t \in Turns : prod[t].phase = "reading" ~> prod[t].phase = "ended"

=============================================================================
