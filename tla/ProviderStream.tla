--------------------------- MODULE ProviderStream ---------------------------
(***************************************************************************)
(* The goroutine that reads a backend's SSE stream and sends provider      *)
(* events over a buffered channel (pkg/provider/openaicompat, Stream,      *)
(* ParseSSEStream and TranslateChunk).  Each turn of a response has its    *)
(* own stream, goroutine and channel.                                      *)
(***************************************************************************)
EXTENDS StreamEvents, FiniteSets, SequencesExt

CONSTANTS
    MaxTurns,       \* the engine's limit on turns
    Cap,            \* capacity of the channel
    MaxChunks,      \* bound on the chunks with contents, over all turns
    Deltas,         \* kinds of text and reasoning chunks the backend sends
    Finishes,       \* item statuses its finish_reason is mapped to
    BackendErrors   \* whether calls and reads may fail

ASSUME ProviderAssumption ==
    /\ MaxTurns \in Nat \ {0}
    /\ Cap \in Nat \ {0}
    /\ MaxChunks \in Nat
    /\ Deltas \subseteq {"role", "text", "reasoning", "both"}
    /\ Finishes \subseteq {"completed", "incomplete"}
    /\ BackendErrors \in BOOLEAN

VARIABLES
    ctx,    \* the request's context has been cancelled
    prod    \* the stream of each turn

Turns == 1..MaxTurns

(***************************************************************************)
(* phase: reading the body, closing after the last chunk, ended (the       *)
(* channel is closed).  outbox: events of the current chunk still to be    *)
(* sent.  calls: buffered tool calls.  finish: status of the finish chunk. *)
(* usage: whether a usage-only chunk has come, before the finish chunk     *)
(* (early) or after it (late).  A chunk that cannot be parsed, the finish  *)
(* chunk too, is skipped: it changes nothing here.                         *)
(***************************************************************************)
NoStream == [phase |-> "none", outbox |-> <<>>, chan |-> <<>>, chunks |-> 0,
             calls |-> {}, finish |-> None, usage |-> None]

OpenStream(t) == prod' = [prod EXCEPT ![t] = [NoStream EXCEPT !.phase = "reading"]]

Chunk(t, events) == [prod[t] EXCEPT !.outbox = events]

ChunksRead == SumFunction([t \in Turns |-> prod[t].chunks])

\* The loop of ParseSSEStream: it looks at the context between lines.
Reading(t) ==
    /\ prod[t].phase = "reading" /\ prod[t].outbox = <<>>
    /\ ~ctx

TextEvents(kind) ==
    IF kind = "both" THEN <<ProviderEvent("reasoning", None), ProviderEvent("text", None)>>
    ELSE <<ProviderEvent(kind, None)>>

ReadDelta(t) ==
    /\ Reading(t)
    /\ prod[t].finish = None /\ ChunksRead < MaxChunks
    /\ \/ \E kind \in Deltas :
             prod' = [prod EXCEPT ![t] = [Chunk(t, TextEvents(kind)) EXCEPT
                                            !.chunks = @ + 1]]
       \/ \E c \in Calls :
             prod' = [prod EXCEPT ![t] =
                        [Chunk(t, <<ProviderEvent("call", c)>>) EXCEPT
                            !.chunks = @ + 1, !.calls = @ \cup {c}]]
    /\ UNCHANGED ctx

\* Variant with a bug: buffered calls are dropped when the stream finishes.
FlushNothing(order, status) ==
    <<ProviderEvent("textdone", None), ProviderEvent("done", status)>>

(***************************************************************************)
(* The chunk with the finish_reason: FlushToolCalls, in the random order   *)
(* of a map, then the end of the text and of the stream.                   *)
(***************************************************************************)
FinishEvents(order, status) ==
    [k \in 1..Len(order) |-> ProviderEvent("calldone", order[k])]
       \o <<ProviderEvent("textdone", None), ProviderEvent("done", status)>>

ReadFinish(t) ==
    /\ Reading(t)
    /\ prod[t].finish = None
    /\ \E status \in Finishes, order \in SetToSeqs(prod[t].calls) :
          prod' = [prod EXCEPT ![t] =
                     [Chunk(t, FinishEvents(order, status)) EXCEPT
                         !.finish = status, !.calls = {}]]
    /\ UNCHANGED ctx

(***************************************************************************)
(* A usage-only chunk: an end of the stream of its own, whenever it comes, *)
(* which flushes nothing.  The backend sends at most one.                  *)
(***************************************************************************)
ReadUsage(t) ==
    /\ Reading(t)
    /\ prod[t].usage = None
    /\ prod' = [prod EXCEPT ![t] =
                  [Chunk(t, <<ProviderEvent("done", "completed")>>) EXCEPT
                      !.usage = IF prod[t].finish = None THEN "early" ELSE "late"]]
    /\ UNCHANGED ctx

\* [DONE], or the end of the body with or without a finish chunk.
ReadEnd(t) ==
    /\ Reading(t)
    /\ prod' = [prod EXCEPT ![t].phase = "ended"]
    /\ UNCHANGED ctx

ReadFails(t) ==
    /\ BackendErrors
    /\ Reading(t)
    /\ prod' = [prod EXCEPT ![t].outbox = <<ProviderEvent("error", None)>>,
                            ![t].phase = "closing"]
    /\ UNCHANGED ctx

Read(t) ==
    ReadDelta(t) \/ ReadFinish(t) \/ ReadUsage(t) \/ ReadEnd(t) \/ ReadFails(t)

\* Variant with a bug: a send that does not wait for room in the channel.
SendUnbounded(t) ==
    /\ prod[t].outbox # <<>>
    /\ prod' = [prod EXCEPT ![t].outbox = Tail(@),
                            ![t].chan = Append(@, Head(prod[t].outbox))]
    /\ UNCHANGED ctx

(***************************************************************************)
(* A send blocks while the channel is full; it does not look at the        *)
(* context.                                                                *)
(***************************************************************************)
Send(t) ==
    /\ prod[t].outbox # <<>>
    /\ Len(prod[t].chan) < Cap
    /\ prod' = [prod EXCEPT ![t].outbox = Tail(@),
                            ![t].chan = Append(@, Head(prod[t].outbox))]
    /\ UNCHANGED ctx

\* Variant with a bug: the body is read without the request's context.
CloseWhenRead(t) ==
    /\ prod[t].phase = "closing" /\ prod[t].outbox = <<>>
    /\ prod' = [prod EXCEPT ![t].phase = "ended"]
    /\ UNCHANGED ctx

(***************************************************************************)
(* The goroutine closes the channel: after its last event, or when it sees *)
(* the context cancelled, which also aborts the read of the body.          *)
(***************************************************************************)
CloseStream(t) ==
    /\ prod[t].outbox = <<>>
    /\ prod[t].phase = "closing" \/ (prod[t].phase = "reading" /\ ctx)
    /\ prod' = [prod EXCEPT ![t].phase = "ended"]
    /\ UNCHANGED ctx

=============================================================================
