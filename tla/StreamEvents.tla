---------------------------- MODULE StreamEvents ----------------------------
(***************************************************************************)
(* How provider events become the events of a streamed response: the       *)
(* streamState and the map functions of pkg/engine/events.go.  Texts,      *)
(* arguments and payloads are left out; what remains of an event is its    *)
(* type, the item it belongs to and its output index.  "part" stands for   *)
(* the events that open or close a part of an item (content_part.added,    *)
(* content_part.done, output_text.done, reasoning.done, arguments.done).   *)
(***************************************************************************)
EXTENDS Naturals, Sequences

CONSTANT Calls      \* indexes of the tool calls of a turn

None == "none"

TerminalTypes ==
    {"completed", "failed", "cancelled", "requires_action", "incomplete"}

EventTypes ==
    {"created", "in_progress", "added", "part", "delta", "done", "tool"}
       \cup TerminalTypes

(***************************************************************************)
(* Items are named by kind, turn and call; the reasoning item is created   *)
(* once and kept for all turns.                                            *)
(***************************************************************************)
NoItem == <<None, 0, None>>

TextItem(turn) == <<"text", turn, None>>

ReasoningItem == <<"reasoning", 0, None>>

CallItem(turn, c) == <<"call", turn, c>>

ResultItem(turn, c) == <<"result", turn, c>>

Event(type, item, index) == [type |-> type, item |-> item, index |-> index]

ResponseEvent(type) == Event(type, NoItem, 0)

(***************************************************************************)
(* What the provider sends: text (role = its empty first chunk), reasoning *)
(* and tool call deltas, the end of a text or of a call, the end of the    *)
(* stream with its status, or an error.                                    *)
(***************************************************************************)
ProviderEvent(kind, arg) == [kind |-> kind, arg |-> arg]

(***************************************************************************)
(* streamState without its sequence number: the running output index, and  *)
(* what has been started.  callIndex is 0 for a call not yet started.      *)
(***************************************************************************)
StreamStates ==
    [index: Nat, textStarted: BOOLEAN, reasoning: {"none", "open", "done"},
     reasoningIndex: Nat, callIndex: [Calls -> Nat]]

InitStreamState ==
    [index |-> 0, textStarted |-> FALSE, reasoning |-> "none",
     reasoningIndex |-> 0, callIndex |-> [c \in Calls |-> 0]]

Mapped(events, st) == [events |-> events, st |-> st]

(***************************************************************************)
(* The reasoning item is closed once; only then does the index move on.    *)
(***************************************************************************)
MapReasoningDone(st) ==
    IF st.reasoning # "open" THEN Mapped(<<>>, st)
    ELSE Mapped(<<Event("part", ReasoningItem, st.reasoningIndex),
                  Event("done", ReasoningItem, st.reasoningIndex)>>,
                [st EXCEPT !.reasoning = "done", !.index = @ + 1])

MapReasoningDelta(st) ==
    LET opened == IF st.reasoning # "none" THEN st
                  ELSE [st EXCEPT !.reasoning = "open",
                                  !.reasoningIndex = st.index]
        delta == Event("delta", ReasoningItem, opened.reasoningIndex)
    IN  Mapped(IF st.reasoning # "none" THEN <<delta>>
               ELSE <<Event("added", ReasoningItem, opened.reasoningIndex), delta>>,
               opened)

\* Text after reasoning closes the reasoning item first.
MapTextDelta(st, turn) ==
    LET closed == MapReasoningDone(st)
    IN  Mapped(Append(closed.events,
                      Event("delta", TextItem(turn), closed.st.index)),
               [closed.st EXCEPT !.textStarted = TRUE])

MapTextDone(st, turn) ==
    Mapped(IF st.textStarted THEN <<Event("part", TextItem(turn), st.index)>>
           ELSE <<>>, st)

\* The first delta of a call opens its item at the next index.
MapToolCallDelta(st, turn, c) ==
    LET isNew == st.callIndex[c] = 0
        opened == IF isNew
                  THEN [st EXCEPT !.index = @ + 1, !.callIndex[c] = st.index + 1]
                  ELSE st
        delta == Event("delta", CallItem(turn, c), opened.callIndex[c])
    IN  Mapped(IF isNew
               THEN <<Event("added", CallItem(turn, c), opened.callIndex[c]), delta>>
               ELSE <<delta>>, opened)

MapToolCallDone(st, turn, c) ==
    Mapped(IF st.callIndex[c] = 0 THEN <<>>
           ELSE <<Event("part", CallItem(turn, c), st.callIndex[c]),
                  Event("done", CallItem(turn, c), st.callIndex[c])>>, st)

(***************************************************************************)
(* mapProviderEvent; done and error are handled by the engine.             *)
(***************************************************************************)
MapProviderEvent(ev, st, turn) ==
    CASE ev.kind = "reasoning" -> MapReasoningDelta(st)
      [] ev.kind = "role"      -> Mapped(<<>>, [st EXCEPT !.textStarted = TRUE])
      [] ev.kind = "text"      -> MapTextDelta(st, turn)
      [] ev.kind = "textdone"  -> MapTextDone(st, turn)
      [] ev.kind = "call"      -> MapToolCallDelta(st, turn, ev.arg)
      [] ev.kind = "calldone"  -> MapToolCallDone(st, turn, ev.arg)
      [] OTHER                 -> Mapped(<<>>, st)

=============================================================================
