------------------------- MODULE EventStreamProofs --------------------------
(***************************************************************************)
(* Proofs about EventStream, for any number of turns and calls, channels   *)
(* of any capacity, and every request.                                     *)
(***************************************************************************)
EXTENDS EventStream, SequenceLemmas, FiniteSetTheorems

-----------------------------------------------------------------------------
(***************************************************************************)
(* Types.                                                                  *)
(***************************************************************************)
ItemKinds == {None, "text", "reasoning", "call", "result"}

Items == ItemKinds \X Nat \X (Calls \cup {None})

Events == [type: EventTypes, item: Items, index: Nat]

WireEvents == [type: EventTypes, item: Items, index: Nat, seq: Nat]

Statuses == {"completed", "incomplete"}

ProviderEvents ==
    [kind: {"role", "text", "reasoning", "textdone", "error"}, arg: {None}]
      \cup [kind: {"call", "calldone"}, arg: Calls]
      \cup [kind: {"done"}, arg: Statuses]

Streams ==
    [phase: {"none", "reading", "closing", "ended"},
     outbox: Seq(ProviderEvents), chan: Seq(ProviderEvents), chunks: Nat,
     calls: SUBSET Calls, finish: Statuses \cup {None},
     usage: {None, "early", "late"}]

Tools ==
    [pc: {"idle", "queued", "load", "store", "write", "run", "done"},
     left: Nat, n: Nat, ran: BOOLEAN, item: Items, index: Nat]

WriterTyped ==
    /\ conn \in {"up", "gone"}
    /\ writer \in WriterStates
    /\ wire \in Seq(WireEvents)
    /\ registered \in BOOLEAN

\* What a goroutine still has to report it has events left for.
ToolsTyped ==
    /\ tools \in [Calls -> Tools]
    /\ \A c \in Calls :
          tools[c].pc \in {"load", "store", "write"} => tools[c].left > 0

\* A stream is read in a turn, and the direct path has only one.
TurnTyped ==
    /\ pc \in PcStates
    /\ turn \in 1..(MaxTurns + 1)
    /\ pc \in {"connect", "consume", "decide", "tools"} => turn \in Turns
    /\ pc \in {"turn", "decide", "tools"} => req.agentic
    /\ ~req.agentic => turn = 1

StreamsTyped ==
    /\ prod \in [Turns -> Streams]
    /\ \A t \in Turns : Len(prod[t].chan) <= Cap /\ IsFiniteSet(prod[t].calls)

Typed ==
    /\ req \in Requests
    /\ ctx \in BOOLEAN /\ acked \in BOOLEAN
    /\ WriterTyped
    /\ TurnTyped
    /\ seq \in Nat
    /\ st \in StreamStates
    /\ msg \in [added: BOOLEAN, text: BOOLEAN]
    /\ calls \in Seq(Calls)
    /\ ToolsTyped
    /\ StreamsTyped

\* The fields of a request.
LEMMA RequestFields ==
    ASSUME req \in Requests
    PROVE  /\ req.agentic \in BOOLEAN /\ req.parallel \in BOOLEAN
           /\ req.turns \in 1..MaxTurns
           /\ req.client \subseteq Calls /\ req.rejected \subseteq Calls
BY ToolAssumption DEF Request

-----------------------------------------------------------------------------
(***************************************************************************)
(* Events.                                                                 *)
(***************************************************************************)
LEMMA ItemsTyped ==
    ASSUME NEW t \in Nat
    PROVE  /\ NoItem \in Items /\ TextItem(t) \in Items
           /\ ReasoningItem \in Items
           /\ \A c \in Calls : CallItem(t, c) \in Items /\ ResultItem(t, c) \in Items
BY DEF Items, ItemKinds, NoItem, TextItem, ReasoningItem, CallItem, ResultItem

LEMMA EventTyped ==
    ASSUME NEW type \in EventTypes, NEW item \in Items, NEW index \in Nat
    PROVE  Event(type, item, index) \in Events
BY DEF Event, Events

LEMMA ResponseEventTyped ==
    ASSUME NEW type \in EventTypes
    PROVE  ResponseEvent(type) \in Events
BY EventTyped, ItemsTyped DEF ResponseEvent

\* Numbering events keeps everything but their numbers.
LEMMA NumberedEvents ==
    ASSUME NEW events \in Seq(Events), NEW from \in Nat
    PROVE  /\ Numbered(events, from) \in Seq(WireEvents)
           /\ Len(Numbered(events, from)) = Len(events)
           /\ \A k \in 1..Len(events) :
                /\ Numbered(events, from)[k].type = events[k].type
                /\ Numbered(events, from)[k].item = events[k].item
                /\ Numbered(events, from)[k].seq = from + k - 1
<1>1. Len(events) \in Nat
  OBVIOUS
<1>2. ASSUME NEW k \in 1..Len(events)
      PROVE  /\ Numbered(events, from)[k].type = events[k].type
             /\ Numbered(events, from)[k].item = events[k].item
             /\ Numbered(events, from)[k].seq = from + k - 1
             /\ Numbered(events, from)[k] \in WireEvents
  <2>1. events[k] \in Events
    OBVIOUS
  <2>2. /\ events[k].type \in EventTypes /\ events[k].item \in Items
        /\ events[k].index \in Nat
    BY <2>1 DEF Events
  <2>3. from + k - 1 \in Nat
    BY <1>1
  <2>4. Numbered(events, from)[k] =
          [type |-> events[k].type, item |-> events[k].item,
           index |-> events[k].index, seq |-> from + k - 1]
    BY DEF Numbered
  <2> QED
    BY <2>2, <2>3, <2>4 DEF WireEvents
<1>3. Numbered(events, from) = [k \in 1..Len(events) |-> Numbered(events, from)[k]]
  BY DEF Numbered
<1>4. /\ Numbered(events, from) \in Seq(WireEvents)
      /\ Len(Numbered(events, from)) = Len(events)
  <2> DEFINE g == Numbered(events, from)
  <2>1. g = [k \in 1..Len(events) |-> g[k]]
    BY <1>3
  <2>2. \A k \in 1..Len(events) : g[k] \in WireEvents
    BY <1>2
  <2> HIDE DEF g
  <2>3. g \in [1..Len(events) -> WireEvents]
    BY <2>1, <2>2
  <2>4. g \in Seq(WireEvents) /\ Len(g) = Len(events)
    BY <1>1, <2>3
  <2> QED
    BY <2>4 DEF g
<1> QED
  BY <1>2, <1>4

LEMMA WriteTyped ==
    ASSUME WriterTyped, NEW events \in Seq(WireEvents), NEW ok \in BOOLEAN,
           Write(events, ok)
    PROVE  /\ wire' \in Seq(WireEvents)
           /\ writer' \in WriterStates
           /\ registered' \in BOOLEAN
<1>1. CASE UNCHANGED writerVars
  BY <1>1 DEF WriterTyped, writerVars
<1>2. CASE ~UNCHANGED writerVars
  <2>1. /\ wire' = IF conn = "up" THEN wire \o events ELSE wire
        /\ writer' \in {"completed", "streaming"}
        /\ registered' = (registered \/ Has(events, {"created"}))
    BY <1>2 DEF Write
  <2>2. Has(events, {"created"}) \in BOOLEAN
    BY DEF Has
  <2> QED
    BY <2>1, <2>2 DEF WriterTyped, WriterStates
<1> QED
  BY <1>1, <1>2

LEMMA EmitTyped ==
    ASSUME WriterTyped, seq \in Nat, NEW events \in Seq(Events), NEW next,
           Emit(events, next)
    PROVE  /\ wire' \in Seq(WireEvents)
           /\ writer' \in WriterStates
           /\ registered' \in BOOLEAN
           /\ pc' \in {next, "error"}
           /\ seq' = seq + Len(events)
           /\ seq' \in Nat
<1>1. PICK ok \in BOOLEAN :
         Write(Numbered(events, seq), ok) /\ pc' = IF ok THEN next ELSE "error"
  BY DEF Emit
<1>2. Numbered(events, seq) \in Seq(WireEvents)
  BY NumberedEvents
<1>3. seq' = seq + Len(events) /\ Len(events) \in Nat
  BY DEF Emit
<1> QED
  BY <1>1, <1>2, <1>3, WriteTyped

-----------------------------------------------------------------------------
(***************************************************************************)
(* What the map functions return.                                          *)
(***************************************************************************)
ItemEvents == {e \in Events : e.type \in {"added", "part", "delta", "done"}}

\* An item event opens or closes the item it belongs to, of this turn.
Opens(e, ev, t) ==
    e.type = "added" =>
      \/ e.item = ReasoningItem
      \/ ev.kind = "call" /\ e.item = CallItem(t, ev.arg)

Closes(e, ev, s, t) ==
    e.type = "done" =>
      \/ e.item = ReasoningItem
      \/ /\ ev.kind = "calldone" /\ s.callIndex[ev.arg] # 0
         /\ e.item = CallItem(t, ev.arg)

OfTurn(e, t) ==
    e.item \in {ReasoningItem, TextItem(t)} \cup {CallItem(t, c) : c \in Calls}

EventsMapped(events, ev, s, t) ==
    /\ events \in Seq(ItemEvents)
    /\ \A k \in 1..Len(events) :
          /\ Opens(events[k], ev, t)
          /\ Closes(events[k], ev, s, t)
          /\ OfTurn(events[k], t)

\* Calls stay started.
StateMapped(new, s) ==
    /\ new \in StreamStates
    /\ \A c \in Calls : s.callIndex[c] # 0 => new.callIndex[c] # 0

LEMMA ItemEventTyped ==
    ASSUME NEW type \in {"added", "part", "delta", "done"}, NEW item \in Items,
           NEW index \in Nat
    PROVE  /\ Event(type, item, index) \in ItemEvents
           /\ Event(type, item, index).type = type
           /\ Event(type, item, index).item = item
BY DEF Event, Events, ItemEvents, EventTypes

LEMMA StateFields ==
    ASSUME NEW s \in StreamStates
    PROVE  /\ s.index \in Nat /\ s.textStarted \in BOOLEAN
           /\ s.reasoning \in {"none", "open", "done"}
           /\ s.reasoningIndex \in Nat /\ s.callIndex \in [Calls -> Nat]
BY DEF StreamStates

\* Sequences of no, one and two item events.
LEMMA ShortSequences ==
    ASSUME NEW ev, NEW s, NEW t, NEW a, NEW b
    PROVE  /\ EventsMapped(<< >>, ev, s, t)
           /\ a \in ItemEvents /\ Opens(a, ev, t) /\ Closes(a, ev, s, t)
                /\ OfTurn(a, t)
                => EventsMapped(<<a>>, ev, s, t)
           /\ a \in ItemEvents /\ Opens(a, ev, t) /\ Closes(a, ev, s, t)
                /\ OfTurn(a, t)
                /\ b \in ItemEvents /\ Opens(b, ev, t) /\ Closes(b, ev, s, t)
                /\ OfTurn(b, t)
                => EventsMapped(<<a, b>>, ev, s, t)
BY DEF EventsMapped

LEMMA ReasoningDoneMapped ==
    ASSUME NEW ev, NEW s \in StreamStates, NEW t \in Nat
    PROVE  /\ EventsMapped(MapReasoningDone(s).events, ev, s, t)
           /\ StateMapped(MapReasoningDone(s).st, s)
<1> DEFINE a == Event("part", ReasoningItem, s.reasoningIndex)
           b == Event("done", ReasoningItem, s.reasoningIndex)
<1>1. /\ a \in ItemEvents /\ a.type = "part" /\ a.item = ReasoningItem
      /\ b \in ItemEvents /\ b.type = "done" /\ b.item = ReasoningItem
  <2>1. ReasoningItem \in Items /\ s.reasoningIndex \in Nat
    BY StateFields, ItemsTyped
  <2> QED
    BY <2>1, ItemEventTyped, SMTT(30)
<1>2. EventsMapped(<<a, b>>, ev, s, t) /\ EventsMapped(<< >>, ev, s, t)
  <2> HIDE DEF a, b
  <2> QED
    BY <1>1, ShortSequences DEF Opens, Closes, OfTurn
<1>3. StateMapped([s EXCEPT !.reasoning = "done", !.index = @ + 1], s)
  <2> DEFINE new == [s EXCEPT !.reasoning = "done", !.index = @ + 1]
  <2>1. s.index + 1 \in Nat
    BY StateFields
  <2>2. new \in StreamStates
    BY <2>1 DEF StreamStates
  <2>3. new.callIndex = s.callIndex
    BY DEF StreamStates
  <2> QED
    BY <2>2, <2>3 DEF StateMapped
<1>4. StateMapped(s, s)
  BY DEF StateMapped
<1> QED
  BY <1>2, <1>3, <1>4 DEF MapReasoningDone, Mapped

LEMMA ReasoningDeltaMapped ==
    ASSUME NEW ev, NEW s \in StreamStates, NEW t \in Nat
    PROVE  /\ EventsMapped(MapReasoningDelta(s).events, ev, s, t)
           /\ StateMapped(MapReasoningDelta(s).st, s)
<1> DEFINE opened == IF s.reasoning # "none" THEN s
                     ELSE [s EXCEPT !.reasoning = "open",
                                    !.reasoningIndex = s.index]
           a == Event("added", ReasoningItem, opened.reasoningIndex)
           b == Event("delta", ReasoningItem, opened.reasoningIndex)
<1>1. StateMapped(opened, s)
  BY StateFields DEF StateMapped, StreamStates
<1>2. opened.reasoningIndex \in Nat
  BY <1>1, StateFields DEF StateMapped
<1> HIDE DEF opened
<1>3. /\ a \in ItemEvents /\ a.type = "added" /\ a.item = ReasoningItem
      /\ b \in ItemEvents /\ b.type = "delta" /\ b.item = ReasoningItem
  <2>1. ReasoningItem \in Items
    BY ItemsTyped
  <2> QED
    BY <1>2, <2>1, ItemEventTyped, SMTT(30)
<1>4. EventsMapped(<<a, b>>, ev, s, t) /\ EventsMapped(<<b>>, ev, s, t)
  <2> HIDE DEF a, b
  <2> QED
    BY <1>3, ShortSequences DEF Opens, Closes, OfTurn
<1> QED
  BY <1>1, <1>4 DEF MapReasoningDelta, Mapped, opened

LEMMA TextDeltaMapped ==
    ASSUME NEW ev, NEW s \in StreamStates, NEW t \in Nat
    PROVE  /\ EventsMapped(MapTextDelta(s, t).events, ev, s, t)
           /\ StateMapped(MapTextDelta(s, t).st, s)
<1> DEFINE closed == MapReasoningDone(s)
           a == Event("delta", TextItem(t), closed.st.index)
<1>1. /\ EventsMapped(closed.events, ev, s, t)
      /\ StateMapped(closed.st, s)
  BY ReasoningDoneMapped
<1>2. closed.st \in StreamStates /\ closed.st.index \in Nat
  BY <1>1, StateFields DEF StateMapped
<1> HIDE DEF closed
<1>3. a \in ItemEvents /\ a.type = "delta" /\ a.item = TextItem(t)
  <2>1. TextItem(t) \in Items
    BY ItemsTyped
  <2> QED
    BY <1>2, <2>1, ItemEventTyped, SMTT(30)
<1>4. EventsMapped(Append(closed.events, a), ev, s, t)
  <2> HIDE DEF a
  <2> QED
    BY <1>1, <1>3 DEF EventsMapped, Opens, Closes, OfTurn
<1>5. StateMapped([closed.st EXCEPT !.textStarted = TRUE], s)
  BY <1>1, <1>2, StateFields DEF StateMapped, StreamStates
<1> QED
  BY <1>4, <1>5 DEF MapTextDelta, Mapped, closed

LEMMA TextDoneMapped ==
    ASSUME NEW ev, NEW s \in StreamStates, NEW t \in Nat
    PROVE  /\ EventsMapped(MapTextDone(s, t).events, ev, s, t)
           /\ StateMapped(MapTextDone(s, t).st, s)
<1> DEFINE a == Event("part", TextItem(t), s.index)
<1>1. a \in ItemEvents /\ a.type = "part" /\ a.item = TextItem(t)
  <2>1. TextItem(t) \in Items /\ s.index \in Nat
    BY StateFields, ItemsTyped
  <2> QED
    BY <2>1, ItemEventTyped, SMTT(30)
<1>2. EventsMapped(<<a>>, ev, s, t) /\ EventsMapped(<< >>, ev, s, t)
  <2> HIDE DEF a
  <2> QED
    BY <1>1, ShortSequences DEF Opens, Closes, OfTurn
<1>3. StateMapped(s, s)
  BY DEF StateMapped
<1> QED
  BY <1>2, <1>3 DEF MapTextDone, Mapped

LEMMA CallDeltaMapped ==
    ASSUME NEW c \in Calls, NEW ev, ev.kind = "call", ev.arg = c,
           NEW s \in StreamStates, NEW t \in Nat
    PROVE  /\ EventsMapped(MapToolCallDelta(s, t, c).events, ev, s, t)
           /\ StateMapped(MapToolCallDelta(s, t, c).st, s)
           /\ MapToolCallDelta(s, t, c).st.callIndex[c] # 0
<1> DEFINE opened == IF s.callIndex[c] = 0
                     THEN [s EXCEPT !.index = @ + 1,
                                    !.callIndex[c] = s.index + 1]
                     ELSE s
           a == Event("added", CallItem(t, c), opened.callIndex[c])
           b == Event("delta", CallItem(t, c), opened.callIndex[c])
<1>1. StateMapped(opened, s) /\ opened.callIndex[c] # 0
  <2>1. CASE s.callIndex[c] # 0
    BY <2>1 DEF StateMapped
  <2>2. CASE s.callIndex[c] = 0
    <3> DEFINE started == [s.callIndex EXCEPT ![c] = s.index + 1]
    <3>1. s.index + 1 \in Nat /\ s.index + 1 # 0
      BY StateFields
    <3>2. started \in [Calls -> Nat]
      BY <3>1, StateFields
    <3>3. /\ started[c] # 0
          /\ \A d \in Calls : s.callIndex[d] # 0 => started[d] # 0
      BY <3>1, StateFields
    <3>4. opened = [s EXCEPT !.index = s.index + 1, !.callIndex = started]
      BY <2>2 DEF StreamStates
    <3> HIDE DEF started, opened
    <3>5. opened \in StreamStates /\ opened.callIndex = started
      BY <3>1, <3>2, <3>4 DEF StreamStates
    <3> QED
      BY <3>3, <3>5 DEF StateMapped
  <2> QED
    BY <2>1, <2>2
<1>2. opened.callIndex[c] \in Nat
  BY <1>1, StateFields DEF StateMapped
<1> HIDE DEF opened
<1>3. /\ a \in ItemEvents /\ a.type = "added" /\ a.item = CallItem(t, c)
      /\ b \in ItemEvents /\ b.type = "delta" /\ b.item = CallItem(t, c)
  <2>1. CallItem(t, c) \in Items
    BY ItemsTyped
  <2> QED
    BY <1>2, <2>1, ItemEventTyped, SMTT(30)
<1>4. EventsMapped(<<a, b>>, ev, s, t) /\ EventsMapped(<<b>>, ev, s, t)
  <2> HIDE DEF a, b
  <2> QED
    BY <1>3, ShortSequences DEF Opens, Closes, OfTurn
<1> QED
  BY <1>1, <1>4 DEF MapToolCallDelta, Mapped, opened

LEMMA CallDoneMapped ==
    ASSUME NEW c \in Calls, NEW ev, ev.kind = "calldone", ev.arg = c,
           NEW s \in StreamStates, NEW t \in Nat
    PROVE  /\ EventsMapped(MapToolCallDone(s, t, c).events, ev, s, t)
           /\ StateMapped(MapToolCallDone(s, t, c).st, s)
           /\ s.callIndex[c] # 0 =>
                \E k \in 1..Len(MapToolCallDone(s, t, c).events) :
                   /\ MapToolCallDone(s, t, c).events[k].type = "done"
                   /\ MapToolCallDone(s, t, c).events[k].item = CallItem(t, c)
<1> DEFINE a == Event("part", CallItem(t, c), s.callIndex[c])
           b == Event("done", CallItem(t, c), s.callIndex[c])
<1>1. s.callIndex[c] \in Nat
  BY StateFields
<1>2. /\ a \in ItemEvents /\ a.type = "part" /\ a.item = CallItem(t, c)
      /\ b \in ItemEvents /\ b.type = "done" /\ b.item = CallItem(t, c)
  <2>1. CallItem(t, c) \in Items
    BY ItemsTyped
  <2> QED
    BY <1>1, <2>1, ItemEventTyped, SMTT(30)
<1>3. StateMapped(s, s)
  BY DEF StateMapped
<1>4. CASE s.callIndex[c] = 0
  <2>1. MapToolCallDone(s, t, c) = Mapped(<< >>, s)
    BY <1>4 DEF MapToolCallDone
  <2>2. /\ MapToolCallDone(s, t, c).events = << >>
        /\ MapToolCallDone(s, t, c).st = s
    BY <2>1 DEF Mapped
  <2> QED
    BY <1>3, <1>4, <2>2, ShortSequences
<1>5. CASE s.callIndex[c] # 0
  <2>1. MapToolCallDone(s, t, c) = Mapped(<<a, b>>, s)
    BY <1>5 DEF MapToolCallDone
  <2> HIDE DEF a, b
  <2>2. EventsMapped(<<a, b>>, ev, s, t)
    BY <1>2, <1>5, ShortSequences DEF Opens, Closes, OfTurn
  <2>3. 2 \in 1..Len(<<a, b>>) /\ <<a, b>>[2] = b
    OBVIOUS
  <2> QED
    BY <1>2, <1>3, <2>1, <2>2, <2>3 DEF Mapped
<1> QED
  BY <1>4, <1>5

\* mapProviderEvent: item events of this turn, which open and close the item
\* of the call they are for.
LEMMA ProviderEventMapped ==
    ASSUME NEW ev \in ProviderEvents, NEW s \in StreamStates, NEW t \in Nat,
           NEW m, m = MapProviderEvent(ev, s, t)
    PROVE  /\ EventsMapped(m.events, ev, s, t)
           /\ StateMapped(m.st, s)
           /\ ev.kind = "call" => m.st.callIndex[ev.arg] # 0
           /\ ev.kind = "calldone" /\ s.callIndex[ev.arg] # 0 =>
                \E k \in 1..Len(m.events) :
                   /\ m.events[k].type = "done"
                   /\ m.events[k].item = CallItem(t, ev.arg)
<1>1. CASE ev.kind = "reasoning"
  BY <1>1, ReasoningDeltaMapped DEF MapProviderEvent
<1>2. CASE ev.kind = "role"
  <2> DEFINE new == [s EXCEPT !.textStarted = TRUE]
  <2>1. m = Mapped(<< >>, new)
    BY <1>2 DEF MapProviderEvent
  <2>2. StateMapped(new, s)
    BY StateFields DEF StateMapped, StreamStates
  <2> HIDE DEF new
  <2>3. m.events = << >> /\ m.st = new
    BY <2>1 DEF Mapped
  <2> QED
    BY <1>2, <2>2, <2>3, ShortSequences
<1>3. CASE ev.kind = "text"
  BY <1>3, TextDeltaMapped DEF MapProviderEvent
<1>4. CASE ev.kind = "textdone"
  BY <1>4, TextDoneMapped DEF MapProviderEvent
<1>5. CASE ev.kind = "call"
  <2>1. ev.arg \in Calls
    BY <1>5 DEF ProviderEvents
  <2>2. m = MapToolCallDelta(s, t, ev.arg)
    BY <1>5 DEF MapProviderEvent
  <2> QED
    BY <1>5, <2>1, <2>2, CallDeltaMapped
<1>6. CASE ev.kind = "calldone"
  <2>1. ev.arg \in Calls
    BY <1>6 DEF ProviderEvents
  <2>2. m = MapToolCallDone(s, t, ev.arg)
    BY <1>6 DEF MapProviderEvent
  <2> QED
    BY <1>6, <2>1, <2>2, CallDoneMapped
<1>7. CASE ev.kind \in {"error", "done"}
  <2>1. m = Mapped(<< >>, s)
    BY <1>7 DEF MapProviderEvent
  <2>2. StateMapped(s, s)
    BY DEF StateMapped
  <2>3. m.events = << >> /\ m.st = s
    BY <2>1 DEF Mapped
  <2> QED
    BY <1>7, <2>2, <2>3, ShortSequences
<1> QED
  BY <1>1, <1>2, <1>3, <1>4, <1>5, <1>6, <1>7 DEF ProviderEvents

-----------------------------------------------------------------------------
(***************************************************************************)
(* The provider's streams keep their types.                                *)
(***************************************************************************)
LEMMA StreamFields ==
    ASSUME StreamsTyped, NEW t \in Turns
    PROVE  /\ prod[t] \in Streams
           /\ prod[t].phase \in {"none", "reading", "closing", "ended"}
           /\ prod[t].outbox \in Seq(ProviderEvents)
           /\ prod[t].chan \in Seq(ProviderEvents)
           /\ prod[t].chunks \in Nat
           /\ prod[t].calls \subseteq Calls
           /\ prod[t].finish \in Statuses \cup {None}
           /\ prod[t].usage \in {None, "early", "late"}
           /\ Len(prod[t].chan) <= Cap
           /\ IsFiniteSet(prod[t].calls)
<1>1. prod[t] \in Streams /\ Len(prod[t].chan) <= Cap /\ IsFiniteSet(prod[t].calls)
  BY DEF StreamsTyped
<1> QED
  BY <1>1 DEF Streams

LEMMA StreamReplaced ==
    ASSUME StreamsTyped, NEW t \in Turns, NEW s \in Streams,
           Len(s.chan) <= Cap, IsFiniteSet(s.calls),
           prod' = [prod EXCEPT ![t] = s]
    PROVE  StreamsTyped'
BY DEF StreamsTyped

LEMMA ProviderEventsTyped ==
    /\ \A kind \in {"role", "text", "reasoning", "textdone", "error"} :
          ProviderEvent(kind, None) \in ProviderEvents
    /\ \A kind \in {"call", "calldone"} : \A c \in Calls :
          ProviderEvent(kind, c) \in ProviderEvents
    /\ \A status \in Statuses : ProviderEvent("done", status) \in ProviderEvents
BY DEF ProviderEvent, ProviderEvents

LEMMA OpenTyped ==
    ASSUME StreamsTyped, NEW t \in Turns, OpenStream(t)
    PROVE  StreamsTyped'
<1> DEFINE s == [NoStream EXCEPT !.phase = "reading"]
<1>1. s \in Streams /\ s.chan = << >> /\ s.calls = {}
  <2> DEFINE nothing == << >>
             none == {}
  <2>1. nothing \in Seq(ProviderEvents) /\ none \in SUBSET Calls
    OBVIOUS
  <2>2. NoStream = [phase |-> "none", outbox |-> nothing, chan |-> nothing,
                    chunks |-> 0, calls |-> none, finish |-> None,
                    usage |-> None]
    BY DEF NoStream
  <2> SUFFICES s \in Streams /\ s.chan = nothing /\ s.calls = none
    OBVIOUS
  <2> HIDE DEF nothing, none
  <2>3. NoStream \in Streams /\ NoStream.chan = nothing /\ NoStream.calls = none
    BY <2>1, <2>2 DEF Streams
  <2> HIDE DEF NoStream
  <2> QED
    BY <2>3 DEF Streams
<1>2. prod' = [prod EXCEPT ![t] = s]
  BY DEF OpenStream
<1> HIDE DEF s
<1>3. Len(s.chan) <= Cap /\ IsFiniteSet(s.calls)
  BY <1>1, ProviderAssumption, FS_EmptySet
<1> QED
  BY <1>1, <1>2, <1>3, StreamReplaced

LEMMA ReceiveTyped ==
    ASSUME StreamsTyped, turn \in Turns, Receivable, Receive
    PROVE  StreamsTyped' /\ Received \in ProviderEvents
<1> DEFINE s == [prod[turn] EXCEPT !.chan = Tail(prod[turn].chan)]
<1>1. prod[turn].chan \in Seq(ProviderEvents) /\ prod[turn].chan # << >>
  BY StreamFields DEF Receivable
<1>2. /\ Tail(prod[turn].chan) \in Seq(ProviderEvents)
      /\ Len(Tail(prod[turn].chan)) <= Len(prod[turn].chan)
      /\ Head(prod[turn].chan) \in ProviderEvents
  BY <1>1
<1>3. s \in Streams /\ s.chan = Tail(prod[turn].chan) /\ s.calls = prod[turn].calls
  BY <1>2, StreamFields DEF Streams
<1>4. prod' = [prod EXCEPT ![turn] = s]
  BY DEF Receive
<1>5. Len(s.chan) <= Cap /\ IsFiniteSet(s.calls)
  <2>1. Len(prod[turn].chan) \in Nat /\ Len(s.chan) \in Nat
    BY <1>1, <1>2, <1>3
  <2> QED
    BY <2>1, <1>2, <1>3, StreamFields, ProviderAssumption
<1> HIDE DEF s
<1>6. StreamsTyped'
  BY <1>3, <1>4, <1>5, StreamReplaced
<1> QED
  BY <1>2, <1>6 DEF Received

LEMMA TextEventsTyped ==
    ASSUME NEW kind \in Deltas
    PROVE  TextEvents(kind) \in Seq(ProviderEvents)
BY ProviderAssumption, ProviderEventsTyped DEF TextEvents

\* The calls of a finished stream are flushed in some order, each one once.
LEMMA FinishEventsTyped ==
    ASSUME NEW S \in SUBSET Calls, IsFiniteSet(S), NEW order \in SetToSeqs(S),
           NEW status \in Statuses
    PROVE  /\ order \in Seq(S)
           /\ \A c \in S : \E k \in 1..Len(order) : order[k] = c
           /\ FinishEvents(order, status) \in Seq(ProviderEvents)
           /\ Len(FinishEvents(order, status)) = Len(order) + 2
           /\ \A k \in 1..Len(order) :
                 FinishEvents(order, status)[k] = ProviderEvent("calldone", order[k])
           /\ FinishEvents(order, status)[Len(order) + 1] =
                 ProviderEvent("textdone", None)
           /\ FinishEvents(order, status)[Len(order) + 2] =
                 ProviderEvent("done", status)
<1> DEFINE n == Cardinality(S)
<1>1. n \in Nat
  BY FS_CardinalityType
<1>2. order \in [1..n -> S] /\ \A i, j \in 1..n : i # j => order[i] # order[j]
  BY DEF SetToSeqs
<1> HIDE DEF n
<1>3. order \in Seq(S) /\ Len(order) = n
  BY <1>1, <1>2
<1>4. \A c \in S : \E k \in 1..n : order[k] = c
  <2>1. order \in Injection(1..n, S)
    BY <1>2 DEF Injection, IsInjective
  <2>2. IsFiniteSet(1..n) /\ Cardinality(1..n) = n
    BY <1>1, FS_Interval
  <2>3. order \in Surjection(1..n, S)
    BY <2>1, <2>2, FS_Injection DEF n
  <2> QED
    BY <2>3 DEF Surjection
<1> DEFINE flushed == [k \in 1..Len(order) |-> ProviderEvent("calldone", order[k])]
           last == <<ProviderEvent("textdone", None), ProviderEvent("done", status)>>
<1>5. flushed \in Seq(ProviderEvents) /\ Len(flushed) = Len(order)
  <2>1. \A k \in 1..Len(order) : ProviderEvent("calldone", order[k]) \in ProviderEvents
    BY <1>3, ProviderEventsTyped
  <2>2. flushed \in [1..Len(order) -> ProviderEvents]
    BY <2>1
  <2> HIDE DEF flushed
  <2> QED
    BY <1>3, <2>2
<1>6. last \in Seq(ProviderEvents) /\ Len(last) = 2
  BY ProviderEventsTyped
<1>7. /\ last[1] = ProviderEvent("textdone", None)
      /\ last[2] = ProviderEvent("done", status)
  OBVIOUS
<1>8. FinishEvents(order, status) = flushed \o last
  BY DEF FinishEvents
<1>9. \A k \in 1..Len(order) : flushed[k] = ProviderEvent("calldone", order[k])
  OBVIOUS
<1> HIDE DEF flushed, last
<1>10. /\ flushed \o last \in Seq(ProviderEvents)
       /\ Len(flushed \o last) = Len(order) + 2
       /\ \A k \in 1..Len(order) : (flushed \o last)[k] = flushed[k]
       /\ (flushed \o last)[Len(order) + 1] = last[1]
       /\ (flushed \o last)[Len(order) + 2] = last[2]
  <2>1. 1 \in 1..Len(last) /\ 2 \in 1..Len(last)
    BY <1>6
  <2>2. /\ flushed \o last \in Seq(ProviderEvents)
        /\ Len(flushed \o last) = Len(flushed) + Len(last)
        /\ \A k \in 1..Len(flushed) : (flushed \o last)[k] = flushed[k]
        /\ \A k \in 1..Len(last) :
              (flushed \o last)[Len(flushed) + k] = last[k]
    <3>1. flushed \in Seq(ProviderEvents) /\ last \in Seq(ProviderEvents)
      BY <1>5, <1>6
    <3> QED
      BY <3>1, ConcatElements
  <2> DEFINE joined == flushed \o last
  <2> HIDE DEF joined
  <2> SUFFICES /\ joined \in Seq(ProviderEvents)
               /\ Len(joined) = Len(order) + 2
               /\ \A k \in 1..Len(order) : joined[k] = flushed[k]
               /\ joined[Len(order) + 1] = last[1]
               /\ joined[Len(order) + 2] = last[2]
    BY DEF joined
  <2>3. /\ joined \in Seq(ProviderEvents)
        /\ Len(joined) = Len(flushed) + Len(last)
        /\ \A k \in 1..Len(flushed) : joined[k] = flushed[k]
        /\ \A k \in 1..Len(last) : joined[Len(flushed) + k] = last[k]
    BY <2>2 DEF joined
  <2> QED
    BY <1>5, <1>6, <2>1, <2>3
<1> QED
  BY <1>3, <1>4, <1>7, <1>8, <1>9, <1>10

(***************************************************************************)
(* What a step of the reader makes of the stream: s is the stream after    *)
(* it, new are the events it has to send.  The stream is finished by the   *)
(* chunk that flushes its calls and tells its status; what comes after     *)
(* that chunk, and a usage-only chunk at any time, flushes nothing.        *)
(***************************************************************************)
ReadNew(t, s, new) ==
    \/ /\ s.finish = None /\ prod[t].finish = None
       /\ prod[t].calls \subseteq s.calls
       /\ \A k \in 1..Len(new) :
             /\ new[k].kind \notin {"done", "calldone"}
             /\ new[k].kind = "call" => new[k].arg \in s.calls
    \/ /\ prod[t].finish = None /\ s.finish \in Statuses
       /\ Len(new) > 0 /\ new[Len(new)] = ProviderEvent("done", s.finish)
       /\ \A k \in 1..(Len(new) - 1) : new[k].kind \in {"calldone", "textdone"}
       /\ \A c \in prod[t].calls :
             \E k \in 1..(Len(new) - 1) : new[k] = ProviderEvent("calldone", c)
    \/ /\ s.finish = prod[t].finish /\ s.calls = prod[t].calls
       /\ \A k \in 1..Len(new) :
             \/ new[k].kind = "error"
             \/ prod[t].finish # None /\ new[k].kind = "done"
    \/ /\ s.usage = "early" /\ s.finish = prod[t].finish /\ s.calls = prod[t].calls
       /\ \A k \in 1..Len(new) : new[k].kind = "done"

ReadInto(t, s) ==
    /\ prod' = [prod EXCEPT ![t] = s]
    /\ prod[t].outbox = << >>
    /\ s.chan = prod[t].chan
    /\ IsFiniteSet(s.calls)
    /\ prod[t].usage # None => s.usage = prod[t].usage
    /\ ReadNew(t, s, s.outbox)

LEMMA ReadDeltaMoves ==
    ASSUME StreamsTyped, NEW t \in Turns, ReadDelta(t)
    PROVE  \E s \in Streams : ReadInto(t, s)
<1> DEFINE old == prod[t]
<1>1. /\ old \in Streams /\ old.outbox = << >> /\ old.finish = None
      /\ old.chunks + 1 \in Nat /\ old.calls \subseteq Calls /\ IsFiniteSet(old.calls)
  <2>1. old.outbox = << >> /\ old.finish = None
    BY DEF ReadDelta, Reading
  <2>2. /\ old \in Streams /\ old.chunks \in Nat /\ old.calls \subseteq Calls
        /\ IsFiniteSet(old.calls)
    BY StreamFields
  <2> HIDE DEF old
  <2> QED
    BY <2>1, <2>2
<1>2. CASE \E kind \in Deltas :
              prod' = [prod EXCEPT ![t] = [Chunk(t, TextEvents(kind)) EXCEPT
                                             !.chunks = @ + 1]]
  <2>1. PICK kind \in Deltas :
           prod' = [prod EXCEPT ![t] = [Chunk(t, TextEvents(kind)) EXCEPT
                                          !.chunks = @ + 1]]
    BY <1>2
  <2> DEFINE events == TextEvents(kind)
             s1 == Chunk(t, events)
             s == [Chunk(t, TextEvents(kind)) EXCEPT !.chunks = @ + 1]
  <2>2. /\ events \in Seq(ProviderEvents)
        /\ \A k \in 1..Len(events) : events[k].kind \notin {"done", "calldone", "call"}
    BY TextEventsTyped, ProviderAssumption DEF TextEvents, ProviderEvent
  <2>3. prod' = [prod EXCEPT ![t] = s]
    BY <2>1
  <2> HIDE DEF events
  <2>4. /\ s1 \in Streams /\ s1.chan = old.chan /\ s1.calls = old.calls
        /\ s1.chunks = old.chunks /\ s1.outbox = events /\ s1.finish = old.finish
        /\ s1.usage = old.usage
    BY <1>1, <2>2 DEF Chunk, Streams
  <2>5. s = [s1 EXCEPT !.chunks = old.chunks + 1]
    BY <2>4 DEF events
  <2> HIDE DEF s1, s
  <2>6. /\ s \in Streams /\ s.chan = old.chan /\ s.calls = old.calls
        /\ s.outbox = events /\ s.finish = old.finish
        /\ s.usage = old.usage
    BY <1>1, <2>4, <2>5 DEF Streams
  <2>7. ReadNew(t, s, s.outbox)
    BY <1>1, <2>2, <2>6 DEF ReadNew
  <2> QED
    BY <1>1, <2>3, <2>6, <2>7 DEF ReadInto
<1>3. CASE \E c \in Calls :
              prod' = [prod EXCEPT ![t] =
                         [Chunk(t, <<ProviderEvent("call", c)>>) EXCEPT
                            !.chunks = @ + 1, !.calls = @ \cup {c}]]
  <2>1. PICK c \in Calls :
           prod' = [prod EXCEPT ![t] =
                      [Chunk(t, <<ProviderEvent("call", c)>>) EXCEPT
                         !.chunks = @ + 1, !.calls = @ \cup {c}]]
    BY <1>3
  <2> DEFINE events == <<ProviderEvent("call", c)>>
             more == old.calls \cup {c}
             s1 == Chunk(t, events)
             s2 == [s1 EXCEPT !.chunks = old.chunks + 1]
             s == [Chunk(t, <<ProviderEvent("call", c)>>) EXCEPT
                      !.chunks = @ + 1, !.calls = @ \cup {c}]
  <2>2. /\ events \in Seq(ProviderEvents) /\ Len(events) = 1
        /\ events[1].kind = "call" /\ events[1].arg = c
    BY ProviderEventsTyped DEF ProviderEvent
  <2>3. more \subseteq Calls /\ IsFiniteSet(more) /\ old.calls \subseteq more /\ c \in more
    BY <1>1, FS_AddElement
  <2>4. prod' = [prod EXCEPT ![t] = s]
    BY <2>1
  <2> HIDE DEF events
  <2>5. /\ s1 \in Streams /\ s1.chan = old.chan /\ s1.calls = old.calls
        /\ s1.chunks = old.chunks /\ s1.outbox = events /\ s1.finish = old.finish
        /\ s1.usage = old.usage
    BY <1>1, <2>2 DEF Chunk, Streams
  <2>6. s = [s2 EXCEPT !.calls = more]
    BY <2>5 DEF events
  <2> HIDE DEF s1, s, more
  <2>7. /\ s2 \in Streams /\ s2.chan = old.chan /\ s2.calls = old.calls
        /\ s2.outbox = events /\ s2.finish = old.finish
        /\ s2.usage = old.usage
    BY <1>1, <2>5 DEF Streams
  <2> HIDE DEF s2
  <2>8. /\ s \in Streams /\ s.chan = old.chan /\ s.calls = more
        /\ s.outbox = events /\ s.finish = old.finish
        /\ s.usage = old.usage
    BY <2>3, <2>6, <2>7 DEF Streams
  <2>9. ReadNew(t, s, s.outbox)
    <3>1. \A k \in 1..Len(events) : events[k].kind = "call" /\ events[k].arg \in more
      BY <2>2, <2>3
    <3>2. \A k \in 1..Len(s.outbox) :
             /\ s.outbox[k].kind \notin {"done", "calldone"}
             /\ s.outbox[k].kind = "call" => s.outbox[k].arg \in s.calls
      BY <2>8, <3>1
    <3>3. s.finish = None /\ prod[t].finish = None /\ prod[t].calls \subseteq s.calls
      BY <1>1, <2>3, <2>8
    <3> QED
      BY <3>2, <3>3, Zenon DEF ReadNew
  <2> QED
    BY <1>1, <2>3, <2>4, <2>8, <2>9 DEF ReadInto
<1> QED
  BY <1>2, <1>3 DEF ReadDelta

LEMMA ReadFinishMoves ==
    ASSUME StreamsTyped, NEW t \in Turns, ReadFinish(t)
    PROVE  \E s \in Streams : ReadInto(t, s)
<1> DEFINE old == prod[t]
<1>1. PICK status \in Finishes, order \in SetToSeqs(old.calls) :
         prod' = [prod EXCEPT ![t] =
                    [Chunk(t, FinishEvents(order, status)) EXCEPT
                       !.finish = status, !.calls = {}]]
  BY DEF ReadFinish
<1>2. /\ old \in Streams /\ old.outbox = << >> /\ old.finish = None
      /\ old.calls \in SUBSET Calls /\ IsFiniteSet(old.calls)
  BY StreamFields DEF ReadFinish, Reading
<1>3. status \in Statuses
  BY ProviderAssumption DEF Statuses
<1> DEFINE events == FinishEvents(order, status)
           none == {}
           s1 == Chunk(t, events)
           s2 == [s1 EXCEPT !.finish = status]
           s == [Chunk(t, FinishEvents(order, status)) EXCEPT
                    !.finish = status, !.calls = {}]
<1>4. prod' = [prod EXCEPT ![t] = s]
  BY <1>1
<1>5. /\ order \in Seq(old.calls)
      /\ \A c \in old.calls : \E k \in 1..Len(order) : order[k] = c
      /\ events \in Seq(ProviderEvents)
      /\ Len(events) = Len(order) + 2
      /\ \A k \in 1..Len(order) : events[k] = ProviderEvent("calldone", order[k])
      /\ events[Len(order) + 1] = ProviderEvent("textdone", None)
      /\ events[Len(order) + 2] = ProviderEvent("done", status)
  BY <1>2, <1>3, FinishEventsTyped
<1>6. none \subseteq Calls /\ IsFiniteSet(none)
  BY FS_EmptySet
<1> HIDE DEF events
<1>7. /\ s1 \in Streams /\ s1.chan = old.chan /\ s1.outbox = events
      /\ s1.usage = old.usage
  BY <1>2, <1>5 DEF Chunk, Streams
<1>8. s = [s2 EXCEPT !.calls = none]
  BY DEF events
<1> HIDE DEF s1, s, none
<1>9. /\ s2 \in Streams /\ s2.chan = old.chan /\ s2.outbox = events
      /\ s2.finish = status /\ s2.usage = old.usage
  BY <1>3, <1>7 DEF Streams
<1> HIDE DEF s2
<1>10. /\ s \in Streams /\ s.chan = old.chan /\ s.outbox = events
       /\ s.finish = status /\ s.calls = none /\ s.usage = old.usage
  BY <1>6, <1>8, <1>9 DEF Streams
<1>11. ReadNew(t, s, s.outbox)
  <2>1. Len(order) \in Nat /\ Len(events) - 1 = Len(order) + 1
    BY <1>5
  <2>2. ASSUME NEW k \in 1..(Len(events) - 1)
        PROVE  events[k].kind \in {"calldone", "textdone"}
    <3>1. CASE k \in 1..Len(order)
      <4>1. events[k] = ProviderEvent("calldone", order[k])
        BY <1>5, <3>1, Zenon
      <4> QED
        BY <4>1 DEF ProviderEvent
    <3>2. CASE k = Len(order) + 1
      BY <1>5, <3>2 DEF ProviderEvent
    <3> QED
      BY <2>1, <3>1, <3>2
  <2>3. ASSUME NEW c \in old.calls
        PROVE  \E k \in 1..(Len(events) - 1) : events[k] = ProviderEvent("calldone", c)
    <3>1. PICK k \in 1..Len(order) : order[k] = c
      BY <1>5, Zenon
    <3>2. events[k] = ProviderEvent("calldone", c)
      BY <1>5, <3>1, Zenon
    <3>3. k \in 1..(Len(events) - 1)
      BY <2>1
    <3> QED
      BY <3>2, <3>3, Zenon
  <2>4. Len(events) > 0 /\ events[Len(events)] = ProviderEvent("done", status)
    BY <1>5, <2>1
  <2> QED
    BY <1>2, <1>3, <1>10, <2>2, <2>3, <2>4 DEF ReadNew
<1> QED
  BY <1>2, <1>4, <1>6, <1>10, <1>11 DEF ReadInto

LEMMA ReadMoves ==
    ASSUME StreamsTyped, NEW t \in Turns, Read(t)
    PROVE  \E s \in Streams : ReadInto(t, s)
<1> DEFINE old == prod[t]
<1>1. /\ old \in Streams /\ old.outbox = << >> /\ IsFiniteSet(old.calls)
  BY StreamFields DEF Read, ReadDelta, ReadFinish, ReadUsage, ReadEnd, ReadFails, Reading
<1>2. CASE ReadEnd(t)
  <2> DEFINE s == [old EXCEPT !.phase = "ended"]
  <2>1. prod' = [prod EXCEPT ![t] = s]
    BY <1>2 DEF ReadEnd
  <2>2. /\ s \in Streams /\ s.chan = old.chan /\ s.calls = old.calls
        /\ s.outbox = old.outbox /\ s.finish = old.finish
        /\ s.usage = old.usage
    BY <1>1 DEF Streams
  <2> HIDE DEF s
  <2>3. \A k \in 1..Len(s.outbox) : FALSE
    BY <1>1, <2>2
  <2>4. ReadNew(t, s, s.outbox)
    BY <2>2, <2>3 DEF ReadNew
  <2> QED
    BY <1>1, <2>1, <2>2, <2>4 DEF ReadInto
<1>3. ASSUME NEW e \in ProviderEvents,
             prod' = [prod EXCEPT ![t].outbox = <<e>>, ![t].phase = "closing"],
             e.kind = "error"
      PROVE  \E s \in Streams : ReadInto(t, s)
  <2> DEFINE events == <<e>>
             s1 == [old EXCEPT !.outbox = events]
             s == [s1 EXCEPT !.phase = "closing"]
  <2>1. prod' = [prod EXCEPT ![t] = s]
    BY <1>3 DEF StreamsTyped
  <2>2. events \in Seq(ProviderEvents) /\ Len(events) = 1 /\ events[1] = e
    OBVIOUS
  <2> HIDE DEF events
  <2>3. /\ s1 \in Streams /\ s1.chan = old.chan /\ s1.calls = old.calls
        /\ s1.outbox = events /\ s1.finish = old.finish
        /\ s1.usage = old.usage
    BY <1>1, <2>2 DEF Streams
  <2> HIDE DEF s1
  <2>4. /\ s \in Streams /\ s.chan = old.chan /\ s.calls = old.calls
        /\ s.outbox = events /\ s.finish = old.finish
        /\ s.usage = old.usage
    BY <2>3 DEF Streams
  <2> HIDE DEF s
  <2>5. ReadNew(t, s, s.outbox)
    <3>1. \A k \in 1..Len(events) : events[k] = e
      BY <2>2
    <3> QED
      BY <1>3, <2>4, <3>1 DEF ReadNew
  <2> QED
    BY <1>1, <2>1, <2>4, <2>5 DEF ReadInto
<1>4. CASE ReadUsage(t)
  <2> DEFINE when == IF old.finish = None THEN "early" ELSE "late"
             events == <<ProviderEvent("done", "completed")>>
             s1 == Chunk(t, events)
             s == [Chunk(t, <<ProviderEvent("done", "completed")>>) EXCEPT !.usage = when]
  <2>1. prod' = [prod EXCEPT ![t] = s] /\ old.usage = None
    BY <1>4 DEF ReadUsage
  <2>2. /\ events \in Seq(ProviderEvents) /\ Len(events) = 1
        /\ events[1].kind = "done"
    BY ProviderEventsTyped DEF Statuses, ProviderEvent
  <2>3. s = [s1 EXCEPT !.usage = when]
    OBVIOUS
  <2>4. when \in {None, "early", "late"} /\ (old.finish = None => when = "early")
    OBVIOUS
  <2> HIDE DEF events, when
  <2>5. /\ s1 \in Streams /\ s1.chan = old.chan /\ s1.calls = old.calls
        /\ s1.outbox = events /\ s1.finish = old.finish
    BY <1>1, <2>2 DEF Chunk, Streams
  <2> HIDE DEF s1, s
  <2>6. /\ s \in Streams /\ s.chan = old.chan /\ s.calls = old.calls
        /\ s.outbox = events /\ s.finish = old.finish /\ s.usage = when
    BY <2>3, <2>4, <2>5 DEF Streams
  <2>7. ReadNew(t, s, s.outbox)
    <3>1. \A k \in 1..Len(events) : events[k].kind = "done"
      BY <2>2
    <3>2. \A k \in 1..Len(s.outbox) : s.outbox[k].kind = "done"
      BY <2>6, <3>1
    <3> QED
      BY <2>4, <2>6, <3>2 DEF ReadNew
  <2> QED
    BY <1>1, <2>1, <2>6, <2>7 DEF ReadInto
<1>5. CASE ReadFails(t)
  <2>1. /\ ProviderEvent("error", None) \in ProviderEvents
        /\ ProviderEvent("error", None).kind = "error"
    BY ProviderEventsTyped DEF ProviderEvent
  <2> QED
    BY <1>3, <1>5, <2>1 DEF ReadFails
<1> QED
  BY <1>2, <1>4, <1>5, ReadDeltaMoves, ReadFinishMoves DEF Read

LEMMA ReadTyped ==
    ASSUME StreamsTyped, NEW t \in Turns, Read(t)
    PROVE  StreamsTyped'
<1>1. PICK s \in Streams : ReadInto(t, s)
  BY ReadMoves
<1>2. Len(s.chan) <= Cap /\ IsFiniteSet(s.calls) /\ prod' = [prod EXCEPT ![t] = s]
  BY <1>1, StreamFields DEF ReadInto
<1> QED
  BY <1>2, StreamReplaced

LEMMA SendTyped ==
    ASSUME StreamsTyped, NEW t \in Turns, Send(t)
    PROVE  StreamsTyped'
<1> DEFINE old == prod[t]
           rest == Tail(old.outbox)
           sent == Append(old.chan, Head(old.outbox))
           s1 == [old EXCEPT !.outbox = rest]
           s == [s1 EXCEPT !.chan = sent]
<1>1. /\ old \in Streams /\ old.outbox \in Seq(ProviderEvents)
      /\ old.chan \in Seq(ProviderEvents) /\ IsFiniteSet(old.calls)
      /\ old.outbox # << >> /\ Len(old.chan) < Cap
  BY StreamFields DEF Send
<1>2. prod' = [prod EXCEPT ![t] = s]
  <2>1. s1.chan = old.chan
    BY <1>1 DEF Streams
  <2> QED
    BY <2>1 DEF Send, StreamsTyped
<1> HIDE DEF old
<1>3. /\ rest \in Seq(ProviderEvents) /\ sent \in Seq(ProviderEvents)
      /\ Len(sent) <= Cap
  <2>1. Len(sent) = Len(old.chan) + 1 /\ Len(old.chan) \in Nat
    BY <1>1
  <2> QED
    BY <1>1, <2>1, ProviderAssumption
<1> HIDE DEF rest, sent
<1>4. s1 \in Streams /\ s1.calls = old.calls
  BY <1>1, <1>3 DEF Streams
<1> HIDE DEF s1
<1>5. s \in Streams /\ s.calls = old.calls /\ s.chan = sent
  BY <1>3, <1>4 DEF Streams
<1> HIDE DEF s
<1> QED
  BY <1>1, <1>2, <1>3, <1>5, StreamReplaced

LEMMA CloseTyped ==
    ASSUME StreamsTyped, NEW t \in Turns, CloseStream(t)
    PROVE  StreamsTyped'
<1> DEFINE s == [prod[t] EXCEPT !.phase = "ended"]
<1>1. prod' = [prod EXCEPT ![t] = s]
  BY DEF CloseStream
<1>2. s \in Streams /\ s.chan = prod[t].chan /\ s.calls = prod[t].calls
  BY StreamFields DEF Streams
<1> HIDE DEF s
<1>3. Len(s.chan) <= Cap /\ IsFiniteSet(s.calls)
  BY <1>2, StreamFields
<1> QED
  BY <1>1, <1>2, <1>3, StreamReplaced

-----------------------------------------------------------------------------
(***************************************************************************)
(* The events the handler writes.                                          *)
(***************************************************************************)
LEMMA OpeningTyped == Opening \in Seq(Events)
<1>1. ResponseEvent("created") \in Events /\ ResponseEvent("in_progress") \in Events
  BY ResponseEventTyped DEF EventTypes
<1> QED
  BY <1>1 DEF Opening

LEMMA TerminalTyped ==
    ASSUME NEW type \in TerminalTypes
    PROVE  /\ ResponseEvent(type) \in Events
           /\ ResponseEvent(type).type = type
           /\ ResponseEvent(type).item = NoItem
BY ResponseEventTyped DEF EventTypes, ResponseEvent, Event

\* The text item is opened and closed by item events of its own.
TextEvent(e) == e \in ItemEvents /\ e.item = TextItem(turn)

LEMMA TextOpeningTyped ==
    ASSUME turn \in Nat, Opened \in StreamStates
    PROVE  /\ TextOpening \in Seq(ItemEvents)
           /\ \A k \in 1..Len(TextOpening) :
                 TextEvent(TextOpening[k]) /\ TextOpening[k].type # "done"
           /\ OpensText =>
                 /\ Len(TextOpening) = 2
                 /\ TextOpening[1].type = "added"
           /\ ~OpensText => TextOpening = << >>
<1> DEFINE a == Event("added", TextItem(turn), Opened.index)
           b == Event("part", TextItem(turn), Opened.index)
<1>1. /\ a \in ItemEvents /\ a.type = "added" /\ a.item = TextItem(turn)
      /\ b \in ItemEvents /\ b.type = "part" /\ b.item = TextItem(turn)
  BY ItemsTyped, ItemEventTyped, StateFields
<1>2. TextOpening = IF OpensText THEN <<a, b>> ELSE << >>
  BY DEF TextOpening
<1> HIDE DEF a, b
<1> QED
  BY <1>1, <1>2 DEF TextEvent

LEMMA TextClosingTyped ==
    ASSUME turn \in Nat, st \in StreamStates
    PROVE  /\ TextClosing \in Seq(ItemEvents)
           /\ \A k \in 1..Len(TextClosing) :
                 TextEvent(TextClosing[k]) /\ TextClosing[k].type # "added"
           /\ ~req.agentic /\ msg.added =>
                 /\ Len(TextClosing) = 2
                 /\ TextClosing[2].type = "done"
<1> DEFINE part(n) == Event("part", TextItem(turn), n)
           done(n) == Event("done", TextItem(turn), n)
<1>1. /\ 0 \in Nat /\ st.index \in Nat
      /\ TextItem(turn) \in Items
  BY StateFields, ItemsTyped
<1>2. \A n \in {0, st.index} :
         /\ part(n) \in ItemEvents /\ part(n).type = "part"
         /\ part(n).item = TextItem(turn)
         /\ done(n) \in ItemEvents /\ done(n).type = "done"
         /\ done(n).item = TextItem(turn)
  BY <1>1, ItemEventTyped
<1>3. \/ TextClosing = << >> /\ (req.agentic \/ ~msg.added)
      \/ TextClosing = <<part(st.index), part(st.index), done(st.index)>>
           /\ req.agentic
      \/ TextClosing = <<part(0), done(0)>> /\ ~req.agentic
  BY DEF TextClosing
<1> HIDE DEF part, done
<1>4. CASE TextClosing = << >> /\ (req.agentic \/ ~msg.added)
  BY <1>4
<1>5. CASE /\ TextClosing = <<part(st.index), part(st.index), done(st.index)>>
           /\ req.agentic
  BY <1>2, <1>5 DEF TextEvent
<1>6. CASE TextClosing = <<part(0), done(0)>> /\ ~req.agentic
  BY <1>2, <1>6 DEF TextEvent
<1> QED
  BY <1>3, <1>4, <1>5, <1>6

\* The allowed calls and then the rejected ones: all calls of the turn.
LEMMA ResultsOfCalls ==
    ASSUME req \in Requests, calls \in Seq(Calls)
    PROVE  /\ AllowedCalls \in Seq(Calls)
           /\ Results \in Seq(Calls)
           /\ \A k \in 1..Len(Results) : Results[k] \in CallSet
           /\ \A c \in CallSet : \E k \in 1..Len(Results) : Results[k] = c
           /\ \A c \in CallSet \ req.rejected :
                 \E k \in 1..Len(AllowedCalls) : AllowedCalls[k] = c
<1> DEFINE rejected == Kept(calls, req.rejected)
           allowed == AllowedCalls
<1>1. allowed \in Seq(Calls) /\ rejected \in Seq(Calls)
  BY KeptElements DEF AllowedCalls
<1>2. /\ \A k \in 1..Len(allowed) : \E n \in 1..Len(calls) : calls[n] = allowed[k]
      /\ \A k \in 1..Len(rejected) : \E n \in 1..Len(calls) : calls[n] = rejected[k]
  <2>1. \A S : \A k \in 1..Len(Kept(calls, S)) :
           \E n \in 1..Len(calls) : calls[n] = Kept(calls, S)[k]
    <3> SUFFICES ASSUME NEW S
                 PROVE  \A k \in 1..Len(Kept(calls, S)) :
                           \E n \in 1..Len(calls) : calls[n] = Kept(calls, S)[k]
      OBVIOUS
    <3> QED
      BY KeptElements
  <2> QED
    BY <2>1, Zenon DEF AllowedCalls
<1>3. /\ \A n \in 1..Len(calls) : calls[n] \in Calls \ req.rejected =>
            \E k \in 1..Len(allowed) : allowed[k] = calls[n]
      /\ \A n \in 1..Len(calls) : calls[n] \in req.rejected =>
            \E k \in 1..Len(rejected) : rejected[k] = calls[n]
  BY KeptElements DEF AllowedCalls
<1>4. Results = allowed \o rejected
  BY DEF Results
<1>5. \A n \in 1..Len(calls) : calls[n] \in Calls
  OBVIOUS
<1> HIDE DEF allowed, rejected
<1>6. /\ allowed \o rejected \in Seq(Calls)
      /\ Len(allowed \o rejected) = Len(allowed) + Len(rejected)
      /\ \A k \in 1..Len(allowed) : (allowed \o rejected)[k] = allowed[k]
      /\ \A k \in 1..Len(rejected) :
            (allowed \o rejected)[Len(allowed) + k] = rejected[k]
      /\ \A k \in 1..Len(allowed \o rejected) :
            \/ k \in 1..Len(allowed)
            \/ /\ k - Len(allowed) \in 1..Len(rejected)
               /\ (allowed \o rejected)[k] = rejected[k - Len(allowed)]
  BY <1>1, ConcatElements
<1>7. /\ Results \in Seq(Calls)
      /\ Len(Results) = Len(allowed) + Len(rejected)
      /\ \A k \in 1..Len(allowed) : Results[k] = allowed[k]
      /\ \A k \in 1..Len(rejected) : Results[Len(allowed) + k] = rejected[k]
      /\ \A k \in 1..Len(Results) :
            \/ k \in 1..Len(allowed)
            \/ /\ k - Len(allowed) \in 1..Len(rejected)
               /\ Results[k] = rejected[k - Len(allowed)]
  BY <1>4, <1>6
<1>8. \A k \in 1..Len(Results) : Results[k] \in CallSet
  <2>1. SUFFICES ASSUME NEW k \in 1..Len(Results)
                 PROVE  \E n \in 1..Len(calls) : Results[k] = calls[n]
    BY DEF CallSet
  <2>2. CASE k \in 1..Len(allowed)
    BY <1>2, <1>7, <2>2
  <2>3. CASE k - Len(allowed) \in 1..Len(rejected)
    BY <1>2, <1>7, <2>3
  <2> QED
    BY <1>7, <2>2, <2>3
<1>9. \A c \in CallSet : \E k \in 1..Len(Results) : Results[k] = c
  <2>1. SUFFICES ASSUME NEW n \in 1..Len(calls)
                 PROVE  \E k \in 1..Len(Results) : Results[k] = calls[n]
    BY DEF CallSet
  <2>2. Len(allowed) \in Nat /\ Len(rejected) \in Nat
    BY <1>1
  <2>3. CASE calls[n] \in req.rejected
    <3>1. PICK k \in 1..Len(rejected) : rejected[k] = calls[n]
      BY <1>3, <2>3
    <3>2. Len(allowed) + k \in 1..Len(Results)
      BY <1>7, <2>2
    <3> QED
      BY <1>7, <3>1, <3>2
  <2>4. CASE calls[n] \notin req.rejected
    <3>1. PICK k \in 1..Len(allowed) : allowed[k] = calls[n]
      BY <1>3, <1>5, <2>4
    <3>2. k \in 1..Len(Results)
      BY <1>7, <2>2
    <3> QED
      BY <1>7, <3>1, <3>2
  <2> QED
    BY <2>3, <2>4
<1>10. \A c \in CallSet \ req.rejected :
          \E k \in 1..Len(AllowedCalls) : AllowedCalls[k] = c
  BY <1>3, <1>5 DEF CallSet, allowed
<1> QED
  BY <1>1, <1>7, <1>8, <1>9, <1>10 DEF allowed

LEMMA ResultEventsTyped ==
    ASSUME req \in Requests, calls \in Seq(Calls), turn \in Nat, st \in StreamStates
    PROVE  /\ ResultEvents \in Seq(Events)
           /\ Len(ResultEvents) = 2 * Len(Results)
           /\ \A k \in 1..Len(ResultEvents) :
                 /\ ResultEvents[k].type \in {"added", "done"}
                 /\ \E c \in CallSet : ResultEvents[k].item = ResultItem(turn, c)
           /\ \A c \in CallSet :
                 \E k \in 1..Len(ResultEvents) :
                    /\ ResultEvents[k].type = "done"
                    /\ ResultEvents[k].item = ResultItem(turn, c)
<1> DEFINE n == Len(Results)
           type(k) == IF k % 2 = 1 THEN "added" ELSE "done"
           pos(k) == (k + 1) \div 2
<1>1. n \in Nat /\ st.index \in Nat
  BY ResultsOfCalls, StateFields
<1>2. ResultEvents = [k \in 1..(2 * n) |->
                        Event(type(k), ResultItem(turn, Results[pos(k)]),
                              st.index + pos(k))]
  BY DEF ResultEvents
<1>3. ASSUME NEW k \in 1..(2 * n)
      PROVE  /\ pos(k) \in 1..n
             /\ ResultEvents[k] \in Events
             /\ ResultEvents[k].type = type(k)
             /\ ResultEvents[k].item = ResultItem(turn, Results[pos(k)])
  <2>1. pos(k) \in 1..n
    BY <1>1
  <2>2. type(k) \in {"added", "done"}
    OBVIOUS
  <2>3. ResultEvents[k] = Event(type(k), ResultItem(turn, Results[pos(k)]),
                                st.index + pos(k))
    BY <1>2
  <2> HIDE DEF type, pos, n
  <2>4. st.index + pos(k) \in Nat
    BY <1>1, <2>1
  <2>5. Results[pos(k)] \in Calls
    BY <2>1, ResultsOfCalls DEF n
  <2>6. ResultItem(turn, Results[pos(k)]) \in Items
    BY <2>5, ItemsTyped
  <2>7. type(k) \in EventTypes
    BY <2>2 DEF EventTypes
  <2> QED
    BY <2>1, <2>3, <2>4, <2>6, <2>7, EventTyped DEF Event
<1> HIDE DEF n
<1>4. ResultEvents \in Seq(Events) /\ Len(ResultEvents) = 2 * n
  <2> DEFINE g == ResultEvents
  <2>1. 2 * n \in Nat
    BY <1>1
  <2>2. g = [k \in 1..(2 * n) |-> g[k]]
    BY <1>2
  <2>3. \A k \in 1..(2 * n) : g[k] \in Events
    BY <1>3
  <2> HIDE DEF g
  <2>4. g \in [1..(2 * n) -> Events]
    BY <2>2, <2>3
  <2>5. g \in Seq(Events) /\ Len(g) = 2 * n
    BY <2>1, <2>4
  <2> QED
    BY <2>5 DEF g
<1>5. ASSUME NEW k \in 1..Len(ResultEvents)
      PROVE  /\ ResultEvents[k].type \in {"added", "done"}
             /\ \E c \in CallSet : ResultEvents[k].item = ResultItem(turn, c)
  <2>1. k \in 1..(2 * n) /\ type(k) \in {"added", "done"}
    BY <1>4
  <2>2. pos(k) \in 1..n /\ ResultEvents[k].type = type(k)
        /\ ResultEvents[k].item = ResultItem(turn, Results[pos(k)])
    BY <1>3, <2>1
  <2> HIDE DEF type, pos
  <2>3. Results[pos(k)] \in CallSet
    BY <2>2, ResultsOfCalls DEF n
  <2> QED
    BY <2>1, <2>2, <2>3
<1>6. ASSUME NEW c \in CallSet
      PROVE  \E k \in 1..Len(ResultEvents) :
                /\ ResultEvents[k].type = "done"
                /\ ResultEvents[k].item = ResultItem(turn, c)
  <2>1. PICK j \in 1..n : Results[j] = c
    BY ResultsOfCalls DEF n
  <2>2. 2 * j \in 1..(2 * n) /\ pos(2 * j) = j /\ type(2 * j) = "done"
    BY <1>1
  <2>3. /\ ResultEvents[2 * j].type = "done"
        /\ ResultEvents[2 * j].item = ResultItem(turn, c)
    BY <1>3, <2>1, <2>2
  <2>4. 2 * j \in 1..Len(ResultEvents)
    BY <1>4, <2>2
  <2> QED
    BY <2>3, <2>4
<1> QED
  BY <1>4, <1>5, <1>6 DEF n

\* A tool's goroutine starts with nothing left to report.
LEMMA QueuedTyped ==
    ASSUME req \in Requests, calls \in Seq(Calls), turn \in Nat,
           st \in StreamStates, NEW c \in CallSet \ req.rejected
    PROVE  /\ QueuedTool(c) \in Tools
           /\ QueuedTool(c).pc = "queued"
           /\ QueuedTool(c).item = CallItem(turn, c)
           /\ QueuedTool(c).index = ToolIndex(c)
           /\ \E k \in 1..Len(AllowedCalls) :
                 AllowedCalls[k] = c /\ ToolIndex(c) = st.index + k
<1> DEFINE k == CHOOSE k \in 1..Len(AllowedCalls) : AllowedCalls[k] = c
<1>1. k \in 1..Len(AllowedCalls) /\ AllowedCalls[k] = c
  BY ResultsOfCalls
<1>2. ToolIndex(c) = st.index + k
  BY DEF ToolIndex
<1> HIDE DEF k
<1>3. Len(AllowedCalls) \in Nat /\ st.index \in Nat
  BY ResultsOfCalls, StateFields
<1>4. ToolIndex(c) \in Nat
  BY <1>1, <1>2, <1>3
<1>5. c \in Calls
  BY DEF CallSet
<1>6. CallItem(turn, c) \in Items
  BY <1>5, ItemsTyped
<1> DEFINE queued == [NoTool EXCEPT !.pc = "queued"]
           ofCall == [queued EXCEPT !.item = CallItem(turn, c)]
<1>7. NoTool \in Tools
  BY ItemsTyped DEF Tools, NoTool
<1>8. QueuedTool(c) = [ofCall EXCEPT !.index = ToolIndex(c)]
  BY DEF QueuedTool
<1> HIDE DEF NoTool
<1>9. queued \in Tools /\ queued.pc = "queued"
  BY <1>7 DEF Tools
<1> HIDE DEF queued
<1>10. ofCall \in Tools /\ ofCall.pc = "queued" /\ ofCall.item = CallItem(turn, c)
  BY <1>6, <1>9 DEF Tools
<1> HIDE DEF ofCall
<1> QED
  BY <1>1, <1>2, <1>4, <1>8, <1>10 DEF Tools

-----------------------------------------------------------------------------
(***************************************************************************)
(* Every variable has its type.                                            *)
(***************************************************************************)
LEMMA TypedInit == Init => Typed
<1> SUFFICES ASSUME Init PROVE Typed
  OBVIOUS
<1>1. WriterTyped
  <2>1. wire = << >> /\ conn = "up" /\ writer = "idle" /\ registered = FALSE
    BY DEF Init, WriterInit
  <2>2. wire \in Seq(WireEvents)
    BY <2>1
  <2> QED
    BY <2>1, <2>2 DEF WriterTyped, WriterStates
<1>2. TurnTyped
  BY ProviderAssumption DEF Init, TurnTyped, PcStates
<1>3. st \in StreamStates
  BY DEF Init, InitStreamState, StreamStates
<1>4. ToolsTyped
  <2>1. NoTool \in Tools /\ NoTool.pc = "idle"
    BY ItemsTyped DEF Tools, NoTool
  <2> QED
    BY <2>1 DEF Init, ToolsTyped
<1>5. StreamsTyped
  <2> DEFINE nothing == << >>
             none == {}
  <2>1. nothing \in Seq(ProviderEvents) /\ none \in SUBSET Calls
        /\ Len(nothing) <= Cap /\ IsFiniteSet(none)
    BY ProviderAssumption, FS_EmptySet
  <2>2. NoStream = [phase |-> "none", outbox |-> nothing, chan |-> nothing,
                    chunks |-> 0, calls |-> none, finish |-> None,
                    usage |-> None]
    BY DEF NoStream
  <2> HIDE DEF nothing, none
  <2>3. NoStream \in Streams /\ NoStream.chan = nothing /\ NoStream.calls = none
    BY <2>1, <2>2 DEF Streams
  <2> QED
    BY <2>1, <2>3 DEF Init, StreamsTyped
<1>6. msg \in [added: BOOLEAN, text: BOOLEAN]
  BY DEF Init, NoMessage
<1>7. calls \in Seq(Calls)
  <2>1. calls = << >>
    BY DEF Init
  <2> QED
    BY <2>1
<1>8. req \in Requests /\ ctx \in BOOLEAN /\ acked \in BOOLEAN /\ seq \in Nat
  BY DEF Init
<1> QED
  BY <1>1, <1>2, <1>3, <1>4, <1>5, <1>6, <1>7, <1>8 DEF Typed

LEMMA TerminateTyped ==
    ASSUME WriterTyped, seq \in Nat, NEW type \in TerminalTypes, Terminate(type)
    PROVE  /\ wire' \in Seq(WireEvents) /\ writer' \in WriterStates
           /\ registered' \in BOOLEAN /\ seq' \in Nat
           /\ pc' \in {"return", "error"}
<1>1. <<ResponseEvent(type)>> \in Seq(Events)
  BY TerminalTyped
<1>2. Emit(<<ResponseEvent(type)>>, "return")
  BY DEF Terminate
<1> DEFINE events == <<ResponseEvent(type)>>
<1>3. events \in Seq(Events) /\ Emit(events, "return")
  BY <1>1, <1>2
<1> HIDE DEF events
<1> QED
  BY <1>3, EmitTyped

LEMMA GotoTyped ==
    ASSUME WriterTyped, seq \in Nat, NEW label, Goto(label)
    PROVE  /\ wire' \in Seq(WireEvents) /\ writer' \in WriterStates
           /\ registered' \in BOOLEAN /\ seq' \in Nat
           /\ pc' = label
BY DEF Goto, writerVars, WriterTyped

\* What the writer and the counter become in a step of the handler.
Written ==
    /\ wire' \in Seq(WireEvents) /\ writer' \in WriterStates
    /\ registered' \in BOOLEAN /\ seq' \in Nat

LEMMA ClosingTyped ==
    ASSUME turn \in Nat, st \in StreamStates, NEW type \in TerminalTypes
    PROVE  /\ TextClosing \in Seq(Events)
           /\ Append(TextClosing, ResponseEvent(type)) \in Seq(Events)
<1>1. \A e \in ItemEvents : e \in Events
  BY DEF ItemEvents
<1>2. TextClosing \in Seq(Events)
  BY <1>1, TextClosingTyped
<1> QED
  BY <1>2, TerminalTyped

LEMMA StartTyped ==
    ASSUME Typed, Start
    PROVE  Written /\ TurnTyped'
<1>1. /\ WriterTyped /\ seq \in Nat /\ TurnTyped /\ turn' = turn
      /\ req' = req /\ req.agentic \in BOOLEAN /\ pc = "start"
  BY RequestFields DEF Typed, Start
<1>2. CASE req.agentic
  <2>1. Written /\ pc' \in {"turn", "error"}
    BY <1>1, <1>2, OpeningTyped, EmitTyped DEF Start, Written
  <2> QED
    BY <1>1, <1>2, <2>1 DEF TurnTyped, PcStates
<1>3. CASE ~req.agentic
  <2>1. Written /\ pc' = "connect"
    BY <1>1, <1>3, GotoTyped DEF Start, Written
  <2> QED
    BY <1>1, <1>3, <2>1, ProviderAssumption DEF TurnTyped, PcStates, Turns
<1> QED
  BY <1>1, <1>2, <1>3

LEMMA TurnStartTyped ==
    ASSUME Typed, TurnStart
    PROVE  Written /\ TurnTyped'
<1>1. /\ WriterTyped /\ seq \in Nat /\ TurnTyped /\ turn' = turn
      /\ req' = req /\ req.turns \in 1..MaxTurns /\ pc = "turn"
  BY RequestFields DEF Typed, TurnStart
<1>2. CASE pc' \in {"return", "error"} /\ Written
  BY <1>1, <1>2 DEF TurnTyped, PcStates
<1>3. CASE turn > req.turns
  <2>1. Terminate("incomplete")
    BY <1>3 DEF TurnStart
  <2>2. "incomplete" \in TerminalTypes
    BY DEF TerminalTypes
  <2> QED
    BY <1>1, <1>2, <2>1, <2>2, TerminateTyped DEF Written
<1>4. CASE ~(turn > req.turns) /\ ctx
  <2>1. Terminate("cancelled")
    BY <1>4 DEF TurnStart
  <2>2. "cancelled" \in TerminalTypes
    BY DEF TerminalTypes
  <2> QED
    BY <1>1, <1>2, <2>1, <2>2, TerminateTyped DEF Written
<1>5. CASE ~(turn > req.turns) /\ ~ctx
  <2>1. Written /\ pc' = "connect"
    BY <1>1, <1>5, GotoTyped DEF TurnStart, Written
  <2>2. turn \in Turns
    BY <1>1, <1>5, ProviderAssumption DEF TurnTyped, Turns
  <2> QED
    BY <1>1, <2>1, <2>2 DEF TurnTyped, PcStates
<1> QED
  BY <1>3, <1>4, <1>5

LEMMA ConnectTyped ==
    ASSUME Typed, Connect
    PROVE  Written /\ TurnTyped' /\ StreamsTyped'
<1>1. /\ WriterTyped /\ seq \in Nat /\ TurnTyped /\ StreamsTyped
      /\ turn' = turn /\ turn \in Turns
      /\ req' = req /\ req.agentic \in BOOLEAN /\ pc = "connect"
  BY RequestFields DEF Typed, TurnTyped, Connect
<1>2. StreamsTyped'
  BY <1>1, OpenTyped DEF Connect
<1>3. Written /\ pc' \in {"consume", "error"}
  <2>1. CASE req.agentic
    BY <1>1, <2>1, GotoTyped DEF Connect, Written
  <2>2. CASE ~req.agentic
    BY <1>1, <2>2, OpeningTyped, EmitTyped DEF Connect, Written
  <2> QED
    BY <1>1, <2>1, <2>2
<1> QED
  BY <1>1, <1>2, <1>3 DEF TurnTyped, PcStates

LEMMA ConnectFailsTyped ==
    ASSUME Typed, ConnectFails
    PROVE  Written /\ TurnTyped'
<1>1. /\ WriterTyped /\ seq \in Nat /\ TurnTyped
      /\ turn' = turn /\ req' = req /\ pc = "connect"
  BY DEF Typed, ConnectFails
<1>2. Written /\ pc' \in {"return", "error"}
  <2>1. CASE ~req.agentic
    BY <1>1, <2>1, GotoTyped DEF ConnectFails, Written
  <2>2. CASE req.agentic
    <3>1. PICK type \in {"cancelled", "failed"} : Terminate(type)
      BY <2>2 DEF ConnectFails
    <3>2. type \in TerminalTypes
      BY DEF TerminalTypes
    <3> QED
      BY <1>1, <3>1, <3>2, TerminateTyped DEF Written
  <2> QED
    BY <2>1, <2>2
<1> QED
  BY <1>1, <1>2 DEF TurnTyped, PcStates

LEMMA RecvEndTyped ==
    ASSUME Typed, RecvCancelled \/ RecvError
    PROVE  Written /\ TurnTyped' /\ StreamsTyped'
<1>1. /\ WriterTyped /\ seq \in Nat /\ TurnTyped /\ StreamsTyped
      /\ turn \in Turns /\ turn' = turn /\ req' = req /\ pc = "consume"
      /\ Receivable /\ Receive
  BY DEF Typed, TurnTyped, RecvCancelled, RecvError, Receivable
<1>2. Written /\ pc' \in {"return", "error"}
  <2>1. CASE req.agentic
    BY <1>1, <2>1, GotoTyped DEF RecvCancelled, RecvError, Written
  <2>2. CASE ~req.agentic
    <3>1. PICK type \in {"cancelled", "failed"} : Terminate(type)
      BY <2>2 DEF RecvCancelled, RecvError
    <3>2. type \in TerminalTypes
      BY DEF TerminalTypes
    <3> QED
      BY <1>1, <3>1, <3>2, TerminateTyped DEF Written
  <2> QED
    BY <2>1, <2>2
<1>3. StreamsTyped'
  BY <1>1, ReceiveTyped
<1> QED
  BY <1>1, <1>2, <1>3 DEF TurnTyped, PcStates

\* A step of the loop over a provider's stream.
LEMMA RecvDeltaTyped ==
    ASSUME Typed, RecvDelta
    PROVE  /\ Written /\ TurnTyped' /\ StreamsTyped'
           /\ st' \in StreamStates /\ calls' \in Seq(Calls)
           /\ msg' \in [added: BOOLEAN, text: BOOLEAN]
<1>1. /\ WriterTyped /\ seq \in Nat /\ TurnTyped /\ StreamsTyped
      /\ turn \in Turns /\ turn' = turn /\ req' = req /\ pc = "consume"
      /\ Receivable /\ Receive /\ st \in StreamStates /\ calls \in Seq(Calls)
      /\ msg \in [added: BOOLEAN, text: BOOLEAN]
  BY DEF Typed, TurnTyped, RecvDelta, Receivable
<1>2. turn \in Nat
  BY <1>1, ProviderAssumption DEF Turns
<1>3. StreamsTyped' /\ Received \in ProviderEvents
  BY <1>1, ReceiveTyped
<1>4. Opened \in StreamStates
  <2>1. st.index + 1 \in Nat
    BY <1>1, StateFields
  <2> QED
    BY <1>1, <2>1 DEF Opened, StreamStates
<1> DEFINE m == MapProviderEvent(Received, Opened, turn)
<1>5. /\ Emit(TextOpening \o m.events, "consume") /\ st' = m.st
  BY DEF RecvDelta
<1>6. m.events \in Seq(ItemEvents) /\ m.st \in StreamStates
  BY <1>2, <1>3, <1>4, ProviderEventMapped DEF EventsMapped, StateMapped
<1> HIDE DEF m
<1>7. TextOpening \in Seq(ItemEvents)
  BY <1>2, <1>4, TextOpeningTyped
<1> DEFINE events == TextOpening \o m.events
<1>8. events \in Seq(Events)
  <2>1. \A e \in ItemEvents : e \in Events
    BY DEF ItemEvents
  <2>2. TextOpening \in Seq(Events) /\ m.events \in Seq(Events)
    BY <1>6, <1>7, <2>1
  <2> QED
    BY <2>2
<1> HIDE DEF events
<1>9. Written /\ pc' \in {"consume", "error"}
  BY <1>1, <1>5, <1>8, EmitTyped DEF Written, events
<1>10. calls' \in Seq(Calls)
  <2>1. Received.kind = "calldone" => Received.arg \in Calls
    BY <1>3 DEF ProviderEvents
  <2> QED
    BY <1>1, <2>1 DEF RecvDelta
<1>11. msg' \in [added: BOOLEAN, text: BOOLEAN]
  <2>1. OpensText \in BOOLEAN
    BY DEF OpensText
  <2> QED
    BY <1>1, <2>1 DEF RecvDelta
<1> QED
  BY <1>1, <1>3, <1>5, <1>6, <1>9, <1>10, <1>11 DEF TurnTyped, PcStates

LEMMA RecvDoneTyped ==
    ASSUME Typed, RecvDone \/ RecvClosed
    PROVE  Written /\ TurnTyped' /\ StreamsTyped'
<1>1. /\ WriterTyped /\ seq \in Nat /\ TurnTyped /\ StreamsTyped
      /\ turn \in Turns /\ turn' = turn /\ req' = req /\ pc = "consume"
      /\ st \in StreamStates
  BY DEF Typed, TurnTyped, RecvDone, RecvClosed, Receivable
<1>2. turn \in Nat
  BY <1>1, ProviderAssumption DEF Turns
<1>3. ASSUME RecvDone
      PROVE  /\ StreamsTyped' /\ FinalStatus(Received.arg) \in TerminalTypes
  <2>1. StreamsTyped' /\ Received \in ProviderEvents /\ Received.kind = "done"
    BY <1>1, <1>3, ReceiveTyped DEF RecvDone
  <2>2. Received.arg \in Statuses
    BY <2>1 DEF ProviderEvents
  <2> QED
    BY <2>1, <2>2 DEF FinalStatus, Statuses, TerminalTypes
<1>4. ASSUME RecvClosed PROVE StreamsTyped'
  <2>1. prod' = prod
    BY <1>4 DEF RecvClosed
  <2> QED
    BY <1>1, <2>1 DEF StreamsTyped
<1>5. CASE req.agentic
  <2>1. Written /\ pc' \in {"decide", "error"}
    <3>1. CASE RecvDone
      BY <1>1, <1>2, <1>5, <3>1, ClosingTyped, EmitTyped
         DEF RecvDone, Written, TerminalTypes
    <3>2. CASE RecvClosed
      BY <1>1, <1>5, <3>2, GotoTyped DEF RecvClosed, Written
    <3> QED
      BY <3>1, <3>2
  <2> QED
    BY <1>1, <1>3, <1>4, <1>5, <2>1 DEF TurnTyped, PcStates
<1>6. CASE ~req.agentic
  <2>1. Written /\ pc' \in {"return", "error"}
    <3>1. CASE RecvDone \/ (RecvClosed /\ ~ctx)
      <4>1. PICK type \in TerminalTypes :
               Emit(Append(TextClosing, ResponseEvent(type)), "return")
        BY <1>3, <1>6, <3>1 DEF RecvDone, RecvClosed, TerminalTypes
      <4> DEFINE events == Append(TextClosing, ResponseEvent(type))
      <4>2. events \in Seq(Events) /\ Emit(events, "return")
        BY <1>1, <1>2, <4>1, ClosingTyped
      <4> HIDE DEF events
      <4> QED
        BY <1>1, <4>2, EmitTyped DEF Written
    <3>2. CASE RecvClosed /\ ctx
      <4>1. Terminate("cancelled") /\ "cancelled" \in TerminalTypes
        BY <1>6, <3>2 DEF RecvClosed, TerminalTypes
      <4> QED
        BY <1>1, <4>1, TerminateTyped DEF Written
    <3> QED
      BY <3>1, <3>2
  <2> QED
    BY <1>1, <1>3, <1>4, <1>6, <2>1 DEF TurnTyped, PcStates
<1> QED
  BY <1>5, <1>6

LEMMA DecideTyped ==
    ASSUME Typed, Decide
    PROVE  Written /\ TurnTyped' /\ ToolsTyped'
<1>1. /\ WriterTyped /\ seq \in Nat /\ TurnTyped /\ ToolsTyped
      /\ turn \in Turns /\ turn' = turn /\ req' = req /\ pc = "decide"
      /\ st \in StreamStates /\ calls \in Seq(Calls) /\ req \in Requests
  BY DEF Typed, TurnTyped, Decide
<1>2. turn \in Nat
  BY <1>1, ProviderAssumption DEF Turns
<1>3. CASE \E type \in {"completed", "requires_action"} :
              Terminate(type) /\ UNCHANGED tools
  <2>1. PICK type \in {"completed", "requires_action"} :
           Terminate(type) /\ UNCHANGED tools
    BY <1>3
  <2>2. type \in TerminalTypes
    BY DEF TerminalTypes
  <2>3. Written /\ pc' \in {"return", "error"}
    BY <1>1, <2>1, <2>2, TerminateTyped DEF Written
  <2> QED
    BY <1>1, <2>1, <2>3 DEF TurnTyped, PcStates, ToolsTyped
<1>4. CASE /\ Goto("tools")
           /\ tools' = [c \in Calls |-> IF c \in CallSet \ req.rejected
                                        THEN QueuedTool(c) ELSE NoTool]
  <2>1. Written /\ pc' = "tools"
    BY <1>1, <1>4, GotoTyped DEF Written
  <2>2. NoTool \in Tools /\ NoTool.pc = "idle"
    BY ItemsTyped DEF Tools, NoTool
  <2>3. \A c \in CallSet \ req.rejected :
           QueuedTool(c) \in Tools /\ QueuedTool(c).pc = "queued"
    BY <1>1, <1>2, QueuedTyped
  <2>4. \A c \in Calls :
           /\ tools'[c] \in Tools
           /\ tools'[c].pc \in {"idle", "queued"}
    BY <1>4, <2>2, <2>3
  <2>5. ToolsTyped'
    BY <1>4, <2>4 DEF ToolsTyped
  <2> QED
    BY <1>1, <2>1, <2>5 DEF TurnTyped, PcStates
<1> QED
  BY <1>3, <1>4 DEF Decide

LEMMA ToolsReturnedTyped ==
    ASSUME Typed, ToolsReturned
    PROVE  Written /\ TurnTyped' /\ st' \in StreamStates
<1>1. /\ WriterTyped /\ seq \in Nat /\ TurnTyped
      /\ turn \in Turns /\ turn' = turn + 1 /\ req' = req /\ pc = "tools"
      /\ st \in StreamStates /\ calls \in Seq(Calls) /\ req \in Requests
      /\ Emit(ResultEvents, "turn")
  BY DEF Typed, TurnTyped, ToolsReturned
<1>2. turn \in Nat /\ turn + 1 \in 1..(MaxTurns + 1)
  BY <1>1, ProviderAssumption DEF Turns
<1>3. Written /\ pc' \in {"turn", "error"}
  BY <1>1, <1>2, ResultEventsTyped, EmitTyped DEF Written
<1>4. st' \in StreamStates
  <2> DEFINE none == [c \in Calls |-> 0]
             s1 == [st EXCEPT !.index = st.index + Len(Results)]
             s2 == [s1 EXCEPT !.textStarted = FALSE]
  <2>1. none \in [Calls -> Nat] /\ st.index + Len(Results) \in Nat
    BY <1>1, ResultsOfCalls, StateFields
  <2>2. st' = [s2 EXCEPT !.callIndex = none]
    BY DEF ToolsReturned
  <2> HIDE DEF none, s2
  <2>3. s1 \in StreamStates
    BY <1>1, <2>1 DEF StreamStates
  <2> HIDE DEF s1
  <2>4. s2 \in StreamStates
    BY <2>3 DEF StreamStates, s2
  <2> QED
    BY <2>1, <2>2, <2>4 DEF StreamStates
<1> QED
  BY <1>1, <1>2, <1>3, <1>4 DEF TurnTyped, PcStates

LEMMA ReportTyped ==
    ASSUME Typed, Report
    PROVE  WriterTyped'
<1>1. WriterTyped /\ conn' = conn
  BY DEF Typed, Report
<1>2. CASE writer = "idle"
  BY <1>1, <1>2 DEF Report, WriterTyped, writerVars
<1>3. CASE writer # "idle"
  <2> DEFINE events == <<ResponseEvent("failed")>>
             numbered == Numbered(events, 0)
  <2>1. PICK ok \in BOOLEAN : Write(numbered, ok)
    BY <1>3 DEF Report
  <2>2. events \in Seq(Events)
    BY TerminalTyped DEF TerminalTypes
  <2> HIDE DEF events
  <2>3. numbered \in Seq(WireEvents)
    BY <2>2, NumberedEvents
  <2> HIDE DEF numbered
  <2> QED
    BY <1>1, <2>1, <2>3, WriteTyped DEF WriterTyped
<1> QED
  BY <1>2, <1>3

LEMMA HandlerTyped ==
    ASSUME Typed, HandlerStep
    PROVE  Typed'
<1>1. CASE Start
  BY <1>1, StartTyped
     DEF Typed, Written, WriterTyped, StreamsTyped, ToolsTyped, Start
<1>2. CASE TurnStart
  BY <1>2, TurnStartTyped
     DEF Typed, Written, WriterTyped, StreamsTyped, ToolsTyped, TurnStart
<1>3. CASE Connect
  <2>1. msg' \in [added: BOOLEAN, text: BOOLEAN]
    BY <1>3 DEF Connect, NoMessage
  <2>2. calls' \in Seq(Calls)
    <3>1. calls' = << >>
      BY <1>3 DEF Connect
    <3> QED
      BY <3>1
  <2>3. Written /\ TurnTyped' /\ StreamsTyped'
    BY <1>3, ConnectTyped
  <2> QED
    BY <1>3, <2>1, <2>2, <2>3
       DEF Typed, Written, WriterTyped, ToolsTyped, Connect
<1>4. CASE ConnectFails
  BY <1>4, ConnectFailsTyped
     DEF Typed, Written, WriterTyped, StreamsTyped, ToolsTyped, ConnectFails
<1>5. CASE RecvCancelled \/ RecvError
  BY <1>5, RecvEndTyped
     DEF Typed, Written, WriterTyped, ToolsTyped, RecvCancelled, RecvError
<1>6. CASE RecvDelta
  BY <1>6, RecvDeltaTyped
     DEF Typed, Written, WriterTyped, ToolsTyped, RecvDelta
<1>7. CASE RecvDone \/ RecvClosed
  BY <1>7, RecvDoneTyped
     DEF Typed, Written, WriterTyped, ToolsTyped, RecvDone, RecvClosed
<1>8. CASE Decide
  BY <1>8, DecideTyped
     DEF Typed, Written, WriterTyped, StreamsTyped, Decide
<1>9. CASE ToolsReturned
  BY <1>9, ToolsReturnedTyped
     DEF Typed, Written, WriterTyped, StreamsTyped, ToolsTyped, ToolsReturned
<1>10. CASE Cleanup
  <2>1. /\ pc' \in {"ended", "report"} /\ registered' = FALSE
        /\ ctx' \in BOOLEAN
    BY <1>10 DEF Cleanup, Typed
  <2>2. TurnTyped'
    BY <1>10, <2>1 DEF Typed, TurnTyped, PcStates, Cleanup
  <2> QED
    BY <1>10, <2>1, <2>2
       DEF Typed, WriterTyped, StreamsTyped, ToolsTyped, Cleanup
<1>11. CASE Report
  <2>1. TurnTyped'
    BY <1>11 DEF Typed, TurnTyped, PcStates, Report
  <2> QED
    BY <1>11, <2>1, ReportTyped
       DEF Typed, StreamsTyped, ToolsTyped, Report
<1> QED
  BY <1>1, <1>2, <1>3, <1>4, <1>5, <1>6, <1>7, <1>8, <1>9, <1>10, <1>11
     DEF HandlerStep

\* A tool goes on to its next phase.
LEMMA ToolNextTyped ==
    ASSUME NEW tool \in Tools, NEW left \in Nat
    PROVE  /\ ToolNext(tool, left) \in Tools
           /\ ToolNext(tool, left).pc \in {"load", "run", "done"}
           /\ ToolNext(tool, left).pc = "load" => ToolNext(tool, left).left > 0
           /\ ToolNext(tool, left).item = tool.item
           /\ ToolNext(tool, left).index = tool.index
           /\ ToolNext(tool, left).n = tool.n
<1> DEFINE next == IF left > 0 THEN "load" ELSE IF tool.ran THEN "done" ELSE "run"
           t1 == [tool EXCEPT !.left = left]
<1>1. t1 \in Tools /\ t1.left = left /\ t1.item = tool.item
      /\ t1.index = tool.index /\ t1.n = tool.n
  BY DEF Tools
<1>2. ToolNext(tool, left) = [t1 EXCEPT !.pc = next]
  BY DEF ToolNext
<1>3. next \in {"load", "run", "done"} /\ (next = "load" => left > 0)
  OBVIOUS
<1> HIDE DEF t1, next
<1> QED
  BY <1>1, <1>2, <1>3 DEF Tools

LEMMA ToolReplaced ==
    ASSUME ToolsTyped, NEW c \in Calls, NEW tool \in Tools,
           tool.pc \in {"load", "store", "write"} => tool.left > 0,
           tools' = [tools EXCEPT ![c] = tool]
    PROVE  ToolsTyped'
BY DEF ToolsTyped

LEMMA ToolFields ==
    ASSUME ToolsTyped, NEW c \in Calls
    PROVE  /\ tools[c] \in Tools
           /\ tools[c].pc \in {"idle", "queued", "load", "store", "write", "run", "done"}
           /\ tools[c].left \in Nat /\ tools[c].n \in Nat
           /\ tools[c].item \in Items /\ tools[c].index \in Nat
           /\ tools[c].pc \in {"load", "store", "write"} => tools[c].left > 0
<1>1. tools[c] \in Tools
  BY DEF ToolsTyped
<1> QED
  BY <1>1 DEF Tools, ToolsTyped

\* What a step of a tool's goroutine makes of it.
LEMMA ToolStepTyped ==
    ASSUME Typed, NEW c \in Calls, ToolStep(c)
    PROVE  Typed'
<1>1. /\ ToolsTyped /\ tools[c] \in Tools /\ seq \in Nat /\ WriterTyped
      /\ tools[c].n \in Nat /\ TurnTyped
  BY ToolFields DEF Typed
<1> DEFINE old == tools[c]
<1>2. CASE ToolStart(c)
  <2> DEFINE tool == ToolNext(old, EventsBefore(c))
  <2>1. tools' = [tools EXCEPT ![c] = tool]
    BY <1>2 DEF ToolStart
  <2>2. EventsBefore(c) \in Nat
    BY DEF EventsBefore
  <2>3. tool \in Tools /\ (tool.pc \in {"load", "store", "write"} => tool.left > 0)
    BY <1>1, <2>2, ToolNextTyped
  <2> HIDE DEF tool
  <2>4. ToolsTyped'
    BY <1>1, <2>1, <2>3, ToolReplaced
  <2> QED
    BY <1>2, <2>4 DEF Typed, WriterTyped, TurnTyped, StreamsTyped,
                      ToolStart, writerVars, engineVars
<1>3. CASE ToolLoadSeq(c)
  <2> DEFINE t1 == [old EXCEPT !.n = seq]
             tool == [t1 EXCEPT !.pc = "store"]
  <2>1. tools' = [tools EXCEPT ![c] = tool]
    BY <1>1, <1>3 DEF ToolLoadSeq, ToolsTyped
  <2>2. t1 \in Tools /\ t1.left > 0
    BY <1>1, <1>3, ToolFields DEF Tools, ToolLoadSeq
  <2> HIDE DEF t1
  <2>3. tool \in Tools /\ tool.left > 0
    BY <2>2 DEF Tools
  <2> HIDE DEF tool
  <2>4. ToolsTyped'
    BY <1>1, <2>1, <2>3, ToolReplaced
  <2> QED
    BY <1>3, <2>4 DEF Typed, WriterTyped, TurnTyped, StreamsTyped,
                      ToolLoadSeq, writerVars, engineVars
<1>4. CASE ToolStoreSeq(c)
  <2> DEFINE tool == [old EXCEPT !.pc = "write"]
  <2>1. tools' = [tools EXCEPT ![c] = tool]
    BY <1>4 DEF ToolStoreSeq
  <2>2. tool \in Tools /\ tool.left > 0
    BY <1>1, <1>4, ToolFields DEF Tools, ToolStoreSeq
  <2> HIDE DEF tool
  <2>3. ToolsTyped'
    BY <1>1, <2>1, <2>2, ToolReplaced
  <2>4. seq' \in Nat
    BY <1>1, <1>4 DEF ToolStoreSeq
  <2> QED
    BY <1>4, <2>3, <2>4 DEF Typed, WriterTyped, TurnTyped, StreamsTyped,
                            ToolStoreSeq, writerVars
<1>5. CASE ToolWrite(c)
  <2> DEFINE tool == ToolNext(old, old.left - 1)
             events == <<Event("tool", old.item, old.index)>>
             numbered == Numbered(events, old.n)
  <2>1. tools' = [tools EXCEPT ![c] = tool]
    BY <1>5 DEF ToolWrite
  <2>2. old.left - 1 \in Nat
    BY <1>1, <1>5, ToolFields DEF ToolWrite
  <2>3. tool \in Tools /\ (tool.pc \in {"load", "store", "write"} => tool.left > 0)
    BY <1>1, <2>2, ToolNextTyped
  <2> HIDE DEF tool
  <2>4. ToolsTyped'
    BY <1>1, <2>1, <2>3, ToolReplaced
  <2>5. PICK ok \in BOOLEAN : Write(numbered, ok)
    BY <1>5 DEF ToolWrite
  <2>6. events \in Seq(Events)
    BY <1>1, ToolFields, EventTyped DEF EventTypes
  <2> HIDE DEF events
  <2>7. numbered \in Seq(WireEvents)
    BY <1>1, <2>6, NumberedEvents
  <2> HIDE DEF numbered
  <2>8. /\ wire' \in Seq(WireEvents) /\ writer' \in WriterStates
        /\ registered' \in BOOLEAN
    BY <1>1, <2>5, <2>7, WriteTyped
  <2> QED
    BY <1>5, <2>4, <2>8 DEF Typed, WriterTyped, TurnTyped, StreamsTyped,
                            ToolWrite, engineVars
<1>6. CASE ToolRun(c)
  <2>1. PICK ok \in BOOLEAN :
           tools' = [tools EXCEPT ![c] =
                       ToolNext([@ EXCEPT !.ran = TRUE], EventsAfter(c, ok))]
    BY <1>6 DEF ToolRun
  <2> DEFINE ran == [old EXCEPT !.ran = TRUE]
             tool == ToolNext(ran, EventsAfter(c, ok))
  <2>2. tools' = [tools EXCEPT ![c] = tool]
    BY <2>1
  <2>3. ran \in Tools
    BY <1>1 DEF Tools
  <2>4. EventsAfter(c, ok) \in Nat
    BY DEF EventsAfter
  <2> HIDE DEF ran
  <2>5. tool \in Tools /\ (tool.pc \in {"load", "store", "write"} => tool.left > 0)
    BY <2>3, <2>4, ToolNextTyped
  <2> HIDE DEF tool
  <2>6. ToolsTyped'
    BY <1>1, <2>2, <2>5, ToolReplaced
  <2> QED
    BY <1>6, <2>6 DEF Typed, WriterTyped, TurnTyped, StreamsTyped,
                      ToolRun, writerVars, engineVars
<1> QED
  BY <1>2, <1>3, <1>4, <1>5, <1>6 DEF ToolStep

LEMMA ReaderTyped ==
    ASSUME Typed, NEW t \in Turns, BackendStep(t) \/ StreamStep(t)
    PROVE  Typed'
<1>1. StreamsTyped
  BY DEF Typed
<1>2. StreamsTyped' /\ ctx' = ctx
  <2>1. CASE Read(t)
    BY <1>1, <2>1, ReadTyped
       DEF Read, ReadDelta, ReadFinish, ReadUsage, ReadEnd, ReadFails
  <2>2. CASE Send(t)
    BY <1>1, <2>2, SendTyped DEF Send
  <2>3. CASE CloseStream(t)
    BY <1>1, <2>3, CloseTyped DEF CloseStream
  <2> QED
    BY <2>1, <2>2, <2>3 DEF BackendStep, StreamStep
<1> QED
  BY <1>2 DEF Typed, WriterTyped, TurnTyped, ToolsTyped, BackendStep, StreamStep,
              Unchanged, writerVars, engineVars

LEMMA ClientTyped ==
    ASSUME Typed, Delete \/ ClientGone \/ ServerNotices
    PROVE  Typed'
BY DEF Typed, WriterTyped, TurnTyped, ToolsTyped, StreamsTyped, Delete, ClientGone,
       ServerNotices, writerVars, engineVars

LEMMA TypedStutters ==
    ASSUME Typed, UNCHANGED vars
    PROVE  Typed'
BY DEF Typed, WriterTyped, TurnTyped, ToolsTyped, StreamsTyped, vars, writerVars,
       engineVars

LEMMA TypedInductive == Spec => []Typed
<1>1. ASSUME Typed, [Next]_vars PROVE Typed'
  BY <1>1, HandlerTyped, ToolStepTyped, ReaderTyped, ClientTyped, TypedStutters
     DEF Next
<1> QED
  BY TypedInit, <1>1, PTL DEF Spec

(***************************************************************************)
(* Every variable of a streamed response keeps its type.                   *)
(***************************************************************************)
THEOREM TypeCorrect == Spec => []TypeOK
<1>1. Typed => TypeOK
  <2>1. SUFFICES ASSUME Typed PROVE TypeOK
    OBVIOUS
  <2>2. \A k \in 1..Len(wire) : wire[k].type \in EventTypes
    <3>1. \A k \in 1..Len(wire) : wire[k] \in WireEvents
      BY <2>1 DEF Typed, WriterTyped
    <3> QED
      BY <3>1 DEF WireEvents
  <2>3. CallSet \subseteq Calls
    BY <2>1 DEF Typed, CallSet
  <2> QED
    BY <2>1, <2>2, <2>3 DEF Typed, WriterTyped, TurnTyped, StreamsTyped, TypeOK
<1> QED
  BY <1>1, TypedInductive, PTL

-----------------------------------------------------------------------------
(***************************************************************************)
(* What the steps of the handler have in common: from a state in which it  *)
(* works on the response it emits some events, possibly none.              *)
(***************************************************************************)
Working == pc \notin {"return", "error", "report", "ended"}

TerminalLast(events) ==
    \A k \in 1..Len(events) : events[k].type \in TerminalTypes => k = Len(events)

\* Neither the events of a tool nor results of tools.
PlainEvents(events) ==
    \A k \in 1..Len(events) :
       events[k].type # "tool" /\ events[k].item[1] # "result"

Emission(events, next) ==
    /\ events \in Seq(Events)
    /\ Emit(events, next)
    /\ conn' = conn /\ req' = req
    /\ TerminalLast(events)
    /\ PlainEvents(events) \/ (pc = "tools" /\ events = ResultEvents)
    /\ next \in PcStates \ {"start", "report", "ended"}
    /\ next = "return" => Has(events, TerminalTypes)
    /\ ~req.agentic =>
          /\ next = "connect" => pc = "start" /\ events = << >>
          /\ next = "error" => pc = "connect" /\ events = << >>

\* No event is as good as going on without a word.
LEMMA GotoEmits ==
    ASSUME seq \in Nat, NEW label, Goto(label)
    PROVE  /\ << >> \in Seq(Events)
           /\ Emit(<< >>, label)
           /\ TerminalLast(<< >>) /\ PlainEvents(<< >>)
<1>1. Numbered(<< >>, seq) = << >>
  <2> DEFINE none == << >>
             g == Numbered(none, seq)
  <2>1. none \in Seq(Events) /\ Len(none) = 0
    OBVIOUS
  <2> HIDE DEF none
  <2>2. g \in Seq(WireEvents) /\ Len(g) = 0
    BY <2>1, NumberedEvents
  <2> HIDE DEF g
  <2>3. g = << >>
    BY <2>2
  <2> QED
    BY <2>3 DEF g, none
<1>2. UNCHANGED writerVars /\ pc' = label /\ seq' = seq
  BY DEF Goto
<1>3. Write(<< >>, TRUE)
  BY <1>2 DEF Write
<1>4. Write(Numbered(<< >>, seq), TRUE)
  BY <1>1, <1>3
<1>5. seq' = seq + Len(<< >>)
  BY <1>2
<1>6. Emit(<< >>, label)
  BY <1>2, <1>4, <1>5 DEF Emit
<1>7. << >> \in Seq(Events) /\ TerminalLast(<< >>) /\ PlainEvents(<< >>)
  BY DEF TerminalLast, PlainEvents
<1> QED
  BY <1>6, <1>7

LEMMA TerminateEmits ==
    ASSUME NEW type \in TerminalTypes, Terminate(type)
    PROVE  \E events :
              /\ events \in Seq(Events) /\ Emit(events, "return")
              /\ TerminalLast(events) /\ PlainEvents(events)
              /\ Has(events, TerminalTypes)
<1> DEFINE events == <<ResponseEvent(type)>>
<1>1. Emit(events, "return")
  BY DEF Terminate
<1>2. /\ events \in Seq(Events) /\ Len(events) = 1 /\ events[1].type = type
      /\ events[1].item = NoItem
  BY TerminalTyped
<1> HIDE DEF events
<1>3. TerminalLast(events) /\ Has(events, TerminalTypes)
  BY <1>2 DEF TerminalLast, Has
<1>4. PlainEvents(events)
  BY <1>2 DEF PlainEvents, NoItem, None, TerminalTypes
<1> QED
  BY <1>1, <1>2, <1>3, <1>4

\* Item events end nothing.
LEMMA ItemEventsEmit ==
    ASSUME NEW events \in Seq(ItemEvents)
    PROVE  /\ events \in Seq(Events)
           /\ \A k \in 1..Len(events) :
                 events[k].type \in {"added", "part", "delta", "done"}
           /\ TerminalLast(events)
           /\ (\A k \in 1..Len(events) : events[k].item[1] # "result")
                => PlainEvents(events)
<1>1. \A e \in ItemEvents : e \in Events /\ e.type \in {"added", "part", "delta", "done"}
  BY DEF ItemEvents
<1>2. \A type \in {"added", "part", "delta", "done"} : type \notin TerminalTypes
  BY DEF TerminalTypes
<1> QED
  BY <1>1, <1>2 DEF TerminalLast, PlainEvents

\* Items are told apart by their kind.
LEMMA ItemKindsDiffer ==
    /\ NoItem[1] = None /\ ReasoningItem[1] = "reasoning"
    /\ \A t : TextItem(t)[1] = "text"
    /\ \A t, c : /\ CallItem(t, c)[1] = "call" /\ CallItem(t, c)[2] = t
                 /\ CallItem(t, c)[3] = c
    /\ \A t, c : /\ ResultItem(t, c)[1] = "result" /\ ResultItem(t, c)[2] = t
                 /\ ResultItem(t, c)[3] = c
BY DEF NoItem, ReasoningItem, TextItem, CallItem, ResultItem

LEMMA ClosingEmits ==
    ASSUME turn \in Nat, st \in StreamStates, NEW type \in TerminalTypes,
           NEW events, events = Append(TextClosing, ResponseEvent(type))
    PROVE  /\ events \in Seq(Events)
           /\ TerminalLast(events) /\ Has(events, TerminalTypes)
           /\ PlainEvents(events) /\ PlainEvents(TextClosing)
           /\ Len(events) = Len(TextClosing) + 1
           /\ events[Len(events)].type = type
           /\ events[Len(events)].item = NoItem
           /\ \A k \in 1..Len(TextClosing) : events[k] = TextClosing[k]
<1> DEFINE closing == TextClosing
           last == ResponseEvent(type)
<1>1. closing \in Seq(ItemEvents)
  BY TextClosingTyped
<1>2. /\ closing \in Seq(Events)
      /\ \A k \in 1..Len(closing) : closing[k].type \notin TerminalTypes
  BY <1>1, ItemEventsEmit DEF TerminalTypes
<1>3. last \in Events /\ last.type = type /\ last.item = NoItem
  BY TerminalTyped
<1>4. events = Append(closing, last)
  OBVIOUS
<1> HIDE DEF closing, last
<1>5. /\ events \in Seq(Events)
      /\ Len(events) = Len(closing) + 1
      /\ events[Len(events)] = last
      /\ \A k \in 1..Len(closing) : events[k] = closing[k]
  BY <1>2, <1>3, <1>4
<1>6. Len(closing) \in Nat
  BY <1>2
<1>7. TerminalLast(events)
  BY <1>2, <1>5, <1>6 DEF TerminalLast
<1>8. Has(events, TerminalTypes)
  BY <1>3, <1>5, <1>6 DEF Has
<1>9. PlainEvents(closing)
  <2>1. \A k \in 1..Len(closing) :
           closing[k].item = TextItem(turn) /\ closing[k].type # "tool"
    BY <1>1, TextClosingTyped, ItemEventsEmit DEF closing, TextEvent
  <2> QED
    BY <2>1, ItemKindsDiffer DEF PlainEvents
<1>10. PlainEvents(events)
  BY <1>3, <1>5, <1>6, <1>9, ItemKindsDiffer DEF PlainEvents, TerminalTypes, None
<1> QED
  BY <1>3, <1>5, <1>7, <1>8, <1>9, <1>10 DEF closing

LEMMA OpeningEmits ==
    /\ Opening \in Seq(Events) /\ TerminalLast(Opening)
    /\ Len(Opening) = 2
    /\ Opening[1].type = "created" /\ Opening[1].item = NoItem
    /\ Opening[2].type = "in_progress" /\ Opening[2].item = NoItem
    /\ PlainEvents(Opening)
<1>1. /\ Len(Opening) = 2
      /\ Opening[1].type = "created" /\ Opening[1].item = NoItem
      /\ Opening[2].type = "in_progress" /\ Opening[2].item = NoItem
  BY DEF Opening, ResponseEvent, Event
<1>2. TerminalLast(Opening)
  BY <1>1 DEF TerminalLast, TerminalTypes
<1>3. PlainEvents(Opening)
  BY <1>1 DEF PlainEvents, NoItem, None
<1> QED
  BY <1>1, <1>2, <1>3, OpeningTyped

LEMMA ResultsEmit ==
    ASSUME req \in Requests, calls \in Seq(Calls), turn \in Nat, st \in StreamStates
    PROVE  ResultEvents \in Seq(Events) /\ TerminalLast(ResultEvents)
BY ResultEventsTyped DEF TerminalLast, TerminalTypes

LEMMA HandlerEmits ==
    ASSUME Typed, Working, HandlerStep
    PROVE  \E events, next : Emission(events, next)
<1>1. /\ seq \in Nat /\ TurnTyped /\ turn \in Nat /\ st \in StreamStates
      /\ calls \in Seq(Calls) /\ req \in Requests /\ req.agentic \in BOOLEAN
  <2>1. turn \in 1..(MaxTurns + 1) /\ MaxTurns \in Nat
    BY ProviderAssumption DEF Typed, TurnTyped
  <2> QED
    BY <2>1, RequestFields DEF Typed
<1>2. ~Cleanup /\ ~Report
  BY DEF Working, Cleanup, Report
<1>3. /\ conn' = conn /\ req' = req
  BY <1>2 DEF HandlerStep, Start, TurnStart, Connect, ConnectFails, RecvCancelled,
              RecvError, RecvDelta, RecvDone, RecvClosed, Decide, ToolsReturned
<1>4. CASE \E type \in TerminalTypes : Terminate(type)
  <2>1. PICK type \in TerminalTypes : Terminate(type)
    BY <1>4
  <2>2. PICK events : /\ events \in Seq(Events) /\ Emit(events, "return")
                      /\ TerminalLast(events) /\ PlainEvents(events)
                      /\ Has(events, TerminalTypes)
    BY <2>1, TerminateEmits
  <2>3. Emission(events, "return")
    BY <1>3, <2>2 DEF Emission, PcStates
  <2> QED
    BY <2>3
<1>5. CASE \E label : /\ Goto(label)
                      /\ label \in PcStates \ {"start", "report", "ended", "return"}
                      /\ ~req.agentic =>
                           /\ label = "connect" => pc = "start"
                           /\ label = "error" => pc = "connect"
  <2>1. PICK label : /\ Goto(label)
                     /\ label \in PcStates \ {"start", "report", "ended", "return"}
                     /\ ~req.agentic =>
                          /\ label = "connect" => pc = "start"
                          /\ label = "error" => pc = "connect"
    BY <1>5
  <2>2. Emission(<< >>, label)
    BY <1>1, <1>3, <2>1, GotoEmits DEF Emission
  <2> QED
    BY <2>2
<1>6. CASE Emit(Opening, "turn") \/ Emit(Opening, "consume")
  <2>1. PICK next \in {"turn", "consume"} : Emit(Opening, next)
    BY <1>6
  <2>2. Emission(Opening, next)
    BY <1>3, <2>1, OpeningEmits DEF Emission, PcStates
  <2> QED
    BY <2>2
<1>7. CASE \E type \in TerminalTypes :
              Emit(Append(TextClosing, ResponseEvent(type)), "return")
  <2>1. PICK type \in TerminalTypes :
           Emit(Append(TextClosing, ResponseEvent(type)), "return")
    BY <1>7
  <2> DEFINE events == Append(TextClosing, ResponseEvent(type))
  <2>2. /\ events \in Seq(Events) /\ TerminalLast(events) /\ PlainEvents(events)
        /\ Has(events, TerminalTypes) /\ Emit(events, "return")
    BY <1>1, <2>1, ClosingEmits
  <2> HIDE DEF events
  <2>3. Emission(events, "return")
    BY <1>3, <2>2 DEF Emission, PcStates
  <2> QED
    BY <2>3
<1>8. CASE Emit(TextClosing, "decide") /\ req.agentic
  <2>1. TextClosing \in Seq(Events) /\ TerminalLast(TextClosing)
    BY <1>1, TextClosingTyped, ItemEventsEmit
  <2>2. PlainEvents(TextClosing)
    BY <1>1, ClosingEmits DEF TerminalTypes
  <2>3. Emission(TextClosing, "decide")
    BY <1>3, <1>8, <2>1, <2>2 DEF Emission, PcStates
  <2> QED
    BY <2>3
<1>9. CASE Emit(ResultEvents, "turn") /\ pc = "tools"
  <2>1. Emission(ResultEvents, "turn")
    BY <1>1, <1>3, <1>9, ResultsEmit DEF Emission, PcStates
  <2> QED
    BY <2>1
<1>10. CASE RecvDelta
  <2>1. /\ StreamsTyped /\ turn \in Turns /\ Receivable /\ Receive
    BY <1>10 DEF Typed, TurnTyped, RecvDelta, Receivable
  <2>2. Received \in ProviderEvents
    BY <2>1, ReceiveTyped
  <2>3. Opened \in StreamStates
    <3>1. st.index + 1 \in Nat
      BY <1>1, StateFields
    <3> QED
      BY <1>1, <3>1 DEF Opened, StreamStates
  <2> DEFINE m == MapProviderEvent(Received, Opened, turn)
             events == TextOpening \o m.events
  <2>4. Emit(events, "consume")
    BY <1>10 DEF RecvDelta
  <2>5. /\ m.events \in Seq(ItemEvents)
        /\ \A k \in 1..Len(m.events) : OfTurn(m.events[k], turn)
    BY <1>1, <2>2, <2>3, ProviderEventMapped DEF EventsMapped
  <2> HIDE DEF m
  <2> DEFINE opening == TextOpening
             mapped == m.events
  <2>6. /\ opening \in Seq(ItemEvents)
        /\ \A k \in 1..Len(opening) : opening[k].item = TextItem(turn)
    BY <1>1, <2>3, TextOpeningTyped DEF TextEvent
  <2>7. \A k \in 1..Len(mapped) : mapped[k].item[1] # "result"
    BY <2>5, ItemKindsDiffer DEF OfTurn
  <2>8. \A k \in 1..Len(opening) : opening[k].item[1] # "result"
    BY <2>6, ItemKindsDiffer
  <2>9. events = opening \o mapped /\ mapped \in Seq(ItemEvents)
    BY <2>5
  <2> HIDE DEF events, opening, mapped
  <2>10. /\ opening \o mapped \in Seq(ItemEvents)
         /\ \A k \in 1..Len(opening) : (opening \o mapped)[k] = opening[k]
         /\ \A k \in 1..Len(opening \o mapped) :
               \/ k \in 1..Len(opening)
               \/ /\ k - Len(opening) \in 1..Len(mapped)
                  /\ (opening \o mapped)[k] = mapped[k - Len(opening)]
    BY <2>6, <2>9, ConcatElements
  <2>11. /\ events \in Seq(ItemEvents)
         /\ \A k \in 1..Len(events) : events[k].item[1] # "result"
    BY <2>7, <2>8, <2>9, <2>10
  <2>12. Emission(events, "consume")
    BY <1>3, <2>4, <2>11, ItemEventsEmit DEF Emission, PcStates
  <2> QED
    BY <2>12
<1>11. CASE Start
  BY <1>5, <1>6, <1>11 DEF Start, PcStates
<1>12. CASE TurnStart
  <2>1. req.agentic
    BY <1>1, <1>12 DEF TurnTyped, TurnStart
  <2> QED
    BY <1>4, <1>5, <1>12, <2>1 DEF TurnStart, TerminalTypes, PcStates
<1>13. CASE Connect
  BY <1>5, <1>6, <1>13 DEF Connect, PcStates
<1>14. CASE ConnectFails
  <2>1. pc = "connect" /\ (Goto("error") \/ \E type \in TerminalTypes : Terminate(type))
    BY <1>14 DEF ConnectFails, TerminalTypes
  <2> QED
    BY <1>4, <1>5, <2>1 DEF PcStates
<1>15. CASE RecvCancelled \/ RecvError
  <2>1. \/ Goto("error") /\ req.agentic
        \/ \E type \in TerminalTypes : Terminate(type)
    BY <1>15 DEF RecvCancelled, RecvError, TerminalTypes
  <2> QED
    BY <1>4, <1>5, <2>1 DEF PcStates
<1>16. CASE RecvDone
  <2>1. CASE req.agentic
    BY <1>8, <1>16, <2>1 DEF RecvDone
  <2>2. CASE ~req.agentic
    <3>1. Received \in ProviderEvents /\ Received.kind = "done"
      BY <1>16, ReceiveTyped DEF Typed, TurnTyped, RecvDone, Receivable
    <3>2. FinalStatus(Received.arg) \in TerminalTypes
      BY <3>1 DEF ProviderEvents, Statuses, FinalStatus, TerminalTypes
    <3>3. Emit(Append(TextClosing, ResponseEvent(FinalStatus(Received.arg))), "return")
      BY <1>16, <2>2 DEF RecvDone
    <3> HIDE DEF FinalStatus
    <3> QED
      BY <1>7, <3>2, <3>3
  <2> QED
    BY <2>1, <2>2
<1>17. CASE RecvClosed
  <2>1. \/ Goto("decide")
        \/ \E type \in TerminalTypes : Terminate(type)
        \/ \E type \in TerminalTypes :
              Emit(Append(TextClosing, ResponseEvent(type)), "return")
    BY <1>17 DEF RecvClosed, TerminalTypes
  <2> QED
    BY <1>4, <1>5, <1>7, <2>1 DEF PcStates
<1>18. CASE Decide
  <2>1. Goto("tools") \/ \E type \in TerminalTypes : Terminate(type)
    BY <1>18 DEF Decide, TerminalTypes
  <2> QED
    BY <1>4, <1>5, <2>1 DEF PcStates
<1>19. CASE ToolsReturned
  BY <1>9, <1>19 DEF ToolsReturned
<1> QED
  BY <1>2, <1>10, <1>11, <1>12, <1>13, <1>14, <1>15, <1>16, <1>17, <1>18, <1>19
     DEF HandlerStep

\* Numbering and writing do not look at more than the types of events.
LEMMA EmitOutcome ==
    ASSUME Typed, NEW events \in Seq(Events), NEW next, Emit(events, next)
    PROVE  \/ /\ UNCHANGED writerVars
              /\ \/ events = << >> /\ pc' = next
                 \/ events # << >> /\ writer = "completed" /\ pc' = "error"
           \/ /\ events # << >> /\ writer # "completed"
              /\ wire' = IF conn = "up" THEN wire \o Numbered(events, seq) ELSE wire
              /\ writer' \in {"completed", "streaming"}
              /\ writer' = "completed" => Has(events, TerminalTypes)
              /\ pc' \in {next, "error"}
              /\ conn = "up" =>
                    /\ pc' = next
                    /\ Has(events, TerminalTypes) => writer' = "completed"
              /\ registered' = (registered \/ Has(events, {"created"}))
<1> DEFINE numbered == Numbered(events, seq)
<1>1. PICK ok \in BOOLEAN :
         Write(numbered, ok) /\ pc' = IF ok THEN next ELSE "error"
  BY DEF Emit
<1>2. /\ numbered \in Seq(WireEvents) /\ Len(numbered) = Len(events)
      /\ \A k \in 1..Len(events) : numbered[k].type = events[k].type
  BY NumberedEvents DEF Typed
<1> HIDE DEF numbered
<1>3. \A types : Has(numbered, types) <=> Has(events, types)
  BY <1>2 DEF Has
<1>4. events = << >> <=> numbered = << >>
  BY <1>2
<1> QED
  BY <1>1, <1>3, <1>4 DEF Write, numbered

\* What was on the wire stays, and the new events come after it.
LEMMA WireGrows ==
    ASSUME Typed, NEW events \in Seq(Events), NEW from \in Nat,
           wire' = wire \o Numbered(events, from)
    PROVE  /\ Len(wire') = Len(wire) + Len(events)
           /\ Len(wire) \in Nat /\ Len(events) \in Nat
           /\ \A k \in 1..Len(wire) : wire'[k] = wire[k]
           /\ \A k \in 1..Len(events) :
                 /\ wire'[Len(wire) + k].type = events[k].type
                 /\ wire'[Len(wire) + k].item = events[k].item
                 /\ wire'[Len(wire) + k].seq = from + k - 1
           /\ \A k \in 1..Len(wire') :
                 \/ k \in 1..Len(wire)
                 \/ /\ k - Len(wire) \in 1..Len(events)
                    /\ wire'[k].type = events[k - Len(wire)].type
                    /\ wire'[k].item = events[k - Len(wire)].item
                    /\ wire'[k].seq = from + (k - Len(wire)) - 1
<1> DEFINE numbered == Numbered(events, from)
<1>1. /\ numbered \in Seq(WireEvents) /\ Len(numbered) = Len(events)
      /\ \A k \in 1..Len(events) :
            /\ numbered[k].type = events[k].type
            /\ numbered[k].item = events[k].item
            /\ numbered[k].seq = from + k - 1
  BY NumberedEvents
<1>2. wire \in Seq(WireEvents) /\ wire' = wire \o numbered
  BY DEF Typed, WriterTyped
<1> HIDE DEF numbered
<1>3. /\ Len(wire \o numbered) = Len(wire) + Len(numbered)
      /\ \A k \in 1..Len(wire) : (wire \o numbered)[k] = wire[k]
      /\ \A k \in 1..Len(numbered) : (wire \o numbered)[Len(wire) + k] = numbered[k]
      /\ \A k \in 1..Len(wire \o numbered) :
            \/ k \in 1..Len(wire)
            \/ /\ k - Len(wire) \in 1..Len(numbered)
               /\ (wire \o numbered)[k] = numbered[k - Len(wire)]
  <2>1. wire \in Seq(WireEvents) /\ numbered \in Seq(WireEvents)
    BY <1>1, <1>2
  <2> QED
    BY <2>1, ConcatElements
<1>4. /\ Len(wire') = Len(wire) + Len(numbered)
      /\ \A k \in 1..Len(wire) : wire'[k] = wire[k]
      /\ \A k \in 1..Len(numbered) : wire'[Len(wire) + k] = numbered[k]
      /\ \A k \in 1..Len(wire') :
            \/ k \in 1..Len(wire)
            \/ k - Len(wire) \in 1..Len(numbered) /\ wire'[k] = numbered[k - Len(wire)]
  BY <1>2, <1>3
<1>5. Len(wire) \in Nat /\ Len(events) \in Nat
  BY <1>2
<1> QED
  BY <1>1, <1>4, <1>5

-----------------------------------------------------------------------------
(***************************************************************************)
(* The tool goroutines run only while the handler waits for them.          *)
(***************************************************************************)
ToolsAwaited == pc # "tools" => \A c \in Calls : tools[c].pc \in {"idle", "done"}

LEMMA ToolsAwaitedStep ==
    ASSUME Typed, ToolsAwaited, [Next]_vars
    PROVE  ToolsAwaited'
<1>1. CASE HandlerStep
  <2>1. CASE Decide
    <3>1. /\ WriterTyped /\ seq \in Nat /\ pc = "decide"
      BY <2>1 DEF Typed, Decide
    <3>2. CASE UNCHANGED tools
      <4>1. \A c \in Calls : tools[c].pc \in {"idle", "done"}
        BY <3>1 DEF ToolsAwaited
      <4> QED
        BY <3>2, <4>1 DEF ToolsAwaited
    <3>3. CASE Goto("tools")
      BY <3>3 DEF Goto, ToolsAwaited
    <3> QED
      BY <2>1, <3>2, <3>3 DEF Decide
  <2>2. CASE ToolsReturned
    BY <2>2 DEF ToolsReturned, ToolsAwaited
  <2>3. CASE ~Decide /\ ~ToolsReturned
    <3>1. tools' = tools /\ pc # "tools"
      BY <1>1, <2>3 DEF HandlerStep, Start, TurnStart, Connect, ConnectFails,
         RecvCancelled, RecvError, RecvDelta, RecvDone, RecvClosed, Receivable,
         Cleanup, Report
    <3> QED
      BY <3>1 DEF ToolsAwaited
  <2> QED
    BY <2>1, <2>2, <2>3
<1>2. CASE \E c \in Calls : ToolStep(c)
  <2>1. PICK c \in Calls : ToolStep(c)
    BY <1>2
  <2>2. tools[c].pc \notin {"idle", "done"}
    BY <2>1 DEF ToolStep, ToolStart, ToolLoadSeq, ToolStoreSeq, ToolWrite, ToolRun
  <2>3. pc = "tools" /\ pc' = pc
    BY <2>1, <2>2 DEF ToolsAwaited, ToolStep, ToolStart, ToolLoadSeq, ToolStoreSeq,
       ToolWrite, ToolRun, engineVars
  <2> QED
    BY <2>3 DEF ToolsAwaited
<1>3. CASE \/ \E t \in Turns : BackendStep(t) \/ StreamStep(t)
           \/ Delete \/ ClientGone \/ ServerNotices \/ UNCHANGED vars
  <2>1. pc' = pc /\ tools' = tools
    BY <1>3 DEF BackendStep, StreamStep, Unchanged, Delete, ClientGone, ServerNotices,
       vars, engineVars
  <2> QED
    BY <2>1 DEF ToolsAwaited
<1> QED
  BY <1>1, <1>2, <1>3 DEF Next

LEMMA ToolsAwaitedInvariant == Spec => []ToolsAwaited
<1>1. Init => ToolsAwaited
  <2>1. NoTool.pc = "idle"
    BY DEF NoTool
  <2> QED
    BY <2>1 DEF Init, ToolsAwaited
<1>2. Typed /\ ToolsAwaited /\ [Next]_vars => ToolsAwaited'
  BY ToolsAwaitedStep
<1> QED
  BY <1>1, <1>2, TypedInductive, PTL DEF Spec

\* The steps that leave the writer, the counter and the handler alone.
LEMMA QuietSteps ==
    ASSUME \/ \E t \in Turns : BackendStep(t) \/ StreamStep(t)
           \/ Delete \/ ClientGone \/ ServerNotices \/ UNCHANGED vars
    PROVE  /\ UNCHANGED <<writer, wire, pc, turn, seq, st, msg, calls, tools, req>>
           /\ conn' = conn \/ conn' = "gone"
           /\ registered' = registered \/ registered' = FALSE
<1>1. CASE \E t \in Turns : BackendStep(t) \/ StreamStep(t)
  BY <1>1 DEF BackendStep, StreamStep, Unchanged, engineVars, writerVars
<1>2. CASE Delete \/ ClientGone \/ ServerNotices \/ UNCHANGED vars
  BY <1>2 DEF Delete, ClientGone, ServerNotices, vars, engineVars, writerVars
<1> QED
  BY <1>1, <1>2

\* The steps of tools: one of them writes, another one counts.
LEMMA ToolSteps ==
    ASSUME Typed, ToolsAwaited, NEW c \in Calls, ToolStep(c)
    PROVE  /\ pc = "tools"
           /\ UNCHANGED <<pc, turn, st, msg, calls, conn, req, ctx, prod>>
           /\ registered' = registered
           /\ \/ UNCHANGED <<writer, wire>>
              \/ /\ ToolWrite(c) /\ writer # "completed" /\ writer' = "streaming"
                 /\ \E events \in Seq(Events) :
                       /\ Len(events) = 1
                       /\ events[1].type = "tool"
                       /\ events[1].item = tools[c].item
                       /\ wire' = IF conn = "up"
                                  THEN wire \o Numbered(events, tools[c].n)
                                  ELSE wire
<1>1. pc = "tools" /\ UNCHANGED <<pc, turn, st, msg, calls, conn, req, ctx, prod>>
  BY DEF ToolsAwaited, ToolStep, ToolStart, ToolLoadSeq, ToolStoreSeq, ToolWrite,
     ToolRun, engineVars
<1>2. CASE ~ToolWrite(c)
  BY <1>1, <1>2 DEF ToolStep, ToolStart, ToolLoadSeq, ToolStoreSeq, ToolRun, writerVars
<1>3. CASE ToolWrite(c)
  <2> DEFINE events == <<Event("tool", tools[c].item, tools[c].index)>>
             numbered == Numbered(events, tools[c].n)
  <2>1. PICK ok \in BOOLEAN : Write(numbered, ok)
    BY <1>3 DEF ToolWrite
  <2>2. /\ tools[c].item \in Items /\ tools[c].index \in Nat /\ tools[c].n \in Nat
    BY ToolFields DEF Typed
  <2>3. /\ events \in Seq(Events) /\ Len(events) = 1
        /\ events[1].type = "tool" /\ events[1].item = tools[c].item
    BY <2>2, EventTyped DEF EventTypes, Event
  <2> HIDE DEF events
  <2>4. /\ numbered \in Seq(WireEvents) /\ Len(numbered) = 1
        /\ numbered[1].type = "tool"
    BY <2>2, <2>3, NumberedEvents
  <2> HIDE DEF numbered
  <2>5. numbered # << >> /\ ~Has(numbered, TerminalTypes) /\ ~Has(numbered, {"created"})
    BY <2>4 DEF Has, TerminalTypes
  <2>6. CASE UNCHANGED writerVars
    BY <1>1, <2>1, <2>5, <2>6 DEF writerVars
  <2>7. CASE ~UNCHANGED writerVars
    <3>1. /\ writer # "completed"
          /\ wire' = IF conn = "up" THEN wire \o numbered ELSE wire
          /\ writer' = "streaming" /\ registered' = registered
      BY <2>1, <2>5, <2>7 DEF Write, Typed, WriterTyped
    <3> QED
      BY <1>1, <1>3, <2>3, <3>1 DEF numbered
  <2> QED
    BY <2>6, <2>7
<1> QED
  BY <1>2, <1>3

-----------------------------------------------------------------------------
(***************************************************************************)
(* The end of a stream.  A terminal event completes the writer, and a      *)
(* completed writer refuses; so the last event on the wire is a terminal   *)
(* one as soon as the writer is completed, and on every path the handler   *)
(* ends only then, or before anything was written, or without a client.    *)
(***************************************************************************)
Terminals ==
    \A k \in 1..Len(wire) :
       wire[k].type \in TerminalTypes => k = Len(wire) /\ writer = "completed"

Completed ==
    conn = "up" =>
       /\ writer = "completed" => Len(wire) > 0 /\ wire[Len(wire)].type \in TerminalTypes
       /\ pc = "return" => writer = "completed"
       /\ pc = "ended" => writer \in {"idle", "completed"}

LEMMA AppendedTerminals ==
    ASSUME Typed, Terminals, writer # "completed",
           NEW events \in Seq(Events), events # << >>, TerminalLast(events),
           NEW from \in Nat, wire' = wire \o Numbered(events, from),
           Has(events, TerminalTypes) => writer' = "completed"
    PROVE  /\ Terminals'
           /\ Has(events, TerminalTypes) =>
                Len(wire') > 0 /\ wire'[Len(wire')].type \in TerminalTypes
<1>1. /\ Len(wire') = Len(wire) + Len(events)
      /\ Len(wire) \in Nat /\ Len(events) \in Nat
      /\ \A k \in 1..Len(wire) : wire'[k] = wire[k]
      /\ \A k \in 1..Len(events) : wire'[Len(wire) + k].type = events[k].type
      /\ \A k \in 1..Len(wire') :
            \/ k \in 1..Len(wire)
            \/ /\ k - Len(wire) \in 1..Len(events)
               /\ wire'[k].type = events[k - Len(wire)].type
  BY WireGrows
<1>2. Terminals'
  <2>1. SUFFICES ASSUME NEW k \in 1..Len(wire'), wire'[k].type \in TerminalTypes
                 PROVE  k = Len(wire') /\ writer' = "completed"
    BY DEF Terminals
  <2>2. k \notin 1..Len(wire)
    BY <1>1, <2>1 DEF Terminals
  <2>3. /\ k - Len(wire) \in 1..Len(events)
        /\ events[k - Len(wire)].type \in TerminalTypes
    BY <1>1, <2>1, <2>2
  <2>4. k - Len(wire) = Len(events) /\ writer' = "completed"
    BY <2>3 DEF TerminalLast, Has
  <2> QED
    BY <1>1, <2>4
<1>3. ASSUME Has(events, TerminalTypes)
      PROVE  Len(wire') > 0 /\ wire'[Len(wire')].type \in TerminalTypes
  <2>1. PICK k \in 1..Len(events) : events[k].type \in TerminalTypes
    BY <1>3 DEF Has
  <2>2. k = Len(events)
    BY <2>1 DEF TerminalLast
  <2> QED
    BY <1>1, <2>1, <2>2
<1> QED
  BY <1>2, <1>3

LEMMA AnsweredStep ==
    ASSUME Typed, ToolsAwaited, Terminals, Completed, [Next]_vars
    PROVE  Terminals' /\ Completed'
<1>0. writer \in WriterStates /\ conn \in {"up", "gone"} /\ Len(wire) \in Nat
      /\ seq \in Nat
  BY DEF Typed, WriterTyped
<1>1. CASE HandlerStep /\ Working
  <2>1. PICK events, next : Emission(events, next)
    BY <1>1, HandlerEmits
  <2>2. /\ events \in Seq(Events) /\ Emit(events, next) /\ conn' = conn
        /\ TerminalLast(events) /\ next \notin {"report", "ended"}
        /\ next = "return" => Has(events, TerminalTypes)
    BY <2>1 DEF Emission
  <2>3. Has(<< >>, TerminalTypes) = FALSE
    BY DEF Has
  <2>4. CASE /\ UNCHANGED writerVars
             /\ \/ events = << >> /\ pc' = next
                \/ events # << >> /\ writer = "completed" /\ pc' = "error"
    BY <2>2, <2>3, <2>4 DEF Terminals, Completed, writerVars
  <2>5. CASE /\ events # << >> /\ writer # "completed"
             /\ wire' = IF conn = "up" THEN wire \o Numbered(events, seq) ELSE wire
             /\ writer' \in {"completed", "streaming"}
             /\ writer' = "completed" => Has(events, TerminalTypes)
             /\ pc' \in {next, "error"}
             /\ conn = "up" =>
                   /\ pc' = next
                   /\ Has(events, TerminalTypes) => writer' = "completed"
    <3>1. CASE conn = "up"
      <4>1. /\ Terminals'
            /\ Has(events, TerminalTypes) =>
                  Len(wire') > 0 /\ wire'[Len(wire')].type \in TerminalTypes
        BY <1>0, <2>2, <2>5, <3>1, AppendedTerminals
      <4> QED
        BY <2>2, <2>5, <3>1, <4>1 DEF Completed
    <3>2. CASE conn # "up"
      BY <2>2, <2>5, <3>2 DEF Terminals, Completed
    <3> QED
      BY <3>1, <3>2
  <2> QED
    BY <2>2, <2>4, <2>5, EmitOutcome
<1>2. CASE HandlerStep /\ ~Working
  <2>1. Cleanup \/ Report
    BY <1>2 DEF Working, HandlerStep, Start, TurnStart, Connect, ConnectFails,
       RecvCancelled, RecvError, RecvDelta, RecvDone, RecvClosed, Receivable, Decide,
       ToolsReturned
  <2>2. CASE Cleanup
    BY <2>2 DEF Cleanup, Terminals, Completed
  <2>3. CASE Report /\ writer = "idle"
    BY <2>3 DEF Report, Terminals, Completed, writerVars
  <2>4. CASE Report /\ writer # "idle"
    <3> DEFINE events == <<ResponseEvent("failed")>>
               numbered == Numbered(events, 0)
    <3>1. PICK ok \in BOOLEAN : Write(numbered, ok)
      BY <2>4 DEF Report
    <3>2. conn' = conn /\ pc' = "ended"
      BY <2>4 DEF Report
    <3>3. events \in Seq(Events) /\ Len(events) = 1 /\ events[1].type \in TerminalTypes
      BY TerminalTyped DEF TerminalTypes
    <3> HIDE DEF events
    <3>4. /\ numbered \in Seq(WireEvents) /\ Len(numbered) = 1
          /\ numbered[1].type \in TerminalTypes
      BY <3>3, NumberedEvents
    <3>5. TerminalLast(events) /\ Has(events, TerminalTypes) /\ events # << >>
      BY <3>3 DEF TerminalLast, Has
    <3>6. CASE UNCHANGED writerVars /\ writer = "completed"
      BY <3>2, <3>6 DEF Terminals, Completed, writerVars
    <3>7. CASE writer # "completed"
      <4>1. Has(numbered, TerminalTypes) /\ numbered # << >>
        BY <3>4 DEF Has
      <4>2. /\ conn = "up" => ok
            /\ wire' = IF conn = "up" THEN wire \o numbered ELSE wire
            /\ writer' = IF ok THEN "completed" ELSE "streaming"
        BY <3>1, <3>7, <4>1 DEF Write
      <4>3. CASE conn = "up"
        <5>1. /\ Terminals'
              /\ Len(wire') > 0 /\ wire'[Len(wire')].type \in TerminalTypes
          BY <3>3, <3>5, <3>7, <4>2, <4>3, AppendedTerminals
        <5> QED
          BY <3>2, <4>2, <4>3, <5>1 DEF Completed
      <4>4. CASE conn # "up"
        BY <3>2, <3>7, <4>2, <4>4 DEF Terminals, Completed
      <4> QED
        BY <4>3, <4>4
    <3>8. numbered # << >>
      BY <3>4
    <3> QED
      BY <3>1, <3>6, <3>7, <3>8 DEF Write
  <2> QED
    BY <2>1, <2>2, <2>3, <2>4
<1>3. CASE \E c \in Calls : ToolStep(c)
  <2>1. PICK c \in Calls : ToolStep(c)
    BY <1>3
  <2>2. pc = "tools" /\ pc' = pc /\ conn' = conn
    BY <2>1, ToolSteps
  <2>3. CASE UNCHANGED <<writer, wire>>
    BY <2>2, <2>3 DEF Terminals, Completed
  <2>4. CASE ~UNCHANGED <<writer, wire>>
    <3>1. PICK events \in Seq(Events) :
             /\ Len(events) = 1 /\ events[1].type = "tool"
             /\ wire' = IF conn = "up" THEN wire \o Numbered(events, tools[c].n)
                        ELSE wire
      BY <2>1, <2>4, ToolSteps
    <3>2. writer # "completed" /\ writer' = "streaming"
      BY <2>1, <2>4, ToolSteps
    <3>3. /\ TerminalLast(events) /\ ~Has(events, TerminalTypes) /\ events # << >>
          /\ tools[c].n \in Nat
      <4>1. "tool" \notin TerminalTypes
        BY DEF TerminalTypes
      <4>2. \A k \in 1..Len(events) : events[k].type = "tool"
        BY <3>1
      <4>3. tools[c].n \in Nat
        BY ToolFields DEF Typed
      <4>4. events # << >>
        <5>1. Len(events) = 1 /\ Len(<< >>) = 0
          BY <3>1
        <5> QED
          BY <5>1
      <4>5. TerminalLast(events)
        BY <4>1, <4>2 DEF TerminalLast
      <4>6. ~Has(events, TerminalTypes)
        BY <4>1, <4>2 DEF Has
      <4> QED
        BY <4>3, <4>4, <4>5, <4>6
    <3>4. CASE conn = "up"
      <4>1. Terminals'
        BY <3>1, <3>2, <3>3, <3>4, AppendedTerminals
      <4> QED
        BY <2>2, <3>2, <4>1 DEF Completed
    <3>5. CASE conn # "up"
      BY <2>2, <3>1, <3>2, <3>5 DEF Terminals, Completed
    <3> QED
      BY <3>4, <3>5
  <2> QED
    BY <2>3, <2>4
<1>4. CASE \/ \E t \in Turns : BackendStep(t) \/ StreamStep(t)
           \/ Delete \/ ClientGone \/ ServerNotices \/ UNCHANGED vars
  <2>1. /\ UNCHANGED <<writer, wire, pc>>
        /\ conn' = conn \/ conn' = "gone"
    BY <1>4, QuietSteps
  <2> QED
    BY <2>1 DEF Terminals, Completed
<1> QED
  BY <1>1, <1>2, <1>3, <1>4 DEF Next

(***************************************************************************)
(* A stream that was begun ends with exactly one terminal event, and       *)
(* nothing follows it (WriteEvent, writeHandlerError).                     *)
(***************************************************************************)
THEOREM AlwaysAnswered == Spec => []StreamAnswered
<1>1. Init => Terminals /\ Completed
  <2>1. SUFFICES ASSUME Init PROVE Terminals /\ Completed
    OBVIOUS
  <2>2. wire = << >> /\ writer = "idle" /\ pc = "start"
    BY <2>1 DEF Init, WriterInit
  <2> QED
    BY <2>2 DEF Terminals, Completed
<1>2. Typed /\ ToolsAwaited /\ Terminals /\ Completed /\ [Next]_vars
        => Terminals' /\ Completed'
  BY AnsweredStep
<1>3. Typed /\ Terminals /\ Completed => StreamAnswered
  <2>1. SUFFICES ASSUME Typed, Terminals, Completed PROVE StreamAnswered
    OBVIOUS
  <2>2. Len(wire) \in Nat
    BY <2>1 DEF Typed, WriterTyped
  <2>3. \A k \in 1..(Len(wire) - 1) : wire[k].type \notin TerminalTypes
    BY <2>1, <2>2 DEF Terminals
  <2>4. ASSUME pc = "ended", conn = "up", writer # "idle"
        PROVE  Ending \in TerminalTypes
    <3>1. Len(wire) > 0 /\ wire[Len(wire)].type \in TerminalTypes
      BY <2>1, <2>4 DEF Completed
    <3>2. wire # << >>
      BY <3>1
    <3> QED
      BY <3>1, <3>2 DEF Ending, Last
  <2> QED
    BY <2>3, <2>4 DEF StreamAnswered
<1> QED
  BY <1>1, <1>2, <1>3, TypedInductive, ToolsAwaitedInvariant, PTL DEF Spec

-----------------------------------------------------------------------------
(***************************************************************************)
(* The steps of a handler that has finished its work.                      *)
(***************************************************************************)
LEMMA FinishingSteps ==
    ASSUME HandlerStep, ~Working
    PROVE  Cleanup \/ Report
BY DEF Working, HandlerStep, Start, TurnStart, Connect, ConnectFails,
   RecvCancelled, RecvError, RecvDelta, RecvDone, RecvClosed, Receivable, Decide,
   ToolsReturned

LEMMA ReportOutcome ==
    ASSUME Typed, Report
    PROVE  /\ pc = "report" /\ pc' = "ended" /\ conn' = conn /\ req' = req /\ seq' = seq
           /\ registered' = registered
           /\ \/ UNCHANGED <<writer, wire>> /\ writer \in {"idle", "completed"}
              \/ /\ writer = "streaming"
                 /\ conn # "up" => wire' = wire
<1>1. /\ pc = "report" /\ pc' = "ended" /\ conn' = conn /\ req' = req /\ seq' = seq
      /\ writer \in WriterStates /\ registered \in BOOLEAN
  BY DEF Report, Typed, WriterTyped
<1>2. CASE writer = "idle"
  BY <1>1, <1>2 DEF Report, writerVars
<1>3. CASE writer # "idle"
  <2> DEFINE events == <<ResponseEvent("failed")>>
             numbered == Numbered(events, 0)
  <2>1. PICK ok \in BOOLEAN : Write(numbered, ok)
    BY <1>3 DEF Report
  <2>2. events \in Seq(Events) /\ Len(events) = 1 /\ events[1].type = "failed"
    BY TerminalTyped DEF TerminalTypes
  <2> HIDE DEF events
  <2>3. /\ numbered \in Seq(WireEvents) /\ Len(numbered) = 1
        /\ numbered[1].type = "failed"
    BY <2>2, NumberedEvents
  <2> HIDE DEF numbered
  <2>4. ~Has(numbered, {"created"})
    BY <2>3 DEF Has
  <2>5. numbered # << >>
    BY <2>3
  <2> QED
    BY <1>1, <1>3, <2>1, <2>4, <2>5 DEF Write, writerVars, WriterStates
<1> QED
  BY <1>2, <1>3

LEMMA RegistryStep ==
    ASSUME Typed, ToolsAwaited, RegistryClean, [Next]_vars
    PROVE  RegistryClean'
<1>1. CASE HandlerStep /\ Working
  <2>1. PICK events, next : Emission(events, next)
    BY <1>1, HandlerEmits
  <2>2. pc' \in {next, "error"} /\ next \notin {"report", "ended"}
    BY <2>1 DEF Emission, Emit
  <2> QED
    BY <2>2 DEF RegistryClean
<1>2. CASE HandlerStep /\ ~Working
  BY <1>2, FinishingSteps, ReportOutcome DEF RegistryClean, Cleanup
<1>3. CASE \E c \in Calls : ToolStep(c)
  BY <1>3, ToolSteps DEF RegistryClean
<1>4. CASE \/ \E t \in Turns : BackendStep(t) \/ StreamStep(t)
           \/ Delete \/ ClientGone \/ ServerNotices \/ UNCHANGED vars
  BY <1>4, QuietSteps DEF RegistryClean
<1> QED
  BY <1>1, <1>2, <1>3, <1>4 DEF Next

(***************************************************************************)
(* A response is registered only while its handler works on it             *)
(* (handleStreamingResponse, InFlightRegistry).                            *)
(***************************************************************************)
THEOREM RegistryAlwaysClean == Spec => []RegistryClean
<1>1. Init => RegistryClean
  BY DEF Init, WriterInit, RegistryClean
<1>2. Typed /\ ToolsAwaited /\ RegistryClean /\ [Next]_vars => RegistryClean'
  BY RegistryStep
<1> QED
  BY <1>1, <1>2, TypedInductive, ToolsAwaitedInvariant, PTL DEF Spec

-----------------------------------------------------------------------------
(***************************************************************************)
(* Sequence numbers of the direct path.  The counter is the number of      *)
(* events on the wire as long as something can still be written to it; and *)
(* writeHandlerError, which does not number its event, finds a writer that *)
(* is idle or completed.                                                   *)
(***************************************************************************)
NumberedSoFar ==
    ~req.agentic =>
       /\ \A k \in 1..Len(wire) : wire[k].seq = k - 1
       /\ conn = "up" /\ writer # "completed" => seq = Len(wire)
       /\ conn = "up" /\ pc \in {"error", "report"} => writer # "streaming"
       /\ pc \in {"start", "connect"} => writer = "idle"

LEMMA NumberedStep ==
    ASSUME Typed, ToolsAwaited, NumberedSoFar, [Next]_vars
    PROVE  NumberedSoFar'
<1>0. /\ writer \in WriterStates /\ conn \in {"up", "gone"} /\ Len(wire) \in Nat
      /\ seq \in Nat /\ req.agentic \in BOOLEAN
  BY RequestFields DEF Typed, WriterTyped
<1>1. CASE HandlerStep /\ Working /\ ~req.agentic
  <2>1. PICK events, next : Emission(events, next)
    BY <1>1, HandlerEmits
  <2>2. /\ events \in Seq(Events) /\ Emit(events, next) /\ conn' = conn
        /\ req' = req /\ seq' = seq + Len(events)
        /\ next \notin {"start", "report"}
        /\ next = "connect" => pc = "start" /\ events = << >>
        /\ next = "error" => pc = "connect" /\ events = << >>
    BY <1>1, <2>1 DEF Emission, Emit
  <2>3. CASE events = << >>
    <3>1. UNCHANGED writerVars /\ pc' = next /\ seq' = seq
      <4>1. Len(events) = 0
        BY <2>3
      <4>2. seq' = seq
        BY <1>0, <2>2, <4>1
      <4>3. UNCHANGED writerVars /\ pc' = next
        BY <2>2, <2>3, EmitOutcome, Zenon
      <4> QED
        BY <4>2, <4>3
    <3> QED
      BY <1>0, <1>1, <2>2, <3>1 DEF NumberedSoFar, writerVars
  <2>4. CASE UNCHANGED writerVars /\ writer = "completed" /\ pc' = "error"
    BY <1>1, <2>2, <2>4 DEF NumberedSoFar, writerVars
  <2>5. CASE /\ events # << >> /\ writer # "completed"
             /\ wire' = IF conn = "up" THEN wire \o Numbered(events, seq) ELSE wire
             /\ pc' \in {next, "error"}
             /\ conn = "up" => pc' = next
    <3>1. next \notin {"error", "connect"}
      BY <2>2, <2>5
    <3>2. CASE conn = "up"
      <4>1. seq = Len(wire) /\ wire' = wire \o Numbered(events, seq)
        BY <1>1, <2>5, <3>2 DEF NumberedSoFar
      <4>2. /\ Len(wire') = Len(wire) + Len(events)
            /\ Len(events) \in Nat
            /\ \A k \in 1..Len(wire) : wire'[k] = wire[k]
            /\ \A k \in 1..Len(wire') :
                  \/ k \in 1..Len(wire)
                  \/ /\ k - Len(wire) \in 1..Len(events)
                     /\ wire'[k].seq = seq + (k - Len(wire)) - 1
        <5>1. seq \in Nat /\ events \in Seq(Events)
          BY <1>0, <2>2
        <5>2. wire' = wire \o Numbered(events, seq)
          BY <4>1
        <5> QED
          BY <5>1, <5>2, WireGrows
      <4>3. ASSUME NEW k \in 1..Len(wire') PROVE wire'[k].seq = k - 1
        BY <1>0, <1>1, <4>1, <4>2 DEF NumberedSoFar
      <4>4. seq' = Len(wire')
        BY <1>0, <2>2, <4>1, <4>2
      <4>5. pc' \notin {"error", "report", "start", "connect"}
        BY <2>2, <2>5, <3>1, <3>2
      <4> QED
        BY <4>3, <4>4, <4>5 DEF NumberedSoFar
    <3>3. CASE conn # "up"
      BY <1>1, <2>2, <2>5, <3>1, <3>3 DEF NumberedSoFar
    <3> QED
      BY <3>2, <3>3
  <2> QED
    BY <2>2, <2>3, <2>4, <2>5, EmitOutcome
<1>2. CASE HandlerStep /\ ~Working
  <2>1. CASE Cleanup
    BY <2>1 DEF Cleanup, NumberedSoFar
  <2>2. CASE Report
    <3>1. /\ pc = "report" /\ pc' = "ended" /\ conn' = conn /\ req' = req
          /\ seq' = seq
          /\ \/ UNCHANGED <<writer, wire>>
             \/ writer = "streaming" /\ (conn # "up" => wire' = wire)
      BY <2>2, ReportOutcome
    <3> QED
      BY <3>1 DEF NumberedSoFar
  <2> QED
    BY <1>2, <2>1, <2>2, FinishingSteps
<1>3. CASE \E c \in Calls : ToolStep(c)
  <2>1. pc = "tools" /\ req' = req
    BY <1>3, ToolSteps
  <2>2. req.agentic
    BY <2>1 DEF Typed, TurnTyped
  <2> QED
    BY <2>1, <2>2 DEF NumberedSoFar
<1>4. CASE \/ \E t \in Turns : BackendStep(t) \/ StreamStep(t)
           \/ Delete \/ ClientGone \/ ServerNotices \/ UNCHANGED vars
  BY <1>4, QuietSteps DEF NumberedSoFar
<1>5. CASE HandlerStep /\ Working /\ req.agentic
  <2>1. req' = req
    BY <1>5, HandlerEmits DEF Emission
  <2> QED
    BY <1>5, <2>1 DEF NumberedSoFar
<1> QED
  BY <1>1, <1>2, <1>3, <1>4, <1>5 DEF Next

(***************************************************************************)
(* The events of the direct path are numbered 0, 1, 2, ... on every path   *)
(* to the end of the stream (nextSeq).                                     *)
(***************************************************************************)
THEOREM AlwaysIncreasing == Spec => []SequenceIncreasing
<1>1. Init => NumberedSoFar
  <2>1. SUFFICES ASSUME Init PROVE NumberedSoFar
    OBVIOUS
  <2>2. wire = << >> /\ writer = "idle" /\ pc = "start" /\ seq = 0
    BY <2>1 DEF Init, WriterInit
  <2> QED
    BY <2>2 DEF NumberedSoFar
<1>2. Typed /\ ToolsAwaited /\ NumberedSoFar /\ [Next]_vars => NumberedSoFar'
  BY NumberedStep
<1>3. NumberedSoFar => SequenceIncreasing
  BY DEF NumberedSoFar, SequenceIncreasing
<1> QED
  BY <1>1, <1>2, <1>3, TypedInductive, ToolsAwaitedInvariant, PTL DEF Spec

-----------------------------------------------------------------------------
(***************************************************************************)
(* Tool events and results.  The results on the wire are those of earlier  *)
(* turns, and the tool goroutines report on calls of the current one.      *)
(***************************************************************************)
LEMMA TurnSteps ==
    ASSUME Typed, HandlerStep
    PROVE  /\ req' = req
           /\ pc = "tools" => turn' = turn + 1 /\ pc' \in {"turn", "error"}
           /\ pc # "tools" => turn' = turn
           /\ pc' = "tools" =>
                /\ Decide /\ UNCHANGED writerVars /\ seq' = seq
                /\ tools' = [c \in Calls |-> IF c \in CallSet \ req.rejected
                                            THEN QueuedTool(c) ELSE NoTool]
<1>1. req' = req
  BY DEF HandlerStep, Start, TurnStart, Connect, ConnectFails, RecvCancelled,
     RecvError, RecvDelta, RecvDone, RecvClosed, Decide, ToolsReturned, Cleanup, Report
<1>2. CASE ToolsReturned
  BY <1>1, <1>2 DEF ToolsReturned, Emit
<1>3. CASE Decide
  <2>1. turn' = turn /\ pc = "decide"
    BY <1>3 DEF Decide
  <2>2. CASE \E type : Terminate(type)
    BY <1>1, <2>1, <2>2 DEF Terminate, Emit
  <2>3. CASE ~\E type : Terminate(type)
    BY <1>1, <1>3, <2>1, <2>3 DEF Decide, Goto
  <2> QED
    BY <2>2, <2>3
<1>4. CASE ~Decide /\ ~ToolsReturned
  <2>1. turn' = turn /\ pc # "tools"
    BY <1>4 DEF HandlerStep, Start, TurnStart, Connect, ConnectFails, RecvCancelled,
       RecvError, RecvDelta, RecvDone, RecvClosed, Receivable, Cleanup, Report
  <2>2. pc' # "tools"
    BY <1>4 DEF HandlerStep, Start, TurnStart, Connect, ConnectFails, RecvCancelled,
       RecvError, RecvDelta, RecvDone, RecvClosed, Receivable, Cleanup, Report,
       Emit, Goto, Terminate
  <2> QED
    BY <1>1, <2>1, <2>2
<1> QED
  BY <1>2, <1>3, <1>4

ResultsPast ==
    \A k \in 1..Len(wire) : wire[k].item[1] = "result" => wire[k].item[2] < turn

ToolsPresent ==
    pc = "tools" =>
       \A c \in Calls : tools[c].pc # "idle" => tools[c].item = CallItem(turn, c)

ResultsLast ==
    \A j, k \in 1..Len(wire) :
       /\ wire[j].item[1] = "result" /\ wire[k].type = "tool"
       /\ wire[j].item[2] >= wire[k].item[2]
       => k < j

\* What one step makes of a tool's goroutine.
Move(c, tool) ==
    /\ tools' = [tools EXCEPT ![c] = tool]
    /\ tool.item = tools[c].item /\ tool.index = tools[c].index
    /\ tools[c].pc \notin {"idle", "done"}
    /\ tool.pc \notin {"idle", "queued"}
    /\ tools[c].pc = "queued" =>
         \/ req.parallel
         \/ \A d \in Calls : tools[d].index < tools[c].index
                              => tools[d].pc \in {"idle", "done"}
    /\ tool.pc = "store" => tool.n = seq
    /\ tool.pc = "write" => /\ tools[c].pc = "store" /\ tool.n = tools[c].n
                            /\ seq' \in {tools[c].n + 1, seq + 1}
    /\ tool.pc # "write" => seq' = seq
    /\ tools[c].pc # "write" => wire' = wire

LEMMA ToolMoves ==
    ASSUME Typed, NEW c \in Calls, ToolStep(c)
    PROVE  \E tool : Move(c, tool)
<1>1. /\ tools \in [Calls -> Tools] /\ tools[c] \in Tools
  BY DEF Typed, ToolsTyped
<1>2. CASE ToolStart(c)
  <2> DEFINE tool == ToolNext(tools[c], EventsBefore(c))
  <2>1. EventsBefore(c) \in Nat
    BY DEF EventsBefore
  <2>2. /\ tool.item = tools[c].item /\ tool.index = tools[c].index
        /\ tool.pc \in {"load", "run", "done"}
    BY <1>1, <2>1, ToolNextTyped
  <2>3. tools' = [tools EXCEPT ![c] = tool] /\ seq' = seq /\ wire' = wire
    BY <1>2 DEF ToolStart, engineVars, writerVars
  <2> HIDE DEF tool
  <2>4. Move(c, tool)
    BY <1>2, <2>2, <2>3 DEF Move, ToolStart
  <2> QED
    BY <2>4
<1>3. CASE ToolLoadSeq(c)
  <2> DEFINE t1 == [tools[c] EXCEPT !.n = seq]
             tool == [t1 EXCEPT !.pc = "store"]
  <2>1. tools' = [tools EXCEPT ![c] = tool] /\ seq' = seq /\ wire' = wire
    BY <1>1, <1>3 DEF ToolLoadSeq, engineVars, writerVars
  <2>2. /\ t1 \in Tools /\ t1.item = tools[c].item /\ t1.index = tools[c].index
        /\ t1.n = seq
    BY <1>1 DEF Tools, Typed
  <2> HIDE DEF t1
  <2>3. /\ tool.item = tools[c].item /\ tool.index = tools[c].index
        /\ tool.n = seq /\ tool.pc = "store"
    BY <2>2 DEF Tools
  <2> HIDE DEF tool
  <2>4. Move(c, tool)
    BY <1>3, <2>1, <2>3 DEF Move, ToolLoadSeq
  <2> QED
    BY <2>4
<1>4. CASE ToolStoreSeq(c)
  <2> DEFINE tool == [tools[c] EXCEPT !.pc = "write"]
  <2>1. /\ tools' = [tools EXCEPT ![c] = tool] /\ wire' = wire
        /\ seq' \in {tools[c].n + 1, seq + 1}
    BY <1>4 DEF ToolStoreSeq, writerVars
  <2>2. /\ tool.item = tools[c].item /\ tool.index = tools[c].index
        /\ tool.n = tools[c].n /\ tool.pc = "write"
    BY <1>1 DEF Tools
  <2> HIDE DEF tool
  <2>3. Move(c, tool)
    BY <1>4, <2>1, <2>2 DEF Move, ToolStoreSeq
  <2> QED
    BY <2>3
<1>5. CASE ToolWrite(c)
  <2> DEFINE tool == ToolNext(tools[c], tools[c].left - 1)
  <2>1. tools[c].left - 1 \in Nat
    BY <1>5, ToolFields DEF ToolWrite, Typed
  <2>2. /\ tool.item = tools[c].item /\ tool.index = tools[c].index
        /\ tool.pc \in {"load", "run", "done"}
    BY <1>1, <2>1, ToolNextTyped
  <2>3. tools' = [tools EXCEPT ![c] = tool] /\ seq' = seq
    BY <1>5 DEF ToolWrite, engineVars
  <2> HIDE DEF tool
  <2>4. Move(c, tool)
    BY <1>5, <2>2, <2>3 DEF Move, ToolWrite
  <2> QED
    BY <2>4
<1>6. CASE ToolRun(c)
  <2> DEFINE ran == [tools[c] EXCEPT !.ran = TRUE]
  <2>1. PICK ok \in BOOLEAN :
           /\ tools' = [tools EXCEPT ![c] = ToolNext(ran, EventsAfter(c, ok))]
           /\ seq' = seq /\ wire' = wire
    BY <1>6 DEF ToolRun, engineVars, writerVars
  <2>2. ran \in Tools /\ ran.item = tools[c].item /\ ran.index = tools[c].index
    BY <1>1 DEF Tools
  <2>3. EventsAfter(c, ok) \in Nat
    BY DEF EventsAfter
  <2> HIDE DEF ran
  <2> DEFINE tool == ToolNext(ran, EventsAfter(c, ok))
  <2>4. /\ tool.item = tools[c].item /\ tool.index = tools[c].index
        /\ tool.pc \in {"load", "run", "done"}
    BY <2>2, <2>3, ToolNextTyped
  <2>5. tools' = [tools EXCEPT ![c] = tool]
    BY <2>1
  <2> HIDE DEF tool
  <2>6. Move(c, tool)
    BY <1>6, <2>1, <2>4, <2>5 DEF Move, ToolRun
  <2> QED
    BY <2>6
<1> QED
  BY <1>2, <1>3, <1>4, <1>5, <1>6 DEF ToolStep

LEMMA ToolItemKept ==
    ASSUME Typed, ToolsPresent, pc = "tools", pc' = pc, turn' = turn,
           NEW c \in Calls, ToolStep(c)
    PROVE  ToolsPresent'
<1>1. tools \in [Calls -> Tools]
  BY DEF Typed, ToolsTyped
<1>2. PICK tool : Move(c, tool)
  BY ToolMoves
<1>3. \A d \in Calls : tools'[d] = IF d = c THEN tool ELSE tools[d]
  BY <1>1, <1>2 DEF Move
<1> QED
  BY <1>2, <1>3 DEF ToolsPresent, Move

LEMMA WireItems ==
    ASSUME Typed, NEW k \in 1..Len(wire)
    PROVE  wire[k].item[2] \in Nat /\ wire[k].seq \in Nat
<1>1. wire[k] \in WireEvents
  BY DEF Typed, WriterTyped
<1>2. wire[k].item \in ItemKinds \X Nat \X (Calls \cup {None}) /\ wire[k].seq \in Nat
  BY <1>1 DEF WireEvents, Items
<1> QED
  BY <1>2

LEMMA ResultsStep ==
    ASSUME Typed, ToolsAwaited, ResultsPast, ToolsPresent, ResultsLast, [Next]_vars
    PROVE  ResultsPast' /\ ToolsPresent' /\ ResultsLast'
<1>0. /\ seq \in Nat /\ Len(wire) \in Nat /\ turn \in Nat
      /\ calls \in Seq(Calls) /\ st \in StreamStates /\ req \in Requests
  <2>1. turn \in 1..(MaxTurns + 1) /\ MaxTurns \in Nat
    BY ProviderAssumption DEF Typed, TurnTyped
  <2> QED
    BY <2>1 DEF Typed, WriterTyped
<1>1. ASSUME HandlerStep PROVE ToolsPresent'
  <2>1. SUFFICES ASSUME pc' = "tools" PROVE ToolsPresent'
    BY DEF ToolsPresent
  <2>2. /\ turn' = turn
        /\ tools' = [c \in Calls |-> IF c \in CallSet \ req.rejected
                                     THEN QueuedTool(c) ELSE NoTool]
    BY <1>1, <2>1, TurnSteps DEF Decide
  <2>3. NoTool.pc = "idle"
    BY DEF NoTool
  <2>4. \A c \in CallSet \ req.rejected : QueuedTool(c).item = CallItem(turn, c)
    BY <1>0, QueuedTyped
  <2> QED
    BY <2>2, <2>3, <2>4 DEF ToolsPresent
<1>2. ASSUME wire' = wire, turn' = turn \/ turn' = turn + 1
      PROVE  ResultsPast' /\ ResultsLast'
  <2>1. ResultsLast'
    BY <1>2 DEF ResultsLast
  <2>2. ASSUME NEW k \in 1..Len(wire'), wire'[k].item[1] = "result"
        PROVE  wire'[k].item[2] < turn'
    <3>1. wire[k].item[2] < turn /\ wire[k].item[2] \in Nat
      BY <1>2, <2>2, WireItems DEF ResultsPast
    <3> QED
      BY <1>0, <1>2, <3>1
  <2> QED
    BY <2>1, <2>2 DEF ResultsPast
<1>3. CASE HandlerStep /\ Working
  <2>1. PICK events, next : Emission(events, next)
    BY <1>3, HandlerEmits
  <2>2. events \in Seq(Events) /\ Emit(events, next)
    BY <2>1 DEF Emission
  <2>3. turn' = turn \/ turn' = turn + 1
    BY <1>3, TurnSteps
  <2>4. CASE wire' = wire
    BY <1>1, <1>2, <1>3, <2>3, <2>4
  <2>5. CASE wire' # wire
    <3>1. wire' = wire \o Numbered(events, seq)
      BY <2>2, <2>5, EmitOutcome DEF writerVars
    <3>2. /\ \A k \in 1..Len(wire) : wire'[k] = wire[k]
          /\ \A k \in 1..Len(wire') :
                \/ k \in 1..Len(wire)
                \/ /\ k - Len(wire) \in 1..Len(events)
                   /\ wire'[k].type = events[k - Len(wire)].type
                   /\ wire'[k].item = events[k - Len(wire)].item
      BY <1>0, <2>2, <3>1, WireGrows
    <3>3. ASSUME NEW k \in 1..Len(events)
          PROVE  /\ events[k].type # "tool"
                 /\ events[k].item[1] = "result" =>
                      events[k].item[2] < turn'
      <4>1. CASE PlainEvents(events)
        BY <4>1 DEF PlainEvents
      <4>2. CASE pc = "tools" /\ events = ResultEvents
        <5>1. /\ events[k].type \in {"added", "done"}
              /\ \E c \in CallSet : events[k].item = ResultItem(turn, c)
          BY <1>0, <4>2, ResultEventsTyped
        <5>2. turn' = turn + 1
          BY <1>3, <4>2, TurnSteps
        <5>3. events[k].item[2] = turn
          BY <5>1, ItemKindsDiffer
        <5> QED
          BY <1>0, <5>1, <5>2, <5>3
      <4> QED
        BY <2>1, <4>1, <4>2 DEF Emission
    <3>4. ResultsPast'
      <4>1. SUFFICES ASSUME NEW k \in 1..Len(wire'), wire'[k].item[1] = "result"
                     PROVE  wire'[k].item[2] < turn'
        BY DEF ResultsPast
      <4>2. CASE k \in 1..Len(wire)
        <5>1. wire[k].item[2] < turn /\ wire[k].item[2] \in Nat /\ wire'[k] = wire[k]
          BY <3>2, <4>1, <4>2, WireItems DEF ResultsPast
        <5> QED
          BY <1>0, <2>3, <5>1
      <4>3. CASE k \notin 1..Len(wire)
        BY <3>2, <3>3, <4>1, <4>3
      <4> QED
        BY <4>2, <4>3
    <3>5. ResultsLast'
      <4>1. SUFFICES ASSUME NEW j \in 1..Len(wire'), NEW k \in 1..Len(wire'),
                            wire'[j].item[1] = "result", wire'[k].type = "tool",
                            wire'[j].item[2] >= wire'[k].item[2]
                     PROVE  k < j
        BY DEF ResultsLast
      <4>2. k \in 1..Len(wire)
        BY <3>2, <3>3, <4>1
      <4>3. CASE j \in 1..Len(wire)
        BY <3>2, <4>1, <4>2, <4>3 DEF ResultsLast
      <4>4. CASE j \notin 1..Len(wire)
        BY <1>0, <4>2, <4>4
      <4> QED
        BY <4>3, <4>4
    <3> QED
      BY <1>1, <1>3, <3>4, <3>5
  <2> QED
    BY <2>4, <2>5
<1>4. CASE HandlerStep /\ ~Working
  <2>1. turn' = turn \/ turn' = turn + 1
    BY <1>4, TurnSteps
  <2>2. CASE wire' = wire
    BY <1>1, <1>2, <1>4, <2>1, <2>2
  <2>3. CASE wire' # wire
    <3>1. Report /\ turn' = turn
      BY <1>4, <2>3, FinishingSteps DEF Cleanup, Report
    <3> DEFINE events == <<ResponseEvent("failed")>>
    <3>2. wire' = wire \o Numbered(events, 0)
      BY <2>3, <3>1 DEF Report, Write, writerVars
    <3>3. /\ events \in Seq(Events) /\ Len(events) = 1
          /\ events[1].type = "failed" /\ events[1].item = NoItem
      BY TerminalTyped DEF TerminalTypes
    <3> HIDE DEF events
    <3>4. /\ \A k \in 1..Len(wire) : wire'[k] = wire[k]
          /\ \A k \in 1..Len(wire') :
                \/ k \in 1..Len(wire)
                \/ /\ k - Len(wire) \in 1..Len(events)
                   /\ wire'[k].type = events[k - Len(wire)].type
                   /\ wire'[k].item = events[k - Len(wire)].item
      BY <3>2, <3>3, WireGrows
    <3>5. \A k \in 1..Len(wire') :
             \/ k \in 1..Len(wire)
             \/ wire'[k].type = "failed" /\ wire'[k].item[1] # "result"
      BY <3>3, <3>4, ItemKindsDiffer DEF None
    <3> QED
      BY <1>1, <1>4, <3>1, <3>4, <3>5 DEF ResultsPast, ResultsLast
  <2> QED
    BY <2>2, <2>3
<1>5. CASE \E c \in Calls : ToolStep(c)
  <2>1. PICK c \in Calls : ToolStep(c)
    BY <1>5
  <2>2. pc = "tools" /\ pc' = pc /\ turn' = turn
    BY <2>1, ToolSteps
  <2>3. ToolsPresent'
    BY <2>1, <2>2, ToolItemKept
  <2>4. CASE wire' = wire
    BY <1>2, <2>2, <2>3, <2>4
  <2>5. CASE wire' # wire
    <3>1. PICK events \in Seq(Events) :
             /\ Len(events) = 1 /\ events[1].type = "tool"
             /\ events[1].item = tools[c].item
             /\ wire' = wire \o Numbered(events, tools[c].n)
      BY <2>1, <2>5, ToolSteps
    <3>2. /\ tools[c].n \in Nat /\ events[1].item = CallItem(turn, c)
      <4>1. tools[c].n \in Nat
        BY ToolFields DEF Typed
      <4>2. ToolWrite(c)
        BY <2>1, <2>5, ToolSteps
      <4>3. tools[c].pc = "write"
        BY <4>2 DEF ToolWrite
      <4> QED
        BY <2>2, <3>1, <4>1, <4>3 DEF ToolsPresent
    <3>3. /\ \A k \in 1..Len(wire) : wire'[k] = wire[k]
          /\ \A k \in 1..Len(wire') :
                \/ k \in 1..Len(wire)
                \/ /\ k - Len(wire) \in 1..Len(events)
                   /\ wire'[k].type = events[k - Len(wire)].type
                   /\ wire'[k].item = events[k - Len(wire)].item
      BY <3>1, <3>2, WireGrows
    <3>4. \A k \in 1..Len(wire') :
             \/ k \in 1..Len(wire)
             \/ wire'[k].item[1] = "call" /\ wire'[k].item[2] = turn
      BY <3>1, <3>2, <3>3, ItemKindsDiffer
    <3>5. ResultsPast'
      BY <2>2, <3>3, <3>4 DEF ResultsPast
    <3>6. ResultsLast'
      <4>1. SUFFICES ASSUME NEW j \in 1..Len(wire'), NEW k \in 1..Len(wire'),
                            wire'[j].item[1] = "result", wire'[k].type = "tool",
                            wire'[j].item[2] >= wire'[k].item[2]
                     PROVE  k < j
        BY DEF ResultsLast
      <4>2. j \in 1..Len(wire) /\ wire'[j] = wire[j]
        BY <3>3, <3>4, <4>1
      <4>3. wire[j].item[2] < turn /\ wire[j].item[2] \in Nat
        BY <4>1, <4>2, WireItems DEF ResultsPast
      <4>4. k \in 1..Len(wire)
        BY <1>0, <3>4, <4>1, <4>2, <4>3
      <4> QED
        BY <3>3, <4>1, <4>2, <4>4 DEF ResultsLast
    <3> QED
      BY <2>3, <3>5, <3>6
  <2> QED
    BY <2>4, <2>5
<1>6. CASE \/ \E t \in Turns : BackendStep(t) \/ StreamStep(t)
           \/ Delete \/ ClientGone \/ ServerNotices \/ UNCHANGED vars
  <2>1. UNCHANGED <<wire, pc, turn, tools>>
    BY <1>6, QuietSteps
  <2> QED
    BY <2>1 DEF ResultsPast, ResultsLast, ToolsPresent
<1> QED
  BY <1>3, <1>4, <1>5, <1>6 DEF Next

-----------------------------------------------------------------------------
(***************************************************************************)
(* Numbers of tool events.  Without parallel_tool_calls at most one tool   *)
(* goroutine is between its start and its end, so the number it has read   *)
(* is still the counter's when it increments it, and everything on the     *)
(* wire has a smaller one when it writes.                                  *)
(***************************************************************************)
NumbersBelow ==
    ~req.parallel /\ pc # "ended" => \A k \in 1..Len(wire) : wire[k].seq < seq

Active(c) == tools[c].pc \notin {"idle", "queued", "done"}

IndexesDiffer ==
    \A c, d \in Calls :
       c # d /\ tools[c].pc # "idle" /\ tools[d].pc # "idle"
          => tools[c].index # tools[d].index

OneByOne ==
    ~req.parallel /\ pc = "tools" =>
       /\ IndexesDiffer
       /\ \A c, d \in Calls :
             Active(c) /\ tools[d].index < tools[c].index
                => tools[d].pc \in {"idle", "done"}
       /\ \A c \in Calls :
             /\ tools[c].pc = "store" => tools[c].n = seq
             /\ tools[c].pc = "write" =>
                  /\ tools[c].n + 1 = seq
                  /\ \A k \in 1..Len(wire) : wire[k].seq < tools[c].n

ToolNumbers ==
    \A j, k \in 1..Len(wire) :
       ~req.parallel /\ wire[k].type = "tool" /\ j < k
          => wire[j].seq < wire[k].seq

\* What the handler's goroutine writes: no tool events, and numbers from the
\* counter except in its last step.
LEMMA HandlerWrites ==
    ASSUME Typed, HandlerStep
    PROVE  \E events \in Seq(Events), from \in Nat :
              /\ wire' = wire \/ wire' = wire \o Numbered(events, from)
              /\ pc' # "ended" => from = seq /\ seq' = seq + Len(events)
              /\ \A k \in 1..Len(events) : events[k].type # "tool"
<1>0. /\ seq \in Nat /\ turn \in Nat /\ calls \in Seq(Calls) /\ st \in StreamStates
      /\ req \in Requests
  <2>1. turn \in 1..(MaxTurns + 1) /\ MaxTurns \in Nat
    BY ProviderAssumption DEF Typed, TurnTyped
  <2> QED
    BY <2>1 DEF Typed
<1>1. CASE Working
  <2>1. PICK events, next : Emission(events, next)
    BY <1>1, HandlerEmits
  <2>2. events \in Seq(Events) /\ seq' = seq + Len(events) /\ Emit(events, next)
    BY <2>1 DEF Emission, Emit
  <2>3. wire' = wire \/ wire' = wire \o Numbered(events, seq)
    BY <2>2, EmitOutcome DEF writerVars
  <2>4. ASSUME NEW k \in 1..Len(events) PROVE events[k].type # "tool"
    <3>1. CASE PlainEvents(events)
      BY <3>1 DEF PlainEvents
    <3>2. CASE events = ResultEvents
      BY <1>0, <3>2, ResultEventsTyped
    <3> QED
      BY <2>1, <3>1, <3>2 DEF Emission
  <2> QED
    BY <1>0, <2>2, <2>3, <2>4
<1>2. CASE Cleanup
  <2> DEFINE none == << >>
  <2>1. none \in Seq(Events) /\ Len(none) = 0
    OBVIOUS
  <2>2. wire' = wire /\ seq' = seq
    BY <1>2 DEF Cleanup
  <2> HIDE DEF none
  <2>3. seq' = seq + Len(none) /\ \A k \in 1..Len(none) : none[k].type # "tool"
    BY <1>0, <2>1, <2>2
  <2> QED
    BY <1>0, <2>1, <2>2, <2>3
<1>3. CASE Report
  <2> DEFINE events == <<ResponseEvent("failed")>>
  <2>1. events \in Seq(Events) /\ Len(events) = 1 /\ events[1].type = "failed"
    BY TerminalTyped DEF TerminalTypes
  <2>2. /\ wire' = wire \/ wire' = wire \o Numbered(events, 0)
        /\ pc' = "ended"
    BY <1>3 DEF Report, Write, writerVars
  <2> HIDE DEF events
  <2>3. \A k \in 1..Len(events) : events[k].type # "tool"
    BY <2>1
  <2>4. 0 \in Nat
    OBVIOUS
  <2> QED
    BY <2>1, <2>2, <2>3, <2>4
<1> QED
  BY <1>1, <1>2, <1>3, FinishingSteps

LEMMA HandlerNumbers ==
    ASSUME Typed, NumbersBelow, ToolNumbers, HandlerStep
    PROVE  NumbersBelow' /\ ToolNumbers'
<1>0. seq \in Nat /\ Len(wire) \in Nat /\ req' = req
  BY TurnSteps DEF Typed, WriterTyped
<1>1. PICK events \in Seq(Events), from \in Nat :
         /\ wire' = wire \/ wire' = wire \o Numbered(events, from)
         /\ pc' # "ended" => from = seq /\ seq' = seq + Len(events)
         /\ \A k \in 1..Len(events) : events[k].type # "tool"
  BY HandlerWrites
<1>2. Len(events) \in Nat
  OBVIOUS
<1>3. \A k \in 1..Len(wire) : wire[k].seq \in Nat
  BY WireItems
<1>4. pc = "ended" => FALSE
  BY DEF HandlerStep, Start, TurnStart, Connect, ConnectFails, RecvCancelled,
     RecvError, RecvDelta, RecvDone, RecvClosed, Receivable, Decide, ToolsReturned,
     Cleanup, Report
<1>5. CASE wire' = wire
  <2>1. NumbersBelow'
    BY <1>0, <1>1, <1>2, <1>3, <1>4, <1>5 DEF NumbersBelow
  <2>2. ToolNumbers'
    BY <1>0, <1>5 DEF ToolNumbers
  <2> QED
    BY <2>1, <2>2
<1>6. CASE wire' = wire \o Numbered(events, from)
  <2>1. /\ \A k \in 1..Len(wire) : wire'[k] = wire[k]
        /\ \A k \in 1..Len(wire') :
              \/ k \in 1..Len(wire)
              \/ /\ k - Len(wire) \in 1..Len(events)
                 /\ wire'[k].type = events[k - Len(wire)].type
                 /\ wire'[k].seq = from + (k - Len(wire)) - 1
    BY <1>6, WireGrows
  <2>2. NumbersBelow'
    <3>1. SUFFICES ASSUME ~req.parallel, pc' # "ended", NEW k \in 1..Len(wire')
                   PROVE  wire'[k].seq < seq'
      BY <1>0 DEF NumbersBelow
    <3>2. from = seq /\ seq' = seq + Len(events)
      BY <1>1, <3>1
    <3>3. CASE k \in 1..Len(wire)
      <4>1. wire[k].seq < seq
        BY <1>4, <3>1, <3>3 DEF NumbersBelow
      <4> QED
        BY <1>0, <1>2, <1>3, <2>1, <3>2, <3>3, <4>1
    <3>4. CASE k \notin 1..Len(wire)
      BY <1>0, <1>2, <2>1, <3>2, <3>4
    <3> QED
      BY <3>3, <3>4
  <2>3. ToolNumbers'
    <3>1. SUFFICES ASSUME NEW j \in 1..Len(wire'), NEW k \in 1..Len(wire'),
                          ~req.parallel, wire'[k].type = "tool", j < k
                   PROVE  wire'[j].seq < wire'[k].seq
      BY <1>0 DEF ToolNumbers
    <3>2. k \in 1..Len(wire)
      BY <1>1, <2>1, <3>1
    <3>3. j \in 1..Len(wire)
      BY <1>0, <3>1, <3>2
    <3> QED
      BY <2>1, <3>1, <3>2, <3>3 DEF ToolNumbers
  <2> QED
    BY <2>2, <2>3
<1> QED
  BY <1>1, <1>5, <1>6

\* The goroutines are started one after the other: one that moves is alone.
LEMMA MovesAlone ==
    ASSUME Typed, OneByOne, ~req.parallel, pc = "tools",
           NEW c \in Calls, NEW tool, Move(c, tool)
    PROVE  /\ \A d \in Calls : Active(d) => d = c
           /\ \A d \in Calls : tools[d].index < tools[c].index
                                  => tools[d].pc \in {"idle", "done"}
<1>1. \A d \in Calls : tools[d].index \in Nat
  BY ToolFields DEF Typed
<1>2. tools[c].pc \notin {"idle", "done"}
  BY DEF Move
<1>3. \A d \in Calls : tools[d].index < tools[c].index => tools[d].pc \in {"idle", "done"}
  <2>1. CASE tools[c].pc = "queued"
    BY <2>1 DEF Move
  <2>2. CASE Active(c)
    BY <2>2 DEF OneByOne
  <2> QED
    BY <1>2, <2>1, <2>2 DEF Active
<1>4. ASSUME NEW d \in Calls, Active(d), d # c PROVE FALSE
  <2>1. tools[d].index # tools[c].index
    BY <1>2, <1>4 DEF OneByOne, IndexesDiffer, Active
  <2>2. CASE tools[d].index < tools[c].index
    BY <1>3, <1>4, <2>2 DEF Active
  <2>3. CASE tools[c].index < tools[d].index
    BY <1>2, <1>4, <2>3 DEF OneByOne
  <2> QED
    BY <1>1, <2>1, <2>2, <2>3
<1> QED
  BY <1>3, <1>4

LEMMA ToolOneByOne ==
    ASSUME Typed, ToolsAwaited, OneByOne, NumbersBelow, ToolNumbers,
           NEW c \in Calls, ToolStep(c)
    PROVE  OneByOne' /\ NumbersBelow' /\ ToolNumbers'
<1>0. /\ seq \in Nat /\ Len(wire) \in Nat /\ tools \in [Calls -> Tools]
      /\ \A d \in Calls : tools[d].index \in Nat /\ tools[d].n \in Nat
  BY ToolFields DEF Typed, WriterTyped, ToolsTyped
<1>1. pc = "tools" /\ pc' = pc /\ req' = req
  BY ToolSteps
<1>2. PICK tool : Move(c, tool)
  BY ToolMoves
<1>3. \A d \in Calls : tools'[d] = IF d = c THEN tool ELSE tools[d]
  BY <1>0, <1>2 DEF Move
<1>4. CASE req.parallel
  <2>1. NumbersBelow' /\ OneByOne'
    BY <1>1, <1>4 DEF NumbersBelow, OneByOne
  <2> QED
    BY <1>1, <1>4, <2>1 DEF ToolNumbers
<1>5. CASE ~req.parallel
  <2>1. /\ \A d \in Calls : Active(d) => d = c
        /\ \A d \in Calls : tools[d].index < tools[c].index
                               => tools[d].pc \in {"idle", "done"}
    BY <1>1, <1>2, <1>5, MovesAlone
  <2>2. \A d \in Calls : Active(d)' => d = c
    BY <1>3, <2>1 DEF Active
  <2>3. \A d \in Calls : tools'[d].index = tools[d].index
    BY <1>2, <1>3 DEF Move
  <2>4. IndexesDiffer'
    <3>1. \A d \in Calls : tools'[d].pc # "idle" => tools[d].pc # "idle"
      BY <1>2, <1>3 DEF Move
    <3>2. IndexesDiffer
      BY <1>1, <1>5 DEF OneByOne
    <3> QED
      BY <2>3, <3>1, <3>2 DEF IndexesDiffer
  <2>5. \A e, d \in Calls :
           Active(e)' /\ tools'[d].index < tools'[e].index
              => tools'[d].pc \in {"idle", "done"}
    <3>1. SUFFICES ASSUME NEW d \in Calls, tools[d].index < tools[c].index
                   PROVE  tools'[d].pc \in {"idle", "done"}
      BY <2>2, <2>3
    <3>2. d # c
      BY <1>0, <3>1
    <3> QED
      BY <1>3, <2>1, <3>1, <3>2
  <2>6. \A d \in Calls : tools'[d].pc = "store" => tools'[d].n = seq'
    <3>1. SUFFICES ASSUME tools'[c].pc = "store" PROVE tools'[c].n = seq'
      BY <2>2 DEF Active
    <3> QED
      BY <1>2, <1>3, <3>1 DEF Move
  <2>7. tools[c].pc = "store" => tools[c].n = seq
    BY <1>1, <1>5 DEF OneByOne
  <2>8. seq' = seq \/ seq' = seq + 1
    BY <1>0, <1>2, <2>7 DEF Move
  <2>9. CASE wire' = wire
    <3>1. \A k \in 1..Len(wire) : wire[k].seq < seq /\ wire[k].seq \in Nat
      BY <1>1, <1>5, WireItems DEF NumbersBelow
    <3>2. NumbersBelow'
      BY <1>0, <2>8, <2>9, <3>1 DEF NumbersBelow
    <3>3. ToolNumbers'
      BY <1>1, <2>9 DEF ToolNumbers
    <3>4. \A d \in Calls : tools'[d].pc = "write" =>
             /\ tools'[d].n + 1 = seq'
             /\ \A k \in 1..Len(wire') : wire'[k].seq < tools'[d].n
      <4>1. SUFFICES ASSUME tools'[c].pc = "write"
                     PROVE  /\ tools'[c].n + 1 = seq'
                            /\ \A k \in 1..Len(wire') : wire'[k].seq < tools'[c].n
        BY <2>2 DEF Active
      <4>2. /\ tools[c].pc = "store" /\ tools'[c].n = tools[c].n
            /\ seq' \in {tools[c].n + 1, seq + 1}
        BY <1>2, <1>3, <4>1 DEF Move
      <4> QED
        BY <2>7, <2>9, <3>1, <4>2
    <3> QED
      BY <2>4, <2>5, <2>6, <3>2, <3>3, <3>4 DEF OneByOne
  <2>10. CASE wire' # wire
    <3>1. ToolWrite(c) /\ tools[c].pc = "write"
      BY <2>10, ToolSteps DEF ToolWrite
    <3>2. PICK events \in Seq(Events) :
             /\ Len(events) = 1 /\ events[1].type = "tool"
             /\ wire' = wire \o Numbered(events, tools[c].n)
      BY <2>10, ToolSteps
    <3>3. /\ Len(wire') = Len(wire) + Len(events)
          /\ \A k \in 1..Len(wire) : wire'[k] = wire[k]
          /\ \A k \in 1..Len(wire') :
                \/ k \in 1..Len(wire)
                \/ /\ k - Len(wire) \in 1..Len(events)
                   /\ wire'[k].seq = tools[c].n + (k - Len(wire)) - 1
      BY <1>0, <3>2, WireGrows
    <3>4. /\ tools[c].n + 1 = seq
          /\ \A k \in 1..Len(wire) : wire[k].seq < tools[c].n
      BY <1>1, <1>5, <3>1 DEF OneByOne
    <3>5. /\ Len(wire') = Len(wire) + 1
          /\ wire'[Len(wire) + 1].seq = tools[c].n
      BY <1>0, <3>2, <3>3
    <3>6. seq' = seq /\ tool.pc # "write"
      BY <1>2, <3>1 DEF Move, ToolWrite, engineVars
    <3>7. NumbersBelow'
      <4>1. ASSUME NEW k \in 1..Len(wire') PROVE wire'[k].seq < seq'
        <5>1. CASE k = Len(wire) + 1
          BY <1>0, <3>4, <3>5, <3>6, <5>1
        <5>2. CASE k \in 1..Len(wire)
          <6>1. wire[k].seq < tools[c].n /\ wire[k].seq \in Nat
            BY <3>4, <5>2, WireItems
          <6> QED
            BY <1>0, <3>3, <3>4, <3>6, <5>2, <6>1
        <5> QED
          BY <1>0, <3>5, <5>1, <5>2
      <4> QED
        BY <4>1 DEF NumbersBelow
    <3>8. ToolNumbers'
      <4>1. SUFFICES ASSUME NEW j \in 1..Len(wire'), NEW k \in 1..Len(wire'),
                            wire'[k].type = "tool", j < k
                     PROVE  wire'[j].seq < wire'[k].seq
        BY DEF ToolNumbers
      <4>2. j \in 1..Len(wire)
        BY <1>0, <3>5, <4>1
      <4>3. CASE k \in 1..Len(wire)
        BY <1>5, <3>3, <4>1, <4>2, <4>3 DEF ToolNumbers
      <4>4. CASE k = Len(wire) + 1
        BY <3>3, <3>4, <3>5, <4>2, <4>4
      <4> QED
        BY <1>0, <3>5, <4>3, <4>4
    <3>9. \A d \in Calls : tools'[d].pc # "write"
      BY <1>3, <2>2, <3>6 DEF Active
    <3> QED
      BY <2>4, <2>5, <2>6, <3>7, <3>8, <3>9 DEF OneByOne
  <2> QED
    BY <2>9, <2>10
<1> QED
  BY <1>4, <1>5

\* The goroutines are queued in the order of their calls.
LEMMA QueuedOneByOne ==
    ASSUME Typed, HandlerStep
    PROVE  OneByOne'
<1>1. SUFFICES ASSUME pc' = "tools" PROVE OneByOne'
  BY DEF OneByOne
<1>2. /\ calls \in Seq(Calls) /\ st \in StreamStates /\ req \in Requests
      /\ turn \in Nat
  <2>1. turn \in 1..(MaxTurns + 1) /\ MaxTurns \in Nat
    BY ProviderAssumption DEF Typed, TurnTyped
  <2> QED
    BY <2>1 DEF Typed
<1>3. tools' = [c \in Calls |-> IF c \in CallSet \ req.rejected
                                THEN QueuedTool(c) ELSE NoTool]
  BY <1>1, TurnSteps
<1>4. NoTool.pc = "idle"
  BY DEF NoTool
<1>5. \A c \in CallSet \ req.rejected :
         /\ QueuedTool(c).pc = "queued"
         /\ \E k \in 1..Len(AllowedCalls) :
               AllowedCalls[k] = c /\ QueuedTool(c).index = st.index + k
  BY <1>2, QueuedTyped
<1>6. \A c \in Calls : tools'[c].pc \in {"idle", "queued"}
  BY <1>3, <1>4, <1>5
<1>7. IndexesDiffer'
  <2>1. SUFFICES ASSUME NEW c \in Calls, NEW d \in Calls, c # d,
                        tools'[c].pc # "idle", tools'[d].pc # "idle"
                 PROVE  tools'[c].index # tools'[d].index
    BY DEF IndexesDiffer
  <2>2. c \in CallSet \ req.rejected /\ d \in CallSet \ req.rejected
    BY <1>3, <1>4, <2>1
  <2>3. PICK k \in 1..Len(AllowedCalls) :
           AllowedCalls[k] = c /\ tools'[c].index = st.index + k
    BY <1>3, <1>5, <2>2
  <2>4. PICK m \in 1..Len(AllowedCalls) :
           AllowedCalls[m] = d /\ tools'[d].index = st.index + m
    BY <1>3, <1>5, <2>2
  <2>5. st.index \in Nat /\ k # m /\ k \in Int /\ m \in Int
    BY <1>2, <2>1, <2>3, <2>4, StateFields
  <2> QED
    BY <2>3, <2>4, <2>5
<1> QED
  BY <1>6, <1>7 DEF OneByOne, Active

LEMMA NumbersStep ==
    ASSUME Typed, ToolsAwaited, OneByOne, NumbersBelow, ToolNumbers, [Next]_vars
    PROVE  OneByOne' /\ NumbersBelow' /\ ToolNumbers'
<1>1. CASE HandlerStep
  BY <1>1, HandlerNumbers, QueuedOneByOne
<1>2. CASE \E c \in Calls : ToolStep(c)
  BY <1>2, ToolOneByOne
<1>3. CASE \/ \E t \in Turns : BackendStep(t) \/ StreamStep(t)
           \/ Delete \/ ClientGone \/ ServerNotices \/ UNCHANGED vars
  <2>1. UNCHANGED <<wire, pc, seq, tools, req>>
    BY <1>3, QuietSteps
  <2> QED
    BY <2>1 DEF OneByOne, NumbersBelow, ToolNumbers, IndexesDiffer, Active
<1> QED
  BY <1>1, <1>2, <1>3 DEF Next

(***************************************************************************)
(* No tool event follows a result of its turn, and without                 *)
(* parallel_tool_calls a tool event has a larger number than everything    *)
(* before it (executeToolsWithEvents, nextSeq).                            *)
(***************************************************************************)
THEOREM ToolsAlwaysOrdered == Spec => []ToolEventsOrdered
<1> DEFINE Ordered == /\ ResultsPast /\ ToolsPresent /\ ResultsLast
                      /\ OneByOne /\ NumbersBelow /\ ToolNumbers
<1>1. Init => Ordered
  <2>1. SUFFICES ASSUME Init PROVE Ordered
    OBVIOUS
  <2>2. wire = << >> /\ pc = "start"
    BY <2>1 DEF Init, WriterInit
  <2>3. \A k \in 1..Len(wire) : FALSE
    BY <2>2
  <2> QED
    BY <2>2, <2>3 DEF ResultsPast, ToolsPresent, ResultsLast, OneByOne,
       NumbersBelow, ToolNumbers
<1>2. Typed /\ ToolsAwaited /\ Ordered /\ [Next]_vars => Ordered'
  <2>1. SUFFICES ASSUME Typed, ToolsAwaited, Ordered, [Next]_vars PROVE Ordered'
    OBVIOUS
  <2>2. ResultsPast' /\ ToolsPresent' /\ ResultsLast'
    BY <2>1, ResultsStep
  <2>3. OneByOne' /\ NumbersBelow' /\ ToolNumbers'
    BY <2>1, NumbersStep
  <2> QED
    BY <2>2, <2>3
<1>3. Ordered => ToolEventsOrdered
  BY DEF ResultsLast, ToolNumbers, ToolEventsOrdered
<1> HIDE DEF Ordered
<1> QED
  BY <1>1, <1>2, <1>3, TypedInductive, ToolsAwaitedInvariant, PTL DEF Spec

-----------------------------------------------------------------------------
(***************************************************************************)
(* What the provider has sent and the engine has not yet received: the     *)
(* channel, then the events of the chunk that is being sent.               *)
(***************************************************************************)
Pending(t) == prod[t].chan \o prod[t].outbox

\* The events pending on a stream are followed by some more.
Extended(t, new) ==
    /\ new \in Seq(ProviderEvents)
    /\ Len(Pending(t)') = Len(Pending(t)) + Len(new)
    /\ \A k \in 1..Len(Pending(t)) : Pending(t)'[k] = Pending(t)[k]
    /\ \A k \in 1..Len(new) : Pending(t)'[Len(Pending(t)) + k] = new[k]
    /\ \A k \in 1..Len(Pending(t)') :
          \/ k \in 1..Len(Pending(t))
          \/ /\ k - Len(Pending(t)) \in 1..Len(new)
             /\ Pending(t)'[k] = new[k - Len(Pending(t))]

LEMMA PendingTyped ==
    ASSUME StreamsTyped, NEW t \in Turns
    PROVE  /\ Pending(t) \in Seq(ProviderEvents)
           /\ Len(Pending(t)) \in Nat
           /\ prod[t].chan # << >> => /\ Len(Pending(t)) > 0
                                      /\ Pending(t)[1] = Head(prod[t].chan)
<1> DEFINE a == prod[t].chan
           b == prod[t].outbox
<1>1. a \in Seq(ProviderEvents) /\ b \in Seq(ProviderEvents)
  BY StreamFields
<1>2. Pending(t) = a \o b
  BY DEF Pending
<1> SUFFICES /\ Pending(t) \in Seq(ProviderEvents)
             /\ Len(Pending(t)) \in Nat
             /\ a # << >> => Len(Pending(t)) > 0 /\ Pending(t)[1] = Head(a)
  OBVIOUS
<1> HIDE DEF a, b
<1>3. /\ a \o b \in Seq(ProviderEvents)
      /\ Len(a \o b) = Len(a) + Len(b)
      /\ \A k \in 1..Len(a) : (a \o b)[k] = a[k]
  BY <1>1, ConcatElements
<1>4. Len(a) \in Nat /\ Len(b) \in Nat
  BY <1>1
<1>5. a # << >> => Len(a) > 0 /\ Head(a) = a[1]
  BY <1>1
<1> QED
  BY <1>2, <1>3, <1>4, <1>5

\* A chunk that is read follows what is pending.
LEMMA ReadExtends ==
    ASSUME StreamsTyped, NEW t \in Turns, NEW s \in Streams, ReadInto(t, s)
    PROVE  /\ Extended(t, s.outbox) /\ prod' = [prod EXCEPT ![t] = s]
           /\ ReadNew(t, s, s.outbox)
<1> DEFINE a == prod[t].chan
           b == s.outbox
<1>1. a \in Seq(ProviderEvents) /\ b \in Seq(ProviderEvents)
  BY StreamFields DEF Streams
<1>2. prod[t].outbox = << >> /\ prod' = [prod EXCEPT ![t] = s] /\ s.chan = a
  BY DEF ReadInto
<1>3. Pending(t) = a
  <2>1. Pending(t) = a \o << >>
    BY <1>2 DEF Pending
  <2> HIDE DEF a
  <2> QED
    BY <1>1, <2>1
<1>4. Pending(t)' = a \o b
  <2>1. prod'[t] = s
    BY <1>2 DEF StreamsTyped
  <2> QED
    BY <1>2, <2>1 DEF Pending
<1> HIDE DEF a, b
<1>5. /\ a \o b \in Seq(ProviderEvents)
      /\ Len(a \o b) = Len(a) + Len(b)
      /\ \A k \in 1..Len(a) : (a \o b)[k] = a[k]
      /\ \A k \in 1..Len(b) : (a \o b)[Len(a) + k] = b[k]
      /\ \A k \in 1..Len(a \o b) :
            \/ k \in 1..Len(a)
            \/ k - Len(a) \in 1..Len(b) /\ (a \o b)[k] = b[k - Len(a)]
  BY <1>1, ConcatElements
<1>6. Extended(t, b)
  BY <1>1, <1>3, <1>4, <1>5, Zenon DEF Extended
<1> QED
  BY <1>2, <1>6 DEF b, ReadInto

\* An event that is sent stays where it is among those pending.
LEMMA SendKeeps ==
    ASSUME StreamsTyped, NEW t \in Turns, Send(t)
    PROVE  /\ \E s \in Streams : /\ prod' = [prod EXCEPT ![t] = s]
                                 /\ s.finish = prod[t].finish
                                 /\ s.calls = prod[t].calls
                                 /\ s.usage = prod[t].usage
           /\ Len(Pending(t)') = Len(Pending(t))
           /\ \A k \in 1..Len(Pending(t)) : Pending(t)'[k] = Pending(t)[k]
<1> DEFINE old == prod[t]
           a == old.chan
           b == old.outbox
           rest == Tail(b)
           sent == Append(a, Head(b))
           s1 == [old EXCEPT !.outbox = rest]
           s == [s1 EXCEPT !.chan = sent]
<1>1. /\ old \in Streams /\ b \in Seq(ProviderEvents)
      /\ a \in Seq(ProviderEvents) /\ b # << >>
  BY StreamFields DEF Send
<1>2. prod' = [prod EXCEPT ![t] = s]
  <2>1. s1.chan = old.chan
    BY <1>1 DEF Streams
  <2> QED
    BY <2>1 DEF Send, StreamsTyped
<1>3. Pending(t) = a \o b
  BY DEF Pending
<1>4. /\ prod'[t] = s /\ Pending(t)' = prod'[t].chan \o prod'[t].outbox
  BY <1>2 DEF StreamsTyped, Pending
<1> SUFFICES /\ s \in Streams /\ s.finish = old.finish /\ s.calls = old.calls
             /\ s.usage = old.usage
             /\ Len(Pending(t)') = Len(Pending(t))
             /\ \A k \in 1..Len(Pending(t)) : Pending(t)'[k] = Pending(t)[k]
  BY <1>2
<1> HIDE DEF a, b
<1>5. rest \in Seq(ProviderEvents) /\ sent \in Seq(ProviderEvents)
  BY <1>1
<1>6. /\ Len(a) \in Nat /\ Len(b) \in Nat /\ Len(b) > 0
      /\ Len(rest) = Len(b) - 1 /\ \A k \in 1..Len(rest) : rest[k] = b[k + 1]
      /\ Len(sent) = Len(a) + 1 /\ sent[Len(a) + 1] = b[1]
      /\ \A k \in 1..Len(a) : sent[k] = a[k]
  BY <1>1
<1> HIDE DEF old, rest, sent
<1>7. /\ s1 \in Streams /\ s1.outbox = rest /\ s1.finish = old.finish
      /\ s1.calls = old.calls /\ s1.usage = old.usage
  BY <1>1, <1>5 DEF Streams
<1> HIDE DEF s1
<1>8. /\ s \in Streams /\ s.outbox = rest /\ s.finish = old.finish
      /\ s.calls = old.calls /\ s.chan = sent /\ s.usage = old.usage
  BY <1>5, <1>7 DEF Streams
<1> HIDE DEF s
<1>9. Pending(t)' = sent \o rest
  BY <1>4, <1>8
<1>10. /\ Len(a \o b) = Len(a) + Len(b)
       /\ \A k \in 1..Len(a) : (a \o b)[k] = a[k]
       /\ \A k \in 1..Len(a \o b) :
             \/ k \in 1..Len(a)
             \/ k - Len(a) \in 1..Len(b) /\ (a \o b)[k] = b[k - Len(a)]
  BY <1>1, ConcatElements
<1>11. /\ Len(sent \o rest) = Len(sent) + Len(rest)
       /\ \A k \in 1..Len(sent) : (sent \o rest)[k] = sent[k]
       /\ \A k \in 1..Len(sent \o rest) :
             \/ k \in 1..Len(sent)
             \/ k - Len(sent) \in 1..Len(rest) /\ (sent \o rest)[k] = rest[k - Len(sent)]
  BY <1>5, ConcatElements
<1> DEFINE p == a \o b
           q == sent \o rest
<1>12. Len(q) = Len(p)
  BY <1>6, <1>10, <1>11
<1>13. ASSUME NEW k \in 1..Len(p) PROVE q[k] = p[k]
  <2>1. CASE k \in 1..Len(a)
    BY <1>6, <1>10, <1>11, <2>1
  <2>2. CASE k = Len(a) + 1
    <3>1. p[k] = b[1]
      BY <1>6, <1>10, <2>2
    <3>2. q[k] = sent[k]
      BY <1>6, <1>11, <2>2
    <3> QED
      BY <1>6, <2>2, <3>1, <3>2
  <2>3. CASE k \notin 1..Len(a) /\ k # Len(a) + 1
    <3>1. k - Len(a) \in 1..Len(b) /\ p[k] = b[k - Len(a)] /\ k \in Nat
      BY <1>10, <2>3
    <3>2. k \notin 1..Len(sent) /\ k - Len(sent) = (k - Len(a)) - 1
      BY <1>6, <2>3, <3>1
    <3>3. k - Len(sent) \in 1..Len(rest) /\ q[k] = rest[k - Len(sent)]
      BY <1>11, <1>12, <3>2
    <3>4. rest[k - Len(sent)] = b[(k - Len(sent)) + 1]
      BY <1>6, <3>3
    <3>5. (k - Len(sent)) + 1 = k - Len(a)
      BY <1>6, <3>1, <3>2
    <3> QED
      BY <3>1, <3>3, <3>4, <3>5
  <2> QED
    BY <2>1, <2>2, <2>3
<1> QED
  BY <1>3, <1>8, <1>9, <1>12, <1>13

LEMMA CloseKeeps ==
    ASSUME StreamsTyped, NEW t \in Turns, CloseStream(t)
    PROVE  /\ \E s \in Streams : /\ prod' = [prod EXCEPT ![t] = s]
                                 /\ s.finish = prod[t].finish
                                 /\ s.calls = prod[t].calls
                                 /\ s.usage = prod[t].usage
           /\ Len(Pending(t)') = Len(Pending(t))
           /\ \A k \in 1..Len(Pending(t)) : Pending(t)'[k] = Pending(t)[k]
<1> DEFINE s == [prod[t] EXCEPT !.phase = "ended"]
<1>1. prod' = [prod EXCEPT ![t] = s]
  BY DEF CloseStream
<1>2. /\ s \in Streams /\ s.chan = prod[t].chan /\ s.calls = prod[t].calls
      /\ s.outbox = prod[t].outbox /\ s.finish = prod[t].finish
      /\ s.usage = prod[t].usage
  BY StreamFields DEF Streams
<1> HIDE DEF s
<1>3. Pending(t)' = Pending(t)
  <2>1. prod'[t] = s
    BY <1>1 DEF StreamsTyped
  <2> QED
    BY <1>2, <2>1 DEF Pending
<1> QED
  BY <1>1, <1>2, <1>3

\* The engine takes the first of the events that are pending.
LEMMA ReceiveTakes ==
    ASSUME StreamsTyped, turn \in Turns, Receivable, Receive, turn' = turn
    PROVE  /\ Received \in ProviderEvents /\ Received = Pending(turn)[1]
           /\ prod'[turn].finish = prod[turn].finish
           /\ prod'[turn].calls = prod[turn].calls
           /\ prod'[turn].usage = prod[turn].usage
           /\ Len(Pending(turn)) > 0
           /\ Len(Pending(turn)') = Len(Pending(turn)) - 1
           /\ \A k \in 1..Len(Pending(turn)') :
                 Pending(turn)'[k] = Pending(turn)[k + 1]
<1> DEFINE a == prod[turn].chan
           b == prod[turn].outbox
           s == [prod[turn] EXCEPT !.chan = Tail(a)]
<1>1. /\ a \in Seq(ProviderEvents) /\ b \in Seq(ProviderEvents) /\ a # << >>
      /\ prod[turn] \in Streams
  BY StreamFields DEF Receivable
<1>2. prod' = [prod EXCEPT ![turn] = s] /\ prod'[turn] = s
  BY DEF Receive, StreamsTyped
<1>3. Received \in ProviderEvents /\ Received = Pending(turn)[1]
  BY <1>1, ReceiveTyped, PendingTyped DEF Received
<1>4. Pending(turn) = a \o b /\ Pending(turn)' = prod'[turn].chan \o prod'[turn].outbox
  BY turn' = turn DEF Pending
<1>5. Len(Pending(turn)) > 0
  BY <1>1, PendingTyped
<1>6. Tail(a) \in Seq(ProviderEvents)
  BY <1>1
<1>7. /\ s.chan = Tail(a) /\ s.outbox = b
      /\ s.finish = prod[turn].finish /\ s.calls = prod[turn].calls
      /\ s.usage = prod[turn].usage
  BY <1>1, <1>6 DEF Streams
<1> SUFFICES /\ Len(Pending(turn)') = Len(Pending(turn)) - 1
             /\ \A k \in 1..Len(Pending(turn)') :
                   Pending(turn)'[k] = Pending(turn)[k + 1]
  BY <1>2, <1>3, <1>5, <1>7
<1> HIDE DEF a, b, s
<1> DEFINE rest == Tail(a)
           p == a \o b
           q == rest \o b
<1>8. Pending(turn) = p /\ Pending(turn)' = q
  BY <1>2, <1>4, <1>7
<1>9. /\ Len(a) \in Nat /\ Len(b) \in Nat /\ Len(a) > 0
      /\ Len(rest) = Len(a) - 1 /\ \A k \in 1..Len(rest) : rest[k] = a[k + 1]
  BY <1>1
<1>10. /\ Len(p) = Len(a) + Len(b)
       /\ \A k \in 1..Len(a) : p[k] = a[k]
       /\ \A k \in 1..Len(b) : p[Len(a) + k] = b[k]
  BY <1>1, ConcatElements
<1>11. /\ Len(q) = Len(rest) + Len(b)
       /\ \A k \in 1..Len(rest) : q[k] = rest[k]
       /\ \A k \in 1..Len(q) :
             \/ k \in 1..Len(rest)
             \/ k - Len(rest) \in 1..Len(b) /\ q[k] = b[k - Len(rest)]
  BY <1>1, <1>6, ConcatElements
<1> HIDE DEF rest, p, q
<1>12. Len(q) = Len(p) - 1
  BY <1>9, <1>10, <1>11
<1>13. ASSUME NEW k \in 1..Len(q) PROVE q[k] = p[k + 1]
  <2>1. CASE k \in 1..Len(rest)
    <3>1. q[k] = a[k + 1] /\ k + 1 \in 1..Len(a)
      BY <1>9, <1>11, <2>1
    <3> QED
      BY <1>10, <3>1
  <2>2. CASE k \notin 1..Len(rest)
    <3>1. k - Len(rest) \in 1..Len(b) /\ q[k] = b[k - Len(rest)]
      BY <1>11, <2>2
    <3>2. Len(a) + (k - Len(rest)) = k + 1
      BY <1>9, <3>1
    <3>3. p[Len(a) + (k - Len(rest))] = b[k - Len(rest)]
      BY <1>10, <3>1
    <3> QED
      BY <3>1, <3>2, <3>3
  <2> QED
    BY <2>1, <2>2
<1> QED
  BY <1>8, <1>12, <1>13

\* The stream of a turn, seen from the engine, in a step of another goroutine.
LEMMA StreamSteps ==
    ASSUME StreamsTyped, NEW u \in Turns,
           \E t \in Turns : BackendStep(t) \/ StreamStep(t)
    PROVE  \/ /\ prod'[u].finish = prod[u].finish
              /\ prod'[u].calls = prod[u].calls
              /\ prod'[u].usage = prod[u].usage
              /\ Len(Pending(u)') = Len(Pending(u))
              /\ \A k \in 1..Len(Pending(u)) : Pending(u)'[k] = Pending(u)[k]
           \/ \E s \in Streams : /\ prod'[u] = s
                                 /\ Extended(u, s.outbox)
                                 /\ ReadNew(u, s, s.outbox)
                                 /\ prod[u].usage # None => s.usage = prod[u].usage
<1>1. PICK t \in Turns : BackendStep(t) \/ StreamStep(t)
  OBVIOUS
<1>2. \E s \in Streams : prod' = [prod EXCEPT ![t] = s]
  BY <1>1, ReadMoves, SendKeeps, CloseKeeps DEF BackendStep, StreamStep, ReadInto
<1>3. CASE u # t
  <2>1. prod'[u] = prod[u]
    BY <1>2, <1>3 DEF StreamsTyped
  <2> QED
    BY <2>1 DEF Pending
<1>4. CASE u = t /\ BackendStep(t)
  <2>1. PICK s \in Streams : ReadInto(t, s)
    BY <1>4, ReadMoves DEF BackendStep
  <2>2. /\ Extended(t, s.outbox) /\ prod' = [prod EXCEPT ![t] = s]
        /\ ReadNew(t, s, s.outbox)
        /\ prod[t].usage # None => s.usage = prod[t].usage
    BY <2>1, ReadExtends DEF ReadInto
  <2>3. prod'[t] = s
    BY <2>2 DEF StreamsTyped
  <2> QED
    BY <1>4, <2>2, <2>3
<1>5. CASE u = t /\ StreamStep(t)
  <2>1. PICK s \in Streams : /\ prod' = [prod EXCEPT ![t] = s]
                             /\ s.finish = prod[t].finish /\ s.calls = prod[t].calls
                             /\ s.usage = prod[t].usage
    BY <1>5, SendKeeps, CloseKeeps DEF StreamStep
  <2>2. prod'[t] = s
    BY <2>1 DEF StreamsTyped
  <2>3. /\ Len(Pending(t)') = Len(Pending(t))
        /\ \A k \in 1..Len(Pending(t)) : Pending(t)'[k] = Pending(t)[k]
    BY <1>5, SendKeeps, CloseKeeps DEF StreamStep
  <2> QED
    BY <1>5, <2>1, <2>2, <2>3
<1> QED
  BY <1>1, <1>3, <1>4, <1>5

-----------------------------------------------------------------------------
(***************************************************************************)
(* What the engine writes for an event of the provider, and what that      *)
(* changes: the items it opens and closes.                                 *)
(***************************************************************************)
Delta(events) ==
    /\ events \in Seq(ItemEvents)
    /\ \A k \in 1..Len(events) :
          /\ events[k].item[1] # "result"
          /\ events[k].type = "added" =>
               \/ events[k].item = ReasoningItem
               \/ events[k].item = TextItem(turn) /\ msg'.added
               \/ /\ Received.kind = "call" /\ Received.arg \in Calls
                  /\ events[k].item = CallItem(turn, Received.arg)
                  /\ st'.callIndex[Received.arg] # 0
          /\ events[k].type = "done" =>
               \/ events[k].item = ReasoningItem
               \/ /\ Received.kind = "calldone" /\ Received.arg \in Calls
                  /\ st.callIndex[Received.arg] # 0
                  /\ events[k].item = CallItem(turn, Received.arg)
    /\ Received.kind = "calldone" /\ st.callIndex[Received.arg] # 0 =>
         \E k \in 1..Len(events) :
            events[k].type = "done" /\ events[k].item = CallItem(turn, Received.arg)
    /\ \A c \in Calls : st.callIndex[c] # 0 => st'.callIndex[c] # 0

LEMMA DeltaEvents ==
    ASSUME Typed, RecvDelta
    PROVE  \E events \in Seq(ItemEvents) : Emit(events, "consume") /\ Delta(events)
<1>1. /\ turn \in Nat /\ turn \in Turns /\ StreamsTyped /\ st \in StreamStates
      /\ Receivable /\ Receive
  <2>1. turn \in 1..(MaxTurns + 1) /\ MaxTurns \in Nat
    BY ProviderAssumption DEF Typed, TurnTyped
  <2> QED
    BY <2>1 DEF Typed, TurnTyped, RecvDelta, Receivable
<1>2. /\ Received \in ProviderEvents
      /\ Received.kind \in {"call", "calldone"} => Received.arg \in Calls
  <2>1. Received \in ProviderEvents
    BY <1>1, ReceiveTyped
  <2> QED
    BY <2>1 DEF ProviderEvents
<1>3. Opened \in StreamStates /\ Opened.callIndex = st.callIndex
  <2>1. st.index + 1 \in Nat
    BY <1>1, StateFields
  <2> QED
    BY <1>1, <2>1 DEF Opened, StreamStates
<1> DEFINE m == MapProviderEvent(Received, Opened, turn)
           opening == TextOpening
           mapped == m.events
           events == opening \o mapped
<1>4. Emit(events, "consume") /\ st' = m.st
  BY DEF RecvDelta
<1>5. /\ EventsMapped(mapped, Received, Opened, turn)
      /\ StateMapped(m.st, Opened)
      /\ Received.kind = "call" => m.st.callIndex[Received.arg] # 0
      /\ Received.kind = "calldone" /\ Opened.callIndex[Received.arg] # 0 =>
           \E k \in 1..Len(mapped) :
              /\ mapped[k].type = "done"
              /\ mapped[k].item = CallItem(turn, Received.arg)
  BY <1>1, <1>2, <1>3, ProviderEventMapped
<1> HIDE DEF m
<1>6. /\ mapped \in Seq(ItemEvents)
      /\ \A k \in 1..Len(mapped) :
            /\ Opens(mapped[k], Received, turn)
            /\ Closes(mapped[k], Received, Opened, turn)
            /\ OfTurn(mapped[k], turn)
  BY <1>5 DEF EventsMapped
<1>7. /\ opening \in Seq(ItemEvents)
      /\ \A k \in 1..Len(opening) :
            /\ opening[k].item = TextItem(turn)
            /\ opening[k].type # "done"
      /\ ~OpensText => opening = << >>
  BY <1>1, <1>3, TextOpeningTyped DEF TextEvent
<1>8. OpensText => msg'.added
  BY DEF RecvDelta
<1> HIDE DEF opening, mapped
<1>9. /\ opening \o mapped \in Seq(ItemEvents)
      /\ \A k \in 1..Len(mapped) : (opening \o mapped)[Len(opening) + k] = mapped[k]
      /\ Len(opening \o mapped) = Len(opening) + Len(mapped)
      /\ \A k \in 1..Len(opening) : (opening \o mapped)[k] = opening[k]
      /\ \A k \in 1..Len(opening \o mapped) :
            \/ k \in 1..Len(opening)
            \/ /\ k - Len(opening) \in 1..Len(mapped)
               /\ (opening \o mapped)[k] = mapped[k - Len(opening)]
  BY <1>6, <1>7, ConcatElements
<1>10. ASSUME NEW k \in 1..Len(events)
       PROVE  \/ /\ events[k].item = TextItem(turn) /\ events[k].type # "done"
                 /\ OpensText
              \/ /\ Opens(events[k], Received, turn)
                 /\ Closes(events[k], Received, Opened, turn)
                 /\ OfTurn(events[k], turn)
  <2>1. CASE k \in 1..Len(opening)
    <3>1. events[k] = opening[k]
      BY <1>9, <2>1
    <3>2. OpensText
      BY <1>7, <2>1
    <3> QED
      BY <1>7, <2>1, <3>1, <3>2
  <2>2. CASE k \notin 1..Len(opening)
    BY <1>6, <1>9, <2>2
  <2> QED
    BY <2>1, <2>2
<1>11. ASSUME NEW k \in 1..Len(mapped)
       PROVE  \E n \in 1..Len(events) : events[n] = mapped[k]
  <2>1. Len(opening) \in Nat /\ Len(mapped) \in Nat
    BY <1>6, <1>7
  <2>2. Len(opening) + k \in 1..Len(events) /\ events[Len(opening) + k] = mapped[k]
    BY <1>9, <2>1
  <2> QED
    BY <2>2
<1>12. events \in Seq(ItemEvents)
  BY <1>9
<1> HIDE DEF events
<1>13. ASSUME NEW k \in 1..Len(events) PROVE events[k].item[1] # "result"
  BY <1>10, ItemKindsDiffer DEF OfTurn
<1>14. ASSUME NEW k \in 1..Len(events), events[k].type = "added"
       PROVE  \/ events[k].item = ReasoningItem
              \/ events[k].item = TextItem(turn) /\ msg'.added
              \/ /\ Received.kind = "call" /\ Received.arg \in Calls
                 /\ events[k].item = CallItem(turn, Received.arg)
                 /\ st'.callIndex[Received.arg] # 0
  BY <1>2, <1>4, <1>5, <1>8, <1>10, <1>14 DEF Opens
<1>15. ASSUME NEW k \in 1..Len(events), events[k].type = "done"
       PROVE  \/ events[k].item = ReasoningItem
              \/ /\ Received.kind = "calldone" /\ Received.arg \in Calls
                 /\ st.callIndex[Received.arg] # 0
                 /\ events[k].item = CallItem(turn, Received.arg)
  BY <1>2, <1>3, <1>10, <1>15 DEF Closes
<1>16. Received.kind = "calldone" /\ st.callIndex[Received.arg] # 0 =>
         \E k \in 1..Len(events) :
            events[k].type = "done" /\ events[k].item = CallItem(turn, Received.arg)
  BY <1>3, <1>5, <1>11
<1>17. \A c \in Calls : st.callIndex[c] # 0 => st'.callIndex[c] # 0
  BY <1>3, <1>4, <1>5 DEF StateMapped
<1>18. Delta(events)
  BY <1>12, <1>13, <1>14, <1>15, <1>16, <1>17 DEF Delta
<1> QED
  BY <1>4, <1>12, <1>18

(***************************************************************************)
(* The steps of the handler on the direct path: it goes on to connect, it  *)
(* connects and announces the response, it passes an event of the provider *)
(* on, it ends with the status the provider reports, or it ends otherwise  *)
(* and then not with completed.                                            *)
(***************************************************************************)
DirectStep(events, next) ==
    /\ events \in Seq(Events)
    /\ Emit(events, next)
    /\ \/ pc = "start" /\ next = "connect" /\ events = << >> /\ prod' = prod
       \/ Connect /\ next = "consume" /\ events = Opening
       \/ RecvDelta /\ next = "consume" /\ Delta(events)
       \/ /\ RecvDone /\ next = "return"
          /\ events = Append(TextClosing, ResponseEvent(Received.arg))
       \/ /\ next \in {"return", "error"}
          /\ \A k \in 1..Len(events) : events[k].type # "completed"
          /\ next = "return" => Has(events, TerminalTypes \ {"completed"})
          /\ TerminalLast(events)
          /\ prod' = prod \/ (Receivable /\ Receive)

LEMMA DirectSteps ==
    ASSUME Typed, ~req.agentic, Working, HandlerStep
    PROVE  /\ 1 \in Turns /\ turn = 1 /\ turn' = 1 /\ conn' = conn /\ req' = req
           /\ \E events, next : DirectStep(events, next)
<1>1. /\ seq \in Nat /\ TurnTyped /\ turn \in Nat /\ st \in StreamStates
      /\ 1 \in Turns /\ turn = 1
  <2>1. MaxTurns \in Nat \ {0}
    BY ProviderAssumption
  <2> QED
    BY <2>1 DEF Typed, TurnTyped, Turns
<1>2. ~Cleanup /\ ~Report
  BY DEF Working, Cleanup, Report
<1>3. /\ conn' = conn /\ req' = req /\ turn' = 1
  <2>1. pc # "tools"
    BY <1>1 DEF TurnTyped
  <2>2. turn' = turn /\ req' = req
    BY <2>1, TurnSteps
  <2>3. conn' = conn
    BY <1>2 DEF HandlerStep, Start, TurnStart, Connect, ConnectFails, RecvCancelled,
                RecvError, RecvDelta, RecvDone, RecvClosed, Decide, ToolsReturned
  <2> QED
    BY <1>1, <2>2, <2>3
<1> SUFFICES \E events, next : DirectStep(events, next)
  BY <1>1, <1>3
<1>4. CASE /\ \E type \in TerminalTypes \ {"completed"} : Terminate(type)
           /\ prod' = prod \/ (Receivable /\ Receive)
  <2>0. PICK type \in TerminalTypes \ {"completed"} : Terminate(type)
    BY <1>4
  <2> DEFINE events == <<ResponseEvent(type)>>
  <2>1. Emit(events, "return")
    BY <2>0 DEF Terminate
  <2>2. events \in Seq(Events) /\ Len(events) = 1 /\ events[1].type = type
    BY TerminalTyped
  <2> HIDE DEF events
  <2>3. /\ \A k \in 1..Len(events) : events[k].type # "completed"
        /\ Has(events, TerminalTypes \ {"completed"}) /\ TerminalLast(events)
    BY <2>2 DEF Has, TerminalLast
  <2>4. DirectStep(events, "return")
    BY <1>4, <2>1, <2>2, <2>3 DEF DirectStep
  <2> QED
    BY <2>4
<1>5. CASE /\ prod' = prod
           /\ (pc = "start" /\ Goto("connect")) \/ Goto("error")
  <2>0. PICK label : /\ Goto(label)
                     /\ (pc = "start" /\ label = "connect") \/ label = "error"
    BY <1>5
  <2> DEFINE none == << >>
  <2>1. Emit(none, label) /\ none \in Seq(Events) /\ TerminalLast(none)
    BY <1>1, <2>0, GotoEmits
  <2>2. \A k \in 1..Len(none) : none[k].type # "completed"
    OBVIOUS
  <2>3. DirectStep(none, label)
    BY <1>5, <2>0, <2>1, <2>2 DEF DirectStep
  <2> QED
    BY <2>3
<1>6. CASE Start
  BY <1>5, <1>6 DEF Start
<1>7. CASE TurnStart \/ Decide \/ ToolsReturned
  BY <1>1, <1>7 DEF TurnTyped, TurnStart, Decide, ToolsReturned
<1>8. CASE Connect
  <2>1. Emit(Opening, "consume")
    BY <1>8 DEF Connect
  <2>2. DirectStep(Opening, "consume")
    BY <1>8, <2>1, OpeningEmits DEF DirectStep
  <2> QED
    BY <2>2
<1>9. CASE ConnectFails
  BY <1>5, <1>9 DEF ConnectFails
<1>10. CASE RecvCancelled
  <2>1. Terminate("cancelled") /\ Receivable /\ Receive
    BY <1>10 DEF RecvCancelled
  <2> QED
    BY <1>4, <2>1 DEF TerminalTypes
<1>11. CASE RecvError
  <2>1. Terminate("failed") /\ Receivable /\ Receive
    BY <1>11 DEF RecvError
  <2> QED
    BY <1>4, <2>1 DEF TerminalTypes
<1>12. CASE RecvDelta
  <2>1. PICK events \in Seq(ItemEvents) : Emit(events, "consume") /\ Delta(events)
    BY <1>12, DeltaEvents
  <2>2. events \in Seq(Events)
    BY ItemEventsEmit
  <2>3. DirectStep(events, "consume")
    BY <1>12, <2>1, <2>2 DEF DirectStep
  <2> QED
    BY <2>3
<1>13. CASE RecvDone
  <2>1. Received \in ProviderEvents /\ Received.kind = "done"
    BY <1>1, <1>13, ReceiveTyped DEF Typed, RecvDone, TurnTyped, Receivable
  <2>2. Received.arg \in TerminalTypes
    BY <2>1 DEF ProviderEvents, Statuses, TerminalTypes
  <2> DEFINE events == Append(TextClosing, ResponseEvent(Received.arg))
  <2>3. Emit(events, "return")
    BY <1>13 DEF RecvDone, FinalStatus
  <2>4. events \in Seq(Events)
    BY <1>1, <2>2, ClosingEmits
  <2>5. DirectStep(events, "return")
    BY <1>13, <2>3, <2>4 DEF DirectStep
  <2> QED
    BY <2>5
<1>14. CASE RecvClosed
  <2>1. CASE ctx
    <3>1. Terminate("cancelled") /\ prod' = prod
      BY <1>14, <2>1 DEF RecvClosed
    <3> QED
      BY <1>4, <3>1 DEF TerminalTypes
  <2>2. CASE ~ctx
    <3> DEFINE events == Append(TextClosing, ResponseEvent("incomplete"))
    <3>1. Emit(events, "return") /\ prod' = prod
      BY <1>14, <2>2 DEF RecvClosed
    <3>2. /\ events \in Seq(Events) /\ TerminalLast(events)
          /\ Has(events, TerminalTypes) /\ Len(events) = Len(TextClosing) + 1
          /\ events[Len(events)].type = "incomplete"
      BY <1>1, ClosingEmits DEF TerminalTypes
    <3> HIDE DEF events
    <3>3. Len(events) \in Nat
      BY <3>2
    <3>4. /\ \A k \in 1..Len(events) : events[k].type # "completed"
          /\ Has(events, TerminalTypes \ {"completed"})
      BY <3>2, <3>3 DEF Has, TerminalLast, TerminalTypes
    <3>5. DirectStep(events, "return")
      BY <3>1, <3>2, <3>4 DEF DirectStep
    <3> QED
      BY <3>5
  <2> QED
    BY <2>1, <2>2
<1> QED
  BY <1>2, <1>6, <1>7, <1>8, <1>9, <1>10, <1>11, <1>12, <1>13, <1>14
     DEF HandlerStep

-----------------------------------------------------------------------------
(***************************************************************************)
(* The status of the direct path.  While its stream is consumed, the first *)
(* end of the stream that is pending carries the status of the chunk that  *)
(* finished it, unless a usage-only chunk came before that chunk.          *)
(***************************************************************************)
FirstEnd(k) ==
    /\ Pending(1)[k].kind = "done"
    /\ \A j \in 1..(k - 1) : Pending(1)[j].kind # "done"

FinishAhead ==
    /\ prod[1].finish = None =>
         \A k \in 1..Len(Pending(1)) : Pending(1)[k].kind # "done"
    /\ prod[1].finish # None =>
         \E k \in 1..Len(Pending(1)) :
            FirstEnd(k) /\ Pending(1)[k].arg = prod[1].finish

EarlyUsage == prod[1].usage = "early"

Truthful ==
    ~req.agentic =>
       /\ \A k \in 1..Len(wire) :
             wire[k].type = "completed" => prod[1].finish = "completed" \/ EarlyUsage
       /\ pc \in {"start", "connect"} => wire = << >>
       /\ pc = "consume" => EarlyUsage \/ FinishAhead

LEMMA FinishKept ==
    ASSUME StreamsTyped, 1 \in Turns, \E t \in Turns : BackendStep(t) \/ StreamStep(t)
    PROVE  /\ FinishAhead => EarlyUsage' \/ FinishAhead'
           /\ EarlyUsage => EarlyUsage'
           /\ prod[1].finish # None => prod'[1].finish = prod[1].finish
<1>0. Pending(1) \in Seq(ProviderEvents) /\ Len(Pending(1)) \in Nat
  BY PendingTyped
<1>1. CASE /\ prod'[1].finish = prod[1].finish
           /\ prod'[1].usage = prod[1].usage
           /\ Len(Pending(1)') = Len(Pending(1))
           /\ \A k \in 1..Len(Pending(1)) : Pending(1)'[k] = Pending(1)[k]
  <2>1. SUFFICES ASSUME FinishAhead PROVE FinishAhead'
    BY <1>1 DEF EarlyUsage
  <2>2. ASSUME prod'[1].finish = None
        PROVE  \A k \in 1..Len(Pending(1)') : Pending(1)'[k].kind # "done"
    BY <1>1, <2>1, <2>2 DEF FinishAhead
  <2>3. ASSUME prod'[1].finish # None
        PROVE  \E k \in 1..Len(Pending(1)') :
                  FirstEnd(k)' /\ Pending(1)'[k].arg = prod'[1].finish
    <3>1. PICK k \in 1..Len(Pending(1)) :
             FirstEnd(k) /\ Pending(1)[k].arg = prod[1].finish
      BY <1>1, <2>1, <2>3 DEF FinishAhead
    <3>2. \A j \in 1..(k - 1) : j \in 1..Len(Pending(1))
      BY <1>0
    <3>3. FirstEnd(k)'
      BY <1>1, <3>1, <3>2 DEF FirstEnd
    <3> QED
      BY <1>1, <3>1, <3>3
  <2> QED
    BY <2>2, <2>3 DEF FinishAhead
<1>2. CASE \E s \in Streams : /\ prod'[1] = s
                              /\ Extended(1, s.outbox)
                              /\ ReadNew(1, s, s.outbox)
                              /\ prod[1].usage # None => s.usage = prod[1].usage
  <2>1. PICK s \in Streams : /\ prod'[1] = s
                             /\ Extended(1, s.outbox)
                             /\ ReadNew(1, s, s.outbox)
                             /\ prod[1].usage # None => s.usage = prod[1].usage
    BY <1>2
  <2> DEFINE new == s.outbox
             p == Pending(1)
             q == Pending(1)'
  <2>2. /\ new \in Seq(ProviderEvents)
        /\ Len(q) = Len(p) + Len(new)
        /\ \A k \in 1..Len(p) : q[k] = p[k]
        /\ \A k \in 1..Len(new) : q[Len(p) + k] = new[k]
        /\ \A k \in 1..Len(q) :
              k \in 1..Len(p) \/ (k - Len(p) \in 1..Len(new) /\ q[k] = new[k - Len(p)])
    BY <2>1 DEF Extended
  <2>3. prod[1].finish # None => s.finish = prod[1].finish
    BY <2>1 DEF ReadNew
  <2>4. SUFFICES ASSUME FinishAhead, s.usage # "early" PROVE FinishAhead'
    BY <2>1, <2>3 DEF EarlyUsage, None
  <2>5. Len(new) \in Nat /\ Len(p) \in Nat
    BY <1>0, <2>2
  <2>6. /\ prod[1].finish = None => \A k \in 1..Len(p) : p[k].kind # "done"
        /\ prod[1].finish # None =>
             \E k \in 1..Len(p) : /\ p[k].kind = "done" /\ p[k].arg = prod[1].finish
                                  /\ \A j \in 1..(k - 1) : p[j].kind # "done"
    BY <2>4 DEF FinishAhead, FirstEnd
  <2> SUFFICES
         /\ s.finish = None => \A k \in 1..Len(q) : q[k].kind # "done"
         /\ s.finish # None =>
              \E k \in 1..Len(q) : /\ q[k].kind = "done" /\ q[k].arg = s.finish
                                   /\ \A j \in 1..(k - 1) : q[j].kind # "done"
    BY <2>1 DEF FinishAhead, FirstEnd
  <2>7. ReadNew(1, s, new)
    BY <2>1
  <2> HIDE DEF p, q, new
  <2>8. CASE prod[1].finish # None
    <3>1. PICK k \in 1..Len(p) : /\ p[k].kind = "done" /\ p[k].arg = prod[1].finish
                                 /\ \A j \in 1..(k - 1) : p[j].kind # "done"
      BY <2>6, <2>8
    <3>2. k \in 1..Len(q) /\ \A j \in 1..(k - 1) : j \in 1..Len(p)
      BY <2>2, <2>5
    <3> QED
      BY <2>2, <2>3, <2>8, <3>1, <3>2
  <2>9. CASE prod[1].finish = None /\ s.finish = None
    <3>1. \A k \in 1..Len(new) : new[k].kind # "done"
      BY <2>4, <2>7, <2>9 DEF ReadNew, None, Statuses
    <3> QED
      BY <2>2, <2>6, <2>9, <3>1
  <2>10. CASE prod[1].finish = None /\ s.finish # None
    <3>1. /\ Len(new) > 0 /\ new[Len(new)] = ProviderEvent("done", s.finish)
          /\ \A k \in 1..(Len(new) - 1) : new[k].kind \in {"calldone", "textdone"}
      BY <2>4, <2>7, <2>10 DEF ReadNew
    <3>2. Len(q) \in 1..Len(q) /\ q[Len(q)] = ProviderEvent("done", s.finish)
      <4>1. Len(new) \in 1..Len(new) /\ Len(p) + Len(new) = Len(q)
        BY <2>2, <2>5, <3>1
      <4>2. q[Len(p) + Len(new)] = new[Len(new)]
        BY <2>2, <4>1
      <4>3. Len(q) \in 1..Len(q)
        BY <2>2, <2>5, <3>1
      <4> QED
        BY <3>1, <4>1, <4>2, <4>3
    <3>3. ASSUME NEW j \in 1..(Len(q) - 1) PROVE q[j].kind # "done"
      <4>1. CASE j \in 1..Len(p)
        BY <2>2, <2>6, <2>10, <4>1
      <4>2. CASE j \notin 1..Len(p)
        <5>1. j \in 1..Len(q) /\ j - Len(p) \in 1..(Len(new) - 1)
          BY <2>2, <2>5, <4>2
        <5>2. q[j] = new[j - Len(p)]
          BY <2>2, <4>2, <5>1
        <5> QED
          BY <3>1, <5>1, <5>2
      <4> QED
        BY <4>1, <4>2
    <3>4. q[Len(q)].kind = "done" /\ q[Len(q)].arg = s.finish
      BY <3>2 DEF ProviderEvent
    <3> QED
      BY <2>10, <3>2, <3>3, <3>4
  <2> QED
    BY <2>8, <2>9, <2>10
<1> QED
  BY <1>1, <1>2, StreamSteps

\* What the engine receives as the end of the stream is its first end.
LEMMA FinishReceived ==
    ASSUME StreamsTyped, 1 \in Turns, turn = 1, turn' = 1, Receivable, Receive
    PROVE  /\ FinishAhead /\ Received.kind = "done" => Received.arg = prod[1].finish
           /\ FinishAhead /\ Received.kind # "done" => FinishAhead'
           /\ prod'[1].finish = prod[1].finish
           /\ EarlyUsage' = EarlyUsage
<1>1. /\ Received = Pending(1)[1] /\ prod'[1].finish = prod[1].finish
      /\ prod'[1].usage = prod[1].usage
      /\ Len(Pending(1)) > 0
      /\ Len(Pending(1)') = Len(Pending(1)) - 1
      /\ \A k \in 1..Len(Pending(1)') : Pending(1)'[k] = Pending(1)[k + 1]
  BY ReceiveTakes DEF Pending
<1>2. Len(Pending(1)) \in Nat
  BY PendingTyped
<1> DEFINE p == Pending(1)
           q == Pending(1)'
<1>3. FinishAhead =>
         /\ prod[1].finish = None => \A k \in 1..Len(p) : p[k].kind # "done"
         /\ prod[1].finish # None =>
              \E k \in 1..Len(p) : /\ p[k].kind = "done" /\ p[k].arg = prod[1].finish
                                   /\ \A j \in 1..(k - 1) : p[j].kind # "done"
  BY DEF FinishAhead, FirstEnd
<1>4. ASSUME FinishAhead, Received.kind = "done" PROVE Received.arg = prod[1].finish
  <2>1. p[1].kind = "done" /\ 1 \in 1..Len(p)
    BY <1>1, <1>2, <1>4
  <2>2. PICK k \in 1..Len(p) : /\ p[k].kind = "done" /\ p[k].arg = prod[1].finish
                               /\ \A j \in 1..(k - 1) : p[j].kind # "done"
    BY <1>3, <1>4, <2>1
  <2>3. k = 1
    BY <2>1, <2>2
  <2> QED
    BY <1>1, <2>2, <2>3
<1>5. ASSUME FinishAhead, Received.kind # "done" PROVE FinishAhead'
  <2> SUFFICES
         /\ prod[1].finish = None => \A k \in 1..Len(q) : q[k].kind # "done"
         /\ prod[1].finish # None =>
              \E k \in 1..Len(q) : /\ q[k].kind = "done" /\ q[k].arg = prod[1].finish
                                   /\ \A j \in 1..(k - 1) : q[j].kind # "done"
    BY <1>1 DEF FinishAhead, FirstEnd
  <2>1. /\ Len(q) = Len(p) - 1 /\ Len(p) \in Nat
        /\ \A k \in 1..Len(q) : q[k] = p[k + 1]
        /\ p[1].kind # "done"
    BY <1>1, <1>2, <1>5
  <2> HIDE DEF p, q
  <2>2. CASE prod[1].finish = None
    BY <1>3, <1>5, <2>1, <2>2
  <2>3. CASE prod[1].finish # None
    <3>1. PICK k \in 1..Len(p) : /\ p[k].kind = "done" /\ p[k].arg = prod[1].finish
                                 /\ \A j \in 1..(k - 1) : p[j].kind # "done"
      BY <1>3, <1>5, <2>3
    <3>2. k # 1 /\ k - 1 \in 1..Len(q) /\ q[k - 1] = p[k]
      BY <2>1, <3>1
    <3>3. \A j \in 1..((k - 1) - 1) : q[j].kind # "done"
      BY <2>1, <3>1, <3>2
    <3> QED
      BY <2>3, <3>1, <3>2, <3>3
  <2> QED
    BY <2>2, <2>3
<1> QED
  BY <1>1, <1>4, <1>5 DEF EarlyUsage

\* A stream that has just been opened has sent nothing.
LEMMA OpenedStream ==
    ASSUME StreamsTyped, NEW t \in Turns, OpenStream(t)
    PROVE  /\ prod'[t].finish = None
           /\ Pending(t)' = << >> /\ Len(Pending(t)') = 0
<1> DEFINE s == [NoStream EXCEPT !.phase = "reading"]
           nothing == << >>
           none == {}
<1>1. prod'[t] = s
  BY DEF OpenStream, StreamsTyped
<1>2. NoStream = [phase |-> "none", outbox |-> nothing, chan |-> nothing,
                  chunks |-> 0, calls |-> none, finish |-> None,
                    usage |-> None]
  BY DEF NoStream
<1>3. nothing \in Seq(ProviderEvents) /\ none \in SUBSET Calls
      /\ nothing \o nothing = nothing /\ Len(nothing) = 0
  OBVIOUS
<1> SUFFICES /\ prod'[t].finish = None
             /\ Pending(t)' = nothing /\ Len(nothing) = 0
  OBVIOUS
<1> HIDE DEF nothing, none
<1>4. /\ NoStream \in Streams /\ NoStream.chan = nothing /\ NoStream.outbox = nothing
      /\ NoStream.finish = None
  BY <1>2, <1>3 DEF Streams
<1> HIDE DEF NoStream
<1>5. s.chan = nothing /\ s.outbox = nothing /\ s.finish = None
  BY <1>4 DEF Streams
<1> HIDE DEF s
<1> QED
  BY <1>1, <1>3, <1>5 DEF Pending

\* What a step of the direct path can add to the wire.
LEMMA DirectOutcome ==
    ASSUME Typed, NEW events, NEW next, DirectStep(events, next)
    PROVE  /\ pc' = next \/ pc' = "error"
           /\ events = << >> /\ pc' = next => wire' = wire
           /\ \/ wire' = wire
              \/ /\ wire' = wire \o Numbered(events, seq)
                 /\ conn = "up" /\ writer # "completed" /\ events # << >>
           /\ conn = "up" /\ writer # "completed" =>
                /\ pc' = next
                /\ wire' = wire \o Numbered(events, seq) \/ (events = << >> /\ wire' = wire)
<1>1. events \in Seq(Events) /\ Emit(events, next)
  BY DEF DirectStep
<1> QED
  BY <1>1, EmitOutcome DEF writerVars

\* A step of the direct path only reports what the backend finished as completed.
LEMMA TruthfulEvents ==
    ASSUME Typed, ~req.agentic, Truthful, turn = 1, turn' = 1, 1 \in Turns,
           NEW events, NEW next, DirectStep(events, next)
    PROVE  /\ wire # << >> => /\ prod'[1].finish = prod[1].finish
                              /\ EarlyUsage' = EarlyUsage
           /\ \A k \in 1..Len(events) :
                 events[k].type = "completed" =>
                    prod'[1].finish = "completed" \/ EarlyUsage'
           /\ next = "consume" => EarlyUsage' \/ FinishAhead'
           /\ next \in {"start", "connect"} => wire = << >> /\ events = << >>
<1>0. StreamsTyped /\ turn \in Nat /\ st \in StreamStates
  BY DEF Typed
<1>1. CASE pc = "start" /\ next = "connect" /\ events = << >> /\ prod' = prod
  BY <1>1 DEF Truthful, EarlyUsage
<1>2. CASE Connect /\ next = "consume" /\ events = Opening
  <2>1. OpenStream(1) /\ pc = "connect"
    BY <1>2 DEF Connect
  <2>2. prod'[1].finish = None /\ \A k \in 1..Len(Pending(1)') : FALSE
    BY <1>0, <2>1, OpenedStream
  <2>3. \A k \in 1..Len(events) : events[k].type # "completed"
    BY <1>2, OpeningEmits
  <2>4. FinishAhead'
    BY <2>2 DEF FinishAhead
  <2> QED
    BY <1>2, <2>1, <2>3, <2>4 DEF Truthful
<1>3. CASE RecvDelta /\ next = "consume" /\ Delta(events)
  <2>1. /\ Receivable /\ Receive /\ Received.kind # "done" /\ pc = "consume"
    BY <1>3 DEF RecvDelta, Receivable
  <2>2. /\ EarlyUsage' \/ FinishAhead'
        /\ prod'[1].finish = prod[1].finish /\ EarlyUsage' = EarlyUsage
    BY <1>0, <2>1, FinishReceived DEF Truthful
  <2>3. \A k \in 1..Len(events) : events[k].type \in {"added", "part", "delta", "done"}
    BY <1>3, ItemEventsEmit DEF Delta
  <2> QED
    BY <1>3, <2>2, <2>3
<1>4. CASE /\ RecvDone /\ next = "return"
           /\ events = Append(TextClosing, ResponseEvent(Received.arg))
  <2>1. /\ Receivable /\ Receive /\ Received.kind = "done" /\ pc = "consume"
    BY <1>4 DEF RecvDone, Receivable
  <2>2. /\ EarlyUsage \/ Received.arg = prod[1].finish
        /\ prod'[1].finish = prod[1].finish /\ EarlyUsage' = EarlyUsage
    BY <1>0, <2>1, FinishReceived DEF Truthful
  <2>3. Received.arg \in TerminalTypes
    <3>1. Received \in ProviderEvents
      BY <1>0, <2>1, ReceiveTyped
    <3> QED
      BY <2>1, <3>1 DEF ProviderEvents, Statuses, TerminalTypes
  <2>4. /\ TerminalLast(events) /\ Len(events) = Len(TextClosing) + 1
        /\ events[Len(events)].type = Received.arg
    BY <1>0, <1>4, <2>3, ClosingEmits
  <2>5. \A k \in 1..Len(events) : events[k].type = "completed" => k = Len(events)
    BY <2>4 DEF TerminalLast, TerminalTypes
  <2> QED
    BY <1>4, <2>2, <2>4, <2>5
<1>5. CASE /\ next \in {"return", "error"}
           /\ \A k \in 1..Len(events) : events[k].type # "completed"
           /\ prod' = prod \/ (Receivable /\ Receive)
  <2>1. prod'[1].finish = prod[1].finish /\ EarlyUsage' = EarlyUsage
    <3>1. CASE Receivable /\ Receive
      BY <1>0, <3>1, FinishReceived DEF Receivable
    <3> QED
      BY <1>5, <3>1 DEF EarlyUsage
  <2> QED
    BY <1>5, <2>1
<1> QED
  BY <1>1, <1>2, <1>3, <1>4, <1>5 DEF DirectStep

LEMMA TruthfulStep ==
    ASSUME Typed, ToolsAwaited, Truthful, [Next]_vars
    PROVE  Truthful'
<1>0. /\ seq \in Nat /\ Len(wire) \in Nat /\ StreamsTyped
  BY DEF Typed, WriterTyped
<1>1. CASE HandlerStep /\ Working /\ ~req.agentic
  <2>1. /\ 1 \in Turns /\ turn = 1 /\ turn' = 1 /\ conn' = conn /\ req' = req
    BY <1>1, DirectSteps
  <2>2. PICK events, next : DirectStep(events, next)
    BY <1>1, DirectSteps
  <2>3. events \in Seq(Events)
    BY <2>2 DEF DirectStep
  <2>4. /\ wire # << >> => /\ prod'[1].finish = prod[1].finish
                           /\ EarlyUsage' = EarlyUsage
        /\ \A k \in 1..Len(events) :
              events[k].type = "completed" =>
                 prod'[1].finish = "completed" \/ EarlyUsage'
        /\ next = "consume" => EarlyUsage' \/ FinishAhead'
        /\ next \in {"start", "connect"} => wire = << >> /\ events = << >>
    BY <1>1, <2>1, <2>2, TruthfulEvents
  <2>5. /\ pc' = next \/ pc' = "error"
        /\ events = << >> /\ pc' = next => wire' = wire
        /\ wire' = wire \/ wire' = wire \o Numbered(events, seq)
    BY <2>2, DirectOutcome
  <2>6. ASSUME NEW k \in 1..Len(wire'), wire'[k].type = "completed"
        PROVE  prod'[1].finish = "completed" \/ EarlyUsage'
    <3>1. CASE k \in 1..Len(wire) /\ wire'[k] = wire[k]
      <4>1. wire # << >>
        BY <3>1
      <4> QED
        BY <1>1, <2>4, <2>6, <3>1, <4>1 DEF Truthful
    <3>2. CASE ~(k \in 1..Len(wire) /\ wire'[k] = wire[k])
      <4>1. wire' = wire \o Numbered(events, seq)
        BY <2>5, <2>6, <3>2
      <4>2. /\ \A n \in 1..Len(wire) : wire'[n] = wire[n]
            /\ \A n \in 1..Len(wire') :
                  \/ n \in 1..Len(wire)
                  \/ /\ n - Len(wire) \in 1..Len(events)
                     /\ wire'[n].type = events[n - Len(wire)].type
        BY <1>0, <2>3, <4>1, WireGrows
      <4> QED
        BY <2>4, <2>6, <3>2, <4>2
    <3> QED
      BY <3>1, <3>2
  <2>7. pc' \in {"start", "connect"} => wire' = << >>
    BY <2>4, <2>5
  <2>8. pc' = "consume" => EarlyUsage' \/ FinishAhead'
    BY <2>4, <2>5
  <2> QED
    BY <2>6, <2>7, <2>8 DEF Truthful
<1>2. CASE HandlerStep /\ ~Working
  <2>1. CASE Cleanup
    BY <2>1 DEF Cleanup, Truthful, EarlyUsage, FinishAhead, FirstEnd, Pending
  <2>2. CASE Report
    <3>1. /\ pc' = "ended" /\ prod' = prod /\ req' = req
          /\ wire' = wire \/ wire' = wire \o Numbered(<<ResponseEvent("failed")>>, 0)
      BY <2>2 DEF Report, Write, writerVars
    <3>2. ASSUME NEW k \in 1..Len(wire'), wire'[k].type = "completed"
          PROVE  k \in 1..Len(wire) /\ wire'[k] = wire[k]
      <4>1. CASE wire' = wire
        BY <3>2, <4>1
      <4>2. CASE wire' = wire \o Numbered(<<ResponseEvent("failed")>>, 0)
        <5> DEFINE events == <<ResponseEvent("failed")>>
        <5>1. events \in Seq(Events) /\ Len(events) = 1 /\ events[1].type = "failed"
          BY TerminalTyped DEF TerminalTypes
        <5>2. wire' = wire \o Numbered(events, 0) /\ 0 \in Nat
          BY <4>2
        <5> HIDE DEF events
        <5>3. /\ \A n \in 1..Len(wire) : wire'[n] = wire[n]
              /\ \A n \in 1..Len(wire') :
                    \/ n \in 1..Len(wire)
                    \/ /\ n - Len(wire) \in 1..Len(events)
                       /\ wire'[n].type = events[n - Len(wire)].type
          BY <5>1, <5>2, WireGrows
        <5> QED
          BY <3>2, <5>1, <5>3
      <4> QED
        BY <3>1, <4>1, <4>2
    <3> QED
      BY <3>1, <3>2 DEF Truthful, EarlyUsage
  <2> QED
    BY <1>2, <2>1, <2>2, FinishingSteps
<1>3. CASE \E c \in Calls : ToolStep(c)
  <2>1. pc = "tools" /\ req' = req
    BY <1>3, ToolSteps
  <2>2. req.agentic
    BY <2>1 DEF Typed, TurnTyped
  <2> QED
    BY <2>1, <2>2 DEF Truthful
<1>4. CASE \E t \in Turns : BackendStep(t) \/ StreamStep(t)
  <2>1. UNCHANGED <<wire, pc, req>>
    BY <1>4, QuietSteps
  <2>2. 1 \in Turns
    BY ProviderAssumption DEF Turns
  <2>3. /\ FinishAhead => EarlyUsage' \/ FinishAhead'
        /\ EarlyUsage => EarlyUsage'
        /\ prod[1].finish # None => prod'[1].finish = prod[1].finish
    BY <1>0, <1>4, <2>2, FinishKept
  <2> QED
    BY <2>1, <2>3 DEF Truthful, None
<1>5. CASE Delete \/ ClientGone \/ ServerNotices \/ UNCHANGED vars
  <2>1. UNCHANGED <<wire, pc, req>>
    BY <1>5, QuietSteps
  <2>2. prod' = prod
    BY <1>5 DEF Delete, ClientGone, ServerNotices, vars
  <2> QED
    BY <2>1, <2>2 DEF Truthful, EarlyUsage, FinishAhead, FirstEnd, Pending
<1>6. CASE HandlerStep /\ req.agentic
  <2>1. req' = req
    BY <1>6, TurnSteps
  <2> QED
    BY <1>6, <2>1 DEF Truthful
<1> QED
  BY <1>1, <1>2, <1>3, <1>4, <1>5, <1>6 DEF Next

LEMMA TruthfulInvariant == Spec => []Truthful
<1>1. Init => Truthful
  <2>1. SUFFICES ASSUME Init PROVE Truthful
    OBVIOUS
  <2>2. wire = << >> /\ pc = "start"
    BY <2>1 DEF Init, WriterInit
  <2> QED
    BY <2>2 DEF Truthful
<1>2. Typed /\ ToolsAwaited /\ Truthful /\ [Next]_vars => Truthful'
  BY TruthfulStep
<1> QED
  BY <1>1, <1>2, TypedInductive, ToolsAwaitedInvariant, PTL DEF Spec

(***************************************************************************)
(* The direct path reports as completed only what the backend finished     *)
(* with that status, or what a usage-only chunk before the finish chunk    *)
(* ended (handleStreaming, TranslateChunk).                                *)
(***************************************************************************)
THEOREM AlwaysTruthful == Spec => []TruncationReported
<1>1. Typed /\ Truthful => TruncationReported
  <2>1. SUFFICES ASSUME Typed, Truthful, ~req.agentic, Ending = "completed"
                 PROVE  prod[turn].finish = "completed" \/ prod[turn].usage = "early"
    BY DEF TruncationReported
  <2>2. wire # << >> /\ wire[Len(wire)].type = "completed"
    BY <2>1 DEF Ending, None, Last
  <2>3. Len(wire) \in 1..Len(wire) /\ turn = 1
    BY <2>1, <2>2 DEF Typed, WriterTyped, TurnTyped
  <2> QED
    BY <2>1, <2>2, <2>3 DEF Truthful, EarlyUsage
<1> QED
  BY <1>1, TypedInductive, TruthfulInvariant, PTL

-----------------------------------------------------------------------------
(***************************************************************************)
(* The items of the direct path.  While the stream is consumed, a call     *)
(* that has been opened is closed on the wire, or its end is pending       *)
(* before the end of the stream, or it is buffered by the reader, which    *)
(* will flush it; and a call that is pending is followed by its end, or    *)
(* buffered.  After an early usage-only chunk none of this is certain.     *)
(***************************************************************************)
EndsCall(e, c) == e.kind = "calldone" /\ e.arg = c

CloseAhead(c) ==
    \E k \in 1..Len(Pending(1)) :
       /\ EndsCall(Pending(1)[k], c)
       /\ \A j \in 1..k : Pending(1)[j].kind # "done"

Buffered(c) == prod[1].finish = None /\ c \in prod[1].calls

WillClose(c) == CloseAhead(c) \/ Buffered(c) \/ EarlyUsage

CallsAhead ==
    EarlyUsage \/
    \A k \in 1..Len(Pending(1)) :
       Pending(1)[k].kind = "call" =>
          \/ Buffered(Pending(1)[k].arg)
          \/ \E j \in 1..Len(Pending(1)) :
                /\ k < j /\ EndsCall(Pending(1)[j], Pending(1)[k].arg)
                /\ \A i \in 1..j : Pending(1)[i].kind # "done"

AddedOpen ==
    \A k \in 1..Len(wire) :
       wire[k].type = "added" =>
          \/ wire[k].item = ReasoningItem
          \/ wire[k].item = TextItem(1) /\ msg.added
          \/ \E c \in Calls :
                /\ wire[k].item = CallItem(1, c) /\ st.callIndex[c] # 0
                /\ OnWire("done", CallItem(1, c)) \/ WillClose(c)

Closing ==
    /\ ItemsClosed
    /\ ~req.agentic /\ pc = "consume" /\ conn = "up" /\ writer # "completed" =>
         AddedOpen /\ CallsAhead

\* Reading on and sending take away no end of a call.
LEMMA CloseKept ==
    ASSUME StreamsTyped, 1 \in Turns, EarlyUsage \/ FinishAhead,
           \E t \in Turns : BackendStep(t) \/ StreamStep(t)
    PROVE  /\ \A c \in Calls : WillClose(c) => WillClose(c)'
           /\ CallsAhead => CallsAhead'
<1>0. Pending(1) \in Seq(ProviderEvents) /\ Len(Pending(1)) \in Nat
  BY PendingTyped
<1>a. EarlyUsage => EarlyUsage'
  BY FinishKept
<1>b. SUFFICES ASSUME ~EarlyUsage'
               PROVE  /\ \A c \in Calls : WillClose(c) => WillClose(c)'
                      /\ CallsAhead => CallsAhead'
  BY DEF WillClose, CallsAhead
<1>c. FinishAhead /\ ~EarlyUsage
  BY <1>a, <1>b
<1> DEFINE p == Pending(1)
           q == Pending(1)'
           Kept1(c) == prod'[1].finish = None /\ c \in prod'[1].calls
           Flushed(c) == \E j \in 1..Len(q) :
                            /\ Len(p) < j /\ EndsCall(q[j], c)
                            /\ \A i \in 1..j : q[i].kind # "done"
<1>1. /\ Len(p) <= Len(q) /\ Len(q) \in Nat
      /\ \A k \in 1..Len(p) : q[k] = p[k]
      /\ \A c : Buffered(c) => Kept1(c) \/ Flushed(c)
      /\ \A k \in 1..Len(q) : k \in 1..Len(p) \/ (q[k].kind = "call" => Kept1(q[k].arg))
  <2>1. CASE /\ prod'[1].finish = prod[1].finish
             /\ prod'[1].calls = prod[1].calls
             /\ Len(q) = Len(p)
             /\ \A k \in 1..Len(p) : q[k] = p[k]
    BY <1>0, <2>1 DEF Buffered
  <2>2. CASE \E s \in Streams : /\ prod'[1] = s
                                /\ Extended(1, s.outbox)
                                /\ ReadNew(1, s, s.outbox)
    <3>1. PICK s \in Streams : /\ prod'[1] = s
                               /\ Extended(1, s.outbox)
                               /\ ReadNew(1, s, s.outbox)
      BY <2>2
    <3>0. s.usage # "early"
      BY <1>b, <3>1 DEF EarlyUsage
    <3> DEFINE new == s.outbox
    <3>2. /\ new \in Seq(ProviderEvents)
          /\ Len(q) = Len(p) + Len(new)
          /\ \A k \in 1..Len(p) : q[k] = p[k]
          /\ \A k \in 1..Len(new) : q[Len(p) + k] = new[k]
          /\ \A k \in 1..Len(q) :
                k \in 1..Len(p) \/ (k - Len(p) \in 1..Len(new) /\ q[k] = new[k - Len(p)])
      BY <3>1 DEF Extended
    <3>3. Len(new) \in Nat /\ Len(p) \in Nat /\ ReadNew(1, s, new)
      BY <1>0, <3>1, <3>2
    <3>4. prod[1].finish = None => \A k \in 1..Len(p) : p[k].kind # "done"
      BY <1>c DEF FinishAhead
    <3> HIDE DEF new
    <3>5. ASSUME NEW k \in 1..Len(new), new[k].kind = "call"
          PROVE  s.finish = None /\ new[k].arg \in s.calls
      <4>1. CASE /\ Len(new) > 0 /\ new[Len(new)] = ProviderEvent("done", s.finish)
                 /\ \A n \in 1..(Len(new) - 1) : new[n].kind \in {"calldone", "textdone"}
        <5>1. k = Len(new) \/ k \in 1..(Len(new) - 1)
          BY <3>3
        <5> QED
          BY <3>5, <4>1, <5>1 DEF ProviderEvent
      <4> QED
        BY <3>0, <3>3, <3>5, <4>1 DEF ReadNew
    <3>6. ASSUME NEW c, Buffered(c) PROVE Kept1(c) \/ Flushed(c)
      <4> SUFFICES (s.finish = None /\ c \in s.calls) \/ Flushed(c)
        BY <3>1
      <4>1. prod[1].finish = None /\ c \in prod[1].calls
        BY <3>6 DEF Buffered
      <4>2. CASE /\ \A k \in 1..(Len(new) - 1) : new[k].kind \in {"calldone", "textdone"}
                 /\ \A d \in prod[1].calls :
                       \E k \in 1..(Len(new) - 1) : new[k] = ProviderEvent("calldone", d)
        <5>1. PICK k \in 1..(Len(new) - 1) : new[k] = ProviderEvent("calldone", c)
          BY <4>1, <4>2
        <5> DEFINE j == Len(p) + k
        <5>2. j \in 1..Len(q) /\ Len(p) < j /\ q[j] = new[k] /\ k \in 1..Len(new)
          BY <3>2, <3>3
        <5>3. EndsCall(q[j], c)
          BY <5>1, <5>2 DEF EndsCall, ProviderEvent
        <5>4. ASSUME NEW i \in 1..j PROVE q[i].kind # "done"
          <6>1. CASE i \in 1..Len(p)
            BY <3>2, <3>4, <4>1, <6>1
          <6>2. CASE i \notin 1..Len(p)
            <7>1. i \in 1..Len(q) /\ i - Len(p) \in 1..(Len(new) - 1)
              BY <3>2, <3>3, <5>2, <6>2
            <7>2. q[i] = new[i - Len(p)]
              BY <3>2, <6>2, <7>1
            <7> QED
              BY <4>2, <7>1, <7>2
          <6> QED
            BY <6>1, <6>2
        <5> QED
          BY <5>2, <5>3, <5>4
      <4>3. CASE s.finish = None /\ prod[1].calls \subseteq s.calls
        BY <4>1, <4>3
      <4>4. CASE s.finish = prod[1].finish /\ s.calls = prod[1].calls
        BY <4>1, <4>4
      <4> QED
        BY <3>0, <3>3, <4>2, <4>3, <4>4 DEF ReadNew
    <3>7. Len(p) <= Len(q) /\ Len(q) \in Nat
      BY <3>2, <3>3
    <3>8. ASSUME NEW k \in 1..Len(q), k \notin 1..Len(p), q[k].kind = "call"
          PROVE  Kept1(q[k].arg)
      BY <3>1, <3>2, <3>5, <3>8
    <3> QED
      BY <3>2, <3>6, <3>7, <3>8
  <2> QED
    BY <2>1, <2>2, StreamSteps
<1>2. ASSUME NEW c \in Calls, WillClose(c) PROVE WillClose(c)'
  <2>1. SUFFICES \/ Kept1(c)
                 \/ \E k \in 1..Len(q) :
                       EndsCall(q[k], c) /\ \A j \in 1..k : q[j].kind # "done"
    BY DEF WillClose, CloseAhead, Buffered, EndsCall
  <2>2. CASE Buffered(c)
    BY <1>1, <2>2
  <2>3. CASE CloseAhead(c)
    <3>1. PICK k \in 1..Len(p) :
             EndsCall(p[k], c) /\ \A j \in 1..k : p[j].kind # "done"
      BY <2>3 DEF CloseAhead
    <3>2. k \in 1..Len(q) /\ \A j \in 1..k : j \in 1..Len(p)
      BY <1>0, <1>1
    <3> HIDE DEF p, q
    <3> QED
      BY <1>1, <3>1, <3>2
  <2> QED
    BY <1>c, <1>2, <2>2, <2>3 DEF WillClose
<1>3. ASSUME CallsAhead PROVE CallsAhead'
  <2>1. SUFFICES ASSUME NEW k \in 1..Len(q), q[k].kind = "call", ~Kept1(q[k].arg)
                 PROVE  \E j \in 1..Len(q) : /\ k < j /\ EndsCall(q[j], q[k].arg)
                                             /\ \A i \in 1..j : q[i].kind # "done"
    BY DEF CallsAhead, Buffered, EndsCall
  <2>2. k \in 1..Len(p) /\ q[k] = p[k]
    BY <1>1, <2>1
  <2>3. CASE Buffered(p[k].arg)
    <3>1. Flushed(q[k].arg)
      BY <1>1, <2>1, <2>2, <2>3
    <3>2. PICK j \in 1..Len(q) : /\ Len(p) < j /\ EndsCall(q[j], q[k].arg)
                                 /\ \A i \in 1..j : q[i].kind # "done"
      BY <3>1
    <3>3. k < j
      BY <1>0, <2>2, <3>2
    <3> QED
      BY <3>2, <3>3
  <2>4. CASE ~Buffered(p[k].arg)
    <3>1. PICK j \in 1..Len(p) : /\ k < j /\ EndsCall(p[j], p[k].arg)
                                 /\ \A i \in 1..j : p[i].kind # "done"
      BY <1>c, <1>3, <2>1, <2>2, <2>4 DEF CallsAhead
    <3>2. j \in 1..Len(q) /\ \A i \in 1..j : i \in 1..Len(p)
      BY <1>0, <1>1
    <3> HIDE DEF p, q
    <3> QED
      BY <1>1, <2>2, <3>1, <3>2
  <2> QED
    BY <2>3, <2>4
<1> QED
  BY <1>2, <1>3

\* Neither does receiving, except the end itself.
LEMMA CloseReceived ==
    ASSUME StreamsTyped, 1 \in Turns, turn = 1, turn' = 1, Receivable, Receive
    PROVE  /\ \A c \in Calls :
                 WillClose(c) /\ Received.kind # "done" /\ ~EndsCall(Received, c)
                    => WillClose(c)'
           /\ CallsAhead => CallsAhead'
           /\ \A c \in Calls :
                 CallsAhead /\ Received.kind = "call" /\ Received.arg = c
                    => WillClose(c)'
           /\ FinishAhead /\ ~EarlyUsage /\ Received.kind = "done" =>
                 \A c \in Calls : ~WillClose(c)
<1> DEFINE p == Pending(1)
           q == Pending(1)'
<1>1. /\ Received = p[1] /\ Len(p) \in Nat /\ Len(p) > 0
      /\ Len(q) = Len(p) - 1
      /\ \A k \in 1..Len(q) : q[k] = p[k + 1]
      /\ \A c : Buffered(c)' = Buffered(c)
      /\ EarlyUsage' = EarlyUsage
  <2>1. /\ Received = p[1] /\ prod'[1].finish = prod[1].finish
        /\ prod'[1].calls = prod[1].calls
        /\ prod'[1].usage = prod[1].usage
        /\ Len(p) > 0 /\ Len(q) = Len(p) - 1
        /\ \A k \in 1..Len(q) : q[k] = p[k + 1]
    BY ReceiveTakes DEF Pending
  <2> QED
    BY <2>1, PendingTyped DEF Buffered, EarlyUsage
\* An end that is pending, other than the first event, moves up by one.
<1>2. ASSUME NEW c, NEW k \in 1..Len(p), k # 1, EndsCall(p[k], c),
             \A j \in 1..k : p[j].kind # "done"
      PROVE  /\ k - 1 \in 1..Len(q) /\ EndsCall(q[k - 1], c)
             /\ \A j \in 1..(k - 1) : q[j].kind # "done"
  <2> HIDE DEF p, q
  <2>1. k - 1 \in 1..Len(q) /\ q[k - 1] = p[k]
    BY <1>1, <1>2
  <2>2. ASSUME NEW j \in 1..(k - 1) PROVE q[j].kind # "done"
    <3>1. j \in 1..Len(q) /\ j + 1 \in 1..k
      BY <1>1
    <3>2. q[j] = p[j + 1]
      BY <1>1, <3>1
    <3> QED
      BY <1>2, <3>1, <3>2
  <2> QED
    BY <1>2, <2>1, <2>2
<1>3. ASSUME NEW c \in Calls, WillClose(c), Received.kind # "done", ~EndsCall(Received, c)
      PROVE  WillClose(c)'
  <2>1. CASE Buffered(c)
    BY <1>1, <2>1 DEF WillClose
  <2>2. CASE CloseAhead(c)
    <3>1. PICK k \in 1..Len(p) :
             EndsCall(p[k], c) /\ \A j \in 1..k : p[j].kind # "done"
      BY <2>2 DEF CloseAhead
    <3>2. k # 1
      BY <1>1, <1>3, <3>1
    <3>3. /\ k - 1 \in 1..Len(q) /\ EndsCall(q[k - 1], c)
          /\ \A j \in 1..(k - 1) : q[j].kind # "done"
      BY <1>2, <3>1, <3>2
    <3> QED
      BY <3>3 DEF WillClose, CloseAhead, EndsCall
  <2> QED
    BY <1>1, <1>3, <2>1, <2>2 DEF WillClose
<1>4. ASSUME CallsAhead PROVE CallsAhead'
  <2>1. SUFFICES ASSUME ~EarlyUsage,
                        NEW k \in 1..Len(q), q[k].kind = "call", ~Buffered(q[k].arg)
                 PROVE  \E j \in 1..Len(q) : /\ k < j /\ EndsCall(q[j], q[k].arg)
                                             /\ \A i \in 1..j : q[i].kind # "done"
    BY <1>1 DEF CallsAhead, EndsCall
  <2>2. k + 1 \in 1..Len(p) /\ q[k] = p[k + 1]
    BY <1>1
  <2>3. PICK j \in 1..Len(p) : /\ k + 1 < j /\ EndsCall(p[j], p[k + 1].arg)
                               /\ \A i \in 1..j : p[i].kind # "done"
    BY <1>4, <2>1, <2>2 DEF CallsAhead
  <2>4. j # 1 /\ k < j - 1
    BY <2>3
  <2>5. /\ j - 1 \in 1..Len(q) /\ EndsCall(q[j - 1], p[k + 1].arg)
        /\ \A i \in 1..(j - 1) : q[i].kind # "done"
    BY <1>2, <2>3, <2>4
  <2> QED
    BY <2>2, <2>4, <2>5
<1>5. ASSUME NEW c \in Calls, CallsAhead, Received.kind = "call", Received.arg = c
      PROVE  WillClose(c)'
  <2>1. CASE Buffered(c)
    BY <1>1, <2>1 DEF WillClose
  <2>2. CASE EarlyUsage
    BY <1>1, <2>2 DEF WillClose
  <2>3. CASE ~Buffered(c) /\ ~EarlyUsage
    <3>1. 1 \in 1..Len(p) /\ p[1].kind = "call" /\ c = p[1].arg
      BY <1>1, <1>5
    <3>2. PICK j \in 1..Len(p) : /\ 1 < j /\ EndsCall(p[j], c)
                                 /\ \A i \in 1..j : p[i].kind # "done"
      BY <1>5, <2>3, <3>1 DEF CallsAhead
    <3>3. j # 1
      BY <3>2
    <3>4. /\ j - 1 \in 1..Len(q) /\ EndsCall(q[j - 1], c)
          /\ \A i \in 1..(j - 1) : q[i].kind # "done"
      BY <1>2, <3>2, <3>3
    <3> QED
      BY <3>4 DEF WillClose, CloseAhead, EndsCall
  <2> QED
    BY <2>1, <2>2, <2>3
<1>6. ASSUME FinishAhead, ~EarlyUsage, Received.kind = "done", NEW c \in Calls, WillClose(c)
      PROVE  FALSE
  <2>1. p[1].kind = "done" /\ 1 \in 1..Len(p)
    BY <1>1, <1>6
  <2>2. ~CloseAhead(c)
    BY <2>1 DEF CloseAhead
  <2>3. prod[1].finish # None
    BY <1>6, <2>1 DEF FinishAhead
  <2> QED
    BY <1>6, <2>2, <2>3 DEF WillClose, Buffered
<1> QED
  BY <1>3, <1>4, <1>5, <1>6

\* Events that are written leave what is on the wire where it is.
LEMMA WireKept ==
    ASSUME Typed, NEW events \in Seq(Events), NEW from \in Nat,
           wire' = wire \o Numbered(events, from)
    PROVE  /\ \A type, item : OnWire(type, item) => OnWire(type, item)'
           /\ \A k \in 1..Len(events) : OnWire(events[k].type, events[k].item)'
           /\ Len(events) > 0 => Ending' = events[Len(events)].type
<1>1. /\ Len(wire') = Len(wire) + Len(events)
      /\ Len(wire) \in Nat /\ Len(events) \in Nat
      /\ \A k \in 1..Len(wire) : wire'[k] = wire[k]
      /\ \A k \in 1..Len(events) :
            /\ wire'[Len(wire) + k].type = events[k].type
            /\ wire'[Len(wire) + k].item = events[k].item
  BY WireGrows
<1>2. ASSUME NEW type, NEW item, OnWire(type, item) PROVE OnWire(type, item)'
  <2>1. PICK k \in 1..Len(wire) : wire[k].type = type /\ wire[k].item = item
    BY <1>2 DEF OnWire
  <2>2. k \in 1..Len(wire') /\ wire'[k] = wire[k]
    BY <1>1
  <2> QED
    BY <2>1, <2>2 DEF OnWire
<1>3. ASSUME NEW k \in 1..Len(events), NEW type, NEW item,
             events[k].type = type, events[k].item = item
      PROVE  OnWire(type, item)'
  <2>1. Len(wire) + k \in 1..Len(wire')
    BY <1>1
  <2>2. wire'[Len(wire) + k].type = type /\ wire'[Len(wire) + k].item = item
    BY <1>1, <1>3
  <2> QED
    BY <2>1, <2>2 DEF OnWire
<1>4. ASSUME Len(events) > 0 PROVE Ending' = events[Len(events)].type
  <2>1. Len(events) \in 1..Len(events) /\ Len(wire') = Len(wire) + Len(events)
        /\ Len(wire') > 0
    BY <1>1, <1>4
  <2>2. wire'[Len(wire')].type = events[Len(events)].type
    BY <1>1, <2>1
  <2>3. wire' # << >>
    BY <2>1
  <2> QED
    BY <2>2, <2>3 DEF Ending, Last
<1> QED
  BY <1>2, <1>3, <1>4

\* A completed end of the direct path closes everything that is open.
LEMMA DoneCloses ==
    ASSUME Typed, ~req.agentic, Truthful, Closing, 1 \in Turns, turn = 1, turn' = 1,
           req' = req, NEW events, NEW next, DirectStep(events, next), events # << >>,
           wire' = wire \o Numbered(events, seq), conn = "up", writer # "completed"
    PROVE  ItemsClosed'
<1>0. /\ StreamsTyped /\ turn \in Nat /\ st \in StreamStates /\ seq \in Nat
      /\ events \in Seq(Events)
  BY DEF Typed, DirectStep
<1>1. Len(events) \in Nat /\ Len(events) > 0
  BY <1>0
<1>2. Ending' = events[Len(events)].type
  BY <1>0, <1>1, WireKept
<1>3. SUFFICES ASSUME events[Len(events)].type = "completed"
               PROVE  ItemsClosed'
  BY <1>2 DEF ItemsClosed
<1>4. /\ RecvDone
      /\ events = Append(TextClosing, ResponseEvent(Received.arg))
  <2>1. ~(events = Opening)
    BY <1>3, OpeningEmits
  <2>2. ~Delta(events)
    <3>1. ASSUME Delta(events) PROVE FALSE
      <4>1. events[Len(events)].type \in {"added", "part", "delta", "done"}
        BY <1>1, <3>1, ItemEventsEmit DEF Delta
      <4> QED
        BY <1>3, <4>1
    <3> QED
      BY <3>1
  <2>3. Len(events) \in 1..Len(events)
    BY <1>1
  <2>4. events # << >>
    OBVIOUS
  <2> QED
    BY <1>3, <2>1, <2>2, <2>3, <2>4 DEF DirectStep
<1>5. /\ Receivable /\ Receive /\ Received.kind = "done" /\ pc = "consume"
  BY <1>4 DEF RecvDone, Receivable
<1>6. AddedOpen /\ (EarlyUsage \/ FinishAhead)
  BY <1>5 DEF Closing, Truthful
<1>6a. EarlyUsage' = EarlyUsage
  BY <1>0, <1>5, FinishReceived
<1>7. EarlyUsage' \/ \A c \in Calls : ~WillClose(c)
  BY <1>0, <1>5, <1>6, <1>6a, CloseReceived
<1>8. Received.arg \in TerminalTypes
  <2>1. Received \in ProviderEvents
    BY <1>0, <1>5, ReceiveTyped
  <2> QED
    BY <1>5, <2>1 DEF ProviderEvents, Statuses, TerminalTypes
<1>9. /\ Len(events) = Len(TextClosing) + 1
      /\ \A k \in 1..Len(TextClosing) : events[k] = TextClosing[k]
  BY <1>0, <1>4, <1>8, ClosingEmits
<1>10. /\ \A k \in 1..Len(TextClosing) :
             TextClosing[k].item = TextItem(1) /\ TextClosing[k].type # "added"
       /\ msg.added => Len(TextClosing) = 2 /\ TextClosing[2].type = "done"
  BY <1>0, TextClosingTyped DEF TextEvent
<1>11. \A k \in 1..Len(events) : events[k].type # "added"
  <2>1. ASSUME NEW k \in 1..Len(events) PROVE k = Len(events) \/ k \in 1..Len(TextClosing)
    BY <1>1, <1>9
  <2> QED
    BY <1>3, <1>9, <1>10, <2>1
<1>12. msg.added => OnWire("done", TextItem(1))'
  <2>1. SUFFICES ASSUME msg.added PROVE OnWire("done", TextItem(1))'
    OBVIOUS
  <2>2. 2 \in 1..Len(events) /\ events[2].type = "done" /\ events[2].item = TextItem(1)
    BY <1>9, <1>10, <2>1
  <2>3. OnWire(events[2].type, events[2].item)'
    BY <1>0, <2>2, WireKept
  <2> QED
    BY <2>2, <2>3 DEF OnWire
<1>13. /\ \A k \in 1..Len(wire) : wire'[k] = wire[k]
       /\ \A k \in 1..Len(wire') :
             \/ k \in 1..Len(wire)
             \/ /\ k - Len(wire) \in 1..Len(events)
                /\ wire'[k].type = events[k - Len(wire)].type
  BY <1>0, WireGrows
<1>14. ASSUME NEW item, OnWire("done", item) PROVE OnWire("done", item)'
  <2>1. PICK k \in 1..Len(wire) : wire[k].type = "done" /\ wire[k].item = item
    BY <1>14 DEF OnWire
  <2>2. k \in 1..Len(wire') /\ wire'[k] = wire[k]
    <3>1. Len(wire') = Len(wire) + Len(events) /\ Len(wire) \in Nat
      BY <1>0, WireGrows
    <3> QED
      BY <1>1, <1>13, <2>1, <3>1
  <2> QED
    BY <2>1, <2>2 DEF OnWire
<1>15. ASSUME NEW k \in 1..Len(wire'), NEW item, item = wire'[k].item,
              wire'[k].type = "added", item # ReasoningItem
       PROVE  OnWire("done", item)' \/ (EarlyUsage' /\ item # TextItem(1))
  <2>1. k \in 1..Len(wire) /\ wire'[k] = wire[k]
    BY <1>11, <1>13, <1>15
  <2>2. \/ wire[k].item = TextItem(1) /\ msg.added
        \/ \E c \in Calls : /\ wire[k].item = CallItem(1, c)
                            /\ OnWire("done", CallItem(1, c)) \/ EarlyUsage'
    BY <1>6, <1>7, <1>15, <2>1 DEF AddedOpen
  <2>3. CASE wire[k].item = TextItem(1) /\ msg.added
    <3>1. item = TextItem(1)
      BY <1>15, <2>1, <2>3
    <3> QED
      BY <1>12, <2>3, <3>1 DEF OnWire, TextItem
  <2>4. CASE \E c \in Calls : /\ wire[k].item = CallItem(1, c)
                              /\ OnWire("done", CallItem(1, c)) \/ EarlyUsage'
    <3>1. PICK c \in Calls : /\ wire[k].item = CallItem(1, c)
                             /\ OnWire("done", CallItem(1, c)) \/ EarlyUsage'
      BY <2>4
    <3>2. item = CallItem(1, c) /\ item # TextItem(1)
      BY <1>15, <2>1, <3>1 DEF CallItem, TextItem
    <3>3. CASE OnWire("done", CallItem(1, c))
      <4>1. OnWire("done", item)
        BY <3>2, <3>3
      <4> QED
        BY <1>14, <4>1
    <3> QED
      BY <3>1, <3>2, <3>3
  <2> QED
    BY <2>2, <2>3, <2>4
<1> QED
  <2>1. ASSUME NEW k \in 1..Len(wire'), wire'[k].type = "added",
               wire'[k].item # ReasoningItem
        PROVE  \/ \E j \in 1..Len(wire') : /\ wire'[j].type = "done"
                                           /\ wire'[j].item = wire'[k].item
               \/ prod'[1].usage = "early" /\ wire'[k].item # TextItem(1)
    BY <1>15, <2>1 DEF OnWire, EarlyUsage
  <2> QED
    BY <2>1 DEF ItemsClosed, OnWire

\* An event of the provider that is passed on keeps what is open accounted for.
LEMMA DeltaKeepsOpen ==
    ASSUME Typed, 1 \in Turns, turn = 1, turn' = 1, NEW events, RecvDelta,
           Delta(events), AddedOpen, CallsAhead,
           \/ wire' = wire \o Numbered(events, seq)
           \/ events = << >> /\ wire' = wire
    PROVE  AddedOpen' /\ CallsAhead'
<1>0. /\ StreamsTyped /\ seq \in Nat /\ Len(wire) \in Nat
      /\ events \in Seq(ItemEvents) /\ events \in Seq(Events) /\ Len(events) \in Nat
  <2>1. events \in Seq(ItemEvents)
    BY DEF Delta
  <2> QED
    BY <2>1, ItemEventsEmit DEF Typed, WriterTyped
<1>1. /\ Receivable /\ Receive /\ Received.kind # "done" /\ pc = "consume"
      /\ msg.added => msg'.added
  BY DEF RecvDelta, Receivable
<1>2. /\ \A c \in Calls : WillClose(c) /\ ~EndsCall(Received, c) => WillClose(c)'
      /\ CallsAhead'
      /\ \A c \in Calls : Received.kind = "call" /\ Received.arg = c => WillClose(c)'
  BY <1>0, <1>1, CloseReceived
<1>3. ASSUME NEW k \in 1..Len(wire')
      PROVE  \/ k \in 1..Len(wire) /\ wire'[k] = wire[k]
             \/ \E n \in 1..Len(events) : /\ wire'[k].type = events[n].type
                                          /\ wire'[k].item = events[n].item
  <2>1. CASE wire' = wire
    BY <1>3, <2>1
  <2>2. CASE wire' = wire \o Numbered(events, seq)
    <3>1. /\ \A j \in 1..Len(wire) : wire'[j] = wire[j]
          /\ \A j \in 1..Len(wire') :
                \/ j \in 1..Len(wire)
                \/ /\ j - Len(wire) \in 1..Len(events)
                   /\ wire'[j].type = events[j - Len(wire)].type
                   /\ wire'[j].item = events[j - Len(wire)].item
      BY <1>0, <2>2, WireGrows
    <3> QED
      BY <1>3, <3>1
  <2> QED
    BY <2>1, <2>2
<1>4. \A c : OnWire("done", CallItem(1, c)) => OnWire("done", CallItem(1, c))'
  <2>1. CASE wire' = wire
    BY <2>1 DEF OnWire
  <2>2. CASE wire' = wire \o Numbered(events, seq)
    <3>1. \A type, item : OnWire(type, item) => OnWire(type, item)'
      BY <1>0, <2>2, WireKept
    <3> QED
      BY <3>1
  <2> QED
    BY <2>1, <2>2
<1>5. ASSUME NEW c \in Calls, EndsCall(Received, c), st.callIndex[c] # 0
      PROVE  OnWire("done", CallItem(1, c))'
  <2>1. PICK k \in 1..Len(events) :
           events[k].type = "done" /\ events[k].item = CallItem(1, c)
    BY <1>5 DEF Delta, EndsCall
  <2>2. wire' = wire \o Numbered(events, seq)
    BY <2>1
  <2>3. OnWire(events[k].type, events[k].item)'
    BY <1>0, <2>2, WireKept
  <2> QED
    BY <2>1, <2>3 DEF OnWire
<1>6. ASSUME NEW k \in 1..Len(wire'), wire'[k].type = "added"
      PROVE  \/ wire'[k].item = ReasoningItem
             \/ wire'[k].item = TextItem(1) /\ msg'.added
             \/ \E c \in Calls :
                   /\ wire'[k].item = CallItem(1, c) /\ st'.callIndex[c] # 0
                   /\ OnWire("done", CallItem(1, c))' \/ WillClose(c)'
  <2>1. CASE k \in 1..Len(wire) /\ wire'[k] = wire[k]
    <3>1. \/ wire[k].item = ReasoningItem
          \/ wire[k].item = TextItem(1) /\ msg.added
          \/ \E c \in Calls :
                /\ wire[k].item = CallItem(1, c) /\ st.callIndex[c] # 0
                /\ OnWire("done", CallItem(1, c)) \/ WillClose(c)
      BY <1>6, <2>1 DEF AddedOpen
    <3>2. CASE \E c \in Calls :
                  /\ wire[k].item = CallItem(1, c) /\ st.callIndex[c] # 0
                  /\ OnWire("done", CallItem(1, c)) \/ WillClose(c)
      <4>1. PICK c \in Calls :
                  /\ wire[k].item = CallItem(1, c) /\ st.callIndex[c] # 0
                  /\ OnWire("done", CallItem(1, c)) \/ WillClose(c)
        BY <3>2
      <4>2. st'.callIndex[c] # 0
        BY <4>1 DEF Delta
      <4>3. OnWire("done", CallItem(1, c))' \/ WillClose(c)'
        BY <1>2, <1>4, <1>5, <4>1
      <4> QED
        BY <2>1, <4>1, <4>2, <4>3
    <3> QED
      BY <1>1, <2>1, <3>1, <3>2
  <2>2. CASE \E n \in 1..Len(events) : /\ wire'[k].type = events[n].type
                                       /\ wire'[k].item = events[n].item
    <3>1. PICK n \in 1..Len(events) : /\ wire'[k].type = events[n].type
                                      /\ wire'[k].item = events[n].item
      BY <2>2
    <3>2. \/ events[n].item = ReasoningItem
          \/ events[n].item = TextItem(1) /\ msg'.added
          \/ /\ Received.kind = "call" /\ Received.arg \in Calls
             /\ events[n].item = CallItem(1, Received.arg)
             /\ st'.callIndex[Received.arg] # 0
      BY <1>6, <3>1 DEF Delta
    <3> QED
      BY <1>2, <3>1, <3>2
  <2> QED
    BY <1>3, <2>1, <2>2
<1> QED
  BY <1>2, <1>6 DEF AddedOpen

\* A step of the direct path that leads to the loop over the stream.
LEMMA ConsumeKeepsOpen ==
    ASSUME Typed, ~req.agentic, Truthful, Closing, 1 \in Turns, turn = 1, turn' = 1,
           NEW events, DirectStep(events, "consume"), conn = "up", writer # "completed",
           \/ wire' = wire \o Numbered(events, seq)
           \/ events = << >> /\ wire' = wire
    PROVE  AddedOpen' /\ CallsAhead'
<1>0. StreamsTyped /\ seq \in Nat
  BY DEF Typed
<1>1. CASE Connect /\ events = Opening
  <2>1. OpenStream(1) /\ wire = << >>
    BY <1>1 DEF Connect, Truthful
  <2>2. Len(Pending(1)') = 0
    BY <1>0, <2>1, OpenedStream
  <2>3. CallsAhead'
    BY <2>2 DEF CallsAhead
  <2>4. \A k \in 1..Len(wire') : wire'[k].type # "added"
    <3>1. /\ events \in Seq(Events)
          /\ \A k \in 1..Len(events) : events[k].type # "added"
      BY <1>1, OpeningEmits
    <3>2. CASE wire' = wire
      BY <2>1, <3>2
    <3>3. CASE wire' = wire \o Numbered(events, seq)
      <4>1. /\ Len(wire) = 0
            /\ \A k \in 1..Len(wire') :
                  \/ k \in 1..Len(wire)
                  \/ /\ k - Len(wire) \in 1..Len(events)
                     /\ wire'[k].type = events[k - Len(wire)].type
        BY <1>0, <2>1, <3>1, <3>3, WireGrows
      <4> QED
        BY <3>1, <4>1
    <3> QED
      BY <3>2, <3>3
  <2> QED
    BY <2>3, <2>4 DEF AddedOpen
<1>2. CASE RecvDelta /\ Delta(events)
  <2>1. AddedOpen /\ CallsAhead
    BY <1>2 DEF Closing, RecvDelta, Receivable
  <2> QED
    BY <1>2, <2>1, DeltaKeepsOpen
<1> QED
  BY <1>1, <1>2 DEF DirectStep

LEMMA ClosingStep ==
    ASSUME Typed, ToolsAwaited, Truthful, Closing, [Next]_vars
    PROVE  Closing'
<1>0. /\ seq \in Nat /\ Len(wire) \in Nat /\ StreamsTyped
  BY DEF Typed, WriterTyped
<1>1. CASE HandlerStep /\ Working /\ ~req.agentic
  <2>1. /\ 1 \in Turns /\ turn = 1 /\ turn' = 1 /\ conn' = conn /\ req' = req
    BY <1>1, DirectSteps
  <2>2. PICK events, next : DirectStep(events, next)
    BY <1>1, DirectSteps
  <2>3. events \in Seq(Events) /\ Emit(events, next)
    BY <2>2 DEF DirectStep
  <2>4. /\ \/ wire' = wire
           \/ /\ wire' = wire \o Numbered(events, seq)
              /\ conn = "up" /\ writer # "completed" /\ events # << >>
        /\ conn = "up" /\ writer # "completed" =>
             /\ pc' = next
             /\ wire' = wire \o Numbered(events, seq) \/ (events = << >> /\ wire' = wire)
    BY <2>2, DirectOutcome
  <2>5. writer = "completed" => writer' = "completed"
    BY <2>3, EmitOutcome DEF writerVars
  <2>6. ItemsClosed'
    <3>1. CASE wire' = wire
      <4>1. wire # << >> => EarlyUsage' = EarlyUsage
        BY <1>1, <2>1, <2>2, TruthfulEvents
      <4>2. Ending = "completed" => wire # << >>
        BY DEF Ending, None
      <4> QED
        BY <2>1, <3>1, <4>1, <4>2 DEF Closing, ItemsClosed, Ending, OnWire, EarlyUsage
    <3>2. CASE /\ wire' = wire \o Numbered(events, seq)
               /\ conn = "up" /\ writer # "completed" /\ events # << >>
      BY <1>1, <2>1, <2>2, <3>2, DoneCloses
    <3> QED
      BY <2>4, <3>1, <3>2
  <2>7. ASSUME pc' = "consume", conn' = "up", writer' # "completed"
        PROVE  AddedOpen' /\ CallsAhead'
    <3>1. /\ conn = "up" /\ writer # "completed" /\ DirectStep(events, "consume")
          /\ wire' = wire \o Numbered(events, seq) \/ (events = << >> /\ wire' = wire)
      BY <2>1, <2>2, <2>4, <2>5, <2>7
    <3> QED
      BY <1>1, <2>1, <3>1, ConsumeKeepsOpen
  <2> QED
    BY <2>6, <2>7 DEF Closing
<1>2. CASE HandlerStep /\ ~Working
  <2>1. CASE Cleanup
    <3>1. UNCHANGED <<wire, req, turn, prod>> /\ pc' # "consume"
      BY <2>1 DEF Cleanup
    <3> QED
      BY <3>1 DEF Closing, ItemsClosed, Ending, OnWire
  <2>2. CASE Report
    <3>1. /\ pc' = "ended" /\ UNCHANGED <<req, turn, prod>>
          /\ wire' = wire \/ wire' = wire \o Numbered(<<ResponseEvent("failed")>>, 0)
      BY <2>2 DEF Report, Write, writerVars
    <3>2. ItemsClosed'
      <4>1. CASE wire' = wire
        BY <3>1, <4>1 DEF Closing, ItemsClosed, Ending, OnWire
      <4>2. CASE wire' = wire \o Numbered(<<ResponseEvent("failed")>>, 0)
        <5> DEFINE events == <<ResponseEvent("failed")>>
        <5>1. events \in Seq(Events) /\ Len(events) = 1 /\ events[1].type = "failed"
          BY TerminalTyped DEF TerminalTypes
        <5>2. wire' = wire \o Numbered(events, 0) /\ 0 \in Nat
          BY <4>2
        <5> HIDE DEF events
        <5>3. Len(events) > 0 => Ending' = events[Len(events)].type
          BY <5>1, <5>2, WireKept
        <5> QED
          BY <5>1, <5>3 DEF ItemsClosed
      <4> QED
        BY <3>1, <4>1, <4>2
    <3> QED
      BY <3>1, <3>2 DEF Closing
  <2> QED
    BY <1>2, <2>1, <2>2, FinishingSteps
<1>3. CASE \E c \in Calls : ToolStep(c)
  <2>1. pc = "tools" /\ req' = req
    BY <1>3, ToolSteps
  <2>2. req.agentic
    BY <2>1 DEF Typed, TurnTyped
  <2> QED
    BY <2>1, <2>2 DEF Closing, ItemsClosed
<1>4. CASE \E t \in Turns : BackendStep(t) \/ StreamStep(t)
  <2>1. UNCHANGED <<wire, writer, pc, req, st, msg, turn>> /\ conn' = conn
    BY <1>4, QuietSteps DEF BackendStep, StreamStep, Unchanged, engineVars
  <2>2. 1 \in Turns
    BY ProviderAssumption DEF Turns
  <2>3. ItemsClosed'
    <3>1. ~req.agentic => turn = 1
      BY DEF Typed, TurnTyped
    <3>2. prod[1].usage = "early" => prod'[1].usage = "early"
      BY <1>0, <1>4, <2>2, FinishKept DEF EarlyUsage
    <3> QED
      BY <2>1, <3>1, <3>2 DEF Closing, ItemsClosed, Ending, OnWire
  <2>4. ASSUME ~req.agentic, pc = "consume", conn = "up", writer # "completed"
        PROVE  AddedOpen' /\ CallsAhead'
    <3>1. (EarlyUsage \/ FinishAhead) /\ AddedOpen /\ CallsAhead
      BY <2>4 DEF Truthful, Closing
    <3>2. /\ \A c \in Calls : WillClose(c) => WillClose(c)'
          /\ CallsAhead => CallsAhead'
      BY <1>0, <1>4, <2>2, <3>1, CloseKept
    <3>3. \A c : OnWire("done", CallItem(1, c)) => OnWire("done", CallItem(1, c))'
      BY <2>1 DEF OnWire
    <3>4. AddedOpen'
      BY <2>1, <3>1, <3>2, <3>3 DEF AddedOpen
    <3> QED
      BY <3>1, <3>2, <3>4
  <2> QED
    BY <2>1, <2>3, <2>4 DEF Closing
<1>5. CASE Delete \/ ClientGone \/ ServerNotices \/ UNCHANGED vars
  <2>1. UNCHANGED <<wire, writer, pc, req, st, msg>> /\ (conn' = conn \/ conn' = "gone")
    BY <1>5, QuietSteps
  <2>0. turn' = turn
    BY <1>5 DEF Delete, ClientGone, ServerNotices, vars, engineVars
  <2>2. prod' = prod
    BY <1>5 DEF Delete, ClientGone, ServerNotices, vars
  <2>3. ItemsClosed' = ItemsClosed
    BY <2>0, <2>1, <2>2 DEF ItemsClosed, Ending, OnWire
  <2>4. CallsAhead' = CallsAhead
    BY <2>2 DEF CallsAhead, Pending, Buffered, EndsCall, EarlyUsage
  <2>5. AddedOpen' = AddedOpen
    BY <2>1, <2>2 DEF AddedOpen, OnWire, WillClose, CloseAhead, Pending, Buffered,
                         EndsCall, EarlyUsage
  <2> QED
    BY <2>1, <2>3, <2>4, <2>5 DEF Closing
<1>6. CASE HandlerStep /\ req.agentic
  <2>1. req' = req
    BY <1>6, TurnSteps
  <2> QED
    BY <1>6, <2>1 DEF Closing, ItemsClosed
<1> QED
  BY <1>1, <1>2, <1>3, <1>4, <1>5, <1>6 DEF Next

(***************************************************************************)
(* A response of the direct path that is reported as completed leaves no   *)
(* message open, and no tool call unless a usage-only chunk ended it early *)
(* (emitStreamComplete, FlushToolCalls).                                   *)
(***************************************************************************)
THEOREM AlwaysClosed == Spec => []ItemsClosed
<1>1. Init => Closing
  <2>1. SUFFICES ASSUME Init PROVE Closing
    OBVIOUS
  <2>2. wire = << >> /\ pc = "start" /\ Len(wire) = 0
    BY <2>1 DEF Init, WriterInit
  <2> QED
    BY <2>2 DEF Closing, ItemsClosed
<1>2. Typed /\ ToolsAwaited /\ Truthful /\ Closing /\ [Next]_vars => Closing'
  BY ClosingStep
<1>3. Closing => ItemsClosed
  BY DEF Closing
<1> QED
  BY <1>1, <1>2, <1>3, TypedInductive, ToolsAwaitedInvariant, TruthfulInvariant, PTL
     DEF Spec

-----------------------------------------------------------------------------
(***************************************************************************)
(* Tool calls and results of the agentic loop.  A call that was finished   *)
(* on the stream is one of an earlier turn, and has its result there, or   *)
(* it is still in the list of the turn.                                    *)
(***************************************************************************)
TurnBegins == {"start", "turn", "connect"}

Accounted(t, c) ==
    \/ t < turn /\ OnWire("done", ResultItem(t, c))
    \/ t = turn /\ c \in CallSet /\ pc \notin TurnBegins

Answering ==
    /\ ToolCallsAnswered
    /\ req.agentic /\ conn = "up" /\ writer # "completed" =>
         \A t \in Turns, c \in Calls : OnWire("done", CallItem(t, c)) => Accounted(t, c)

EndsNoCall(events) ==
    \A k \in 1..Len(events) : events[k].type = "done" => events[k].item[1] # "call"

(***************************************************************************)
(* The steps of the handler in the agentic loop: it goes on or ends        *)
(* otherwise than by itself, it ends by itself between two turns or        *)
(* without calls, it passes an event of the provider on, or it emits the   *)
(* results of a turn.                                                      *)
(***************************************************************************)
LoopStep(events, next) ==
    /\ events \in Seq(Events)
    /\ Emit(events, next)
    /\ \/ /\ EndsNoCall(events) /\ turn' = turn
          /\ \A k \in 1..Len(events) : events[k].type \notin {"completed", "incomplete"}
          /\ pc \in TurnBegins \/ (next \notin TurnBegins /\ calls' = calls)
       \/ /\ EndsNoCall(events) /\ turn' = turn /\ next = "return"
          /\ pc = "turn" \/ calls = << >>
       \/ RecvDelta /\ next = "consume" /\ Delta(events) /\ turn' = turn
       \/ pc = "tools" /\ next = "turn" /\ events = ResultEvents /\ turn' = turn + 1

LEMMA LoopSteps ==
    ASSUME Typed, req.agentic, Working, HandlerStep
    PROVE  /\ conn' = conn /\ req' = req
           /\ \E events, next : LoopStep(events, next)
<1>1. /\ seq \in Nat /\ turn \in Nat /\ st \in StreamStates
      /\ calls \in Seq(Calls) /\ req \in Requests
  <2>1. turn \in 1..(MaxTurns + 1) /\ MaxTurns \in Nat
    BY ProviderAssumption DEF Typed, TurnTyped
  <2> QED
    BY <2>1 DEF Typed
<1>2. ~Cleanup /\ ~Report
  BY DEF Working, Cleanup, Report
<1>3. conn' = conn /\ req' = req
  BY <1>2 DEF HandlerStep, Start, TurnStart, Connect, ConnectFails, RecvCancelled,
              RecvError, RecvDelta, RecvDone, RecvClosed, Decide, ToolsReturned
<1> SUFFICES \E events, next : LoopStep(events, next)
  BY <1>3
<1>4. CASE /\ turn' = turn
           /\ pc \in TurnBegins \/ calls' = calls
           /\ \E type \in TerminalTypes :
                 /\ Terminate(type)
                 /\ type \in {"completed", "incomplete"} => pc = "turn" \/ calls = << >>
  <2>1. PICK type \in TerminalTypes :
                 /\ Terminate(type)
                 /\ type \in {"completed", "incomplete"} => pc = "turn" \/ calls = << >>
    BY <1>4
  <2> DEFINE events == <<ResponseEvent(type)>>
  <2>2. Emit(events, "return")
    BY <2>1 DEF Terminate
  <2>3. events \in Seq(Events) /\ Len(events) = 1 /\ events[1].type = type
    BY TerminalTyped
  <2> HIDE DEF events
  <2>4. EndsNoCall(events) /\ turn' = turn /\ (pc \in TurnBegins \/ calls' = calls)
    <3>1. EndsNoCall(events)
      BY <2>3 DEF EndsNoCall, TerminalTypes
    <3> QED
      BY <1>4, <3>1
  <2>5. "return" \notin TurnBegins
    BY DEF TurnBegins
  <2>6. CASE type \in {"completed", "incomplete"}
    <3>1. pc = "turn" \/ calls = << >>
      BY <2>1, <2>6
    <3>2. LoopStep(events, "return")
      BY <2>2, <2>3, <2>4, <3>1, Zenon DEF LoopStep
    <3> QED
      BY <3>2
  <2>7. CASE type \notin {"completed", "incomplete"}
    <3>1. \A k \in 1..Len(events) : events[k].type \notin {"completed", "incomplete"}
      BY <2>3, <2>7
    <3>2. LoopStep(events, "return")
      BY <2>2, <2>3, <2>4, <2>5, <3>1, Zenon DEF LoopStep
    <3> QED
      BY <3>2
  <2> QED
    BY <2>6, <2>7
<1>5. CASE /\ turn' = turn
           /\ \E label : /\ Goto(label)
                         /\ pc \in TurnBegins \/ (label \notin TurnBegins /\ calls' = calls)
  <2>1. PICK label : /\ Goto(label)
                     /\ pc \in TurnBegins \/ (label \notin TurnBegins /\ calls' = calls)
    BY <1>5
  <2> DEFINE none == << >>
  <2>2. Emit(none, label) /\ none \in Seq(Events) /\ Len(none) = 0
    BY <1>1, <2>1, GotoEmits
  <2> HIDE DEF none
  <2>3. LoopStep(none, label)
    BY <1>5, <2>1, <2>2 DEF LoopStep, EndsNoCall
  <2> QED
    BY <2>3
<1>6. CASE Start
  <2>1. Emit(Opening, "turn") /\ turn' = turn /\ pc \in TurnBegins
    BY <1>6 DEF Start, TurnBegins
  <2>2. /\ EndsNoCall(Opening)
        /\ \A k \in 1..Len(Opening) : Opening[k].type \notin {"completed", "incomplete"}
    BY OpeningEmits DEF EndsNoCall
  <2>3. LoopStep(Opening, "turn")
    BY <2>1, <2>2, OpeningEmits DEF LoopStep
  <2> QED
    BY <2>3
<1>7. CASE TurnStart
  <2>1. pc = "turn" /\ turn' = turn
    BY <1>7 DEF TurnStart
  <2>2. CASE \E type \in TerminalTypes : Terminate(type)
    BY <1>4, <2>1, <2>2 DEF TurnBegins
  <2>3. Goto("connect") \/ \E type \in TerminalTypes : Terminate(type)
    BY <1>7 DEF TurnStart, TerminalTypes
  <2> QED
    BY <1>5, <2>1, <2>2, <2>3 DEF TurnBegins
<1>8. CASE Connect
  BY <1>5, <1>8 DEF Connect, TurnBegins
<1>9. CASE ConnectFails
  <2>1. turn' = turn /\ pc \in TurnBegins
    BY <1>9 DEF ConnectFails, TurnBegins
  <2>2. Terminate("cancelled") \/ Terminate("failed")
    BY <1>9 DEF ConnectFails
  <2> QED
    BY <1>4, <2>1, <2>2 DEF TerminalTypes
<1>10. CASE RecvCancelled \/ RecvError
  BY <1>5, <1>10 DEF RecvCancelled, RecvError, TurnBegins
<1>11. CASE RecvDelta
  <2>1. PICK events \in Seq(ItemEvents) : Emit(events, "consume") /\ Delta(events)
    BY <1>11, DeltaEvents
  <2>2. events \in Seq(Events) /\ turn' = turn
    BY <1>11, ItemEventsEmit DEF RecvDelta
  <2>3. LoopStep(events, "consume")
    BY <1>11, <2>1, <2>2 DEF LoopStep
  <2> QED
    BY <2>3
<1>12. CASE RecvDone
  <2>1. Emit(TextClosing, "decide") /\ turn' = turn /\ calls' = calls
    BY <1>12 DEF RecvDone
  <2>2. /\ TextClosing \in Seq(ItemEvents)
        /\ \A k \in 1..Len(TextClosing) : TextClosing[k].item = TextItem(turn)
    BY <1>1, TextClosingTyped DEF TextEvent
  <2>3. /\ TextClosing \in Seq(Events)
        /\ \A k \in 1..Len(TextClosing) :
              TextClosing[k].type \notin {"completed", "incomplete"}
    BY <2>2, ItemEventsEmit
  <2>4. EndsNoCall(TextClosing)
    BY <2>2, ItemKindsDiffer DEF EndsNoCall
  <2>5. LoopStep(TextClosing, "decide")
    BY <2>1, <2>3, <2>4 DEF LoopStep, TurnBegins
  <2> QED
    BY <2>5
<1>13. CASE RecvClosed
  BY <1>5, <1>13 DEF RecvClosed, TurnBegins
<1>14. CASE Decide
  <2>1. turn' = turn /\ calls' = calls
    BY <1>14 DEF Decide
  <2>2. CASE calls = << >> /\ Terminate("completed")
    BY <1>4, <2>1, <2>2 DEF TerminalTypes
  <2>3. CASE Terminate("requires_action")
    BY <1>4, <2>1, <2>3 DEF TerminalTypes
  <2>4. CASE Goto("tools")
    BY <1>5, <2>1, <2>4 DEF TurnBegins
  <2> QED
    BY <1>14, <2>2, <2>3, <2>4 DEF Decide
<1>15. CASE ToolsReturned
  <2>1. Emit(ResultEvents, "turn") /\ pc = "tools" /\ turn' = turn + 1
    BY <1>15 DEF ToolsReturned
  <2>2. ResultEvents \in Seq(Events)
    BY <1>1, ResultEventsTyped
  <2>3. LoopStep(ResultEvents, "turn")
    BY <2>1, <2>2 DEF LoopStep
  <2> QED
    BY <2>3
<1> QED
  BY <1>2, <1>6, <1>7, <1>8, <1>9, <1>10, <1>11, <1>12, <1>13, <1>14, <1>15
     DEF HandlerStep

\* What is on the wire after events were written.
Wrote(events, from) ==
    wire' = wire \o Numbered(events, from) \/ (events = << >> /\ wire' = wire)

LEMMA WireAfter ==
    ASSUME Typed, NEW events \in Seq(Events), NEW from \in Nat, NEW type, NEW item,
           Wrote(events, from)
    PROVE  OnWire(type, item)' <=>
              \/ OnWire(type, item)
              \/ \E k \in 1..Len(events) : events[k].type = type /\ events[k].item = item
<1>1. CASE events = << >> /\ wire' = wire
  BY <1>1 DEF OnWire
<1>2. CASE wire' = wire \o Numbered(events, from)
  <2>1. /\ Len(wire') = Len(wire) + Len(events)
        /\ Len(wire) \in Nat /\ Len(events) \in Nat
        /\ \A k \in 1..Len(wire) : wire'[k] = wire[k]
        /\ \A k \in 1..Len(wire') :
              \/ k \in 1..Len(wire)
              \/ /\ k - Len(wire) \in 1..Len(events)
                 /\ wire'[k].type = events[k - Len(wire)].type
                 /\ wire'[k].item = events[k - Len(wire)].item
    BY <1>2, WireGrows
  <2>2. OnWire(type, item) => OnWire(type, item)'
    BY <1>2, WireKept
  <2>3. ASSUME NEW k \in 1..Len(events), events[k].type = type, events[k].item = item
        PROVE  OnWire(type, item)'
    <3>1. OnWire(events[k].type, events[k].item)'
      BY <1>2, WireKept
    <3> QED
      BY <2>3, <3>1 DEF OnWire
  <2>4. ASSUME OnWire(type, item)'
        PROVE  \/ OnWire(type, item)
               \/ \E k \in 1..Len(events) : events[k].type = type /\ events[k].item = item
    <3>1. PICK k \in 1..Len(wire') : wire'[k].type = type /\ wire'[k].item = item
      BY <2>4 DEF OnWire
    <3>2. CASE k \in 1..Len(wire)
      BY <2>1, <3>1, <3>2 DEF OnWire
    <3>3. CASE k \notin 1..Len(wire)
      <4>1. PICK j : j = k - Len(wire)
        OBVIOUS
      <4>2. /\ j \in 1..Len(events)
            /\ wire'[k].type = events[j].type /\ wire'[k].item = events[j].item
        BY <2>1, <3>3, <4>1
      <4> QED
        BY <3>1, <4>2
    <3> QED
      BY <3>2, <3>3
  <2> QED
    BY <2>2, <2>3, <2>4
<1> QED
  BY <1>1, <1>2 DEF Wrote

\* What the step leaves on the wire besides what was there.
LEMMA AnsweringLoop ==
    ASSUME Typed, req.agentic, Answering, req' = req, conn = "up", writer # "completed",
           NEW events, NEW next, LoopStep(events, next), pc' = next, Wrote(events, seq)
    PROVE  /\ ToolCallsAnswered'
           /\ \A t \in Turns, c \in Calls :
                 OnWire("done", CallItem(t, c))' => Accounted(t, c)'
<1>0. /\ events \in Seq(Events) /\ seq \in Nat /\ turn \in Nat /\ Len(events) \in Nat
      /\ calls \in Seq(Calls) /\ req \in Requests /\ st \in StreamStates
      /\ \A t \in Turns : t \in Nat
  <2>1. turn \in 1..(MaxTurns + 1) /\ MaxTurns \in Nat
    BY ProviderAssumption DEF Typed, TurnTyped
  <2> QED
    BY <2>1 DEF Typed, LoopStep, Turns
<1>1. ASSUME NEW type, NEW item
      PROVE  OnWire(type, item)' <=>
               \/ OnWire(type, item)
               \/ \E k \in 1..Len(events) : events[k].type = type /\ events[k].item = item
  BY <1>0, WireAfter
<1>2. ASSUME events # << >> PROVE Ending' = events[Len(events)].type
  <2>1. Len(events) > 0 /\ wire' = wire \o Numbered(events, seq)
    BY <1>0, <1>2 DEF Wrote
  <2> QED
    BY <1>0, <2>1, WireKept
<1>3. \A t \in Turns, c \in Calls : OnWire("done", CallItem(t, c)) => Accounted(t, c)
  BY DEF Answering
<1>4. ASSUME \A k \in 1..Len(events) : events[k].type \notin {"completed", "incomplete"}
      PROVE  ToolCallsAnswered'
  <2>1. CASE events = << >>
    <3>1. wire' = wire \/ wire' = wire \o Numbered(events, seq)
      BY DEF Wrote
    <3>2. \A type, item : OnWire(type, item)' <=> OnWire(type, item)
      BY <1>1, <2>1
    <3>3. Ending' = Ending
      <4>1. CASE wire' = wire
        BY <4>1 DEF Ending
      <4>2. CASE wire' = wire \o Numbered(events, seq)
        <5>1. /\ Len(wire') = Len(wire) + Len(events) /\ Len(wire) \in Nat
              /\ \A k \in 1..Len(wire) : wire'[k] = wire[k]
          BY <1>0, <4>2, WireGrows
        <5>2. Len(wire') = Len(wire)
          BY <2>1, <5>1
        <5>3. CASE wire = << >>
          <6>1. Len(wire') = 0
            BY <5>2, <5>3
          <6>2. wire \in Seq(WireEvents) /\ Numbered(events, seq) \in Seq(WireEvents)
            BY <1>0, NumberedEvents DEF Typed, WriterTyped
          <6>3. wire' \in Seq(WireEvents)
            BY <4>2, <6>2
          <6> QED
            BY <5>3, <6>1, <6>3 DEF Ending
        <5>4. CASE wire # << >>
          <6>1. wire \in Seq(WireEvents)
            BY DEF Typed, WriterTyped
          <6>2. Len(wire) \in 1..Len(wire) /\ Len(wire) # 0
            BY <5>4, <6>1
          <6>3. wire' # << >> /\ wire'[Len(wire')] = wire[Len(wire)]
            BY <5>1, <5>2, <6>2
          <6> QED
            BY <5>4, <6>3 DEF Ending, Last
        <5> QED
          BY <5>3, <5>4
      <4> QED
        BY <3>1, <4>1, <4>2
    <3> QED
      BY <3>2, <3>3 DEF Answering, ToolCallsAnswered
  <2>2. CASE events # << >>
    <3>1. Len(events) \in 1..Len(events)
      BY <1>0, <2>2
    <3> QED
      BY <1>2, <1>4, <2>2, <3>1 DEF ToolCallsAnswered
  <2> QED
    BY <2>1, <2>2
<1>5. ASSUME EndsNoCall(events), NEW t, NEW c, OnWire("done", CallItem(t, c))'
      PROVE  OnWire("done", CallItem(t, c))
  <2>1. CallItem(t, c)[1] = "call"
    BY ItemKindsDiffer
  <2> QED
    BY <1>1, <1>5, <2>1 DEF EndsNoCall
\* The loop goes on, or ends otherwise than by itself.
<1>6. CASE /\ EndsNoCall(events) /\ turn' = turn
           /\ \A k \in 1..Len(events) : events[k].type \notin {"completed", "incomplete"}
           /\ pc \in TurnBegins \/ (next \notin TurnBegins /\ calls' = calls)
  <2>1. ASSUME NEW t \in Turns, NEW c \in Calls, OnWire("done", CallItem(t, c))'
        PROVE  Accounted(t, c)'
    <3>1. Accounted(t, c)
      BY <1>3, <1>5, <1>6, <2>1
    <3>2. OnWire("done", ResultItem(t, c)) => OnWire("done", ResultItem(t, c))'
      BY <1>1
    <3>3. CallSet' = CallSet \/ pc \in TurnBegins
      BY <1>6 DEF CallSet
    <3> QED
      BY <1>6, <3>1, <3>2, <3>3 DEF Accounted
  <2> QED
    BY <1>4, <1>6, <2>1
\* The loop ends by itself.
<1>7. CASE /\ EndsNoCall(events) /\ turn' = turn /\ next = "return"
           /\ pc = "turn" \/ calls = << >>
  <2>1. ASSUME NEW t \in Turns, NEW c \in Calls, OnWire("done", CallItem(t, c))'
        PROVE  t < turn /\ OnWire("done", ResultItem(t, c))'
    <3>1. Accounted(t, c)
      BY <1>3, <1>5, <1>7, <2>1
    <3>2. c \notin CallSet \/ pc \in TurnBegins
      BY <1>7 DEF CallSet, TurnBegins
    <3>3. OnWire("done", ResultItem(t, c)) => OnWire("done", ResultItem(t, c))'
      BY <1>1
    <3> QED
      BY <3>1, <3>2, <3>3 DEF Accounted
  <2> QED
    BY <1>7, <2>1 DEF Accounted, ToolCallsAnswered
\* An event of the provider.
<1>8. CASE RecvDelta /\ next = "consume" /\ Delta(events) /\ turn' = turn
  <2>1. events \in Seq(ItemEvents)
    BY <1>8 DEF Delta
  <2>2. \A k \in 1..Len(events) : events[k].type \notin {"completed", "incomplete"}
    BY <2>1, ItemEventsEmit
  <2>3. /\ pc \notin TurnBegins /\ pc' \notin TurnBegins
        /\ calls' = IF Received.kind = "calldone" /\ st.callIndex[Received.arg] # 0
                    THEN Append(calls, Received.arg) ELSE calls
    BY <1>8 DEF RecvDelta, Receivable, TurnBegins
  <2>4. ASSUME Received.kind = "calldone", st.callIndex[Received.arg] # 0,
               Received.arg \in Calls
        PROVE  CallSet \subseteq CallSet' /\ Received.arg \in CallSet'
    <3>1. calls' = Append(calls, Received.arg)
      BY <2>3, <2>4
    <3>2. /\ Len(calls') = Len(calls) + 1 /\ Len(calls) \in Nat
          /\ calls'[Len(calls) + 1] = Received.arg
          /\ \A k \in 1..Len(calls) : calls'[k] = calls[k]
      BY <1>0, <2>4, <3>1
    <3>3. ASSUME NEW d \in CallSet PROVE \E k \in 1..Len(calls') : d = calls'[k]
      <4>1. PICK k \in 1..Len(calls) : d = calls[k]
        BY DEF CallSet
      <4>2. k \in 1..Len(calls') /\ calls'[k] = calls[k]
        BY <3>2
      <4> QED
        BY <4>1, <4>2
    <3>4. Len(calls) + 1 \in 1..Len(calls')
      BY <3>2
    <3> QED
      BY <3>2, <3>3, <3>4 DEF CallSet
  <2>5. ASSUME NEW t \in Turns, NEW c \in Calls, OnWire("done", CallItem(t, c))'
        PROVE  Accounted(t, c)'
    <3>1. CASE OnWire("done", CallItem(t, c))
      <4>1. Accounted(t, c)
        BY <1>3, <3>1
      <4>2. OnWire("done", ResultItem(t, c)) => OnWire("done", ResultItem(t, c))'
        BY <1>1
      <4>3. CallSet \subseteq CallSet' \/ ~(Received.arg \in Calls)
        <5>1. CASE Received.kind = "calldone" /\ st.callIndex[Received.arg] # 0
          BY <2>4, <5>1
        <5>2. CASE ~(Received.kind = "calldone" /\ st.callIndex[Received.arg] # 0)
          BY <2>3, <5>2 DEF CallSet
        <5> QED
          BY <5>1, <5>2
      <4>4. CallSet \subseteq CallSet'
        <5>1. Received.kind = "calldone" => Received.arg \in Calls
          <6>1. Received \in ProviderEvents
            <7>1. turn \in Turns /\ StreamsTyped /\ Receivable /\ Receive
              BY <1>8 DEF Typed, TurnTyped, RecvDelta, Receivable
            <7> QED
              BY <1>0, <7>1, ReceiveTyped
          <6> QED
            BY <6>1 DEF ProviderEvents
        <5>2. CASE Received.kind = "calldone"
          BY <4>3, <5>1, <5>2
        <5>3. CASE Received.kind # "calldone"
          BY <2>3, <5>3 DEF CallSet
        <5> QED
          BY <5>2, <5>3
      <4> QED
        BY <1>8, <2>3, <4>1, <4>2, <4>4 DEF Accounted
    <3>2. CASE ~OnWire("done", CallItem(t, c))
      <4>1. PICK k \in 1..Len(events) :
               events[k].type = "done" /\ events[k].item = CallItem(t, c)
        BY <1>1, <2>5, <3>2
      <4>2. events[k].item # ReasoningItem
        BY <4>1, ItemKindsDiffer
      <4>3. /\ Received.kind = "calldone" /\ Received.arg \in Calls
            /\ st.callIndex[Received.arg] # 0
            /\ events[k].item = CallItem(turn, Received.arg)
        BY <1>8, <4>1, <4>2 DEF Delta
      <4>4. t = turn /\ c = Received.arg
        <5>1. CallItem(t, c) = CallItem(turn, Received.arg)
          BY <4>1, <4>3
        <5>2. CallItem(t, c)[2] = t /\ CallItem(t, c)[3] = c
          BY ItemKindsDiffer
        <5>3. /\ CallItem(turn, Received.arg)[2] = turn
              /\ CallItem(turn, Received.arg)[3] = Received.arg
          BY ItemKindsDiffer
        <5> QED
          BY <5>1, <5>2, <5>3
      <4> QED
        <5>1. c \in CallSet'
          BY <2>4, <4>3, <4>4
        <5>2. t = turn'
          BY <1>8, <4>4
        <5> QED
          BY <2>3, <5>1, <5>2 DEF Accounted
    <3> QED
      BY <3>1, <3>2
  <2> QED
    BY <1>4, <2>2, <2>5
\* The results of a turn.
<1>9. CASE pc = "tools" /\ next = "turn" /\ events = ResultEvents /\ turn' = turn + 1
  <2>1. /\ \A k \in 1..Len(events) :
              /\ events[k].type \in {"added", "done"}
              /\ \E c \in CallSet : events[k].item = ResultItem(turn, c)
        /\ \A c \in CallSet :
              \E k \in 1..Len(events) :
                 events[k].type = "done" /\ events[k].item = ResultItem(turn, c)
    BY <1>0, <1>9, ResultEventsTyped
  <2>2. EndsNoCall(events)
    BY <2>1, ItemKindsDiffer DEF EndsNoCall
  <2>3. \A k \in 1..Len(events) : events[k].type \notin {"completed", "incomplete"}
    BY <2>1
  <2>4. ASSUME NEW t \in Turns, NEW c \in Calls, OnWire("done", CallItem(t, c))'
        PROVE  Accounted(t, c)'
    <3>1. Accounted(t, c)
      BY <1>3, <1>5, <2>2, <2>4
    <3>2. OnWire("done", ResultItem(t, c))'
      <4>1. CASE OnWire("done", ResultItem(t, c))
        BY <1>1, <4>1
      <4>2. CASE t = turn /\ c \in CallSet
        BY <1>1, <2>1, <4>2
      <4> QED
        BY <3>1, <4>1, <4>2 DEF Accounted
    <3>3. t < turn'
      <4>1. t < turn \/ t = turn
        BY <3>1 DEF Accounted
      <4> QED
        BY <1>0, <1>9, <4>1
    <3> QED
      BY <3>2, <3>3 DEF Accounted
  <2> QED
    BY <1>4, <2>3, <2>4
<1> QED
  BY <1>6, <1>7, <1>8, <1>9 DEF LoopStep

LEMMA AnsweringStep ==
    ASSUME Typed, ToolsAwaited, Answering, [Next]_vars
    PROVE  Answering'
<1>0. seq \in Nat /\ Len(wire) \in Nat
  BY DEF Typed, WriterTyped
<1>1. CASE HandlerStep /\ Working /\ req.agentic
  <2>1. conn' = conn /\ req' = req
    BY <1>1, LoopSteps
  <2>2. PICK events, next : LoopStep(events, next)
    BY <1>1, LoopSteps
  <2>3. events \in Seq(Events) /\ Emit(events, next)
    BY <2>2 DEF LoopStep
  <2>4. CASE conn = "up" /\ writer # "completed"
    <3>1. pc' = next
      BY <2>3, <2>4, EmitOutcome
    <3>2. Wrote(events, seq)
      <4>1. \/ events = << >> /\ wire' = wire
            \/ wire' = wire \o Numbered(events, seq)
        BY <2>3, <2>4, EmitOutcome DEF writerVars
      <4> QED
        BY <4>1 DEF Wrote
    <3> QED
      BY <1>1, <2>1, <2>2, <2>4, <3>1, <3>2, AnsweringLoop DEF Answering
  <2>5. CASE ~(conn = "up" /\ writer # "completed")
    <3>1. wire' = wire /\ ~(conn' = "up" /\ writer' # "completed")
      BY <2>1, <2>3, <2>5, EmitOutcome DEF writerVars
    <3> QED
      BY <2>1, <3>1 DEF Answering, ToolCallsAnswered, Ending, OnWire
  <2> QED
    BY <2>4, <2>5
<1>2. CASE HandlerStep /\ ~Working
  <2>1. CASE Cleanup
    <3>1. /\ UNCHANGED <<wire, writer, conn, turn, calls, req>>
          /\ pc' \notin TurnBegins
      BY <2>1 DEF Cleanup, TurnBegins
    <3> QED
      BY <3>1 DEF Answering, Accounted, ToolCallsAnswered, Ending, OnWire, CallSet
  <2>2. CASE Report
    <3> DEFINE events == <<ResponseEvent("failed")>>
    <3>1. /\ pc' = "ended" /\ UNCHANGED <<conn, turn, calls, req>>
          /\ \/ UNCHANGED writerVars
             \/ wire' = wire \o Numbered(events, 0)
             \/ wire' = wire /\ conn # "up"
      BY <2>2 DEF Report, Write, engineVars
    <3>2. events \in Seq(Events) /\ Len(events) = 1 /\ events[1].type = "failed"
      BY TerminalTyped DEF TerminalTypes
    <3> HIDE DEF events
    <3>3. pc' \notin TurnBegins
      BY <3>1 DEF TurnBegins
    <3>4. CASE wire' = wire
      <4>1. conn' = "up" /\ writer' # "completed" => conn = "up" /\ writer # "completed"
        <5>1. conn' = "up" => conn = "up"
          BY <3>1
        <5>2. writer = "completed" => writer' = "completed"
          BY <2>2, ReportOutcome
        <5> QED
          BY <5>1, <5>2
      <4> QED
        BY <3>1, <3>3, <3>4, <4>1
           DEF Answering, Accounted, ToolCallsAnswered, Ending, OnWire, CallSet
    <3>5. CASE wire' = wire \o Numbered(events, 0)
      <4>1. Wrote(events, 0) /\ 0 \in Nat
        BY <3>5 DEF Wrote
      <4>2. ASSUME NEW type, NEW item
            PROVE  OnWire(type, item)' <=>
                     OnWire(type, item) \/ (type = "failed" /\ events[1].item = item)
        <5>1. OnWire(type, item)' <=>
                 \/ OnWire(type, item)
                 \/ \E k \in 1..Len(events) :
                       events[k].type = type /\ events[k].item = item
          BY <3>2, <4>1, WireAfter
        <5> QED
          BY <3>2, <5>1
      <4>3. Ending' = "failed"
        <5>1. Len(events) > 0 => Ending' = events[Len(events)].type
          BY <3>2, <3>5, <4>1, WireKept
        <5> QED
          BY <3>2, <5>1
      <4>4. \A item : OnWire("done", item)' <=> OnWire("done", item)
        BY <4>2
      <4>5. writer = "completed" => writer' = "completed"
        BY <2>2, ReportOutcome
      <4>6. ASSUME NEW t, NEW c, Accounted(t, c) PROVE Accounted(t, c)'
        BY <3>1, <3>3, <4>4, <4>6 DEF Accounted, CallSet
      <4> QED
        BY <3>1, <4>3, <4>4, <4>5, <4>6 DEF Answering, ToolCallsAnswered
    <3> QED
      BY <3>1, <3>4, <3>5 DEF writerVars
  <2> QED
    BY <1>2, <2>1, <2>2, FinishingSteps
<1>3. CASE \E c \in Calls : ToolStep(c)
  <2>1. PICK c \in Calls : ToolStep(c)
    BY <1>3
  <2>2. UNCHANGED <<pc, turn, calls, conn, req>>
    BY <2>1, ToolSteps
  <2>3. CASE UNCHANGED <<writer, wire>>
    BY <2>2, <2>3 DEF Answering, Accounted, ToolCallsAnswered, Ending, OnWire, CallSet
  <2>4. CASE ~UNCHANGED <<writer, wire>>
    <3>0. /\ writer # "completed"
          /\ \E events \in Seq(Events) :
                /\ Len(events) = 1 /\ events[1].type = "tool"
                /\ wire' = IF conn = "up" THEN wire \o Numbered(events, tools[c].n)
                           ELSE wire
      BY <2>1, <2>4, ToolSteps
    <3>1. PICK events \in Seq(Events) :
             /\ Len(events) = 1 /\ events[1].type = "tool"
             /\ wire' = IF conn = "up" THEN wire \o Numbered(events, tools[c].n)
                        ELSE wire
      BY <3>0
    <3>2. tools[c].n \in Nat
      BY ToolFields DEF Typed
    <3>3. CASE conn = "up"
      <4>1. wire' = wire \o Numbered(events, tools[c].n)
        BY <3>1, <3>3
      <4>2. Wrote(events, tools[c].n)
        BY <4>1 DEF Wrote
      <4>3. ASSUME NEW item PROVE OnWire("done", item)' <=> OnWire("done", item)
        <5>1. OnWire("done", item)' <=>
                 \/ OnWire("done", item)
                 \/ \E k \in 1..Len(events) :
                       events[k].type = "done" /\ events[k].item = item
          BY <3>2, <4>2, WireAfter
        <5> QED
          BY <3>1, <5>1
      <4>4. Ending' = "tool"
        <5>1. Len(events) > 0 => Ending' = events[Len(events)].type
          BY <3>2, <4>1, WireKept
        <5> QED
          BY <3>1, <5>1
      <4>5. ASSUME NEW t, NEW d, Accounted(t, d) PROVE Accounted(t, d)'
        BY <2>2, <4>3, <4>5 DEF Accounted, CallSet
      <4> QED
        BY <2>2, <3>0, <4>3, <4>4, <4>5 DEF Answering, ToolCallsAnswered
    <3>4. CASE conn # "up"
      <4>1. wire' = wire
        BY <3>1, <3>4
      <4> QED
        BY <2>2, <3>4, <4>1 DEF Answering, ToolCallsAnswered, Ending, OnWire
    <3> QED
      BY <3>3, <3>4
  <2> QED
    BY <2>3, <2>4
<1>4. CASE \/ \E t \in Turns : BackendStep(t) \/ StreamStep(t)
           \/ Delete \/ ClientGone \/ ServerNotices \/ UNCHANGED vars
  <2>1. /\ UNCHANGED <<wire, writer, pc, turn, calls, req>>
        /\ conn' = conn \/ conn' = "gone"
    BY <1>4, QuietSteps
  <2> QED
    BY <2>1 DEF Answering, Accounted, ToolCallsAnswered, Ending, OnWire, CallSet
<1>5. CASE HandlerStep /\ ~req.agentic
  <2>1. req' = req
    BY <1>5, TurnSteps
  <2> QED
    BY <1>5, <2>1 DEF Answering, ToolCallsAnswered
<1> QED
  BY <1>1, <1>2, <1>3, <1>4, <1>5 DEF Next

(***************************************************************************)
(* A stream of the agentic loop that ends by itself has a result for every *)
(* call it has finished (runAgenticLoopStreaming, executeToolsWithEvents). *)
(***************************************************************************)
THEOREM AlwaysAnsweringTools == Spec => []ToolCallsAnswered
<1>1. Init => Answering
  <2>1. SUFFICES ASSUME Init PROVE Answering
    OBVIOUS
  <2>2. wire = << >> /\ Len(wire) = 0
    BY <2>1 DEF Init, WriterInit
  <2>3. \A type, item : ~OnWire(type, item)
    BY <2>2 DEF OnWire
  <2> QED
    BY <2>3 DEF Answering, ToolCallsAnswered
<1>2. Typed /\ ToolsAwaited /\ Answering /\ [Next]_vars => Answering'
  BY AnsweringStep
<1>3. Answering => ToolCallsAnswered
  BY DEF Answering
<1> QED
  BY <1>1, <1>2, <1>3, TypedInductive, ToolsAwaitedInvariant, PTL DEF Spec

=============================================================================
