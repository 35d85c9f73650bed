------------------------- MODULE ToolServersProofs --------------------------
(***************************************************************************)
(* Proofs about ToolServers, for any number of calls, servers and tools,   *)
(* any capacity, life of a token and number of faults.                     *)
(***************************************************************************)
EXTENDS ToolServers, FiniteSetTheorems, TLAPS

USE ToolAssumption

-----------------------------------------------------------------------------
(***************************************************************************)
(* Who holds what.  A call that discovers holds the executor's lock and    *)
(* one that fetches a token its mutex; what is behind a lock is undone     *)
(* until the holder is through.                                            *)
(***************************************************************************)
Discovering(c) ==
    \/ At(c, "discover")
    \/ call[c].stage = "discover" /\ call[c].pc \in {"headers", "fetch", "send"}

LockHeld ==
    /\ \A c \in Calls : Discovering(c) => writer = c
    /\ discovered => writer = None
    /\ \A s \in Servers :
         IF writer = None THEN discovered \/ asked[s] = 0
         ELSE s \in pending => asked[s] = 0

MutexHeld ==
    /\ \A c \in Calls : At(c, "fetch") => renewing.by = c
    /\ renewing.by # None => clock - renewing.since <= FetchTime

\* The calls the shared sandbox server counts, and those it has not seen.
Counted == {c \in Calls : exec[c] \in {"running", "refused"}}

Unseen == {"idle", "ask", "lock", "discover", "headers", "fetch", "send",
           "route", "create", "wait", "execute"}

LoadExact ==
    /\ IsFiniteSet(Counted)
    /\ load = Cardinality(Counted)
    /\ \A c \in Calls : call[c].pc \in Unseen => exec[c] = "none"

\* A call that has begun has its tool, and an MCP request its server.
HasTarget ==
    \A c \in Calls :
        /\ call[c].pc # "idle" => call[c].tool \in Tools
        /\ call[c].pc \in {"headers", "fetch", "send"} =>
             call[c].server \in Servers

\* A claim that is bound belongs to a call that has still to release it.
ClaimOwned ==
    \A c \in Calls :
        /\ call[c].pc \in {"create", "wait"} => mode = "claim"
        /\ claim[c] = "bound" /\ c \notin excused =>
             mode = "claim" /\ call[c].pc \in {"wait", "execute", "release"}

-----------------------------------------------------------------------------
\* What every call but one keeps, and what that one may become.
LEMMA GotoType ==
    ASSUME call \in [Calls -> Call], NEW c \in Calls, NEW pc \in PCs
    PROVE  [call EXCEPT ![c].pc = pc] \in [Calls -> Call]
  BY DEF Call

\* A call that is sent somewhere keeps its type.
LEMMA TurnType ==
    ASSUME call \in [Calls -> Call], NEW c \in Calls, NEW pc \in PCs,
           NEW s \in Servers \cup {None}, NEW st \in {"discover", "call"}
    PROVE  [call EXCEPT ![c].server = s, ![c].stage = st, ![c].pc = pc]
             \in [Calls -> Call]
  <1>1. [call[c] EXCEPT !.server = s] \in Call
    BY DEF Call
  <1>2. [[call[c] EXCEPT !.server = s] EXCEPT !.stage = st] \in Call
    BY <1>1 DEF Call
  <1>3. [[[call[c] EXCEPT !.server = s] EXCEPT !.stage = st] EXCEPT !.pc = pc]
          \in Call
    BY <1>2 DEF Call
  <1> QED
    BY <1>3

\* One more call is counted.
LEMMA CountedEnter ==
    ASSUME NEW c \in Calls, IsFiniteSet(Counted), load = Cardinality(Counted),
           exec \in [Calls -> {"none", "running", "refused", "done"}],
           exec[c] = "none", load' = load + 1,
           NEW x \in {"running", "refused"}, exec' = [exec EXCEPT ![c] = x]
    PROVE  IsFiniteSet(Counted') /\ load' = Cardinality(Counted')
  <1>1. Counted' = Counted \cup {c} /\ c \notin Counted
    BY DEF Counted
  <1> QED
    BY <1>1, FS_AddElement

\* One counted call leaves.
LEMMA CountedLeave ==
    ASSUME NEW c \in Calls, IsFiniteSet(Counted), load = Cardinality(Counted),
           exec \in [Calls -> {"none", "running", "refused", "done"}],
           exec[c] \in {"running", "refused"}, load' = load - 1,
           exec' = [exec EXCEPT ![c] = "done"]
    PROVE  IsFiniteSet(Counted') /\ load' = Cardinality(Counted')
  <1>1. Counted' = Counted \ {c} /\ c \in Counted
    BY DEF Counted
  <1> QED
    BY <1>1, FS_RemoveElement

\* A finite set's size is natural, so the counter of the sandbox server is.
LEMMA LoadNatural ==
    LoadExact => load \in Nat
  BY FS_CardinalityType DEF LoadExact

(***************************************************************************)
(* currentLoad is the number of requests at the sandbox server, whatever   *)
(* their callers do.                                                       *)
(***************************************************************************)
Sound == TypeOK /\ LoadExact /\ HasTarget

\* Nothing is counted and nobody has begun.
LEMMA SoundInit == Init => Sound
  <1> SUFFICES ASSUME Init PROVE Sound
    OBVIOUS
  <1>a. NoCall \in Call
    BY DEF NoCall, Call, PCs
  <1>b. NoToken \in [expiry : Nat, renew : Nat, there : BOOLEAN]
        /\ NoToken.renew <= NoToken.expiry
    BY DEF NoToken
  <1>c. discovered \in BOOLEAN
    BY Zenon DEF Init
  <1>d. [by |-> None, since |-> 0] \in
          [by : Calls \cup {None}, since : 0..MaxClock]
    OBVIOUS
  <1>1. TypeOK
    BY <1>a, <1>b, <1>c, <1>d DEF Init, TypeOK
  <1>2. Counted = {}
    BY DEF Counted, Init
  <1>3. LoadExact
    BY <1>2, FS_EmptySet DEF LoadExact, Init
  <1>4. HasTarget
    BY DEF HasTarget, Init, NoCall
  <1> QED
    BY <1>1, <1>3, <1>4 DEF Sound

\* Every step keeps the types; the counter stays natural because it is exact.
LEMMA TypeStep == Sound /\ [Next]_vars => TypeOK'
  <1> SUFFICES ASSUME Sound, [Next]_vars PROVE TypeOK'
    OBVIOUS
  <1> USE DEF Sound, TypeOK, PCs
  <1> USE DEF executorVars, tokenVars, sandboxVars
  <1>t. ASSUME NEW c \in Calls, NEW pc \in PCs, Goto(c, pc)
        PROVE  call' \in [Calls -> Call]
    BY <1>t, GotoType DEF Goto
  <1> HIDE DEF PCs
  <1>p. \A pc \in {"idle", "ask", "lock", "discover", "headers", "fetch",
                   "send", "route", "create", "wait", "execute", "reply",
                   "release", "answered", "lost"} : pc \in PCs
    BY DEF PCs
  <1>1. ASSUME NEW c \in Calls, NEW t \in Tools, Start(c, t) PROVE TypeOK'
    BY <1>1, <1>p DEF Start, Call, NoCall
  <1>2. ASSUME NEW c \in Calls, Ask(c) PROVE TypeOK'
    BY <1>2, <1>t, <1>p DEF Ask
  <1>3. ASSUME NEW c \in Calls, Lock(c) PROVE TypeOK'
    BY <1>3, <1>t, <1>p DEF Lock
  <1>4. ASSUME NEW c \in Calls, Discovered(c) PROVE TypeOK'
    BY <1>4, <1>t, <1>p DEF Discovered
  <1>5. ASSUME NEW c \in Calls, Route(c) PROVE TypeOK'
    <2> DEFINE t == call[c].tool
               pc == IF route[t] # None THEN "headers"
                     ELSE IF t \notin Builtin THEN "answered"
                     ELSE IF mode = "claim" THEN "create" ELSE "execute"
    <2>1. pc \in PCs
      BY <1>p
    <2>2. CASE t \in Tools
      <3>1. route[t] \in Servers \cup {None}
        BY <2>2
      <3>2. call' = [call EXCEPT ![c].server = route[t], ![c].stage = "call",
                                 ![c].pc = pc]
        BY <1>5 DEF Route
      <3> HIDE DEF t, pc
      <3>3. call' \in [Calls -> Call]
        BY <2>1, <3>1, <3>2, TurnType
      <3> QED
        BY <1>5, <3>3 DEF Route
    <2> QED
      BY <2>2, <1>5 DEF Route, HasTarget, At
  <1>6. ASSUME NEW c \in Calls, NEW s \in Servers, AskServer(c, s) PROVE TypeOK'
    <2>1. call' \in [Calls -> Call]
      BY <1>6, <1>p, TurnType DEF AskServer
    <2> QED
      BY <1>6, <2>1 DEF AskServer
  <1>7. ASSUME NEW c \in Calls, GetHeaders(c) PROVE TypeOK'
    BY <1>7, <1>t, <1>p DEF GetHeaders
  <1>8. ASSUME NEW c \in Calls, FetchSucceeds(c) PROVE TypeOK'
    <2>1. RenewAfter(Lifetime) \in Nat /\ RenewAfter(Lifetime) <= Lifetime
      BY DEF RenewAfter
    <2> QED
      BY <1>8, <1>t, <1>p, <2>1 DEF FetchSucceeds
  <1>9. ASSUME NEW c \in Calls, FetchFails(c) PROVE TypeOK'
    BY <1>9, <1>t, <1>p DEF FetchFails, Unsent
  <1>10. ASSUME NEW c \in Calls, ListArrives(c) PROVE TypeOK'
    <2>1. call[c].server \in Servers
      BY <1>10 DEF ListArrives, HasTarget, At
    <2>2. call' \in [Calls -> Call]
      BY <1>10, <1>t, <1>p DEF ListArrives
    <2>3. route' \in [Tools -> Servers \cup {None}]
      BY <1>10 DEF ListArrives, Routes, HasTarget, At
    <2> QED
      BY <1>10, <2>1, <2>2, <2>3 DEF ListArrives
  <1>11. ASSUME NEW c \in Calls, ListFails(c) \/ CallReturns(c) PROVE TypeOK'
    BY <1>11, <1>t, <1>p DEF ListFails, CallReturns
  <1>12. ASSUME NEW c \in Calls, CreateClaim(c) PROVE TypeOK'
    BY <1>12, <1>t, <1>p DEF CreateClaim
  <1>13. ASSUME NEW c \in Calls, SandboxReady(c) \/ WaitEnds(c) PROVE TypeOK'
    BY <1>13, <1>t, <1>p DEF SandboxReady, WaitEnds
  <1>14. ASSUME NEW c \in Calls, Release(c) PROVE TypeOK'
    BY <1>14, <1>t, <1>p DEF Release
  <1>15. ASSUME NEW c \in Calls, ExecuteClaimed(c) \/ ExecuteReturns(c)
         PROVE  TypeOK'
    BY <1>15, <1>t, <1>p DEF ExecuteClaimed, ExecuteReturns
  <1>16. ASSUME NEW c \in Calls, Enter(c) PROVE TypeOK'
    BY <1>16, <1>t, <1>p DEF Enter, Admit
  <1>17. ASSUME NEW c \in Calls, Leave(c) PROVE TypeOK'
    <2>1. load - 1 \in Nat
      <3>1. c \in Counted
        BY <1>17 DEF Leave, Counted
      <3>2. load # 0
        BY <3>1, FS_EmptySet DEF LoadExact
      <3> QED
        BY <3>2
    <2> QED
      BY <1>17, <2>1 DEF Leave
  <1>18. CASE Tick
    BY <1>18 DEF Tick
  <1>19. CASE Crash
    <2>1. call' \in [Calls -> Call]
      <3>1. \A c \in Calls : [call[c] EXCEPT !.pc = "lost"] \in Call
        <4>1. "lost" \in PCs
          BY <1>p
        <4> QED
          BY <4>1 DEF Call
      <3> QED
        BY <1>19, <3>1 DEF Crash
    <2>2. NoToken \in [expiry : Nat, renew : Nat, there : BOOLEAN]
          /\ NoToken.renew <= NoToken.expiry
      BY DEF NoToken
    <2>3. discovered' \in BOOLEAN
      BY <1>19, Zenon DEF Crash
    <2> QED
      BY <1>19, <2>1, <2>2, <2>3 DEF Crash, InFlight
  <1>20. CASE UNCHANGED vars
    BY <1>20 DEF vars
  <1> QED
    BY <1>1, <1>2, <1>3, <1>4, <1>5, <1>6, <1>7, <1>8, <1>9, <1>10, <1>11,
       <1>12, <1>13, <1>14, <1>15, <1>16, <1>17, <1>18, <1>19, <1>20
    DEF Next, Step, Local, Reply

\* Every step keeps the tool of a call and the server of a request.
LEMMA TargetStep == Sound /\ [Next]_vars => HasTarget'
  <1> SUFFICES ASSUME Sound, [Next]_vars, NEW d \in Calls
               PROVE  /\ call'[d].pc # "idle" => call'[d].tool \in Tools
                      /\ call'[d].pc \in {"headers", "fetch", "send"} =>
                           call'[d].server \in Servers
    BY DEF HasTarget
  <1> USE DEF Sound, HasTarget, At, Goto
  <1>a. call \in [Calls -> Call]
    BY DEF TypeOK
  <1>b. call[d] \in Call
    BY <1>a
  <1>1. ASSUME NEW c \in Calls, NEW t \in Tools, Start(c, t)
        PROVE  /\ call'[d].pc # "idle" => call'[d].tool \in Tools
               /\ call'[d].pc \in {"headers", "fetch", "send"} =>
                    call'[d].server \in Servers
    BY <1>1, <1>a, <1>b DEF Start, NoCall, Call
  <1>2. ASSUME NEW c \in Calls, NEW s \in Servers, AskServer(c, s)
        PROVE  /\ call'[d].pc # "idle" => call'[d].tool \in Tools
               /\ call'[d].pc \in {"headers", "fetch", "send"} =>
                    call'[d].server \in Servers
    BY <1>2, <1>a, <1>b DEF AskServer, Call
  <1>3. ASSUME NEW c \in Calls, Route(c)
        PROVE  /\ call'[d].pc # "idle" => call'[d].tool \in Tools
               /\ call'[d].pc \in {"headers", "fetch", "send"} =>
                    call'[d].server \in Servers
    <2>1. call[c].tool \in Tools
      BY <1>3 DEF Route
    <2>2. route[call[c].tool] \in Servers \cup {None}
      BY <2>1 DEF TypeOK
    <2> QED
      BY <1>3, <1>a, <1>b, <2>1, <2>2 DEF Route, Call
  <1>4. ASSUME NEW c \in Calls, GetHeaders(c) \/ FetchSucceeds(c) \/ FetchFails(c)
        PROVE  /\ call'[d].pc # "idle" => call'[d].tool \in Tools
               /\ call'[d].pc \in {"headers", "fetch", "send"} =>
                    call'[d].server \in Servers
    BY <1>4, <1>a, <1>b DEF GetHeaders, FetchSucceeds, FetchFails, Unsent, Call
  <1>5. ASSUME NEW c \in Calls,
               \/ Ask(c) \/ Lock(c) \/ Discovered(c)
               \/ ListArrives(c) \/ ListFails(c) \/ CallReturns(c)
        PROVE  /\ call'[d].pc # "idle" => call'[d].tool \in Tools
               /\ call'[d].pc \in {"headers", "fetch", "send"} =>
                    call'[d].server \in Servers
    BY <1>5, <1>a, <1>b
    DEF Ask, Lock, Discovered, ListArrives, ListFails, CallReturns, Call
  <1>6. ASSUME NEW c \in Calls,
               \/ CreateClaim(c) \/ SandboxReady(c) \/ WaitEnds(c) \/ Release(c)
               \/ ExecuteClaimed(c) \/ Enter(c) \/ ExecuteReturns(c)
        PROVE  /\ call'[d].pc # "idle" => call'[d].tool \in Tools
               /\ call'[d].pc \in {"headers", "fetch", "send"} =>
                    call'[d].server \in Servers
    BY <1>6, <1>a, <1>b
    DEF CreateClaim, SandboxReady, WaitEnds, Release, ExecuteClaimed, Enter,
        ExecuteReturns, Call
  <1>7. CASE Crash
    BY <1>7, <1>a, <1>b DEF Crash, InFlight, Call
  <1>8. ASSUME UNCHANGED call
        PROVE  /\ call'[d].pc # "idle" => call'[d].tool \in Tools
               /\ call'[d].pc \in {"headers", "fetch", "send"} =>
                    call'[d].server \in Servers
    BY <1>8
  <1> QED
    BY <1>1, <1>2, <1>3, <1>4, <1>5, <1>6, <1>7, <1>8
    DEF Next, Step, Local, Reply, vars, Leave, Tick

\* Every step keeps the count of the shared sandbox exact.
LEMMA LoadStep == Sound /\ [Next]_vars => LoadExact'
  <1> SUFFICES ASSUME Sound, [Next]_vars PROVE LoadExact'
    OBVIOUS
  <1> USE DEF Sound, At, Goto, Unseen
  <1>a. /\ call \in [Calls -> Call]
        /\ exec \in [Calls -> {"none", "running", "refused", "done"}]
    BY DEF TypeOK
  <1>b. ASSUME UNCHANGED <<exec, load>>,
               NEW c \in Calls, call[c].pc \in Unseen \/ call'[c].pc \notin Unseen,
               \A d \in Calls \ {c} : call'[d].pc = call[d].pc
        PROVE  LoadExact'
    BY <1>b DEF LoadExact, Counted
  <1>1. ASSUME NEW c \in Calls, NEW t \in Tools, Start(c, t) PROVE LoadExact'
    BY <1>1, <1>a, <1>b DEF Start, sandboxVars
  <1>2. ASSUME NEW c \in Calls, Enter(c) PROVE LoadExact'
    <2>1. exec[c] = "none"
      BY <1>2 DEF Enter, LoadExact
    <2>2. IsFiniteSet(Counted') /\ load' = Cardinality(Counted')
      BY <1>2, <1>a, <2>1, CountedEnter DEF Enter, Admit, LoadExact
    <2>3. \A d \in Calls : call'[d].pc \in Unseen => exec'[d] = "none"
      BY <1>2, <1>a DEF Enter, LoadExact, Call
    <2> QED
      BY <2>2, <2>3 DEF LoadExact
  <1>3. ASSUME NEW c \in Calls, Leave(c) PROVE LoadExact'
    <2>1. IsFiniteSet(Counted') /\ load' = Cardinality(Counted')
      BY <1>3, <1>a, CountedLeave DEF Leave, LoadExact
    <2>2. \A d \in Calls : call'[d].pc \in Unseen => exec'[d] = "none"
      BY <1>3, <1>a DEF Leave, LoadExact
    <2> QED
      BY <2>1, <2>2 DEF LoadExact
  <1>4. ASSUME NEW c \in Calls,
               \/ Ask(c) \/ Lock(c) \/ Discovered(c) \/ Route(c)
               \/ \E s \in Servers : AskServer(c, s)
               \/ GetHeaders(c) \/ FetchSucceeds(c) \/ FetchFails(c)
        PROVE  LoadExact'
    BY <1>4, <1>a, <1>b
    DEF Ask, Lock, Discovered, Route, AskServer, GetHeaders, FetchSucceeds,
        FetchFails, sandboxVars
  <1>5. ASSUME NEW c \in Calls,
               ListArrives(c) \/ ListFails(c) \/ CallReturns(c)
        PROVE  LoadExact'
    BY <1>5, <1>a, <1>b DEF ListArrives, ListFails, CallReturns, sandboxVars
  <1>8. ASSUME NEW c \in Calls, CreateClaim(c) PROVE LoadExact'
    BY <1>8, <1>a, <1>b DEF CreateClaim
  <1>9. ASSUME NEW c \in Calls, SandboxReady(c) \/ WaitEnds(c) PROVE LoadExact'
    BY <1>9, <1>a, <1>b DEF SandboxReady, WaitEnds, sandboxVars
  <1>10. ASSUME NEW c \in Calls, Release(c) PROVE LoadExact'
    <2>1. call'[c].pc = "answered"
      BY <1>10, <1>a DEF Release, Call
    <2> QED
      BY <1>10, <1>a, <1>b, <2>1 DEF Release
  <1>11. ASSUME NEW c \in Calls, ExecuteClaimed(c) \/ ExecuteReturns(c)
         PROVE  LoadExact'
    <2>1. call'[c].pc \in {"release", "answered"}
      BY <1>11, <1>a DEF ExecuteClaimed, ExecuteReturns, Call
    <2> QED
      BY <1>11, <1>a, <1>b, <2>1 DEF ExecuteClaimed, ExecuteReturns, sandboxVars
  <1>6. CASE Crash
    BY <1>6, <1>a DEF Crash, InFlight, LoadExact, Counted, Call
  <1>7. ASSUME UNCHANGED <<call, exec, load>> PROVE LoadExact'
    BY <1>7 DEF LoadExact, Counted
  <1> QED
    BY <1>1, <1>2, <1>3, <1>4, <1>5, <1>6, <1>7,
       <1>8, <1>9, <1>10, <1>11
    DEF Next, Step, Local, Reply, vars, Tick, sandboxVars

(***************************************************************************)
(* Type correctness.                                                       *)
(***************************************************************************)
THEOREM TypeCorrect == Spec => []TypeOK
  <1>1. Sound => TypeOK
    BY DEF Sound
  <1>2. Sound /\ [Next]_vars => Sound'
    BY TypeStep, TargetStep, LoadStep DEF Sound
  <1> QED
    BY <1>1, <1>2, SoundInit, PTL DEF Spec

\* What the other proofs start from.
LEMMA AlwaysSound == Spec => []Sound
  <1>1. Sound /\ [Next]_vars => Sound'
    BY TypeStep, TargetStep, LoadStep DEF Sound
  <1> QED
    BY <1>1, SoundInit, PTL DEF Spec

-----------------------------------------------------------------------------
\* A running request is a counted one.
LEMMA RunningCounted ==
    ASSUME LoadExact
    PROVE  /\ IsFiniteSet(Running)
           /\ Cardinality(Running) \in Nat
           /\ Cardinality(Running) <= load
  <1>1. Running \in SUBSET Counted
    BY DEF Running, Counted
  <1> QED
    BY <1>1, FS_Subset, FS_CardinalityType DEF LoadExact

(***************************************************************************)
(* handleExecute: the shared sandbox server never runs more executions     *)
(* than it admits and its counter is exact, whatever order the requests,   *)
(* the replies and the callers that give up come in.                       *)
(***************************************************************************)
THEOREM CapacityRespected == Spec => []CapacityHeld
  <1> DEFINE Within == Cardinality(Running) <= Capacity
  <1>1. Init => Within
    <2> SUFFICES ASSUME Init PROVE Within
      OBVIOUS
    <2>1. Running = {}
      BY DEF Running, Init
    <2> QED
      BY <2>1, FS_EmptySet
  <1>2. Sound /\ Sound' /\ Within /\ [Next]_vars => Within'
    <2> SUFFICES ASSUME Sound, Sound', Within, [Next]_vars PROVE Within'
      OBVIOUS
    <2>a. /\ exec \in [Calls -> {"none", "running", "refused", "done"}]
          /\ load \in Nat /\ load' \in Nat
      BY DEF Sound, TypeOK
    <2>b. /\ IsFiniteSet(Running)
          /\ Cardinality(Running) \in Nat
      BY RunningCounted DEF Sound
    <2>c. Cardinality(Running') <= load'
      <3>1. Running' \in SUBSET Counted'
        BY DEF Running, Counted
      <3>2. IsFiniteSet(Counted') /\ load' = Cardinality(Counted')
        BY DEF Sound, LoadExact
      <3> QED
        BY <3>1, <3>2, FS_Subset
    <2>1. ASSUME UNCHANGED exec PROVE Within'
      BY <2>1 DEF Running
    <2>2. ASSUME NEW c \in Calls, Enter(c) PROVE Within'
      <3>1. CASE load + 1 > Capacity
        <4>1. exec' = [exec EXCEPT ![c] = "refused"]
          BY <2>2, <3>1 DEF Enter, Admit
        <4>2. Running' \in SUBSET Running
          BY <4>1, <2>a DEF Running
        <4>3. Cardinality(Running') \in Nat /\ Cardinality(Running') <= Cardinality(Running)
          BY <4>2, <2>b, FS_Subset, FS_CardinalityType
        <4> QED
          BY <4>3, <2>b
      <3>2. CASE ~(load + 1 > Capacity)
        <4>1. load' = load + 1
          BY <2>2 DEF Enter
        <4>2. IsFiniteSet(Running')
          <5>1. Running' \in SUBSET Counted' /\ IsFiniteSet(Counted')
            BY DEF Running, Counted, Sound, LoadExact
          <5> QED
            BY <5>1, FS_Subset
        <4>3. Cardinality(Running') \in Nat
          BY <4>2, FS_CardinalityType
        <4> QED
          BY <4>1, <4>3, <3>2, <2>a, <2>c
      <3> QED
        BY <3>1, <3>2
    <2>3. ASSUME NEW c \in Calls, Leave(c) PROVE Within'
      <3>1. Running' \in SUBSET Running
        BY <2>3, <2>a DEF Leave, Running
      <3>2. Cardinality(Running') \in Nat /\ Cardinality(Running') <= Cardinality(Running)
        BY <3>1, <2>b, FS_Subset, FS_CardinalityType
      <3> QED
        BY <3>2, <2>b
    <2> QED
      BY <2>1, <2>2, <2>3
      DEF Next, Step, Local, Reply, vars, sandboxVars, Start, Ask, Lock, Discovered, Route,
          AskServer, GetHeaders, FetchSucceeds, FetchFails, ListArrives,
          ListFails, CallReturns, CreateClaim, SandboxReady, WaitEnds, Release,
          ExecuteClaimed, ExecuteReturns, Tick, Crash
  <1>3. Sound /\ Within => CapacityHeld
    BY DEF Sound, LoadExact, Counted, CapacityHeld
  <1> QED
    BY <1>1, <1>2, <1>3, AlwaysSound, PTL DEF Spec

-----------------------------------------------------------------------------
\* The call that moves, where it goes, and that the others stay.
LEMMA Moves ==
    ASSUME Sound, NEW c \in Calls, NEW pc, Goto(c, pc)
    PROVE  /\ call'[c].pc = pc /\ call'[c].stage = call[c].stage
           /\ call'[c].server = call[c].server
           /\ \A d \in Calls \ {c} : call'[d] = call[d]
  BY DEF Goto, Sound, TypeOK, Call

\* A call that discovers is alone with the lock.
LEMMA OnlyOneDiscovers ==
    ASSUME LockHeld, NEW c \in Calls, NEW d \in Calls, c # d, Discovering(c)
    PROVE  ~Discovering(d) /\ writer = c /\ writer # None /\ ~discovered
  BY DEF LockHeld

(***************************************************************************)
(* LockHeld is inductive.                                                  *)
(***************************************************************************)
LEMMA LockStep == Sound /\ LockHeld /\ [Next]_vars => LockHeld'
  <1> SUFFICES ASSUME Sound, LockHeld, [Next]_vars PROVE LockHeld'
    OBVIOUS
  <1> USE DEF At
  <1>a. /\ call \in [Calls -> Call]
        /\ asked \in [Servers -> Nat]
        /\ discovered \in BOOLEAN
        /\ writer \in Calls \cup {None}
    BY DEF Sound, TypeOK
  <1>n. None \notin Calls
    OBVIOUS
  <1>b. ASSUME UNCHANGED executorVars,
               \A d \in Calls : Discovering(d)' => Discovering(d)
        PROVE  LockHeld'
    BY <1>b DEF LockHeld, executorVars
  <1>c. ASSUME UNCHANGED executorVars, NEW c \in Calls, NEW pc, Goto(c, pc),
               pc \in {"discover", "headers", "fetch", "send"} =>
                 \/ Discovering(c)
                 \/ call[c].stage = "call" /\ pc # "discover"
        PROVE  LockHeld'
    <2>1. \A d \in Calls : Discovering(d)' => Discovering(d)
      BY <1>c, Moves DEF Discovering
    <2> QED
      BY <1>b, <1>c, <2>1
  <1>e. ASSUME UNCHANGED executorVars, NEW c \in Calls, Goto(c, "discover"),
               Discovering(c)
        PROVE  LockHeld'
    <2>1. \A d \in Calls : Discovering(d)' => Discovering(d)
      BY <1>e, Moves DEF Discovering
    <2> QED
      BY <1>b, <1>e, <2>1
  <1>1. ASSUME NEW c \in Calls, NEW t \in Tools, Start(c, t) PROVE LockHeld'
    BY <1>1, <1>a, <1>b DEF Start, NoCall, Discovering
  <1>2. ASSUME NEW c \in Calls, Ask(c) PROVE LockHeld'
    BY <1>2, <1>c DEF Ask
  <1>3. ASSUME NEW c \in Calls, Lock(c) PROVE LockHeld'
    <2>1. CASE discovered
      BY <1>3, <1>c, <2>1 DEF Lock, executorVars
    <2>2. CASE ~discovered
      <3>1. /\ writer = None /\ writer' = c /\ pending' = Servers
            /\ UNCHANGED <<discovered, asked>> /\ Goto(c, "discover")
        BY <1>3, <2>2 DEF Lock
      <3>2. \A d \in Calls : ~Discovering(d)
        BY <3>1, <1>n DEF LockHeld
      <3>3. \A d \in Calls : Discovering(d)' => d = c
        BY <3>1, <3>2, Moves DEF Discovering
      <3>4. \A s \in Servers : asked'[s] = 0
        BY <3>1, <2>2 DEF LockHeld
      <3> QED
        BY <3>1, <3>3, <3>4, <2>2, <1>n DEF LockHeld
    <2> QED
      BY <2>1, <2>2
  <1>4. ASSUME NEW c \in Calls, NEW s \in Servers, AskServer(c, s)
        PROVE  LockHeld'
    <2>1. /\ writer = c /\ Discovering(c)
      BY <1>4 DEF AskServer, LockHeld, Discovering
    <2>2. \A d \in Calls : Discovering(d)' => d = c
      BY <1>4, <1>a, <2>1, OnlyOneDiscovers DEF AskServer, Discovering
    <2>3. \A r \in Servers : r \in pending' => asked'[r] = 0
      BY <1>4, <1>a, <1>n, <2>1 DEF AskServer, LockHeld
    <2> QED
      BY <1>4, <1>n, <2>1, <2>2, <2>3 DEF AskServer, LockHeld
  <1>5. ASSUME NEW c \in Calls, Discovered(c) PROVE LockHeld'
    <2>1. Discovering(c)
      BY <1>5 DEF Discovered, Discovering
    <2>2. \A d \in Calls : ~Discovering(d)'
      BY <1>5, <2>1, OnlyOneDiscovers, Moves DEF Discovered, Discovering
    <2> QED
      BY <1>5, <2>2 DEF Discovered, LockHeld
  <1>6. ASSUME NEW c \in Calls, Route(c) PROVE LockHeld'
    BY <1>6, <1>a, <1>b DEF Route, Discovering
  <1>7. ASSUME NEW c \in Calls, GetHeaders(c) PROVE LockHeld'
    <2>1. call[c].stage \in {"discover", "call"}
      BY <1>a DEF Call
    <2> QED
      BY <1>7, <1>c, <2>1 DEF GetHeaders, Discovering
  <1>8. ASSUME NEW c \in Calls, FetchSucceeds(c) PROVE LockHeld'
    <2>1. call[c].stage \in {"discover", "call"}
      BY <1>a DEF Call
    <2> QED
      BY <1>8, <1>c, <2>1 DEF FetchSucceeds, Discovering
  <1>9. ASSUME NEW c \in Calls, FetchFails(c) PROVE LockHeld'
    <2>1. call[c].stage \in {"discover", "call"}
      BY <1>a DEF Call
    <2>2. CASE StillValid
      <3>1. Goto(c, "send") /\ UNCHANGED executorVars /\ call[c].pc = "fetch"
        BY <1>9, <2>2 DEF FetchFails
      <3> QED
        BY <1>c, <2>1, <3>1 DEF Discovering
    <2>3. CASE ~StillValid /\ call[c].stage = "discover"
      <3>1. Goto(c, "discover") /\ UNCHANGED executorVars /\ Discovering(c)
        BY <1>9, <2>3 DEF FetchFails, Unsent, Discovering
      <3> QED
        BY <1>e, <3>1
    <2>4. CASE ~StillValid /\ call[c].stage = "call"
      <3>1. Goto(c, "answered") /\ UNCHANGED executorVars
        BY <1>9, <2>4 DEF FetchFails, Unsent
      <3> QED
        BY <1>c, <3>1
    <2> QED
      BY <2>1, <2>2, <2>3, <2>4
  <1>10. ASSUME NEW c \in Calls, ListArrives(c) PROVE LockHeld'
    <2>1. Discovering(c)
      BY <1>10 DEF ListArrives, Discovering
    <2>2. \A d \in Calls : Discovering(d)' => Discovering(d)
      BY <1>10, <2>1, Moves DEF ListArrives, Discovering
    <2> QED
      BY <1>10, <2>2 DEF ListArrives, LockHeld
  <1>11. ASSUME NEW c \in Calls, ListFails(c) PROVE LockHeld'
    <2>1. Goto(c, "discover") /\ UNCHANGED executorVars /\ Discovering(c)
      BY <1>11 DEF ListFails, Discovering
    <2> QED
      BY <1>e, <2>1
  <1>12. ASSUME NEW c \in Calls,
                \/ CallReturns(c) \/ CreateClaim(c) \/ SandboxReady(c)
                \/ WaitEnds(c) \/ Release(c) \/ ExecuteClaimed(c)
                \/ Enter(c) \/ ExecuteReturns(c)
         PROVE  LockHeld'
    BY <1>12, <1>c
    DEF CallReturns, CreateClaim, SandboxReady, WaitEnds, Release,
        ExecuteClaimed, Enter, ExecuteReturns
  <1>13. CASE Crash
    <2>1. \A d \in Calls : ~Discovering(d)'
      BY <1>13, <1>a DEF Crash, InFlight, Discovering, Call
    <2> QED
      BY <1>13, <2>1 DEF Crash, LockHeld
  <1>14. ASSUME UNCHANGED <<call, executorVars>> PROVE LockHeld'
    BY <1>14, <1>b DEF Discovering
  <1> QED
    BY <1>1, <1>2, <1>3, <1>4, <1>5, <1>6, <1>7, <1>8, <1>9, <1>10, <1>11,
       <1>12, <1>13, <1>14
    DEF Next, Step, Local, Reply, vars, Leave, Tick

(***************************************************************************)
(* ensureDiscovered: each server is asked for its tools at most once while *)
(* the gateway runs, however many calls come first.                        *)
(***************************************************************************)
THEOREM DiscoveredOnce == Spec => []AskedOnce
  <1> DEFINE Inv == LockHeld /\ AskedOnce
  <1>1. Init => Inv
    BY DEF Init, LockHeld, AskedOnce, Discovering, At, NoCall
  <1>2. Sound /\ Inv /\ [Next]_vars => Inv'
    <2> SUFFICES ASSUME Sound, Inv, [Next]_vars PROVE AskedOnce'
      BY LockStep
    <2>a. asked \in [Servers -> Nat]
      BY DEF Sound, TypeOK
    <2>1. ASSUME NEW c \in Calls, NEW s \in Servers, AskServer(c, s)
          PROVE  AskedOnce'
      <3>1. asked[s] = 0
        BY <2>1 DEF AskServer, LockHeld, Discovering, At
      <3> QED
        BY <2>1, <2>a, <3>1 DEF AskServer, AskedOnce
    <2>2. CASE Crash
      BY <2>2 DEF Crash, AskedOnce
    <2>3. ASSUME UNCHANGED asked PROVE AskedOnce'
      BY <2>3 DEF AskedOnce
    <2> QED
      BY <2>1, <2>2, <2>3
      DEF Next, Step, Local, Reply, vars, executorVars, Start, Ask, Lock, Discovered, Route,
          GetHeaders, FetchSucceeds, FetchFails, ListArrives, ListFails,
          CallReturns, CreateClaim, SandboxReady, WaitEnds, Release,
          ExecuteClaimed, Enter, ExecuteReturns, Leave, Tick
  <1>3. Inv => AskedOnce
    OBVIOUS
  <1> QED
    BY <1>1, <1>2, <1>3, AlwaysSound, PTL DEF Spec

(***************************************************************************)
(* toolToServer: a tool keeps its server while the gateway runs, whatever  *)
(* other servers list later.                                               *)
(***************************************************************************)
THEOREM ProviderStays == Spec => ProviderKept
  <1> DEFINE Kept == \A t \in Tools :
                       route[t] # None => route'[t] = route[t] \/ faults' > faults
  <1>1. Sound /\ [Next]_vars => Kept
    <2> SUFFICES ASSUME Sound, [Next]_vars PROVE Kept
      OBVIOUS
    <2>a. faults \in Nat
      BY DEF Sound, TypeOK
    <2>1. ASSUME NEW c \in Calls, ListArrives(c) PROVE Kept
      BY <2>1 DEF ListArrives, Routes
    <2>2. CASE Crash
      BY <2>2, <2>a DEF Crash
    <2>3. ASSUME UNCHANGED route PROVE Kept
      BY <2>3
    <2> QED
      BY <2>1, <2>2, <2>3
      DEF Next, Step, Local, Reply, vars, executorVars, Start, Ask, Lock, Discovered, Route,
          AskServer, GetHeaders, FetchSucceeds, FetchFails, ListFails,
          CallReturns, CreateClaim, SandboxReady, WaitEnds, Release,
          ExecuteClaimed, Enter, ExecuteReturns, Leave, Tick
  <1>2. Sound /\ [Next]_vars => [Kept]_vars
    BY <1>1
  <1> QED
    BY <1>2, AlwaysSound, PTL DEF Spec, ProviderKept

-----------------------------------------------------------------------------
(***************************************************************************)
(* MutexHeld is inductive: one call fetches a token at a time, and for no  *)
(* longer than its client waits.                                           *)
(***************************************************************************)
LEMMA MutexStep == Sound /\ MutexHeld /\ [Next]_vars => MutexHeld'
  <1> SUFFICES ASSUME Sound, MutexHeld, [Next]_vars PROVE MutexHeld'
    OBVIOUS
  <1> USE DEF At
  <1>a. /\ call \in [Calls -> Call]
        /\ clock \in Nat
        /\ renewing \in [by : Calls \cup {None}, since : 0..MaxClock]
    BY DEF Sound, TypeOK
  <1>b. ASSUME UNCHANGED <<clock, renewing>>,
               \A d \in Calls : call'[d].pc = "fetch" => call[d].pc = "fetch"
        PROVE  MutexHeld'
    BY <1>b DEF MutexHeld
  <1>c. ASSUME UNCHANGED <<clock, renewing>>, NEW c \in Calls, NEW pc,
               pc # "fetch", Goto(c, pc)
        PROVE  MutexHeld'
    BY <1>b, <1>c, Moves
  <1>d. ASSUME renewing' = [renewing EXCEPT !.by = None],
               \A d \in Calls : call'[d].pc # "fetch"
        PROVE  MutexHeld'
    BY <1>d, <1>a DEF MutexHeld
  <1>1. ASSUME NEW c \in Calls, NEW t \in Tools, Start(c, t) PROVE MutexHeld'
    BY <1>1, <1>a, <1>b DEF Start, NoCall, tokenVars
  <1>2. ASSUME NEW c \in Calls,
               \/ Ask(c) \/ Lock(c) \/ Discovered(c)
               \/ ListArrives(c) \/ ListFails(c) \/ CallReturns(c)
        PROVE  MutexHeld'
    BY <1>2, <1>c
    DEF Ask, Lock, Discovered, ListArrives, ListFails, CallReturns, tokenVars
  <1>3. ASSUME NEW c \in Calls, Route(c) PROVE MutexHeld'
    <2>1. call'[c].pc # "fetch"
      BY <1>3, <1>a DEF Route, Call
    <2>2. \A d \in Calls \ {c} : call'[d] = call[d]
      BY <1>3, <1>a DEF Route
    <2> QED
      BY <1>3, <1>b, <2>1, <2>2 DEF Route, tokenVars
  <1>10. ASSUME NEW c \in Calls, NEW s \in Servers, AskServer(c, s)
         PROVE  MutexHeld'
    BY <1>10, <1>a, <1>b DEF AskServer, tokenVars
  <1>4. ASSUME NEW c \in Calls, GetHeaders(c) PROVE MutexHeld'
    <2>1. CASE Goto(c, "send") /\ UNCHANGED renewing
      BY <1>4, <1>c, <2>1 DEF GetHeaders
    <2>2. CASE /\ renewing.by = None /\ Goto(c, "fetch")
               /\ renewing' = [by |-> c, since |-> clock]
      <3>1. \A d \in Calls : call[d].pc # "fetch"
        BY <2>2 DEF MutexHeld
      <3>2. \A d \in Calls : call'[d].pc = "fetch" => d = c
        BY <2>2, <3>1, Moves
      <3>3. clock' - renewing'.since = 0
        BY <1>4, <1>a, <2>2 DEF GetHeaders
      <3> QED
        BY <2>2, <3>2, <3>3 DEF MutexHeld
    <2> QED
      BY <1>4, <2>1, <2>2 DEF GetHeaders
  <1>5. ASSUME NEW c \in Calls, FetchSucceeds(c) \/ FetchFails(c)
        PROVE  MutexHeld'
    <2>1. renewing.by = c
      BY <1>5 DEF FetchSucceeds, FetchFails, MutexHeld
    <2>2. \A d \in Calls \ {c} : call[d].pc # "fetch"
      BY <2>1 DEF MutexHeld
    <2>3. call'[c].pc # "fetch"
      BY <1>5, Moves DEF FetchSucceeds, FetchFails, Unsent
    <2>4. \A d \in Calls \ {c} : call'[d].pc # "fetch"
      BY <1>5, <2>2, Moves DEF FetchSucceeds, FetchFails
    <2> QED
      BY <1>5, <1>d, <2>3, <2>4 DEF FetchSucceeds, FetchFails
  <1>6. ASSUME NEW c \in Calls,
               \/ CreateClaim(c) \/ SandboxReady(c) \/ WaitEnds(c) \/ Release(c)
               \/ ExecuteClaimed(c) \/ Enter(c) \/ ExecuteReturns(c)
        PROVE  MutexHeld'
    BY <1>6, <1>c
    DEF CreateClaim, SandboxReady, WaitEnds, Release, ExecuteClaimed, Enter,
        ExecuteReturns, tokenVars
  <1>7. CASE Tick
    <2>1. renewing.since \in Nat
      BY <1>a
    <2> QED
      BY <1>7, <1>a, <2>1 DEF Tick, MutexHeld, tokenVars
  <1>8. CASE Crash
    <2>1. \A d \in Calls : call'[d].pc # "fetch"
      BY <1>8, <1>a DEF Crash, InFlight, Call
    <2> QED
      BY <1>8, <1>d, <2>1 DEF Crash
  <1>9. ASSUME UNCHANGED <<call, clock, renewing>> PROVE MutexHeld'
    BY <1>9, <1>b
  <1> QED
    BY <1>1, <1>2, <1>3, <1>4, <1>5, <1>6, <1>7, <1>8, <1>9, <1>10
    DEF Next, Step, Local, Reply, vars, Leave, tokenVars

(***************************************************************************)
(* GetHeaders: no request carries a token that had expired, but for the    *)
(* time a failing renewal took, whatever other calls do to the token in    *)
(* between.  The server's tokens live for some time: one whose life is     *)
(* over on arrival is used once.                                           *)
(***************************************************************************)
THEOREM TokensAlive ==
    ASSUME Lifetime # 0
    PROVE  Spec => TokenAlive
  <1> DEFINE Alive ==
        \A c \in Calls :
          (/\ call[c].server = Secured
           /\ call[c].pc \in {"headers", "fetch"}
           /\ call'[c].pc = "send")
            => \/ token' # token
               \/ clock < token.expiry + FetchTime
  <1>1. Sound /\ MutexHeld /\ [Next]_vars => [Alive]_vars
    <2> SUFFICES ASSUME Sound, MutexHeld, Next, NEW d \in Calls,
                        call[d].server = Secured,
                        call[d].pc \in {"headers", "fetch"},
                        call'[d].pc = "send"
                 PROVE  \/ token' # token
                        \/ clock < token.expiry + FetchTime
      BY DEF vars
    <2> USE DEF At
    <2>a. /\ call \in [Calls -> Call] /\ clock \in Nat
          /\ token \in [expiry : Nat, renew : Nat, there : BOOLEAN]
          /\ token.renew <= token.expiry
          /\ renewing.since \in Nat
          /\ FetchTime \in Nat
      BY DEF Sound, TypeOK
    <2>1. ASSUME NEW c \in Calls, GetHeaders(c)
          PROVE  clock < token.expiry + FetchTime
      <3>1. c = d
        BY <2>1, Moves DEF GetHeaders
      <3>2. clock < token.renew
        BY <2>1, <3>1, Moves DEF GetHeaders
      <3> QED
        BY <2>a, <3>2
    <2>2. ASSUME NEW c \in Calls, FetchSucceeds(c) \/ FetchFails(c)
          PROVE  \/ token' # token
                 \/ clock < token.expiry + FetchTime
      <3>1. c = d
        BY <2>2, Moves DEF FetchSucceeds, FetchFails
      <3>2. clock - renewing.since <= FetchTime
        BY <2>2 DEF FetchSucceeds, FetchFails, MutexHeld
      <3>3. CASE FetchSucceeds(c)
        <4>1. token'.expiry = renewing.since + Lifetime
          BY <3>3 DEF FetchSucceeds
        <4> QED
          BY <2>a, <3>2, <4>1
      <3>4. CASE FetchFails(c)
        <4>1. StillValid
          BY <3>1, <3>4, Moves DEF FetchFails, Unsent
        <4> QED
          BY <2>a, <3>2, <4>1 DEF StillValid
      <3> QED
        BY <2>2, <3>3, <3>4
    <2>3. ASSUME NEW c \in Calls, NEW t \in Tools, Start(c, t) PROVE FALSE
      BY <2>3, <2>a DEF Start, NoCall, Call
    <2>4. ASSUME NEW c \in Calls,
                 \/ Ask(c) \/ Lock(c) \/ Discovered(c)
                 \/ ListArrives(c) \/ ListFails(c) \/ CallReturns(c)
          PROVE  FALSE
      BY <2>4, Moves
      DEF Ask, Lock, Discovered, ListArrives, ListFails, CallReturns
    <2>5. ASSUME NEW c \in Calls, Route(c) PROVE FALSE
      BY <2>5, <2>a DEF Route, Call
    <2>6. ASSUME NEW c \in Calls, NEW s \in Servers, AskServer(c, s) PROVE FALSE
      BY <2>6, <2>a DEF AskServer, Call
    <2>7. ASSUME NEW c \in Calls,
                 \/ CreateClaim(c) \/ SandboxReady(c) \/ WaitEnds(c) \/ Release(c)
                 \/ ExecuteClaimed(c) \/ Enter(c) \/ ExecuteReturns(c)
          PROVE  FALSE
      BY <2>7, Moves
      DEF CreateClaim, SandboxReady, WaitEnds, Release, ExecuteClaimed, Enter,
          ExecuteReturns
    <2>8. CASE Crash
      BY <2>8, <2>a DEF Crash, InFlight, Call
    <2>9. ASSUME UNCHANGED call PROVE FALSE
      BY <2>9
    <2> QED
      BY <2>1, <2>2, <2>3, <2>4, <2>5, <2>6, <2>7, <2>8, <2>9
      DEF Next, Step, Local, Reply, Leave, Tick
  <1>2. Init => MutexHeld
    BY DEF Init, MutexHeld, NoCall, At
  <1> QED
    BY <1>1, <1>2, MutexStep, AlwaysSound, PTL DEF Spec, TokenAlive

-----------------------------------------------------------------------------
(***************************************************************************)
(* ClaimOwned is inductive.                                                *)
(***************************************************************************)
LEMMA OwnedStep == Sound /\ ClaimOwned /\ [Next]_vars => ClaimOwned'
  <1> SUFFICES ASSUME Sound, ClaimOwned, [Next]_vars PROVE ClaimOwned'
    OBVIOUS
  <1> USE DEF At
  <1>a. /\ call \in [Calls -> Call]
        /\ claim \in [Calls -> {"none", "bound", "deleted"}]
    BY DEF Sound, TypeOK
  <1>b. ASSUME NEW c \in Calls, UNCHANGED <<mode, claim, excused>>,
               \A d \in Calls \ {c} : call'[d] = call[d],
               call[c].pc \notin {"wait", "execute", "release"}
                 \/ mode # "claim" \/ call'[c].pc \in {"execute", "release"},
               call'[c].pc \in {"create", "wait"} => mode = "claim"
        PROVE  ClaimOwned'
    BY <1>b DEF ClaimOwned
  <1>1. ASSUME NEW c \in Calls, NEW t \in Tools, Start(c, t) PROVE ClaimOwned'
    BY <1>1, <1>a, <1>b DEF Start, NoCall, sandboxVars
  <1>2. ASSUME NEW c \in Calls, NEW pc, Goto(c, pc), UNCHANGED <<mode, sandboxVars>>,
               pc \notin {"create", "wait"},
               call[c].pc \notin {"wait", "execute", "release"}
                 \/ mode # "claim" \/ pc \in {"execute", "release"}
        PROVE  ClaimOwned'
    BY <1>2, <1>b, Moves DEF sandboxVars
  <1>3. ASSUME NEW c \in Calls,
               \/ Ask(c) \/ Lock(c) \/ Discovered(c)
               \/ GetHeaders(c) \/ FetchSucceeds(c)
        PROVE  ClaimOwned'
    BY <1>3, <1>2
    DEF Ask, Lock, Discovered, GetHeaders, FetchSucceeds
  <1>4. ASSUME NEW c \in Calls,
               \/ FetchFails(c) \/ ListArrives(c) \/ ListFails(c)
               \/ CallReturns(c) \/ SandboxReady(c) \/ WaitEnds(c)
               \/ ExecuteClaimed(c) \/ ExecuteReturns(c)
        PROVE  ClaimOwned'
    BY <1>4, <1>2
    DEF FetchFails, Unsent, ListArrives, ListFails, CallReturns, SandboxReady,
        WaitEnds, ExecuteClaimed, ExecuteReturns
  <1>5. ASSUME NEW c \in Calls, Route(c) PROVE ClaimOwned'
    <2>1. call'[c].pc \in {"create", "wait"} => mode = "claim"
      BY <1>5, <1>a DEF Route, Call
    <2>2. \A d \in Calls \ {c} : call'[d] = call[d]
      BY <1>5, <1>a DEF Route
    <2> QED
      BY <1>5, <1>b, <2>1, <2>2 DEF Route, sandboxVars
  <1>6. ASSUME NEW c \in Calls, NEW s \in Servers, AskServer(c, s)
        PROVE  ClaimOwned'
    BY <1>6, <1>a, <1>b DEF AskServer, sandboxVars, Call
  <1>7. ASSUME NEW c \in Calls, CreateClaim(c) PROVE ClaimOwned'
    <2>1. mode = "claim" /\ UNCHANGED mode
      BY <1>7 DEF CreateClaim, ClaimOwned
    <2>2. \A d \in Calls \ {c} : /\ call'[d] = call[d] /\ claim'[d] = claim[d]
                                 /\ d \in excused => d \in excused'
      BY <1>7, <1>a, Moves DEF CreateClaim
    <2>3. claim'[c] = "bound" /\ c \notin excused' => call'[c].pc = "wait"
      BY <1>7, <1>a, Moves DEF CreateClaim, ClaimOwned
    <2> QED
      BY <2>1, <2>2, <2>3 DEF ClaimOwned
  <1>8. ASSUME NEW c \in Calls, Release(c) PROVE ClaimOwned'
    <2>1. UNCHANGED mode /\ call'[c].pc = "answered"
      BY <1>8, Moves DEF Release
    <2>2. \A d \in Calls \ {c} : /\ call'[d] = call[d] /\ claim'[d] = claim[d]
                                 /\ d \in excused => d \in excused'
      BY <1>8, <1>a, Moves DEF Release
    <2>3. claim'[c] = "bound" => c \in excused'
      BY <1>8, <1>a DEF Release
    <2> QED
      BY <2>1, <2>2, <2>3 DEF ClaimOwned
  <1>9. ASSUME NEW c \in Calls, Enter(c) PROVE ClaimOwned'
    <2>1. call'[c].pc = "reply" /\ \A d \in Calls \ {c} : call'[d] = call[d]
      BY <1>9, Moves DEF Enter
    <2> QED
      BY <1>9, <1>b, <2>1 DEF Enter
  <1>10. CASE Crash
    <2>1. /\ UNCHANGED <<mode, claim>>
          /\ excused' = excused \cup InFlight
      BY <1>10 DEF Crash
    <2>2. \A d \in Calls :
            call'[d].pc = IF d \in InFlight THEN "lost" ELSE call[d].pc
      BY <1>10, <1>a DEF Crash, Call
    <2> QED
      BY <2>1, <2>2 DEF InFlight, ClaimOwned
  <1>11. ASSUME UNCHANGED <<mode, call, claim, excused>> PROVE ClaimOwned'
    BY <1>11 DEF ClaimOwned
  <1> QED
    BY <1>1, <1>3, <1>4, <1>5, <1>6, <1>7, <1>8, <1>9, <1>10, <1>11
    DEF Next, Step, Local, Reply, vars, Leave, Tick, sandboxVars

(***************************************************************************)
(* Acquire and release: the claim of a call that is over is gone, on every *)
(* path through the acquirer and the client, unless a reply, the deletion  *)
(* or the gateway was lost.                                                *)
(***************************************************************************)
THEOREM ClaimsGone == Spec => []ClaimsReleased
  <1>1. Init => ClaimOwned
    BY DEF Init, ClaimOwned, NoCall
  <1>2. ClaimOwned => ClaimsReleased
    BY DEF ClaimOwned, ClaimsReleased
  <1> QED
    BY <1>1, <1>2, OwnedStep, AlwaysSound, PTL DEF Spec
=============================================================================
