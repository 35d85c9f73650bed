-------------------------- MODULE BackgroundProofs --------------------------
(***************************************************************************)
(* Proofs about Background, for any sets of responses and workers, either  *)
(* store, and any number of faults.                                        *)
(***************************************************************************)
EXTENDS Background, SequenceLemmas, TLAPS

-----------------------------------------------------------------------------
(***************************************************************************)
(* Type lemmas for the operations of the store.                            *)
(***************************************************************************)
StoreTypeOK ==
    /\ store \in [Ids -> Entry]
    /\ cutoff \in Nat

\* evictOldest leaves well-formed entries.
LEMMA EvictionType ==
    ASSUME StoreTypeOK
    PROVE  AfterEviction \in [Ids -> Entry]
  BY DEF StoreTypeOK, AfterEviction, Entry

\* Saving a queued response keeps the store well formed.
LEMMA SaveResponseType ==
    ASSUME StoreTypeOK, NEW i \in Ids, NEW c \in Seconds, SaveResponse(i, c)
    PROVE  StoreTypeOK'
  BY EvictionType, Zenon
  DEF StoreTypeOK, SaveResponse, NoEntry, Entry, Memory, Heartbeats, ResponseStatuses

\* Saving the engine's copy keeps the store well formed.
LEMMA SaveCopyType ==
    ASSUME StoreTypeOK, NEW i \in Ids, SaveCopy(i)
    PROVE  StoreTypeOK'
  BY EvictionType DEF StoreTypeOK, SaveCopy

\* SaveBackgroundRequest keeps the store well formed.
LEMMA SaveRequestType ==
    ASSUME StoreTypeOK, NEW i \in Ids, SaveRequest(i)
    PROVE  store' \in [Ids -> Entry]
  BY DEF StoreTypeOK, SaveRequest, Entry

\* The soft delete keeps the store well formed.
LEMMA DeleteResponseType ==
    ASSUME StoreTypeOK, NEW i \in Ids, DeleteResponse(i)
    PROVE  store' \in [Ids -> Entry]
  BY DEF StoreTypeOK, DeleteResponse, Entry

\* UpdateResponse with a final status keeps the store well formed.
LEMMA UpdateResponseType ==
    ASSUME StoreTypeOK, NEW i \in Ids,
           NEW to \in {"completed", "failed", "cancelled"},
           UpdateResponse(i, to)
    PROVE  StoreTypeOK'
  <1>1. CASE ~UpdateAccepted(i, to)
    BY <1>1 DEF StoreTypeOK, UpdateResponse, Updated
  <1>2. CASE UpdateAccepted(i, to)
    <2> DEFINE result == store[i].result \/ to = "completed"
               error == store[i].error \/ to = "failed"
               new == [store[i] EXCEPT !.status = to, !.result = result,
                                       !.error = error]
    <2>1. result \in BOOLEAN /\ error \in BOOLEAN
      BY Zenon
    <2>2. store[i] \in Entry /\ to \in ResponseStatuses
      BY DEF StoreTypeOK, ResponseStatuses
    <2> HIDE DEF result, error
    <2>3. new \in Entry
      BY <2>1, <2>2 DEF Entry
    <2>4. store' = [store EXCEPT ![i] = new]
      BY <1>2 DEF UpdateResponse, Updated, StoreTypeOK, result, error, new
    <2> QED
      BY <2>3, <2>4 DEF StoreTypeOK, UpdateResponse
  <1> QED
    BY <1>1, <1>2

\* A claim keeps the store well formed.
LEMMA ClaimType ==
    ASSUME StoreTypeOK, NEW i \in Ids, NEW S, ClaimQueuedResponse(i, S)
    PROVE  StoreTypeOK'
  <1> DEFINE new == [store[i] EXCEPT !.status = "in_progress",
                                     !.heartbeat = "fresh"]
  <1>1. new \in Entry
    BY DEF StoreTypeOK, Entry, ResponseStatuses, Heartbeats
  <1>2. store' = [store EXCEPT ![i] = new]
    BY DEF StoreTypeOK, ClaimQueuedResponse, new
  <1> QED
    BY <1>1, <1>2 DEF StoreTypeOK, ClaimQueuedResponse

\* The TTL clean-up keeps the store well formed.
LEMMA CleanupType ==
    ASSUME StoreTypeOK, CleanupExpired
    PROVE  StoreTypeOK'
  <1>1. PICK batch \in SUBSET Expired :
             /\ store' = [i \in Ids |-> IF i \in batch
                                        THEN [store[i] EXCEPT !.present = FALSE]
                                        ELSE store[i]]
             /\ cutoff' = cutoff
    BY DEF CleanupExpired
  <1> QED
    BY <1>1 DEF StoreTypeOK, Entry

\* A heartbeat keeps the store well formed.
LEMMA HeartbeatType ==
    ASSUME StoreTypeOK, NEW i \in Ids, NEW hb \in Heartbeats
    PROVE  [store EXCEPT ![i].heartbeat = hb] \in [Ids -> Entry]
  <1>1. [store[i] EXCEPT !.heartbeat = hb] \in Entry
    BY DEF StoreTypeOK, Entry
  <1> QED
    BY <1>1 DEF StoreTypeOK

\* A goroutine that moves on keeps its type.
LEMMA JobMoves ==
    ASSUME job \in [Ids -> Job], NEW i \in Ids, NEW label \in JobStates
    PROVE  [job EXCEPT ![i].pc = label] \in [Ids -> Job]
  <1>1. [job[i] EXCEPT !.pc = label] \in Job
    BY DEF Job
  <1> QED
    BY <1>1

\* The engine hands over to one of the three marks.
LEMMA AfterEngineType ==
    ASSUME NEW i \in Ids, NEW ok \in BOOLEAN
    PROVE  AfterEngine(i, ok) \in JobStates
  BY DEF AfterEngine, JobStates, LiveStates, RegisteredStates, MarkStates

-----------------------------------------------------------------------------
(***************************************************************************)
(* Type correctness of the gateway, the workers and the store.             *)
(***************************************************************************)
THEOREM TypeCorrect == Spec => []TypeOK
  <1>1. Init => TypeOK
    <2> SUFFICES ASSUME Init PROVE TypeOK
      OBVIOUS
    <2>1. NoEntry \in Entry
      BY StoreAssumption
      DEF NoEntry, Entry, Seconds, Heartbeats
    <2>2. NoJob \in Job
      BY DEF NoJob, Job, JobStates
    <2> QED
      BY <2>1, <2>2
      DEF Init, StoreInit, TypeOK, CreateStates, DeleteStates, WorkerStates,
          PollStates
  <1>2. TypeOK /\ [Next]_vars => TypeOK'
    <2> SUFFICES ASSUME TypeOK, [Next]_vars PROVE TypeOK'
      OBVIOUS
    <2> USE StoreAssumption, WorkerAssumption
    <2>0. StoreTypeOK
      BY DEF TypeOK, StoreTypeOK
    <2>1. ASSUME NEW i \in Ids, QueueResponse(i) PROVE TypeOK'
      <3>1. StoreTypeOK'
        BY <2>0, <2>1, SaveResponseType DEF QueueResponse
      <3> QED
        BY <2>1, <3>1
        DEF QueueResponse, TypeOK, StoreTypeOK, workerVars, CreateStates
    <2>2. ASSUME NEW i \in Ids, SaveBackgroundRequest(i) PROVE TypeOK'
      <3>1. store' \in [Ids -> Entry]
        BY <2>0, <2>2, SaveRequestType DEF SaveBackgroundRequest
      <3> QED
        BY <2>2, <3>1
        DEF SaveBackgroundRequest, TypeOK, workerVars, CreateStates
    <2>3. ASSUME NEW i \in Ids, SaveBackgroundRequestFails(i) PROVE TypeOK'
      BY <2>3 DEF SaveBackgroundRequestFails, Fault, TypeOK, storeVars,
                  workerVars, CreateStates
    <2>4. ASSUME NEW i \in Ids, DeleteGet(i) PROVE TypeOK'
      BY <2>4 DEF DeleteGet, TypeOK, storeVars, workerVars, DeleteStates
    <2>5. ASSUME NEW i \in Ids, DeleteDecide(i) PROVE TypeOK'
      BY <2>5 DEF DeleteDecide, TypeOK, storeVars, workerVars, DeleteStates
    <2>6. ASSUME NEW i \in Ids, DeleteCancel(i) PROVE TypeOK'
      <3>1. StoreTypeOK'
        BY <2>0, <2>6, UpdateResponseType DEF DeleteCancel
      <3> QED
        BY <2>6, <3>1
        DEF DeleteCancel, TypeOK, StoreTypeOK, workerVars, DeleteStates
    <2>7. ASSUME NEW i \in Ids, DeleteSignal(i) PROVE TypeOK'
      <3>1. job' \in [Ids -> Job]
        BY <2>7 DEF DeleteSignal, TypeOK, Job
      <3> QED
        BY <2>7, <3>1 DEF DeleteSignal, TypeOK, storeVars, DeleteStates
    <2>8. ASSUME NEW i \in Ids, DeleteSoft(i) PROVE TypeOK'
      <3>1. store' \in [Ids -> Entry]
        BY <2>0, <2>8, DeleteResponseType DEF DeleteSoft
      <3> QED
        BY <2>8, <3>1 DEF DeleteSoft, TypeOK, workerVars, DeleteStates
    <2>9. ASSUME GatewayCrash PROVE TypeOK'
      BY <2>9 DEF GatewayCrash, Fault, TypeOK, storeVars, workerVars,
                   CreateStates, DeleteStates
    <2>10. ASSUME NEW w \in Workers, Poll(w) PROVE TypeOK'
      <3>1. FindStaleResponses \in SUBSET Ids
        BY DEF FindStaleResponses
      <3> QED
        BY <2>10, <3>1 DEF Poll, TypeOK, storeVars, gatewayVars, PollStates
    <2>11. ASSUME NEW w \in Workers, NEW i \in Ids, MarkStale(w, i)
           PROVE  TypeOK'
      <3>1. StoreTypeOK'
        BY <2>0, <2>11, UpdateResponseType DEF MarkStale, StoreTypeOK, storeVars
      <3>2. poll' \in [Workers -> [pc: PollStates, ids: SUBSET Ids]]
        BY <2>11 DEF MarkStale, TypeOK, PollStates
      <3> QED
        BY <2>11, <3>1, <3>2 DEF MarkStale, TypeOK, StoreTypeOK, gatewayVars
    <2>12. ASSUME NEW w \in Workers, Cleanup(w) PROVE TypeOK'
      <3>1. StoreTypeOK'
        BY <2>0, <2>12, CleanupType DEF Cleanup, StoreTypeOK, storeVars
      <3> QED
        BY <2>12, <3>1
        DEF Cleanup, TypeOK, StoreTypeOK, gatewayVars, PollStates
    <2>13. ASSUME NEW w \in Workers, NEW i \in Ids, Claim(w, i) PROVE TypeOK'
      <3>1. StoreTypeOK'
        BY <2>0, <2>13, ClaimType DEF Claim
      <3>2. job' \in [Ids -> Job]
        <4> DEFINE new == [pc |-> "claimed", worker |-> w,
                           request |-> store[i].request,
                           cancelled |-> wstate[w] # "running"]
        <4>1. store[i].request \in BOOLEAN
          BY DEF TypeOK, Entry
        <4>2. (wstate[w] # "running") \in BOOLEAN
          BY Zenon
        <4>3. new \in Job
          BY <4>1, <4>2 DEF Job, JobStates, LiveStates
        <4>4. job' = [job EXCEPT ![i] = new]
          BY <2>13 DEF Claim
        <4> QED
          BY <4>3, <4>4 DEF TypeOK
      <3> QED
        BY <2>13, <3>1, <3>2
        DEF Claim, TypeOK, StoreTypeOK, DeleteStates, PollStates
    <2>14. ASSUME NEW w \in Workers, NEW i \in Ids, ClaimLost(w, i)
           PROVE  TypeOK'
      <3>1. StoreTypeOK'
        BY <2>0, <2>14, ClaimType DEF ClaimLost
      <3>2. job' \in [Ids -> Job]
        BY <2>14 DEF ClaimLost, TypeOK, Job, NoJob, JobStates
      <3> QED
        BY <2>14, <3>1, <3>2
        DEF ClaimLost, Fault, TypeOK, StoreTypeOK, gatewayVars, PollStates
    <2>15. ASSUME NEW w \in Workers, ClaimNothing(w) PROVE TypeOK'
      BY <2>15 DEF ClaimNothing, TypeOK, storeVars, gatewayVars, PollStates
    <2>16. ASSUME NEW w \in Workers, LoopExit(w) PROVE TypeOK'
      BY <2>16 DEF LoopExit, TypeOK, storeVars, gatewayVars, PollStates
    <2>17. ASSUME NEW i \in Ids, StartJob(i) PROVE TypeOK'
      <3>1. {"running", "mark_failed"} \subseteq JobStates
        BY DEF JobStates, LiveStates, RegisteredStates, MarkStates
      <3>2. job' \in [Ids -> Job]
        BY <2>17, <3>1, JobMoves DEF StartJob, TypeOK
      <3> QED
        BY <2>17, <3>2 DEF StartJob, TypeOK, storeVars, gatewayVars
    <2>18. ASSUME NEW i \in Ids, EngineReturns(i) PROVE TypeOK'
      <3>1. StoreTypeOK'
        BY <2>0, <2>18, SaveCopyType DEF EngineReturns, StoreTypeOK, storeVars
      <3>2. job' \in [Ids -> Job]
        BY <2>18, JobMoves, AfterEngineType DEF EngineReturns, TypeOK
      <3> QED
        BY <2>18, <3>1, <3>2 DEF EngineReturns, TypeOK, StoreTypeOK, gatewayVars
    <2>19. ASSUME NEW i \in Ids, Mark(i) PROVE TypeOK'
      <3>1. StoreTypeOK'
        BY <2>0, <2>19, UpdateResponseType DEF Mark, MarkStatus
      <3>2. job' \in [Ids -> Job]
        BY <2>19 DEF Mark, TypeOK, Job, JobStates, LiveStates, RegisteredStates
      <3> QED
        BY <2>19, <3>1, <3>2 DEF Mark, TypeOK, StoreTypeOK, gatewayVars
    <2>20. ASSUME NEW i \in Ids, MarkLost(i) PROVE TypeOK'
      <3>1. "marked" \in JobStates
        BY DEF JobStates, LiveStates, RegisteredStates
      <3>2. job' \in [Ids -> Job]
        BY <2>20, <3>1, JobMoves DEF MarkLost, TypeOK
      <3> QED
        BY <2>20, <3>2 DEF MarkLost, Fault, TypeOK, storeVars, gatewayVars
    <2>21. ASSUME NEW i \in Ids, Finish(i) PROVE TypeOK'
      BY <2>21 DEF Finish, TypeOK, Job, NoJob, JobStates, storeVars, gatewayVars
    <2>22. ASSUME NEW i \in Ids, Heartbeat(i) PROVE TypeOK'
      <3>1. store' \in [Ids -> Entry]
        BY <2>0, <2>22, HeartbeatType DEF Heartbeat, RefreshHeartbeat, Heartbeats
      <3> QED
        BY <2>22, <3>1
        DEF Heartbeat, RefreshHeartbeat, TypeOK, gatewayVars, workerVars
    <2>23. ASSUME NEW i \in Ids, Expire(i) PROVE TypeOK'
      <3>1. store' \in [Ids -> Entry]
        BY <2>0, <2>23, HeartbeatType DEF Expire, Heartbeats
      <3> QED
        BY <2>23, <3>1 DEF Expire, Fault, TypeOK, gatewayVars, workerVars
    <2>24. ASSUME NEW w \in Workers, Stop(w) PROVE TypeOK'
      <3>1. job' \in [Ids -> Job]
        BY <2>24 DEF Stop, TypeOK, Job
      <3> QED
        BY <2>24, <3>1
        DEF Stop, Fault, TypeOK, WorkerStates, storeVars, gatewayVars
    <2>25. ASSUME NEW w \in Workers, Drained(w) PROVE TypeOK'
      BY <2>25 DEF Drained, TypeOK, WorkerStates, storeVars, gatewayVars
    <2>26. ASSUME NEW w \in Workers, DrainTimeout(w) PROVE TypeOK'
      BY <2>26 DEF DrainTimeout, JobsOf, TypeOK, WorkerStates, storeVars,
                   gatewayVars
    <2>27. ASSUME NEW w \in Workers, NEW i \in Ids, DrainMark(w, i)
           PROVE  TypeOK'
      <3>1. StoreTypeOK'
        BY <2>0, <2>27, UpdateResponseType DEF DrainMark
      <3> QED
        BY <2>27, <3>1 DEF DrainMark, TypeOK, StoreTypeOK, gatewayVars
    <2>28. ASSUME NEW w \in Workers, DrainDone(w) PROVE TypeOK'
      BY <2>28 DEF DrainDone, TypeOK, WorkerStates, storeVars, gatewayVars
    <2>29. ASSUME NEW w \in Workers, ProcessEnds(w), faults' \in Nat
           PROVE  TypeOK'
      <3>1. job' \in [Ids -> Job]
        BY <2>29 DEF ProcessEnds, TypeOK, Job, NoJob, JobStates
      <3> QED
        BY <2>29, <3>1 DEF ProcessEnds, TypeOK, WorkerStates, PollStates,
                           storeVars, gatewayVars
    <2>30. ASSUME NEW w \in Workers, Exit(w) PROVE TypeOK'
      BY <2>29, <2>30 DEF Exit, TypeOK
    <2>31. ASSUME NEW w \in Workers, Crash(w) PROVE TypeOK'
      BY <2>29, <2>31 DEF Crash, Fault, TypeOK
    <2>32. ASSUME NEW w \in Workers, Restart(w) PROVE TypeOK'
      BY <2>32 DEF Restart, TypeOK, WorkerStates, storeVars, gatewayVars
    <2>33. ASSUME TtlPasses, UNCHANGED <<gatewayVars, workerVars, faults>>
           PROVE  TypeOK'
      BY <2>33 DEF TtlPasses, TypeOK, gatewayVars, workerVars
    <2>34. CASE UNCHANGED vars
      BY <2>34 DEF vars, TypeOK, storeVars, gatewayVars, workerVars
    <2> QED
      BY <2>1, <2>2, <2>3, <2>4, <2>5, <2>6, <2>7, <2>8, <2>9, <2>10,
         <2>11, <2>12, <2>13, <2>14, <2>15, <2>16, <2>17, <2>18, <2>19, <2>20,
         <2>21, <2>22, <2>23, <2>24, <2>25, <2>26, <2>27, <2>28, <2>30, <2>31,
         <2>32, <2>33, <2>34
      DEF Next, CreateStep, DeleteStep, PollStep, JobStep, StopStep
  <1> QED
    BY <1>1, <1>2, PTL DEF Spec

-----------------------------------------------------------------------------
(***************************************************************************)
(* Most steps are quiet: no response enters the store, a status changes    *)
(* only to an end, and no job begins.                                      *)
(***************************************************************************)
Ends == {"completed", "failed", "cancelled"}

QuietStore ==
    \A j \in Ids :
       /\ store'[j].present => store[j].present
       /\ \/ store'[j].status = store[j].status
          \/ store[j].present /\ store'[j].status \in Ends

QuietJobs ==
    \A j \in Ids : job[j].pc = "none" => job'[j].pc = "none"

QuietCreate ==
    \A j \in Ids : create'[j] = "new" => create[j] = "new"

Quiet == QuietStore /\ QuietJobs /\ QuietCreate

\* UpdateResponse revives nothing and starts nothing.
LEMMA UpdateQuiet ==
    ASSUME StoreTypeOK, NEW i \in Ids, NEW to \in Ends, UpdateResponse(i, to)
    PROVE  QuietStore
  BY DEF StoreTypeOK, UpdateResponse, Updated, UpdateAccepted, QuietStore, Entry

\* The TTL clean-up revives nothing and starts nothing.
LEMMA CleanupQuiet ==
    ASSUME StoreTypeOK, CleanupExpired
    PROVE  QuietStore
  <1>1. PICK batch \in SUBSET Expired :
             store' = [i \in Ids |-> IF i \in batch
                                     THEN [store[i] EXCEPT !.present = FALSE]
                                     ELSE store[i]]
    BY DEF CleanupExpired
  <1> QED
    BY <1>1 DEF StoreTypeOK, Entry, QuietStore

\* Saving the engine's copy revives nothing and starts nothing.
LEMMA CopyQuiet ==
    ASSUME StoreTypeOK, NEW i \in Ids, SaveCopy(i)
    PROVE  QuietStore
  BY DEF StoreTypeOK, SaveCopy, AfterEviction, Entry, QuietStore

(***************************************************************************)
(* Every step is quiet, or queues a response, or claims one.               *)
(***************************************************************************)
LEMMA QuietSteps ==
    ASSUME TypeOK, [Next]_vars
    PROVE  \/ Quiet
           \/ \E i \in Ids : QueueResponse(i)
           \/ \E w \in Workers, i \in Ids : Claim(w, i) \/ ClaimLost(w, i)
  <1>0. StoreTypeOK
    BY DEF TypeOK, StoreTypeOK
  <1>a. ASSUME UNCHANGED store PROVE QuietStore
    BY <1>a DEF QuietStore
  <1>b. ASSUME UNCHANGED job PROVE QuietJobs
    BY <1>b DEF QuietJobs
  <1>c. ASSUME UNCHANGED create PROVE QuietCreate
    BY <1>c DEF QuietCreate
  <1>1. ASSUME NEW i \in Ids, CreateStep(i) PROVE Quiet
    <2>1. QuietStore
      BY <1>1, <1>0, <1>a
      DEF CreateStep, SaveBackgroundRequest, SaveRequest,
          SaveBackgroundRequestFails, storeVars, QuietStore, StoreTypeOK, Entry
    <2>2. QuietCreate
      BY <1>1 DEF CreateStep, SaveBackgroundRequest,
                  SaveBackgroundRequestFails, QuietCreate, TypeOK
    <2> QED
      BY <1>1, <1>b, <2>1, <2>2
      DEF CreateStep, SaveBackgroundRequest, SaveBackgroundRequestFails,
          workerVars, Quiet
  <1>2. ASSUME NEW i \in Ids, DeleteGet(i) \/ DeleteStep(i) PROVE Quiet
    <2>1. QuietStore
      <3>1. ASSUME DeleteSoft(i) PROVE QuietStore
        BY <3>1, <1>0
        DEF DeleteSoft, DeleteResponse, QuietStore, StoreTypeOK, Entry
      <3>2. ASSUME DeleteCancel(i) PROVE QuietStore
        BY <3>2, <1>0, UpdateQuiet DEF DeleteCancel, Ends
      <3> QED
        BY <1>2, <1>a, <3>1, <3>2
        DEF DeleteStep, DeleteGet, DeleteDecide, DeleteSignal, storeVars
    <2>2. QuietJobs
      <3>1. ASSUME DeleteSignal(i) PROVE QuietJobs
        BY <3>1 DEF DeleteSignal, QuietJobs, TypeOK, Job
      <3> QED
        BY <1>2, <1>b, <3>1
        DEF DeleteStep, DeleteGet, DeleteDecide, DeleteCancel, DeleteSoft,
            workerVars
    <2> QED
      BY <1>2, <1>c, <2>1, <2>2
      DEF DeleteStep, DeleteGet, DeleteDecide, DeleteCancel, DeleteSignal,
          DeleteSoft, Quiet
  <1>3. ASSUME NEW i \in Ids, JobStep(i) PROVE Quiet
    <2>1. QuietStore
      <3>1. ASSUME EngineReturns(i) PROVE QuietStore
        BY <3>1, <1>0, <1>a, CopyQuiet DEF EngineReturns, storeVars
      <3>2. ASSUME Mark(i) PROVE QuietStore
        BY <3>2, <1>0, UpdateQuiet DEF Mark, MarkStatus, Ends
      <3> QED
        BY <1>3, <1>a, <3>1, <3>2 DEF JobStep, StartJob, MarkLost, Finish, storeVars
    <2>2. QuietJobs
      BY <1>3 DEF JobStep, StartJob, EngineReturns, Mark, MarkLost, Finish,
                  MarkStates, QuietJobs, TypeOK
    <2> QED
      BY <1>3, <1>c, <2>1, <2>2
      DEF JobStep, StartJob, EngineReturns, Mark, MarkLost, Finish, gatewayVars,
          Quiet
  <1>4. ASSUME NEW i \in Ids, Heartbeat(i) \/ Expire(i) PROVE Quiet
    <2>1. QuietStore
      BY <1>4, <1>0 DEF Heartbeat, RefreshHeartbeat, Expire, QuietStore,
                        StoreTypeOK, Entry
    <2> QED
      BY <1>4, <1>b, <1>c, <2>1 DEF Heartbeat, Expire, gatewayVars, workerVars, Quiet
  <1>5. ASSUME NEW w \in Workers,
               \/ Poll(w) \/ Cleanup(w) \/ ClaimNothing(w)
               \/ \E i \in Ids : MarkStale(w, i)
        PROVE  Quiet
    <2>1. QuietStore
      <3>1. ASSUME Cleanup(w) PROVE QuietStore
        BY <3>1, <1>0, <1>a, CleanupQuiet DEF Cleanup, storeVars
      <3>2. ASSUME NEW i \in Ids, MarkStale(w, i) PROVE QuietStore
        BY <3>2, <1>0, <1>a, UpdateQuiet DEF MarkStale, storeVars, Ends
      <3> QED
        BY <1>5, <1>a, <3>1, <3>2 DEF Poll, ClaimNothing, storeVars
    <2> QED
      BY <1>5, <1>b, <1>c, <2>1
      DEF Poll, Cleanup, ClaimNothing, MarkStale, gatewayVars, Quiet
  <1>6. ASSUME NEW w \in Workers, StopStep(w) \/ Stop(w) \/ Crash(w) PROVE Quiet
    <2>1. QuietStore
      <3>1. ASSUME NEW i \in Ids, DrainMark(w, i) PROVE QuietStore
        BY <3>1, <1>0, UpdateQuiet DEF DrainMark, Ends
      <3> QED
        BY <1>6, <1>a, <3>1
        DEF StopStep, LoopExit, Drained, DrainTimeout, DrainDone, Exit, Crash,
            ProcessEnds, Restart, Stop, storeVars
    <2>2. QuietJobs
      <3>1. ASSUME Stop(w) PROVE QuietJobs
        BY <3>1 DEF Stop, QuietJobs, JobsOf, LiveStates, RegisteredStates,
                    MarkStates, TypeOK, Job
      <3>2. ASSUME ProcessEnds(w) PROVE QuietJobs
        BY <3>2 DEF ProcessEnds, QuietJobs, JobsOf, LiveStates,
                    RegisteredStates, MarkStates
      <3> QED
        BY <1>6, <1>b, <3>1, <3>2
        DEF StopStep, LoopExit, Drained, DrainTimeout, DrainDone, DrainMark,
            Exit, Crash, Restart
    <2> QED
      BY <1>6, <1>c, <2>1, <2>2
      DEF StopStep, LoopExit, Drained, DrainTimeout, DrainDone, DrainMark, Exit,
          Crash, ProcessEnds, Restart, Stop, gatewayVars, Quiet
  <1>7. ASSUME GatewayCrash PROVE Quiet
    <2>1. QuietCreate
      BY <1>7 DEF GatewayCrash, QuietCreate
    <2> QED
      BY <1>7, <1>a, <1>b, <2>1 DEF GatewayCrash, storeVars, workerVars, Quiet
  <1>8. ASSUME TtlPasses, UNCHANGED <<gatewayVars, workerVars, faults>>
        PROVE  Quiet
    BY <1>8, <1>a, <1>b, <1>c DEF TtlPasses, gatewayVars, workerVars, Quiet
  <1>9. ASSUME UNCHANGED vars PROVE Quiet
    BY <1>9, <1>a, <1>b, <1>c
    DEF vars, storeVars, gatewayVars, workerVars, Quiet
  <1> QED
    BY <1>1, <1>2, <1>3, <1>4, <1>5, <1>6, <1>7, <1>8, <1>9
    DEF Next, PollStep

(***************************************************************************)
(* The invariant behind ClaimedOnce: a response the gateway has not saved  *)
(* is not in the store, and one that was never claimed has no job.         *)
(***************************************************************************)
UnclaimedHasNoJob ==
    \A i \in Ids :
       /\ create[i] = "new" => ~store[i].present /\ store[i].status = NoStatus
       /\ store[i].status \in {NoStatus, "queued"} => job[i].pc = "none"

\* Initially nothing is saved and nothing is claimed.
LEMMA UnclaimedInit == Init => UnclaimedHasNoJob
  BY DEF Init, StoreInit, NoEntry, NoJob, UnclaimedHasNoJob

\* Only a claim takes a response out of queued and gives it a job;
\* UnclaimedHasNoJob is inductive.
LEMMA UnclaimedStep ==
    TypeOK /\ UnclaimedHasNoJob /\ [Next]_vars => UnclaimedHasNoJob'
  <1> SUFFICES ASSUME TypeOK, UnclaimedHasNoJob, [Next]_vars
               PROVE  UnclaimedHasNoJob'
    OBVIOUS
  <1>1. CASE Quiet
    BY <1>1 DEF Quiet, QuietStore, QuietJobs, QuietCreate, Ends, NoStatus,
                UnclaimedHasNoJob
  <1>2. ASSUME NEW i \in Ids, QueueResponse(i) PROVE UnclaimedHasNoJob'
    <2>1. job' = job /\ create' = [create EXCEPT ![i] = "saved"]
      BY <1>2 DEF QueueResponse, workerVars
    <2>2. \A j \in Ids \ {i} : /\ store'[j].status = store[j].status
                               /\ store'[j].present => store[j].present
      BY <1>2 DEF QueueResponse, SaveResponse, AfterEviction, TypeOK, Entry
    <2>3. job[i].pc = "none"
      BY <1>2 DEF QueueResponse, UnclaimedHasNoJob, NoStatus
    <2> QED
      BY <2>1, <2>2, <2>3 DEF UnclaimedHasNoJob, TypeOK
  <1>3. ASSUME NEW w \in Workers, NEW i \in Ids, Claim(w, i) \/ ClaimLost(w, i)
        PROVE  UnclaimedHasNoJob'
    <2>1. ClaimQueuedResponse(i, Locked(w)) /\ create' = create
      BY <1>3 DEF Claim, ClaimLost, gatewayVars
    <2>2. \A j \in Ids \ {i} : store'[j] = store[j] /\ job'[j] = job[j]
      BY <1>3, <2>1 DEF ClaimQueuedResponse, Claim, ClaimLost, TypeOK
    <2>3. store'[i].status = "in_progress" /\ create[i] # "new"
      BY <2>1 DEF ClaimQueuedResponse, Claimable, UnclaimedHasNoJob, TypeOK, Entry
    <2> QED
      BY <2>1, <2>2, <2>3 DEF UnclaimedHasNoJob, NoStatus
  <1> QED
    BY <1>1, <1>2, <1>3, QuietSteps

(***************************************************************************)
(* Each response is claimed at most once, by one worker, in both stores    *)
(* (ClaimQueuedResponse; FR-007, "preventing duplicate processing").       *)
(***************************************************************************)
THEOREM OneClaim == Spec => ClaimedOnce
  <1> DEFINE Fresh == \A w \in Workers, i \in Ids :
                         Claim(w, i) \/ ClaimLost(w, i) => job[i].pc = "none"
  <1>1. UnclaimedHasNoJob => Fresh
    <2> SUFFICES ASSUME UnclaimedHasNoJob, NEW w \in Workers, NEW i \in Ids,
                        Claim(w, i) \/ ClaimLost(w, i)
                 PROVE  job[i].pc = "none"
      OBVIOUS
    <2>1. Claimable(i)
      BY DEF Claim, ClaimLost, ClaimQueuedResponse
    <2> QED
      BY <2>1 DEF Claimable, UnclaimedHasNoJob
  <1> QED
    BY <1>1, UnclaimedInit, UnclaimedStep, TypeCorrect, PTL
    DEF Spec, ClaimedOnce

-----------------------------------------------------------------------------
(***************************************************************************)
(* What the background mode does to a stored response, one response and one *)
(* step at a time, and what follows for its life cycle, its contents, its  *)
(* cancellation and its deletion.                                          *)
(***************************************************************************)

-----------------------------------------------------------------------------
(***************************************************************************)
(* The two most common effects of a step on a response.  It is left as it  *)
(* is, but for its heartbeat, its request and the deletion mark, or leaves *)
(* the store; or UpdateResponse accepts a final status.                    *)
(***************************************************************************)
SameCreate(j) == (create'[j] = "new") = (create[j] = "new")

Still(j) ==
    /\ store'[j].status = store[j].status
    /\ store'[j].result = store[j].result
    /\ store'[j].error = store[j].error
    /\ store'[j].present => store[j].present
    /\ store[j].present /\ ~store'[j].present =>
         store[j].status \in Ends \/ MaxSize > 0
    /\ store'[j].deleted => store[j].deleted \/ store[j].present
    /\ store'[j].background => store[j].background \/ store'[j].request
    /\ store[j].request => store'[j].request
    /\ store[j].deleted => store'[j].deleted
    /\ store'[j].created = store[j].created
    /\ \/ store'[j].heartbeat = store[j].heartbeat
       \/ Expire(j) \/ RefreshHeartbeat(j)
    /\ \/ /\ store'[j].request = store[j].request
          /\ store'[j].background = store[j].background
       \/ SaveBackgroundRequest(j)
    /\ SameCreate(j)

Ended(j) ==
    /\ \E to \in Ends :
         /\ UpdateAccepted(j, to)
         /\ store'[j] = [store[j] EXCEPT !.status = to,
                                         !.result = @ \/ to = "completed",
                                         !.error = @ \/ to = "failed"]
    /\ SameCreate(j)

Claimed(j) == \E w \in Workers : Claim(w, j) \/ ClaimLost(w, j)

\* A step that does not touch a response leaves it as it is.
LEMMA Untouched ==
    ASSUME NEW j \in Ids, store'[j] = store[j], SameCreate(j)
    PROVE  Still(j)
  BY DEF Still

\* A response the capacity pushes out is otherwise as it was.
LEMMA Evicted ==
    ASSUME StoreTypeOK, NEW j \in Ids, store'[j] = AfterEviction[j],
           SameCreate(j)
    PROVE  Still(j)
  BY DEF StoreTypeOK, Entry, AfterEviction, Full, Still

\* UpdateResponse touches one response, or none.
LEMMA UpdateMoves ==
    ASSUME StoreTypeOK, NEW i \in Ids, NEW to \in Ends, UpdateResponse(i, to),
           NEW j \in Ids, SameCreate(j)
    PROVE  Still(j) \/ (j = i /\ Ended(j))
  <1>1. CASE j = i /\ UpdateAccepted(i, to)
    BY <1>1 DEF StoreTypeOK, UpdateResponse, Updated, Ended
  <1>2. CASE j # i \/ ~UpdateAccepted(i, to)
    <2>1. store'[j] = store[j]
      BY <1>2 DEF StoreTypeOK, UpdateResponse, Updated
    <2> QED
      BY <2>1, Untouched
  <1> QED
    BY <1>1, <1>2

\* What the TTL clean-up removes has ended.
LEMMA CleanupMoves ==
    ASSUME StoreTypeOK, CleanupExpired, NEW j \in Ids, SameCreate(j)
    PROVE  Still(j)
  <1>1. PICK batch \in SUBSET Expired :
             store' = [i \in Ids |-> IF i \in batch
                                     THEN [store[i] EXCEPT !.present = FALSE]
                                     ELSE store[i]]
    BY DEF CleanupExpired
  <1>2. CASE j \in batch
    BY <1>1, <1>2 DEF StoreTypeOK, Entry, Expired, Ends, Still
  <1>3. CASE j \notin batch
    BY <1>1, <1>3, Untouched
  <1> QED
    BY <1>2, <1>3

(***************************************************************************)
(* The gateway's steps, the worker's and the jobs': each leaves a response *)
(* alone or ends it, unless it queues or claims it.                        *)
(***************************************************************************)
LEMMA GatewayMoves ==
    ASSUME TypeOK, NEW i \in Ids, NEW j \in Ids,
           \/ QueueResponse(i) \/ CreateStep(i) \/ DeleteGet(i)
           \/ DeleteStep(i)
    PROVE  Still(j) \/ Ended(j) \/ QueueResponse(j)
  <1>0. StoreTypeOK
    BY DEF TypeOK, StoreTypeOK
  <1>1. CASE QueueResponse(i)
    <2>1. CASE j # i
      <3>1. store'[j] = AfterEviction[j]
        BY <1>1, <2>1, <1>0, EvictionType DEF QueueResponse, SaveResponse
      <3>2. SameCreate(j)
        BY <1>1, <2>1 DEF QueueResponse, SameCreate, TypeOK
      <3> QED
        BY <1>0, <3>1, <3>2, Evicted
    <2> QED
      BY <1>1, <2>1
  <1>2. CASE SaveBackgroundRequest(i)
    <2>1. SameCreate(j)
      BY <1>2 DEF SaveBackgroundRequest, SameCreate, TypeOK
    <2>2. CASE j = i /\ store[i].present
      BY <1>2, <1>0, <2>1, <2>2
      DEF SaveBackgroundRequest, SaveRequest, StoreTypeOK, Entry, Still
    <2>3. CASE j # i \/ ~store[i].present
      <3>1. store'[j] = store[j]
        BY <1>2, <1>0, <2>3 DEF SaveBackgroundRequest, SaveRequest, StoreTypeOK
      <3> QED
        BY <2>1, <3>1, Untouched
    <2> QED
      BY <2>2, <2>3
  <1>3. CASE SaveBackgroundRequestFails(i)
    <2>1. SameCreate(j)
      BY <1>3 DEF SaveBackgroundRequestFails, SameCreate, TypeOK
    <2> QED
      BY <1>3, <2>1, Untouched DEF SaveBackgroundRequestFails, storeVars
  <1>4. CASE DeleteGet(i) \/ DeleteDecide(i) \/ DeleteSignal(i)
    BY <1>4, Untouched
    DEF DeleteGet, DeleteDecide, DeleteSignal, storeVars, SameCreate
  <1>5. CASE DeleteCancel(i)
    <2>1. SameCreate(j)
      BY <1>5 DEF DeleteCancel, SameCreate
    <2> QED
      BY <1>0, <1>5, <2>1, UpdateMoves DEF DeleteCancel, Ends
  <1>6. CASE DeleteSoft(i)
    <2>1. SameCreate(j)
      BY <1>6 DEF DeleteSoft, SameCreate
    <2>2. CASE j = i /\ store[i].present
      BY <1>6, <1>0, <2>1, <2>2
      DEF DeleteSoft, DeleteResponse, StoreTypeOK, Entry, Still
    <2>3. CASE j # i \/ ~store[i].present
      <3>1. store'[j] = store[j]
        BY <1>6, <1>0, <2>3 DEF DeleteSoft, DeleteResponse, StoreTypeOK
      <3> QED
        BY <2>1, <3>1, Untouched
    <2> QED
      BY <2>2, <2>3
  <1> QED
    BY <1>1, <1>2, <1>3, <1>4, <1>5, <1>6 DEF CreateStep, DeleteStep

\* A job refreshes a heartbeat, ends its response, or leaves it alone.
LEMMA JobMovesStore ==
    ASSUME TypeOK, NEW i \in Ids, NEW j \in Ids,
           JobStep(i) \/ Heartbeat(i) \/ Expire(i)
    PROVE  Still(j) \/ Ended(j)
  <1>0. StoreTypeOK
    BY DEF TypeOK, StoreTypeOK
  <1>1. SameCreate(j)
    BY DEF JobStep, StartJob, EngineReturns, Mark, MarkLost, Finish, Heartbeat,
           Expire, gatewayVars, SameCreate
  <1>2. CASE StartJob(i) \/ MarkLost(i) \/ Finish(i)
    BY <1>1, <1>2, Untouched DEF StartJob, MarkLost, Finish, storeVars
  <1>3. CASE EngineReturns(i)
    <2>1. CASE SaveCopy(i)
      BY <1>0, <1>1, <2>1, Evicted DEF SaveCopy
    <2>2. CASE UNCHANGED storeVars
      BY <1>1, <2>2, Untouched DEF storeVars
    <2> QED
      BY <1>3, <2>1, <2>2 DEF EngineReturns
  <1>4. CASE Mark(i)
    BY <1>0, <1>1, <1>4, UpdateMoves DEF Mark, MarkStatus, Ends
  <1>5. CASE Heartbeat(i) \/ Expire(i)
    BY <1>0, <1>1, <1>5
    DEF Heartbeat, RefreshHeartbeat, Expire, StoreTypeOK, Entry, Still
  <1> QED
    BY <1>2, <1>3, <1>4, <1>5 DEF JobStep

\* Of the worker's steps, the claim alone does more than end a response.
LEMMA WorkerMoves ==
    ASSUME TypeOK, NEW w \in Workers, NEW j \in Ids,
           PollStep(w) \/ StopStep(w) \/ Stop(w) \/ Crash(w)
    PROVE  Still(j) \/ Ended(j) \/ Claimed(j)
  <1>0. StoreTypeOK
    BY DEF TypeOK, StoreTypeOK
  <1>1. SameCreate(j)
    BY DEF PollStep, Poll, Cleanup, ClaimNothing, MarkStale, Claim, ClaimLost,
           StopStep, LoopExit, Drained, DrainTimeout, DrainDone, Exit,
           ProcessEnds, Restart, DrainMark, Stop, Crash, gatewayVars, SameCreate
  <1>2. CASE Poll(w) \/ ClaimNothing(w)
    BY <1>1, <1>2, Untouched DEF Poll, ClaimNothing, storeVars
  <1>3. CASE Cleanup(w)
    BY <1>0, <1>1, <1>3, CleanupMoves, Untouched DEF Cleanup, storeVars
  <1>4. ASSUME NEW i \in Ids, MarkStale(w, i) PROVE Still(j) \/ Ended(j)
    <2>1. CASE UpdateResponse(i, "failed")
      BY <1>0, <1>1, <2>1, UpdateMoves DEF Ends
    <2>2. CASE UNCHANGED storeVars
      BY <1>1, <2>2, Untouched DEF storeVars
    <2> QED
      BY <1>4, <2>1, <2>2 DEF MarkStale
  <1>5. ASSUME NEW i \in Ids, Claim(w, i) \/ ClaimLost(w, i)
        PROVE  Still(j) \/ Claimed(j)
    <2>1. CASE j = i
      BY <1>5, <2>1 DEF Claimed
    <2>2. CASE j # i
      <3>1. store'[j] = store[j]
        BY <1>0, <1>5, <2>2
        DEF Claim, ClaimLost, ClaimQueuedResponse, StoreTypeOK
      <3> QED
        BY <1>1, <3>1, Untouched
    <2> QED
      BY <2>1, <2>2
  <1>6. ASSUME NEW i \in Ids, DrainMark(w, i) PROVE Still(j) \/ Ended(j)
    BY <1>0, <1>1, <1>6, UpdateMoves DEF DrainMark, Ends
  <1>7. CASE \/ LoopExit(w) \/ Drained(w) \/ DrainTimeout(w) \/ DrainDone(w)
             \/ Exit(w) \/ Restart(w) \/ Stop(w) \/ Crash(w)
    BY <1>1, <1>7, Untouched
    DEF LoopExit, Drained, DrainTimeout, DrainDone, Exit, Restart, Stop, Crash,
        ProcessEnds, storeVars
  <1> QED
    BY <1>2, <1>3, <1>4, <1>5, <1>6, <1>7 DEF PollStep, StopStep

(***************************************************************************)
(* The four things a step can do to a stored response.                     *)
(***************************************************************************)
LEMMA StoreMoves ==
    ASSUME TypeOK, [Next]_vars, NEW j \in Ids
    PROVE  Still(j) \/ Ended(j) \/ QueueResponse(j) \/ Claimed(j)
  <1>1. CASE GatewayCrash
    <2>1. SameCreate(j)
      BY <1>1 DEF GatewayCrash, SameCreate
    <2> QED
      BY <1>1, <2>1, Untouched DEF GatewayCrash, storeVars
  <1>2. CASE TtlPasses /\ UNCHANGED <<gatewayVars, workerVars, faults>>
    BY <1>2, Untouched DEF TtlPasses, gatewayVars, SameCreate
  <1>3. CASE UNCHANGED vars
    BY <1>3, Untouched DEF vars, storeVars, gatewayVars, SameCreate
  <1> QED
    BY <1>1, <1>2, <1>3, GatewayMoves, JobMovesStore, WorkerMoves DEF Next

-----------------------------------------------------------------------------
(***************************************************************************)
(* The invariant behind the theorems: nothing is known of a response that  *)
(* has not been saved, what is stored has a status, and a DELETE is at     *)
(* work only on a response that was found.                                 *)
(***************************************************************************)
KnownWhenSaved ==
    \A i \in Ids :
       /\ create[i] = "new" =>
            /\ ~store[i].present /\ ~store[i].deleted
            /\ store[i].status = NoStatus
            /\ del[i] = "idle" /\ i \notin ack
       /\ store[i].present => store[i].status # NoStatus

\* A DELETE begins on what the store has, and ends where it began.
LEMMA DeleteMoves ==
    ASSUME TypeOK, [Next]_vars, NEW j \in Ids
    PROVE  /\ del'[j] # "idle" => del[j] # "idle" \/ store[j].present
           /\ j \in ack' => j \in ack \/ del[j] = "signal"
           /\ del'[j] = "signal" =>
                \/ del[j] = "signal"
                \/ UpdateAccepted(j, "cancelled") /\ store'[j].status = "cancelled"
  <1> DEFINE Goal ==
         /\ del'[j] # "idle" => del[j] # "idle" \/ store[j].present
         /\ j \in ack' => j \in ack \/ del[j] = "signal"
         /\ del'[j] = "signal" =>
              \/ del[j] = "signal"
              \/ UpdateAccepted(j, "cancelled") /\ store'[j].status = "cancelled"
  <1>a. /\ del \in [Ids -> DeleteStates]
        /\ store \in [Ids -> Entry]
    BY DEF TypeOK
  <1>1. ASSUME UNCHANGED <<del, ack>> PROVE Goal
    BY <1>1
  <1>2. ASSUME NEW i \in Ids, DeleteGet(i) PROVE Goal
    BY <1>2, <1>a DEF DeleteGet, GetFinds
  <1>3. ASSUME NEW i \in Ids, DeleteDecide(i) PROVE Goal
    BY <1>3, <1>a DEF DeleteDecide
  <1>4. ASSUME NEW i \in Ids, DeleteCancel(i) PROVE Goal
    <2>1. CASE UpdateAccepted(i, "cancelled")
      <3>1. store'[i].status = "cancelled"
        BY <1>4, <1>a, <2>1 DEF DeleteCancel, UpdateResponse, Updated, Entry
      <3> QED
        BY <1>4, <1>a, <2>1, <3>1 DEF DeleteCancel
    <2>2. CASE ~UpdateAccepted(i, "cancelled")
      BY <1>4, <1>a, <2>2 DEF DeleteCancel
    <2> QED
      BY <2>1, <2>2
  <1>5. ASSUME NEW i \in Ids, DeleteSignal(i) \/ DeleteSoft(i) PROVE Goal
    BY <1>5, <1>a DEF DeleteSignal, DeleteSoft
  <1>6. ASSUME GatewayCrash PROVE Goal
    BY <1>6 DEF GatewayCrash
  <1>7. ASSUME NEW w \in Workers, NEW i \in Ids, Claim(w, i) PROVE Goal
    BY <1>7, <1>a DEF Claim
  <1>8. ASSUME UNCHANGED vars PROVE Goal
    BY <1>1, <1>8 DEF vars, gatewayVars
  <1>9. ASSUME NEW i \in Ids,
               QueueResponse(i) \/ CreateStep(i) \/ JobStep(i)
                 \/ Heartbeat(i) \/ Expire(i)
        PROVE  Goal
    BY <1>1, <1>9
    DEF QueueResponse, CreateStep, SaveBackgroundRequest,
        SaveBackgroundRequestFails, JobStep, StartJob, EngineReturns, Mark,
        MarkLost, Finish, Heartbeat, Expire, gatewayVars
  <1>10. ASSUME NEW w \in Workers,
                \/ Poll(w) \/ Cleanup(w) \/ ClaimNothing(w)
                \/ \E i \in Ids : MarkStale(w, i) \/ ClaimLost(w, i)
                \/ StopStep(w) \/ Stop(w) \/ Crash(w)
         PROVE  Goal
    BY <1>1, <1>10
    DEF Poll, Cleanup, ClaimNothing, MarkStale, ClaimLost, StopStep, LoopExit,
        Drained, DrainTimeout, DrainDone, Exit, ProcessEnds, Restart, DrainMark,
        Stop, Crash, gatewayVars
  <1>11. ASSUME TtlPasses, UNCHANGED <<gatewayVars, workerVars, faults>>
         PROVE  Goal
    BY <1>1, <1>11 DEF gatewayVars
  <1> HIDE DEF Goal
  <1>12. Goal
    BY <1>2, <1>3, <1>4, <1>5, <1>6, <1>7, <1>8, <1>9, <1>10, <1>11
    DEF Next, DeleteStep, PollStep
  <1> QED
    BY <1>12 DEF Goal

\* A new response is well formed and queued, and its handler has moved on.
LEMMA QueuedEntry ==
    ASSUME TypeOK, NEW j \in Ids, QueueResponse(j)
    PROVE  /\ store'[j].present /\ store'[j].status = "queued"
           /\ ~store'[j].result /\ ~store'[j].error /\ ~store'[j].deleted
           /\ store'[j].background = Memory
           /\ create[j] = "new" /\ create'[j] # "new"
  <1>1. PICK c \in Seconds : SaveResponse(j, c)
    BY DEF QueueResponse
  <1>2. AfterEviction \in [Ids -> Entry]
    BY EvictionType DEF TypeOK, StoreTypeOK
  <1>3. store'[j] = [NoEntry EXCEPT !.present = TRUE, !.status = "queued",
                                    !.background = Memory, !.created = c]
    BY <1>1, <1>2 DEF SaveResponse
  <1>4. create[j] = "new" /\ create'[j] # "new"
    BY DEF QueueResponse, TypeOK
  <1> QED
    BY <1>3, <1>4 DEF NoEntry

\* A claim takes a queued response and leaves the rest of it alone.
LEMMA ClaimedEntry ==
    ASSUME TypeOK, NEW j \in Ids, Claimed(j)
    PROVE  /\ Claimable(j)
           /\ store'[j] = [store[j] EXCEPT !.status = "in_progress",
                                           !.heartbeat = "fresh"]
           /\ create' = create
  BY DEF Claimed, Claim, ClaimLost, ClaimQueuedResponse, TypeOK, gatewayVars

\* KnownWhenSaved is inductive.
LEMMA KnownInit == Init => KnownWhenSaved
  BY DEF Init, StoreInit, NoEntry, KnownWhenSaved

\* Every step of the code keeps KnownWhenSaved.
LEMMA KnownStep == TypeOK /\ KnownWhenSaved /\ [Next]_vars => KnownWhenSaved'
  <1> SUFFICES ASSUME TypeOK, KnownWhenSaved, [Next]_vars, NEW j \in Ids
               PROVE  /\ create'[j] = "new" =>
                           /\ ~store'[j].present /\ ~store'[j].deleted
                           /\ store'[j].status = NoStatus
                           /\ del'[j] = "idle" /\ j \notin ack'
                      /\ store'[j].present => store'[j].status # NoStatus
    BY DEF KnownWhenSaved
  <1>a. store[j] \in Entry
    BY DEF TypeOK
  <1>b. /\ create[j] = "new" =>
            /\ ~store[j].present /\ ~store[j].deleted
            /\ store[j].status = NoStatus
            /\ del[j] = "idle" /\ j \notin ack
        /\ store[j].present => store[j].status # NoStatus
    BY DEF KnownWhenSaved
  <1>1. CASE Still(j)
    BY <1>1, <1>b, DeleteMoves DEF Still, SameCreate
  <1>2. CASE Ended(j)
    <2>1. create'[j] # "new"
      BY <1>2, <1>b DEF Ended, UpdateAccepted, SameCreate
    <2>2. store'[j].status \in Ends
      BY <1>2, <1>a DEF Ended, Entry
    <2> QED
      BY <2>1, <2>2 DEF Ends, NoStatus
  <1>3. CASE QueueResponse(j)
    BY <1>3, QueuedEntry DEF NoStatus
  <1>4. CASE Claimed(j)
    <2>1. store'[j].status = "in_progress" /\ create'[j] # "new"
      BY <1>4, <1>a, <1>b, ClaimedEntry DEF Claimable, Entry
    <2> QED
      BY <2>1 DEF NoStatus
  <1> QED
    BY <1>1, <1>2, <1>3, <1>4, StoreMoves

\* The invariant the theorems below start from.
LEMMA AlwaysKnown == Spec => [](TypeOK /\ KnownWhenSaved)
  BY KnownInit, KnownStep, TypeCorrect, PTL DEF Spec

-----------------------------------------------------------------------------
(***************************************************************************)
(* The memory store validates every transition, so a response carries a    *)
(* result exactly when it completed and an error exactly when it failed,   *)
(* whatever marks, cancellations and stale detection race.                 *)
(***************************************************************************)
THEOREM ContentsAgree ==
    ASSUME Memory
    PROVE  Spec => []ResultConsistent
  <1>1. Init => ResultConsistent
    BY DEF Init, StoreInit, NoEntry, NoStatus, ResultConsistent
  <1>2. TypeOK /\ ResultConsistent /\ [Next]_vars => ResultConsistent'
    <2> SUFFICES ASSUME TypeOK, ResultConsistent, [Next]_vars, NEW j \in Ids
                 PROVE  /\ store'[j].result <=> store'[j].status = "completed"
                        /\ store'[j].error <=> store'[j].status = "failed"
      BY DEF ResultConsistent
    <2>a. /\ store[j] \in Entry
          /\ store[j].result <=> store[j].status = "completed"
          /\ store[j].error <=> store[j].status = "failed"
      BY DEF TypeOK, ResultConsistent
    <2>1. CASE Still(j)
      BY <2>1, <2>a DEF Still
    <2>2. CASE Ended(j)
      <3>1. PICK to \in Ends :
              /\ UpdateAccepted(j, to)
              /\ store'[j] = [store[j] EXCEPT !.status = to,
                                              !.result = @ \/ to = "completed",
                                              !.error = @ \/ to = "failed"]
        BY <2>2 DEF Ended
      <3>2. store[j].status \in {NoStatus, "queued", "in_progress"}
        BY <3>1 DEF UpdateAccepted, ValidResponseTransition
      <3>3. ~store[j].result /\ ~store[j].error
        BY <2>a, <3>2 DEF NoStatus
      <3>4. /\ store'[j].status = to
            /\ store'[j].result <=> store[j].result \/ to = "completed"
            /\ store'[j].error <=> store[j].error \/ to = "failed"
        BY <3>1, <2>a DEF Entry
      <3> QED
        BY <3>3, <3>4
    <2>3. CASE QueueResponse(j)
      BY <2>3, QueuedEntry
    <2>4. CASE Claimed(j)
      <3>1. /\ store[j].status = "queued" /\ store'[j].status = "in_progress"
            /\ store'[j].result = store[j].result
            /\ store'[j].error = store[j].error
        BY <2>4, <2>a, ClaimedEntry DEF Claimable, Entry
      <3> QED
        BY <2>a, <3>1
    <2> QED
      BY <2>1, <2>2, <2>3, <2>4, StoreMoves
  <1> QED
    BY <1>1, <1>2, TypeCorrect, PTL DEF Spec

(***************************************************************************)
(* The deleted_at IS NULL conditions of the PostgreSQL store: no claim,    *)
(* mark, heartbeat or cancellation changes a response that was deleted.    *)
(***************************************************************************)
THEOREM DeletedStays ==
    ASSUME Postgres
    PROVE  Spec => DeletedFrozen
  <1> DEFINE Same(i) ==
               /\ \A field \in {"status", "result", "error", "deleted",
                               "created"} :
                     store'[i][field] = store[i][field]
               /\ store'[i].heartbeat = store[i].heartbeat \/ Expire(i)
               /\ \/ /\ store'[i].request = store[i].request
                     /\ store'[i].background = store[i].background
                  \/ SaveBackgroundRequest(i)
             Frozen == \A i \in Ids : store[i].deleted => Same(i)
  <1>1. TypeOK /\ TypeOK' /\ KnownWhenSaved /\ [Next]_vars => Frozen
    <2> SUFFICES ASSUME TypeOK, TypeOK', KnownWhenSaved, [Next]_vars, NEW j \in Ids,
                        store[j].deleted
                 PROVE  Same(j)
      OBVIOUS
    <2>1. ~Ended(j)
      BY DEF Ended, UpdateAccepted
    <2>2. ~QueueResponse(j)
      BY DEF QueueResponse, KnownWhenSaved
    <2>3. ~Claimed(j)
      BY ClaimedEntry DEF Claimable
    <2>4. Still(j)
      BY <2>1, <2>2, <2>3, StoreMoves
    <2>5. store[j] \in Entry /\ store'[j] \in Entry
      BY DEF TypeOK
    <2>6. store'[j].deleted = store[j].deleted
      BY <2>4, <2>5 DEF Still, Entry
    <2>7. ~RefreshHeartbeat(j)
      BY DEF RefreshHeartbeat
    <2> QED
      BY <2>4, <2>6, <2>7 DEF Still
  <1>2. TypeOK /\ TypeOK' /\ KnownWhenSaved /\ [Next]_vars => [Frozen]_vars
    BY <1>1
  <1> QED
    BY <1>2, AlwaysKnown, PTL DEF Spec, DeletedFrozen

(***************************************************************************)
(* What CancelSticks rests on: a handler that is about to confirm has      *)
(* cancelled, and the memory store lets no status follow on cancelled.     *)
(***************************************************************************)
ConfirmedCancelled ==
    \A i \in Ids : i \in ack \/ del[i] = "signal" =>
        store[i].status = "cancelled" /\ create[i] # "new"

\* A cancellation that was answered with 204 sticks (DELETE against a late
\* result, stale detection and the shutdown's marks).
THEOREM CancelStays ==
    ASSUME Memory
    PROVE  Spec => []CancelSticks
  <1>1. Init => ConfirmedCancelled
    BY DEF Init, ConfirmedCancelled
  <1>2. TypeOK /\ KnownWhenSaved /\ ConfirmedCancelled /\ [Next]_vars
          => ConfirmedCancelled'
    <2> SUFFICES ASSUME TypeOK, KnownWhenSaved, ConfirmedCancelled, [Next]_vars,
                        NEW j \in Ids, j \in ack' \/ del'[j] = "signal"
                 PROVE  store'[j].status = "cancelled" /\ create'[j] # "new"
      BY DEF ConfirmedCancelled
    <2>1. CASE j \in ack \/ del[j] = "signal"
      <3>1. store[j].status = "cancelled" /\ create[j] # "new"
        BY <2>1 DEF ConfirmedCancelled
      <3>2. ~Ended(j)
        BY <3>1 DEF Ended, UpdateAccepted, ValidResponseTransition, NoStatus
      <3>3. ~QueueResponse(j)
        BY <3>1 DEF QueueResponse
      <3>4. ~Claimed(j)
        BY <3>1, ClaimedEntry DEF Claimable
      <3> QED
        BY <3>1, <3>2, <3>3, <3>4, StoreMoves DEF Still, SameCreate
    <2>2. CASE ~(j \in ack \/ del[j] = "signal")
      <3>1. UpdateAccepted(j, "cancelled") /\ store'[j].status = "cancelled"
        BY <2>2, DeleteMoves
      <3>2. create[j] # "new"
        BY <3>1 DEF UpdateAccepted, KnownWhenSaved
      <3>3. ~QueueResponse(j)
        BY <3>2 DEF QueueResponse
      <3>4. create'[j] # "new"
        BY <3>2, <3>3, ClaimedEntry, StoreMoves DEF Still, Ended, SameCreate
      <3> QED
        BY <3>1, <3>4
    <2> QED
      BY <2>1, <2>2
  <1>3. TypeOK /\ ConfirmedCancelled => CancelSticks
    BY DEF TypeOK, ConfirmedCancelled, CancelSticks
  <1> QED
    BY <1>1, <1>2, <1>3, AlwaysKnown, PTL DEF Spec

-----------------------------------------------------------------------------
(***************************************************************************)
(* A job that has still to give its response a final status.               *)
(***************************************************************************)
Working == LiveStates \ {"marked"}

\* A job begins with a claim and the request the claim found, and in the
\* memory store's only process it works until its mark.
LEMMA JobChanges ==
    ASSUME TypeOK, [Next]_vars, NEW j \in Ids
    PROVE  /\ job'[j].pc = "claimed" =>
                \/ job[j].pc = "claimed" /\ job'[j].request = job[j].request
                \/ Claimed(j) /\ job'[j].request = store[j].request
           /\ Memory /\ job[j].pc \in Working =>
                job'[j].pc \in Working \/ Mark(j)
           /\ Memory /\ Claimed(j) => job'[j].pc = "claimed"
  <1> DEFINE Goal ==
         /\ job'[j].pc = "claimed" =>
              \/ job[j].pc = "claimed" /\ job'[j].request = job[j].request
              \/ Claimed(j) /\ job'[j].request = store[j].request
         /\ Memory /\ job[j].pc \in Working =>
              job'[j].pc \in Working \/ Mark(j)
  <1>a. /\ job \in [Ids -> Job] /\ job[j] \in Job
    BY DEF TypeOK
  <1>m. Memory => ~Postgres
    BY DEF Memory, Postgres
  <1>w. Working = {"claimed", "running"} \cup MarkStates
    BY DEF Working, LiveStates, RegisteredStates, MarkStates
  <1>1. ASSUME job'[j] = job[j] PROVE Goal
    BY <1>1
  <1>2. ASSUME NEW c \in BOOLEAN, job'[j] = [job[j] EXCEPT !.cancelled = c]
        PROVE  Goal
    BY <1>2, <1>a DEF Job
  <1>3. ASSUME NEW i \in Ids, JobStep(i) PROVE Goal
    <2>1. CASE j # i
      BY <1>1, <1>3, <1>a, <2>1
      DEF JobStep, StartJob, EngineReturns, Mark, MarkLost, Finish
    <2>2. CASE j = i
      <3>1. CASE StartJob(i)
        <4>1. job'[j].pc \in {"running", "mark_failed"}
          BY <3>1, <1>a, <2>2 DEF StartJob, Job
        <4> QED
          BY <4>1, <1>w DEF MarkStates
      <3>2. CASE EngineReturns(i)
        <4>1. job'[j].pc \in MarkStates
          BY <3>2, <1>a, <2>2 DEF EngineReturns, AfterEngine, MarkStates, Job
        <4> QED
          BY <4>1, <1>w DEF MarkStates
      <3>3. CASE Mark(i)
        <4>1. job'[j].pc = "marked"
          BY <3>3, <1>a, <2>2 DEF Mark, Job
        <4> QED
          BY <3>3, <2>2, <4>1
      <3>4. CASE MarkLost(i)
        <4>1. job'[j].pc = "marked" /\ ~Memory
          BY <3>4, <1>a, <1>m, <2>2 DEF MarkLost, Job
        <4> QED
          BY <4>1
      <3>5. CASE Finish(i)
        <4>1. job'[j].pc = "done" /\ job[j].pc = "marked"
          BY <3>5, <1>a, <2>2 DEF Finish, NoJob
        <4> QED
          BY <4>1 DEF Working
      <3> QED
        BY <1>3, <3>1, <3>2, <3>3, <3>4, <3>5 DEF JobStep
    <2> QED
      BY <2>1, <2>2
  <1>4. ASSUME NEW i \in Ids, DeleteSignal(i) PROVE Goal
    <2>1. job'[j] = job[j] \/ job'[j] = [job[j] EXCEPT !.cancelled = TRUE]
      BY <1>4, <1>a DEF DeleteSignal
    <2> QED
      BY <1>1, <1>2, <2>1
  <1>5. ASSUME NEW w \in Workers, Stop(w) PROVE Goal
    <2>1. job'[j] = job[j] \/ job'[j] = [job[j] EXCEPT !.cancelled = TRUE]
      BY <1>5, <1>a DEF Stop
    <2> QED
      BY <1>1, <1>2, <2>1
  <1>6. ASSUME NEW w \in Workers, NEW i \in Ids, Claim(w, i) PROVE Goal
    <2>1. CASE j = i
      <3>1. job'[j].pc = "claimed" /\ job'[j].request = store[j].request
        BY <1>6, <1>a, <2>1 DEF Claim
      <3> QED
        BY <1>6, <1>w, <2>1, <3>1 DEF Claimed
    <2>2. CASE j # i
      BY <1>1, <1>6, <1>a, <2>2 DEF Claim
    <2> QED
      BY <2>1, <2>2
  <1>7. ASSUME NEW w \in Workers, NEW i \in Ids, ClaimLost(w, i) PROVE Goal
    <2>1. job'[j].pc = "lost" \/ job'[j] = job[j]
      BY <1>7, <1>a DEF ClaimLost, NoJob
    <2>2. ~Memory
      BY <1>7, <1>m DEF ClaimLost
    <2> QED
      BY <1>1, <2>1, <2>2
  <1>8. ASSUME NEW w \in Workers, Exit(w) \/ Crash(w) PROVE Goal
    <2>1. job'[j].pc = "lost" \/ job'[j] = job[j]
      BY <1>8, <1>a DEF Exit, Crash, ProcessEnds, NoJob
    <2>2. ~Memory
      BY <1>8, <1>m DEF Exit, Crash
    <2> QED
      BY <1>1, <2>1, <2>2
  <1>9. ASSUME UNCHANGED job PROVE Goal
    BY <1>1, <1>9
  <1> HIDE DEF Goal
  <1>10. ASSUME NEW i \in Ids,
                \/ QueueResponse(i) \/ CreateStep(i) \/ DeleteGet(i)
                \/ DeleteDecide(i) \/ DeleteCancel(i) \/ DeleteSoft(i)
                \/ Heartbeat(i) \/ Expire(i)
         PROVE  Goal
    BY <1>9, <1>10
    DEF QueueResponse, CreateStep, SaveBackgroundRequest,
        SaveBackgroundRequestFails, DeleteGet, DeleteDecide, DeleteCancel,
        DeleteSoft, Heartbeat, Expire, workerVars
  <1>11. ASSUME NEW w \in Workers,
                \/ Poll(w) \/ Cleanup(w) \/ ClaimNothing(w)
                \/ LoopExit(w) \/ Drained(w) \/ DrainTimeout(w)
                \/ DrainDone(w) \/ Restart(w)
                \/ \E i \in Ids : MarkStale(w, i) \/ DrainMark(w, i)
         PROVE  Goal
    BY <1>9, <1>11
    DEF Poll, Cleanup, ClaimNothing, LoopExit, Drained, DrainTimeout, DrainDone,
        Restart, MarkStale, DrainMark
  <1>12. ASSUME GatewayCrash \/ (TtlPasses /\ UNCHANGED workerVars)
                  \/ UNCHANGED vars
         PROVE  Goal
    BY <1>9, <1>12 DEF GatewayCrash, vars, workerVars
  <1>13. Goal
    BY <1>3, <1>4, <1>5, <1>6, <1>7, <1>8, <1>10, <1>11, <1>12
    DEF Next, DeleteStep, PollStep, StopStep
  <1>14. Memory /\ Claimed(j) => job'[j].pc = "claimed"
    BY <1>a, <1>m DEF Claimed, Claim, ClaimLost
  <1> QED
    BY <1>13, <1>14 DEF Goal

\* SaveBackgroundRequest sets the background flag and the request in one UPDATE.
RequestWithFlag == \A i \in Ids : store[i].background => store[i].request

(***************************************************************************)
(* The rows of the PostgreSQL store are claimable only once the request is *)
(* saved with them, so every claim finds it, also when the gateway crashes *)
(* or the second statement fails.                                          *)
(***************************************************************************)
THEOREM ClaimsCarryRequest ==
    ASSUME Postgres
    PROVE  Spec => []ClaimCarriesRequest
  <1>1. Init => RequestWithFlag /\ ClaimCarriesRequest
    BY DEF Init, StoreInit, NoEntry, NoJob, RequestWithFlag, ClaimCarriesRequest
  <1>2. TypeOK /\ RequestWithFlag /\ ClaimCarriesRequest /\ [Next]_vars
          => RequestWithFlag' /\ ClaimCarriesRequest'
    <2> SUFFICES ASSUME TypeOK, RequestWithFlag, ClaimCarriesRequest,
                        [Next]_vars, NEW j \in Ids
                 PROVE  /\ store'[j].background => store'[j].request
                        /\ job'[j].pc = "claimed" => job'[j].request
      BY DEF RequestWithFlag, ClaimCarriesRequest
    <2>a. /\ store[j] \in Entry
          /\ store[j].background => store[j].request
          /\ job[j].pc = "claimed" => job[j].request
      BY DEF TypeOK, RequestWithFlag, ClaimCarriesRequest
    <2>1. store'[j].background => store'[j].request
      <3>1. CASE Still(j)
        BY <2>a, <3>1 DEF Still
      <3>2. CASE Ended(j)
        BY <2>a, <3>2 DEF Ended, Entry
      <3>3. CASE QueueResponse(j)
        BY <3>3, QueuedEntry DEF Memory, Postgres
      <3>4. CASE Claimed(j)
        BY <2>a, <3>4, ClaimedEntry DEF Entry
      <3> QED
        BY <3>1, <3>2, <3>3, <3>4, StoreMoves
    <2>2. job'[j].pc = "claimed" => job'[j].request
      <3>1. Claimed(j) => store[j].request
        BY <2>a, ClaimedEntry DEF Claimable
      <3> QED
        BY <2>a, <3>1, JobChanges
    <2> QED
      BY <2>1, <2>2
  <1> QED
    BY <1>1, <1>2, TypeCorrect, PTL DEF Spec

(***************************************************************************)
(* The memory store leaves no response in progress without a goroutine     *)
(* that will give it a final status, also while and after the worker is    *)
(* stopped: every path of processRequest ends in a mark.                   *)
(***************************************************************************)
THEOREM AlwaysAttended ==
    ASSUME Memory
    PROVE  Spec => []Attended
  <1>1. Init => Attended
    BY DEF Init, StoreInit, NoEntry, Attended
  <1>2. TypeOK /\ Attended /\ [Next]_vars => Attended'
    <2> SUFFICES ASSUME TypeOK, Attended, [Next]_vars, NEW j \in Ids,
                        store'[j].present, store'[j].status = "in_progress"
                 PROVE  job'[j].pc \in Working
      BY DEF Attended, Working
    <2>a. store[j] \in Entry
      BY DEF TypeOK
    <2>1. CASE Still(j)
      <3>1. store[j].present /\ store[j].status = "in_progress"
        BY <2>1 DEF Still
      <3>2. job[j].pc \in Working
        BY <3>1 DEF Attended, Working
      <3>3. ~Mark(j)
        <4>1. ASSUME Mark(j) PROVE FALSE
          <5>1. UpdateAccepted(j, MarkStatus(j))
            BY <3>1, <4>1
            DEF Mark, MarkStatus, UpdateAccepted, ValidResponseTransition,
                Memory, Postgres
          <5>2. store'[j].status = MarkStatus(j)
            BY <4>1, <5>1, <2>a
            DEF Mark, UpdateResponse, Updated, TypeOK, Entry
          <5> QED
            BY <5>2 DEF MarkStatus
        <4> QED
          BY <4>1
      <3> QED
        BY <3>2, <3>3, JobChanges
    <2>2. CASE Ended(j)
      <3>1. store'[j].status \in Ends
        BY <2>2, <2>a DEF Ended, Entry
      <3> QED
        BY <3>1 DEF Ends
    <2>3. CASE QueueResponse(j)
      BY <2>3, QueuedEntry
    <2>4. CASE Claimed(j)
      BY <2>4, JobChanges DEF Working, LiveStates
    <2> QED
      BY <2>1, <2>2, <2>3, <2>4, StoreMoves
  <1> QED
    BY <1>1, <1>2, TypeCorrect, PTL DEF Spec

-----------------------------------------------------------------------------
(***************************************************************************)
(* The background mode over the memory store implements the life cycle a   *)
(* client is promised (ResponseLifecycle), for every number of responses   *)
(* and every capacity.                                                     *)
(***************************************************************************)
THEOREM Refines ==
    ASSUME Memory
    PROVE  Spec => LifecycleRefinement
  <1> USE DEF Lifecycle!ClientStatuses, Lifecycle!Gone, Lifecycle!Moves,
              Lifecycle!NoStatus, NoStatus, Lifecycle!ResponseStatuses,
              ResponseStatuses, Lifecycle!TerminalStatuses,
              Lifecycle!ValidResponseTransition, ValidResponseTransition
  <1>1. Init => Lifecycle!LifecycleInit
    BY DEF Init, StoreInit, NoEntry, Lifecycle!LifecycleInit, VisibleStatus
  <1>2. TypeOK /\ TypeOK' /\ KnownWhenSaved /\ [Next]_vars
          => [Lifecycle!LifecycleNext]_VisibleStatus
    <2> SUFFICES ASSUME TypeOK, TypeOK', KnownWhenSaved, [Next]_vars
                 PROVE  Lifecycle!LifecycleNext
      OBVIOUS
    <2>1. VisibleStatus' \in [Ids -> Lifecycle!ClientStatuses]
      BY DEF VisibleStatus, TypeOK, Entry
    <2>2. ASSUME NEW j \in Ids
          PROVE  \/ VisibleStatus'[j] = VisibleStatus[j]
                 \/ Lifecycle!Moves(VisibleStatus[j], VisibleStatus'[j])
      <3> DEFINE Seen == IF store[j].present THEN store[j].status
                         ELSE IF create[j] = "new" THEN NoStatus ELSE "gone"
      <3>a. store[j] \in Entry
        BY DEF TypeOK
      <3>b. /\ VisibleStatus[j] = Seen /\ VisibleStatus'[j] = Seen'
        BY DEF VisibleStatus
      <3>1. CASE Still(j)
        BY <3>a, <3>b, <3>1
        DEF Still, SameCreate, KnownWhenSaved, Ends, Entry
      <3>2. CASE Ended(j)
        <4>1. PICK to \in Ends :
                /\ UpdateAccepted(j, to) /\ store'[j].status = to
                /\ store'[j].present
          BY <3>2, <3>a DEF Ended, UpdateAccepted, Entry
        <4>2. store[j].status # NoStatus
          BY <4>1 DEF UpdateAccepted, KnownWhenSaved
        <4> QED
          BY <3>b, <4>1, <4>2 DEF UpdateAccepted
      <3>3. CASE QueueResponse(j)
        BY <3>b, <3>3, QueuedEntry DEF KnownWhenSaved
      <3>4. CASE Claimed(j)
        <4>1. /\ store[j].present /\ store[j].status = "queued"
              /\ store'[j].present /\ store'[j].status = "in_progress"
          BY <3>4, <3>a, ClaimedEntry DEF Claimable, Entry
        <4> QED
          BY <3>b, <4>1
      <3> QED
        BY <3>1, <3>2, <3>3, <3>4, StoreMoves
    <2> QED
      BY <2>1, <2>2 DEF Lifecycle!LifecycleNext
  <1> QED
    BY <1>1, <1>2, AlwaysKnown, PTL
    DEF Spec, LifecycleRefinement, Lifecycle!LifecycleSpec

-----------------------------------------------------------------------------
(***************************************************************************)
(* The eviction list of a bounded memory store.                            *)
(***************************************************************************)
Early == {"none", "claimed", "running"}

\* No job returns to a point before the engine has answered.
JobsForward == \A j \in Ids : job'[j].pc \in Early => job[j].pc \in Early

LEMMA ForwardSteps ==
    ASSUME TypeOK, UnclaimedHasNoJob, [Next]_vars
    PROVE  JobsForward
  <1>a. job \in [Ids -> Job] /\ \A j \in Ids : job[j] \in Job
    BY DEF TypeOK
  <1>b. Early \cap MarkStates = {} /\ {"marked", "done", "lost"} \cap Early = {}
    BY DEF Early, MarkStates
  <1>1. ASSUME UNCHANGED job PROVE JobsForward
    BY <1>1 DEF JobsForward
  <1>2. ASSUME \A j \in Ids : \/ job'[j] = job[j]
                              \/ \E c \in BOOLEAN :
                                    job'[j] = [job[j] EXCEPT !.cancelled = c]
        PROVE  JobsForward
    <2> SUFFICES ASSUME NEW j \in Ids PROVE job'[j].pc = job[j].pc
      BY DEF JobsForward
    <2> QED
      BY <1>2, <1>a DEF Job
  <1>3. ASSUME NEW i \in Ids, JobStep(i) PROVE JobsForward
    <2> SUFFICES ASSUME NEW j \in Ids, job'[j].pc \in Early
                 PROVE  job[j].pc \in Early
      BY DEF JobsForward
    <2>1. CASE j # i
      <3>1. job'[j] = job[j]
        BY <1>3, <1>a, <2>1
        DEF JobStep, StartJob, EngineReturns, Mark, MarkLost, Finish
      <3> QED
        BY <3>1
    <2>2. CASE j = i
      <3>1. CASE StartJob(i) \/ EngineReturns(i)
        BY <2>2, <3>1 DEF StartJob, EngineReturns, Early
      <3>2. CASE Mark(i) \/ MarkLost(i)
        <4>1. job'[j].pc = "marked"
          BY <1>a, <2>2, <3>2 DEF Mark, MarkLost, Job
        <4> QED
          BY <1>b, <4>1
      <3>3. CASE Finish(i)
        <4>1. job'[j].pc = "done"
          BY <1>a, <2>2, <3>3 DEF Finish, NoJob
        <4> QED
          BY <1>b, <4>1
      <3> QED
        BY <1>3, <3>1, <3>2, <3>3 DEF JobStep
    <2> QED
      BY <2>1, <2>2
  <1>4. ASSUME NEW i \in Ids, DeleteSignal(i) PROVE JobsForward
    BY <1>2, <1>4, <1>a DEF DeleteSignal
  <1>5. ASSUME NEW w \in Workers, Stop(w) PROVE JobsForward
    BY <1>2, <1>5, <1>a DEF Stop
  <1>6. ASSUME NEW w \in Workers, NEW i \in Ids, Claim(w, i) \/ ClaimLost(w, i)
        PROVE  JobsForward
    <2>1. job[i].pc = "none"
      BY <1>6 DEF Claim, ClaimLost, ClaimQueuedResponse, Claimable,
                  UnclaimedHasNoJob
    <2>2. \A j \in Ids \ {i} : job'[j] = job[j]
      BY <1>6, <1>a DEF Claim, ClaimLost
    <2> QED
      BY <2>1, <2>2 DEF JobsForward, Early
  <1>7. ASSUME NEW w \in Workers, Exit(w) \/ Crash(w) PROVE JobsForward
    <2>1. \A j \in Ids : job'[j].pc = "lost" \/ job'[j] = job[j]
      BY <1>7, <1>a DEF Exit, Crash, ProcessEnds, NoJob
    <2> QED
      BY <1>b, <2>1 DEF JobsForward
  <1>8. ASSUME NEW i \in Ids,
               \/ QueueResponse(i) \/ CreateStep(i) \/ DeleteGet(i)
               \/ DeleteDecide(i) \/ DeleteCancel(i) \/ DeleteSoft(i)
               \/ Heartbeat(i) \/ Expire(i)
        PROVE  JobsForward
    BY <1>1, <1>8
    DEF QueueResponse, CreateStep, SaveBackgroundRequest,
        SaveBackgroundRequestFails, DeleteGet, DeleteDecide, DeleteCancel,
        DeleteSoft, Heartbeat, Expire, workerVars
  <1>9. ASSUME NEW w \in Workers,
               \/ Poll(w) \/ Cleanup(w) \/ ClaimNothing(w)
               \/ LoopExit(w) \/ Drained(w) \/ DrainTimeout(w)
               \/ DrainDone(w) \/ Restart(w)
               \/ \E i \in Ids : MarkStale(w, i) \/ DrainMark(w, i)
        PROVE  JobsForward
    BY <1>1, <1>9
    DEF Poll, Cleanup, ClaimNothing, LoopExit, Drained, DrainTimeout, DrainDone,
        Restart, MarkStale, DrainMark
  <1>10. ASSUME GatewayCrash \/ (TtlPasses /\ UNCHANGED workerVars)
                  \/ UNCHANGED vars
         PROVE  JobsForward
    BY <1>1, <1>10 DEF GatewayCrash, vars, workerVars
  <1> QED
    BY <1>3, <1>4, <1>5, <1>6, <1>7, <1>8, <1>9, <1>10
    DEF Next, DeleteStep, PollStep, StopStep

(***************************************************************************)
(* Which steps touch the list or the map: the save of a response, the save *)
(* of the engine's copy, and the clean-up.                                 *)
(***************************************************************************)
ListKept ==
    /\ lru' = lru
    /\ \A j \in Ids : store'[j].present = store[j].present

Saves(i) == create[i] = "new" /\ \E c \in Seconds : SaveResponse(i, c)

Copies(i) ==
    /\ job[i].pc = "running" /\ job'[i].pc \in MarkStates
    /\ SaveCopy(i)

LEMMA ListSteps ==
    ASSUME TypeOK, [Next]_vars
    PROVE  \/ ListKept
           \/ \E i \in Ids : Saves(i) \/ Copies(i)
           \/ CleanupExpired
  <1>a. store \in [Ids -> Entry] /\ \A j \in Ids : store[j] \in Entry
    BY DEF TypeOK
  <1>1. ASSUME UNCHANGED <<store, lru>> PROVE ListKept
    BY <1>1 DEF ListKept
  <1>2. ASSUME NEW i \in Ids, NEW to, UpdateResponse(i, to) PROVE ListKept
    BY <1>2, <1>a DEF UpdateResponse, Updated, UpdateAccepted, ListKept, Entry
  <1>3. ASSUME NEW i \in Ids, QueueResponse(i) PROVE Saves(i)
    BY <1>3 DEF QueueResponse, Saves
  <1>4. ASSUME NEW i \in Ids, CreateStep(i) PROVE ListKept
    BY <1>1, <1>4, <1>a
    DEF CreateStep, SaveBackgroundRequest, SaveBackgroundRequestFails,
        SaveRequest, storeVars, ListKept, Entry
  <1>5. ASSUME NEW i \in Ids, DeleteGet(i) \/ DeleteDecide(i) \/ DeleteSignal(i)
        PROVE  ListKept
    BY <1>1, <1>5 DEF DeleteGet, DeleteDecide, DeleteSignal, storeVars
  <1>6. ASSUME NEW i \in Ids, DeleteCancel(i) PROVE ListKept
    BY <1>2, <1>6 DEF DeleteCancel
  <1>7. ASSUME NEW i \in Ids, DeleteSoft(i) PROVE ListKept
    BY <1>7, <1>a DEF DeleteSoft, DeleteResponse, ListKept, Entry
  <1>8. ASSUME NEW i \in Ids, EngineReturns(i) PROVE ListKept \/ Copies(i)
    <2>1. job'[i].pc \in MarkStates
      BY <1>8 DEF EngineReturns, AfterEngine, MarkStates, TypeOK, Job
    <2>2. CASE SaveCopy(i)
      BY <1>8, <2>1, <2>2 DEF EngineReturns, Copies
    <2>3. CASE UNCHANGED storeVars
      BY <1>1, <2>3 DEF storeVars
    <2> QED
      BY <1>8, <2>2, <2>3 DEF EngineReturns
  <1>9. ASSUME NEW i \in Ids, JobStep(i), ~EngineReturns(i) PROVE ListKept
    BY <1>1, <1>2, <1>9 DEF JobStep, StartJob, Mark, MarkLost, Finish, storeVars
  <1>10. ASSUME NEW i \in Ids, Heartbeat(i) \/ Expire(i) PROVE ListKept
    BY <1>10, <1>a DEF Heartbeat, RefreshHeartbeat, Expire, ListKept, Entry
  <1>11. ASSUME NEW w \in Workers, NEW i \in Ids, Claim(w, i) \/ ClaimLost(w, i)
         PROVE  ListKept
    <2>1. ClaimQueuedResponse(i, Locked(w))
      BY <1>11 DEF Claim, ClaimLost
    <2>2. /\ lru' = lru
          /\ store' = [store EXCEPT ![i].status = "in_progress",
                                    ![i].heartbeat = "fresh"]
      BY <2>1 DEF ClaimQueuedResponse
    <2>3. ASSUME NEW j \in Ids PROVE store'[j].present = store[j].present
      <3>1. CASE j = i
        BY <1>a, <2>2, <3>1 DEF Entry
      <3>2. CASE j # i
        BY <1>a, <2>2, <3>2
      <3> QED
        BY <3>1, <3>2
    <2> QED
      BY <2>2, <2>3 DEF ListKept
  <1>12. ASSUME NEW w \in Workers, NEW i \in Ids, MarkStale(w, i) PROVE ListKept
    BY <1>1, <1>2, <1>12 DEF MarkStale, storeVars
  <1>13. ASSUME NEW w \in Workers, NEW i \in Ids, DrainMark(w, i) PROVE ListKept
    BY <1>2, <1>13 DEF DrainMark
  <1>14. ASSUME NEW w \in Workers, Cleanup(w) PROVE ListKept \/ CleanupExpired
    BY <1>1, <1>14 DEF Cleanup, storeVars
  <1>15. ASSUME NEW w \in Workers,
                \/ Poll(w) \/ ClaimNothing(w) \/ LoopExit(w) \/ Drained(w)
                \/ DrainTimeout(w) \/ DrainDone(w) \/ Restart(w) \/ Stop(w)
                \/ Exit(w) \/ Crash(w)
         PROVE  ListKept
    BY <1>1, <1>15
    DEF Poll, ClaimNothing, LoopExit, Drained, DrainTimeout, DrainDone, Restart,
        Stop, Exit, Crash, ProcessEnds, storeVars
  <1>16. ASSUME GatewayCrash \/ TtlPasses \/ UNCHANGED vars PROVE ListKept
    BY <1>1, <1>16 DEF GatewayCrash, TtlPasses, vars, storeVars
  <1> QED
    BY <1>3, <1>4, <1>5, <1>6, <1>7, <1>8, <1>9, <1>10, <1>11, <1>12, <1>13,
       <1>14, <1>15, <1>16
    DEF Next, DeleteStep, PollStep, StopStep

(***************************************************************************)
(* The invariant: the list holds each key once and no more than fit, the   *)
(* keys of the map and of no other response; and no copy of a response     *)
(* whose job has not been answered by the engine, which is why a copy is   *)
(* never saved twice.                                                      *)
(***************************************************************************)
EvictionList ==
    MaxSize > 0 =>
      /\ lru \in Seq(Keys)
      /\ Distinct(lru)
      /\ Len(lru) <= MaxSize
      /\ \A i \in Ids : Own(i) \in Members(lru) <=> store[i].present
      /\ \A i \in Ids : Copy(i) \in Members(lru) => job[i].pc \notin Early

LEMMA KeyFacts ==
    /\ \A i \in Ids : Own(i) \in Keys /\ Copy(i) \in Keys
    /\ \A i, j \in Ids : /\ Own(i) # Copy(j)
                         /\ Own(i) = Own(j) => i = j
                         /\ Copy(i) = Copy(j) => i = j
  BY DEF Own, Copy, Keys

\* A save at capacity: the head leaves, the new key is last.
LEMMA InsertedList ==
    ASSUME MaxSize > 0, lru \in Seq(Keys), Distinct(lru), Len(lru) <= MaxSize,
           NEW key \in Keys, key \notin Members(lru)
    PROVE  /\ Inserted(key) \in Seq(Keys)
           /\ Distinct(Inserted(key))
           /\ Len(Inserted(key)) <= MaxSize
           /\ Members(Inserted(key)) =
                {k \in Members(lru) : ~(Full /\ Head(lru) = k)} \cup {key}
  <1> DEFINE rest == IF Full THEN Tail(lru) ELSE lru
  <1>1. MaxSize \in Nat /\ Len(lru) \in Nat
    BY StoreAssumption
  <1>2. /\ rest \in Seq(Keys) /\ Distinct(rest) /\ Len(rest) + 1 <= MaxSize
        /\ Members(rest) = {k \in Members(lru) : ~(Full /\ Head(lru) = k)}
    <2>1. CASE Full
      <3>1. Len(lru) > 0
        BY <1>1, <2>1 DEF Full
      <3>2. /\ Distinct(Tail(lru))
            /\ Members(Tail(lru)) = Members(lru) \ {Head(lru)}
        BY <3>1, TailDistinct
      <3>3. Tail(lru) \in Seq(Keys) /\ Len(Tail(lru)) + 1 = Len(lru)
        BY <1>1, <3>1
      <3> QED
        BY <2>1, <3>2, <3>3
    <2>2. CASE ~Full
      BY <1>1, <2>2 DEF Full
    <2> QED
      BY <2>1, <2>2
  <1>3. Inserted(key) = Append(rest, key)
    BY <1>1 DEF Inserted
  <1> HIDE DEF rest
  <1>4. key \notin Members(rest)
    BY <1>2
  <1>5. /\ Distinct(Append(rest, key))
        /\ Members(Append(rest, key)) = Members(rest) \cup {key}
    BY <1>2, <1>4, AppendDistinct
  <1>6. Append(rest, key) \in Seq(Keys) /\ Len(Append(rest, key)) = Len(rest) + 1
    BY <1>2
  <1> QED
    BY <1>2, <1>3, <1>5, <1>6

LEMMA EvictionListInit == Init => EvictionList
  <1> SUFFICES ASSUME Init, MaxSize > 0 PROVE EvictionList
    BY DEF EvictionList
  <1>1. lru = << >> /\ \A i \in Ids : ~store[i].present
    BY DEF Init, StoreInit, NoEntry
  <1>2. lru \in Seq(Keys) /\ Len(lru) = 0
    BY <1>1
  <1>3. Distinct(lru) /\ Members(lru) = {}
    BY <1>1 DEF Distinct, Members
  <1> QED
    BY <1>1, <1>2, <1>3, StoreAssumption DEF EvictionList

LEMMA EvictionListStep ==
    TypeOK /\ UnclaimedHasNoJob /\ EvictionList /\ [Next]_vars => EvictionList'
  <1> SUFFICES ASSUME TypeOK, UnclaimedHasNoJob, EvictionList, [Next]_vars,
                      MaxSize > 0
               PROVE  EvictionList'
    BY DEF EvictionList
  <1>a. /\ lru \in Seq(Keys) /\ Distinct(lru) /\ Len(lru) <= MaxSize
        /\ \A i \in Ids : Own(i) \in Members(lru) <=> store[i].present
        /\ \A i \in Ids : Copy(i) \in Members(lru) => job[i].pc \notin Early
    BY DEF EvictionList
  <1>b. store \in [Ids -> Entry] /\ \A j \in Ids : store[j] \in Entry
    BY DEF TypeOK
  <1>c. JobsForward
    BY ForwardSteps
  <1> DEFINE Held ==
         /\ lru' \in Seq(Keys) /\ Distinct(lru') /\ Len(lru') <= MaxSize
         /\ \A i \in Ids : Own(i) \in Members(lru') <=> store'[i].present
         /\ \A i \in Ids : Copy(i) \in Members(lru') => job'[i].pc \notin Early
  <1>e. \A j \in Ids : AfterEviction[j].present =
                          (store[j].present /\ ~(Full /\ Head(lru) = Own(j)))
    BY <1>b DEF AfterEviction, Entry
  <1>1. ASSUME ListKept PROVE Held
    BY <1>1, <1>a, <1>c DEF ListKept, JobsForward
  <1>2. ASSUME NEW i \in Ids, Saves(i)
        PROVE  Held
    <2>1. PICK c \in Seconds : SaveResponse(i, c)
      BY <1>2 DEF Saves
    <2>2. Own(i) \notin Members(lru)
      BY <1>2, <1>a DEF Saves, UnclaimedHasNoJob
    <2>3. lru' = Inserted(Own(i))
      BY <2>1 DEF SaveResponse
    <2>4. /\ lru' \in Seq(Keys) /\ Distinct(lru') /\ Len(lru') <= MaxSize
          /\ Members(lru') = {k \in Members(lru) : ~(Full /\ Head(lru) = k)}
                                \cup {Own(i)}
      BY <1>a, <2>2, <2>3, InsertedList, KeyFacts
    <2>5. \A j \in Ids : store'[j].present = (AfterEviction[j].present \/ j = i)
      <3>1. AfterEviction \in [Ids -> Entry]
        BY <1>b DEF AfterEviction, Entry
      <3>2. store'[i].present /\ \A j \in Ids \ {i} : store'[j] = AfterEviction[j]
        BY <2>1, <3>1 DEF SaveResponse, NoEntry
      <3> QED
        BY <1>b, <1>e, <3>2 DEF Entry
    <2>6. ASSUME NEW j \in Ids
          PROVE  Own(j) \in Members(lru') <=> store'[j].present
      BY <1>a, <1>e, <2>4, <2>5, KeyFacts, Zenon
    <2>7. ASSUME NEW j \in Ids, Copy(j) \in Members(lru')
          PROVE  job'[j].pc \notin Early
      BY <1>a, <1>c, <2>4, <2>7, KeyFacts DEF JobsForward
    <2> QED
      BY <2>4, <2>6, <2>7
  <1>3. ASSUME NEW i \in Ids, Copies(i)
        PROVE  Held
    <2>1. Copy(i) \notin Members(lru)
      BY <1>3, <1>a DEF Copies, Early
    <2>2. lru' = Inserted(Copy(i)) /\ store' = AfterEviction
      BY <1>3 DEF Copies, SaveCopy
    <2>3. /\ lru' \in Seq(Keys) /\ Distinct(lru') /\ Len(lru') <= MaxSize
          /\ Members(lru') = {k \in Members(lru) : ~(Full /\ Head(lru) = k)}
                                \cup {Copy(i)}
      BY <1>a, <2>1, <2>2, InsertedList, KeyFacts
    <2>4. ASSUME NEW j \in Ids
          PROVE  Own(j) \in Members(lru') <=> store'[j].present
      BY <1>a, <1>e, <2>2, <2>3, KeyFacts, Zenon
    <2>5. ASSUME NEW j \in Ids, Copy(j) \in Members(lru')
          PROVE  job'[j].pc \notin Early
      <3>1. CASE j = i
        BY <1>3, <3>1 DEF Copies, MarkStates, Early
      <3>2. CASE j # i
        BY <1>a, <1>c, <2>3, <2>5, <3>2, KeyFacts DEF JobsForward
      <3> QED
        BY <3>1, <3>2
    <2> QED
      BY <2>3, <2>4, <2>5
  <1>4. ASSUME CleanupExpired PROVE Held
    <2>1. PICK batch \in SUBSET Expired :
             /\ store' = [i \in Ids |-> IF i \in batch
                                        THEN [store[i] EXCEPT !.present = FALSE]
                                        ELSE store[i]]
             /\ lru' = Kept(lru, Keys \ {Own(i) : i \in batch})
      BY <1>4 DEF CleanupExpired
    <2> DEFINE left == Keys \ {Own(i) : i \in batch}
    <2>2. /\ lru' \in Seq(Keys) /\ Len(lru') <= Len(lru) /\ Distinct(lru')
          /\ Members(lru') = Members(lru) \cap left
      <3> HIDE DEF left
      <3>1. lru' = Kept(lru, left)
        BY <2>1 DEF left
      <3> QED
        BY <1>a, <3>1, KeptDistinct
    <2>3. Len(lru') <= MaxSize
      BY <1>a, <2>2, StoreAssumption
    <2>4. batch \subseteq Ids
      BY DEF Expired
    <2>5. ASSUME NEW j \in Ids
          PROVE  Own(j) \in Members(lru') <=> store'[j].present
      <3>1. store'[j].present = (store[j].present /\ j \notin batch)
        BY <1>b, <2>1 DEF Entry
      <3>2. Own(j) \in left <=> j \notin batch
        BY <2>4, KeyFacts
      <3> QED
        BY <1>a, <2>2, <3>1, <3>2
    <2>6. ASSUME NEW j \in Ids, Copy(j) \in Members(lru')
          PROVE  job'[j].pc \notin Early
      BY <1>a, <1>c, <2>2, <2>6 DEF JobsForward
    <2> QED
      BY <2>2, <2>3, <2>5, <2>6
  <1>5. Held
    BY <1>1, <1>2, <1>3, <1>4, ListSteps
  <1> QED
    BY <1>5 DEF EvictionList, Distinct, Members

(***************************************************************************)
(* The bounded memory store never holds more than its capacity, and its    *)
(* eviction list and its map agree, whatever saves, evictions and          *)
(* clean-ups interleave (SaveResponse, evictOldest, CleanupExpired).       *)
(***************************************************************************)
THEOREM CapacityAlwaysKept == Spec => []CapacityKept
  <1>1. EvictionList => CapacityKept
    <2> SUFFICES ASSUME EvictionList, MaxSize > 0 PROVE CapacityKept
      BY DEF CapacityKept
    <2>1. /\ lru \in Seq(Keys) /\ Distinct(lru) /\ Len(lru) <= MaxSize
          /\ \A i \in Ids : Own(i) \in Members(lru) <=> store[i].present
      BY DEF EvictionList
    <2>2. Cardinality(Members(lru)) = Len(lru)
      BY <2>1, DistinctCardinality
    <2>3. Members(lru) \subseteq Keys
      BY <2>1 DEF Members
    <2> QED
      BY <2>1, <2>2, <2>3 DEF CapacityKept, Members
  <1> QED
    BY <1>1, UnclaimedInit, UnclaimedStep, EvictionListInit, EvictionListStep,
       TypeCorrect, PTL DEF Spec

=============================================================================
