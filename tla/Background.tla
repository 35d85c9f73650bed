----------------------------- MODULE Background -----------------------------
(***************************************************************************)
(* Background ("async") responses: the gateway that queues and cancels     *)
(* them (pkg/engine/engine.go, pkg/transport/http/adapter.go) and the      *)
(* workers that claim, run and finish them (pkg/engine/background.go),     *)
(* over the store of ResponseStore.                                        *)
(*                                                                         *)
(* With Backend = "memory" gateway, worker and store are one process       *)
(* (integrated mode); its end ends the store, so it is not modelled.  With *)
(* Backend = "postgres" the gateway and each worker are processes of their *)
(* own that may crash and restart.                                         *)
(***************************************************************************)
EXTENDS ResponseStore

CONSTANTS
    Workers,        \* worker processes
    NoWorker,       \* stands for no worker
    Canceller,      \* the worker registered with SetBackgroundCanceller
    Deletable,      \* responses whose client may send DELETE
    MaxFaults       \* bound on shutdowns, crashes, lost calls and stalls

ASSUME WorkerAssumption ==
    /\ NoWorker \notin Workers
    /\ Canceller \in Workers \cup {NoWorker}
    /\ Deletable \subseteq Ids
    /\ MaxFaults \in Nat

VARIABLES
    create,     \* POST handler of each response: where it is
    del,        \* DELETE handler of each response: where it is
    ack,        \* responses whose cancellation was answered with 204
    wstate,     \* each worker process
    drain,      \* ids markInFlightAsFailed has still to mark
    poll,       \* each worker's poll loop
    job,        \* processRequest goroutine of each response
    faults      \* shutdowns, crashes, lost calls and stalls so far

gatewayVars == <<create, del, ack>>

workerVars == <<wstate, drain, poll, job>>

vars == <<storeVars, gatewayVars, workerVars, faults>>

CreateStates == {"new", "saved", "done", "crashed"}

(***************************************************************************)
(* "raced": the handler holds the pointer GetResponse returned while the   *)
(* status behind it was rewritten by a claim.                              *)
(***************************************************************************)
DeleteStates == {"idle", "check", "raced", "cancel", "softdelete", "signal"}

WorkerStates == {"running", "draining", "marking", "stopped", "down"}

PollStates == {"idle", "stale", "cleanup", "claim", "exited"}

MarkStates == {"mark_completed", "mark_failed", "mark_cancelled"}

(***************************************************************************)
(* A job's entry is in the cancel registry, and its heartbeat runs, from   *)
(* the start of processRequest until its deferred calls.                   *)
(***************************************************************************)
RegisteredStates == {"running", "marked"} \cup MarkStates

LiveStates == {"claimed"} \cup RegisteredStates

JobStates == {"none", "done", "lost"} \cup LiveStates

Job == [pc: JobStates, worker: Workers \cup {NoWorker},
        request: BOOLEAN, cancelled: BOOLEAN]

NoJob == [pc |-> "none", worker |-> NoWorker, request |-> FALSE,
          cancelled |-> FALSE]

JobsOf(w, states) == {i \in Ids : job[i].worker = w /\ job[i].pc \in states}

(***************************************************************************)
(* Something that goes wrong, bounded by MaxFaults.                        *)
(***************************************************************************)
Fault ==
    /\ faults < MaxFaults
    /\ faults' = faults + 1

-----------------------------------------------------------------------------
(***************************************************************************)
(* Gateway: handleBackground.  created_at is read when the response is     *)
(* built, before the save, so saves need not be in its order.              *)
(***************************************************************************)
QueueResponse(i) ==
    /\ create[i] = "new"
    /\ \E created \in Seconds : created >= cutoff /\ SaveResponse(i, created)
    /\ create' = [create EXCEPT ![i] = "saved"]
    /\ UNCHANGED <<del, ack, workerVars, faults>>

(***************************************************************************)
(* The handler then replies, with the response as it built it; the memory  *)
(* store holds that same object, so a claim by now may have changed the    *)
(* status the client reads.  The contents of the reply are not modelled.   *)
(***************************************************************************)
SaveBackgroundRequest(i) ==
    /\ create[i] = "saved"
    /\ SaveRequest(i)
    /\ create' = [create EXCEPT ![i] = "done"]
    /\ UNCHANGED <<lru, cutoff, del, ack, workerVars, faults>>

\* The statement fails (database error, client gone): logged and ignored.
SaveBackgroundRequestFails(i) ==
    /\ Postgres
    /\ create[i] = "saved"
    /\ Fault
    /\ create' = [create EXCEPT ![i] = "done"]
    /\ UNCHANGED <<storeVars, del, ack, workerVars>>

(***************************************************************************)
(* Gateway: handleDeleteResponse.  First GetResponse.  The PostgreSQL      *)
(* store does not load the background column, so there the handler always  *)
(* goes on to the soft delete.                                             *)
(***************************************************************************)
DeleteGet(i) ==
    /\ i \in Deletable
    /\ del[i] = "idle"
    /\ GetFinds(i)
    /\ del' = [del EXCEPT ![i] = IF Memory THEN "check" ELSE "softdelete"]
    /\ UNCHANGED <<storeVars, create, ack, workerVars, faults>>

(***************************************************************************)
(* The test of resp.Background and resp.Status, through a pointer into the *)
(* memory store.  If a claim wrote the status meanwhile, the comparison    *)
(* may see a torn string equal to neither queued nor in_progress.          *)
(***************************************************************************)
DeleteDecide(i) ==
    /\ del[i] \in {"check", "raced"}
    /\ \E next \in {"cancel", "softdelete"} :
          /\ next = "cancel" => store[i].status \in {"queued", "in_progress"}
          /\ next = "softdelete" =>
                \/ store[i].status \notin {"queued", "in_progress"}
                \/ del[i] = "raced"
          /\ del' = [del EXCEPT ![i] = next]
    /\ UNCHANGED <<storeVars, create, ack, workerVars, faults>>

\* An update the store rejects ends the handler with an error reply.
DeleteCancel(i) ==
    /\ del[i] = "cancel"
    /\ UpdateResponse(i, "cancelled")
    /\ del' = [del EXCEPT ![i] = IF UpdateAccepted(i, "cancelled")
                                 THEN "signal" ELSE "idle"]
    /\ UNCHANGED <<create, ack, workerVars, faults>>

\* CancelRequest on the registered worker, then 204.
DeleteSignal(i) ==
    /\ del[i] = "signal"
    /\ job' = IF i \in JobsOf(Canceller, RegisteredStates)
              THEN [job EXCEPT ![i].cancelled = TRUE] ELSE job
    /\ ack' = ack \cup {i}
    /\ del' = [del EXCEPT ![i] = "idle"]
    /\ UNCHANGED <<storeVars, create, wstate, drain, poll, faults>>

DeleteSoft(i) ==
    /\ del[i] = "softdelete"
    /\ DeleteResponse(i)
    /\ del' = [del EXCEPT ![i] = "idle"]
    /\ UNCHANGED <<lru, cutoff, create, ack, workerVars, faults>>

GatewayCrash ==
    /\ Postgres
    /\ Fault
    /\ create' = [i \in Ids |-> IF create[i] = "saved" THEN "crashed"
                                ELSE create[i]]
    /\ del' = [i \in Ids |-> "idle"]
    /\ UNCHANGED <<storeVars, ack, workerVars>>

-----------------------------------------------------------------------------
(***************************************************************************)
(* Worker: the poll loop.  After Stop the context is cancelled; the memory *)
(* store ignores it, a SQL statement fails on it.                          *)
(***************************************************************************)
CtxUsable(w) == Memory \/ wstate[w] = "running"

\* The select of Start may still choose the ticker after the cancellation.
Poll(w) ==
    /\ wstate[w] # "down"
    /\ poll[w].pc = "idle"
    /\ poll' = [poll EXCEPT ![w] =
                  [pc |-> IF FindStaleResponses = {} THEN "cleanup" ELSE "stale",
                   ids |-> FindStaleResponses]]
    /\ UNCHANGED <<storeVars, gatewayVars, wstate, drain, job, faults>>

MarkStale(w, i) ==
    /\ poll[w].pc = "stale" /\ i \in poll[w].ids
    /\ IF CtxUsable(w) THEN UpdateResponse(i, "failed") ELSE UNCHANGED storeVars
    /\ poll' = [poll EXCEPT ![w] =
                  [pc |-> IF @.ids = {i} THEN "cleanup" ELSE "stale",
                   ids |-> @.ids \ {i}]]
    /\ UNCHANGED <<gatewayVars, wstate, drain, job, faults>>

Cleanup(w) ==
    /\ poll[w].pc = "cleanup"
    /\ IF CtxUsable(w) THEN CleanupExpired ELSE UNCHANGED storeVars
    /\ poll' = [poll EXCEPT ![w].pc = "claim"]
    /\ UNCHANGED <<gatewayVars, wstate, drain, job, faults>>

\* FOR UPDATE SKIP LOCKED passes over the rows another statement works on.
Locked(w) ==
    {j \in Ids : Postgres /\ \/ \E v \in Workers \ {w} : poll[v].pc = "claim"
                             \/ create[j] = "saved"
                             \/ del[j] = "softdelete"}

(***************************************************************************)
(* A claim starts the goroutine of the response, on the worker's context.  *)
(***************************************************************************)
Claim(w, i) ==
    /\ poll[w].pc = "claim"
    /\ CtxUsable(w)
    /\ ClaimQueuedResponse(i, Locked(w))
    /\ job' = [job EXCEPT ![i] = [pc |-> "claimed", worker |-> w,
                                  request |-> store[i].request,
                                  cancelled |-> wstate[w] # "running"]]
    /\ del' = [del EXCEPT ![i] = IF @ = "check" THEN "raced" ELSE @]
    /\ poll' = [poll EXCEPT ![w].pc = "idle"]
    /\ UNCHANGED <<create, ack, wstate, drain, faults>>

\* The statement commits but its answer is lost: nobody runs the job.
ClaimLost(w, i) ==
    /\ Postgres
    /\ poll[w].pc = "claim"
    /\ Fault
    /\ ClaimQueuedResponse(i, Locked(w))
    /\ job' = [job EXCEPT ![i] = [NoJob EXCEPT !.pc = "lost"]]
    /\ poll' = [poll EXCEPT ![w].pc = "idle"]
    /\ UNCHANGED <<gatewayVars, wstate, drain>>

ClaimNothing(w) ==
    /\ poll[w].pc = "claim"
    /\ CtxUsable(w) => \A i \in Ids \ Locked(w) : ~Claimable(i)
    /\ poll' = [poll EXCEPT ![w].pc = "idle"]
    /\ UNCHANGED <<storeVars, gatewayVars, wstate, drain, job, faults>>

LoopExit(w) ==
    /\ wstate[w] \notin {"running", "down"}
    /\ poll[w].pc = "idle"
    /\ poll' = [poll EXCEPT ![w].pc = "exited"]
    /\ UNCHANGED <<storeVars, gatewayVars, wstate, drain, job, faults>>

-----------------------------------------------------------------------------
(***************************************************************************)
(* Worker: processRequest.  It registers its cancel function, starts the   *)
(* heartbeat and decodes the stored request; without one it fails.         *)
(***************************************************************************)
StartJob(i) ==
    /\ job[i].pc = "claimed"
    /\ job' = [job EXCEPT ![i].pc = IF job[i].request THEN "running"
                                    ELSE "mark_failed"]
    /\ UNCHANGED <<storeVars, gatewayVars, wstate, drain, poll, faults>>

\* Variant with a bug: a cancelled job is left as it is.
AfterEngineSkipsCancelled(i, ok) ==
    IF job[i].cancelled THEN "marked"
    ELSE IF ok THEN "mark_completed" ELSE "mark_failed"

(***************************************************************************)
(* The engine returns, with or without an error.  On the path without the  *)
(* agentic loop it has saved its own copy of the result, which can evict   *)
(* an entry of a bounded store.  Then the context is tested.               *)
(***************************************************************************)
AfterEngine(i, ok) ==
    IF job[i].cancelled THEN "mark_cancelled"
    ELSE IF ok THEN "mark_completed" ELSE "mark_failed"

EngineReturns(i) ==
    /\ job[i].pc = "running"
    /\ \E ok, copied \in BOOLEAN :
          /\ copied => ok /\ MaxSize > 0
          /\ IF copied THEN SaveCopy(i) ELSE UNCHANGED storeVars
          /\ job' = [job EXCEPT ![i].pc = AfterEngine(i, ok)]
    /\ UNCHANGED <<gatewayVars, wstate, drain, poll, faults>>

MarkStatus(i) ==
    IF job[i].pc = "mark_completed" THEN "completed"
    ELSE IF job[i].pc = "mark_failed" THEN "failed" ELSE "cancelled"

\* markCompleted, markFailed, markCancelled: a rejected update is only logged.
Mark(i) ==
    /\ job[i].pc \in MarkStates
    /\ UpdateResponse(i, MarkStatus(i))
    /\ job' = [job EXCEPT ![i].pc = "marked"]
    /\ UNCHANGED <<gatewayVars, wstate, drain, poll, faults>>

MarkLost(i) ==
    /\ Postgres
    /\ job[i].pc \in MarkStates
    /\ Fault
    /\ job' = [job EXCEPT ![i].pc = "marked"]
    /\ UNCHANGED <<storeVars, gatewayVars, wstate, drain, poll>>

\* The deferred calls: heartbeat off, registry entry removed, wg.Done.
Finish(i) ==
    /\ job[i].pc = "marked"
    /\ job' = [job EXCEPT ![i] = [NoJob EXCEPT !.pc = "done"]]
    /\ UNCHANGED <<storeVars, gatewayVars, wstate, drain, poll, faults>>

Beating(i) == job[i].pc \in RegisteredStates /\ ~job[i].cancelled

Heartbeat(i) ==
    /\ Beating(i)
    /\ store[i].heartbeat # "fresh"
    /\ RefreshHeartbeat(i)
    /\ UNCHANGED <<gatewayVars, workerVars, faults>>

(***************************************************************************)
(* The staleness timeout passes without a heartbeat.  While the heartbeat  *)
(* goroutine runs, that takes a fault (a stalled process or database).     *)
(***************************************************************************)
Expire(i) ==
    /\ store[i].status = "in_progress"
    /\ store[i].heartbeat = "fresh"
    /\ IF Beating(i) THEN Fault ELSE UNCHANGED faults
    /\ store' = [store EXCEPT ![i].heartbeat = "expired"]
    /\ UNCHANGED <<lru, cutoff, gatewayVars, workerVars>>

-----------------------------------------------------------------------------
(***************************************************************************)
(* Worker: Stop.  The shutdown signal cancels the context of the loop and, *)
(* through it, of every job; then the jobs are waited for.                 *)
(***************************************************************************)
Stop(w) ==
    /\ wstate[w] = "running"
    /\ Fault
    /\ wstate' = [wstate EXCEPT ![w] = "draining"]
    /\ job' = [i \in Ids |-> IF i \in JobsOf(w, LiveStates)
                             THEN [job[i] EXCEPT !.cancelled = TRUE]
                             ELSE job[i]]
    /\ UNCHANGED <<storeVars, gatewayVars, drain, poll>>

Drained(w) ==
    /\ wstate[w] = "draining"
    /\ JobsOf(w, LiveStates) = {}
    /\ wstate' = [wstate EXCEPT ![w] = "stopped"]
    /\ UNCHANGED <<storeVars, gatewayVars, drain, poll, job, faults>>

\* markInFlightAsFailed copies the registry under its lock, then marks.
DrainTimeout(w) ==
    /\ wstate[w] = "draining"
    /\ JobsOf(w, LiveStates) # {}
    /\ drain' = [drain EXCEPT ![w] = JobsOf(w, RegisteredStates)]
    /\ wstate' = [wstate EXCEPT ![w] = "marking"]
    /\ UNCHANGED <<storeVars, gatewayVars, poll, job, faults>>

DrainMark(w, i) ==
    /\ wstate[w] = "marking" /\ i \in drain[w]
    /\ UpdateResponse(i, "failed")
    /\ drain' = [drain EXCEPT ![w] = @ \ {i}]
    /\ UNCHANGED <<gatewayVars, wstate, poll, job, faults>>

DrainDone(w) ==
    /\ wstate[w] = "marking" /\ drain[w] = {}
    /\ wstate' = [wstate EXCEPT ![w] = "stopped"]
    /\ UNCHANGED <<storeVars, gatewayVars, drain, poll, job, faults>>

(***************************************************************************)
(* The end of a worker process takes its goroutines with it.               *)
(***************************************************************************)
ProcessEnds(w) ==
    /\ wstate' = [wstate EXCEPT ![w] = "down"]
    /\ job' = [i \in Ids |-> IF i \in JobsOf(w, LiveStates)
                             THEN [NoJob EXCEPT !.pc = "lost"]
                             ELSE job[i]]
    /\ drain' = [drain EXCEPT ![w] = {}]
    /\ poll' = [poll EXCEPT ![w] = [pc |-> "idle", ids |-> {}]]
    /\ UNCHANGED <<storeVars, gatewayVars>>

Exit(w) ==
    /\ Postgres
    /\ wstate[w] = "stopped"
    /\ ProcessEnds(w)
    /\ UNCHANGED faults

Crash(w) ==
    /\ Postgres
    /\ wstate[w] # "down"
    /\ Fault
    /\ ProcessEnds(w)

Restart(w) ==
    /\ wstate[w] = "down"
    /\ wstate' = [wstate EXCEPT ![w] = "running"]
    /\ UNCHANGED <<storeVars, gatewayVars, drain, poll, job, faults>>

-----------------------------------------------------------------------------
Init ==
    /\ StoreInit
    /\ create = [i \in Ids |-> "new"]
    /\ del = [i \in Ids |-> "idle"]
    /\ ack = {}
    /\ wstate = [w \in Workers |-> "running"]
    /\ drain = [w \in Workers |-> {}]
    /\ poll = [w \in Workers |-> [pc |-> "idle", ids |-> {}]]
    /\ job = [i \in Ids |-> NoJob]
    /\ faults = 0

CreateStep(i) ==
    SaveBackgroundRequest(i) \/ SaveBackgroundRequestFails(i)

DeleteStep(i) ==
    \/ DeleteDecide(i) \/ DeleteCancel(i) \/ DeleteSignal(i) \/ DeleteSoft(i)

PollStep(w) ==
    \/ Poll(w) \/ Cleanup(w) \/ ClaimNothing(w)
    \/ \E i \in Ids : MarkStale(w, i) \/ Claim(w, i) \/ ClaimLost(w, i)

JobStep(i) ==
    \/ StartJob(i) \/ EngineReturns(i) \/ Mark(i) \/ MarkLost(i) \/ Finish(i)

StopStep(w) ==
    \/ LoopExit(w) \/ Drained(w) \/ DrainTimeout(w) \/ DrainDone(w) \/ Exit(w)
    \/ Restart(w)
    \/ \E i \in Ids : DrainMark(w, i)

Next ==
    \/ \E i \in Ids : \/ QueueResponse(i) \/ CreateStep(i)
                      \/ DeleteGet(i) \/ DeleteStep(i)
                      \/ JobStep(i) \/ Heartbeat(i) \/ Expire(i)
    \/ \E w \in Workers : PollStep(w) \/ StopStep(w) \/ Stop(w) \/ Crash(w)
    \/ GatewayCrash
    \/ TtlPasses /\ UNCHANGED <<gatewayVars, workerVars, faults>>

Spec == Init /\ [][Next]_vars

(***************************************************************************)
(* Handlers, poll loops and goroutines are scheduled, a stopped or crashed *)
(* worker process is started again, and time passes.  Clients owe nothing, *)
(* nor does the engine: a provider's Complete has a timeout, but the tools *)
(* it calls need not (EngineAnswers).                                      *)
(***************************************************************************)
Fairness ==
    /\ \A i \in Ids : /\ WF_vars(CreateStep(i))
                      /\ WF_vars(DeleteStep(i))
                      /\ WF_vars(StartJob(i) \/ Mark(i) \/ MarkLost(i) \/ Finish(i))
                      /\ WF_vars(~Beating(i) /\ Expire(i))
    /\ \A w \in Workers : WF_vars(PollStep(w)) /\ WF_vars(StopStep(w))

FairSpec == Spec /\ Fairness

-----------------------------------------------------------------------------
(***************************************************************************)
(* Properties.                                                             *)
(***************************************************************************)

\* Every variable has its type; that of lru is part of CapacityKept.
TypeOK ==
    /\ store \in [Ids -> Entry]
    /\ cutoff \in Nat
    /\ create \in [Ids -> CreateStates]
    /\ del \in [Ids -> DeleteStates]
    /\ ack \in SUBSET Ids
    /\ wstate \in [Workers -> WorkerStates]
    /\ drain \in [Workers -> SUBSET Ids]
    /\ poll \in [Workers -> [pc: PollStates, ids: SUBSET Ids]]
    /\ job \in [Ids -> Job]
    /\ faults \in Nat

(***************************************************************************)
(* A bounded memory store stays within its capacity, and its eviction list *)
(* and its map never drift apart, however saves, evictions and TTL         *)
(* clean-ups interleave: each key is listed once, and a response is listed *)
(* exactly when it is in the map.                                          *)
(***************************************************************************)
CapacityKept ==
    MaxSize > 0 =>
    LET listed == {lru[n] : n \in DOMAIN lru}
    IN  /\ listed \subseteq Keys
        /\ Cardinality(listed) = Len(lru)
        /\ Len(lru) <= MaxSize
        /\ \A i \in Ids : Own(i) \in listed <=> store[i].present

(***************************************************************************)
(* A response is claimed by at most one worker, once: a claim only ever    *)
(* starts the first job of a response, whatever stale detection, shutdown, *)
(* crashes and lost answers did before (ClaimQueuedResponse of both        *)
(* stores).                                                                *)
(***************************************************************************)
ClaimedOnce ==
    [][\A w \in Workers, i \in Ids :
          Claim(w, i) \/ ClaimLost(w, i) => job[i].pc = "none"]_vars

(***************************************************************************)
(* A claimed response comes with its serialized request (handler.go,       *)
(* ClaimQueuedResponse).                                                   *)
(***************************************************************************)
ClaimCarriesRequest ==
    \A i \in Ids : job[i].pc = "claimed" => job[i].request

(***************************************************************************)
(* The memory store never leaves an in_progress response unattended: some  *)
(* goroutine is still going to give it a final status, also while and      *)
(* after the worker is stopped.                                            *)
(***************************************************************************)
Attended ==
    Memory =>
    \A i \in Ids : store[i].present /\ store[i].status = "in_progress"
                      => job[i].pc \in LiveStates \ {"marked"}

(***************************************************************************)
(* Status and contents agree: a response carries a result exactly when it  *)
(* is completed and an error exactly when it failed (UpdateResponse raced  *)
(* by markCompleted, stale detection, drain timeout and DELETE).           *)
(***************************************************************************)
ResultConsistent ==
    \A i \in Ids : /\ store[i].result <=> store[i].status = "completed"
                   /\ store[i].error <=> store[i].status = "failed"

(***************************************************************************)
(* A cancellation that was answered with 204 sticks: no late result, stale *)
(* mark or shutdown mark replaces it.                                      *)
(***************************************************************************)
CancelSticks ==
    \A i \in ack : store[i].status = "cancelled"

(***************************************************************************)
(* A row that was soft-deleted stays as it is until it is removed: no      *)
(* claim, late result or stale mark reaches it, and no heartbeat refreshes *)
(* it, which only grows older (the deleted_at IS NULL conditions of the    *)
(* PostgreSQL store).  The one statement without that condition is         *)
(* SaveBackgroundRequest, which may still add the request.                 *)
(***************************************************************************)
DeletedFrozen ==
    [][\A i \in Ids : store[i].deleted =>
          /\ \A field \in {"status", "result", "error", "deleted", "created"} :
                store'[i][field] = store[i][field]
          /\ store'[i].heartbeat = store[i].heartbeat \/ Expire(i)
          /\ \/ /\ store'[i].request = store[i].request
                /\ store'[i].background = store[i].background
             \/ SaveBackgroundRequest(i)]_vars

(***************************************************************************)
(* The statuses a client can see follow the abstract life cycle.           *)
(***************************************************************************)
VisibleStatus ==
    [i \in Ids |-> IF store[i].present THEN store[i].status
                   ELSE IF create[i] = "new" THEN NoStatus ELSE "gone"]

Lifecycle == INSTANCE ResponseLifecycle
                WITH status <- VisibleStatus, Evicts <- (MaxSize > 0)

LifecycleRefinement == Lifecycle!LifecycleSpec

Settled(i) ==
    ~store[i].present \/ store[i].deleted \/ store[i].status \in TerminalStatuses

\* The job of a response does not stay inside the engine for ever.
EngineAnswers(i) == []<>(job[i].pc # "running")

(***************************************************************************)
(* Without a shutdown, every queued response is eventually settled, or     *)
(* makes room for another, unless its own job stays inside the engine for  *)
(* ever: the poll loop reaches it behind older ones, whatever those do,    *)
(* and its job always ends with a mark (Start, processRequest).            *)
(***************************************************************************)
QueuedEventuallySettled ==
    \A i \in Ids :
        EngineAnswers(i) => (store[i].status = "queued" ~> Settled(i))

(***************************************************************************)
(* Every claimed response is eventually settled, however workers crash,    *)
(* restart or lose their calls: by its job or by stale detection (FR-013). *)
(* A job that stays inside the engine for ever keeps its heartbeat, and    *)
(* with it the response.                                                   *)
(***************************************************************************)
ClaimedEventuallySettled ==
    \A i \in Ids :
        EngineAnswers(i) => (store[i].status = "in_progress" ~> Settled(i))

-----------------------------------------------------------------------------
(***************************************************************************)
(* "Terminal states (completed, failed, cancelled) do not allow outgoing   *)
(* transitions" (pkg/api/state.go).  The SQL update does not validate the  *)
(* transition, so a late mark or stale detection rewrites an ended one.    *)
(***************************************************************************)
TerminalIsFinal ==
    [][\A i \in Ids : store[i].status \in TerminalStatuses
                         => store'[i].status = store[i].status]_vars

=============================================================================
