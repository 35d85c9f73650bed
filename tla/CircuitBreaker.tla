--------------------------- MODULE CircuitBreaker ---------------------------
(***************************************************************************)
(* The lock-free circuit breaker and the retry loop around a provider call *)
(* (pkg/provider/resilience).  Each process is a request goroutine running *)
(* Complete or Stream of ResilientProvider; every atomic load, store, add  *)
(* and compare-and-swap of circuit.go is a step of its own.  Loads that    *)
(* only feed metrics are left out.                                         *)
(***************************************************************************)
EXTENDS Naturals, FiniteSets

CONSTANTS
    Procs,          \* request goroutines
    NoProc,         \* stands for no goroutine
    Threshold,      \* failure_threshold
    MaxAttempts,    \* max_attempts
    Providers,      \* kinds of provider the breaker may wrap
    Streams         \* goroutines that call Stream, the others call Complete

\* The configuration checks of pkg/config/validate.go.
ASSUME BreakerAssumption ==
    /\ NoProc \notin Procs
    /\ Threshold \in Nat \ {0}
    /\ MaxAttempts \in Nat \ {0}
    /\ Providers \subseteq {"openaicompat", "responses"}
    /\ Streams \subseteq Procs

VARIABLES
    provider,   \* the provider: vLLM and LiteLLM are "openaicompat"
    state,      \* cb.state
    failures,   \* cb.failures
    elapsed,    \* resetTimeout has passed since cb.lastFailureTime
    probe,      \* history: the winner of the last open -> half-open swap
    pc,         \* where each goroutine is
    attempt,    \* its attempt number
    kind,       \* how its last provider call ended
    healthy     \* the backend has recovered for good

backend == <<provider, healthy>>

vars == <<state, failures, elapsed, probe, pc, attempt, kind, backend>>

BreakerStates == {"closed", "open", "half_open"}

(***************************************************************************)
(* How a call ends: success, a transient error, 429, another answer of the *)
(* backend, or the caller's own cancellation.                              *)
(***************************************************************************)
Kinds == {"ok", "retryable", "rate_limited", "permanent", "cancelled"}

AllowStates == {"allow", "clock", "swap", "reload"}

(***************************************************************************)
(* From admission until the breaker has been told the outcome.             *)
(***************************************************************************)
PendingStates == {"call", "fail_time", "fail_load", "fail_reopen", "check",
                  "success_store", "success_swap"}

PcStates == {"idle", "wait", "fail_add", "fail_open"}
               \cup AllowStates \cup PendingStates

Goto(p, label) == pc' = [pc EXCEPT ![p] = label]

\* CompareAndSwap.
Swap(old, new) == state' = IF state = old THEN new ELSE state

-----------------------------------------------------------------------------
Begin(p) ==
    /\ pc[p] = "idle"
    /\ Goto(p, "allow")
    /\ attempt' = [attempt EXCEPT ![p] = 1]
    /\ UNCHANGED <<state, failures, elapsed, probe, kind, backend>>

(***************************************************************************)
(* Allow.  A refused request returns the circuit-open error at once.       *)
(***************************************************************************)
AllowLoad(p) ==
    /\ pc[p] = "allow"
    /\ Goto(p, IF state = "closed" THEN "call"
               ELSE IF state = "open" THEN "clock" ELSE "idle")
    /\ UNCHANGED <<state, failures, elapsed, probe, attempt, kind, backend>>

AllowClock(p) ==
    /\ pc[p] = "clock"
    /\ Goto(p, IF elapsed THEN "swap" ELSE "idle")
    /\ UNCHANGED <<state, failures, elapsed, probe, attempt, kind, backend>>

AllowSwap(p) ==
    /\ pc[p] = "swap"
    /\ Swap("open", "half_open")
    /\ probe' = IF state = "open" THEN p ELSE probe
    /\ Goto(p, IF state = "open" THEN "call" ELSE "reload")
    /\ UNCHANGED <<failures, elapsed, attempt, kind, backend>>

AllowReload(p) ==
    /\ pc[p] = "reload"
    /\ Goto(p, IF state = "closed" THEN "call" ELSE "idle")
    /\ UNCHANGED <<state, failures, elapsed, probe, attempt, kind, backend>>

\* Whether the provider's errors wrap their cause.
KeepsCause == provider = "responses"

(***************************************************************************)
(* Classify.  A cancellation is NonRetryable when the error still wraps    *)
(* it, as those of the responses provider do; the errors MapNetworkError   *)
(* builds for the other providers do not, and have no HTTP status either,  *)
(* which makes them Retryable.                                             *)
(***************************************************************************)
Classify(k) ==
    IF k # "cancelled" THEN k
    ELSE IF KeepsCause THEN "permanent" ELSE "retryable"

AfterCall(k) ==
    IF Classify(k) = "ok" THEN "success_store"
    ELSE IF Classify(k) = "retryable" THEN "fail_time" ELSE "check"

(***************************************************************************)
(* The provider call returns, with an answer, at its timeout or because    *)
(* the client has left.  A backend that has recovered gives no transient   *)
(* errors.                                                                 *)
(***************************************************************************)
Return(p) ==
    /\ pc[p] = "call"
    /\ \E k \in Kinds :
          /\ healthy => k # "retryable"
          /\ kind' = [kind EXCEPT ![p] = k]
          /\ Goto(p, AfterCall(k))
    /\ UNCHANGED <<state, failures, elapsed, probe, attempt, backend>>

(***************************************************************************)
(* After the breaker has been told: a success or a permanent error ends    *)
(* the request, the others may be retried.                                 *)
(***************************************************************************)
AfterRecord(p) ==
    IF Classify(kind[p]) \in {"retryable", "rate_limited"}
    THEN "wait" ELSE "idle"

\* Variant with a bug: a permanent error tells the breaker nothing.
CheckNothing(p) ==
    /\ pc[p] = "check"
    /\ Goto(p, AfterRecord(p))
    /\ UNCHANGED <<state, failures, elapsed, probe, attempt, kind, backend>>

\* handleError: not a failure, but it resolves a half-open circuit.
CheckHalfOpen(p) ==
    /\ pc[p] = "check"
    /\ Goto(p, IF state = "half_open" THEN "success_store" ELSE AfterRecord(p))
    /\ UNCHANGED <<state, failures, elapsed, probe, attempt, kind, backend>>

\* RecordSuccess.
SuccessStore(p) ==
    /\ pc[p] = "success_store"
    /\ failures' = 0
    /\ Goto(p, "success_swap")
    /\ UNCHANGED <<state, elapsed, probe, attempt, kind, backend>>

\* Variant with a bug: a success does not close the circuit.
SuccessStaysOpen(p) ==
    /\ pc[p] = "success_swap"
    /\ Swap("half_open", "open")
    /\ Goto(p, AfterRecord(p))
    /\ UNCHANGED <<failures, elapsed, probe, attempt, kind, backend>>

SuccessSwap(p) ==
    /\ pc[p] = "success_swap"
    /\ Swap("half_open", "closed")
    /\ Goto(p, AfterRecord(p))
    /\ UNCHANGED <<failures, elapsed, probe, attempt, kind, backend>>

\* RecordFailure.
FailTime(p) ==
    /\ pc[p] = "fail_time"
    /\ elapsed' = FALSE
    /\ Goto(p, "fail_load")
    /\ UNCHANGED <<state, failures, probe, attempt, kind, backend>>

FailLoad(p) ==
    /\ pc[p] = "fail_load"
    /\ Goto(p, IF state = "closed" THEN "fail_add"
               ELSE IF state = "half_open" THEN "fail_reopen"
               ELSE AfterRecord(p))
    /\ UNCHANGED <<state, failures, elapsed, probe, attempt, kind, backend>>

FailAdd(p) ==
    /\ pc[p] = "fail_add"
    /\ failures' = failures + 1
    /\ Goto(p, IF failures + 1 >= Threshold THEN "fail_open"
               ELSE AfterRecord(p))
    /\ UNCHANGED <<state, elapsed, probe, attempt, kind, backend>>

FailOpen(p) ==
    /\ pc[p] = "fail_open"
    /\ Swap("closed", "open")
    /\ Goto(p, AfterRecord(p))
    /\ UNCHANGED <<failures, elapsed, probe, attempt, kind, backend>>

FailReopen(p) ==
    /\ pc[p] = "fail_reopen"
    /\ Swap("half_open", "open")
    /\ Goto(p, AfterRecord(p))
    /\ UNCHANGED <<failures, elapsed, probe, attempt, kind, backend>>

(***************************************************************************)
(* Backoff.  The last attempt returns the error; so does a context that is *)
(* cancelled, or whose deadline is too near, during the wait.              *)
(***************************************************************************)
Retry(p) ==
    /\ pc[p] = "wait"
    /\ attempt[p] < MaxAttempts /\ kind[p] # "cancelled"
    /\ attempt' = [attempt EXCEPT ![p] = @ + 1]
    /\ Goto(p, "allow")
    /\ UNCHANGED <<state, failures, elapsed, probe, kind, backend>>

GiveUp(p) ==
    /\ pc[p] = "wait"
    /\ Goto(p, "idle")
    /\ UNCHANGED <<state, failures, elapsed, probe, attempt, kind, backend>>

\* The reset timeout passes.
ResetElapses ==
    /\ ~elapsed
    /\ elapsed' = TRUE
    /\ UNCHANGED <<state, failures, probe, pc, attempt, kind, backend>>

\* The backend recovers for good.
Heal ==
    /\ ~healthy
    /\ healthy' = TRUE
    /\ UNCHANGED <<state, failures, elapsed, probe, pc, attempt, kind>>
    /\ UNCHANGED provider

(***************************************************************************)
(* The HTTP client of the call has a timeout.  The vLLM and LiteLLM        *)
(* providers use one without for Stream.                                   *)
(***************************************************************************)
Timed(p) == p \notin Streams \/ provider = "responses"

-----------------------------------------------------------------------------
Init ==
    /\ provider \in Providers
    /\ state = "closed"
    /\ failures = 0
    /\ elapsed = TRUE
    /\ probe = NoProc
    /\ pc = [p \in Procs |-> "idle"]
    /\ attempt = [p \in Procs |-> 1]
    /\ kind = [p \in Procs |-> "ok"]
    /\ healthy = FALSE

Step(p) ==
    \/ AllowLoad(p) \/ AllowClock(p) \/ AllowSwap(p) \/ AllowReload(p)
    \/ CheckHalfOpen(p)
    \/ SuccessStore(p) \/ SuccessSwap(p)
    \/ FailTime(p) \/ FailLoad(p) \/ FailAdd(p) \/ FailOpen(p) \/ FailReopen(p)
    \/ Retry(p) \/ GiveUp(p)

Next ==
    \/ \E p \in Procs : Begin(p) \/ Return(p) \/ Step(p)
    \/ ResetElapses
    \/ Heal

Spec == Init /\ [][Next]_vars

(***************************************************************************)
(* Goroutines are scheduled, the calls with a timeout return, and the      *)
(* reset timeout passes.  Nothing makes the other calls return.            *)
(***************************************************************************)
FairSpec ==
    /\ Spec
    /\ \A p \in Procs : WF_vars(Step(p))
    /\ \A p \in Procs : WF_vars(Timed(p) /\ Return(p))
    /\ WF_vars(ResetElapses)

\* Moreover clients keep sending requests.
BusySpec ==
    /\ FairSpec
    /\ \A p \in Procs : WF_vars(Begin(p))

-----------------------------------------------------------------------------
\* Every variable has its type; no request exceeds its attempts.
TypeOK ==
    /\ provider \in Providers
    /\ state \in BreakerStates
    /\ failures \in Nat
    /\ elapsed \in BOOLEAN
    /\ probe \in Procs \cup {NoProc}
    /\ pc \in [Procs -> PcStates]
    /\ attempt \in [Procs -> 1..MaxAttempts]
    /\ kind \in [Procs -> Kinds]
    /\ healthy \in BOOLEAN

(***************************************************************************)
(* A half-open circuit is never stranded: the request that half-opened it  *)
(* has not yet told the breaker its outcome, and on every path from here   *)
(* it will.  Requests refused meanwhile, stale successes and failures, and *)
(* half-open periods that overlap in time do not lose it (Allow,           *)
(* handleError).                                                           *)
(***************************************************************************)
NeverStranded ==
    state = "half_open" => probe \in Procs /\ pc[probe] \in PendingStates

Cancelled(p) == Return(p) /\ kind'[p] = "cancelled"

\* A call without a timeout is answered, or left by its client, in the end.
CallsReturn == \A p \in Procs : []<>(Timed(p) \/ pc[p] # "call")

\* From some time on no client leaves during a call.
ClientsStay == <>[][\A p \in Procs : ~Cancelled(p)]_vars

(***************************************************************************)
(* Once the backend has recovered and requests keep coming, the circuit    *)
(* closes and stays closed: no failure counted or timed before the         *)
(* recovery, and no probe that was refused or retried, keeps it open       *)
(* (Allow, RecordSuccess, RecordFailure).  Two things can keep it from     *)
(* that, both with vLLM and LiteLLM only: a streaming probe that stays     *)
(* silent, and clients that keep leaving, as the errors hide their cause.  *)
(***************************************************************************)
CircuitRecovers ==
    CallsReturn /\ (KeepsCause \/ ClientsStay)
        => (healthy ~> [](state = "closed"))

=============================================================================
