------------------------ MODULE CircuitBreakerProofs ------------------------
(***************************************************************************)
(* Proofs about CircuitBreaker, for any number of goroutines, threshold,   *)
(* number of attempts and kind of provider errors.                         *)
(***************************************************************************)
EXTENDS CircuitBreaker, TLAPS

\* A finished call sends its goroutine on to tell the breaker.
LEMMA AfterCallPending ==
    ASSUME NEW k \in Kinds
    PROVE  AfterCall(k) \in PendingStates
  BY DEF AfterCall, Classify, Kinds, PendingStates

\* After telling the breaker a goroutine waits or is done.
LEMMA AfterRecordType ==
    ASSUME NEW p \in Procs
    PROVE  AfterRecord(p) \in {"wait", "idle"}
  BY DEF AfterRecord

(***************************************************************************)
(* Type correctness (state of circuit.go and attempt counter of Complete   *)
(* and Stream in resilience.go).                                           *)
(***************************************************************************)
THEOREM TypeCorrect == Spec => []TypeOK
  <1>1. Init => TypeOK
    <2> SUFFICES ASSUME Init PROVE TypeOK
      OBVIOUS
    <2>1. elapsed \in BOOLEAN /\ healthy \in BOOLEAN
      BY Zenon DEF Init
    <2>2. 1 \in 1..MaxAttempts
      BY BreakerAssumption
    <2> QED
      BY <2>1, <2>2
      DEF Init, TypeOK, BreakerStates, PcStates, AllowStates, PendingStates, Kinds
  <1>2. TypeOK /\ [Next]_vars => TypeOK'
    <2> SUFFICES ASSUME TypeOK, [Next]_vars PROVE TypeOK'
      OBVIOUS
    <2> USE BreakerAssumption
    <2> USE DEF TypeOK, BreakerStates, PcStates, AllowStates, PendingStates,
                Goto, Swap, backend
    <2>1. ASSUME NEW p \in Procs, Begin(p) PROVE TypeOK'
      BY <2>1 DEF Begin
    <2>2. ASSUME NEW p \in Procs, AllowLoad(p) PROVE TypeOK'
      BY <2>2 DEF AllowLoad
    <2>3. ASSUME NEW p \in Procs, AllowClock(p) PROVE TypeOK'
      BY <2>3 DEF AllowClock
    <2>4. ASSUME NEW p \in Procs, AllowSwap(p) PROVE TypeOK'
      BY <2>4 DEF AllowSwap
    <2>5. ASSUME NEW p \in Procs, AllowReload(p) PROVE TypeOK'
      BY <2>5 DEF AllowReload
    <2>6. ASSUME NEW p \in Procs, Return(p) PROVE TypeOK'
      BY <2>6, AfterCallPending DEF Return
    <2>7. ASSUME NEW p \in Procs, CheckHalfOpen(p) PROVE TypeOK'
      BY <2>7, AfterRecordType DEF CheckHalfOpen
    <2>8. ASSUME NEW p \in Procs, SuccessStore(p) PROVE TypeOK'
      BY <2>8 DEF SuccessStore
    <2>9. ASSUME NEW p \in Procs, SuccessSwap(p) PROVE TypeOK'
      BY <2>9, AfterRecordType DEF SuccessSwap
    <2>10. ASSUME NEW p \in Procs, FailTime(p) PROVE TypeOK'
      BY <2>10 DEF FailTime
    <2>11. ASSUME NEW p \in Procs, FailLoad(p) PROVE TypeOK'
      BY <2>11, AfterRecordType DEF FailLoad
    <2>12. ASSUME NEW p \in Procs, FailAdd(p) PROVE TypeOK'
      BY <2>12, AfterRecordType DEF FailAdd
    <2>13. ASSUME NEW p \in Procs, FailOpen(p) PROVE TypeOK'
      BY <2>13, AfterRecordType DEF FailOpen
    <2>14. ASSUME NEW p \in Procs, FailReopen(p) PROVE TypeOK'
      BY <2>14, AfterRecordType DEF FailReopen
    <2>15. ASSUME NEW p \in Procs, Retry(p) PROVE TypeOK'
      BY <2>15 DEF Retry
    <2>16. ASSUME NEW p \in Procs, GiveUp(p) PROVE TypeOK'
      BY <2>16 DEF GiveUp
    <2>17. ASSUME ResetElapses PROVE TypeOK'
      BY <2>17 DEF ResetElapses
    <2>18. ASSUME Heal PROVE TypeOK'
      BY <2>18 DEF Heal
    <2>19. CASE UNCHANGED vars
      BY <2>19 DEF vars
    <2> QED
      BY <2>1, <2>2, <2>3, <2>4, <2>5, <2>6, <2>7, <2>8, <2>9, <2>10, <2>11,
         <2>12, <2>13, <2>14, <2>15, <2>16, <2>17, <2>18, <2>19
      DEF Next, Step
  <1> QED
    BY <1>1, <1>2, PTL DEF Spec

(***************************************************************************)
(* A half-open circuit always has its probe underway, so it cannot be      *)
(* stranded (Allow, RecordSuccess, RecordFailure, handleError).  The       *)
(* invariant is inductive together with TypeOK: a goroutine leaves the     *)
(* pending states only by a load that saw the circuit not half-open or by  *)
(* a swap that resolves it, and only a new probe half-opens it again.      *)
(***************************************************************************)
THEOREM NotStranded == Spec => []NeverStranded
  <1>1. Init => NeverStranded
    BY DEF Init, NeverStranded
  <1>2. TypeOK /\ NeverStranded /\ [Next]_vars => NeverStranded'
    <2> SUFFICES ASSUME TypeOK, NeverStranded, [Next]_vars
                 PROVE  NeverStranded'
      OBVIOUS
    <2> USE BreakerAssumption
    <2> USE DEF TypeOK, NeverStranded, PendingStates, Goto, Swap
    <2>1. ASSUME NEW p \in Procs, Begin(p) PROVE NeverStranded'
      BY <2>1 DEF Begin
    <2>2. ASSUME NEW p \in Procs, AllowLoad(p) PROVE NeverStranded'
      BY <2>2 DEF AllowLoad
    <2>3. ASSUME NEW p \in Procs, AllowClock(p) PROVE NeverStranded'
      BY <2>3 DEF AllowClock
    <2>4. ASSUME NEW p \in Procs, AllowSwap(p) PROVE NeverStranded'
      BY <2>4 DEF AllowSwap
    <2>5. ASSUME NEW p \in Procs, AllowReload(p) PROVE NeverStranded'
      BY <2>5 DEF AllowReload
    <2>6. ASSUME NEW p \in Procs, Return(p) PROVE NeverStranded'
      BY <2>6, AfterCallPending DEF Return
    <2>7. ASSUME NEW p \in Procs, CheckHalfOpen(p) PROVE NeverStranded'
      BY <2>7 DEF CheckHalfOpen
    <2>8. ASSUME NEW p \in Procs, SuccessStore(p) PROVE NeverStranded'
      BY <2>8 DEF SuccessStore
    <2>9. ASSUME NEW p \in Procs, SuccessSwap(p) PROVE NeverStranded'
      BY <2>9 DEF SuccessSwap
    <2>10. ASSUME NEW p \in Procs, FailTime(p) PROVE NeverStranded'
      BY <2>10 DEF FailTime
    <2>11. ASSUME NEW p \in Procs, FailLoad(p) PROVE NeverStranded'
      BY <2>11 DEF FailLoad
    <2>12. ASSUME NEW p \in Procs, FailAdd(p) PROVE NeverStranded'
      BY <2>12 DEF FailAdd
    <2>13. ASSUME NEW p \in Procs, FailOpen(p) PROVE NeverStranded'
      BY <2>13 DEF FailOpen
    <2>14. ASSUME NEW p \in Procs, FailReopen(p) PROVE NeverStranded'
      BY <2>14 DEF FailReopen
    <2>15. ASSUME NEW p \in Procs, Retry(p) PROVE NeverStranded'
      BY <2>15 DEF Retry
    <2>16. ASSUME NEW p \in Procs, GiveUp(p) PROVE NeverStranded'
      BY <2>16 DEF GiveUp
    <2>17. ASSUME ResetElapses PROVE NeverStranded'
      BY <2>17 DEF ResetElapses
    <2>18. ASSUME Heal PROVE NeverStranded'
      BY <2>18 DEF Heal
    <2>19. CASE UNCHANGED vars
      BY <2>19 DEF vars
    <2> QED
      BY <2>1, <2>2, <2>3, <2>4, <2>5, <2>6, <2>7, <2>8, <2>9, <2>10, <2>11,
         <2>12, <2>13, <2>14, <2>15, <2>16, <2>17, <2>18, <2>19
      DEF Next, Step
  <1> QED
    BY <1>1, <1>2, TypeCorrect, PTL DEF Spec

=============================================================================
