------------------------- MODULE ResponseLifecycle --------------------------
(***************************************************************************)
(* What a client of the background mode is promised about the status of    *)
(* the responses it polls: a response is queued, is worked on, ends once,  *)
(* and only then may disappear from the store.  Several responses may move *)
(* in one step, each along the table of pkg/api/state.go.                  *)
(***************************************************************************)
EXTENDS ResponseStatus

CONSTANTS
    Ids,        \* response identifiers
    Evicts      \* TRUE when the store may drop a response to make room

VARIABLE status \* [Ids -> a status, "none" before creation, "gone" after removal]

Gone == "gone"

ClientStatuses == ResponseStatuses \cup {NoStatus, Gone}

LifecycleInit == status = [i \in Ids |-> NoStatus]

(***************************************************************************)
(* A response is created, moves along the table, or leaves the store:      *)
(* after it has ended, or at any time when the store evicts.               *)
(***************************************************************************)
Moves(from, to) ==
    \/ from = NoStatus /\ to = "queued"
    \/ from # NoStatus /\ ValidResponseTransition(from, to)
    \/ from \in TerminalStatuses /\ to = Gone
    \/ Evicts /\ from \in ResponseStatuses /\ to = Gone

LifecycleNext ==
    /\ status' \in [Ids -> ClientStatuses]
    /\ \A i \in Ids : status'[i] = status[i] \/ Moves(status[i], status'[i])

LifecycleSpec == LifecycleInit /\ [][LifecycleNext]_status

=============================================================================
