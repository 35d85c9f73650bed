--------------------------- MODULE ResponseStatus ---------------------------
(***************************************************************************)
(* The response status machine of pkg/api/state.go.  "none" stands for the *)
(* empty status, before any status has been set.                           *)
(***************************************************************************)

NoStatus == "none"

ResponseStatuses ==
    {"queued", "in_progress", "completed", "failed", "cancelled",
     "requires_action", "incomplete"}

(***************************************************************************)
(* The statuses that have no row in the transition table, or an empty one. *)
(***************************************************************************)
TerminalStatuses == ResponseStatuses \ {"queued", "in_progress"}

\* Variant with a bug: a running response cannot fail.
TransitionWithoutFailed(from, to) ==
    \/ from = NoStatus /\ to \in {"queued", "in_progress"}
    \/ from = "queued" /\ to \in {"in_progress", "cancelled"}
    \/ from = "in_progress" /\ to \in {"completed", "cancelled", "requires_action"}

(***************************************************************************)
(* The table of ValidateResponseTransition: from the empty status, from    *)
(* queued and from in_progress; every other status allows nothing.         *)
(***************************************************************************)
ValidResponseTransition(from, to) ==
    \/ from = NoStatus /\ to \in {"queued", "in_progress"}
    \/ from = "queued" /\ to \in {"in_progress", "cancelled"}
    \/ /\ from = "in_progress"
       /\ to \in {"completed", "failed", "cancelled", "requires_action"}

=============================================================================
