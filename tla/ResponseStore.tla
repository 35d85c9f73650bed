--------------------------- MODULE ResponseStore ----------------------------
(***************************************************************************)
(* The response store as the background mode uses it: the in-memory store  *)
(* (pkg/storage/memory) and the PostgreSQL store (pkg/storage/postgres).   *)
(* Every operator is one method of the transport.ResponseStore interface,  *)
(* which both stores run atomically: the first under its mutex, the second *)
(* as a single SQL statement.                                              *)
(*                                                                         *)
(* Contents are abstracted to flags: whether a result (output, usage,      *)
(* completed_at) and whether an error has been written.  A response that   *)
(* has left the store keeps its record with present = FALSE, because the   *)
(* memory store hands out pointers that outlive the map entry.             *)
(***************************************************************************)
EXTENDS ResponseStatus, Filtering, Naturals, Sequences, FiniteSets

CONSTANTS
    Ids,            \* identifiers of background responses
    Backend,        \* which store is configured
    MaxSize,        \* capacity of the memory store, 0 = unlimited
    TTL,            \* whether a TTL is configured (background.ttl > 0)
    CleanupBatch,   \* cleanup_batch_size
    MaxSecond       \* bound on created_at timestamps, in seconds

ASSUME StoreAssumption ==
    /\ Backend \in {"memory", "postgres"}
    /\ MaxSize \in Nat
    /\ Backend = "postgres" => MaxSize = 0
    /\ TTL \in BOOLEAN
    /\ CleanupBatch \in Nat
    /\ MaxSecond \in Nat

VARIABLES
    store,      \* the entry of every response
    lru,        \* lruList, oldest first; kept only when MaxSize > 0
    cutoff      \* created_at below which the TTL has passed

storeVars == <<store, lru, cutoff>>

Memory == Backend = "memory"

Postgres == Backend = "postgres"

Seconds == 0..MaxSecond

(***************************************************************************)
(* The heartbeat column: null, within the staleness timeout, or past it.   *)
(***************************************************************************)
Heartbeats == {"null", "fresh", "expired"}

Entry == [present: BOOLEAN, status: ResponseStatuses \cup {NoStatus},
          background: BOOLEAN, request: BOOLEAN, deleted: BOOLEAN,
          result: BOOLEAN, error: BOOLEAN, heartbeat: Heartbeats,
          created: Seconds]

NoEntry == [present |-> FALSE, status |-> NoStatus, background |-> FALSE,
            request |-> FALSE, deleted |-> FALSE, result |-> FALSE,
            error |-> FALSE, heartbeat |-> "null", created |-> 0]

(***************************************************************************)
(* A background request leaves up to two entries: its own, and the one the *)
(* engine saves under a fresh identifier while the worker replays the      *)
(* request (saveIfStateful).  Only the place of the second in the eviction *)
(* order matters here.                                                     *)
(***************************************************************************)
Own(i) == <<i, "own">>

Copy(i) == <<i, "copy">>

Keys == Ids \X {"own", "copy"}

(***************************************************************************)
(* evictOldest, called by SaveResponse at capacity.  The list is in order  *)
(* of insertion: reads do not refresh it.                                  *)
(***************************************************************************)
Full == MaxSize > 0 /\ Len(lru) >= MaxSize

AfterEviction ==
    [i \in Ids |-> IF Full /\ Head(lru) = Own(i)
                   THEN [store[i] EXCEPT !.present = FALSE]
                   ELSE store[i]]

Inserted(key) ==
    IF MaxSize = 0 THEN lru
    ELSE Append(IF Full THEN Tail(lru) ELSE lru, key)

\* Variant with a bug: the insert already marks the row as a background one.
SaveResponseClaimable(i, created) ==
    /\ store' = [AfterEviction EXCEPT ![i] =
                    [NoEntry EXCEPT !.present = TRUE, !.status = "queued",
                                    !.background = TRUE, !.created = created]]
    /\ lru' = Inserted(Own(i))
    /\ UNCHANGED cutoff

(***************************************************************************)
(* SaveResponse of a queued background response.  The memory store keeps   *)
(* the Background field of the response; the SQL insert leaves the         *)
(* background column at its default, FALSE.                                *)
(***************************************************************************)
SaveResponse(i, created) ==
    /\ store' = [AfterEviction EXCEPT ![i] =
                    [NoEntry EXCEPT !.present = TRUE, !.status = "queued",
                                    !.background = Memory,
                                    !.created = created]]
    /\ lru' = Inserted(Own(i))
    /\ UNCHANGED cutoff

(***************************************************************************)
(* SaveResponse of the engine's own copy of the result.                    *)
(***************************************************************************)
SaveCopy(i) ==
    /\ store' = AfterEviction
    /\ lru' = Inserted(Copy(i))
    /\ UNCHANGED cutoff

(***************************************************************************)
(* SaveBackgroundRequest; a response that is gone is silently ignored.     *)
(***************************************************************************)
SaveRequest(i) ==
    store' = IF store[i].present
             THEN [store EXCEPT ![i].request = TRUE, ![i].background = TRUE]
             ELSE store

GetFinds(i) == store[i].present /\ ~store[i].deleted

(***************************************************************************)
(* DeleteResponse: the soft delete.                                        *)
(***************************************************************************)
DeleteResponse(i) ==
    store' = IF store[i].present /\ (Postgres => ~store[i].deleted)
             THEN [store EXCEPT ![i].deleted = TRUE]
             ELSE store

\* Variant with a bug: the transition is not validated.
UpdateAnyStatus(i, to) ==
    /\ store[i].present
    /\ Postgres => ~store[i].deleted

(***************************************************************************)
(* Whether UpdateResponse accepts a new status: the memory store validates *)
(* the transition and does not look at the deletion mark; the SQL update   *)
(* skips deleted rows and validates nothing.                               *)
(***************************************************************************)
UpdateAccepted(i, to) ==
    /\ store[i].present
    /\ Memory => ValidResponseTransition(store[i].status, to)
    /\ Postgres => ~store[i].deleted

(***************************************************************************)
(* UpdateResponse with the fields markCompleted, markFailed and            *)
(* markCancelled set.                                                      *)
(***************************************************************************)
Updated(i, to) ==
    IF UpdateAccepted(i, to)
    THEN [store EXCEPT ![i].status = to,
                       ![i].result = @ \/ to = "completed",
                       ![i].error = @ \/ to = "failed"]
    ELSE store

UpdateResponse(i, to) ==
    /\ store' = Updated(i, to)
    /\ UNCHANGED <<lru, cutoff>>

\* Variant with a bug: the deletion mark is not looked at.
RefreshDeleted(i) ==
    /\ store[i].present
    /\ store' = [store EXCEPT ![i].heartbeat = "fresh"]
    /\ UNCHANGED <<lru, cutoff>>

(***************************************************************************)
(* UpdateResponse with only WorkerHeartbeat set: no transition to check.   *)
(***************************************************************************)
RefreshHeartbeat(i) ==
    /\ store[i].present /\ (Postgres => ~store[i].deleted)
    /\ store' = [store EXCEPT ![i].heartbeat = "fresh"]
    /\ UNCHANGED <<lru, cutoff>>

\* Variant with a bug: the status is not looked at.
ClaimableAnyStatus(i) ==
    store[i].present /\ ~store[i].deleted /\ store[i].background

(***************************************************************************)
(* ClaimQueuedResponse takes the oldest claimable response, ties in any    *)
(* order.  skipped are the rows another statement has locked.              *)
(***************************************************************************)
Claimable(i) ==
    /\ store[i].present /\ ~store[i].deleted
    /\ store[i].status = "queued" /\ store[i].background

\* Variant with a bug: the claim leaves the heartbeat null.
ClaimWithoutHeartbeat(i, skipped) ==
    /\ Claimable(i)
    /\ \A j \in Ids \ skipped :
          Claimable(j) => store[i].created <= store[j].created
    /\ store' = [store EXCEPT ![i].status = "in_progress"]
    /\ UNCHANGED <<lru, cutoff>>

ClaimQueuedResponse(i, skipped) ==
    /\ Claimable(i)
    /\ \A j \in Ids \ skipped :
          Claimable(j) => store[i].created <= store[j].created
    /\ store' = [store EXCEPT ![i].status = "in_progress",
                              ![i].heartbeat = "fresh"]
    /\ UNCHANGED <<lru, cutoff>>

(***************************************************************************)
(* CleanupExpired removes up to a batch of ended background responses, in  *)
(* no particular order, soft-deleted ones included.                        *)
(***************************************************************************)
Expired ==
    {i \in Ids : /\ store[i].present /\ store[i].background
                 /\ store[i].status \in {"completed", "failed", "cancelled"}
                 /\ store[i].created < cutoff}

\* Variant with a bug: the eviction list keeps what the map has lost.
CleanupKeepsListed ==
    \E batch \in SUBSET Expired :
        /\ Cardinality(batch) <= CleanupBatch
        /\ batch = Expired \/ Cardinality(batch) = CleanupBatch
        /\ store' = [i \in Ids |-> IF i \in batch
                                   THEN [store[i] EXCEPT !.present = FALSE]
                                   ELSE store[i]]
        /\ UNCHANGED <<lru, cutoff>>

CleanupExpired ==
    \E batch \in SUBSET Expired :
        /\ Cardinality(batch) <= CleanupBatch
        /\ batch = Expired \/ Cardinality(batch) = CleanupBatch
        /\ store' = [i \in Ids |-> IF i \in batch
                                   THEN [store[i] EXCEPT !.present = FALSE]
                                   ELSE store[i]]
        /\ lru' = Kept(lru, Keys \ {Own(i) : i \in batch})
        /\ UNCHANGED cutoff

(***************************************************************************)
(* FindStaleResponses: a null heartbeat is never stale.                    *)
(***************************************************************************)
FindStaleResponses ==
    {i \in Ids : /\ store[i].present /\ ~store[i].deleted
                 /\ store[i].background
                 /\ store[i].status = "in_progress"
                 /\ store[i].heartbeat = "expired"}

(***************************************************************************)
(* Time: one more second of timestamps falls behind the TTL.               *)
(***************************************************************************)
TtlPasses ==
    /\ TTL
    /\ cutoff <= MaxSecond
    /\ cutoff' = cutoff + 1
    /\ UNCHANGED <<store, lru>>

StoreInit ==
    /\ store = [i \in Ids |-> NoEntry]
    /\ lru = <<>>
    /\ cutoff = 0

=============================================================================
