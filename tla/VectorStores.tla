---------------------------- MODULE VectorStores ----------------------------
(***************************************************************************)
(* Vector stores: the metadata the file_search provider keeps of them      *)
(* (pkg/tools/builtins/filesearch/store.go) and the collections of the     *)
(* backend (pkg/vectorstore/memory, pkg/vectorstore/qdrant).  Every store  *)
(* has a collection of its own, so a collection is named by its store; a   *)
(* point is the pair of a file and the ingestion that wrote it.            *)
(***************************************************************************)
EXTENDS Naturals, FiniteSets

CONSTANTS
    Files,      \* file identifiers; an upload takes a fresh one
    Stores,     \* vector store identifiers, taken likewise
    Jobs,       \* ingestion goroutines, in the order they may be started
    Qdrant      \* the backend is the remote one: its calls may fail

ASSUME BackendAssumption == Qdrant \in BOOLEAN

VARIABLES
    listed,     \* stores MetadataStore.Get finds
    usedStores, \* store identifiers given out
    collection, \* of each store: its points, or that it does not exist
    sized       \* the embedding client knows its dimensions

storeVars == <<listed, usedStores, collection, sized>>

Points == SUBSET (Files \X Jobs)

(***************************************************************************)
(* "fits": the dimensions of the collection are those of the embeddings.   *)
(* A store created before the first call of Embed gets a default size.     *)
(***************************************************************************)
Collections == [exists : BOOLEAN, fits : BOOLEAN, points : Points]

NoCollection == [exists |-> FALSE, fits |-> FALSE, points |-> {}]

VectorTypeOK ==
    /\ listed \subseteq usedStores
    /\ usedStores \subseteq Stores
    /\ collection \in [Stores -> Collections]
    /\ sized \in BOOLEAN

VectorInit ==
    /\ listed = {}
    /\ usedStores = {}
    /\ collection = [s \in Stores |-> NoCollection]
    /\ sized = FALSE

\* The lookup the files provider is given: MetadataStore.Get.
Lookup(s) == s \in listed

\* The first successful Embed call sets the dimensions for good.  Only the
\* remote backend looks at them.
Embedded == sized' = (sized \/ Qdrant)

(***************************************************************************)
(* Backend calls.  A call of the remote backend that fails may have been   *)
(* carried out all the same: the error says that the reply was lost.       *)
(***************************************************************************)
CreateCollection(s) ==
    collection' = [collection EXCEPT
                     ![s] = [exists |-> TRUE, fits |-> sized, points |-> {}]]

DeleteCollection(s) ==
    collection' = [collection EXCEPT ![s] = NoCollection]

\* UpsertPoints succeeds: the collection is there and, when the backend
\* checks it, has the size of the vectors.
Upsertable(s) == collection[s].exists /\ (Qdrant => collection[s].fits)

UpsertPoints(s, f, j) ==
    collection' = [collection EXCEPT ![s].points = @ \cup {<<f, j>>}]

PointsOf(s, f) == {p \in collection[s].points : p[1] = f}

DeletePointsByFile(s, f) ==
    collection' = [collection EXCEPT ![s].points = @ \ PointsOf(s, f)]

\* What a search of the stores a caller named may return: every collection
\* that answers contributes, the others are skipped.
SearchMatches(named) ==
    UNION {collection[s].points : s \in {t \in named : Lookup(t)
                                                     /\ Upsertable(t)}}

=============================================================================
