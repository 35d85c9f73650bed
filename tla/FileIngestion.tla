--------------------------- MODULE FileIngestion ---------------------------
(***************************************************************************)
(* The Files API and the ingestion pipeline (pkg/files): requests that     *)
(* upload, delete, add, remove and batch files, requests that create and   *)
(* delete vector stores (pkg/tools/builtins/filesearch/api.go), and the    *)
(* goroutines that ingest a file into a store under a semaphore.  The      *)
(* handlers take no lock across their calls, so every store call is a step.*)
(***************************************************************************)
EXTENDS VectorStores

CONSTANTS
    Batches,    \* batch identifiers, each used once
    Clients,    \* requests that may be served at the same time
    None,       \* stands for no file, store, batch or record
    SlotCounts, \* settings of pipeline_workers the server may be started with
    NeedsDocling,   \* files of a complex format
    Docling     \* an extraction service is configured

ASSUME FilesAssumption ==
    /\ None \notin Files \cup Stores \cup Batches \cup Jobs
    /\ None \notin [store : Stores, status : {"in_progress", "completed"}]
    /\ (Jobs \cup {None}) \cap (Batches \X Files) = {}
    /\ SlotCounts \subseteq Nat \ {0}
    /\ NeedsDocling \subseteq Files
    /\ Docling \in BOOLEAN

VARIABLES
    slots,      \* capacity of the pipeline's semaphore
    content,    \* files FileStore holds the bytes of
    file,       \* status of each file's metadata, or "absent"
    usedFiles,  \* file identifiers given out
    record,     \* VectorStoreFileRecord of a store and a file, or None
    object,     \* what the records, shared by pointer, hold
    batch,      \* each batch as BatchStore holds it, or None
    req,        \* the handler of each client
    job,        \* each ingestion goroutine
    overlapped, \* history: keys two operations worked on at the same time,
                \* or whose points a failed call may have left behind
    raced       \* history: keys two goroutines held slots for at a time

fileVars == <<content, file, usedFiles>>

recordVars == <<record, object>>

history == <<overlapped, raced>>

vars == <<slots, storeVars, fileVars, recordVars, batch, req, job, history>>

Keys == Stores \X Files

FileStatuses == {"uploaded", "processing", "completed", "failed"}

RecordStatuses == FileStatuses \ {"uploaded"}

(***************************************************************************)
(* The record store hands out pointers.  A record is named by the          *)
(* goroutine that was started with it, or by the batch and the missing     *)
(* file it was made for.                                                   *)
(***************************************************************************)
Objects == Jobs \cup (Batches \X Files)

Record == [status : RecordStatuses, batch : Batches \cup {None}]

NewRecord(b) == [status |-> "processing", batch |-> b]

\* The status of the record of a key.
Shows(k, status) == record[k] # None /\ object[record[k]].status = status

(***************************************************************************)
(* A handler: what it serves, where it is, the key it works on, and the    *)
(* stores (delete, remove) or files (batch) it has still to go through.    *)
(***************************************************************************)
RequestStates ==
    {"idle", "save_meta", "list", "points", "record", "content", "meta",
     "add", "batch", "batch_add", "collection", "undo", "drop", "unlist"}

Request == [pc : RequestStates, file : Files \cup {None},
            store : Stores \cup {None}, batch : Batches \cup {None},
            stores : SUBSET Stores, files : SUBSET Files,
            cascade : BOOLEAN, queued : BOOLEAN]

Idle == [pc |-> "idle", file |-> None, store |-> None, batch |-> None,
         stores |-> {}, files |-> {}, cascade |-> FALSE, queued |-> FALSE]

(***************************************************************************)
(* An ingestion goroutine.  "update" and "save" are the two store calls of *)
(* updateStatus(want); held is the record it got and writes to in between. *)
(***************************************************************************)
ActiveStates == {"waiting", "update", "save", "retrieve", "embed", "index"}

HoldingStates == ActiveStates \ {"waiting"}

JobStates == ActiveStates \cup {"unused", "done"}

Job == [pc : JobStates, file : Files \cup {None}, store : Stores \cup {None},
        want : RecordStatuses, held : Objects \cup {None}]

UnusedJob == [pc |-> "unused", file |-> None, store |-> None,
              want |-> "processing", held |-> None]

DoneJob == [UnusedJob EXCEPT !.pc = "done"]

TypeOK ==
    /\ slots \in SlotCounts
    /\ VectorTypeOK
    /\ content \subseteq usedFiles
    /\ usedFiles \subseteq Files
    /\ file \in [Files -> FileStatuses \cup {"absent"}]
    /\ record \in [Keys -> Objects \cup {None}]
    /\ object \in [Objects -> Record]
    /\ batch \in [Batches ->
                    [store : Stores, status : {"in_progress", "completed"}]
                      \cup {None}]
    /\ req \in [Clients -> Request]
    /\ job \in [Jobs -> Job]
    /\ overlapped \subseteq Keys
    /\ raced \subseteq Keys

Init ==
    /\ slots \in SlotCounts
    /\ VectorInit
    /\ content = {}
    /\ file = [f \in Files |-> "absent"]
    /\ usedFiles = {}
    /\ record = [k \in Keys |-> None]
    /\ object = [o \in Objects |-> NewRecord(None)]
    /\ batch = [b \in Batches |-> None]
    /\ req = [c \in Clients |-> Idle]
    /\ job = [j \in Jobs |-> UnusedJob]
    /\ overlapped = {}
    /\ raced = {}

-----------------------------------------------------------------------------
(***************************************************************************)
(* Who works on a key.                                                     *)
(***************************************************************************)
WorksOn(j, s, f) ==
    job[j].pc \in ActiveStates /\ job[j].store = s /\ job[j].file = f

Ingesting(s, f) == \E j \in Jobs : WorksOn(j, s, f)

\* A delete of the file works on its key in every store.
Handles(c, s, f) ==
    /\ req[c].pc \in {"list", "points", "record", "content", "meta", "add",
                      "batch_add"}
    /\ req[c].file = f
    /\ req[c].cascade \/ req[c].store = s \/ s \in req[c].stores

Busy(s, f) == Ingesting(s, f) \/ \E c \in Clients : Handles(c, s, f)

\* History: operations that start on keys others are working on.
Overlap(keys) ==
    /\ overlapped' = overlapped \cup {k \in keys : Busy(k[1], k[2])}
    /\ UNCHANGED raced

Goto(c, changed) == req' = [req EXCEPT ![c] = changed]

Finish(c) == Goto(c, Idle)

-----------------------------------------------------------------------------
(***************************************************************************)
(* POST /files.  A rejected form changes nothing; the content is stored    *)
(* before the metadata, and a failed store may leave a part of it behind.  *)
(***************************************************************************)
Upload(c) ==
    /\ req[c].pc = "idle"
    /\ \E f \in Files \ usedFiles :
         /\ usedFiles' = usedFiles \cup {f}
         /\ \/ /\ content' = content \cup {f}
               /\ Goto(c, [Idle EXCEPT !.pc = "save_meta", !.file = f])
            \/ /\ content' \in {content, content \cup {f}}
               /\ Finish(c)
    /\ UNCHANGED <<slots, storeVars, file, recordVars, batch, job, history>>

\* MemoryMetadataStore.Save: identifiers are fresh, so it does not fail.
SaveMetadata(c) ==
    /\ req[c].pc = "save_meta"
    /\ file' = [file EXCEPT ![req[c].file] = "uploaded"]
    /\ Finish(c)
    /\ UNCHANGED <<slots, storeVars, content, usedFiles, recordVars, batch,
                   job, history>>

-----------------------------------------------------------------------------
(***************************************************************************)
(* DELETE /files/{id} and DELETE /vector_stores/{id}/files/{id}: points    *)
(* and record of every store on the list, then, for a file, its content    *)
(* and its metadata.  Errors of the calls are ignored.                     *)
(***************************************************************************)
DeleteFile(c) ==
    /\ req[c].pc = "idle"
    /\ \E f \in Files :
         /\ file[f] # "absent"
         /\ Goto(c, [Idle EXCEPT !.pc = "list", !.file = f, !.cascade = TRUE])
         /\ Overlap(Stores \X {f})
    /\ UNCHANGED <<slots, storeVars, fileVars, recordVars, batch, job>>

\* ListByFile, a snapshot.
ListStores(c) ==
    /\ req[c].pc = "list"
    /\ Goto(c, [req[c] EXCEPT
                  !.pc = "points",
                  !.stores = {s \in Stores : record[<<s, req[c].file>>] # None}])
    /\ UNCHANGED <<slots, storeVars, fileVars, recordVars, batch, job,
                   history>>

RemoveFile(c) ==
    /\ req[c].pc = "idle"
    /\ \E s \in Stores, f \in Files :
         /\ record[<<s, f>>] # None
         /\ Goto(c, [Idle EXCEPT !.pc = "points", !.file = f, !.stores = {s}])
         /\ Overlap({<<s, f>>})
    /\ UNCHANGED <<slots, storeVars, fileVars, recordVars, batch, job>>

\* The collection is looked up, and its points of the file are deleted; a
\* call of the remote backend that fails may leave them.
DeletePoints(c) ==
    /\ req[c].pc = "points"
    /\ \E s \in req[c].stores :
         /\ Goto(c, [req[c] EXCEPT !.pc = "record", !.store = s])
         /\ \/ /\ IF Lookup(s) THEN DeletePointsByFile(s, req[c].file)
                               ELSE UNCHANGED collection
               /\ UNCHANGED history
            \/ /\ Qdrant /\ Lookup(s) /\ PointsOf(s, req[c].file) # {}
               /\ overlapped' = overlapped \cup {<<s, req[c].file>>}
               /\ UNCHANGED <<collection, raced>>
    /\ UNCHANGED <<slots, listed, usedStores, sized, fileVars, recordVars,
                   batch, job>>

DeleteRecord(c) ==
    /\ req[c].pc = "record"
    /\ record' = [record EXCEPT ![<<req[c].store, req[c].file>>] = None]
    /\ Goto(c, [req[c] EXCEPT !.pc = "points", !.store = None,
                              !.stores = @ \ {req[c].store}])
    /\ UNCHANGED <<slots, storeVars, fileVars, object, batch, job, history>>

\* The list is worked off: a removal is done, a deletion goes on.
StoresDone(c) ==
    /\ req[c].pc = "points"
    /\ req[c].stores = {}
    /\ IF req[c].cascade THEN Goto(c, [req[c] EXCEPT !.pc = "content"])
                         ELSE Finish(c)
    /\ UNCHANGED <<slots, storeVars, fileVars, recordVars, batch, job,
                   history>>

DeleteContent(c) ==
    /\ req[c].pc = "content"
    /\ content' \in {content, content \ {req[c].file}}
    /\ Goto(c, [req[c] EXCEPT !.pc = "meta"])
    /\ UNCHANGED <<slots, storeVars, file, usedFiles, recordVars, batch, job,
                   history>>

DeleteMetadata(c) ==
    /\ req[c].pc = "meta"
    /\ file' = [file EXCEPT ![req[c].file] = "absent"]
    /\ Finish(c)
    /\ UNCHANGED <<slots, storeVars, content, usedFiles, recordVars, batch,
                   job, history>>

-----------------------------------------------------------------------------
(***************************************************************************)
(* A record is saved and Ingest starts a goroutine that waits for a slot.  *)
(***************************************************************************)
JobLeft == \E j \in Jobs : job[j].pc = "unused"

AddAndIngest(s, f, b) ==
    LET j == CHOOSE i \in Jobs : job[i].pc = "unused"
    IN  /\ record' = [record EXCEPT ![<<s, f>>] = j]
        /\ object' = [object EXCEPT ![j] = NewRecord(b)]
        /\ job' = [job EXCEPT ![j] = [UnusedJob EXCEPT !.pc = "waiting",
                                                       !.file = f,
                                                       !.store = s]]

(***************************************************************************)
(* POST /vector_stores/{id}/files: the checks, then the save that starts   *)
(* the ingestion.  Nothing keeps a second request from passing the checks  *)
(* in between.                                                             *)
(***************************************************************************)
AddFile(c) ==
    /\ req[c].pc = "idle"
    /\ \E s \in Stores, f \in Files :
         /\ Lookup(s)
         /\ file[f] # "absent"
         /\ record[<<s, f>>] = None
         /\ Goto(c, [Idle EXCEPT !.pc = "add", !.store = s, !.file = f])
         /\ Overlap({<<s, f>>})
    /\ UNCHANGED <<slots, storeVars, fileVars, recordVars, batch, job>>

SaveRecord(c) ==
    /\ req[c].pc = "add"
    /\ JobLeft
    /\ AddAndIngest(req[c].store, req[c].file, None)
    /\ Finish(c)
    /\ UNCHANGED <<slots, storeVars, fileVars, batch, history>>

(***************************************************************************)
(* POST /vector_stores/{id}/file_batches: for each file the same checks    *)
(* and save; a file that is not there, or that the caller may not read,    *)
(* gets a failed record, whatever record it has; one that is in the store  *)
(* already only counts as failed.  The batch is saved last.                *)
(***************************************************************************)
CreateBatch(c) ==
    /\ req[c].pc = "idle"
    /\ \E s \in Stores, b \in Batches, fs \in SUBSET Files \ {{}} :
         /\ Lookup(s)
         /\ batch[b] = None
         /\ \A d \in Clients : req[d].batch # b
         /\ Goto(c, [Idle EXCEPT !.pc = "batch", !.store = s, !.batch = b,
                                 !.files = fs])
    /\ UNCHANGED <<slots, storeVars, fileVars, recordVars, batch, job,
                   history>>

BatchNextFile(c) ==
    /\ req[c].pc = "batch"
    /\ \E f \in req[c].files :
         LET rest == [req[c] EXCEPT !.files = @ \ {f}]
             key == <<req[c].store, f>>
             missing == <<req[c].batch, f>>
         IN  \/ /\ record' = [record EXCEPT ![key] = missing]
                /\ object' = [object EXCEPT
                     ![missing] = [status |-> "failed",
                                   batch |-> req[c].batch]]
                /\ Goto(c, rest)
                /\ Overlap({key})
             \/ /\ file[f] # "absent"
                /\ IF record[key] # None
                   THEN Goto(c, rest) /\ UNCHANGED history
                   ELSE /\ Goto(c, [rest EXCEPT !.pc = "batch_add",
                                                !.file = f])
                        /\ Overlap({key})
                /\ UNCHANGED recordVars
    /\ UNCHANGED <<slots, storeVars, fileVars, batch, job>>

BatchSaveRecord(c) ==
    /\ req[c].pc = "batch_add"
    /\ JobLeft
    /\ AddAndIngest(req[c].store, req[c].file, req[c].batch)
    /\ Goto(c, [req[c] EXCEPT !.pc = "batch", !.file = None, !.queued = TRUE])
    /\ UNCHANGED <<slots, storeVars, fileVars, batch, history>>

\* Variant with a bug: a batch that was queued counts as completed.
BatchSaveCompleted(c) ==
    /\ req[c].pc = "batch"
    /\ req[c].files = {}
    /\ batch' = [batch EXCEPT ![req[c].batch] =
                   [store |-> req[c].store,
                    status |-> "completed"]]
    /\ Finish(c)
    /\ UNCHANGED <<slots, storeVars, fileVars, recordVars, job, history>>

BatchSave(c) ==
    /\ req[c].pc = "batch"
    /\ req[c].files = {}
    /\ batch' = [batch EXCEPT ![req[c].batch] =
                   [store |-> req[c].store,
                    status |-> IF req[c].queued THEN "in_progress"
                                                ELSE "completed"]]
    /\ Finish(c)
    /\ UNCHANGED <<slots, storeVars, fileVars, recordVars, job, history>>

\* The keys whose record carries a batch and is still being processed.
InProgress(b) ==
    {k \in Keys : Shows(k, "processing") /\ object[record[k]].batch = b}

\* GET of a batch recounts its records and rewrites the shared batch.
GetBatch(b) ==
    /\ batch[b] # None
    /\ Lookup(batch[b].store)
    /\ InProgress(b) = {}
    /\ batch' = [batch EXCEPT ![b].status = "completed"]
    /\ UNCHANGED <<slots, storeVars, fileVars, recordVars, req, job, history>>

-----------------------------------------------------------------------------
(***************************************************************************)
(* POST /vector_stores: the metadata is visible before the collection is   *)
(* there; when the backend fails it is taken back.                         *)
(***************************************************************************)
CreateStore(c) ==
    /\ req[c].pc = "idle"
    /\ \E s \in Stores \ usedStores :
         /\ usedStores' = usedStores \cup {s}
         /\ listed' = listed \cup {s}
         /\ Goto(c, [Idle EXCEPT !.pc = "collection", !.store = s])
    /\ UNCHANGED <<slots, collection, sized, fileVars, recordVars, batch, job,
                   history>>

CreateStoreCollection(c) ==
    /\ req[c].pc = "collection"
    /\ \/ CreateCollection(req[c].store) /\ Finish(c)
       \/ /\ Qdrant
          /\ CreateCollection(req[c].store) \/ UNCHANGED collection
          /\ Goto(c, [req[c] EXCEPT !.pc = "undo"])
    /\ UNCHANGED <<slots, listed, usedStores, sized, fileVars, recordVars,
                   batch, job, history>>

UndoStore(c) ==
    /\ req[c].pc = "undo"
    /\ listed' = listed \ {req[c].store}
    /\ Finish(c)
    /\ UNCHANGED <<slots, usedStores, collection, sized, fileVars, recordVars,
                   batch, job, history>>

(***************************************************************************)
(* DELETE /vector_stores/{id}: the collection, then the metadata.  The     *)
(* records of its files stay.                                              *)
(***************************************************************************)
DeleteStore(c) ==
    /\ req[c].pc = "idle"
    /\ \E s \in listed : Goto(c, [Idle EXCEPT !.pc = "drop", !.store = s])
    /\ UNCHANGED <<slots, storeVars, fileVars, recordVars, batch, job,
                   history>>

DropCollection(c) ==
    /\ req[c].pc = "drop"
    /\ \/ /\ DeleteCollection(req[c].store)
          /\ Goto(c, [req[c] EXCEPT !.pc = "unlist"])
       \/ /\ Qdrant
          /\ DeleteCollection(req[c].store) \/ UNCHANGED collection
          /\ Finish(c)
    /\ UNCHANGED <<slots, listed, usedStores, sized, fileVars, recordVars,
                   batch, job, history>>

UnlistStore(c) ==
    /\ req[c].pc = "unlist"
    /\ listed' = listed \ {req[c].store}
    /\ Finish(c)
    /\ UNCHANGED <<slots, usedStores, collection, sized, fileVars, recordVars,
                   batch, job, history>>

-----------------------------------------------------------------------------
(***************************************************************************)
(* The ingestion goroutine.                                                *)
(***************************************************************************)
JobIs(j, changed) == job' = [job EXCEPT ![j] = changed]

Key(j) == <<job[j].store, job[j].file>>

Holders == {j \in Jobs : job[j].pc \in HoldingStates}

Acquire(j) ==
    /\ job[j].pc = "waiting"
    /\ Cardinality(Holders) < slots
    /\ JobIs(j, [job[j] EXCEPT !.pc = "update"])
    /\ raced' = raced \cup {k \in {Key(j)} : \E i \in Holders : Key(i) = k}
    /\ UNCHANGED <<slots, storeVars, fileVars, recordVars, batch, req,
                   overlapped>>

\* A stage failed: Ingest records it with updateStatus(failed).
Fail(j) == JobIs(j, [job[j] EXCEPT !.pc = "update", !.want = "failed"])

\* updateStatus writes to the record it got.
WriteRecord(j) ==
    LET o == record[Key(j)]
    IN  /\ object' = [object EXCEPT ![o].status = job[j].want]
        /\ JobIs(j, [job[j] EXCEPT !.pc = "save", !.held = o])

\* Variant with a bug: the status update is repeated until it succeeds.
NoRecordRetrying(j) == Fail(j) /\ UNCHANGED object

\* A record that is gone is an error, which ends a job that failed already.
NoRecord(j) ==
    /\ IF job[j].want = "failed" THEN JobIs(j, DoneJob) ELSE Fail(j)
    /\ UNCHANGED object

\* Variant with a bug: a failed ingestion leaves the statuses alone.
UpdateStatusUnlessFailed(j) ==
    /\ job[j].pc = "update"
    /\ IF job[j].want = "failed"
       THEN UNCHANGED file
       ELSE file' = [file EXCEPT ![job[j].file] =
                       IF @ = "absent" THEN @ ELSE job[j].want]
    /\ IF record[Key(j)] # None /\ job[j].want # "failed"
       THEN WriteRecord(j)
       ELSE NoRecord(j)
    /\ UNCHANGED <<slots, storeVars, content, usedFiles, record, batch, req,
                   history>>

\* Variant with a bug: the update creates the metadata it does not find.
UpdateStatusUpserts(j) ==
    /\ job[j].pc = "update"
    /\ file' = [file EXCEPT ![job[j].file] = job[j].want]
    /\ IF record[Key(j)] # None THEN WriteRecord(j) ELSE NoRecord(j)
    /\ UNCHANGED <<slots, storeVars, content, usedFiles, record, batch, req,
                   history>>

(***************************************************************************)
(* updateStatus: the metadata if it is still there, then the record, which *)
(* is written where it is, without a lock.                                 *)
(***************************************************************************)
UpdateStatus(j) ==
    /\ job[j].pc = "update"
    /\ file' = [file EXCEPT ![job[j].file] =
                  IF @ = "absent" THEN @ ELSE job[j].want]
    /\ IF record[Key(j)] # None THEN WriteRecord(j) ELSE NoRecord(j)
    /\ UNCHANGED <<slots, storeVars, content, usedFiles, record, batch, req,
                   history>>

\* Save puts the record back under its key, whatever is there by now.
SaveStatus(j) ==
    /\ job[j].pc = "save"
    /\ record' = [record EXCEPT ![Key(j)] = job[j].held]
    /\ IF job[j].want = "processing"
       THEN JobIs(j, [job[j] EXCEPT !.pc = "retrieve", !.held = None])
       ELSE JobIs(j, DoneJob)
    /\ UNCHANGED <<slots, storeVars, fileVars, object, batch, req, history>>

Retrieve(j) ==
    /\ job[j].pc = "retrieve"
    /\ IF job[j].file \in content THEN JobIs(j, [job[j] EXCEPT !.pc = "embed"])
                                  ELSE Fail(j)
    /\ UNCHANGED <<slots, storeVars, fileVars, recordVars, batch, req,
                   history>>

\* selectExtractor: a complex format without an extraction service fails.
Extractable(f) == f \in NeedsDocling => Docling

\* Extraction, chunking and embedding; each may fail.
Embed(j) ==
    /\ job[j].pc = "embed"
    /\ \/ /\ Extractable(job[j].file)
          /\ JobIs(j, [job[j] EXCEPT !.pc = "index"])
          /\ Embedded
       \/ Fail(j) /\ UNCHANGED sized
    /\ UNCHANGED <<slots, listed, usedStores, collection, fileVars, recordVars,
                   batch, req, history>>

\* Variant with a bug: the record is completed before the points are in.
IndexLater(j) ==
    /\ job[j].pc = "index"
    /\ Lookup(job[j].store)
    /\ JobIs(j, [job[j] EXCEPT !.pc = "update", !.want = "completed"])
    /\ UNCHANGED <<slots, storeVars, fileVars, recordVars, batch, req,
                   history>>

(***************************************************************************)
(* The lookup of the collection and the upsert.  A failed call may have    *)
(* stored the points.                                                      *)
(***************************************************************************)
Index(j) ==
    LET s == job[j].store
    IN  /\ job[j].pc = "index"
        /\ \/ /\ Lookup(s) /\ Upsertable(s)
              /\ UpsertPoints(s, job[j].file, j)
              /\ JobIs(j, [job[j] EXCEPT !.pc = "update",
                                         !.want = "completed"])
           \/ /\ Qdrant \/ ~(Lookup(s) /\ Upsertable(s))
              /\ \/ UNCHANGED collection
                 \/ /\ Lookup(s) /\ Upsertable(s)
                    /\ UpsertPoints(s, job[j].file, j)
              /\ Fail(j)
        /\ UNCHANGED <<slots, listed, usedStores, sized, fileVars, recordVars,
                       batch, req, history>>

-----------------------------------------------------------------------------
Handler(c) ==
    \/ SaveMetadata(c)
    \/ ListStores(c) \/ DeletePoints(c) \/ DeleteRecord(c) \/ StoresDone(c)
    \/ DeleteContent(c) \/ DeleteMetadata(c)
    \/ SaveRecord(c)
    \/ BatchNextFile(c) \/ BatchSaveRecord(c) \/ BatchSave(c)
    \/ CreateStoreCollection(c) \/ UndoStore(c)
    \/ DropCollection(c) \/ UnlistStore(c)

Arrival(c) ==
    \/ Upload(c) \/ DeleteFile(c) \/ RemoveFile(c) \/ AddFile(c)
    \/ CreateBatch(c) \/ CreateStore(c) \/ DeleteStore(c)

\* The steps of an ingestion inside this process, and its calls of services.
Local(j) == Acquire(j) \/ UpdateStatus(j) \/ SaveStatus(j) \/ Retrieve(j)

Call(j) == Embed(j) \/ Index(j)

Ingestion(j) == Local(j) \/ Call(j)

Next ==
    \/ \E c \in Clients : Arrival(c) \/ Handler(c)
    \/ \E b \in Batches : GetBatch(b)
    \/ \E j \in Jobs : Ingestion(j)

(***************************************************************************)
(* Goroutines run, and the runtime hands a free slot to waiting ones in    *)
(* the order of their sends; a client that made a batch polls it.  New     *)
(* requests need not come, handlers need not end.  The calls of an         *)
(* ingestion need not return: the clients of the embedding service and of  *)
(* Qdrant have no timeout, and the goroutine no context that ends.         *)
(***************************************************************************)
Fairness ==
    /\ \A j \in Jobs : WF_vars(Local(j)) /\ SF_vars(Acquire(j))
    /\ \A b \in Batches : WF_vars(GetBatch(b))

Spec == Init /\ [][Next]_vars /\ Fairness

-----------------------------------------------------------------------------
\* Whatever shows "processing" is being worked on: the metadata of a file by
\* an ingestion of the file, the record of a file in a store by an ingestion
\* of this file into this store - whatever is removed, deleted and added again
\* meanwhile, unless two ingestions of the pair held slots at the same time
\* (pipeline.go updateStatus and Ingest against removals, deletions and
\* additions of the same key; with one slot there is no exception).
Attended ==
    /\ \A s \in Stores, f \in Files :
         Shows(<<s, f>>, "processing") /\ <<s, f>> \notin raced
           => Ingesting(s, f)
    /\ \A f \in Files :
         file[f] = "processing" => \E s \in Stores : Ingesting(s, f)

\* A file that is listed can be downloaded: its content is there, unless a
\* deletion of the file has removed it and is about to remove the metadata
\* (api.go handleUpload, handleDeleteFile; the content and the metadata are
\* separate stores).
ContentForMetadata ==
    \A f \in Files :
      file[f] # "absent" =>
        \/ f \in content
        \/ \E c \in Clients : req[c].pc = "meta" /\ req[c].file = f

\* What file_search finds agrees with the records wherever operations on the
\* same file and store did not overlap and no call was lost: nothing of a file
\* without a record, and a completed file once, from one ingestion
\* (handleDeleteFile, handleRemoveFile, ingest).
IndexAgrees ==
    \A s \in Stores, f \in Files :
      LET found == {p \in SearchMatches({s}) : p[1] = f}
      IN  (collection[s].exists /\ s \in listed /\ <<s, f>> \notin overlapped
                                /\ ~Busy(s, f))
            => /\ record[<<s, f>>] = None => found = {}
               /\ Shows(<<s, f>>, "completed") => Cardinality(found) = 1

\* A batch does not report completion while one of its files is being
\* processed, unless operations on this file overlapped (handleCreateBatch,
\* handleGetBatch recount the records instead of the goroutines).
BatchHonest ==
    \A b \in Batches :
      (batch[b] # None /\ batch[b].status = "completed")
        => InProgress(b) \subseteq overlapped

Calling(j) == job[j].pc \in {"embed", "index"}

\* Every file that was added is ingested or fails, whatever happens to it, to
\* its store or to the other files in the meantime, unless a service never
\* answers its own call, or never answers as many calls as there are slots
\* (pipeline.go Ingest: the slot is held during calls without a timeout).  And
\* when every call is answered, a batch that is polled reports its completion,
\* unless its store is deleted or two ingestions of one of its files held
\* slots at the same time (a record that is saved back after its removal may
\* then show "processing" for good).
IngestionEnds ==
    /\ \A j \in Jobs :
         /\ []<>~Calling(j)
         /\ []<>(Cardinality({i \in Jobs : Calling(i)}) < slots)
         => []<>(job[j].pc \in {"unused", "done"})
    /\ (\A j \in Jobs : []<>~Calling(j))
         => []<>(\A b \in Batches :
                   batch[b] # None => \/ batch[b].status = "completed"
                                      \/ ~Lookup(batch[b].store)
                                      \/ InProgress(b) \cap raced # {})

=============================================================================
