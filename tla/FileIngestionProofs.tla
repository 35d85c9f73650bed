------------------------ MODULE FileIngestionProofs ------------------------
(***************************************************************************)
(* Proofs about FileIngestion, for any number of files, stores, batches,   *)
(* clients, ingestion goroutines and worker slots; and about the chunker   *)
(* that the goroutines call, for texts, sizes and overlaps of any length.  *)
(***************************************************************************)
EXTENDS FileIngestion, Chunker, FiniteSetTheorems, WellFoundedInduction, TLAPS

-----------------------------------------------------------------------------
(***************************************************************************)
(* Type lemmas.                                                            *)
(***************************************************************************)

\* The backend's calls leave well-formed collections.
LEMMA CollectionMade ==
    ASSUME VectorTypeOK, NEW s \in Stores
    PROVE  /\ CreateCollection(s) => collection' \in [Stores -> Collections]
           /\ DeleteCollection(s) => collection' \in [Stores -> Collections]
<1>1. CreateCollection(s) => collection' \in [Stores -> Collections]
  BY DEF VectorTypeOK, CreateCollection, Collections, Points
<1>2. DeleteCollection(s) => collection' \in [Stores -> Collections]
  BY DEF VectorTypeOK, DeleteCollection, NoCollection, Collections, Points
<1> QED
  BY <1>1, <1>2

LEMMA PointsUpserted ==
    ASSUME VectorTypeOK, NEW s \in Stores, NEW f \in Files, NEW j \in Jobs,
           UpsertPoints(s, f, j)
    PROVE  collection' \in [Stores -> Collections]
<1>1. [collection[s] EXCEPT !.points = @ \cup {<<f, j>>}] \in Collections
  BY DEF VectorTypeOK, Collections, Points
<1> QED
  BY <1>1 DEF VectorTypeOK, UpsertPoints

LEMMA PointsDeleted ==
    ASSUME VectorTypeOK, NEW s \in Stores, NEW f, DeletePointsByFile(s, f)
    PROVE  collection' \in [Stores -> Collections]
<1>1. [collection[s] EXCEPT !.points = @ \ PointsOf(s, f)] \in Collections
  BY DEF VectorTypeOK, Collections, Points
<1> QED
  BY <1>1 DEF VectorTypeOK, DeletePointsByFile

-----------------------------------------------------------------------------
(***************************************************************************)
(* Type correctness.  A handler and a goroutine that are at work have the  *)
(* keys they work on.                                                      *)
(***************************************************************************)
RequestPlaced(r) ==
    /\ r.pc \in {"batch", "batch_add"} => r.batch \in Batches
    /\ r.pc \in {"record", "add", "batch", "batch_add", "collection", "undo",
                 "drop", "unlist"} => r.store \in Stores
    /\ r.pc \in {"save_meta", "list", "points", "record", "content", "meta",
                 "add", "batch_add"} => r.file \in Files

JobPlaced(k) ==
    /\ k.pc \in ActiveStates => k.store \in Stores /\ k.file \in Files
    /\ k.pc = "save" => k.held \in Objects

Placed ==
    /\ \A c \in Clients : RequestPlaced(req[c])
    /\ \A j \in Jobs : JobPlaced(job[j])

Typed == TypeOK /\ Placed

\* The handlers after a step of one of them, or of a goroutine.
LEMMA RequestsMove ==
    ASSUME Typed, NEW c \in Clients, NEW r \in Request, RequestPlaced(r),
           Goto(c, r)
    PROVE  /\ req' \in [Clients -> Request]
           /\ \A d \in Clients : RequestPlaced(req[d])'
<1>1. req' = [req EXCEPT ![c] = r] /\ req \in [Clients -> Request]
  BY DEF Goto, Typed, TypeOK
<1>2. \A d \in Clients : RequestPlaced(req[d])
  BY DEF Typed, Placed
<1>3. \A d \in Clients : req'[d] = IF d = c THEN r ELSE req[d]
  BY <1>1
<1>4. \A d \in Clients : RequestPlaced(req'[d])
  BY <1>2, <1>3
<1> QED
  BY <1>1, <1>4 DEF RequestPlaced

LEMMA RequestFinishes ==
    ASSUME Typed, NEW c \in Clients, Finish(c)
    PROVE  /\ req' \in [Clients -> Request]
           /\ \A d \in Clients : RequestPlaced(req[d])'
<1>1. Idle \in Request /\ RequestPlaced(Idle)
  BY DEF Idle, Request, RequestStates, RequestPlaced
<1> QED
  BY <1>1, RequestsMove DEF Finish

LEMMA JobsMove ==
    ASSUME Typed, NEW j \in Jobs, NEW k \in Job, JobPlaced(k), JobIs(j, k)
    PROVE  /\ job' \in [Jobs -> Job]
           /\ \A i \in Jobs : JobPlaced(job[i])'
<1>1. job' = [job EXCEPT ![j] = k] /\ job \in [Jobs -> Job]
  BY DEF JobIs, Typed, TypeOK
<1>2. \A i \in Jobs : JobPlaced(job[i])
  BY DEF Typed, Placed
<1>3. \A i \in Jobs : job'[i] = IF i = j THEN k ELSE job[i]
  BY <1>1
<1>4. \A i \in Jobs : JobPlaced(job'[i])
  BY <1>2, <1>3
<1> QED
  BY <1>1, <1>4 DEF JobPlaced

LEMMA JobFails ==
    ASSUME Typed, NEW j \in Jobs, job[j].pc \in ActiveStates, Fail(j)
    PROVE  /\ job' \in [Jobs -> Job]
           /\ \A i \in Jobs : JobPlaced(job[i])'
<1> DEFINE k == [job[j] EXCEPT !.pc = "update", !.want = "failed"]
<1>1. job[j] \in Job /\ JobPlaced(job[j])
  BY DEF Typed, TypeOK, Placed
<1>2. k \in Job /\ JobPlaced(k)
  BY <1>1 DEF JobPlaced, Job, JobStates, ActiveStates, RecordStatuses,
              FileStatuses
<1> QED
  BY <1>2, JobsMove DEF Fail

LEMMA JobEnds ==
    ASSUME Typed, NEW j \in Jobs, JobIs(j, DoneJob)
    PROVE  /\ job' \in [Jobs -> Job]
           /\ \A i \in Jobs : JobPlaced(job[i])'
<1>1. DoneJob \in Job /\ JobPlaced(DoneJob)
  BY DEF DoneJob, UnusedJob, Job, JobStates, ActiveStates, RecordStatuses,
         FileStatuses, JobPlaced
<1> QED
  BY <1>1, JobsMove

\* A record that is saved for a fresh goroutine.
LEMMA JobStarts ==
    ASSUME Typed, NEW s \in Stores, NEW f \in Files,
           NEW b \in Batches \cup {None}, JobLeft, AddAndIngest(s, f, b)
    PROVE  /\ record' \in [Keys -> Objects \cup {None}]
           /\ object' \in [Objects -> Record]
           /\ job' \in [Jobs -> Job]
           /\ \A i \in Jobs : JobPlaced(job[i])'
<1> DEFINE j == CHOOSE i \in Jobs : job[i].pc = "unused"
           new == [UnusedJob EXCEPT !.pc = "waiting", !.file = f, !.store = s]
<1>1. j \in Jobs
  BY DEF JobLeft
<1> HIDE DEF j
<1>2. new \in Job /\ JobPlaced(new)
  BY DEF UnusedJob, Job, JobStates, ActiveStates, RecordStatuses,
         FileStatuses, JobPlaced
<1>3. NewRecord(b) \in Record
  BY DEF NewRecord, Record, RecordStatuses, FileStatuses
<1>4. /\ record' = [record EXCEPT ![<<s, f>>] = j]
      /\ object' = [object EXCEPT ![j] = NewRecord(b)]
      /\ job' = [job EXCEPT ![j] = new]
  BY DEF AddAndIngest, j
<1>5. JobIs(j, new)
  BY <1>4 DEF JobIs
<1>6. /\ job' \in [Jobs -> Job]
      /\ \A i \in Jobs : JobPlaced(job[i])'
  BY <1>1, <1>2, <1>5, JobsMove
<1> QED
  BY <1>1, <1>3, <1>4, <1>6 DEF Typed, TypeOK, Objects

\* Every step keeps them.
LEMMA TypedAlways == Spec => []Typed
<1>1. Init => Typed
  <2> SUFFICES ASSUME Init PROVE Typed
    OBVIOUS
  <2>1. Idle \in Request /\ RequestPlaced(Idle)
    BY DEF Idle, Request, RequestStates, RequestPlaced
  <2>2. NewRecord(None) \in Record
    BY DEF NewRecord, Record, RecordStatuses, FileStatuses
  <2>3. VectorTypeOK
    BY DEF Init, VectorInit, VectorTypeOK, NoCollection, Collections, Points
  <2>4. UnusedJob \in Job /\ JobPlaced(UnusedJob)
    BY DEF UnusedJob, Job, JobStates, ActiveStates, RecordStatuses,
           FileStatuses, JobPlaced
  <2>5. TypeOK
    BY <2>1, <2>2, <2>3, <2>4 DEF Init, TypeOK
  <2>6. Placed
    BY <2>1, <2>4 DEF Init, Placed
  <2> QED
    BY <2>5, <2>6 DEF Typed
<1>2. Typed /\ [Next]_vars => Typed'
  <2> SUFFICES ASSUME Typed, [Next]_vars PROVE Typed'
    OBVIOUS
  <2> USE FilesAssumption, BackendAssumption
  <2>0. /\ TypeOK /\ VectorTypeOK
        /\ \A c \in Clients : req[c] \in Request /\ RequestPlaced(req[c])
        /\ \A j \in Jobs : job[j] \in Job /\ JobPlaced(job[j])
    BY DEF Typed, TypeOK, Placed
  <2>1. ASSUME NEW c \in Clients, Upload(c) PROVE Typed'
    <3>1. \A f \in Files :
            LET r == [Idle EXCEPT !.pc = "save_meta", !.file = f]
            IN  r \in Request /\ RequestPlaced(r)
      BY DEF Idle, Request, RequestStates, RequestPlaced
    <3>2. /\ req' \in [Clients -> Request]
          /\ \A d \in Clients : RequestPlaced(req[d])'
      BY <2>1, <3>1, RequestsMove, RequestFinishes DEF Upload
    <3> QED
      BY <2>1, <3>2
      DEF Upload, Typed, TypeOK, VectorTypeOK, Placed, storeVars, recordVars,
          history
  <2>2. ASSUME NEW c \in Clients, SaveMetadata(c) PROVE Typed'
    <3>1. /\ req' \in [Clients -> Request]
          /\ \A d \in Clients : RequestPlaced(req[d])'
      BY <2>2, RequestFinishes DEF SaveMetadata
    <3> QED
      BY <2>2, <3>1
      DEF SaveMetadata, Typed, TypeOK, VectorTypeOK, Placed, storeVars,
          recordVars, history, FileStatuses
  <2>3. ASSUME NEW c \in Clients, DeleteFile(c) PROVE Typed'
    <3>1. \A f \in Files :
            LET r == [Idle EXCEPT !.pc = "list", !.file = f,
                                  !.cascade = TRUE]
            IN  r \in Request /\ RequestPlaced(r)
      BY DEF Idle, Request, RequestStates, RequestPlaced
    <3>2. /\ req' \in [Clients -> Request]
          /\ \A d \in Clients : RequestPlaced(req[d])'
      BY <2>3, <3>1, RequestsMove DEF DeleteFile
    <3>3. overlapped' \subseteq Keys
      BY <2>0, <2>3 DEF DeleteFile, Overlap, TypeOK, Keys
    <3> QED
      BY <2>3, <3>2, <3>3
      DEF DeleteFile, Typed, TypeOK, VectorTypeOK, Placed, Overlap,
          storeVars, fileVars, recordVars
  <2>4. ASSUME NEW c \in Clients, ListStores(c) PROVE Typed'
    <3> DEFINE S == {s \in Stores : record[<<s, req[c].file>>] # None}
               r == [req[c] EXCEPT !.pc = "points", !.stores = S]
    <3>1. S \in SUBSET Stores /\ Goto(c, r) /\ req[c].pc = "list"
      BY <2>4 DEF ListStores
    <3>2. req[c] \in Request /\ RequestPlaced(req[c])
      BY <2>0
    <3> HIDE DEF S
    <3>3. r \in Request /\ RequestPlaced(r)
      BY <3>1, <3>2 DEF Request, RequestStates, RequestPlaced
    <3> HIDE DEF r
    <3>4. /\ req' \in [Clients -> Request]
          /\ \A d \in Clients : RequestPlaced(req[d])'
      BY <3>1, <3>3, RequestsMove
    <3> QED
      BY <2>4, <3>4
      DEF ListStores, Typed, TypeOK, VectorTypeOK, Placed, storeVars,
          fileVars, recordVars, history
  <2>5. ASSUME NEW c \in Clients, RemoveFile(c) PROVE Typed'
    <3>1. ASSUME NEW S \in SUBSET Stores, NEW f \in Files,
                 NEW r,
                 r = [Idle EXCEPT !.pc = "points", !.file = f, !.stores = S]
           PROVE  r \in Request /\ RequestPlaced(r)
      BY <3>1 DEF Idle, Request, RequestStates, RequestPlaced
    <3>2. PICK s \in Stores, f \in Files :
             Goto(c, [Idle EXCEPT !.pc = "points", !.file = f,
                                  !.stores = {s}])
      BY <2>5 DEF RemoveFile
    <3>3. /\ req' \in [Clients -> Request]
          /\ \A d \in Clients : RequestPlaced(req[d])'
      BY <3>1, <3>2, RequestsMove
    <3>4. overlapped' \subseteq Keys
      BY <2>0, <2>5 DEF RemoveFile, Overlap, TypeOK, Keys
    <3> QED
      BY <2>5, <3>3, <3>4
      DEF RemoveFile, Typed, TypeOK, VectorTypeOK, Placed, Overlap,
          storeVars, fileVars, recordVars
  <2>6. ASSUME NEW c \in Clients, DeletePoints(c) PROVE Typed'
    <3>1. PICK s \in req[c].stores :
            /\ Goto(c, [req[c] EXCEPT !.pc = "record", !.store = s])
            /\ \/ /\ IF Lookup(s) THEN DeletePointsByFile(s, req[c].file)
                                  ELSE UNCHANGED collection
                  /\ UNCHANGED history
               \/ /\ overlapped' = overlapped \cup {<<s, req[c].file>>}
                  /\ UNCHANGED <<collection, raced>>
      BY <2>6 DEF DeletePoints
    <3> DEFINE r == [req[c] EXCEPT !.pc = "record", !.store = s]
    <3>2. req[c].pc = "points" /\ req[c].file \in Files /\ s \in Stores
      BY <2>0, <2>6 DEF DeletePoints, RequestPlaced, Request
    <3>a. req[c] \in Request /\ "record" \in RequestStates
      BY <2>0 DEF RequestStates
    <3>b. /\ r \in Request /\ r.pc = "record" /\ r.store = s
          /\ r.file = req[c].file
      BY <3>2, <3>a DEF Request
    <3>3. r \in Request /\ RequestPlaced(r)
      BY <3>2, <3>b DEF RequestPlaced
    <3>4. /\ req' \in [Clients -> Request]
          /\ \A d \in Clients : RequestPlaced(req[d])'
      BY <3>1, <3>3, RequestsMove
    <3>5. collection' \in [Stores -> Collections]
      BY <2>0, <3>1, <3>2, PointsDeleted DEF VectorTypeOK
    <3>6. overlapped' \subseteq Keys /\ raced' \subseteq Keys
      BY <2>0, <3>1, <3>2 DEF TypeOK, Keys, history
    <3> QED
      BY <2>6, <3>4, <3>5, <3>6
      DEF DeletePoints, Typed, TypeOK, VectorTypeOK, Placed, fileVars,
          recordVars
  <2>7. ASSUME NEW c \in Clients, DeleteRecord(c) PROVE Typed'
    <3> DEFINE S == req[c].stores \ {req[c].store}
               r == [req[c] EXCEPT !.pc = "points", !.store = None,
                                   !.stores = S]
    <3>1. req[c] \in Request /\ RequestPlaced(req[c])
      BY <2>0
    <3>2. S \in SUBSET Stores /\ Goto(c, r) /\ req[c].pc = "record"
      BY <3>1, <2>7 DEF DeleteRecord, Request
    <3> HIDE DEF S
    <3>3. r \in Request /\ RequestPlaced(r)
      BY <3>1, <3>2 DEF Request, RequestStates, RequestPlaced
    <3> HIDE DEF r
    <3>4. /\ req' \in [Clients -> Request]
          /\ \A d \in Clients : RequestPlaced(req[d])'
      BY <3>2, <3>3, RequestsMove
    <3>5. record' \in [Keys -> Objects \cup {None}]
      BY <2>0, <2>7 DEF DeleteRecord, TypeOK
    <3> QED
      BY <2>7, <3>4, <3>5
      DEF DeleteRecord, Typed, TypeOK, VectorTypeOK, Placed, storeVars,
          fileVars, history
  <2>8. ASSUME NEW c \in Clients, StoresDone(c) PROVE Typed'
    <3> DEFINE r == [req[c] EXCEPT !.pc = "content"]
    <3>1. r \in Request /\ RequestPlaced(r)
      BY <2>0, <2>8 DEF StoresDone, Request, RequestStates, RequestPlaced
    <3>2. /\ req' \in [Clients -> Request]
          /\ \A d \in Clients : RequestPlaced(req[d])'
      BY <2>8, <3>1, RequestsMove, RequestFinishes DEF StoresDone
    <3> QED
      BY <2>8, <3>2
      DEF StoresDone, Typed, TypeOK, VectorTypeOK, Placed, storeVars,
          fileVars, recordVars, history
  <2>9. ASSUME NEW c \in Clients, DeleteContent(c) PROVE Typed'
    <3> DEFINE r == [req[c] EXCEPT !.pc = "meta"]
    <3>1. r \in Request /\ RequestPlaced(r)
      BY <2>0, <2>9 DEF DeleteContent, Request, RequestStates, RequestPlaced
    <3>2. /\ req' \in [Clients -> Request]
          /\ \A d \in Clients : RequestPlaced(req[d])'
      BY <2>9, <3>1, RequestsMove DEF DeleteContent
    <3> QED
      BY <2>9, <3>2
      DEF DeleteContent, Typed, TypeOK, VectorTypeOK, Placed, storeVars,
          recordVars, history
  <2>10. ASSUME NEW c \in Clients, DeleteMetadata(c) PROVE Typed'
    <3>1. /\ req' \in [Clients -> Request]
          /\ \A d \in Clients : RequestPlaced(req[d])'
      BY <2>10, RequestFinishes DEF DeleteMetadata
    <3> QED
      BY <2>10, <3>1
      DEF DeleteMetadata, Typed, TypeOK, VectorTypeOK, Placed, storeVars,
          recordVars, history
  <2>11. ASSUME NEW c \in Clients, AddFile(c) PROVE Typed'
    <3>1. \A s \in Stores, f \in Files :
            LET r == [Idle EXCEPT !.pc = "add", !.store = s, !.file = f]
            IN  r \in Request /\ RequestPlaced(r)
      BY DEF Idle, Request, RequestStates, RequestPlaced
    <3>2. /\ req' \in [Clients -> Request]
          /\ \A d \in Clients : RequestPlaced(req[d])'
      BY <2>11, <3>1, RequestsMove DEF AddFile
    <3>3. overlapped' \subseteq Keys
      BY <2>0, <2>11 DEF AddFile, Overlap, TypeOK, Keys
    <3> QED
      BY <2>11, <3>2, <3>3
      DEF AddFile, Typed, TypeOK, VectorTypeOK, Placed, Overlap, storeVars,
          fileVars, recordVars
  <2>12. ASSUME NEW c \in Clients, SaveRecord(c) PROVE Typed'
    <3>1. req[c].store \in Stores /\ req[c].file \in Files
      BY <2>0, <2>12 DEF SaveRecord, RequestPlaced
    <3>2. /\ record' \in [Keys -> Objects \cup {None}]
          /\ object' \in [Objects -> Record]
          /\ job' \in [Jobs -> Job]
          /\ \A i \in Jobs : JobPlaced(job[i])'
      BY <2>12, <3>1, JobStarts DEF SaveRecord
    <3>3. /\ req' \in [Clients -> Request]
          /\ \A d \in Clients : RequestPlaced(req[d])'
      BY <2>12, RequestFinishes DEF SaveRecord
    <3> QED
      BY <2>12, <3>2, <3>3
      DEF SaveRecord, Typed, TypeOK, VectorTypeOK, Placed, storeVars,
          fileVars, history
  <2>13. ASSUME NEW c \in Clients, CreateBatch(c) PROVE Typed'
    <3>1. ASSUME NEW s \in Stores, NEW b \in Batches, NEW fs \in SUBSET Files,
                 NEW r,
                 r = [Idle EXCEPT !.pc = "batch", !.store = s, !.batch = b,
                                  !.files = fs]
           PROVE  r \in Request /\ RequestPlaced(r)
      BY <3>1 DEF Idle, Request, RequestStates, RequestPlaced
    <3>2. PICK s \in Stores, b \in Batches, fs \in SUBSET Files :
             Goto(c, [Idle EXCEPT !.pc = "batch", !.store = s, !.batch = b,
                                  !.files = fs])
      BY <2>13 DEF CreateBatch
    <3>3. /\ req' \in [Clients -> Request]
          /\ \A d \in Clients : RequestPlaced(req[d])'
      BY <3>1, <3>2, RequestsMove
    <3> QED
      BY <2>13, <3>3
      DEF CreateBatch, Typed, TypeOK, VectorTypeOK, Placed, storeVars,
          fileVars, recordVars, history
  <2>14. ASSUME NEW c \in Clients, BatchNextFile(c) PROVE Typed'
    <3>1. PICK f \in req[c].files :
            \/ /\ record' = [record EXCEPT
                                ![<<req[c].store, f>>] = <<req[c].batch, f>>]
               /\ object' = [object EXCEPT
                    ![<<req[c].batch, f>>] = [status |-> "failed",
                                              batch |-> req[c].batch]]
               /\ Goto(c, [req[c] EXCEPT !.files = req[c].files \ {f}])
               /\ Overlap({<<req[c].store, f>>})
            \/ /\ file[f] # "absent"
               /\ IF record[<<req[c].store, f>>] # None
                  THEN /\ Goto(c, [req[c] EXCEPT !.files = req[c].files \ {f}])
                       /\ UNCHANGED history
                  ELSE /\ Goto(c, [[req[c] EXCEPT !.files = req[c].files \ {f}]
                                  EXCEPT !.pc = "batch_add", !.file = f])
                       /\ Overlap({<<req[c].store, f>>})
               /\ UNCHANGED recordVars
      BY <2>14 DEF BatchNextFile
    <3> DEFINE F == req[c].files \ {f}
               rest == [req[c] EXCEPT !.files = F]
               add == [rest EXCEPT !.pc = "batch_add", !.file = f]
               missing == <<req[c].batch, f>>
               failed == [status |-> "failed", batch |-> req[c].batch]
    <3>2. /\ req[c].pc = "batch" /\ req[c].store \in Stores
          /\ req[c].batch \in Batches /\ f \in Files
          /\ F \in SUBSET Files
          /\ req[c] \in Request /\ RequestPlaced(req[c])
      BY <2>0, <2>14 DEF BatchNextFile, RequestPlaced, Request
    <3>3. rest \in Request /\ RequestPlaced(rest)
      <4> HIDE DEF F
      <4> QED
        BY <3>2 DEF Request, RequestStates, RequestPlaced
    <3>4. add \in Request /\ RequestPlaced(add)
      <4> HIDE DEF F
      <4> QED
        BY <3>2 DEF Request, RequestStates, RequestPlaced
    <3>5. /\ req' \in [Clients -> Request]
          /\ \A d \in Clients : RequestPlaced(req[d])'
      <4> HIDE DEF rest, add
      <4>1. Goto(c, rest) \/ Goto(c, add)
        BY <3>1, Zenon DEF rest, add
      <4> QED
        BY <3>3, <3>4, <4>1, RequestsMove
    <3>6. /\ record' \in [Keys -> Objects \cup {None}]
          /\ object' \in [Objects -> Record]
      <4>1. missing \in Objects /\ failed \in Record
        BY <3>2 DEF Objects, Record, RecordStatuses, FileStatuses
      <4>2. CASE /\ record' = [record EXCEPT ![<<req[c].store, f>>] = missing]
                 /\ object' = [object EXCEPT ![missing] = failed]
        <5> HIDE DEF missing, failed
        <5> QED
          BY <2>0, <4>1, <4>2 DEF TypeOK
      <4>3. CASE UNCHANGED recordVars
        BY <2>0, <4>3 DEF TypeOK, recordVars
      <4> QED
        BY <3>1, <4>2, <4>3
    <3>7. overlapped' \subseteq Keys /\ raced' = raced
      BY <2>0, <3>1, <3>2 DEF Overlap, TypeOK, Keys, history
    <3> QED
      BY <2>14, <3>5, <3>6, <3>7
      DEF BatchNextFile, Typed, TypeOK, VectorTypeOK, Placed, storeVars,
          fileVars
  <2>15. ASSUME NEW c \in Clients, BatchSaveRecord(c) PROVE Typed'
    <3>1. /\ req[c].store \in Stores /\ req[c].file \in Files
          /\ req[c].batch \in Batches /\ req[c].pc = "batch_add"
          /\ req[c] \in Request
      BY <2>0, <2>15 DEF BatchSaveRecord, RequestPlaced
    <3>2. /\ record' \in [Keys -> Objects \cup {None}]
          /\ object' \in [Objects -> Record]
          /\ job' \in [Jobs -> Job]
          /\ \A i \in Jobs : JobPlaced(job[i])'
      BY <2>15, <3>1, JobStarts DEF BatchSaveRecord
    <3> DEFINE r == [req[c] EXCEPT !.pc = "batch", !.file = None,
                                   !.queued = TRUE]
    <3>3. r \in Request /\ RequestPlaced(r)
      BY <3>1 DEF Request, RequestStates, RequestPlaced
    <3>4. /\ req' \in [Clients -> Request]
          /\ \A d \in Clients : RequestPlaced(req[d])'
      BY <2>15, <3>3, RequestsMove DEF BatchSaveRecord
    <3> QED
      BY <2>15, <3>2, <3>4
      DEF BatchSaveRecord, Typed, TypeOK, VectorTypeOK, Placed, storeVars,
          fileVars, history
  <2>16. ASSUME NEW c \in Clients, BatchSave(c) PROVE Typed'
    <3>1. req[c].store \in Stores
      BY <2>0, <2>16 DEF BatchSave, RequestPlaced
    <3>2. /\ req' \in [Clients -> Request]
          /\ \A d \in Clients : RequestPlaced(req[d])'
      BY <2>16, RequestFinishes DEF BatchSave
    <3> QED
      BY <2>16, <3>1, <3>2
      DEF BatchSave, Typed, TypeOK, VectorTypeOK, Placed, storeVars,
          fileVars, recordVars, history
  <2>17. ASSUME NEW c \in Clients, CreateStore(c) PROVE Typed'
    <3>1. \A s \in Stores :
            LET r == [Idle EXCEPT !.pc = "collection", !.store = s]
            IN  r \in Request /\ RequestPlaced(r)
      BY DEF Idle, Request, RequestStates, RequestPlaced
    <3>2. /\ req' \in [Clients -> Request]
          /\ \A d \in Clients : RequestPlaced(req[d])'
      BY <2>17, <3>1, RequestsMove DEF CreateStore
    <3> QED
      BY <2>17, <3>2
      DEF CreateStore, Typed, TypeOK, VectorTypeOK, Placed, fileVars,
          recordVars, history
  <2>18. ASSUME NEW c \in Clients, CreateStoreCollection(c) PROVE Typed'
    <3>1. req[c].pc = "collection" /\ req[c].store \in Stores
      BY <2>0, <2>18 DEF CreateStoreCollection, RequestPlaced
    <3> DEFINE r == [req[c] EXCEPT !.pc = "undo"]
    <3>2. r \in Request /\ RequestPlaced(r)
      BY <2>0, <3>1 DEF Request, RequestStates, RequestPlaced
    <3>3. /\ req' \in [Clients -> Request]
          /\ \A d \in Clients : RequestPlaced(req[d])'
      BY <2>18, <3>2, RequestsMove, RequestFinishes DEF CreateStoreCollection
    <3>4. collection' \in [Stores -> Collections]
      <4>1. CreateCollection(req[c].store) \/ UNCHANGED collection
        BY <2>18 DEF CreateStoreCollection
      <4> QED
        BY <2>0, <3>1, <4>1, CollectionMade DEF VectorTypeOK
    <3> QED
      BY <2>18, <3>3, <3>4
      DEF CreateStoreCollection, Typed, TypeOK, VectorTypeOK, Placed,
          fileVars, recordVars, history
  <2>19. ASSUME NEW c \in Clients, UndoStore(c) PROVE Typed'
    <3>1. /\ req' \in [Clients -> Request]
          /\ \A d \in Clients : RequestPlaced(req[d])'
      BY <2>19, RequestFinishes DEF UndoStore
    <3> QED
      BY <2>19, <3>1
      DEF UndoStore, Typed, TypeOK, VectorTypeOK, Placed, fileVars,
          recordVars, history
  <2>20. ASSUME NEW c \in Clients, DeleteStore(c) PROVE Typed'
    <3>1. \A s \in Stores :
            LET r == [Idle EXCEPT !.pc = "drop", !.store = s]
            IN  r \in Request /\ RequestPlaced(r)
      BY DEF Idle, Request, RequestStates, RequestPlaced
    <3>2. listed \subseteq Stores
      BY <2>0 DEF VectorTypeOK
    <3>3. /\ req' \in [Clients -> Request]
          /\ \A d \in Clients : RequestPlaced(req[d])'
      BY <2>20, <3>1, <3>2, RequestsMove DEF DeleteStore
    <3> QED
      BY <2>20, <3>3
      DEF DeleteStore, Typed, TypeOK, VectorTypeOK, Placed, storeVars,
          fileVars, recordVars, history
  <2>21. ASSUME NEW c \in Clients, DropCollection(c) PROVE Typed'
    <3>1. req[c].pc = "drop" /\ req[c].store \in Stores
      BY <2>0, <2>21 DEF DropCollection, RequestPlaced
    <3> DEFINE r == [req[c] EXCEPT !.pc = "unlist"]
    <3>2. r \in Request /\ RequestPlaced(r)
      BY <2>0, <3>1 DEF Request, RequestStates, RequestPlaced
    <3>3. /\ req' \in [Clients -> Request]
          /\ \A d \in Clients : RequestPlaced(req[d])'
      BY <2>21, <3>2, RequestsMove, RequestFinishes DEF DropCollection
    <3>4. collection' \in [Stores -> Collections]
      <4>1. DeleteCollection(req[c].store) \/ UNCHANGED collection
        BY <2>21 DEF DropCollection
      <4> QED
        BY <2>0, <3>1, <4>1, CollectionMade DEF VectorTypeOK
    <3> QED
      BY <2>21, <3>3, <3>4
      DEF DropCollection, Typed, TypeOK, VectorTypeOK, Placed, fileVars,
          recordVars, history
  <2>22. ASSUME NEW c \in Clients, UnlistStore(c) PROVE Typed'
    <3>1. /\ req' \in [Clients -> Request]
          /\ \A d \in Clients : RequestPlaced(req[d])'
      BY <2>22, RequestFinishes DEF UnlistStore
    <3> QED
      BY <2>22, <3>1
      DEF UnlistStore, Typed, TypeOK, VectorTypeOK, Placed, fileVars,
          recordVars, history
  <2>23. ASSUME NEW b \in Batches, GetBatch(b) PROVE Typed'
    <3>1. batch[b] \in [store : Stores, status : {"in_progress", "completed"}]
      BY <2>0, <2>23 DEF GetBatch, TypeOK
    <3>2. [batch[b] EXCEPT !.status = "completed"]
            \in [store : Stores, status : {"in_progress", "completed"}]
      BY <3>1
    <3> QED
      BY <2>0, <2>23, <3>2
      DEF GetBatch, Typed, TypeOK, VectorTypeOK, Placed, storeVars, fileVars,
          recordVars, history
  <2>24. ASSUME NEW j \in Jobs, Acquire(j) PROVE Typed'
    <3> DEFINE k == [job[j] EXCEPT !.pc = "update"]
    <3>1. job[j].pc = "waiting" /\ Key(j) \in Keys
      BY <2>0, <2>24 DEF Acquire, Job, JobStates, ActiveStates, JobPlaced, Key, Keys
    <3>2. k \in Job /\ JobPlaced(k)
      BY <2>0, <3>1 DEF Job, JobStates, ActiveStates, JobPlaced
    <3>3. /\ job' \in [Jobs -> Job]
          /\ \A i \in Jobs : JobPlaced(job[i])'
      BY <2>24, <3>2, JobsMove DEF Acquire
    <3>4. raced' \subseteq Keys
      BY <2>0, <2>24, <3>1 DEF Acquire, TypeOK
    <3> QED
      BY <2>24, <3>3, <3>4
      DEF Acquire, Typed, TypeOK, VectorTypeOK, Placed, storeVars, fileVars,
          recordVars
  <2>25. ASSUME NEW j \in Jobs, UpdateStatus(j) PROVE Typed'
    <3> DEFINE o == record[Key(j)]
               k == [job[j] EXCEPT !.pc = "save", !.held = o]
    <3>1. /\ job[j].pc = "update" /\ job[j].want \in RecordStatuses
          /\ Key(j) \in Keys /\ o \in Objects \cup {None}
      BY <2>0, <2>25 DEF UpdateStatus, Job, JobStates, ActiveStates, JobPlaced, Key, Keys, TypeOK
    <3>2. ASSUME o # None
          PROVE  /\ job' \in [Jobs -> Job] /\ object' \in [Objects -> Record]
                 /\ \A i \in Jobs : JobPlaced(job[i])'
      <4>1. k \in Job /\ JobPlaced(k)
        <5> HIDE DEF o
        <5> QED
          BY <2>0, <3>1, <3>2 DEF Job, JobStates, ActiveStates, JobPlaced
      <4>2. WriteRecord(j)
        BY <2>25, <3>2 DEF UpdateStatus
      <4>3. /\ job' \in [Jobs -> Job]
          /\ \A i \in Jobs : JobPlaced(job[i])'
        BY <4>1, <4>2, JobsMove DEF WriteRecord
      <4>4. object' = [object EXCEPT ![o].status = job[j].want]
        BY <4>2 DEF WriteRecord
      <4>5. object' \in [Objects -> Record]
        <5> HIDE DEF o
        <5>1. [object[o] EXCEPT !.status = job[j].want] \in Record
          BY <2>0, <3>1, <3>2 DEF TypeOK, Record
        <5> QED
          BY <2>0, <4>4, <5>1 DEF TypeOK
      <4> QED
        BY <4>3, <4>5
    <3>3. ASSUME o = None
          PROVE  /\ job' \in [Jobs -> Job] /\ object' \in [Objects -> Record]
                 /\ \A i \in Jobs : JobPlaced(job[i])'
      <4>1. NoRecord(j)
        BY <2>25, <3>3 DEF UpdateStatus
      <4>2. /\ job' \in [Jobs -> Job]
          /\ \A i \in Jobs : JobPlaced(job[i])'
        BY <3>1, <4>1, JobFails, JobEnds DEF NoRecord, ActiveStates
      <4>3. object' \in [Objects -> Record]
        BY <2>0, <4>1 DEF NoRecord, TypeOK
      <4> QED
        BY <4>2, <4>3
    <3>4. file' \in [Files -> FileStatuses \cup {"absent"}]
      BY <2>0, <2>25, <3>1 DEF UpdateStatus, TypeOK, RecordStatuses
    <3>5. /\ job' \in [Jobs -> Job] /\ object' \in [Objects -> Record]
          /\ \A i \in Jobs : JobPlaced(job[i])'
      BY <3>2, <3>3
    <3> QED
      BY <2>25, <3>4, <3>5
      DEF UpdateStatus, Typed, TypeOK, VectorTypeOK, Placed, storeVars,
          history
  <2>26. ASSUME NEW j \in Jobs, SaveStatus(j) PROVE Typed'
    <3> DEFINE k == [job[j] EXCEPT !.pc = "retrieve", !.held = None]
    <3>1. job[j].pc = "save" /\ job[j].held \in Objects
      BY <2>0, <2>26 DEF SaveStatus, JobPlaced
    <3>2. k \in Job /\ JobPlaced(k)
      BY <2>0, <3>1 DEF Job, JobStates, ActiveStates, JobPlaced
    <3>3. /\ job' \in [Jobs -> Job]
          /\ \A i \in Jobs : JobPlaced(job[i])'
      BY <2>26, <3>2, JobsMove, JobEnds DEF SaveStatus
    <3>4. record' \in [Keys -> Objects \cup {None}]
      BY <2>0, <2>26, <3>1 DEF SaveStatus, TypeOK
    <3> QED
      BY <2>26, <3>3, <3>4
      DEF SaveStatus, Typed, TypeOK, VectorTypeOK, Placed, storeVars,
          fileVars, history
  <2>27. ASSUME NEW j \in Jobs, Retrieve(j) PROVE Typed'
    <3> DEFINE k == [job[j] EXCEPT !.pc = "embed"]
    <3>1. job[j].pc = "retrieve" /\ job[j].pc \in ActiveStates
      BY <2>27 DEF Retrieve, ActiveStates
    <3>2. k \in Job /\ JobPlaced(k)
      BY <2>0, <3>1 DEF Job, JobStates, ActiveStates, JobPlaced
    <3>3. /\ job' \in [Jobs -> Job]
          /\ \A i \in Jobs : JobPlaced(job[i])'
      BY <2>27, <3>1, <3>2, JobsMove, JobFails DEF Retrieve
    <3> QED
      BY <2>27, <3>3
      DEF Retrieve, Typed, TypeOK, VectorTypeOK, Placed, storeVars, fileVars,
          recordVars, history
  <2>28. ASSUME NEW j \in Jobs, Embed(j) PROVE Typed'
    <3> DEFINE k == [job[j] EXCEPT !.pc = "index"]
    <3>1. job[j].pc = "embed" /\ job[j].pc \in ActiveStates
      BY <2>28 DEF Embed, ActiveStates
    <3>2. k \in Job /\ JobPlaced(k)
      BY <2>0, <3>1 DEF Job, JobStates, ActiveStates, JobPlaced
    <3>3. /\ job' \in [Jobs -> Job]
          /\ \A i \in Jobs : JobPlaced(job[i])'
      BY <2>28, <3>1, <3>2, JobsMove, JobFails DEF Embed
    <3>4. sized' \in BOOLEAN
      BY <2>0, <2>28, Zenon DEF Embed, Embedded, VectorTypeOK
    <3> QED
      BY <2>28, <3>3, <3>4
      DEF Embed, Typed, TypeOK, VectorTypeOK, Placed, fileVars, recordVars,
          history
  <2>29. ASSUME NEW j \in Jobs, Index(j) PROVE Typed'
    <3> DEFINE k == [job[j] EXCEPT !.pc = "update", !.want = "completed"]
    <3>1. /\ job[j].pc = "index" /\ job[j].pc \in ActiveStates
          /\ job[j].store \in Stores /\ job[j].file \in Files
      BY <2>0, <2>29 DEF Index, ActiveStates, JobPlaced
    <3>2. k \in Job /\ JobPlaced(k)
      BY <2>0, <3>1 DEF Job, JobStates, ActiveStates, JobPlaced, RecordStatuses, FileStatuses
    <3>3. /\ job' \in [Jobs -> Job]
          /\ \A i \in Jobs : JobPlaced(job[i])'
      BY <2>29, <3>1, <3>2, JobsMove, JobFails DEF Index
    <3>4. collection' \in [Stores -> Collections]
      <4>1. \/ UpsertPoints(job[j].store, job[j].file, j)
            \/ UNCHANGED collection
        BY <2>29 DEF Index
      <4> QED
        BY <2>0, <3>1, <4>1, PointsUpserted DEF VectorTypeOK
    <3> QED
      BY <2>29, <3>3, <3>4
      DEF Index, Typed, TypeOK, VectorTypeOK, Placed, fileVars, recordVars,
          history
  <2>30. CASE UNCHANGED vars
    BY <2>0, <2>30 DEF vars, Typed, TypeOK, VectorTypeOK, Placed, storeVars,
                    fileVars, recordVars, history
  <2> QED
    BY <2>1, <2>2, <2>3, <2>4, <2>5, <2>6, <2>7, <2>8, <2>9, <2>10, <2>11,
       <2>12, <2>13, <2>14, <2>15, <2>16, <2>17, <2>18, <2>19, <2>20, <2>21,
       <2>22, <2>23, <2>24, <2>25, <2>26, <2>27, <2>28, <2>29, <2>30
    DEF Next, Arrival, Handler, Ingestion, Local, Call
<1> QED
  BY <1>1, <1>2, PTL DEF Spec

\* The variables keep their types, whatever the handlers and the goroutines
\* do to the stores they share.
THEOREM TypeCorrect == Spec => []TypeOK
<1>1. Typed => TypeOK
  BY DEF Typed
<1> QED
  BY <1>1, TypedAlways, PTL

-----------------------------------------------------------------------------
(***************************************************************************)
(* A file that is listed can be downloaded.  The deletion of one request   *)
(* never takes the content away from a file another request is uploading:  *)
(* its identifier is fresh, and only files with metadata are deleted.      *)
(***************************************************************************)
Saving(c) == req[c].pc = "save_meta"

ContentSafe ==
    /\ \A f \in Files : file[f] # "absent" => f \in usedFiles
    /\ \A c \in Clients :
         /\ req[c].pc \in {"list", "content", "meta"} => req[c].cascade
         /\ req[c].cascade =>
              /\ req[c].file \in usedFiles
              /\ req[c].pc \in {"list", "points", "record", "content", "meta"}
         /\ Saving(c) => /\ req[c].file \in content \cap usedFiles
                         /\ file[req[c].file] = "absent"
    /\ \A c, d \in Clients :
         Saving(c) /\ req[c].file = req[d].file
           => /\ ~req[d].cascade
              /\ Saving(d) => c = d
    /\ ContentForMetadata

\* A handler moves on and touches no file: it does not start an upload, and
\* a deletion works on a file that is not being uploaded.
LEMMA ContentUntouched ==
    ASSUME Typed, ContentSafe, UNCHANGED fileVars, NEW c \in Clients,
           \A d \in Clients \ {c} : req'[d] = req[d],
           req[c].pc # "meta" /\ req'[c].pc # "save_meta",
           req'[c].pc \in {"list", "content", "meta"} => req'[c].cascade,
           req'[c].cascade =>
             /\ req'[c].pc \in {"list", "points", "record", "content", "meta"}
             /\ req'[c].file \in usedFiles
             /\ \A d \in Clients : Saving(d) => req[d].file # req'[c].file
    PROVE  ContentSafe'
<1>1. file' = file /\ content' = content /\ usedFiles' = usedFiles
  BY DEF fileVars
<1> QED
  BY <1>1 DEF ContentSafe, Saving, ContentForMetadata

\* The same for a handler that does not delete a file, and for the steps of a
\* deletion but its first and last.
LEMMA ContentUntouchedByOthers ==
    ASSUME Typed, ContentSafe, UNCHANGED fileVars, NEW c \in Clients,
           \A d \in Clients \ {c} : req'[d] = req[d],
           req[c].pc # "meta",
           \/ ~req'[c].cascade
              /\ req'[c].pc \notin {"save_meta", "list", "content", "meta"}
           \/ /\ req'[c].cascade = req[c].cascade
              /\ req'[c].file = req[c].file
              /\ req'[c].pc \in {"points", "record"}
    PROVE  ContentSafe'
<1>1. req'[c].cascade => /\ req'[c].file \in usedFiles
                         /\ \A d \in Clients : Saving(d)
                              => req[d].file # req'[c].file
  BY DEF ContentSafe
<1> QED
  BY <1>1, ContentUntouched

THEOREM UploadsKept == Spec => []ContentForMetadata
<1>1. Init => ContentSafe
  BY DEF Init, ContentSafe, Saving, ContentForMetadata, Idle
<1>2. Typed /\ ContentSafe /\ [Next]_vars => ContentSafe'
  <2> SUFFICES ASSUME Typed, ContentSafe, [Next]_vars PROVE ContentSafe'
    OBVIOUS
  <2>0. /\ req \in [Clients -> Request] /\ file \in [Files -> FileStatuses \cup {"absent"}]
        /\ \A c \in Clients : RequestPlaced(req[c]) /\ req[c] \in Request
        /\ content \subseteq usedFiles /\ usedFiles \subseteq Files
    BY DEF Typed, TypeOK, Placed
  <2>1. ASSUME NEW c \in Clients, Upload(c) PROVE ContentSafe'
    <3>1. CASE UNCHANGED <<file>> /\ Finish(c) /\ content \subseteq content'
                 /\ usedFiles \subseteq usedFiles'
      <4>1. \A d \in Clients : req'[d] = IF d = c THEN Idle ELSE req[d]
        BY <2>0, <3>1 DEF Finish, Goto
      <4>2. req[c].pc = "idle"
        BY <2>1 DEF Upload
      <4> QED
        BY <2>0, <3>1, <4>1, <4>2
        DEF ContentSafe, Saving, ContentForMetadata, Idle
    <3>2. ASSUME NEW f \in Files \ usedFiles,
                 usedFiles' = usedFiles \cup {f},
                 content' = content \cup {f},
                 file' = file,
                 Goto(c, [Idle EXCEPT !.pc = "save_meta", !.file = f])
          PROVE  ContentSafe'
      <4> DEFINE r == [Idle EXCEPT !.pc = "save_meta", !.file = f]
      <4>1. \A d \in Clients : req'[d] = IF d = c THEN r ELSE req[d]
        BY <2>0, <3>2 DEF Goto
      <4>2. r.pc = "save_meta" /\ r.file = f /\ ~r.cascade
        BY DEF Idle
      <4>3. req[c].pc = "idle"
        BY <2>1 DEF Upload
      <4>4. \A d \in Clients : req[d].cascade \/ Saving(d)
                                => req[d].file # f
        BY <3>2 DEF ContentSafe
      <4>5. file[f] = "absent"
        BY <3>2 DEF ContentSafe
      <4> HIDE DEF r
      <4> QED
        BY <2>0, <3>2, <4>1, <4>2, <4>3, <4>4, <4>5
        DEF ContentSafe, Saving, ContentForMetadata
    <3>3. \/ UNCHANGED <<file>> /\ Finish(c) /\ content \subseteq content'
            /\ usedFiles \subseteq usedFiles'
          \/ \E f \in Files \ usedFiles :
               /\ usedFiles' = usedFiles \cup {f}
               /\ content' = content \cup {f}
               /\ file' = file
               /\ Goto(c, [Idle EXCEPT !.pc = "save_meta", !.file = f])
      BY <2>1 DEF Upload
    <3> QED
      BY <3>1, <3>2, <3>3
  <2>2. ASSUME NEW c \in Clients, SaveMetadata(c) PROVE ContentSafe'
    <3>1. /\ Saving(c) /\ req[c].file \in Files
          /\ file' = [file EXCEPT ![req[c].file] = "uploaded"]
          /\ content' = content /\ usedFiles' = usedFiles
      BY <2>0, <2>2 DEF SaveMetadata, Saving, RequestPlaced
    <3>2. \A d \in Clients : req'[d] = IF d = c THEN Idle ELSE req[d]
      BY <2>0, <2>2 DEF SaveMetadata, Finish, Goto
    <3>3. \A f \in Files : file'[f] = IF f = req[c].file THEN "uploaded"
                                                        ELSE file[f]
      BY <2>0, <3>1
    <3> QED
      BY <2>0, <3>1, <3>2, <3>3
      DEF ContentSafe, Saving, ContentForMetadata, Idle
  <2>3. ASSUME NEW c \in Clients, DeleteFile(c) PROVE ContentSafe'
    <3>1. PICK f \in Files :
             /\ file[f] # "absent"
             /\ Goto(c, [Idle EXCEPT !.pc = "list", !.file = f,
                                     !.cascade = TRUE])
      BY <2>3 DEF DeleteFile
    <3>2. f \in usedFiles /\ \A d \in Clients : Saving(d) => req[d].file # f
      BY <3>1 DEF ContentSafe
    <3>3. /\ UNCHANGED fileVars /\ req[c].pc = "idle"
          /\ \A d \in Clients \ {c} : req'[d] = req[d]
          /\ req'[c].pc = "list" /\ req'[c].cascade /\ req'[c].file = f
      BY <2>0, <3>1, <2>3 DEF DeleteFile, Goto, Idle
    <3> QED
      BY <3>2, <3>3, ContentUntouched
  <2>4. ASSUME NEW c \in Clients, ListStores(c) PROVE ContentSafe'
    <3>1. /\ UNCHANGED fileVars /\ req[c].pc # "meta"
          /\ \A d \in Clients \ {c} : req'[d] = req[d]
          /\ req'[c].cascade = req[c].cascade
          /\ req'[c].file = req[c].file
          /\ req'[c].pc \in {"points", "record"}
      BY <2>0, <2>4 DEF ListStores, Goto, Idle, fileVars, Request
    <3> QED
      BY <3>1, ContentUntouchedByOthers
  <2>5. ASSUME NEW c \in Clients, RemoveFile(c) PROVE ContentSafe'
    <3>1. /\ UNCHANGED fileVars /\ req[c].pc # "meta"
          /\ \A d \in Clients \ {c} : req'[d] = req[d]
          /\ ~req'[c].cascade
          /\ req'[c].pc \notin {"save_meta", "list", "content", "meta"}
      BY <2>0, <2>5 DEF RemoveFile, Goto, Idle, fileVars
    <3> QED
      BY <3>1, ContentUntouchedByOthers
  <2>6. ASSUME NEW c \in Clients, DeletePoints(c) PROVE ContentSafe'
    <3>1. /\ UNCHANGED fileVars /\ req[c].pc # "meta"
          /\ \A d \in Clients \ {c} : req'[d] = req[d]
          /\ req'[c].cascade = req[c].cascade
          /\ req'[c].file = req[c].file
          /\ req'[c].pc \in {"points", "record"}
      BY <2>0, <2>6 DEF DeletePoints, Goto, Idle, fileVars, Request
    <3> QED
      BY <3>1, ContentUntouchedByOthers
  <2>7. ASSUME NEW c \in Clients, DeleteRecord(c) PROVE ContentSafe'
    <3>1. /\ UNCHANGED fileVars /\ req[c].pc # "meta"
          /\ \A d \in Clients \ {c} : req'[d] = req[d]
          /\ req'[c].cascade = req[c].cascade
          /\ req'[c].file = req[c].file
          /\ req'[c].pc \in {"points", "record"}
      BY <2>0, <2>7 DEF DeleteRecord, Goto, Idle, fileVars, Request
    <3> QED
      BY <3>1, ContentUntouchedByOthers
  <2>8. ASSUME NEW c \in Clients, StoresDone(c) PROVE ContentSafe'
    <3>1. /\ UNCHANGED fileVars /\ req[c].pc = "points"
          /\ \A d \in Clients \ {c} : req'[d] = req[d]
          /\ \/ ~req'[c].cascade /\ req'[c].pc = "idle"
             \/ /\ req[c].cascade /\ req'[c].cascade
                /\ req'[c].pc = "content" /\ req'[c].file = req[c].file
      BY <2>0, <2>8 DEF StoresDone, Goto, Finish, Idle, Request
    <3>2. req'[c].cascade => /\ req'[c].file \in usedFiles
                             /\ \A d \in Clients : Saving(d)
                                  => req[d].file # req'[c].file
      BY <3>1 DEF ContentSafe
    <3> QED
      BY <3>1, <3>2, ContentUntouched
  <2>9. ASSUME NEW c \in Clients, DeleteContent(c) PROVE ContentSafe'
    <3> DEFINE r == [req[c] EXCEPT !.pc = "meta"]
    <3>1. /\ req[c].pc = "content" /\ req[c].cascade /\ ~Saving(c)
          /\ content' \in {content, content \ {req[c].file}}
          /\ file' = file /\ usedFiles' = usedFiles
      BY <2>9 DEF DeleteContent, ContentSafe, Saving
    <3>2. r.pc = "meta" /\ r.cascade = req[c].cascade /\ r.file = req[c].file
      BY <2>0 DEF Request
    <3>3. \A d \in Clients : req'[d] = IF d = c THEN r ELSE req[d]
      BY <2>0, <2>9 DEF DeleteContent, Goto
    <3>4. \A d \in Clients : Saving(d) => req[d].file \in content'
      BY <3>1 DEF ContentSafe
    <3> HIDE DEF r
    <3>5. ContentForMetadata'
      BY <3>1, <3>2, <3>3 DEF ContentSafe, ContentForMetadata
    <3> QED
      <4>1. \A d \in Clients : Saving(d)' <=> Saving(d)
        BY <3>1, <3>2, <3>3 DEF Saving
      <4>2. \A d \in Clients : /\ req'[d].file = req[d].file
                               /\ req'[d].cascade = req[d].cascade
        BY <3>2, <3>3
      <4>3. req'[c].pc = "meta" /\ req'[c].cascade
        BY <3>1, <3>2, <3>3
      <4>4. \A d \in Clients \ {c} : req'[d].pc = req[d].pc
        BY <3>3
      <4> QED
        BY <3>1, <3>4, <3>5, <4>1, <4>2, <4>3, <4>4 DEF ContentSafe
  <2>10. ASSUME NEW c \in Clients, DeleteMetadata(c) PROVE ContentSafe'
    <3>1. /\ req[c].pc = "meta" /\ req[c].file \in Files
          /\ file' = [file EXCEPT ![req[c].file] = "absent"]
          /\ content' = content /\ usedFiles' = usedFiles
      BY <2>0, <2>10 DEF DeleteMetadata, RequestPlaced
    <3>2. \A d \in Clients : req'[d] = IF d = c THEN Idle ELSE req[d]
      BY <2>0, <2>10 DEF DeleteMetadata, Finish, Goto
    <3>3. \A f \in Files : file'[f] = IF f = req[c].file THEN "absent"
                                                        ELSE file[f]
      BY <2>0, <3>1
    <3> QED
      BY <2>0, <3>1, <3>2, <3>3
      DEF ContentSafe, Saving, ContentForMetadata, Idle
  <2>11. ASSUME NEW c \in Clients, AddFile(c) PROVE ContentSafe'
    <3>1. /\ UNCHANGED fileVars /\ req[c].pc # "meta"
          /\ \A d \in Clients \ {c} : req'[d] = req[d]
          /\ ~req'[c].cascade
          /\ req'[c].pc \notin {"save_meta", "list", "content", "meta"}
      BY <2>0, <2>11 DEF AddFile, Goto, Idle, fileVars
    <3> QED
      BY <3>1, ContentUntouchedByOthers
  <2>12. ASSUME NEW c \in Clients, SaveRecord(c) PROVE ContentSafe'
    <3>1. /\ UNCHANGED fileVars /\ req[c].pc # "meta"
          /\ \A d \in Clients \ {c} : req'[d] = req[d]
          /\ ~req'[c].cascade
          /\ req'[c].pc \notin {"save_meta", "list", "content", "meta"}
      BY <2>0, <2>12 DEF SaveRecord, Goto, Idle, fileVars, Finish
    <3> QED
      BY <3>1, ContentUntouchedByOthers
  <2>13. ASSUME NEW c \in Clients, CreateBatch(c) PROVE ContentSafe'
    <3>1. /\ UNCHANGED fileVars /\ req[c].pc # "meta"
          /\ \A d \in Clients \ {c} : req'[d] = req[d]
          /\ ~req'[c].cascade
          /\ req'[c].pc \notin {"save_meta", "list", "content", "meta"}
      BY <2>0, <2>13 DEF CreateBatch, Goto, Idle, fileVars
    <3> QED
      BY <3>1, ContentUntouchedByOthers
  <2>14. ASSUME NEW c \in Clients, BatchNextFile(c) PROVE ContentSafe'
    <3>1. /\ UNCHANGED fileVars /\ req[c].pc = "batch"
          /\ req[c] \in Request /\ ~req[c].cascade
      BY <2>0, <2>14 DEF BatchNextFile, ContentSafe, Request
    <3>2. PICK f \in req[c].files :
            \/ Goto(c, [req[c] EXCEPT !.files = req[c].files \ {f}])
            \/ Goto(c, [[req[c] EXCEPT !.files = req[c].files \ {f}]
                         EXCEPT !.pc = "batch_add", !.file = f])
      BY <2>14 DEF BatchNextFile
    <3> DEFINE rest == [req[c] EXCEPT !.files = req[c].files \ {f}]
               add == [rest EXCEPT !.pc = "batch_add", !.file = f]
    <3>3. rest.pc = "batch" /\ rest.cascade = req[c].cascade
      BY <3>1 DEF Request
    <3>4. add.pc = "batch_add" /\ add.cascade = req[c].cascade
      BY <3>1 DEF Request
    <3>5. Goto(c, rest) \/ Goto(c, add)
      BY <3>2
    <3> HIDE DEF rest, add
    <3>6. \A d \in Clients \ {c} : req'[d] = req[d]
      BY <2>0, <3>5 DEF Goto
    <3>7. req'[c] = rest \/ req'[c] = add
      BY <2>0, <3>5 DEF Goto
    <3>8. req'[c].pc \in {"batch", "batch_add"} /\ ~req'[c].cascade
      BY <3>1, <3>3, <3>4, <3>7
    <3> QED
      BY <3>1, <3>6, <3>8, ContentUntouchedByOthers
  <2>15. ASSUME NEW c \in Clients, BatchSaveRecord(c) PROVE ContentSafe'
    <3>1. /\ UNCHANGED fileVars /\ req[c].pc # "meta"
          /\ \A d \in Clients \ {c} : req'[d] = req[d]
          /\ ~req'[c].cascade
          /\ req'[c].pc \notin {"save_meta", "list", "content", "meta"}
      BY <2>0, <2>15 DEF BatchSaveRecord, Goto, Idle, fileVars, Request, ContentSafe
    <3> QED
      BY <3>1, ContentUntouchedByOthers
  <2>16. ASSUME NEW c \in Clients, BatchSave(c) PROVE ContentSafe'
    <3>1. /\ UNCHANGED fileVars /\ req[c].pc # "meta"
          /\ \A d \in Clients \ {c} : req'[d] = req[d]
          /\ ~req'[c].cascade
          /\ req'[c].pc \notin {"save_meta", "list", "content", "meta"}
      BY <2>0, <2>16 DEF BatchSave, Goto, Idle, fileVars, Finish
    <3> QED
      BY <3>1, ContentUntouchedByOthers
  <2>17. ASSUME NEW c \in Clients, CreateStore(c) PROVE ContentSafe'
    <3>1. /\ UNCHANGED fileVars /\ req[c].pc # "meta"
          /\ \A d \in Clients \ {c} : req'[d] = req[d]
          /\ ~req'[c].cascade
          /\ req'[c].pc \notin {"save_meta", "list", "content", "meta"}
      BY <2>0, <2>17 DEF CreateStore, Goto, Idle, fileVars
    <3> QED
      BY <3>1, ContentUntouchedByOthers
  <2>18. ASSUME NEW c \in Clients, CreateStoreCollection(c) PROVE ContentSafe'
    <3>1. /\ UNCHANGED fileVars /\ req[c].pc # "meta"
          /\ \A d \in Clients \ {c} : req'[d] = req[d]
          /\ ~req'[c].cascade
          /\ req'[c].pc \notin {"save_meta", "list", "content", "meta"}
      BY <2>0, <2>18 DEF CreateStoreCollection, Goto, Idle, fileVars, Finish, Request, ContentSafe
    <3> QED
      BY <3>1, ContentUntouchedByOthers
  <2>19. ASSUME NEW c \in Clients, UndoStore(c) PROVE ContentSafe'
    <3>1. /\ UNCHANGED fileVars /\ req[c].pc # "meta"
          /\ \A d \in Clients \ {c} : req'[d] = req[d]
          /\ ~req'[c].cascade
          /\ req'[c].pc \notin {"save_meta", "list", "content", "meta"}
      BY <2>0, <2>19 DEF UndoStore, Goto, Idle, fileVars, Finish
    <3> QED
      BY <3>1, ContentUntouchedByOthers
  <2>20. ASSUME NEW c \in Clients, DeleteStore(c) PROVE ContentSafe'
    <3>1. /\ UNCHANGED fileVars /\ req[c].pc # "meta"
          /\ \A d \in Clients \ {c} : req'[d] = req[d]
          /\ ~req'[c].cascade
          /\ req'[c].pc \notin {"save_meta", "list", "content", "meta"}
      BY <2>0, <2>20 DEF DeleteStore, Goto, Idle, fileVars
    <3> QED
      BY <3>1, ContentUntouchedByOthers
  <2>21. ASSUME NEW c \in Clients, DropCollection(c) PROVE ContentSafe'
    <3>1. /\ UNCHANGED fileVars /\ req[c].pc # "meta"
          /\ \A d \in Clients \ {c} : req'[d] = req[d]
          /\ ~req'[c].cascade
          /\ req'[c].pc \notin {"save_meta", "list", "content", "meta"}
      BY <2>0, <2>21 DEF DropCollection, Goto, Idle, fileVars, Finish, Request, ContentSafe
    <3> QED
      BY <3>1, ContentUntouchedByOthers
  <2>22. ASSUME NEW c \in Clients, UnlistStore(c) PROVE ContentSafe'
    <3>1. /\ UNCHANGED fileVars /\ req[c].pc # "meta"
          /\ \A d \in Clients \ {c} : req'[d] = req[d]
          /\ ~req'[c].cascade
          /\ req'[c].pc \notin {"save_meta", "list", "content", "meta"}
      BY <2>0, <2>22 DEF UnlistStore, Goto, Idle, fileVars, Finish
    <3> QED
      BY <3>1, ContentUntouchedByOthers
  <2>23. ASSUME NEW b \in Batches, GetBatch(b) PROVE ContentSafe'
    BY <2>23 DEF GetBatch, ContentSafe, Saving, ContentForMetadata, fileVars
  <2>24. ASSUME NEW j \in Jobs, Acquire(j) PROVE ContentSafe'
    BY <2>24 DEF Acquire, ContentSafe, Saving, ContentForMetadata, fileVars
  <2>25. ASSUME NEW j \in Jobs, SaveStatus(j) PROVE ContentSafe'
    BY <2>25 DEF SaveStatus, ContentSafe, Saving, ContentForMetadata, fileVars
  <2>26. ASSUME NEW j \in Jobs, Retrieve(j) PROVE ContentSafe'
    BY <2>26 DEF Retrieve, ContentSafe, Saving, ContentForMetadata, fileVars
  <2>27. ASSUME NEW j \in Jobs, Embed(j) PROVE ContentSafe'
    BY <2>27 DEF Embed, ContentSafe, Saving, ContentForMetadata, fileVars
  <2>28. ASSUME NEW j \in Jobs, Index(j) PROVE ContentSafe'
    BY <2>28 DEF Index, ContentSafe, Saving, ContentForMetadata, fileVars
  <2>29. ASSUME NEW j \in Jobs, UpdateStatus(j) PROVE ContentSafe'
    <3>1. \A f \in Files : file'[f] = "absent" <=> file[f] = "absent"
      <4>1. job[j].want # "absent"
        BY DEF Typed, TypeOK, Job, RecordStatuses, FileStatuses
      <4> QED
        BY <2>0, <4>1, <2>29 DEF UpdateStatus
    <3> QED
      BY <2>0, <3>1, <2>29 DEF UpdateStatus, ContentSafe, Saving,
                            ContentForMetadata
  <2>30. CASE UNCHANGED vars
    BY <2>30 DEF vars, ContentSafe, Saving, ContentForMetadata, fileVars
  <2> QED
    BY <2>1, <2>2, <2>3, <2>4, <2>5, <2>6, <2>7, <2>8, <2>9, <2>10, <2>11,
       <2>12, <2>13, <2>14, <2>15, <2>16, <2>17, <2>18, <2>19, <2>20, <2>21,
       <2>22, <2>23, <2>24, <2>25, <2>26, <2>27, <2>28, <2>29, <2>30
    DEF Next, Arrival, Handler, Ingestion, Local, Call
<1>3. ContentSafe => ContentForMetadata
  BY DEF ContentSafe
<1> QED
  BY <1>1, <1>2, <1>3, TypedAlways, PTL DEF Spec


-----------------------------------------------------------------------------
(***************************************************************************)
(* Whatever shows "processing" is being worked on.                         *)
(*                                                                         *)
(* A batch identifier is with one request until the batch is saved.        *)
(***************************************************************************)
BatchOwned ==
    /\ \A c \in Clients : req[c].batch # None =>
         req[c].pc \in {"batch", "batch_add"} /\ batch[req[c].batch] = None
    /\ \A c, d \in Clients :
         req[c].batch # None /\ req[c].batch = req[d].batch => c = d

(***************************************************************************)
(* What the code holds a pointer to under a key, in the record store or in *)
(* the hands of a goroutine between the calls of updateStatus; and records *)
(* nobody has made yet.                                                    *)
(***************************************************************************)
Refers(o, k) ==
    \/ record[k] = o
    \/ \E j \in Jobs : job[j].pc = "save" /\ job[j].held = o /\ Key(j) = k

Unborn(o) ==
    \/ o \in Jobs /\ job[o].pc = "unused"
    \/ \E b \in Batches, f \in Files :
         /\ o = <<b, f>>
         /\ batch[b] = None
         /\ \A c \in Clients : req[c].batch = b => f \in req[c].files

\* A record belongs to one key, from when it is made.
Unshared ==
    \A o \in Objects, k \in Keys : Refers(o, k) =>
        /\ ~Unborn(o)
        /\ \A k2 \in Keys : Refers(o, k2) => k2 = k

\* Two goroutines with slots work on different keys, unless they raced.
OneHolder ==
    \A i, j \in Holders : i # j /\ Key(i) = Key(j) => Key(i) \in raced

\* Between the calls of updateStatus the record shows what was written.
HeldWritten ==
    \A j \in Jobs : job[j].pc = "save" /\ Key(j) \notin raced =>
        object[job[j].held].status = job[j].want

\* A file that shows "processing" has a goroutine that has yet to write its
\* last status.
InWork(f) ==
    \E j \in Jobs : /\ job[j].file = f /\ job[j].pc \in HoldingStates
                    /\ job[j].pc = "save" => job[j].want = "processing"

FilesInWork == \A f \in Files : file[f] = "processing" => InWork(f)

RecordsAttended ==
    \A k \in Keys : Shows(k, "processing") /\ k \notin raced =>
        Ingesting(k[1], k[2])

AttendedInv ==
    /\ BatchOwned /\ Unshared
    /\ OneHolder /\ HeldWritten /\ RecordsAttended /\ FilesInWork

(***************************************************************************)
(* The requests: a request that makes a batch keeps it until it saves it.  *)
(***************************************************************************)
BatchKept ==
    /\ \A c \in Clients :
         \/ /\ req'[c].batch = None
            /\ req[c].batch # None => batch'[req[c].batch] # None
         \/ /\ req'[c].batch = req[c].batch
            /\ req'[c].pc \in {"batch", "batch_add"}
            /\ req'[c].files \subseteq req[c].files
    /\ \A b \in Batches :
         /\ batch'[b] = None => batch[b] = None
         /\ batch'[b] # None => \/ batch[b] # None
                                \/ \A c \in Clients : req'[c].batch # b

\* Every step but the creation of a batch keeps the identifiers in use.
LEMMA RequestsKeepBatch ==
    ASSUME Typed, BatchOwned, [Next]_vars,
           \A c \in Clients : ~CreateBatch(c)
    PROVE  BatchKept
<1> USE FilesAssumption
<1>0. /\ req \in [Clients -> Request]
      /\ \A c \in Clients : req[c] \in Request /\ RequestPlaced(req[c])
      /\ batch \in [Batches ->
                      [store : Stores, status : {"in_progress", "completed"}]
                        \cup {None}]
  BY DEF Typed, TypeOK, Placed
<1>b. \A c \in Clients : req[c].batch = None \/ req[c].batch \in Batches
  BY <1>0 DEF Request
\* One request moves, and it makes no batch.
<1>1. ASSUME NEW c \in Clients, NEW r, r.batch = None, Goto(c, r),
             req[c].batch = None, batch' = batch
      PROVE  BatchKept
  <2>1. \A d \in Clients : req'[d] = IF d = c THEN r ELSE req[d]
    BY <1>0, <1>1 DEF Goto
  <2> QED
    BY <1>1, <2>1 DEF BatchKept, BatchOwned
<1>2. ASSUME NEW c \in Clients, req[c].pc \notin {"batch", "batch_add"}
      PROVE  req[c].batch = None
  BY <1>2 DEF BatchOwned
<1>3. ASSUME NEW c \in Clients, Arrival(c), ~CreateBatch(c) PROVE BatchKept
  <2>1. req[c].batch = None /\ batch' = batch
    BY <1>2, <1>3
    DEF Arrival, Upload, DeleteFile, RemoveFile, AddFile, CreateStore,
        DeleteStore
  <2>2. ASSUME Finish(c) PROVE BatchKept
    BY <1>1, <2>1, <2>2 DEF Finish, Idle
  <2>3. ASSUME NEW f, NEW s,
               \/ Goto(c, [Idle EXCEPT !.pc = "save_meta", !.file = f])
               \/ Goto(c, [Idle EXCEPT !.pc = "list", !.file = f,
                                       !.cascade = TRUE])
               \/ Goto(c, [Idle EXCEPT !.pc = "points", !.file = f,
                                       !.stores = {s}])
               \/ Goto(c, [Idle EXCEPT !.pc = "add", !.store = s, !.file = f])
               \/ Goto(c, [Idle EXCEPT !.pc = "collection", !.store = s])
               \/ Goto(c, [Idle EXCEPT !.pc = "drop", !.store = s])
        PROVE  BatchKept
    BY <1>1, <2>1, <2>3, Zenon DEF Idle
  <2>4. CASE Upload(c)
    BY <2>2, <2>3, <2>4 DEF Upload
  <2>5. CASE DeleteFile(c)
    BY <2>3, <2>5, Zenon DEF DeleteFile
  <2>6. CASE RemoveFile(c)
    BY <2>3, <2>6, Zenon DEF RemoveFile
  <2>7. CASE AddFile(c)
    BY <2>3, <2>7, Zenon DEF AddFile
  <2>8. CASE CreateStore(c) \/ DeleteStore(c)
    BY <2>3, <2>8 DEF CreateStore, DeleteStore
  <2> QED
    BY <1>3, <2>4, <2>5, <2>6, <2>7, <2>8 DEF Arrival
<1>4. ASSUME NEW c \in Clients,
             \/ SaveMetadata(c) \/ ListStores(c) \/ DeletePoints(c)
             \/ DeleteRecord(c) \/ StoresDone(c) \/ DeleteContent(c)
             \/ DeleteMetadata(c) \/ SaveRecord(c)
             \/ CreateStoreCollection(c) \/ UndoStore(c)
             \/ DropCollection(c) \/ UnlistStore(c)
      PROVE  BatchKept
  <2>1. req[c].batch = None /\ batch' = batch
    BY <1>2, <1>4
    DEF SaveMetadata, ListStores, DeletePoints, DeleteRecord, StoresDone,
        DeleteContent, DeleteMetadata, SaveRecord, CreateStoreCollection,
        UndoStore, DropCollection, UnlistStore
  <2>2. CASE \/ SaveMetadata(c) \/ DeleteMetadata(c) \/ SaveRecord(c)
             \/ UndoStore(c) \/ UnlistStore(c)
    BY <1>1, <2>1, <2>2
    DEF SaveMetadata, DeleteMetadata, SaveRecord, UndoStore, UnlistStore,
        Finish, Idle
  <2>3. ASSUME NEW pc, NEW s, NEW S,
               \/ Goto(c, [req[c] EXCEPT !.pc = pc])
               \/ Goto(c, [req[c] EXCEPT !.pc = pc, !.stores = S])
               \/ Goto(c, [req[c] EXCEPT !.pc = pc, !.store = s])
               \/ Goto(c, [req[c] EXCEPT !.pc = pc, !.store = s, !.stores = S])
               \/ Finish(c)
        PROVE  BatchKept
    <3> DEFINE r1 == [req[c] EXCEPT !.pc = pc]
               r2 == [req[c] EXCEPT !.pc = pc, !.stores = S]
               r3 == [req[c] EXCEPT !.pc = pc, !.store = s]
               r4 == [req[c] EXCEPT !.pc = pc, !.store = s, !.stores = S]
    <3>1. r1.batch = None /\ r2.batch = None
      BY <1>0, <2>1 DEF Request
    <3>2. r3.batch = None /\ r4.batch = None
      BY <1>0, <2>1 DEF Request
    <3>3. Idle.batch = None
      BY DEF Idle
    <3>4. Goto(c, r1) \/ Goto(c, r2) \/ Goto(c, r3) \/ Goto(c, r4)
            \/ Goto(c, Idle)
      BY <2>3 DEF Finish
    <3> HIDE DEF r1, r2, r3, r4
    <3> QED
      BY <1>1, <2>1, <3>1, <3>2, <3>3, <3>4
  <2>4. CASE ListStores(c)
    BY <2>3, <2>4, Zenon DEF ListStores
  <2>5. CASE DeletePoints(c)
    BY <2>3, <2>5, Zenon DEF DeletePoints
  <2>6. CASE DeleteRecord(c)
    BY <2>3, <2>6, Zenon DEF DeleteRecord
  <2>7. CASE StoresDone(c)
    BY <2>3, <2>7, Zenon DEF StoresDone
  <2>8. CASE DeleteContent(c)
    BY <2>3, <2>8, Zenon DEF DeleteContent
  <2>9. CASE CreateStoreCollection(c) \/ DropCollection(c)
    BY <2>3, <2>9 DEF CreateStoreCollection, DropCollection
  <2> QED
    BY <1>4, <2>2, <2>4, <2>5, <2>6, <2>7, <2>8, <2>9
\* One request moves on with its batch.
<1>5. ASSUME NEW c \in Clients, NEW r, Goto(c, r), r.batch = req[c].batch,
             r.pc \in {"batch", "batch_add"}, r.files \subseteq req[c].files,
             batch' = batch
      PROVE  BatchKept
  <2>1. \A d \in Clients : req'[d] = IF d = c THEN r ELSE req[d]
    BY <1>0, <1>5 DEF Goto
  <2> QED
    BY <1>5, <2>1 DEF BatchKept, BatchOwned
<1>6. ASSUME NEW c \in Clients, BatchNextFile(c) \/ BatchSaveRecord(c)
      PROVE  BatchKept
  <2>1. batch' = batch
    BY <1>6 DEF BatchNextFile, BatchSaveRecord
  <2>2. CASE BatchSaveRecord(c)
    <3> DEFINE r == [req[c] EXCEPT !.pc = "batch", !.file = None,
                                   !.queued = TRUE]
    <3>1. Goto(c, r)
      BY <2>2 DEF BatchSaveRecord
    <3>2. r.batch = req[c].batch /\ r.pc = "batch" /\ r.files = req[c].files
      BY <1>0 DEF Request
    <3> HIDE DEF r
    <3> QED
      BY <1>5, <2>1, <3>1, <3>2
  <2>3. CASE BatchNextFile(c)
    <3>1. PICK f \in req[c].files :
            \/ Goto(c, [req[c] EXCEPT !.files = @ \ {f}])
            \/ Goto(c, [[req[c] EXCEPT !.files = @ \ {f}]
                          EXCEPT !.pc = "batch_add", !.file = f])
      BY <2>3 DEF BatchNextFile
    <3> DEFINE rest == [req[c] EXCEPT !.files = @ \ {f}]
               next == [rest EXCEPT !.pc = "batch_add", !.file = f]
    <3>2. req[c].pc = "batch"
      BY <2>3 DEF BatchNextFile
    <3>3. /\ rest \in Request /\ rest.batch = req[c].batch
          /\ rest.pc = "batch" /\ rest.files \subseteq req[c].files
      BY <1>0, <3>2 DEF Request
    <3>4. /\ next.batch = req[c].batch
          /\ next.pc = "batch_add" /\ next.files \subseteq req[c].files
      BY <3>3 DEF Request
    <3> HIDE DEF rest, next
    <3>5. Goto(c, rest) \/ Goto(c, next)
      BY <3>1 DEF rest, next
    <3> QED
      BY <1>5, <2>1, <3>3, <3>4, <3>5
  <2> QED
    BY <1>6, <2>2, <2>3
<1>7. ASSUME NEW c \in Clients, BatchSave(c) PROVE BatchKept
  <2>1. \A d \in Clients : req'[d] = IF d = c THEN Idle ELSE req[d]
    BY <1>0, <1>7 DEF BatchSave, Finish, Goto
  <2>2. req[c].batch \in Batches /\ Idle.batch = None
    BY <1>0, <1>7 DEF BatchSave, RequestPlaced, Idle
  <2> DEFINE v == [store |-> req[c].store,
                   status |-> IF req[c].queued THEN "in_progress"
                                               ELSE "completed"]
  <2>3. batch' = [batch EXCEPT ![req[c].batch] = v]
    BY <1>7 DEF BatchSave
  <2>4. v # None
    <3>1. req[c].store \in Stores
      BY <1>0, <1>7 DEF BatchSave, RequestPlaced
    <3>2. v \in [store : Stores, status : {"in_progress", "completed"}]
      BY <3>1
    <3> QED
      BY <3>2
  <2> HIDE DEF v
  <2>5. \A b \in Batches : batch'[b] = IF b = req[c].batch THEN v ELSE batch[b]
    BY <1>0, <2>3
  <2>6. \A d \in Clients : d # c => req[d].batch # req[c].batch
    BY <2>2 DEF BatchOwned
  <2> QED
    BY <1>b, <2>1, <2>2, <2>4, <2>5, <2>6 DEF BatchKept, BatchOwned
<1>8. ASSUME NEW b \in Batches, GetBatch(b) PROVE BatchKept
  <2>1. req' = req /\ batch[b] # None
    BY <1>8 DEF GetBatch
  <2>2. /\ \A a \in Batches \ {b} : batch'[a] = batch[a]
        /\ batch'[b] \in [store : Stores, status : {"in_progress", "completed"}]
    BY <1>0, <1>8, <2>1 DEF GetBatch
  <2>3. batch'[b] # None
    BY <2>2
  <2> QED
    BY <1>b, <2>1, <2>2, <2>3 DEF BatchKept, BatchOwned
<1>9. ASSUME UNCHANGED <<req, batch>> PROVE BatchKept
  BY <1>9 DEF BatchKept, BatchOwned
<1>10. ASSUME NEW j \in Jobs, Ingestion(j) PROVE UNCHANGED <<req, batch>>
  BY <1>10 DEF Ingestion, Local, Call, Acquire, UpdateStatus, SaveStatus, Retrieve, Embed,
               Index
<1> QED
  BY <1>3, <1>4, <1>6, <1>7, <1>8, <1>9, <1>10 DEF Next, Handler, vars

\* A new batch has an identifier nobody has.
LEMMA BatchBegins ==
    ASSUME Typed, NEW c \in Clients, CreateBatch(c)
    PROVE  /\ batch' = batch
           /\ \E b \in Batches :
                /\ batch[b] = None
                /\ req'[c].batch = b /\ req'[c].pc = "batch"
                /\ \A d \in Clients : req[d].batch # b
           /\ \A d \in Clients \ {c} : req'[d] = req[d]
           /\ req[c].pc = "idle"
<1>1. req \in [Clients -> Request]
  BY DEF Typed, TypeOK
<1> QED
  BY <1>1 DEF CreateBatch, Goto, Idle

\* BatchOwned is inductive.
LEMMA BatchOwnedStep ==
    ASSUME Typed, BatchOwned, [Next]_vars
    PROVE  BatchOwned'
<1>0. \A c \in Clients : req[c].batch = None \/ req[c].batch \in Batches
  BY DEF Typed, TypeOK, Request
<1>1. ASSUME NEW c \in Clients, CreateBatch(c) PROVE BatchOwned'
  BY <1>1, BatchBegins DEF BatchOwned
<1>2. CASE \A c \in Clients : ~CreateBatch(c)
  <2>1. BatchKept
    BY <1>2, RequestsKeepBatch
  <2> QED
    BY <1>0, <2>1 DEF BatchKept, BatchOwned
<1> QED
  BY <1>1, <1>2

-----------------------------------------------------------------------------
(***************************************************************************)
(* The goroutines: what an ingestion does to its job, its record and the   *)
(* metadata.                                                               *)
(***************************************************************************)
OnlyJob(j) == \A i \in Jobs \ {j} : job'[i] = job[i]

SameKey(j) == job'[j].store = job[j].store /\ job'[j].file = job[j].file

OtherFiles(j) == \A f \in Files \ {job[j].file} : file'[f] = file[f]

Acquires(j) ==
    /\ job[j].pc = "waiting" /\ job'[j].pc = "update"
    /\ SameKey(j)
    /\ raced' = raced \cup {k \in {Key(j)} : \E i \in Holders : Key(i) = k}
    /\ UNCHANGED <<file, record, object>>

Works(j) ==
    /\ job[j].pc \in HoldingStates \ {"save"}
    /\ job'[j].pc \in HoldingStates \ {"save"}
    /\ SameKey(j)
    /\ OtherFiles(j)
    /\ UNCHANGED <<record, object, raced>>

Writes(j) ==
    LET o == record[Key(j)]
    IN  /\ job[j].pc = "update"
        /\ o # None
        /\ job'[j].pc = "save" /\ job'[j].held = o
        /\ job'[j].want = job[j].want
        /\ SameKey(j)
        /\ OtherFiles(j)
        /\ file'[job[j].file] \in {"absent", job[j].want}
        /\ object' = [object EXCEPT ![o].status = job[j].want]
        /\ UNCHANGED <<record, raced>>

Saves(j) ==
    /\ job[j].pc = "save"
    /\ IF job[j].want = "processing"
       THEN job'[j].pc = "retrieve" /\ SameKey(j)
       ELSE job'[j].pc = "done"
    /\ record' = [record EXCEPT ![Key(j)] = job[j].held]
    /\ UNCHANGED <<file, object, raced>>

GivesUp(j) ==
    /\ job[j].pc = "update" /\ job[j].want = "failed"
    /\ job'[j].pc = "done"
    /\ record[Key(j)] = None
    /\ OtherFiles(j)
    /\ file'[job[j].file] \in {"absent", "failed"}
    /\ UNCHANGED <<record, object, raced>>

\* Every step of an ingestion goroutine is one of these.
LEMMA IngestionMoves ==
    ASSUME Typed, NEW j \in Jobs, Ingestion(j)
    PROVE  /\ OnlyJob(j)
           /\ \/ Acquires(j) \/ Works(j) \/ Writes(j) \/ Saves(j) \/ GivesUp(j)
<1>0. /\ job \in [Jobs -> Job] /\ job[j] \in Job /\ JobPlaced(job[j])
      /\ file \in [Files -> FileStatuses \cup {"absent"}]
  BY DEF Typed, TypeOK, Placed
<1>1. ASSUME NEW k, JobIs(j, k) PROVE OnlyJob(j) /\ job'[j] = k
  BY <1>0, <1>1 DEF JobIs, OnlyJob
<1> DEFINE Failing == [job[j] EXCEPT !.pc = "update", !.want = "failed"]
<1>2. /\ Failing.pc = "update" /\ Failing.store = job[j].store
      /\ Failing.file = job[j].file
  BY <1>0 DEF Job
<1>3. ASSUME Fail(j) PROVE /\ OnlyJob(j) /\ SameKey(j)
                           /\ job'[j].pc \in HoldingStates \ {"save"}
  <2>1. JobIs(j, Failing)
    BY <1>3 DEF Fail
  <2> HIDE DEF Failing
  <2> QED
    BY <1>1, <1>2, <2>1 DEF SameKey, HoldingStates, ActiveStates
<1>4. ASSUME NEW pc \in {"update", "retrieve", "embed", "index"}, NEW want,
             \/ JobIs(j, [job[j] EXCEPT !.pc = pc])
             \/ JobIs(j, [job[j] EXCEPT !.pc = pc, !.want = want])
             \/ JobIs(j, [job[j] EXCEPT !.pc = pc, !.held = None])
      PROVE  /\ OnlyJob(j) /\ SameKey(j) /\ job'[j].pc = pc
  <2> DEFINE k1 == [job[j] EXCEPT !.pc = pc]
             k2 == [job[j] EXCEPT !.pc = pc, !.want = want]
             k3 == [job[j] EXCEPT !.pc = pc, !.held = None]
             Moves(k) == /\ k.pc = pc /\ k.store = job[j].store
                         /\ k.file = job[j].file
  <2>1. Moves(k1) /\ Moves(k2) /\ Moves(k3)
    BY <1>0 DEF Job
  <2>2. JobIs(j, k1) \/ JobIs(j, k2) \/ JobIs(j, k3)
    BY <1>4
  <2> HIDE DEF k1, k2, k3
  <2> QED
    BY <1>1, <2>1, <2>2 DEF SameKey
<1>5. CASE Acquire(j)
  BY <1>4, <1>5 DEF Acquire, Acquires, fileVars, recordVars
<1>6. CASE UpdateStatus(j)
  <2>1. /\ OtherFiles(j)
        /\ file'[job[j].file] \in {"absent", job[j].want}
    BY <1>0, <1>6 DEF UpdateStatus, OtherFiles, JobPlaced, ActiveStates
  <2>2. CASE record[Key(j)] # None
    <3> DEFINE k == [job[j] EXCEPT !.pc = "save", !.held = record[Key(j)]]
    <3>1. JobIs(j, k)
      BY <1>6, <2>2 DEF UpdateStatus, WriteRecord
    <3>2. /\ k.pc = "save" /\ k.held = record[Key(j)] /\ k.want = job[j].want
          /\ k.store = job[j].store /\ k.file = job[j].file
      BY <1>0 DEF Job
    <3> HIDE DEF k
    <3>3. /\ object' = [object EXCEPT ![record[Key(j)]].status = job[j].want]
          /\ UNCHANGED <<record, raced>>
          /\ job[j].pc = "update"
      BY <1>6, <2>2 DEF UpdateStatus, WriteRecord, history
    <3>4. OnlyJob(j) /\ job'[j] = k
      BY <1>1, <3>1
    <3> QED
      BY <2>1, <2>2, <3>2, <3>3, <3>4 DEF Writes, SameKey
  <2>3. CASE record[Key(j)] = None /\ job[j].want = "failed"
    <3>1. JobIs(j, DoneJob) /\ DoneJob.pc = "done"
      BY <1>6, <2>3 DEF UpdateStatus, NoRecord, DoneJob, UnusedJob
    <3>2. UNCHANGED <<record, object, raced>> /\ job[j].pc = "update"
      BY <1>6, <2>3 DEF UpdateStatus, NoRecord, history
    <3> QED
      BY <1>1, <2>1, <2>3, <3>1, <3>2 DEF GivesUp
  <2>4. CASE record[Key(j)] = None /\ job[j].want # "failed"
    BY <1>3, <1>6, <2>1, <2>4
    DEF UpdateStatus, NoRecord, Works, history, HoldingStates, ActiveStates
  <2> QED
    BY <2>2, <2>3, <2>4
<1>7. CASE SaveStatus(j)
  <2>1. CASE job[j].want = "processing"
    BY <1>4, <1>7, <2>1 DEF SaveStatus, Saves, fileVars, history
  <2>2. CASE job[j].want # "processing"
    <3>1. JobIs(j, DoneJob) /\ DoneJob.pc = "done"
      BY <1>7, <2>2 DEF SaveStatus, DoneJob, UnusedJob
    <3> QED
      BY <1>1, <1>7, <2>2, <3>1 DEF SaveStatus, Saves, fileVars, history
  <2> QED
    BY <2>1, <2>2
<1>8. CASE Retrieve(j) \/ Embed(j) \/ Index(j)
  <2>1. /\ UNCHANGED <<file, record, object, raced>>
        /\ job[j].pc \in HoldingStates \ {"save"}
    BY <1>8 DEF Retrieve, Embed, Index, fileVars, recordVars, history,
                HoldingStates, ActiveStates
  <2>2. /\ OnlyJob(j) /\ SameKey(j)
        /\ job'[j].pc \in HoldingStates \ {"save"}
    BY <1>3, <1>4, <1>8
    DEF Retrieve, Embed, Index, HoldingStates, ActiveStates
  <2> QED
    BY <2>1, <2>2 DEF Works, OtherFiles
<1> QED
  BY <1>5, <1>6, <1>7, <1>8 DEF Ingestion, Local, Call

(***************************************************************************)
(* The handlers: most leave the records and the jobs as they are, or take  *)
(* a record away; a batch makes the record of a missing file; and a file   *)
(* that is added gets a record and a goroutine.                            *)
(***************************************************************************)
Quiet ==
    /\ \A k \in Keys : record'[k] = record[k] \/ record'[k] = None
    /\ \A f \in Files : file'[f] = "processing" => file[f] = "processing"
    /\ UNCHANGED <<object, job, raced>>

Missing(o, k) ==
    /\ Unborn(o) /\ ~Unborn(o)' /\ o \notin Jobs
    /\ record' = [record EXCEPT ![k] = o]
    /\ object' = [object EXCEPT ![o] = [status |-> "failed", batch |-> o[1]]]
    /\ UNCHANGED <<file, job, raced>>

Added(j, k) ==
    /\ job[j].pc = "unused"
    /\ OnlyJob(j)
    /\ job'[j].pc = "waiting"
    /\ job'[j].store = k[1] /\ job'[j].file = k[2]
    /\ record' = [record EXCEPT ![k] = j]
    /\ \E b : object' = [object EXCEPT ![j] = NewRecord(b)]
    /\ UNCHANGED <<file, raced>>

\* The save of a record and the start of its goroutine, as the effects above.
LEMMA FileAdded ==
    ASSUME Typed, NEW s \in Stores, NEW f \in Files, NEW b,
           JobLeft, AddAndIngest(s, f, b), UNCHANGED <<file, raced>>
    PROVE  \E j \in Jobs, k \in Keys : Added(j, k)
<1> DEFINE j == CHOOSE i \in Jobs : job[i].pc = "unused"
           new == [UnusedJob EXCEPT !.pc = "waiting", !.file = f, !.store = s]
<1>1. j \in Jobs /\ job[j].pc = "unused"
  BY DEF JobLeft
<1> HIDE DEF j
<1>2. /\ record' = [record EXCEPT ![<<s, f>>] = j]
      /\ object' = [object EXCEPT ![j] = NewRecord(b)]
      /\ job' = [job EXCEPT ![j] = new]
  BY DEF AddAndIngest, j
<1>3. new.pc = "waiting" /\ new.store = s /\ new.file = f
  BY DEF UnusedJob
<1> HIDE DEF new
<1>4. OnlyJob(j) /\ job'[j] = new
  BY <1>1, <1>2 DEF Typed, TypeOK, OnlyJob
<1>5. <<s, f>> \in Keys /\ <<s, f>>[1] = s /\ <<s, f>>[2] = f
  BY DEF Keys
<1>6. Added(j, <<s, f>>)
  BY <1>1, <1>2, <1>3, <1>4, <1>5 DEF Added
<1> QED
  BY <1>1, <1>5, <1>6

\* A batch makes the record of a missing file: nobody had made it before.
LEMMA RecordMissing ==
    ASSUME Typed, BatchOwned, NEW c \in Clients, req[c].pc = "batch",
           NEW f \in req[c].files,
           record' = [record EXCEPT ![<<req[c].store, f>>] = <<req[c].batch, f>>],
           object' = [object EXCEPT ![<<req[c].batch, f>>] =
                        [status |-> "failed", batch |-> req[c].batch]],
           Goto(c, [req[c] EXCEPT !.files = @ \ {f}]),
           UNCHANGED <<file, job, batch, raced>>
    PROVE  /\ <<req[c].batch, f>> \in Objects
           /\ <<req[c].store, f>> \in Keys
           /\ Missing(<<req[c].batch, f>>, <<req[c].store, f>>)
<1> DEFINE o == <<req[c].batch, f>>
           k == <<req[c].store, f>>
           rest == [req[c] EXCEPT !.files = @ \ {f}]
<1>1. /\ req[c] \in Request /\ RequestPlaced(req[c])
      /\ req \in [Clients -> Request]
  BY DEF Typed, TypeOK, Placed
<1>2. f \in Files /\ req[c].batch \in Batches /\ req[c].store \in Stores
  BY <1>1 DEF Request, RequestPlaced
<1>3. o \in Objects /\ k \in Keys /\ o \notin Jobs
  BY <1>2, FilesAssumption DEF Objects, Keys
<1>4. batch[req[c].batch] = None
  BY <1>2, FilesAssumption DEF BatchOwned
<1>5. \A d \in Clients : req[d].batch = req[c].batch => d = c
  BY <1>2, FilesAssumption DEF BatchOwned
<1>6. Unborn(o)
  BY <1>2, <1>4, <1>5 DEF Unborn
<1>7. rest.batch = req[c].batch /\ f \notin rest.files
  BY <1>1 DEF Request
<1>8. req'[c] = rest
  BY <1>1 DEF Goto
<1> HIDE DEF rest
<1>9. req'[c].batch = req[c].batch /\ f \notin req'[c].files
  BY <1>7, <1>8
<1>10. ~Unborn(o)'
  <2>1. \A b \in Batches, g \in Files : o = <<b, g>>
          => b = req[c].batch /\ g = f
    OBVIOUS
  <2> QED
    BY <1>3, <1>9, <2>1 DEF Unborn
<1>11. o[1] = req[c].batch
  OBVIOUS
<1> QED
  BY <1>3, <1>6, <1>10, <1>11 DEF Missing

\* A batch goes over a file: it makes a record at most if the file is missing.
LEMMA FileMissing ==
    ASSUME Typed, BatchOwned, NEW c \in Clients, BatchNextFile(c)
    PROVE  Quiet \/ \E o \in Objects, k \in Keys : Missing(o, k)
<1>0. /\ req[c] \in Request /\ RequestPlaced(req[c])
      /\ req[c].pc = "batch" /\ batch' = batch
      /\ req \in [Clients -> Request]
  BY DEF Typed, TypeOK, Placed, BatchNextFile
<1>1. PICK f \in req[c].files :
        LET rest == [req[c] EXCEPT !.files = @ \ {f}]
            key == <<req[c].store, f>>
            missing == <<req[c].batch, f>>
        IN  \/ /\ record' = [record EXCEPT ![key] = missing]
               /\ object' = [object EXCEPT
                    ![missing] = [status |-> "failed", batch |-> req[c].batch]]
               /\ Goto(c, rest)
               /\ UNCHANGED raced
            \/ UNCHANGED recordVars /\ UNCHANGED raced
  BY DEF BatchNextFile, Overlap, history
<1>2. UNCHANGED <<file, job>>
  BY DEF BatchNextFile, fileVars
<1>3. CASE UNCHANGED recordVars /\ UNCHANGED raced
  BY <1>2, <1>3 DEF Quiet, recordVars
<1> DEFINE o == <<req[c].batch, f>>
           k == <<req[c].store, f>>
           rest == [req[c] EXCEPT !.files = @ \ {f}]
<1>4. CASE /\ record' = [record EXCEPT ![k] = o]
           /\ object' = [object EXCEPT ![o] =
                          [status |-> "failed", batch |-> req[c].batch]]
           /\ Goto(c, rest)
           /\ UNCHANGED raced
  <2>1. /\ o \in Objects /\ k \in Keys /\ Missing(o, k)
    BY <1>0, <1>2, <1>4, RecordMissing
  <2> QED
    BY <2>1
<1> QED
  BY <1>1, <1>3, <1>4

\* Every step of the code is one of the four kinds.
LEMMA StepKinds ==
    ASSUME Typed, BatchOwned, [Next]_vars
    PROVE  \/ Quiet
           \/ \E o \in Objects, k \in Keys : Missing(o, k)
           \/ \E j \in Jobs, k \in Keys : Added(j, k)
           \/ \E j \in Jobs : Ingestion(j)
<1>0. /\ \A c \in Clients : req[c] \in Request /\ RequestPlaced(req[c])
      /\ file \in [Files -> FileStatuses \cup {"absent"}]
      /\ record \in [Keys -> Objects \cup {None}]
  BY DEF Typed, TypeOK, Placed
<1>1. ASSUME UNCHANGED <<file, recordVars, job, raced>> PROVE Quiet
  BY <1>1 DEF Quiet, recordVars
<1>2. ASSUME NEW c \in Clients, Arrival(c) PROVE Quiet
  BY <1>1, <1>2
  DEF Arrival, Upload, DeleteFile, RemoveFile, AddFile, CreateBatch,
      CreateStore, DeleteStore, fileVars, history, Overlap
<1>3. ASSUME NEW c \in Clients,
             \/ ListStores(c) \/ DeletePoints(c) \/ StoresDone(c)
             \/ DeleteContent(c) \/ BatchSave(c)
             \/ CreateStoreCollection(c) \/ UndoStore(c)
             \/ DropCollection(c) \/ UnlistStore(c)
      PROVE  Quiet
  BY <1>1, <1>3
  DEF ListStores, DeletePoints, StoresDone, DeleteContent, BatchSave,
      CreateStoreCollection, UndoStore, DropCollection, UnlistStore,
      fileVars, history
<1>4. ASSUME NEW c \in Clients, SaveMetadata(c) \/ DeleteMetadata(c)
      PROVE  Quiet
  BY <1>0, <1>4
  DEF SaveMetadata, DeleteMetadata, Quiet, recordVars, history
<1>5. ASSUME NEW c \in Clients, DeleteRecord(c) PROVE Quiet
  BY <1>0, <1>5 DEF DeleteRecord, Quiet, fileVars, history
<1>6. ASSUME NEW c \in Clients, SaveRecord(c) \/ BatchSaveRecord(c)
      PROVE  \E j \in Jobs, k \in Keys : Added(j, k)
  <2>1. req[c].store \in Stores /\ req[c].file \in Files
    BY <1>0, <1>6 DEF RequestPlaced, SaveRecord, BatchSaveRecord
  <2> QED
    BY <1>6, <2>1, FileAdded
    DEF SaveRecord, BatchSaveRecord, fileVars, history
<1>7. ASSUME NEW b \in Batches, GetBatch(b) PROVE Quiet
  BY <1>1, <1>7 DEF GetBatch, fileVars, history
<1>8. CASE UNCHANGED vars
  BY <1>1, <1>8 DEF vars, fileVars, history
<1> QED
  BY <1>2, <1>3, <1>4, <1>5, <1>6, <1>7, <1>8, FileMissing DEF Next, Handler

-----------------------------------------------------------------------------
\* A record that has been made stays made.
LEMMA UnbornBefore ==
    ASSUME Typed, BatchOwned, [Next]_vars, NEW o, Unborn(o)'
    PROVE  Unborn(o)
<1>1. CASE o \in Jobs /\ job'[o].pc = "unused"
  <2>1. job[o].pc = "unused"
    <3>1. CASE Quiet \/ \E p \in Objects, k \in Keys : Missing(p, k)
      BY <1>1, <3>1 DEF Quiet, Missing
    <3>2. ASSUME NEW j \in Jobs, NEW k \in Keys, Added(j, k)
          PROVE  job[o].pc = "unused"
      BY <1>1, <3>2 DEF Added, OnlyJob
    <3>3. ASSUME NEW j \in Jobs, Ingestion(j) PROVE job[o].pc = "unused"
      <4>1. OnlyJob(j) /\ job'[j].pc # "unused"
        BY <3>3, IngestionMoves
        DEF Acquires, Works, Writes, Saves, GivesUp, HoldingStates,
            ActiveStates
      <4> QED
        BY <1>1, <4>1 DEF OnlyJob
    <3> QED
      BY <3>1, <3>2, <3>3, StepKinds
  <2> QED
    BY <1>1, <2>1 DEF Unborn
<1>2. ASSUME NEW b \in Batches, NEW f \in Files, o = <<b, f>>,
             batch'[b] = None,
             \A c \in Clients : req'[c].batch = b => f \in req'[c].files
      PROVE  Unborn(o)
  <2>1. /\ batch[b] = None
        /\ \A c \in Clients : req[c].batch = b => f \in req[c].files
    <3>1. ASSUME NEW d \in Clients, CreateBatch(d)
          PROVE  /\ batch[b] = None
                 /\ \A c \in Clients : req[c].batch = b => f \in req[c].files
      <4>1. req[d].batch # b
        BY <3>1, BatchBegins, FilesAssumption DEF BatchOwned
      <4> QED
        BY <1>2, <3>1, <4>1, BatchBegins
    <3>2. CASE \A d \in Clients : ~CreateBatch(d)
      <4>1. b # None
        BY FilesAssumption
      <4> QED
        BY <1>2, <3>2, <4>1, RequestsKeepBatch DEF BatchKept
    <3> QED
      BY <3>1, <3>2
  <2> QED
    BY <1>2, <2>1 DEF Unborn
<1> QED
  BY <1>1, <1>2 DEF Unborn

\* References are made to records that were just made, or to records the
\* same key referred to.
LEMMA UnsharedStep ==
    ASSUME Typed, BatchOwned, Unshared, [Next]_vars
    PROVE  Unshared'
<1>0. \A j \in Jobs : job[j] \in Job /\ JobPlaced(job[j])
  BY DEF Typed, TypeOK, Placed
<1>n. /\ None \notin Objects
      /\ record \in [Keys -> Objects \cup {None}]
  BY FilesAssumption DEF Objects, Typed, TypeOK
<1>k. \A j \in Jobs : job[j].pc \in ActiveStates => Key(j) \in Keys
  BY <1>0 DEF JobPlaced, Key, Keys
\* When the references of a record are not extended, it stays unshared.
<1>1. ASSUME NEW o \in Objects,
             \A k \in Keys : Refers(o, k)' => Refers(o, k)
      PROVE  \A k \in Keys : Refers(o, k)' =>
               /\ ~Unborn(o)'
               /\ \A k2 \in Keys : Refers(o, k2)' => k2 = k
  BY <1>1, UnbornBefore DEF Unshared
\* A record that is made is referred to by its key only.
<1>2. ASSUME NEW o \in Objects, NEW k1 \in Keys, Unborn(o), ~Unborn(o)',
             \A k \in Keys : Refers(o, k)' => Refers(o, k) \/ k = k1
      PROVE  \A k \in Keys : Refers(o, k)' =>
               /\ ~Unborn(o)'
               /\ \A k2 \in Keys : Refers(o, k2)' => k2 = k
  BY <1>2 DEF Unshared
<1>3. CASE Quiet
  <2>1. \A o \in Objects, k \in Keys : Refers(o, k)' => Refers(o, k)
    BY <1>3, <1>n DEF Quiet, Refers, Key
  <2> QED
    BY <1>1, <2>1 DEF Unshared
<1>4. ASSUME NEW o1 \in Objects, NEW k1 \in Keys, Missing(o1, k1)
      PROVE  Unshared'
  <2>1. \A o \in Objects, k \in Keys :
          Refers(o, k)' => Refers(o, k) \/ (o = o1 /\ k = k1)
    BY <1>4, <1>n DEF Missing, Refers, Key
  <2>2. Unborn(o1) /\ ~Unborn(o1)'
    BY <1>4 DEF Missing
  <2>3. ASSUME NEW o \in Objects
        PROVE  \A k \in Keys : Refers(o, k)' =>
                 /\ ~Unborn(o)'
                 /\ \A k2 \in Keys : Refers(o, k2)' => k2 = k
    <3>1. CASE o = o1
      BY <1>2, <2>1, <2>2, <3>1
    <3>2. CASE o # o1
      BY <1>1, <2>1, <3>2
    <3> QED
      BY <3>1, <3>2
  <2> QED
    BY <2>3 DEF Unshared
<1>5. ASSUME NEW j \in Jobs, NEW k1 \in Keys, Added(j, k1)
      PROVE  Unshared'
  <2>1. \A o \in Objects, k \in Keys :
          Refers(o, k)' => Refers(o, k) \/ (o = j /\ k = k1)
    BY <1>5, <1>n DEF Added, OnlyJob, Refers, Key
  <2>2. Unborn(j) /\ ~Unborn(j)'
    BY <1>5, FilesAssumption DEF Added, Unborn
  <2>3. ASSUME NEW o \in Objects
        PROVE  \A k \in Keys : Refers(o, k)' =>
                 /\ ~Unborn(o)'
                 /\ \A k2 \in Keys : Refers(o, k2)' => k2 = k
    <3>1. CASE o = j
      BY <1>2, <2>1, <2>2, <3>1
    <3>2. CASE o # j
      BY <1>1, <2>1, <3>2
    <3> QED
      BY <3>1, <3>2
  <2> QED
    BY <2>3 DEF Unshared
<1>6. ASSUME NEW j \in Jobs, Ingestion(j) PROVE Unshared'
  <2>1. ASSUME NEW o \in Objects, NEW k \in Keys, Refers(o, k)'
        PROVE  Refers(o, k)
    <3>1. OnlyJob(j)
      BY <1>6, IngestionMoves
    <3>2. CASE Acquires(j) \/ Works(j) \/ GivesUp(j)
      BY <2>1, <3>1, <3>2
      DEF Acquires, Works, GivesUp, Refers, OnlyJob, Key
    <3>3. CASE Writes(j)
      BY <2>1, <3>1, <3>3 DEF Writes, Refers, OnlyJob, Key, SameKey
    <3>4. CASE Saves(j)
      <4>1. Key(j) \in Keys
        BY <1>k, <3>4 DEF Saves, ActiveStates
      <4> QED
        BY <1>n, <2>1, <3>1, <3>4, <4>1 DEF Saves, Refers, OnlyJob, Key
    <3> QED
      BY <1>6, <3>2, <3>3, <3>4, IngestionMoves
  <2> QED
    BY <1>1, <2>1 DEF Unshared
<1> QED
  BY <1>3, <1>4, <1>5, <1>6, StepKinds

\* Two goroutines hold slots for one key only after Acquire has noted it.
LEMMA OneHolderStep ==
    ASSUME Typed, BatchOwned, OneHolder, [Next]_vars
    PROVE  OneHolder'
<1> SUFFICES ASSUME NEW a \in Jobs, NEW b \in Jobs, a # b,
                    job'[a].pc \in HoldingStates,
                    job'[b].pc \in HoldingStates,
                    Key(a)' = Key(b)'
             PROVE  Key(a)' \in raced'
  BY DEF OneHolder, Holders
<1> USE DEF HoldingStates, ActiveStates
<1>1. ASSUME job[a].pc \in HoldingStates, job[b].pc \in HoldingStates,
             Key(a)' = Key(a), Key(b)' = Key(b), raced \subseteq raced'
      PROVE  Key(a)' \in raced'
  BY <1>1 DEF OneHolder, Holders
<1>2. CASE Quiet \/ \E o \in Objects, k \in Keys : Missing(o, k)
  BY <1>1, <1>2 DEF Quiet, Missing, Key
<1>3. ASSUME NEW j \in Jobs, NEW k \in Keys, Added(j, k)
      PROVE  Key(a)' \in raced'
  BY <1>1, <1>3 DEF Added, OnlyJob, Key
<1>4. ASSUME NEW j \in Jobs, Ingestion(j) PROVE Key(a)' \in raced'
  <2>1. OnlyJob(j)
    BY <1>4, IngestionMoves
  <2>2. CASE Acquires(j)
    <3>1. CASE a = j
      BY <2>1, <2>2, <3>1 DEF Acquires, OnlyJob, SameKey, Key, Holders
    <3>2. CASE b = j
      BY <2>1, <2>2, <3>2 DEF Acquires, OnlyJob, SameKey, Key, Holders
    <3>3. CASE a # j /\ b # j
      BY <1>1, <2>1, <2>2, <3>3 DEF Acquires, OnlyJob, Key
    <3> QED
      BY <3>1, <3>2, <3>3
  <2>3. CASE Works(j) \/ Writes(j) \/ Saves(j) \/ GivesUp(j)
    BY <1>1, <2>1, <2>3
    DEF Works, Writes, Saves, GivesUp, OnlyJob, SameKey, Key
  <2> QED
    BY <1>4, <2>2, <2>3, IngestionMoves
<1> QED
  BY <1>2, <1>3, <1>4, StepKinds

\* Nobody else writes to the record a goroutine holds.
LEMMA HeldWrittenStep ==
    ASSUME Typed, BatchOwned, Unshared, OneHolder, HeldWritten, [Next]_vars
    PROVE  HeldWritten'
<1> SUFFICES ASSUME NEW i \in Jobs, job'[i].pc = "save", Key(i)' \notin raced'
             PROVE  object'[job'[i].held].status = job'[i].want
  BY DEF HeldWritten
<1> DEFINE Goal == object'[job'[i].held].status = job'[i].want
<1>0. /\ \A j \in Jobs : job[j] \in Job /\ JobPlaced(job[j])
      /\ object \in [Objects -> Record]
      /\ record \in [Keys -> Objects \cup {None}]
  BY DEF Typed, TypeOK, Placed
<1>k. \A j \in Jobs : job[j].pc \in ActiveStates => Key(j) \in Keys
  BY <1>0 DEF JobPlaced, Key, Keys
<1>h. ASSUME job[i].pc = "save"
      PROVE  /\ job[i].held \in Objects /\ Key(i) \in Keys
             /\ Refers(job[i].held, Key(i))
             /\ Key(i) \notin raced => object[job[i].held].status = job[i].want
  BY <1>0, <1>k, <1>h DEF JobPlaced, ActiveStates, Refers, HeldWritten
<1>1. ASSUME job[i].pc = "save", job'[i] = job[i], raced \subseteq raced',
             object'[job[i].held] = object[job[i].held]
      PROVE  Goal
  BY <1>1, <1>h DEF Key
<1>2. CASE Quiet
  BY <1>1, <1>2 DEF Quiet
<1>3. ASSUME NEW o \in Objects, NEW k \in Keys, Missing(o, k) PROVE Goal
  <2>1. job[i].held # o
    BY <1>3, <1>h DEF Missing, Unshared
  <2> QED
    BY <1>0, <1>1, <1>3, <1>h, <2>1 DEF Missing
<1>4. ASSUME NEW j \in Jobs, NEW k \in Keys, Added(j, k) PROVE Goal
  <2>1. i # j /\ job'[i] = job[i]
    BY <1>4 DEF Added, OnlyJob
  <2>2. Unborn(j) /\ j \in Objects
    BY <1>4 DEF Added, Unborn, Objects
  <2>3. job[i].held # j
    BY <1>h, <2>1, <2>2 DEF Unshared
  <2> QED
    BY <1>0, <1>1, <1>4, <1>h, <2>1, <2>3 DEF Added
<1>5. ASSUME NEW j \in Jobs, Ingestion(j) PROVE Goal
  <2>1. OnlyJob(j)
    BY <1>5, IngestionMoves
  <2>2. CASE Acquires(j) \/ Works(j) \/ Saves(j) \/ GivesUp(j)
    <3>1. i # j
      BY <2>2 DEF Acquires, Works, Saves, GivesUp
    <3> QED
      BY <1>1, <2>1, <2>2, <3>1 DEF Acquires, Works, Saves, GivesUp, OnlyJob
  <2>3. CASE Writes(j)
    <3> DEFINE o == record[Key(j)]
    <3>1. /\ o \in Objects /\ Key(j) \in Keys /\ Refers(o, Key(j))
          /\ object' = [object EXCEPT ![o].status = job[j].want]
          /\ UNCHANGED raced
      BY <1>0, <1>k, <2>3 DEF Writes, Refers, ActiveStates
    <3>2. CASE i = j
      <4>1. object'[o].status = job[j].want
        BY <1>0, <3>1 DEF Record
      <4> QED
        BY <2>3, <3>2, <4>1 DEF Writes
    <3>3. CASE i # j
      <4>1. job'[i] = job[i] /\ job[i].pc = "save"
        BY <2>1, <3>3 DEF OnlyJob
      <4>2. Key(i) \notin raced
        BY <3>1, <4>1 DEF Key
      <4>3. Key(i) # Key(j)
        BY <2>3, <3>3, <4>1, <4>2
        DEF Writes, OneHolder, Holders, HoldingStates, ActiveStates
      <4>4. job[i].held # o
        BY <1>h, <3>1, <4>1, <4>3 DEF Unshared
      <4> HIDE DEF o
      <4> QED
        BY <1>0, <1>1, <1>h, <3>1, <4>1, <4>4
    <3> QED
      BY <3>2, <3>3
  <2> QED
    BY <1>5, <2>2, <2>3, IngestionMoves
<1> QED
  BY <1>2, <1>3, <1>4, <1>5, StepKinds

\* The last goroutine to write "processing" has another status to write.
LEMMA FilesInWorkStep ==
    ASSUME Typed, BatchOwned, FilesInWork, [Next]_vars
    PROVE  FilesInWork'
<1> SUFFICES ASSUME NEW f \in Files, file'[f] = "processing"
             PROVE  InWork(f)'
  BY DEF FilesInWork
<1> USE DEF HoldingStates, ActiveStates
<1>1. ASSUME file[f] = "processing",
             \A i \in Jobs : job[i].pc \in HoldingStates => job'[i] = job[i]
      PROVE  InWork(f)'
  BY <1>1 DEF FilesInWork, InWork
<1>2. CASE Quiet \/ \E o \in Objects, k \in Keys : Missing(o, k)
  BY <1>1, <1>2 DEF Quiet, Missing
<1>3. ASSUME NEW j \in Jobs, NEW k \in Keys, Added(j, k) PROVE InWork(f)'
  BY <1>1, <1>3 DEF Added, OnlyJob
<1>4. ASSUME NEW j \in Jobs, Ingestion(j) PROVE InWork(f)'
  <2>1. OnlyJob(j)
    BY <1>4, IngestionMoves
  <2>2. CASE job[j].file # f /\ file'[f] = file[f]
    <3>1. PICK i \in Jobs : /\ job[i].file = f /\ job[i].pc \in HoldingStates
                            /\ job[i].pc = "save" => job[i].want = "processing"
      BY <2>2 DEF FilesInWork, InWork
    <3>2. job'[i] = job[i]
      BY <2>1, <2>2, <3>1 DEF OnlyJob
    <3> QED
      BY <3>1, <3>2 DEF InWork
  <2>3. CASE job[j].file # f /\ file'[f] # file[f]
    BY <1>4, <2>3, IngestionMoves
    DEF Acquires, Works, Writes, Saves, GivesUp, OtherFiles
  <2>4. CASE job[j].file = f
    <3>1. CASE Acquires(j) \/ Works(j) \/ Writes(j)
      BY <2>4, <3>1 DEF Acquires, Works, Writes, SameKey, InWork
    <3>2. CASE Saves(j) /\ job[j].want = "processing"
      BY <2>4, <3>2 DEF Saves, SameKey, InWork
    <3>3. CASE Saves(j) /\ job[j].want # "processing"
      <4>1. file[f] = "processing"
        BY <3>3 DEF Saves
      <4>2. PICK i \in Jobs : /\ job[i].file = f /\ job[i].pc \in HoldingStates
                              /\ job[i].pc = "save" => job[i].want = "processing"
        BY <4>1 DEF FilesInWork, InWork
      <4>3. i # j
        BY <3>3, <4>2 DEF Saves
      <4> QED
        BY <2>1, <4>2, <4>3 DEF OnlyJob, InWork
    <3>4. CASE GivesUp(j)
      BY <2>4, <3>4 DEF GivesUp
    <3> QED
      BY <1>4, <3>1, <3>2, <3>3, <3>4, IngestionMoves
  <2> QED
    BY <2>2, <2>3, <2>4
<1> QED
  BY <1>2, <1>3, <1>4, StepKinds

\* A goroutine that ends leaves a record with a final status, or none.
LEMMA RecordsAttendedStep ==
    ASSUME Typed, BatchOwned, Unshared, HeldWritten, RecordsAttended,
           [Next]_vars
    PROVE  RecordsAttended'
<1> SUFFICES ASSUME NEW k \in Keys, Shows(k, "processing")', k \notin raced'
             PROVE  \E i \in Jobs : /\ job'[i].pc \in ActiveStates
                                    /\ job'[i].store = k[1]
                                    /\ job'[i].file = k[2]
  BY DEF RecordsAttended, Ingesting, WorksOn
<1> USE DEF HoldingStates, ActiveStates
<1> DEFINE Goal == \E i \in Jobs : /\ job'[i].pc \in ActiveStates
                                   /\ job'[i].store = k[1]
                                   /\ job'[i].file = k[2]
<1>0. /\ \A j \in Jobs : job[j] \in Job /\ JobPlaced(job[j])
      /\ object \in [Objects -> Record]
      /\ record \in [Keys -> Objects \cup {None}]
      /\ k = <<k[1], k[2]>>
      /\ None \notin Objects
  BY FilesAssumption DEF Typed, TypeOK, Placed, Keys, Objects
<1>k. \A j \in Jobs : job[j].pc \in ActiveStates => Key(j) \in Keys
  BY <1>0 DEF JobPlaced, Key, Keys
<1>s. /\ record'[k] # None
      /\ object'[record'[k]].status = "processing"
  BY DEF Shows
\* It showed "processing" before, and whoever worked on it still does.
<1>1. ASSUME record'[k] = record[k], raced \subseteq raced',
             object'[record[k]] = object[record[k]],
             \A i \in Jobs : job[i].pc \in ActiveStates =>
               \/ job'[i].pc \in ActiveStates /\ SameKey(i)
               \/ Key(i) # k
      PROVE  Goal
  <2>1. Shows(k, "processing") /\ k \notin raced
    BY <1>1, <1>s DEF Shows
  <2>2. PICK i \in Jobs : WorksOn(i, k[1], k[2])
    BY <2>1 DEF RecordsAttended, Ingesting
  <2>3. Key(i) = k
    BY <1>0, <2>2 DEF WorksOn, Key
  <2> QED
    BY <1>1, <2>2, <2>3 DEF WorksOn, SameKey
<1>2. CASE Quiet
  BY <1>1, <1>2, <1>s DEF Quiet, SameKey
<1>3. ASSUME NEW o \in Objects, NEW k1 \in Keys, Missing(o, k1) PROVE Goal
  <2>1. object'[o].status = "failed"
    BY <1>0, <1>3 DEF Missing
  <2>2. k # k1
    BY <1>0, <1>3, <1>s, <2>1 DEF Missing
  <2>3. record[k] # o
    BY <1>3 DEF Missing, Unshared, Refers
  <2> QED
    BY <1>0, <1>1, <1>3, <1>s, <2>2, <2>3 DEF Missing, SameKey
<1>4. ASSUME NEW j \in Jobs, NEW k1 \in Keys, Added(j, k1) PROVE Goal
  <2>1. CASE k = k1
    BY <1>4, <2>1 DEF Added
  <2>2. CASE k # k1
    <3>1. record'[k] = record[k]
      BY <1>0, <1>4, <2>2 DEF Added
    <3>2. record[k] # j
      BY <1>4 DEF Added, Unshared, Refers, Unborn, Objects
    <3>3. object'[record[k]] = object[record[k]]
      BY <1>0, <1>4, <1>s, <3>1, <3>2 DEF Added
    <3> QED
      BY <1>1, <1>4, <3>1, <3>3 DEF Added, OnlyJob, SameKey
  <2> QED
    BY <2>1, <2>2
<1>5. ASSUME NEW j \in Jobs, Ingestion(j) PROVE Goal
  <2>1. OnlyJob(j)
    BY <1>5, IngestionMoves
  <2>2. CASE Acquires(j) \/ Works(j)
    BY <1>1, <2>1, <2>2 DEF Acquires, Works, OnlyJob, SameKey
  <2>3. CASE Writes(j)
    <3>1. CASE Key(j) = k
      BY <1>0, <2>3, <3>1 DEF Writes, SameKey, Key
    <3>2. CASE Key(j) # k
      <4> DEFINE o == record[Key(j)]
      <4>1. /\ o \in Objects /\ Key(j) \in Keys /\ Refers(o, Key(j))
            /\ object' = [object EXCEPT ![o].status = job[j].want]
            /\ UNCHANGED <<record, raced>>
        BY <1>0, <1>k, <2>3 DEF Writes, Refers
      <4>2. record[k] # o
        BY <3>2, <4>1 DEF Unshared, Refers
      <4>3. object'[record[k]] = object[record[k]]
        <5>1. record[k] \in Objects
          BY <1>0, <1>s, <4>1
        <5> HIDE DEF o
        <5> QED
          BY <1>0, <4>1, <4>2, <5>1
      <4> QED
        BY <1>1, <2>1, <2>3, <4>1, <4>3 DEF Writes, OnlyJob, SameKey
    <3> QED
      BY <3>1, <3>2
  <2>4. CASE Saves(j)
    <3>1. Key(j) \in Keys
      BY <1>k, <2>4 DEF Saves
    <3>2. CASE Key(j) = k /\ job[j].want = "processing"
      BY <1>0, <2>4, <3>2 DEF Saves, SameKey, Key
    <3>3. CASE Key(j) = k /\ job[j].want # "processing"
      <4>1. record'[k] = job[j].held /\ object' = object /\ k \notin raced
        BY <1>0, <2>4, <3>3 DEF Saves
      <4>2. object[job[j].held].status = job[j].want
        BY <2>4, <3>3, <4>1 DEF Saves, HeldWritten
      <4> QED
        BY <1>s, <3>3, <4>1, <4>2
    <3>4. CASE Key(j) # k
      BY <1>0, <1>1, <2>1, <2>4, <3>1, <3>4 DEF Saves, OnlyJob, SameKey
    <3> QED
      BY <3>2, <3>3, <3>4
  <2>5. CASE GivesUp(j)
    <3>1. CASE Key(j) = k
      BY <1>s, <2>5, <3>1 DEF GivesUp
    <3>2. CASE Key(j) # k
      BY <1>1, <2>1, <2>5, <3>2 DEF GivesUp, OnlyJob, SameKey
    <3> QED
      BY <3>1, <3>2
  <2> QED
    BY <1>5, <2>2, <2>3, <2>4, <2>5, IngestionMoves
<1> QED
  BY <1>2, <1>3, <1>4, <1>5, StepKinds

(***************************************************************************)
(* updateStatus and Ingest: what shows "processing" is being worked on,    *)
(* whatever is removed, deleted, added again and batched meanwhile, unless *)
(* two goroutines held slots for the same key at the same time.            *)
(***************************************************************************)
THEOREM ProcessingAttended == Spec => []Attended
<1>1. Init => AttendedInv
  <2> SUFFICES ASSUME Init PROVE AttendedInv
    OBVIOUS
  <2>1. None \notin Objects
    BY FilesAssumption DEF Objects
  <2>2. \A o \in Objects, k \in Keys : ~Refers(o, k)
    BY <2>1 DEF Init, Refers, UnusedJob
  <2> QED
    BY <2>2
    DEF Init, AttendedInv, BatchOwned, Unshared, OneHolder, HeldWritten,
        RecordsAttended, FilesInWork, Holders, HoldingStates, ActiveStates,
        UnusedJob, Idle, Shows
<1>2. Typed /\ AttendedInv /\ [Next]_vars => AttendedInv'
  BY BatchOwnedStep, UnsharedStep, OneHolderStep, HeldWrittenStep,
     RecordsAttendedStep, FilesInWorkStep
  DEF AttendedInv
<1>3. Typed /\ AttendedInv => Attended
  <2> SUFFICES ASSUME Typed, AttendedInv PROVE Attended
    OBVIOUS
  <2>1. ASSUME NEW s \in Stores, NEW f \in Files,
               Shows(<<s, f>>, "processing"), <<s, f>> \notin raced
        PROVE  Ingesting(s, f)
    <3>1. <<s, f>> \in Keys
      BY DEF Keys
    <3> QED
      BY <2>1, <3>1 DEF AttendedInv, RecordsAttended
  <2>2. ASSUME NEW f \in Files, file[f] = "processing"
        PROVE  \E s \in Stores : Ingesting(s, f)
    <3>1. PICK j \in Jobs : job[j].file = f /\ job[j].pc \in HoldingStates
      BY <2>2 DEF AttendedInv, FilesInWork, InWork
    <3>2. job[j].store \in Stores /\ job[j].pc \in ActiveStates
      BY <3>1 DEF Typed, Placed, JobPlaced, HoldingStates
    <3> QED
      BY <3>1, <3>2 DEF Ingesting, WorksOn
  <2> QED
    BY <2>1, <2>2 DEF Attended
<1> QED
  BY <1>1, <1>2, <1>3, TypedAlways, PTL DEF Spec


(***************************************************************************)
(* With one worker slot (pipeline_workers) two goroutines never hold slots *)
(* at the same time, so ProcessingAttended has no exception.               *)
(***************************************************************************)
THEOREM OneSlotNeverRaces ==
    ASSUME SlotCounts = {1}, IsFiniteSet(Jobs)
    PROVE  Spec => [](raced = {})
<1> DEFINE Clear == raced = {}
<1>1. Init => Clear
  BY DEF Init
<1>2. Typed /\ BatchOwned /\ Clear /\ [Next]_vars => Clear'
  <2> SUFFICES ASSUME Typed, BatchOwned, raced = {}, [Next]_vars
               PROVE  raced' = {}
    OBVIOUS
  <2>1. ASSUME NEW j \in Jobs, Acquire(j) PROVE raced' = {}
    <3>1. IsFiniteSet(Holders)
      BY FS_Subset DEF Holders
    <3>2. Cardinality(Holders) \in Nat /\ Cardinality(Holders) < 1
      BY <2>1, <3>1, FS_CardinalityType DEF Acquire, Typed, TypeOK
    <3>3. Cardinality(Holders) = 0
      BY <3>2
    <3>4. Holders = {}
      BY <3>1, <3>3, FS_EmptySet
    <3> QED
      BY <2>1, <3>4 DEF Acquire
  <2>2. ASSUME NEW j \in Jobs, Ingestion(j), ~Acquire(j) PROVE raced' = {}
    BY <2>2
    DEF Ingestion, Local, Call, UpdateStatus, SaveStatus, Retrieve, Embed, Index, history
  <2>3. ASSUME Quiet \/ (\E o \in Objects, k \in Keys : Missing(o, k))
                     \/ (\E j \in Jobs, k \in Keys : Added(j, k))
        PROVE  raced' = {}
    BY <2>3 DEF Quiet, Missing, Added
  <2> QED
    BY <2>1, <2>2, <2>3, StepKinds
<1>3. Init => BatchOwned
  BY DEF Init, BatchOwned, Idle
<1>4. Typed /\ BatchOwned /\ [Next]_vars => BatchOwned'
  BY BatchOwnedStep
<1>5. Clear => raced = {}
  OBVIOUS
<1> HIDE DEF Clear
<1> QED
  BY <1>1, <1>2, <1>3, <1>4, <1>5, TypedAlways, PTL DEF Spec

-----------------------------------------------------------------------------
(***************************************************************************)
(* What is found agrees with the records, and batches are honest.          *)
(*                                                                         *)
(* Keys no two operations worked on at the same time.                      *)
(***************************************************************************)
Undisturbed == Keys \ overlapped

Serves(c, k) == Handles(c, k[1], k[2])

Feeds(j, k) == WorksOn(j, k[1], k[2])

\* What a handler has with it, and what a goroutine is to write, where it is.
ShapedRequest(r) ==
    /\ r.pc \in {"list", "content", "meta"} => r.cascade
    /\ r.pc \in {"add", "batch", "batch_add"} => ~r.cascade /\ r.stores = {}

ShapedJob(g) ==
    g.pc \in {"waiting", "retrieve", "embed", "index"} => g.want = "processing"

Shaped ==
    /\ \A c \in Clients : ShapedRequest(req[c])
    /\ \A j \in Jobs : ShapedJob(job[j])

\* At most one operation works on an undisturbed key.
Exclusive ==
    \A k \in Undisturbed :
      /\ \A i, j \in Jobs : Feeds(i, k) /\ Feeds(j, k) => i = j
      /\ \A c, d \in Clients : Serves(c, k) /\ Serves(d, k) => c = d
      /\ \A c \in Clients, j \in Jobs : ~(Serves(c, k) /\ Feeds(j, k))

\* The record of an undisturbed key is the one its goroutine was started
\* with, and shows what this goroutine wrote.
JobRecords ==
    \A k \in Undisturbed, j \in Jobs : Feeds(j, k) =>
      /\ record[k] = j
      /\ job[j].pc = "save" => job[j].held = j
      /\ object[j].status = IF job[j].pc = "save" THEN job[j].want
                                                  ELSE "processing"

Adding(c, k) == Serves(c, k) /\ req[c].pc \in {"add", "batch_add"}

AddedRecords ==
    \A k \in Undisturbed, c \in Clients : Adding(c, k) => record[k] = None

MissingRecords ==
    \A k \in Undisturbed :
      record[k] \notin Jobs \cup {None} => object[record[k]].status = "failed"

-----------------------------------------------------------------------------
(***************************************************************************)
(* What the steps of a handler do: to the handlers at work on a key,       *)
(* and to what the handlers share.                                         *)
(***************************************************************************)
OnlyClient(c) == \A d \in Clients \ {c} : req'[d] = req[d]

\* A handler that starts on a key somebody works on is noted.
Starts(c) ==
    \A k \in Keys : Serves(c, k)' =>
      Serves(c, k) \/ (Busy(k[1], k[2]) => k \in overlapped')

Turn(c) ==
    /\ OnlyClient(c) /\ Starts(c) /\ ShapedRequest(req'[c])
    /\ overlapped \subseteq overlapped'

Passes(c) ==
    /\ Turn(c)
    /\ req[c].pc # "record" /\ req'[c].pc \notin {"record", "collection"}
    /\ \A k \in Keys : Adding(c, k)' => record[k] = None
    /\ UNCHANGED <<listed, usedStores, collection, record, object, job>>

Removing(c, k) ==
    req[c].pc = "record" /\ req[c].store = k[1] /\ req[c].file = k[2]

Clears(c, k) ==
    /\ Turn(c)
    /\ req[c].pc = "points" /\ Serves(c, k)
    /\ req'[c].pc = "record" /\ req'[c].store = k[1] /\ req'[c].file = k[2]
    /\ \/ DeletePointsByFile(k[1], k[2])
       \/ UNCHANGED collection /\ (k[1] \in listed => k \in overlapped')
    /\ UNCHANGED <<listed, usedStores, record, object, job>>

Forgets(c, k) ==
    /\ Turn(c)
    /\ Removing(c, k) /\ req'[c].pc = "points"
    /\ record' = [record EXCEPT ![k] = None]
    /\ UNCHANGED <<listed, usedStores, collection, object, job>>

Enters(c, j, k) ==
    /\ Turn(c)
    /\ Adding(c, k) /\ req'[c].pc \in {"idle", "batch"}
    /\ job[j].pc = "unused"
    /\ OnlyJob(j)
    /\ job'[j].pc = "waiting" /\ job'[j].want = "processing"
    /\ job'[j].store = k[1] /\ job'[j].file = k[2]
    /\ record' = [record EXCEPT ![k] = j]
    /\ \E b : /\ object' = [object EXCEPT ![j] = NewRecord(b)]
              /\ b # None => /\ b = req[c].batch /\ b = req'[c].batch
                             /\ req'[c].queued
    /\ UNCHANGED <<listed, usedStores, collection, batch>>

Notes(c, o, k) ==
    /\ Turn(c)
    /\ req[c].pc = "batch" /\ req'[c].pc = "batch"
    /\ Busy(k[1], k[2]) => k \in overlapped'
    /\ Missing(o, k)
    /\ UNCHANGED <<listed, usedStores, collection>>

\* The handlers of the stores work on no key.
Manages(c) ==
    /\ Turn(c)
    /\ req[c].pc \in {"idle", "collection", "undo", "drop", "unlist"}
    /\ req'[c].pc \in {"idle", "collection", "undo", "unlist"}
    /\ UNCHANGED <<record, object, job>>

Opens(c, s) ==
    /\ Manages(c)
    /\ s \notin usedStores
    /\ usedStores' = usedStores \cup {s}
    /\ listed' = listed \cup {s}
    /\ req'[c].pc = "collection" /\ req'[c].store = s
    /\ UNCHANGED collection

Makes(c, s) ==
    /\ Manages(c)
    /\ req[c].pc = "collection" /\ req[c].store = s
    /\ req'[c].pc # "collection"
    /\ CreateCollection(s) \/ UNCHANGED collection
    /\ UNCHANGED <<listed, usedStores>>

Drops(c, s) ==
    /\ Manages(c)
    /\ req[c].pc = "drop" /\ req'[c].pc # "collection"
    /\ DeleteCollection(s) \/ UNCHANGED collection
    /\ UNCHANGED <<listed, usedStores>>

Unlists(c) ==
    /\ Manages(c)
    /\ req[c].pc \in {"undo", "unlist"} /\ req'[c].pc = "idle"
    /\ listed' \subseteq listed
    /\ UNCHANGED <<usedStores, collection>>

ClientKind(c) ==
    \/ Passes(c)
    \/ \E k \in Keys : Clears(c, k) \/ Forgets(c, k)
    \/ \E k \in Keys, j \in Jobs : Enters(c, j, k)
    \/ \E k \in Keys, o \in Objects : Notes(c, o, k)
    \/ \E s \in Stores : Opens(c, s) \/ Makes(c, s) \/ Drops(c, s)
    \/ Unlists(c)

\* The key a handler works on, from its fields.
LEMMA WhomServes ==
    ASSUME Typed, Shaped, NEW c \in Clients, NEW r \in Request, Goto(c, r)
    PROVE  /\ req'[c] = r
           /\ OnlyClient(c)
           /\ \A k \in Keys : Serves(c, k)' <=>
                /\ r.pc \in {"list", "points", "record", "content", "meta",
                             "add", "batch_add"}
                /\ r.file = k[2]
                /\ r.cascade \/ r.store = k[1] \/ k[1] \in r.stores
<1>1. req'[c] = r /\ OnlyClient(c)
  BY DEF Goto, OnlyClient, Typed, TypeOK
<1> QED
  BY <1>1 DEF Serves, Handles

\* A handler that goes to r, when nobody's record changes.
LEMMA Turns ==
    ASSUME Typed, Shaped, NEW c \in Clients, NEW r \in Request, Goto(c, r),
           ShapedRequest(r), overlapped \subseteq overlapped',
           \A k \in Keys :
             /\ r.pc \in {"list", "points", "record", "content", "meta",
                          "add", "batch_add"}
             /\ r.file = k[2]
             /\ r.cascade \/ r.store = k[1] \/ k[1] \in r.stores
             => Serves(c, k) \/ (Busy(k[1], k[2]) => k \in overlapped')
    PROVE  Turn(c) /\ req'[c] = r
BY WhomServes DEF Turn, Starts

\* A handler that finishes, or goes on to what is no work on a key.
LEMMA TurnsAway ==
    ASSUME Typed, Shaped, NEW c \in Clients, NEW r \in Request, Goto(c, r),
           ShapedRequest(r), overlapped \subseteq overlapped',
           r.pc \notin {"list", "points", "record", "content", "meta",
                        "add", "batch_add"}
    PROVE  Turn(c) /\ req'[c] = r /\ \A k \in Keys : ~Serves(c, k)'
BY WhomServes DEF Turn, Starts

LEMMA TurnsIdle ==
    ASSUME Typed, Shaped, NEW c \in Clients, Finish(c),
           overlapped \subseteq overlapped'
    PROVE  Turn(c) /\ req'[c] = Idle /\ \A k \in Keys : ~Serves(c, k)'
<1>1. /\ Idle \in Request /\ ShapedRequest(Idle)
      /\ Idle.pc = "idle"
  BY DEF Idle, Request, RequestStates, ShapedRequest
<1> QED
  BY <1>1, TurnsAway DEF Finish

\* The operations that begin on a key.
LEMMA ArrivalKinds ==
    ASSUME Typed, Shaped, BatchOwned, NEW c \in Clients, Arrival(c)
    PROVE  ClientKind(c)
<1> USE DEF Idle
<1>1. ASSUME NEW r, r.pc \notin {"record", "collection", "add", "batch_add"},
             Turn(c), req'[c] = r, req[c].pc = "idle",
             UNCHANGED <<listed, usedStores, collection, record, object, job>>
      PROVE  ClientKind(c)
  BY <1>1 DEF ClientKind, Passes, Adding
<1>2. CASE Upload(c)
  <2>1. PICK f \in Files :
          Goto(c, [Idle EXCEPT !.pc = "save_meta", !.file = f]) \/ Finish(c)
    BY <1>2 DEF Upload
  <2> DEFINE r == [Idle EXCEPT !.pc = "save_meta", !.file = f]
  <2>2. r \in Request /\ ShapedRequest(r) /\ r.pc = "save_meta"
    BY DEF Request, RequestStates, ShapedRequest
  <2> HIDE DEF r
  <2>3. /\ req[c].pc = "idle" /\ overlapped' = overlapped
        /\ UNCHANGED <<listed, usedStores, collection, record, object, job>>
    BY <1>2 DEF Upload, storeVars, recordVars, history
  <2>4. CASE Goto(c, r)
    BY <1>1, <2>2, <2>3, <2>4, TurnsAway
  <2>5. CASE Finish(c)
    BY <1>1, <2>3, <2>5, TurnsIdle
  <2> QED
    BY <2>1, <2>4, <2>5 DEF r
<1>3. CASE DeleteFile(c)
  <2>1. PICK f \in Files :
          /\ Goto(c, [Idle EXCEPT !.pc = "list", !.file = f, !.cascade = TRUE])
          /\ Overlap(Stores \X {f})
    BY <1>3, Zenon DEF DeleteFile
  <2> DEFINE r == [Idle EXCEPT !.pc = "list", !.file = f, !.cascade = TRUE]
  <2>2. /\ r \in Request /\ ShapedRequest(r) /\ r.pc = "list" /\ r.file = f
    BY DEF Request, RequestStates, ShapedRequest
  <2> HIDE DEF r
  <2>3. /\ req[c].pc = "idle"
        /\ UNCHANGED <<listed, usedStores, collection, record, object, job>>
    BY <1>3 DEF DeleteFile, storeVars, recordVars
  <2>4. /\ overlapped \subseteq overlapped'
        /\ \A k \in Keys : f = k[2] /\ Busy(k[1], k[2]) => k \in overlapped'
    BY <2>1 DEF Overlap, Keys
  <2>5. Turn(c) /\ req'[c] = r
    BY <2>1, <2>2, <2>4, Turns DEF r
  <2> QED
    BY <1>1, <2>2, <2>3, <2>5
<1>4. CASE RemoveFile(c)
  <2>1. PICK s \in Stores, f \in Files :
          /\ Goto(c, [Idle EXCEPT !.pc = "points", !.file = f, !.stores = {s}])
          /\ Overlap({<<s, f>>})
    BY <1>4, Zenon DEF RemoveFile
  <2> DEFINE r == [Idle EXCEPT !.pc = "points", !.file = f, !.stores = {s}]
  <2>2. /\ r \in Request /\ ShapedRequest(r) /\ r.pc = "points" /\ r.file = f
        /\ r.stores = {s} /\ ~r.cascade /\ r.store = None
    BY DEF Request, RequestStates, ShapedRequest
  <2> HIDE DEF r
  <2>3. /\ req[c].pc = "idle"
        /\ UNCHANGED <<listed, usedStores, collection, record, object, job>>
    BY <1>4 DEF RemoveFile, storeVars, recordVars
  <2>4. /\ overlapped \subseteq overlapped'
        /\ \A k \in Keys : f = k[2] /\ s = k[1] /\ Busy(k[1], k[2])
             => k \in overlapped'
    BY <2>1 DEF Overlap, Keys
  <2>5. \A k \in Keys : k[1] # None
    BY FilesAssumption DEF Keys
  <2>6. Turn(c) /\ req'[c] = r
    BY <2>1, <2>2, <2>4, <2>5, Turns DEF r
  <2> QED
    BY <1>1, <2>2, <2>3, <2>6
<1>5. CASE AddFile(c)
  <2>1. PICK s \in Stores, f \in Files :
          /\ record[<<s, f>>] = None
          /\ Goto(c, [Idle EXCEPT !.pc = "add", !.store = s, !.file = f])
          /\ Overlap({<<s, f>>})
    BY <1>5, Zenon DEF AddFile
  <2> DEFINE r == [Idle EXCEPT !.pc = "add", !.store = s, !.file = f]
  <2>2. /\ r \in Request /\ ShapedRequest(r) /\ r.pc = "add" /\ r.file = f
        /\ r.stores = {} /\ ~r.cascade /\ r.store = s
    BY DEF Request, RequestStates, ShapedRequest
  <2> HIDE DEF r
  <2>3. /\ req[c].pc = "idle"
        /\ UNCHANGED <<listed, usedStores, collection, record, object, job>>
    BY <1>5 DEF AddFile, storeVars, recordVars
  <2>4. /\ overlapped \subseteq overlapped'
        /\ \A k \in Keys : f = k[2] /\ s = k[1] /\ Busy(k[1], k[2])
             => k \in overlapped'
    BY <2>1 DEF Overlap, Keys
  <2>5. Goto(c, r)
    BY <2>1 DEF r
  <2>6. ASSUME NEW k \in Keys, r.file = k[2],
               r.cascade \/ r.store = k[1] \/ k[1] \in r.stores
        PROVE  f = k[2] /\ s = k[1]
    BY <2>2, <2>6
  <2>7. \A k \in Keys : Serves(c, k)' => f = k[2] /\ s = k[1]
    BY <2>2, <2>5, <2>6, WhomServes
  <2>a. Turn(c) /\ req'[c] = r
    BY <2>2, <2>4, <2>5, <2>6, Turns
  <2>8. \A k \in Keys : Adding(c, k)' => record[k] = None
    BY <2>1, <2>7 DEF Adding, Keys
  <2> QED
    BY <2>2, <2>3, <2>8, <2>a DEF ClientKind, Passes
<1>6. CASE CreateBatch(c)
  <2>1. PICK s \in Stores, b \in Batches, fs \in SUBSET Files :
          Goto(c, [Idle EXCEPT !.pc = "batch", !.store = s, !.batch = b,
                               !.files = fs])
    BY <1>6, Zenon DEF CreateBatch
  <2> DEFINE r == [Idle EXCEPT !.pc = "batch", !.store = s, !.batch = b,
                               !.files = fs]
  <2>2. r \in Request /\ ShapedRequest(r) /\ r.pc = "batch"
    BY DEF Request, RequestStates, ShapedRequest
  <2> HIDE DEF r
  <2>3. /\ req[c].pc = "idle" /\ overlapped' = overlapped
        /\ UNCHANGED <<listed, usedStores, collection, record, object, job>>
    BY <1>6 DEF CreateBatch, storeVars, recordVars, history
  <2>4. Turn(c) /\ req'[c] = r
    BY <2>1, <2>2, <2>3, TurnsAway DEF r
  <2> QED
    BY <1>1, <2>2, <2>3, <2>4
<1>7. CASE CreateStore(c)
  <2>1. PICK s \in Stores \ usedStores :
          /\ usedStores' = usedStores \cup {s}
          /\ listed' = listed \cup {s}
          /\ Goto(c, [Idle EXCEPT !.pc = "collection", !.store = s])
    BY <1>7 DEF CreateStore
  <2> DEFINE r == [Idle EXCEPT !.pc = "collection", !.store = s]
  <2>2. /\ r \in Request /\ ShapedRequest(r) /\ r.pc = "collection"
        /\ r.store = s
    BY DEF Request, RequestStates, ShapedRequest
  <2> HIDE DEF r
  <2>3. /\ req[c].pc = "idle" /\ overlapped' = overlapped
        /\ UNCHANGED <<collection, record, object, job>>
    BY <1>7 DEF CreateStore, recordVars, history
  <2>4. Turn(c) /\ req'[c] = r
    BY <2>1, <2>2, <2>3, TurnsAway DEF r
  <2> QED
    BY <2>1, <2>2, <2>3, <2>4 DEF ClientKind, Opens, Manages
<1>8. CASE DeleteStore(c)
  <2>1. PICK s \in listed : Goto(c, [Idle EXCEPT !.pc = "drop", !.store = s])
    BY <1>8 DEF DeleteStore
  <2> DEFINE r == [Idle EXCEPT !.pc = "drop", !.store = s]
  <2>2. r \in Request /\ ShapedRequest(r) /\ r.pc = "drop"
    BY DEF Request, RequestStates, ShapedRequest, Typed, TypeOK, VectorTypeOK
  <2> HIDE DEF r
  <2>3. /\ req[c].pc = "idle" /\ overlapped' = overlapped
        /\ UNCHANGED <<listed, usedStores, collection, record, object, job>>
    BY <1>8 DEF DeleteStore, storeVars, recordVars, history
  <2>4. Turn(c) /\ req'[c] = r
    BY <2>1, <2>2, <2>3, TurnsAway DEF r
  <2> QED
    BY <1>1, <2>2, <2>3, <2>4
<1> QED
  BY <1>2, <1>3, <1>4, <1>5, <1>6, <1>7, <1>8 DEF Arrival

LEMMA BatchKinds ==
    ASSUME Typed, Shaped, BatchOwned, NEW c \in Clients,
           BatchNextFile(c) \/ BatchSaveRecord(c)
    PROVE  ClientKind(c)
<1>0. /\ req[c] \in Request /\ RequestPlaced(req[c])
      /\ ShapedRequest(req[c])
  BY DEF Typed, TypeOK, Placed, Shaped
<1>1. CASE BatchSaveRecord(c)
  <2> DEFINE r == [req[c] EXCEPT !.pc = "batch", !.file = None, !.queued = TRUE]
             j == CHOOSE i \in Jobs : job[i].pc = "unused"
             g == [UnusedJob EXCEPT !.pc = "waiting", !.file = req[c].file,
                                    !.store = req[c].store]
             k == <<req[c].store, req[c].file>>
  <2>1. /\ Goto(c, r) /\ req[c].pc = "batch_add" /\ overlapped' = overlapped
        /\ UNCHANGED <<listed, usedStores, collection, batch>>
    BY <1>1 DEF BatchSaveRecord, storeVars, history
  <2>2. /\ r \in Request /\ ShapedRequest(r) /\ r.pc = "batch"
        /\ r.batch = req[c].batch /\ r.queued
    BY <1>0, <2>1 DEF Request, RequestStates, ShapedRequest
  <2>3. j \in Jobs /\ job[j].pc = "unused"
    BY <1>1 DEF BatchSaveRecord, JobLeft
  <2>4. /\ record' = [record EXCEPT ![k] = j]
        /\ object' = [object EXCEPT ![j] = NewRecord(req[c].batch)]
        /\ job' = [job EXCEPT ![j] = g]
    BY <1>1 DEF BatchSaveRecord, AddAndIngest
  <2> HIDE DEF r, j
  <2>5. /\ g.pc = "waiting" /\ g.want = "processing"
        /\ g.store = k[1] /\ g.file = k[2]
    BY DEF UnusedJob
  <2> HIDE DEF g
  <2>6. OnlyJob(j) /\ job'[j] = g
    BY <2>3, <2>4 DEF Typed, TypeOK, OnlyJob
  <2>7. Turn(c) /\ req'[c] = r
    BY <2>1, <2>2, TurnsAway
  <2>8. k \in Keys /\ Adding(c, k)
    BY <1>0, <2>1 DEF Adding, Serves, Handles, RequestPlaced, Keys
  <2> HIDE DEF k
  <2>9. Enters(c, j, k)
    BY <2>1, <2>2, <2>3, <2>4, <2>5, <2>6, <2>7, <2>8 DEF Enters
  <2> QED
    BY <2>3, <2>8, <2>9 DEF ClientKind
<1>2. CASE BatchNextFile(c)
  <2>0. /\ req[c].pc = "batch"
        /\ UNCHANGED <<file, job, batch>>
        /\ UNCHANGED <<listed, usedStores, collection>>
    BY <1>2 DEF BatchNextFile, storeVars, fileVars
  <2>1. PICK f \in req[c].files :
          LET rest == [req[c] EXCEPT !.files = @ \ {f}]
              key == <<req[c].store, f>>
              missing == <<req[c].batch, f>>
          IN  \/ /\ record' = [record EXCEPT ![key] = missing]
                 /\ object' = [object EXCEPT
                      ![missing] = [status |-> "failed",
                                    batch |-> req[c].batch]]
                 /\ Goto(c, rest)
                 /\ Overlap({key})
              \/ /\ IF record[key] # None
                    THEN Goto(c, rest) /\ UNCHANGED history
                    ELSE /\ Goto(c, [rest EXCEPT !.pc = "batch_add",
                                                 !.file = f])
                         /\ Overlap({key})
                 /\ UNCHANGED recordVars
    BY <1>2 DEF BatchNextFile
  <2> DEFINE rest == [req[c] EXCEPT !.files = @ \ {f}]
             next == [rest EXCEPT !.pc = "batch_add", !.file = f]
             o == <<req[c].batch, f>>
             k == <<req[c].store, f>>
  <2>2. /\ rest \in Request /\ rest.pc = "batch" /\ ShapedRequest(rest)
        /\ rest.store = req[c].store /\ rest.cascade = req[c].cascade
        /\ rest.stores = req[c].stores
    BY <1>0, <2>0 DEF Request, ShapedRequest
  <2>3. f \in Files /\ k \in Keys
    BY <1>0, <2>0 DEF Request, RequestPlaced, Keys
  <2>4. /\ next \in Request /\ next.pc = "batch_add" /\ next.file = f
        /\ ShapedRequest(next) /\ next.store = req[c].store
        /\ ~next.cascade /\ next.stores = {}
    <3>1. ~rest.cascade /\ rest.stores = {}
      BY <1>0, <2>0, <2>2 DEF ShapedRequest
    <3> HIDE DEF rest
    <3> QED
      BY <2>2, <2>3, <3>1 DEF Request, RequestStates, ShapedRequest
  <2>5. \/ /\ record' = [record EXCEPT ![k] = o]
           /\ object' = [object EXCEPT ![o] = [status |-> "failed",
                                               batch |-> req[c].batch]]
           /\ Goto(c, rest)
           /\ Overlap({k})
        \/ Goto(c, rest) /\ UNCHANGED history /\ UNCHANGED recordVars
        \/ /\ record[k] = None /\ Goto(c, next) /\ Overlap({k})
           /\ UNCHANGED recordVars
    BY <2>1
  <2> HIDE DEF next
  <2>6. CASE Goto(c, rest) /\ UNCHANGED history /\ UNCHANGED recordVars
    <3> HIDE DEF rest
    <3>1. Turn(c) /\ req'[c] = rest
      BY <2>2, <2>6, TurnsAway DEF history
    <3> QED
      BY <2>0, <2>2, <2>6, <3>1
      DEF ClientKind, Passes, Adding, recordVars
  <2>7. CASE /\ record[k] = None /\ Goto(c, next) /\ Overlap({k})
             /\ UNCHANGED recordVars
    <3>1. /\ overlapped \subseteq overlapped'
          /\ Busy(k[1], k[2]) => k \in overlapped'
      BY <2>7 DEF Overlap
    <3>2. \A m \in Keys :
            /\ next.file = m[2]
            /\ next.cascade \/ next.store = m[1] \/ m[1] \in next.stores
            => m = k
      BY <2>4 DEF Keys
    <3> HIDE DEF k
    <3>3. Turn(c) /\ req'[c] = next
      BY <2>4, <2>7, <3>1, <3>2, Turns
    <3>4. \A m \in Keys : Serves(c, m)' => m = k
      BY <2>4, <2>7, <3>2, WhomServes
    <3>5. \A m \in Keys : Adding(c, m)' => record[m] = None
      BY <2>7, <3>4 DEF Adding
    <3> QED
      BY <2>0, <2>4, <2>7, <3>3, <3>5
      DEF ClientKind, Passes, recordVars
  <2>8. CASE /\ record' = [record EXCEPT ![k] = o]
             /\ object' = [object EXCEPT ![o] = [status |-> "failed",
                                                 batch |-> req[c].batch]]
             /\ Goto(c, rest)
             /\ Overlap({k})
    <3>1. /\ overlapped \subseteq overlapped'
          /\ Busy(k[1], k[2]) => k \in overlapped'
          /\ UNCHANGED raced
      BY <2>8 DEF Overlap
    <3>2. o \in Objects /\ k \in Keys /\ Missing(o, k)
      BY <2>0, <2>8, <3>1, RecordMissing
    <3> HIDE DEF rest, o, k
    <3>3. Turn(c) /\ req'[c] = rest
      BY <2>2, <2>8, <3>1, TurnsAway
    <3>4. Notes(c, o, k)
      BY <2>0, <2>2, <3>1, <3>2, <3>3 DEF Notes
    <3> QED
      BY <3>2, <3>4 DEF ClientKind
  <2> QED
    BY <2>5, <2>6, <2>7, <2>8
<1> QED
  BY <1>1, <1>2

\* The handlers that take a file, or a file out of stores, away.
LEMMA RemovalKinds ==
    ASSUME Typed, Shaped, NEW c \in Clients,
           \/ SaveMetadata(c) \/ ListStores(c) \/ DeletePoints(c)
           \/ DeleteRecord(c) \/ StoresDone(c) \/ DeleteContent(c)
           \/ DeleteMetadata(c)
    PROVE  ClientKind(c)
<1>0. /\ req[c] \in Request /\ RequestPlaced(req[c])
      /\ ShapedRequest(req[c])
  BY DEF Typed, TypeOK, Placed, Shaped
<1>1. ASSUME Turn(c), req[c].pc # "record",
             req'[c].pc \in {"idle", "points", "content", "meta"},
             UNCHANGED <<listed, usedStores, collection, record, object, job>>
      PROVE  ClientKind(c)
  BY <1>1 DEF ClientKind, Passes, Adding
<1>2. CASE SaveMetadata(c) \/ DeleteMetadata(c)
  <2>1. /\ Finish(c) /\ overlapped' = overlapped /\ req[c].pc # "record"
        /\ UNCHANGED <<listed, usedStores, collection, record, object, job>>
    BY <1>2 DEF SaveMetadata, DeleteMetadata, storeVars, recordVars, history
  <2> QED
    BY <1>1, <2>1, TurnsIdle DEF Idle
<1>3. CASE ListStores(c)
  <2> DEFINE S == {s \in Stores : record[<<s, req[c].file>>] # None}
             r == [req[c] EXCEPT !.pc = "points", !.stores = S]
  <2>1. /\ Goto(c, r) /\ overlapped' = overlapped /\ req[c].pc = "list"
        /\ S \in SUBSET Stores
        /\ UNCHANGED <<listed, usedStores, collection, record, object, job>>
    BY <1>3 DEF ListStores, storeVars, recordVars, history
  <2> HIDE DEF S
  <2>2. /\ r \in Request /\ ShapedRequest(r) /\ r.pc = "points"
        /\ r.file = req[c].file
    BY <1>0, <2>1 DEF Request, RequestStates, ShapedRequest
  <2> HIDE DEF r
  <2>3. \A k \in Keys : r.file = k[2] => Serves(c, k)
    BY <1>0, <2>1, <2>2 DEF Serves, Handles, ShapedRequest
  <2>4. Turn(c) /\ req'[c] = r
    BY <2>1, <2>2, <2>3, Turns
  <2> QED
    BY <1>1, <2>1, <2>2, <2>4
<1>4. CASE DeletePoints(c)
  <2>1. PICK s \in req[c].stores :
          /\ Goto(c, [req[c] EXCEPT !.pc = "record", !.store = s])
          /\ \/ /\ IF Lookup(s) THEN DeletePointsByFile(s, req[c].file)
                                ELSE UNCHANGED collection
                /\ UNCHANGED history
             \/ /\ overlapped' = overlapped \cup {<<s, req[c].file>>}
                /\ UNCHANGED <<collection, raced>>
    BY <1>4 DEF DeletePoints
  <2> DEFINE r == [req[c] EXCEPT !.pc = "record", !.store = s]
             k == <<s, req[c].file>>
  <2>2. /\ req[c].pc = "points" /\ s \in Stores /\ req[c].file \in Files
        /\ UNCHANGED <<listed, usedStores, record, object, job>>
    BY <1>0, <1>4 DEF DeletePoints, Request, RequestPlaced, recordVars
  <2>3. /\ r \in Request /\ r.pc = "record" /\ r.store = s
        /\ r.file = req[c].file /\ r.cascade = req[c].cascade
        /\ r.stores = req[c].stores
    BY <1>0, <2>2 DEF Request, RequestStates
  <2>4. ShapedRequest(r)
    BY <2>3 DEF ShapedRequest
  <2>5. k \in Keys /\ Serves(c, k)
    BY <2>1, <2>2 DEF Serves, Handles, Keys
  <2>6. overlapped \subseteq overlapped'
    BY <2>1 DEF history
  <2>12. Goto(c, r)
    BY <2>1
  <2> HIDE DEF r
  <2>7. ASSUME NEW m \in Keys, r.file = m[2],
               r.cascade \/ r.store = m[1] \/ m[1] \in r.stores
        PROVE  Serves(c, m)
    BY <2>1, <2>2, <2>3, <2>7 DEF Serves, Handles
  <2>8. Turn(c) /\ req'[c] = r
    BY <2>3, <2>4, <2>6, <2>7, <2>12, Turns
  <2>9. \/ DeletePointsByFile(k[1], k[2])
        \/ UNCHANGED collection /\ (k[1] \in listed => k \in overlapped')
    BY <2>1 DEF Lookup
  <2>10. k[1] = s /\ k[2] = req[c].file
    OBVIOUS
  <2> HIDE DEF k
  <2>11. Clears(c, k)
    BY <2>2, <2>3, <2>5, <2>8, <2>9, <2>10 DEF Clears
  <2> QED
    BY <2>5, <2>11 DEF ClientKind
<1>5. CASE DeleteRecord(c)
  <2> DEFINE S == req[c].stores \ {req[c].store}
             r == [req[c] EXCEPT !.pc = "points", !.store = None,
                                 !.stores = S]
             k == <<req[c].store, req[c].file>>
  <2>1. /\ Goto(c, r) /\ overlapped' = overlapped /\ req[c].pc = "record"
        /\ record' = [record EXCEPT ![k] = None]
        /\ UNCHANGED <<listed, usedStores, collection, object, job>>
    BY <1>5 DEF DeleteRecord, storeVars, history
  <2>2. /\ req[c].store \in Stores /\ req[c].file \in Files
        /\ S \subseteq req[c].stores /\ S \in SUBSET Stores
    BY <1>0, <2>1 DEF RequestPlaced, Request
  <2> HIDE DEF S
  <2>3. /\ r \in Request /\ r.pc = "points" /\ r.store = None
        /\ r.file = req[c].file /\ r.cascade = req[c].cascade
        /\ r.stores = S
    BY <1>0, <2>2 DEF Request, RequestStates
  <2>4. ShapedRequest(r)
    BY <2>3 DEF ShapedRequest
  <2>5. k \in Keys /\ Removing(c, k)
    BY <2>1, <2>2 DEF Removing, Keys
  <2> HIDE DEF r
  <2>6. ASSUME NEW m \in Keys, r.file = m[2],
               r.cascade \/ r.store = m[1] \/ m[1] \in r.stores
        PROVE  Serves(c, m)
    <3>1. m[1] # None
      BY FilesAssumption DEF Keys
    <3> QED
      BY <2>1, <2>2, <2>3, <2>6, <3>1 DEF Serves, Handles
  <2>7. Turn(c) /\ req'[c] = r
    BY <2>1, <2>3, <2>4, <2>6, Turns
  <2> HIDE DEF k
  <2>8. Forgets(c, k)
    BY <2>1, <2>3, <2>5, <2>7 DEF Forgets
  <2> QED
    BY <2>5, <2>8 DEF ClientKind
<1>6. CASE StoresDone(c)
  <2> DEFINE r == [req[c] EXCEPT !.pc = "content"]
  <2>1. /\ IF req[c].cascade THEN Goto(c, r) ELSE Finish(c)
        /\ overlapped' = overlapped /\ req[c].pc = "points"
        /\ UNCHANGED <<listed, usedStores, collection, record, object, job>>
    BY <1>6 DEF StoresDone, storeVars, recordVars, history
  <2>2. CASE ~req[c].cascade
    BY <1>1, <2>1, <2>2, TurnsIdle DEF Idle
  <2>3. CASE req[c].cascade
    <3>1. /\ r \in Request /\ r.pc = "content" /\ r.file = req[c].file
          /\ ShapedRequest(r)
      BY <1>0, <2>3 DEF Request, RequestStates, ShapedRequest
    <3> HIDE DEF r
    <3>2. \A k \in Keys : r.file = k[2] => Serves(c, k)
      BY <2>1, <2>3, <3>1 DEF Serves, Handles
    <3>3. Turn(c) /\ req'[c] = r
      BY <2>1, <2>3, <3>1, <3>2, Turns
    <3> QED
      BY <1>1, <2>1, <3>1, <3>3
  <2> QED
    BY <2>2, <2>3
<1>7. CASE DeleteContent(c)
  <2> DEFINE r == [req[c] EXCEPT !.pc = "meta"]
  <2>1. /\ Goto(c, r)
        /\ overlapped' = overlapped /\ req[c].pc = "content"
        /\ UNCHANGED <<listed, usedStores, collection, record, object, job>>
    BY <1>7 DEF DeleteContent, storeVars, recordVars, history
  <2>2. req[c].cascade
    BY <1>0, <2>1 DEF ShapedRequest
  <2>3. /\ r \in Request /\ r.pc = "meta" /\ r.file = req[c].file
        /\ ShapedRequest(r)
    BY <1>0, <2>2 DEF Request, RequestStates, ShapedRequest
  <2> HIDE DEF r
  <2>4. \A k \in Keys : r.file = k[2] => Serves(c, k)
    BY <2>1, <2>2, <2>3 DEF Serves, Handles
  <2>5. Turn(c) /\ req'[c] = r
    BY <2>1, <2>3, <2>4, Turns
  <2> QED
    BY <1>1, <2>1, <2>3, <2>5
<1> QED
  BY <1>2, <1>3, <1>4, <1>5, <1>6, <1>7

LEMMA AdditionKind ==
    ASSUME Typed, Shaped, NEW c \in Clients, SaveRecord(c)
    PROVE  ClientKind(c)
<1>0. req[c] \in Request /\ RequestPlaced(req[c])
  BY DEF Typed, TypeOK, Placed
<1> DEFINE j == CHOOSE i \in Jobs : job[i].pc = "unused"
           g == [UnusedJob EXCEPT !.pc = "waiting", !.file = req[c].file,
                                  !.store = req[c].store]
           k == <<req[c].store, req[c].file>>
<1>1. /\ Finish(c) /\ req[c].pc = "add" /\ overlapped' = overlapped
      /\ UNCHANGED <<listed, usedStores, collection, batch>>
  BY DEF SaveRecord, storeVars, history
<1>2. j \in Jobs /\ job[j].pc = "unused"
  BY DEF SaveRecord, JobLeft
<1>3. /\ record' = [record EXCEPT ![k] = j]
      /\ object' = [object EXCEPT ![j] = NewRecord(None)]
      /\ job' = [job EXCEPT ![j] = g]
  BY DEF SaveRecord, AddAndIngest
<1> HIDE DEF j
<1>4. /\ g.pc = "waiting" /\ g.want = "processing"
      /\ g.store = k[1] /\ g.file = k[2]
  BY DEF UnusedJob
<1> HIDE DEF g
<1>5. OnlyJob(j) /\ job'[j] = g
  BY <1>2, <1>3 DEF Typed, TypeOK, OnlyJob
<1>6. Turn(c) /\ req'[c] = Idle
  BY <1>1, TurnsIdle
<1>7. k \in Keys /\ Adding(c, k)
  BY <1>0, <1>1 DEF Adding, Serves, Handles, RequestPlaced, Keys
<1> HIDE DEF k
<1>8. \E b : /\ object' = [object EXCEPT ![j] = NewRecord(b)]
            /\ b # None => /\ b = req[c].batch /\ b = req'[c].batch
                           /\ req'[c].queued
  BY <1>3
<1>9. Enters(c, j, k)
  <2>1. Idle.pc = "idle"
    BY DEF Idle
  <2> QED
    BY <1>1, <1>2, <1>3, <1>4, <1>5, <1>6, <1>7, <1>8, <2>1 DEF Enters
<1> QED
  BY <1>2, <1>7, <1>9 DEF ClientKind

\* The handlers of the stores, and the save of a batch.
LEMMA StoreKinds ==
    ASSUME Typed, Shaped, NEW c \in Clients,
           \/ BatchSave(c) \/ CreateStoreCollection(c) \/ UndoStore(c)
           \/ DropCollection(c) \/ UnlistStore(c)
    PROVE  ClientKind(c)
<1>0. req[c] \in Request /\ RequestPlaced(req[c])
  BY DEF Typed, TypeOK, Placed
<1>1. ASSUME NEW r, Goto(c, r), r.pc = "undo" \/ r.pc = "unlist",
             overlapped' = overlapped,
             r = [req[c] EXCEPT !.pc = "undo"]
               \/ r = [req[c] EXCEPT !.pc = "unlist"]
      PROVE  Turn(c) /\ req'[c] = r
  <2>1. r \in Request /\ ShapedRequest(r)
    BY <1>0, <1>1 DEF Request, RequestStates, ShapedRequest
  <2> QED
    BY <1>1, <2>1, TurnsAway
<1>2. CASE BatchSave(c)
  <2>1. /\ Finish(c) /\ overlapped' = overlapped /\ req[c].pc = "batch"
        /\ UNCHANGED <<listed, usedStores, collection, record, object, job>>
    BY <1>2 DEF BatchSave, storeVars, recordVars, history
  <2>2. Turn(c) /\ req'[c] = Idle
    BY <2>1, TurnsIdle
  <2> QED
    BY <2>1, <2>2 DEF Idle, ClientKind, Passes, Adding
<1>3. CASE CreateStoreCollection(c)
  <2> DEFINE s == req[c].store
             r == [req[c] EXCEPT !.pc = "undo"]
  <2>1. /\ req[c].pc = "collection" /\ overlapped' = overlapped
        /\ CreateCollection(s) \/ UNCHANGED collection
        /\ Finish(c) \/ Goto(c, r)
        /\ UNCHANGED <<listed, usedStores, record, object, job>>
    BY <1>3 DEF CreateStoreCollection, recordVars, history
  <2>2. s \in Stores
    BY <1>0, <2>1 DEF RequestPlaced
  <2>3. r.pc = "undo"
    BY <1>0 DEF Request
  <2>4. Turn(c) /\ req'[c].pc \in {"idle", "undo"}
    <3>1. CASE Finish(c)
      BY <2>1, <3>1, TurnsIdle DEF Idle
    <3>2. CASE Goto(c, r)
      BY <1>1, <2>1, <2>3, <3>2
    <3> QED
      BY <2>1, <3>1, <3>2
  <2> QED
    BY <2>1, <2>2, <2>4 DEF ClientKind, Makes, Manages
<1>4. CASE UndoStore(c) \/ UnlistStore(c)
  <2>1. /\ req[c].pc \in {"undo", "unlist"} /\ overlapped' = overlapped
        /\ Finish(c) /\ listed' \subseteq listed
        /\ UNCHANGED <<usedStores, collection, record, object, job>>
    BY <1>4 DEF UndoStore, UnlistStore, recordVars, history
  <2>2. Turn(c) /\ req'[c].pc = "idle"
    BY <2>1, TurnsIdle DEF Idle
  <2> QED
    BY <2>1, <2>2 DEF ClientKind, Unlists, Manages
<1>5. CASE DropCollection(c)
  <2> DEFINE s == req[c].store
             r == [req[c] EXCEPT !.pc = "unlist"]
  <2>1. /\ req[c].pc = "drop" /\ overlapped' = overlapped
        /\ DeleteCollection(s) \/ UNCHANGED collection
        /\ Finish(c) \/ Goto(c, r)
        /\ UNCHANGED <<listed, usedStores, record, object, job>>
    BY <1>5 DEF DropCollection, recordVars, history
  <2>2. s \in Stores
    BY <1>0, <2>1 DEF RequestPlaced
  <2>3. r.pc = "unlist"
    BY <1>0 DEF Request
  <2>4. Turn(c) /\ req'[c].pc \in {"idle", "unlist"}
    <3>1. CASE Finish(c)
      BY <2>1, <3>1, TurnsIdle DEF Idle
    <3>2. CASE Goto(c, r)
      BY <1>1, <2>1, <2>3, <3>2
    <3> QED
      BY <2>1, <3>1, <3>2
  <2> QED
    BY <2>1, <2>2, <2>4 DEF ClientKind, Drops, Manages
<1> QED
  BY <1>2, <1>3, <1>4, <1>5

-----------------------------------------------------------------------------
(***************************************************************************)
(* What the steps of a goroutine do with its key.                          *)
(***************************************************************************)
Stored(j) ==
    /\ Lookup(job[j].store) /\ Upsertable(job[j].store)
    /\ UpsertPoints(job[j].store, job[j].file, j)

Advances(j) ==
    /\ job[j].pc \in {"waiting", "retrieve", "embed"}
    /\ job'[j].pc \in {"update", "embed", "index"}
    /\ job'[j].want = job[j].want
    /\ SameKey(j)
    /\ UNCHANGED <<record, object, collection>>

Fails(j) ==
    /\ job[j].pc \in ActiveStates \ {"save"}
    /\ job'[j].pc = "update" /\ job'[j].want = "failed"
    /\ SameKey(j)
    /\ Stored(j) \/ UNCHANGED collection
    /\ UNCHANGED <<record, object>>

Indexes(j) ==
    /\ job[j].pc = "index"
    /\ Stored(j)
    /\ job'[j].pc = "update" /\ job'[j].want = "completed"
    /\ SameKey(j)
    /\ UNCHANGED <<record, object>>

SavesStatus(j) ==
    /\ Saves(j)
    /\ job[j].want = "processing" => job'[j].want = "processing"

JobKind(j) ==
    /\ OnlyJob(j)
    /\ UNCHANGED <<req, listed, usedStores, overlapped>>
    /\ \/ Advances(j) \/ Fails(j) \/ Indexes(j)
       \/ /\ Writes(j) \/ SavesStatus(j) \/ GivesUp(j)
          /\ UNCHANGED collection

LEMMA JobKinds ==
    ASSUME Typed, NEW j \in Jobs, Ingestion(j)
    PROVE  JobKind(j)
<1>0. /\ job \in [Jobs -> Job] /\ job[j] \in Job
  BY DEF Typed, TypeOK
<1>u. UNCHANGED <<req, listed, usedStores, overlapped>>
  BY DEF Ingestion, Local, Call, Acquire, UpdateStatus, SaveStatus, Retrieve,
         Embed, Index,
         storeVars, history
<1>o. /\ OnlyJob(j)
      /\ Acquires(j) \/ Works(j) \/ Writes(j) \/ Saves(j) \/ GivesUp(j)
  BY IngestionMoves
<1>1. ASSUME NEW g, JobIs(j, g) PROVE job'[j] = g
  BY <1>0, <1>1 DEF JobIs
<1>2. ASSUME Fail(j), job[j].pc \in ActiveStates \ {"save"},
             Stored(j) \/ UNCHANGED collection,
             UNCHANGED <<record, object>>
      PROVE  Fails(j)
  <2> DEFINE g == [job[j] EXCEPT !.pc = "update", !.want = "failed"]
  <2>1. /\ g.pc = "update" /\ g.want = "failed"
        /\ g.store = job[j].store /\ g.file = job[j].file
    BY <1>0 DEF Job
  <2>2. job'[j] = g
    BY <1>1, <1>2 DEF Fail
  <2> HIDE DEF g
  <2> QED
    BY <1>2, <2>1, <2>2 DEF Fails, SameKey
<1>3. ASSUME NEW pc \in {"update", "embed", "index"},
             JobIs(j, [job[j] EXCEPT !.pc = pc]),
             job[j].pc \in {"waiting", "retrieve", "embed"},
             UNCHANGED <<record, object, collection>>
      PROVE  Advances(j)
  <2> DEFINE g == [job[j] EXCEPT !.pc = pc]
  <2>1. /\ g.pc = pc /\ g.want = job[j].want
        /\ g.store = job[j].store /\ g.file = job[j].file
    BY <1>0 DEF Job
  <2>2. job'[j] = g
    BY <1>1, <1>3
  <2> HIDE DEF g
  <2> QED
    BY <1>3, <2>1, <2>2 DEF Advances, SameKey
<1>4. CASE Acquire(j)
  BY <1>3, <1>4, <1>o, <1>u DEF Acquire, storeVars, recordVars, JobKind
<1>5. CASE UpdateStatus(j)
  <2>1. job[j].pc = "update" /\ UNCHANGED collection
    BY <1>5 DEF UpdateStatus, storeVars
  <2>2. CASE record[Key(j)] # None
    <3> DEFINE g == [job[j] EXCEPT !.pc = "save", !.held = record[Key(j)]]
    <3>1. JobIs(j, g)
      BY <1>5, <2>2 DEF UpdateStatus, WriteRecord
    <3>2. g.pc = "save"
      BY <1>0 DEF Job
    <3> HIDE DEF g
    <3>3. job'[j].pc = "save"
      BY <1>1, <3>1, <3>2
    <3>4. Writes(j)
      BY <1>o, <2>1, <3>3 DEF Acquires, Works, Saves, GivesUp
    <3> QED
      BY <1>o, <1>u, <2>1, <3>4 DEF JobKind
  <2>3. CASE record[Key(j)] = None /\ job[j].want = "failed"
    <3>1. JobIs(j, DoneJob)
      BY <1>5, <2>3 DEF UpdateStatus, NoRecord
    <3>2. job'[j].pc = "done"
      BY <1>1, <3>1 DEF DoneJob, UnusedJob
    <3>3. GivesUp(j)
      BY <1>o, <2>1, <3>2
      DEF Acquires, Works, Saves, Writes, HoldingStates, ActiveStates
    <3> QED
      BY <1>o, <1>u, <2>1, <3>3 DEF JobKind
  <2>4. CASE record[Key(j)] = None /\ job[j].want # "failed"
    <3>1. Fail(j) /\ UNCHANGED <<record, object>>
      BY <1>5, <2>4 DEF UpdateStatus, NoRecord
    <3>2. Fails(j)
      BY <1>2, <2>1, <3>1 DEF ActiveStates
    <3> QED
      BY <1>o, <1>u, <3>2 DEF JobKind
  <2> QED
    BY <2>2, <2>3, <2>4
<1>6. CASE SaveStatus(j)
  <2>1. job[j].pc = "save" /\ UNCHANGED collection
    BY <1>6 DEF SaveStatus, storeVars
  <2>2. Saves(j)
    BY <1>o, <2>1 DEF Acquires, Works, Writes, GivesUp
  <2>3. ASSUME job[j].want = "processing" PROVE job'[j].want = "processing"
    <3> DEFINE g == [job[j] EXCEPT !.pc = "retrieve", !.held = None]
    <3>1. JobIs(j, g)
      BY <1>6, <2>3 DEF SaveStatus
    <3>2. g.want = "processing"
      BY <1>0, <2>3 DEF Job
    <3> HIDE DEF g
    <3> QED
      BY <1>1, <3>1, <3>2
  <2> QED
    BY <1>o, <1>u, <2>1, <2>2, <2>3 DEF JobKind, SavesStatus
<1>7. CASE Retrieve(j)
  <2>1. /\ job[j].pc = "retrieve" /\ UNCHANGED <<record, object, collection>>
        /\ JobIs(j, [job[j] EXCEPT !.pc = "embed"]) \/ Fail(j)
    BY <1>7 DEF Retrieve, recordVars, storeVars
  <2>2. Advances(j) \/ Fails(j)
    BY <1>2, <1>3, <2>1 DEF ActiveStates
  <2> QED
    BY <1>o, <1>u, <2>2 DEF JobKind
<1>8. CASE Embed(j)
  <2>1. /\ job[j].pc = "embed" /\ UNCHANGED <<record, object, collection>>
        /\ JobIs(j, [job[j] EXCEPT !.pc = "index"]) \/ Fail(j)
    BY <1>8 DEF Embed, recordVars
  <2>2. Advances(j) \/ Fails(j)
    BY <1>2, <1>3, <2>1 DEF ActiveStates
  <2> QED
    BY <1>o, <1>u, <2>2 DEF JobKind
<1>9. CASE Index(j)
  <2> DEFINE g == [job[j] EXCEPT !.pc = "update", !.want = "completed"]
  <2>1. job[j].pc = "index" /\ UNCHANGED <<record, object>>
    BY <1>9 DEF Index, recordVars
  <2>2. \/ Stored(j) /\ JobIs(j, g)
        \/ (Stored(j) \/ UNCHANGED collection) /\ Fail(j)
    BY <1>9 DEF Index, Stored
  <2>3. /\ g.pc = "update" /\ g.want = "completed"
        /\ g.store = job[j].store /\ g.file = job[j].file
    BY <1>0 DEF Job
  <2> HIDE DEF g
  <2>4. CASE (Stored(j) \/ UNCHANGED collection) /\ Fail(j)
    BY <1>2, <1>o, <1>u, <2>1, <2>4 DEF JobKind, ActiveStates
  <2>5. CASE Stored(j) /\ JobIs(j, g)
    <3>1. job'[j] = g
      BY <1>1, <2>5
    <3>2. Indexes(j)
      BY <2>1, <2>3, <2>5, <3>1 DEF Indexes, SameKey
    <3> QED
      BY <1>o, <1>u, <3>2 DEF JobKind
  <2> QED
    BY <2>2, <2>4, <2>5
<1> QED
  BY <1>4, <1>5, <1>6, <1>7, <1>8, <1>9 DEF Ingestion, Local, Call

\* The lookup of a batch and a stutter change nothing of this.
Rests == /\ UNCHANGED <<listed, usedStores, collection, record, object>>
         /\ UNCHANGED <<req, job, overlapped>>

LEMMA StepsOnKeys ==
    ASSUME Typed, Shaped, BatchOwned, [Next]_vars
    PROVE  \/ Rests
           \/ \E c \in Clients : ClientKind(c)
           \/ \E j \in Jobs : JobKind(j)
<1>1. ASSUME NEW c \in Clients, Arrival(c) \/ Handler(c) PROVE ClientKind(c)
  BY <1>1, ArrivalKinds, BatchKinds, RemovalKinds, AdditionKind, StoreKinds
  DEF Handler
<1>2. ASSUME NEW b \in Batches, GetBatch(b) PROVE Rests
  BY <1>2 DEF GetBatch, Rests, storeVars, recordVars, history
<1>3. CASE UNCHANGED vars
  BY <1>3 DEF vars, Rests, storeVars, recordVars, history
<1> QED
  BY <1>1, <1>2, <1>3, JobKinds DEF Next

-----------------------------------------------------------------------------
(***************************************************************************)
(* The invariants, each from the kinds of steps.                           *)
(***************************************************************************)
LEMMA ClientTurns ==
    ASSUME NEW c \in Clients, ClientKind(c)
    PROVE  Turn(c)
BY DEF ClientKind, Passes, Clears, Forgets, Enters, Notes, Opens, Makes,
       Drops, Unlists, Manages

LEMMA OverlapsGrow ==
    ASSUME Typed, Shaped, BatchOwned, [Next]_vars
    PROVE  overlapped \subseteq overlapped' /\ Undisturbed' \subseteq Undisturbed
BY StepsOnKeys, ClientTurns DEF Rests, JobKind, Turn, Undisturbed, Keys

LEMMA ShapedStep ==
    ASSUME Typed, Shaped, BatchOwned, [Next]_vars
    PROVE  Shaped'
<1>1. \A c \in Clients : ShapedRequest(req'[c])
  <2>1. CASE \E c \in Clients : ClientKind(c)
    BY <2>1, ClientTurns DEF Shaped, Turn, OnlyClient
  <2>2. CASE req' = req
    BY <2>2 DEF Shaped
  <2> QED
    BY <2>1, <2>2, StepsOnKeys DEF Rests, JobKind
<1>2. \A j \in Jobs : ShapedJob(job'[j])
  <2>1. CASE job' = job
    BY <2>1 DEF Shaped
  <2>2. ASSUME NEW c \in Clients, NEW j \in Jobs, NEW k \in Keys,
               Enters(c, j, k)
        PROVE  \A i \in Jobs : ShapedJob(job'[i])
    BY <2>2 DEF Enters, OnlyJob, Shaped, ShapedJob
  <2>3. ASSUME NEW j \in Jobs, JobKind(j)
        PROVE  \A i \in Jobs : ShapedJob(job'[i])
    <3>1. ShapedJob(job[j]) /\ \A i \in Jobs \ {j} : job'[i] = job[i]
      BY <2>3 DEF Shaped, JobKind, OnlyJob
    <3>2. ShapedJob(job'[j])
      <4>1. CASE Advances(j)
        BY <3>1, <4>1 DEF Advances, ShapedJob
      <4>2. CASE Fails(j) \/ Indexes(j)
        BY <4>2 DEF Fails, Indexes, ShapedJob
      <4>3. CASE Writes(j) \/ GivesUp(j)
        BY <4>3 DEF Writes, GivesUp, ShapedJob
      <4>4. CASE SavesStatus(j)
        BY <4>4 DEF SavesStatus, Saves, ShapedJob
      <4> QED
        BY <2>3, <4>1, <4>2, <4>3, <4>4 DEF JobKind
    <3> QED
      BY <3>1, <3>2 DEF Shaped
  <2>4. ASSUME NEW c \in Clients, ClientKind(c)
        PROVE  \/ job' = job
               \/ \E j \in Jobs, k \in Keys : Enters(c, j, k)
    BY <2>4 DEF ClientKind, Passes, Clears, Forgets, Notes, Missing, Opens,
                Makes, Drops, Unlists, Manages
  <2> QED
    BY <2>1, <2>2, <2>3, <2>4, StepsOnKeys DEF Rests
<1> QED
  BY <1>1, <1>2 DEF Shaped, ShapedRequest, ShapedJob

\* A goroutine works on a key from when a handler started it on this key.
LEMMA FeedsBefore ==
    ASSUME Typed, Shaped, BatchOwned, [Next]_vars
    PROVE  \A j \in Jobs, k \in Keys : Feeds(j, k)' =>
             Feeds(j, k) \/ \E c \in Clients : Enters(c, j, k)
<1> SUFFICES ASSUME NEW j \in Jobs, NEW k \in Keys, Feeds(j, k)'
             PROVE  Feeds(j, k) \/ \E c \in Clients : Enters(c, j, k)
  OBVIOUS
<1>1. /\ job'[j].pc \in ActiveStates
      /\ job'[j].store = k[1] /\ job'[j].file = k[2]
  BY DEF Feeds, WorksOn
<1>2. CASE job'[j] = job[j]
  BY <1>1, <1>2 DEF Feeds, WorksOn
<1>3. ASSUME NEW c \in Clients, NEW i \in Jobs, NEW m \in Keys,
             Enters(c, i, m)
      PROVE  Feeds(j, k) \/ \E d \in Clients : Enters(d, j, k)
  <2>1. CASE i # j
    BY <1>2, <1>3, <2>1 DEF Enters, OnlyJob
  <2>2. CASE i = j
    <3>1. m = k
      BY <1>1, <1>3, <2>2 DEF Enters, Keys
    <3> QED
      BY <1>3, <2>2, <3>1
  <2> QED
    BY <2>1, <2>2
<1>4. ASSUME NEW i \in Jobs, JobKind(i) PROVE Feeds(j, k)
  <2>1. CASE i # j
    <3>1. OnlyJob(i)
      BY <1>4 DEF JobKind
    <3>2. job'[j] = job[j]
      BY <2>1, <3>1 DEF OnlyJob
    <3> QED
      BY <1>1, <3>2 DEF Feeds, WorksOn
  <2>2. CASE i = j
    <3>1. job[j].pc \in ActiveStates
      BY <1>4, <2>2
      DEF JobKind, Advances, Fails, Indexes, Writes, SavesStatus, Saves,
          GivesUp, ActiveStates
    <3>2. SameKey(j) \/ job'[j].pc = "done"
      BY <1>4, <2>2
      DEF JobKind, Advances, Fails, Indexes, Writes, SavesStatus, Saves,
          GivesUp
    <3> QED
      BY <1>1, <3>1, <3>2 DEF SameKey, Feeds, WorksOn, ActiveStates
  <2> QED
    BY <2>1, <2>2
<1>5. ASSUME NEW c \in Clients, ClientKind(c)
      PROVE  \/ job' = job
             \/ \E i \in Jobs, m \in Keys : Enters(c, i, m)
  BY <1>5 DEF ClientKind, Passes, Clears, Forgets, Notes, Missing, Opens,
              Makes, Drops, Unlists, Manages
<1> QED
  BY <1>2, <1>3, <1>4, <1>5, StepsOnKeys DEF Rests

\* Handlers other than the one that moves serve what they served.
LEMMA ServesBefore ==
    ASSUME NEW c \in Clients, Turn(c)
    PROVE  /\ \A d \in Clients \ {c}, k \in Keys : Serves(d, k)' => Serves(d, k)
           /\ \A k \in Keys \ overlapped' :
                Serves(c, k)' => Serves(c, k) \/ ~Busy(k[1], k[2])
<1>1. ASSUME NEW d \in Clients \ {c}, NEW k \in Keys, Serves(d, k)'
      PROVE  Serves(d, k)
  BY <1>1 DEF Turn, OnlyClient, Serves, Handles
<1> QED
  BY <1>1 DEF Turn, Starts

LEMMA ExclusiveStep ==
    ASSUME Typed, Shaped, BatchOwned, Exclusive, [Next]_vars
    PROVE  Exclusive'
<1> SUFFICES ASSUME NEW k \in Undisturbed'
             PROVE  /\ \A i, j \in Jobs : Feeds(i, k)' /\ Feeds(j, k)' => i = j
                    /\ \A c, d \in Clients :
                         Serves(c, k)' /\ Serves(d, k)' => c = d
                    /\ \A c \in Clients, j \in Jobs :
                         ~(Serves(c, k)' /\ Feeds(j, k)')
  BY DEF Exclusive
<1>1. k \in Undisturbed /\ k \in Keys /\ k \in Keys \ overlapped'
  BY OverlapsGrow DEF Undisturbed, Keys
<1>2. /\ \A i, j \in Jobs : Feeds(i, k) /\ Feeds(j, k) => i = j
      /\ \A c, d \in Clients : Serves(c, k) /\ Serves(d, k) => c = d
      /\ \A c \in Clients, j \in Jobs : ~(Serves(c, k) /\ Feeds(j, k))
  BY <1>1 DEF Exclusive
<1>3. CASE req' = req
  <2>1. \A c \in Clients : Serves(c, k)' => Serves(c, k)
    BY <1>3 DEF Serves, Handles
  <2>2. \A j \in Jobs : Feeds(j, k)' => Feeds(j, k)
    <3>1. \A c \in Clients, j \in Jobs : ~Enters(c, j, k)
      BY <1>3 DEF Enters, Adding
    <3> QED
      BY <1>1, <3>1, FeedsBefore
  <2> QED
    BY <1>2, <2>1, <2>2
<1>4. ASSUME NEW c \in Clients, Turn(c), \A j \in Jobs : ~Enters(c, j, k),
             \A d \in Clients \ {c}, j \in Jobs : ~Enters(d, j, k)
      PROVE  /\ \A i, j \in Jobs : Feeds(i, k)' /\ Feeds(j, k)' => i = j
             /\ \A d, e \in Clients : Serves(d, k)' /\ Serves(e, k)' => d = e
             /\ \A d \in Clients, j \in Jobs :
                  ~(Serves(d, k)' /\ Feeds(j, k)')
  <2>1. \A j \in Jobs : Feeds(j, k)' => Feeds(j, k)
    BY <1>1, <1>4, FeedsBefore
  <2>2. \A d \in Clients \ {c} : Serves(d, k)' => Serves(d, k)
    BY <1>1, <1>4, ServesBefore
  <2>3. Serves(c, k)' => Serves(c, k) \/ ~Busy(k[1], k[2])
    BY <1>1, <1>4, ServesBefore
  <2>4. CASE ~Busy(k[1], k[2])
    <3>1. /\ \A d \in Clients : ~Serves(d, k)
          /\ \A j \in Jobs : ~Feeds(j, k)
      BY <2>4 DEF Busy, Ingesting, Serves, Feeds
    <3> QED
      BY <2>1, <2>2, <3>1
  <2>5. CASE Busy(k[1], k[2])
    BY <1>2, <2>1, <2>2, <2>3, <2>5
  <2> QED
    BY <2>4, <2>5
<1>5. ASSUME NEW c \in Clients, NEW j \in Jobs, Enters(c, j, k)
      PROVE  /\ \A i, l \in Jobs : Feeds(i, k)' /\ Feeds(l, k)' => i = l
             /\ \A d, e \in Clients : Serves(d, k)' /\ Serves(e, k)' => d = e
             /\ \A d \in Clients, i \in Jobs :
                  ~(Serves(d, k)' /\ Feeds(i, k)')
  <2>1. Serves(c, k) /\ Turn(c) /\ OnlyJob(j)
    BY <1>5 DEF Enters, Adding
  <2>2. ~Serves(c, k)'
    BY <1>5 DEF Enters, Serves, Handles
  <2>3. \A d \in Clients : ~Serves(d, k)'
    BY <1>1, <1>2, <2>1, <2>2, ServesBefore
  <2>4. \A i \in Jobs : Feeds(i, k)' => i = j
    BY <1>2, <2>1 DEF OnlyJob, Feeds, WorksOn
  <2> QED
    BY <2>3, <2>4
<1>6. CASE \E c \in Clients : Turn(c)
  BY <1>4, <1>5, <1>6
<1> QED
  BY <1>3, <1>6, StepsOnKeys, ClientTurns DEF Rests, JobKind

\* Keys, the records under them, and who they are shared with.
LEMMA Records ==
    ASSUME Typed
    PROVE  /\ record \in [Keys -> Objects \cup {None}]
           /\ object \in [Objects -> Record]
           /\ Jobs \subseteq Objects
           /\ None \notin Objects
           /\ \A j \in Jobs : job[j].pc \in ActiveStates =>
                Key(j) \in Keys /\ \A k \in Keys : Feeds(j, k) <=> Key(j) = k
<1>1. \A j \in Jobs : JobPlaced(job[j])
  BY DEF Typed, Placed
<1>2. \A j \in Jobs : job[j].pc \in ActiveStates =>
        Key(j) \in Keys /\ \A k \in Keys : Feeds(j, k) <=> Key(j) = k
  BY <1>1 DEF JobPlaced, Key, Keys, Feeds, WorksOn
<1> QED
  BY <1>2, FilesAssumption DEF Typed, TypeOK, Objects

\* A write to the record of one key changes no other key's.
LEMMA WriteApart ==
    ASSUME Typed, Unshared, NEW i \in Jobs, Writes(i),
           NEW k \in Keys, Key(i) # k, record[k] # None
    PROVE  object'[record[k]] = object[record[k]]
<1> DEFINE o == record[Key(i)]
<1>1. /\ o # None /\ object' = [object EXCEPT ![o].status = job[i].want]
      /\ Key(i) \in Keys
  BY Records DEF Writes, ActiveStates
<1>2. Refers(o, Key(i)) /\ Refers(record[k], k)
  BY DEF Refers
<1>3. o \in Objects /\ record[k] \in Objects
  BY <1>1, Records
<1>4. o # record[k]
  BY <1>1, <1>2, <1>3 DEF Unshared
<1> HIDE DEF o
<1> QED
  BY <1>1, <1>3, <1>4, Records

\* Neither does the record of a missing file, or of a file that is added.
LEMMA BirthApart ==
    ASSUME Typed, Unshared, NEW o \in Objects, Unborn(o),
           NEW k \in Keys, record[k] # None,
           NEW v, object' = [object EXCEPT ![o] = v]
    PROVE  record[k] # o /\ object'[record[k]] = object[record[k]]
<1>1. Refers(record[k], k) /\ record[k] \in Objects
  BY Records DEF Refers
<1>2. record[k] # o
  BY <1>1 DEF Unshared
<1> QED
  BY <1>1, <1>2, Records

\* What happens to the record of a key: it is written by its goroutine, made
\* by a batch, made for a new goroutine, or at most removed.
RecordSteps(k) ==
    \/ /\ record'[k] = record[k]
       /\ record[k] # None => object'[record[k]] = object[record[k]]
    \/ \E c \in Clients : Forgets(c, k) /\ record'[k] = None
    \/ \E c \in Clients, j \in Jobs :
         /\ Enters(c, j, k) /\ record'[k] = j
         /\ object'[j].status = "processing"
    \/ \E c \in Clients, o \in Objects :
         /\ Notes(c, o, k) /\ record'[k] = o
         /\ object'[o].status = "failed"
         /\ Busy(k[1], k[2]) => k \in overlapped'
    \/ \E j \in Jobs :
         /\ Feeds(j, k) /\ Writes(j) /\ record'[k] = record[k]
         /\ object'[record[k]].status = job[j].want
    \/ \E j \in Jobs :
         Feeds(j, k) /\ Saves(j) /\ record'[k] = job[j].held /\ object' = object

LEMMA RecordStep ==
    ASSUME Typed, Shaped, BatchOwned, Unshared, [Next]_vars, NEW k \in Keys
    PROVE  RecordSteps(k)
<1>1. CASE UNCHANGED <<record, object>>
  BY <1>1 DEF RecordSteps
<1>2. ASSUME NEW c \in Clients, NEW m \in Keys, Forgets(c, m)
      PROVE  RecordSteps(k)
  <2>1. record' = [record EXCEPT ![m] = None] /\ object' = object
    BY <1>2 DEF Forgets
  <2> QED
    BY <1>2, <2>1, Records DEF RecordSteps
<1>3. ASSUME NEW c \in Clients, NEW j \in Jobs, NEW m \in Keys,
             Enters(c, j, m)
      PROVE  RecordSteps(k)
  <2>1. PICK b : /\ record' = [record EXCEPT ![m] = j]
                 /\ object' = [object EXCEPT ![j] = NewRecord(b)]
    BY <1>3 DEF Enters
  <2>2. Unborn(j) /\ j \in Objects
    BY <1>3, Records DEF Enters, Unborn
  <2>3. CASE m = k
    <3>1. record'[k] = j /\ object'[j].status = "processing"
      BY <2>1, <2>2, <2>3, Records DEF NewRecord
    <3> QED
      BY <1>3, <2>3, <3>1 DEF RecordSteps
  <2>4. CASE m # k
    <3>1. record'[k] = record[k]
      BY <2>1, <2>4, Records
    <3>2. record[k] # None => object'[record[k]] = object[record[k]]
      BY <2>1, <2>2, BirthApart
    <3> QED
      BY <3>1, <3>2 DEF RecordSteps
  <2> QED
    BY <2>3, <2>4
<1>4. ASSUME NEW c \in Clients, NEW o \in Objects, NEW m \in Keys,
             Notes(c, o, m)
      PROVE  RecordSteps(k)
  <2> DEFINE v == [status |-> "failed", batch |-> o[1]]
  <2>1. /\ record' = [record EXCEPT ![m] = o]
        /\ object' = [object EXCEPT ![o] = v]
        /\ Unborn(o)
        /\ Busy(m[1], m[2]) => m \in overlapped'
    BY <1>4 DEF Notes, Missing
  <2>2. v.status = "failed"
    OBVIOUS
  <2> HIDE DEF v
  <2>3. CASE m = k
    <3>1. record'[k] = o /\ object'[o].status = "failed"
      BY <2>1, <2>2, <2>3, Records
    <3> QED
      BY <1>4, <2>1, <2>3, <3>1 DEF RecordSteps
  <2>4. CASE m # k
    <3>1. record'[k] = record[k]
      BY <2>1, <2>4, Records
    <3>2. record[k] # None => object'[record[k]] = object[record[k]]
      BY <2>1, BirthApart
    <3> QED
      BY <3>1, <3>2 DEF RecordSteps
  <2> QED
    BY <2>3, <2>4
<1>5. ASSUME NEW j \in Jobs, Writes(j) PROVE RecordSteps(k)
  <2>1. /\ Key(j) \in Keys /\ record[Key(j)] \in Objects /\ record' = record
        /\ object' = [object EXCEPT ![record[Key(j)]].status = job[j].want]
        /\ job[j].pc \in ActiveStates
    BY <1>5, Records DEF Writes, ActiveStates
  <2>2. CASE Key(j) = k
    <3>1. object[record[k]] \in Record
      BY <2>1, <2>2, Records
    <3>2. object'[record[k]].status = job[j].want
      BY <2>1, <2>2, <3>1, Records DEF Record
    <3>3. Feeds(j, k)
      BY <2>1, <2>2, Records
    <3> QED
      BY <1>5, <2>1, <3>2, <3>3 DEF RecordSteps
  <2>3. CASE Key(j) # k
    BY <1>5, <2>1, <2>3, WriteApart DEF RecordSteps
  <2> QED
    BY <2>2, <2>3
<1>6. ASSUME NEW j \in Jobs, Saves(j) PROVE RecordSteps(k)
  <2>1. /\ Key(j) \in Keys /\ object' = object
        /\ record' = [record EXCEPT ![Key(j)] = job[j].held]
        /\ job[j].pc \in ActiveStates
    BY <1>6, Records DEF Saves, ActiveStates
  <2>2. CASE Key(j) = k
    <3>1. record'[k] = job[j].held /\ Feeds(j, k)
      BY <2>1, <2>2, Records
    <3> QED
      BY <1>6, <2>1, <3>1 DEF RecordSteps
  <2>3. CASE Key(j) # k
    BY <2>1, <2>3, Records DEF RecordSteps
  <2> QED
    BY <2>2, <2>3
<1>7. ASSUME NEW c \in Clients, ClientKind(c) PROVE RecordSteps(k)
  <2>1. CASE \/ Passes(c) \/ Unlists(c)
             \/ \E m \in Keys : Clears(c, m)
             \/ \E s \in Stores : Opens(c, s) \/ Makes(c, s) \/ Drops(c, s)
    BY <1>1, <2>1 DEF Passes, Clears, Unlists, Opens, Makes, Drops, Manages
  <2> QED
    BY <1>2, <1>3, <1>4, <1>7, <2>1 DEF ClientKind
<1>8. ASSUME NEW j \in Jobs, JobKind(j) PROVE RecordSteps(k)
  <2>1. CASE Advances(j) \/ Fails(j) \/ Indexes(j) \/ GivesUp(j)
    BY <1>1, <2>1 DEF Advances, Fails, Indexes, GivesUp
  <2> QED
    BY <1>5, <1>6, <1>8, <2>1 DEF JobKind, SavesStatus
<1> QED
  BY <1>1, <1>7, <1>8, StepsOnKeys DEF Rests

\* A goroutine at work is moved by its own steps only.
LEMMA JobMoves ==
    ASSUME Typed, Shaped, BatchOwned, [Next]_vars,
           NEW j \in Jobs, job[j].pc # "unused"
    PROVE  job'[j] = job[j] \/ JobKind(j)
<1>1. ASSUME NEW c \in Clients, ClientKind(c) PROVE job'[j] = job[j]
  <2>1. ASSUME NEW i \in Jobs, NEW m \in Keys, Enters(c, i, m)
        PROVE  job'[j] = job[j]
    BY <2>1 DEF Enters, OnlyJob
  <2> QED
    BY <1>1, <2>1
    DEF ClientKind, Passes, Clears, Forgets, Notes, Missing, Opens, Makes,
        Drops, Unlists, Manages
<1>2. ASSUME NEW i \in Jobs, JobKind(i), i # j PROVE job'[j] = job[j]
  BY <1>2 DEF JobKind, OnlyJob
<1> QED
  BY <1>1, <1>2, StepsOnKeys DEF Rests

\* Who removes, adds or works on a key serves or feeds it.
LEMMA Workers ==
    ASSUME NEW k \in Keys
    PROVE  /\ \A c \in Clients : Removing(c, k) => Serves(c, k)
           /\ \A c \in Clients : Forgets(c, k) => Serves(c, k)
           /\ \A c \in Clients, j \in Jobs : Enters(c, j, k) => Serves(c, k)
           /\ \A c \in Clients : Serves(c, k) => Busy(k[1], k[2])
           /\ \A j \in Jobs : Feeds(j, k) => Busy(k[1], k[2])
<1>1. \A c \in Clients : Removing(c, k) => Serves(c, k)
  BY DEF Removing, Serves, Handles
<1> QED
  BY <1>1 DEF Forgets, Enters, Adding, Busy, Ingesting, Serves, Feeds

LEMMA JobRecordsStep ==
    ASSUME Typed, Shaped, BatchOwned, Unshared, Exclusive, JobRecords,
           [Next]_vars
    PROVE  JobRecords'
<1> SUFFICES ASSUME NEW k \in Undisturbed', NEW j \in Jobs, Feeds(j, k)'
             PROVE  /\ record'[k] = j
                    /\ job'[j].pc = "save" => job'[j].held = j
                    /\ object'[j].status = IF job'[j].pc = "save"
                                           THEN job'[j].want
                                           ELSE "processing"
  BY DEF JobRecords
<1>1. k \in Undisturbed /\ k \in Keys /\ k \notin overlapped'
  BY OverlapsGrow DEF Undisturbed, Keys
<1>2. ASSUME NEW c \in Clients, Enters(c, j, k)
      PROVE  /\ record'[k] = j
             /\ job'[j].pc = "waiting"
             /\ object'[j].status = "processing"
  BY <1>1, <1>2, Records DEF Enters, NewRecord
<1>3. CASE Feeds(j, k)
  <2>0. job[j].pc \in ActiveStates /\ Key(j) = k
    BY <1>1, <1>3, Records DEF Feeds, WorksOn
  <2>1. /\ record[k] = j /\ j # None /\ j \in Objects
        /\ job[j].pc = "save" => job[j].held = j
        /\ object[j].status = IF job[j].pc = "save" THEN job[j].want
                                                    ELSE "processing"
    BY <1>1, <1>3, Records DEF JobRecords
  <2>2. /\ \A i \in Jobs : Feeds(i, k) => i = j
        /\ \A c \in Clients : ~Serves(c, k)
        /\ Busy(k[1], k[2])
    BY <1>1, <1>3, Workers DEF Exclusive
  <2>3. \/ record'[k] = j /\ object'[j] = object[j]
        \/ /\ Writes(j) /\ record'[k] = j
           /\ object'[j].status = job[j].want
    <3>1. RecordSteps(k)
      BY <1>1, RecordStep
    <3>2. \/ /\ record'[k] = record[k]
             /\ object'[record[k]] = object[record[k]]
          \/ \E i \in Jobs :
               /\ Feeds(i, k) /\ Writes(i) /\ record'[k] = record[k]
               /\ object'[record[k]].status = job[i].want
          \/ \E i \in Jobs : /\ Feeds(i, k) /\ Saves(i)
                             /\ record'[k] = job[i].held /\ object' = object
      BY <1>1, <2>1, <2>2, <3>1, Workers DEF RecordSteps
    <3> QED
      BY <2>1, <2>2, <3>2 DEF Saves
  <2>4. CASE job'[j] = job[j]
    <3>1. ~Writes(j)
      BY <2>4 DEF Writes
    <3> QED
      BY <2>1, <2>3, <2>4, <3>1
  <2>5. CASE JobKind(j)
    <3>1. CASE Advances(j) \/ Fails(j) \/ Indexes(j)
      <4>1. job[j].pc # "save" /\ job'[j].pc # "save" /\ object' = object
        BY <3>1 DEF Advances, Fails, Indexes
      <4>2. ~Writes(j)
        BY <4>1 DEF Writes
      <4> QED
        BY <2>1, <2>3, <4>1, <4>2
    <3>2. CASE Writes(j)
      <4>1. /\ job'[j].pc = "save" /\ job'[j].held = record[Key(j)]
            /\ job'[j].want = job[j].want
            /\ object' = [object EXCEPT ![record[Key(j)]].status = job[j].want]
            /\ record' = record
        BY <3>2 DEF Writes
      <4>2. object[j] \in Record
        BY <2>1, Records
      <4>3. object'[j].status = job[j].want
        BY <2>0, <2>1, <4>1, <4>2, Records DEF Record
      <4> QED
        BY <2>0, <2>1, <4>1, <4>3
    <3>3. CASE SavesStatus(j)
      <4>1. /\ job[j].pc = "save" /\ object' = object
            /\ job[j].want = "processing" /\ job'[j].pc = "retrieve"
        BY <3>3 DEF SavesStatus, Saves, Feeds, WorksOn, ActiveStates
      <4>2. ~Writes(j)
        BY <4>1 DEF Writes
      <4> QED
        BY <2>1, <2>3, <4>1, <4>2
    <3>4. CASE GivesUp(j)
      BY <2>0, <2>1, <3>4 DEF GivesUp
    <3> QED
      BY <2>5, <3>1, <3>2, <3>3, <3>4 DEF JobKind
  <2> QED
    BY <2>0, <2>4, <2>5, JobMoves DEF ActiveStates
<1> QED
  BY <1>1, <1>2, <1>3, FeedsBefore

LEMMA AddedRecordsStep ==
    ASSUME Typed, Shaped, BatchOwned, Unshared, Exclusive, AddedRecords,
           [Next]_vars
    PROVE  AddedRecords'
<1> SUFFICES ASSUME NEW k \in Undisturbed', NEW c \in Clients, Adding(c, k)'
             PROVE  record'[k] = None
  BY DEF AddedRecords
<1>1. k \in Undisturbed /\ k \in Keys /\ k \notin overlapped'
  BY OverlapsGrow DEF Undisturbed, Keys
<1>2. /\ req'[c].pc \in {"add", "batch_add"} /\ Serves(c, k)'
  BY DEF Adding
\* The handler was at it already, or it has just looked the record up.
<1>3. req'[c] = req[c] \/ Passes(c)
  <2>1. ASSUME NEW d \in Clients, ClientKind(d), d # c PROVE req'[c] = req[c]
    BY <2>1, ClientTurns DEF Turn, OnlyClient
  <2>2. ASSUME ClientKind(c) PROVE Passes(c)
    BY <1>2, <2>2
    DEF ClientKind, Clears, Forgets, Enters, Notes, Opens, Makes, Drops,
        Unlists, Manages
  <2> QED
    BY <2>1, <2>2, StepsOnKeys DEF Rests, JobKind
<1>4. CASE Passes(c)
  BY <1>1, <1>4 DEF Passes
<1>5. CASE req'[c] = req[c]
  <2>1. Serves(c, k) /\ record[k] = None
    BY <1>1, <1>2, <1>5 DEF AddedRecords, Adding, Serves, Handles
  <2>2. /\ \A d \in Clients : Serves(d, k) => d = c
        /\ \A j \in Jobs : ~Feeds(j, k)
        /\ Busy(k[1], k[2])
    BY <1>1, <2>1, Workers DEF Exclusive
  <2>3. \A j \in Jobs : ~Enters(c, j, k)
    BY <1>2 DEF Enters
  <2> QED
    BY <1>1, <2>1, <2>2, <2>3, RecordStep, Workers DEF RecordSteps
<1> QED
  BY <1>3, <1>4, <1>5

LEMMA MissingRecordsStep ==
    ASSUME Typed, Shaped, BatchOwned, Unshared, Exclusive, JobRecords,
           MissingRecords, [Next]_vars
    PROVE  MissingRecords'
<1> SUFFICES ASSUME NEW k \in Undisturbed', record'[k] \notin Jobs \cup {None}
             PROVE  object'[record'[k]].status = "failed"
  BY DEF MissingRecords
<1>1. k \in Undisturbed /\ k \in Keys /\ k \notin overlapped'
  BY OverlapsGrow DEF Undisturbed, Keys
<1>2. \A j \in Jobs : Feeds(j, k) => record[k] = j
                                     /\ (job[j].pc = "save" => job[j].held = j)
  BY <1>1 DEF JobRecords
<1>3. ~\E j \in Jobs : Feeds(j, k) /\ Saves(j) /\ record'[k] = job[j].held
  BY <1>2 DEF Saves
<1> QED
  BY <1>1, <1>2, <1>3, RecordStep DEF RecordSteps, MissingRecords

-----------------------------------------------------------------------------
(***************************************************************************)
(* The collections.                                                        *)
(***************************************************************************)
Creating(c, s) == req[c].pc = "collection" /\ req[c].store = s

\* A store whose collection has not been made.
Fresh(s) == s \notin usedStores \/ \E c \in Clients : Creating(c, s)

CreationsOwned ==
    /\ \A c, d \in Clients, s \in Stores :
         Creating(c, s) /\ Creating(d, s) => c = d
    /\ \A c \in Clients, s \in Stores : Creating(c, s) => s \in usedStores

\* Nothing was completed in a store without a collection yet.
FreshEmpty(s) ==
    /\ ~collection[s].exists
    /\ \A j \in Jobs : job[j].pc \in ActiveStates /\ job[j].store = s
                         => job[j].want # "completed"
    /\ \A k \in Undisturbed : k[1] = s => ~Shows(k, "completed")

CollectionsMade ==
    /\ CreationsOwned
    /\ \A s \in Stores : ~collection[s].exists => collection[s].points = {}
    /\ \A s \in Stores : Fresh(s) => FreshEmpty(s)

Found(k) == PointsOf(k[1], k[2])

Indexed(k) ==
    collection[k[1]].exists =>
      /\ \E j \in Jobs : Found(k) = {<<k[2], j>>}
      /\ Qdrant => collection[k[1]].fits

\* The points of an undisturbed key follow its record.
PointsFollow(k) ==
    /\ record[k] = None => Found(k) = {}
    /\ \A c \in Clients : Removing(c, k) => Found(k) = {}
    /\ \A j \in Jobs : Feeds(j, k) /\ job[j].want = "processing" => Found(k) = {}
    /\ \A j \in Jobs : Feeds(j, k) /\ job[j].want = "completed" => Indexed(k)
    /\ Shows(k, "completed") => Indexed(k) \/ \E c \in Clients : Removing(c, k)

PointsKept == \A k \in Undisturbed : k[1] \in listed => PointsFollow(k)

IndexInv ==
    /\ Shaped /\ BatchOwned /\ Unshared /\ Exclusive
    /\ JobRecords /\ AddedRecords /\ MissingRecords
    /\ CollectionsMade /\ PointsKept

\* An undisturbed key shows completion once its goroutine has written it.
LEMMA CompletedBefore ==
    ASSUME Typed, Shaped, BatchOwned, Unshared, Exclusive, JobRecords,
           [Next]_vars, NEW k \in Undisturbed', Shows(k, "completed")'
    PROVE  \/ Shows(k, "completed") /\ \A c \in Clients : ~Forgets(c, k)
           \/ \E j \in Jobs : /\ Feeds(j, k) /\ Writes(j)
                              /\ job[j].want = "completed"
<1>1. k \in Undisturbed /\ k \in Keys /\ k \notin overlapped'
  BY OverlapsGrow DEF Undisturbed, Keys
<1>2. record'[k] # None /\ object'[record'[k]].status = "completed"
  BY DEF Shows
<1>3. \A j \in Jobs : Feeds(j, k) =>
        record[k] = j /\ (job[j].pc = "save" => job[j].held = j)
  BY <1>1 DEF JobRecords
<1>4. \A c \in Clients : ~Forgets(c, k)
  BY <1>1, <1>2, Records DEF Forgets
<1>5. CASE /\ record'[k] = record[k]
           /\ record[k] # None => object'[record[k]] = object[record[k]]
  BY <1>2, <1>4, <1>5 DEF Shows
<1>6. ASSUME NEW j \in Jobs, Feeds(j, k), Saves(j), record'[k] = job[j].held,
             object' = object
      PROVE  Shows(k, "completed")
  BY <1>2, <1>3, <1>6 DEF Shows, Saves
<1> QED
  BY <1>1, <1>2, <1>4, <1>5, <1>6, RecordStep DEF RecordSteps

\* What a store's backend calls leave of the points of a key.
SamePoints(k) ==
    /\ Found(k)' = Found(k)
    /\ collection'[k[1]].exists = collection[k[1]].exists
    /\ collection'[k[1]].fits = collection[k[1]].fits

LEMMA PointsUnchanged ==
    ASSUME UNCHANGED collection, NEW k
    PROVE  SamePoints(k)
BY DEF SamePoints, Found, PointsOf

LEMMA PointsAdded ==
    ASSUME Typed, NEW m \in Keys, NEW j \in Jobs, UpsertPoints(m[1], m[2], j),
           NEW k \in Keys
    PROVE  /\ k # m => SamePoints(k)
           /\ k = m => /\ Found(k)' = Found(k) \cup {<<k[2], j>>}
                       /\ collection'[k[1]].exists = collection[k[1]].exists
                       /\ collection'[k[1]].fits = collection[k[1]].fits
           /\ \A s \in Stores : collection'[s].exists = collection[s].exists
<1> DEFINE new == [collection[m[1]] EXCEPT
                     !.points = @ \cup {<<m[2], j>>}]
<1>1. /\ collection \in [Stores -> Collections]
      /\ m[1] \in Stores /\ k[1] \in Stores
      /\ m = <<m[1], m[2]>> /\ k = <<k[1], k[2]>>
  BY DEF Typed, TypeOK, VectorTypeOK, Keys
<1>2. /\ new.points = collection[m[1]].points \cup {<<m[2], j>>}
      /\ new.exists = collection[m[1]].exists
      /\ new.fits = collection[m[1]].fits
  BY <1>1 DEF Collections
<1>3. collection' = [collection EXCEPT ![m[1]] = new]
  BY DEF UpsertPoints
<1> HIDE DEF new
<1>4. collection'[m[1]] = new /\ \A s \in Stores \ {m[1]} :
                                   collection'[s] = collection[s]
  BY <1>1, <1>3
<1>5. ASSUME k # m PROVE SamePoints(k)
  BY <1>1, <1>2, <1>4, <1>5 DEF SamePoints, Found, PointsOf
<1>6. ASSUME k = m PROVE Found(k)' = Found(k) \cup {<<k[2], j>>}
  BY <1>1, <1>2, <1>4, <1>6 DEF Found, PointsOf
<1> QED
  BY <1>1, <1>2, <1>4, <1>5, <1>6

LEMMA PointsTaken ==
    ASSUME Typed, NEW m \in Keys, DeletePointsByFile(m[1], m[2]), NEW k \in Keys
    PROVE  /\ k # m => SamePoints(k)
           /\ k = m => Found(k)' = {}
           /\ \A s \in Stores :
                /\ collection'[s].exists = collection[s].exists
                /\ collection'[s].points \subseteq collection[s].points
<1> DEFINE new == [collection[m[1]] EXCEPT !.points = @ \ PointsOf(m[1], m[2])]
<1>1. /\ collection \in [Stores -> Collections]
      /\ m[1] \in Stores /\ k[1] \in Stores
      /\ m = <<m[1], m[2]>> /\ k = <<k[1], k[2]>>
  BY DEF Typed, TypeOK, VectorTypeOK, Keys
<1>2. /\ new.points = collection[m[1]].points \ PointsOf(m[1], m[2])
      /\ new.exists = collection[m[1]].exists
      /\ new.fits = collection[m[1]].fits
  BY <1>1 DEF Collections
<1>3. collection' = [collection EXCEPT ![m[1]] = new]
  BY DEF DeletePointsByFile
<1> HIDE DEF new
<1>4. collection'[m[1]] = new /\ \A s \in Stores \ {m[1]} :
                                   collection'[s] = collection[s]
  BY <1>1, <1>3
<1>5. ASSUME k # m PROVE SamePoints(k)
  BY <1>1, <1>2, <1>4, <1>5 DEF SamePoints, Found, PointsOf
<1>6. ASSUME k = m PROVE Found(k)' = {}
  BY <1>1, <1>2, <1>4, <1>6 DEF Found, PointsOf
<1> QED
  BY <1>1, <1>2, <1>4, <1>5, <1>6

LEMMA CollectionReplaced ==
    ASSUME Typed, NEW s \in Stores, CreateCollection(s) \/ DeleteCollection(s)
    PROVE  /\ collection'[s].points = {}
           /\ DeleteCollection(s) => ~collection'[s].exists
           /\ \A t \in Stores \ {s} : collection'[t] = collection[t]
           /\ \A k \in Keys : IF k[1] = s THEN Found(k)' = {} ELSE SamePoints(k)
<1>1. collection \in [Stores -> Collections]
  BY DEF Typed, TypeOK, VectorTypeOK
<1>2. /\ collection'[s].points = {}
      /\ DeleteCollection(s) => ~collection'[s].exists
      /\ \A t \in Stores \ {s} : collection'[t] = collection[t]
  BY <1>1 DEF CreateCollection, DeleteCollection, NoCollection
<1>3. ASSUME NEW k \in Keys
      PROVE  IF k[1] = s THEN Found(k)' = {} ELSE SamePoints(k)
  <2>1. k[1] \in Stores
    BY DEF Keys
  <2> QED
    BY <1>2, <2>1 DEF SamePoints, Found, PointsOf
<1> QED
  BY <1>2, <1>3

\* What a step does to the collection of a store.
CollectionSteps(s) ==
    \/ /\ collection'[s].exists = collection[s].exists
       /\ collection'[s].points \subseteq collection[s].points
    \/ collection'[s].points = {} /\ ~collection'[s].exists
    \/ collection'[s].points = {} /\ \E c \in Clients : Makes(c, s)
    \/ /\ collection[s].exists /\ collection'[s].exists

LEMMA CollectionStep ==
    ASSUME Typed, Shaped, BatchOwned, [Next]_vars, NEW s \in Stores
    PROVE  CollectionSteps(s)
<1> USE DEF CollectionSteps
<1>1. CASE UNCHANGED collection
  BY <1>1
<1>2. ASSUME NEW c \in Clients, NEW k \in Keys, Clears(c, k)
      PROVE  CollectionSteps(s)
  BY <1>1, <1>2, PointsTaken DEF Clears
<1>3. ASSUME NEW c \in Clients, NEW t \in Stores, Makes(c, t)
      PROVE  CollectionSteps(s)
  BY <1>1, <1>3, CollectionReplaced DEF Makes
<1>4. ASSUME NEW c \in Clients, NEW t \in Stores, Drops(c, t)
      PROVE  CollectionSteps(s)
  BY <1>1, <1>4, CollectionReplaced DEF Drops
<1>5. ASSUME NEW j \in Jobs, JobKind(j) PROVE CollectionSteps(s)
  <2>1. CASE Stored(j)
    <3>1. /\ job[j].store \in Stores /\ collection[job[j].store].exists
          /\ collection \in [Stores -> Collections]
          /\ collection' = [collection EXCEPT ![job[j].store].points =
                              @ \cup {<<job[j].file, j>>}]
      BY <2>1 DEF Stored, Upsertable, Lookup, UpsertPoints, Typed, TypeOK,
                  VectorTypeOK
    <3>2. CASE s = job[j].store
      <4>1. collection[s] \in Collections
        BY <3>1
      <4>2. collection'[s].exists = collection[s].exists
        BY <3>1, <3>2, <4>1 DEF Collections
      <4> QED
        BY <3>1, <3>2, <4>2
    <3>3. CASE s # job[j].store
      <4>1. collection'[s] = collection[s]
        BY <3>1, <3>3
      <4> QED
        BY <4>1
    <3> QED
      BY <3>2, <3>3
  <2>2. CASE UNCHANGED collection
    BY <1>1, <2>2
  <2> QED
    BY <1>5, <2>1, <2>2 DEF JobKind, Advances, Fails, Indexes
<1>6. ASSUME NEW c \in Clients, ClientKind(c) PROVE CollectionSteps(s)
  <2>1. CASE \/ Passes(c) \/ Unlists(c) \/ \E t \in Stores : Opens(c, t)
             \/ \E k \in Keys : Forgets(c, k)
             \/ \E k \in Keys, j \in Jobs : Enters(c, j, k)
             \/ \E k \in Keys, o \in Objects : Notes(c, o, k)
    BY <1>1, <2>1 DEF Passes, Unlists, Opens, Forgets, Enters, Notes
  <2> QED
    BY <1>2, <1>3, <1>4, <1>6, <2>1 DEF ClientKind
<1> QED
  BY <1>1, <1>5, <1>6, StepsOnKeys DEF Rests

\* Only the request that got the identifier makes the collection, once.
LEMMA CreationsStep ==
    ASSUME Typed, Shaped, BatchOwned, CreationsOwned, [Next]_vars
    PROVE  /\ CreationsOwned'
           /\ \A s \in Stores : Fresh(s)' =>
                Fresh(s) /\ \A c \in Clients : ~Makes(c, s)
<1>1. CASE UNCHANGED <<req, usedStores>>
  <2>1. \A c \in Clients, s \in Stores : ~Makes(c, s)
    BY <1>1 DEF Makes
  <2> QED
    BY <1>1, <2>1 DEF CreationsOwned, Creating, Fresh
<1>2. ASSUME NEW c \in Clients, OnlyClient(c), req'[c].pc # "collection",
             UNCHANGED usedStores
      PROVE  /\ CreationsOwned'
             /\ \A s \in Stores : Fresh(s)' =>
                  Fresh(s) /\ \A d \in Clients : ~Makes(d, s)
  <2>1. \A d \in Clients, s \in Stores :
          Creating(d, s)' => d # c /\ Creating(d, s)
    BY <1>2 DEF OnlyClient, Creating
  <2>2. CreationsOwned'
    BY <1>2, <2>1 DEF CreationsOwned, Creating
  <2>3. ASSUME NEW s \in Stores, Fresh(s)' PROVE Fresh(s)
    BY <1>2, <2>1, <2>3 DEF Fresh, Creating
  <2>4. ASSUME NEW s \in Stores, NEW d \in Clients, Makes(d, s)
        PROVE  ~Fresh(s)'
    <3>1. Creating(d, s) /\ ~Creating(d, s)'
      BY <2>4 DEF Makes, Creating
    <3>2. s \in usedStores'
      BY <1>2, <3>1 DEF CreationsOwned
    <3>3. \A e \in Clients : Creating(e, s)' => e = d
      BY <2>1, <3>1 DEF CreationsOwned
    <3>4. \A e \in Clients : ~Creating(e, s)'
      BY <3>1, <3>3
    <3> QED
      BY <3>2, <3>4 DEF Fresh, Creating
  <2> QED
    BY <2>2, <2>3, <2>4
<1>3. ASSUME NEW c \in Clients, NEW t \in Stores, Opens(c, t)
      PROVE  /\ CreationsOwned'
             /\ \A s \in Stores : Fresh(s)' =>
                  Fresh(s) /\ \A d \in Clients : ~Makes(d, s)
  <2>1. /\ t \notin usedStores /\ usedStores' = usedStores \cup {t}
        /\ req'[c].pc = "collection" /\ req'[c].store = t
        /\ OnlyClient(c)
    BY <1>3 DEF Opens, Manages, Turn
  <2>2. \A d \in Clients, s \in Stores :
          Creating(d, s)' => (d = c /\ s = t) \/ (d # c /\ Creating(d, s))
    BY <2>1 DEF OnlyClient, Creating
  <2>3. \A d \in Clients : ~Creating(d, t)
    BY <2>1 DEF CreationsOwned
  <2>4. CreationsOwned'
    BY <2>1, <2>2, <2>3 DEF CreationsOwned, Creating
  <2>5. ASSUME NEW s \in Stores, Fresh(s)' PROVE Fresh(s)
    BY <2>1, <2>2, <2>5 DEF Fresh, Creating
  <2>6. ASSUME NEW s \in Stores, NEW d \in Clients, Makes(d, s) PROVE FALSE
    BY <2>1, <2>6 DEF Makes
  <2> QED
    BY <2>4, <2>5, <2>6
<1>4. ASSUME NEW c \in Clients, ClientKind(c)
      PROVE  \/ \E t \in Stores : Opens(c, t)
             \/ /\ OnlyClient(c) /\ req'[c].pc # "collection"
                /\ UNCHANGED usedStores
  BY <1>4
  DEF ClientKind, Passes, Clears, Forgets, Enters, Notes, Makes, Drops,
      Unlists, Manages, Turn
<1> QED
  BY <1>1, <1>2, <1>3, <1>4, StepsOnKeys DEF Rests, JobKind

LEMMA CollectionsMadeStep ==
    ASSUME Typed, Shaped, BatchOwned, Unshared, Exclusive, JobRecords,
           CollectionsMade, [Next]_vars
    PROVE  CollectionsMade'
<1>1. /\ CreationsOwned'
      /\ \A s \in Stores : Fresh(s)' =>
           Fresh(s) /\ \A c \in Clients : ~Makes(c, s)
  BY CreationsStep DEF CollectionsMade
<1>2. ASSUME NEW s \in Stores, ~collection'[s].exists
      PROVE  collection'[s].points = {}
  BY <1>2, CollectionStep DEF CollectionSteps, CollectionsMade
<1>3. ASSUME NEW s \in Stores, Fresh(s)' PROVE FreshEmpty(s)'
  <2>1. Fresh(s) /\ FreshEmpty(s) /\ \A c \in Clients : ~Makes(c, s)
    BY <1>1, <1>3 DEF CollectionsMade
  <2>2. ~collection'[s].exists
    BY <2>1, CollectionStep DEF CollectionSteps, FreshEmpty
  <2>3. ASSUME NEW j \in Jobs, job'[j].pc \in ActiveStates, job'[j].store = s
        PROVE  job'[j].want # "completed"
    <3>2. CASE job[j].pc = "unused"
      <4>1. ASSUME NEW c \in Clients, NEW i \in Jobs, NEW m \in Keys,
                   Enters(c, i, m)
            PROVE  job'[j].want # "completed"
        <5>1. i = j
          BY <2>3, <3>2, <4>1 DEF Enters, OnlyJob, ActiveStates
        <5> QED
          BY <4>1, <5>1 DEF Enters
      <4>2. job' # job
        BY <2>3, <3>2 DEF ActiveStates
      <4>3. ASSUME NEW i \in Jobs, JobKind(i) PROVE FALSE
        <5>1. i # j
          BY <3>2, <4>3
          DEF JobKind, Advances, Fails, Indexes, Writes, SavesStatus, Saves,
              GivesUp, ActiveStates
        <5> QED
          BY <2>3, <3>2, <4>3, <5>1 DEF JobKind, OnlyJob, ActiveStates
      <4>4. ASSUME NEW c \in Clients, ClientKind(c)
            PROVE  \E i \in Jobs, m \in Keys : Enters(c, i, m)
        BY <4>2, <4>4
        DEF ClientKind, Passes, Clears, Forgets, Notes, Missing, Opens, Makes,
            Drops, Unlists, Manages
      <4> QED
        BY <4>1, <4>2, <4>3, <4>4, StepsOnKeys DEF Rests
    <3>3. CASE job[j].pc # "unused" /\ job'[j] = job[j]
      BY <2>1, <2>3, <3>3 DEF FreshEmpty
    <3>4. CASE JobKind(j)
      <4>1. job[j].pc \in ActiveStates
        BY <3>4
        DEF JobKind, Advances, Fails, Indexes, Writes, SavesStatus, Saves,
            GivesUp, ActiveStates
      <4>2. SameKey(j)
        BY <2>3, <3>4
        DEF JobKind, Advances, Fails, Indexes, Writes, SavesStatus, Saves,
            GivesUp, ActiveStates
      <4>3. job[j].store = s /\ job[j].want # "completed"
        BY <2>1, <2>3, <4>1, <4>2 DEF SameKey, FreshEmpty
      <4>4. ~Indexes(j)
        BY <2>1, <4>3 DEF Indexes, Stored, Upsertable, FreshEmpty
      <4>5. \/ job'[j].want = job[j].want \/ job'[j].want = "failed"
            \/ job'[j].want = "processing"
        BY <2>3, <3>4, <4>4
        DEF JobKind, Advances, Fails, Writes, SavesStatus, Saves, GivesUp,
            ActiveStates
      <4> QED
        BY <4>3, <4>5
    <3> QED
      BY <3>2, <3>3, <3>4, JobMoves
  <2>4. ASSUME NEW k \in Undisturbed', k[1] = s, Shows(k, "completed")'
        PROVE  FALSE
    <3>1. k \in Undisturbed
      BY OverlapsGrow
    <3>2. ASSUME NEW j \in Jobs, Feeds(j, k), job[j].want = "completed"
          PROVE  FALSE
      BY <2>1, <2>4, <3>2 DEF FreshEmpty, Feeds, WorksOn
    <3> QED
      BY <2>1, <2>4, <3>1, <3>2, CompletedBefore DEF FreshEmpty
  <2> QED
    BY <2>2, <2>3, <2>4 DEF FreshEmpty
<1> QED
  BY <1>1, <1>2, <1>3 DEF CollectionsMade

LEMMA PointsKeptStep ==
    ASSUME Typed, IndexInv, [Next]_vars
    PROVE  PointsKept'
<1> SUFFICES ASSUME NEW k \in Undisturbed', k[1] \in listed'
             PROVE  PointsFollow(k)'
  BY DEF PointsKept
<1>i. /\ Shaped /\ BatchOwned /\ Unshared /\ Exclusive
      /\ JobRecords /\ AddedRecords /\ CollectionsMade /\ PointsKept
  BY DEF IndexInv
<1>k. /\ k \in Undisturbed /\ k \in Keys /\ k \notin overlapped'
      /\ k[1] \in Stores /\ k = <<k[1], k[2]>>
  BY <1>i, OverlapsGrow DEF Undisturbed, Keys
<1>l. k[1] \in listed => PointsFollow(k)
  BY <1>i, <1>k DEF PointsKept
<1>c. Shows(k, "completed")' =>
        \/ Shows(k, "completed") /\ \A c \in Clients : ~Forgets(c, k)
        \/ \E j \in Jobs : Feeds(j, k) /\ Writes(j) /\ job[j].want = "completed"
  BY <1>i, CompletedBefore
<1>x. /\ \A c \in Clients, j \in Jobs : ~(Serves(c, k) /\ Feeds(j, k))
      /\ \A i, j \in Jobs : Feeds(i, k) /\ Feeds(j, k) => i = j
  BY <1>i, <1>k DEF Exclusive
\* The points stay as they are.
<1>1. ASSUME SamePoints(k), k[1] \in listed,
             record'[k] = None => record[k] = None \/ Found(k) = {},
             \A j \in Jobs : Feeds(j, k)' /\ job'[j].want = "processing" =>
               (Feeds(j, k) /\ job[j].want = "processing") \/ Found(k) = {},
             \A j \in Jobs : Feeds(j, k)' /\ job'[j].want = "completed" =>
               Feeds(j, k) /\ job[j].want = "completed",
             \A c \in Clients : Removing(c, k)' => Removing(c, k),
             \A c \in Clients : Removing(c, k) =>
               Removing(c, k)' \/ Forgets(c, k)
      PROVE  PointsFollow(k)'
  <2>1. PointsFollow(k)
    BY <1>1, <1>l
  <2>2. /\ Found(k)' = Found(k)
        /\ Indexed(k) => Indexed(k)'
    BY <1>1 DEF SamePoints, Indexed
  <2>3. record'[k] = None => Found(k)' = {}
    BY <1>1, <2>1, <2>2 DEF PointsFollow
  <2>4. \A c \in Clients : Removing(c, k)' => Found(k)' = {}
    BY <1>1, <2>1, <2>2 DEF PointsFollow
  <2>5. \A j \in Jobs : Feeds(j, k)' /\ job'[j].want = "processing"
                          => Found(k)' = {}
    BY <1>1, <2>1, <2>2 DEF PointsFollow
  <2>6. \A j \in Jobs : Feeds(j, k)' /\ job'[j].want = "completed"
                          => Indexed(k)'
    BY <1>1, <2>1, <2>2 DEF PointsFollow
  <2>7. Shows(k, "completed")' =>
          Indexed(k)' \/ \E c \in Clients : Removing(c, k)'
    BY <1>1, <1>c, <2>1, <2>2 DEF PointsFollow
  <2> QED
    BY <2>3, <2>4, <2>5, <2>6, <2>7 DEF PointsFollow
\* There are none.
<1>2. ASSUME Found(k)' = {},
             \A j \in Jobs : Feeds(j, k)' /\ job'[j].want = "completed" =>
               Indexed(k)',
             Shows(k, "completed")' =>
               Indexed(k)' \/ \E c \in Clients : Removing(c, k)'
      PROVE  PointsFollow(k)'
  BY <1>2 DEF PointsFollow
<1>3. ASSUME UNCHANGED job
      PROVE  \A j \in Jobs : /\ Feeds(j, k)' => Feeds(j, k)
                             /\ job'[j].want = job[j].want
  BY <1>3 DEF Feeds, WorksOn
\* A handler moves, and only it may remove the record.
<1>4. ASSUME NEW c \in Clients, OnlyClient(c), NEW d \in Clients \ {c}
      PROVE  Removing(d, k)' <=> Removing(d, k)
  BY <1>4 DEF OnlyClient, Removing
<1>5. ASSUME NEW c \in Clients, OnlyClient(c), req[c].pc # "record",
             req'[c].pc # "record"
      PROVE  \A d \in Clients : Removing(d, k)' <=> Removing(d, k)
  BY <1>4, <1>5 DEF Removing
<1>6. ASSUME NEW c \in Clients, OnlyClient(c), req[c].pc # "record",
             req'[c].pc # "record", UNCHANGED job, SamePoints(k),
             k[1] \in listed, record'[k] = None => record[k] = None
      PROVE  PointsFollow(k)'
  BY <1>1, <1>3, <1>5, <1>6
<1>7. ASSUME NEW c \in Clients, Passes(c) \/ Unlists(c) PROVE PointsFollow(k)'
  <2>1. /\ OnlyClient(c) /\ req[c].pc # "record" /\ req'[c].pc # "record"
        /\ UNCHANGED <<job, record, collection>> /\ k[1] \in listed
    BY <1>7 DEF Passes, Unlists, Manages, Turn
  <2> QED
    BY <1>6, <2>1, PointsUnchanged
<1>8. ASSUME NEW c \in Clients, NEW m \in Keys, Clears(c, m)
      PROVE  PointsFollow(k)'
  <2>1. /\ OnlyClient(c) /\ req[c].pc = "points" /\ req'[c].pc = "record"
        /\ req'[c].store = m[1] /\ req'[c].file = m[2]
        /\ Serves(c, m)
        /\ UNCHANGED <<job, record, object, listed>> /\ k[1] \in listed
        /\ \/ DeletePointsByFile(m[1], m[2])
           \/ UNCHANGED collection /\ (m[1] \in listed => m \in overlapped')
    BY <1>8 DEF Clears, Turn
  <2>2. CASE m = k
    <3>1. DeletePointsByFile(m[1], m[2])
      BY <1>k, <2>1, <2>2
    <3>2. Found(k)' = {}
      BY <1>k, <2>2, <3>1, PointsTaken
    <3>3. Removing(c, k)'
      BY <2>1, <2>2 DEF Removing
    <3>4. \A j \in Jobs : ~Feeds(j, k)'
      BY <1>3, <1>x, <2>1, <2>2
    <3> QED
      BY <1>2, <3>2, <3>3, <3>4
  <2>3. CASE m # k
    <3>1. SamePoints(k)
      BY <1>k, <2>1, <2>3, PointsTaken, PointsUnchanged
    <3>2. ~Removing(c, k)' /\ ~Removing(c, k)
      BY <1>k, <2>1, <2>3 DEF Removing, Keys
    <3>3. \A d \in Clients : Removing(d, k)' <=> Removing(d, k)
      BY <1>4, <2>1, <3>2
    <3> QED
      BY <1>1, <1>3, <2>1, <3>1, <3>3
  <2> QED
    BY <2>2, <2>3
<1>9. ASSUME NEW c \in Clients, NEW m \in Keys, Forgets(c, m)
      PROVE  PointsFollow(k)'
  <2>1. /\ OnlyClient(c) /\ Removing(c, m) /\ req'[c].pc = "points"
        /\ record' = [record EXCEPT ![m] = None]
        /\ UNCHANGED <<job, collection, listed>> /\ k[1] \in listed
    BY <1>9 DEF Forgets, Turn
  <2>2. SamePoints(k)
    BY <2>1, PointsUnchanged
  <2>3. record'[k] = None => record[k] = None \/ Found(k) = {}
    <3>1. CASE m = k
      BY <1>l, <2>1, <3>1 DEF PointsFollow
    <3>2. CASE m # k
      BY <1>k, <2>1, <3>2, Records
    <3> QED
      BY <3>1, <3>2
  <2>4. ~Removing(c, k)'
    BY <2>1 DEF Removing
  <2>5. Removing(c, k) => Forgets(c, k)
    <3>1. m = <<m[1], m[2]>>
      BY DEF Keys
    <3>2. Removing(c, k) => k = m
      BY <1>k, <2>1, <3>1 DEF Removing
    <3> QED
      BY <1>9, <3>2
  <2> QED
    BY <1>1, <1>3, <1>4, <2>1, <2>2, <2>3, <2>4, <2>5
<1>10. ASSUME NEW c \in Clients, NEW j \in Jobs, NEW m \in Keys,
              Enters(c, j, m)
       PROVE  PointsFollow(k)'
  <2>1. /\ OnlyClient(c) /\ Adding(c, m)
        /\ req[c].pc \in {"add", "batch_add"} /\ req'[c].pc \in {"idle", "batch"}
        /\ record' = [record EXCEPT ![m] = j] /\ j # None
        /\ OnlyJob(j) /\ job[j].pc = "unused" /\ job'[j].want = "processing"
        /\ job'[j].store = m[1] /\ job'[j].file = m[2]
        /\ UNCHANGED <<collection, listed>> /\ k[1] \in listed
    BY <1>10, FilesAssumption DEF Enters, Turn, Adding
  <2>2. SamePoints(k)
    BY <2>1, PointsUnchanged
  <2>3. record'[k] = None => record[k] = None
    BY <1>k, <2>1, Records
  <2>4. \A d \in Clients : Removing(d, k)' <=> Removing(d, k)
    BY <1>5, <2>1
  <2>5. \A i \in Jobs \ {j} : /\ Feeds(i, k)' => Feeds(i, k)
                              /\ job'[i].want = job[i].want
    BY <2>1 DEF OnlyJob, Feeds, WorksOn
  <2>6. Feeds(j, k)' => Found(k) = {}
    <3>0. m = <<m[1], m[2]>>
      BY DEF Keys
    <3>1. Feeds(j, k)' => m = k
      BY <1>k, <2>1, <3>0 DEF Feeds, WorksOn
    <3>2. m = k => record[k] = None
      BY <1>i, <1>k, <2>1 DEF AddedRecords
    <3> QED
      BY <1>l, <2>1, <3>1, <3>2 DEF PointsFollow
  <2> QED
    BY <1>1, <2>1, <2>2, <2>3, <2>4, <2>5, <2>6
<1>11. ASSUME NEW c \in Clients, NEW o \in Objects, NEW m \in Keys,
              Notes(c, o, m)
       PROVE  PointsFollow(k)'
  <2>1. /\ OnlyClient(c) /\ req[c].pc # "record" /\ req'[c].pc # "record"
        /\ UNCHANGED <<job, collection, listed>> /\ k[1] \in listed
        /\ record' = [record EXCEPT ![m] = o]
    BY <1>11 DEF Notes, Turn, Missing
  <2>2. record'[k] = None => record[k] = None
    BY <1>k, <2>1, Records
  <2> QED
    BY <1>6, <2>1, <2>2, PointsUnchanged
\* The store had no collection: nothing of it was completed.
<1>12. ASSUME Fresh(k[1]), Found(k)' = {}, UNCHANGED job PROVE PointsFollow(k)'
  <2>1. FreshEmpty(k[1])
    BY <1>12, <1>i, <1>k DEF CollectionsMade
  <2>2. \A j \in Jobs : ~(Feeds(j, k) /\ job[j].want = "completed")
    BY <2>1 DEF FreshEmpty, Feeds, WorksOn
  <2>3. ~Shows(k, "completed")
    BY <1>k, <2>1 DEF FreshEmpty
  <2> QED
    BY <1>2, <1>3, <1>12, <1>c, <2>2, <2>3
<1>13. ASSUME NEW c \in Clients, NEW s \in Stores, Opens(c, s)
       PROVE  PointsFollow(k)'
  <2>1. /\ OnlyClient(c) /\ req[c].pc # "record" /\ req'[c].pc # "record"
        /\ UNCHANGED <<job, record, collection>>
        /\ s \notin usedStores /\ listed' = listed \cup {s}
    BY <1>13 DEF Opens, Manages, Turn
  <2>2. CASE k[1] = s
    <3>1. Fresh(s)
      BY <2>1 DEF Fresh
    <3>2. collection[s].points = {}
      BY <1>i, <3>1 DEF CollectionsMade, FreshEmpty
    <3>3. Found(k)' = {}
      BY <2>1, <2>2, <3>2 DEF Found, PointsOf
    <3> QED
      BY <1>12, <2>1, <2>2, <3>1, <3>3
  <2>3. CASE k[1] # s
    BY <1>6, <2>1, <2>3, PointsUnchanged
  <2> QED
    BY <2>2, <2>3
<1>14. ASSUME NEW c \in Clients, NEW s \in Stores, Makes(c, s) \/ Drops(c, s)
       PROVE  PointsFollow(k)'
  <2>1. /\ OnlyClient(c) /\ req[c].pc # "record" /\ req'[c].pc # "record"
        /\ UNCHANGED <<job, record, object, listed>> /\ k[1] \in listed
    BY <1>14 DEF Makes, Drops, Manages, Turn
  <2>2. CASE UNCHANGED collection
    BY <1>6, <2>1, <2>2, PointsUnchanged
  <2>3. CASE (CreateCollection(s) \/ DeleteCollection(s)) /\ k[1] # s
    <3>1. SamePoints(k)
      BY <1>k, <2>3, CollectionReplaced
    <3> QED
      BY <1>6, <2>1, <3>1
  <2>4. CASE Makes(c, s) /\ CreateCollection(s) /\ k[1] = s
    <3>1. Fresh(s)
      BY <2>4 DEF Makes, Fresh, Creating
    <3>2. Found(k)' = {}
      BY <1>k, <2>4, CollectionReplaced
    <3> QED
      BY <1>12, <2>1, <2>4, <3>1, <3>2
  <2>5. CASE DeleteCollection(s) /\ k[1] = s
    <3>1. Found(k)' = {} /\ ~collection'[k[1]].exists
      BY <1>k, <2>5, CollectionReplaced
    <3>2. Indexed(k)'
      BY <3>1 DEF Indexed
    <3> QED
      BY <1>2, <3>1, <3>2
  <2> QED
    BY <1>14, <2>2, <2>3, <2>4, <2>5 DEF Makes, Drops
<1>15. ASSUME NEW c \in Clients, ClientKind(c) PROVE PointsFollow(k)'
  BY <1>7, <1>8, <1>9, <1>10, <1>11, <1>13, <1>14, <1>15 DEF ClientKind
<1>16. ASSUME NEW j \in Jobs, JobKind(j) PROVE PointsFollow(k)'
  <2>1. /\ OnlyJob(j) /\ k[1] \in listed
        /\ job[j].pc \in ActiveStates /\ Key(j) \in Keys
        /\ Feeds(j, k) <=> Key(j) = k
    <3>1. job[j].pc \in ActiveStates
      BY <1>16
      DEF JobKind, Advances, Fails, Indexes, Writes, SavesStatus, Saves,
          GivesUp, ActiveStates
    <3> QED
      BY <1>16, <1>k, <3>1, Records DEF JobKind
  <2>2. \A c \in Clients : Removing(c, k)' <=> Removing(c, k)
    BY <1>16 DEF JobKind, Removing
  <2>3. \A i \in Jobs \ {j} : /\ Feeds(i, k)' => Feeds(i, k)
                              /\ job'[i].want = job[i].want
    BY <2>1 DEF OnlyJob, Feeds, WorksOn
  <2>4. Feeds(j, k)' => Feeds(j, k)
    <3>1. \A c \in Clients : ~Enters(c, j, k)
      BY <2>1 DEF Enters, ActiveStates
    <3> QED
      BY <1>i, <1>k, <3>1, FeedsBefore
  <2>5. CASE Key(j) # k
    <3>1. SamePoints(k)
      <4>1. CASE Stored(j)
        <5>1. UpsertPoints(Key(j)[1], Key(j)[2], j)
          BY <4>1 DEF Stored, Key
        <5>2. PICK m \in Keys : m = Key(j)
          BY <2>1
        <5> QED
          BY <1>k, <2>5, <5>1, <5>2, PointsAdded
      <4>2. CASE UNCHANGED collection
        BY <4>2, PointsUnchanged
      <4> QED
        BY <1>16, <4>1, <4>2 DEF JobKind, Advances, Fails, Indexes
    <3>2. record'[k] = record[k]
      BY <1>16, <1>k, <2>1, <2>5, Records
      DEF JobKind, Advances, Fails, Indexes, Writes, SavesStatus, Saves,
          GivesUp
    <3> QED
      BY <1>1, <2>1, <2>2, <2>3, <2>4, <2>5, <3>1, <3>2
  <2>6. CASE Key(j) = k
    <3>1. /\ Feeds(j, k) /\ record[k] = j /\ j # None
          /\ job[j].pc = "save" => job[j].held = j
          /\ job[j].pc # "save" => object[j].status = "processing"
          /\ \A c \in Clients : ~Removing(c, k)
          /\ \A i \in Jobs : Feeds(i, k)' => i = j
      BY <1>i, <1>k, <1>x, <2>1, <2>3, <2>6, Workers, FilesAssumption
      DEF JobRecords
    <3>2. ASSUME job[j].pc # "save", ~Writes(j)
          PROVE  ~Shows(k, "completed")'
      <4>1. ~Shows(k, "completed")
        BY <3>1, <3>2 DEF Shows
      <4> QED
        BY <1>c, <1>x, <3>1, <3>2, <4>1
    <3>3. CASE Advances(j)
      BY <1>1, <2>1, <2>2, <2>3, <2>4, <3>1, <3>3, PointsUnchanged
      DEF Advances
    <3>4. CASE (Writes(j) \/ SavesStatus(j) \/ GivesUp(j)) /\ UNCHANGED collection
      <4>1. record'[k] = j
        BY <1>k, <2>6, <3>1, <3>4, Records
        DEF Writes, SavesStatus, Saves, GivesUp
      <4>2. Feeds(j, k)' => job'[j].want = job[j].want
        BY <3>4
        DEF Writes, SavesStatus, Saves, GivesUp, Feeds, WorksOn, ActiveStates
      <4> QED
        BY <1>1, <2>1, <2>2, <2>3, <2>4, <3>1, <3>4, <4>1, <4>2,
           PointsUnchanged
    <3>5. CASE Fails(j)
      <4>1. /\ record'[k] = j /\ job[j].pc # "save"
            /\ job'[j].pc = "update" /\ job'[j].want = "failed"
        BY <3>1, <3>5 DEF Fails
      <4>2. ~Shows(k, "completed")'
        BY <3>2, <4>1 DEF Writes
      <4> QED
        BY <2>2, <3>1, <4>1, <4>2 DEF PointsFollow
    <3>6. CASE Indexes(j)
      <4>1. /\ record'[k] = j /\ job[j].pc = "index"
            /\ job'[j].pc = "update" /\ job'[j].want = "completed"
            /\ UpsertPoints(k[1], k[2], j) /\ Upsertable(k[1])
        BY <1>k, <2>6, <3>1, <3>6 DEF Indexes, Stored, Key
      <4>2. ~Shows(k, "completed")'
        BY <3>2, <4>1 DEF Writes
      <4>3. Found(k) = {}
        BY <1>i, <1>l, <2>1, <3>1, <4>1
        DEF PointsFollow, Shaped, ShapedJob
      <4>4. /\ Found(k)' = {<<k[2], j>>}
            /\ collection'[k[1]].fits = collection[k[1]].fits
        BY <1>k, <4>1, <4>3, PointsAdded
      <4>5. Indexed(k)'
        BY <4>1, <4>4 DEF Indexed, Upsertable
      <4> QED
        BY <2>2, <3>1, <4>1, <4>2, <4>5 DEF PointsFollow
    <3> QED
      BY <1>16, <3>3, <3>4, <3>5, <3>6 DEF JobKind
  <2> QED
    BY <2>5, <2>6
<1>17. CASE Rests
  <2>1. SamePoints(k) /\ k[1] \in listed /\ UNCHANGED <<record, job, req>>
    BY <1>17, PointsUnchanged DEF Rests
  <2>2. \A c \in Clients : Removing(c, k)' <=> Removing(c, k)
    BY <2>1 DEF Removing
  <2> QED
    BY <1>1, <1>3, <2>1, <2>2
<1> QED
  BY <1>i, <1>15, <1>16, <1>17, StepsOnKeys

-----------------------------------------------------------------------------
(***************************************************************************)
(* What is found agrees with the records.                                  *)
(***************************************************************************)
LEMMA IndexInvStep ==
    ASSUME Typed, IndexInv, [Next]_vars
    PROVE  IndexInv'
BY ShapedStep, BatchOwnedStep, UnsharedStep, ExclusiveStep, JobRecordsStep,
   AddedRecordsStep, MissingRecordsStep, CollectionsMadeStep, PointsKeptStep
DEF IndexInv

LEMMA IndexInvInitially ==
    ASSUME Init
    PROVE  IndexInv
<1>1. None \notin Objects
  BY FilesAssumption DEF Objects
<1>2. \A k \in Keys : record[k] = None
  BY DEF Init
<1>3. \A o \in Objects, k \in Keys : ~Refers(o, k)
  BY <1>1, <1>2 DEF Init, Refers, UnusedJob
<1>4. /\ \A c \in Clients : req[c].pc = "idle" /\ req[c].batch = None
      /\ \A j \in Jobs : job[j].pc = "unused"
  BY DEF Init, Idle, UnusedJob
<1>5. /\ \A c \in Clients, k \in Keys :
           ~Serves(c, k) /\ ~Adding(c, k) /\ ~Removing(c, k)
      /\ \A c \in Clients, s \in Stores : ~Creating(c, s)
      /\ \A j \in Jobs, k \in Keys : ~Feeds(j, k)
  BY <1>4 DEF Serves, Handles, Adding, Removing, Creating, Feeds, WorksOn,
              ActiveStates
<1>6. \A s \in Stores : ~collection[s].exists /\ collection[s].points = {}
  BY DEF Init, VectorInit, NoCollection
<1>7. Shaped /\ BatchOwned /\ Unshared
  BY <1>3, <1>4 DEF Shaped, ShapedRequest, ShapedJob, BatchOwned, Unshared
<1>8. Exclusive /\ JobRecords /\ AddedRecords /\ MissingRecords
  BY <1>2, <1>5
  DEF Exclusive, JobRecords, AddedRecords, MissingRecords, Undisturbed
<1>9. CollectionsMade
  <2>1. ASSUME NEW s \in Stores PROVE FreshEmpty(s)
    BY <1>2, <1>4, <1>6 DEF FreshEmpty, Undisturbed, Shows, ActiveStates
  <2> QED
    BY <1>5, <1>6, <2>1 DEF CollectionsMade, CreationsOwned
<1>10. PointsKept
  <2>1. listed = {}
    BY DEF Init, VectorInit
  <2> QED
    BY <2>1 DEF PointsKept
<1> QED
  BY <1>7, <1>8, <1>9, <1>10 DEF IndexInv

LEMMA IndexInvAlways == Spec => []IndexInv
BY IndexInvInitially, IndexInvStep, TypedAlways, PTL DEF Spec

(***************************************************************************)
(* handleDeleteFile, handleRemoveFile, ingest: file_search finds nothing   *)
(* of a file without a record, and a completed file once, wherever no two  *)
(* operations worked on the file and the store at the same time and no     *)
(* call was lost - however often the file was added, removed or failed     *)
(* before, whatever other files and stores went through, and for either    *)
(* backend.                                                                *)
(***************************************************************************)
THEOREM IndexAlwaysAgrees == Spec => []IndexAgrees
<1>1. Typed /\ IndexInv => IndexAgrees
  <2> SUFFICES ASSUME Typed, IndexInv, NEW s \in Stores, NEW f \in Files,
                      collection[s].exists, s \in listed,
                      <<s, f>> \notin overlapped, ~Busy(s, f),
                      NEW found, found = {p \in SearchMatches({s}) : p[1] = f}
               PROVE  /\ record[<<s, f>>] = None => found = {}
                      /\ Shows(<<s, f>>, "completed") => Cardinality(found) = 1
    BY DEF IndexAgrees
  <2> DEFINE k == <<s, f>>
  <2>1. k \in Keys /\ k \in Undisturbed /\ k[1] = s /\ k[2] = f
    BY DEF Undisturbed, Keys
  <2> HIDE DEF k
  <2>2. PointsFollow(k)
    BY <2>1 DEF IndexInv, PointsKept
  <2>3. \A c \in Clients : ~Removing(c, k)
    BY <2>1, Workers
  <2>4. /\ found \subseteq Found(k)
        /\ Upsertable(s) => found = Found(k)
    BY <2>1 DEF SearchMatches, Lookup, Found, PointsOf
  <2>5. ASSUME record[k] = None PROVE found = {}
    BY <2>2, <2>4, <2>5 DEF PointsFollow
  <2>6. ASSUME Shows(k, "completed") PROVE Cardinality(found) = 1
    <3>1. Indexed(k)
      BY <2>2, <2>3, <2>6 DEF PointsFollow
    <3>2. PICK j \in Jobs : Found(k) = {<<k[2], j>>}
      BY <2>1, <3>1 DEF Indexed
    <3>3. Upsertable(s)
      BY <2>1, <3>1 DEF Indexed, Upsertable
    <3>4. found = {<<k[2], j>>}
      BY <2>4, <3>2, <3>3
    <3> QED
      BY <3>4, FS_Singleton
  <2> QED
    BY <2>5, <2>6 DEF k
<1> QED
  BY <1>1, TypedAlways, IndexInvAlways, PTL

-----------------------------------------------------------------------------
(***************************************************************************)
(* Batches report completion honestly.                                     *)
(***************************************************************************)
BatchQueued ==
    \A j \in Jobs : object[j].batch # None =>
      \/ batch[object[j].batch] # None
      \/ \E c \in Clients : req[c].batch = object[j].batch /\ req[c].queued

\* A request that has queued a file keeps it in mind until the batch is saved.
LEMMA QueuedKept ==
    ASSUME Typed, BatchOwned, [Next]_vars, NEW c \in Clients,
           req[c].batch # None, req[c].queued, req'[c].batch = req[c].batch
    PROVE  req'[c].queued
<1>0. /\ req[c] \in Request /\ req \in [Clients -> Request]
      /\ req[c].pc \in {"batch", "batch_add"}
  BY DEF Typed, TypeOK, BatchOwned
<1>1. CASE req'[c] = req[c]
  BY <1>1
<1>2. ASSUME NEW r, Goto(c, r), r.queued PROVE req'[c].queued
  BY <1>0, <1>2 DEF Goto
<1>3. CASE BatchNextFile(c)
  <2>1. PICK f \in req[c].files :
          \/ Goto(c, [req[c] EXCEPT !.files = @ \ {f}])
          \/ Goto(c, [[req[c] EXCEPT !.files = @ \ {f}]
                        EXCEPT !.pc = "batch_add", !.file = f])
    BY <1>3 DEF BatchNextFile
  <2> DEFINE rest == [req[c] EXCEPT !.files = @ \ {f}]
             next == [rest EXCEPT !.pc = "batch_add", !.file = f]
  <2>2. rest.queued /\ rest \in Request
    BY <1>0 DEF Request
  <2>3. next.queued
    BY <2>2 DEF Request
  <2>4. Goto(c, rest) \/ Goto(c, next)
    BY <2>1
  <2> HIDE DEF rest, next
  <2> QED
    BY <1>2, <2>2, <2>3, <2>4
<1>4. CASE BatchSaveRecord(c)
  <2> DEFINE r == [req[c] EXCEPT !.pc = "batch", !.file = None, !.queued = TRUE]
  <2>1. Goto(c, r) /\ r.queued
    BY <1>0, <1>4 DEF BatchSaveRecord, Request
  <2> HIDE DEF r
  <2> QED
    BY <1>2, <2>1
<1>5. CASE BatchSave(c)
  BY <1>0, <1>5 DEF BatchSave, Finish, Goto, Idle
<1>6. ASSUME NEW d \in Clients, d # c, \E r : Goto(d, r)
      PROVE  req'[c] = req[c]
  BY <1>0, <1>6 DEF Goto
<1>7. ASSUME NEW d \in Clients, Arrival(d) \/ Handler(d)
      PROVE  \E r : Goto(d, r)
  <2>1. CASE Arrival(d)
    BY <2>1
    DEF Arrival, Upload, DeleteFile, RemoveFile, AddFile, CreateBatch,
        CreateStore, DeleteStore, Finish
  <2>2. CASE Handler(d)
    BY <2>2
    DEF Handler, SaveMetadata, ListStores, DeletePoints, DeleteRecord,
        StoresDone, DeleteContent, DeleteMetadata, SaveRecord, BatchNextFile,
        BatchSaveRecord, BatchSave, CreateStoreCollection, UndoStore,
        DropCollection, UnlistStore, Finish
  <2> QED
    BY <1>7, <2>1, <2>2
<1>8. CASE Arrival(c) \/ Handler(c)
  BY <1>0, <1>3, <1>4, <1>5, <1>8
  DEF Arrival, Upload, DeleteFile, RemoveFile, AddFile, CreateBatch,
      CreateStore, DeleteStore, Handler, SaveMetadata, ListStores,
      DeletePoints, DeleteRecord, StoresDone, DeleteContent, DeleteMetadata,
      SaveRecord, CreateStoreCollection, UndoStore, DropCollection, UnlistStore
<1>9. CASE UNCHANGED req
  BY <1>1, <1>9
<1>10. ASSUME \/ \E b \in Batches : GetBatch(b)
              \/ \E j \in Jobs : Ingestion(j)
              \/ UNCHANGED vars
       PROVE  UNCHANGED req
  BY <1>10
  DEF GetBatch, Ingestion, Local, Call, Acquire, UpdateStatus, SaveStatus,
      Retrieve, Embed,
      Index, vars
<1> QED
  BY <1>1, <1>6, <1>7, <1>8, <1>9, <1>10 DEF Next

\* A batch is written by the request that made it and by those that poll it.
LEMMA BatchChanges ==
    ASSUME Typed, [Next]_vars, NEW b \in Batches
    PROVE  \/ batch'[b] = batch[b]
           \/ GetBatch(b)
           \/ \E c \in Clients : BatchSave(c) /\ req[c].batch = b
<1>0. batch \in [Batches -> [store : Stores,
                             status : {"in_progress", "completed"}] \cup {None}]
  BY DEF Typed, TypeOK
<1>1. ASSUME NEW a \in Batches, GetBatch(a), a # b PROVE batch'[b] = batch[b]
  BY <1>0, <1>1 DEF GetBatch
<1>2. ASSUME NEW c \in Clients, BatchSave(c), req[c].batch # b
      PROVE  batch'[b] = batch[b]
  BY <1>0, <1>2 DEF BatchSave
<1>3. ASSUME NEW c \in Clients, Arrival(c) \/ Handler(c), ~BatchSave(c)
      PROVE  batch' = batch
  BY <1>3
  DEF Arrival, Upload, DeleteFile, RemoveFile, AddFile, CreateBatch,
      CreateStore, DeleteStore, Handler, SaveMetadata, ListStores,
      DeletePoints, DeleteRecord, StoresDone, DeleteContent, DeleteMetadata,
      SaveRecord, BatchNextFile, BatchSaveRecord, CreateStoreCollection,
      UndoStore, DropCollection, UnlistStore
<1>4. ASSUME UNCHANGED vars \/ \E j \in Jobs : Ingestion(j)
      PROVE  batch' = batch
  BY <1>4
  DEF Ingestion, Local, Call, Acquire, UpdateStatus, SaveStatus, Retrieve, Embed, Index,
      vars
<1> QED
  BY <1>1, <1>2, <1>3, <1>4 DEF Next

\* The record of a goroutine carries the batch it was started with.
LEMMA JobBatches ==
    ASSUME Typed, Shaped, BatchOwned, [Next]_vars, NEW j \in Jobs
    PROVE  \/ object'[j].batch = object[j].batch
           \/ \E c \in Clients, k \in Keys :
                /\ Enters(c, j, k)
                /\ object'[j].batch # None =>
                     object'[j].batch = req'[c].batch /\ req'[c].queued
<1>1. object \in [Objects -> Record] /\ j \in Objects
  BY Records
<1>2. CASE object' = object
  BY <1>2
<1>3. ASSUME NEW c \in Clients, NEW i \in Jobs, NEW k \in Keys, Enters(c, i, k)
      PROVE  \/ object'[j].batch = object[j].batch
             \/ /\ i = j
                /\ object'[j].batch # None =>
                     object'[j].batch = req'[c].batch /\ req'[c].queued
  <2>1. PICK b : /\ object' = [object EXCEPT ![i] = NewRecord(b)]
                 /\ b # None => b = req'[c].batch /\ req'[c].queued
    BY <1>3 DEF Enters
  <2>2. CASE i = j
    <3>1. object'[j] = NewRecord(b)
      BY <1>1, <2>1, <2>2
    <3>2. object'[j].batch = b
      BY <3>1 DEF NewRecord
    <3> QED
      BY <2>1, <2>2, <3>2
  <2>3. CASE i # j
    BY <1>1, <2>1, <2>3
  <2> QED
    BY <2>2, <2>3
<1>4. ASSUME NEW c \in Clients, NEW o \in Objects, NEW k \in Keys,
             Notes(c, o, k)
      PROVE  object'[j].batch = object[j].batch
  BY <1>1, <1>4 DEF Notes, Missing
<1>5. ASSUME NEW i \in Jobs, Writes(i)
      PROVE  object'[j].batch = object[j].batch
  <2> DEFINE o == record[Key(i)]
  <2>1. object' = [object EXCEPT ![o].status = job[i].want]
    BY <1>5 DEF Writes
  <2> HIDE DEF o
  <2>2. object[j] \in Record
    BY <1>1
  <2> QED
    BY <1>1, <2>1, <2>2 DEF Record
<1>6. ASSUME NEW c \in Clients, ClientKind(c)
      PROVE  \/ object' = object
             \/ \E i \in Jobs, k \in Keys : Enters(c, i, k)
             \/ \E o \in Objects, k \in Keys : Notes(c, o, k)
  BY <1>6 DEF ClientKind, Passes, Clears, Forgets, Opens, Makes, Drops,
              Unlists, Manages
<1>7. ASSUME NEW i \in Jobs, JobKind(i)
      PROVE  object' = object \/ Writes(i)
  BY <1>7 DEF JobKind, Advances, Fails, Indexes, SavesStatus, Saves, GivesUp
<1> QED
  BY <1>2, <1>3, <1>4, <1>5, <1>6, <1>7, StepsOnKeys DEF Rests

LEMMA BatchQueuedStep ==
    ASSUME Typed, Shaped, BatchOwned, BatchQueued, [Next]_vars
    PROVE  BatchQueued'
<1> SUFFICES ASSUME NEW j \in Jobs, object'[j].batch # None
             PROVE  \/ batch'[object'[j].batch] # None
                    \/ \E c \in Clients : /\ req'[c].batch = object'[j].batch
                                          /\ req'[c].queued
  BY DEF BatchQueued
<1>1. CASE object'[j].batch = object[j].batch
  <2>1. PICK b \in Batches :
          b # None /\ b = object[j].batch /\ b = object'[j].batch
    BY <1>1, Records DEF Record
  <2>2. batch[b] # None \/ \E c \in Clients : req[c].batch = b /\ req[c].queued
    BY <2>1 DEF BatchQueued
  <2>3. ASSUME NEW c \in Clients, req[c].batch = b, req[c].queued,
               req'[c].batch = req[c].batch
        PROVE  req'[c].batch = b /\ req'[c].queued
    BY <2>1, <2>3, QueuedKept
  <2>4. ASSUME NEW d \in Clients, CreateBatch(d)
        PROVE  \/ batch'[b] # None
               \/ \E c \in Clients : req'[c].batch = b /\ req'[c].queued
    <3>1. /\ batch' = batch
          /\ \A c \in Clients \ {d} : req'[c] = req[c]
          /\ req[d].pc = "idle"
      BY <2>4, BatchBegins
    <3>2. req[d].batch = None
      BY <3>1 DEF BatchOwned
    <3> QED
      BY <2>1, <2>2, <3>1, <3>2
  <2>5. CASE \A d \in Clients : ~CreateBatch(d)
    <3>1. BatchKept
      BY <2>5, RequestsKeepBatch
    <3>2. CASE batch[b] # None
      BY <2>1, <3>1, <3>2 DEF BatchKept
    <3>3. ASSUME NEW c \in Clients, req[c].batch = b, req[c].queued
          PROVE  \/ batch'[b] # None
                 \/ req'[c].batch = b /\ req'[c].queued
      BY <2>1, <2>3, <3>1, <3>3 DEF BatchKept
    <3> QED
      BY <2>1, <2>2, <3>2, <3>3
  <2> QED
    BY <2>1, <2>4, <2>5
<1>2. CASE \E c \in Clients : object'[j].batch = req'[c].batch /\ req'[c].queued
  BY <1>2
<1> QED
  BY <1>1, <1>2, JobBatches

\* A file of a saved batch that shows "processing" on an undisturbed key
\* showed it before, with the same record.
LEMMA InProgressBefore ==
    ASSUME Typed, Shaped, BatchOwned, Unshared, JobRecords, [Next]_vars,
           NEW b \in Batches, batch'[b] # None,
           NEW k \in Undisturbed', k \in InProgress(b)'
    PROVE  k \in InProgress(b)
<1>1. k \in Undisturbed /\ k \in Keys /\ k \notin overlapped'
  BY OverlapsGrow DEF Undisturbed, Keys
<1>2. /\ record'[k] # None
      /\ object'[record'[k]].status = "processing"
      /\ object'[record'[k]].batch = b
  BY DEF InProgress, Shows
<1>3. \A j \in Jobs : Feeds(j, k) =>
        /\ record[k] = j
        /\ job[j].pc = "save" => job[j].held = j
        /\ job[j].pc # "save" => object[j].status = "processing"
  BY <1>1 DEF JobRecords
<1>4. CASE /\ record'[k] = record[k]
           /\ record[k] # None => object'[record[k]] = object[record[k]]
  BY <1>1, <1>2, <1>4 DEF InProgress, Shows
<1>5. \A c \in Clients : ~(Forgets(c, k) /\ record'[k] = None)
  BY <1>2
\* A request adds the records of a batch before it saves the batch.
<1>6. ASSUME NEW c \in Clients, NEW j \in Jobs, Enters(c, j, k),
             record'[k] = j
      PROVE  FALSE
  <2>1. PICK a : /\ object' = [object EXCEPT ![j] = NewRecord(a)]
                 /\ a # None => a = req[c].batch
    BY <1>6 DEF Enters
  <2>2. object'[j] = NewRecord(a)
    BY <2>1, Records
  <2>3. a = b
    BY <1>2, <1>6, <2>2 DEF NewRecord
  <2>4. b # None
    BY FilesAssumption
  <2>5. batch[b] = None
    BY <2>1, <2>3, <2>4 DEF BatchOwned
  <2> QED
    BY <1>6, <2>5 DEF Enters
<1>7. ASSUME NEW j \in Jobs, Feeds(j, k), Writes(j), record'[k] = record[k]
      PROVE  k \in InProgress(b)
  <2>1. record[k] = j /\ object[j].status = "processing"
    BY <1>3, <1>7 DEF Writes
  <2>2. j \in Objects /\ object[j] \in Record /\ j # None
    BY Records
  <2> DEFINE o == record[Key(j)]
  <2>3. object' = [object EXCEPT ![o].status = job[j].want]
    BY <1>7 DEF Writes
  <2> HIDE DEF o
  <2>4. object'[j].batch = object[j].batch
    BY <2>2, <2>3, Records DEF Record
  <2> QED
    BY <1>1, <1>2, <1>7, <2>1, <2>2, <2>4 DEF InProgress, Shows
<1>8. ASSUME NEW j \in Jobs, Feeds(j, k), Saves(j), record'[k] = job[j].held,
             object' = object
      PROVE  k \in InProgress(b)
  <2>1. record'[k] = record[k]
    BY <1>3, <1>8 DEF Saves
  <2> QED
    BY <1>1, <1>2, <1>8, <2>1 DEF InProgress, Shows
<1> QED
  BY <1>1, <1>2, <1>4, <1>5, <1>6, <1>7, <1>8, RecordStep DEF RecordSteps

LEMMA BatchHonestStep ==
    ASSUME Typed, IndexInv, BatchQueued, BatchHonest, [Next]_vars
    PROVE  BatchHonest'
<1>0. /\ Shaped /\ BatchOwned /\ Unshared /\ JobRecords /\ MissingRecords
      /\ overlapped \subseteq overlapped'
      /\ batch \in [Batches -> [store : Stores,
                                status : {"in_progress", "completed"}]
                                  \cup {None}]
  BY OverlapsGrow DEF IndexInv, Typed, TypeOK
<1> SUFFICES ASSUME NEW b \in Batches, batch'[b] # None,
                    batch'[b].status = "completed",
                    NEW k \in InProgress(b)', k \notin overlapped'
             PROVE  FALSE
  BY DEF BatchHonest
<1>1. k \in Undisturbed' /\ k \in Keys
  BY DEF InProgress, Undisturbed, Keys
<1>2. k \in InProgress(b)
  BY <1>0, <1>1, InProgressBefore
<1>3. CASE batch'[b] = batch[b]
  BY <1>0, <1>2, <1>3 DEF BatchHonest
<1>4. CASE GetBatch(b)
  BY <1>2, <1>4 DEF GetBatch
\* The batch that is saved was told that one of its files is queued.
<1>5. ASSUME NEW c \in Clients, BatchSave(c), req[c].batch = b
      PROVE  FALSE
  <2>1. ~req[c].queued
    <3>1. batch' = [batch EXCEPT ![b] =
                      [store |-> req[c].store,
                       status |-> IF req[c].queued THEN "in_progress"
                                                   ELSE "completed"]]
      BY <1>5 DEF BatchSave
    <3>2. batch'[b].status = IF req[c].queued THEN "in_progress"
                                              ELSE "completed"
      BY <1>0, <3>1
    <3> QED
      BY <3>2
  <2>2. b # None
    BY FilesAssumption
  <2>3. batch[b] = None
    BY <1>0, <1>5, <2>2 DEF BatchOwned
  <2>4. record[k] \in Jobs /\ object[record[k]].batch = b
    <3>1. /\ record[k] # None
          /\ object[record[k]].status = "processing"
          /\ object[record[k]].batch = b
      BY <1>2 DEF InProgress, Shows
    <3>2. k \in Undisturbed
      BY <1>0, <1>1, OverlapsGrow
    <3> QED
      BY <1>0, <3>1, <3>2 DEF MissingRecords
  <2>5. PICK d \in Clients : req[d].batch = b /\ req[d].queued
    BY <2>2, <2>3, <2>4 DEF BatchQueued
  <2>6. d = c
    BY <1>0, <1>5, <2>2, <2>5 DEF BatchOwned
  <2> QED
    BY <2>1, <2>5, <2>6
<1> QED
  BY <1>3, <1>4, <1>5, BatchChanges

(***************************************************************************)
(* handleCreateBatch, handleGetBatch: a batch that reports completion has  *)
(* no file that is still being processed, wherever no two operations       *)
(* worked on this file in the store of the batch at the same time -        *)
(* although both handlers count records and never ask the goroutines, and  *)
(* the batch is saved after goroutines of it have started.                 *)
(***************************************************************************)
THEOREM BatchesAlwaysHonest == Spec => []BatchHonest
<1>1. Init => BatchQueued /\ BatchHonest
  <2> SUFFICES ASSUME Init PROVE BatchQueued /\ BatchHonest
    OBVIOUS
  <2>1. \A j \in Jobs : object[j].batch = None
    BY DEF Init, Objects, NewRecord
  <2>2. \A b \in Batches : batch[b] = None
    BY DEF Init
  <2> QED
    BY <2>1, <2>2 DEF BatchQueued, BatchHonest
<1>2. Typed /\ IndexInv /\ BatchQueued /\ BatchHonest /\ [Next]_vars
        => (BatchQueued /\ BatchHonest)'
  BY BatchQueuedStep, BatchHonestStep DEF IndexInv
<1> QED
  BY <1>1, <1>2, TypedAlways, IndexInvAlways, PTL DEF Spec

-----------------------------------------------------------------------------
(***************************************************************************)
(* One step of FixedSizeChunker.Chunk: the window ends where it may, and the *)
(* position moves forward without leaving a gap.  What the whole loop      *)
(* collects is a recursion, checked by TLC on short texts                  *)
(* (MCFileIngestion).                                                      *)
(***************************************************************************)

\* A position within a text, and sizes as the constructor leaves them
\* (NewFixedSizeChunker).
Chunking(pos, total, spaces, size, overlap) ==
    /\ total \in Nat
    /\ pos \in 0 .. total - 1
    /\ spaces \subseteq 0 .. total - 1
    /\ size \in Nat \ {0}
    /\ overlap \in Nat

\* Whatever the configuration says, sizes are positive and overlaps are not
\* negative (NewFixedSizeChunker).
LEMMA SizesNormal ==
    ASSUME NEW maxTokens \in Int, NEW overlapTokens \in Int
    PROVE  /\ ChunkSize(maxTokens) \in Nat \ {0}
           /\ ChunkOverlap(overlapTokens) \in Nat
BY DEF ChunkSize, ChunkOverlap

\* A set of numbers that has an upper bound has a greatest one.
LEMMA GreatestExists ==
    ASSUME NEW limit \in Nat, NEW S, S \subseteq 0 .. limit, S # {}
    PROVE  \E i \in S : \A j \in S : j <= i
<1> DEFINE T == {limit - i : i \in S}
<1>1. T \subseteq Nat /\ T # {}
  <2>1. \A i \in S : limit - i \in Nat
    OBVIOUS
  <2> QED
    BY <2>1
<1>2. PICK m \in T : \A k \in T : ~(<<k, m>> \in OpToRel(<, Nat))
  BY <1>1, NatLessThanWellFounded, WFMin
<1>3. \A k \in T : ~(k < m)
  BY <1>1, <1>2 DEF OpToRel
<1>4. PICK i \in S : m = limit - i
  BY <1>2
<1>5. \A j \in S : j <= i
  <2> TAKE j \in S
  <2>1. ~(limit - j < limit - i)
    BY <1>3, <1>4
  <2> QED
    BY <2>1
<1> QED
  BY <1>5

\* The end of a window: the text's end if the window reaches it, and
\* otherwise the last white space of its second half or its limit.
LEMMA EndOfWindow ==
    ASSUME NEW pos, NEW total, NEW spaces, NEW size, NEW overlap,
           Chunking(pos, total, spaces, size, overlap),
           NEW end, end = ChunkEnd(pos, total, spaces, size),
           NEW half, half = size \div 2
    PROVE  /\ half \in Nat /\ half < size
           /\ end \in Nat /\ pos < end /\ end <= total /\ end <= pos + size
           /\ pos + size >= total => end = total
           /\ pos + size < total =>
                /\ pos + half < end
                /\ \A i \in spaces :
                     pos + half < i /\ i <= pos + size => i <= end
                /\ end \notin spaces =>
                     /\ end = pos + size
                     /\ \A i \in spaces : ~(pos + half < i /\ i <= pos + size)
<1> DEFINE breaks == {i \in spaces : pos + half < i /\ i <= pos + size}
<1>1. /\ total \in Nat /\ pos \in Nat /\ pos < total
      /\ \A i \in spaces : i \in Nat /\ i < total
      /\ size \in Nat /\ size > 0
  BY DEF Chunking
<1>2. half \in Nat /\ half < size
  BY <1>1
<1>3. CASE pos + size >= total
  <2>1. end = total
    BY <1>3 DEF ChunkEnd
  <2> QED
    BY <1>1, <1>2, <1>3, <2>1
<1>4. CASE pos + size < total /\ breaks = {}
  <2>1. end = pos + size
    BY <1>1, <1>4 DEF ChunkEnd
  <2>2. \A i \in spaces : ~(pos + half < i /\ i <= pos + size)
    BY <1>4
  <2> QED
    BY <1>1, <1>2, <1>4, <2>1, <2>2
<1>5. CASE pos + size < total /\ breaks # {}
  <2>1. end = CHOOSE i \in breaks : \A j \in breaks : j <= i
    BY <1>1, <1>5 DEF ChunkEnd
  <2>2. pos + size \in Nat /\ breaks \subseteq 0 .. pos + size
    BY <1>1
  <2>3. \E i \in breaks : \A j \in breaks : j <= i
    BY <1>5, <2>2, GreatestExists
  <2>4. end \in breaks /\ \A j \in breaks : j <= end
    BY <2>1, <2>3
  <2>5. /\ end \in spaces /\ pos + half < end /\ end <= pos + size
        /\ \A i \in spaces : pos + half < i /\ i <= pos + size => i <= end
    BY <2>4
  <2> QED
    BY <1>1, <1>2, <1>5, <2>5
<1> QED
  BY <1>1, <1>3, <1>4, <1>5

\* Every step moves the position forward and never past the end of the chunk
\* it cut: the loop ends, and no rune between two chunks is lost.  Unless the
\* window was no longer than the overlap, the next chunk repeats exactly the
\* overlap (the last statements of Chunk's loop).
THEOREM ForwardWithoutGap ==
    ASSUME NEW pos, NEW total, NEW spaces, NEW size, NEW overlap,
           Chunking(pos, total, spaces, size, overlap),
           NEW end, end = ChunkEnd(pos, total, spaces, size),
           NEW next, next = pos + Advance(pos, end, overlap)
    PROVE  /\ end - pos \in 1 .. size
           /\ next \in pos + 1 .. end
           /\ end - pos > overlap => end - next = overlap
<1>1. end \in Nat /\ pos < end /\ end <= pos + size
  BY EndOfWindow
<1>2. pos \in Nat /\ size \in Nat /\ overlap \in Nat
  BY DEF Chunking
<1> QED
  BY <1>1, <1>2 DEF Advance

\* No chunk ends before the chunk it follows: an overlap larger than the
\* chunks, or a white space the next window sees first, never turns the
\* order of the pieces around (the search for a white space in Chunk).
THEOREM EndsInOrder ==
    ASSUME NEW pos, NEW total, NEW spaces, NEW size, NEW overlap,
           Chunking(pos, total, spaces, size, overlap),
           NEW end, end = ChunkEnd(pos, total, spaces, size),
           NEW next, next = pos + Advance(pos, end, overlap),
           next < total,
           NEW later, later = ChunkEnd(next, total, spaces, size)
    PROVE  later >= end
<1> PICK half : half = size \div 2
  OBVIOUS
<1>0. next \in Int /\ pos < next
  <2>1. pos \in Nat /\ size \in Nat
    BY DEF Chunking
  <2>2. next \in pos + 1 .. end /\ end \in Nat
    BY ForwardWithoutGap, EndOfWindow
  <2> QED
    BY <2>1, <2>2
<1>1. /\ total \in Nat /\ pos \in Nat /\ size \in Nat /\ next \in Nat
      /\ pos < next /\ \A i \in spaces : i \in Nat
  BY <1>0 DEF Chunking
<1>2. Chunking(next, total, spaces, size, overlap)
  BY <1>1 DEF Chunking
<1>3. /\ half \in Nat
      /\ end \in Nat /\ end <= total /\ end <= pos + size
      /\ pos + size < total /\ end \notin spaces =>
           /\ end = pos + size
           /\ \A i \in spaces : ~(pos + half < i /\ i <= pos + size)
  BY EndOfWindow
<1>4. /\ later \in Nat
      /\ next + size >= total => later = total
      /\ next + size < total =>
           /\ next + half < later
           /\ \A i \in spaces :
                next + half < i /\ i <= next + size => i <= later
           /\ later \notin spaces => later = next + size
  BY <1>2, EndOfWindow
<1>5. CASE next + size >= total
  BY <1>3, <1>4, <1>5
<1>6. CASE next + size < total /\ end \in spaces
  BY <1>1, <1>3, <1>4, <1>6
<1>7. CASE next + size < total /\ end \notin spaces
  <2>1. /\ end = pos + size
        /\ \A i \in spaces : ~(pos + half < i /\ i <= pos + size)
    BY <1>1, <1>3, <1>7
  <2>2. CASE later \in spaces
    BY <1>1, <1>3, <1>4, <1>7, <2>1, <2>2
  <2>3. CASE later \notin spaces
    BY <1>1, <1>4, <1>7, <2>1, <2>3
  <2> QED
    BY <2>2, <2>3
<1> QED
  BY <1>1, <1>5, <1>6, <1>7

=============================================================================
