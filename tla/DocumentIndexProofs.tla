------------------------ MODULE DocumentIndexProofs ------------------------
(***************************************************************************)
(* Theorems about DocumentIndex, for any number of documents, contents,    *)
(* tasks, dispatchers, requests and failures: the types, one generation in *)
(* the index, no content lost, and deleted documents that stay deleted.    *)
(***************************************************************************)
EXTENDS DocumentIndex, TLAPS

(* The rows, the dispatchers that run them, and where each process is.     *)
TasksTyped ==
  /\ taskStatus \in [DocTasks -> Life!Statuses]
  /\ taskAttempts \in [DocTasks -> Nat]
  /\ taskRunning \in [DocTasks -> SUBSET Indexers]
  /\ taskFile \in [DocTasks -> DocFiles \union {NoDoc}]
  /\ \A t \in DocTasks : (taskStatus[t] = "none") <=> (taskFile[t] = NoDoc)
  /\ \A t \in DocTasks : taskStatus[t] = "none" => taskRunning[t] = {}
  /\ task \in [Processes -> DocTasks \union {NoTask}]
  /\ \A w \in Indexers, t \in DocTasks : (w \in taskRunning[t]) <=> (task[w] = t)
  /\ \A w \in Indexers : (task[w] = NoTask) <=> (pc[w] = "idle")
  /\ \A c \in Clients : (task[c] = NoTask) <=> (pc[c] \notin {"enqueueing", "answering"})

(* A process that is on a file has one, one that is to write a content     *)
(* holds one, and the bucket is there for those who go to it.              *)
ProcessesTyped ==
  /\ pc \in [Processes -> DocStates]
  /\ file \in [Processes -> DocFiles \union {NoDoc}]
  /\ content \in [Processes -> Contents \union {NoContent}]
  /\ pending \in [Processes -> SUBSET DocFiles]
  /\ \A w \in Indexers :
       pc[w] \in {"idle", "opening", "read", "cleared", "added", "astray", "cleaned", "failing"}
  /\ \A c \in Clients : pc[c] # "cleaned"
  /\ \A p \in Processes :
       /\ pc[p] \notin {"idle", "listing"} => file[p] \in DocFiles
       /\ pc[p] \in {"read", "cleared", "mirroring"} => content[p] \in Contents
       /\ pc[p] \in {"mirroring", "unmirroring"} => storage = "minio"

StoresTyped ==
  /\ local \in [DocFiles -> Contents \union {NoContent}]
  /\ remote \in [DocFiles -> Contents \union {NoContent}]
  /\ chunks \in [DocFiles -> [Contents -> Nat]]
  /\ latest \in [DocFiles -> Contents \union {NoContent}]
  /\ gone \subseteq DocFiles
  /\ disturbed \in [DocFiles -> SUBSET {"overlap", "delete", "namesake", "silent add",
                                         "silent delete"}]
  /\ storage \in {"local", "minio"}
  /\ vectors \in {"milvus", "pgvector", "degraded"}

DocTyped == TasksTyped /\ ProcessesTyped /\ StoresTyped
----------------------------------------------------------------------------
(* The inductive invariant says of each file who may meet whom on it and,  *)
(* for every process on it, what the stores hold at that point.            *)

(* Two processes between reading and being done, or one of them and one    *)
(* that deletes, are on record.                                            *)
MeetingsRecorded(f) ==
  \A p \in Readers(f) : \A q \in Processes \ {p} :
    /\ q \in Readers(f) => "overlap" \in disturbed[f]
    /\ q \in Deleters(f) => "delete" \in disturbed[f]

(* What is being deleted is no longer expected, nor in a store that the    *)
(* request has been at.                                                    *)
DeletersHold(f) ==
  \A q \in Deleters(f) :
    \/ "delete" \in disturbed[f]
    \/ /\ latest[f] = NoContent
       /\ local[f] = NoContent
       /\ storage = "minio" => pc[q] = "unmirroring" \/ remote[f] = NoContent

(* The bucket has the last upload; the local directory has it or nothing.  *)
StoresHold(f) ==
  /\ storage = "local" => local[f] \in {NoContent, latest[f]}
  /\ storage = "minio" => \/ latest[f] \in {NoContent, remote[f]}
                          \/ "delete" \in disturbed[f]

(* An attempt that has not added yet holds what is stored; after it added, *)
(* the index has it.  One that indexed a namesake may remove it from under *)
(* the others.                                                             *)
ReadersHold(f) ==
  \A p \in Readers(f) :
    \/ storage = "minio"
    \/ latest[f] = NoContent
    \/ disturbed[f] \cap {"overlap", "delete", "namesake"} # {}
    \/ pc[p] \in {"read", "cleared"} /\ content[p] = latest[f] /\ local[f] = latest[f]
    \/ pc[p] = "added" /\ (chunks[f][latest[f]] > 0 \/ "silent add" \in disturbed[f])

Survives(f) ==
  \/ latest[f] = NoContent
  \/ Stored(f) = latest[f]
  \/ chunks[f][latest[f]] > 0
  \/ "delete" \in disturbed[f]
  \/ storage = "local" /\ disturbed[f] \cap {"overlap", "silent add", "namesake"} # {}

(* Chunks are added to an index that was cleared before.                   *)
ClearedHolds(f) ==
  /\ vectors = "degraded" => Unindexed(f)
  /\ \A p \in Readers(f) :
       \/ pc[p] # "cleared"
       \/ Unindexed(f)
       \/ disturbed[f] \cap {"overlap", "delete", "silent delete"} # {}
  /\ \/ Unindexed(f) \/ IndexedOnce(f)
     \/ disturbed[f] \cap {"overlap", "delete", "silent delete"} # {}

(* Nobody holds what is gone.                                              *)
GoneHolds(f) ==
  f \in gone =>
    \/ disturbed[f] \cap {"delete", "silent delete"} # {}
    \/ Readers(f) = {} /\ local[f] = NoContent /\ Stored(f) = NoContent /\ Unindexed(f)

FileInv(f) ==
  /\ MeetingsRecorded(f) /\ DeletersHold(f) /\ StoresHold(f)
  /\ ReadersHold(f) /\ Survives(f) /\ ClearedHolds(f) /\ GoneHolds(f)

FilesHold == \A f \in DocFiles : FileInv(f)

DocInv == DocTyped /\ FilesHold
----------------------------------------------------------------------------
(* Types.                                                                  *)

LEMMA DeletesTyped ==
  ASSUME StoresTyped, NEW f \in DocFiles, DeleteBySource(f)
  PROVE  /\ chunks' \in [DocFiles -> [Contents -> Nat]]
         /\ disturbed' \in
              [DocFiles -> SUBSET {"overlap", "delete", "namesake", "silent add",
                                   "silent delete"}]
<1>1. NoChunks \in [Contents -> Nat]
  BY DEF NoChunks
<1>2. CASE DeleteChunks(f)
  BY <1>1, <1>2 DEF DeleteChunks, StoresTyped
<1>3. CASE HiddenFailure(f, "silent delete")
  BY <1>3 DEF HiddenFailure, Disturb, StoresTyped
<1>4. CASE UNCHANGED <<chunks, disturbed>>
  BY <1>4 DEF StoresTyped
<1>. QED
  BY <1>2, <1>3, <1>4 DEF DeleteBySource, DeleteMilvus, DeletePgVector, DeleteDegraded

LEMMA AddsTyped ==
  ASSUME StoresTyped, NEW f \in DocFiles, NEW v \in Contents,
         AddMilvus(f, v) \/ AddPgVector(f, v) \/ AddDegraded(f)
  PROVE  /\ chunks' \in [DocFiles -> [Contents -> Nat]]
         /\ disturbed' \in
              [DocFiles -> SUBSET {"overlap", "delete", "namesake", "silent add",
                                   "silent delete"}]
<1>1. CASE AddChunks(f, v)
  <2>1. [chunks[f] EXCEPT ![v] = @ + 1] \in [Contents -> Nat]
    <3>1. chunks[f] \in [Contents -> Nat]
      BY DEF StoresTyped
    <3>. QED
      BY <3>1
  <2>2. chunks' = [chunks EXCEPT ![f] = [chunks[f] EXCEPT ![v] = @ + 1]]
    BY <1>1 DEF AddChunks, StoresTyped
  <2>. QED
    BY <1>1, <2>1, <2>2 DEF AddChunks, StoresTyped
<1>2. CASE HiddenFailure(f, "silent add")
  BY <1>2 DEF HiddenFailure, Disturb, StoresTyped
<1>3. CASE AddDegraded(f)
  BY <1>3 DEF AddDegraded, Disturb, StoresTyped
<1>. QED
  BY <1>1, <1>2, <1>3 DEF AddMilvus, AddPgVector

LEMMA ReleaseTyped ==
  ASSUME DocTyped, NEW w \in Indexers, task[w] \in DocTasks, Release(w),
         taskRunning' = [taskRunning EXCEPT ![task[w]] = @ \ {w}],
         taskStatus' \in [DocTasks -> Life!Statuses],
         \A t \in DocTasks : taskStatus'[t] = "none" <=> taskStatus[t] = "none",
         UNCHANGED <<taskAttempts, taskFile>>
  PROVE  TasksTyped'
<1>1. w \in Processes /\ w \notin Clients
  BY DocAssumption DEF Processes
<1>2. \A t \in DocTasks : t # NoTask
  BY DocAssumption DEF NoTask
<1>3. task' = [task EXCEPT ![w] = NoTask] /\ pc' = [pc EXCEPT ![w] = "idle"]
  BY DEF Release, Goto
<1>4. \A u \in Indexers, t \in DocTasks : (u \in taskRunning'[t]) <=> (task'[u] = t)
  BY <1>1, <1>2, <1>3 DEF DocTyped, TasksTyped, Processes
<1>5. /\ \A u \in Indexers : (task'[u] = NoTask) <=> (pc'[u] = "idle")
      /\ \A c \in Clients : (task'[c] = NoTask) <=> (pc'[c] \notin {"enqueueing", "answering"})
  BY <1>1, <1>3 DEF DocTyped, TasksTyped, ProcessesTyped, Processes
<1>6. /\ taskRunning' \in [DocTasks -> SUBSET Indexers]
      /\ task' \in [Processes -> DocTasks \union {NoTask}]
  BY <1>3 DEF DocTyped, TasksTyped
<1>. QED
  BY <1>4, <1>5, <1>6 DEF DocTyped, TasksTyped

LEMMA StatusesTyped ==
  /\ {"none", "queued", "processing", "completed", "failed_permanently"} = Life!Statuses
  /\ \A n : Life!RetryOrFail(n) \in {"queued", "failed_permanently"}
  BY DEF Life!Statuses, Life!RetryOrFail

LEMMA MirrorTyped ==
  ASSUME DocTyped, NEW c \in Clients, Mirror(c)
  PROVE  DocTyped'
<1>1. TasksTyped'
  BY DocAssumption DEF Mirror, DocTyped, TasksTyped, Goto, taskVars
<1>2. ProcessesTyped'
  BY DocAssumption DEF Mirror, DocTyped, ProcessesTyped, Goto, DocStates, Processes
<1>3. StoresTyped'
  BY DocAssumption DEF Mirror, DocTyped, ProcessesTyped, StoresTyped, Disturb, Overlaps, Processes
<1>. QED
  BY <1>1, <1>2, <1>3 DEF DocTyped

LEMMA SubmitDocumentTyped ==
  ASSUME DocTyped, NEW c \in Clients, SubmitDocument(c)
  PROVE  DocTyped'
<1>1. TasksTyped'
  BY DocAssumption DEF SubmitDocument, DocTyped, TasksTyped, ProcessesTyped, Goto, taskVars,
                       Processes, NoTask, ActiveTasksOf
<1>2. ProcessesTyped'
  <2>1. c \in Processes /\ pc[c] = "submitting" /\ UNCHANGED <<file, content, pending, storage>>
    BY DEF SubmitDocument, Processes
  <2>2. PICK s \in {"creating", "enqueueing"} : pc' = [pc EXCEPT ![c] = s]
    BY DEF SubmitDocument, Goto
  <2>. QED
    BY <2>1, <2>2, DocAssumption DEF DocTyped, ProcessesTyped, DocStates
<1>3. StoresTyped'
  BY DocAssumption DEF SubmitDocument, DocTyped, StoresTyped, storeVars, docHistory
<1>. QED
  BY <1>1, <1>2, <1>3 DEF DocTyped

LEMMA InsertTaskTyped ==
  ASSUME DocTyped, NEW c \in Clients, InsertTask(c)
  PROVE  DocTyped'
<1>1. TasksTyped'
  BY DocAssumption DEF InsertTask, DocTyped, TasksTyped, ProcessesTyped, Goto, Processes,
                       NoTask, Life!Submit, Life!Statuses
<1>2. ProcessesTyped'
  BY DocAssumption DEF InsertTask, DocTyped, ProcessesTyped, Goto, DocStates, Processes
<1>3. StoresTyped'
  BY DocAssumption DEF InsertTask, DocTyped, StoresTyped, storeVars, docHistory
<1>. QED
  BY <1>1, <1>2, <1>3 DEF DocTyped

LEMMA EnqueueDocumentTyped ==
  ASSUME DocTyped, NEW c \in Clients, EnqueueDocument(c)
  PROVE  DocTyped'
<1>1. TasksTyped'
  BY DocAssumption DEF EnqueueDocument, DocTyped, TasksTyped, Goto, taskVars
<1>2. ProcessesTyped'
  BY DocAssumption DEF EnqueueDocument, DocTyped, ProcessesTyped, Goto, DocStates, Processes
<1>3. StoresTyped'
  BY DocAssumption DEF EnqueueDocument, DocTyped, StoresTyped, storeVars, docHistory
<1>. QED
  BY <1>1, <1>2, <1>3 DEF DocTyped

LEMMA AnswerTyped ==
  ASSUME DocTyped, NEW c \in Clients, Answer(c)
  PROVE  DocTyped'
<1>1. TasksTyped'
  BY DocAssumption DEF Answer, DocTyped, TasksTyped, ProcessesTyped, Goto, taskVars, Processes
<1>2. ProcessesTyped'
  BY DocAssumption DEF Answer, DocTyped, ProcessesTyped, Goto, DocStates, Processes
<1>3. StoresTyped'
  BY DocAssumption DEF Answer, DocTyped, StoresTyped, storeVars, docHistory
<1>. QED
  BY <1>1, <1>2, <1>3 DEF DocTyped

LEMMA IndexDirectoryTyped ==
  ASSUME DocTyped, NEW c \in Clients, IndexDirectory(c)
  PROVE  DocTyped'
<1>1. TasksTyped'
  BY DocAssumption DEF IndexDirectory, DocTyped, TasksTyped, Goto, taskVars
<1>2. ProcessesTyped'
  <2>1. /\ c \in Processes /\ c \notin Indexers
        /\ {f \in DocFiles : local[f] # NoContent} \in SUBSET DocFiles
    BY DocAssumption DEF Processes
  <2>2. /\ pending' = [pending EXCEPT ![c] = {f \in DocFiles : local[f] # NoContent}]
        /\ pc' = [pc EXCEPT ![c] = "listing"] /\ UNCHANGED <<file, content, storage>>
    BY DEF IndexDirectory, Goto
  <2>. QED
    BY <2>1, <2>2 DEF DocTyped, ProcessesTyped, DocStates
<1>3. StoresTyped'
  BY DocAssumption DEF IndexDirectory, DocTyped, StoresTyped, storeVars, docHistory
<1>. QED
  BY <1>1, <1>2, <1>3 DEF DocTyped

LEMMA NextFileTyped ==
  ASSUME DocTyped, NEW c \in Clients, NextFile(c)
  PROVE  DocTyped'
<1>1. TasksTyped'
  BY DocAssumption DEF NextFile, DocTyped, TasksTyped, ProcessesTyped, Goto, taskVars, Processes
<1>2. ProcessesTyped'
  <2>1. c \in Processes /\ c \notin Indexers
    BY DocAssumption DEF Processes
  <2>2. CASE Goto(c, "idle") /\ file' = [file EXCEPT ![c] = NoDoc] /\ UNCHANGED pending
    BY <2>1, <2>2 DEF NextFile, DocTyped, ProcessesTyped, Goto, DocStates
  <2>3. CASE \E f \in pending[c] : /\ Goto(c, "opening")
                                   /\ file' = [file EXCEPT ![c] = f]
                                   /\ pending' = [pending EXCEPT ![c] = @ \ {f}]
    <3>1. PICK f \in DocFiles : /\ Goto(c, "opening")
                               /\ file' = [file EXCEPT ![c] = f]
                               /\ pending' = [pending EXCEPT ![c] = @ \ {f}]
      BY <2>1, <2>3 DEF DocTyped, ProcessesTyped
    <3>2. content' = [content EXCEPT ![c] = NoContent] /\ storage' = storage
      BY DEF NextFile
    <3>. QED
      BY <2>1, <3>1, <3>2 DEF DocTyped, ProcessesTyped, Goto, DocStates
  <2>. QED
    BY <2>2, <2>3 DEF NextFile
<1>3. StoresTyped'
  BY DocAssumption DEF NextFile, DocTyped, StoresTyped, storeVars, docHistory
<1>. QED
  BY <1>1, <1>2, <1>3 DEF DocTyped

LEMMA RemoveRemoteTyped ==
  ASSUME DocTyped, NEW c \in Clients, RemoveRemote(c)
  PROVE  DocTyped'
<1>1. TasksTyped'
  BY DocAssumption DEF RemoveRemote, DocTyped, TasksTyped, Goto, taskVars
<1>2. ProcessesTyped'
  BY DocAssumption DEF RemoveRemote, DocTyped, ProcessesTyped, Goto, DocStates, Processes
<1>3. StoresTyped'
  BY DocAssumption DEF RemoveRemote, DocTyped, StoresTyped, docHistory
<1>. QED
  BY <1>1, <1>2, <1>3 DEF DocTyped

LEMMA PurgeTyped ==
  ASSUME DocTyped, NEW c \in Clients, Purge(c)
  PROVE  DocTyped'
<1>1. TasksTyped'
  BY DocAssumption DEF Purge, DocTyped, TasksTyped, Goto, taskVars
<1>2. ProcessesTyped'
  BY DocAssumption DEF Purge, DocTyped, ProcessesTyped, Goto, DocStates, Processes
<1>3. StoresTyped'
  <2>1. file[c] \in DocFiles
    BY DEF Purge, DocTyped, ProcessesTyped, Processes
  <2>. QED
    BY <2>1, DeletesTyped DEF Purge, DocTyped, StoresTyped, storeVars
<1>. QED
  BY <1>1, <1>2, <1>3 DEF DocTyped

LEMMA RequestDiesTyped ==
  ASSUME DocTyped, NEW c \in Clients, RequestDies(c)
  PROVE  DocTyped'
<1>1. TasksTyped'
  BY DocAssumption
     DEF RequestDies, DocTyped, TasksTyped, ProcessesTyped, Goto, taskVars, Release, Processes
<1>2. ProcessesTyped'
  BY DocAssumption DEF RequestDies, DocTyped, ProcessesTyped, Goto, Release, DocStates, Processes
<1>3. StoresTyped'
  BY DocAssumption DEF RequestDies, DocTyped, StoresTyped, storeVars, docHistory
<1>. QED
  BY <1>1, <1>2, <1>3 DEF DocTyped

LEMMA ReadNamesakeTyped ==
  ASSUME DocTyped, NEW w \in Indexers, ReadNamesake(w)
  PROVE  DocTyped'
<1>1. TasksTyped'
  BY DocAssumption DEF ReadNamesake, DocTyped, TasksTyped, Goto, taskVars
<1>2. ProcessesTyped'
  BY DocAssumption DEF ReadNamesake, DocTyped, ProcessesTyped, Goto, DocStates, Processes
<1>3. StoresTyped'
  BY DocAssumption DEF ReadNamesake, DocTyped, StoresTyped, storeVars, docHistory
<1>. QED
  BY <1>1, <1>2, <1>3 DEF DocTyped

LEMMA CleanupLocalTyped ==
  ASSUME DocTyped, NEW w \in Indexers, CleanupLocal(w)
  PROVE  DocTyped'
<1>1. TasksTyped'
  BY DocAssumption DEF CleanupLocal, DocTyped, TasksTyped, Goto, taskVars
<1>2. ProcessesTyped'
  BY DocAssumption DEF CleanupLocal, DocTyped, ProcessesTyped, Goto, DocStates, Processes
<1>3. StoresTyped'
  <2>. DEFINE Whys == {"overlap", "delete", "namesake", "silent add", "silent delete"}
  <2>1. PICK why \in SUBSET Whys : disturbed' = disturbed \/ Disturb(file[w], why)
    <3>1. {"namesake"} \in SUBSET Whys /\ {} \in SUBSET Whys
      OBVIOUS
    <3>. QED
      BY <3>1 DEF CleanupLocal
  <2>2. disturbed' \in [DocFiles -> SUBSET Whys]
    <3>1. disturbed \in [DocFiles -> SUBSET Whys]
      BY DEF DocTyped, StoresTyped
    <3>. HIDE DEF Whys
    <3>2. file[w] \in DocFiles => disturbed[file[w]] \union why \in SUBSET Whys
      BY <3>1
    <3>. QED
      BY <2>1, <3>1, <3>2 DEF Disturb
  <2>3. local' \in [DocFiles -> Contents \union {NoContent}]
    BY DEF CleanupLocal, DocTyped, StoresTyped
  <2>. QED
    BY <2>2, <2>3 DEF CleanupLocal, DocTyped, StoresTyped
<1>. QED
  BY <1>1, <1>2, <1>3 DEF DocTyped

LEMMA CompleteDocumentTyped ==
  ASSUME DocTyped, NEW w \in Indexers, CompleteDocument(w)
  PROVE  DocTyped'
<1>1. TasksTyped'
  <2>1. task[w] \in DocTasks
    BY DEF CompleteDocument, DocTyped, TasksTyped, ProcessesTyped, Processes
  <2>2. taskStatus[task[w]] # "none"
    BY <2>1 DEF DocTyped, TasksTyped
  <2>. QED
    BY <2>1, <2>2, ReleaseTyped, StatusesTyped
       DEF CompleteDocument, DocTyped, TasksTyped, Life!Complete
<1>2. ProcessesTyped'
  BY DocAssumption
     DEF CompleteDocument, DocTyped, ProcessesTyped, Goto, Release, DocStates, Processes
<1>3. StoresTyped'
  BY DocAssumption DEF CompleteDocument, DocTyped, StoresTyped, storeVars, docHistory
<1>. QED
  BY <1>1, <1>2, <1>3 DEF DocTyped

LEMMA FailDocumentTyped ==
  ASSUME DocTyped, NEW w \in Indexers, FailDocument(w)
  PROVE  DocTyped'
<1>1. TasksTyped'
  <2>1. task[w] \in DocTasks
    BY DEF FailDocument, DocTyped, TasksTyped, ProcessesTyped, Processes
  <2>2. taskStatus[task[w]] # "none"
    BY <2>1 DEF DocTyped, TasksTyped
  <2>. QED
    BY <2>1, <2>2, ReleaseTyped, StatusesTyped DEF FailDocument, DocTyped, TasksTyped, Life!Fail
<1>2. ProcessesTyped'
  BY DocAssumption DEF FailDocument, DocTyped, ProcessesTyped, Goto, Release, DocStates, Processes
<1>3. StoresTyped'
  BY DocAssumption DEF FailDocument, DocTyped, StoresTyped, storeVars, docHistory
<1>. QED
  BY <1>1, <1>2, <1>3 DEF DocTyped

LEMMA IndexerDiesTyped ==
  ASSUME DocTyped, NEW w \in Indexers, IndexerDies(w)
  PROVE  DocTyped'
<1>1. TasksTyped'
  <2>1. task[w] \in DocTasks
    BY DEF IndexerDies, DocTyped, TasksTyped, ProcessesTyped, Processes
  <2>2. taskStatus[task[w]] # "none"
    BY <2>1 DEF DocTyped, TasksTyped
  <2>. QED
    BY <2>1, <2>2, ReleaseTyped, StatusesTyped DEF IndexerDies, DocTyped, TasksTyped, Life!Vanish
<1>2. ProcessesTyped'
  BY DocAssumption DEF IndexerDies, DocTyped, ProcessesTyped, Goto, Release, DocStates, Processes
<1>3. StoresTyped'
  BY DocAssumption DEF IndexerDies, DocTyped, StoresTyped, storeVars, docHistory
<1>. QED
  BY <1>1, <1>2, <1>3 DEF DocTyped

LEMMA ReadDocumentTyped ==
  ASSUME DocTyped, NEW p \in Processes, ReadDocument(p)
  PROVE  DocTyped'
<1>1. TasksTyped'
  BY DocAssumption DEF ReadDocument, DocTyped, TasksTyped, Goto, taskVars
<1>2. ProcessesTyped'
  BY DocAssumption DEF ReadDocument, DocTyped, ProcessesTyped, StoresTyped, Goto, DocStates,
                       Processes, Stored
<1>3. StoresTyped'
  BY DocAssumption DEF ReadDocument, DocTyped, StoresTyped, storeVars, Disturb, Overlaps
<1>. QED
  BY <1>1, <1>2, <1>3 DEF DocTyped

LEMMA ClearOldTyped ==
  ASSUME DocTyped, NEW p \in Processes, ClearOld(p)
  PROVE  DocTyped'
<1>1. TasksTyped'
  BY DocAssumption DEF ClearOld, DocTyped, TasksTyped, Goto, taskVars
<1>2. ProcessesTyped'
  BY DocAssumption DEF ClearOld, DocTyped, ProcessesTyped, Goto, DocStates
<1>3. StoresTyped'
  <2>1. file[p] \in DocFiles
    BY DEF ClearOld, DocTyped, ProcessesTyped, Processes
  <2>. QED
    BY <2>1, DeletesTyped DEF ClearOld, DocTyped, StoresTyped, storeVars
<1>. QED
  BY <1>1, <1>2, <1>3 DEF DocTyped

LEMMA AddNewTyped ==
  ASSUME DocTyped, NEW p \in Processes, AddNew(p)
  PROVE  DocTyped'
<1>1. TasksTyped'
  BY DocAssumption DEF AddNew, DocTyped, TasksTyped, ProcessesTyped, Goto, taskVars
<1>2. ProcessesTyped'
  BY DocAssumption DEF AddNew, DocTyped, ProcessesTyped, Goto, DocStates
<1>3. StoresTyped'
  <2>1. file[p] \in DocFiles /\ content[p] \in Contents
    BY DEF AddNew, DocTyped, ProcessesTyped
  <2>. QED
    BY <2>1, AddsTyped DEF AddNew, DocTyped, StoresTyped, storeVars
<1>. QED
  BY <1>1, <1>2, <1>3 DEF DocTyped

LEMMA StepRaisesTyped ==
  ASSUME DocTyped, NEW p \in Processes, StepRaises(p)
  PROVE  DocTyped'
<1>1. TasksTyped'
  BY DocAssumption DEF StepRaises, DocTyped, TasksTyped, Goto, taskVars
<1>2. ProcessesTyped'
  BY DocAssumption DEF StepRaises, DocTyped, ProcessesTyped, Goto, DocStates
<1>3. StoresTyped'
  BY DocAssumption DEF StepRaises, DocTyped, StoresTyped, storeVars, docHistory
<1>. QED
  BY <1>1, <1>2, <1>3 DEF DocTyped


LEMMA PutBytesTyped ==
  ASSUME DocTyped, NEW c \in Clients, NEW f \in DocFiles, NEW v \in Contents, PutBytes(c, f, v)
  PROVE  DocTyped'
<1>1. TasksTyped'
  BY DocAssumption DEF PutBytes, PutLocal, PutCache, Goto, DocTyped, TasksTyped, ProcessesTyped,
                       Processes, taskVars
<1>2. ProcessesTyped'
  <2>1. c \in Processes /\ c \notin Indexers
    BY DocAssumption DEF Processes
  <2>2. PICK s \in {"submitting", "mirroring"} :
          /\ pc' = [pc EXCEPT ![c] = s]
          /\ s = "mirroring" => content' = [content EXCEPT ![c] = v]
          /\ s = "submitting" => content' = content
          /\ s = "mirroring" => storage = "minio"
    BY DEF PutBytes, PutLocal, PutCache, Goto
  <2>3. file' = [file EXCEPT ![c] = f] /\ pending' = pending /\ storage' = storage
    BY DEF PutBytes
  <2>. QED
    BY <2>1, <2>2, <2>3 DEF DocTyped, ProcessesTyped, DocStates
<1>3. StoresTyped'
  BY DEF PutBytes, PutLocal, PutCache, Disturb, Overlaps, DocTyped, StoresTyped
<1>. QED
  BY <1>1, <1>2, <1>3 DEF DocTyped

LEMMA DeleteDocumentTyped ==
  ASSUME DocTyped, NEW c \in Clients, NEW f \in DocFiles, DeleteDocument(c, f)
  PROVE  DocTyped'
<1>1. TasksTyped'
  BY DocAssumption DEF DeleteDocument, Goto, DocTyped, TasksTyped, taskVars
<1>2. ProcessesTyped'
  BY DocAssumption DEF DeleteDocument, Goto, DocTyped, ProcessesTyped, Processes, DocStates
<1>3. StoresTyped'
  BY DEF DeleteDocument, Disturb, DocTyped, StoresTyped
<1>. QED
  BY <1>1, <1>2, <1>3 DEF DocTyped

LEMMA ClaimDocumentTyped ==
  ASSUME DocTyped, NEW w \in Indexers, NEW t \in DocTasks, ClaimDocument(w, t)
  PROVE  DocTyped'
<1>1. w \in Processes /\ w \notin Clients /\ t # NoTask
  BY DocAssumption DEF Processes, NoTask
<1>2. TasksTyped'
  BY <1>1, DocAssumption
     DEF ClaimDocument, Life!Claim, Life!Statuses, Goto, DocTyped, TasksTyped, ProcessesTyped
<1>3. ProcessesTyped'
  BY <1>1 DEF ClaimDocument, Life!Claim, Goto, DocTyped, TasksTyped, ProcessesTyped, DocStates
<1>4. StoresTyped'
  BY DEF ClaimDocument, DocTyped, StoresTyped, storeVars, docHistory
<1>. QED
  BY <1>2, <1>3, <1>4 DEF DocTyped

LEMMA RowWritesTyped ==
  ASSUME DocTyped, NEW t \in DocTasks, RetryTask(t) \/ TakeBackDocument(t)
  PROVE  DocTyped'
<1>1. taskStatus[t] # "none"
  BY DEF RetryTask, TakeBackDocument, Life!Resubmit
<1>2. PICK s \in Life!Statuses \ {"none"} : taskStatus' = [taskStatus EXCEPT ![t] = s]
  BY StatusesTyped DEF RetryTask, TakeBackDocument, Life!Resubmit
<1>3. UNCHANGED <<taskAttempts, taskRunning, taskFile, storage, vectors,
                storeVars, chunks, procVars, docHistory>>
  BY DEF RetryTask, TakeBackDocument, Life!Resubmit, Life!TakeBack
<1>4. TasksTyped'
  BY <1>1, <1>2, <1>3 DEF procVars, DocTyped, TasksTyped
<1>5. ProcessesTyped' /\ StoresTyped'
  BY <1>3 DEF procVars, storeVars, docHistory, DocTyped, ProcessesTyped, StoresTyped
<1>. QED
  BY <1>4, <1>5 DEF DocTyped

LEMMA DocTypedInitially == DocInit => DocTyped
<1>1. DocInit => TasksTyped
  BY DocAssumption DEF DocInit, Life!Init, Life!Statuses, TasksTyped, Processes, NoTask
<1>2. DocInit => ProcessesTyped
  BY DocAssumption DEF DocInit, ProcessesTyped, Processes, DocStates
<1>3. DocInit => StoresTyped
  BY DocAssumption DEF DocInit, StoresTyped, NoChunks
<1>. QED
  BY <1>1, <1>2, <1>3 DEF DocTyped

----------------------------------------------------------------------------
(* Steps and files.                                                        *)

OnFile == {"read", "cleared", "added", "unmirroring", "purging"}

LEMMA OnFileMeans ==
  ASSUME NEW f, NEW p \in Processes
  PROVE  /\ p \in Readers(f) <=> file[p] = f /\ pc[p] \in {"read", "cleared", "added"}
         /\ p \in Deleters(f) <=> file[p] = f /\ pc[p] \in {"unmirroring", "purging"}
  BY DEF Readers, Deleters

(* What the recorded overlaps are.                                         *)
LEMMA OverlapsRecorded ==
  ASSUME NEW f, NEW p \in Processes, NEW q \in Processes, q # p
  PROVE  /\ q \in Readers(f) => "overlap" \in Overlaps(p, f)
         /\ q \in Deleters(f) => "delete" \in Overlaps(p, f)
  BY DEF Overlaps

LEMMA DisturbAdds ==
  ASSUME StoresTyped, NEW f \in DocFiles, NEW why, Disturb(f, why)
  PROVE  /\ disturbed'[f] = disturbed[f] \union why
         /\ \A g \in DocFiles \ {f} : disturbed'[g] = disturbed[g]
  BY DEF StoresTyped, Disturb

(* Nothing that is promised of a file breaks while its stores stand and    *)
(* nobody new comes to it: leaving a file is harmless.                     *)
LEMMA FileStands ==
  ASSUME DocTyped, NEW f \in DocFiles, FileInv(f),
         UNCHANGED <<storage, vectors>>, local'[f] = local[f], remote'[f] = remote[f],
         latest'[f] = latest[f], chunks'[f] = chunks[f], f \in gone' => f \in gone,
         disturbed[f] \subseteq disturbed'[f],
         \A p \in Processes : file'[p] = f /\ pc'[p] \in OnFile =>
           pc'[p] = pc[p] /\ file'[p] = file[p] /\ content'[p] = content[p]
  PROVE  FileInv(f)'
<1>1. \A p \in Processes :
        /\ p \in Readers(f)' => p \in Readers(f) /\ pc'[p] = pc[p] /\ content'[p] = content[p]
        /\ p \in Deleters(f)' => p \in Deleters(f) /\ pc'[p] = pc[p]
  BY DEF Readers, Deleters, OnFile
<1>2. Readers(f)' \subseteq Processes /\ Deleters(f)' \subseteq Processes
  BY DEF Readers, Deleters
<1>3. /\ Stored(f)' = Stored(f)
      /\ (Unindexed(f)' <=> Unindexed(f)) /\ (IndexedOnce(f)' <=> IndexedOnce(f))
  BY DEF Stored, Unindexed, IndexedOnce
<1>4. MeetingsRecorded(f)'
  BY <1>1, <1>2 DEF FileInv, MeetingsRecorded
<1>5. DeletersHold(f)'
  BY <1>1, <1>2 DEF FileInv, DeletersHold
<1>6. StoresHold(f)' /\ Survives(f)'
  BY <1>3 DEF FileInv, StoresHold, Survives
<1>7. ReadersHold(f)'
  BY <1>1, <1>2 DEF FileInv, ReadersHold
<1>8. ClearedHolds(f)'
  BY <1>1, <1>2, <1>3 DEF FileInv, ClearedHolds
<1>9. GoneHolds(f)'
  BY <1>1, <1>2, <1>3 DEF FileInv, GoneHolds
<1>. QED
  BY <1>4, <1>5, <1>6, <1>7, <1>8, <1>9 DEF FileInv

(* A step that touches no store.                                           *)
LEMMA StoresStand ==
  ASSUME DocInv, UNCHANGED <<storage, vectors, storeVars, chunks, docHistory>>,
         \A p \in Processes : pc'[p] \in OnFile =>
           pc'[p] = pc[p] /\ file'[p] = file[p] /\ content'[p] = content[p]
  PROVE  FilesHold'
<1>. SUFFICES ASSUME NEW f \in DocFiles
              PROVE  FileInv(f)'
  BY DEF FilesHold
<1>. QED
  BY FileStands DEF DocInv, FilesHold, storeVars, docHistory

(* A step of process p, about its file f, is nothing to the other files.   *)
LEMMA OtherFilesStand ==
  ASSUME DocInv, NEW p \in Processes, NEW f \in DocFiles, NEW g \in DocFiles, g # f,
         file'[p] = f \/ pc'[p] \notin OnFile,
         \A q \in Processes \ {p} :
           pc'[q] = pc[q] /\ file'[q] = file[q] /\ content'[q] = content[q],
         UNCHANGED <<storage, vectors>>, local'[g] = local[g], remote'[g] = remote[g],
         latest'[g] = latest[g], chunks'[g] = chunks[g], g \in gone' => g \in gone,
         disturbed'[g] = disturbed[g]
  PROVE  FileInv(g)'
<1>1. \A q \in Processes : file'[q] = g /\ pc'[q] \in OnFile =>
        pc'[q] = pc[q] /\ file'[q] = file[q] /\ content'[q] = content[q]
  OBVIOUS
<1>. QED
  BY <1>1, FileStands DEF DocInv, FilesHold

LEMMA PutBytesHolds ==
  ASSUME DocInv, NEW c \in Clients, NEW f \in DocFiles, NEW v \in Contents, PutBytes(c, f, v)
  PROVE  FilesHold'
<1>1. /\ c \in Processes /\ pc[c] = "idle" /\ pc'[c] \notin OnFile
      /\ file' = [file EXCEPT ![c] = f]
      /\ \A q \in Processes \ {c} :
           pc'[q] = pc[q] /\ file'[q] = file[q] /\ content'[q] = content[q]
  BY DEF PutBytes, PutLocal, PutCache, Goto, OnFile, DocInv, DocTyped, ProcessesTyped, Processes
<1>2. /\ UNCHANGED <<storage, vectors, remote, chunks>> /\ f \notin gone' /\ gone' = gone \ {f}
      /\ local' = [local EXCEPT ![f] = v]
      /\ \/ storage = "local" /\ latest' = [latest EXCEPT ![f] = v]
         \/ storage = "minio" /\ latest' = latest
  BY DEF PutBytes, PutLocal, PutCache
<1>3. /\ disturbed'[f] = disturbed[f] \union Overlaps(c, f)
      /\ \A g \in DocFiles \ {f} : disturbed'[g] = disturbed[g]
  BY DisturbAdds DEF PutBytes, DocInv, DocTyped
<1>4. \A q \in Processes :
        /\ q \in Readers(f)' => /\ q \in Readers(f) /\ pc'[q] = pc[q] /\ content'[q] = content[q]
                                /\ "overlap" \in disturbed'[f]
        /\ q \in Deleters(f)' => q \in Deleters(f) /\ "delete" \in disturbed'[f]
  <2>. SUFFICES ASSUME NEW q \in Processes, q # c
                PROVE  /\ q \in Readers(f)' =>
                            q \in Readers(f) /\ pc'[q] = pc[q] /\ content'[q] = content[q]
                                               /\ "overlap" \in disturbed'[f]
                       /\ q \in Deleters(f)' => q \in Deleters(f) /\ "delete" \in disturbed'[f]
    BY <1>1 DEF Readers, Deleters, OnFile
  <2>. QED
    BY <1>1, <1>3, OverlapsRecorded DEF Readers, Deleters
<1>5. Readers(f)' \subseteq Processes /\ Deleters(f)' \subseteq Processes
  BY DEF Readers, Deleters
<1>6. (Unindexed(f)' <=> Unindexed(f)) /\ (IndexedOnce(f)' <=> IndexedOnce(f))
  BY <1>2 DEF Unindexed, IndexedOnce
<1>7. local'[f] = v
  BY <1>2 DEF DocInv, DocTyped, StoresTyped
<1>8. FileInv(f)
  BY DEF DocInv, FilesHold
<1>9. FileInv(f)'
  <2>1. MeetingsRecorded(f)'
    BY <1>3, <1>4, <1>5, <1>8 DEF FileInv, MeetingsRecorded
  <2>2. DeletersHold(f)'
    BY <1>4, <1>5 DEF DeletersHold
  <2>3. StoresHold(f)' /\ Survives(f)'
    BY <1>2, <1>3, <1>7, <1>8
       DEF DocInv, DocTyped, StoresTyped, FileInv, StoresHold, Survives, Stored
  <2>4. ReadersHold(f)'
    BY <1>4, <1>5 DEF ReadersHold
  <2>5. ClearedHolds(f)'
    BY <1>2, <1>3, <1>4, <1>5, <1>6, <1>8 DEF FileInv, ClearedHolds
  <2>6. GoneHolds(f)'
    BY <1>2 DEF GoneHolds
  <2>. QED
    BY <2>1, <2>2, <2>3, <2>4, <2>5, <2>6 DEF FileInv
<1>10. ASSUME NEW g \in DocFiles, g # f
       PROVE  FileInv(g)'
  <2>1. local'[g] = local[g] /\ latest'[g] = latest[g] /\ (g \in gone' => g \in gone)
    BY <1>2, <1>10 DEF DocInv, DocTyped, StoresTyped
  <2>. QED
    BY <1>1, <1>2, <1>3, <1>10, <2>1, OtherFilesStand
<1>. QED
  BY <1>9, <1>10 DEF FilesHold

LEMMA MirrorHolds ==
  ASSUME DocInv, NEW c \in Clients, Mirror(c)
  PROVE  FilesHold'
<1>0. PICK f \in DocFiles : f = file[c]
  BY DEF Mirror, DocInv, DocTyped, ProcessesTyped, Processes
<1>1. /\ c \in Processes /\ pc'[c] \notin OnFile /\ pc[c] = "mirroring" /\ f = file[c]
      /\ content[c] \in Contents /\ file' = file
      /\ \A q \in Processes \ {c} : pc'[q] = pc[q] /\ content'[q] = content[q]
  BY <1>0 DEF Mirror, Goto, OnFile, DocInv, DocTyped, ProcessesTyped, Processes
<1>2. /\ UNCHANGED <<storage, vectors, local, chunks>> /\ gone' = gone \ {f}
      /\ remote' = [remote EXCEPT ![f] = content[c]]
      /\ latest' = [latest EXCEPT ![f] = content[c]]
  BY <1>0 DEF Mirror
<1>3. /\ disturbed'[f] = disturbed[f] \union Overlaps(c, f)
      /\ \A g \in DocFiles \ {f} : disturbed'[g] = disturbed[g]
  BY <1>0, DisturbAdds DEF Mirror, DocInv, DocTyped
<1>4. \A q \in Processes :
        /\ q \in Readers(f)' => /\ q \in Readers(f) /\ pc'[q] = pc[q] /\ content'[q] = content[q]
                                /\ "overlap" \in disturbed'[f]
        /\ q \in Deleters(f)' => q \in Deleters(f) /\ "delete" \in disturbed'[f]
  <2>. SUFFICES ASSUME NEW q \in Processes, q # c
                PROVE  /\ q \in Readers(f)' =>
                            q \in Readers(f) /\ pc'[q] = pc[q] /\ content'[q] = content[q]
                                               /\ "overlap" \in disturbed'[f]
                       /\ q \in Deleters(f)' => q \in Deleters(f) /\ "delete" \in disturbed'[f]
    BY <1>1 DEF Readers, Deleters, OnFile
  <2>. QED
    BY <1>1, <1>3, OverlapsRecorded DEF Readers, Deleters
<1>5. Readers(f)' \subseteq Processes /\ Deleters(f)' \subseteq Processes
  BY DEF Readers, Deleters
<1>6. (Unindexed(f)' <=> Unindexed(f)) /\ (IndexedOnce(f)' <=> IndexedOnce(f))
  BY <1>2 DEF Unindexed, IndexedOnce
<1>7. remote'[f] = content[c] /\ latest'[f] = content[c]
  BY <1>1, <1>2 DEF DocInv, DocTyped, StoresTyped
<1>8. FileInv(f)
  BY <1>1 DEF DocInv, FilesHold
<1>9. storage = "minio"
  BY <1>1 DEF DocInv, DocTyped, ProcessesTyped
<1>10. FileInv(f)'
  <2>1. MeetingsRecorded(f)'
    BY <1>3, <1>4, <1>5, <1>8 DEF FileInv, MeetingsRecorded
  <2>2. DeletersHold(f)'
    BY <1>4, <1>5 DEF DeletersHold
  <2>3. StoresHold(f)' /\ Survives(f)'
    BY <1>2, <1>7, <1>9 DEF StoresHold, Survives, Stored
  <2>4. ReadersHold(f)'
    BY <1>2, <1>9 DEF ReadersHold
  <2>5. ClearedHolds(f)'
    BY <1>2, <1>3, <1>4, <1>5, <1>6, <1>8 DEF FileInv, ClearedHolds
  <2>6. GoneHolds(f)'
    BY <1>2 DEF GoneHolds
  <2>. QED
    BY <2>1, <2>2, <2>3, <2>4, <2>5, <2>6 DEF FileInv
<1>11. ASSUME NEW g \in DocFiles, g # f
       PROVE  FileInv(g)'
  <2>1. remote'[g] = remote[g] /\ latest'[g] = latest[g] /\ (g \in gone' => g \in gone)
    BY <1>2, <1>11 DEF DocInv, DocTyped, StoresTyped
  <2>. QED
    BY <1>1, <1>2, <1>3, <1>11, <2>1, OtherFilesStand
<1>. QED
  BY <1>10, <1>11 DEF FilesHold

LEMMA DeleteDocumentHolds ==
  ASSUME DocInv, NEW c \in Clients, NEW f \in DocFiles, DeleteDocument(c, f)
  PROVE  FilesHold'
<1>1. /\ c \in Processes /\ pc[c] = "idle" /\ pc'[c] \in {"unmirroring", "purging"}
      /\ storage = "minio" => pc'[c] = "unmirroring"
      /\ file' = [file EXCEPT ![c] = f] /\ content' = content
      /\ \A q \in Processes \ {c} : pc'[q] = pc[q] /\ file'[q] = file[q]
  BY DEF DeleteDocument, Goto, DocInv, DocTyped, ProcessesTyped, Processes
<1>2. /\ UNCHANGED <<storage, vectors, remote, chunks, gone>>
      /\ local' = [local EXCEPT ![f] = NoContent] /\ latest' = [latest EXCEPT ![f] = NoContent]
  BY DEF DeleteDocument
<1>3. /\ disturbed[f] \subseteq disturbed'[f]
      /\ Readers(f) \union Deleters(f) # {} => "delete" \in disturbed'[f]
      /\ \A g \in DocFiles \ {f} : disturbed'[g] = disturbed[g]
  BY DisturbAdds DEF DeleteDocument, DocInv, DocTyped
<1>4. \A q \in Processes :
        /\ q \in Readers(f)' => q \in Readers(f) /\ pc'[q] = pc[q] /\ "delete" \in disturbed'[f]
        /\ q \in Deleters(f)' => q = c \/ "delete" \in disturbed'[f]
  BY <1>1, <1>3, OnFileMeans DEF Readers, Deleters
<1>5. Readers(f)' \subseteq Processes /\ Deleters(f)' \subseteq Processes
  BY DEF Readers, Deleters
<1>6. (Unindexed(f)' <=> Unindexed(f)) /\ (IndexedOnce(f)' <=> IndexedOnce(f))
  BY <1>2 DEF Unindexed, IndexedOnce
<1>7. local'[f] = NoContent /\ latest'[f] = NoContent
  BY <1>2 DEF DocInv, DocTyped, StoresTyped
<1>8. FileInv(f)
  BY DEF DocInv, FilesHold
<1>9. FileInv(f)'
  <2>1. MeetingsRecorded(f)'
    BY <1>3, <1>4, <1>5, <1>8 DEF FileInv, MeetingsRecorded
  <2>2. DeletersHold(f)'
    BY <1>1, <1>2, <1>4, <1>5, <1>7 DEF DeletersHold
  <2>3. StoresHold(f)' /\ Survives(f)' /\ ReadersHold(f)'
    BY <1>7 DEF StoresHold, Survives, ReadersHold
  <2>4. ClearedHolds(f)'
    BY <1>2, <1>3, <1>4, <1>5, <1>6, <1>8 DEF FileInv, ClearedHolds
  <2>5. GoneHolds(f)'
    BY <1>2, <1>3, <1>4, <1>5, <1>6, <1>7, <1>8 DEF FileInv, GoneHolds, Stored
  <2>. QED
    BY <2>1, <2>2, <2>3, <2>4, <2>5 DEF FileInv
<1>10. ASSUME NEW g \in DocFiles, g # f
       PROVE  FileInv(g)'
  <2>1. local'[g] = local[g] /\ latest'[g] = latest[g] /\ file'[c] = f
    BY <1>1, <1>2, <1>10 DEF DocInv, DocTyped, StoresTyped, ProcessesTyped
  <2>. QED
    BY <1>1, <1>2, <1>3, <1>10, <2>1, OtherFilesStand
<1>. QED
  BY <1>9, <1>10 DEF FilesHold

LEMMA RemoveRemoteHolds ==
  ASSUME DocInv, NEW c \in Clients, RemoveRemote(c)
  PROVE  FilesHold'
<1>0. PICK f \in DocFiles : f = file[c]
  BY DEF RemoveRemote, DocInv, DocTyped, ProcessesTyped, Processes
<1>1. /\ c \in Processes /\ pc[c] = "unmirroring" /\ pc'[c] = "purging" /\ f = file[c]
      /\ file' = file /\ content' = content /\ storage = "minio"
      /\ \A q \in Processes \ {c} : pc'[q] = pc[q]
  BY <1>0 DEF RemoveRemote, Goto, DocInv, DocTyped, ProcessesTyped, Processes
<1>2. /\ UNCHANGED <<storage, vectors, local, chunks, latest, gone, disturbed>>
      /\ remote' = [remote EXCEPT ![f] = NoContent]
  BY <1>0 DEF RemoveRemote, docHistory
<1>3. remote'[f] = NoContent
  BY <1>1, <1>2 DEF DocInv, DocTyped, StoresTyped
<1>4. c \in Deleters(f) /\ Deleters(f)' = Deleters(f) /\ Readers(f)' = Readers(f)
  BY <1>1 DEF Readers, Deleters
<1>5. \A q \in Readers(f) : q \in Processes /\ q # c /\ pc'[q] = pc[q]
  BY <1>1 DEF Readers
<1>6. (Unindexed(f)' <=> Unindexed(f)) /\ (IndexedOnce(f)' <=> IndexedOnce(f))
  BY <1>2 DEF Unindexed, IndexedOnce
<1>7. FileInv(f)
  BY <1>1 DEF DocInv, FilesHold
<1>8. FileInv(f)'
  <2>1. MeetingsRecorded(f)'
    BY <1>2, <1>4, <1>7 DEF FileInv, MeetingsRecorded
  <2>2. DeletersHold(f)'
    BY <1>2, <1>3, <1>4, <1>7 DEF FileInv, DeletersHold
  <2>3. StoresHold(f)' /\ Survives(f)'
    BY <1>1, <1>2, <1>4, <1>7 DEF FileInv, DeletersHold, StoresHold, Survives
  <2>4. ReadersHold(f)'
    BY <1>1, <1>2 DEF ReadersHold
  <2>5. ClearedHolds(f)'
    BY <1>2, <1>4, <1>5, <1>6, <1>7 DEF FileInv, ClearedHolds
  <2>6. GoneHolds(f)'
    BY <1>1, <1>2, <1>3, <1>4, <1>6, <1>7 DEF FileInv, GoneHolds, Stored
  <2>. QED
    BY <2>1, <2>2, <2>3, <2>4, <2>5, <2>6 DEF FileInv
<1>9. ASSUME NEW g \in DocFiles, g # f
      PROVE  FileInv(g)'
  <2>1. remote'[g] = remote[g] /\ file'[c] = f
    BY <1>1, <1>2, <1>9 DEF DocInv, DocTyped, StoresTyped
  <2>. QED
    BY <1>1, <1>2, <1>9, <2>1, OtherFilesStand
<1>. QED
  BY <1>8, <1>9 DEF FilesHold

(* What a deletion from the index leaves.                                  *)
LEMMA DeletionLeaves ==
  ASSUME DocInv, NEW f \in DocFiles, DeleteBySource(f)
  PROVE  /\ \A g \in DocFiles \ {f} : chunks'[g] = chunks[g] /\ disturbed'[g] = disturbed[g]
         /\ disturbed[f] \subseteq disturbed'[f]
         /\ Unindexed(f)' \/ (chunks'[f] = chunks[f] /\ "silent delete" \in disturbed'[f])
         /\ vectors = "degraded" => Unindexed(f)'
<1>1. CASE DeleteChunks(f)
  <2>1. chunks'[f] = NoChunks /\ \A g \in DocFiles \ {f} : chunks'[g] = chunks[g]
    BY <1>1 DEF DeleteChunks, DocInv, DocTyped, StoresTyped
  <2>2. Unindexed(f)' /\ disturbed' = disturbed
    BY <1>1, <2>1 DEF Unindexed, NoChunks, DeleteChunks
  <2>. QED
    BY <2>1, <2>2
<1>2. CASE HiddenFailure(f, "silent delete") /\ vectors # "degraded"
  <2>1. chunks' = chunks /\ Disturb(f, {"silent delete"})
    BY <1>2 DEF HiddenFailure
  <2>2. /\ disturbed'[f] = disturbed[f] \union {"silent delete"}
        /\ \A g \in DocFiles \ {f} : disturbed'[g] = disturbed[g]
    BY <2>1, DisturbAdds DEF DocInv, DocTyped
  <2>. QED
    BY <1>2, <2>1, <2>2
<1>3. CASE UNCHANGED <<chunks, disturbed>> /\ vectors = "degraded"
  <2>1. Unindexed(f)
    BY <1>3 DEF DocInv, FilesHold, FileInv, ClearedHolds
  <2>2. Unindexed(f)'
    BY <1>3, <2>1 DEF Unindexed
  <2>. QED
    BY <1>3, <2>2
<1>. QED
  BY <1>1, <1>2, <1>3 DEF DeleteBySource, DeleteMilvus, DeletePgVector, DeleteDegraded

LEMMA PurgeHolds ==
  ASSUME DocInv, NEW c \in Clients, Purge(c)
  PROVE  FilesHold'
<1>0. PICK f \in DocFiles : f = file[c]
  BY DEF Purge, DocInv, DocTyped, ProcessesTyped, Processes
<1>1. /\ c \in Processes /\ pc[c] = "purging" /\ pc'[c] \notin OnFile /\ content' = content
      /\ \A q \in Processes \ {c} : pc'[q] = pc[q] /\ file'[q] = file[q]
  BY DEF Purge, Goto, OnFile, DocInv, DocTyped, ProcessesTyped, Processes
<1>2. /\ UNCHANGED <<storage, vectors, local, remote, latest>> /\ gone' = gone \union {f}
      /\ DeleteBySource(f)
  BY <1>0 DEF Purge, storeVars
<1>3. c \in Deleters(f) /\ Readers(f) \subseteq Processes
  BY <1>0, <1>1 DEF Deleters, Readers
<1>4. \A q \in Processes :
        /\ q \in Readers(f)' => /\ q \in Readers(f) /\ pc'[q] = pc[q]
                                /\ "delete" \in disturbed[f]
        /\ q \in Deleters(f)' => q \in Deleters(f) /\ pc'[q] = pc[q]
  <2>1. \A q \in Readers(f) : q # c /\ "delete" \in disturbed[f]
    BY <1>1, <1>3 DEF DocInv, FilesHold, FileInv, MeetingsRecorded, Readers
  <2>. QED
    BY <1>1, <2>1 DEF Readers, Deleters, OnFile
<1>5. Readers(f)' \subseteq Processes /\ Deleters(f)' \subseteq Processes
  BY DEF Readers, Deleters
<1>6. FileInv(f)
  BY DEF DocInv, FilesHold
<1>7. /\ disturbed[f] \subseteq disturbed'[f]
      /\ Unindexed(f)' \/ (chunks'[f] = chunks[f] /\ "silent delete" \in disturbed'[f])
      /\ vectors = "degraded" => Unindexed(f)'
  BY <1>2, DeletionLeaves
<1>8. FileInv(f)'
  <2>1. MeetingsRecorded(f)'
    BY <1>4, <1>5, <1>6, <1>7 DEF FileInv, MeetingsRecorded
  <2>2. DeletersHold(f)'
    BY <1>2, <1>4, <1>5, <1>6, <1>7 DEF FileInv, DeletersHold
  <2>3. StoresHold(f)'
    BY <1>2, <1>6, <1>7 DEF FileInv, StoresHold
  <2>4. Survives(f)'
    BY <1>2, <1>3, <1>6, <1>7 DEF FileInv, DeletersHold, Survives
  <2>5. ReadersHold(f)'
    BY <1>4, <1>5, <1>7 DEF ReadersHold
  <2>6. ClearedHolds(f)'
    BY <1>2, <1>7 DEF ClearedHolds
  <2>7. GoneHolds(f)'
    <3>. SUFFICES ASSUME disturbed'[f] \cap {"delete", "silent delete"} = {}
                  PROVE  /\ Readers(f)' = {} /\ Unindexed(f)'
                         /\ local'[f] = NoContent /\ Stored(f)' = NoContent
      BY DEF GoneHolds
    <3>1. local[f] = NoContent /\ (storage = "minio" => remote[f] = NoContent)
      BY <1>1, <1>3, <1>6, <1>7 DEF FileInv, DeletersHold
    <3>. QED
      BY <1>2, <1>4, <1>5, <1>7, <3>1 DEF Stored
  <2>. QED
    BY <2>1, <2>2, <2>3, <2>4, <2>5, <2>6, <2>7 DEF FileInv
<1>9. ASSUME NEW g \in DocFiles, g # f
      PROVE  FileInv(g)'
  <2>1. chunks'[g] = chunks[g] /\ disturbed'[g] = disturbed[g] /\ (g \in gone' => g \in gone)
    BY <1>2, <1>9, DeletionLeaves
  <2>. QED
    BY <1>1, <1>2, <1>9, <2>1, OtherFilesStand
<1>. QED
  BY <1>8, <1>9 DEF FilesHold

(* The steps of an attempt on f, or of a file of a directory: all of them  *)
(* leave who is on f as it is, but for the process itself.                 *)
AttemptStep(p, f, s) ==
  /\ p \in Processes /\ file[p] = f /\ pc' = [pc EXCEPT ![p] = s]
  /\ UNCHANGED <<storage, vectors, remote, file, latest, gone>>

LEMMA AttemptMeets ==
  ASSUME DocInv, NEW p, NEW f \in DocFiles, NEW s \in DocStates, AttemptStep(p, f, s)
  PROVE  /\ p \in Processes /\ pc'[p] = s /\ file'[p] = f
         /\ \A q \in Processes \ {p} :
              /\ pc'[q] = pc[q] /\ file'[q] = file[q]
              /\ q \in Readers(f)' <=> q \in Readers(f)
              /\ q \in Deleters(f)' <=> q \in Deleters(f)
         /\ p \in Readers(f)' <=> s \in {"read", "cleared", "added"}
         /\ p \in Deleters(f)' <=> s \in {"unmirroring", "purging"}
         /\ p \in Readers(f) <=> pc[p] \in {"read", "cleared", "added"}
         /\ Readers(f) \subseteq Processes /\ Deleters(f) \subseteq Processes

      /\ Readers(f)' \subseteq Processes /\ Deleters(f)' \subseteq Processes
  BY DEF AttemptStep, Readers, Deleters, DocInv, DocTyped, ProcessesTyped

LEMMA ReadDocumentHolds ==
  ASSUME DocInv, NEW p \in Processes, ReadDocument(p)
  PROVE  FilesHold'
<1>0. PICK f \in DocFiles : f = file[p]
  BY DEF ReadDocument, DocInv, DocTyped, ProcessesTyped
<1>. DEFINE found == IF p \in Indexers THEN Stored(f) ELSE local[f]
<1>1. /\ pc[p] = "opening" /\ content' = [content EXCEPT ![p] = found]
      /\ AttemptStep(p, f, IF found = NoContent THEN "failing" ELSE "read")
      /\ UNCHANGED <<local, chunks>>
      /\ Disturb(f, IF found = NoContent THEN {} ELSE Overlaps(p, f))
  BY <1>0 DEF ReadDocument, AttemptStep, Goto, storeVars
<1>2. /\ \A q \in Processes \ {p} : content'[q] = content[q]
      /\ content'[p] = found
  BY <1>1 DEF DocInv, DocTyped, ProcessesTyped
<1>3. found = NoContent \/ found = local[f] \/ found = Stored(f)
  OBVIOUS
<1>4. storage = "local" => found = local[f]
  BY DEF Stored
<1>. HIDE DEF found
<1>5. \A g \in DocFiles \ {f} : disturbed'[g] = disturbed[g]
  BY <1>1, DisturbAdds DEF DocInv, DocTyped
<1>6. CASE found = NoContent
  <2>1. disturbed'[f] = disturbed[f] /\ AttemptStep(p, f, "failing")
    BY <1>1, <1>6, DisturbAdds DEF DocInv, DocTyped
  <2>2. \A q \in Processes : pc'[q] \in OnFile =>
          pc'[q] = pc[q] /\ file'[q] = file[q] /\ content'[q] = content[q]
    BY <1>2, <2>1, AttemptMeets DEF OnFile, DocStates
  <2>. SUFFICES ASSUME NEW g \in DocFiles
                PROVE  FileInv(g)'
    BY DEF FilesHold
  <2>. QED
    BY <1>1, <1>5, <2>1, <2>2, FileStands DEF DocInv, FilesHold, AttemptStep
<1>7. CASE found # NoContent
  <2>1. AttemptStep(p, f, "read")
    BY <1>1, <1>7
  <2>2. disturbed'[f] = disturbed[f] \union Overlaps(p, f)
    BY <1>1, <1>7, DisturbAdds DEF DocInv, DocTyped
  <2>3. UNCHANGED <<storage, vectors, remote, local, chunks, latest, gone>>
    BY <1>1, <2>1 DEF AttemptStep
  <2>4. /\ Stored(f)' = Stored(f) /\ (Unindexed(f)' <=> Unindexed(f))
        /\ (IndexedOnce(f)' <=> IndexedOnce(f))
    BY <2>3 DEF Stored, Unindexed, IndexedOnce
  <2>5. FileInv(f)
    BY DEF DocInv, FilesHold
  <2>6. \A q \in Readers(f)' \ {p} :
          q \in Readers(f) /\ pc'[q] = pc[q] /\ content'[q] = content[q]
    BY <1>2, <2>1, AttemptMeets DEF DocStates
  <2>7. pc'[p] = "read"
    BY <2>1, AttemptMeets DEF DocStates
  <2>8. FileInv(f)'
    <3>1. MeetingsRecorded(f)'
      BY <2>1, <2>2, <2>5, AttemptMeets, OverlapsRecorded DEF DocStates, FileInv, MeetingsRecorded
    <3>2. DeletersHold(f)'
      BY <2>1, <2>2, <2>3, <2>5, AttemptMeets DEF DocStates, FileInv, DeletersHold
    <3>3. StoresHold(f)' /\ Survives(f)'
      BY <2>2, <2>3, <2>4, <2>5 DEF FileInv, StoresHold, Survives
    <3>4. ReadersHold(f)'
      <4>. SUFFICES ASSUME NEW q \in Readers(f)'
                    PROVE  \/ storage' = "minio"
                           \/ latest'[f] = NoContent
                           \/ disturbed'[f] \cap {"overlap", "delete", "namesake"} # {}
                           \/ /\ pc'[q] \in {"read", "cleared"}
                              /\ content'[q] = latest'[f] /\ local'[f] = latest'[f]
                           \/ /\ pc'[q] = "added"
                              /\ chunks'[f][latest'[f]] > 0 \/ "silent add" \in disturbed'[f]
        BY DEF ReadersHold
      <4>1. CASE q = p
        BY <1>2, <1>4, <1>7, <2>1, <2>3, <2>5, <4>1, AttemptMeets
           DEF DocStates, FileInv, StoresHold, DocInv, DocTyped, StoresTyped
      <4>2. CASE q # p
        BY <2>2, <2>3, <2>5, <2>6, <4>2 DEF FileInv, ReadersHold
      <4>. QED
        BY <4>1, <4>2
    <3>5. ClearedHolds(f)'
      BY <2>2, <2>3, <2>4, <2>5, <2>6, <2>7 DEF FileInv, ClearedHolds
    <3>6. GoneHolds(f)'
      BY <1>3, <1>7, <2>2, <2>3, <2>5 DEF FileInv, GoneHolds
    <3>. QED
      BY <3>1, <3>2, <3>3, <3>4, <3>5, <3>6 DEF FileInv
  <2>9. ASSUME NEW g \in DocFiles, g # f
        PROVE  FileInv(g)'
    BY <1>2, <1>5, <2>1, <2>3, <2>9, AttemptMeets, OtherFilesStand DEF DocStates
  <2>. QED
    BY <2>8, <2>9 DEF FilesHold
<1>. QED
  BY <1>6, <1>7

LEMMA ClearOldHolds ==
  ASSUME DocInv, NEW p \in Processes, ClearOld(p)
  PROVE  FilesHold'
<1>0. PICK f \in DocFiles : f = file[p]
  BY DEF ClearOld, DocInv, DocTyped, ProcessesTyped
<1>1. /\ pc[p] = "read" /\ AttemptStep(p, f, "cleared") /\ DeleteBySource(f)
      /\ UNCHANGED <<storage, vectors, local, remote, latest, gone, content>>
  BY <1>0 DEF ClearOld, AttemptStep, Goto, storeVars
<1>2. /\ p \in Readers(f) /\ p \in Readers(f)' /\ pc'[p] = "cleared" /\ file'[p] = f
      /\ \A q \in Processes \ {p} :
           /\ pc'[q] = pc[q] /\ file'[q] = file[q]
           /\ q \in Readers(f)' <=> q \in Readers(f)
           /\ q \in Deleters(f)' <=> q \in Deleters(f)
      /\ p \notin Deleters(f)'
      /\ Readers(f)' \subseteq Processes /\ Deleters(f)' \subseteq Processes
  BY <1>1, AttemptMeets DEF DocStates
<1>3. /\ disturbed[f] \subseteq disturbed'[f]
      /\ Unindexed(f)' \/ (chunks'[f] = chunks[f] /\ "silent delete" \in disturbed'[f])
      /\ vectors = "degraded" => Unindexed(f)'
  BY <1>1, DeletionLeaves
<1>4. FileInv(f) /\ Stored(f)' = Stored(f)
  BY <1>1 DEF DocInv, FilesHold, Stored
<1>5. \A q \in Readers(f)' \ {p} : q \in Readers(f) /\ "overlap" \in disturbed'[f]
  BY <1>1, <1>2, <1>3, <1>4 DEF FileInv, MeetingsRecorded
<1>6. FileInv(f)'
  <2>1. MeetingsRecorded(f)'
    BY <1>1, <1>2, <1>3, <1>4 DEF FileInv, MeetingsRecorded
  <2>2. DeletersHold(f)'
    BY <1>1, <1>2, <1>3, <1>4 DEF FileInv, DeletersHold
  <2>3. StoresHold(f)'
    BY <1>1, <1>3, <1>4 DEF FileInv, StoresHold
  <2>4. \/ storage = "minio"
        \/ latest[f] = NoContent
        \/ disturbed[f] \cap {"overlap", "delete", "namesake"} # {}
        \/ content[p] = latest[f] /\ local[f] = latest[f]
    BY <1>1, <1>2, <1>4 DEF FileInv, ReadersHold
  <2>5. ReadersHold(f)'
    BY <1>1, <1>2, <1>3, <1>5, <2>4 DEF ReadersHold
  <2>6. Survives(f)'
    BY <1>1, <1>3, <1>4, <2>4
       DEF DocInv, DocTyped, StoresTyped, FileInv, StoresHold, Survives, Stored
  <2>7. ClearedHolds(f)'
    BY <1>1, <1>3 DEF ClearedHolds
  <2>8. GoneHolds(f)'
    BY <1>1, <1>2, <1>3, <1>4 DEF FileInv, GoneHolds
  <2>. QED
    BY <2>1, <2>2, <2>3, <2>5, <2>6, <2>7, <2>8 DEF FileInv
<1>7. ASSUME NEW g \in DocFiles, g # f
      PROVE  FileInv(g)'
  <2>1. chunks'[g] = chunks[g] /\ disturbed'[g] = disturbed[g]
    BY <1>1, <1>7, DeletionLeaves
  <2>. QED
    BY <1>1, <1>2, <1>7, <2>1, OtherFilesStand DEF AttemptStep
<1>. QED
  BY <1>6, <1>7 DEF FilesHold

(* What an insertion leaves: one more of the content, or on record why not.*)
LEMMA InsertionLeaves ==
  ASSUME StoresTyped, NEW f \in DocFiles, NEW v \in Contents,
         AddMilvus(f, v) \/ AddPgVector(f, v) \/ AddDegraded(f)
  PROVE  /\ \A g \in DocFiles \ {f} : chunks'[g] = chunks[g] /\ disturbed'[g] = disturbed[g]
         /\ disturbed[f] \subseteq disturbed'[f]
         /\ vectors = "degraded" => chunks'[f] = chunks[f]
         /\ \/ /\ chunks'[f][v] = chunks[f][v] + 1
               /\ \A c \in Contents \ {v} : chunks'[f][c] = chunks[f][c]
            \/ chunks'[f] = chunks[f]
         /\ chunks'[f][v] > 0 \/ "silent add" \in disturbed'[f]
<1>1. CASE AddChunks(f, v) /\ vectors # "degraded"
  <2>1. chunks[f] \in [Contents -> Nat]
    BY DEF StoresTyped
  <2>2. chunks' = [chunks EXCEPT ![f] = [chunks[f] EXCEPT ![v] = @ + 1]] /\ disturbed' = disturbed
    BY <1>1 DEF AddChunks
  <2>3. /\ chunks'[f] = [chunks[f] EXCEPT ![v] = @ + 1]
        /\ \A g \in DocFiles \ {f} : chunks'[g] = chunks[g]
    BY <2>2 DEF StoresTyped
  <2>4. /\ chunks'[f][v] = chunks[f][v] + 1 /\ chunks'[f][v] > 0
        /\ \A c \in Contents \ {v} : chunks'[f][c] = chunks[f][c]
    BY <2>1, <2>3
  <2>. QED
    BY <1>1, <2>2, <2>3, <2>4
<1>2. CASE chunks' = chunks /\ Disturb(f, {"silent add"})
  <2>1. /\ disturbed'[f] = disturbed[f] \union {"silent add"}
        /\ \A g \in DocFiles \ {f} : disturbed'[g] = disturbed[g]
    BY <1>2, DisturbAdds
  <2>. QED
    BY <1>2, <2>1
<1>. QED
  BY <1>1, <1>2 DEF AddMilvus, AddPgVector, AddDegraded, HiddenFailure

LEMMA AddNewHolds ==
  ASSUME DocInv, NEW p \in Processes, AddNew(p)
  PROVE  FilesHold'
<1>0. PICK f \in DocFiles, v \in Contents : f = file[p] /\ v = content[p]
  BY DEF AddNew, DocInv, DocTyped, ProcessesTyped
<1>1. /\ pc[p] = "cleared" /\ AttemptStep(p, f, "added")
      /\ AddMilvus(f, v) \/ AddPgVector(f, v) \/ AddDegraded(f)
      /\ UNCHANGED <<storage, vectors, local, remote, latest, gone, content>>
  BY <1>0 DEF AddNew, AttemptStep, Goto, storeVars
<1>2. /\ p \in Readers(f) /\ p \in Readers(f)' /\ pc'[p] = "added" /\ file'[p] = f
      /\ \A q \in Processes \ {p} :
           /\ pc'[q] = pc[q] /\ file'[q] = file[q]
           /\ q \in Readers(f)' <=> q \in Readers(f)
           /\ q \in Deleters(f)' <=> q \in Deleters(f)
      /\ p \notin Deleters(f)'
      /\ Readers(f)' \subseteq Processes /\ Deleters(f)' \subseteq Processes
  BY <1>1, AttemptMeets DEF DocStates
<1>3. /\ \A g \in DocFiles \ {f} : chunks'[g] = chunks[g] /\ disturbed'[g] = disturbed[g]
      /\ disturbed[f] \subseteq disturbed'[f]
      /\ vectors = "degraded" => chunks'[f] = chunks[f]
      /\ chunks'[f][v] > 0 \/ "silent add" \in disturbed'[f]
  BY <1>1, InsertionLeaves DEF DocInv, DocTyped
<1>4. \/ /\ chunks'[f][v] = chunks[f][v] + 1
         /\ \A c \in Contents \ {v} : chunks'[f][c] = chunks[f][c]
      \/ chunks'[f] = chunks[f]
  BY <1>1, InsertionLeaves DEF DocInv, DocTyped
<1>5. \A c \in Contents : chunks[f][c] \in Nat /\ chunks'[f][c] >= chunks[f][c]
  <2>1. chunks[f] \in [Contents -> Nat]
    BY DEF DocInv, DocTyped, StoresTyped
  <2>. QED
    BY <1>4, <2>1
<1>6. FileInv(f) /\ Stored(f)' = Stored(f)
  BY <1>1 DEF DocInv, FilesHold, Stored
<1>7. \A q \in Readers(f)' \ {p} : q \in Readers(f) /\ "overlap" \in disturbed'[f]
  BY <1>1, <1>2, <1>3, <1>6 DEF FileInv, MeetingsRecorded
<1>8. FileInv(f)'
  <2>1. MeetingsRecorded(f)'
    BY <1>1, <1>2, <1>3, <1>6 DEF FileInv, MeetingsRecorded
  <2>2. DeletersHold(f)'
    <3>1. "delete" \in disturbed[f] => "delete" \in disturbed'[f]
      BY <1>3
    <3>. QED
      BY <1>1, <1>2, <1>6, <3>1 DEF FileInv, DeletersHold
  <2>3. StoresHold(f)'
    BY <1>1, <1>3, <1>6 DEF FileInv, StoresHold
  <2>4. \/ storage = "minio"
        \/ latest[f] = NoContent
        \/ disturbed[f] \cap {"overlap", "delete", "namesake"} # {}
        \/ v = latest[f]
    BY <1>0, <1>1, <1>2, <1>6 DEF FileInv, ReadersHold
  <2>5. v = latest[f] => (chunks'[f][latest[f]] > 0 \/ "silent add" \in disturbed'[f])
    BY <1>3
  <2>6. ReadersHold(f)'
    BY <1>1, <1>2, <1>3, <1>7, <2>4, <2>5 DEF ReadersHold
  <2>7. Survives(f)'
    <3>1. latest[f] # NoContent => latest[f] \in Contents
      BY DEF DocInv, DocTyped, StoresTyped
    <3>2. (latest[f] \in Contents /\ chunks[f][latest[f]] > 0) => chunks'[f][latest[f]] > 0
      <4>1. \A c \in Contents : chunks'[f][c] \in Nat
        BY <1>4, <1>5
      <4>. QED
        BY <1>5, <4>1
    <3>. QED
      BY <1>1, <1>3, <1>6, <3>1, <3>2 DEF FileInv, Survives
  <2>8. CASE disturbed'[f] \cap {"overlap", "delete", "silent delete"} # {}
    <3>1. vectors = "degraded" => Unindexed(f)'
      BY <1>3, <1>6 DEF FileInv, ClearedHolds, Unindexed
    <3>2. ClearedHolds(f)'
      BY <1>1, <2>8, <3>1 DEF ClearedHolds
    <3>. QED
      BY <1>1, <1>2, <1>3, <1>6, <2>1, <2>2, <2>3, <2>6, <2>7, <3>2 DEF FileInv, GoneHolds
  <2>9. CASE disturbed'[f] \cap {"overlap", "delete", "silent delete"} = {}
    <3>1. Unindexed(f)
      BY <1>1, <1>2, <1>3, <1>6, <2>9 DEF FileInv, ClearedHolds
    <3>2. \A c \in Contents : chunks[f][c] = 0
      BY <3>1 DEF Unindexed
    <3>3. vectors = "degraded" => Unindexed(f)'
      BY <1>3, <3>2 DEF Unindexed
    <3>4. Unindexed(f)' \/ IndexedOnce(f)'
      <4>1. CASE chunks'[f] = chunks[f]
        BY <3>2, <4>1 DEF Unindexed
      <4>2. CASE chunks'[f] # chunks[f]
        <5>1. chunks'[f][v] = 1 /\ \A c \in Contents \ {v} : chunks'[f][c] = 0
          BY <1>4, <3>2, <4>2
        <5>. QED
          BY <5>1 DEF IndexedOnce
      <4>. QED
        BY <4>1, <4>2
    <3>5. ClearedHolds(f)'
      BY <1>1, <1>2, <1>7, <2>9, <3>3, <3>4 DEF ClearedHolds
    <3>. QED
      BY <1>1, <1>2, <1>3, <1>6, <2>1, <2>2, <2>3, <2>6, <2>7, <3>5 DEF FileInv, GoneHolds
  <2>. QED
    BY <2>8, <2>9
<1>9. ASSUME NEW g \in DocFiles, g # f
      PROVE  FileInv(g)'
  BY <1>1, <1>2, <1>3, <1>9, OtherFilesStand DEF AttemptStep
<1>. QED
  BY <1>8, <1>9 DEF FilesHold

LEMMA CleanupLocalHolds ==
  ASSUME DocInv, NEW w \in Indexers, CleanupLocal(w)
  PROVE  FilesHold'
<1>0. PICK f \in DocFiles : f = file[w]
  BY DEF CleanupLocal, DocInv, DocTyped, ProcessesTyped, Processes
<1>1. /\ pc[w] \in {"added", "astray"} /\ AttemptStep(w, f, "cleaned")
      /\ UNCHANGED <<storage, vectors, remote, chunks, latest, gone, content>>
  BY <1>0 DEF CleanupLocal, AttemptStep, Goto, Processes
<1>2. /\ local'[f] \in {NoContent, local[f]}
      /\ \A g \in DocFiles \ {f} : local'[g] = local[g] /\ disturbed'[g] = disturbed[g]
      /\ disturbed'[f] \in {disturbed[f], disturbed[f] \union {"namesake"}}
      /\ pc[w] = "added" \/ local'[f] = local[f] \/ "namesake" \in disturbed'[f]
  <2>1. CASE UNCHANGED <<local, disturbed>>
    BY <2>1
  <2>2. CASE /\ local' = [local EXCEPT ![f] = NoContent]
             /\ Disturb(f, IF pc[w] = "astray" THEN {"namesake"} ELSE {})
    <3>1. /\ disturbed'[f] =
               disturbed[f] \union (IF pc[w] = "astray" THEN {"namesake"} ELSE {})
          /\ \A g \in DocFiles \ {f} : disturbed'[g] = disturbed[g]
      BY <2>2, DisturbAdds DEF DocInv, DocTyped
    <3>2. local'[f] = NoContent /\ \A g \in DocFiles \ {f} : local'[g] = local[g]
      BY <2>2 DEF DocInv, DocTyped, StoresTyped
    <3>. QED
      BY <1>1, <3>1, <3>2
  <2>. QED
    BY <1>0, <2>1, <2>2 DEF CleanupLocal
<1>3. /\ w \in Readers(f) <=> pc[w] = "added"
      /\ w \notin Readers(f)' /\ file'[w] = f
      /\ \A q \in Processes \ {w} :
           /\ pc'[q] = pc[q] /\ file'[q] = file[q]
           /\ q \in Readers(f)' <=> q \in Readers(f)
           /\ q \in Deleters(f)' <=> q \in Deleters(f)
      /\ w \notin Deleters(f)'
      /\ Readers(f)' \subseteq Processes /\ Deleters(f)' \subseteq Processes
  BY <1>1, AttemptMeets DEF DocStates
<1>4. /\ FileInv(f) /\ (Unindexed(f)' <=> Unindexed(f)) /\ (IndexedOnce(f)' <=> IndexedOnce(f))
  BY <1>1 DEF DocInv, FilesHold, Unindexed, IndexedOnce
<1>5. \A q \in Readers(f)' :
        /\ q \in Readers(f) /\ pc'[q] = pc[q] /\ content'[q] = content[q]
        /\ "overlap" \in disturbed[f] \/ local'[f] = local[f] \/ "namesake" \in disturbed'[f]
  BY <1>1, <1>2, <1>3, <1>4 DEF FileInv, MeetingsRecorded
<1>6. FileInv(f)'
  <2>1. MeetingsRecorded(f)'
    BY <1>1, <1>2, <1>3, <1>4 DEF FileInv, MeetingsRecorded
  <2>2. DeletersHold(f)'
    BY <1>1, <1>2, <1>3, <1>4 DEF FileInv, DeletersHold
  <2>3. StoresHold(f)'
    BY <1>1, <1>2, <1>4 DEF FileInv, StoresHold
  <2>4. ReadersHold(f)'
    BY <1>1, <1>2, <1>4, <1>5 DEF FileInv, ReadersHold
  <2>5. Survives(f)'
    <3>1. CASE storage = "minio"
      BY <1>1, <1>2, <1>4, <3>1 DEF FileInv, Survives, Stored
    <3>2. CASE storage = "local" /\ pc[w] = "added"
      <4>1. \/ latest[f] = NoContent
            \/ disturbed[f] \cap {"overlap", "delete", "namesake"} # {}
            \/ chunks[f][latest[f]] > 0 \/ "silent add" \in disturbed[f]
        BY <1>1, <1>3, <1>4, <3>2 DEF FileInv, ReadersHold
      <4>. QED
        BY <1>1, <1>2, <3>2, <4>1 DEF Survives
    <3>3. CASE storage = "local" /\ pc[w] # "added"
      BY <1>1, <1>2, <1>4, <3>3 DEF FileInv, Survives, Stored
    <3>. QED
      BY <3>1, <3>2, <3>3 DEF DocInv, DocTyped, StoresTyped
  <2>6. ClearedHolds(f)'
    BY <1>1, <1>2, <1>4, <1>5 DEF FileInv, ClearedHolds
  <2>7. GoneHolds(f)'
    BY <1>1, <1>2, <1>3, <1>4 DEF FileInv, GoneHolds, Stored
  <2>. QED
    BY <2>1, <2>2, <2>3, <2>4, <2>5, <2>6, <2>7 DEF FileInv
<1>7. ASSUME NEW g \in DocFiles, g # f
      PROVE  FileInv(g)'
  BY <1>1, <1>2, <1>3, <1>7, OtherFilesStand DEF AttemptStep
<1>. QED
  BY <1>6, <1>7 DEF FilesHold

(* All the other steps touch no store, and end on no file or stay on it.   *)
LEMMA RequestsHold ==
  ASSUME DocInv, NEW c \in Clients,
         \/ SubmitDocument(c) \/ InsertTask(c) \/ EnqueueDocument(c) \/ Answer(c)
         \/ IndexDirectory(c) \/ NextFile(c) \/ RequestDies(c)
  PROVE  FilesHold'
<1>1. UNCHANGED <<storage, vectors, storeVars, chunks, docHistory>>
  BY DEF SubmitDocument, InsertTask, EnqueueDocument, Answer, IndexDirectory, NextFile,
         RequestDies
<1>2. /\ c \in Processes /\ pc'[c] \notin OnFile
      /\ \A q \in Processes \ {c} :
           pc'[q] = pc[q] /\ file'[q] = file[q] /\ content'[q] = content[q]
  <2>1. CASE SubmitDocument(c) \/ InsertTask(c) \/ EnqueueDocument(c)
    BY <2>1 DEF SubmitDocument, InsertTask, EnqueueDocument, Goto, OnFile, Processes, DocInv,
                DocTyped, ProcessesTyped
  <2>2. CASE Answer(c) \/ IndexDirectory(c) \/ RequestDies(c)
    BY <2>2 DEF Answer, IndexDirectory, RequestDies, Release, Goto, OnFile, Processes, DocInv,
                DocTyped, ProcessesTyped
  <2>3. CASE NextFile(c)
    BY <2>3 DEF NextFile, Goto, OnFile, Processes, DocInv, DocTyped, ProcessesTyped
  <2>. QED
    BY <2>1, <2>2, <2>3
<1>. QED
  BY <1>1, <1>2, StoresStand

LEMMA IndexersHold ==
  ASSUME DocInv, NEW w \in Indexers,
         \/ \E t \in DocTasks : ClaimDocument(w, t)
         \/ ReadNamesake(w) \/ CompleteDocument(w) \/ FailDocument(w) \/ IndexerDies(w)
  PROVE  FilesHold'
<1>1. UNCHANGED <<storage, vectors, storeVars, chunks, docHistory>>
  BY DEF ClaimDocument, ReadNamesake, CompleteDocument, FailDocument, IndexerDies
<1>2. /\ w \in Processes /\ pc'[w] \notin OnFile
      /\ \A q \in Processes \ {w} :
           pc'[q] = pc[q] /\ file'[q] = file[q] /\ content'[q] = content[q]
  BY DEF ClaimDocument, ReadNamesake, CompleteDocument, FailDocument, IndexerDies, Release,
         Goto, OnFile, Processes, DocInv, DocTyped, ProcessesTyped
<1>. QED
  BY <1>1, <1>2, StoresStand

LEMMA RaisesHold ==
  ASSUME DocInv, NEW p \in Processes, StepRaises(p)
  PROVE  FilesHold'
<1>1. UNCHANGED <<storage, vectors, storeVars, chunks, docHistory, file, content>>
  BY DEF StepRaises
<1>2. pc'[p] \notin OnFile /\ \A q \in Processes \ {p} : pc'[q] = pc[q]
  BY DEF StepRaises, Goto, OnFile, DocInv, DocTyped, ProcessesTyped
<1>. QED
  BY <1>1, <1>2, StoresStand

LEMMA RowWritesHold ==
  ASSUME DocInv, NEW t \in DocTasks, RetryTask(t) \/ TakeBackDocument(t)
  PROVE  FilesHold'
  BY StoresStand DEF RetryTask, TakeBackDocument, procVars
----------------------------------------------------------------------------
LEMMA DocInvInitially == DocInit => DocInv
<1>. SUFFICES ASSUME DocInit, NEW f \in DocFiles
              PROVE  FileInv(f)
  BY DocTypedInitially DEF DocInv, FilesHold
<1>1. Readers(f) = {} /\ Deleters(f) = {} /\ Unindexed(f)
  BY DEF DocInit, Readers, Deleters, Unindexed, NoChunks
<1>. QED
  BY <1>1 DEF DocInit, FileInv, MeetingsRecorded, DeletersHold, StoresHold, ReadersHold,
              Survives, ClearedHolds, GoneHolds

(* The steps of one request, and those of the attempts; what composes with *)
(* the documents cites these two.                                          *)
LEMMA RequestStepKeeps ==
  ASSUME DocInv, NEW c \in Clients, RequestStep(c)
  PROVE  DocInv'
<1>1. DocTyped'
  BY DeleteDocumentTyped, IndexDirectoryTyped, MirrorTyped, SubmitDocumentTyped,
     InsertTaskTyped, EnqueueDocumentTyped, AnswerTyped, RemoveRemoteTyped, PurgeTyped,
     NextFileTyped, RequestDiesTyped DEF RequestStep, UploadStep, DocInv
<1>2. FilesHold'
  BY DeleteDocumentHolds, MirrorHolds, RemoveRemoteHolds, PurgeHolds, RequestsHold
     DEF RequestStep, UploadStep
<1>. QED
  BY <1>1, <1>2 DEF DocInv

LEMMA IndexingStepKeeps ==
  ASSUME DocInv, IndexingStep
  PROVE  DocInv'
<1>1. ASSUME NEW p \in Processes, IndexStep(p)
      PROVE  DocInv'
  <2>1. DocTyped'
    BY <1>1, ReadDocumentTyped, ClearOldTyped, AddNewTyped, StepRaisesTyped DEF IndexStep, DocInv
  <2>2. FilesHold'
    BY <1>1, ReadDocumentHolds, ClearOldHolds, AddNewHolds, RaisesHold DEF IndexStep
  <2>. QED
    BY <2>1, <2>2 DEF DocInv
<1>2. ASSUME NEW w \in Indexers, IndexerStep(w)
      PROVE  DocInv'
  <2>1. DocTyped'
    BY <1>2, ClaimDocumentTyped, ReadNamesakeTyped, CleanupLocalTyped, CompleteDocumentTyped,
       FailDocumentTyped, IndexerDiesTyped DEF IndexerStep, DocInv
  <2>2. FilesHold'
    BY <1>2, CleanupLocalHolds, IndexersHold DEF IndexerStep
  <2>. QED
    BY <2>1, <2>2 DEF DocInv
<1>3. ASSUME NEW t \in DocTasks, TakeBackDocument(t)
      PROVE  DocInv'
  BY <1>3, RowWritesTyped, RowWritesHold DEF DocInv
<1>. QED
  BY <1>1, <1>2, <1>3 DEF IndexingStep

LEMMA PutBytesKeeps ==
  ASSUME DocInv, NEW c \in Clients, NEW f \in DocFiles, NEW v \in Contents, PutBytes(c, f, v)
  PROVE  DocInv'
  BY PutBytesTyped, PutBytesHolds DEF DocInv

LEMMA DocInvInductive ==
  ASSUME DocInv, [DocNext]_docVars
  PROVE  DocInv'
<1>1. CASE UNCHANGED docVars
  <2>1. DocTyped'
    BY <1>1 DEF docVars, taskVars, storeVars, procVars, docHistory, DocInv, DocTyped,
                TasksTyped, ProcessesTyped, StoresTyped
  <2>2. FilesHold'
    BY <1>1, StoresStand DEF docVars, procVars
  <2>. QED
    BY <2>1, <2>2 DEF DocInv
<1>2. ASSUME NEW c \in Clients, NEW f \in DocFiles, NEW v \in Contents, Upload(c, f, v)
      PROVE  DocInv'
  BY <1>2, PutBytesKeeps DEF Upload
<1>3. ASSUME NEW t \in DocTasks, RetryTask(t)
      PROVE  DocInv'
  BY <1>3, RowWritesTyped, RowWritesHold DEF DocInv
<1>. QED
  BY <1>1, <1>2, <1>3, RequestStepKeeps, IndexingStepKeeps DEF DocNext

LEMMA DocInvAlways == DocSpec => []DocInv
  BY DocInvInitially, DocInvInductive, PTL DEF DocSpec

(* Every variable of the documents keeps its type, and a dispatcher is on  *)
(* a task exactly while the task's row counts it as running.               *)
THEOREM DocTypesHold == DocSpec => []DocTypeOK
<1>1. DocInv => DocTypeOK
  BY DEF DocInv, DocTyped, TasksTyped, ProcessesTyped, StoresTyped, DocTypeOK
<1>. QED
  BY <1>1, DocInvAlways, PTL

(* The content that was uploaded last is never lost from both the store    *)
(* and the index, whatever the number of dispatchers, requests and         *)
(* failures, unless one of the recorded events met the file.               *)
THEOREM ContentSurvivesHolds == DocSpec => []ContentSurvives
<1>1. DocInv => ContentSurvives
  BY DEF DocInv, FilesHold, FileInv, Survives, ContentSurvives
<1>. QED
  BY <1>1, DocInvAlways, PTL

(* The index never holds two generations of a file, unless an attempt      *)
(* overlapped another or the index hid a failed deletion.                  *)
THEOREM OneGenerationHolds == DocSpec => []OneGeneration
<1>1. DocInv => OneGeneration
  BY DEF DocInv, FilesHold, FileInv, ClearedHolds, OneGeneration
<1>. QED
  BY <1>1, DocInvAlways, PTL

(* A deleted document stays out of the store and of the index until it is  *)
(* uploaded again, unless somebody had read it before or the index hid a   *)
(* failed deletion.                                                        *)
THEOREM GoneStaysGoneHolds == DocSpec => []GoneStaysGone
<1>1. DocInv => GoneStaysGone
  BY DEF DocInv, DocTyped, StoresTyped, FilesHold, FileInv, GoneHolds, GoneStaysGone
<1>. QED
  BY <1>1, DocInvAlways, PTL
=============================================================================
