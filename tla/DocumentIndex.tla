--------------------------- MODULE DocumentIndex ---------------------------
(***************************************************************************)
(* Knowledge documents: the object store (a local directory, or MinIO with *)
(* a local cache), the vector index (Milvus, pgvector or the degraded      *)
(* no-op), and the operations on them: upload, indexing by a dispatcher,   *)
(* indexing a directory, delete.  The tasks that order the indexing are    *)
(* what TaskLifecycle promises of them (IndexingQueue implements it).      *)
(*                                                                         *)
(* A step is one call to a store, so the processes interleave between      *)
(* calls.  A document's content is a value; chunks[f][c] is how many times *)
(* the chunks of content c of file f are in the index.                     *)
(***************************************************************************)
EXTENDS Naturals

CONSTANTS DocFiles,     \* storage keys
          Contents,     \* contents of documents
          NoContent, NoDoc,
          Namesakes,    \* keys that may also name a file in a dispatcher's working directory
          DocTasks,     \* task ids: numbers, in creation order
          Indexers,     \* dispatcher processes
          Clients,      \* HTTP requests served at the same time
          DocRetries,   \* max_retries of every task
          Storages,     \* OBJECT_STORAGE_BACKEND values to consider
          Indexes,      \* vector backends to consider
          MaxArrivals,  \* bound: HTTP requests in all
          MaxFailures   \* bound: failures, crashes and take-backs in all

ASSUME DocAssumption ==
  /\ NoContent \notin Contents /\ NoDoc \notin DocFiles
  /\ Namesakes \subseteq DocFiles
  /\ DocTasks \subseteq Nat \ {0}
  /\ Indexers \cap Clients = {}
  /\ Storages \subseteq {"local", "minio"}
  /\ Indexes \subseteq {"milvus", "pgvector", "degraded"}
  /\ MaxArrivals \in Nat /\ MaxFailures \in Nat

VARIABLES
  taskStatus, taskAttempts, taskRunning,   \* the tasks, as TaskLifecycle has them
  taskFile,          \* file_path of each row
  storage, vectors,  \* the deployment's backends (never change)
  local, remote,     \* local directory or cache; MinIO bucket
  chunks,
  \* processes: where each one is, the file it is on, the content it holds, its
  \* task, the files of its directory still to do
  pc, file, content, task, pending,
  \* history: content of the last upload of a file that was not deleted since;
  \* files whose delete was answered; what made a file's outcome unpredictable
  latest, gone, disturbed,
  arrivals, failures

taskVars  == <<taskStatus, taskAttempts, taskRunning, taskFile>>
storeVars == <<local, remote>>
procVars  == <<pc, file, content, task, pending>>
docHistory == <<latest, gone, disturbed>>
docVars == <<taskVars, storage, vectors, storeVars, chunks, procVars, docHistory,
             arrivals, failures>>

Life == INSTANCE TaskLifecycle
          WITH Tasks <- DocTasks, Workers <- Indexers, MaxRetries <- DocRetries,
               status <- taskStatus, attempts <- taskAttempts, running <- taskRunning

Processes == Indexers \union Clients
NoTask == 0
NoChunks == [c \in Contents |-> 0]

(* opening .. added, astray: in index_single_file.  cleaned, failing: back *)
(* in process_task.  listing: between two files of index_directory.        *)
(* mirroring .. answering: in upload_file.  unmirroring, purging: in       *)
(* delete_uploaded_document.                                               *)
DocStates == {"idle", "opening", "read", "cleared", "added", "astray", "cleaned", "failing",
              "listing", "mirroring", "submitting", "creating", "enqueueing",
              "answering", "unmirroring", "purging"}

ActiveTasksOf(f) ==
  {t \in DocTasks : taskFile[t] = f /\ taskStatus[t] \in {"queued", "processing"}}

(* What get_bytes finds.                                                   *)
Stored(f) == IF storage = "minio" THEN remote[f] ELSE local[f]

(* History only: who is between reading f and being done with it, and who  *)
(* is in the middle of deleting it.                                        *)
Readers(f)  == {p \in Processes : file[p] = f /\ pc[p] \in {"read", "cleared", "added"}}
Deleters(f) == {p \in Processes : file[p] = f /\ pc[p] \in {"unmirroring", "purging"}}

Overlaps(p, f) == (IF Readers(f) \ {p} = {} THEN {} ELSE {"overlap"}) \union
                  (IF Deleters(f) \ {p} = {} THEN {} ELSE {"delete"})
Disturb(f, why) == disturbed' = [disturbed EXCEPT ![f] = @ \union why]

Goto(p, s) == pc' = [pc EXCEPT ![p] = s]
DocFailure == failures < MaxFailures /\ failures' = failures + 1
----------------------------------------------------------------------------
DocInit ==
  /\ Life!Init
  /\ taskFile = [t \in DocTasks |-> NoDoc]
  /\ storage \in Storages
  /\ vectors \in Indexes
  /\ local = [f \in DocFiles |-> NoContent]
  /\ remote = [f \in DocFiles |-> NoContent]
  /\ chunks = [f \in DocFiles |-> NoChunks]
  /\ pc = [p \in Processes |-> "idle"]
  /\ file = [p \in Processes |-> NoDoc]
  /\ content = [p \in Processes |-> NoContent]
  /\ task = [p \in Processes |-> NoTask]
  /\ pending = [p \in Processes |-> {}]
  /\ latest = [f \in DocFiles |-> NoContent]
  /\ gone = {}
  /\ disturbed = [f \in DocFiles |-> {}]
  /\ arrivals = 0
  /\ failures = 0
----------------------------------------------------------------------------
(* The vector backends.  What they hide is what their callers cannot see   *)
(* failing.                                                                *)

DeleteChunks(f) ==
  /\ chunks' = [chunks EXCEPT ![f] = NoChunks]
  /\ UNCHANGED <<disturbed, failures>>

HiddenFailure(f, what) ==
  /\ DocFailure
  /\ Disturb(f, {what})
  /\ UNCHANGED chunks

(* Any failure of Milvus' delete is answered with 0.                       *)
DeleteMilvus(f) ==
  /\ vectors = "milvus"
  /\ DeleteChunks(f) \/ HiddenFailure(f, "silent delete")

(* pgvector that cannot be reached answers 0; its delete itself may raise. *)
DeletePgVector(f) ==
  /\ vectors = "pgvector"
  /\ DeleteChunks(f) \/ HiddenFailure(f, "silent delete")

DeleteDegraded(f) == vectors = "degraded" /\ UNCHANGED <<chunks, disturbed, failures>>

DeleteBySource(f) == DeleteMilvus(f) \/ DeletePgVector(f) \/ DeleteDegraded(f)

AddChunks(f, v) ==
  /\ chunks' = [chunks EXCEPT ![f][v] = @ + 1]
  /\ UNCHANGED <<disturbed, failures>>

AddMilvus(f, v) == vectors = "milvus" /\ AddChunks(f, v)

(* A failed connection or write answers an empty list.                     *)
AddPgVector(f, v) ==
  /\ vectors = "pgvector"
  /\ AddChunks(f, v) \/ HiddenFailure(f, "silent add")

AddDegraded(f) ==
  /\ vectors = "degraded"
  /\ Disturb(f, {"silent add"})
  /\ UNCHANGED <<chunks, failures>>
----------------------------------------------------------------------------
(* put_bytes of the local directory.                                       *)
PutLocal(c, f, v) ==
  /\ storage = "local"
  /\ Goto(c, "submitting")
  /\ latest' = [latest EXCEPT ![f] = v]
  /\ UNCHANGED content

(* put_bytes of MinIO writes its cache first.                              *)
PutCache(c, f, v) ==
  /\ storage = "minio"
  /\ Goto(c, "mirroring")
  /\ content' = [content EXCEPT ![c] = v]
  /\ UNCHANGED latest

PutBytes(c, f, v) ==
  /\ pc[c] = "idle"
  /\ PutLocal(c, f, v) \/ PutCache(c, f, v)
  /\ local' = [local EXCEPT ![f] = v]
  /\ file' = [file EXCEPT ![c] = f]
  /\ gone' = gone \ {f}
  /\ Disturb(f, Overlaps(c, f))
  /\ UNCHANGED <<taskVars, storage, vectors, remote, chunks, task, pending, failures>>

(* POST /upload.  The object is written before the task exists.            *)
Upload(c, f, v) ==
  /\ arrivals < MaxArrivals
  /\ arrivals' = arrivals + 1
  /\ PutBytes(c, f, v)

(* MinIO's put_object, after the local cache was written.                  *)
Mirror(c) ==
  /\ pc[c] = "mirroring"
  /\ Goto(c, "submitting")
  /\ remote' = [remote EXCEPT ![file[c]] = content[c]]
  /\ content' = [content EXCEPT ![c] = NoContent]
  /\ latest' = [latest EXCEPT ![file[c]] = content[c]]
  /\ gone' = gone \ {file[c]}
  /\ Disturb(file[c], Overlaps(c, file[c]))
  /\ UNCHANGED <<taskVars, storage, vectors, local, chunks, file, task, pending,
                 arrivals, failures>>

(* submit_task: the newest active task of the file is reused, queued or    *)
(* already running.                                                        *)
SubmitDocument(c) ==
  /\ pc[c] = "submitting"
  /\ \/ /\ ActiveTasksOf(file[c]) = {}
        /\ Goto(c, "creating")
        /\ UNCHANGED task
     \/ \E t \in ActiveTasksOf(file[c]) :
          /\ \A u \in ActiveTasksOf(file[c]) : u <= t
          /\ Goto(c, "enqueueing")
          /\ task' = [task EXCEPT ![c] = t]
  /\ UNCHANGED <<taskVars, storage, vectors, storeVars, chunks, file, content, pending,
                 docHistory, arrivals, failures>>

InsertTask(c) ==
  /\ pc[c] = "creating"
  /\ \E t \in DocTasks : /\ \A u \in DocTasks : u < t => taskStatus[u] # "none"
                         /\ Life!Submit(t)
                         /\ taskFile' = [taskFile EXCEPT ![t] = file[c]]
                         /\ task' = [task EXCEPT ![c] = t]
  /\ Goto(c, "enqueueing")
  /\ UNCHANGED <<storage, vectors, storeVars, chunks, file, content, pending, docHistory,
                 arrivals, failures>>

(* The push: what it does to the queue is inside TaskLifecycle.            *)
EnqueueDocument(c) ==
  /\ pc[c] = "enqueueing"
  /\ Goto(c, "answering")
  /\ UNCHANGED <<taskVars, storage, vectors, storeVars, chunks, file, content, task, pending,
                 docHistory, arrivals, failures>>

Answer(c) ==
  /\ pc[c] = "answering"
  /\ Goto(c, "idle")
  /\ file' = [file EXCEPT ![c] = NoDoc]
  /\ task' = [task EXCEPT ![c] = NoTask]
  /\ UNCHANGED <<taskVars, storage, vectors, storeVars, chunks, content, pending, docHistory,
                 arrivals, failures>>

(* POST /index_tasks/{id}/retry, refused while the row says processing.    *)
RetryTask(t) ==
  /\ arrivals < MaxArrivals
  /\ arrivals' = arrivals + 1
  /\ taskStatus[t] # "processing"
  /\ Life!Resubmit(t)
  /\ UNCHANGED <<taskFile, storage, vectors, storeVars, chunks, procVars, docHistory, failures>>

(* POST /index_directory: the files that are in the local directory now.   *)
IndexDirectory(c) ==
  /\ pc[c] = "idle"
  /\ arrivals < MaxArrivals
  /\ arrivals' = arrivals + 1
  /\ pending' = [pending EXCEPT ![c] = {f \in DocFiles : local[f] # NoContent}]
  /\ pending'[c] # {}
  /\ Goto(c, "listing")
  /\ UNCHANGED <<taskVars, storage, vectors, storeVars, chunks, file, content, task,
                 docHistory, failures>>

(* The next file, whatever became of the last one.                         *)
NextFile(c) ==
  /\ \/ pc[c] = "listing"
     \/ c \in Clients /\ pc[c] \in {"added", "failing"}
  /\ content' = [content EXCEPT ![c] = NoContent]
  /\ \/ /\ pending[c] = {}
        /\ Goto(c, "idle")
        /\ file' = [file EXCEPT ![c] = NoDoc]
        /\ UNCHANGED pending
     \/ \E f \in pending[c] : /\ Goto(c, "opening")
                              /\ file' = [file EXCEPT ![c] = f]
                              /\ pending' = [pending EXCEPT ![c] = @ \ {f}]
  /\ UNCHANGED <<taskVars, storage, vectors, storeVars, chunks, task, docHistory,
                 arrivals, failures>>

(* DELETE /documents/{filename}: the file, MinIO's object, the vectors.    *)
DeleteDocument(c, f) ==
  /\ pc[c] = "idle"
  /\ arrivals < MaxArrivals
  /\ arrivals' = arrivals + 1
  /\ local' = [local EXCEPT ![f] = NoContent]
  /\ Goto(c, IF storage = "minio" THEN "unmirroring" ELSE "purging")
  /\ file' = [file EXCEPT ![c] = f]
  /\ latest' = [latest EXCEPT ![f] = NoContent]
  /\ Disturb(f, IF Readers(f) \union Deleters(f) = {} THEN {} ELSE {"delete"})
  /\ UNCHANGED <<taskVars, storage, vectors, remote, chunks, content, task, pending, gone,
                 failures>>

(* Mutant: MinIO's object stays.                                           *)
LeaveRemote(c) ==
  /\ pc[c] = "unmirroring"
  /\ Goto(c, "purging")
  /\ UNCHANGED <<taskVars, storage, vectors, storeVars, chunks, file, content, task, pending,
                 docHistory, arrivals, failures>>

RemoveRemote(c) ==
  /\ pc[c] = "unmirroring"
  /\ Goto(c, "purging")
  /\ remote' = [remote EXCEPT ![file[c]] = NoContent]
  /\ UNCHANGED <<taskVars, storage, vectors, local, chunks, file, content, task, pending,
                 docHistory, arrivals, failures>>

Purge(c) ==
  /\ pc[c] = "purging"
  /\ Goto(c, "idle")
  /\ file' = [file EXCEPT ![c] = NoDoc]
  /\ gone' = gone \union {file[c]}
  /\ DeleteBySource(file[c])
  /\ UNCHANGED <<taskVars, storage, vectors, storeVars, content, task, pending, latest,
                 arrivals>>
----------------------------------------------------------------------------
(* index_single_file, by a dispatcher or by index_directory                *)

ClaimDocument(w, t) ==
  /\ pc[w] = "idle"
  /\ Life!Claim(t, w)
  /\ Goto(w, "opening")
  /\ file' = [file EXCEPT ![w] = taskFile[t]]
  /\ task' = [task EXCEPT ![w] = t]
  /\ UNCHANGED <<taskFile, storage, vectors, storeVars, chunks, content, pending, docHistory,
                 arrivals, failures>>

(* A task names a storage key, which is tried as a path relative to the    *)
(* working directory first: a file of that name is indexed under its own   *)
(* path (the index of the key's document stays as it is) and the attempt   *)
(* goes on as if it had indexed the document.                              *)
ReadNamesake(w) ==
  /\ pc[w] = "opening"
  /\ file[w] \in Namesakes
  /\ Goto(w, "astray")
  /\ UNCHANGED <<taskVars, storage, vectors, storeVars, chunks, file, content, task, pending,
                 docHistory, arrivals, failures>>

(* Otherwise the stored object is read; a directory entry is a path on     *)
(* disk.  A missing object fails the attempt before anything is removed.   *)
ReadDocument(p) ==
  LET found == IF p \in Indexers THEN Stored(file[p]) ELSE local[file[p]] IN
  /\ pc[p] = "opening"
  /\ Goto(p, IF found = NoContent THEN "failing" ELSE "read")
  /\ content' = [content EXCEPT ![p] = found]
  /\ Disturb(file[p], IF found = NoContent THEN {} ELSE Overlaps(p, file[p]))
  /\ UNCHANGED <<taskVars, storage, vectors, storeVars, chunks, file, task, pending, latest,
                 gone, arrivals, failures>>

(* Mutant: new chunks join the old ones.                                   *)
KeepOld(p) ==
  /\ pc[p] = "read"
  /\ Goto(p, "cleared")
  /\ UNCHANGED <<taskVars, storage, vectors, storeVars, chunks, file, content, task, pending,
                 docHistory, arrivals, failures>>

ClearOld(p) ==
  /\ pc[p] = "read"
  /\ Goto(p, "cleared")
  /\ DeleteBySource(file[p])
  /\ UNCHANGED <<taskVars, storage, vectors, storeVars, file, content, task, pending, latest,
                 gone, arrivals>>

AddNew(p) ==
  /\ pc[p] = "cleared"
  /\ Goto(p, "added")
  /\ AddMilvus(file[p], content[p]) \/ AddPgVector(file[p], content[p]) \/ AddDegraded(file[p])
  /\ UNCHANGED <<taskVars, storage, vectors, storeVars, file, content, task, pending, latest,
                 gone, arrivals>>

(* Mutant: a failed attempt cleans up too.                                 *)
CleanupFinally(w) ==
  /\ w \in Indexers
  /\ pc[w] \in {"added", "astray", "failing"}
  /\ Goto(w, IF pc[w] = "failing" THEN "failing" ELSE "cleaned")
  /\ local' = [local EXCEPT ![file[w]] = NoContent]
  /\ UNCHANGED <<taskVars, storage, vectors, remote, chunks, file, content, task, pending,
                 docHistory, arrivals, failures>>

(* With the local backend the cache that is cleaned is the object itself,  *)
(* also when its namesake was indexed.                                     *)
CleanupLocal(w) ==
  /\ w \in Indexers
  /\ pc[w] \in {"added", "astray"}
  /\ Goto(w, "cleaned")
  /\ \/ /\ local' = [local EXCEPT ![file[w]] = NoContent]
        /\ Disturb(file[w], IF pc[w] = "astray" THEN {"namesake"} ELSE {})
        /\ UNCHANGED failures
     \/ DocFailure /\ UNCHANGED <<local, disturbed>>
  /\ UNCHANGED <<taskVars, storage, vectors, remote, chunks, file, content, task, pending,
                 latest, gone, arrivals>>

(* Mutant: the dispatcher keeps its task.                                  *)
ReleaseFile(w) ==
  /\ Goto(w, "idle")
  /\ file' = [file EXCEPT ![w] = NoDoc]
  /\ content' = [content EXCEPT ![w] = NoContent]
  /\ pending' = [pending EXCEPT ![w] = {}]
  /\ UNCHANGED task

Release(w) ==
  /\ Goto(w, "idle")
  /\ file' = [file EXCEPT ![w] = NoDoc]
  /\ content' = [content EXCEPT ![w] = NoContent]
  /\ task' = [task EXCEPT ![w] = NoTask]
  /\ pending' = [pending EXCEPT ![w] = {}]

CompleteDocument(w) ==
  /\ pc[w] = "cleaned"
  /\ Life!Complete(task[w], w)
  /\ Release(w)
  /\ UNCHANGED <<taskFile, storage, vectors, storeVars, chunks, docHistory, arrivals, failures>>

FailDocument(w) ==
  /\ w \in Indexers
  /\ pc[w] = "failing"
  /\ taskStatus' = [taskStatus EXCEPT ![task[w]] = Life!RetryOrFail(taskAttempts[task[w]])]
  /\ Life!Fail(task[w], w)
  /\ Release(w)
  /\ UNCHANGED <<taskFile, storage, vectors, storeVars, chunks, docHistory, arrivals, failures>>

(* An exception: reading, pgvector's delete, splitting, embedding, Milvus' *)
(* insert, or writing the completion; of a namesake, any of the first.     *)
StepRaises(p) ==
  /\ \/ pc[p] \in {"opening", "cleared", "astray", "cleaned"}
     \/ pc[p] = "read" /\ vectors = "pgvector"
  /\ DocFailure
  /\ Goto(p, "failing")
  /\ UNCHANGED <<taskVars, storage, vectors, storeVars, chunks, file, content, task, pending,
                 docHistory, arrivals>>

(* A dispatcher dies, or raises outside the attempt's own handler.         *)
IndexerDies(w) ==
  /\ pc[w] # "idle"
  /\ DocFailure
  /\ Life!Vanish(task[w], w)
  /\ Release(w)
  /\ UNCHANGED <<taskFile, storage, vectors, storeVars, chunks, docHistory, arrivals>>

(* A request fails between two of its calls, with a 500 or with the        *)
(* process; nothing it did is undone.                                      *)
RequestDies(c) ==
  /\ pc[c] # "idle"
  /\ DocFailure
  /\ Release(c)
  /\ UNCHANGED <<taskVars, storage, vectors, storeVars, chunks, docHistory, arrivals>>

(* A starting dispatcher takes a stale row back; its execution may live.   *)
TakeBackDocument(t) ==
  /\ taskStatus[t] = "processing"
  /\ DocFailure
  /\ taskStatus' = [taskStatus EXCEPT ![t] = Life!RetryOrFail(taskAttempts[t])]
  /\ Life!TakeBack({t})
  /\ UNCHANGED <<taskFile, storage, vectors, storeVars, chunks, procVars, docHistory, arrivals>>
----------------------------------------------------------------------------
UploadStep(c) == Mirror(c) \/ SubmitDocument(c) \/ InsertTask(c) \/ EnqueueDocument(c)

RequestStep(c) ==
  \/ \E f \in DocFiles : DeleteDocument(c, f)
  \/ IndexDirectory(c) \/ UploadStep(c) \/ Answer(c)
  \/ RemoveRemote(c) \/ Purge(c) \/ NextFile(c) \/ RequestDies(c)

IndexStep(p) == ReadDocument(p) \/ ClearOld(p) \/ AddNew(p) \/ StepRaises(p)

IndexerStep(w) ==
  \/ \E t \in DocTasks : ClaimDocument(w, t)
  \/ ReadNamesake(w) \/ CleanupLocal(w) \/ CompleteDocument(w) \/ FailDocument(w)
  \/ IndexerDies(w)

IndexingStep ==
  \/ \E p \in Processes : IndexStep(p)
  \/ \E w \in Indexers : IndexerStep(w)
  \/ \E t \in DocTasks : TakeBackDocument(t)

DocNext ==
  \/ \E c \in Clients : RequestStep(c) \/ \E f \in DocFiles, v \in Contents : Upload(c, f, v)
  \/ \E t \in DocTasks : RetryTask(t)
  \/ IndexingStep

DocSpec == DocInit /\ [][DocNext]_docVars
----------------------------------------------------------------------------
(* What the index holds of a file: nothing, or one content once.            *)
Unindexed(f) == \A c \in Contents : chunks[f][c] = 0
IndexedOnce(f) == /\ \A c \in Contents : chunks[f][c] <= 1
                  /\ \A c, d \in Contents : chunks[f][c] > 0 /\ chunks[f][d] > 0 => c = d

(* Every variable keeps its type, and a dispatcher is on a task exactly    *)
(* while the task's row counts it as running.                              *)
DocTypeOK ==
  /\ taskFile \in [DocTasks -> DocFiles \union {NoDoc}]
  /\ \A t \in DocTasks : (taskStatus[t] = "none") <=> (taskFile[t] = NoDoc)
  /\ local \in [DocFiles -> Contents \union {NoContent}]
  /\ remote \in [DocFiles -> Contents \union {NoContent}]
  /\ chunks \in [DocFiles -> [Contents -> Nat]]
  /\ pc \in [Processes -> DocStates]
  /\ file \in [Processes -> DocFiles \union {NoDoc}]
  /\ content \in [Processes -> Contents \union {NoContent}]
  /\ \A w \in Indexers, t \in DocTasks : (w \in taskRunning[t]) <=> (task[w] = t)
  /\ \A w \in Indexers : (task[w] = NoTask) <=> (pc[w] = "idle")
  /\ \A c \in Clients : (task[c] = NoTask) <=> (pc[c] \notin {"enqueueing", "answering"})
  /\ pending \in [Processes -> SUBSET DocFiles]
  /\ disturbed \in [DocFiles -> SUBSET {"overlap", "delete", "namesake", "silent add",
                                         "silent delete"}]

(* Whatever fails, dies, is retried or taken back between two calls, the   *)
(* content that was uploaded last is still stored or in the index, because *)
(* an attempt reads before it clears and removes the object only after it  *)
(* added.  It can be lost only if a delete met anything or, with the local *)
(* backend, whose object the attempt removes: if a vector backend hid a    *)
(* failed insert, an upload or an attempt met another attempt of the file, *)
(* or an attempt indexed the key's namesake instead (it then removes a     *)
(* content it never read).                                                 *)
ContentSurvives ==
  \A f \in DocFiles :
    \/ latest[f] = NoContent
    \/ Stored(f) = latest[f]
    \/ chunks[f][latest[f]] > 0
    \/ "delete" \in disturbed[f]
    \/ storage = "local" /\ disturbed[f] \cap {"overlap", "silent add", "namesake"} # {}

(* The index holds one generation of a file at most, whatever fails,       *)
(* unless the index hid a failed deletion or two attempts overlapped.         *)
OneGeneration ==
  \A f \in DocFiles :
    \/ Unindexed(f) \/ IndexedOnce(f)
    \/ disturbed[f] \cap {"overlap", "delete", "silent delete"} # {}

(* A deleted document stays deleted: an attempt that is still queued finds *)
(* no object and adds nothing, unless it had read the object before.       *)
GoneStaysGone ==
  \A f \in gone :
    \/ Stored(f) = NoContent /\ Unindexed(f)
    \/ disturbed[f] \cap {"delete", "silent delete"} # {}
=============================================================================
