--------------------------- MODULE IndexingQueue ---------------------------
(***************************************************************************)
(* The background indexing pipeline: the indexing_tasks table, the Redis   *)
(* list smartsre:indexing:queue, the dispatcher processes that consume it  *)
(* (embedded in the API or detached in app/worker.py) and the HTTP         *)
(* requests that submit and retry tasks.                                   *)
(*                                                                         *)
(* A step is one statement of a process against the database or Redis, and *)
(* the steps of different processes interleave: transactions run at        *)
(* PostgreSQL's default isolation (database.py sets none), so a row that   *)
(* was read may have changed by the time the same transaction writes it.   *)
(* A read whose result only decides a write by the same statement's WHERE  *)
(* clause, or decides nothing, is part of the write's step.  What a row    *)
(* says is status, file_path and attempt_count; updated_at is reduced to   *)
(* the one question the code asks of it, whether it is older than          *)
(* task_requeue_timeout_seconds (the set stale).  A message is the task id *)
(* it carries: its file path is the row's.                                 *)
(***************************************************************************)
EXTENDS Naturals, Sequences

CONSTANTS MaxTasks,     \* bound: rows of the table
          Files,        \* storage keys, i.e. values of file_path
          Workers,      \* dispatcher processes
          Requests,     \* HTTP requests served at the same time
          MaxRetries,   \* max(indexing_task_max_retries, 1)
          Backends,     \* the values of TASK_QUEUE_BACKEND to consider
          MaxRequests,  \* bound: HTTP requests in all
          MaxFaults,    \* bound: crashes, loop deaths, shutdowns, broken sends in all
          NoFile

ASSUME QueueAssumption ==
  /\ MaxTasks \in Nat \ {0}
  /\ MaxRetries \in Nat \ {0}
  /\ Backends \subseteq {"redis", "database"}
  /\ MaxRequests \in Nat
  /\ MaxFaults \in Nat
  /\ NoFile \notin Files

Tasks == 1 .. MaxTasks     \* ids in creation order, so id order is created_at order
NoTask == 0

VARIABLES
  \* the indexing_tasks table
  status, file_path, attempts, stale,
  \* the deployment's backend (never changes) and the Redis list
  backend, queue,
  \* dispatchers: where each one is, the task it holds, the rows left to republish,
  \* the attempt_count it read of a row it is about to write (0: nothing to write)
  wstate, wtask, batch, seen,
  \* HTTP requests: where each one is, its task, its file
  rstate, rtask, rfile,
  \* history: extra attempts granted to a task by a retry request or by a write that
  \* went by an outdated attempt_count; tasks whose status was taken from under a live
  \* execution; tasks whose last carrier a fault destroyed
  granted, interfered, orphaned,
  \* bounds
  arrivals, faults

tableVars   == <<status, file_path, attempts, stale>>
workerVars  == <<wstate, wtask, batch, seen>>
requestVars == <<rstate, rtask, rfile>>
historyVars == <<granted, interfered, orphaned>>
vars == <<tableVars, backend, queue, workerVars, requestVars, historyVars,
          arrivals, faults>>

Statuses == {"none", "queued", "processing", "completed", "failed_permanently"}
Active   == {"queued", "processing"}

(* down: no process or no dispatcher started.  recovering, listing,        *)
(* republishing: in start(), before the loop.  idle: at the top of the     *)
(* loop.  popped: holds a message or a peeked row.  indexing, failing: in  *)
(* process_task.  requeueing: about to push a retried task.  dead: the     *)
(* loop raised; the process lives on and consumes nothing.                 *)
WorkerStates == {"down", "recovering", "listing", "republishing", "idle", "popped",
                 "indexing", "failing", "requeueing", "dead"}
RequestStates == {"free", "creating", "retrying", "enqueueing"}

Executors(t) == {w \in Workers : wstate[w] \in {"indexing", "failing"} /\ wtask[w] = t}
ActiveTasks(f) == {t \in Tasks : file_path[t] = f /\ status[t] \in Active}
QueuedTasks == {t \in Tasks : status[t] = "queued"}
InQueue(t) == \E i \in 1 .. Len(queue) : queue[i] = t

NothingSeen == [t \in Tasks |-> 0]

(* Mutant: one attempt too many.                                           *)
RetryOrFailLate(n) == IF n > MaxRetries THEN "failed_permanently" ELSE "queued"

RetryOrFail(n) == IF n >= MaxRetries THEN "failed_permanently" ELSE "queued"
----------------------------------------------------------------------------
Init ==
  /\ status = [t \in Tasks |-> "none"]
  /\ file_path = [t \in Tasks |-> NoFile]
  /\ attempts = [t \in Tasks |-> 0]
  /\ stale = {}
  /\ backend \in Backends
  /\ queue = <<>>
  /\ wstate = [w \in Workers |-> "down"]
  /\ wtask = [w \in Workers |-> NoTask]
  /\ batch = [w \in Workers |-> {}]
  /\ seen = [w \in Workers |-> NothingSeen]
  /\ rstate = [r \in Requests |-> "free"]
  /\ rtask = [r \in Requests |-> NoTask]
  /\ rfile = [r \in Requests |-> NoFile]
  /\ granted = [t \in Tasks |-> 0]
  /\ interfered = {}
  /\ orphaned = {}
  /\ arrivals = 0
  /\ faults = 0
----------------------------------------------------------------------------
(* HTTP requests                                                           *)

(* submit_task reads the newest active task of the file.  One found is     *)
(* reused, whether it is queued or already being processed.                *)
Upload(r, f) ==
  /\ rstate[r] = "free"
  /\ arrivals < MaxRequests
  /\ arrivals' = arrivals + 1
  /\ \/ \E t \in ActiveTasks(f) :
          /\ \A u \in ActiveTasks(f) : u <= t
          /\ rstate' = [rstate EXCEPT ![r] = "enqueueing"]
          /\ rtask' = [rtask EXCEPT ![r] = t]
          /\ UNCHANGED rfile
     \/ /\ ActiveTasks(f) = {}
        /\ rstate' = [rstate EXCEPT ![r] = "creating"]
        /\ rfile' = [rfile EXCEPT ![r] = f]
        /\ UNCHANGED rtask
  /\ UNCHANGED <<tableVars, backend, queue, workerVars, historyVars, faults>>

(* The insert, in a transaction of its own: nothing rechecks the read.     *)
CreateTask(r) ==
  /\ rstate[r] = "creating"
  /\ \E t \in Tasks :
       /\ status[t] = "none"
       /\ \A u \in Tasks : status[u] = "none" => t <= u
       /\ status' = [status EXCEPT ![t] = "queued"]
       /\ file_path' = [file_path EXCEPT ![t] = rfile[r]]
       /\ rtask' = [rtask EXCEPT ![r] = t]
  /\ rstate' = [rstate EXCEPT ![r] = "enqueueing"]
  /\ rfile' = [rfile EXCEPT ![r] = NoFile]
  /\ UNCHANGED <<attempts, stale, backend, queue, workerVars, historyVars,
                 arrivals, faults>>

(* retry_index_task reads the row: a missing row is a 404 and a processing *)
(* one a 409; neither changes anything.                                    *)
RetryCheck(r, t) ==
  /\ rstate[r] = "free"
  /\ arrivals < MaxRequests
  /\ status[t] \notin {"none", "processing"}
  /\ arrivals' = arrivals + 1
  /\ rstate' = [rstate EXCEPT ![r] = "retrying"]
  /\ rtask' = [rtask EXCEPT ![r] = t]
  /\ UNCHANGED <<tableVars, backend, queue, workerVars, rfile, historyVars, faults>>

(* ... and then writes "queued" without a condition on the row: a claim    *)
(* that came in between is undone.                                         *)
RetryUpdate(r) ==
  /\ rstate[r] = "retrying"
  /\ LET t == rtask[r] IN
       /\ status' = [status EXCEPT ![t] = "queued"]
       /\ stale' = stale \ {t}
       /\ granted' = [granted EXCEPT ![t] = @ + 1]
       /\ interfered' = IF Executors(t) = {} THEN interfered ELSE interfered \union {t}
  /\ rstate' = [rstate EXCEPT ![r] = "enqueueing"]
  /\ UNCHANGED <<file_path, attempts, backend, queue, workerVars, rtask, rfile,
                 orphaned, arrivals, faults>>

(* Push t: enqueue_json repeats a push whose reply was lost, so one send   *)
(* may leave two messages.                                                 *)
Push(t) ==
  /\ orphaned' = orphaned \ {t}
  /\ \/ queue' = Append(queue, t) /\ UNCHANGED faults
     \/ /\ faults < MaxFaults
        /\ faults' = faults + 1
        /\ queue' = Append(Append(queue, t), t)

(* enqueue_indexing_task, then the response.  With the database backend it *)
(* only sets the wake event, which the poll interval makes redundant.      *)
Enqueue(r) ==
  /\ rstate[r] = "enqueueing"
  /\ rstate' = [rstate EXCEPT ![r] = "free"]
  /\ rtask' = [rtask EXCEPT ![r] = NoTask]
  /\ \/ backend = "redis" /\ Push(rtask[r])
     \/ backend = "database" /\ UNCHANGED <<queue, orphaned, faults>>
  /\ UNCHANGED <<tableVars, backend, workerVars, rfile, granted, interfered, arrivals>>

(* The API process dies, or Redis or the database refuses the call.        *)
RequestFails(r) ==
  /\ rstate[r] # "free"
  /\ faults < MaxFaults
  /\ faults' = faults + 1
  /\ rstate' = [rstate EXCEPT ![r] = "free"]
  /\ rtask' = [rtask EXCEPT ![r] = NoTask]
  /\ rfile' = [rfile EXCEPT ![r] = NoFile]
  /\ orphaned' = IF backend = "redis" /\ rstate[r] = "enqueueing"
                 THEN orphaned \union {rtask[r]} ELSE orphaned
  /\ UNCHANGED <<tableVars, backend, queue, workerVars, granted, interfered, arrivals>>
----------------------------------------------------------------------------
(* Dispatcher start-up and shutdown                                        *)

(* start() reads the processing rows and keeps the stale ones, with a live *)
(* execution or not; it is the only caller.                                *)
Start(w) ==
  /\ wstate[w] = "down"
  /\ seen' = [seen EXCEPT ![w] = [t \in Tasks |-> IF t \in stale THEN attempts[t] ELSE 0]]
  /\ wstate' = [wstate EXCEPT ![w] = "recovering"]
  /\ UNCHANGED <<tableVars, backend, queue, wtask, batch, requestVars, historyVars,
                 arrivals, faults>>

(* Mutant: with Redis, the queued rows are not pushed again.               *)
TakeBackWithoutRepublish(w) ==
  /\ wstate[w] = "recovering"
  /\ LET taken == {t \in Tasks : seen[w][t] # 0} IN
       /\ status' = [t \in Tasks |-> IF t \in taken THEN RetryOrFail(seen[w][t])
                                     ELSE status[t]]
       /\ stale' = stale \ taken
       /\ granted' = [t \in Tasks |-> IF t \in taken /\ seen[w][t] # attempts[t]
                                      THEN granted[t] + 1 ELSE granted[t]]
       /\ interfered' = interfered \union {t \in taken : Executors(t) # {}}
  /\ seen' = [seen EXCEPT ![w] = NothingSeen]
  /\ wstate' = [wstate EXCEPT ![w] = "idle"]
  /\ UNCHANGED <<file_path, attempts, backend, queue, wtask, batch, requestVars,
                 orphaned, arrivals, faults>>

(* ... and writes them, all at once when the transaction commits, by their *)
(* primary keys: what became of them since the read is overwritten.        *)
TakeBack(w) ==
  /\ wstate[w] = "recovering"
  /\ LET taken == {t \in Tasks : seen[w][t] # 0} IN
       /\ status' = [t \in Tasks |-> IF t \in taken THEN RetryOrFail(seen[w][t])
                                     ELSE status[t]]
       /\ stale' = stale \ taken
       /\ granted' = [t \in Tasks |-> IF t \in taken /\ seen[w][t] # attempts[t]
                                      THEN granted[t] + 1 ELSE granted[t]]
       /\ interfered' = interfered \union {t \in taken : Executors(t) # {}}
  /\ seen' = [seen EXCEPT ![w] = NothingSeen]
  /\ wstate' = [wstate EXCEPT ![w] = IF backend = "redis" THEN "listing" ELSE "idle"]
  /\ UNCHANGED <<file_path, attempts, backend, queue, wtask, batch, requestVars,
                 orphaned, arrivals, faults>>

(* _republish_queued_tasks_to_redis: one read, then one push per row.      *)
ListQueued(w) ==
  /\ wstate[w] = "listing"
  /\ wstate' = [wstate EXCEPT ![w] = "republishing"]
  /\ batch' = [batch EXCEPT ![w] = QueuedTasks]
  /\ UNCHANGED <<tableVars, backend, queue, wtask, seen, requestVars, historyVars,
                 arrivals, faults>>

Republish(w) ==
  /\ wstate[w] = "republishing"
  /\ \/ \E t \in batch[w] :
          /\ \A u \in batch[w] : t <= u
          /\ Push(t)
          /\ batch' = [batch EXCEPT ![w] = @ \ {t}]
          /\ UNCHANGED wstate
     \/ /\ batch[w] = {}
        /\ wstate' = [wstate EXCEPT ![w] = "idle"]
        /\ UNCHANGED <<queue, batch, orphaned, faults>>
  /\ UNCHANGED <<tableVars, backend, wtask, seen, requestVars, granted, interfered,
                 arrivals>>

(* shutdown() lets the loop finish what it holds.                          *)
Shutdown(w) ==
  /\ wstate[w] \in {"idle", "dead"}
  /\ faults < MaxFaults
  /\ faults' = faults + 1
  /\ wstate' = [wstate EXCEPT ![w] = "down"]
  /\ UNCHANGED <<tableVars, backend, queue, wtask, batch, seen, requestVars, historyVars,
                 arrivals>>

(* What w alone knew about: a popped message, a retried task not pushed    *)
(* yet, the rows left to republish, or all queued rows before the listing. *)
CarriedBy(w) ==
  IF wstate[w] = "listing" THEN QueuedTasks
  ELSE IF wstate[w] = "republishing" THEN batch[w]
  ELSE IF wstate[w] \in {"popped", "requeueing"} THEN {wtask[w]}
  ELSE {}

(* w stops where it is: the process is killed (down) or an exception       *)
(* leaves the loop, which nothing restarts (dead).                         *)
Stop(w, s) ==
  /\ faults < MaxFaults
  /\ faults' = faults + 1
  /\ wstate' = [wstate EXCEPT ![w] = s]
  /\ wtask' = [wtask EXCEPT ![w] = NoTask]
  /\ batch' = [batch EXCEPT ![w] = {}]
  /\ seen' = [seen EXCEPT ![w] = NothingSeen]
  /\ orphaned' = IF backend = "redis" THEN orphaned \union CarriedBy(w) ELSE orphaned
  /\ UNCHANGED <<tableVars, backend, queue, requestVars, granted, interfered, arrivals>>

Crash(w) == wstate[w] # "down" /\ Stop(w, "down")

LoopDies(w) ==
  /\ wstate[w] \in {"idle", "popped", "indexing", "failing", "requeueing"}
  /\ Stop(w, "dead")
----------------------------------------------------------------------------
(* The worker loop                                                         *)

(* blpop removes the message before anything is done with it.              *)
Dequeue(w) ==
  /\ wstate[w] = "idle"
  /\ backend = "redis"
  /\ queue # <<>>
  /\ queue' = Tail(queue)
  /\ wtask' = [wtask EXCEPT ![w] = Head(queue)]
  /\ wstate' = [wstate EXCEPT ![w] = "popped"]
  /\ UNCHANGED <<tableVars, backend, batch, seen, requestVars, historyVars, arrivals,
                 faults>>

(* The select of claim_next_queued_task: the oldest queued row.            *)
Peek(w) ==
  /\ wstate[w] = "idle"
  /\ backend = "database"
  /\ \E t \in QueuedTasks :
       /\ \A u \in QueuedTasks : t <= u
       /\ wtask' = [wtask EXCEPT ![w] = t]
  /\ wstate' = [wstate EXCEPT ![w] = "popped"]
  /\ UNCHANGED <<tableVars, backend, queue, batch, seen, requestVars, historyVars,
                 arrivals, faults>>

(* Mutant: the claim does not ask whether the row is still queued.         *)
ClaimTaskUnguarded(w) ==
  /\ wstate[w] = "popped"
  /\ LET t == wtask[w] IN
       /\ status' = [status EXCEPT ![t] = "processing"]
       /\ attempts' = [attempts EXCEPT ![t] = @ + 1]
       /\ stale' = stale \ {t}
  /\ wstate' = [wstate EXCEPT ![w] = "indexing"]
  /\ UNCHANGED <<file_path, wtask, backend, queue, batch, seen, requestVars, historyVars,
                 arrivals, faults>>

(* Mutant: the claim forgets to count the attempt.                         *)
ClaimTaskUncounted(w) ==
  /\ wstate[w] = "popped"
  /\ LET t == wtask[w] IN
       \/ /\ status[t] = "queued"
          /\ status' = [status EXCEPT ![t] = "processing"]
          /\ stale' = stale \ {t}
          /\ wstate' = [wstate EXCEPT ![w] = "indexing"]
          /\ UNCHANGED wtask
       \/ /\ status[t] # "queued"
          /\ wstate' = [wstate EXCEPT ![w] = "idle"]
          /\ wtask' = [wtask EXCEPT ![w] = NoTask]
          /\ UNCHANGED <<status, stale>>
  /\ UNCHANGED <<file_path, attempts, backend, queue, batch, seen, requestVars, historyVars,
                 arrivals, faults>>

(* claim_task: UPDATE ... WHERE status = 'queued'; no row, no execution.   *)
ClaimTask(w) ==
  /\ wstate[w] = "popped"
  /\ LET t == wtask[w] IN
       \/ /\ status[t] = "queued"
          /\ status' = [status EXCEPT ![t] = "processing"]
          /\ attempts' = [attempts EXCEPT ![t] = @ + 1]
          /\ stale' = stale \ {t}
          /\ wstate' = [wstate EXCEPT ![w] = "indexing"]
          /\ UNCHANGED wtask
       \/ /\ status[t] # "queued"
          /\ wstate' = [wstate EXCEPT ![w] = "idle"]
          /\ wtask' = [wtask EXCEPT ![w] = NoTask]
          /\ UNCHANGED <<status, attempts, stale>>
  /\ UNCHANGED <<file_path, backend, queue, batch, seen, requestVars, historyVars,
                 arrivals, faults>>

(* process_task, the file indexed: update_task writes "completed" whatever *)
(* the row says by now.                                                    *)
Complete(w) ==
  /\ wstate[w] = "indexing"
  /\ status' = [status EXCEPT ![wtask[w]] = "completed"]
  /\ stale' = stale \ {wtask[w]}
  /\ wstate' = [wstate EXCEPT ![w] = "idle"]
  /\ wtask' = [wtask EXCEPT ![w] = NoTask]
  /\ UNCHANGED <<file_path, attempts, backend, queue, batch, seen, requestVars, historyVars,
                 arrivals, faults>>

(* process_task, an exception: mark_retry_or_failed reads the row, which   *)
(* another process may have written meanwhile.  An ORM attribute set to    *)
(* the value it already has is not written.                                *)
Fail(w) ==
  /\ wstate[w] = "indexing"
  /\ LET t == wtask[w] IN
       seen' = [seen EXCEPT ![w][t] = IF status[t] = RetryOrFail(attempts[t]) THEN 0
                                      ELSE attempts[t]]
  /\ wstate' = [wstate EXCEPT ![w] = "failing"]
  /\ UNCHANGED <<tableVars, backend, queue, wtask, batch, requestVars, historyVars,
                 arrivals, faults>>

(* Mutant: a retried task is left to the next start to push.               *)
MarkWithoutPush(w) ==
  /\ wstate[w] = "failing"
  /\ LET t == wtask[w]
         n == seen[w][t]
     IN /\ status' = [status EXCEPT ![t] = IF n = 0 THEN @ ELSE RetryOrFail(n)]
        /\ stale' = stale \ {t}
        /\ granted' = [granted EXCEPT ![t] = IF n \in {0, attempts[t]} THEN @ ELSE @ + 1]
        /\ wstate' = [wstate EXCEPT ![w] = "idle"]
        /\ wtask' = [wtask EXCEPT ![w] = NoTask]
  /\ seen' = [seen EXCEPT ![w] = NothingSeen]
  /\ UNCHANGED <<file_path, attempts, backend, queue, batch, requestVars, interfered,
                 orphaned, arrivals, faults>>

(* Mutant: the dispatcher keeps the task of an attempt that is over.       *)
MarkKeepsTask(w) ==
  /\ wstate[w] = "failing"
  /\ LET t == wtask[w]
         n == seen[w][t]
     IN /\ status' = [status EXCEPT ![t] = IF n = 0 THEN @ ELSE RetryOrFail(n)]
        /\ stale' = stale \ {t}
        /\ granted' = [granted EXCEPT ![t] = IF n \in {0, attempts[t]} THEN @ ELSE @ + 1]
        /\ wstate' = [wstate EXCEPT ![w] = IF status'[t] = "queued" /\ backend = "redis"
                                           THEN "requeueing" ELSE "idle"]
  /\ seen' = [seen EXCEPT ![w] = NothingSeen]
  /\ UNCHANGED <<file_path, attempts, wtask, backend, queue, batch, requestVars, interfered,
                 orphaned, arrivals, faults>>

(* ... and writes it by its primary key.  The status the row then has says *)
(* whether, with Redis, a later call pushes the task again.                *)
MarkRetryOrFailed(w) ==
  /\ wstate[w] = "failing"
  /\ LET t == wtask[w]
         n == seen[w][t]
     IN /\ status' = [status EXCEPT ![t] = IF n = 0 THEN @ ELSE RetryOrFail(n)]
        /\ stale' = stale \ {t}
        /\ granted' = [granted EXCEPT ![t] = IF n \in {0, attempts[t]} THEN @ ELSE @ + 1]
        /\ LET push == status'[t] = "queued" /\ backend = "redis" IN
             /\ wstate' = [wstate EXCEPT ![w] = IF push THEN "requeueing" ELSE "idle"]
             /\ wtask' = [wtask EXCEPT ![w] = IF push THEN t ELSE NoTask]
  /\ seen' = [seen EXCEPT ![w] = NothingSeen]
  /\ UNCHANGED <<file_path, attempts, backend, queue, batch, requestVars, interfered,
                 orphaned, arrivals, faults>>

Requeue(w) ==
  /\ wstate[w] = "requeueing"
  /\ Push(wtask[w])
  /\ wstate' = [wstate EXCEPT ![w] = "idle"]
  /\ wtask' = [wtask EXCEPT ![w] = NoTask]
  /\ UNCHANGED <<tableVars, backend, batch, seen, requestVars, granted, interfered,
                 arrivals>>

(* task_requeue_timeout_seconds go by with the row in processing.          *)
GrowStale(t) ==
  /\ status[t] = "processing"
  /\ t \notin stale
  /\ stale' = stale \union {t}
  /\ UNCHANGED <<status, file_path, attempts, backend, queue, workerVars, requestVars,
                 historyVars, arrivals, faults>>
----------------------------------------------------------------------------
RequestStep(r) ==
  \/ \E f \in Files : Upload(r, f)
  \/ \E t \in Tasks : RetryCheck(r, t)
  \/ CreateTask(r)
  \/ RetryUpdate(r)
  \/ Enqueue(r)
  \/ RequestFails(r)

WorkerStep(w) ==
  \/ Start(w) \/ TakeBack(w) \/ ListQueued(w) \/ Republish(w)
  \/ Dequeue(w) \/ Peek(w) \/ ClaimTask(w)
  \/ Complete(w) \/ Fail(w) \/ MarkRetryOrFailed(w) \/ Requeue(w)
  \/ Shutdown(w) \/ Crash(w) \/ LoopDies(w)

Next ==
  \/ \E r \in Requests : RequestStep(r)
  \/ \E w \in Workers : WorkerStep(w)
  \/ \E t \in Tasks : GrowStale(t)

Spec == Init /\ [][Next]_vars

(* A request that was accepted runs to its end; a dispatcher keeps running *)
(* its loop; a stopped one is started again (restart: unless-stopped in    *)
(* docker-compose.yml); an attempt ends one way or the other (the file     *)
(* I/O, embedding and database calls of an attempt return or raise); and   *)
(* time goes by.                                                           *)
Fairness ==
  /\ \A r \in Requests : WF_vars(CreateTask(r) \/ RetryUpdate(r) \/ Enqueue(r))
  /\ \A w \in Workers :
       WF_vars(Start(w) \/ TakeBack(w) \/ ListQueued(w) \/ Republish(w)
               \/ Dequeue(w) \/ Peek(w) \/ ClaimTask(w)
               \/ Complete(w) \/ Fail(w) \/ MarkRetryOrFailed(w) \/ Requeue(w))
  /\ \A t \in Tasks : WF_vars(GrowStale(t))

FairSpec == Spec /\ Fairness
----------------------------------------------------------------------------
(* Values stay in their domains, a dispatcher holds a task exactly where   *)
(* its code holds one, and only a processing row can be stale.             *)
TypeOK ==
  /\ status \in [Tasks -> Statuses]
  /\ file_path \in [Tasks -> Files \union {NoFile}]
  /\ attempts \in [Tasks -> Nat]
  /\ stale \subseteq {t \in Tasks : status[t] = "processing"}
  /\ backend \in Backends
  /\ queue \in Seq(Tasks)
  /\ wstate \in [Workers -> WorkerStates]
  /\ wtask \in [Workers -> Tasks \union {NoTask}]
  /\ batch \in [Workers -> SUBSET Tasks]
  /\ seen \in [Workers -> [Tasks -> Nat]]
  /\ rstate \in [Requests -> RequestStates]
  /\ rtask \in [Requests -> Tasks \union {NoTask}]
  /\ rfile \in [Requests -> Files \union {NoFile}]
  /\ granted \in [Tasks -> Nat]
  /\ interfered \subseteq Tasks
  /\ orphaned \subseteq Tasks
  /\ arrivals \in Nat
  /\ faults \in Nat
  /\ \A w \in Workers :
       wtask[w] \in Tasks
         <=> wstate[w] \in {"popped", "indexing", "failing", "requeueing"}
  /\ \A r \in Requests :
       rtask[r] \in Tasks <=> rstate[r] \in {"retrying", "enqueueing"}

(* The retry budget of mark_retry_or_failed and requeue_stale_processing_  *)
(* tasks: an attempt beyond max_retries is one that a retry request bought *)
(* (the route does not reset attempt_count, so each buys at most one) or   *)
(* that a write bought which went by an attempt_count read before another  *)
(* dispatcher's claim raised it; and no task is given up before its budget *)
(* is spent.                                                               *)
RetryBudget ==
  \A t \in Tasks :
    /\ attempts[t] <= MaxRetries + granted[t]
    /\ status[t] = "queued" => attempts[t] < MaxRetries + granted[t]
    /\ status[t] = "failed_permanently" => attempts[t] >= MaxRetries

(* Two dispatchers execute one task only after its status was taken from   *)
(* under a live execution, by a start that had found the row stale or by a *)
(* retry request whose check the claim overtook.  Duplicated messages,     *)
(* republishing, crashes and reused tasks never cause it: the claim's      *)
(* WHERE clause is enough.                                                 *)
SingleExecution ==
  \A t \in Tasks \ interfered :
    /\ \A v, w \in Executors(t) : v = w
    /\ status[t] # "processing" => Executors(t) = {}

(* Who will bring t to a consumer.                                         *)
Carried(t) ==
  \/ InQueue(t)
  \/ \E w \in Workers : t \in CarriedBy(w)
  \/ \E r \in Requests : rstate[r] = "enqueueing" /\ rtask[r] = t

(* With Redis, the table and the list are written by separate calls.  A    *)
(* queued row without a message in the list or with someone about to push  *)
(* or claim it is the work of a fault, and no interleaving of fault-free   *)
(* steps can produce it.                                                   *)
QueuedIsCarried ==
  backend = "redis" =>
    \A t \in QueuedTasks : Carried(t) \/ t \in orphaned

(* The rows and executions behave as the task life cycle says.             *)
Running == [t \in Tasks |-> Executors(t)]
Lifecycle == INSTANCE TaskLifecycle WITH running <- Running
LifecycleSpec == Lifecycle!Spec

(* No task stays unsettled for good while a loop is alive, unless a fault  *)
(* lost its message or killed its execution: retries end, duplicates and   *)
(* skipped messages do not starve the others, and in the database backend  *)
(* polling finds every queued row.                                         *)
Settled(t) == status[t] \in {"completed", "failed_permanently"}
Abandoned(t) == status[t] = "processing" /\ Executors(t) = {}
EveryTaskSettles ==
  \A t \in Tasks :
    status[t] # "none" ~>
      \/ Settled(t)
      \/ Abandoned(t)
      \/ t \in orphaned
      \/ \A w \in Workers : wstate[w] = "dead"

(* "Start the dispatcher and recover unfinished tasks" (the docstring of   *)
(* start): with dispatchers that are started again and time that goes by,  *)
(* no row stays in processing while some dispatcher's loop is alive.       *)
StartRecoversUnfinished ==
  \A t \in Tasks :
    status[t] = "processing" ~>
      status[t] # "processing" \/ \A w \in Workers : wstate[w] = "dead"
=============================================================================
