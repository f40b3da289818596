------------------------ MODULE IndexingQueueProofs ------------------------
(***************************************************************************)
(* Theorems about IndexingQueue, for any number of tasks, files,           *)
(* dispatchers and requests, any retry limit and any bounds.               *)
(***************************************************************************)
EXTENDS IndexingQueue, TLAPS

LEMMA NoTaskIsNone == NoTask \notin Tasks
  BY DEF NoTask, Tasks

(* The next status of a failed attempt is one of two.                      *)
LEMMA RetryOrFailType ==
  ASSUME NEW n
  PROVE  RetryOrFail(n) \in {"failed_permanently", "queued"}
  BY DEF RetryOrFail

(* A send leaves a list of tasks and only shrinks orphaned.                *)
LEMMA PushType ==
  ASSUME TypeOK, NEW t \in Tasks, Push(t)
  PROVE  /\ queue' \in Seq(Tasks)
         /\ orphaned' \subseteq Tasks
         /\ faults' \in Nat
<1>1. Append(queue, t) \in Seq(Tasks)
  BY DEF TypeOK
<1>2. Append(Append(queue, t), t) \in Seq(Tasks)
  BY <1>1
<1>3. queue' \in Seq(Tasks)
  <2>1. queue' = Append(queue, t) \/ queue' = Append(Append(queue, t), t)
    BY DEF Push
  <2>. QED
    BY <1>1, <1>2, <2>1
<1>4. orphaned' \subseteq Tasks
  BY DEF Push, TypeOK
<1>5. faults' \in Nat
  <2>1. faults' = faults \/ faults' = faults + 1
    BY DEF Push
  <2>. QED
    BY <2>1 DEF TypeOK
<1>. QED
  BY <1>3, <1>4, <1>5
----------------------------------------------------------------------------
THEOREM TypeCorrect == Spec => []TypeOK
<1>1. Init => TypeOK
  BY NoTaskIsNone, QueueAssumption
     DEF Init, TypeOK, Statuses, WorkerStates, RequestStates, NothingSeen
<1>2. TypeOK /\ [Next]_vars => TypeOK'
  <2> SUFFICES ASSUME TypeOK, [Next]_vars PROVE TypeOK'
    OBVIOUS
  <2> USE NoTaskIsNone DEF TypeOK, Statuses, WorkerStates, RequestStates
  <2>0. NothingSeen \in [Tasks -> Nat]
    BY DEF NothingSeen
  <2>1. ASSUME NEW r \in Requests, NEW f \in Files, Upload(r, f)
        PROVE  TypeOK'
    <3>1. ASSUME NEW t \in ActiveTasks(f),
                 rstate' = [rstate EXCEPT ![r] = "enqueueing"],
                 rtask' = [rtask EXCEPT ![r] = t],
                 UNCHANGED rfile
          PROVE  TypeOK'
      BY <2>1, <3>1 DEF Upload, ActiveTasks, tableVars, workerVars, historyVars
    <3>2. ASSUME rstate' = [rstate EXCEPT ![r] = "creating"],
                 rfile' = [rfile EXCEPT ![r] = f],
                 UNCHANGED rtask,
                 rstate[r] = "free"
          PROVE  TypeOK'
      BY <2>1, <3>2 DEF Upload, tableVars, workerVars, historyVars
    <3>. QED
      BY <2>1, <3>1, <3>2 DEF Upload
  <2>2. ASSUME NEW r \in Requests, NEW t \in Tasks, RetryCheck(r, t)
        PROVE  TypeOK'
    BY <2>2 DEF RetryCheck, tableVars, workerVars, historyVars
  <2>3. ASSUME NEW r \in Requests, CreateTask(r)
        PROVE  TypeOK'
    BY <2>3 DEF CreateTask, workerVars, historyVars
  <2>4. ASSUME NEW r \in Requests, RetryUpdate(r)
        PROVE  TypeOK'
    BY <2>4 DEF RetryUpdate, workerVars
  <2>5. ASSUME NEW r \in Requests, Enqueue(r)
        PROVE  TypeOK'
    <3>1. /\ queue' \in Seq(Tasks)
          /\ orphaned' \subseteq Tasks
          /\ faults' \in Nat
      BY <2>5, PushType DEF Enqueue
    <3>. QED
      BY <2>5, <3>1 DEF Enqueue, tableVars, workerVars
  <2>6. ASSUME NEW r \in Requests, RequestFails(r)
        PROVE  TypeOK'
    BY <2>6 DEF RequestFails, tableVars, workerVars
  <2>7. ASSUME NEW w \in Workers, Start(w)
        PROVE  TypeOK'
    BY <2>7 DEF Start, tableVars, requestVars, historyVars
  <2>20. ASSUME NEW w \in Workers, TakeBack(w)
         PROVE  TypeOK'
    <3>1. status' \in [Tasks -> Statuses]
      BY <2>20, RetryOrFailType DEF TakeBack
    <3>2. granted' \in [Tasks -> Nat]
      BY <2>20 DEF TakeBack
    <3>. QED
      BY <2>0, <2>20, <3>1, <3>2 DEF TakeBack, requestVars
  <2>8. ASSUME NEW w \in Workers, ListQueued(w)
        PROVE  TypeOK'
    BY <2>8 DEF ListQueued, QueuedTasks, tableVars, requestVars, historyVars
  <2>9. ASSUME NEW w \in Workers, Republish(w)
        PROVE  TypeOK'
    <3>1. /\ queue' \in Seq(Tasks)
          /\ orphaned' \subseteq Tasks
          /\ faults' \in Nat
      BY <2>9, PushType DEF Republish
    <3>2. ASSUME NEW t \in batch[w],
                 batch' = [batch EXCEPT ![w] = @ \ {t}],
                 UNCHANGED wstate
          PROVE  TypeOK'
      BY <2>9, <3>1, <3>2 DEF Republish, tableVars, requestVars
    <3>3. ASSUME wstate' = [wstate EXCEPT ![w] = "idle"],
                 UNCHANGED <<queue, batch, orphaned, faults>>
          PROVE  TypeOK'
      BY <2>9, <3>3 DEF Republish, tableVars, requestVars
    <3>. QED
      BY <2>9, <3>2, <3>3 DEF Republish
  <2>10. ASSUME NEW w \in Workers, Dequeue(w)
         PROVE  TypeOK'
    <3>1. Head(queue) \in Tasks /\ Tail(queue) \in Seq(Tasks)
      BY <2>10 DEF Dequeue
    <3>. QED
      BY <2>10, <3>1 DEF Dequeue, tableVars, requestVars, historyVars
  <2>11. ASSUME NEW w \in Workers, Peek(w)
         PROVE  TypeOK'
    BY <2>11 DEF Peek, QueuedTasks, tableVars, requestVars, historyVars
  <2>12. ASSUME NEW w \in Workers, ClaimTask(w)
         PROVE  TypeOK'
    <3>. DEFINE t == wtask[w]
    <3>1. t \in Tasks
      BY <2>12 DEF ClaimTask
    <3>2. ASSUME status' = [status EXCEPT ![t] = "processing"],
                 attempts' = [attempts EXCEPT ![t] = @ + 1],
                 stale' = stale \ {t},
                 wstate' = [wstate EXCEPT ![w] = "indexing"],
                 UNCHANGED wtask
          PROVE  TypeOK'
      BY <2>12, <3>1, <3>2 DEF ClaimTask, requestVars, historyVars
    <3>3. ASSUME wstate' = [wstate EXCEPT ![w] = "idle"],
                 wtask' = [wtask EXCEPT ![w] = NoTask],
                 UNCHANGED <<status, attempts, stale>>
          PROVE  TypeOK'
      BY <2>12, <3>3 DEF ClaimTask, requestVars, historyVars
    <3>. QED
      BY <2>12, <3>2, <3>3 DEF ClaimTask
  <2>13. ASSUME NEW w \in Workers, Complete(w)
         PROVE  TypeOK'
    BY <2>13 DEF Complete, requestVars, historyVars
  <2>14. ASSUME NEW w \in Workers, Fail(w)
         PROVE  TypeOK'
    BY <2>14 DEF Fail, tableVars, requestVars, historyVars
  <2>21. ASSUME NEW w \in Workers, MarkRetryOrFailed(w)
         PROVE  TypeOK'
    <3>. DEFINE t == wtask[w]
    <3>1. t \in Tasks
      BY <2>21 DEF MarkRetryOrFailed
    <3>2. status' \in [Tasks -> Statuses]
      BY <2>21, RetryOrFailType DEF MarkRetryOrFailed
    <3>3. granted' \in [Tasks -> Nat]
      BY <2>21 DEF MarkRetryOrFailed
    <3>4. stale' \subseteq {u \in Tasks : status'[u] = "processing"}
      BY <2>21, <3>1 DEF MarkRetryOrFailed
    <3>. HIDE DEF t
    <3>5. ASSUME wstate' = [wstate EXCEPT ![w] = "requeueing"],
                 wtask' = [wtask EXCEPT ![w] = t]
          PROVE  TypeOK'
      BY <2>0, <2>21, <3>1, <3>2, <3>3, <3>4, <3>5 DEF MarkRetryOrFailed, requestVars
    <3>6. ASSUME wstate' = [wstate EXCEPT ![w] = "idle"],
                 wtask' = [wtask EXCEPT ![w] = NoTask]
          PROVE  TypeOK'
      BY <2>0, <2>21, <3>2, <3>3, <3>4, <3>6 DEF MarkRetryOrFailed, requestVars
    <3>. QED
      BY <2>21, <3>5, <3>6 DEF MarkRetryOrFailed, t
  <2>15. ASSUME NEW w \in Workers, Requeue(w)
         PROVE  TypeOK'
    <3>1. /\ queue' \in Seq(Tasks)
          /\ orphaned' \subseteq Tasks
          /\ faults' \in Nat
      BY <2>15, PushType DEF Requeue
    <3>. QED
      BY <2>15, <3>1 DEF Requeue, tableVars, requestVars
  <2>16. ASSUME NEW w \in Workers, Shutdown(w)
         PROVE  TypeOK'
    BY <2>16 DEF Shutdown, tableVars, requestVars, historyVars
  <2>17. ASSUME NEW w \in Workers, NEW s \in {"down", "dead"}, Stop(w, s)
         PROVE  TypeOK'
    <3>1. CarriedBy(w) \subseteq Tasks
      BY DEF CarriedBy, QueuedTasks
    <3>. QED
      BY <2>0, <2>17, <3>1 DEF Stop, tableVars, requestVars
  <2>18. ASSUME NEW t \in Tasks, GrowStale(t)
         PROVE  TypeOK'
    BY <2>18 DEF GrowStale, workerVars, requestVars, historyVars
  <2>19. CASE UNCHANGED vars
    BY <2>19 DEF vars, tableVars, workerVars, requestVars, historyVars
  <2>. QED
    BY <2>1, <2>2, <2>3, <2>4, <2>5, <2>6, <2>7, <2>8, <2>9, <2>10, <2>11, <2>12,
       <2>13, <2>14, <2>15, <2>16, <2>17, <2>18, <2>19, <2>20, <2>21
       DEF Next, RequestStep, WorkerStep, Crash, LoopDies
<1>. QED
  BY <1>1, <1>2, PTL DEF Spec
----------------------------------------------------------------------------
(* An attempt_count that a dispatcher has read is one the row has or had:  *)
(* counts never fall.                                                      *)
SeenIsPast == \A w \in Workers, t \in Tasks : seen[w][t] <= attempts[t]

LEMMA SeenIsPastHolds == Spec => []SeenIsPast
<1>1. Init => SeenIsPast
  BY DEF Init, SeenIsPast, NothingSeen
<1>2. TypeOK /\ SeenIsPast /\ [Next]_vars => SeenIsPast'
  <2> SUFFICES ASSUME TypeOK, SeenIsPast, [Next]_vars PROVE SeenIsPast'
    OBVIOUS
  <2>0. /\ attempts \in [Tasks -> Nat]
        /\ seen \in [Workers -> [Tasks -> Nat]]
    BY DEF TypeOK
  <2>1. CASE UNCHANGED <<seen, attempts>>
    BY <2>1 DEF SeenIsPast
  <2>2. ASSUME NEW w \in Workers, seen' = [seen EXCEPT ![w] = NothingSeen], UNCHANGED attempts
        PROVE  SeenIsPast'
    BY <2>0, <2>2 DEF SeenIsPast, NothingSeen
  <2>3. ASSUME NEW w \in Workers, Start(w)
        PROVE  SeenIsPast'
    BY <2>0, <2>3 DEF Start, tableVars, SeenIsPast
  <2>4. ASSUME NEW w \in Workers, Fail(w)
        PROVE  SeenIsPast'
    BY <2>0, <2>4 DEF Fail, tableVars, SeenIsPast
  <2>5. ASSUME NEW w \in Workers, ClaimTask(w)
        PROVE  SeenIsPast'
    <3>1. seen' = seen /\ \A t \in Tasks : attempts'[t] >= attempts[t] /\ attempts'[t] \in Nat
      BY <2>0, <2>5 DEF ClaimTask
    <3>. QED
      BY <2>0, <3>1 DEF SeenIsPast
  <2>6. ASSUME NEW r \in Requests, RequestStep(r)
        PROVE  SeenIsPast'
    BY <2>1, <2>6
       DEF RequestStep, Upload, RetryCheck, CreateTask, RetryUpdate, Enqueue, RequestFails,
           tableVars, workerVars
  <2>7. ASSUME NEW w \in Workers, WorkerStep(w)
        PROVE  SeenIsPast'
    BY <2>1, <2>2, <2>3, <2>4, <2>5, <2>7
       DEF WorkerStep, TakeBack, ListQueued, Republish, Dequeue, Peek, Complete,
           MarkRetryOrFailed, Requeue, Shutdown, Crash, LoopDies, Stop, tableVars
  <2>. QED
    BY <2>1, <2>6, <2>7 DEF Next, GrowStale, vars, tableVars, workerVars
<1>. QED
  BY <1>1, <1>2, TypeCorrect, PTL DEF Spec

(* The retry budget.  RetryBudget alone is not inductive: the insert makes *)
(* a row queued, so a row that does not exist yet must have budget too.    *)
BudgetInv ==
  /\ RetryBudget
  /\ \A t \in Tasks : status[t] = "none" => attempts[t] < MaxRetries + granted[t]

(* Steps that leave the three fields alone.                                *)
LEMMA BudgetUntouched ==
  ASSUME BudgetInv, UNCHANGED <<status, attempts, granted>>
  PROVE  BudgetInv'
  BY DEF BudgetInv, RetryBudget

(* What a failed or timed-out attempt writes on the strength of a count n  *)
(* respects the budget: when the row has gone beyond n by then, the write  *)
(* grants the attempt it may cost.                                         *)
LEMMA VerdictInBudget ==
  ASSUME TypeOK, BudgetInv, NEW t \in Tasks, NEW n \in Nat, n <= attempts[t],
         status'[t] = RetryOrFail(n), UNCHANGED attempts,
         granted'[t] = IF n = attempts[t] THEN granted[t] ELSE granted[t] + 1
  PROVE  /\ attempts'[t] <= MaxRetries + granted'[t]
         /\ status'[t] \in {"none", "queued"} => attempts'[t] < MaxRetries + granted'[t]
         /\ status'[t] = "failed_permanently" => attempts'[t] >= MaxRetries
<1>1. attempts[t] \in Nat /\ granted[t] \in Nat /\ MaxRetries \in Nat
  BY QueueAssumption DEF TypeOK
<1>2. attempts[t] <= MaxRetries + granted[t]
  BY DEF BudgetInv, RetryBudget
<1>3. CASE n >= MaxRetries
  BY <1>1, <1>2, <1>3 DEF RetryOrFail
<1>4. CASE ~(n >= MaxRetries)
  BY <1>1, <1>2, <1>4 DEF RetryOrFail
<1>. QED
  BY <1>3, <1>4

(* mark_retry_or_failed and requeue_stale_processing_tasks never exceed    *)
(* the budget, and never give a task up before it is spent.                *)
THEOREM RetryBudgetHolds == Spec => []RetryBudget
<1>1. Init => BudgetInv
  BY QueueAssumption DEF Init, BudgetInv, RetryBudget
<1>2. TypeOK /\ SeenIsPast /\ BudgetInv /\ [Next]_vars => BudgetInv'
  <2> SUFFICES ASSUME TypeOK, SeenIsPast, BudgetInv, [Next]_vars PROVE BudgetInv'
    OBVIOUS
  <2>0. /\ status \in [Tasks -> Statuses]
        /\ attempts \in [Tasks -> Nat]
        /\ granted \in [Tasks -> Nat]
        /\ seen \in [Workers -> [Tasks -> Nat]]
    BY DEF TypeOK
  <2>1. ASSUME NEW r \in Requests, CreateTask(r)
        PROVE  BudgetInv'
    BY <2>0, <2>1 DEF CreateTask, historyVars, BudgetInv, RetryBudget
  <2>2. ASSUME NEW r \in Requests, RetryUpdate(r)
        PROVE  BudgetInv'
    <3>1. rtask[r] \in Tasks
      BY <2>2 DEF RetryUpdate, TypeOK
    <3>. QED
      BY <2>0, <2>2, <3>1, QueueAssumption DEF RetryUpdate, BudgetInv, RetryBudget
  <2>3. ASSUME NEW w \in Workers, TakeBack(w)
        PROVE  BudgetInv'
    <3>. DEFINE BudgetOf(t) ==
           /\ attempts[t] <= MaxRetries + granted[t]
           /\ status[t] \in {"none", "queued"} => attempts[t] < MaxRetries + granted[t]
           /\ status[t] = "failed_permanently" => attempts[t] >= MaxRetries
    <3>1. ASSUME NEW t \in Tasks PROVE BudgetOf(t)'
      <4>1. CASE seen[w][t] = 0
        <5>1. status'[t] = status[t] /\ granted'[t] = granted[t] /\ attempts' = attempts
          BY <2>3, <4>1 DEF TakeBack
        <5>. QED
          BY <5>1 DEF BudgetInv, RetryBudget
      <4>2. CASE seen[w][t] # 0
        <5>1. /\ status'[t] = RetryOrFail(seen[w][t])
              /\ UNCHANGED attempts
              /\ granted'[t] = IF seen[w][t] = attempts[t] THEN granted[t] ELSE granted[t] + 1
          BY <2>3, <4>2 DEF TakeBack
        <5>2. seen[w][t] \in Nat /\ seen[w][t] <= attempts[t]
          BY <2>0 DEF SeenIsPast
        <5>. QED
          BY <5>1, <5>2, VerdictInBudget
      <4>. QED
        BY <4>1, <4>2
    <3>. QED
      BY <3>1 DEF BudgetInv, RetryBudget
  <2>4. ASSUME NEW w \in Workers, ClaimTask(w)
        PROVE  BudgetInv'
    <3>1. wtask[w] \in Tasks
      BY <2>4 DEF ClaimTask, TypeOK
    <3>2. CASE status[wtask[w]] = "queued"
      BY <2>0, <2>4, <3>1, <3>2, QueueAssumption
         DEF ClaimTask, historyVars, BudgetInv, RetryBudget
    <3>3. CASE status[wtask[w]] # "queued"
      BY <2>4, <3>3, BudgetUntouched DEF ClaimTask, historyVars
    <3>. QED
      BY <3>2, <3>3
  <2>5. ASSUME NEW w \in Workers, Complete(w)
        PROVE  BudgetInv'
    BY <2>0, <2>5 DEF Complete, historyVars, BudgetInv, RetryBudget
  <2>6. ASSUME NEW w \in Workers, MarkRetryOrFailed(w)
        PROVE  BudgetInv'
    <3>. DEFINE u == wtask[w]
                n == seen[w][u]
    <3>1. u \in Tasks /\ n \in Nat /\ n <= attempts[u]
      BY <2>0, <2>6 DEF MarkRetryOrFailed, TypeOK, SeenIsPast
    <3>2. CASE n = 0
      BY <2>0, <2>6, <3>1, <3>2, BudgetUntouched DEF MarkRetryOrFailed
    <3>3. CASE n # 0
      <4>1. /\ status' = [status EXCEPT ![u] = RetryOrFail(n)]
            /\ granted' = [granted EXCEPT ![u] = IF n = attempts[u] THEN @ ELSE @ + 1]
            /\ UNCHANGED attempts
        BY <2>6, <3>3 DEF MarkRetryOrFailed
      <4>. HIDE DEF u, n
      <4>2. /\ attempts'[u] <= MaxRetries + granted'[u]
            /\ status'[u] \in {"none", "queued"} => attempts'[u] < MaxRetries + granted'[u]
            /\ status'[u] = "failed_permanently" => attempts'[u] >= MaxRetries
        BY <2>0, <3>1, <4>1, VerdictInBudget
      <4>3. \A t \in Tasks \ {u} : status'[t] = status[t] /\ granted'[t] = granted[t]
        BY <2>0, <4>1
      <4>. QED
        BY <4>1, <4>2, <4>3 DEF BudgetInv, RetryBudget
    <3>. QED
      BY <3>2, <3>3
  <2>7. ASSUME UNCHANGED <<status, attempts, granted>>
        PROVE  BudgetInv'
    BY <2>7, BudgetUntouched
  <2>8. ASSUME NEW r \in Requests, RequestStep(r)
        PROVE  BudgetInv'
    BY <2>1, <2>2, <2>7, <2>8
       DEF RequestStep, Upload, RetryCheck, Enqueue, RequestFails, tableVars, historyVars
  <2>9. ASSUME NEW w \in Workers, WorkerStep(w)
        PROVE  BudgetInv'
    BY <2>3, <2>4, <2>5, <2>6, <2>7, <2>9
       DEF WorkerStep, Start, ListQueued, Republish, Shutdown, Crash, LoopDies, Stop,
           Dequeue, Peek, Fail, Requeue, tableVars, historyVars
  <2>. QED
    BY <2>7, <2>8, <2>9 DEF Next, GrowStale, vars, tableVars, historyVars
<1>3. BudgetInv => RetryBudget
  BY DEF BudgetInv
<1>. QED
  BY <1>1, <1>2, <1>3, TypeCorrect, SeenIsPastHolds, PTL DEF Spec
----------------------------------------------------------------------------
(* Two dispatchers execute one task only after its status was taken from   *)
(* under a live execution: SingleExecution is inductive relative to the    *)
(* types, because the claim is guarded by the row's own status.            *)
THEOREM SingleExecutionHolds == Spec => []SingleExecution
<1>1. Init => SingleExecution
  BY DEF Init, SingleExecution, Executors
<1>2. TypeOK /\ SingleExecution /\ [Next]_vars => SingleExecution'
  <2> SUFFICES ASSUME TypeOK, SingleExecution, [Next]_vars PROVE SingleExecution'
    OBVIOUS
  <2>0. /\ status \in [Tasks -> Statuses]
        /\ wstate \in [Workers -> WorkerStates]
        /\ wtask \in [Workers -> Tasks \union {NoTask}]
    BY DEF TypeOK
  <2>1. ASSUME UNCHANGED <<status, interfered>>,
               \A t \in Tasks : Executors(t)' \subseteq Executors(t)
        PROVE  SingleExecution'
    BY <2>1 DEF SingleExecution
  <2>2. ASSUME NEW r \in Requests, CreateTask(r)
        PROVE  SingleExecution'
    BY <2>0, <2>2 DEF CreateTask, workerVars, historyVars, SingleExecution, Executors
  <2>3. ASSUME NEW r \in Requests, RetryUpdate(r)
        PROVE  SingleExecution'
    <3>1. \A t \in Tasks : Executors(t)' = Executors(t)
      BY <2>3 DEF RetryUpdate, workerVars, Executors
    <3>. QED
      BY <2>0, <2>3, <3>1 DEF RetryUpdate, SingleExecution
  <2>4. ASSUME NEW w \in Workers, TakeBack(w)
        PROVE  SingleExecution'
    <3>1. \A t \in Tasks : Executors(t)' = Executors(t)
      BY <2>0, <2>4 DEF TakeBack, Executors
    <3>2. ASSUME NEW t \in Tasks, t \notin interfered'
          PROVE  t \notin interfered /\ (status'[t] = status[t] \/ Executors(t) = {})
      BY <2>4, <3>2 DEF TakeBack
    <3>. QED
      BY <3>1, <3>2 DEF SingleExecution
  <2>5. ASSUME NEW w \in Workers, ClaimTask(w)
        PROVE  SingleExecution'
    <3>1. CASE status[wtask[w]] = "queued"
      <4>1. wtask[w] \in Tasks
        BY <2>5 DEF ClaimTask, TypeOK
      <4>2. \A t \in Tasks \ {wtask[w]} :
              Executors(t)' \subseteq Executors(t) /\ status'[t] = status[t]
        BY <2>0, <2>5, <3>1 DEF ClaimTask, Executors
      <4>3. \A t \in Tasks : Executors(t)' \subseteq Executors(t) \union {w}
        BY <2>0, <2>5, <3>1 DEF ClaimTask, Executors
      <4>4. status'[wtask[w]] = "processing"
        BY <2>0, <2>5, <3>1, <4>1 DEF ClaimTask
      <4>5. wtask[w] \notin interfered => Executors(wtask[w]) = {}
        BY <3>1, <4>1 DEF SingleExecution
      <4>6. interfered' = interfered
        BY <2>5 DEF ClaimTask, historyVars
      <4>. QED
        <5> SUFFICES ASSUME NEW t \in Tasks, t \notin interfered'
                     PROVE  /\ \A u, v \in Executors(t)' : u = v
                            /\ status'[t] # "processing" => Executors(t)' = {}
          BY DEF SingleExecution
        <5>1. CASE t = wtask[w]
          <6>1. Executors(t) = {}
            BY <5>1, <4>5, <4>6
          <6>2. Executors(t)' \subseteq {w}
            BY <6>1, <4>3
          <6>. QED
            BY <6>2, <5>1, <4>4
        <5>2. CASE t # wtask[w]
          BY <5>2, <4>2, <4>6 DEF SingleExecution
        <5>. QED
          BY <5>1, <5>2
    <3>2. CASE status[wtask[w]] # "queued"
      <4>1. \A t \in Tasks : Executors(t)' \subseteq Executors(t)
        BY <2>0, <2>5, <3>2 DEF ClaimTask, Executors
      <4>. QED
        BY <2>1, <2>5, <3>2, <4>1 DEF ClaimTask, historyVars
    <3>. QED
      BY <3>1, <3>2
  <2>6. ASSUME NEW w \in Workers, wstate[w] \in {"indexing", "failing"}, wtask[w] \in Tasks,
               UNCHANGED interfered,
               \A t \in Tasks : Executors(t)' \subseteq Executors(t) \ {w},
               \A t \in Tasks \ {wtask[w]} : status'[t] = status[t]
        PROVE  SingleExecution'
    <3>1. w \in Executors(wtask[w])
      BY <2>6 DEF Executors
    <3>. QED
      BY <2>6, <3>1 DEF SingleExecution
  <2>7. ASSUME NEW w \in Workers, Complete(w) \/ MarkRetryOrFailed(w)
        PROVE  SingleExecution'
    <3>1. wstate[w] \in {"indexing", "failing"} /\ wtask[w] \in Tasks
      BY <2>7 DEF Complete, MarkRetryOrFailed, TypeOK
    <3>2. \A t \in Tasks : Executors(t)' \subseteq Executors(t) \ {w}
      <4>1. /\ wstate'[w] \notin {"indexing", "failing"}
            /\ \A v \in Workers \ {w} : wstate'[v] = wstate[v] /\ wtask'[v] = wtask[v]
        BY <2>0, <2>7 DEF Complete, MarkRetryOrFailed
      <4>. QED
        BY <4>1 DEF Executors
    <3>3. \A t \in Tasks \ {wtask[w]} : status'[t] = status[t]
      BY <2>0, <2>7 DEF Complete, MarkRetryOrFailed
    <3>4. UNCHANGED interfered
      BY <2>7 DEF Complete, MarkRetryOrFailed, historyVars
    <3>. QED
      BY <2>6, <3>1, <3>2, <3>3, <3>4
  <2>8. ASSUME NEW r \in Requests, RequestStep(r)
        PROVE  SingleExecution'
    <3>1. ASSUME UNCHANGED <<status, interfered, wstate, wtask>>
          PROVE  SingleExecution'
      BY <2>1, <3>1 DEF Executors
    <3>. QED
      BY <2>2, <2>3, <2>8, <3>1
         DEF RequestStep, Upload, RetryCheck, Enqueue, RequestFails, tableVars,
             workerVars, historyVars
  <2>9. ASSUME NEW w \in Workers, WorkerStep(w)
        PROVE  SingleExecution'
    <3>1. ASSUME NEW s \in WorkerStates \ {"indexing", "failing"},
                 wstate' = [wstate EXCEPT ![w] = s], UNCHANGED <<status, interfered>>,
                 \A v \in Workers \ {w} : wtask'[v] = wtask[v]
          PROVE  SingleExecution'
      BY <2>0, <2>1, <3>1 DEF Executors
    <3>2. ASSUME UNCHANGED <<status, interfered, wstate, wtask>>
          PROVE  SingleExecution'
      BY <2>1, <3>2 DEF Executors
    <3>3. ASSUME Republish(w) PROVE SingleExecution'
      BY <2>0, <3>1, <3>2, <3>3 DEF Republish, tableVars, WorkerStates
    <3>4. ASSUME Start(w) \/ ListQueued(w) \/ Shutdown(w) PROVE SingleExecution'
      BY <2>0, <3>1, <3>4 DEF Start, ListQueued, Shutdown, tableVars, historyVars, WorkerStates
    <3>8. ASSUME Fail(w) PROVE SingleExecution'
      <4>1. \A t \in Tasks : Executors(t)' = Executors(t)
        BY <2>0, <3>8 DEF Fail, Executors
      <4>. QED
        BY <2>1, <3>8, <4>1 DEF Fail, tableVars, historyVars
    <3>5. ASSUME Crash(w) \/ LoopDies(w) PROVE SingleExecution'
      BY <2>0, <3>1, <3>5 DEF Crash, LoopDies, Stop, tableVars, WorkerStates
    <3>6. ASSUME Dequeue(w) \/ Requeue(w) PROVE SingleExecution'
      BY <2>0, <3>1, <3>6 DEF Dequeue, Requeue, tableVars, historyVars, WorkerStates
    <3>7. ASSUME Peek(w) PROVE SingleExecution'
      BY <2>0, <3>1, <3>7 DEF Peek, tableVars, historyVars, WorkerStates
    <3>. QED
      BY <2>4, <2>5, <2>7, <2>9, <3>3, <3>4, <3>5, <3>6, <3>7, <3>8 DEF WorkerStep
  <2>10. ASSUME NEW t \in Tasks, GrowStale(t)
         PROVE  SingleExecution'
    BY <2>1, <2>10 DEF GrowStale, workerVars, historyVars, Executors
  <2>11. CASE UNCHANGED vars
    BY <2>1, <2>11 DEF vars, tableVars, workerVars, historyVars, Executors
  <2>. QED
    BY <2>8, <2>9, <2>10, <2>11 DEF Next
<1>. QED
  BY <1>1, <1>2, TypeCorrect, PTL DEF Spec
----------------------------------------------------------------------------
(* A send puts its task in the list and takes nothing out of it.           *)
LEMMA PushCarries ==
  ASSUME TypeOK, NEW u \in Tasks, Push(u)
  PROVE  /\ InQueue(u)'
         /\ \A t \in Tasks : InQueue(t) => InQueue(t)'
<1>1. queue \in Seq(Tasks)
  BY DEF TypeOK
<1>2. CASE queue' = Append(queue, u)
  <2>1. /\ Len(queue') = Len(queue) + 1
        /\ queue'[Len(queue) + 1] = u
        /\ \A i \in 1 .. Len(queue) : queue'[i] = queue[i]
    BY <1>1, <1>2
  <2>. QED
    BY <1>1, <2>1 DEF InQueue
<1>3. CASE queue' = Append(Append(queue, u), u)
  <2>1. Append(queue, u) \in Seq(Tasks)
    BY <1>1
  <2>2. /\ Len(queue') = Len(queue) + 2
        /\ queue'[Len(queue) + 1] = u
        /\ \A i \in 1 .. Len(queue) : queue'[i] = queue[i]
    BY <1>1, <1>3, <2>1
  <2>. QED
    BY <1>1, <2>2 DEF InQueue
<1>. QED
  BY <1>2, <1>3 DEF Push

(* A pop takes out the head only.                                          *)
LEMMA PopCarries ==
  ASSUME TypeOK, queue # <<>>, queue' = Tail(queue), NEW t \in Tasks, InQueue(t)
  PROVE  InQueue(t)' \/ t = Head(queue)
<1>1. queue \in Seq(Tasks) /\ Len(queue) \in Nat \ {0}
  BY DEF TypeOK
<1>2. PICK i \in 1 .. Len(queue) : queue[i] = t
  BY DEF InQueue
<1>3. CASE i = 1
  BY <1>1, <1>2, <1>3
<1>4. CASE i # 1
  <2>1. i - 1 \in 1 .. Len(queue')
    BY <1>1, <1>2, <1>4
  <2>2. queue'[i - 1] = t
    BY <1>1, <1>2, <1>4, <2>1
  <2>. QED
    BY <2>1, <2>2 DEF InQueue
<1>. QED
  BY <1>3, <1>4

(* A dispatcher that a step leaves where it is goes on carrying what it    *)
(* carried, as long as that is queued.                                     *)
LEMMA DispatcherCarries ==
  ASSUME NEW w \in Workers, NEW t \in Tasks, t \in CarriedBy(w), status'[t] = "queued",
         wstate'[w] = wstate[w], wtask'[w] = wtask[w], batch'[w] = batch[w]
  PROVE  t \in CarriedBy(w)'
  BY DEF CarriedBy, QueuedTasks

(* No interleaving of fault-free steps leaves a queued row that nobody     *)
(* carries to the Redis list.                                              *)
THEOREM QueuedIsCarriedHolds == Spec => []QueuedIsCarried
<1>1. Init => QueuedIsCarried
  BY DEF Init, QueuedIsCarried, QueuedTasks
<1>2. TypeOK /\ QueuedIsCarried /\ [Next]_vars => QueuedIsCarried'
  <2> SUFFICES ASSUME TypeOK, QueuedIsCarried, [Next]_vars, backend' = "redis",
                      NEW t \in Tasks, status'[t] = "queued"
               PROVE  Carried(t)' \/ t \in orphaned'
    BY DEF QueuedIsCarried, QueuedTasks
  <2>0. /\ status \in [Tasks -> Statuses]
        /\ wstate \in [Workers -> WorkerStates]
        /\ wtask \in [Workers -> Tasks \union {NoTask}]
        /\ batch \in [Workers -> SUBSET Tasks]
        /\ rstate \in [Requests -> RequestStates]
        /\ rtask \in [Requests -> Tasks \union {NoTask}]
    BY DEF TypeOK
  <2>1. backend = "redis"
    BY DEF Next, RequestStep, WorkerStep, Upload, RetryCheck, CreateTask, RetryUpdate,
           Enqueue, RequestFails, Start, TakeBack, ListQueued, Republish, Dequeue, Peek,
           ClaimTask, Complete, Fail, MarkRetryOrFailed, Requeue, Shutdown, Crash,
           LoopDies, Stop, GrowStale, vars
  <2>2. status[t] = "queued" => Carried(t) \/ t \in orphaned
    BY <2>1 DEF QueuedIsCarried, QueuedTasks
  <2>3. ASSUME NEW r \in Requests, RequestStep(r)
        PROVE  Carried(t)' \/ t \in orphaned'
    <3>1. UNCHANGED workerVars
      BY <2>3 DEF RequestStep, Upload, RetryCheck, CreateTask, RetryUpdate, Enqueue,
                  RequestFails
    <3>2. (\E w \in Workers : t \in CarriedBy(w)) => Carried(t)'
      BY <3>1, DispatcherCarries DEF workerVars, Carried
    <3>3. \A s \in Requests \ {r} : rstate'[s] = rstate[s] /\ rtask'[s] = rtask[s]
      BY <2>0, <2>3
         DEF RequestStep, Upload, RetryCheck, CreateTask, RetryUpdate, Enqueue, RequestFails
    <3>4. ASSUME status[t] = "queued", InQueue(t) => InQueue(t)',
                 t \in orphaned => t \in orphaned' \/ Carried(t)',
                 rstate[r] = "enqueueing" /\ rtask[r] = t => t \in orphaned' \/ Carried(t)'
          PROVE  Carried(t)' \/ t \in orphaned'
      BY <2>2, <3>2, <3>3, <3>4 DEF Carried
    <3>5. ASSUME UNCHANGED <<status, queue, orphaned>>, rstate[r] = "free"
          PROVE  Carried(t)' \/ t \in orphaned'
      BY <3>4, <3>5 DEF InQueue
    <3>6. ASSUME CreateTask(r) PROVE Carried(t)' \/ t \in orphaned'
      <4>1. /\ UNCHANGED <<queue, orphaned>>
            /\ rstate[r] = "creating"
            /\ rstate'[r] = "enqueueing"
            /\ status[t] = "queued" \/ rtask'[r] = t
        BY <2>0, <3>6 DEF CreateTask, historyVars
      <4>. QED
        BY <3>4, <4>1 DEF InQueue, Carried
    <3>7. ASSUME RetryUpdate(r) PROVE Carried(t)' \/ t \in orphaned'
      <4>1. /\ UNCHANGED <<queue, orphaned>>
            /\ rstate[r] = "retrying"
            /\ rstate'[r] = "enqueueing"
            /\ status[t] = "queued" \/ rtask'[r] = t
        BY <2>0, <3>7 DEF RetryUpdate
      <4>. QED
        BY <3>4, <4>1 DEF InQueue, Carried
    <3>8. ASSUME Enqueue(r) PROVE Carried(t)' \/ t \in orphaned'
      <4>1. /\ rtask[r] \in Tasks
            /\ Push(rtask[r])
            /\ status[t] = "queued"
        BY <2>1, <3>8 DEF Enqueue, TypeOK, tableVars
      <4>2. InQueue(t) \/ rtask[r] = t => InQueue(t)'
        BY <4>1, PushCarries DEF InQueue
      <4>3. t \in orphaned => t \in orphaned' \/ rtask[r] = t
        BY <4>1 DEF Push
      <4>. QED
        BY <3>4, <4>1, <4>2, <4>3 DEF Carried
    <3>9. ASSUME RequestFails(r) PROVE Carried(t)' \/ t \in orphaned'
      <4>1. /\ UNCHANGED <<status, queue>>
            /\ orphaned \subseteq orphaned'
            /\ rstate[r] = "enqueueing" => rtask[r] \in orphaned'
        BY <2>1, <3>9 DEF RequestFails, tableVars
      <4>. QED
        BY <3>4, <4>1 DEF InQueue
    <3>. QED
      BY <2>3, <3>5, <3>6, <3>7, <3>8, <3>9
         DEF RequestStep, Upload, RetryCheck, tableVars, historyVars
  <2>4. ASSUME NEW w \in Workers, WorkerStep(w)
        PROVE  Carried(t)' \/ t \in orphaned'
    <3>1. UNCHANGED <<rstate, rtask>>
      BY <2>4 DEF WorkerStep, Start, TakeBack, ListQueued, Republish, Dequeue, Peek, ClaimTask,
                  Complete, Fail, MarkRetryOrFailed, Requeue, Shutdown, Crash, LoopDies,
                  Stop, requestVars
    <3>2. \A v \in Workers \ {w} :
            wstate'[v] = wstate[v] /\ wtask'[v] = wtask[v] /\ batch'[v] = batch[v]
      BY <2>0, <2>4
         DEF WorkerStep, Start, TakeBack, ListQueued, Republish, Dequeue, Peek, ClaimTask,
             Complete, Fail, MarkRetryOrFailed, Requeue, Shutdown, Crash, LoopDies, Stop
    <3>3. \A v \in Workers \ {w} : t \in CarriedBy(v) => Carried(t)'
      BY <3>2, DispatcherCarries DEF Carried
    <3>4. ASSUME status[t] = "queued", InQueue(t) => InQueue(t)' \/ Carried(t)',
                 t \in orphaned => t \in orphaned' \/ Carried(t)',
                 t \in CarriedBy(w) => t \in orphaned' \/ Carried(t)'
          PROVE  Carried(t)' \/ t \in orphaned'
      BY <2>2, <3>1, <3>3, <3>4 DEF Carried
    <3>5. ASSUME UNCHANGED <<status, queue, orphaned>>, CarriedBy(w) = {}
          PROVE  Carried(t)' \/ t \in orphaned'
      BY <3>4, <3>5 DEF InQueue
    <3>6. ASSUME TakeBack(w) PROVE Carried(t)' \/ t \in orphaned'
      <4>1. wstate'[w] = "listing"
        BY <2>0, <2>1, <3>6 DEF TakeBack
      <4>. QED
        BY <4>1 DEF Carried, CarriedBy, QueuedTasks
    <3>7. ASSUME ListQueued(w) PROVE Carried(t)' \/ t \in orphaned'
      <4>1. wstate'[w] = "republishing" /\ t \in batch'[w]
        BY <2>0, <3>7 DEF ListQueued, QueuedTasks, tableVars
      <4>. QED
        BY <4>1 DEF Carried, CarriedBy
    <3>8. ASSUME NEW u \in Tasks, Push(u), UNCHANGED status,
                 t \in CarriedBy(w) => t = u \/ t \in CarriedBy(w)'
          PROVE  Carried(t)' \/ t \in orphaned'
      <4>1. InQueue(t) \/ t = u => InQueue(t)'
        BY <3>8, PushCarries DEF InQueue
      <4>2. t \in orphaned => t \in orphaned' \/ t = u
        BY <3>8 DEF Push
      <4>. QED
        BY <3>4, <3>8, <4>1, <4>2 DEF Carried
    <3>9. ASSUME Republish(w) PROVE Carried(t)' \/ t \in orphaned'
      <4>1. wstate[w] = "republishing" /\ UNCHANGED status
        BY <3>9 DEF Republish, tableVars
      <4>2. ASSUME NEW u \in batch[w], Push(u), batch' = [batch EXCEPT ![w] = @ \ {u}],
                   UNCHANGED wstate
            PROVE  Carried(t)' \/ t \in orphaned'
        <5>1. u \in Tasks
          BY <2>0
        <5>2. t \in CarriedBy(w) => t = u \/ t \in CarriedBy(w)'
          BY <2>0, <4>1, <4>2 DEF CarriedBy
        <5>. QED
          BY <3>8, <4>1, <4>2, <5>1, <5>2
      <4>3. ASSUME batch[w] = {}, UNCHANGED <<queue, orphaned>>
            PROVE  Carried(t)' \/ t \in orphaned'
        <5>1. CarriedBy(w) = {}
          BY <4>1, <4>3 DEF CarriedBy
        <5>. QED
          BY <3>5, <4>1, <4>3, <5>1
      <4>. QED
        BY <3>9, <4>2, <4>3 DEF Republish
    <3>10. ASSUME Requeue(w) PROVE Carried(t)' \/ t \in orphaned'
      <4>1. /\ wstate[w] = "requeueing"
            /\ wtask[w] \in Tasks
            /\ Push(wtask[w])
            /\ UNCHANGED status
        BY <3>10 DEF Requeue, TypeOK, tableVars
      <4>2. CarriedBy(w) = {wtask[w]}
        BY <4>1 DEF CarriedBy
      <4>. QED
        BY <3>8, <4>1, <4>2
    <3>11. ASSUME Dequeue(w) PROVE Carried(t)' \/ t \in orphaned'
      <4>1. /\ UNCHANGED <<status, orphaned>>
            /\ queue # <<>>
            /\ queue' = Tail(queue)
            /\ wstate[w] = "idle"
            /\ wstate'[w] = "popped"
            /\ wtask'[w] = Head(queue)
        BY <2>0, <3>11 DEF Dequeue, tableVars, historyVars
      <4>2. CarriedBy(w) = {} /\ CarriedBy(w)' = {Head(queue)}
        BY <4>1 DEF CarriedBy
      <4>3. InQueue(t) => InQueue(t)' \/ t \in CarriedBy(w)'
        BY <4>1, <4>2, PopCarries
      <4>. QED
        BY <3>4, <4>1, <4>2, <4>3 DEF Carried
    <3>12. ASSUME ClaimTask(w) PROVE Carried(t)' \/ t \in orphaned'
      <4>1. /\ wstate[w] = "popped"
            /\ UNCHANGED <<queue, orphaned>>
            /\ status[t] = "queued"
            /\ t # wtask[w]
        BY <2>0, <3>12 DEF ClaimTask, historyVars
      <4>2. CarriedBy(w) = {wtask[w]}
        BY <4>1 DEF CarriedBy
      <4>. QED
        BY <3>4, <4>1, <4>2 DEF InQueue
    <3>13. ASSUME Complete(w) PROVE Carried(t)' \/ t \in orphaned'
      <4>1. /\ wstate[w] = "indexing"
            /\ UNCHANGED <<queue, orphaned>>
            /\ status[t] = "queued"
        BY <2>0, <3>13 DEF Complete, historyVars
      <4>2. CarriedBy(w) = {}
        BY <4>1 DEF CarriedBy
      <4>. QED
        BY <3>4, <4>1, <4>2 DEF InQueue
    <3>14. ASSUME MarkRetryOrFailed(w) PROVE Carried(t)' \/ t \in orphaned'
      <4>1. wstate[w] = "failing" /\ UNCHANGED <<queue, orphaned>>
        BY <3>14 DEF MarkRetryOrFailed, historyVars
      <4>2. CASE t = wtask[w]
        <5>1. wstate'[w] = "requeueing" /\ wtask'[w] = t
          BY <2>0, <2>1, <3>14, <4>2 DEF MarkRetryOrFailed
        <5>. QED
          BY <5>1 DEF Carried, CarriedBy
      <4>3. CASE t # wtask[w]
        <5>1. status[t] = "queued"
          BY <2>0, <3>14, <4>3 DEF MarkRetryOrFailed
        <5>2. CarriedBy(w) = {}
          BY <4>1 DEF CarriedBy
        <5>. QED
          BY <3>4, <4>1, <5>1, <5>2 DEF InQueue
      <4>. QED
        BY <4>2, <4>3
    <3>15. ASSUME Shutdown(w) \/ Start(w) \/ Fail(w) PROVE Carried(t)' \/ t \in orphaned'
      <4>1. CarriedBy(w) = {}
        BY <3>15 DEF Shutdown, Start, Fail, CarriedBy
      <4>. QED
        BY <3>5, <3>15, <4>1 DEF Shutdown, Start, Fail, tableVars, historyVars
    <3>16. ASSUME NEW s, Stop(w, s) PROVE Carried(t)' \/ t \in orphaned'
      <4>1. /\ UNCHANGED <<status, queue>>
            /\ orphaned' = orphaned \union CarriedBy(w)
        BY <2>1, <3>16 DEF Stop, tableVars
      <4>. QED
        BY <3>4, <4>1 DEF InQueue
    <3>17. ~Peek(w)
      BY <2>1 DEF Peek
    <3>. QED
      BY <2>4, <3>6, <3>7, <3>9, <3>10, <3>11, <3>12, <3>13, <3>14, <3>15, <3>16, <3>17
         DEF WorkerStep, Crash, LoopDies
  <2>5. ASSUME status[t] = "queued",
               UNCHANGED <<queue, workerVars, requestVars, orphaned>>
        PROVE  Carried(t)' \/ t \in orphaned'
    <3>1. (\E w \in Workers : t \in CarriedBy(w)) => Carried(t)'
      BY <2>5, DispatcherCarries DEF workerVars, Carried
    <3>. QED
      BY <2>2, <2>5, <3>1 DEF Carried, InQueue, requestVars
  <2>. QED
    BY <2>3, <2>4, <2>5
       DEF Next, GrowStale, vars, tableVars, workerVars, requestVars, historyVars
<1>. QED
  BY <1>1, <1>2, TypeCorrect, PTL DEF Spec
----------------------------------------------------------------------------
(* The implementation of TaskLifecycle.  A retry request holds the id of a *)
(* row that exists: rows are never taken away from under it.               *)
RetryRowExists ==
  \A r \in Requests : rstate[r] = "retrying" => status[rtask[r]] # "none"

LEMMA RetryRowExistsHolds == Spec => []RetryRowExists
<1>1. Init => RetryRowExists
  BY DEF Init, RetryRowExists
<1>2. TypeOK /\ RetryRowExists /\ [Next]_vars => RetryRowExists'
  <2> SUFFICES ASSUME TypeOK, RetryRowExists, [Next]_vars,
                      NEW r \in Requests, rstate'[r] = "retrying"
               PROVE  status'[rtask'[r]] # "none"
    BY DEF RetryRowExists
  <2>0. /\ status \in [Tasks -> Statuses]
        /\ rstate \in [Requests -> RequestStates]
        /\ rtask \in [Requests -> Tasks \union {NoTask}]
    BY DEF TypeOK
  <2>1. \A t \in Tasks : status'[t] = "none" => status[t] = "none"
    <3>1. ASSUME NEW s \in Requests, RequestStep(s)
          PROVE  \A t \in Tasks : status'[t] = "none" => status[t] = "none"
      BY <2>0, <3>1 DEF RequestStep, Upload, RetryCheck, CreateTask, RetryUpdate, Enqueue,
                        RequestFails, tableVars
    <3>2. ASSUME NEW w \in Workers, WorkerStep(w)
          PROVE  \A t \in Tasks : status'[t] = "none" => status[t] = "none"
      <4>1. ASSUME TakeBack(w)
            PROVE  \A t \in Tasks : status'[t] = "none" => status[t] = "none"
        BY <4>1, RetryOrFailType DEF TakeBack
      <4>2. ASSUME MarkRetryOrFailed(w)
            PROVE  \A t \in Tasks : status'[t] = "none" => status[t] = "none"
        BY <2>0, <4>2, RetryOrFailType DEF MarkRetryOrFailed
      <4>3. ASSUME ClaimTask(w) \/ Complete(w)
            PROVE  \A t \in Tasks : status'[t] = "none" => status[t] = "none"
        BY <2>0, <4>3 DEF ClaimTask, Complete
      <4>. QED
        BY <3>2, <4>1, <4>2, <4>3
           DEF WorkerStep, Start, ListQueued, Republish, Dequeue, Peek, Fail, Requeue,
               Shutdown, Crash, LoopDies, Stop, tableVars
    <3>. QED
      BY <3>1, <3>2 DEF Next, GrowStale, vars, tableVars
  <2>2. \/ rstate[r] = "retrying" /\ rtask'[r] = rtask[r]
        \/ rtask'[r] \in Tasks /\ status[rtask'[r]] # "none"
    <3>1. ASSUME NEW s \in Requests, RequestStep(s)
          PROVE  \/ rstate[r] = "retrying" /\ rtask'[r] = rtask[r]
                 \/ rtask'[r] \in Tasks /\ status[rtask'[r]] # "none"
      BY <2>0, <3>1 DEF RequestStep, Upload, RetryCheck, CreateTask, RetryUpdate, Enqueue,
                        RequestFails
    <3>2. ASSUME NEW w \in Workers, WorkerStep(w)
          PROVE  rstate' = rstate /\ rtask' = rtask
      BY <3>2 DEF WorkerStep, Start, TakeBack, ListQueued, Republish, Dequeue, Peek, ClaimTask,
                  Complete, Fail, MarkRetryOrFailed, Requeue, Shutdown, Crash, LoopDies,
                  Stop, requestVars
    <3>. QED
      BY <3>1, <3>2 DEF Next, GrowStale, vars, requestVars
  <2>3. rstate[r] = "retrying" => rtask[r] \in Tasks /\ status[rtask[r]] # "none"
    BY DEF TypeOK, RetryRowExists
  <2>. QED
    BY <2>1, <2>2, <2>3
<1>. QED
  BY <1>1, <1>2, TypeCorrect, PTL DEF Spec

(* A dispatcher leaves the task it was indexing: the task's executors lose *)
(* it and no other task's do.                                              *)
LEMMA ExecutionEnds ==
  ASSUME TypeOK, NEW w \in Workers, NEW s \in WorkerStates \ {"indexing", "failing"},
         wstate[w] \in {"indexing", "failing"}, wstate' = [wstate EXCEPT ![w] = s],
         \A v \in Workers \ {w} : wtask'[v] = wtask[v]
  PROVE  /\ wtask[w] \in Tasks
         /\ w \in Running[wtask[w]]
         /\ Running' = [Running EXCEPT ![wtask[w]] = @ \ {w}]
<1>1. wtask[w] \in Tasks /\ w \in Running[wtask[w]]
  BY DEF TypeOK, Running, Executors
<1>2. \A t \in Tasks : Executors(t)' = IF t = wtask[w] THEN Executors(t) \ {w} ELSE Executors(t)
  BY DEF TypeOK, Executors
<1>3. Running' = [t \in Tasks |-> IF t = wtask[w] THEN Executors(t) \ {w} ELSE Executors(t)]
  BY <1>2 DEF Running
<1>. QED
  BY <1>1, <1>3 DEF Running

(* Every step of the queue, the dispatchers and the requests is a step of  *)
(* the life cycle or leaves it alone: the abstract promise holds whatever  *)
(* the backend, the number of processes and the faults.                    *)
THEOREM ImplementsLifecycle == Spec => LifecycleSpec
<1>1. Init => Lifecycle!Init
  BY DEF Init, Lifecycle!Init, Running, Executors
<1>2. TypeOK /\ RetryRowExists /\ SeenIsPast /\ [Next]_vars
        => [Lifecycle!Next]_(Lifecycle!lifecycleVars)
  <2> SUFFICES ASSUME TypeOK, RetryRowExists, SeenIsPast, [Next]_vars
               PROVE  Lifecycle!Next \/ UNCHANGED Lifecycle!lifecycleVars
    OBVIOUS
  <2>0. /\ status \in [Tasks -> Statuses]
        /\ attempts \in [Tasks -> Nat]
        /\ wstate \in [Workers -> WorkerStates]
        /\ wtask \in [Workers -> Tasks \union {NoTask}]
        /\ seen \in [Workers -> [Tasks -> Nat]]
    BY DEF TypeOK
  <2>1. ASSUME UNCHANGED <<status, attempts>>, \A t \in Tasks : Executors(t)' = Executors(t)
        PROVE  UNCHANGED Lifecycle!lifecycleVars
    BY <2>1 DEF Lifecycle!lifecycleVars, Running
  <2>2. ASSUME UNCHANGED <<status, attempts, wstate, wtask>>
        PROVE  UNCHANGED Lifecycle!lifecycleVars
    BY <2>1, <2>2 DEF Executors
  <2>3. ASSUME NEW r \in Requests, CreateTask(r)
        PROVE  \E t \in Tasks : Lifecycle!Submit(t)
    BY <2>3 DEF CreateTask, Lifecycle!Submit, workerVars, Running, Executors
  <2>4. ASSUME NEW r \in Requests, RetryUpdate(r)
        PROVE  Lifecycle!Resubmit(rtask[r]) /\ rtask[r] \in Tasks
    BY <2>4 DEF RetryUpdate, Lifecycle!Resubmit, TypeOK, RetryRowExists, workerVars,
                Running, Executors
  <2>5. ASSUME NEW w \in Workers, TakeBack(w)
        PROVE  \E S \in SUBSET Tasks : Lifecycle!TakeBack(S)
    <3>. DEFINE S == {t \in Tasks : seen[w][t] # 0}
    <3>1. UNCHANGED <<Running, attempts>>
      BY <2>0, <2>5 DEF TakeBack, Running, Executors
    <3>2. ASSUME NEW t \in Tasks, t \in S
          PROVE  \E n \in 1 .. attempts[t] : status'[t] = RetryOrFail(n)
      <4>1. seen[w][t] \in 1 .. attempts[t]
        BY <2>0, <3>2 DEF SeenIsPast
      <4>. QED
        BY <2>5, <3>2, <4>1 DEF TakeBack
    <3>3. ASSUME NEW t \in Tasks, t \notin S
          PROVE  status'[t] = status[t]
      BY <2>5, <3>3 DEF TakeBack
    <3>4. DOMAIN status' = Tasks
      BY <2>5 DEF TakeBack
    <3>5. Lifecycle!TakeBack(S)
      BY <3>1, <3>2, <3>3, <3>4 DEF Lifecycle!TakeBack, RetryOrFail, Lifecycle!RetryOrFail
    <3>. QED
      BY <3>5
  <2>6. ASSUME NEW w \in Workers, ClaimTask(w)
        PROVE  \/ Lifecycle!Claim(wtask[w], w) /\ wtask[w] \in Tasks
               \/ UNCHANGED Lifecycle!lifecycleVars
    <3>1. wstate[w] = "popped" /\ wtask[w] \in Tasks
      BY <2>6 DEF ClaimTask, TypeOK
    <3>2. CASE status[wtask[w]] = "queued"
      <4>1. \A u \in Tasks : w \notin Running[u]
        BY <3>1 DEF Running, Executors
      <4>2. Running' = [Running EXCEPT ![wtask[w]] = @ \union {w}]
        <5>1. wstate' = [wstate EXCEPT ![w] = "indexing"] /\ wtask' = wtask
          BY <2>6, <3>2 DEF ClaimTask
        <5>2. \A t \in Tasks : Executors(t)' = IF t = wtask[w] THEN Executors(t) \union {w}
                                               ELSE Executors(t)
          BY <2>0, <3>1, <5>1 DEF Executors
        <5>. QED
          BY <5>2 DEF Running
      <4>. QED
        BY <2>6, <3>1, <3>2, <4>1, <4>2 DEF ClaimTask, Lifecycle!Claim
    <3>3. CASE status[wtask[w]] # "queued"
      BY <2>0, <2>1, <2>6, <3>1, <3>3 DEF ClaimTask, Executors
    <3>. QED
      BY <3>2, <3>3
  <2>7. ASSUME NEW w \in Workers, Complete(w)
        PROVE  Lifecycle!Complete(wtask[w], w) /\ wtask[w] \in Tasks
    <3>1. /\ wstate[w] = "indexing"
          /\ wstate' = [wstate EXCEPT ![w] = "idle"]
          /\ \A v \in Workers \ {w} : wtask'[v] = wtask[v]
      BY <2>0, <2>7 DEF Complete
    <3>2. /\ wtask[w] \in Tasks
          /\ w \in Running[wtask[w]]
          /\ Running' = [Running EXCEPT ![wtask[w]] = @ \ {w}]
      BY <3>1, ExecutionEnds DEF WorkerStates
    <3>. QED
      BY <2>7, <3>2 DEF Complete, Lifecycle!Complete
  <2>8. ASSUME NEW w \in Workers, MarkRetryOrFailed(w)
        PROVE  /\ wtask[w] \in Tasks
               /\ Lifecycle!Fail(wtask[w], w) \/ Lifecycle!Vanish(wtask[w], w)
    <3>1. PICK s \in WorkerStates \ {"indexing", "failing"} :
            /\ wstate[w] = "failing"
            /\ wstate' = [wstate EXCEPT ![w] = s]
            /\ \A v \in Workers \ {w} : wtask'[v] = wtask[v]
      BY <2>0, <2>8 DEF MarkRetryOrFailed, WorkerStates
    <3>2. /\ wtask[w] \in Tasks
          /\ w \in Running[wtask[w]]
          /\ Running' = [Running EXCEPT ![wtask[w]] = @ \ {w}]
      BY <3>1, ExecutionEnds
    <3>3. CASE seen[w][wtask[w]] = 0
      BY <2>0, <2>8, <3>2, <3>3 DEF MarkRetryOrFailed, Lifecycle!Vanish
    <3>4. CASE seen[w][wtask[w]] # 0
      <4>1. seen[w][wtask[w]] \in 1 .. attempts[wtask[w]]
        BY <2>0, <3>2, <3>4 DEF SeenIsPast
      <4>2. /\ status' = [status EXCEPT ![wtask[w]] = RetryOrFail(seen[w][wtask[w]])]
            /\ UNCHANGED attempts
        BY <2>8, <3>4 DEF MarkRetryOrFailed
      <4>. QED
        BY <3>2, <4>1, <4>2 DEF RetryOrFail, Lifecycle!Fail, Lifecycle!RetryOrFail
    <3>. QED
      BY <3>2, <3>3, <3>4
  <2>9. ASSUME NEW w \in Workers, NEW s \in {"down", "dead"}, Stop(w, s)
        PROVE  \/ Lifecycle!Vanish(wtask[w], w) /\ wtask[w] \in Tasks
               \/ UNCHANGED Lifecycle!lifecycleVars
    <3>1. /\ UNCHANGED <<status, attempts>>
          /\ wstate' = [wstate EXCEPT ![w] = s]
          /\ \A v \in Workers \ {w} : wtask'[v] = wtask[v]
      BY <2>0, <2>9 DEF Stop, tableVars
    <3>2. CASE wstate[w] \in {"indexing", "failing"}
      BY <3>1, <3>2, ExecutionEnds DEF WorkerStates, Lifecycle!Vanish
    <3>3. CASE wstate[w] \notin {"indexing", "failing"}
      BY <2>0, <2>1, <3>1, <3>3 DEF Executors
    <3>. QED
      BY <3>2, <3>3
  <2>10. ASSUME NEW w \in Workers, NEW s \in WorkerStates \ {"indexing", "failing"},
                wstate[w] \notin {"indexing", "failing"}, wstate' = [wstate EXCEPT ![w] = s],
                UNCHANGED <<status, attempts>>,
                \A v \in Workers \ {w} : wtask'[v] = wtask[v]
         PROVE  UNCHANGED Lifecycle!lifecycleVars
    BY <2>0, <2>1, <2>10 DEF Executors
  <2>11. ASSUME NEW w \in Workers, Republish(w)
         PROVE  UNCHANGED Lifecycle!lifecycleVars
    BY <2>2, <2>10, <2>11 DEF Republish, tableVars, WorkerStates
  <2>12. ASSUME NEW w \in Workers, Start(w) \/ ListQueued(w) \/ Shutdown(w)
         PROVE  UNCHANGED Lifecycle!lifecycleVars
    BY <2>10, <2>12 DEF Start, ListQueued, Shutdown, tableVars, WorkerStates
  <2>18. ASSUME NEW w \in Workers, Fail(w)
         PROVE  UNCHANGED Lifecycle!lifecycleVars
    <3>1. \A t \in Tasks : Executors(t)' = Executors(t)
      BY <2>0, <2>18 DEF Fail, Executors
    <3>. QED
      BY <2>1, <2>18, <3>1 DEF Fail, tableVars
  <2>13. ASSUME NEW w \in Workers, Dequeue(w) \/ Peek(w) \/ Requeue(w)
         PROVE  UNCHANGED Lifecycle!lifecycleVars
    <3>1. /\ wstate[w] \notin {"indexing", "failing"}
          /\ UNCHANGED <<status, attempts>>
          /\ \A v \in Workers \ {w} : wtask'[v] = wtask[v]
      BY <2>0, <2>13 DEF Dequeue, Peek, Requeue, tableVars
    <3>2. wstate' = [wstate EXCEPT ![w] = "popped"] \/ wstate' = [wstate EXCEPT ![w] = "idle"]
      BY <2>13 DEF Dequeue, Peek, Requeue
    <3>. QED
      BY <2>10, <3>1, <3>2 DEF WorkerStates
  <2>14. ASSUME NEW r \in Requests, RequestStep(r)
         PROVE  Lifecycle!Next \/ UNCHANGED Lifecycle!lifecycleVars
    BY <2>2, <2>3, <2>4, <2>14
       DEF RequestStep, Upload, RetryCheck, Enqueue, RequestFails, tableVars, workerVars,
           Lifecycle!Next
  <2>15. ASSUME NEW w \in Workers, WorkerStep(w)
         PROVE  Lifecycle!Next \/ UNCHANGED Lifecycle!lifecycleVars
    BY <2>5, <2>6, <2>7, <2>8, <2>9, <2>11, <2>12, <2>13, <2>15, <2>18
       DEF WorkerStep, Crash, LoopDies, Lifecycle!Next
  <2>16. ASSUME NEW t \in Tasks, GrowStale(t)
         PROVE  UNCHANGED Lifecycle!lifecycleVars
    BY <2>2, <2>16 DEF GrowStale, workerVars
  <2>17. CASE UNCHANGED vars
    BY <2>2, <2>17 DEF vars, tableVars, workerVars
  <2>. QED
    BY <2>14, <2>15, <2>16, <2>17 DEF Next
<1>. QED
  BY <1>1, <1>2, TypeCorrect, RetryRowExistsHolds, SeenIsPastHolds, PTL
     DEF Spec, LifecycleSpec, Lifecycle!Spec
=============================================================================
