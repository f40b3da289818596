--------------------------- MODULE TaskLifecycle ---------------------------
(***************************************************************************)
(* What the indexing subsystem promises about a row of indexing_tasks,     *)
(* whatever the queue backend and however many dispatchers run: a task is  *)
(* submitted once, an execution begins only by claiming a queued task and  *)
(* costs one attempt, an execution ends by writing a status or by          *)
(* vanishing, and a failed execution is retried while the attempt budget   *)
(* lasts.  The Redis list, the dispatchers' start-up and the HTTP requests *)
(* are hidden.  IndexingQueue is shown to implement this specification.    *)
(***************************************************************************)
EXTENDS Naturals

CONSTANTS Tasks,       \* task ids
          Workers,     \* dispatcher processes
          MaxRetries   \* max_retries of every row

VARIABLES status,      \* status[t]: the row's status; "none" before the row exists
          attempts,    \* attempts[t]: the row's attempt_count
          running      \* running[t]: the dispatchers executing t right now

lifecycleVars == <<status, attempts, running>>

Statuses == {"none", "queued", "processing", "completed", "failed_permanently"}

(* The status after a failed or timed-out attempt.                         *)
RetryOrFail(n) == IF n >= MaxRetries THEN "failed_permanently" ELSE "queued"
----------------------------------------------------------------------------
Init ==
  /\ status = [t \in Tasks |-> "none"]
  /\ attempts = [t \in Tasks |-> 0]
  /\ running = [t \in Tasks |-> {}]

Submit(t) ==
  /\ status[t] = "none"
  /\ status' = [status EXCEPT ![t] = "queued"]
  /\ UNCHANGED <<attempts, running>>

(* A dispatcher executes at most one task at a time.                       *)
Claim(t, w) ==
  /\ status[t] = "queued"
  /\ \A u \in Tasks : w \notin running[u]
  /\ status' = [status EXCEPT ![t] = "processing"]
  /\ attempts' = [attempts EXCEPT ![t] = @ + 1]
  /\ running' = [running EXCEPT ![t] = @ \union {w}]

Complete(t, w) ==
  /\ w \in running[t]
  /\ status' = [status EXCEPT ![t] = "completed"]
  /\ running' = [running EXCEPT ![t] = @ \ {w}]
  /\ UNCHANGED attempts

(* The outcome of a failed attempt goes by an attempt count that the row   *)
(* has or once had: it is read before the status is written.               *)
Fail(t, w) ==
  /\ w \in running[t]
  /\ \E n \in 1 .. attempts[t] : status' = [status EXCEPT ![t] = RetryOrFail(n)]
  /\ running' = [running EXCEPT ![t] = @ \ {w}]
  /\ UNCHANGED attempts

(* The execution ends without a change of the status.                      *)
Vanish(t, w) ==
  /\ w \in running[t]
  /\ running' = [running EXCEPT ![t] = @ \ {w}]
  /\ UNCHANGED <<status, attempts>>

(* Attempts that took too long are taken back, all in one transaction, on  *)
(* counts read earlier; the executions themselves are not told.  A task    *)
(* that was never attempted is never taken back.                           *)
TakeBack(S) ==
  /\ \A t \in Tasks :
       IF t \in S THEN \E n \in 1 .. attempts[t] : status'[t] = RetryOrFail(n)
                  ELSE status'[t] = status[t]
  /\ DOMAIN status' = Tasks
  /\ UNCHANGED <<attempts, running>>

(* An operator asks for another attempt.                                   *)
Resubmit(t) ==
  /\ status[t] # "none"
  /\ status' = [status EXCEPT ![t] = "queued"]
  /\ UNCHANGED <<attempts, running>>

Next ==
  \/ \E t \in Tasks : Submit(t) \/ Resubmit(t)
  \/ \E t \in Tasks, w \in Workers :
        Claim(t, w) \/ Complete(t, w) \/ Fail(t, w) \/ Vanish(t, w)
  \/ \E S \in SUBSET Tasks : TakeBack(S)

Spec == Init /\ [][Next]_lifecycleVars
=============================================================================
