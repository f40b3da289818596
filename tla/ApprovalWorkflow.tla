-------------------------- MODULE ApprovalWorkflow --------------------------
(***************************************************************************)
(* Human approval of a tool call of one agent run: the runtime that meets  *)
(* the approval boundary, the HTTP requests that list, decide, expire and  *)
(* resume, the Redis list smartsre:agent:resume:queue and the workers that *)
(* execute what was approved.                                              *)
(*                                                                         *)
(* Everything the parties tell each other goes through the run's row and   *)
(* its event log, each read and each append in a transaction of its own;   *)
(* a step is one such transaction (or one call of Redis or of the tool).   *)
(* The log is kept per tool and per event type, which is how every reader  *)
(* of it looks at it.  Runs share nothing but the list and the workers, so *)
(* one run is modelled.  A request is a sequence of steps; the requests of *)
(* one API process interleave only where the handler awaits, those of      *)
(* several processes anywhere: the model allows the latter.                *)
(***************************************************************************)
EXTENDS Naturals, Sequences, FiniteSets

CONSTANTS Tools,        \* the tools the run may call, each at most once
          Requests,     \* HTTP requests served at the same time
          Workers,      \* consumers of the resume queue
          Modes,        \* the scene configurations to consider
          Backends,     \* the values of TASK_QUEUE_BACKEND to consider
          Kept,         \* whether the decision graph's checkpoint can be found under
                        \* the run's id, the values to consider
          Attempts,     \* attempts of one execution: the tool's retry_count, and one
          CallTries,    \* tries of one attempt: retry_interceptor's max_retries for a
                        \* tool of an MCP server, 1 for a local one
          MaxRequests,  \* bound: HTTP requests in all
          MaxFaults,    \* bound: crashes, lost replies, failing calls in all
          NoTool

ASSUME ApprovalAssumption ==
  /\ Modes \subseteq {"graph", "linear", "loop"}
  /\ Backends \subseteq {"redis", "database"}
  /\ Kept \subseteq BOOLEAN
  /\ Attempts \in Nat \ {0}
  /\ CallTries \in Nat \ {0}
  /\ MaxRequests \in Nat
  /\ MaxFaults \in Nat
  /\ NoTool \notin Tools
  /\ Requests \intersect Workers = {}

Actors == Requests \union Workers

VARIABLES
  \* fixed for the run: decision runtime on (graph), off (linear), or the bounded
  \* loop; the queue backend; whether there is a checkpoint of the decision graph
  mode, backend, checkpoint,
  \* the runtime: the run's status, where it is, the tool it is at
  runStatus, phase, current,
  \* the event log, by tool: tool_call; tool_result "approval_required" and, of
  \* these, those older than agent_approval_timeout_seconds; approval_required;
  \* approval_decision in order; handoff of a decision; approval_resume in order;
  \* approval_resumed_tool_result
  called, pending, late, asked, decisions, reported, resumes, results,
  queue,
  \* requests and workers: where each one is, the tool it works on, the decision it
  \* was asked to record, the tools it found expired, the resume_status to append,
  \* which execution of the tool it is at, at which attempt and which try of it
  astate, subject, wish, expiring, note, effort,
  \* history: of each execution of an approved tool, how often the tool was called;
  \* copies of its message beyond one per approval, tools with overlapping decisions,
  \* tools whose message a fault took, whether the run was cancelled
  invoked, extra, raced, lost, cancelled,
  \* bounds
  arrivals, faults

fixedVars   == <<mode, backend, checkpoint>>
runVars     == <<runStatus, phase, current>>
callVars    == <<called, pending, late, asked>>
logVars     == <<decisions, reported, resumes, results>>
actorVars   == <<astate, subject, wish, expiring, note, effort>>
historyVars == <<invoked, extra, raced, lost, cancelled>>
vars == <<fixedVars, runVars, callVars, logVars, queue, actorVars, historyVars,
          arrivals, faults>>

RunStatuses == {"running", "waiting_approval", "handoff_required", "completed",
                "failed", "cancelled"}

(* choosing: before a tool.  calling: tool_call is in the log.  blocked:   *)
(* the tool needs approval.  pausing, ending: the status is written, its   *)
(* event is not.  over: returned.                                          *)
Phases == {"choosing", "calling", "blocked", "pausing", "ending", "over"}

Decisions == {"approved", "rejected", "expired"}

ResumeStatuses == {"queued", "enqueue_failed", "deferred", "original_action_missing",
                   "ready_for_resume", "checkpoint_missing"}

(* expiring: between the reads of the expiry and the next decision or the  *)
(* answer.  deciding: found no decision.  reporting, handing: in           *)
(* _mark_run_handoff.  pushing, noting: scheduling the resume.  The others *)
(* are in process_resume_task; trying: the tool has been called.           *)
ActorStates == {"free", "dead", "expiring", "deciding", "reporting", "handing",
                "pushing", "noting", "admitting", "authorizing", "locating",
                "evaluated", "executing", "trying", "resulting"}

Holding == {"deciding", "reporting", "handing", "pushing", "noting", "admitting",
            "authorizing", "locating", "evaluated", "executing", "trying", "resulting"}

Decided(t) == decisions[t] # <<>>
LatestDecision(t) == decisions[t][Len(decisions[t])]
Expirable == {t \in late : ~Decided(t)}

NoWish == [tool |-> NoTool, decision |-> "none"]
NoEffort == [execution |-> 0, attempt |-> 0, try |-> 0]

(* a has read that t is undecided and may append a decision of it.         *)
MayDecide(a, t) ==
  \/ t \in expiring[a]
  \/ astate[a] = "deciding" /\ subject[a] = t
----------------------------------------------------------------------------
Init ==
  /\ mode \in Modes
  /\ backend \in Backends
  /\ checkpoint \in {kept /\ mode = "graph" : kept \in Kept}
  /\ runStatus = "running"
  /\ phase = "choosing"
  /\ current = NoTool
  /\ called = {}
  /\ pending = {}
  /\ late = {}
  /\ asked = {}
  /\ decisions = [t \in Tools |-> <<>>]
  /\ reported = {}
  /\ resumes = [t \in Tools |-> <<>>]
  /\ results = {}
  /\ queue = <<>>
  /\ astate = [a \in Actors |-> "free"]
  /\ subject = [a \in Actors |-> NoTool]
  /\ wish = [a \in Actors |-> NoWish]
  /\ expiring = [a \in Actors |-> {}]
  /\ note = [a \in Actors |-> "none"]
  /\ effort = [a \in Actors |-> NoEffort]
  /\ invoked = [t \in Tools |-> <<>>]
  /\ extra = [t \in Tools |-> 0]
  /\ raced = {}
  /\ lost = {}
  /\ cancelled = FALSE
  /\ arrivals = 0
  /\ faults = 0
----------------------------------------------------------------------------
(* The runtime                                                             *)

CallTool(t) ==
  /\ phase = "choosing"
  /\ mode # "loop"
  /\ t \notin called
  /\ called' = called \union {t}
  /\ phase' = "calling"
  /\ current' = t
  /\ UNCHANGED <<fixedVars, runStatus, pending, late, asked, logVars, queue, actorVars,
                 historyVars, arrivals, faults>>

(* The tool ran, or was refused for another reason than a missing approval. *)
ToolReturns ==
  /\ phase = "calling"
  /\ phase' = "choosing"
  /\ current' = NoTool
  /\ UNCHANGED <<fixedVars, runStatus, callVars, logVars, queue, actorVars, historyVars,
                 arrivals, faults>>

(* The tool needs approval.  Without the decision runtime the run goes on. *)
ToolBlocked ==
  /\ phase = "calling"
  /\ pending' = pending \union {current}
  /\ IF mode = "graph"
     THEN phase' = "blocked" /\ UNCHANGED current
     ELSE phase' = "choosing" /\ current' = NoTool
  /\ UNCHANGED <<fixedVars, runStatus, called, late, asked, logVars, queue, actorVars,
                 historyVars, arrivals, faults>>

(* The bounded loop records its steps as decision events: neither a        *)
(* tool_call nor a tool_result of the blocked tool reaches the log.        *)
LoopBlocked(t) ==
  /\ phase = "choosing"
  /\ mode = "loop"
  /\ phase' = "blocked"
  /\ current' = t
  /\ UNCHANGED <<fixedVars, runStatus, callVars, logVars, queue, actorVars, historyVars,
                 arrivals, faults>>

(* ApprovalGate.pause, first the status, whatever it is by now ...         *)
Pause ==
  /\ phase = "blocked"
  /\ runStatus' = "waiting_approval"
  /\ phase' = "pausing"
  /\ UNCHANGED <<fixedVars, current, callVars, logVars, queue, actorVars, historyVars,
                 arrivals, faults>>

(* ... then the event; the run returns.                                    *)
AskApproval ==
  /\ phase = "pausing"
  /\ asked' = asked \union {current}
  /\ phase' = "over"
  /\ current' = NoTool
  /\ UNCHANGED <<fixedVars, runStatus, called, pending, late, logVars, queue, actorVars,
                 historyVars, arrivals, faults>>

(* The run is completed, or handed off for lack of evidence, which needs   *)
(* the decision runtime: first the status ...                              *)
Finish ==
  /\ phase = "choosing"
  /\ runStatus' \in {"completed", "handoff_required"}
  /\ runStatus' = "handoff_required" => mode # "linear"
  /\ phase' = "ending"
  /\ UNCHANGED <<fixedVars, current, callVars, logVars, queue, actorVars, historyVars,
                 arrivals, faults>>

(* The run returns with status s written over whatever the row says.       *)
ReturnWith(s) ==
  /\ runStatus' = s
  /\ phase' = "over"
  /\ current' = NoTool
  /\ cancelled' = (cancelled \/ s = "cancelled")
  /\ UNCHANGED <<fixedVars, callVars, logVars, queue, actorVars, invoked, extra, raced,
                 lost, arrivals, faults>>

(* ... then its event.                                                     *)
Tell == phase = "ending" /\ ReturnWith(runStatus)

(* An exception or the run's deadline.                                     *)
RunFails == phase # "over" /\ ReturnWith("failed")

(* A task cancelled while it awaits the catalogue or a tool.               *)
RunCancelled ==
  /\ phase = "calling" \/ (phase = "choosing" /\ called = {})
  /\ ReturnWith("cancelled")

(* The client goes away at a yield, or the process dies: the generator     *)
(* ends without writing anything.                                          *)
Disconnect ==
  /\ phase # "over"
  /\ ReturnWith(runStatus)

(* agent_approval_timeout_seconds have gone by since the tool_result.      *)
GrowLate(t) ==
  /\ t \in pending \ late
  /\ late' = late \union {t}
  /\ UNCHANGED <<fixedVars, runVars, called, pending, asked, logVars, queue, actorVars,
                 historyVars, arrivals, faults>>
----------------------------------------------------------------------------
(* Requests: list, decide, resume                                          *)

Arrive(r) ==
  /\ astate[r] = "free"
  /\ arrivals < MaxRequests
  /\ arrivals' = arrivals + 1
  /\ UNCHANGED <<fixedVars, runVars, callVars, logVars, queue, note, effort, invoked, raced,
                 lost, cancelled, faults>>

(* Both begin with the reads of _expire_pending_agent_approvals_for_run.   *)
ListApprovals(r) ==
  /\ Arrive(r)
  /\ astate' = [astate EXCEPT ![r] = "expiring"]
  /\ expiring' = [expiring EXCEPT ![r] = Expirable]
  /\ UNCHANGED <<subject, wish, extra>>

(* Nothing asks whether an approval of t is pending.                       *)
DecideApproval(r, t, d) ==
  /\ Arrive(r)
  /\ astate' = [astate EXCEPT ![r] = "expiring"]
  /\ expiring' = [expiring EXCEPT ![r] = Expirable]
  /\ wish' = [wish EXCEPT ![r] = [tool |-> t, decision |-> d]]
  /\ UNCHANGED <<subject, extra>>

ResumeApproval(r, t) ==
  /\ Arrive(r)
  /\ astate' = [astate EXCEPT ![r] = "admitting"]
  /\ subject' = [subject EXCEPT ![r] = t]
  /\ extra' = [extra EXCEPT ![t] = @ + 1]
  /\ UNCHANGED <<wish, expiring>>

(* Append decision d of t: it goes by what a read before.                  *)
AppendDecision(a, t, d) ==
  /\ decisions' = [decisions EXCEPT ![t] = Append(@, d)]
  /\ raced' = IF \E b \in Actors \ {a} : MayDecide(b, t) THEN raced \union {t} ELSE raced

(* Mutant: an approval that expires is handed off without a report.        *)
ExpireUnreported(a) ==
  /\ astate[a] = "expiring"
  /\ \E t \in expiring[a] :
       /\ AppendDecision(a, t, "expired")
       /\ expiring' = [expiring EXCEPT ![a] = @ \ {t}]
       /\ subject' = [subject EXCEPT ![a] = t]
  /\ astate' = [astate EXCEPT ![a] = "handing"]
  /\ UNCHANGED <<fixedVars, runVars, callVars, reported, resumes, results, queue, wish,
                 note, effort, invoked, extra, lost, cancelled, arrivals, faults>>

Expire(a) ==
  /\ astate[a] = "expiring"
  /\ \E t \in expiring[a] :
       /\ AppendDecision(a, t, "expired")
       /\ expiring' = [expiring EXCEPT ![a] = @ \ {t}]
       /\ subject' = [subject EXCEPT ![a] = t]
  /\ astate' = [astate EXCEPT ![a] = "reporting"]
  /\ UNCHANGED <<fixedVars, runVars, callVars, reported, resumes, results, queue, wish,
                 note, effort, invoked, extra, lost, cancelled, arrivals, faults>>

(* _mark_run_handoff: the events with the hand-off report ...              *)
ReportHandoff(a) ==
  /\ astate[a] = "reporting"
  /\ reported' = reported \union {subject[a]}
  /\ astate' = [astate EXCEPT ![a] = "handing"]
  /\ UNCHANGED <<fixedVars, runVars, callVars, decisions, resumes, results, queue, subject,
                 wish, expiring, note, effort, historyVars, arrivals, faults>>

(* Mutant: the request goes on with the tool it has handed off.            *)
HandOffKeepsSubject(a) ==
  /\ astate[a] = "handing"
  /\ runStatus' = "handoff_required"
  /\ astate' = [astate EXCEPT ![a] = "expiring"]
  /\ UNCHANGED <<fixedVars, phase, current, callVars, logVars, queue, subject, wish,
                 expiring, note, effort, historyVars, arrivals, faults>>

(* ... and the status, whatever it is by now.                              *)
HandOff(a) ==
  /\ astate[a] = "handing"
  /\ runStatus' = "handoff_required"
  /\ astate' = [astate EXCEPT ![a] = "expiring"]
  /\ subject' = [subject EXCEPT ![a] = NoTool]
  /\ UNCHANGED <<fixedVars, phase, current, callVars, logVars, queue, wish, expiring, note,
                 effort, historyVars, arrivals, faults>>

(* Mutant: a decision that is already there is not looked for.             *)
CheckIgnoresDecision(a) ==
  /\ astate[a] = "expiring"
  /\ expiring[a] = {}
  /\ IF wish[a] # NoWish
     THEN /\ astate' = [astate EXCEPT ![a] = "deciding"]
          /\ subject' = [subject EXCEPT ![a] = wish[a].tool]
          /\ UNCHANGED wish
     ELSE /\ astate' = [astate EXCEPT ![a] = "free"]
          /\ wish' = [wish EXCEPT ![a] = NoWish]
          /\ UNCHANGED subject
  /\ UNCHANGED <<fixedVars, runVars, callVars, logVars, queue, expiring, note, effort,
                 historyVars, arrivals, faults>>

(* The expiry is done: a list request and one whose tool turns out to be   *)
(* decided (approval_expired, approval_already_decided) are answered.      *)
Check(a) ==
  /\ astate[a] = "expiring"
  /\ expiring[a] = {}
  /\ IF wish[a] # NoWish /\ ~Decided(wish[a].tool)
     THEN /\ astate' = [astate EXCEPT ![a] = "deciding"]
          /\ subject' = [subject EXCEPT ![a] = wish[a].tool]
          /\ UNCHANGED wish
     ELSE /\ astate' = [astate EXCEPT ![a] = "free"]
          /\ wish' = [wish EXCEPT ![a] = NoWish]
          /\ UNCHANGED subject
  /\ UNCHANGED <<fixedVars, runVars, callVars, logVars, queue, expiring, note, effort,
                 historyVars, arrivals, faults>>

Decide(a) ==
  /\ astate[a] = "deciding"
  /\ AppendDecision(a, subject[a], wish[a].decision)
  /\ astate' = [astate EXCEPT ![a] = IF wish[a].decision = "approved" THEN "pushing"
                                     ELSE "reporting"]
  /\ wish' = [wish EXCEPT ![a] = NoWish]
  /\ UNCHANGED <<fixedVars, runVars, callVars, reported, resumes, results, queue, subject,
                 expiring, note, effort, invoked, extra, lost, cancelled, arrivals, faults>>

(* _enqueue_approval_resume_task.  enqueue_json repeats a push whose reply *)
(* was lost, and one that fails may have reached the list all the same.    *)
PushResume(a) ==
  /\ astate[a] = "pushing"
  /\ LET t == subject[a]
         Told(s) == note' = [note EXCEPT ![a] = s]
         Fault   == faults < MaxFaults /\ faults' = faults + 1
     IN \/ /\ backend # "redis"
           /\ Told("deferred")
           /\ UNCHANGED <<queue, extra, lost, faults>>
        \/ /\ backend = "redis"
           /\ Told("queued")
           /\ queue' = Append(queue, t)
           /\ UNCHANGED <<extra, lost, faults>>
        \/ /\ backend = "redis"
           /\ Fault
           /\ Told("queued")
           /\ queue' = Append(Append(queue, t), t)
           /\ extra' = [extra EXCEPT ![t] = @ + 1]
           /\ UNCHANGED lost
        \/ /\ backend = "redis"
           /\ Fault
           /\ Told("enqueue_failed")
           /\ queue' \in {queue, Append(queue, t)}
           /\ UNCHANGED <<extra, lost>>
  /\ astate' = [astate EXCEPT ![a] = "noting"]
  /\ UNCHANGED <<fixedVars, runVars, callVars, logVars, subject, wish, expiring, effort,
                 invoked, raced, cancelled, arrivals>>

(* The answer of the scheduling is appended after the push: a worker may   *)
(* have appended its own evaluation by then.                               *)
NoteResume(a) ==
  /\ astate[a] = "noting"
  /\ resumes' = [resumes EXCEPT ![subject[a]] = Append(@, note[a])]
  /\ astate' = [astate EXCEPT ![a] = "free"]
  /\ subject' = [subject EXCEPT ![a] = NoTool]
  /\ note' = [note EXCEPT ![a] = "none"]
  /\ UNCHANGED <<fixedVars, runVars, callVars, decisions, reported, results, queue, wish,
                 expiring, effort, historyVars, arrivals, faults>>
----------------------------------------------------------------------------
(* process_resume_task, in a worker or in a resume request                 *)

Leave(a) ==
  /\ astate' = [astate EXCEPT ![a] = "free"]
  /\ subject' = [subject EXCEPT ![a] = NoTool]

GoOn(a, s) ==
  /\ astate' = [astate EXCEPT ![a] = s]
  /\ UNCHANGED subject

(* blpop removes the message before anything is done with it.              *)
Pop(w) ==
  /\ astate[w] = "free"
  /\ backend = "redis"
  /\ queue # <<>>
  /\ queue' = Tail(queue)
  /\ astate' = [astate EXCEPT ![w] = "admitting"]
  /\ subject' = [subject EXCEPT ![w] = Head(queue)]
  /\ UNCHANGED <<fixedVars, runVars, callVars, logVars, wish, expiring, note, effort,
                 historyVars, arrivals, faults>>

(* Mutant: a run that is still going on is ignored too.                    *)
AdmitOnlyReturned(a) ==
  /\ astate[a] = "admitting"
  /\ IF runStatus \in {"cancelled", "running"} THEN Leave(a) ELSE GoOn(a, "authorizing")
  /\ UNCHANGED <<fixedVars, runVars, callVars, logVars, queue, wish, expiring, note, effort,
                 historyVars, arrivals, faults>>

(* A cancelled run is ignored; every other status is let through.          *)
Admit(a) ==
  /\ astate[a] = "admitting"
  /\ IF runStatus = "cancelled" THEN Leave(a) ELSE GoOn(a, "authorizing")
  /\ UNCHANGED <<fixedVars, runVars, callVars, logVars, queue, wish, expiring, note, effort,
                 historyVars, arrivals, faults>>

(* Mutant: any decision will do.                                           *)
AuthorizeDecided(a) ==
  /\ astate[a] = "authorizing"
  /\ IF Decided(subject[a]) THEN GoOn(a, "locating") ELSE Leave(a)
  /\ UNCHANGED <<fixedVars, runVars, callVars, logVars, queue, wish, expiring, note, effort,
                 historyVars, arrivals, faults>>

(* Only the latest decision counts.                                        *)
Authorize(a) ==
  /\ astate[a] = "authorizing"
  /\ IF Decided(subject[a]) /\ LatestDecision(subject[a]) = "approved"
     THEN GoOn(a, "locating") ELSE Leave(a)
  /\ UNCHANGED <<fixedVars, runVars, callVars, logVars, queue, wish, expiring, note, effort,
                 historyVars, arrivals, faults>>

(* Mutant: the original tool call is not looked for.                       *)
LocateBlindly(a) ==
  /\ astate[a] = "locating"
  /\ note' = [note EXCEPT ![a] = IF checkpoint THEN "ready_for_resume"
                                 ELSE "checkpoint_missing"]
  /\ astate' = [astate EXCEPT ![a] = "evaluated"]
  /\ UNCHANGED <<fixedVars, runVars, callVars, logVars, queue, subject, wish, expiring,
                 effort, historyVars, arrivals, faults>>

(* The checkpoint lookup, which may fail, and the original tool_call.      *)
Locate(a) ==
  /\ astate[a] = "locating"
  /\ \E found \in BOOLEAN :
       /\ \/ found = checkpoint /\ UNCHANGED faults
          \/ ~found /\ checkpoint /\ faults < MaxFaults /\ faults' = faults + 1
       /\ note' = [note EXCEPT ![a] =
                     IF subject[a] \notin called THEN "original_action_missing"
                     ELSE IF found THEN "ready_for_resume" ELSE "checkpoint_missing"]
  /\ astate' = [astate EXCEPT ![a] = "evaluated"]
  /\ UNCHANGED <<fixedVars, runVars, callVars, logVars, queue, subject, wish, expiring,
                 effort, historyVars, arrivals>>

(* Mutant: only an evaluation that leads to an execution is recorded.      *)
NoteOnlyReady(a) ==
  /\ astate[a] = "evaluated"
  /\ IF note[a] = "ready_for_resume"
     THEN GoOn(a, "executing") /\ resumes' = [resumes EXCEPT ![subject[a]] = Append(@, note[a])]
     ELSE Leave(a) /\ UNCHANGED resumes
  /\ note' = [note EXCEPT ![a] = "none"]
  /\ UNCHANGED <<fixedVars, runVars, callVars, decisions, reported, results, queue, wish,
                 expiring, effort, historyVars, arrivals, faults>>

NoteEvaluation(a) ==
  /\ astate[a] = "evaluated"
  /\ resumes' = [resumes EXCEPT ![subject[a]] = Append(@, note[a])]
  /\ note' = [note EXCEPT ![a] = "none"]
  /\ IF note[a] = "ready_for_resume" THEN GoOn(a, "executing") ELSE Leave(a)
  /\ UNCHANGED <<fixedVars, runVars, callVars, decisions, reported, results, queue, wish,
                 expiring, effort, historyVars, arrivals, faults>>

(* execute_approved calls the tool, for the first time, or finds it gone,  *)
(* disabled or its arguments invalid; the catalogue and the policies are   *)
(* not modelled.                                                           *)
Execute(a) ==
  /\ astate[a] = "executing"
  /\ \/ /\ invoked' = [invoked EXCEPT ![subject[a]] = Append(@, 1)]
        /\ effort' = [effort EXCEPT ![a] = [execution |-> Len(invoked[subject[a]]) + 1,
                                            attempt |-> 1, try |-> 1]]
        /\ GoOn(a, "trying")
     \/ /\ GoOn(a, "resulting")
        /\ UNCHANGED <<invoked, effort>>
  /\ UNCHANGED <<fixedVars, runVars, callVars, logVars, queue, wish, expiring, note, extra,
                 raced, lost, cancelled, arrivals, faults>>

OneMore(calls, k) == [calls EXCEPT ![k] = @ + 1]

(* a calls the tool once more, as the given try of the given attempt.      *)
CallAgain(a, attempt, try) ==
  /\ astate[a] = "trying"
  /\ LET k == effort[a].execution
     IN /\ invoked' = [invoked EXCEPT ![subject[a]] = OneMore(@, k)]
        /\ effort' = [effort EXCEPT ![a] = [execution |-> k, attempt |-> attempt,
                                            try |-> try]]
  /\ UNCHANGED <<fixedVars, runVars, callVars, logVars, queue, astate, subject, wish,
                 expiring, note, extra, raced, lost, cancelled, arrivals, faults>>

(* The try failed: retry_interceptor repeats it.                           *)
Retry(a) ==
  /\ effort[a].try < CallTries
  /\ CallAgain(a, effort[a].attempt, effort[a].try + 1)

(* Mutant: range(retry_count + 1) counts the attempts after the first.     *)
AttemptOnceMore(a) ==
  /\ effort[a].attempt <= Attempts
  /\ CallAgain(a, effort[a].attempt + 1, 1)

(* The attempt timed out, at whichever try, or its last try failed:        *)
(* _invoke_tool_with_policy begins the next one.  A call that timed out    *)
(* may still have done what it was for.                                    *)
Attempt(a) ==
  /\ effort[a].attempt < Attempts
  /\ CallAgain(a, effort[a].attempt + 1, 1)

(* The tool has answered, or the last attempt has failed.                  *)
Conclude(a) ==
  /\ astate[a] = "trying"
  /\ GoOn(a, "resulting")
  /\ effort' = [effort EXCEPT ![a] = NoEffort]
  /\ UNCHANGED <<fixedVars, runVars, callVars, logVars, queue, wish, expiring, note,
                 historyVars, arrivals, faults>>

(* Mutant: the resumed execution completes the run.                        *)
AppendResultCompletes(a) ==
  /\ astate[a] = "resulting"
  /\ results' = results \union {subject[a]}
  /\ runStatus' = "completed"
  /\ Leave(a)
  /\ UNCHANGED <<fixedVars, phase, current, callVars, decisions, reported, resumes, queue,
                 wish, expiring, note, effort, historyVars, arrivals, faults>>

(* The status of the run is left as it is.                                 *)
AppendResult(a) ==
  /\ astate[a] = "resulting"
  /\ results' = results \union {subject[a]}
  /\ Leave(a)
  /\ UNCHANGED <<fixedVars, runVars, callVars, decisions, reported, resumes, queue, wish,
                 expiring, note, effort, historyVars, arrivals, faults>>

(* a stops where it is: its process dies (a worker's is started again), or *)
(* an exception ends the request, or the worker's loop for good.           *)
Stop(a) ==
  /\ astate[a] # "dead"
  /\ a \in Workers \/ astate[a] # "free"
  /\ faults < MaxFaults
  /\ faults' = faults + 1
  /\ astate' \in {[astate EXCEPT ![a] = s] :
                    s \in IF a \in Workers THEN {"free", "dead"} ELSE {"free"}}
  /\ subject' = [subject EXCEPT ![a] = NoTool]
  /\ wish' = [wish EXCEPT ![a] = NoWish]
  /\ expiring' = [expiring EXCEPT ![a] = {}]
  /\ note' = [note EXCEPT ![a] = "none"]
  /\ effort' = [effort EXCEPT ![a] = NoEffort]
  /\ lost' = IF subject[a] \in Tools /\ (a \in Workers \/ astate[a] = "pushing")
             THEN lost \union {subject[a]} ELSE lost
  /\ UNCHANGED <<fixedVars, runVars, callVars, logVars, queue, invoked, extra, raced,
                 cancelled, arrivals>>
----------------------------------------------------------------------------
RunStep ==
  \/ \E t \in Tools : CallTool(t) \/ LoopBlocked(t)
  \/ ToolReturns \/ ToolBlocked \/ Pause \/ AskApproval
  \/ Finish \/ Tell \/ RunFails \/ RunCancelled \/ Disconnect

Arrival(r) ==
  \/ ListApprovals(r)
  \/ \E t \in Tools, d \in {"approved", "rejected"} : DecideApproval(r, t, d)
  \/ \E t \in Tools : ResumeApproval(r, t)

(* What a request or a worker does once it has begun.                      *)
ActorStep(a) ==
  \/ Expire(a) \/ ReportHandoff(a) \/ HandOff(a)
  \/ Check(a) \/ Decide(a) \/ PushResume(a) \/ NoteResume(a)
  \/ Admit(a) \/ Authorize(a) \/ Locate(a) \/ NoteEvaluation(a)
  \/ Execute(a) \/ Retry(a) \/ Attempt(a) \/ Conclude(a) \/ AppendResult(a)

Next ==
  \/ RunStep
  \/ \E t \in Tools : GrowLate(t)
  \/ \E r \in Requests : Arrival(r)
  \/ \E w \in Workers : Pop(w)
  \/ \E a \in Actors : ActorStep(a) \/ Stop(a)

Spec == Init /\ [][Next]_vars

(* A request that has begun runs to its end, a worker's loop keeps         *)
(* popping, and each call of a tool returns, fails or times out.           *)
Fairness ==
  /\ \A a \in Actors : WF_vars(ActorStep(a))
  /\ \A w \in Workers : WF_vars(Pop(w))

FairSpec == Spec /\ Fairness
----------------------------------------------------------------------------
RunTypeOK ==
  /\ mode \in Modes
  /\ backend \in Backends
  /\ checkpoint \in BOOLEAN
  /\ runStatus \in RunStatuses
  /\ phase \in Phases
  /\ current \in Tools \union {NoTool}
  /\ called \subseteq Tools
  /\ pending \subseteq called
  /\ late \subseteq pending
  /\ asked \subseteq Tools
  /\ current \in Tools <=> phase \in {"calling", "blocked", "pausing"}
  /\ phase = "calling" => current \in called

LogTypeOK ==
  /\ decisions \in [Tools -> Seq(Decisions)]
  /\ reported \subseteq Tools
  /\ resumes \in [Tools -> Seq(ResumeStatuses)]
  /\ results \subseteq Tools
  /\ queue \in Seq(Tools)
  /\ invoked \in [Tools -> Seq(Nat \ {0})]
  /\ extra \in [Tools -> Nat]
  /\ raced \subseteq Tools
  /\ lost \subseteq Tools
  /\ cancelled \in BOOLEAN
  /\ arrivals \in Nat
  /\ faults \in Nat

ActorTypeOK ==
  /\ astate \in [Actors -> ActorStates]
  /\ subject \in [Actors -> Tools \union {NoTool}]
  /\ wish \in [Actors -> [tool : Tools, decision : {"approved", "rejected"}]
                         \union {NoWish}]
  /\ expiring \in [Actors -> SUBSET Tools]
  /\ note \in [Actors -> ResumeStatuses \union {"none"}]
  /\ effort \in [Actors -> [execution : Nat, attempt : Nat, try : Nat]]
  /\ \A a \in Actors :
       /\ subject[a] \in Tools <=> astate[a] \in Holding
       /\ astate[a] = "deciding" => wish[a] # NoWish /\ wish[a].tool = subject[a]
       /\ wish[a] # NoWish => astate[a] \in {"expiring", "reporting", "handing", "deciding"}
       /\ expiring[a] # {} => astate[a] \in {"expiring", "reporting", "handing"}
       /\ note[a] # "none" <=> astate[a] \in {"noting", "evaluated"}

(* Values stay in their domains, an actor works on a tool exactly where    *)
(* its code holds one, and it has expired tools or a decision to record    *)
(* only before it records them.                                            *)
TypeOK == RunTypeOK /\ LogTypeOK /\ ActorTypeOK

Occurs(t, d) == \E i \in 1 .. Len(decisions[t]) : decisions[t][i] = d

(* approval_already_decided, approval_expired: a tool is decided once, by  *)
(* a person or by the clock.  The check and the append are separate        *)
(* transactions, so two decisions need two parties that had both found     *)
(* none; nothing else (crashes, a late list request, an expiry inside a    *)
(* decide request) adds a second one.                                      *)
DecidedOnce ==
  \A t \in Tools \ raced : Len(decisions[t]) <= 1

(* "execute_without_checkpoint" and "regenerate_high_risk_action" are      *)
(* false: an approved tool is executed only if a person approved it, the   *)
(* run itself had called it and the decision graph left a checkpoint,      *)
(* whatever races, is repeated or is asked for by hand.                    *)
ExecutedWasApproved ==
  \A t \in Tools :
    invoked[t] # <<>> => Occurs(t, "approved") /\ t \in called /\ checkpoint

(* The hand-off report of a rejected or expired tool says that no risky    *)
(* operation was executed: the tool is not executed before or after the    *)
(* report, unless its decisions overlapped.                                *)
RefusedNotExecuted ==
  \A t \in Tools \ raced :
    t \in reported \/ Occurs(t, "rejected") \/ Occurs(t, "expired") => invoked[t] = <<>>

Approvals(t) == Cardinality({i \in 1 .. Len(decisions[t]) : decisions[t][i] = "approved"})

(* An approval is executed at most once; beyond that, at most once per     *)
(* resume request and per message doubled by a lost reply; a crash never   *)
(* executes anything again.  One execution calls its tool no more often    *)
(* than the tool's attempts times the tries of each: an approval does not  *)
(* mean one call, however many requests and workers retry side by side.    *)
ExecutionBudget ==
  \A t \in Tools :
    /\ Len(invoked[t]) <= Approvals(t) + extra[t]
    /\ \A k \in 1 .. Len(invoked[t]) : invoked[t][k] <= Attempts * CallTries

(* The requests, the workers and the resume queue implement the abstract   *)
(* life cycle of an approval: every step of theirs is one of its steps or  *)
(* leaves what it promises alone.                                          *)
Lifecycle == INSTANCE ApprovalLifecycle WITH
  MaxCalls  <- Attempts * CallTries,
  open      <- phase # "over",
  handedOff <- runStatus = "handoff_required",
  resumable <- checkpoint,
  verdicts  <- [t \in Tools |-> {d \in Decisions : Occurs(t, d)}],
  contested <- raced,
  refused   <- reported,
  chances   <- [t \in Tools |-> Approvals(t) + extra[t]],
  executed  <- invoked,
  answered  <- results
LifecycleSpec == Lifecycle!Spec

Noted(t, s) == \E i \in 1 .. Len(resumes[t]) : resumes[t][i] = s
Evaluated(t) ==
  \E s \in {"original_action_missing", "ready_for_resume", "checkpoint_missing"} : Noted(t, s)
Overruled(t) == Decided(t) /\ LatestDecision(t) # "approved"

(* "queued", the resume status an operator is shown, is never about a      *)
(* message that nobody has: it is in the list or with a worker, or the     *)
(* worker evaluated it before the request noted "queued", unless the run   *)
(* was cancelled (its messages are ignored), the tool's decisions          *)
(* overlapped or a fault took the message.                                 *)
QueuedIsInFlight ==
  \A t \in Tools \ raced :
    resumes[t] # <<>> /\ resumes[t][Len(resumes[t])] = "queued"
      => \/ \E i \in 1 .. Len(queue) : queue[i] = t
         \/ \E w \in Workers : subject[w] = t
         \/ Evaluated(t)
         \/ cancelled
         \/ t \in lost

(* With Redis, an approval is answered: its tool is executed or denied, or *)
(* the log says why not, unless the run was cancelled, another decision    *)
(* overruled it, or a fault took the message or the last worker.           *)
Answered(t) ==
  \/ t \in results
  \/ \E s \in {"enqueue_failed", "original_action_missing", "checkpoint_missing"} : Noted(t, s)
ApprovedIsAnswered ==
  \A t \in Tools :
    backend = "redis" /\ Occurs(t, "approved") ~>
      \/ Answered(t)
      \/ cancelled
      \/ Overruled(t)
      \/ t \in lost
      \/ \A w \in Workers : astate[w] = "dead"

(* GET /agent/approvals "list pending and decided approval requests": the  *)
(* tools it lists are those with a blocked tool_result.  Every approval    *)
(* the runtime asked for is among them.                                    *)
RequestsAreListed == asked \subseteq pending

(* A rejection is logged with state_status "handoff_required" and says     *)
(* that the run needs a manual hand-off: once the request that rejected a  *)
(* blocked tool call is through, the run's row says so too.                *)
RejectionHandsOff ==
  \A t \in pending :
    Occurs(t, "rejected") /\ (\A a \in Actors : subject[a] # t)
      => runStatus = "handoff_required"
=============================================================================
