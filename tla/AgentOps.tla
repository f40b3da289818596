------------------------------ MODULE AgentOps ------------------------------
(***************************************************************************)
(* What is read out of the runs once they are under way: the metrics that  *)
(* the collector puts beside a run, the release gate, the scenario         *)
(* regression and the replay page.  Each reads rows and logs in            *)
(* transactions of their own, while the run, the approvers and the resumed *)
(* run go on writing.                                                      *)
(*                                                                         *)
(* How a run ends is RunLifecycle's promise, and when it may be decided    *)
(* upon ApprovalWorkflow's.  Of its log only how many events of each kind  *)
(* there are matters here; of its text, whether there is a report, the     *)
(* signals a scenario looks for, the terms it blocks, and the one term     *)
(* that most resumptions leave ("execute_without_checkpoint").  Which      *)
(* signals and terms a reader finds is settled from the start, since       *)
(* nothing else depends on it.                                             *)
(***************************************************************************)
EXTENDS Naturals, FiniteSets

CONSTANTS Runs,
          Progress,     \* kinds of events before the end
          MaxProgress,  \* bound: such events of one run
          MaxDecisions, \* bound: decisions about one run
          MaxEvaluated  \* bound: times that a resumption of one run is evaluated

ASSUME AgentOpsAssumption ==
  /\ Progress \subseteq {"hypothesis", "decision", "tool_call", "repeated_call", "tool_result",
                         "empty_result", "knowledge_context", "recovery"}
  /\ MaxProgress \in Nat /\ MaxDecisions \in Nat /\ MaxEvaluated \in Nat

(* tool_call and repeated_call are tool_call events, empty_result is a     *)
(* tool_result, operator_handoff is a handoff by the approval handlers,    *)
(* evaluated_resume is an approval_resume by the service that resumes.     *)
Ends == {"final_report", "handoff", "approval_required", "timeout", "error", "cancelled"}
EventKinds == Progress \union Ends \union
  {"run_started", "tool_call", "repeated_call", "tool_result", "empty_result", "hypothesis",
   "decision", "knowledge_context", "recovery", "approval_decision", "approval_resume",
   "evaluated_resume", "approval_resumed_tool_result", "operator_handoff"}
Texts == SUBSET {"signals", "blocked", "report", "unchecked"}
FreeTexts == SUBSET {"signals", "blocked"}

CONSTANTS NoColumns, NoView

VARIABLES
  rstatus,    \* agent_runs.status
  columns,    \* the metric columns, or NoColumns
  rlog,       \* events by kind
  rtext,      \* what the text of the run contains so far
  rstep,      \* the runtime: "running", what it settled, "told", "collecting", "over"
  collected,  \* what the collector has computed
  decider,    \* who decides about an approval: where they are
  resumable,  \* the runs of which a tool has been approved
  executing,  \* resumptions of the run that execute its tool
  listed,     \* a reader: the rows of the runs that a gate lists as completed,
  rowRead, logRead   \* and what it has read of the row and then the log of each

opsVars == <<rstatus, columns, rlog, rtext, rstep, collected, decider, resumable, executing,
             listed, rowRead, logRead>>

AgentOpsInit ==
  /\ rstatus = [r \in Runs |-> "running"]
  /\ columns = [r \in Runs |-> NoColumns]
  /\ rlog = [r \in Runs |-> [k \in EventKinds |-> IF k = "run_started" THEN 1 ELSE 0]]
  /\ rtext \in [Runs -> FreeTexts]
  /\ rstep = [r \in Runs |-> "running"]
  /\ collected = [r \in Runs |-> NoColumns]
  /\ decider = [r \in Runs |-> "none"]
  /\ resumable = {} /\ executing = [r \in Runs |-> 0]
  /\ listed = NoView
  /\ rowRead = [r \in Runs |-> NoView]
  /\ logRead = [r \in Runs |-> NoView]

approverVars == <<decider, resumable, executing>>
readerVars == <<listed, rowRead, logRead>>
----------------------------------------------------------------------------
(* The run and its approvers.                                              *)
EventCount(log, kinds) ==
  LET add[S \in SUBSET kinds] ==
        IF S = {} THEN 0 ELSE LET k == CHOOSE k \in S : TRUE IN log[k] + add[S \ {k}]
  IN  add[kinds]

Log(r, k) == rlog' = [rlog EXCEPT ![r][k] = @ + 1]
Leave(r, what) == rtext' = [rtext EXCEPT ![r] = @ \union what]

AppendProgress(r, k) ==
  /\ rstep[r] = "running"
  /\ EventCount(rlog[r], Progress) < MaxProgress
  /\ k = "repeated_call" => rlog[r]["tool_call"] > 0
  /\ Log(r, k)
  /\ UNCHANGED <<rstatus, columns, rtext, rstep, collected, approverVars, readerVars>>

(* The row is settled first, and told in the log in a second transaction.  *)
(* A failure in between leaves the report of the end that it overwrites.   *)
SettledStatuses == {"completed", "handoff_required", "waiting_approval", "failed", "cancelled"}

SettleRun(r, s) ==
  /\ rstep[r] = "running" \/ (rstep[r] \in SettledStatuses /\ s = "failed")
  /\ rstatus' = [rstatus EXCEPT ![r] = s]
  /\ rstep' = [rstep EXCEPT ![r] = s]
  /\ Leave(r, IF s \in {"completed", "handoff_required", "waiting_approval"}
               THEN {"report"} ELSE {})
  /\ UNCHANGED <<columns, rlog, collected, approverVars, readerVars>>

OutcomeOf(s) ==
  CASE s = "completed" -> {"final_report"} [] s = "handoff_required" -> {"handoff"}
    [] s = "waiting_approval" -> {"approval_required"} [] s = "failed" -> {"timeout", "error"}
    [] OTHER -> {"cancelled"}

TellRun(r) ==
  /\ rstep[r] \in SettledStatuses
  /\ \E k \in OutcomeOf(rstep[r]) : Log(r, k)
  /\ rstep' = [rstep EXCEPT ![r] = "told"]
  /\ UNCHANGED <<rstatus, columns, rtext, collected, approverVars, readerVars>>

(* A tool of any run may be decided at any time, called or not.  Approved: *)
(* the decision is noted, the resumption queued and noted as well, the row *)
(* stays.  Rejected or expired: a decision and a handoff are noted, and    *)
(* then the row.                                                           *)
DecideRun(r) ==
  /\ decider[r] = "none"
  /\ rlog[r]["approval_decision"] < MaxDecisions
  /\ Log(r, "approval_decision")
  /\ \/ decider' = [decider EXCEPT ![r] = "resuming"] /\ resumable' = resumable \union {r}
     \/ decider' = [decider EXCEPT ![r] = "handing"] /\ UNCHANGED resumable
  /\ UNCHANGED <<rstatus, columns, rtext, rstep, collected, executing, readerVars>>

ResumeRun(r) ==
  /\ decider[r] = "resuming"
  /\ decider' = [decider EXCEPT ![r] = "none"]
  /\ Log(r, "approval_resume") /\ Leave(r, {"unchecked"})
  /\ UNCHANGED <<rstatus, columns, rstep, collected, resumable, executing, readerVars>>

(* process_resume_task, of a worker or by hand: a resumption that finds no *)
(* call of the approved tool says so, in other words than the others, and  *)
(* only one that finds the checkpoint executes the call.                   *)
EvaluateResume(r) ==
  /\ r \in resumable /\ rstatus[r] # "cancelled"
  /\ rlog[r]["evaluated_resume"] < MaxEvaluated
  /\ Log(r, "evaluated_resume")
  /\ \/ UNCHANGED <<rtext, executing>>
     \/ /\ rlog[r]["tool_call"] > 0
        /\ Leave(r, {"unchecked"})
        /\ \E n \in 0 .. 1 : executing' = [executing EXCEPT ![r] = @ + n]
  /\ UNCHANGED <<rstatus, columns, rstep, collected, decider, resumable, readerVars>>

NoteResumedResult(r) ==
  /\ executing[r] > 0
  /\ executing' = [executing EXCEPT ![r] = @ - 1]
  /\ Log(r, "approval_resumed_tool_result")
  /\ UNCHANGED <<rstatus, columns, rtext, rstep, collected, decider, resumable, readerVars>>

NoteHandoff(r) ==
  /\ \/ /\ decider[r] = "handing"
        /\ decider' = [decider EXCEPT ![r] = "deciding"]
        /\ Log(r, "decision")
     \/ /\ decider[r] = "deciding"
        /\ decider' = [decider EXCEPT ![r] = "noted"]
        /\ Log(r, "operator_handoff")
  /\ UNCHANGED <<rstatus, columns, rtext, rstep, collected, resumable, executing, readerVars>>

HandOverRun(r) ==
  /\ decider[r] = "noted"
  /\ decider' = [decider EXCEPT ![r] = "none"]
  /\ rstatus' = [rstatus EXCEPT ![r] = "handoff_required"]
  /\ Leave(r, {"report"})
  /\ UNCHANGED <<columns, rlog, rstep, collected, resumable, executing, readerVars>>

(* A process dies; a resumption whose process does never notes a result.   *)
RunnerDies(r) ==
  /\ rstep[r] # "over"
  /\ rstep' = [rstep EXCEPT ![r] = "over"]
  /\ UNCHANGED <<rstatus, columns, rlog, rtext, collected, approverVars, readerVars>>

DeciderDies(r) ==
  /\ decider[r] # "none"
  /\ decider' = [decider EXCEPT ![r] = "none"]
  /\ UNCHANGED <<rstatus, columns, rlog, rtext, rstep, collected, resumable, executing, readerVars>>
----------------------------------------------------------------------------
(* MetricsCollector: the row and the log are read and the metrics          *)
(* computed; they are handed to the store by name, and what is raised is   *)
(* only logged.                                                            *)
CallCount(log) == log["tool_call"] + log["repeated_call"]
ResultCount(log) == log["tool_result"] + log["empty_result"]
Steps(log) == log["hypothesis"] + log["decision"] + CallCount(log) + ResultCount(log)
Handoffs(log) == log["handoff"] + log["operator_handoff"]

RunMetrics(r) ==
  [step_count |-> Steps(rlog[r]), tool_call_count |-> CallCount(rlog[r]),
   approval_state |-> rlog[r]["approval_required"] > 0,
   retrieval_count |-> rlog[r]["knowledge_context"],
   handoff_reason |-> Handoffs(rlog[r]) + rlog[r]["recovery"] > 0 \/ rstatus[r] = "handoff_required",
   recovery_count |-> rlog[r]["recovery"],
   error_type |-> rlog[r]["timeout"] + rlog[r]["error"] > 0 \/ rstatus[r] = "failed",
   empty_result_count |-> rlog[r]["empty_result"],
   duplicate_tool_call_count |-> rlog[r]["repeated_call"]]

Accepted ==
  {"runtime_version", "trace_id", "model_name", "decision_provider", "step_count",
   "tool_call_count", "latency_ms", "error_type", "approval_state", "retrieval_count",
   "token_usage", "cost_estimate", "handoff_reason", "recovery_count", "empty_result_count",
   "duplicate_tool_call_count", "step_latencies", "regression_score"}
Offered ==
  {"runtime_version", "trace_id", "model_name", "decision_provider", "step_count",
   "tool_call_count", "latency_ms", "error_type", "approval_state", "approval_wait_time_ms",
   "retrieval_count", "token_usage", "cost_estimate", "handoff_reason", "recovery_count",
   "empty_result_count", "duplicate_tool_call_count", "step_latencies", "regression_score",
   "faq_hit_count", "knowledge_citation_count", "retrieval_refused"}

CollectMetrics(r) ==
  /\ rstep[r] = "told"
  /\ rstep' = [rstep EXCEPT ![r] = "collecting"]
  /\ collected' = [collected EXCEPT ![r] = RunMetrics(r)]
  /\ UNCHANGED <<rstatus, columns, rlog, rtext, approverVars, readerVars>>

(* Mutant: names that the store does not know are dropped.                 *)
UpdateKnownMetrics(r) ==
  /\ rstep[r] = "collecting"
  /\ rstep' = [rstep EXCEPT ![r] = "over"]
  /\ columns' = [columns EXCEPT ![r] = collected[r]]
  /\ UNCHANGED <<rstatus, rlog, rtext, collected, approverVars, readerVars>>

UpdateRunMetrics(r) ==
  /\ rstep[r] = "collecting"
  /\ rstep' = [rstep EXCEPT ![r] = "over"]
  /\ columns' = [columns EXCEPT ![r] = IF Offered \subseteq Accepted THEN collected[r] ELSE @]
  /\ UNCHANGED <<rstatus, rlog, rtext, collected, approverVars, readerVars>>
----------------------------------------------------------------------------
(* The reader: a gate lists the runs, and then reads the completed ones    *)
(* one by one, the logs again for every rate; the other views begin with   *)
(* the row of their run.                                                   *)
Row(r) == [status |-> rstatus[r], columns |-> columns[r], report |-> "report" \in rtext[r]]

ListRuns ==
  /\ listed = NoView /\ \A r \in Runs : rowRead[r] = NoView
  /\ listed' = [r \in {q \in Runs : rstatus[q] = "completed"} |-> Row(r)]
  /\ UNCHANGED <<rstatus, columns, rlog, rtext, rstep, collected, approverVars, rowRead, logRead>>

ReadRun(r) ==
  /\ rowRead[r] = NoView
  /\ rowRead' = [rowRead EXCEPT ![r] = Row(r)]
  /\ UNCHANGED <<rstatus, columns, rlog, rtext, rstep, collected, approverVars, listed, logRead>>

ReadLog(r) ==
  /\ rowRead[r] # NoView
  /\ logRead' = [logRead EXCEPT ![r] = [events |-> rlog[r], text |-> rtext[r]]]
  /\ UNCHANGED <<rstatus, columns, rlog, rtext, rstep, collected, approverVars, listed, rowRead>>

AgentOpsNext ==
  \/ \E r \in Runs :
       \/ \E k \in Progress : AppendProgress(r, k)
       \/ \E s \in SettledStatuses : SettleRun(r, s)
       \/ TellRun(r) \/ DecideRun(r) \/ ResumeRun(r) \/ NoteHandoff(r) \/ HandOverRun(r)
       \/ EvaluateResume(r) \/ NoteResumedResult(r)
       \/ RunnerDies(r) \/ DeciderDies(r) \/ CollectMetrics(r) \/ UpdateRunMetrics(r)
       \/ ReadRun(r) \/ ReadLog(r)
  \/ ListRuns

AgentOpsSpec == AgentOpsInit /\ [][AgentOpsNext]_opsVars
----------------------------------------------------------------------------
(* evaluate_run: the share of the checks of a scenario that pass, in       *)
(* percent.  The five diagnosis scenarios ask for the same.                *)
Scenario(required, signals, blocked, calls) ==
  [required |-> required, signals |-> signals, blocked |-> blocked, calls |-> calls]

ApprovalScenario == Scenario({"tool_result", "approval_decision", "approval_resume"}, 3, 2, 1)

Scenarios ==
  {Scenario({"run_started", "hypothesis", "tool_result", "final_report"}, 4, 2, 1),
   ApprovalScenario,
   Scenario({"knowledge_context", "final_report"}, 3, 2, 0),
   Scenario({"decision", "final_report"}, 3, 2, 0),
   Scenario({"run_started", "tool_result", "final_report"}, 3, 1, 1)}

Observed(log, k) ==
  CASE k = "tool_result" -> ResultCount(log) > 0
    [] k = "approval_resume" -> log[k] + log["evaluated_resume"] > 0
    [] OTHER -> log[k] > 0

One(b) == IF b THEN 1 ELSE 0

BlockedIn(sc, text) ==
  IF "blocked" \in text THEN sc.blocked ELSE One(sc = ApprovalScenario /\ "unchecked" \in text)

Passed(sc, row, log) ==
  One(row.status = "completed")
    + One(row.report)
    + One(CallCount(log.events) >= sc.calls)
    + Cardinality({k \in sc.required : Observed(log.events, k)})
    + (IF "signals" \in log.text THEN sc.signals ELSE 0)
    + sc.blocked - BlockedIn(sc, log.text)

Checks(sc) == 3 + Cardinality(sc.required) + sc.signals + sc.blocked
Score(sc, row, log) == (100 * Passed(sc, row, log)) \div Checks(sc)

BestScore(r) ==
  LET scores == {Score(sc, rowRead[r], logRead[r]) : sc \in Scenarios}
  IN  CHOOSE n \in scores : \A m \in scores : m <= n

(* compute_release_gate, over the completed runs.                          *)
GateRead == listed # NoView /\ \A r \in DOMAIN listed : logRead[r] # NoView

SumOver(S, value(_)) ==
  LET add[T \in SUBSET S] ==
        IF T = {} THEN 0 ELSE LET r == CHOOSE r \in T : TRUE IN value(r) + add[T \ {r}]
  IN  add[S]

Completed == DOMAIN listed
WithColumns == {r \in Completed : listed[r].columns # NoColumns}

GoalRate ==
  IF Completed = {} THEN 0 ELSE SumOver(Completed, BestScore) \div Cardinality(Completed)
UnnecessaryIsLow ==
  LET wasted(r) == listed[r].columns.duplicate_tool_call_count
                     + listed[r].columns.empty_result_count
      called(r) == listed[r].columns.tool_call_count
  IN  10 * SumOver(WithColumns, wasted) <= SumOver(WithColumns, called)
        \/ SumOver(WithColumns, called) = 0
Overridden ==
  {r \in WithColumns : listed[r].columns.approval_state /\ logRead[r].events["approval_decision"] = 0}
HasLatency == WithColumns # {}     \* a latency of the bounded runs is below the threshold

GatePasses == GoalRate >= 80 /\ UnnecessaryIsLow /\ Overridden = {} /\ HasLatency

HandedOff == {r \in Completed : Handoffs(logRead[r].events) > 0
                                  \/ (r \in WithColumns /\ listed[r].columns.handoff_reason)}
Waited == {r \in Completed :
             logRead[r].events["approval_required"] > 0 /\ logRead[r].events["approval_decision"] > 0}

(* _derive_run_metrics: a column if there is one, else the count of events.*)
ReplayCalls(r) == IF rowRead[r].columns # NoColumns THEN rowRead[r].columns.tool_call_count
                  ELSE CallCount(logRead[r].events)
ReplaySteps(r) == IF rowRead[r].columns # NoColumns THEN rowRead[r].columns.step_count
                  ELSE Steps(logRead[r].events)
----------------------------------------------------------------------------
(* Every variable keeps its type.                                          *)
AgentOpsTypeOK ==
  /\ rstatus \in [Runs -> {"running"} \union SettledStatuses]
  /\ rstep \in [Runs -> {"running", "told", "collecting", "over"} \union SettledStatuses]
  /\ decider \in [Runs -> {"none", "resuming", "handing", "deciding", "noted"}]
  /\ resumable \subseteq Runs /\ executing \in [Runs -> Nat]
  /\ \A r \in Runs : rtext[r] \in Texts /\ (logRead[r] # NoView => rowRead[r] # NoView)
  /\ listed = NoView \/ DOMAIN listed \subseteq Runs

(* The release gate never opens: the collector offers the store names it   *)
(* does not take, so no column is ever set and the gate has no latency.    *)
(* Of the completed runs that it counts none waited for an approval, and   *)
(* none handed itself off: its hand-off rate counts the runs rejected too  *)
(* early to matter, or after they were listed.  A run that passes the      *)
(* approval scenario has asked for no approval and has resumed nothing: it *)
(* has to be completed and to hold an approval_resume event without the    *)
(* term that the scenario blocks, and that of whoever decides and that of  *)
(* a resumption that finds the call both carry it.  The replay alone is    *)
(* right: without columns it counts the events that it lists.              *)
ReleaseGateStaysShut ==
  /\ GateRead =>
       /\ ~GatePasses /\ Waited = {} /\ Overridden = {}
       /\ \A r \in HandedOff : logRead[r].events["handoff"] = 0 /\ logRead[r].events["approval_decision"] > 0
  /\ \A r \in Runs : logRead[r] # NoView =>
       /\ Passed(ApprovalScenario, rowRead[r], logRead[r]) = Checks(ApprovalScenario) =>
            LET log == logRead[r].events IN
            /\ log["approval_required"] = 0 /\ log["approval_resumed_tool_result"] = 0
            /\ log["approval_resume"] = 0 /\ log["evaluated_resume"] > 0
       /\ ReplayCalls(r) = CallCount(logRead[r].events) /\ ReplaySteps(r) = Steps(logRead[r].events)
=============================================================================
