-------------------------- MODULE DecisionRuntime ----------------------------
(***************************************************************************)
(* The decision runtime, one object that all runs of a process share       *)
(* (AgentDecisionRuntime): the decision graph that a run consults once,    *)
(* its fallback provider, and the accounting of tokens, for runs that use  *)
(* the graph and for runs that drive the bounded loop.                     *)
(*                                                                         *)
(* The graph and the loop block the event loop; a graph is one step here,  *)
(* a step of a loop is one, and nobody else moves while a loop runs.       *)
(* Between its events a run is suspended.  What the loop decides is the    *)
(* subject of AgentRun; here a step is told apart by who decided it.       *)
(***************************************************************************)
EXTENDS Integers, Sequences, FiniteSets

CONSTANTS GraphRuns,        \* runs that consult the graph
          LoopRuns,         \* runs that drive the bounded loop
          SceneTools,       \* the scene's tools, those of a run may be none
          NoTool,
          StepLimit,        \* max_steps
          MaxSaverFailures, \* bound: graphs that the checkpoint saver fails
          NoConsultant

DecidingRuns == GraphRuns \union LoopRuns

(* A step budget is at least one (_positive_int).                          *)
ASSUME DecisionAssumption ==
  /\ GraphRuns \intersect LoopRuns = {}
  /\ NoConsultant \notin DecidingRuns
  /\ IsFiniteSet(SceneTools) /\ NoTool \notin SceneTools
  /\ StepLimit \in Nat \ {0} /\ MaxSaverFailures \in Nat

VARIABLES
  model,      \* the provider: "qwen", with the other one to fall back on, or "deterministic"
  available,  \* run -> the tools of its scene
  rstage,     \* run -> where it is
  dstate,     \* graph run -> its AgentDecisionState
  direct,     \* graph runs that fell back to the provider without the graph
  fallbackEvents, \* the runtime's list of fallbacks: the runs whose call failed
  record,     \* graph run -> the fallback events it has yet to record, those it
              \* recorded, and the usage its decision event names
  consulting, \* the run whose loop holds the event loop
  recovers,   \* loop runs whose latest evidence asks for recovery
  steps,      \* loop run -> its steps: who decided, and the usage recorded
  invoked,    \* the usage that the model's last answer left in the provider
  lastUsage,  \* the usage of the runtime's last decision
  answered,   \* run -> answers the model gave it (history)
  refused,    \* run -> calls that failed (history)
  overtaken,  \* graph runs since whose decision another graph decided (history)
  saverFailures

graphVars == <<dstate, direct, fallbackEvents, record, overtaken, saverFailures>>
loopingVars == <<consulting, recovers, steps>>
usageVars == <<invoked, lastUsage, answered, refused>>
decisionVars == <<model, available, rstage, graphVars, loopingVars, usageVars>>

(* A usage is the call it was reported for; other providers report zero.   *)
Zero == <<NoConsultant, 0>>
Usages == (DecidingRuns \X (1 .. StepLimit + 2)) \union {Zero}

DecidedActions == {"observe", "call_tool", "ask_approval", "recover", "final_report", "handoff"}

Verdict(a, t, n) == [action |-> a, tool |-> t, next |-> n]

(* A recovery's next_action matters to the graph only for "recover".       *)
Verdicts ==
  {v \in [action : DecidedActions, tool : SceneTools \union {NoTool}, next : {"none", "retry", "handoff"}] :
     v.next # "none" => v.action = "recover"}

Undecided == Verdict("observe", NoTool, "none")

Idle == [r \in DecidingRuns |-> "idle"]

(* build_initial_decision_state, with the budget that the runtime gives.   *)
InitialState(r) ==
  [status |-> "running", decision |-> Undecided, executed |-> {}, steps |-> StepLimit,
   calls |-> Cardinality(available[r]), weak |-> 0, observed |-> 1]

DecisionInit ==
  /\ model \in {"qwen", "deterministic"}
  /\ available \in [DecidingRuns -> {{}, SceneTools}]
  /\ rstage = Idle
  /\ dstate = [r \in GraphRuns |-> InitialState(r)]
  /\ direct = {}
  /\ fallbackEvents = <<>>
  /\ record = [r \in GraphRuns |-> [due |-> <<>>, fallbacks |-> <<>>, usage |-> Zero]]
  /\ consulting = NoConsultant
  /\ recovers = {}
  /\ steps = [r \in LoopRuns |-> <<>>]
  /\ invoked = Zero
  /\ lastUsage = Zero
  /\ answered = [r \in DecidingRuns |-> 0]
  /\ refused = [r \in DecidingRuns |-> 0]
  /\ overtaken = {}
  /\ saverFailures = 0
----------------------------------------------------------------------------
(* The providers                                                           *)

(* The rules, for the state that a run starts with: it has no evidence.    *)
RuleBasedVerdicts(r) ==
  IF available[r] = {} THEN {Verdict("handoff", NoTool, "none")}
  ELSE {Verdict("call_tool", t, "none") : t \in available[r]}

Retry == Verdict("recover", NoTool, "retry")

(* What becomes of a text of the model: one that is no object of the shape *)
(* or that names a tool which is not the run's is replaced, and one that   *)
(* is not confident is made a recovery.                                    *)
CheckedAnswer(r, text) ==
  IF ~text.valid \/ text.verdict.tool \notin available[r] \union {NoTool} THEN Retry
  ELSE IF ~text.confident THEN [text.verdict EXCEPT !.action = "recover", !.next = "retry"]
  ELSE text.verdict

ModelTexts == [valid : BOOLEAN, confident : BOOLEAN, verdict : Verdicts]

(* The rules cannot fail.                                                  *)
Consultations == IF model = "qwen" THEN {"answers", "raises"} ELSE {"computed"}

VerdictsFor(r, answer) ==
  IF answer = "answers" THEN {CheckedAnswer(r, text) : text \in ModelTexts} ELSE RuleBasedVerdicts(r)

(* The events of the fallbacks that a call causes.                         *)
FallbacksOf(r, answer) == IF answer = "raises" THEN <<r>> ELSE <<>>

(* decide_once: a provider that fails is replaced for this decision.       *)
(* `before` is what a graph that then failed had got from the provider.    *)
DecideOnceFor(r, before, answer) ==
  LET n == answered[r] + (IF before = "answers" THEN 1 ELSE 0)
      own == answer = "answers"
  IN /\ answered' = [answered EXCEPT ![r] = IF own THEN n + 1 ELSE n]
     /\ refused' = [refused EXCEPT
          ![r] = @ + Len(FallbacksOf(r, before)) + Len(FallbacksOf(r, answer))]
     /\ invoked' = IF answered'[r] > answered[r] THEN <<r, answered'[r]>> ELSE invoked
     /\ lastUsage' = IF own THEN <<r, answered'[r]>> ELSE Zero
----------------------------------------------------------------------------
(* The graph                                                               *)

Observe(r, s) == [s EXCEPT !.observed = IF available[r] = {} THEN @ ELSE @ + 1]

WithDecision(s, v) ==
  [s EXCEPT !.decision = v,
            !.status = CASE v.action = "ask_approval" -> "waiting_approval"
                         [] v.action = "final_report" -> "completed"
                         [] v.action = "handoff"      -> "handoff_required"
                         [] OTHER                     -> @]

(* The status that the decision set stays when the decision is replaced.   *)
ValidateDecision(r, s) ==
  IF \/ s.decision.tool \notin available[r] \union {NoTool}
     \/ s.decision.action = "call_tool" /\ s.decision.tool = NoTool
    THEN [s EXCEPT !.decision = Retry]
    ELSE s

AtLeastZero(n) == IF n < 0 THEN 0 ELSE n

Act(s) ==
  IF s.decision.action # "call_tool" \/ s.decision.tool = NoTool THEN s
  ELSE [s EXCEPT !.executed = @ \union {s.decision.tool},
                 !.steps = AtLeastZero(@ - 1),
                 !.calls = AtLeastZero(@ - 1)]

(* The evidence that a call is expected to bring counts as weak.           *)
EvaluateEvidence(s) == IF s.decision.action = "call_tool" THEN [s EXCEPT !.weak = @ + 1] ELSE s

Recover(s) ==
  [s EXCEPT !.status = IF s.decision.next = "handoff" THEN "handoff_required" ELSE "running"]

ReportFinally(s) == [s EXCEPT !.status = "completed"]

RouteDecision(s) ==
  CASE s.decision.action = "call_tool"    -> EvaluateEvidence(Act(s))
    [] s.decision.action = "recover"      -> Recover(s)
    [] s.decision.action = "final_report" -> ReportFinally(s)
    [] OTHER                              -> s

Graph(r, v) ==
  RouteDecision(ValidateDecision(r, WithDecision(Observe(r, InitialState(r)), v)))
----------------------------------------------------------------------------
(* A run that consults the graph                                           *)

Others(r) == (overtaken \union {q \in GraphRuns : rstage[q] = "telling"}) \ {r}

(* Mutant: the events are copied, the list is not cleared.                 *)
KeepFallbackEvents(queue) == queue

ConsumeFallbackEvents(queue) == <<>>

(* The run takes the runtime's fallback events right after the decision.   *)
Decided(r, s, failed) ==
  LET queue == fallbackEvents \o failed
  IN /\ dstate' = [dstate EXCEPT ![r] = s]
     /\ record' = [record EXCEPT ![r].due = queue]
     /\ fallbackEvents' = ConsumeFallbackEvents(queue)
     /\ rstage' = [rstage EXCEPT ![r] = "telling"]
     /\ overtaken' = Others(r)

RunGraphOnce(r) ==
  /\ consulting = NoConsultant
  /\ rstage[r] = "idle"
  /\ \E answer \in Consultations : \E v \in VerdictsFor(r, answer) :
       /\ DecideOnceFor(r, "nothing", answer)
       /\ Decided(r, Graph(r, v), FallbacksOf(r, answer))
  /\ UNCHANGED <<model, available, direct, saverFailures, loopingVars>>

(* The saver fails a node's checkpoint.  The provider is asked again, and  *)
(* its decision is neither validated nor acted on.                         *)
DecideWithoutGraph(r) ==
  /\ consulting = NoConsultant
  /\ rstage[r] = "idle"
  /\ saverFailures < MaxSaverFailures
  /\ \E before \in {"nothing"} \union (IF model = "qwen" THEN {"raises", "answers"} ELSE {}) :
       \E answer \in Consultations : \E v \in VerdictsFor(r, answer) :
         /\ DecideOnceFor(r, before, answer)
         /\ Decided(r, WithDecision(InitialState(r), v),
                    FallbacksOf(r, before) \o FallbacksOf(r, answer))
  /\ direct' = direct \union {r}
  /\ saverFailures' = saverFailures + 1
  /\ UNCHANGED <<model, available, loopingVars>>

TellFallback(r) ==
  /\ consulting = NoConsultant
  /\ rstage[r] = "telling"
  /\ record[r].due # <<>>
  /\ record' = [record EXCEPT ![r].fallbacks = Append(@, Head(record[r].due)), ![r].due = Tail(@)]
  /\ UNCHANGED <<model, available, rstage, dstate, direct, fallbackEvents, overtaken,
                 saverFailures, loopingVars, usageVars>>

(* The observations are recorded first, each of them a suspension.         *)
TellDecision(r) ==
  /\ consulting = NoConsultant
  /\ rstage[r] = "telling"
  /\ record[r].due = <<>>
  /\ record' = [record EXCEPT ![r].usage = lastUsage]
  /\ rstage' = [rstage EXCEPT ![r] = "told"]
  /\ UNCHANGED <<model, available, dstate, direct, fallbackEvents, overtaken, saverFailures,
                 loopingVars, usageVars>>

LeaveBeforeDecision(r) ==
  /\ consulting = NoConsultant
  /\ rstage[r] = "telling"
  /\ rstage' = [rstage EXCEPT ![r] = "gone"]
  /\ UNCHANGED <<model, available, graphVars, loopingVars, usageVars>>
----------------------------------------------------------------------------
(* A run that drives the loop                                              *)

BeginLoop(r) ==
  /\ consulting = NoConsultant
  /\ rstage[r] = "idle"
  /\ consulting' = r
  /\ rstage' = [rstage EXCEPT ![r] = "looping"]
  /\ UNCHANGED <<model, available, graphVars, recovers, steps, usageVars>>

Looping(r) == consulting = r /\ Len(steps[r]) < StepLimit

LeaveLoop(r, stage) ==
  /\ consulting' = NoConsultant
  /\ rstage' = [rstage EXCEPT ![r] = stage]

TakeStep(r, by, usage) ==
  steps' = [steps EXCEPT ![r] = Append(@, [by |-> by, usage |-> usage])]

(* The adapter asks the provider itself: what it raises ends the loop.     *)
ProviderFails(r) ==
  /\ Looping(r)
  /\ r \notin recovers
  /\ model = "qwen"
  /\ refused' = [refused EXCEPT ![r] = @ + 1]
  /\ LeaveLoop(r, "failed")
  /\ UNCHANGED <<model, available, graphVars, recovers, steps, invoked, lastUsage, answered>>

(* The provider decides.  What follows: a tool that answers well or        *)
(* poorly, one that needs an approval, no tool, or the end of the loop.    *)
(* A pause is recorded without the usage.                                  *)
ProviderStep(r) ==
  /\ Looping(r)
  /\ r \notin recovers
  /\ IF model = "qwen"
       THEN answered' = [answered EXCEPT ![r] = @ + 1] /\ invoked' = <<r, answered'[r]>>
       ELSE UNCHANGED <<invoked, answered>>
  /\ \/ /\ TakeStep(r, "approval", Zero)
        /\ LeaveLoop(r, "done")
        /\ UNCHANGED recovers
     \/ /\ TakeStep(r, "provider", IF model = "qwen" THEN invoked' ELSE Zero)
        /\ \/ LeaveLoop(r, "done") /\ UNCHANGED recovers
           \/ UNCHANGED <<consulting, rstage>> /\ recovers' \in {recovers, recovers \union {r}}
  /\ UNCHANGED <<model, available, graphVars, lastUsage, refused>>

(* A recovery asks nobody, and is recorded with the usage that the         *)
(* provider reported last.                                                 *)
RecoveryStep(r) ==
  /\ Looping(r)
  /\ r \in recovers
  /\ TakeStep(r, "recovery", IF model = "qwen" THEN invoked ELSE Zero)
  /\ \/ LeaveLoop(r, "done")
     \/ UNCHANGED <<consulting, rstage>>
  /\ UNCHANGED <<model, available, graphVars, recovers, usageVars>>

(* After max_steps, or when the time is up before a step.                  *)
EndLoop(r) ==
  /\ consulting = r
  /\ LeaveLoop(r, "done")
  /\ UNCHANGED <<model, available, graphVars, recovers, steps, usageVars>>

DecisionNext ==
  \/ \E r \in GraphRuns : \/ RunGraphOnce(r) \/ DecideWithoutGraph(r)
                          \/ TellFallback(r) \/ TellDecision(r) \/ LeaveBeforeDecision(r)
  \/ \E r \in LoopRuns : \/ BeginLoop(r) \/ ProviderFails(r) \/ ProviderStep(r)
                         \/ RecoveryStep(r) \/ EndLoop(r)

DecisionSpec == DecisionInit /\ [][DecisionNext]_decisionVars
----------------------------------------------------------------------------
DecisionTypeOK ==
  /\ available \in [DecidingRuns -> {{}, SceneTools}]
  /\ rstage \in [DecidingRuns -> {"idle", "telling", "told", "gone", "looping", "failed", "done"}]
  /\ \A r \in GraphRuns : /\ dstate[r].decision \in Verdicts
                          /\ dstate[r].executed \subseteq available[r]
                          /\ dstate[r].steps \in 0 .. StepLimit
                          /\ record[r].usage \in Usages
  /\ direct \union overtaken \subseteq GraphRuns
  /\ recovers \subseteq LoopRuns
  /\ consulting \in LoopRuns \union {NoConsultant}
  /\ {invoked, lastUsage} \subseteq Usages

(* What is recorded of a decision is of that decision, although the        *)
(* runtime is shared and a run is suspended before it records it.          *)
(* (1) A run records one fallback event per call of its own that failed.   *)
(* (2) The decision agrees with the status beside it, and after a graph    *)
(* with the budget: a call that was decided was charged, once, to a tool   *)
(* of the run; a decision without the graph is charged nothing.            *)
(* (3) The usage is that of the run's latest answer, or zero if the rules  *)
(* decided, unless another graph decided before the event was recorded.    *)
(* (4) A loop's steps name every answer that the run got, but for one that *)
(* led to a pause, and no answer of another run; a recovery names the last *)
(* one again.                                                              *)
FallbacksAreOwn ==
  \A r \in GraphRuns :
    /\ rstage[r] = "told" => Len(record[r].fallbacks) = refused[r]
    /\ \A i \in DOMAIN record[r].fallbacks : record[r].fallbacks[i] = r

StatusAgrees(r) ==
  LET v == dstate[r].decision
      HandedOff == v.action = "handoff" \/ (v.action = "recover" /\ v.next = "handoff" /\ r \notin direct)
  IN dstate[r].status = CASE v.action = "ask_approval" -> "waiting_approval"
                          [] v.action = "final_report" -> "completed"
                          [] HandedOff                 -> "handoff_required"
                          [] OTHER                     -> "running"

BudgetAgrees(r) ==
  LET s == dstate[r]
      charged == StepLimit - s.steps
  IN /\ s.executed = IF s.decision.action = "call_tool" /\ r \notin direct
                        THEN {s.decision.tool} ELSE {}
     /\ {charged, s.weak, Cardinality(available[r]) - s.calls} = {Cardinality(s.executed)}

UsageIsOwn(r) ==
  record[r].usage \in {Zero, <<r, answered[r]>>}
  /\ (record[r].usage = Zero => model = "deterministic" \/ refused[r] > 0)

LoopUsageIsWhole(r) ==
  LET named == {steps[r][i].usage : i \in DOMAIN steps[r]} \ {Zero}
      paused == \E i \in DOMAIN steps[r] : steps[r][i].by = "approval"
  IN named = {<<r, n>> : n \in 1 .. (answered[r] - IF paused /\ model = "qwen" THEN 1 ELSE 0)}

DecisionIsRecorded ==
  /\ FallbacksAreOwn
  /\ \A r \in GraphRuns : rstage[r] \in {"telling", "told"} => StatusAgrees(r) /\ BudgetAgrees(r)
  /\ \A r \in GraphRuns \ overtaken : rstage[r] = "told" => UsageIsOwn(r)
  /\ \A r \in LoopRuns : LoopUsageIsWhole(r)
=============================================================================
