------------------------------ MODULE AgentRun ------------------------------
(***************************************************************************)
(* One agent run as the runtime drives it (AgentRuntime._run_orchestration *)
(* and BoundedReActLoop.run): the plan, the decision of the graph or the   *)
(* bounded loop, the tools, the assessment of what they return, recovery,  *)
(* the five ways to end, and what may come in between: the deadline, a     *)
(* failing call, a cancelled request, a client that goes, a crash, and     *)
(* interventions of an operator.                                           *)
(*                                                                         *)
(* The runtime is an async generator.  Others run only while it is         *)
(* suspended, at a yield or in an await; loop.run and the tools it calls   *)
(* block the event loop.  A step is one statement on the row or the log,   *)
(* one tool execution, or one decision.  Other writers of the row          *)
(* (approvals) are the subject of ApprovalWorkflow.                        *)
(***************************************************************************)
EXTENDS Naturals, Sequences, FiniteSets

CONSTANTS Tools,             \* tools an operator may name
          Modes,             \* the scene configurations to consider
          Providers,         \* the decision providers to consider
          StepLimits,        \* the values of max_steps to consider
          Qualities,         \* what a tool result may be assessed as, or "approval"
          MaxInterventions,  \* bound: interventions of the run
          MaxFaults,         \* bound: failing calls and crashes
          NoTool

ASSUME RunAssumption ==
  /\ Modes \subseteq {"graph", "linear", "loop"}
  /\ Providers \subseteq {"deterministic", "qwen"}
  /\ StepLimits \subseteq Nat \ {0}
  /\ {"error"} \subseteq Qualities
  /\ Qualities \subseteq {"strong", "partial", "weak", "empty", "error", "approval"}
  /\ MaxInterventions \in Nat
  /\ MaxFaults \in Nat
  /\ NoTool \notin Tools
  /\ IsFiniteSet(Tools)

VARIABLES
  \* fixed for the run: decision runtime on (graph), off (linear), or the bounded
  \* loop; the decision provider; the scene's tools; the tools there really are;
  \* the scene's max_steps
  mode, provider, scene, catalog, maxSteps,
  \* the row's status; the log's terminal event; which handler recorded a failure
  status, outcome, cause,
  \* where the runtime is; the tool it is at; the tools still to call; the tools
  \* beyond max_steps; what the tools returned, in order
  phase, current, todo, skipped, evidence,
  \* the bounded loop: steps taken, the decision at hand, consecutive empty
  \* evidence, why it ended
  index, decision, emptyRun, reason,
  \* the interventions the bridge was given, in order
  bridge,
  \* the run's deadline has passed; the client of the stream has gone; a crash or
  \* a failing failure handler; bound
  expired, gone, broken, faults

fixedVars   == <<mode, provider, scene, catalog, maxSteps>>
rowVars     == <<status, outcome, cause>>
toolVars    == <<current, todo, skipped>>
loopVars    == <<index, decision, emptyRun, reason>>
envVars     == <<expired, gone, broken, faults>>
vars == <<fixedVars, rowVars, phase, toolVars, evidence, loopVars, bridge, envVars>>

Statuses == {"running", "waiting_approval", "handoff_required", "completed", "failed",
             "cancelled"}
Outcomes == {"none", "approval_required", "handoff", "final_report", "timeout", "error",
             "cancelled"}

(* looping, acting, reporting: before a step of the loop, after its        *)
(* decision, after the loop.  selecting to assessing: the tools in turn.   *)
(* failing: an exception was caught.  telling: the row is written, the     *)
(* event is not.  told: it is.                                             *)
Phases == {"starting", "planning", "deciding", "looping", "acting", "reporting",
           "selecting", "loading", "choosing", "calling", "executing", "assessing",
           "failing", "telling", "told", "over"}

Actions == {"observe", "call_tool", "ask_approval", "recover", "final_report", "handoff"}
TerminalActions == {"ask_approval", "final_report", "handoff"}
Reasons == TerminalActions \union {"none", "approval_required", "max_steps_reached",
                                   "max_time_seconds_reached"}

Decide(a, t) == [action |-> a, tool |-> t]
DecisionSet == [action : Actions, tool : Tools \union {NoTool}]

(* context: inject_evidence or modify_goal.  replace: replace_tool_call.   *)
(* effects counts how often it took effect (history).                      *)
InterventionSet == [kind : {"context", "replace"}, tool : Tools, applied : BOOLEAN,
                    effects : Nat]

Executed == {evidence[i].tool : i \in DOMAIN evidence}
Latest == evidence[Len(evidence)].quality
Strong == \E i \in DOMAIN evidence : evidence[i].quality = "strong"

(* After the last tool: results that may contradict each other, or tools   *)
(* left out for max_steps.                                                 *)
BudgetExhausted == mode = "graph" /\ skipped # {} /\ ~Strong
MayLackEvidence == BudgetExhausted \/ (mode = "graph" /\ Len(evidence) > 1)

(* The generator is suspended at a yield, so the client may go.  A         *)
(* cancelled run raises instead.                                           *)
AtYield ==
  \/ phase \in {"planning", "deciding", "selecting", "calling", "assessing"}
  \/ phase = "choosing" /\ todo = {} /\ MayLackEvidence
  \/ phase = "reporting" /\ index > 0
  \/ phase = "told" /\ status # "cancelled"

(* The generator awaits, so the request may be cancelled.                  *)
Awaiting == phase \in {"loading", "executing"}
----------------------------------------------------------------------------
Init ==
  /\ mode \in Modes
  /\ provider \in Providers
  /\ scene \in SUBSET Tools
  /\ catalog \in SUBSET Tools
  /\ maxSteps \in StepLimits
  /\ status = "running"
  /\ outcome = "none"
  /\ cause = "none"
  /\ phase = "starting"
  /\ current = NoTool
  /\ todo = {}
  /\ skipped = {}
  /\ evidence = <<>>
  /\ index = 0
  /\ decision = Decide("observe", NoTool)
  /\ emptyRun = 0
  /\ reason = "none"
  /\ bridge = <<>>
  /\ expired = FALSE
  /\ gone = FALSE
  /\ broken = FALSE
  /\ faults = 0
----------------------------------------------------------------------------
(* Ending                                                                  *)

(* update_run with the final status; the event follows.                    *)
Settle(s) ==
  /\ status' = s
  /\ phase' = "telling"
  /\ UNCHANGED <<outcome, cause>>

OutcomeOf(s) ==
  CASE s = "completed"        -> "final_report"
    [] s = "handoff_required" -> "handoff"
    [] s = "waiting_approval" -> "approval_required"
    [] s = "cancelled"        -> "cancelled"
    [] OTHER                  -> cause

(* Mutant: the event is named after the status.                            *)
TellStatus ==
  /\ phase = "telling"
  /\ outcome' = status
  /\ phase' = "told"
  /\ UNCHANGED <<status, cause, fixedVars, toolVars, evidence, loopVars, bridge, envVars>>

Tell ==
  /\ phase = "telling"
  /\ outcome' = OutcomeOf(status)
  /\ phase' = "told"
  /\ UNCHANGED <<status, cause, fixedVars, toolVars, evidence, loopVars, bridge, envVars>>

Return ==
  /\ phase = "told"
  /\ phase' = "over"
  /\ UNCHANGED <<rowVars, fixedVars, toolVars, evidence, loopVars, bridge, envVars>>

(* timeout_event and error_event write "failed" over whatever the row says. *)
MarkFailed ==
  /\ phase = "failing"
  /\ Settle("failed")
  /\ UNCHANGED <<fixedVars, toolVars, evidence, loopVars, bridge, envVars>>
----------------------------------------------------------------------------
(* The plan, and the decision graph                                        *)

Start ==
  /\ phase = "starting"
  /\ phase' = "planning"
  /\ UNCHANGED <<rowVars, fixedVars, toolVars, evidence, loopVars, bridge, envVars>>

Plan ==
  /\ phase = "planning"
  /\ ~expired
  /\ phase' = CASE mode = "graph"  -> "deciding"
                [] mode = "loop"   -> "looping"
                [] mode = "linear" -> "selecting"
  /\ UNCHANGED <<rowVars, fixedVars, toolVars, evidence, loopVars, bridge, envVars>>

(* The graph's decision is recorded and steers nothing: the tools below    *)
(* are called in turn whatever it says.                                    *)
DecideOnce ==
  /\ phase = "deciding"
  /\ phase' = "selecting"
  /\ UNCHANGED <<rowVars, fixedVars, toolVars, evidence, loopVars, bridge, envVars>>
----------------------------------------------------------------------------
(* The tools in turn                                                       *)

(* The first max_steps tools of the scene; a set stands for the list.      *)
SelectTools ==
  /\ phase = "selecting"
  /\ \E S \in SUBSET scene :
       /\ IF Cardinality(scene) <= maxSteps THEN S = scene ELSE Cardinality(S) = maxSteps
       /\ todo' = S
       /\ skipped' = scene \ S
       /\ \/ S = {} /\ Settle("completed")
          \/ S # {} /\ phase' = "loading" /\ UNCHANGED rowVars
  /\ UNCHANGED <<fixedVars, current, evidence, loopVars, bridge, envVars>>

LoadTools ==
  /\ phase = "loading"
  /\ ~expired
  /\ todo' = todo \intersect catalog
  /\ \/ todo' = {} /\ Settle("completed")
     \/ todo' # {} /\ phase' = "choosing" /\ UNCHANGED rowVars
  /\ UNCHANGED <<fixedVars, current, skipped, evidence, loopVars, bridge, envVars>>

(* Mutant: a tool that was called stays in the list.                       *)
CallToolAgain(t) ==
  /\ phase = "choosing"
  /\ ~expired
  /\ t \in todo
  /\ current' = t
  /\ phase' = "calling"
  /\ UNCHANGED <<rowVars, fixedVars, todo, skipped, evidence, loopVars, bridge, envVars>>

CallTool(t) ==
  /\ phase = "choosing"
  /\ ~expired
  /\ t \in todo
  /\ current' = t
  /\ todo' = todo \ {t}
  /\ phase' = "calling"
  /\ UNCHANGED <<rowVars, fixedVars, skipped, evidence, loopVars, bridge, envVars>>

BeginTool ==
  /\ phase = "calling"
  /\ ~expired
  /\ phase' = "executing"
  /\ UNCHANGED <<rowVars, fixedVars, toolVars, evidence, loopVars, bridge, envVars>>

(* A tool that times out, is disabled, forbidden or fails is an "error".   *)
EndTool(q) ==
  /\ phase = "executing"
  /\ evidence' = Append(evidence, [tool |-> current, quality |-> q])
  /\ phase' = "assessing"
  /\ UNCHANGED <<rowVars, fixedVars, toolVars, loopVars, bridge, envVars>>

(* Mutant: after the pause the next tool is called (a missing return).     *)
AssessWithoutReturn ==
  /\ phase = "assessing"
  /\ status' = IF mode = "graph" /\ Latest = "approval" THEN "waiting_approval" ELSE status
  /\ phase' = "choosing"
  /\ UNCHANGED <<outcome, cause, fixedVars, toolVars, evidence, loopVars, bridge, envVars>>

(* Without the decision runtime nothing is assessed.                       *)
Assess ==
  /\ phase = "assessing"
  /\ \/ /\ mode = "graph" /\ Latest = "approval"
        /\ Settle("waiting_approval")
        /\ UNCHANGED todo
     \/ /\ mode = "graph" /\ Latest \in {"empty", "error"}
        /\ Settle("handoff_required")
        /\ UNCHANGED todo
     \/ /\ mode = "graph" /\ Latest = "strong"
        /\ todo' = {}
        /\ phase' = "choosing"
        /\ UNCHANGED rowVars
     \/ /\ mode = "graph" => Latest \in {"partial", "weak"}
        /\ phase' = "choosing"
        /\ UNCHANGED <<rowVars, todo>>
  /\ UNCHANGED <<fixedVars, current, skipped, evidence, loopVars, bridge, envVars>>

(* Mutant: the report does not care for tools that were skipped.           *)
FinishDespiteSkipped ==
  /\ phase = "choosing"
  /\ ~expired
  /\ todo = {}
  /\ Settle("completed")
  /\ UNCHANGED <<fixedVars, toolVars, evidence, loopVars, bridge, envVars>>

(* Several results may name different root causes.                         *)
Finish ==
  /\ phase = "choosing"
  /\ ~expired
  /\ todo = {}
  /\ \/ mode = "graph" /\ Len(evidence) > 1 /\ Settle("handoff_required")
     \/ BudgetExhausted /\ Settle("handoff_required")
     \/ ~BudgetExhausted /\ Settle("completed")
  /\ UNCHANGED <<fixedVars, toolVars, evidence, loopVars, bridge, envVars>>
----------------------------------------------------------------------------
(* The bounded loop                                                        *)

ChooseStrategy(quality, failures, available) ==
  CASE quality = "strong" -> "continue"
    [] quality \in {"partial", "weak"} ->
         IF available THEN "try_alternative" ELSE "downgrade_report"
    [] quality = "empty" /\ available /\ failures = 0 -> "retry_same_tool"
    [] quality = "empty" /\ available /\ failures = 1 -> "downgrade_report"
    [] quality = "error" /\ available /\ failures = 0 -> "try_alternative"
    [] OTHER -> "handoff"

(* Mutant: only empty evidence counts, an error does not.                  *)
RequiresRecoveryIfEmpty == emptyRun > 0

RequiresRecovery == emptyRun > 0 \/ (evidence # <<>> /\ Latest # "strong")

(* Every plan but these three becomes a step that calls nothing.           *)
RecoveryDecision(strategy) ==
  Decide(CASE strategy = "handoff"          -> "handoff"
           [] strategy = "downgrade_report" -> "final_report"
           [] OTHER                         -> "recover", NoTool)

DeterministicDecisions ==
  IF scene = {} THEN {Decide("handoff", NoTool)}
  ELSE IF Strong THEN {Decide("final_report", NoTool)}
  ELSE IF emptyRun >= 2 THEN {Decide("recover", NoTool)}
  ELSE IF scene \ Executed # {}
         THEN {Decide("call_tool", t) : t \in scene \ Executed}
         ELSE {Decide("handoff", NoTool)}

(* Mutant: the tool the model names is not checked.                        *)
QwenDecisionsUnchecked ==
  {Decide(a, NoTool) : a \in Actions} \union {Decide("call_tool", t) : t \in Tools}

(* An answer of the model that is not well formed, or that names a tool    *)
(* outside the scene, is turned into "recover".                            *)
QwenDecisions ==
  {Decide(a, NoTool) : a \in Actions} \union {Decide("call_tool", t) : t \in scene}

Strategy ==
  ChooseStrategy(IF evidence = <<>> THEN "empty" ELSE Latest, emptyRun,
                 scene \ Executed # {})

Recovers == RequiresRecovery /\ Strategy # "continue"

NextDecisions ==
  IF Recovers THEN {RecoveryDecision(Strategy)}
  ELSE IF provider = "qwen" THEN QwenDecisions ELSE DeterministicDecisions

Pending(kind) == {i \in DOMAIN bridge : bridge[i].kind = kind /\ ~bridge[i].applied}

(* Mutant: what was applied is not marked as applied.                      *)
ApplyUnmarked(given) ==
  bridge' = [i \in DOMAIN bridge |->
               IF i \in given THEN [bridge[i] EXCEPT !.effects = @ + 1] ELSE bridge[i]]

Apply(given) ==
  bridge' = [i \in DOMAIN bridge |->
               IF i \in given THEN [bridge[i] EXCEPT !.applied = TRUE, !.effects = @ + 1]
                              ELSE bridge[i]]

(* The last of several replacements wins; only the tool is replaced, not   *)
(* the action.                                                             *)
Take(d) ==
  LET replacing == Pending("replace")
  IN \/ replacing = {} /\ decision' = d
     \/ \E i \in replacing : /\ \A j \in replacing : j <= i
                             /\ decision' = [d EXCEPT !.tool = bridge[i].tool]

LoopDecide ==
  /\ phase = "looping"
  /\ index < maxSteps
  /\ \E d \in NextDecisions : Take(d)
  /\ Apply(Pending("context") \union Pending("replace"))
  /\ phase' = "acting"
  /\ UNCHANGED <<rowVars, fixedVars, toolVars, evidence, index, emptyRun, reason, envVars>>

(* An exception in the loop ends the run.                                  *)
LoopFails ==
  /\ phase = "looping"
  /\ index < maxSteps
  /\ faults < MaxFaults
  /\ faults' = faults + 1
  /\ cause' = "error"
  /\ phase' = "failing"
  /\ UNCHANGED <<status, outcome, fixedVars, toolVars, evidence, loopVars, expired, gone,
                 broken>>

(* The loop is built without a fallback provider.                          *)
ProviderFails ==
  /\ provider = "qwen"
  /\ ~Recovers
  /\ LoopFails
  /\ Apply(Pending("context"))

(* An intervention of a payload that cannot be injected raises; those      *)
(* before it have been applied.                                            *)
InterventionFails ==
  /\ LoopFails
  /\ \E i \in Pending("context") : Apply({j \in Pending("context") : j < i})

CallsTool == decision.action = "call_tool" /\ decision.tool # NoTool

(* A tool that is not in the catalogue is an error without a call.         *)
LoopAct ==
  /\ phase = "acting"
  /\ CallsTool
  /\ decision.tool \in catalog => ~expired
  /\ \E q \in IF decision.tool \in catalog THEN Qualities ELSE {"error"} :
       /\ evidence' = Append(evidence, [tool |-> decision.tool, quality |-> q])
       /\ emptyRun' = IF q = "empty" THEN emptyRun + 1 ELSE 0
       /\ \/ q = "approval" /\ reason' = "approval_required" /\ phase' = "reporting"
          \/ q # "approval" /\ phase' = "looping" /\ UNCHANGED reason
  /\ index' = index + 1
  /\ UNCHANGED <<rowVars, fixedVars, toolVars, decision, bridge, envVars>>

LoopNote ==
  /\ phase = "acting"
  /\ ~CallsTool
  /\ index' = index + 1
  /\ \/ /\ decision.action \in TerminalActions
        /\ reason' = decision.action
        /\ phase' = "reporting"
     \/ /\ decision.action \notin TerminalActions
        /\ phase' = "looping"
        /\ UNCHANGED reason
  /\ UNCHANGED <<rowVars, fixedVars, toolVars, evidence, decision, emptyRun, bridge,
                 envVars>>

(* The clock of the loop starts after the run's and ends at its deadline   *)
(* or a little later.                                                      *)
LoopEnds ==
  /\ phase = "looping"
  /\ \/ index = maxSteps /\ reason' = "max_steps_reached"
     \/ index < maxSteps /\ expired /\ reason' = "max_time_seconds_reached"
  /\ phase' = "reporting"
  /\ UNCHANGED <<rowVars, fixedVars, toolVars, evidence, index, decision, emptyRun,
                 bridge, envVars>>

(* The decisions are recorded; every other reason leads to the report.     *)
LoopReport ==
  /\ phase = "reporting"
  /\ Settle(CASE reason = "approval_required" -> "waiting_approval"
              [] reason = "handoff"           -> "handoff_required"
              [] OTHER                        -> "completed")
  /\ UNCHANGED <<fixedVars, toolVars, evidence, loopVars, bridge, envVars>>
----------------------------------------------------------------------------
(* What may come in between                                                *)

Expire ==
  /\ ~expired
  /\ phase # "over"
  /\ expired' = TRUE
  /\ UNCHANGED <<rowVars, phase, fixedVars, toolVars, evidence, loopVars, bridge, gone,
                 broken, faults>>

(* Mutant: the deadline is not looked at once a tool has been chosen.      *)
TimesOutBetweenTools ==
  /\ expired
  /\ phase \in {"planning", "loading", "choosing"}
  /\ cause' = "timeout"
  /\ phase' = "failing"
  /\ UNCHANGED <<status, outcome, fixedVars, toolVars, evidence, loopVars, bridge,
                 envVars>>

TimesOut ==
  /\ expired
  /\ \/ phase \in {"planning", "loading", "choosing", "calling"}
     \/ phase = "acting" /\ CallsTool /\ decision.tool \in catalog
  /\ cause' = "timeout"
  /\ phase' = "failing"
  /\ UNCHANGED <<status, outcome, fixedVars, toolVars, evidence, loopVars, bridge,
                 envVars>>

(* A statement, the graph or the catalogue raises.  Once a failure or a    *)
(* cancellation is being recorded nothing catches a second one: Break.     *)
StepFails ==
  /\ faults < MaxFaults
  /\ phase \in {"starting", "planning", "deciding", "acting", "reporting", "selecting",
                "loading", "choosing", "executing", "assessing", "telling"}
  /\ phase = "telling" => status \notin {"failed", "cancelled"}
  /\ phase = "acting" => CallsTool
  /\ faults' = faults + 1
  /\ cause' = "error"
  /\ phase' = "failing"
  /\ UNCHANGED <<status, outcome, fixedVars, toolVars, evidence, loopVars, bridge,
                 expired, gone, broken>>

(* mark_cancelled, and the exception goes on to the caller.                *)
Cancel ==
  /\ Awaiting
  /\ Settle("cancelled")
  /\ UNCHANGED <<fixedVars, toolVars, evidence, loopVars, bridge, envVars>>

(* Mutant: the run of a client that went is marked as cancelled, whatever  *)
(* its status.                                                             *)
DisconnectCancels ==
  /\ AtYield
  /\ status' = "cancelled"
  /\ gone' = TRUE
  /\ phase' = "over"
  /\ UNCHANGED <<outcome, cause, fixedVars, toolVars, evidence, loopVars, bridge,
                 expired, broken, faults>>

(* GeneratorExit at a yield: none of the handlers of the runtime sees it.  *)
Disconnect ==
  /\ AtYield
  /\ gone' = TRUE
  /\ phase' = "over"
  /\ UNCHANGED <<rowVars, fixedVars, toolVars, evidence, loopVars, bridge, expired,
                 broken, faults>>

Break ==
  /\ phase # "over"
  /\ faults < MaxFaults
  /\ faults' = faults + 1
  /\ broken' = TRUE
  /\ phase' = "over"
  /\ UNCHANGED <<rowVars, fixedVars, toolVars, evidence, loopVars, bridge, expired,
                 gone>>

(* POST /agent/runs/{run_id}/intervene, served while the generator is      *)
(* suspended or after it returned.                                         *)
Intervene(kind, t) ==
  /\ Len(bridge) < MaxInterventions
  /\ AtYield \/ Awaiting \/ phase = "over"
  /\ status \in {"running", "waiting_approval"}
  /\ bridge' = Append(bridge, [kind |-> kind, tool |-> t, applied |-> FALSE,
                              effects |-> 0])
  /\ UNCHANGED <<rowVars, phase, fixedVars, toolVars, evidence, loopVars, envVars>>
----------------------------------------------------------------------------
Runtime ==
  \/ Start \/ Plan \/ DecideOnce \/ SelectTools \/ LoadTools
  \/ \E t \in Tools : CallTool(t)
  \/ BeginTool
  \/ \E q \in Qualities : EndTool(q)
  \/ Assess \/ Finish
  \/ LoopDecide \/ LoopAct \/ LoopNote \/ LoopEnds \/ LoopReport
  \/ MarkFailed \/ Tell \/ Return \/ TimesOut

Environment ==
  \/ Expire \/ ProviderFails \/ InterventionFails \/ StepFails \/ Cancel \/ Disconnect \/ Break
  \/ \E kind \in {"context", "replace"}, t \in Tools : Intervene(kind, t)

Next == Runtime \/ Environment

Spec == Init /\ [][Next]_vars

(* The runtime is a coroutine whose awaits are bounded by wait_for; in the *)
(* loop the catalogue is asked without a timeout, and is assumed to answer. *)
FairSpec == Spec /\ WF_vars(Runtime)
----------------------------------------------------------------------------
(* Properties                                                              *)

(* Every variable keeps its type.                                          *)
TypeOK ==
  /\ mode \in Modes
  /\ provider \in Providers
  /\ scene \in SUBSET Tools
  /\ catalog \in SUBSET Tools
  /\ maxSteps \in StepLimits
  /\ status \in Statuses
  /\ outcome \in Outcomes
  /\ cause \in {"none", "timeout", "error"}
  /\ phase \in Phases
  /\ current \in Tools \union {NoTool}
  /\ phase \in {"calling", "executing"} => current \in Tools
  /\ todo \in SUBSET Tools
  /\ skipped \in SUBSET Tools
  /\ evidence \in Seq([tool : Tools, quality : Qualities])
  /\ index \in 0 .. maxSteps
  /\ phase = "acting" => index < maxSteps
  /\ decision \in DecisionSet
  /\ emptyRun \in Nat
  /\ reason \in Reasons
  /\ bridge \in Seq(InterventionSet)
  /\ expired \in BOOLEAN
  /\ gone \in BOOLEAN
  /\ broken \in BOOLEAN
  /\ faults \in 0 .. MaxFaults

(* The run as those see it who approve its tools: where it is by what its  *)
(* row and its log say.  The loop's tools are not in the log.              *)
Asking == evidence # <<>> /\ Latest = "approval" /\ mode # "linear"
Underway == current \in Tools \ Executed

PhaseSeen ==
  IF phase \in {"told", "over"} \/ status \in {"failed", "cancelled"} THEN "over"
  ELSE IF status # "running"
         THEN IF status = "waiting_approval" THEN "pausing" ELSE "ending"
  ELSE IF Asking THEN "blocked" ELSE IF Underway THEN "calling" ELSE "choosing"

ToolSeen ==
  CASE PhaseSeen = "calling"                -> current
    [] PhaseSeen \in {"blocked", "pausing"} -> evidence[Len(evidence)].tool
    [] OTHER                                -> NoTool

CallsSeen == IF mode = "loop" THEN {} ELSE (Executed \union {current}) \ {NoTool}
BlockedSeen ==
  {t \in CallsSeen :
     \E i \in DOMAIN evidence : evidence[i] = [tool |-> t, quality |-> "approval"]}
AskedSeen == IF outcome = "approval_required" THEN {evidence[Len(evidence)].tool} ELSE {}

Approvals == INSTANCE ApprovalWorkflow WITH
  Requests <- {}, Workers <- {}, Backends <- {"redis"}, Kept <- {FALSE}, Attempts <- 1,
  CallTries <- 1, MaxRequests <- 0,
  backend <- "redis", checkpoint <- FALSE,
  runStatus <- status, phase <- PhaseSeen, current <- ToolSeen, cancelled <- status = "cancelled",
  called <- CallsSeen, pending <- BlockedSeen, late <- {}, asked <- AskedSeen,
  decisions <- [t \in Tools |-> <<>>], resumes <- [t \in Tools |-> <<>>],
  reported <- {}, results <- {}, queue <- <<>>,
  astate <- [a \in {} |-> "free"], subject <- [a \in {} |-> NoTool],
  wish <- [a \in {} |-> "none"], expiring <- [a \in {} |-> {}], note <- [a \in {} |-> "none"],
  effort <- [a \in {} |-> 0], invoked <- [t \in Tools |-> <<>>],
  extra <- [t \in Tools |-> 0], raced <- {}, lost <- {}, arrivals <- 0, faults <- 0

(* The row and the log of the run follow RunLifecycle: row first, then the *)
(* event, a failure in between turns both, and whoever lets go of the run  *)
(* leaves them in agreement.  And what they show of its tools is what      *)
(* ApprovalWorkflow says of the runtime.  Violated if one of the many ends *)
(* of _run_orchestration forgets its event, writes the row twice, or       *)
(* cleans up after a client that has gone, or if a run goes on after a     *)
(* tool that needs approval.                                               *)
Lifecycle == INSTANCE RunLifecycle WITH open <- phase # "over"
LifecycleSpec == Lifecycle!Spec /\ Approvals!Spec

(* With the decision runtime no tool is called on top of a failed or empty *)
(* result: the graph path hands off, the loop only recovers, hands off or  *)
(* reports.  (In particular "try_alternative" never tries one.)            *)
NoCallOnBadEvidence ==
  [][mode # "linear" /\ evidence' # evidence
       => evidence = <<>> \/ Latest \notin {"empty", "error"}]_vars

(* Tools run only while the row says "running": a pause, a hand-off, a     *)
(* report or a failure is the last thing a run does.                       *)
ToolsOnlyWhileRunning == [][evidence' # evidence => status = "running"]_vars

(* In the graph path a run is completed only on results that are neither   *)
(* failed nor empty, and if tools were skipped for max_steps only with     *)
(* strong evidence, unless no tool could be called at all.                 *)
CompletedIsGrounded ==
  mode = "graph" /\ status = "completed" =>
    /\ \A i \in DOMAIN evidence : evidence[i].quality \notin {"empty", "error", "approval"}
    /\ skipped # {} /\ evidence # <<>> => Strong

(* The loop gets no result from a tool outside the scene but by an         *)
(* operator's replacement.                                                 *)
OutsideOnlyByOperator ==
  \A t \in Executed \ scene :
    \E i \in DOMAIN bridge :
      bridge[i].kind = "replace" /\ bridge[i].tool = t /\ bridge[i].applied

(* An intervention takes effect at most once, and those of one kind in the *)
(* order in which they were given.                                         *)
InterventionsOnceInOrder ==
  \A i, j \in DOMAIN bridge :
    /\ bridge[i].effects <= 1
    /\ i < j /\ bridge[i].kind = bridge[j].kind => bridge[j].effects <= bridge[i].effects

(* A run leaves "running", however its tools, its provider and its         *)
(* operators behave, unless its client goes or its process dies.           *)
RunSettles == <>(status # "running" \/ gone \/ broken)

(* with_decision gives a decision "ask_approval" the status                *)
(* waiting_approval (decision.py:222): the run it ends is not reported as  *)
(* completed.                                                              *)
AskApprovalPauses == reason = "ask_approval" => status # "completed"

(* An intervention that was accepted while the run was running has been    *)
(* applied when the run has ended (docs/architecture.md:161).              *)
InterventionsAreApplied ==
  phase = "over" /\ ~gone /\ ~broken => \A i \in DOMAIN bridge : bridge[i].applied
=============================================================================
