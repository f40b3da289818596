--------------------------- MODULE AgentRunProofs ---------------------------
(***************************************************************************)
(* Theorems about AgentRun, for any tools, scenes, catalogues and step     *)
(* limits and any bounds: its types, its refinement of RunLifecycle, the   *)
(* safety properties of tools, evidence and interventions, and its         *)
(* refinement of the runtime of ApprovalWorkflow.                          *)
(***************************************************************************)
EXTENDS AgentRun, TLAPS

LEMMA LimitsAreNaturals ==
  /\ StepLimits \subseteq Nat \ {0}
  /\ Qualities \subseteq {"strong", "partial", "weak", "empty", "error", "approval"}
  /\ "error" \in Qualities
  /\ NoTool \notin Tools
  BY RunAssumption
----------------------------------------------------------------------------
(* Types                                                                   *)

LEMMA DecisionsTyped ==
  ASSUME TypeOK
  PROVE  NextDecisions \subseteq DecisionSet
<1>1. RecoveryDecision(Strategy) \in DecisionSet
  <2>1. /\ Decide("handoff", NoTool) \in DecisionSet
        /\ Decide("final_report", NoTool) \in DecisionSet
        /\ Decide("recover", NoTool) \in DecisionSet
    BY DEF Decide, DecisionSet, Actions
  <2>. QED
    BY <2>1, Zenon DEF RecoveryDecision, Decide
<1>2. QwenDecisions \subseteq DecisionSet
  BY DEF QwenDecisions, Decide, DecisionSet, Actions, TypeOK
<1>3. DeterministicDecisions \subseteq DecisionSet
  BY DEF DeterministicDecisions, Decide, DecisionSet, Actions, TypeOK
<1>. QED
  BY <1>1, <1>2, <1>3 DEF NextDecisions

LEMMA TakeTyped ==
  ASSUME TypeOK, NEW d \in DecisionSet, Take(d)
  PROVE  /\ decision' \in DecisionSet
         /\ decision'.action = d.action
         /\ \/ decision' = d
            \/ \E i \in Pending("replace") : decision'.tool = bridge[i].tool
<1>1. CASE decision' = d
  BY <1>1
<1>2. ASSUME NEW i \in Pending("replace"), decision' = [d EXCEPT !.tool = bridge[i].tool]
      PROVE  /\ decision' \in DecisionSet
             /\ decision'.action = d.action
             /\ decision'.tool = bridge[i].tool
  <2>1. bridge[i].tool \in Tools
    <3>1. i \in DOMAIN bridge
      BY Zenon DEF Pending
    <3>2. bridge[i] \in InterventionSet
      BY <3>1 DEF TypeOK
    <3>. QED
      BY <3>2 DEF InterventionSet
  <2>2. decision' = [action |-> d.action, tool |-> bridge[i].tool]
    BY <1>2 DEF DecisionSet
  <2>3. d.action \in Actions
    BY DEF DecisionSet
  <2>. QED
    BY <2>1, <2>2, <2>3 DEF DecisionSet
<1>. QED
  BY <1>1, <1>2 DEF Take

LEMMA ApplyTyped ==
  ASSUME bridge \in Seq(InterventionSet), NEW given, Apply(given)
  PROVE  /\ bridge' \in Seq(InterventionSet)
         /\ DOMAIN bridge' = DOMAIN bridge
         /\ \A i \in DOMAIN bridge :
              /\ bridge'[i].kind = bridge[i].kind
              /\ bridge'[i].tool = bridge[i].tool
              /\ bridge'[i].applied <=> bridge[i].applied \/ i \in given
              /\ i \in given => bridge'[i].effects = bridge[i].effects + 1
              /\ i \notin given => bridge'[i].effects = bridge[i].effects
<1>1. ASSUME NEW i \in DOMAIN bridge
      PROVE  /\ bridge'[i] \in InterventionSet
             /\ bridge'[i].kind = bridge[i].kind
             /\ bridge'[i].tool = bridge[i].tool
             /\ bridge'[i].applied <=> bridge[i].applied \/ i \in given
             /\ i \in given => bridge'[i].effects = bridge[i].effects + 1
             /\ i \notin given => bridge'[i].effects = bridge[i].effects
  <2>1. bridge[i] \in InterventionSet
    OBVIOUS
  <2>2. bridge'[i] = IF i \in given THEN [bridge[i] EXCEPT !.applied = TRUE, !.effects = @ + 1]
                                    ELSE bridge[i]
    BY DEF Apply
  <2>3. CASE i \in given
    <3>1. bridge'[i] = [kind |-> bridge[i].kind, tool |-> bridge[i].tool, applied |-> TRUE,
                        effects |-> bridge[i].effects + 1]
      BY <2>1, <2>2, <2>3 DEF InterventionSet
    <3>2. /\ bridge[i].kind \in {"context", "replace"}
          /\ bridge[i].tool \in Tools
          /\ bridge[i].effects \in Nat
      BY <2>1 DEF InterventionSet
    <3>3. bridge'[i] \in InterventionSet
      BY <3>1, <3>2 DEF InterventionSet
    <3>. QED
      BY <2>3, <3>1, <3>3
  <2>4. CASE i \notin given
    BY <2>1, <2>2, <2>4
  <2>. QED
    BY <2>3, <2>4
<1>2. DOMAIN bridge' = DOMAIN bridge
  BY DEF Apply
<1>3. bridge' \in Seq(InterventionSet)
  <2>1. Len(bridge) \in Nat /\ DOMAIN bridge = 1 .. Len(bridge)
    OBVIOUS
  <2>2. bridge' \in [1 .. Len(bridge) -> InterventionSet]
    BY <1>1, <1>2, <2>1 DEF Apply
  <2>. QED
    BY <2>1, <2>2
<1>. QED
  BY <1>1, <1>2, <1>3

LEMMA TypeStep ==
  ASSUME TypeOK, [Next]_vars
  PROVE  TypeOK'
<1> USE LimitsAreNaturals DEF Statuses, Outcomes, Phases, Reasons, TerminalActions
<1>a. /\ evidence \in Seq([tool : Tools, quality : Qualities])
      /\ maxSteps \in Nat /\ emptyRun \in Nat /\ index \in 0 .. maxSteps
  BY DEF TypeOK
<1>1. CASE Start
  BY <1>1 DEF TypeOK, Start, rowVars, fixedVars, toolVars, loopVars, envVars
<1>2. CASE Plan
  BY <1>2, RunAssumption DEF TypeOK, Plan, rowVars, fixedVars, toolVars, loopVars, envVars
<1>3. CASE DecideOnce
  BY <1>3 DEF TypeOK, DecideOnce, rowVars, fixedVars, toolVars, loopVars, envVars
<1>4. CASE SelectTools
  BY <1>4 DEF TypeOK, SelectTools, Settle, rowVars, fixedVars, toolVars, loopVars, envVars
<1>5. CASE LoadTools
  BY <1>5 DEF TypeOK, LoadTools, Settle, rowVars, fixedVars, toolVars, loopVars, envVars
<1>6. ASSUME NEW t \in Tools, CallTool(t) PROVE TypeOK'
  BY <1>6 DEF TypeOK, CallTool, rowVars, fixedVars, toolVars, loopVars, envVars
<1>7. CASE BeginTool
  BY <1>7 DEF TypeOK, BeginTool, rowVars, fixedVars, toolVars, loopVars, envVars
<1>8. ASSUME NEW q \in Qualities, EndTool(q) PROVE TypeOK'
  BY <1>8 DEF TypeOK, EndTool, rowVars, fixedVars, toolVars, loopVars, envVars
<1>9. CASE Assess
  BY <1>9 DEF TypeOK, Assess, Settle, rowVars, fixedVars, toolVars, loopVars, envVars
<1>10. CASE Finish
  BY <1>10 DEF TypeOK, Finish, Settle, rowVars, fixedVars, toolVars, loopVars, envVars
<1>11. CASE LoopDecide
  <2>1. decision' \in DecisionSet
    BY <1>11, DecisionsTyped, TakeTyped DEF LoopDecide
  <2>2. bridge' \in Seq(InterventionSet)
    BY <1>11, ApplyTyped DEF LoopDecide, TypeOK
  <2>. QED
    BY <1>11, <2>1, <2>2 DEF TypeOK, LoopDecide, rowVars, fixedVars, toolVars, envVars
<1>12. CASE LoopAct
  <2>1. decision.tool \in Tools
    BY <1>12 DEF LoopAct, CallsTool, TypeOK, DecisionSet
  <2>2. PICK q \in Qualities :
           /\ evidence' = Append(evidence, [tool |-> decision.tool, quality |-> q])
           /\ emptyRun' = IF q = "empty" THEN emptyRun + 1 ELSE 0
           /\ \/ q = "approval" /\ reason' = "approval_required" /\ phase' = "reporting"
              \/ q # "approval" /\ phase' = "looping" /\ UNCHANGED reason
    BY <1>12 DEF LoopAct
  <2>3. evidence' \in Seq([tool : Tools, quality : Qualities])
    BY <2>1, <2>2, <1>a
  <2>4. index' \in 0 .. maxSteps
    BY <1>12, <1>a DEF LoopAct, TypeOK
  <2>. QED
    BY <1>12, <1>a, <2>2, <2>3, <2>4 DEF TypeOK, LoopAct, rowVars, fixedVars, toolVars, envVars
<1>13. CASE LoopNote
  <2>1. index' \in 0 .. maxSteps
    BY <1>13, <1>a DEF LoopNote, TypeOK
  <2>. QED
    BY <1>13, <2>1 DEF TypeOK, LoopNote, rowVars, fixedVars, toolVars, envVars
<1>14. CASE LoopEnds
  BY <1>14 DEF TypeOK, LoopEnds, rowVars, fixedVars, toolVars, envVars
<1>15. CASE LoopReport
  BY <1>15 DEF TypeOK, LoopReport, Settle, rowVars, fixedVars, toolVars, loopVars, envVars
<1>16. CASE MarkFailed
  BY <1>16 DEF TypeOK, MarkFailed, Settle, rowVars, fixedVars, toolVars, loopVars, envVars
<1>17. CASE Tell
  BY <1>17 DEF TypeOK, Tell, OutcomeOf, fixedVars, toolVars, loopVars, envVars
<1>18. CASE Return
  BY <1>18 DEF TypeOK, Return, rowVars, fixedVars, toolVars, loopVars, envVars
<1>19. CASE TimesOut
  BY <1>19 DEF TypeOK, TimesOut, fixedVars, toolVars, loopVars, envVars
<1>20. CASE Expire
  BY <1>20 DEF TypeOK, Expire, rowVars, fixedVars, toolVars, loopVars
<1>21. CASE ProviderFails \/ InterventionFails
  <2>1. bridge' \in Seq(InterventionSet)
    BY <1>21, ApplyTyped DEF ProviderFails, InterventionFails, TypeOK
  <2>2. LoopFails
    BY <1>21 DEF ProviderFails, InterventionFails
  <2>. QED
    BY <2>1, <2>2, RunAssumption DEF TypeOK, LoopFails, fixedVars, toolVars, loopVars
<1>22. CASE StepFails
  BY <1>22, RunAssumption DEF TypeOK, StepFails, fixedVars, toolVars, loopVars
<1>23. CASE Cancel
  BY <1>23 DEF TypeOK, Cancel, Settle, rowVars, fixedVars, toolVars, loopVars, envVars
<1>24. CASE Disconnect
  BY <1>24 DEF TypeOK, Disconnect, rowVars, fixedVars, toolVars, loopVars
<1>25. CASE Break
  BY <1>25, RunAssumption DEF TypeOK, Break, rowVars, fixedVars, toolVars, loopVars
<1>26. ASSUME NEW kind \in {"context", "replace"}, NEW t \in Tools, Intervene(kind, t)
       PROVE  TypeOK'
  <2>1. [kind |-> kind, tool |-> t, applied |-> FALSE, effects |-> 0] \in InterventionSet
    BY DEF InterventionSet
  <2>2. bridge' \in Seq(InterventionSet)
    BY <1>26, <2>1 DEF Intervene, TypeOK
  <2>. QED
    BY <1>26, <2>2 DEF TypeOK, Intervene, rowVars, fixedVars, toolVars, loopVars, envVars
<1>27. CASE UNCHANGED vars
  BY <1>27 DEF TypeOK, vars, rowVars, fixedVars, toolVars, loopVars, envVars
<1>. QED
  BY <1>1, <1>2, <1>3, <1>4, <1>5, <1>6, <1>7, <1>8, <1>9, <1>10, <1>11, <1>12, <1>13, <1>14,
     <1>15, <1>16, <1>17, <1>18, <1>19, <1>20, <1>21, <1>22, <1>23, <1>24, <1>25, <1>26, <1>27
     DEF Next, Runtime, Environment

(* Every variable of the run keeps its type; in particular the loop never  *)
(* takes more than max_steps steps (loop.py, range(budget.max_steps)).     *)
THEOREM TypeCorrect == Spec => []TypeOK
<1>1. ASSUME Init PROVE TypeOK
  <2>1. decision \in DecisionSet
    BY <1>1 DEF Init, Decide, DecisionSet, Actions
  <2>2. evidence \in Seq([tool : Tools, quality : Qualities]) /\ bridge \in Seq(InterventionSet)
    BY <1>1 DEF Init
  <2>3. index \in 0 .. maxSteps /\ emptyRun \in Nat /\ faults \in 0 .. MaxFaults
    BY <1>1, RunAssumption DEF Init
  <2>. QED
    BY <1>1, <2>1, <2>2, <2>3
       DEF Init, TypeOK, Statuses, Outcomes, Phases, Reasons
<1>. QED
  BY <1>1, TypeStep, PTL DEF Spec

(* Only these two steps add a result.                                      *)
LEMMA EvidenceGrows ==
  ASSUME [Next]_vars, evidence' # evidence
  PROVE  LoopAct \/ \E q \in Qualities : EndTool(q)
  BY DEF Next, Runtime, Environment, vars, Start, Plan, DecideOnce, SelectTools, LoadTools,
         CallTool, BeginTool, Assess, Finish, LoopDecide, LoopNote, LoopEnds, LoopReport,
         MarkFailed, Tell, Return, TimesOut, Expire, ProviderFails, InterventionFails, LoopFails,
         StepFails, Cancel, Disconnect, Break, Intervene
----------------------------------------------------------------------------
(* The row and the log                                                     *)

(* What the row and the log say in each phase.                             *)
RowInv ==
  /\ phase \notin {"failing", "telling", "told", "over"} => status = "running" /\ outcome = "none"
  /\ phase = "failing" => outcome = "none" /\ cause \in {"timeout", "error"}
  /\ phase = "telling" => /\ status \in Lifecycle!Settled
                          /\ outcome = "none"
                          /\ status = "failed" => cause \in {"timeout", "error"}
  /\ phase = "told" => outcome \in Lifecycle!OutcomesOf(status)

(* A step of AgentRun is a step of RunLifecycle or a stutter.              *)
LEMMA RowStep ==
  ASSUME TypeOK, RowInv, [Next]_vars
  PROVE  RowInv' /\ [Lifecycle!Next]_(Lifecycle!runLifecycleVars)
<1> USE DEF RowInv, Lifecycle!Settled, Phases
<1> DEFINE Ready == phase' \notin {"failing", "telling", "told", "over"}
<1>1. ASSUME phase \notin {"failing", "telling", "told", "over"}, Ready,
             UNCHANGED <<status, outcome, broken>>
      PROVE  RowInv' /\ [Lifecycle!Next]_(Lifecycle!runLifecycleVars)
  BY <1>1 DEF Lifecycle!runLifecycleVars
<1>2. ASSUME NEW s \in Lifecycle!Settled, Settle(s), UNCHANGED broken,
             phase \notin {"failing", "telling", "told", "over"}, s # "failed"
      PROVE  RowInv' /\ [Lifecycle!Next]_(Lifecycle!runLifecycleVars)
  BY <1>2 DEF Settle, Lifecycle!Next, Lifecycle!Settle
<1>3. ASSUME phase \notin {"told", "over"}, phase = "telling" => status # "failed",
             phase # "failing", phase' = "failing", cause' \in {"timeout", "error"},
             UNCHANGED <<status, outcome, broken>>
      PROVE  RowInv' /\ [Lifecycle!Next]_(Lifecycle!runLifecycleVars)
  BY <1>3 DEF Lifecycle!runLifecycleVars
<1>4. CASE MarkFailed
  BY <1>4 DEF MarkFailed, Settle, envVars, Lifecycle!Next, Lifecycle!Fail
<1>5. CASE Tell
  <2>1. outcome' \in Lifecycle!OutcomesOf(status)
    BY <1>5 DEF Tell, OutcomeOf, Lifecycle!OutcomesOf
  <2>. QED
    BY <1>5, <2>1 DEF Tell, envVars, Lifecycle!Next, Lifecycle!Tell
<1>6. CASE Return
  BY <1>6 DEF Return, rowVars, envVars, Lifecycle!Next, Lifecycle!LetGo, Lifecycle!Told
<1>7. CASE Disconnect
  <2>1. Lifecycle!Told
    BY <1>7 DEF Disconnect, AtYield, Lifecycle!Told, Lifecycle!OutcomesOf
  <2>. QED
    BY <1>7, <2>1 DEF Disconnect, AtYield, rowVars, Lifecycle!Next, Lifecycle!LetGo
<1>8. CASE Break
  BY <1>8 DEF Break, rowVars, Lifecycle!Next, Lifecycle!Break
<1>9. ASSUME UNCHANGED <<status, outcome, cause, broken, phase>>
      PROVE  RowInv' /\ [Lifecycle!Next]_(Lifecycle!runLifecycleVars)
  BY <1>9 DEF Lifecycle!runLifecycleVars
<1>10. CASE Start \/ DecideOnce \/ BeginTool \/ LoopDecide \/ LoopAct \/ LoopNote \/ LoopEnds
  BY <1>1, <1>10 DEF Start, DecideOnce, BeginTool, LoopDecide, LoopAct, LoopNote, LoopEnds,
                     rowVars, envVars
<1>11. CASE Plan
  BY <1>1, <1>11, RunAssumption DEF Plan, rowVars, envVars, TypeOK
<1>12. ASSUME NEW t \in Tools, CallTool(t)
       PROVE  RowInv' /\ [Lifecycle!Next]_(Lifecycle!runLifecycleVars)
  BY <1>1, <1>12 DEF CallTool, rowVars, envVars
<1>13. ASSUME NEW q \in Qualities, EndTool(q)
       PROVE  RowInv' /\ [Lifecycle!Next]_(Lifecycle!runLifecycleVars)
  BY <1>1, <1>13 DEF EndTool, rowVars, envVars
<1>14. CASE SelectTools \/ LoadTools
  BY <1>1, <1>2, <1>14 DEF SelectTools, LoadTools, rowVars, envVars
<1>15. CASE Assess
  BY <1>1, <1>2, <1>15 DEF Assess, rowVars, envVars
<1>16. CASE Finish \/ LoopReport \/ Cancel
  BY <1>2, <1>16 DEF Finish, LoopReport, Cancel, Awaiting, envVars
<1>17. CASE TimesOut \/ StepFails
  BY <1>3, <1>17 DEF TimesOut, StepFails, envVars
<1>18. CASE ProviderFails \/ InterventionFails
  BY <1>3, <1>18 DEF ProviderFails, InterventionFails, LoopFails
<1>19. CASE Expire
  BY <1>9, <1>19 DEF Expire, rowVars
<1>20. ASSUME NEW kind \in {"context", "replace"}, NEW t \in Tools, Intervene(kind, t)
       PROVE  RowInv' /\ [Lifecycle!Next]_(Lifecycle!runLifecycleVars)
  BY <1>9, <1>20 DEF Intervene, rowVars, envVars
<1>21. CASE UNCHANGED vars
  BY <1>9, <1>21 DEF vars, rowVars, envVars
<1>. QED
  BY <1>4, <1>5, <1>6, <1>7, <1>8, <1>10, <1>11, <1>12, <1>13, <1>14, <1>15, <1>16, <1>17,
     <1>18, <1>19, <1>20, <1>21 DEF Next, Runtime, Environment

LEMMA RowInvariant == Spec => []RowInv
<1>1. Init => RowInv
  BY DEF Init, RowInv
<1>. QED
  BY <1>1, RowStep, TypeCorrect, PTL DEF Spec

(* However it is configured, the runtime keeps the life cycle of a run:    *)
(* the row first, then its event, and nothing is let go in disagreement.   *)
THEOREM ImplementsRunLifecycle == Spec => Lifecycle!Spec
<1>1. Init => Lifecycle!Init
  BY DEF Init, Lifecycle!Init
<1>2. TypeOK /\ RowInv /\ [Next]_vars => [Lifecycle!Next]_(Lifecycle!runLifecycleVars)
  BY RowStep
<1>. QED
  BY <1>1, <1>2, TypeCorrect, RowInvariant, PTL DEF Spec, Lifecycle!Spec

(* Tools run only while the row says "running".                            *)
THEOREM ToolsOnlyWhileRunningHolds == Spec => ToolsOnlyWhileRunning
<1>1. ASSUME RowInv, [Next]_vars PROVE evidence' # evidence => status = "running"
  <2>1. CASE LoopAct
    BY <1>1, <2>1 DEF RowInv, LoopAct
  <2>2. ASSUME NEW q \in Qualities, EndTool(q) PROVE status = "running"
    BY <1>1, <2>2 DEF RowInv, EndTool
  <2>. QED
    BY <1>1, <2>1, <2>2, EvidenceGrows
<1>. QED
  BY <1>1, RowInvariant, PTL DEF Spec, ToolsOnlyWhileRunning
----------------------------------------------------------------------------
(* Interventions                                                           *)

(* Nothing is marked without having taken effect, and within a kind those  *)
(* that were given first are applied first.                                *)
BridgeInv ==
  /\ \A i \in DOMAIN bridge : bridge[i].effects = IF bridge[i].applied THEN 1 ELSE 0
  /\ \A i, j \in DOMAIN bridge :
       i < j /\ bridge[i].kind = bridge[j].kind /\ bridge[j].applied => bridge[i].applied

(* Applying those of some kinds, or the first ones of a kind, keeps this.  *)
LEMMA ApplyKeepsOrder ==
  ASSUME bridge \in Seq(InterventionSet), BridgeInv, NEW given \in SUBSET DOMAIN bridge,
         Apply(given),
         \A i \in given : ~bridge[i].applied,
         \A j \in given : \A i \in DOMAIN bridge :
           i < j /\ bridge[i].kind = bridge[j].kind => i \in given \/ bridge[i].applied
  PROVE  BridgeInv'
<1> USE ApplyTyped
<1>1. ASSUME NEW i \in DOMAIN bridge'
      PROVE  bridge'[i].effects = IF bridge'[i].applied THEN 1 ELSE 0
  <2>1. i \in DOMAIN bridge
    BY <1>1
  <2>2. CASE i \in given
    <3>1. ~bridge[i].applied /\ bridge[i].effects = 0
      BY <2>1, <2>2 DEF BridgeInv
    <3>2. bridge'[i].effects = 1 /\ bridge'[i].applied
      BY <2>1, <2>2, <3>1
    <3>. QED
      BY <3>2
  <2>3. CASE i \notin given
    <3>1. bridge'[i].effects = bridge[i].effects /\ (bridge'[i].applied <=> bridge[i].applied)
      BY <2>1, <2>3
    <3>. QED
      BY <2>1, <3>1 DEF BridgeInv
  <2>. QED
    BY <2>2, <2>3
<1>2. ASSUME NEW i \in DOMAIN bridge', NEW j \in DOMAIN bridge',
             i < j, bridge'[i].kind = bridge'[j].kind, bridge'[j].applied
      PROVE  bridge'[i].applied
  <2>1. i \in DOMAIN bridge /\ j \in DOMAIN bridge
    BY <1>2
  <2>2. bridge[i].kind = bridge[j].kind /\ (bridge[j].applied \/ j \in given)
    BY <1>2, <2>1
  <2>3. bridge[i].applied \/ i \in given
    BY <1>2, <2>1, <2>2 DEF BridgeInv
  <2>. QED
    BY <2>1, <2>3
<1>. QED
  BY <1>1, <1>2 DEF BridgeInv

(* Who touches the bridge.                                                 *)
LEMMA BridgeSteps ==
  ASSUME [Next]_vars
  PROVE  \/ UNCHANGED bridge
         \/ LoopDecide \/ ProviderFails \/ InterventionFails
         \/ \E kind \in {"context", "replace"}, t \in Tools : Intervene(kind, t)
  BY DEF Next, Runtime, Environment, vars, Start, Plan, DecideOnce, SelectTools, LoadTools,
         CallTool, BeginTool, EndTool, Assess, Finish, LoopAct, LoopNote, LoopEnds, LoopReport,
         MarkFailed, Tell, Return, TimesOut, Expire, StepFails, Cancel, Disconnect, Break

LEMMA BridgeStep ==
  ASSUME TypeOK, BridgeInv, [Next]_vars
  PROVE  BridgeInv'
<1>0. bridge \in Seq(InterventionSet)
  BY DEF TypeOK
<1>1. ASSUME NEW kind, NEW i \in Pending(kind) PROVE i \in DOMAIN bridge /\ ~bridge[i].applied
                                                   /\ bridge[i].kind = kind
  BY <1>1, Zenon DEF Pending
<1>2. ASSUME NEW i \in DOMAIN bridge, ~bridge[i].applied PROVE i \in Pending(bridge[i].kind)
  BY <1>2, Zenon DEF Pending
<1>3. CASE UNCHANGED bridge
  BY <1>3 DEF BridgeInv
<1>4. CASE LoopDecide
  <2> DEFINE given == Pending("context") \union Pending("replace")
  <2>1. Apply(given)
    BY <1>4 DEF LoopDecide
  <2>2. given \subseteq DOMAIN bridge /\ \A i \in given : ~bridge[i].applied
    BY <1>1
  <2>3. ASSUME NEW i \in DOMAIN bridge, ~bridge[i].applied PROVE i \in given
    <3>1. bridge[i] \in InterventionSet
      BY <1>0
    <3>2. bridge[i].kind \in {"context", "replace"}
      BY <3>1 DEF InterventionSet
    <3>. QED
      BY <1>2, <2>3, <3>2
  <2>. HIDE DEF given
  <2>. QED
    BY <1>0, <2>1, <2>2, <2>3, ApplyKeepsOrder
<1>5. CASE ProviderFails
  <2> DEFINE given == Pending("context")
  <2>1. Apply(given)
    BY <1>5 DEF ProviderFails
  <2>2. given \subseteq DOMAIN bridge /\ \A i \in given : ~bridge[i].applied
    BY <1>1
  <2>3. ASSUME NEW j \in given, NEW i \in DOMAIN bridge, bridge[i].kind = bridge[j].kind
        PROVE  i \in given \/ bridge[i].applied
    <3>1. bridge[i].kind = "context"
      BY <1>1, <2>3
    <3>. QED
      BY <1>2, <3>1
  <2>. HIDE DEF given
  <2>. QED
    BY <1>0, <2>1, <2>2, <2>3, ApplyKeepsOrder
<1>6. CASE InterventionFails
  <2>1. PICK k \in Pending("context") : Apply({j \in Pending("context") : j < k})
    BY <1>6 DEF InterventionFails
  <2> DEFINE given == {j \in Pending("context") : j < k}
  <2>2. given \subseteq DOMAIN bridge /\ \A i \in given : ~bridge[i].applied
    BY <1>1
  <2>3. ASSUME NEW j \in given, NEW i \in DOMAIN bridge, i < j,
               bridge[i].kind = bridge[j].kind, ~bridge[i].applied
        PROVE  i \in given
    <3>1. bridge[i].kind = "context" /\ j < k
      BY <1>1, <2>3
    <3>2. i \in Pending("context")
      BY <1>2, <2>3, <3>1
    <3>3. i \in Nat /\ j \in Nat /\ k \in Nat
      BY <1>0, <1>1
    <3>. QED
      BY <2>3, <3>1, <3>2, <3>3
  <2>4. Apply(given)
    BY <2>1
  <2>. HIDE DEF given
  <2>. QED
    BY <1>0, <2>2, <2>3, <2>4, ApplyKeepsOrder
<1>7. ASSUME NEW kind \in {"context", "replace"}, NEW t \in Tools, Intervene(kind, t)
      PROVE  BridgeInv'
  <2> DEFINE new == [kind |-> kind, tool |-> t, applied |-> FALSE, effects |-> 0]
  <2>1. bridge' = Append(bridge, new) /\ new \in InterventionSet
    BY <1>7 DEF Intervene, InterventionSet
  <2>2. /\ DOMAIN bridge' = 1 .. Len(bridge) + 1
        /\ \A i \in 1 .. Len(bridge) : bridge'[i] = bridge[i]
        /\ bridge'[Len(bridge) + 1] = new
        /\ DOMAIN bridge = 1 .. Len(bridge) /\ Len(bridge) \in Nat
    BY <1>0, <2>1
  <2>3. ~new.applied /\ new.effects = 0
    OBVIOUS
  <2>. HIDE DEF new
  <2>4. ASSUME NEW i \in DOMAIN bridge'
        PROVE  bridge'[i].effects = IF bridge'[i].applied THEN 1 ELSE 0
    BY <2>2, <2>3, <2>4 DEF BridgeInv
  <2>5. ASSUME NEW i \in DOMAIN bridge', NEW j \in DOMAIN bridge',
               i < j, bridge'[i].kind = bridge'[j].kind, bridge'[j].applied
        PROVE  bridge'[i].applied
    BY <2>2, <2>3, <2>5 DEF BridgeInv
  <2>. QED
    BY <2>4, <2>5 DEF BridgeInv
<1>. QED
  BY <1>3, <1>4, <1>5, <1>6, <1>7, BridgeSteps

(* An intervention takes effect at most once, and those of one kind in the *)
(* order in which they were given (InterventionBridge.pending and          *)
(* mark_applied).                                                          *)
THEOREM InterventionsOnceInOrderHolds == Spec => []InterventionsOnceInOrder
<1>1. Init => BridgeInv
  BY DEF Init, BridgeInv
<1>2. BridgeInv => InterventionsOnceInOrder
  BY DEF BridgeInv, InterventionsOnceInOrder
<1>. QED
  BY <1>1, <1>2, BridgeStep, TypeCorrect, PTL DEF Spec
----------------------------------------------------------------------------
(* Evidence                                                                *)

(* The loop and the tools in turn never meet.                              *)
ModeInv ==
  /\ phase \in {"looping", "acting", "reporting"} => mode = "loop"
  /\ phase \in {"deciding", "selecting", "loading", "choosing", "calling", "executing",
                "assessing"} => mode # "loop"

Good(n) == \A i \in 1 .. n : evidence[i].quality \notin {"empty", "error", "approval"}

(* In the graph path every result but the one just assessed is good.       *)
GraphInv == mode = "graph" =>
  /\ phase \in {"starting", "planning", "deciding", "selecting", "loading"} => evidence = <<>>
  /\ phase \in {"choosing", "calling", "executing"} => Good(Len(evidence))
  /\ phase = "assessing" => Good(Len(evidence) - 1)
  /\ CompletedIsGrounded

(* The loop decides for a call only if the last result allows it.          *)
LoopInv ==
  phase = "acting" /\ decision.action = "call_tool" =>
    evidence = <<>> \/ Latest \notin {"empty", "error"}

EvidenceInv == ModeInv /\ GraphInv /\ LoopInv

LEMMA BadEvidenceRecovers ==
  ASSUME evidence # <<>>, Latest \in {"empty", "error"}, NEW d \in NextDecisions
  PROVE  d.action # "call_tool"
<1>1. RequiresRecovery
  BY DEF RequiresRecovery
<1>2. Strategy # "continue"
  BY DEF Strategy, ChooseStrategy
<1>3. d = RecoveryDecision(Strategy)
  BY <1>1, <1>2 DEF NextDecisions, Recovers
<1>. QED
  BY <1>3 DEF RecoveryDecision, Decide

LEMMA AppendedEvidence ==
  ASSUME TypeOK, NEW t \in Tools, NEW q \in Qualities,
         evidence' = Append(evidence, [tool |-> t, quality |-> q])
  PROVE  /\ Len(evidence) \in Nat
         /\ DOMAIN evidence = 1 .. Len(evidence)
         /\ Len(evidence') = Len(evidence) + 1
         /\ DOMAIN evidence' = 1 .. Len(evidence) + 1
         /\ \A i \in 1 .. Len(evidence) : evidence'[i] = evidence[i]
         /\ evidence'[Len(evidence) + 1] = [tool |-> t, quality |-> q]
  BY DEF TypeOK

(* Every step keeps the configuration of the run.                          *)
LEMMA ConfigurationFixed ==
  ASSUME [Next]_vars
  PROVE  UNCHANGED <<mode, provider, scene, catalog, maxSteps>>
  BY DEF Next, Runtime, Environment, vars, Start, Plan, DecideOnce, SelectTools, LoadTools,
         CallTool, BeginTool, EndTool, Assess, Finish, LoopDecide, LoopAct, LoopNote, LoopEnds,
         LoopReport, MarkFailed, Tell, Return, TimesOut, Expire, ProviderFails,
         InterventionFails, LoopFails, StepFails, Cancel, Disconnect, Break, Intervene, fixedVars

LEMMA ModeStep ==
  ASSUME TypeOK, ModeInv, [Next]_vars
  PROVE  ModeInv'
<1> USE ConfigurationFixed DEF ModeInv
<1>1. ASSUME phase' \in {"failing", "telling", "told", "over"} PROVE ModeInv'
  BY <1>1
<1>2. ASSUME UNCHANGED phase PROVE ModeInv'
  BY <1>2
<1>3. CASE Start \/ Plan \/ DecideOnce
  BY <1>3, RunAssumption DEF Start, Plan, DecideOnce, TypeOK
<1>4. CASE SelectTools \/ LoadTools \/ BeginTool
  BY <1>1, <1>4 DEF SelectTools, LoadTools, BeginTool, Settle
<1>5. ASSUME NEW t \in Tools, CallTool(t) PROVE ModeInv'
  BY <1>5 DEF CallTool
<1>6. ASSUME NEW q \in Qualities, EndTool(q) PROVE ModeInv'
  BY <1>6 DEF EndTool
<1>7. CASE Assess \/ Finish
  BY <1>1, <1>7 DEF Assess, Finish, Settle
<1>8. CASE LoopDecide \/ LoopAct \/ LoopNote \/ LoopEnds
  BY <1>8 DEF LoopDecide, LoopAct, LoopNote, LoopEnds
<1>9. CASE LoopReport \/ MarkFailed \/ Tell \/ Return \/ TimesOut
  BY <1>1, <1>9 DEF LoopReport, MarkFailed, Tell, Return, TimesOut, Settle
<1>10. CASE ProviderFails \/ InterventionFails \/ StepFails \/ Cancel \/ Disconnect \/ Break
  BY <1>1, <1>10 DEF ProviderFails, InterventionFails, LoopFails, StepFails, Cancel, Disconnect,
                     Break, Settle
<1>11. CASE Expire \/ \E kind \in {"context", "replace"}, t \in Tools : Intervene(kind, t)
  BY <1>2, <1>11 DEF Expire, Intervene
<1>12. CASE UNCHANGED vars
  BY <1>2, <1>12 DEF vars
<1>. QED
  BY <1>3, <1>4, <1>5, <1>6, <1>7, <1>8, <1>9, <1>10, <1>11, <1>12
     DEF Next, Runtime, Environment

LEMMA LoopStep ==
  ASSUME TypeOK, LoopInv, [Next]_vars
  PROVE  LoopInv'
<1>1. CASE phase' # "acting"
  BY <1>1 DEF LoopInv
<1>2. CASE UNCHANGED <<phase, decision, evidence>>
  BY <1>2 DEF LoopInv, Latest
<1>3. CASE LoopDecide
  <2>1. UNCHANGED evidence
    BY <1>3 DEF LoopDecide
  <2>2. SUFFICES ASSUME decision'.action = "call_tool", evidence # <<>>,
                        Latest \in {"empty", "error"}
                 PROVE  FALSE
    BY <2>1 DEF LoopInv, Latest
  <2>3. PICK d \in NextDecisions : Take(d)
    BY <1>3 DEF LoopDecide
  <2>4. decision'.action = d.action
    BY <2>3, DecisionsTyped, TakeTyped
  <2>. QED
    BY <2>2, <2>3, <2>4, BadEvidenceRecovers
<1>4. CASE ~LoopDecide /\ phase' = "acting"
  <2>1. UNCHANGED <<phase, decision, evidence>>
    BY <1>4, RunAssumption
       DEF Next, Runtime, Environment, vars, Start, Plan, DecideOnce, SelectTools, LoadTools,
           CallTool, BeginTool, EndTool, Assess, Finish, LoopAct, LoopNote, LoopEnds,
           LoopReport, MarkFailed, Tell, Return, TimesOut, Expire, ProviderFails,
           InterventionFails, LoopFails, StepFails, Cancel, Disconnect, Break, Intervene,
           Settle, loopVars, TypeOK
  <2>. QED
    BY <1>2, <2>1
<1>. QED
  BY <1>1, <1>3, <1>4

LEMMA GraphStep ==
  ASSUME TypeOK, RowInv, ModeInv, GraphInv, [Next]_vars
  PROVE  GraphInv'
<1> SUFFICES ASSUME mode = "graph" PROVE GraphInv'
  BY ConfigurationFixed DEF GraphInv
<1> USE ConfigurationFixed DEF GraphInv
<1>0. Len(evidence) \in Nat /\ DOMAIN evidence = 1 .. Len(evidence)
  BY DEF TypeOK
(* Who lets go, fails or only tells changes no result.                     *)
<1>1. ASSUME UNCHANGED <<evidence, skipped>>, phase' \in {"failing", "telling", "told", "over"},
             status' = "completed" => status = "completed"
      PROVE  GraphInv'
  BY <1>1 DEF CompletedIsGrounded, Strong
<1>2. ASSUME UNCHANGED <<evidence, skipped, status, phase>> PROVE GraphInv'
  BY <1>2 DEF CompletedIsGrounded, Strong, Good
<1>3. CASE Start \/ Plan \/ DecideOnce
  BY <1>3 DEF Start, Plan, DecideOnce, RowInv, CompletedIsGrounded, rowVars
<1>4. CASE SelectTools \/ LoadTools
  BY <1>4 DEF SelectTools, LoadTools, Settle, RowInv, CompletedIsGrounded, Good, rowVars
<1>5. CASE BeginTool \/ \E t \in Tools : CallTool(t)
  BY <1>5 DEF BeginTool, CallTool, RowInv, CompletedIsGrounded, Good, rowVars
<1>6. ASSUME NEW q \in Qualities, EndTool(q) PROVE GraphInv'
  <2>1. status' = "running" /\ phase' = "assessing" /\ Good(Len(evidence))
    BY <1>6 DEF EndTool, RowInv, rowVars
  <2>2. current \in Tools
    BY <1>6 DEF EndTool, TypeOK
  <2>3. Good(Len(evidence) - 1)'
    BY <1>6, <2>1, <2>2, AppendedEvidence DEF EndTool, Good
  <2>. QED
    BY <2>1, <2>3 DEF CompletedIsGrounded
<1>7. CASE Assess
  <2>1. Good(Len(evidence) - 1) /\ status = "running" /\ UNCHANGED <<evidence, skipped>>
    BY <1>7 DEF Assess, RowInv
  <2>2. CASE phase' = "choosing"
    <3>1. Latest \notin {"empty", "error", "approval"} /\ status' = "running"
      BY <1>7, <2>1, <2>2 DEF Assess, Settle, rowVars
    <3>2. Good(Len(evidence))
      BY <1>0, <2>1, <3>1 DEF Good, Latest
    <3>. QED
      BY <2>1, <2>2, <3>1, <3>2 DEF CompletedIsGrounded, Good
  <2>3. CASE phase' = "telling"
    BY <1>1, <1>7, <2>1, <2>3 DEF Assess, Settle, rowVars
  <2>. QED
    BY <1>7, <2>2, <2>3 DEF Assess, Settle
<1>8. CASE Finish
  <2>1. Good(Len(evidence)) /\ UNCHANGED <<evidence, skipped>> /\ phase' = "telling"
    BY <1>8 DEF Finish, Settle, toolVars
  <2>2. status' = "completed" => skipped = {} \/ Strong
    BY <1>8 DEF Finish, Settle, BudgetExhausted
  <2>. QED
    BY <1>0, <2>1, <2>2 DEF Good, CompletedIsGrounded, Strong
<1>9. CASE LoopDecide \/ LoopAct \/ LoopNote \/ LoopEnds \/ LoopReport \/ ProviderFails
           \/ InterventionFails
  BY <1>9 DEF ModeInv, LoopDecide, LoopAct, LoopNote, LoopEnds, LoopReport, ProviderFails,
              InterventionFails, LoopFails
<1>10. CASE MarkFailed \/ Tell \/ Return \/ TimesOut
  BY <1>1, <1>10 DEF MarkFailed, Tell, Return, TimesOut, Settle, rowVars, toolVars
<1>11. CASE StepFails \/ Cancel \/ Disconnect \/ Break
  BY <1>1, <1>11 DEF StepFails, Cancel, Disconnect, Break, Settle, rowVars, toolVars
<1>12. CASE Expire \/ \E kind \in {"context", "replace"}, t \in Tools : Intervene(kind, t)
  BY <1>2, <1>12 DEF Expire, Intervene, rowVars, toolVars
<1>13. CASE UNCHANGED vars
  BY <1>2, <1>13 DEF vars, rowVars, toolVars
<1>. QED
  BY <1>3, <1>4, <1>5, <1>6, <1>7, <1>8, <1>9, <1>10, <1>11, <1>12, <1>13
     DEF Next, Runtime, Environment

LEMMA EvidenceInvariant == Spec => []EvidenceInv
<1>1. Init => EvidenceInv
  BY DEF Init, EvidenceInv, ModeInv, GraphInv, LoopInv, CompletedIsGrounded
<1>2. TypeOK /\ RowInv /\ EvidenceInv /\ [Next]_vars => EvidenceInv'
  BY ModeStep, GraphStep, LoopStep DEF EvidenceInv
<1>. QED
  BY <1>1, <1>2, TypeCorrect, RowInvariant, PTL DEF Spec

(* With the decision runtime no tool is called on top of a failed or empty *)
(* result (the hand-off in _run_orchestration, _recover_if_required).      *)
THEOREM NoCallOnBadEvidenceHolds == Spec => NoCallOnBadEvidence
<1>1. ASSUME EvidenceInv, TypeOK, [Next]_vars
      PROVE  mode # "linear" /\ evidence' # evidence =>
               evidence = <<>> \/ Latest \notin {"empty", "error"}
  <2>1. CASE LoopAct
    BY <1>1, <2>1 DEF LoopAct, CallsTool, EvidenceInv, LoopInv
  <2>2. ASSUME NEW q \in Qualities, EndTool(q), mode # "linear", evidence # <<>>
        PROVE  Latest \notin {"empty", "error"}
    <3>1. mode = "graph"
      BY <1>1, <2>2, RunAssumption DEF EndTool, EvidenceInv, ModeInv, TypeOK
    <3>2. Good(Len(evidence))
      BY <1>1, <2>2, <3>1 DEF EndTool, EvidenceInv, GraphInv
    <3>3. Len(evidence) \in 1 .. Len(evidence)
      BY <1>1, <2>2 DEF TypeOK
    <3>. QED
      BY <3>2, <3>3 DEF Good, Latest
  <2>. QED
    BY <1>1, <2>1, <2>2, EvidenceGrows
<1>. QED
  BY <1>1, TypeCorrect, EvidenceInvariant, PTL DEF Spec, NoCallOnBadEvidence

(* In the graph path a run is completed only on good results, and with     *)
(* tools left out only on strong evidence.                                 *)
THEOREM CompletedIsGroundedHolds == Spec => []CompletedIsGrounded
<1>1. EvidenceInv => CompletedIsGrounded
  BY DEF EvidenceInv, GraphInv, CompletedIsGrounded
<1>. QED
  BY <1>1, EvidenceInvariant, PTL
----------------------------------------------------------------------------
(* The tools that are called                                               *)

(* The scene names t, or an operator's applied replacement does.           *)
Allowed(t) ==
  \/ t \in scene
  \/ \E i \in DOMAIN bridge :
       bridge[i].kind = "replace" /\ bridge[i].tool = t /\ bridge[i].applied

(* Whatever is about to be called is allowed, and so is what was called.   *)
SourceInv ==
  /\ todo \subseteq scene
  /\ phase \in {"calling", "executing"} => current \in scene
  /\ phase = "acting" /\ CallsTool => Allowed(decision.tool)
  /\ \A i \in DOMAIN evidence : Allowed(evidence[i].tool)

(* An applied replacement stays on the bridge.                             *)
LEMMA AllowedStays ==
  ASSUME TypeOK, [Next]_vars, NEW t, Allowed(t)
  PROVE  Allowed(t)'
<1> USE ConfigurationFixed
<1>0. bridge \in Seq(InterventionSet)
  BY DEF TypeOK
<1>1. CASE t \in scene
  BY <1>1 DEF Allowed
<1>2. ASSUME NEW i \in DOMAIN bridge, bridge[i].kind = "replace", bridge[i].tool = t,
             bridge[i].applied
      PROVE  Allowed(t)'
  <2>1. ASSUME NEW given, Apply(given) PROVE Allowed(t)'
    BY <1>0, <1>2, <2>1, ApplyTyped DEF Allowed
  <2>2. CASE UNCHANGED bridge
    BY <1>2, <2>2 DEF Allowed
  <2>3. CASE LoopDecide \/ ProviderFails \/ InterventionFails
    BY <2>1, <2>3 DEF LoopDecide, ProviderFails, InterventionFails
  <2>4. ASSUME NEW kind \in {"context", "replace"}, NEW u \in Tools, Intervene(kind, u)
        PROVE  Allowed(t)'
    <3> DEFINE new == [kind |-> kind, tool |-> u, applied |-> FALSE, effects |-> 0]
    <3>1. bridge' = Append(bridge, new) /\ new \in InterventionSet
      BY <2>4 DEF Intervene, InterventionSet
    <3>. HIDE DEF new
    <3>2. i \in DOMAIN bridge' /\ bridge'[i] = bridge[i]
      BY <1>0, <3>1
    <3>. QED
      BY <1>2, <3>2 DEF Allowed
  <2>. QED
    BY <2>2, <2>3, <2>4, BridgeSteps
<1>. QED
  BY <1>1, <1>2 DEF Allowed

(* A decision to call a tool names one of the scene.                       *)
LEMMA DecisionsFromScene ==
  ASSUME NEW d \in NextDecisions, d.action = "call_tool"
  PROVE  d.tool \in scene \union {NoTool}
<1>1. CASE d = RecoveryDecision(Strategy)
  BY <1>1 DEF RecoveryDecision, Decide
<1>2. CASE d \in QwenDecisions
  BY <1>2 DEF QwenDecisions, Decide
<1>3. CASE d \in DeterministicDecisions
  BY <1>3 DEF DeterministicDecisions, Decide
<1>. QED
  BY <1>1, <1>2, <1>3 DEF NextDecisions

LEMMA SourceStep ==
  ASSUME TypeOK, SourceInv, [Next]_vars
  PROVE  SourceInv'
<1> USE ConfigurationFixed
<1>0. /\ bridge \in Seq(InterventionSet)
      /\ Len(evidence) \in Nat /\ DOMAIN evidence = 1 .. Len(evidence)
  BY DEF TypeOK
<1>1. todo' \subseteq scene
  BY DEF SourceInv, Next, Runtime, Environment, vars, toolVars, Start, Plan, DecideOnce,
         SelectTools, LoadTools, CallTool, BeginTool, EndTool, Assess, Finish, LoopDecide,
         LoopAct, LoopNote, LoopEnds, LoopReport, MarkFailed, Tell, Return, TimesOut, Expire,
         ProviderFails, InterventionFails, LoopFails, StepFails, Cancel, Disconnect, Break,
         Intervene
<1>2. phase' \in {"calling", "executing"} => current' \in scene
  <2>1. ASSUME NEW t \in Tools, CallTool(t) PROVE current' \in scene
    BY <2>1 DEF CallTool, SourceInv
  <2>2. CASE BeginTool
    BY <2>2 DEF BeginTool, SourceInv, toolVars
  <2>3. CASE UNCHANGED <<phase, current>>
    BY <2>3 DEF SourceInv
  <2>4. ASSUME ~BeginTool, \A t \in Tools : ~CallTool(t), phase' \in {"calling", "executing"}
        PROVE  UNCHANGED <<phase, current>>
    BY <2>4, RunAssumption
       DEF Next, Runtime, Environment, vars, toolVars, Start, Plan, DecideOnce, SelectTools,
           LoadTools, EndTool, Assess, Finish, LoopDecide, LoopAct, LoopNote, LoopEnds,
           LoopReport, MarkFailed, Tell, Return, TimesOut, Expire, ProviderFails,
           InterventionFails, LoopFails, StepFails, Cancel, Disconnect, Break, Intervene, Settle,
           TypeOK
  <2>. QED
    BY <2>1, <2>2, <2>3, <2>4
<1>3. ASSUME phase' = "acting", CallsTool' PROVE Allowed(decision.tool)'
  <2>1. CASE LoopDecide
    <3>1. PICK d \in NextDecisions : Take(d)
      BY <2>1 DEF LoopDecide
    <3>2. d \in DecisionSet /\ decision'.action = d.action
      BY <3>1, DecisionsTyped, TakeTyped
    <3>3. CASE decision' = d
      BY <1>3, <3>1, <3>3, DecisionsFromScene DEF CallsTool, Allowed
    <3>4. ASSUME NEW i \in Pending("replace"), decision'.tool = bridge[i].tool
          PROVE  Allowed(decision.tool)'
      <4>1. i \in DOMAIN bridge /\ bridge[i].kind = "replace"
        BY <3>4, Zenon DEF Pending
      <4>2. Apply(Pending("context") \union Pending("replace"))
        BY <2>1 DEF LoopDecide
      <4>3. /\ DOMAIN bridge' = DOMAIN bridge
            /\ bridge'[i].kind = "replace" /\ bridge'[i].tool = bridge[i].tool
            /\ bridge'[i].applied
        BY <1>0, <3>4, <4>1, <4>2, ApplyTyped
      <4>. QED
        BY <3>4, <4>1, <4>3 DEF Allowed
    <3>. QED
      BY <3>1, <3>2, <3>3, <3>4, TakeTyped
  <2>2. CASE ~LoopDecide
    <3>1. UNCHANGED <<phase, decision>>
      BY <1>3, <2>2, RunAssumption
         DEF Next, Runtime, Environment, vars, loopVars, Start, Plan, DecideOnce, SelectTools,
             LoadTools, CallTool, BeginTool, EndTool, Assess, Finish, LoopAct, LoopNote,
             LoopEnds, LoopReport, MarkFailed, Tell, Return, TimesOut, Expire, ProviderFails,
             InterventionFails, LoopFails, StepFails, Cancel, Disconnect, Break, Intervene,
             Settle, TypeOK
    <3>2. Allowed(decision.tool)
      BY <1>3, <3>1 DEF SourceInv, CallsTool
    <3>3. Allowed(decision.tool)'
      BY <3>1, <3>2, AllowedStays DEF Allowed
    <3>. QED
      BY <3>3
  <2>. QED
    BY <2>1, <2>2
<1>4. ASSUME NEW i \in DOMAIN evidence' PROVE Allowed(evidence[i].tool)'
  <2>1. ASSUME NEW t, Allowed(t), evidence'[i].tool = t PROVE Allowed(evidence[i].tool)'
    BY <2>1, AllowedStays DEF Allowed
  <2>2. CASE UNCHANGED evidence
    BY <1>4, <2>1, <2>2 DEF SourceInv
  <2>3. ASSUME NEW t \in Tools, NEW q \in Qualities, Allowed(t),
               evidence' = Append(evidence, [tool |-> t, quality |-> q])
        PROVE  Allowed(evidence[i].tool)'
    <3>1. evidence'[i].tool = t \/ (i \in DOMAIN evidence /\ evidence'[i] = evidence[i])
      BY <1>4, <2>3, AppendedEvidence
    <3>. QED
      BY <2>1, <2>3, <3>1 DEF SourceInv
  <2>4. CASE LoopAct
    <3>1. decision.tool \in Tools /\ Allowed(decision.tool)
      BY <2>4 DEF LoopAct, CallsTool, SourceInv, TypeOK, DecisionSet
    <3>. QED
      BY <2>3, <2>4, <3>1, RunAssumption DEF LoopAct
  <2>5. ASSUME NEW q \in Qualities, EndTool(q) PROVE Allowed(evidence[i].tool)'
    <3>1. current \in Tools /\ Allowed(current)
      BY <2>5 DEF EndTool, SourceInv, TypeOK, Allowed
    <3>. QED
      BY <2>3, <2>5, <3>1 DEF EndTool
  <2>. QED
    BY <2>2, <2>4, <2>5, EvidenceGrows
<1>. QED
  BY <1>1, <1>2, <1>3, <1>4 DEF SourceInv

(* No result comes from a tool outside the scene unless an operator        *)
(* replaced the tool (QwenDecisionProvider.decide, _limit_tool_steps,      *)
(* apply_replace_decision).                                                *)
THEOREM OutsideOnlyByOperatorHolds == Spec => []OutsideOnlyByOperator
<1>1. Init => SourceInv
  BY DEF Init, SourceInv
<1>2. SourceInv => OutsideOnlyByOperator
  BY DEF SourceInv, OutsideOnlyByOperator, Executed, Allowed
<1>. QED
  BY <1>1, <1>2, SourceStep, TypeCorrect, PTL DEF Spec
----------------------------------------------------------------------------
(* The run as its approvals see it                                         *)

Preparing == {"starting", "planning", "deciding", "selecting", "loading"}
Ending == {"failing", "telling", "told", "over"}

(* Each tool is called once, the log holds what its reader goes by, and a  *)
(* tool that needs approval is the last one.                               *)
CallsInv ==
  /\ todo \intersect (Executed \union {current}) = {}
  /\ mode = "loop" => current = NoTool /\ todo = {}
  /\ phase \in Preparing => evidence = <<>> /\ current = NoTool
  /\ phase \in {"choosing", "assessing"} => current \in Executed \union {NoTool}
  /\ phase \in {"calling", "executing"} => current \notin Executed

AskingInv ==
  /\ Asking => \/ mode = "graph" /\ phase \in {"assessing"} \union Ending
               \/ mode = "loop" /\ phase \in {"reporting"} \union Ending
  /\ phase = "assessing" => evidence # <<>>
  /\ phase = "reporting" => (Asking <=> reason = "approval_required")
  /\ status = "waiting_approval" => Asking
  /\ phase = "failing" => status \notin {"failed", "cancelled"}

ViewInv == CallsInv /\ AskingInv

LEMMA ExecutedGrows ==
  ASSUME TypeOK, NEW t \in Tools, NEW q \in Qualities,
         evidence' = Append(evidence, [tool |-> t, quality |-> q])
  PROVE  /\ Executed' = Executed \union {t}
         /\ evidence' # <<>>
         /\ Latest' = q
         /\ evidence'[Len(evidence')].tool = t
<1>1. /\ Len(evidence) \in Nat
      /\ DOMAIN evidence = 1 .. Len(evidence)
      /\ Len(evidence') = Len(evidence) + 1
      /\ DOMAIN evidence' = 1 .. Len(evidence) + 1
      /\ \A i \in 1 .. Len(evidence) : evidence'[i] = evidence[i]
      /\ evidence'[Len(evidence) + 1] = [tool |-> t, quality |-> q]
  BY AppendedEvidence
<1>2. Executed' = Executed \union {t}
  BY <1>1 DEF Executed
<1>. QED
  BY <1>1, <1>2 DEF Latest

LEMMA CallsStep ==
  ASSUME TypeOK, RowInv, ModeInv, CallsInv, [Next]_vars
  PROVE  CallsInv'
<1> USE ConfigurationFixed, LimitsAreNaturals DEF CallsInv, Preparing
<1>1. ASSUME UNCHANGED <<evidence, current>>, todo' \subseteq todo,
             phase' \in Ending \union {"looping", "acting", "reporting"} \/ phase' = phase
      PROVE  CallsInv'
  BY <1>1 DEF Executed, Ending
<1>2. CASE Start \/ Plan \/ DecideOnce
  BY <1>2, RunAssumption DEF Start, Plan, DecideOnce, toolVars, Executed, TypeOK
<1>3. CASE SelectTools \/ LoadTools
  <2>1. evidence = <<>> /\ UNCHANGED <<evidence, current>> /\ current = NoTool
    BY <1>3 DEF SelectTools, LoadTools
  <2>2. todo' \subseteq Tools /\ phase' \in {"loading", "choosing", "telling"}
    BY <1>3 DEF SelectTools, LoadTools, Settle, TypeOK
  <2>3. Executed' = {} /\ mode # "loop"
    BY <1>3, <2>1 DEF Executed, SelectTools, LoadTools, ModeInv
  <2>. QED
    BY <2>1, <2>2, <2>3
<1>4. ASSUME NEW t \in Tools, CallTool(t) PROVE CallsInv'
  BY <1>4 DEF CallTool, ModeInv, Executed
<1>5. CASE BeginTool
  BY <1>5 DEF BeginTool, toolVars, Executed
<1>6. ASSUME NEW q \in Qualities, EndTool(q) PROVE CallsInv'
  <2>1. current \in Tools
    BY <1>6 DEF EndTool, TypeOK
  <2>2. Executed' = Executed \union {current}
    BY <1>6, <2>1, ExecutedGrows DEF EndTool
  <2>. QED
    BY <1>6, <2>1, <2>2 DEF EndTool, toolVars, ModeInv
<1>7. CASE Assess
  BY <1>7 DEF Assess, Settle, Executed
<1>8. CASE LoopAct
  <2>1. mode = "loop" /\ UNCHANGED <<todo, current>> /\ phase' \in {"looping", "reporting"}
    BY <1>8 DEF LoopAct, ModeInv, toolVars
  <2>. QED
    BY <2>1
<1>9. CASE Finish \/ LoopDecide \/ LoopNote \/ LoopEnds \/ LoopReport
  BY <1>1, <1>9 DEF Finish, LoopDecide, LoopNote, LoopEnds, LoopReport, Settle, toolVars, Ending
<1>10. CASE MarkFailed \/ Tell \/ Return \/ TimesOut
  BY <1>1, <1>10 DEF MarkFailed, Tell, Return, TimesOut, Settle, toolVars, Ending
<1>11. CASE ProviderFails \/ InterventionFails \/ StepFails \/ Cancel \/ Disconnect \/ Break
  BY <1>1, <1>11 DEF ProviderFails, InterventionFails, LoopFails, StepFails, Cancel, Disconnect,
                     Break, Settle, toolVars, Ending
<1>12. CASE Expire \/ \E kind \in {"context", "replace"}, t \in Tools : Intervene(kind, t)
  BY <1>1, <1>12 DEF Expire, Intervene, toolVars
<1>13. CASE UNCHANGED vars
  BY <1>1, <1>13 DEF vars, toolVars
<1>. QED
  BY <1>2, <1>3, <1>4, <1>5, <1>6, <1>7, <1>8, <1>9, <1>10, <1>11, <1>12, <1>13
     DEF Next, Runtime, Environment

LEMMA AskingStep ==
  ASSUME TypeOK, RowInv, ModeInv, AskingInv, [Next]_vars
  PROVE  AskingInv'
<1> USE ConfigurationFixed DEF AskingInv, Ending
<1>1. ASSUME UNCHANGED <<evidence, status>>, phase' = phase, UNCHANGED reason PROVE AskingInv'
  BY <1>1 DEF Asking, Latest
<1>2. ASSUME UNCHANGED <<evidence, status>>, ~Asking,
             phase' \notin {"failing", "assessing", "reporting"}
      PROVE  AskingInv'
  BY <1>2 DEF Asking, Latest
<1>3. ASSUME UNCHANGED <<evidence, status>>, phase' \in Ending, phase' # "failing"
      PROVE  AskingInv'
  BY <1>3, RunAssumption DEF Asking, Latest, TypeOK
<1>4. ASSUME UNCHANGED <<evidence, status>>, phase' = "failing",
             phase = "telling" => status \notin {"failed", "cancelled"},
             phase \notin {"told", "over", "failing"}
      PROVE  AskingInv'
  BY <1>4, RunAssumption DEF Asking, Latest, TypeOK, RowInv
<1>5. ASSUME NEW s, Settle(s), UNCHANGED evidence, s = "waiting_approval" => Asking
      PROVE  AskingInv'
  BY <1>5, RunAssumption DEF Settle, Asking, Latest, TypeOK
<1>6. CASE Start \/ Plan \/ DecideOnce \/ BeginTool \/ LoopDecide
  <2>1. ~Asking /\ UNCHANGED <<evidence, status>>
    BY <1>6 DEF Start, Plan, DecideOnce, BeginTool, LoopDecide, rowVars
  <2>2. phase' \notin {"failing", "assessing", "reporting"}
    BY <1>6, RunAssumption DEF Start, Plan, DecideOnce, BeginTool, LoopDecide, TypeOK
  <2>. QED
    BY <1>2, <2>1, <2>2
<1>7. CASE SelectTools \/ LoadTools
  <2>1. ~Asking /\ UNCHANGED evidence
    BY <1>7 DEF SelectTools, LoadTools
  <2>2. Settle("completed") \/ (UNCHANGED status /\ phase' \in {"loading", "choosing"})
    BY <1>7 DEF SelectTools, LoadTools, rowVars
  <2>. QED
    BY <1>2, <1>5, <2>1, <2>2
<1>8. ASSUME NEW t \in Tools, CallTool(t) PROVE AskingInv'
  BY <1>2, <1>8 DEF CallTool, rowVars
<1>9. ASSUME NEW q \in Qualities, EndTool(q) PROVE AskingInv'
  <2>1. current \in Tools /\ mode # "loop" /\ status' = "running" /\ phase' = "assessing"
    BY <1>9 DEF EndTool, TypeOK, ModeInv, RowInv, rowVars
  <2>2. evidence' # <<>>
    BY <1>9, <2>1, ExecutedGrows DEF EndTool
  <2>. QED
    BY <2>1, <2>2, RunAssumption DEF Asking, TypeOK
<1>10. CASE Assess
  <2>1. CASE mode = "graph" /\ Latest = "approval"
    BY <1>5, <1>10, <2>1 DEF Assess, Asking
  <2>2. CASE ~(mode = "graph" /\ Latest = "approval")
    <3>1. ~Asking /\ UNCHANGED evidence
      BY <1>10, <2>2 DEF Assess, Asking
    <3>2. Settle("handoff_required") \/ (UNCHANGED status /\ phase' = "choosing")
      BY <1>10, <2>2 DEF Assess, rowVars
    <3>. QED
      BY <1>2, <1>5, <3>1, <3>2
  <2>. QED
    BY <2>1, <2>2
<1>11. CASE LoopAct
  <2>1. mode = "loop" /\ ~Asking /\ status' = "running"
    BY <1>11 DEF LoopAct, ModeInv, RowInv, rowVars
  <2>2. PICK q \in Qualities : 
          /\ evidence' = Append(evidence, [tool |-> decision.tool, quality |-> q])
          /\ \/ q = "approval" /\ reason' = "approval_required" /\ phase' = "reporting"
             \/ q # "approval" /\ phase' = "looping" /\ UNCHANGED reason
    BY <1>11, LimitsAreNaturals DEF LoopAct
  <2>3. decision.tool \in Tools
    BY <1>11 DEF LoopAct, CallsTool, TypeOK, DecisionSet
  <2>4. evidence' # <<>> /\ Latest' = q
    BY <2>2, <2>3, ExecutedGrows
  <2>. QED
    BY <2>1, <2>2, <2>4 DEF Asking
<1>12. CASE LoopNote \/ LoopEnds
  <2>1. ~Asking /\ UNCHANGED <<evidence, status>> /\ status = "running"
    BY <1>12 DEF LoopNote, LoopEnds, RowInv, rowVars
  <2>2. phase' = "looping" \/ (phase' = "reporting" /\ reason' # "approval_required")
    BY <1>12 DEF LoopNote, LoopEnds, TerminalActions
  <2>. QED
    BY <2>1, <2>2 DEF Asking, Latest
<1>13. CASE LoopReport
  BY <1>5, <1>13 DEF LoopReport
<1>14. CASE MarkFailed \/ Cancel \/ Finish
  BY <1>5, <1>14 DEF MarkFailed, Cancel, Finish
<1>15. CASE Tell \/ Return \/ Disconnect \/ Break
  BY <1>3, <1>15 DEF Tell, Return, Disconnect, Break, rowVars
<1>16. CASE TimesOut \/ StepFails \/ ProviderFails \/ InterventionFails
  BY <1>4, <1>16 DEF TimesOut, StepFails, ProviderFails, InterventionFails, LoopFails
<1>17. CASE Expire \/ \E kind \in {"context", "replace"}, t \in Tools : Intervene(kind, t)
  BY <1>1, <1>17 DEF Expire, Intervene, rowVars, loopVars
<1>18. CASE UNCHANGED vars
  BY <1>1, <1>18 DEF vars, rowVars, loopVars
<1>. QED
  BY <1>6, <1>7, <1>8, <1>9, <1>10, <1>11, <1>12, <1>13, <1>14, <1>15, <1>16, <1>17, <1>18
     DEF Next, Runtime, Environment

LEMMA ViewInvariant == Spec => []ViewInv
<1>1. Init => ViewInv
  BY DEF Init, ViewInv, CallsInv, AskingInv, Asking, Executed, Preparing
<1>2. TypeOK /\ RowInv /\ EvidenceInv /\ ViewInv /\ [Next]_vars => ViewInv'
  BY CallsStep, AskingStep DEF ViewInv, EvidenceInv
<1>. QED
  BY <1>1, <1>2, TypeCorrect, RowInvariant, EvidenceInvariant, PTL DEF Spec

(* Where the run is, as its row and log tell.                              *)
LEMMA PhasesSeen ==
  TypeOK /\ RowInv /\ ModeInv /\ ViewInv =>
    /\ phase \in Preparing \union {"choosing", "looping", "acting"} => PhaseSeen = "choosing"
    /\ phase \in {"calling", "executing"} => PhaseSeen = "calling"
    /\ phase = "assessing" =>
         PhaseSeen = IF mode = "graph" /\ Latest = "approval" THEN "blocked" ELSE "choosing"
    /\ phase = "reporting" =>
         PhaseSeen = IF reason = "approval_required" THEN "blocked" ELSE "choosing"
    /\ phase = "failing" => PhaseSeen # "over"
    /\ phase = "telling" =>
         PhaseSeen = CASE status = "waiting_approval" -> "pausing"
                       [] status \in {"failed", "cancelled"} -> "over"
                       [] OTHER -> "ending"
    /\ phase \in {"told", "over"} => PhaseSeen = "over"
<1> SUFFICES ASSUME TypeOK, RowInv, ModeInv, ViewInv
             PROVE  /\ phase \in Preparing \union {"choosing", "looping", "acting"}
                         => PhaseSeen = "choosing"
                    /\ phase \in {"calling", "executing"} => PhaseSeen = "calling"
                    /\ phase = "assessing" =>
                         PhaseSeen = IF mode = "graph" /\ Latest = "approval" THEN "blocked"
                                                                              ELSE "choosing"
                    /\ phase = "reporting" =>
                         PhaseSeen = IF reason = "approval_required" THEN "blocked"
                                                                     ELSE "choosing"
                    /\ phase = "failing" => PhaseSeen # "over"
                    /\ phase = "telling" =>
                         PhaseSeen = CASE status = "waiting_approval" -> "pausing"
                                       [] status \in {"failed", "cancelled"} -> "over"
                                       [] OTHER -> "ending"
                    /\ phase \in {"told", "over"} => PhaseSeen = "over"
  OBVIOUS
<1> USE LimitsAreNaturals
<1>1. CASE phase \in Preparing \union {"choosing", "looping", "acting"}
  BY <1>1 DEF PhaseSeen, Underway, Preparing, Ending, ViewInv, CallsInv, AskingInv, RowInv,
              ModeInv
<1>2. CASE phase \in {"calling", "executing"}
  BY <1>2 DEF PhaseSeen, Underway, Ending, ViewInv, CallsInv, AskingInv, RowInv, TypeOK
<1>3. CASE phase = "assessing"
  BY <1>3, RunAssumption
     DEF PhaseSeen, Underway, Asking, ViewInv, CallsInv, AskingInv, RowInv, ModeInv, TypeOK
<1>4. CASE phase = "reporting"
  <2>1. /\ ~Underway /\ status = "running"
        /\ Asking <=> reason = "approval_required"
    BY <1>4 DEF Underway, ViewInv, CallsInv, AskingInv, RowInv, ModeInv
  <2>. QED
    BY <1>4, <2>1 DEF PhaseSeen, Preparing, Asking
<1>5. CASE phase = "telling"
  <2>1. status \in {"waiting_approval", "handoff_required", "completed", "failed", "cancelled"}
    BY <1>5 DEF RowInv, Lifecycle!Settled
  <2>. QED
    BY <1>5, <2>1 DEF PhaseSeen, Preparing
<1>6. CASE phase \in {"failing", "told", "over"}
  BY <1>6 DEF PhaseSeen, ViewInv, AskingInv, RowInv, Preparing
<1>. QED
  BY <1>1, <1>2, <1>3, <1>4, <1>5, <1>6 DEF TypeOK, Phases, Preparing

(* The view depends on these alone.                                        *)
LEMMA ViewStutters ==
  ASSUME UNCHANGED <<mode, status, outcome, evidence, current>>,
         phase' \in {"told", "over"} <=> phase \in {"told", "over"}
  PROVE  UNCHANGED Approvals!vars
<1>1. UNCHANGED <<PhaseSeen, ToolSeen, CallsSeen, BlockedSeen, AskedSeen>>
  BY DEF PhaseSeen, ToolSeen, CallsSeen, BlockedSeen, AskedSeen, Asking, Underway, Executed,
         Latest
<1>. QED
  BY <1>1 DEF Approvals!vars, Approvals!fixedVars, Approvals!runVars, Approvals!callVars,
              Approvals!logVars, Approvals!actorVars, Approvals!historyVars

(* What a step leaves alone that writes the row's status only.             *)
LEMMA StatusView ==
  ASSUME UNCHANGED <<mode, outcome, evidence, current>>
  PROVE  UNCHANGED <<CallsSeen, BlockedSeen, AskedSeen, Asking, Underway>>
  BY DEF CallsSeen, BlockedSeen, AskedSeen, Asking, Underway, Executed, Latest

LEMMA FinishSeen ==
  ASSUME UNCHANGED <<mode, outcome, evidence, current>>, PhaseSeen = "choosing",
         PhaseSeen' = "ending", status' \in {"completed", "handoff_required"},
         status' = "handoff_required" => mode # "linear", status = "running"
  PROVE  Approvals!Finish
<1>1. ToolSeen = NoTool /\ ToolSeen' = NoTool
  BY DEF ToolSeen
<1>. QED
  BY <1>1, StatusView
     DEF Approvals!Finish, Approvals!fixedVars, Approvals!callVars, Approvals!logVars,
         Approvals!actorVars, Approvals!historyVars

LEMMA PauseSeen ==
  ASSUME UNCHANGED <<mode, outcome, evidence, current>>, PhaseSeen = "blocked",
         PhaseSeen' = "pausing", status' = "waiting_approval", status = "running"
  PROVE  Approvals!Pause
<1>1. ToolSeen' = ToolSeen
  BY DEF ToolSeen
<1>. QED
  BY <1>1, StatusView
     DEF Approvals!Pause, Approvals!fixedVars, Approvals!callVars, Approvals!logVars,
         Approvals!actorVars, Approvals!historyVars

(* The run returns, with its status as it was or written once more.        *)
LEMMA ReturnSeen ==
  ASSUME UNCHANGED <<mode, outcome, evidence, current>>, PhaseSeen' = "over",
         status = "cancelled" => status' = "cancelled"
  PROVE  Approvals!ReturnWith(status')
<1>1. ToolSeen' = NoTool
  BY DEF ToolSeen
<1>. QED
  BY <1>1, StatusView
     DEF Approvals!ReturnWith, Approvals!fixedVars, Approvals!callVars, Approvals!logVars,
         Approvals!actorVars

LEMMA TellSeen ==
  ASSUME TypeOK, RowInv, ModeInv, ViewInv, Tell
  PROVE  [Approvals!Next]_(Approvals!vars)
<1>1. /\ phase = "telling" /\ phase' = "told" /\ outcome = "none"
      /\ UNCHANGED <<mode, status, evidence, current>>
  BY DEF Tell, RowInv, fixedVars, toolVars
<1>2. PhaseSeen' = "over" /\ ToolSeen' = NoTool
  BY <1>1 DEF PhaseSeen, ToolSeen
<1>3. UNCHANGED <<CallsSeen, BlockedSeen>> /\ AskedSeen = {}
  BY <1>1 DEF CallsSeen, BlockedSeen, AskedSeen, Executed
<1>4. CASE status = "waiting_approval"
  <2>1. PhaseSeen = "pausing"
    BY <1>1, <1>4, PhasesSeen
  <2>2. AskedSeen' = {ToolSeen}
    BY <1>1, <1>4, <2>1 DEF Tell, OutcomeOf, AskedSeen, ToolSeen
  <2>3. Approvals!AskApproval
    BY <1>1, <1>2, <1>3, <2>1, <2>2
       DEF Approvals!AskApproval, Approvals!fixedVars, Approvals!logVars, Approvals!actorVars,
           Approvals!historyVars
  <2>. QED
    BY <2>3 DEF Approvals!Next, Approvals!RunStep
<1>5. CASE status # "waiting_approval"
  <2>1. status \in Lifecycle!Settled /\ (status = "failed" => cause \in {"timeout", "error"})
    BY <1>1 DEF RowInv
  <2>2. outcome' # "approval_required"
    BY <1>5, <2>1 DEF Tell, OutcomeOf, Lifecycle!Settled
  <2>3. AskedSeen' = {}
    BY <2>2 DEF AskedSeen
  <2>4. CASE status \in {"failed", "cancelled"}
    <3>1. PhaseSeen = "over" /\ ToolSeen = NoTool
      BY <1>1, <1>5, <2>4, PhasesSeen DEF ToolSeen
    <3>. QED
      BY <1>1, <1>2, <1>3, <2>3, <3>1
         DEF Approvals!vars, Approvals!fixedVars, Approvals!runVars, Approvals!callVars,
             Approvals!logVars, Approvals!actorVars, Approvals!historyVars
  <2>5. CASE status \notin {"failed", "cancelled"}
    <3>1. PhaseSeen = "ending"
      BY <1>1, <1>5, <2>5, PhasesSeen
    <3>2. Approvals!Tell
      BY <1>1, <1>2, <1>3, <2>3, <3>1
         DEF Approvals!Tell, Approvals!ReturnWith, Approvals!fixedVars, Approvals!callVars,
             Approvals!logVars, Approvals!actorVars
    <3>. QED
      BY <3>2 DEF Approvals!Next, Approvals!RunStep
  <2>. QED
    BY <2>4, <2>5
<1>. QED
  BY <1>4, <1>5

(* The tools in turn.                                                      *)
LEMMA CallSeen ==
  ASSUME TypeOK, RowInv, ModeInv, ViewInv, NEW t \in Tools, CallTool(t)
  PROVE  Approvals!CallTool(t)
<1> USE LimitsAreNaturals
<1>1. /\ phase = "choosing" /\ mode # "loop" /\ t \in todo /\ current' = t
      /\ UNCHANGED <<mode, status, outcome, evidence>> /\ status = "running"
      /\ phase' = "calling"
  BY DEF CallTool, ModeInv, RowInv, rowVars, fixedVars
<1>2. PhaseSeen = "choosing" /\ t \notin Executed \union {current}
  BY <1>1, PhasesSeen DEF ViewInv, CallsInv
<1>3. ~Asking
  BY <1>1 DEF ViewInv, AskingInv, Ending
<1>4. ~Asking' /\ Executed' = Executed
  BY <1>1, <1>3 DEF Asking, Latest, Executed
<1>5. PhaseSeen' = "calling" /\ ToolSeen' = t
  BY <1>1, <1>2, <1>4 DEF PhaseSeen, ToolSeen, Underway
<1>6. current \in Executed \union {NoTool}
  BY <1>1 DEF ViewInv, CallsInv
<1>7. t \notin CallsSeen /\ CallsSeen' = CallsSeen \union {t}
  BY <1>1, <1>2, <1>4, <1>6 DEF CallsSeen
<1>8. BlockedSeen' = BlockedSeen
  <2>1. \A i \in DOMAIN evidence : evidence[i].tool # t
    BY <1>2 DEF Executed
  <2>. QED
    BY <1>1, <1>7, <2>1 DEF BlockedSeen
<1>9. UNCHANGED AskedSeen
  BY <1>1 DEF AskedSeen
<1>. QED
  BY <1>1, <1>2, <1>5, <1>7, <1>8, <1>9
     DEF Approvals!CallTool, Approvals!fixedVars, Approvals!logVars, Approvals!actorVars,
         Approvals!historyVars

LEMMA EndSeen ==
  ASSUME TypeOK, RowInv, ModeInv, ViewInv, NEW q \in Qualities, EndTool(q)
  PROVE  Approvals!ToolReturns \/ Approvals!ToolBlocked
<1> USE LimitsAreNaturals
<1>1. /\ phase = "executing" /\ mode # "loop" /\ current \in Tools \ Executed
      /\ UNCHANGED <<mode, status, outcome, current>> /\ status = "running"
      /\ phase' = "assessing" /\ outcome = "none"
      /\ evidence' = Append(evidence, [tool |-> current, quality |-> q])
  BY DEF EndTool, ModeInv, RowInv, TypeOK, ViewInv, CallsInv, rowVars, fixedVars, toolVars
<1>2. PhaseSeen = "calling" /\ ToolSeen = current
  BY <1>1, PhasesSeen DEF ToolSeen
<1>3. /\ Executed' = Executed \union {current} /\ evidence' # <<>> /\ Latest' = q
      /\ evidence'[Len(evidence')].tool = current
  BY <1>1, ExecutedGrows
<1>4. CallsSeen' = CallsSeen
  BY <1>1, <1>3 DEF CallsSeen
<1>5. UNCHANGED AskedSeen
  BY <1>1 DEF AskedSeen
<1>6. BlockedSeen' = IF q = "approval" THEN BlockedSeen \union {current} ELSE BlockedSeen
  <2>1. /\ DOMAIN evidence' = DOMAIN evidence \union {Len(evidence) + 1}
        /\ \A i \in DOMAIN evidence : evidence'[i] = evidence[i]
        /\ evidence'[Len(evidence) + 1] = [tool |-> current, quality |-> q]
    BY <1>1, AppendedEvidence
  <2>2. current \in CallsSeen
    BY <1>1 DEF CallsSeen
  <2>3. ASSUME NEW t \in CallsSeen
        PROVE  (\E i \in DOMAIN evidence' : evidence'[i] = [tool |-> t, quality |-> "approval"])
               <=> \/ \E i \in DOMAIN evidence :
                         evidence[i] = [tool |-> t, quality |-> "approval"]
                   \/ q = "approval" /\ t = current
    BY <2>1
  <2>. QED
    BY <1>4, <2>2, <2>3 DEF BlockedSeen
<1>7. Asking' <=> q = "approval" /\ mode # "linear"
  BY <1>1, <1>3 DEF Asking
<1>8. ~Underway'
  BY <1>1, <1>3 DEF Underway
<1>9. mode \in {"graph", "linear"}
  BY <1>1, RunAssumption DEF TypeOK
<1>10. CASE q = "approval" /\ mode = "graph"
  <2>1. PhaseSeen' = "blocked" /\ ToolSeen' = current
    BY <1>1, <1>3, <1>7, <1>10 DEF PhaseSeen, ToolSeen
  <2>. QED
    BY <1>1, <1>2, <1>4, <1>5, <1>6, <1>10, <2>1
       DEF Approvals!ToolBlocked, Approvals!fixedVars, Approvals!logVars, Approvals!actorVars,
           Approvals!historyVars
<1>11. CASE ~(q = "approval" /\ mode = "graph")
  <2>1. PhaseSeen' = "choosing" /\ ToolSeen' = NoTool
    BY <1>1, <1>7, <1>8, <1>9, <1>11 DEF PhaseSeen, ToolSeen
  <2>2. CASE q = "approval"
    BY <1>1, <1>2, <1>4, <1>5, <1>6, <1>11, <2>1, <2>2
       DEF Approvals!ToolBlocked, Approvals!fixedVars, Approvals!logVars, Approvals!actorVars,
           Approvals!historyVars
  <2>3. CASE q # "approval"
    BY <1>1, <1>2, <1>4, <1>5, <1>6, <2>1, <2>3
       DEF Approvals!ToolReturns, Approvals!fixedVars, Approvals!callVars, Approvals!logVars,
           Approvals!actorVars, Approvals!historyVars
  <2>. QED
    BY <2>2, <2>3
<1>. QED
  BY <1>10, <1>11

(* A step of the loop shows nothing unless its tool needs approval.        *)
LEMMA LoopActSeen ==
  ASSUME TypeOK, RowInv, ModeInv, ViewInv, LoopAct
  PROVE  [Approvals!Next]_(Approvals!vars)
<1> USE LimitsAreNaturals
<1>1. /\ phase = "acting" /\ mode = "loop" /\ current = NoTool /\ status = "running"
      /\ UNCHANGED <<mode, status, outcome, current>> /\ outcome = "none"
      /\ decision.tool \in Tools
  BY DEF LoopAct, ModeInv, RowInv, TypeOK, ViewInv, CallsInv, CallsTool, DecisionSet, rowVars,
         fixedVars, toolVars
<1>2. PICK q \in Qualities :
        /\ evidence' = Append(evidence, [tool |-> decision.tool, quality |-> q])
        /\ phase' \in {"looping", "reporting"}
  BY LimitsAreNaturals DEF LoopAct
<1>3. /\ evidence' # <<>> /\ Latest' = q
      /\ evidence'[Len(evidence')].tool = decision.tool
  BY <1>1, <1>2, ExecutedGrows
<1>4. PhaseSeen = "choosing" /\ ToolSeen = NoTool
  BY <1>1, PhasesSeen DEF ToolSeen
<1>5. UNCHANGED <<CallsSeen, BlockedSeen, AskedSeen>>
  BY <1>1 DEF CallsSeen, BlockedSeen, AskedSeen
<1>6. Asking' <=> q = "approval"
  BY <1>1, <1>3 DEF Asking
<1>7. ~Underway'
  BY <1>1 DEF Underway
<1>8. CASE q = "approval"
  <2>1. PhaseSeen' = "blocked" /\ ToolSeen' = decision.tool
    BY <1>1, <1>2, <1>3, <1>6, <1>8 DEF PhaseSeen, ToolSeen
  <2>2. Approvals!LoopBlocked(decision.tool)
    BY <1>1, <1>4, <1>5, <2>1
       DEF Approvals!LoopBlocked, Approvals!fixedVars, Approvals!callVars, Approvals!logVars,
           Approvals!actorVars, Approvals!historyVars
  <2>. QED
    BY <1>1, <2>2 DEF Approvals!Next, Approvals!RunStep
<1>9. CASE q # "approval"
  <2>1. PhaseSeen' = "choosing" /\ ToolSeen' = NoTool
    BY <1>1, <1>2, <1>6, <1>7, <1>9 DEF PhaseSeen, ToolSeen
  <2>. QED
    BY <1>1, <1>4, <1>5, <2>1
       DEF Approvals!vars, Approvals!fixedVars, Approvals!runVars, Approvals!callVars,
           Approvals!logVars, Approvals!actorVars, Approvals!historyVars
<1>. QED
  BY <1>8, <1>9

(* Every step of the run is a step of the runtime of ApprovalWorkflow, or  *)
(* shows nothing to those who approve its tools.                           *)
LEMMA ViewStep ==
  ASSUME TypeOK, RowInv, ModeInv, ViewInv, TypeOK', RowInv', ModeInv', ViewInv', [Next]_vars
  PROVE  [Approvals!Next]_(Approvals!vars)
<1> USE ConfigurationFixed
<1>1. ASSUME UNCHANGED <<mode, status, outcome, evidence, current>>,
             phase' \in {"told", "over"} <=> phase \in {"told", "over"}
      PROVE  [Approvals!Next]_(Approvals!vars)
  BY <1>1, ViewStutters
<1>2. (TypeOK /\ RowInv /\ ModeInv /\ ViewInv =>
         /\ phase = "telling" =>
              PhaseSeen = CASE status = "waiting_approval" -> "pausing"
                            [] status \in {"failed", "cancelled"} -> "over"
                            [] OTHER -> "ending"
         /\ phase \in {"told", "over"} => PhaseSeen = "over")'
  BY PhasesSeen, PTL
<1>3. ASSUME NEW s \in {"completed", "handoff_required"}, Settle(s), PhaseSeen = "choosing",
             UNCHANGED <<evidence, current>>, s = "handoff_required" => mode # "linear",
             status = "running"
      PROVE  [Approvals!Next]_(Approvals!vars)
  <2>1. PhaseSeen' = "ending"
    BY <1>2, <1>3 DEF Settle
  <2>2. Approvals!Finish
    BY <1>3, <2>1, FinishSeen DEF Settle
  <2>. QED
    BY <2>2 DEF Approvals!Next, Approvals!RunStep
<1>4. ASSUME Settle("waiting_approval"), PhaseSeen = "blocked", UNCHANGED <<evidence, current>>,
             status = "running"
      PROVE  [Approvals!Next]_(Approvals!vars)
  <2>1. PhaseSeen' = "pausing"
    BY <1>2, <1>4 DEF Settle
  <2>2. Approvals!Pause
    BY <1>4, <2>1, PauseSeen DEF Settle
  <2>. QED
    BY <2>2 DEF Approvals!Next, Approvals!RunStep
<1>5. CASE Start \/ Plan \/ DecideOnce \/ BeginTool \/ LoopDecide \/ LoopNote \/ LoopEnds
  <2>1. UNCHANGED <<status, outcome, evidence, current>> /\ phase \notin {"told", "over"}
    BY <1>5 DEF Start, Plan, DecideOnce, BeginTool, LoopDecide, LoopNote, LoopEnds, rowVars,
                toolVars
  <2>2. phase' \notin {"told", "over"}
    BY <1>5, RunAssumption DEF Start, Plan, DecideOnce, BeginTool, LoopDecide, LoopNote,
                               LoopEnds, TypeOK
  <2>. QED
    BY <1>1, <2>1, <2>2
<1>6. CASE SelectTools \/ LoadTools
  <2>1. /\ UNCHANGED <<evidence, current>> /\ phase \in {"selecting", "loading"}
        /\ \/ Settle("completed")
           \/ UNCHANGED <<status, outcome>> /\ phase' \in {"loading", "choosing"}
    BY <1>6 DEF SelectTools, LoadTools, rowVars
  <2>2. PhaseSeen = "choosing" /\ status = "running"
    BY <2>1, PhasesSeen DEF Preparing, RowInv
  <2>. QED
    BY <1>1, <1>3, <2>1, <2>2
<1>7. ASSUME NEW t \in Tools, CallTool(t) PROVE [Approvals!Next]_(Approvals!vars)
  BY <1>7, CallSeen DEF Approvals!Next, Approvals!RunStep
<1>8. ASSUME NEW q \in Qualities, EndTool(q) PROVE [Approvals!Next]_(Approvals!vars)
  BY <1>8, EndSeen DEF Approvals!Next, Approvals!RunStep
<1>9. CASE Assess
  <2>1. UNCHANGED <<evidence, current>> /\ phase = "assessing" /\ status = "running"
    BY <1>9 DEF Assess, RowInv
  <2>2. CASE mode = "graph" /\ Latest = "approval"
    BY <1>4, <1>9, <2>1, <2>2, PhasesSeen DEF Assess
  <2>3. CASE ~(mode = "graph" /\ Latest = "approval")
    <3>1. PhaseSeen = "choosing"
      BY <2>1, <2>3, PhasesSeen
    <3>2. \/ Settle("handoff_required") /\ mode = "graph"
          \/ UNCHANGED <<status, outcome>> /\ phase' = "choosing"
      BY <1>9, <2>3 DEF Assess, rowVars
    <3>. QED
      BY <1>1, <1>3, <2>1, <3>1, <3>2
  <2>. QED
    BY <2>2, <2>3
<1>10. CASE Finish
  <2>1. UNCHANGED <<evidence, current>> /\ PhaseSeen = "choosing" /\ status = "running"
    BY <1>10, PhasesSeen DEF Finish, toolVars, RowInv
  <2>2. Settle("completed") \/ (Settle("handoff_required") /\ mode = "graph")
    BY <1>10 DEF Finish, BudgetExhausted
  <2>. QED
    BY <1>3, <2>1, <2>2
<1>11. CASE LoopAct
  BY <1>11, LoopActSeen
<1>12. CASE LoopReport
  <2>1. /\ UNCHANGED <<evidence, current>> /\ phase = "reporting" /\ status = "running"
        /\ mode = "loop"
    BY <1>12 DEF LoopReport, toolVars, RowInv, ModeInv
  <2>2. CASE reason = "approval_required"
    BY <1>4, <1>12, <2>1, <2>2, PhasesSeen DEF LoopReport
  <2>3. CASE reason # "approval_required"
    <3>1. PhaseSeen = "choosing"
      BY <2>1, <2>3, PhasesSeen
    <3>2. Settle("handoff_required") \/ Settle("completed")
      BY <1>12, <2>3 DEF LoopReport
    <3>. QED
      BY <1>3, <2>1, <3>1, <3>2
  <2>. QED
    BY <2>2, <2>3
<1>13. CASE MarkFailed
  <2>1. /\ UNCHANGED <<outcome, evidence, current>> /\ status' = "failed" /\ phase' = "telling"
        /\ PhaseSeen # "over" /\ status # "cancelled"
    BY <1>13, PhasesSeen DEF MarkFailed, Settle, toolVars, ViewInv, AskingInv
  <2>2. PhaseSeen' = "over"
    BY <1>2, <2>1
  <2>3. Approvals!RunFails
    BY <2>1, <2>2, ReturnSeen DEF Approvals!RunFails
  <2>. QED
    BY <2>3 DEF Approvals!Next, Approvals!RunStep
<1>14. CASE Tell
  BY <1>14, TellSeen
<1>15. CASE Cancel
  <2>1. /\ UNCHANGED <<outcome, evidence, current>> /\ status' = "cancelled"
        /\ phase' = "telling" /\ phase \in {"loading", "executing"} /\ outcome = "none"
    BY <1>15 DEF Cancel, Awaiting, Settle, toolVars, RowInv
  <2>2. PhaseSeen' = "over"
    BY <1>2, <2>1
  <2>3. PhaseSeen = "calling" \/ (PhaseSeen = "choosing" /\ CallsSeen = {})
    BY <2>1, PhasesSeen DEF Preparing, CallsSeen, Executed, ViewInv, CallsInv
  <2>4. Approvals!RunCancelled
    BY <2>1, <2>2, <2>3, ReturnSeen DEF Approvals!RunCancelled
  <2>. QED
    BY <2>4 DEF Approvals!Next, Approvals!RunStep
<1>16. CASE Return \/ Disconnect \/ Break
  <2>1. UNCHANGED <<status, outcome, evidence, current>> /\ phase' = "over"
    BY <1>16 DEF Return, Disconnect, Break, rowVars, toolVars
  <2>2. CASE phase \in {"told", "over"}
    BY <1>1, <2>1, <2>2
  <2>3. CASE phase \notin {"told", "over"} /\ PhaseSeen = "over"
    <3>1. PhaseSeen' = "over"
      BY <1>2, <2>1
    <3>2. UNCHANGED <<PhaseSeen, ToolSeen>> /\ UNCHANGED <<CallsSeen, BlockedSeen, AskedSeen>>
      BY <2>1, <2>3, <3>1, StatusView DEF ToolSeen
    <3>. QED
      BY <2>1, <3>2
         DEF Approvals!vars, Approvals!fixedVars, Approvals!runVars, Approvals!callVars,
             Approvals!logVars, Approvals!actorVars, Approvals!historyVars
  <2>4. CASE PhaseSeen # "over"
    <3>1. PhaseSeen' = "over"
      BY <1>2, <2>1
    <3>2. Approvals!ReturnWith(status)
      BY <2>1, <3>1, ReturnSeen
    <3>. QED
      BY <2>4, <3>2 DEF Approvals!Disconnect, Approvals!Next, Approvals!RunStep
  <2>. QED
    BY <2>2, <2>3, <2>4
<1>17. CASE TimesOut \/ StepFails \/ ProviderFails \/ InterventionFails
  <2>1. UNCHANGED <<status, outcome, evidence, current>> /\ phase' = "failing"
        /\ phase \notin {"told", "over"}
    BY <1>17 DEF TimesOut, StepFails, ProviderFails, InterventionFails, LoopFails, toolVars
  <2>. QED
    BY <1>1, <2>1
<1>18. CASE Expire \/ \E kind \in {"context", "replace"}, t \in Tools : Intervene(kind, t)
  BY <1>1, <1>18 DEF Expire, Intervene, rowVars, toolVars
<1>19. CASE UNCHANGED vars
  BY <1>1, <1>19 DEF vars, rowVars, toolVars
<1>. QED
  BY <1>5, <1>6, <1>7, <1>8, <1>9, <1>10, <1>11, <1>12, <1>13, <1>14, <1>15, <1>16, <1>17,
     <1>18, <1>19 DEF Next, Runtime, Environment

(* What approvals, rejections, expiries and resumes are proved to find in  *)
(* ApprovalWorkflow is what the runtime really leaves in row and log.      *)
THEOREM ImplementsApprovalRuntime == Spec => Approvals!Spec
<1>1. Init => Approvals!Init
  <2>. SUFFICES ASSUME Init PROVE Approvals!Init
    OBVIOUS
  <2>1. PhaseSeen = "choosing" /\ ToolSeen = NoTool
    BY LimitsAreNaturals DEF Init, PhaseSeen, ToolSeen, Asking, Underway
  <2>2. CallsSeen = {} /\ BlockedSeen = {} /\ AskedSeen = {}
    BY DEF Init, CallsSeen, BlockedSeen, AskedSeen, Executed
  <2>3. {} \union {} = {}
    OBVIOUS
  <2>. QED
    BY <2>1, <2>2, <2>3 DEF Init, Approvals!Init, Approvals!Actors, Approvals!NoWish
<1>2. /\ TypeOK /\ RowInv /\ EvidenceInv /\ ViewInv
      /\ TypeOK' /\ RowInv' /\ EvidenceInv' /\ ViewInv'
      /\ [Next]_vars
      => [Approvals!Next]_(Approvals!vars)
  BY ViewStep DEF EvidenceInv
<1>. QED
  BY <1>1, <1>2, TypeCorrect, RowInvariant, EvidenceInvariant, ViewInvariant, PTL
     DEF Spec, Approvals!Spec

(* The run keeps both promises, of its own life cycle and of the runtime   *)
(* that its approvals rely on.                                             *)
THEOREM ImplementsItsViews == Spec => LifecycleSpec
  BY ImplementsRunLifecycle, ImplementsApprovalRuntime, PTL DEF LifecycleSpec
=============================================================================
