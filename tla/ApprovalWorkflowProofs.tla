----------------------- MODULE ApprovalWorkflowProofs -----------------------
(***************************************************************************)
(* Theorems about ApprovalWorkflow, for any tools, requests and workers,   *)
(* any modes and backends and any bounds.                                  *)
(***************************************************************************)
EXTENDS ApprovalWorkflow, FiniteSetTheorems, FunctionTheorems, SequenceTheorems, TLAPS

LEMMA NoToolIsNone == NoTool \notin Tools
  BY ApprovalAssumption

(* A wish to decide something differs from no wish by its decision.        *)
LEMMA WishIsNotNoWish ==
  ASSUME NEW t, NEW d \in {"approved", "rejected"}
  PROVE  [tool |-> t, decision |-> d] # NoWish
<1>1. [tool |-> t, decision |-> d].decision # NoWish.decision
  BY DEF NoWish
<1>. QED
  BY <1>1
----------------------------------------------------------------------------
(* The three parts of the type invariant, one step at a time.              *)

LEMMA RunTyped ==
  ASSUME RunTypeOK, [Next]_vars
  PROVE  RunTypeOK'
<1> USE NoToolIsNone DEF RunTypeOK, RunStatuses, Phases
<1>1. ASSUME NEW t \in Tools, CallTool(t) PROVE RunTypeOK'
  BY <1>1 DEF CallTool, fixedVars
<1>2. ASSUME NEW t \in Tools, LoopBlocked(t) PROVE RunTypeOK'
  BY <1>2 DEF LoopBlocked, fixedVars, callVars
<1>3. CASE ToolReturns
  BY <1>3 DEF ToolReturns, fixedVars, callVars
<1>4. CASE ToolBlocked
  BY <1>4 DEF ToolBlocked, fixedVars
<1>5. CASE Pause
  BY <1>5 DEF Pause, fixedVars, callVars
<1>6. CASE AskApproval
  BY <1>6 DEF AskApproval, fixedVars
<1>7. ASSUME NEW s \in RunStatuses, ReturnWith(s) PROVE RunTypeOK'
  BY <1>7 DEF ReturnWith, fixedVars, callVars
<1>8. ASSUME NEW t \in Tools, GrowLate(t) PROVE RunTypeOK'
  BY <1>8 DEF GrowLate, fixedVars, runVars
<1>9. CASE UNCHANGED <<fixedVars, runVars, callVars>>
  BY <1>9 DEF fixedVars, runVars, callVars
<1>10. ASSUME NEW a \in Actors, HandOff(a) PROVE RunTypeOK'
  BY <1>10 DEF HandOff, fixedVars, callVars
<1>11. ASSUME NEW a \in Actors, ActorStep(a) \/ Stop(a), ~HandOff(a)
       PROVE  UNCHANGED <<fixedVars, runVars, callVars>>
  BY <1>11 DEF ActorStep, Expire, ReportHandoff, Check, Decide, PushResume, NoteResume, Admit,
               Authorize, Locate, NoteEvaluation, Execute, CallAgain, Retry, Attempt, Conclude,
               AppendResult, Stop
<1>12. ASSUME NEW r \in Requests, Arrival(r)
       PROVE  UNCHANGED <<fixedVars, runVars, callVars>>
  BY <1>12 DEF Arrival, ListApprovals, DecideApproval, ResumeApproval, Arrive
<1>13. ASSUME NEW w \in Workers, Pop(w)
       PROVE  UNCHANGED <<fixedVars, runVars, callVars>>
  BY <1>13 DEF Pop
<1>14. CASE Tell \/ RunFails \/ RunCancelled \/ Disconnect
  BY <1>7, <1>14 DEF Tell, RunFails, RunCancelled, Disconnect
<1>15. CASE Finish
  BY <1>15 DEF Finish, fixedVars, callVars
<1>16. CASE UNCHANGED vars
  BY <1>9, <1>16 DEF vars
<1>. QED
  BY <1>1, <1>2, <1>3, <1>4, <1>5, <1>6, <1>8, <1>9, <1>10, <1>11, <1>12, <1>13, <1>14, <1>15,
     <1>16
     DEF Next, RunStep

(* What a run step and the passing of time leave to the others.            *)
LEMMA RunStepFrame ==
  ASSUME RunStep \/ \E t \in Tools : GrowLate(t)
  PROVE  UNCHANGED <<logVars, queue, actorVars, invoked, extra, raced, lost, arrivals, faults>>
  BY DEF RunStep, CallTool, LoopBlocked, ToolReturns, ToolBlocked, Pause, AskApproval, Finish,
         Tell, RunFails, RunCancelled, Disconnect, ReturnWith, GrowLate, historyVars

LEMMA ActorTyped ==
  ASSUME RunTypeOK, LogTypeOK, ActorTypeOK, [Next]_vars
  PROVE  ActorTypeOK'
<1> USE NoToolIsNone DEF ActorTypeOK, ActorStates, Holding
<1>1. CASE UNCHANGED actorVars
  BY <1>1 DEF actorVars
<1>2. ASSUME NEW r \in Requests, ListApprovals(r) PROVE ActorTypeOK'
  BY <1>2 DEF ListApprovals, Arrive, Actors, Expirable, RunTypeOK
<1>3. ASSUME NEW r \in Requests, NEW t \in Tools, NEW d \in {"approved", "rejected"},
             DecideApproval(r, t, d)
      PROVE  ActorTypeOK'
  BY <1>3 DEF DecideApproval, Arrive, Actors, Expirable, RunTypeOK
<1>4. ASSUME NEW r \in Requests, NEW t \in Tools, ResumeApproval(r, t) PROVE ActorTypeOK'
  BY <1>4 DEF ResumeApproval, Arrive, Actors
<1>5. ASSUME NEW w \in Workers, Pop(w) PROVE ActorTypeOK'
  <2>1. Head(queue) \in Tools
    BY <1>5 DEF Pop, LogTypeOK
  <2>. QED
    BY <1>5, <2>1 DEF Pop, Actors
<1>6. ASSUME NEW a \in Actors, Expire(a) PROVE ActorTypeOK'
  BY <1>6 DEF Expire
<1>7. ASSUME NEW a \in Actors, ReportHandoff(a) PROVE ActorTypeOK'
  BY <1>7 DEF ReportHandoff
<1>8. ASSUME NEW a \in Actors, HandOff(a) PROVE ActorTypeOK'
  BY <1>8 DEF HandOff
<1>9. ASSUME NEW a \in Actors, Check(a) PROVE ActorTypeOK'
  <2>1. UNCHANGED <<expiring, note, effort>> /\ expiring[a] = {} /\ note[a] = "none"
    BY <1>9 DEF Check
  <2>2. CASE wish[a] # NoWish /\ ~Decided(wish[a].tool)
    <3>1. wish[a].tool \in Tools /\ UNCHANGED wish
      BY <1>9, <2>2 DEF Check
    <3>2. /\ astate' = [astate EXCEPT ![a] = "deciding"]
          /\ subject' = [subject EXCEPT ![a] = wish[a].tool]
      BY <1>9, <2>2 DEF Check
    <3>3. /\ astate' \in [Actors -> ActorStates]
          /\ subject' \in [Actors -> Tools \union {NoTool}]
          /\ astate'[a] = "deciding" /\ subject'[a] = wish[a].tool
          /\ \A b \in Actors \ {a} : astate'[b] = astate[b] /\ subject'[b] = subject[b]
      BY <3>1, <3>2
    <3>. QED
      BY <2>1, <2>2, <3>1, <3>3
  <2>3. CASE ~(wish[a] # NoWish /\ ~Decided(wish[a].tool))
    BY <1>9, <2>1, <2>3 DEF Check
  <2>. QED
    BY <2>2, <2>3
<1>10. ASSUME NEW a \in Actors, Decide(a) PROVE ActorTypeOK'
  BY <1>10 DEF Decide
<1>11. ASSUME NEW a \in Actors, PushResume(a) PROVE ActorTypeOK'
  <2>1. PICK s \in {"queued", "enqueue_failed", "deferred"} : note' = [note EXCEPT ![a] = s]
    BY <1>11 DEF PushResume
  <2>. QED
    BY <1>11, <2>1 DEF PushResume, ResumeStatuses
<1>12. ASSUME NEW a \in Actors, NoteResume(a) PROVE ActorTypeOK'
  BY <1>12 DEF NoteResume
<1>13. ASSUME NEW a \in Actors, Admit(a) PROVE ActorTypeOK'
  BY <1>13 DEF Admit, Leave, GoOn
<1>14. ASSUME NEW a \in Actors, Authorize(a) PROVE ActorTypeOK'
  BY <1>14 DEF Authorize, Leave, GoOn
<1>15. ASSUME NEW a \in Actors, Locate(a) PROVE ActorTypeOK'
  <2>1. PICK s \in {"original_action_missing", "ready_for_resume", "checkpoint_missing"} :
           note' = [note EXCEPT ![a] = s]
    BY <1>15 DEF Locate
  <2>. QED
    BY <1>15, <2>1 DEF Locate, ResumeStatuses
<1>16. ASSUME NEW a \in Actors, NoteEvaluation(a) PROVE ActorTypeOK'
  BY <1>16 DEF NoteEvaluation, Leave, GoOn
<1>17. ASSUME NEW a \in Actors, Execute(a) PROVE ActorTypeOK'
  <2>1. subject[a] \in Tools /\ Len(invoked[subject[a]]) \in Nat
    BY <1>17 DEF Execute, LogTypeOK
  <2>2. effort' \in [Actors -> [execution : Nat, attempt : Nat, try : Nat]]
    <3>1. [execution |-> Len(invoked[subject[a]]) + 1, attempt |-> 1, try |-> 1]
            \in [execution : Nat, attempt : Nat, try : Nat]
      BY <2>1
    <3>2. \/ effort' = effort
          \/ effort' = [effort EXCEPT ![a] = [execution |-> Len(invoked[subject[a]]) + 1,
                                              attempt |-> 1, try |-> 1]]
      BY <1>17 DEF Execute
    <3>. QED
      BY <3>1, <3>2
  <2>3. UNCHANGED <<wish, expiring, note, subject>>
    BY <1>17 DEF Execute, GoOn
  <2>4. astate' \in {[astate EXCEPT ![a] = s] : s \in {"trying", "resulting"}}
    BY <1>17 DEF Execute, GoOn
  <2>. QED
    BY <1>17, <2>1, <2>2, <2>3, <2>4 DEF Execute
<1>21. ASSUME NEW a \in Actors, Retry(a) \/ Attempt(a) PROVE ActorTypeOK'
  <2>1. PICK n \in Nat, m \in Nat : CallAgain(a, n, m)
    BY <1>21 DEF Retry, Attempt
  <2>2. UNCHANGED <<wish, expiring, note, subject, astate>>
    BY <2>1 DEF CallAgain
  <2>3. effort' \in [Actors -> [execution : Nat, attempt : Nat, try : Nat]]
    BY <2>1 DEF CallAgain
  <2>. QED
    BY <2>2, <2>3
<1>22. ASSUME NEW a \in Actors, Conclude(a) PROVE ActorTypeOK'
  BY <1>22 DEF Conclude, GoOn, NoEffort
<1>18. ASSUME NEW a \in Actors, AppendResult(a) PROVE ActorTypeOK'
  BY <1>18 DEF AppendResult, Leave
<1>19. ASSUME NEW a \in Actors, Stop(a) PROVE ActorTypeOK'
  BY <1>19 DEF Stop, NoEffort
<1>20. CASE UNCHANGED vars
  BY <1>1, <1>20 DEF vars
<1>. QED
  BY <1>1, <1>2, <1>3, <1>4, <1>5, <1>6, <1>7, <1>8, <1>9, <1>10, <1>11, <1>12, <1>13, <1>14,
     <1>15, <1>16, <1>17, <1>18, <1>19, <1>20, <1>21, <1>22, RunStepFrame
     DEF Next, Arrival, ActorStep

(* A call counted in a sequence of counts.                                 *)
LEMMA CallCounted ==
  ASSUME NEW s \in Seq(Nat \ {0}), NEW k
  PROVE  /\ OneMore(s, k) \in Seq(Nat \ {0})
         /\ Len(OneMore(s, k)) = Len(s)
         /\ \A i \in 1 .. Len(s) : OneMore(s, k)[i] = IF i = k THEN s[i] + 1 ELSE s[i]
<1>. DEFINE c == [i \in 1 .. Len(s) |-> IF i = k THEN s[i] + 1 ELSE s[i]]
<1>1. Len(s) \in Nat /\ DOMAIN s = 1 .. Len(s) /\ \A i \in 1 .. Len(s) : s[i] \in Nat \ {0}
  OBVIOUS
<1>2. OneMore(s, k) = c
  BY <1>1 DEF OneMore
<1>3. \A i \in 1 .. Len(s) : c[i] \in Nat \ {0}
  BY <1>1
<1>4. c \in Seq(Nat \ {0}) /\ Len(c) = Len(s)
  BY <1>1, <1>3, IsASeq, LenProperties
<1>. QED
  BY <1>2, <1>4

(* A further call leaves the number of executions alone.                   *)
LEMMA CallsAgain ==
  ASSUME LogTypeOK, ActorTypeOK, NEW a \in Actors, Retry(a) \/ Attempt(a)
  PROVE  /\ subject[a] \in Tools
         /\ invoked' \in [Tools -> Seq(Nat \ {0})]
         /\ \A t \in Tools : Len(invoked'[t]) = Len(invoked[t])
         /\ \A t \in Tools \ {subject[a]} : invoked'[t] = invoked[t]
         /\ \A i \in 1 .. Len(invoked[subject[a]]) :
              invoked'[subject[a]][i] = IF i = effort[a].execution
                                        THEN invoked[subject[a]][i] + 1
                                        ELSE invoked[subject[a]][i]
<1>1. PICK n \in Nat, m \in Nat : CallAgain(a, n, m)
  BY DEF Retry, Attempt, ActorTypeOK
<1>2. subject[a] \in Tools
  BY <1>1 DEF CallAgain, ActorTypeOK, Holding
<1>3. invoked' = [invoked EXCEPT ![subject[a]] =
                    OneMore(invoked[subject[a]], effort[a].execution)]
  BY <1>1 DEF CallAgain
<1>. DEFINE before == invoked[subject[a]]
            after == OneMore(before, effort[a].execution)
<1>4. invoked \in [Tools -> Seq(Nat \ {0})] /\ before \in Seq(Nat \ {0})
  BY <1>2 DEF LogTypeOK
<1>5. /\ after \in Seq(Nat \ {0}) /\ Len(after) = Len(before)
      /\ \A i \in 1 .. Len(before) :
           after[i] = IF i = effort[a].execution THEN before[i] + 1 ELSE before[i]
  BY <1>4, CallCounted
<1>6. invoked' = [invoked EXCEPT ![subject[a]] = after]
  BY <1>3
<1>. HIDE DEF after
<1>7. invoked'[subject[a]] = after /\ \A t \in Tools \ {subject[a]} : invoked'[t] = invoked[t]
  BY <1>2, <1>4, <1>6
<1>. QED
  BY <1>2, <1>4, <1>5, <1>6, <1>7

LEMMA LogTyped ==
  ASSUME RunTypeOK, LogTypeOK, ActorTypeOK, [Next]_vars
  PROVE  LogTypeOK'
<1> USE DEF LogTypeOK, Decisions, ResumeStatuses
<1>1. CASE UNCHANGED <<logVars, queue, historyVars, arrivals, faults>>
  BY <1>1 DEF logVars, historyVars
<1>2. CASE RunStep \/ \E t \in Tools : GrowLate(t)
  <2>1. cancelled' \in BOOLEAN
    <3>1. ASSUME NEW s, ReturnWith(s) PROVE cancelled' \in BOOLEAN
      BY <3>1 DEF ReturnWith
    <3>2. CASE \E s : ReturnWith(s)
      BY <3>1, <3>2
    <3>3. CASE UNCHANGED historyVars
      BY <3>3 DEF historyVars
    <3>. QED
      BY <1>2, <3>2, <3>3
         DEF RunStep, CallTool, LoopBlocked, ToolReturns, ToolBlocked, Pause, AskApproval,
             Finish, Tell, RunFails, RunCancelled, Disconnect, GrowLate
  <2>. QED
    BY <1>2, <2>1, RunStepFrame DEF logVars
<1>3. ASSUME NEW r \in Requests, Arrival(r) PROVE LogTypeOK'
  <2>1. /\ Arrive(r)
        /\ extra' = extra \/ \E t \in Tools : extra' = [extra EXCEPT ![t] = @ + 1]
    BY <1>3 DEF Arrival, ListApprovals, DecideApproval, ResumeApproval
  <2>2. extra' \in [Tools -> Nat]
    <3>1. CASE extra' = extra
      BY <3>1
    <3>2. ASSUME NEW t \in Tools, extra' = [extra EXCEPT ![t] = @ + 1]
          PROVE  extra' \in [Tools -> Nat]
      BY <3>2
    <3>. QED
      BY <2>1, <3>1, <3>2
  <2>. QED
    BY <2>1, <2>2 DEF Arrive, logVars
<1>4. ASSUME NEW w \in Workers, Pop(w) PROVE LogTypeOK'
  BY <1>4 DEF Pop, logVars, historyVars
<1>5. ASSUME NEW a \in Actors, NEW t \in Tools, NEW d \in Decisions, AppendDecision(a, t, d)
      PROVE  decisions' \in [Tools -> Seq(Decisions)] /\ raced' \subseteq Tools
  <2>1. Append(decisions[t], d) \in Seq(Decisions)
    OBVIOUS
  <2>. QED
    BY <1>5, <2>1 DEF AppendDecision
<1>6. ASSUME NEW a \in Actors, Expire(a) PROVE LogTypeOK'
  BY <1>5, <1>6 DEF Expire, ActorTypeOK
<1>7. ASSUME NEW a \in Actors, Decide(a) PROVE LogTypeOK'
  <2>1. subject[a] \in Tools /\ wish[a].decision \in Decisions
    BY <1>7 DEF Decide, ActorTypeOK, Holding
  <2>. QED
    BY <1>5, <1>7, <2>1 DEF Decide
<1>8. ASSUME NEW a \in Actors, ReportHandoff(a) PROVE LogTypeOK'
  BY <1>8 DEF ReportHandoff, historyVars, ActorTypeOK, Holding
<1>9. ASSUME NEW a \in Actors, PushResume(a) PROVE LogTypeOK'
  <2>1. subject[a] \in Tools
    BY <1>9 DEF PushResume, ActorTypeOK, Holding
  <2>2. /\ Append(queue, subject[a]) \in Seq(Tools)
        /\ Append(Append(queue, subject[a]), subject[a]) \in Seq(Tools)
    BY <2>1
  <2>4. /\ \/ queue' \in {queue, Append(queue, subject[a])}
           \/ queue' = Append(Append(queue, subject[a]), subject[a])
        /\ extra' = extra \/ extra' = [extra EXCEPT ![subject[a]] = @ + 1]
        /\ faults' = faults \/ faults' = faults + 1
        /\ lost' = lost
    BY <1>9 DEF PushResume
  <2>5. queue' \in Seq(Tools)
    BY <2>2, <2>4
  <2>6. faults' \in Nat
    BY <2>4
  <2>7. extra' \in [Tools -> Nat]
    <3>1. CASE extra' = extra
      BY <3>1
    <3>2. CASE extra' = [extra EXCEPT ![subject[a]] = @ + 1]
      BY <2>1, <3>2
    <3>. QED
      BY <2>4, <3>1, <3>2
  <2>. QED
    BY <1>9, <2>4, <2>5, <2>6, <2>7 DEF PushResume, logVars
<1>10. ASSUME NEW a \in Actors, NoteResume(a) \/ NoteEvaluation(a) PROVE LogTypeOK'
  <2>1. subject[a] \in Tools /\ note[a] \in ResumeStatuses
    BY <1>10 DEF NoteResume, NoteEvaluation, ActorTypeOK, Holding
  <2>2. Append(resumes[subject[a]], note[a]) \in Seq(ResumeStatuses)
    BY <2>1
  <2>. QED
    BY <1>10, <2>1, <2>2 DEF NoteResume, NoteEvaluation, historyVars
<1>11. ASSUME NEW a \in Actors, Locate(a) PROVE LogTypeOK'
  BY <1>11 DEF Locate, logVars, historyVars
<1>12. ASSUME NEW a \in Actors, Execute(a) PROVE LogTypeOK'
  <2>1. subject[a] \in Tools
    BY <1>12 DEF Execute, ActorTypeOK, Holding
  <2>2. Append(invoked[subject[a]], 1) \in Seq(Nat \ {0})
    BY <2>1
  <2>3. invoked' = invoked \/ invoked' = [invoked EXCEPT ![subject[a]] =
                                          Append(invoked[subject[a]], 1)]
    BY <1>12 DEF Execute
  <2>4. invoked' \in [Tools -> Seq(Nat \ {0})]
    BY <2>1, <2>2, <2>3
  <2>. QED
    BY <1>12, <2>4 DEF Execute, logVars
<1>17. ASSUME NEW a \in Actors, Retry(a) \/ Attempt(a) PROVE LogTypeOK'
  <2>1. invoked' \in [Tools -> Seq(Nat \ {0})]
    BY <1>17, CallsAgain
  <2>. QED
    BY <1>17, <2>1 DEF Retry, Attempt, CallAgain, logVars
<1>13. ASSUME NEW a \in Actors, AppendResult(a) PROVE LogTypeOK'
  BY <1>13 DEF AppendResult, historyVars, ActorTypeOK, Holding
<1>14. ASSUME NEW a \in Actors, Stop(a) PROVE LogTypeOK'
  BY <1>14 DEF Stop, logVars
<1>15. ASSUME NEW a \in Actors,
              HandOff(a) \/ Check(a) \/ Admit(a) \/ Authorize(a) \/ Conclude(a)
       PROVE  LogTypeOK'
  BY <1>1, <1>15 DEF HandOff, Check, Admit, Authorize, Conclude
<1>16. CASE UNCHANGED vars
  BY <1>1, <1>16 DEF vars
<1>. QED
  BY <1>2, <1>3, <1>4, <1>6, <1>7, <1>8, <1>9, <1>10, <1>11, <1>12, <1>13, <1>14, <1>15,
     <1>16, <1>17
     DEF Next, ActorStep

(* Every variable keeps its type, and actors hold tools, decisions and     *)
(* expired tools exactly where their code does.                            *)
THEOREM TypeCorrect == Spec => []TypeOK
<1>1. Init => TypeOK
  <2> SUFFICES ASSUME Init PROVE TypeOK
    OBVIOUS
  <2>1. RunTypeOK
    BY NoToolIsNone, ApprovalAssumption DEF Init, RunTypeOK, RunStatuses, Phases
  <2>2. LogTypeOK
    <3>1. /\ <<>> \in Seq(Decisions)
          /\ <<>> \in Seq(ResumeStatuses)
          /\ <<>> \in Seq(Tools)
      OBVIOUS
    <3>2. decisions \in [Tools -> Seq(Decisions)] /\ resumes \in [Tools -> Seq(ResumeStatuses)]
      BY <3>1 DEF Init
    <3>3. cancelled \in BOOLEAN
      BY DEF Init
    <3>4. /\ reported \subseteq Tools
          /\ results \subseteq Tools
          /\ raced \subseteq Tools
          /\ lost \subseteq Tools
      BY DEF Init
    <3>5. /\ invoked \in [Tools -> Seq(Nat \ {0})]
          /\ extra \in [Tools -> Nat]
          /\ arrivals \in Nat
          /\ faults \in Nat
      BY DEF Init
    <3>. QED
      BY <3>1, <3>2, <3>3, <3>4, <3>5 DEF Init, LogTypeOK
  <2>3. ActorTypeOK
    BY NoToolIsNone DEF Init, ActorTypeOK, ActorStates, Holding, NoEffort
  <2>. QED
    BY <2>1, <2>2, <2>3 DEF TypeOK
<1>2. TypeOK /\ [Next]_vars => TypeOK'
  BY RunTyped, LogTyped, ActorTyped DEF TypeOK
<1>. QED
  BY <1>1, <1>2, PTL DEF Spec
----------------------------------------------------------------------------
(* A tool whose decisions did not overlap has at most one, and nobody who  *)
(* may still append one of it while it has one.                            *)
UndecidedWhenRead ==
  \A t \in Tools \ raced :
    /\ Len(decisions[t]) <= 1
    /\ \A a \in Actors : MayDecide(a, t) => decisions[t] = <<>>

(* Only expiries and decide requests touch decisions and raced.            *)
LEMMA DecisionsFrame ==
  ASSUME [Next]_vars,
         ~ \E a \in Actors : Expire(a) \/ Decide(a)
  PROVE  UNCHANGED <<decisions, raced>>
<1>1. CASE RunStep \/ \E t \in Tools : GrowLate(t)
  BY <1>1, RunStepFrame DEF logVars
<1>2. ASSUME NEW r \in Requests, Arrival(r) PROVE UNCHANGED <<decisions, raced>>
  BY <1>2 DEF Arrival, ListApprovals, DecideApproval, ResumeApproval, Arrive, logVars
<1>3. ASSUME NEW w \in Workers, Pop(w) PROVE UNCHANGED <<decisions, raced>>
  BY <1>3 DEF Pop, logVars, historyVars
<1>4. ASSUME NEW a \in Actors, ActorStep(a) \/ Stop(a) PROVE UNCHANGED <<decisions, raced>>
  BY <1>4 DEF ActorStep, ReportHandoff, HandOff, Check, PushResume, NoteResume, Admit, Authorize,
              Locate, NoteEvaluation, Execute, CallAgain, Retry, Attempt, Conclude, AppendResult,
              Stop, logVars, historyVars
<1>5. CASE UNCHANGED vars
  BY <1>5 DEF vars, logVars, historyVars
<1>. QED
  BY <1>1, <1>2, <1>3, <1>4, <1>5 DEF Next

(* Without an append, whoever may decide a tool could before or has just   *)
(* read that it is undecided.                                              *)
LEMMA MayDecideFrame ==
  ASSUME TypeOK, [Next]_vars,
         ~ \E a \in Actors : Expire(a) \/ Decide(a),
         NEW b \in Actors, NEW t \in Tools, MayDecide(b, t)'
  PROVE  MayDecide(b, t) \/ ~Decided(t)
<1> USE DEF TypeOK, ActorTypeOK, MayDecide
<1>1. CASE UNCHANGED actorVars
  BY <1>1 DEF actorVars
<1>2. ASSUME NEW r \in Requests, Arrival(r) PROVE MayDecide(b, t) \/ ~Decided(t)
  BY <1>2 DEF Arrival, ListApprovals, DecideApproval, ResumeApproval, Arrive, Expirable, Actors
<1>3. ASSUME NEW w \in Workers, Pop(w) PROVE MayDecide(b, t)
  BY <1>3 DEF Pop, Actors
<1>4. ASSUME NEW a \in Actors, Check(a) PROVE MayDecide(b, t) \/ ~Decided(t)
  BY <1>4 DEF Check
<1>5. ASSUME NEW a \in Actors, Stop(a) PROVE MayDecide(b, t)
  BY <1>5 DEF Stop
<1>6. ASSUME NEW a \in Actors, ActorStep(a), ~Check(a) PROVE MayDecide(b, t)
  BY <1>6 DEF ActorStep, ReportHandoff, HandOff, PushResume, NoteResume, Admit, Authorize,
              Locate, NoteEvaluation, Execute, CallAgain, Retry, Attempt, Conclude, AppendResult,
              GoOn, Leave
<1>. QED
  BY <1>1, <1>2, <1>3, <1>4, <1>5, <1>6, RunStepFrame DEF Next, vars

LEMMA UndecidedStep ==
  ASSUME TypeOK, UndecidedWhenRead, [Next]_vars
  PROVE  UndecidedWhenRead'
<1>1. CASE ~ \E a \in Actors : Expire(a) \/ Decide(a)
  BY <1>1, DecisionsFrame, MayDecideFrame DEF UndecidedWhenRead, Decided
<1>2. ASSUME NEW a \in Actors, NEW t \in Tools, NEW d, MayDecide(a, t),
             AppendDecision(a, t, d),
             \A b \in Actors, u \in Tools : MayDecide(b, u)' => MayDecide(b, u),
             ~MayDecide(a, t)'
      PROVE  UndecidedWhenRead'
  <2> SUFFICES ASSUME NEW u \in Tools, u \notin raced'
               PROVE  /\ Len(decisions'[u]) <= 1
                      /\ \A b \in Actors : MayDecide(b, u)' => decisions'[u] = <<>>
    BY DEF UndecidedWhenRead
  <2>1. u \notin raced
    BY <1>2 DEF AppendDecision
  <2>2. CASE u # t
    BY <1>2, <2>1, <2>2 DEF AppendDecision, UndecidedWhenRead, TypeOK, LogTypeOK
  <2>3. CASE u = t
    <3>1. decisions[t] = <<>>
      BY <1>2, <2>1, <2>3 DEF UndecidedWhenRead
    <3>2. decisions'[t] = Append(<<>>, d)
      BY <1>2, <3>1 DEF AppendDecision, TypeOK, LogTypeOK
    <3>3. \A b \in Actors \ {a} : ~MayDecide(b, t)
      BY <1>2, <2>3 DEF AppendDecision
    <3>. QED
      BY <1>2, <2>3, <3>2, <3>3
  <2>. QED
    BY <2>2, <2>3
<1>3. ASSUME NEW a \in Actors, Expire(a) PROVE UndecidedWhenRead'
  <2>1. PICK t \in expiring[a] :
          /\ AppendDecision(a, t, "expired")
          /\ expiring' = [expiring EXCEPT ![a] = @ \ {t}]
          /\ subject' = [subject EXCEPT ![a] = t]
    BY <1>3 DEF Expire
  <2>2. t \in Tools
    BY DEF TypeOK, ActorTypeOK
  <2>. QED
    BY <1>2, <1>3, <2>1, <2>2 DEF Expire, MayDecide, TypeOK, ActorTypeOK
<1>4. ASSUME NEW a \in Actors, Decide(a) PROVE UndecidedWhenRead'
  <2>1. subject[a] \in Tools /\ expiring[a] = {}
    BY <1>4 DEF Decide, TypeOK, ActorTypeOK, Holding
  <2>. QED
    BY <1>2, <1>4, <2>1 DEF Decide, MayDecide, TypeOK, ActorTypeOK
<1>. QED
  BY <1>1, <1>3, <1>4

(* A tool is decided once unless two parties had both found no decision.   *)
THEOREM DecidedOnceHolds == Spec => []DecidedOnce
<1>1. Init => UndecidedWhenRead
  BY DEF Init, UndecidedWhenRead, MayDecide
<1>2. TypeOK /\ UndecidedWhenRead /\ [Next]_vars => UndecidedWhenRead'
  BY UndecidedStep
<1>3. UndecidedWhenRead => DecidedOnce
  BY DEF UndecidedWhenRead, DecidedOnce
<1>. QED
  BY <1>1, <1>2, <1>3, TypeCorrect, PTL DEF Spec
----------------------------------------------------------------------------
(* The log only grows: what occurs among the decisions of a tool stays.    *)
LEMMA OccursStays ==
  ASSUME TypeOK, [Next]_vars, NEW t \in Tools, NEW d, Occurs(t, d)
  PROVE  Occurs(t, d)'
<1>1. CASE ~ \E a \in Actors : Expire(a) \/ Decide(a)
  BY <1>1, DecisionsFrame DEF Occurs
<1>2. ASSUME NEW a \in Actors, Expire(a) \/ Decide(a) PROVE Occurs(t, d)'
  <2>1. PICK u \in Tools, e \in Decisions : AppendDecision(a, u, e)
    BY <1>2 DEF Expire, Decide, TypeOK, ActorTypeOK, Decisions, Holding
  <2>2. PICK i \in 1 .. Len(decisions[t]) : decisions[t][i] = d
    BY DEF Occurs
  <2>3. decisions[t] \in Seq(Decisions)
    BY DEF TypeOK, LogTypeOK
  <2>4. decisions'[t] = decisions[t] \/ decisions'[t] = Append(decisions[t], e)
    BY <2>1 DEF AppendDecision, TypeOK, LogTypeOK
  <2>5. i \in 1 .. Len(decisions'[t]) /\ decisions'[t][i] = d
    BY <2>2, <2>3, <2>4
  <2>. QED
    BY <2>5 DEF Occurs
<1>. QED
  BY <1>1, <1>2

(* Calls of the run stay in the log, and its checkpoint is what it is.     *)
LEMMA CalledStays ==
  ASSUME [Next]_vars
  PROVE  called \subseteq called' /\ checkpoint' = checkpoint
<1>1. CASE RunStep \/ \E t \in Tools : GrowLate(t)
  BY <1>1 DEF RunStep, CallTool, LoopBlocked, ToolReturns, ToolBlocked, Pause, AskApproval,
              Finish, Tell, RunFails, RunCancelled, Disconnect, ReturnWith, GrowLate, fixedVars,
              callVars
<1>2. ASSUME NEW a \in Actors, ActorStep(a) \/ Stop(a)
      PROVE  UNCHANGED <<fixedVars, callVars>>
  BY <1>2 DEF ActorStep, Expire, ReportHandoff, HandOff, Check, Decide, PushResume, NoteResume,
              Admit, Authorize, Locate, NoteEvaluation, Execute, CallAgain, Retry, Attempt,
              Conclude, AppendResult, Stop
<1>3. ASSUME NEW r \in Requests, Arrival(r) PROVE UNCHANGED <<fixedVars, callVars>>
  BY <1>3 DEF Arrival, ListApprovals, DecideApproval, ResumeApproval, Arrive
<1>4. ASSUME NEW w \in Workers, Pop(w) PROVE UNCHANGED <<fixedVars, callVars>>
  BY <1>4 DEF Pop
<1>. QED
  BY <1>1, <1>2, <1>3, <1>4 DEF Next, vars, fixedVars, callVars

Grounded(a) ==
  /\ astate[a] \in {"locating", "evaluated", "executing", "trying", "resulting"}
       => Occurs(subject[a], "approved")
  /\ astate[a] \in {"executing", "trying", "resulting"} => subject[a] \in called /\ checkpoint
  /\ astate[a] = "evaluated" /\ note[a] = "ready_for_resume"
       => subject[a] \in called /\ checkpoint

(* Whoever resumes a tool past its checks still has the grounds for it.    *)
ResumeGrounded == \A a \in Actors : Grounded(a)

LEMMA GroundedStays ==
  ASSUME TypeOK, [Next]_vars, NEW b \in Actors, Grounded(b),
         /\ astate'[b] = astate[b]
         /\ subject'[b] = subject[b]
         /\ note'[b] = note[b]
  PROVE  Grounded(b)'
<1>1. astate[b] \in {"locating", "evaluated", "executing", "trying", "resulting"}
      => subject[b] \in Tools
  BY DEF TypeOK, ActorTypeOK, Holding
<1>. QED
  BY <1>1, OccursStays, CalledStays DEF Grounded

(* A step of one actor leaves the state of the others alone.               *)
LEMMA OthersStay ==
  ASSUME TypeOK, NEW a \in Actors, NEW b \in Actors, a # b,
         \/ ActorStep(a) \/ Stop(a)
         \/ a \in Requests /\ Arrival(a)
         \/ a \in Workers /\ Pop(a)
  PROVE  /\ astate'[b] = astate[b]
         /\ subject'[b] = subject[b]
         /\ note'[b] = note[b]
         /\ wish'[b] = wish[b]
         /\ expiring'[b] = expiring[b]
         /\ effort'[b] = effort[b]
<1> USE DEF TypeOK, ActorTypeOK
<1>1. CASE Arrival(a)
  BY <1>1 DEF Arrival, ListApprovals, DecideApproval, ResumeApproval, Arrive
<1>2. CASE Pop(a)
  BY <1>2 DEF Pop
<1>3. CASE Stop(a)
  BY <1>3 DEF Stop
<1>4. CASE Expire(a) \/ ReportHandoff(a) \/ HandOff(a) \/ Check(a) \/ Decide(a)
  BY <1>4 DEF Expire, ReportHandoff, HandOff, Check, Decide
<1>5. CASE PushResume(a) \/ NoteResume(a) \/ Admit(a) \/ Authorize(a)
  BY <1>5 DEF PushResume, NoteResume, Admit, Authorize, Leave, GoOn
<1>6. CASE \/ Locate(a) \/ NoteEvaluation(a) \/ Execute(a) \/ Retry(a) \/ Attempt(a)
          \/ Conclude(a) \/ AppendResult(a)
  BY <1>6 DEF Locate, NoteEvaluation, Execute, CallAgain, Retry, Attempt, Conclude,
              AppendResult, Leave, GoOn
<1>. QED
  BY <1>1, <1>2, <1>3, <1>4, <1>5, <1>6 DEF ActorStep

LEMMA GroundedStep ==
  ASSUME TypeOK, ResumeGrounded, [Next]_vars
  PROVE  ResumeGrounded'
<1>1. CASE UNCHANGED actorVars
  BY <1>1, GroundedStays DEF ResumeGrounded, actorVars
<1>2. ASSUME NEW a \in Actors,
             \/ ActorStep(a) \/ Stop(a)
             \/ a \in Requests /\ Arrival(a)
             \/ a \in Workers /\ Pop(a),
             Grounded(a)'
      PROVE  ResumeGrounded'
  BY <1>2, GroundedStays, OthersStay DEF ResumeGrounded
<1>3. ASSUME NEW a \in Actors, astate'[a] \notin {"locating", "evaluated", "executing", "trying",
                                       "resulting"}
      PROVE  Grounded(a)'
  BY <1>3 DEF Grounded
<1>4. ASSUME NEW r \in Requests, Arrival(r) PROVE ResumeGrounded'
  <2>1. astate'[r] \notin {"locating", "evaluated", "executing", "trying", "resulting"}
    BY <1>4
       DEF Arrival, ListApprovals, DecideApproval, ResumeApproval, TypeOK, ActorTypeOK, Actors
  <2>. QED
    BY <1>2, <1>3, <1>4, <2>1 DEF Actors
<1>5. ASSUME NEW w \in Workers, Pop(w) PROVE ResumeGrounded'
  <2>1. astate'[w] \notin {"locating", "evaluated", "executing", "trying", "resulting"}
    BY <1>5 DEF Pop, TypeOK, ActorTypeOK, Actors
  <2>. QED
    BY <1>2, <1>3, <1>5, <2>1 DEF Actors
<1>6. ASSUME NEW a \in Actors,
             \/ Stop(a) \/ Expire(a) \/ ReportHandoff(a) \/ HandOff(a) \/ Check(a)
             \/ Decide(a) \/ PushResume(a) \/ NoteResume(a) \/ Admit(a) \/ AppendResult(a)
      PROVE  ResumeGrounded'
  <2>1. astate'[a] \notin {"locating", "evaluated", "executing", "trying", "resulting"}
    BY <1>6 DEF Stop, Expire, ReportHandoff, HandOff, Check, Decide, PushResume, NoteResume,
                Admit, AppendResult, Leave, GoOn, TypeOK, ActorTypeOK
  <2>. QED
    BY <1>2, <1>3, <1>6, <2>1 DEF ActorStep
<1>7. ASSUME NEW a \in Actors, Authorize(a) PROVE ResumeGrounded'
  <2>1. subject[a] \in Tools /\ decisions[subject[a]] \in Seq(Decisions)
    BY <1>7 DEF Authorize, TypeOK, ActorTypeOK, LogTypeOK, Holding
  <2>2. CASE Decided(subject[a]) /\ LatestDecision(subject[a]) = "approved"
    <3>1. Occurs(subject[a], "approved")
      BY <2>1, <2>2 DEF Decided, LatestDecision, Occurs
    <3>2. /\ Occurs(subject[a], "approved")'
          /\ astate'[a] = "locating"
          /\ subject' = subject
      BY <1>7, <2>1, <2>2, <3>1, OccursStays DEF Authorize, GoOn, TypeOK, ActorTypeOK, logVars,
                                                Occurs
    <3>3. Grounded(a)'
      BY <3>2 DEF Grounded, Occurs
    <3>. QED
      BY <1>2, <1>7, <3>3 DEF ActorStep
  <2>3. CASE ~(Decided(subject[a]) /\ LatestDecision(subject[a]) = "approved")
    <3>1. astate'[a] = "free"
      BY <1>7, <2>3 DEF Authorize, Leave, TypeOK, ActorTypeOK
    <3>. QED
      BY <1>2, <1>3, <1>7, <3>1 DEF ActorStep
  <2>. QED
    BY <2>2, <2>3
<1>8. ASSUME NEW a \in Actors, Locate(a) PROVE ResumeGrounded'
  <2>1. PICK found \in BOOLEAN :
          /\ found => checkpoint
          /\ note' = [note EXCEPT ![a] =
                       IF subject[a] \notin called THEN "original_action_missing"
                       ELSE IF found THEN "ready_for_resume" ELSE "checkpoint_missing"]
    BY <1>8 DEF Locate, TypeOK, RunTypeOK
  <2>2. /\ astate'[a] = "evaluated"
        /\ subject'[a] = subject[a]
        /\ called' = called
        /\ checkpoint' = checkpoint
        /\ decisions' = decisions
    BY <1>8 DEF Locate, TypeOK, ActorTypeOK, callVars, fixedVars, logVars
  <2>3. Occurs(subject[a], "approved")'
    BY <1>8, <2>2 DEF Locate, ResumeGrounded, Grounded, Occurs
  <2>4. note'[a] = "ready_for_resume" => subject[a] \in called /\ checkpoint
    BY <2>1 DEF TypeOK, ActorTypeOK
  <2>5. Grounded(a)'
    BY <2>2, <2>3, <2>4 DEF Grounded
  <2>. QED
    BY <1>2, <1>8, <2>5 DEF ActorStep
<1>9. ASSUME NEW a \in Actors, NoteEvaluation(a) \/ Execute(a) PROVE ResumeGrounded'
  <2>1. /\ called' = called
        /\ checkpoint' = checkpoint
        /\ decisions' = decisions
    BY <1>9 DEF NoteEvaluation, Execute, callVars, fixedVars, logVars
  <2>2. Grounded(a)
    BY DEF ResumeGrounded
  <2>3. ASSUME NoteEvaluation(a) PROVE Grounded(a)'
    <3>1. CASE note[a] = "ready_for_resume"
      <4>1. subject'[a] = subject[a] /\ astate'[a] = "executing"
        BY <2>3, <3>1 DEF NoteEvaluation, GoOn, TypeOK, ActorTypeOK
      <4>2. Occurs(subject[a], "approved") /\ subject[a] \in called /\ checkpoint
        BY <2>2, <2>3, <3>1 DEF NoteEvaluation, Grounded
      <4>. QED
        BY <2>1, <4>1, <4>2 DEF Grounded, Occurs
    <3>2. CASE note[a] # "ready_for_resume"
      <4>1. astate'[a] = "free"
        BY <2>3, <3>2 DEF NoteEvaluation, Leave, TypeOK, ActorTypeOK
      <4>. QED
        BY <1>3, <4>1
    <3>. QED
      BY <3>1, <3>2
  <2>4. ASSUME Execute(a) PROVE Grounded(a)'
    <3>1. subject'[a] = subject[a] /\ astate'[a] \in {"trying", "resulting"}
      BY <2>4 DEF Execute, GoOn, TypeOK, ActorTypeOK
    <3>. QED
      BY <2>1, <2>2, <2>4, <3>1 DEF Execute, Grounded, Occurs
  <2>. QED
    BY <1>2, <1>9, <2>3, <2>4 DEF ActorStep
<1>10. ASSUME NEW a \in Actors, Retry(a) \/ Attempt(a) \/ Conclude(a) PROVE ResumeGrounded'
  <2>1. /\ called' = called /\ checkpoint' = checkpoint /\ decisions' = decisions
        /\ astate[a] = "trying" /\ subject' = subject
        /\ astate'[a] \in {"trying", "resulting"}
    BY <1>10 DEF Retry, Attempt, CallAgain, Conclude, GoOn, callVars, fixedVars, logVars, TypeOK,
                 ActorTypeOK
  <2>2. Grounded(a)'
    BY <2>1 DEF ResumeGrounded, Grounded, Occurs
  <2>. QED
    BY <1>2, <1>10, <2>2 DEF ActorStep
<1>. QED
  BY <1>1, <1>4, <1>5, <1>6, <1>7, <1>8, <1>9, <1>10, RunStepFrame DEF Next, ActorStep, vars

(* What is executed has its grounds, then and later.                       *)
LEMMA ExecutedStep ==
  ASSUME TypeOK, ResumeGrounded, ExecutedWasApproved, [Next]_vars
  PROVE  ExecutedWasApproved'
<1> SUFFICES ASSUME NEW t \in Tools, invoked'[t] # <<>>
             PROVE  (Occurs(t, "approved") /\ t \in called /\ checkpoint)'
  BY DEF ExecutedWasApproved
<1>1. CASE invoked[t] # <<>>
  BY <1>1, OccursStays, CalledStays DEF ExecutedWasApproved
<1>2. CASE invoked[t] = <<>>
  <2>1. PICK a \in Actors : Execute(a) /\ subject[a] = t
    <3>1. ASSUME ~ \E a \in Actors : Execute(a) PROVE invoked'[t] = <<>>
      <4>. USE <1>2
      <4>1. CASE RunStep \/ \E u \in Tools : GrowLate(u)
        BY <4>1, RunStepFrame
      <4>2. ASSUME NEW r \in Requests, Arrival(r) PROVE invoked' = invoked
        BY <4>2 DEF Arrival, ListApprovals, DecideApproval, ResumeApproval, Arrive
      <4>3. ASSUME NEW w \in Workers, Pop(w) PROVE invoked' = invoked
        BY <4>3 DEF Pop, historyVars
      <4>5. ASSUME NEW a \in Actors, Retry(a) \/ Attempt(a) PROVE invoked'[t] = <<>>
        BY <4>5, CallsAgain DEF TypeOK, LogTypeOK
      <4>4. ASSUME NEW a \in Actors, ActorStep(a) \/ Stop(a), ~Retry(a), ~Attempt(a)
            PROVE  invoked' = invoked
        BY <3>1, <4>4 DEF ActorStep, Expire, ReportHandoff, HandOff, Check, Decide, PushResume,
                          NoteResume, Admit, Authorize, Locate, NoteEvaluation, Conclude,
                          AppendResult, Stop, historyVars
      <4>. QED
        BY <4>1, <4>2, <4>3, <4>4, <4>5 DEF Next, vars, historyVars
    <3>2. PICK a \in Actors : Execute(a)
      BY <1>2, <3>1
    <3>3. subject[a] = t
      BY <1>2, <3>2 DEF Execute, TypeOK, LogTypeOK
    <3>. QED
      BY <3>2, <3>3
  <2>. QED
    BY <2>1, OccursStays, CalledStays DEF Execute, ResumeGrounded, Grounded
<1>. QED
  BY <1>1, <1>2

(* An approved tool is executed only on the run's own call of it, with a   *)
(* person's approval and a checkpoint.                                     *)
THEOREM ExecutedWasApprovedHolds == Spec => []ExecutedWasApproved
<1>1. Init => ResumeGrounded /\ ExecutedWasApproved
  BY DEF Init, ResumeGrounded, Grounded, ExecutedWasApproved
<1>2. /\ TypeOK /\ ResumeGrounded /\ ExecutedWasApproved /\ [Next]_vars
      => ResumeGrounded' /\ ExecutedWasApproved'
  BY GroundedStep, ExecutedStep
<1>. QED
  BY <1>1, <1>2, TypeCorrect, PTL DEF Spec
----------------------------------------------------------------------------
Refused(t) == Occurs(t, "rejected") \/ Occurs(t, "expired")

(* A hand-off is reported only of a tool that was refused.                 *)
ReportsGrounded ==
  /\ \A t \in reported : Refused(t)
  /\ \A a \in Actors : astate[a] = "reporting" => Refused(subject[a])

LEMMA RefusedStays ==
  ASSUME TypeOK, [Next]_vars, NEW t \in Tools, Refused(t)
  PROVE  Refused(t)'
BY OccursStays DEF Refused

(* Whoever appends a decision has it in the log.                           *)
LEMMA AppendedOccurs ==
  ASSUME TypeOK, NEW a, NEW t \in Tools, NEW d \in Decisions, AppendDecision(a, t, d)
  PROVE  Occurs(t, d)'
<1>1. decisions[t] \in Seq(Decisions)
  BY DEF TypeOK, LogTypeOK
<1>2. decisions'[t] = Append(decisions[t], d)
  BY DEF AppendDecision, TypeOK, LogTypeOK
<1>3. /\ Len(decisions[t]) + 1 \in 1 .. Len(decisions'[t])
      /\ decisions'[t][Len(decisions[t]) + 1] = d
  BY <1>1, <1>2
<1>. QED
  BY <1>3 DEF Occurs

LEMMA ReportsStep ==
  ASSUME TypeOK, TypeOK', ReportsGrounded, [Next]_vars
  PROVE  ReportsGrounded'
<1>1. ASSUME NEW a \in Actors, astate[a] = "reporting", subject'[a] = subject[a]
      PROVE  Refused(subject[a])'
  <2>1. PICK t \in Tools : t = subject[a]
    BY <1>1 DEF TypeOK, ActorTypeOK, Holding
  <2>2. Refused(t)'
    BY <1>1, <2>1, RefusedStays DEF ReportsGrounded
  <2>. QED
    BY <1>1, <2>1, <2>2 DEF Refused, Occurs
<1>2. \A t \in reported : Refused(t)'
  BY RefusedStays DEF TypeOK, LogTypeOK, ReportsGrounded
<1>3. ASSUME reported' = reported, NEW a \in Actors,
             \/ ActorStep(a) \/ Stop(a)
             \/ a \in Requests /\ Arrival(a)
             \/ a \in Workers /\ Pop(a),
             astate'[a] = "reporting" => Refused(subject[a])'
      PROVE  ReportsGrounded'
  <2>1. ASSUME NEW b \in Actors, astate'[b] = "reporting" PROVE Refused(subject[b])'
    <3>1. CASE b = a
      BY <1>3, <2>1, <3>1
    <3>2. CASE b # a
      <4>1. astate[b] = "reporting" /\ subject'[b] = subject[b]
        BY <1>3, <2>1, <3>2, OthersStay
      <4>. QED
        BY <1>1, <4>1
    <3>. QED
      BY <3>1, <3>2
  <2>. QED
    BY <1>2, <1>3, <2>1 DEF ReportsGrounded
<1>4. CASE UNCHANGED <<reported, actorVars>>
  <2>1. ASSUME NEW b \in Actors, astate'[b] = "reporting" PROVE Refused(subject[b])'
    <3>1. astate[b] = "reporting" /\ subject'[b] = subject[b]
      BY <1>4, <2>1 DEF actorVars
    <3>. QED
      BY <1>1, <3>1
  <2>. QED
    BY <1>2, <1>4, <2>1 DEF ReportsGrounded
<1>5. ASSUME NEW r \in Requests, Arrival(r) PROVE ReportsGrounded'
  <2>1. /\ reported' = reported
        /\ astate'[r] # "reporting"
    BY <1>5 DEF Arrival, ListApprovals, DecideApproval, ResumeApproval, Arrive, logVars, TypeOK,
                ActorTypeOK, Actors
  <2>. QED
    BY <1>3, <1>5, <2>1 DEF Actors
<1>6. ASSUME NEW w \in Workers, Pop(w) PROVE ReportsGrounded'
  <2>1. reported' = reported /\ astate'[w] # "reporting"
    BY <1>6 DEF Pop, logVars, TypeOK, ActorTypeOK, Actors
  <2>. QED
    BY <1>3, <1>6, <2>1 DEF Actors
<1>7. ASSUME NEW a \in Actors, Expire(a) PROVE ReportsGrounded'
  <2>1. PICK t \in Tools : AppendDecision(a, t, "expired") /\ subject'[a] = t
    BY <1>7 DEF Expire, TypeOK, ActorTypeOK
  <2>2. Occurs(t, "expired")'
    BY <2>1, AppendedOccurs DEF Decisions
  <2>3. Refused(subject[a])'
    BY <2>1, <2>2 DEF Refused, Occurs
  <2>4. reported' = reported
    BY <1>7 DEF Expire
  <2>. QED
    BY <1>3, <1>7, <2>3, <2>4 DEF ActorStep
<1>8. ASSUME NEW a \in Actors, Decide(a) PROVE ReportsGrounded'
  <2>1. subject[a] \in Tools /\ wish[a].decision \in {"approved", "rejected"}
    BY <1>8 DEF Decide, TypeOK, ActorTypeOK, Holding
  <2>2. /\ reported' = reported
        /\ subject'[a] = subject[a]
        /\ astate'[a] = "reporting" => wish[a].decision = "rejected"
    BY <1>8, <2>1 DEF Decide, TypeOK, ActorTypeOK
  <2>3. astate'[a] = "reporting" => Refused(subject[a])'
    <3>1. ASSUME astate'[a] = "reporting" PROVE Refused(subject[a])'
      <4>1. wish[a].decision = "rejected" /\ wish[a] # NoWish
        BY <1>8, <2>2, <3>1 DEF Decide, TypeOK, ActorTypeOK
      <4>2. AppendDecision(a, subject[a], "rejected")
        BY <1>8, <4>1 DEF Decide
      <4>3. Occurs(subject[a], "rejected")'
        <5>1. \A t \in Tools : AppendDecision(a, t, "rejected") => Occurs(t, "rejected")'
          BY AppendedOccurs DEF Decisions
        <5>. QED
          BY <2>1, <2>2, <4>2, <5>1 DEF Occurs
      <4>. QED
        BY <4>3 DEF Refused
    <3>. QED
      BY <3>1
  <2>. QED
    BY <1>3, <1>8, <2>2, <2>3 DEF ActorStep
<1>9. ASSUME NEW a \in Actors, ReportHandoff(a) PROVE ReportsGrounded'
  <2>1. /\ astate[a] = "reporting"
        /\ reported' = reported \union {subject[a]}
        /\ subject' = subject
        /\ astate' = [astate EXCEPT ![a] = "handing"]
    BY <1>9 DEF ReportHandoff
  <2>2. \A b \in Actors : astate'[b] = "reporting" => astate[b] = "reporting"
    BY <2>1 DEF TypeOK, ActorTypeOK
  <2>3. \A b \in Actors : astate[b] = "reporting" => Refused(subject[b])'
    BY <1>1, <2>1
  <2>4. \A t \in reported' : Refused(t)'
    <3>1. Refused(subject[a])'
      BY <2>1, <2>3
    <3>. QED
      BY <1>2, <2>1, <3>1 DEF Refused, Occurs
  <2>. QED
    BY <2>2, <2>3, <2>4 DEF ReportsGrounded
<1>10. ASSUME NEW a \in Actors,
              \/ Stop(a) \/ HandOff(a) \/ Check(a) \/ PushResume(a) \/ NoteResume(a)
              \/ Admit(a) \/ Authorize(a) \/ Locate(a) \/ NoteEvaluation(a) \/ Execute(a)
              \/ Retry(a) \/ Attempt(a) \/ Conclude(a) \/ AppendResult(a)
       PROVE  ReportsGrounded'
  <2>1. reported' = reported
    BY <1>10 DEF Stop, HandOff, Check, PushResume, NoteResume, Admit, Authorize, Locate,
                 NoteEvaluation, Execute, CallAgain, Retry, Attempt, Conclude, AppendResult,
                 logVars
  <2>2. astate'[a] # "reporting"
    <3>1. CASE Stop(a) \/ HandOff(a) \/ Check(a) \/ PushResume(a) \/ NoteResume(a)
      BY <3>1 DEF Stop, HandOff, Check, PushResume, NoteResume, TypeOK, ActorTypeOK
    <3>2. CASE Admit(a) \/ Authorize(a) \/ Locate(a) \/ NoteEvaluation(a)
      BY <3>2 DEF Admit, Authorize, Locate, NoteEvaluation, Leave, GoOn, TypeOK, ActorTypeOK
    <3>3. CASE Execute(a) \/ Retry(a) \/ Attempt(a) \/ Conclude(a) \/ AppendResult(a)
      BY <3>3 DEF Execute, Retry, Attempt, CallAgain, Conclude, AppendResult, Leave, GoOn,
                  TypeOK, ActorTypeOK
    <3>. QED
      BY <1>10, <3>1, <3>2, <3>3
  <2>. QED
    BY <1>3, <1>10, <2>1, <2>2 DEF ActorStep
<1>. QED
  BY <1>4, <1>5, <1>6, <1>7, <1>8, <1>9, <1>10, RunStepFrame
     DEF Next, ActorStep, vars, logVars

LEMMA RefusedIsNotExecuted ==
  ASSUME TypeOK, UndecidedWhenRead, ExecutedWasApproved, ReportsGrounded
  PROVE  RefusedNotExecuted
<1> SUFFICES ASSUME NEW t \in Tools \ raced, Refused(t) PROVE invoked[t] = <<>>
  BY DEF RefusedNotExecuted, ReportsGrounded, Refused
<1>1. Len(decisions[t]) <= 1 /\ decisions[t] \in Seq(Decisions)
  BY DEF UndecidedWhenRead, TypeOK, LogTypeOK
<1>2. ~Occurs(t, "approved")
  BY <1>1 DEF Refused, Occurs
<1>. QED
  BY <1>1, <1>2 DEF ExecutedWasApproved

LEMMA GroundsAlways ==
  Spec => [](/\ UndecidedWhenRead
             /\ ResumeGrounded
             /\ ExecutedWasApproved
             /\ ReportsGrounded)
<1>1. Init => /\ UndecidedWhenRead
              /\ ResumeGrounded
              /\ ExecutedWasApproved
              /\ ReportsGrounded
  BY DEF Init, UndecidedWhenRead, MayDecide, ResumeGrounded, Grounded, ExecutedWasApproved,
         ReportsGrounded
<1>2. /\ TypeOK /\ TypeOK'
      /\ UndecidedWhenRead /\ ResumeGrounded /\ ExecutedWasApproved /\ ReportsGrounded
      /\ [Next]_vars
      => UndecidedWhenRead' /\ ResumeGrounded' /\ ExecutedWasApproved' /\ ReportsGrounded'
  BY UndecidedStep, GroundedStep, ExecutedStep, ReportsStep
<1>. QED
  BY <1>1, <1>2, TypeCorrect, PTL DEF Spec

(* A refused tool whose decisions did not overlap is never executed.       *)
THEOREM RefusedNotExecutedHolds == Spec => []RefusedNotExecuted
<1>1. TypeOK /\ UndecidedWhenRead /\ ExecutedWasApproved /\ ReportsGrounded
      => RefusedNotExecuted
  BY RefusedIsNotExecuted
<1>. QED
  BY <1>1, TypeCorrect, GroundsAlways, PTL
----------------------------------------------------------------------------
InList(t) == \E i \in 1 .. Len(queue) : queue[i] = t
WithWorker(t) == \E w \in Workers : subject[w] = t

(* Somebody has the message of t, or will never need it.                   *)
Carried(t) == InList(t) \/ WithWorker(t) \/ Evaluated(t) \/ cancelled \/ t \in lost

Resuming == {"admitting", "authorizing", "locating", "evaluated", "executing", "trying",
             "resulting"}
Evaluations == {"original_action_missing", "ready_for_resume", "checkpoint_missing"}

(* A worker only resumes; what travels to it was approved; what it has     *)
(* evaluated is in the log.                                                *)
WorkerSound(a) ==
  /\ a \in Workers => astate[a] \in Resuming \union {"free", "dead"}
  /\ a \in Workers /\ astate[a] \in {"admitting", "authorizing"}
       => Occurs(subject[a], "approved")
  /\ astate[a] \in {"executing", "trying", "resulting"} => Evaluated(subject[a])
  /\ astate[a] = "evaluated" => note[a] \in Evaluations
  /\ astate[a] = "pushing" => Occurs(subject[a], "approved")

MessagesSound ==
  /\ runStatus = "cancelled" => cancelled
  /\ \A i \in 1 .. Len(queue) : Occurs(queue[i], "approved")
  /\ \A a \in Actors : WorkerSound(a)

(* Whatever is or will be noted as queued is carried.                      *)
QueuedCarried ==
  \A t \in Tools \ raced :
    /\ Noted(t, "queued") => Carried(t)
    /\ \A a \in Actors : astate[a] = "noting" /\ note[a] = "queued" /\ subject[a] = t
         => Carried(t)

(* Only the appends of a resume status change the log of them.             *)
LEMMA ResumesGrow ==
  ASSUME TypeOK, [Next]_vars
  PROVE  \/ resumes' = resumes
         \/ \E a \in Actors :
              /\ NoteResume(a) \/ NoteEvaluation(a)
              /\ subject[a] \in Tools
              /\ note[a] \in ResumeStatuses
              /\ resumes' = [resumes EXCEPT ![subject[a]] = Append(@, note[a])]
<1>1. CASE RunStep \/ \E t \in Tools : GrowLate(t)
  BY <1>1, RunStepFrame DEF logVars
<1>2. ASSUME NEW r \in Requests, Arrival(r) PROVE resumes' = resumes
  BY <1>2 DEF Arrival, ListApprovals, DecideApproval, ResumeApproval, Arrive, logVars
<1>3. ASSUME NEW w \in Workers, Pop(w) PROVE resumes' = resumes
  BY <1>3 DEF Pop, logVars
<1>4. ASSUME NEW a \in Actors, ActorStep(a) \/ Stop(a), ~NoteResume(a), ~NoteEvaluation(a)
      PROVE  resumes' = resumes
  BY <1>4 DEF ActorStep, Expire, ReportHandoff, HandOff, Check, Decide, PushResume, Admit,
              Authorize, Locate, Execute, CallAgain, Retry, Attempt, Conclude, AppendResult,
              Stop, logVars
<1>5. ASSUME NEW a \in Actors, NoteResume(a) \/ NoteEvaluation(a)
      PROVE  /\ subject[a] \in Tools
             /\ note[a] \in ResumeStatuses
             /\ resumes' = [resumes EXCEPT ![subject[a]] = Append(@, note[a])]
  BY <1>5 DEF NoteResume, NoteEvaluation, TypeOK, ActorTypeOK, Holding
<1>. QED
  BY <1>1, <1>2, <1>3, <1>4, <1>5 DEF Next, vars, logVars

LEMMA NotedStays ==
  ASSUME TypeOK, [Next]_vars, NEW t \in Tools, NEW s, Noted(t, s)
  PROVE  Noted(t, s)'
<1>1. CASE resumes' = resumes
  BY <1>1 DEF Noted
<1>2. ASSUME NEW u \in Tools, NEW e \in ResumeStatuses,
             resumes' = [resumes EXCEPT ![u] = Append(@, e)]
      PROVE  Noted(t, s)'
  <2>1. PICK i \in 1 .. Len(resumes[t]) : resumes[t][i] = s
    BY DEF Noted
  <2>2. resumes[t] \in Seq(ResumeStatuses)
    BY DEF TypeOK, LogTypeOK
  <2>3. resumes'[t] = resumes[t] \/ resumes'[t] = Append(resumes[t], e)
    BY <1>2 DEF TypeOK, LogTypeOK
  <2>4. i \in 1 .. Len(resumes'[t]) /\ resumes'[t][i] = s
    BY <2>1, <2>2, <2>3
  <2>. QED
    BY <2>4 DEF Noted
<1>. QED
  BY <1>1, <1>2, ResumesGrow

LEMMA EvaluatedStays ==
  ASSUME TypeOK, [Next]_vars, NEW t \in Tools, Evaluated(t)
  PROVE  Evaluated(t)'
BY NotedStays DEF Evaluated

(* A status noted now is the one that was appended.                        *)
LEMMA NewlyNoted ==
  ASSUME TypeOK, [Next]_vars, NEW t \in Tools, NEW s, Noted(t, s)', ~Noted(t, s)
  PROVE  \E a \in Actors : (NoteResume(a) \/ NoteEvaluation(a)) /\ subject[a] = t /\ note[a] = s
<1>1. PICK a \in Actors :
        /\ NoteResume(a) \/ NoteEvaluation(a)
        /\ subject[a] \in Tools
        /\ note[a] \in ResumeStatuses
        /\ resumes' = [resumes EXCEPT ![subject[a]] = Append(@, note[a])]
  BY ResumesGrow DEF Noted
<1>2. resumes[t] \in Seq(ResumeStatuses)
  BY DEF TypeOK, LogTypeOK
<1>3. PICK i \in 1 .. Len(resumes'[t]) : resumes'[t][i] = s
  BY DEF Noted
<1>4. subject[a] = t
  BY <1>1 DEF Noted, TypeOK, LogTypeOK
<1>5. resumes'[t] = Append(resumes[t], note[a])
  BY <1>1, <1>4 DEF TypeOK, LogTypeOK
<1>6. i \notin 1 .. Len(resumes[t])
  BY <1>1, <1>2, <1>3, <1>5 DEF Noted
<1>7. s = note[a]
  BY <1>1, <1>2, <1>3, <1>5, <1>6
<1>. QED
  BY <1>1, <1>4, <1>7

LEMMA CancelledStep ==
  ASSUME [Next]_vars, runStatus = "cancelled" => cancelled
  PROVE  (cancelled => cancelled') /\ (runStatus' = "cancelled" => cancelled')
<1>1. ASSUME NEW s, ReturnWith(s)
      PROVE  (cancelled => cancelled') /\ (runStatus' = "cancelled" => cancelled')
  BY <1>1 DEF ReturnWith
<1>2. CASE \E s : ReturnWith(s)
  BY <1>1, <1>2
<1>3. ASSUME cancelled' = cancelled, runStatus' = runStatus \/ runStatus' # "cancelled"
      PROVE  (cancelled => cancelled') /\ (runStatus' = "cancelled" => cancelled')
  BY <1>3
<1>4. CASE RunStep \/ \E t \in Tools : GrowLate(t)
  BY <1>2, <1>3, <1>4 DEF RunStep, CallTool, LoopBlocked, ToolReturns, ToolBlocked, Pause,
     AskApproval, Finish, Tell, RunFails, RunCancelled, Disconnect, GrowLate, runVars, historyVars
<1>5. ASSUME NEW r \in Requests, Arrival(r) PROVE cancelled' = cancelled /\ runStatus' = runStatus
  BY <1>5 DEF Arrival, ListApprovals, DecideApproval, ResumeApproval, Arrive, runVars
<1>6. ASSUME NEW w \in Workers, Pop(w) PROVE cancelled' = cancelled /\ runStatus' = runStatus
  BY <1>6 DEF Pop, runVars, historyVars
<1>7. ASSUME NEW a \in Actors, ActorStep(a) \/ Stop(a)
      PROVE  cancelled' = cancelled /\ (runStatus' = runStatus \/ runStatus' # "cancelled")
  BY <1>7 DEF ActorStep, Expire, ReportHandoff, HandOff, Check, Decide, PushResume, NoteResume,
              Admit, Authorize, Locate, NoteEvaluation, Execute, CallAgain, Retry, Attempt,
              Conclude, AppendResult, Stop, runVars, historyVars
<1>8. CASE UNCHANGED vars
  BY <1>3, <1>8 DEF vars, runVars, historyVars
<1>. QED
  BY <1>3, <1>4, <1>5, <1>6, <1>7, <1>8 DEF Next

(* The list: pushed at its end by a scheduling, popped at its head.        *)
LEMMA ListSteps ==
  ASSUME TypeOK, [Next]_vars
  PROVE  \/ queue' = queue
         \/ \E w \in Workers : Pop(w)
         \/ \E a \in Actors :
              /\ PushResume(a)
              /\ subject[a] \in Tools
              /\ \/ queue' = Append(queue, subject[a])
                 \/ queue' = Append(Append(queue, subject[a]), subject[a])
<1>1. CASE RunStep \/ \E t \in Tools : GrowLate(t)
  BY <1>1, RunStepFrame
<1>2. ASSUME NEW r \in Requests, Arrival(r) PROVE queue' = queue
  BY <1>2 DEF Arrival, ListApprovals, DecideApproval, ResumeApproval, Arrive
<1>3. ASSUME NEW a \in Actors, ActorStep(a) \/ Stop(a), ~PushResume(a)
      PROVE  queue' = queue
  BY <1>3 DEF ActorStep, Expire, ReportHandoff, HandOff, Check, Decide, NoteResume, Admit,
              Authorize, Locate, NoteEvaluation, Execute, CallAgain, Retry, Attempt, Conclude,
              AppendResult, Stop
<1>4. ASSUME NEW a \in Actors, PushResume(a)
      PROVE  /\ subject[a] \in Tools
             /\ \/ queue' = queue
                \/ queue' = Append(queue, subject[a])
                \/ queue' = Append(Append(queue, subject[a]), subject[a])
  BY <1>4 DEF PushResume, TypeOK, ActorTypeOK, Holding
<1>. QED
  BY <1>1, <1>2, <1>3, <1>4 DEF Next, vars

LEMMA ListSound ==
  ASSUME TypeOK, MessagesSound, [Next]_vars
  PROVE  \A i \in 1 .. Len(queue') : Occurs(queue[i], "approved")'
<1> SUFFICES ASSUME NEW i \in 1 .. Len(queue')
             PROVE  \E t \in Tools : t = queue'[i] /\ Occurs(t, "approved")
  <2>1. ASSUME NEW i \in 1 .. Len(queue'), NEW t \in Tools, t = queue'[i],
               Occurs(t, "approved")
        PROVE  Occurs(queue[i], "approved")'
    <3>1. Occurs(t, "approved")'
      BY <2>1, OccursStays
    <3>. QED
      BY <2>1, <3>1 DEF Occurs
  <2>. QED
    BY <2>1
<1>1. queue \in Seq(Tools)
  BY DEF TypeOK, LogTypeOK
<1>2. \A j \in 1 .. Len(queue) : queue[j] \in Tools /\ Occurs(queue[j], "approved")
  BY <1>1 DEF MessagesSound
<1>3. CASE queue' = queue
  BY <1>2, <1>3
<1>4. ASSUME NEW w \in Workers, Pop(w)
      PROVE  \E t \in Tools : t = queue'[i] /\ Occurs(t, "approved")
  <2>1. queue # <<>> /\ queue' = Tail(queue)
    BY <1>4 DEF Pop
  <2>2. queue'[i] = queue[i + 1] /\ i + 1 \in 1 .. Len(queue)
    BY <1>1, <2>1
  <2>. QED
    BY <1>2, <2>2
<1>5. ASSUME NEW a \in Actors, PushResume(a), subject[a] \in Tools,
             \/ queue' = Append(queue, subject[a])
             \/ queue' = Append(Append(queue, subject[a]), subject[a])
      PROVE  \E t \in Tools : t = queue'[i] /\ Occurs(t, "approved")
  <2>1. Occurs(subject[a], "approved")
    BY <1>5 DEF PushResume, MessagesSound, WorkerSound
  <2>2. \/ i \in 1 .. Len(queue) /\ queue'[i] = queue[i]
        \/ queue'[i] = subject[a]
    BY <1>1, <1>5
  <2>. QED
    BY <1>2, <1>5, <2>1, <2>2
<1>. QED
  BY <1>3, <1>4, <1>5, ListSteps

LEMMA WorkerSoundStays ==
  ASSUME TypeOK, [Next]_vars, NEW b \in Actors, WorkerSound(b),
         /\ astate'[b] = astate[b]
         /\ subject'[b] = subject[b]
         /\ note'[b] = note[b]
  PROVE  WorkerSound(b)'
<1>1. ASSUME astate[b] \in {"admitting", "authorizing", "pushing"}, Occurs(subject[b], "approved")
      PROVE  Occurs(subject[b], "approved")'
  <2>1. PICK t \in Tools : t = subject[b]
    BY <1>1 DEF TypeOK, ActorTypeOK, Holding
  <2>2. Occurs(t, "approved")'
    BY <1>1, <2>1, OccursStays
  <2>. QED
    BY <2>1, <2>2 DEF Occurs
<1>2. ASSUME astate[b] \in {"executing", "trying", "resulting"}, Evaluated(subject[b])
      PROVE  Evaluated(subject[b])'
  <2>1. PICK t \in Tools : t = subject[b]
    BY <1>2 DEF TypeOK, ActorTypeOK, Holding
  <2>2. Evaluated(t)'
    BY <1>2, <2>1, EvaluatedStays
  <2>. QED
    BY <2>1, <2>2 DEF Evaluated, Noted
<1>. QED
  BY <1>1, <1>2 DEF WorkerSound, Resuming, Evaluations

LEMMA WorkersSound ==
  ASSUME TypeOK, MessagesSound, [Next]_vars
  PROVE  \A a \in Actors : WorkerSound(a)'
<1>0. \A a \in Actors : WorkerSound(a)
  BY DEF MessagesSound
<1>1. CASE UNCHANGED actorVars
  BY <1>0, <1>1, WorkerSoundStays DEF actorVars
<1>2. ASSUME NEW a \in Actors,
             \/ ActorStep(a) \/ Stop(a)
             \/ a \in Requests /\ Arrival(a)
             \/ a \in Workers /\ Pop(a),
             WorkerSound(a)'
      PROVE  \A b \in Actors : WorkerSound(b)'
  BY <1>0, <1>2, WorkerSoundStays, OthersStay
<1>3. ASSUME NEW r \in Requests, Arrival(r) PROVE WorkerSound(r)'
  <2>1. astate'[r] \in {"expiring", "admitting"}
    BY <1>3 DEF Arrival, ListApprovals, DecideApproval, ResumeApproval, TypeOK, ActorTypeOK,
                Actors
  <2>2. r \notin Workers
    BY ApprovalAssumption
  <2>. QED
    BY <2>1, <2>2 DEF WorkerSound
<1>4. ASSUME NEW w \in Workers, Pop(w) PROVE WorkerSound(w)'
  <2>1. /\ astate'[w] = "admitting"
        /\ subject'[w] = Head(queue)
        /\ decisions' = decisions
        /\ queue # <<>>
    BY <1>4 DEF Pop, TypeOK, ActorTypeOK, Actors, logVars
  <2>2. Occurs(Head(queue), "approved")
    BY <2>1 DEF MessagesSound, TypeOK, LogTypeOK
  <2>3. Occurs(subject[w], "approved")'
    BY <2>1, <2>2 DEF Occurs
  <2>. QED
    BY <2>1, <2>3 DEF WorkerSound, Resuming
<1>5. ASSUME NEW a \in Actors, Stop(a) PROVE WorkerSound(a)'
  BY <1>5 DEF Stop, WorkerSound, TypeOK, ActorTypeOK
<1>7. ASSUME NEW a \in Actors,
             \/ Expire(a) \/ ReportHandoff(a) \/ HandOff(a) \/ Check(a) \/ PushResume(a)
             \/ NoteResume(a)
      PROVE  WorkerSound(a)'
  <2>1. a \notin Workers
    BY <1>0, <1>7 DEF Expire, ReportHandoff, HandOff, Check, PushResume, NoteResume, WorkerSound,
                      Resuming
  <2>2. astate'[a] \in {"reporting", "handing", "expiring", "deciding", "free", "noting"}
    BY <1>7 DEF Expire, ReportHandoff, HandOff, Check, PushResume, NoteResume, TypeOK, ActorTypeOK
  <2>. QED
    BY <2>1, <2>2 DEF WorkerSound
<1>8. ASSUME NEW a \in Actors, Decide(a) PROVE WorkerSound(a)'
  <2>1. a \notin Workers
    BY <1>0, <1>8 DEF Decide, WorkerSound, Resuming
  <2>2. /\ subject[a] \in Tools
        /\ subject'[a] = subject[a]
        /\ astate'[a] \in {"pushing", "reporting"}
        /\ astate'[a] = "pushing" => wish[a].decision = "approved"
    BY <1>8 DEF Decide, TypeOK, ActorTypeOK, Holding
  <2>3. ASSUME astate'[a] = "pushing" PROVE Occurs(subject[a], "approved")'
    <3>1. AppendDecision(a, subject[a], "approved")
      BY <1>8, <2>2, <2>3 DEF Decide
    <3>2. \A t \in Tools : AppendDecision(a, t, "approved") => Occurs(t, "approved")'
      BY AppendedOccurs DEF Decisions
    <3>. QED
      BY <2>2, <3>1, <3>2 DEF Occurs
  <2>. QED
    BY <2>1, <2>2, <2>3 DEF WorkerSound
<1>9. ASSUME NEW a \in Actors, Admit(a) PROVE WorkerSound(a)'
  <2>1. \/ astate'[a] = "free"
        \/ astate'[a] = "authorizing" /\ subject' = subject
    BY <1>9 DEF Admit, Leave, GoOn, TypeOK, ActorTypeOK
  <2>2. a \in Workers => Occurs(subject[a], "approved")
    BY <1>0, <1>9 DEF Admit, WorkerSound
  <2>3. decisions' = decisions
    BY <1>9 DEF Admit, logVars
  <2>. QED
    BY <2>1, <2>2, <2>3 DEF WorkerSound, Occurs, Resuming
<1>10. ASSUME NEW a \in Actors, Authorize(a) PROVE WorkerSound(a)'
  <2>1. astate'[a] \in {"free", "locating"}
    BY <1>10 DEF Authorize, Leave, GoOn, TypeOK, ActorTypeOK
  <2>. QED
    BY <2>1 DEF WorkerSound, Resuming
<1>11. ASSUME NEW a \in Actors, Locate(a) PROVE WorkerSound(a)'
  <2>1. astate'[a] = "evaluated"
    BY <1>11 DEF Locate, TypeOK, ActorTypeOK
  <2>2. \E s \in Evaluations : note' = [note EXCEPT ![a] = s]
    BY <1>11 DEF Locate, Evaluations
  <2>3. note'[a] \in Evaluations
    BY <2>2 DEF TypeOK, ActorTypeOK
  <2>. QED
    BY <2>1, <2>3 DEF WorkerSound, Resuming
<1>12. ASSUME NEW a \in Actors, NoteEvaluation(a) PROVE WorkerSound(a)'
  <2>1. /\ subject[a] \in Tools
        /\ note[a] \in Evaluations
        /\ resumes' = [resumes EXCEPT ![subject[a]] = Append(@, note[a])]
        /\ resumes[subject[a]] \in Seq(ResumeStatuses)
    BY <1>0, <1>12 DEF NoteEvaluation, WorkerSound, TypeOK, ActorTypeOK, LogTypeOK, Holding
  <2>2. resumes'[subject[a]] = Append(resumes[subject[a]], note[a])
    BY <2>1 DEF TypeOK, LogTypeOK
  <2>3. /\ Len(resumes[subject[a]]) + 1 \in 1 .. Len(resumes'[subject[a]])
        /\ resumes'[subject[a]][Len(resumes[subject[a]]) + 1] \in Evaluations
    BY <2>1, <2>2 DEF ResumeStatuses, Evaluations
  <2>4. astate'[a] = "free" \/ (astate'[a] = "executing" /\ subject'[a] = subject[a])
    <3>1. CASE note[a] = "ready_for_resume"
      BY <1>12, <3>1 DEF NoteEvaluation, GoOn, TypeOK, ActorTypeOK
    <3>2. CASE note[a] # "ready_for_resume"
      BY <1>12, <3>2 DEF NoteEvaluation, Leave, TypeOK, ActorTypeOK
    <3>. QED
      BY <3>1, <3>2
  <2>5. astate'[a] = "executing" => Evaluated(subject[a])'
    BY <2>3, <2>4 DEF Evaluated, Noted, Evaluations
  <2>. QED
    BY <2>4, <2>5 DEF WorkerSound, Resuming
<1>13. ASSUME NEW a \in Actors, Execute(a) \/ Retry(a) \/ Attempt(a) \/ Conclude(a)
       PROVE  WorkerSound(a)'
  <2>1. /\ astate'[a] \in {"trying", "resulting"}
        /\ subject' = subject
        /\ resumes' = resumes
    BY <1>13 DEF Execute, Retry, Attempt, CallAgain, Conclude, GoOn, TypeOK, ActorTypeOK, logVars
  <2>2. Evaluated(subject[a])
    BY <1>0, <1>13 DEF Execute, Retry, Attempt, CallAgain, Conclude, WorkerSound
  <2>. QED
    BY <2>1, <2>2 DEF WorkerSound, Evaluated, Noted, Resuming
<1>14. ASSUME NEW a \in Actors, AppendResult(a) PROVE WorkerSound(a)'
  <2>1. astate'[a] = "free"
    BY <1>14 DEF AppendResult, Leave, TypeOK, ActorTypeOK
  <2>. QED
    BY <2>1 DEF WorkerSound
<1>15. ASSUME NEW a \in Actors, ActorStep(a) PROVE \A b \in Actors : WorkerSound(b)'
  <2>1. WorkerSound(a)'
    BY <1>7, <1>8, <1>9, <1>10, <1>11, <1>12, <1>13, <1>14, <1>15 DEF ActorStep
  <2>. QED
    BY <1>2, <1>15, <2>1
<1>. QED
  BY <1>1, <1>2, <1>3, <1>4, <1>5, <1>15, RunStepFrame DEF Next, vars, Actors

LEMMA MessagesStep ==
  ASSUME TypeOK, MessagesSound, [Next]_vars
  PROVE  MessagesSound'
BY CancelledStep, ListSound, WorkersSound DEF MessagesSound

LEMMA RacedGrows ==
  ASSUME [Next]_vars
  PROVE  raced \subseteq raced'
<1>1. ASSUME NEW a \in Actors, Expire(a) \/ Decide(a) PROVE raced \subseteq raced'
  BY <1>1 DEF Expire, Decide, AppendDecision
<1>. QED
  BY <1>1, DecisionsFrame

(* The message in the list stays there or is with the worker that took it. *)
LEMMA ListedStays ==
  ASSUME TypeOK, [Next]_vars, NEW t \in Tools, InList(t)
  PROVE  (InList(t) \/ WithWorker(t))'
<1>1. PICK i \in 1 .. Len(queue) : queue[i] = t
  BY DEF InList
<1>2. queue \in Seq(Tools)
  BY DEF TypeOK, LogTypeOK
<1>3. CASE queue' = queue
  BY <1>1, <1>3 DEF InList
<1>4. ASSUME NEW w \in Workers, Pop(w) PROVE (InList(t) \/ WithWorker(t))'
  <2>1. queue # <<>> /\ queue' = Tail(queue) /\ subject'[w] = Head(queue)
    BY <1>4 DEF Pop, TypeOK, ActorTypeOK, Actors
  <2>2. CASE i = 1
    <3>1. subject'[w] = t
      BY <1>1, <1>2, <2>1, <2>2
    <3>. QED
      BY <3>1 DEF WithWorker
  <2>3. CASE i # 1
    <3>1. i - 1 \in 1 .. Len(queue') /\ queue'[i - 1] = t
      BY <1>1, <1>2, <2>1, <2>3
    <3>. QED
      BY <3>1 DEF InList
  <2>. QED
    BY <2>2, <2>3
<1>5. ASSUME NEW u \in Tools,
             queue' = Append(queue, u) \/ queue' = Append(Append(queue, u), u)
      PROVE  InList(t)'
  <2>1. i \in 1 .. Len(queue') /\ queue'[i] = t
    BY <1>1, <1>2, <1>5
  <2>. QED
    BY <2>1 DEF InList
<1>. QED
  BY <1>3, <1>4, <1>5, ListSteps

(* A worker keeps its message until it is evaluated, cancelled or lost: it *)
(* does not drop it for the decision of another unless decisions overlap.  *)
LEMMA WithWorkerStays ==
  ASSUME TypeOK, MessagesSound, UndecidedWhenRead, [Next]_vars,
         NEW t \in Tools \ raced, WithWorker(t)
  PROVE  Carried(t)'
<1>1. PICK w \in Workers : subject[w] = t
  BY DEF WithWorker
<1>2. w \in Actors
  BY <1>1 DEF Actors
<1>3. astate[w] \in Resuming
  BY <1>1, <1>2, NoToolIsNone DEF MessagesSound, WorkerSound, TypeOK, ActorTypeOK, Holding
<1>4. CASE subject'[w] = t
  BY <1>4 DEF Carried, WithWorker
<1>5. CASE UNCHANGED actorVars
  BY <1>1, <1>4, <1>5 DEF actorVars
<1>6. ASSUME NEW a \in Actors, a # w,
             \/ ActorStep(a) \/ Stop(a)
             \/ a \in Requests /\ Arrival(a)
             \/ a \in Workers /\ Pop(a)
      PROVE  Carried(t)'
  BY <1>1, <1>2, <1>4, <1>6, OthersStay
<1>7. ASSUME NEW r \in Requests, Arrival(r) PROVE r # w
  BY ApprovalAssumption
<1>8. ~Pop(w)
  BY <1>3 DEF Pop, Resuming
<1>9. CASE Stop(w)
  <2>1. t \in lost'
    BY <1>1, <1>9 DEF Stop
  <2>. QED
    BY <2>1 DEF Carried
<1>10. CASE Admit(w)
  <2>1. CASE runStatus = "cancelled"
    <3>1. cancelled'
      BY <2>1, CancelledStep DEF MessagesSound
    <3>. QED
      BY <3>1 DEF Carried
  <2>2. CASE runStatus # "cancelled"
    BY <1>1, <1>4, <1>10, <2>2 DEF Admit, GoOn
  <2>. QED
    BY <2>1, <2>2
<1>11. CASE Authorize(w)
  <2>1. Occurs(t, "approved")
    BY <1>1, <1>2, <1>11 DEF Authorize, MessagesSound, WorkerSound
  <2>2. Len(decisions[t]) <= 1 /\ decisions[t] \in Seq(Decisions)
    BY DEF UndecidedWhenRead, TypeOK, LogTypeOK
  <2>3. Decided(t) /\ LatestDecision(t) = "approved"
    BY <2>1, <2>2 DEF Occurs, Decided, LatestDecision
  <2>. QED
    BY <1>1, <1>4, <1>11, <2>3 DEF Authorize, GoOn
<1>12. CASE Locate(w)
  BY <1>1, <1>4, <1>12 DEF Locate
<1>13. CASE NoteEvaluation(w)
  <2>1. /\ note[w] \in Evaluations
        /\ resumes' = [resumes EXCEPT ![t] = Append(@, note[w])]
        /\ resumes[t] \in Seq(ResumeStatuses)
    BY <1>1, <1>2, <1>13 DEF NoteEvaluation, MessagesSound, WorkerSound, TypeOK, LogTypeOK
  <2>2. resumes'[t] = Append(resumes[t], note[w])
    BY <2>1 DEF TypeOK, LogTypeOK
  <2>3. /\ Len(resumes[t]) + 1 \in 1 .. Len(resumes'[t])
        /\ resumes'[t][Len(resumes[t]) + 1] \in Evaluations
    BY <2>1, <2>2 DEF ResumeStatuses, Evaluations
  <2>4. Evaluated(t)'
    BY <2>3 DEF Evaluated, Noted, Evaluations
  <2>. QED
    BY <2>4 DEF Carried
<1>14. CASE Execute(w) \/ Retry(w) \/ Attempt(w) \/ Conclude(w)
  BY <1>1, <1>4, <1>14 DEF Execute, Retry, Attempt, CallAgain, Conclude, GoOn
<1>15. CASE AppendResult(w)
  <2>1. Evaluated(t)
    BY <1>1, <1>2, <1>15 DEF AppendResult, MessagesSound, WorkerSound
  <2>2. Evaluated(t)'
    BY <2>1, EvaluatedStays
  <2>. QED
    BY <2>2 DEF Carried
<1>16. ASSUME ActorStep(w)
       PROVE  \/ Admit(w) \/ Authorize(w) \/ Locate(w) \/ NoteEvaluation(w) \/ Execute(w)
              \/ Retry(w) \/ Attempt(w) \/ Conclude(w) \/ AppendResult(w)
  BY <1>3, <1>16 DEF ActorStep, Expire, ReportHandoff, HandOff, Check, Decide, PushResume,
                     NoteResume, Resuming
<1>. QED
  BY <1>2, <1>5, <1>6, <1>7, <1>8, <1>9, <1>10, <1>11, <1>12, <1>13, <1>14, <1>15, <1>16,
     RunStepFrame DEF Next, vars, Actors

LEMMA LostGrows ==
  ASSUME [Next]_vars
  PROVE  lost \subseteq lost'
<1>1. CASE RunStep \/ \E t \in Tools : GrowLate(t)
  BY <1>1, RunStepFrame
<1>2. ASSUME NEW r \in Requests, Arrival(r) PROVE lost' = lost
  BY <1>2 DEF Arrival, ListApprovals, DecideApproval, ResumeApproval, Arrive
<1>3. ASSUME NEW w \in Workers, Pop(w) PROVE lost' = lost
  BY <1>3 DEF Pop, historyVars
<1>4. ASSUME NEW a \in Actors, ActorStep(a) PROVE lost' = lost
  BY <1>4 DEF ActorStep, Expire, ReportHandoff, HandOff, Check, Decide, PushResume, NoteResume,
              Admit, Authorize, Locate, NoteEvaluation, Execute, CallAgain, Retry, Attempt,
              Conclude, AppendResult, historyVars
<1>5. ASSUME NEW a \in Actors, Stop(a) PROVE lost \subseteq lost'
  BY <1>5 DEF Stop
<1>. QED
  BY <1>1, <1>2, <1>3, <1>4, <1>5 DEF Next, vars, historyVars

LEMMA CarriedStays ==
  ASSUME TypeOK, MessagesSound, UndecidedWhenRead, [Next]_vars,
         NEW t \in Tools \ raced, Carried(t)
  PROVE  Carried(t)'
<1>1. CASE InList(t)
  BY <1>1, ListedStays DEF Carried
<1>2. CASE WithWorker(t)
  BY <1>2, WithWorkerStays
<1>3. CASE Evaluated(t)
  BY <1>3, EvaluatedStays DEF Carried
<1>4. CASE cancelled
  BY <1>4, CancelledStep DEF Carried, MessagesSound
<1>5. CASE t \in lost
  BY <1>5, LostGrows DEF Carried
<1>. QED
  BY <1>1, <1>2, <1>3, <1>4, <1>5 DEF Carried

(* A request notes its own scheduling only.                                *)
LEMMA NotingSteps ==
  ASSUME TypeOK, [Next]_vars, NEW a \in Actors, astate'[a] = "noting"
  PROVE  \/ astate[a] = "noting" /\ note'[a] = note[a] /\ subject'[a] = subject[a]
         \/ PushResume(a)
<1>1. CASE UNCHANGED actorVars
  BY <1>1 DEF actorVars
<1>2. ASSUME NEW b \in Actors, a # b,
             \/ ActorStep(b) \/ Stop(b)
             \/ b \in Requests /\ Arrival(b)
             \/ b \in Workers /\ Pop(b)
      PROVE  astate[a] = "noting" /\ note'[a] = note[a] /\ subject'[a] = subject[a]
  BY <1>2, OthersStay
<1>3. ~(a \in Requests /\ Arrival(a))
  BY DEF Arrival, ListApprovals, DecideApproval, ResumeApproval, TypeOK, ActorTypeOK
<1>4. ~(a \in Workers /\ Pop(a))
  BY DEF Pop, TypeOK, ActorTypeOK
<1>5. ASSUME ActorStep(a) \/ Stop(a) PROVE PushResume(a)
  BY <1>5 DEF ActorStep, Expire, ReportHandoff, HandOff, Check, Decide, NoteResume, Admit,
              Authorize, Locate, NoteEvaluation, Execute, CallAgain, Retry, Attempt, Conclude,
              AppendResult, Stop, Leave, GoOn, TypeOK, ActorTypeOK
<1>. QED
  BY <1>1, <1>2, <1>3, <1>4, <1>5, RunStepFrame DEF Next, vars, Actors

LEMMA QueuedStep ==
  ASSUME TypeOK, MessagesSound, UndecidedWhenRead, QueuedCarried, [Next]_vars
  PROVE  QueuedCarried'
<1> SUFFICES ASSUME NEW t \in Tools, t \notin raced'
             PROVE  /\ Noted(t, "queued")' => Carried(t)'
                    /\ \A a \in Actors :
                         (astate[a] = "noting" /\ note[a] = "queued" /\ subject[a] = t)'
                           => Carried(t)'
  BY DEF QueuedCarried
<1>1. t \notin raced
  BY RacedGrows
<1>2. Carried(t) => Carried(t)'
  BY <1>1, CarriedStays
<1>3. ASSUME Noted(t, "queued")' PROVE Carried(t)'
  <2>1. CASE Noted(t, "queued")
    BY <1>1, <1>2, <2>1 DEF QueuedCarried
  <2>2. CASE ~Noted(t, "queued")
    <3>1. PICK a \in Actors : /\ NoteResume(a) \/ NoteEvaluation(a)
                              /\ subject[a] = t
                              /\ note[a] = "queued"
      BY <1>3, <2>2, NewlyNoted
    <3>2. ~NoteEvaluation(a)
      BY <3>1 DEF NoteEvaluation, MessagesSound, WorkerSound, Evaluations
    <3>. QED
      BY <1>1, <1>2, <3>1, <3>2 DEF NoteResume, QueuedCarried
  <2>. QED
    BY <2>1, <2>2
<1>4. ASSUME NEW a \in Actors, (astate[a] = "noting" /\ note[a] = "queued" /\ subject[a] = t)'
      PROVE  Carried(t)'
  <2>1. CASE astate[a] = "noting" /\ note'[a] = note[a] /\ subject'[a] = subject[a]
    BY <1>1, <1>2, <1>4, <2>1 DEF QueuedCarried
  <2>2. CASE PushResume(a)
    <3>1. /\ subject' = subject
          /\ queue \in Seq(Tools)
      BY <2>2 DEF PushResume, TypeOK, LogTypeOK
    <3>2. \/ queue' = Append(queue, subject[a])
          \/ queue' = Append(Append(queue, subject[a]), subject[a])
      BY <1>4, <2>2 DEF PushResume, TypeOK, ActorTypeOK
    <3>3. Len(queue) + 1 \in 1 .. Len(queue') /\ queue'[Len(queue) + 1] = t
      BY <1>4, <3>1, <3>2
    <3>. QED
      BY <3>3 DEF Carried, InList
  <2>. QED
    BY <1>4, <2>1, <2>2, NotingSteps
<1>. QED
  BY <1>3, <1>4

(* An operator never reads "queued" of a message that nobody has, unless a *)
(* cancellation, overlapping decisions or a fault explain it.              *)
THEOREM QueuedIsInFlightHolds == Spec => []QueuedIsInFlight
<1>1. Init => MessagesSound /\ UndecidedWhenRead /\ QueuedCarried
  BY DEF Init, MessagesSound, WorkerSound, Resuming, UndecidedWhenRead, MayDecide, QueuedCarried,
         Noted
<1>2. /\ TypeOK
      /\ MessagesSound /\ UndecidedWhenRead /\ QueuedCarried
      /\ [Next]_vars
      => MessagesSound' /\ UndecidedWhenRead' /\ QueuedCarried'
  BY MessagesStep, UndecidedStep, QueuedStep
<1>3. TypeOK /\ QueuedCarried => QueuedIsInFlight
  <2> SUFFICES ASSUME TypeOK, QueuedCarried,
                      NEW t \in Tools \ raced,
                      resumes[t] # <<>>, resumes[t][Len(resumes[t])] = "queued"
               PROVE  Carried(t)
    BY DEF QueuedIsInFlight, Carried, InList, WithWorker
  <2>1. resumes[t] \in Seq(ResumeStatuses)
    BY DEF TypeOK, LogTypeOK
  <2>2. Noted(t, "queued")
    BY <2>1 DEF Noted
  <2>. QED
    BY <2>2 DEF QueuedCarried
<1>. QED
  BY <1>1, <1>2, <1>3, TypeCorrect, PTL DEF Spec
----------------------------------------------------------------------------
(* Counting: the places of a value in a sequence.                          *)
Places(s, x) == {i \in 1 .. Len(s) : s[i] = x}

LEMMA PlacesCounted ==
  ASSUME NEW T, NEW s \in Seq(T), NEW x
  PROVE  IsFiniteSet(Places(s, x)) /\ Cardinality(Places(s, x)) \in Nat
<1>1. IsFiniteSet(1 .. Len(s))
  BY FS_Interval
<1>2. Places(s, x) \in SUBSET (1 .. Len(s))
  BY DEF Places
<1>. QED
  BY <1>1, <1>2, FS_Subset, FS_CardinalityType

LEMMA PlacesAppended ==
  ASSUME NEW T, NEW s \in Seq(T), NEW x, NEW y \in T
  PROVE  Cardinality(Places(Append(s, y), x)) =
           Cardinality(Places(s, x)) + (IF y = x THEN 1 ELSE 0)
<1>1. IsFiniteSet(Places(s, x)) /\ Cardinality(Places(s, x)) \in Nat
  BY PlacesCounted
<1>2. Len(s) + 1 \notin Places(s, x)
  BY DEF Places
<1>3. CASE y = x
  <2>1. Places(Append(s, y), x) = Places(s, x) \union {Len(s) + 1}
    BY <1>3 DEF Places
  <2>. QED
    BY <1>1, <1>2, <1>3, <2>1, FS_AddElement
<1>4. CASE y # x
  <2>1. Places(Append(s, y), x) = Places(s, x)
    BY <1>4 DEF Places
  <2>. QED
    BY <1>1, <1>4, <2>1
<1>. QED
  BY <1>3, <1>4

LEMMA PlacesPopped ==
  ASSUME NEW T, NEW s \in Seq(T), s # <<>>, NEW x
  PROVE  Cardinality(Places(s, x)) =
           Cardinality(Places(Tail(s), x)) + (IF Head(s) = x THEN 1 ELSE 0)
<1>. DEFINE rest == Places(Tail(s), x)
            moved == Places(s, x) \ {1}
            shift == [i \in rest |-> i + 1]
<1>1. /\ Tail(s) \in Seq(T) /\ Len(s) \in Nat \ {0} /\ Len(Tail(s)) = Len(s) - 1
      /\ \A i \in 1 .. Len(Tail(s)) : Tail(s)[i] = s[i + 1]
      /\ Head(s) = s[1]
  OBVIOUS
<1>2. /\ IsFiniteSet(rest) /\ Cardinality(rest) \in Nat
      /\ IsFiniteSet(Places(s, x)) /\ Cardinality(Places(s, x)) \in Nat
  BY <1>1, PlacesCounted
<1>3. shift \in Bijection(rest, moved)
  <2>1. \A i \in rest : i \in Nat \ {0} /\ i + 1 \in moved
    BY <1>1 DEF Places
  <2>2. shift \in [rest -> moved]
    BY <2>1
  <2>3. \A i, j \in rest : shift[i] = shift[j] => i = j
    BY <2>1
  <2>4. \A j \in moved : j - 1 \in rest /\ j = (j - 1) + 1
    BY <1>1 DEF Places
  <2>5. \A j \in moved : \E i \in rest : shift[i] = j
    BY <2>4
  <2>. QED
    BY <2>2, <2>3, <2>5, Fun_IsBij
<1>4. Cardinality(moved) = Cardinality(rest)
  BY <1>2, <1>3, FS_Bijection DEF ExistsBijection
<1>5. 1 \in Places(s, x) <=> Head(s) = x
  BY <1>1 DEF Places
<1>6. Cardinality(moved) = IF 1 \in Places(s, x) THEN Cardinality(Places(s, x)) - 1
                           ELSE Cardinality(Places(s, x))
  BY <1>2, FS_RemoveElement
<1>. QED
  BY <1>2, <1>4, <1>5, <1>6
----------------------------------------------------------------------------
(* The budget of a tool: each of its approvals, resume requests and        *)
(* doubled messages is with an actor, in the list, used up or gone.        *)
Bringing == {"pushing", "admitting", "authorizing", "locating", "evaluated", "executing"}

Bearers(t) == {a \in Actors : subject[a] = t /\ astate[a] \in Bringing}
Queued(t) == Cardinality(Places(queue, t))
Executions(t) == Len(invoked[t])

WithinBudget(t) ==
  /\ IsFiniteSet(Bearers(t))
  /\ Executions(t) + Queued(t) + Cardinality(Bearers(t)) <= Approvals(t) + extra[t]

Budgeted == \A t \in Tools : WithinBudget(t)

(* What a step of a does to the bearers of t.                              *)
LEMMA BearersStep ==
  ASSUME NEW t \in Tools, IsFiniteSet(Bearers(t)), NEW a \in Actors,
         \A b \in Actors \ {a} : astate'[b] = astate[b] /\ subject'[b] = subject[b]
  PROVE  /\ IsFiniteSet(Bearers(t)') /\ Cardinality(Bearers(t)') \in Nat
         /\ Cardinality(Bearers(t)) \in Nat
         /\ (a \in Bearers(t) <=> a \in Bearers(t)')
              => Cardinality(Bearers(t)') = Cardinality(Bearers(t))
         /\ a \notin Bearers(t) => Cardinality(Bearers(t)') <= Cardinality(Bearers(t)) + 1
         /\ a \notin Bearers(t)' => Cardinality(Bearers(t)') <= Cardinality(Bearers(t))
         /\ a \in Bearers(t) /\ a \notin Bearers(t)'
              => Cardinality(Bearers(t)') = Cardinality(Bearers(t)) - 1
<1>. DEFINE before == Bearers(t)
            after == Bearers(t)'
<1>1. after = before \/ after = before \union {a} \/ after = before \ {a}
  BY DEF Bearers
<1>2. /\ (a \in before <=> a \in after) => after = before
      /\ a \notin before => after = before \/ after = before \union {a}
      /\ a \notin after => after = before \ {a}
  BY DEF Bearers
<1>. HIDE DEF before, after
<1>4. /\ IsFiniteSet(before \union {a}) /\ IsFiniteSet(before \ {a})
      /\ Cardinality(before) \in Nat
      /\ Cardinality(before \union {a}) = IF a \in before THEN Cardinality(before)
                                          ELSE Cardinality(before) + 1
      /\ Cardinality(before \ {a}) = IF a \in before THEN Cardinality(before) - 1
                                     ELSE Cardinality(before)
  BY FS_AddElement, FS_RemoveElement, FS_CardinalityType DEF before
<1>5. Cardinality(before \ {a}) \in Nat /\ Cardinality(before \union {a}) \in Nat
  BY <1>4, FS_CardinalityType
<1>6. IsFiniteSet(after) /\ Cardinality(after) \in Nat
  BY <1>1, <1>4, <1>5 DEF before
<1>7. (a \in before <=> a \in after) => Cardinality(after) = Cardinality(before)
  BY <1>2
<1>8. a \notin before => Cardinality(after) <= Cardinality(before) + 1
  BY <1>2, <1>4
<1>9. a \in before /\ a \notin after => Cardinality(after) = Cardinality(before) - 1
  BY <1>2, <1>4
<1>10. a \notin after => Cardinality(after) <= Cardinality(before)
  BY <1>4, <1>7, <1>9
<1>. QED
  BY <1>4, <1>6, <1>7, <1>8, <1>9, <1>10 DEF before, after

LEMMA BudgetTyped ==
  ASSUME TypeOK, NEW t \in Tools
  PROVE  Executions(t) \in Nat /\ extra[t] \in Nat /\ Queued(t) \in Nat /\ Approvals(t) \in Nat
<1>1. decisions[t] \in Seq(Decisions) /\ queue \in Seq(Tools)
  BY DEF TypeOK, LogTypeOK
<1>2. Cardinality(Places(decisions[t], "approved")) \in Nat
  BY <1>1, PlacesCounted
<1>3. Cardinality(Places(queue, t)) \in Nat
  BY <1>1, PlacesCounted
<1>4. Approvals(t) = Cardinality(Places(decisions[t], "approved"))
  BY DEF Approvals, Places
<1>5. Executions(t) \in Nat
  BY DEF TypeOK, LogTypeOK, Executions
<1>. QED
  BY <1>2, <1>3, <1>4, <1>5 DEF TypeOK, LogTypeOK, Queued

(* A step of an actor other than an approval and a push only uses up or    *)
(* gives up what the actor bears.                                          *)
LEMMA ResumesInvoke ==
  ASSUME TypeOK, NEW t \in Tools, Budgeted, NEW a \in Actors,
         ActorStep(a) \/ Stop(a), ~Decide(a), ~PushResume(a)
  PROVE  WithinBudget(t)'
<1>1. \A b \in Actors \ {a} : astate'[b] = astate[b] /\ subject'[b] = subject[b]
  BY OthersStay
<1>2. /\ Executions(t) \in Nat /\ extra[t] \in Nat /\ Queued(t) \in Nat /\ Approvals(t) \in Nat
      /\ WithinBudget(t)
  BY BudgetTyped DEF Budgeted
<1>3. UNCHANGED <<queue, extra>>
  BY DEF ActorStep, Stop, Expire, ReportHandoff, HandOff, Check, NoteResume, Admit, Authorize,
         Locate, NoteEvaluation, Execute, CallAgain, Retry, Attempt, Conclude, AppendResult,
         historyVars
<1>4. Approvals(t)' = Approvals(t)
  <2>1. CASE Expire(a)
    <3>1. PICK u \in Tools : decisions' = [decisions EXCEPT ![u] = Append(@, "expired")]
      BY <2>1 DEF Expire, AppendDecision, TypeOK, ActorTypeOK
    <3>2. decisions[t] \in Seq(Decisions) /\ "expired" \in Decisions /\ "expired" # "approved"
      BY DEF TypeOK, LogTypeOK, Decisions
    <3>3. decisions'[t] = decisions[t] \/ decisions'[t] = Append(decisions[t], "expired")
      BY <3>1 DEF TypeOK, LogTypeOK
    <3>4. /\ Approvals(t) = Cardinality(Places(decisions[t], "approved"))
          /\ Approvals(t)' = Cardinality(Places(decisions'[t], "approved"))
      BY DEF Approvals, Places
    <3>5. Cardinality(Places(Append(decisions[t], "expired"), "approved")) =
            Cardinality(Places(decisions[t], "approved")) + 0
      BY <3>2, PlacesAppended
    <3>6. Approvals(t)' = Approvals(t) \/ Approvals(t)' = Approvals(t) + 0
      BY <3>3, <3>4, <3>5
    <3>. QED
      BY <1>2, <3>6
  <2>2. CASE ~Expire(a)
    <3>1. UNCHANGED decisions
      BY <2>2 DEF ActorStep, Stop, ReportHandoff, HandOff, Check, NoteResume, Admit, Authorize,
                  Locate, NoteEvaluation, Execute, CallAgain, Retry, Attempt, Conclude,
                  AppendResult, logVars
    <3>. QED
      BY <3>1 DEF Approvals
  <2>. QED
    BY <2>1, <2>2
<1>5. /\ Queued(t)' = Queued(t)
      /\ extra'[t] = extra[t]
  BY <1>3 DEF Queued
<1>6. CASE Execute(a)
  <2>1. /\ a \notin Bearers(t)'
        /\ a \notin Bearers(t) => Executions(t)' = Executions(t)
    BY <1>6 DEF Execute, GoOn, Bearers, Bringing, TypeOK, LogTypeOK, ActorTypeOK, Executions
  <2>2. Executions(t)' \in {Executions(t), Executions(t) + 1}
    <3>1. invoked'[t] = invoked[t] \/ invoked'[t] = Append(invoked[t], 1)
      BY <1>6 DEF Execute, TypeOK, LogTypeOK
    <3>2. invoked[t] \in Seq(Nat \ {0})
      BY DEF TypeOK, LogTypeOK
    <3>. QED
      BY <3>1, <3>2 DEF Executions
  <2>3. /\ IsFiniteSet(Bearers(t)') /\ Cardinality(Bearers(t)') \in Nat
        /\ Cardinality(Bearers(t)) \in Nat
        /\ a \in Bearers(t) => Cardinality(Bearers(t)') = Cardinality(Bearers(t)) - 1
        /\ a \notin Bearers(t) => Cardinality(Bearers(t)') <= Cardinality(Bearers(t))
    BY <1>1, <1>2, <2>1, BearersStep DEF WithinBudget
  <2>4. CASE a \in Bearers(t)
    BY <1>2, <1>4, <1>5, <2>2, <2>3, <2>4 DEF WithinBudget
  <2>5. CASE a \notin Bearers(t)
    BY <1>2, <1>4, <1>5, <2>1, <2>3, <2>5 DEF WithinBudget
  <2>. QED
    BY <2>4, <2>5
<1>8. CASE Retry(a) \/ Attempt(a)
  <2>1. Executions(t)' = Executions(t)
    BY <1>8, CallsAgain DEF TypeOK, Executions
  <2>2. a \notin Bearers(t) /\ a \notin Bearers(t)'
    BY <1>8 DEF Retry, Attempt, CallAgain, Bearers, Bringing
  <2>. QED
    BY <1>1, <1>2, <1>4, <1>5, <2>1, <2>2, BearersStep DEF WithinBudget
<1>7. CASE ~Execute(a) /\ ~Retry(a) /\ ~Attempt(a)
  <2>1. UNCHANGED invoked
    BY <1>7 DEF ActorStep, Stop, Expire, ReportHandoff, HandOff, Check, NoteResume, Admit,
                Authorize, Locate, NoteEvaluation, Conclude, AppendResult, historyVars
  <2>3. Executions(t)' = Executions(t)
    BY <2>1 DEF Executions
  <2>2. a \notin Bearers(t) => a \notin Bearers(t)'
    BY <1>7, NoToolIsNone
       DEF ActorStep, Stop, Expire, ReportHandoff, HandOff, Check, NoteResume, Admit, Authorize,
           Locate, NoteEvaluation, Conclude, AppendResult, Leave, GoOn, Bearers, Bringing,
           TypeOK, ActorTypeOK
  <2>. QED
    BY <1>1, <1>2, <1>4, <1>5, <2>2, <2>3, BearersStep DEF WithinBudget
<1>. QED
  BY <1>6, <1>7, <1>8

(* An approval adds one bearer, its request.                               *)
LEMMA ApprovalsGrant ==
  ASSUME TypeOK, NEW t \in Tools, Budgeted, NEW a \in Actors, Decide(a)
  PROVE  WithinBudget(t)'
<1>1. \A b \in Actors \ {a} : astate'[b] = astate[b] /\ subject'[b] = subject[b]
  BY OthersStay DEF ActorStep
<1>2. /\ Executions(t) \in Nat /\ extra[t] \in Nat /\ Queued(t) \in Nat /\ Approvals(t) \in Nat
      /\ WithinBudget(t)
  BY BudgetTyped DEF Budgeted
<1>3. /\ Executions(t)' = Executions(t)
      /\ extra'[t] = extra[t] /\ Queued(t)' = Queued(t)
  BY DEF Decide, Queued, Executions
<1>4. PICK u \in Tools, d \in Decisions :
        u = subject[a] /\ d = wish[a].decision
        /\ decisions' = [decisions EXCEPT ![u] = Append(@, d)]
  BY DEF Decide, AppendDecision, TypeOK, ActorTypeOK, Holding, Decisions
<1>5. /\ Approvals(t) = Cardinality(Places(decisions[t], "approved"))
      /\ Approvals(t)' = Cardinality(Places(decisions'[t], "approved"))
  BY DEF Approvals, Places
<1>6. decisions[t] \in Seq(Decisions)
  BY DEF TypeOK, LogTypeOK
<1>7. Approvals(t)' = Approvals(t) + (IF u = t /\ d = "approved" THEN 1 ELSE 0)
  <2>1. Cardinality(Places(Append(decisions[t], d), "approved")) =
          Cardinality(Places(decisions[t], "approved")) + (IF d = "approved" THEN 1 ELSE 0)
    BY <1>6, PlacesAppended
  <2>2. decisions'[t] = IF u = t THEN Append(decisions[t], d) ELSE decisions[t]
    BY <1>4 DEF TypeOK, LogTypeOK
  <2>. QED
    BY <1>2, <1>5, <2>1, <2>2
<1>8. /\ a \notin Bearers(t)
      /\ a \in Bearers(t)' => u = t /\ d = "approved"
  BY <1>4 DEF Decide, Bearers, Bringing, TypeOK, ActorTypeOK
<1>. QED
  BY <1>1, <1>2, <1>3, <1>7, <1>8, BearersStep DEF WithinBudget

(* A push turns its bearer into a message; a doubled one is extra.         *)
LEMMA PushesSpend ==
  ASSUME TypeOK, NEW t \in Tools, Budgeted, NEW a \in Actors, PushResume(a)
  PROVE  WithinBudget(t)'
<1>1. \A b \in Actors \ {a} : astate'[b] = astate[b] /\ subject'[b] = subject[b]
  BY OthersStay DEF ActorStep
<1>2. /\ Executions(t) \in Nat /\ extra[t] \in Nat /\ Queued(t) \in Nat /\ Approvals(t) \in Nat
      /\ WithinBudget(t)
  BY BudgetTyped DEF Budgeted
<1>3. /\ Executions(t)' = Executions(t)
      /\ Approvals(t)' = Approvals(t)
  BY DEF PushResume, logVars, Approvals, Executions
<1>4. PICK u \in Tools : u = subject[a]
  BY DEF PushResume, TypeOK, ActorTypeOK, Holding
<1>5. queue \in Seq(Tools) /\ Append(queue, u) \in Seq(Tools)
  BY DEF TypeOK, LogTypeOK
<1>. DEFINE n == IF u = t THEN 1 ELSE 0
<1>6. /\ Cardinality(Places(Append(queue, u), t)) = Queued(t) + n
      /\ Cardinality(Places(Append(Append(queue, u), u), t)) = Queued(t) + n + n
  <2>1. Cardinality(Places(Append(queue, u), t)) = Cardinality(Places(queue, t)) + n
    BY <1>5, PlacesAppended
  <2>2. Cardinality(Places(Append(Append(queue, u), u), t)) =
          Cardinality(Places(Append(queue, u), t)) + n
    BY <1>5, PlacesAppended
  <2>. QED
    BY <2>1, <2>2 DEF Queued
<1>7. /\ a \in Bearers(t) <=> u = t
      /\ a \notin Bearers(t)'
  BY <1>4 DEF PushResume, Bearers, Bringing, TypeOK, ActorTypeOK
<1>8. \/ Queued(t)' = Queued(t) /\ extra'[t] = extra[t]
      \/ Queued(t)' = Queued(t) + n /\ extra'[t] = extra[t]
      \/ Queued(t)' = Queued(t) + n + n /\ extra'[t] = extra[t] + n
  <2>1. \/ queue' = queue /\ extra' = extra
        \/ queue' = Append(queue, u) /\ extra' = extra
        \/ queue' = Append(Append(queue, u), u) /\ extra' = [extra EXCEPT ![u] = @ + 1]
    BY <1>4 DEF PushResume
  <2>2. extra' = [extra EXCEPT ![u] = @ + 1] => extra'[t] = extra[t] + n
    BY <1>2 DEF TypeOK, LogTypeOK
  <2>. QED
    BY <1>6, <2>1, <2>2 DEF Queued
<1>9. n \in {0, 1} /\ (n = 1 <=> u = t)
  OBVIOUS
<1>10. /\ IsFiniteSet(Bearers(t)') /\ Cardinality(Bearers(t)') \in Nat
       /\ Cardinality(Bearers(t)) \in Nat
       /\ Cardinality(Bearers(t)') = Cardinality(Bearers(t)) - n
  BY <1>1, <1>2, <1>7, <1>9, BearersStep DEF WithinBudget
<1>. HIDE DEF n
<1>. QED
  BY <1>2, <1>3, <1>8, <1>9, <1>10 DEF WithinBudget

(* A resume request bears what it adds to extra.                           *)
LEMMA RequestsGrant ==
  ASSUME TypeOK, NEW t \in Tools, Budgeted, NEW r \in Requests, Arrival(r)
  PROVE  WithinBudget(t)'
<1>1. r \in Actors /\ \A b \in Actors \ {r} : astate'[b] = astate[b] /\ subject'[b] = subject[b]
  BY OthersStay DEF Actors
<1>2. /\ Executions(t) \in Nat /\ extra[t] \in Nat /\ Queued(t) \in Nat /\ Approvals(t) \in Nat
      /\ WithinBudget(t)
  BY BudgetTyped DEF Budgeted
<1>3. /\ Executions(t)' = Executions(t)
      /\ Approvals(t)' = Approvals(t) /\ Queued(t)' = Queued(t)
  BY DEF Arrival, ListApprovals, DecideApproval, ResumeApproval, Arrive, logVars, Approvals,
         Queued, Executions
<1>4. /\ r \notin Bearers(t)
      /\ extra'[t] \in {extra[t], extra[t] + 1}
      /\ r \in Bearers(t)' => extra'[t] = extra[t] + 1
  <2>1. astate[r] = "free" /\ r \notin Bearers(t)
    BY DEF Arrival, ListApprovals, DecideApproval, ResumeApproval, Arrive, Bearers, Bringing
  <2>2. CASE \E u \in Tools : ResumeApproval(r, u)
    <3>1. PICK u \in Tools : ResumeApproval(r, u)
      BY <2>2
    <3>2. extra'[t] = IF u = t THEN extra[t] + 1 ELSE extra[t]
      BY <3>1 DEF ResumeApproval, TypeOK, LogTypeOK
    <3>3. subject'[r] = u
      BY <1>1, <3>1 DEF ResumeApproval, TypeOK, ActorTypeOK
    <3>. QED
      BY <1>2, <2>1, <3>2, <3>3 DEF Bearers
  <2>3. CASE ~\E u \in Tools : ResumeApproval(r, u)
    <3>1. UNCHANGED extra /\ astate' = [astate EXCEPT ![r] = "expiring"]
      BY <2>3 DEF Arrival, ListApprovals, DecideApproval
    <3>2. r \notin Bearers(t)'
      BY <1>1, <3>1 DEF Bearers, Bringing, TypeOK, ActorTypeOK
    <3>. QED
      BY <2>1, <3>1, <3>2
  <2>. QED
    BY <2>2, <2>3
<1>. QED
  BY <1>1, <1>2, <1>3, <1>4, BearersStep DEF WithinBudget

(* A worker bears the message that it takes from the list.                 *)
LEMMA WorkersTake ==
  ASSUME TypeOK, NEW t \in Tools, Budgeted, NEW w \in Workers, Pop(w)
  PROVE  WithinBudget(t)'
<1>1. w \in Actors /\ \A b \in Actors \ {w} : astate'[b] = astate[b] /\ subject'[b] = subject[b]
  BY OthersStay DEF Actors
<1>2. /\ Executions(t) \in Nat /\ extra[t] \in Nat /\ Queued(t) \in Nat /\ Approvals(t) \in Nat
      /\ WithinBudget(t)
  BY BudgetTyped DEF Budgeted
<1>3. /\ Executions(t)' = Executions(t)
      /\ Approvals(t)' = Approvals(t) /\ extra'[t] = extra[t]
  BY DEF Pop, logVars, historyVars, Approvals, Executions
<1>4. Queued(t) = Queued(t)' + (IF Head(queue) = t THEN 1 ELSE 0)
  <2>1. queue \in Seq(Tools) /\ queue # <<>> /\ queue' = Tail(queue)
    BY DEF Pop, TypeOK, LogTypeOK
  <2>. QED
    BY <2>1, PlacesPopped DEF Queued
<1>5. Queued(t)' \in Nat
  <2>1. Tail(queue) \in Seq(Tools)
    BY DEF Pop, TypeOK, LogTypeOK
  <2>2. Cardinality(Places(Tail(queue), t)) \in Nat
    BY <2>1, PlacesCounted
  <2>. QED
    BY <2>2 DEF Pop, Queued
<1>6. /\ w \notin Bearers(t)
      /\ w \in Bearers(t)' => Head(queue) = t
  BY <1>1 DEF Pop, Bearers, Bringing, TypeOK, ActorTypeOK
<1>. QED
  BY <1>1, <1>2, <1>3, <1>4, <1>5, <1>6, BearersStep DEF WithinBudget

LEMMA BudgetStep ==
  ASSUME TypeOK, Budgeted, [Next]_vars
  PROVE  Budgeted'
<1>1. CASE UNCHANGED <<decisions, queue, astate, subject, invoked, extra>>
  BY <1>1 DEF Budgeted, WithinBudget, Approvals, Queued, Bearers, Executions
<1>2. CASE RunStep \/ \E t \in Tools : GrowLate(t)
  BY <1>1, <1>2, RunStepFrame DEF logVars, actorVars
<1>3. CASE UNCHANGED vars
  BY <1>1, <1>3 DEF vars, logVars, actorVars, historyVars
<1>4. ASSUME NEW t \in Tools, ~(RunStep \/ \E u \in Tools : GrowLate(u)), Next
      PROVE  WithinBudget(t)'
  BY <1>4, ResumesInvoke, ApprovalsGrant, PushesSpend, RequestsGrant, WorkersTake DEF Next
<1>. QED
  BY <1>2, <1>3, <1>4 DEF Budgeted

LEMMA BudgetedAlways == Spec => []Budgeted
<1>1. Init => Budgeted
  <2>. SUFFICES ASSUME Init, NEW t \in Tools
                PROVE  WithinBudget(t)
    BY DEF Budgeted
  <2>1. Bearers(t) = {} /\ Places(queue, t) = {} /\ Approvals(t) = Cardinality({})
    BY DEF Init, Bearers, Bringing, Places, Approvals
  <2>2. Executions(t) = 0 /\ extra[t] = 0
    BY DEF Init, Executions
  <2>. QED
    BY <2>1, <2>2, FS_EmptySet DEF WithinBudget, Queued
<1>2. TypeOK /\ Budgeted /\ [Next]_vars => Budgeted'
  BY BudgetStep
<1>. QED
  BY <1>1, <1>2, TypeCorrect, PTL DEF Spec

(* The calls of an execution: one actor at a time makes them, and they are *)
(* no more than the attempts and tries it has begun.                       *)
TryingSound(a) ==
  astate[a] = "trying" =>
    /\ effort[a].execution \in 1 .. Len(invoked[subject[a]])
    /\ effort[a].attempt \in 1 .. Attempts
    /\ effort[a].try \in 1 .. CallTries
    /\ invoked[subject[a]][effort[a].execution]
         <= (effort[a].attempt - 1) * CallTries + effort[a].try

SameExecution(a, b) ==
  /\ astate[a] = "trying" /\ astate[b] = "trying"
  /\ subject[a] = subject[b]
  /\ effort[a].execution = effort[b].execution

CallsBounded ==
  /\ \A a \in Actors : TryingSound(a)
  /\ \A a, b \in Actors : SameExecution(a, b) => a = b
  /\ \A t \in Tools : \A k \in 1 .. Len(invoked[t]) : invoked[t][k] <= Attempts * CallTries

(* The tries of the attempts so far are within those of all attempts.      *)
LEMMA TriesCounted ==
  ASSUME NEW n \in 1 .. Attempts, NEW m \in 1 .. CallTries
  PROVE  /\ (n - 1) * CallTries \in Nat
         /\ (n - 1) * CallTries + m <= Attempts * CallTries
         /\ (n - 1) * CallTries + m + 1 <= n * CallTries + 1
<1>1. Attempts \in Nat \ {0} /\ CallTries \in Nat \ {0}
  BY ApprovalAssumption
<1>2. PICK d \in Nat : Attempts = n + d
  <2>1. Attempts - n \in Nat /\ Attempts = n + (Attempts - n)
    BY <1>1
  <2>. QED
    BY <2>1
<1>3. PICK p \in Nat : n = p + 1
  <2>1. n - 1 \in Nat /\ n = (n - 1) + 1
    BY <1>1
  <2>. QED
    BY <2>1
<1>4. /\ p * CallTries \in Nat /\ d * CallTries \in Nat
      /\ (p + 1) * CallTries = p * CallTries + CallTries
      /\ (n + d) * CallTries = n * CallTries + d * CallTries
  BY <1>1
<1>. QED
  BY <1>1, <1>2, <1>3, <1>4

LEMMA TriesLeft ==
  ASSUME TypeOK, CallsBounded, NEW a \in Actors, Retry(a) \/ Attempt(a)
  PROVE  /\ subject[a] \in Tools
         /\ astate[a] = "trying"
         /\ effort[a].execution \in 1 .. Len(invoked[subject[a]])
         /\ invoked[subject[a]][effort[a].execution] < Attempts * CallTries
         /\ effort'[a].execution = effort[a].execution
         /\ effort'[a].attempt \in 1 .. Attempts
         /\ effort'[a].try \in 1 .. CallTries
         /\ invoked[subject[a]][effort[a].execution] + 1
              <= (effort'[a].attempt - 1) * CallTries + effort'[a].try
<1>1. Attempts \in Nat \ {0} /\ CallTries \in Nat \ {0}
  BY ApprovalAssumption
<1>2. astate[a] = "trying" /\ TryingSound(a) /\ subject[a] \in Tools
  BY DEF Retry, Attempt, CallAgain, CallsBounded, TypeOK, ActorTypeOK, Holding
<1>. DEFINE calls == invoked[subject[a]][effort[a].execution]
            n == effort[a].attempt
            m == effort[a].try
<1>3. /\ effort[a].execution \in 1 .. Len(invoked[subject[a]])
      /\ n \in 1 .. Attempts /\ m \in 1 .. CallTries
      /\ calls \in Nat /\ calls <= (n - 1) * CallTries + m
  BY <1>2 DEF TryingSound, TypeOK, LogTypeOK
<1>4. \/ /\ m < CallTries
         /\ effort'[a] = [execution |-> effort[a].execution, attempt |-> n, try |-> m + 1]
      \/ /\ n < Attempts
         /\ effort'[a] = [execution |-> effort[a].execution, attempt |-> n + 1, try |-> 1]
  BY DEF Retry, Attempt, CallAgain, TypeOK, ActorTypeOK
<1>. HIDE DEF calls, n, m
<1>5. /\ (n - 1) * CallTries \in Nat
      /\ (n - 1) * CallTries + m + 1 <= n * CallTries + 1
      /\ n * CallTries \in Nat
  BY <1>1, <1>3, TriesCounted
<1>6. CASE m < CallTries
           /\ effort'[a] = [execution |-> effort[a].execution, attempt |-> n, try |-> m + 1]
  <2>1. m + 1 \in 1 .. CallTries
    BY <1>1, <1>3, <1>6
  <2>2. (n - 1) * CallTries + (m + 1) <= Attempts * CallTries
    BY <1>3, <2>1, TriesCounted
  <2>3. calls + 1 <= (n - 1) * CallTries + (m + 1)
    BY <1>1, <1>3, <1>5
  <2>4. calls < Attempts * CallTries
    <3>1. Attempts * CallTries \in Nat
      BY <1>1
    <3>. QED
      BY <1>1, <1>3, <1>5, <2>2, <2>3, <3>1
  <2>. QED
    BY <1>2, <1>3, <1>6, <2>1, <2>3, <2>4 DEF calls
<1>7. CASE n < Attempts
           /\ effort'[a] = [execution |-> effort[a].execution, attempt |-> n + 1, try |-> 1]
  <2>1. n + 1 \in 1 .. Attempts /\ 1 \in 1 .. CallTries /\ (n + 1) - 1 = n
    BY <1>1, <1>3, <1>7
  <2>2. ((n + 1) - 1) * CallTries + 1 <= Attempts * CallTries
    BY <2>1, TriesCounted
  <2>3. calls + 1 <= n * CallTries + 1
    BY <1>1, <1>3, <1>5
  <2>4. calls < Attempts * CallTries
    <3>1. Attempts * CallTries \in Nat
      BY <1>1
    <3>2. n * CallTries + 1 <= Attempts * CallTries
      BY <2>1, <2>2
    <3>. QED
      BY <1>1, <1>3, <1>5, <2>3, <3>1, <3>2
  <2>5. ((n + 1) - 1) * CallTries = n * CallTries
    BY <2>1
  <2>. QED
    BY <1>2, <1>3, <1>7, <2>1, <2>3, <2>4, <2>5 DEF calls
<1>. QED
  BY <1>4, <1>6, <1>7

(* A step that calls no tool leaves at most fewer actors at their calls.   *)
LEMMA CallsKept ==
  ASSUME CallsBounded, invoked' = invoked,
         \A b \in Actors : astate'[b] = "trying" =>
           /\ astate[b] = "trying"
           /\ subject'[b] = subject[b]
           /\ effort'[b] = effort[b]
  PROVE  CallsBounded'
<1>1. \A b \in Actors : TryingSound(b)'
  BY DEF CallsBounded, TryingSound
<1>2. \A b, c \in Actors : SameExecution(b, c)' => b = c
  BY DEF CallsBounded, SameExecution
<1>. QED
  BY <1>1, <1>2 DEF CallsBounded

LEMMA CallsBegin ==
  ASSUME TypeOK, CallsBounded, NEW a \in Actors, Execute(a), invoked' # invoked
  PROVE  CallsBounded'
<1>1. Attempts \in Nat \ {0} /\ CallTries \in Nat \ {0}
  BY ApprovalAssumption
<1>2. PICK t \in Tools : t = subject[a]
  BY DEF Execute, TypeOK, ActorTypeOK, Holding
<1>3. /\ invoked' = [invoked EXCEPT ![t] = Append(invoked[t], 1)]
      /\ effort' = [effort EXCEPT ![a] = [execution |-> Len(invoked[t]) + 1,
                                          attempt |-> 1, try |-> 1]]
      /\ astate' = [astate EXCEPT ![a] = "trying"]
      /\ subject' = subject
  BY <1>2 DEF Execute, GoOn
<1>4. invoked[t] \in Seq(Nat \ {0})
  BY DEF TypeOK, LogTypeOK
<1>5. /\ invoked'[t] = Append(invoked[t], 1)
      /\ \A u \in Tools \ {t} : invoked'[u] = invoked[u]
      /\ effort'[a] = [execution |-> Len(invoked[t]) + 1, attempt |-> 1, try |-> 1]
      /\ astate'[a] = "trying"
      /\ \A b \in Actors \ {a} : effort'[b] = effort[b] /\ astate'[b] = astate[b]
  BY <1>3 DEF TypeOK, LogTypeOK, ActorTypeOK
<1>6. /\ Len(invoked'[t]) = Len(invoked[t]) + 1 /\ Len(invoked[t]) \in Nat
      /\ invoked'[t][Len(invoked[t]) + 1] = 1
      /\ \A k \in 1 .. Len(invoked[t]) : invoked'[t][k] = invoked[t][k]
  BY <1>4, <1>5
<1>7. TryingSound(a)'
  <2>1. (1 - 1) * CallTries + 1 = 1
    BY <1>1
  <2>. QED
    BY <1>1, <1>2, <1>3, <1>5, <1>6, <2>1 DEF TryingSound
<1>8. ASSUME NEW b \in Actors \ {a} PROVE TryingSound(b)'
  <2>1. TryingSound(b)
    BY DEF CallsBounded
  <2>2. CASE astate[b] # "trying"
    BY <1>5, <2>2 DEF TryingSound
  <2>3. CASE astate[b] = "trying"
    <3>1. subject[b] \in Tools
      BY <2>3 DEF TypeOK, ActorTypeOK, Holding
    <3>2. CASE subject[b] = t
      BY <1>3, <1>5, <1>6, <2>1, <2>3, <3>2 DEF TryingSound
    <3>3. CASE subject[b] # t
      BY <1>3, <1>5, <2>1, <2>3, <3>1, <3>3 DEF TryingSound
    <3>. QED
      BY <3>2, <3>3
  <2>. QED
    BY <2>2, <2>3
<1>9. ASSUME NEW b \in Actors \ {a} PROVE ~SameExecution(a, b)' /\ ~SameExecution(b, a)'
  <2>1. TryingSound(b)
    BY DEF CallsBounded
  <2>2. astate[b] = "trying" /\ subject[b] = t => effort[b].execution \in 1 .. Len(invoked[t])
    BY <2>1 DEF TryingSound
  <2>3. effort'[a].execution = Len(invoked[t]) + 1
    BY <1>5
  <2>. QED
    BY <1>2, <1>3, <1>5, <1>6, <2>2, <2>3 DEF SameExecution
<1>10. \A b, c \in Actors : SameExecution(b, c)' => b = c
  <2>. SUFFICES ASSUME NEW b \in Actors, NEW c \in Actors, SameExecution(b, c)', b # c
                PROVE  FALSE
    OBVIOUS
  <2>1. b # a /\ c # a
    BY <1>9
  <2>2. SameExecution(b, c)
    BY <1>3, <1>5, <2>1 DEF SameExecution
  <2>. QED
    BY <2>2 DEF CallsBounded
<1>11. 1 <= Attempts * CallTries
  <2>1. 1 \in 1 .. Attempts /\ 1 \in 1 .. CallTries
    BY <1>1
  <2>2. (1 - 1) * CallTries + 1 <= Attempts * CallTries /\ (1 - 1) * CallTries = 0
    BY <1>1, <2>1, TriesCounted
  <2>. QED
    BY <2>2
<1>12. \A u \in Tools : \A k \in 1 .. Len(invoked'[u]) : invoked'[u][k] <= Attempts * CallTries
  <2>. SUFFICES ASSUME NEW u \in Tools, NEW k \in 1 .. Len(invoked'[u])
                PROVE  invoked'[u][k] <= Attempts * CallTries
    OBVIOUS
  <2>1. CASE u # t
    BY <1>5, <2>1 DEF CallsBounded
  <2>2. CASE u = t /\ k = Len(invoked[t]) + 1
    BY <1>6, <1>11, <2>2
  <2>3. CASE u = t /\ k # Len(invoked[t]) + 1
    <3>1. k \in 1 .. Len(invoked[t])
      BY <1>6, <2>3
    <3>. QED
      BY <1>6, <2>3, <3>1 DEF CallsBounded
  <2>. QED
    BY <2>1, <2>2, <2>3
<1>. QED
  BY <1>7, <1>8, <1>10, <1>12 DEF CallsBounded

LEMMA CallsContinue ==
  ASSUME TypeOK, CallsBounded, NEW a \in Actors, Retry(a) \/ Attempt(a)
  PROVE  CallsBounded'
<1>1. PICK t \in Tools : t = subject[a]
  BY TriesLeft
<1>. DEFINE x == effort[a].execution
<1>2. /\ astate[a] = "trying" /\ x \in 1 .. Len(invoked[t])
      /\ invoked[t][x] < Attempts * CallTries
      /\ effort'[a].execution = x
      /\ effort'[a].attempt \in 1 .. Attempts
      /\ effort'[a].try \in 1 .. CallTries
      /\ invoked[t][x] + 1 <= (effort'[a].attempt - 1) * CallTries + effort'[a].try
  BY <1>1, TriesLeft
<1>3. /\ \A u \in Tools : Len(invoked'[u]) = Len(invoked[u])
      /\ \A u \in Tools \ {t} : invoked'[u] = invoked[u]
      /\ \A i \in 1 .. Len(invoked[t]) :
           invoked'[t][i] = IF i = x THEN invoked[t][i] + 1 ELSE invoked[t][i]
  BY <1>1, CallsAgain DEF TypeOK
<1>4. /\ astate' = astate /\ subject' = subject
      /\ \A b \in Actors \ {a} : effort'[b] = effort[b]
  BY DEF Retry, Attempt, CallAgain, TypeOK, ActorTypeOK
<1>. HIDE DEF x
<1>5. TryingSound(a)'
  BY <1>1, <1>2, <1>3, <1>4 DEF TryingSound
<1>6. ASSUME NEW b \in Actors \ {a} PROVE TryingSound(b)'
  <2>1. TryingSound(b) /\ ~SameExecution(a, b)
    BY DEF CallsBounded
  <2>2. CASE astate[b] # "trying"
    BY <1>4, <2>2 DEF TryingSound
  <2>3. CASE astate[b] = "trying"
    <3>1. subject[b] \in Tools
      BY <2>3 DEF TypeOK, ActorTypeOK, Holding
    <3>2. CASE subject[b] = t
      <4>1. effort[b].execution # x
        BY <1>1, <1>2, <2>1, <2>3, <3>2 DEF SameExecution, x
      <4>. QED
        BY <1>3, <1>4, <2>1, <2>3, <3>2, <4>1 DEF TryingSound
    <3>3. CASE subject[b] # t
      BY <1>3, <1>4, <2>1, <2>3, <3>1, <3>3 DEF TryingSound
    <3>. QED
      BY <3>2, <3>3
  <2>. QED
    BY <2>2, <2>3
<1>7. \A b, c \in Actors : SameExecution(b, c)' => b = c
  <2>1. \A b \in Actors : effort'[b].execution = effort[b].execution
    BY <1>2, <1>4 DEF x
  <2>. QED
    BY <1>4, <2>1 DEF CallsBounded, SameExecution
<1>8. \A u \in Tools : \A k \in 1 .. Len(invoked'[u]) : invoked'[u][k] <= Attempts * CallTries
  <2>. SUFFICES ASSUME NEW u \in Tools, NEW k \in 1 .. Len(invoked'[u])
                PROVE  invoked'[u][k] <= Attempts * CallTries
    OBVIOUS
  <2>1. k \in 1 .. Len(invoked[u]) /\ invoked[u][k] <= Attempts * CallTries
    BY <1>3 DEF CallsBounded
  <2>2. CASE u # t \/ k # x
    BY <1>3, <2>1, <2>2
  <2>3. CASE u = t /\ k = x
    <3>1. invoked[t][x] \in Nat /\ Attempts * CallTries \in Nat
      BY <1>2, ApprovalAssumption DEF TypeOK, LogTypeOK
    <3>. QED
      BY <1>2, <1>3, <2>3, <3>1
  <2>. QED
    BY <2>2, <2>3
<1>. QED
  BY <1>5, <1>6, <1>7, <1>8 DEF CallsBounded

LEMMA CallsStep ==
  ASSUME TypeOK, CallsBounded, [Next]_vars
  PROVE  CallsBounded'
<1>1. CASE UNCHANGED <<invoked, astate, subject, effort>>
  BY <1>1, CallsKept
<1>2. CASE RunStep \/ \E t \in Tools : GrowLate(t)
  BY <1>1, <1>2, RunStepFrame DEF actorVars
<1>3. CASE UNCHANGED vars
  BY <1>1, <1>3 DEF vars, actorVars, historyVars
<1>4. ASSUME NEW a \in Actors,
             \/ ActorStep(a) \/ Stop(a)
             \/ a \in Requests /\ Arrival(a)
             \/ a \in Workers /\ Pop(a),
             invoked' = invoked, astate'[a] # "trying"
      PROVE  CallsBounded'
  BY <1>4, CallsKept, OthersStay
<1>5. ASSUME NEW r \in Requests, Arrival(r) PROVE CallsBounded'
  <2>1. invoked' = invoked /\ astate'[r] # "trying"
    BY <1>5 DEF Arrival, ListApprovals, DecideApproval, ResumeApproval, Arrive, TypeOK,
                ActorTypeOK, Actors
  <2>. QED
    BY <1>4, <1>5, <2>1 DEF Actors
<1>6. ASSUME NEW w \in Workers, Pop(w) PROVE CallsBounded'
  <2>1. invoked' = invoked /\ astate'[w] # "trying"
    BY <1>6 DEF Pop, historyVars, TypeOK, ActorTypeOK, Actors
  <2>. QED
    BY <1>4, <1>6, <2>1 DEF Actors
<1>7. ASSUME NEW a \in Actors, Execute(a) PROVE CallsBounded'
  <2>1. CASE invoked' # invoked
    BY <1>7, <2>1, CallsBegin
  <2>2. CASE invoked' = invoked
    <3>1. astate'[a] # "trying"
      <4>1. invoked[subject[a]] # Append(invoked[subject[a]], 1) /\ subject[a] \in Tools
        BY <1>7 DEF Execute, TypeOK, LogTypeOK, ActorTypeOK, Holding
      <4>2. invoked' # [invoked EXCEPT ![subject[a]] = Append(@, 1)]
        BY <2>2, <4>1 DEF TypeOK, LogTypeOK
      <4>. QED
        BY <1>7, <4>2 DEF Execute, GoOn, TypeOK, ActorTypeOK
    <3>. QED
      BY <1>4, <1>7, <2>2, <3>1 DEF ActorStep
  <2>. QED
    BY <2>1, <2>2
<1>8. ASSUME NEW a \in Actors, Retry(a) \/ Attempt(a) PROVE CallsBounded'
  BY <1>8, CallsContinue
<1>9. ASSUME NEW a \in Actors, ActorStep(a) \/ Stop(a), ~Execute(a), ~Retry(a), ~Attempt(a)
      PROVE  CallsBounded'
  <2>1. invoked' = invoked
    BY <1>9 DEF ActorStep, Stop, Expire, ReportHandoff, HandOff, Check, Decide, PushResume,
                NoteResume, Admit, Authorize, Locate, NoteEvaluation, Conclude, AppendResult,
                historyVars
  <2>2. astate'[a] # "trying"
    BY <1>9 DEF ActorStep, Stop, Expire, ReportHandoff, HandOff, Check, Decide, PushResume,
                NoteResume, Admit, Authorize, Locate, NoteEvaluation, Conclude, AppendResult,
                Leave, GoOn, TypeOK, ActorTypeOK
  <2>. QED
    BY <1>4, <1>9, <2>1, <2>2
<1>. QED
  BY <1>2, <1>3, <1>5, <1>6, <1>7, <1>8, <1>9 DEF Next

LEMMA CallsBoundedAlways == Spec => []CallsBounded
<1>1. Init => CallsBounded
  BY DEF Init, CallsBounded, TryingSound, SameExecution
<1>2. TypeOK /\ CallsBounded /\ [Next]_vars => CallsBounded'
  BY CallsStep
<1>. QED
  BY <1>1, <1>2, TypeCorrect, PTL DEF Spec

(* However requests, workers, crashes and lost replies interleave, a tool  *)
(* is executed no more often than it was approved, resumed by hand and its *)
(* message doubled, and no execution calls it more often than its attempts *)
(* and their tries allow, whatever their numbers.                          *)
THEOREM ExecutionBudgetHolds == Spec => []ExecutionBudget
<1>1. TypeOK /\ Budgeted /\ CallsBounded => ExecutionBudget
  <2>. SUFFICES ASSUME TypeOK, Budgeted, CallsBounded, NEW t \in Tools
                PROVE  /\ Len(invoked[t]) <= Approvals(t) + extra[t]
                       /\ \A k \in 1 .. Len(invoked[t]) :
                            invoked[t][k] <= Attempts * CallTries
    BY DEF ExecutionBudget
  <2>1. /\ Executions(t) \in Nat /\ extra[t] \in Nat /\ Queued(t) \in Nat
        /\ Approvals(t) \in Nat
        /\ Cardinality(Bearers(t)) \in Nat
        /\ WithinBudget(t)
    BY BudgetTyped, FS_CardinalityType DEF Budgeted, WithinBudget
  <2>2. Len(invoked[t]) <= Approvals(t) + extra[t]
    BY <2>1 DEF WithinBudget, Executions
  <2>. QED
    BY <2>2 DEF CallsBounded
<1>. QED
  BY <1>1, TypeCorrect, BudgetedAlways, CallsBoundedAlways, PTL
----------------------------------------------------------------------------
(* The abstract life cycle: what the log says of a tool and what it may    *)
(* still do, and that each step of the workflow is a step of the life      *)
(* cycle.                                                                  *)

(* What expires was called, and what is handed off is reported.            *)
HandoffsGrounded ==
  \A a \in Actors :
    /\ expiring[a] \subseteq called
    /\ astate[a] = "handing" => subject[a] \in reported

LEMMA ReportedGrows ==
  ASSUME [Next]_vars
  PROVE  reported \subseteq reported'
<1>1. CASE RunStep \/ \E t \in Tools : GrowLate(t)
  BY <1>1, RunStepFrame DEF logVars
<1>2. ASSUME NEW a \in Actors, ActorStep(a) \/ Stop(a) PROVE reported \subseteq reported'
  BY <1>2 DEF ActorStep, Expire, ReportHandoff, HandOff, Check, Decide, PushResume, NoteResume,
              Admit, Authorize, Locate, NoteEvaluation, Execute, CallAgain, Retry, Attempt,
              Conclude, AppendResult, Stop, logVars
<1>3. ASSUME NEW r \in Requests, Arrival(r) PROVE reported' = reported
  BY <1>3 DEF Arrival, ListApprovals, DecideApproval, ResumeApproval, Arrive, logVars
<1>4. ASSUME NEW w \in Workers, Pop(w) PROVE reported' = reported
  BY <1>4 DEF Pop, logVars
<1>. QED
  BY <1>1, <1>2, <1>3, <1>4 DEF Next, vars, logVars

LEMMA HandoffsStep ==
  ASSUME TypeOK, HandoffsGrounded, [Next]_vars
  PROVE  HandoffsGrounded'
<1>1. called \subseteq called' /\ reported \subseteq reported'
  BY CalledStays, ReportedGrows
<1>2. ASSUME NEW a \in Actors,
             \/ ActorStep(a) \/ Stop(a)
             \/ a \in Requests /\ Arrival(a)
             \/ a \in Workers /\ Pop(a),
             expiring'[a] \subseteq called',
             astate'[a] = "handing" => subject'[a] \in reported'
      PROVE  HandoffsGrounded'
  BY <1>1, <1>2, OthersStay DEF HandoffsGrounded
<1>3. CASE UNCHANGED actorVars
  BY <1>1, <1>3 DEF HandoffsGrounded, actorVars
<1>4. ASSUME NEW r \in Requests, Arrival(r) PROVE HandoffsGrounded'
  <2>1. expiring'[r] \subseteq called /\ astate'[r] # "handing"
    BY <1>4 DEF Arrival, ListApprovals, DecideApproval, ResumeApproval, Arrive, Expirable,
                HandoffsGrounded, TypeOK, RunTypeOK, ActorTypeOK, Actors
  <2>. QED
    BY <1>1, <1>2, <1>4, <2>1 DEF Actors
<1>5. ASSUME NEW w \in Workers, Pop(w) PROVE HandoffsGrounded'
  <2>1. expiring'[w] \subseteq called /\ astate'[w] # "handing"
    BY <1>5 DEF Pop, HandoffsGrounded, TypeOK, ActorTypeOK, Actors
  <2>. QED
    BY <1>1, <1>2, <1>5, <2>1 DEF Actors
<1>6. ASSUME NEW a \in Actors, ReportHandoff(a) PROVE HandoffsGrounded'
  <2>1. expiring'[a] \subseteq called /\ subject'[a] \in reported'
    BY <1>6 DEF ReportHandoff, HandoffsGrounded
  <2>. QED
    BY <1>1, <1>2, <1>6, <2>1 DEF ActorStep
<1>7. ASSUME NEW a \in Actors,
             \/ Stop(a) \/ Expire(a) \/ HandOff(a) \/ Check(a) \/ Decide(a) \/ PushResume(a)
             \/ NoteResume(a) \/ Admit(a) \/ Authorize(a) \/ Locate(a) \/ NoteEvaluation(a)
             \/ Execute(a) \/ Retry(a) \/ Attempt(a) \/ Conclude(a) \/ AppendResult(a)
      PROVE  HandoffsGrounded'
  <2>1. astate'[a] # "handing"
    BY <1>7 DEF Stop, Expire, HandOff, Check, Decide, PushResume, NoteResume, Admit, Authorize,
                Locate, NoteEvaluation, Execute, CallAgain, Retry, Attempt, Conclude,
                AppendResult, Leave, GoOn, TypeOK, ActorTypeOK
  <2>2. expiring'[a] \subseteq expiring[a]
    BY <1>7 DEF Stop, Expire, HandOff, Check, Decide, PushResume, NoteResume, Admit, Authorize,
                Locate, NoteEvaluation, Execute, CallAgain, Retry, Attempt, Conclude,
                AppendResult, TypeOK, ActorTypeOK
  <2>. QED
    BY <1>1, <1>2, <1>7, <2>1, <2>2 DEF ActorStep, HandoffsGrounded
<1>. QED
  BY <1>3, <1>4, <1>5, <1>6, <1>7, RunStepFrame DEF Next, ActorStep, vars

(* The state of the life cycle is these variables.                         *)
LEMMA LifecycleStutters ==
  ASSUME UNCHANGED <<phase, runStatus, checkpoint, called, decisions, raced, reported, extra,
                     invoked, results>>
  PROVE  UNCHANGED Lifecycle!approvalVars
BY DEF Lifecycle!approvalVars, Occurs, Approvals

LEMMA RuntimeDrives ==
  ASSUME TypeOK, RunStep
  PROVE  Lifecycle!Drive \/ \E t \in Tools : Lifecycle!Call(t)
<1>1. UNCHANGED <<decisions, raced, reported, extra, invoked, results>>
  BY RunStepFrame DEF logVars
<1>2. ASSUME NEW t \in Tools, CallTool(t) PROVE Lifecycle!Call(t)
  BY <1>1, <1>2 DEF CallTool, Lifecycle!Call, fixedVars, Occurs, Approvals
<1>3. ASSUME UNCHANGED <<checkpoint, called>>, phase # "over" PROVE Lifecycle!Drive
  BY <1>1, <1>3 DEF Lifecycle!Drive, Occurs, Approvals
<1>4. CASE ~ \E t \in Tools : CallTool(t)
  <2>1. phase # "over" /\ UNCHANGED <<checkpoint, called>>
    BY <1>4 DEF RunStep, LoopBlocked, ToolReturns, ToolBlocked, Pause, AskApproval, Finish,
                Tell, RunFails, RunCancelled, Disconnect, ReturnWith, fixedVars, callVars
  <2>. QED
    BY <1>3, <2>1
<1>. QED
  BY <1>2, <1>4

(* An appended decision is a verdict: of a tool that has none yet, unless  *)
(* its decisions overlap.                                                  *)
LEMMA DecisionsDecide ==
  ASSUME TypeOK, UndecidedWhenRead, NEW a \in Actors, NEW t \in Tools, NEW d \in Decisions,
         MayDecide(a, t), AppendDecision(a, t, d), d = "expired" => t \in called,
         UNCHANGED <<phase, runStatus, checkpoint, called, reported, extra, invoked, results>>
  PROVE  Lifecycle!Decide(t, d)
<1>. DEFINE V == [u \in Tools |-> {e \in Decisions : Occurs(u, e)}]
            C == [u \in Tools |-> Approvals(u) + extra[u]]
<1>1. /\ decisions \in [Tools -> Seq(Decisions)]
      /\ decisions' = [decisions EXCEPT ![t] = Append(@, d)]
  BY DEF TypeOK, LogTypeOK, AppendDecision
<1>2. ASSUME NEW u \in Tools, u # t
      PROVE  decisions'[u] = decisions[u]
  BY <1>1, <1>2
<1>3. decisions'[t] = Append(decisions[t], d)
  BY <1>1
<1>4. \A e \in Decisions : Occurs(t, e)' <=> (Occurs(t, e) \/ e = d)
  <2>. SUFFICES ASSUME NEW e \in Decisions
                PROVE  Occurs(t, e)' <=> (Occurs(t, e) \/ e = d)
    OBVIOUS
  <2>1. PICK s \in Seq(Decisions) : s = decisions[t]
    BY <1>1
  <2>2. /\ Occurs(t, e) <=> \E i \in 1 .. Len(s) : s[i] = e
        /\ Occurs(t, e)' <=> \E i \in 1 .. Len(Append(s, d)) : Append(s, d)[i] = e
    BY <1>3, <2>1 DEF Occurs
  <2>3. /\ Len(Append(s, d)) = Len(s) + 1
        /\ \A i \in 1 .. Len(s) : Append(s, d)[i] = s[i]
        /\ Append(s, d)[Len(s) + 1] = d
        /\ Len(s) \in Nat
    BY <2>1
  <2>. QED
    BY <2>2, <2>3
<1>5. V' = [V EXCEPT ![t] = @ \union {d}]
  <2>1. V'[t] = V[t] \union {d}
    BY <1>4
  <2>2. \A u \in Tools : u # t => V'[u] = V[u]
    BY <1>2 DEF Occurs
  <2>. QED
    BY <2>1, <2>2
<1>6. /\ V[t] = {} /\ raced' = raced
      \/ raced' = raced \union {t}
  <2>1. CASE t \in raced'
    BY <2>1 DEF AppendDecision
  <2>2. CASE t \notin raced'
    <3>1. t \notin raced /\ raced' = raced
      BY <2>2 DEF AppendDecision
    <3>2. decisions[t] = <<>>
      BY <3>1 DEF UndecidedWhenRead
    <3>3. ~ \E e \in Decisions : Occurs(t, e)
      BY <3>2 DEF Occurs
    <3>. QED
      BY <3>1, <3>3
  <2>. QED
    BY <2>1, <2>2
<1>7. C' = IF d = "approved" THEN [C EXCEPT ![t] = @ + 1] ELSE C
  <2>1. \A u \in Tools : Approvals(u) \in Nat /\ extra[u] \in Nat /\ extra'[u] = extra[u]
    BY BudgetTyped
  <2>2. Approvals(t)' = Approvals(t) + (IF d = "approved" THEN 1 ELSE 0)
    <3>1. /\ Approvals(t) = Cardinality(Places(decisions[t], "approved"))
          /\ Approvals(t)' = Cardinality(Places(Append(decisions[t], d), "approved"))
      BY <1>3 DEF Approvals, Places
    <3>. QED
      BY <1>1, <3>1, PlacesAppended
  <2>3. \A u \in Tools : u # t => Approvals(u)' = Approvals(u)
    BY <1>2 DEF Approvals
  <2>4. C'[t] = IF d = "approved" THEN C[t] + 1 ELSE C[t]
    BY <2>1, <2>2
  <2>5. \A u \in Tools : u # t => C'[u] = C[u]
    BY <2>1, <2>3
  <2>. QED
    BY <2>4, <2>5
<1>. QED
  BY <1>5, <1>6, <1>7 DEF Lifecycle!Decide

(* The resume that a request or a lost reply adds is one more chance.      *)
LEMMA ExtrasRepeat ==
  ASSUME TypeOK, NEW t \in Tools, extra' = [extra EXCEPT ![t] = @ + 1],
         UNCHANGED <<phase, runStatus, checkpoint, called, decisions, raced, reported, invoked,
                     results>>
  PROVE  Lifecycle!Repeat(t)
<1>. DEFINE C == [u \in Tools |-> Approvals(u) + extra[u]]
<1>1. \A u \in Tools : /\ Approvals(u) \in Nat /\ extra[u] \in Nat
                       /\ Approvals(u)' = Approvals(u)
                       /\ extra'[u] = IF u = t THEN extra[u] + 1 ELSE extra[u]
  BY BudgetTyped DEF Approvals, TypeOK, LogTypeOK
<1>2. C' = [C EXCEPT ![t] = @ + 1]
  <2>1. C'[t] = C[t] + 1
    BY <1>1
  <2>2. \A u \in Tools : u # t => C'[u] = C[u]
    BY <1>1
  <2>. QED
    BY <2>1, <2>2
<1>. QED
  BY <1>2 DEF Lifecycle!Repeat, Occurs

(* An execution has its grounds and is within the budget.                  *)
LEMMA ExecutionsExecute ==
  ASSUME TypeOK, ResumeGrounded, Budgeted, NEW a \in Actors, Execute(a)
  PROVE  Lifecycle!Execute(subject[a]) \/ UNCHANGED Lifecycle!approvalVars
<1>1. PICK t \in Tools : t = subject[a]
  BY DEF Execute, TypeOK, ActorTypeOK, Holding
<1>2. UNCHANGED <<phase, runStatus, checkpoint, called, decisions, raced, reported, extra,
                  results>>
  BY DEF Execute, fixedVars, runVars, callVars, logVars
<1>3. CASE UNCHANGED invoked
  BY <1>2, <1>3, LifecycleStutters
<1>4. CASE invoked' = [invoked EXCEPT ![t] = Append(@, 1)]
  <2>1. t \in called /\ checkpoint /\ Occurs(t, "approved")
    BY <1>1 DEF Execute, ResumeGrounded, Grounded
  <2>2. /\ Executions(t) \in Nat /\ extra[t] \in Nat /\ Queued(t) \in Nat
        /\ Approvals(t) \in Nat
        /\ WithinBudget(t)
    BY BudgetTyped DEF Budgeted
  <2>3. Cardinality(Bearers(t)) \in Nat \ {0}
    <3>1. a \in Bearers(t)
      BY <1>1 DEF Execute, Bearers, Bringing
    <3>2. IsFiniteSet(Bearers(t))
      BY <2>2 DEF WithinBudget
    <3>3. Cardinality(Bearers(t)) \in Nat /\ (Cardinality(Bearers(t)) = 0 => Bearers(t) = {})
      BY <3>2, FS_CardinalityType, FS_EmptySet
    <3>. QED
      BY <3>1, <3>3
  <2>4. Len(invoked[t]) < Approvals(t) + extra[t]
    BY <2>2, <2>3 DEF WithinBudget, Executions
  <2>5. Lifecycle!MayExecute(t)
    BY <2>1 DEF Lifecycle!MayExecute, Decisions
  <2>6. Lifecycle!Execute(t)
    BY <1>2, <1>4, <2>4, <2>5 DEF Lifecycle!Execute, Occurs, Approvals
  <2>. QED
    BY <1>1, <2>6
<1>. QED
  BY <1>1, <1>3, <1>4 DEF Execute

(* A further call is within the tries of its execution.                    *)
LEMMA RetriesRetry ==
  ASSUME TypeOK, CallsBounded, NEW a \in Actors, Retry(a) \/ Attempt(a)
  PROVE  Lifecycle!Retry(subject[a])
<1>1. UNCHANGED <<phase, runStatus, checkpoint, called, decisions, raced, reported, extra,
                  results>>
  BY DEF Retry, Attempt, CallAgain, fixedVars, runVars, callVars, logVars
<1>2. /\ subject[a] \in Tools
      /\ effort[a].execution \in 1 .. Len(invoked[subject[a]])
      /\ invoked[subject[a]][effort[a].execution] < Attempts * CallTries
  BY TriesLeft
<1>3. invoked' = [invoked EXCEPT ![subject[a]] =
                    OneMore(invoked[subject[a]], effort[a].execution)]
  BY DEF Retry, Attempt, CallAgain
<1>. QED
  BY <1>1, <1>2, <1>3 DEF Lifecycle!Retry, Lifecycle!OneMore, OneMore, Occurs, Approvals

(* Everything else that requests and workers do.                           *)
LEMMA ActorsFollow ==
  ASSUME TypeOK, UndecidedWhenRead, ResumeGrounded, ReportsGrounded, Budgeted, CallsBounded,
         HandoffsGrounded, NEW a \in Actors, ActorStep(a) \/ Stop(a)
  PROVE  Lifecycle!Next \/ UNCHANGED Lifecycle!approvalVars
<1>1. astate[a] \in Holding => subject[a] \in Tools
  BY DEF TypeOK, ActorTypeOK
<1>2. CASE Expire(a)
  <2>1. PICK t \in expiring[a] : AppendDecision(a, t, "expired")
    BY <1>2 DEF Expire
  <2>2. t \in Tools /\ t \in called /\ MayDecide(a, t)
    BY DEF HandoffsGrounded, TypeOK, ActorTypeOK, MayDecide
  <2>3. Lifecycle!Decide(t, "expired")
    BY <1>2, <2>1, <2>2, DecisionsDecide
       DEF Expire, Decisions, fixedVars, runVars, callVars
  <2>. QED
    BY <2>2, <2>3 DEF Lifecycle!Next, Lifecycle!Verdicts
<1>3. CASE Decide(a)
  <2>1. PICK t \in Tools, d \in {"approved", "rejected"} :
           t = subject[a] /\ d = wish[a].decision
    BY <1>1, <1>3 DEF Decide, Holding, TypeOK, ActorTypeOK
  <2>2. AppendDecision(a, t, d) /\ MayDecide(a, t)
    BY <1>3, <2>1 DEF Decide, MayDecide
  <2>3. Lifecycle!Decide(t, d)
    BY <1>3, <2>1, <2>2, DecisionsDecide DEF Decide, Decisions, fixedVars, runVars, callVars
  <2>. QED
    BY <2>1, <2>3 DEF Lifecycle!Next, Lifecycle!Verdicts
<1>4. CASE ReportHandoff(a)
  <2>1. PICK t \in Tools : t = subject[a]
    BY <1>1, <1>4 DEF ReportHandoff, Holding
  <2>2. Refused(t)
    BY <1>4, <2>1 DEF ReportHandoff, ReportsGrounded
  <2>3. UNCHANGED <<phase, runStatus, checkpoint, called, decisions, raced, extra, invoked,
                    results>>
    BY <1>4 DEF ReportHandoff, fixedVars, runVars, callVars, historyVars
  <2>4. Lifecycle!Report(t)
    BY <1>4, <2>1, <2>2, <2>3
       DEF ReportHandoff, Lifecycle!Report, Refused, Decisions, Occurs, Approvals
  <2>. QED
    BY <2>4 DEF Lifecycle!Next
<1>5. CASE HandOff(a)
  <2>1. reported # {}
    BY <1>5 DEF HandOff, HandoffsGrounded
  <2>2. UNCHANGED <<phase, checkpoint, called, decisions, raced, reported, extra, invoked,
                    results>>
    BY <1>5 DEF HandOff, fixedVars, callVars, logVars, historyVars
  <2>3. Lifecycle!HandOff
    BY <1>5, <2>1, <2>2 DEF HandOff, Lifecycle!HandOff, Occurs, Approvals
  <2>. QED
    BY <2>3 DEF Lifecycle!Next
<1>6. CASE PushResume(a)
  <2>1. PICK t \in Tools : t = subject[a]
    BY <1>1, <1>6 DEF PushResume, Holding
  <2>2. UNCHANGED <<phase, runStatus, checkpoint, called, decisions, raced, reported, invoked,
                    results>>
    BY <1>6 DEF PushResume, fixedVars, runVars, callVars, logVars
  <2>3. extra' = extra \/ extra' = [extra EXCEPT ![t] = @ + 1]
    BY <1>6, <2>1 DEF PushResume
  <2>. QED
    BY <2>2, <2>3, ExtrasRepeat, LifecycleStutters DEF Lifecycle!Next
<1>7. CASE Execute(a)
  <2>1. subject[a] \in Tools
    BY <1>1, <1>7 DEF Execute, Holding
  <2>. QED
    BY <1>7, <2>1, ExecutionsExecute DEF Lifecycle!Next
<1>8. CASE AppendResult(a)
  <2>1. PICK t \in Tools : t = subject[a]
    BY <1>1, <1>8 DEF AppendResult, Holding
  <2>2. t \in called /\ checkpoint /\ Occurs(t, "approved")
    BY <1>8, <2>1 DEF AppendResult, ResumeGrounded, Grounded
  <2>3. UNCHANGED <<phase, runStatus, checkpoint, called, decisions, raced, reported, extra,
                    invoked>>
    BY <1>8 DEF AppendResult, fixedVars, runVars, callVars, historyVars
  <2>4. Lifecycle!MayExecute(t)
    BY <2>2 DEF Lifecycle!MayExecute, Decisions
  <2>5. Lifecycle!Answer(t)
    BY <1>8, <2>1, <2>3, <2>4 DEF AppendResult, Lifecycle!Answer, Occurs, Approvals
  <2>. QED
    BY <2>5 DEF Lifecycle!Next
<1>10. CASE Retry(a) \/ Attempt(a)
  <2>1. subject[a] \in Tools
    BY <1>10, TriesLeft
  <2>. QED
    BY <1>10, <2>1, RetriesRetry DEF Lifecycle!Next
<1>9. CASE \/ Stop(a) \/ Check(a) \/ NoteResume(a) \/ Admit(a) \/ Authorize(a) \/ Locate(a)
            \/ NoteEvaluation(a) \/ Conclude(a)
  <2>1. UNCHANGED <<phase, runStatus, checkpoint, called, decisions, raced, reported, extra,
                    invoked, results>>
    BY <1>9 DEF Stop, Check, NoteResume, Admit, Authorize, Locate, NoteEvaluation, Conclude,
                fixedVars, runVars, callVars, logVars, historyVars
  <2>. QED
    BY <2>1, LifecycleStutters
<1>. QED
  BY <1>2, <1>3, <1>4, <1>5, <1>6, <1>7, <1>8, <1>9, <1>10 DEF ActorStep

LEMMA WorkflowFollows ==
  ASSUME TypeOK, UndecidedWhenRead, ResumeGrounded, ReportsGrounded, Budgeted, CallsBounded,
         HandoffsGrounded, [Next]_vars
  PROVE  [Lifecycle!Next]_(Lifecycle!approvalVars)
<1>1. CASE RunStep
  BY <1>1, RuntimeDrives DEF Lifecycle!Next
<1>2. ASSUME NEW t \in Tools, GrowLate(t) PROVE UNCHANGED Lifecycle!approvalVars
  <2>1. UNCHANGED <<phase, runStatus, checkpoint, called, decisions, raced, reported, extra,
                    invoked, results>>
    BY <1>2, RunStepFrame DEF GrowLate, fixedVars, runVars, logVars
  <2>. QED
    BY <2>1, LifecycleStutters
<1>3. ASSUME NEW r \in Requests, Arrival(r)
      PROVE  Lifecycle!Next \/ UNCHANGED Lifecycle!approvalVars
  <2>1. UNCHANGED <<phase, runStatus, checkpoint, called, decisions, raced, reported, invoked,
                    results>>
    BY <1>3 DEF Arrival, ListApprovals, DecideApproval, ResumeApproval, Arrive, fixedVars,
                runVars, callVars, logVars
  <2>2. extra' = extra \/ \E t \in Tools : extra' = [extra EXCEPT ![t] = @ + 1]
    BY <1>3 DEF Arrival, ListApprovals, DecideApproval, ResumeApproval
  <2>. QED
    BY <2>1, <2>2, ExtrasRepeat, LifecycleStutters DEF Lifecycle!Next
<1>4. ASSUME NEW w \in Workers, Pop(w) PROVE UNCHANGED Lifecycle!approvalVars
  <2>1. UNCHANGED <<phase, runStatus, checkpoint, called, decisions, raced, reported, extra,
                    invoked, results>>
    BY <1>4 DEF Pop, fixedVars, runVars, callVars, logVars, historyVars
  <2>. QED
    BY <2>1, LifecycleStutters
<1>5. CASE UNCHANGED vars
  BY <1>5, LifecycleStutters DEF vars, fixedVars, runVars, callVars, logVars, historyVars
<1>. QED
  BY <1>1, <1>2, <1>3, <1>4, <1>5, ActorsFollow DEF Next

(* However requests, workers and faults interleave, what happens to the    *)
(* tools of a run is what the abstract life cycle of an approval allows.   *)
THEOREM ImplementsApprovalLifecycle == Spec => LifecycleSpec
<1>1. Init => Lifecycle!Init
  <2>. SUFFICES ASSUME Init PROVE Lifecycle!Init
    OBVIOUS
  <2>1. \A t \in Tools : Approvals(t) = 0 /\ {d \in Decisions : Occurs(t, d)} = {}
    <3>. SUFFICES ASSUME NEW t \in Tools
                  PROVE  Approvals(t) = 0 /\ {d \in Decisions : Occurs(t, d)} = {}
      OBVIOUS
    <3>1. Approvals(t) = Cardinality({})
      BY DEF Init, Approvals
    <3>. QED
      BY <3>1, FS_EmptySet DEF Init, Occurs
  <2>2. checkpoint \in BOOLEAN
    BY ApprovalAssumption DEF Init
  <2>. QED
    BY <2>1, <2>2 DEF Init, Lifecycle!Init
<1>2. Init => HandoffsGrounded
  BY DEF Init, HandoffsGrounded
<1>3. TypeOK /\ HandoffsGrounded /\ [Next]_vars => HandoffsGrounded'
  BY HandoffsStep
<1>4. /\ TypeOK /\ UndecidedWhenRead /\ ResumeGrounded /\ ReportsGrounded /\ Budgeted
      /\ CallsBounded /\ HandoffsGrounded /\ [Next]_vars
      => [Lifecycle!Next]_(Lifecycle!approvalVars)
  BY WorkflowFollows
<1>. QED
  BY <1>1, <1>2, <1>3, <1>4, TypeCorrect, GroundsAlways, BudgetedAlways,
     CallsBoundedAlways, PTL
     DEF Spec, LifecycleSpec, Lifecycle!Spec
----------------------------------------------------------------------------
(* Once the runtime has returned, a run that was handed off stays so:      *)
(* approvals, resumes and results of its other tools do not take it back.  *)
HandoffIsFinal ==
  [][runStatus = "handoff_required" /\ runStatus' # "handoff_required"
       => phase # "over"]_vars

(* A hand-off is not taken back once the runtime has returned: of the      *)
(* abstract steps only the runtime's take a hand-off back.                 *)
THEOREM HandoffIsFinalHolds == Spec => HandoffIsFinal
<1>1. [Lifecycle!Next]_(Lifecycle!approvalVars)
      => [runStatus = "handoff_required" /\ runStatus' # "handoff_required"
            => phase # "over"]_vars
  <2>. SUFFICES ASSUME [Lifecycle!Next]_(Lifecycle!approvalVars),
                       runStatus = "handoff_required", runStatus' # "handoff_required"
                PROVE  phase # "over"
    OBVIOUS
  <2>1. Lifecycle!Drive
    BY DEF Lifecycle!Next, Lifecycle!approvalVars, Lifecycle!HandOff, Lifecycle!Call,
           Lifecycle!Repeat, Lifecycle!Report, Lifecycle!Execute, Lifecycle!Retry,
           Lifecycle!Answer, Lifecycle!Decide
  <2>. QED
    BY <2>1 DEF Lifecycle!Drive
<1>. QED
  BY <1>1, ImplementsApprovalLifecycle, PTL DEF HandoffIsFinal, LifecycleSpec, Lifecycle!Spec
=============================================================================
