------------------------ MODULE ToolGovernanceProofs ------------------------
(***************************************************************************)
(* Theorems about ToolGovernance, for any number of tools, calls, requests *)
(* and updates, and any number of retries: the types, what a call that     *)
(* took effect was allowed by, how often it can, and that what is shown    *)
(* and what was said last is what is enforced.  At the end, that all that  *)
(* surrounds the runs is composed of parts for which their theorems hold.  *)
(***************************************************************************)
EXTENDS MCOperations, OperationsProofs

(* What an update request holds.                                           *)
UpdatesTyped ==
  /\ policy \in [GovTools -> Policies \union {NoRow}]
  /\ ostage \in [Operators -> {"free", "writing"}]
  /\ otool \in [Operators -> GovTools \union {NoCall}]
  /\ oread \in [Operators -> Policies \union {NoRow}]
  /\ orequest \in [Operators -> Requests \union {<<>>}]
  /\ \A o \in Operators : (ostage[o] = "writing") <=> (otool[o] \in GovTools)
  /\ \A o \in Operators : ostage[o] = "writing" => orequest[o] \in Requests
  /\ overlapped \subseteq GovTools
  /\ waived \in [GovTools -> SUBSET {"asked", "unasked"}]

Refused == {"disabled", "forbidden", "invalid_input"}
CallStages == {"unplanned", "planned", "resumed", "calling"} \union Answers

CallsTyped ==
  /\ cstage \in [Calls -> CallStages]
  /\ ctool \in [Calls -> GovTools \union {NoCall}]
  /\ \A c \in Calls : (cstage[c] = "unplanned") <=> (ctool[c] = NoCall)
  /\ capable \in [Calls -> BOOLEAN]
  /\ approved \in [Calls -> BOOLEAN]
  /\ shown \in [Calls -> Policies \union {NoRow}]
  /\ seen \in [Calls -> SUBSET Policies]
  /\ \A c \in Calls : IsFiniteSet(seen[c])

CountsTyped ==
  /\ retriesLeft \in [Calls -> 0 .. CallRetries]
  /\ triesLeft \in [Calls -> 0 .. MCPTries]
  /\ effects \in [Calls -> Nat]

GovernanceTyped == UpdatesTyped /\ CallsTyped /\ CountsTyped
----------------------------------------------------------------------------
(* The inductive invariant.                                                *)

(* The policy that is enforced now is on record with every planned call;   *)
(* what was shown agrees with one on record.                               *)
RecordsHold ==
  \A c \in Calls : cstage[c] # "unplanned" =>
    /\ Enforced(ctool[c]) \in seen[c]
    /\ \E p \in seen[c] : /\ shown[c]["enabled"] = p["enabled"]
                          /\ shown[c]["approval"] = p["approval"]

(* A tool that changes something asks for an approval until it is waived.  *)
WaiversRecorded == \A t \in Changing : Enforced(t)["approval"] \/ waived[t] # {}

(* What let a call through.                                                *)
Admitted(c) ==
  /\ \E p \in seen[c] : p["enabled"] /\ (p["capability"] => capable[c])
  /\ approved[c] \/ \E p \in seen[c] : ~p["approval"]
  /\ ctool[c] \in Changing => approved[c] \/ waived[ctool[c]] # {}

Begun == {"calling", "success", "invalid_output", "error"}

CallsAdmitted ==
  \A c \in Calls : /\ cstage[c] \in Begun => Admitted(c)
                   /\ cstage[c] = "resumed" => approved[c]
                   /\ cstage[c] \notin Begun => effects[c] = 0
                   /\ cstage[c] \in {"success", "invalid_output"} => effects[c] > 0

(* The tries of one attempt, and what the rest of a call may still do.     *)
Tries(c) == IF ctool[c] \in Remote THEN MCPTries ELSE 1

EffectsBounded ==
  \A c \in Calls :
    /\ effects[c] <= (CallRetries + 1) * Tries(c)
    /\ cstage[c] = "calling" =>
         effects[c] + triesLeft[c] + 1 + retriesLeft[c] * Tries(c) <= (CallRetries + 1) * Tries(c)

(* A request that nobody overlapped holds the row as it is; the row has    *)
(* what was said last.                                                     *)
RowsHold ==
  /\ \A o \in Operators : ostage[o] = "writing" /\ otool[o] \notin overlapped =>
       /\ oread[o] = policy[otool[o]]
       /\ \A q \in Operators \ {o} : otool[q] # otool[o]
  /\ \A t \in GovTools : /\ DOMAIN lastSaid[t] \subseteq Fields
                         /\ policy[t] = NoRow => lastSaid[t] = <<>>
  /\ lastSaid = [t \in GovTools |-> lastSaid[t]]
  /\ LastWordHolds

GovernanceInv ==
  /\ GovernanceTyped
  /\ RecordsHold /\ WaiversRecorded /\ CallsAdmitted /\ EffectsBounded /\ RowsHold
----------------------------------------------------------------------------
(* Rows and requests.                                                      *)

LEMMA OverIs ==
  ASSUME NEW r, NEW row
  PROVE  /\ DOMAIN Over(r, row) = DOMAIN r \union DOMAIN row
         /\ \A f \in DOMAIN r : Over(r, row)[f] = r[f]
         /\ \A f \in DOMAIN row \ DOMAIN r : Over(r, row)[f] = row[f]
  BY DEF Over

LEMMA RequestsTyped ==
  ASSUME NEW r \in Requests
  PROVE  DOMAIN r \subseteq Fields /\ \A f \in DOMAIN r : r[f] \in BOOLEAN
<1>1. PICK F \in SUBSET Fields \ {{}} :
        r \in {q \in [F -> BOOLEAN] : "capability" \in F => q["capability"]}
  BY DEF Requests
<1>. QED
  BY <1>1

LEMMA DefaultTyped ==
  DefaultRow \in Policies
  BY DEF DefaultRow, Policies

LEMMA OverTyped ==
  ASSUME NEW r \in Requests, NEW row \in Policies
  PROVE  Over(r, row) \in Policies
<1>1. DOMAIN row = Fields /\ \A f \in Fields : row[f] \in BOOLEAN
  BY DEF Policies
<1>2. DOMAIN r \subseteq Fields /\ \A f \in DOMAIN r : r[f] \in BOOLEAN
  BY RequestsTyped
<1>3. DOMAIN r \union DOMAIN row = Fields
  BY <1>1, <1>2
<1>4. Over(r, row) = [f \in Fields |-> IF f \in DOMAIN r THEN r[f] ELSE row[f]]
  BY <1>3 DEF Over
<1>5. \A f \in Fields : (IF f \in DOMAIN r THEN r[f] ELSE row[f]) \in BOOLEAN
  BY <1>1, <1>2
<1>. QED
  BY <1>4, <1>5 DEF Policies

LEMMA DeclaredTyped == \A t \in GovTools : Declared(t) \in Policies
  BY DEF Declared, Policies

LEMMA EnforcedTyped ==
  ASSUME UpdatesTyped, NEW t \in GovTools
  PROVE  Enforced(t) \in Policies
  BY DeclaredTyped DEF UpdatesTyped, Enforced

LEMMA ShownTyped ==
  ASSUME UpdatesTyped, NEW t \in GovTools
  PROVE  /\ Shown(t) \in Policies
         /\ Shown(t)["enabled"] = Enforced(t)["enabled"]
         /\ Shown(t)["approval"] = Enforced(t)["approval"]
<1>1. CASE policy[t] = NoRow
  BY <1>1, DeclaredTyped DEF Shown, Enforced
<1>2. CASE policy[t] # NoRow
  <2>1. policy[t] \in Policies
    BY <1>2 DEF UpdatesTyped
  <2>. QED
    BY <1>2, <2>1 DEF Shown, Enforced, Policies, Fields
<1>. QED
  BY <1>1, <1>2

(* What a writing request is about to write is a row.                      *)
LEMMA WriterTyped ==
  ASSUME UpdatesTyped, NEW o \in Operators, ostage[o] = "writing"
  PROVE  otool[o] \in GovTools /\ Replacement(o) \in Policies
<1>1. (IF oread[o] = NoRow THEN DefaultRow ELSE oread[o]) \in Policies
  BY DefaultTyped DEF UpdatesTyped
<1>. QED
  BY <1>1, OverTyped DEF Replacement, UpdatesTyped

----------------------------------------------------------------------------
(* Types.                                                                  *)

LEMMA GovernanceTypedInductive ==
  ASSUME GovernanceTyped, [GovernanceNext]_governanceVars
  PROVE  GovernanceTyped'
<1>. USE GovernanceAssumption DEF GovernanceTyped
<1>1. CASE UNCHANGED governanceVars
  BY <1>1 DEF governanceVars, operatorVars, callVars, UpdatesTyped, CallsTyped, CountsTyped
<1>2. ASSUME NEW o \in Operators, NEW t \in GovTools, NEW r \in Requests, ReadPolicy(o, t, r)
      PROVE  GovernanceTyped'
  <2>1. UpdatesTyped'
    BY <1>2 DEF ReadPolicy, UpdatesTyped
  <2>2. CallsTyped' /\ CountsTyped'
    BY <1>2 DEF ReadPolicy, callVars, CallsTyped, CountsTyped
  <2>. QED
    BY <2>1, <2>2
<1>3. ASSUME NEW o \in Operators, WritePolicy(o)
      PROVE  GovernanceTyped'
  <2>1. otool[o] \in GovTools /\ Replacement(o) \in Policies
    BY <1>3, WriterTyped DEF WritePolicy
  <2>2. UpdatesTyped'
    BY <1>3, <2>1 DEF WritePolicy, UpdatesTyped
  <2>3. CallsTyped'
    <3>1. seen' \in [Calls -> SUBSET Policies]
      BY <1>3, <2>1 DEF WritePolicy, CallsTyped
    <3>2. \A c \in Calls : IsFiniteSet(seen'[c])
      BY <1>3, FS_AddElement DEF WritePolicy, CallsTyped
    <3>. QED
      BY <1>3, <3>1, <3>2 DEF WritePolicy, callVars, CallsTyped
  <2>4. CountsTyped'
    BY <1>3 DEF WritePolicy, callVars, CountsTyped
  <2>. QED
    BY <2>2, <2>3, <2>4
<1>4. ASSUME NEW c \in Calls, NEW t \in GovTools, PlanAction(c, t)
      PROVE  GovernanceTyped'
  <2>1. Shown(t) \in Policies /\ Enforced(t) \in Policies /\ IsFiniteSet({Enforced(t)})
    BY ShownTyped, EnforcedTyped, FS_Singleton
  <2>2. UpdatesTyped'
    BY <1>4 DEF PlanAction, operatorVars, UpdatesTyped
  <2>3. CallsTyped'
    BY <1>4, <2>1 DEF PlanAction, CallsTyped, CallStages
  <2>4. CountsTyped'
    BY <1>4 DEF PlanAction, CountsTyped
  <2>. QED
    BY <2>2, <2>3, <2>4
<1>5. ASSUME NEW c \in Calls, Approve(c)
      PROVE  GovernanceTyped'
  BY <1>5 DEF Approve, Reply, operatorVars, UpdatesTyped, CallsTyped, CountsTyped, CallStages,
              Answers
<1>6. ASSUME NEW c \in Calls, Execute(c) \/ ExecuteApproved(c) \/ Invoke(c)
      PROVE  GovernanceTyped'
  <2>1. UNCHANGED <<policy, operatorVars, ctool, capable, shown, approved, seen, waived,
                    overlapped>>
    BY <1>6 DEF Execute, ExecuteApproved, Invoke
  <2>2. UpdatesTyped'
    BY <2>1 DEF operatorVars, UpdatesTyped
  <2>3. PICK s \in CallStages \ {"unplanned"} : cstage' = [cstage EXCEPT ![c] = s]
    BY <1>6 DEF Execute, ExecuteApproved, Invoke, Returns, RepeatedByClient, AttemptFails,
                BeginAttempt,
                Reply, Refusal, CallStages, Answers, CallsTyped
  <2>4. cstage[c] # "unplanned"
    BY <1>6 DEF Execute, ExecuteApproved, Invoke, Returns, RepeatedByClient, AttemptFails
  <2>5. CallsTyped'
    BY <2>1, <2>3, <2>4 DEF CallsTyped
  <2>6. CountsTyped'
    BY <1>6 DEF Execute, ExecuteApproved, Invoke, Returns, RepeatedByClient, AttemptFails,
                BeginAttempt,
                Reply, Took, CountsTyped
  <2>. QED
    BY <2>2, <2>5, <2>6
<1>. QED
  BY <1>1, <1>2, <1>3, <1>4, <1>5, <1>6 DEF GovernanceNext

----------------------------------------------------------------------------
(* The steps, part by part.                                                *)

(* A write of a policy, as the calls see it: the new row is what is        *)
(* enforced, and it goes on record with every call of the tool.            *)
LEMMA WriteSeen ==
  ASSUME GovernanceTyped, NEW o \in Operators, WritePolicy(o)
  PROVE  \E t \in GovTools :
           /\ t = otool[o] /\ t # NoCall
           /\ policy'[t] = Replacement(o) /\ policy'[t] # NoRow
           /\ Enforced(t)' = Replacement(o)
           /\ \A u \in GovTools \ {t} : policy'[u] = policy[u] /\ Enforced(u)' = Enforced(u)
           /\ \A c \in Calls : /\ seen[c] \subseteq seen'[c]
                               /\ ctool[c] = t => Replacement(o) \in seen'[c]
           /\ \A u \in GovTools : waived[u] \subseteq waived'[u]
<1>1. otool[o] \in GovTools /\ Replacement(o) \in Policies /\ Replacement(o) # NoRow
  BY WriterTyped, GovernanceAssumption DEF WritePolicy, GovernanceTyped
<1>2. PICK t \in GovTools : t = otool[o] /\ t # NoCall
  BY <1>1, GovernanceAssumption
<1>3. policy'[t] = Replacement(o) /\ \A u \in GovTools \ {t} : policy'[u] = policy[u]
  BY <1>1, <1>2 DEF WritePolicy, GovernanceTyped, UpdatesTyped
<1>4. Enforced(t)' = Replacement(o) /\ \A u \in GovTools \ {t} : Enforced(u)' = Enforced(u)
  BY <1>1, <1>3 DEF Enforced
<1>5. \A c \in Calls : /\ seen[c] \subseteq seen'[c]
                       /\ ctool[c] = t => Replacement(o) \in seen'[c]
  BY <1>2 DEF WritePolicy
<1>6. \A u \in GovTools : waived[u] \subseteq waived'[u]
  BY <1>1 DEF WritePolicy, GovernanceTyped, UpdatesTyped
<1>. QED
  BY <1>1, <1>2, <1>3, <1>4, <1>5, <1>6

LEMMA EnforcedStands ==
  ASSUME UNCHANGED policy
  PROVE  \A t : Enforced(t)' = Enforced(t)
  BY DEF Enforced

LEMMA RecordsInductive ==
  ASSUME GovernanceInv, [GovernanceNext]_governanceVars
  PROVE  RecordsHold'
<1>. USE DEF GovernanceInv, GovernanceTyped
<1>1. CASE UNCHANGED <<policy, cstage, ctool, shown, seen>>
  BY <1>1, EnforcedStands DEF RecordsHold
<1>2. ASSUME NEW o \in Operators, WritePolicy(o)
      PROVE  RecordsHold'
  <2>1. UNCHANGED <<cstage, ctool, shown>>
    BY <1>2 DEF WritePolicy, callVars
  <2>2. \A c \in Calls : cstage[c] # "unplanned" => ctool[c] \in GovTools
    BY DEF CallsTyped
  <2>3. PICK t \in GovTools :
          /\ Enforced(t)' = Replacement(o)
          /\ \A u \in GovTools \ {t} : Enforced(u)' = Enforced(u)
          /\ \A c \in Calls : /\ seen[c] \subseteq seen'[c]
                              /\ ctool[c] = t => Replacement(o) \in seen'[c]
    BY <1>2, WriteSeen
  <2>4. ASSUME NEW c \in Calls, cstage[c] # "unplanned"
        PROVE  Enforced(ctool[c])' \in seen'[c]
    <3>1. PICK u \in GovTools : u = ctool[c] /\ u = ctool'[c]
      BY <2>1, <2>2, <2>4
    <3>2. Enforced(u)' \in seen'[c]
      BY <2>3, <2>4, <3>1 DEF RecordsHold
    <3>. QED
      BY <3>1, <3>2
  <2>. QED
    BY <2>1, <2>3, <2>4 DEF RecordsHold
<1>3. ASSUME NEW c \in Calls, NEW t \in GovTools, PlanAction(c, t)
      PROVE  RecordsHold'
  <2>1. /\ ctool' = [ctool EXCEPT ![c] = t] /\ shown' = [shown EXCEPT ![c] = Shown(t)]
        /\ seen' = [seen EXCEPT ![c] = {Enforced(t)}] /\ policy' = policy
        /\ cstage' = [cstage EXCEPT ![c] = "planned"]
    BY <1>3 DEF PlanAction
  <2>2. /\ Shown(t)["enabled"] = Enforced(t)["enabled"]
        /\ Shown(t)["approval"] = Enforced(t)["approval"]
    BY ShownTyped
  <2>3. \A u : Enforced(u)' = Enforced(u)
    BY <2>1, EnforcedStands
  <2>4. ASSUME NEW d \in Calls, cstage'[d] # "unplanned"
        PROVE  /\ Enforced(ctool[d])' \in seen'[d]
               /\ \E p \in seen'[d] : /\ shown'[d]["enabled"] = p["enabled"]
                                      /\ shown'[d]["approval"] = p["approval"]
    <3>1. Enforced(ctool[d])' = Enforced(ctool'[d])
      BY <2>1 DEF Enforced
    <3>2. CASE d = c
      BY <2>1, <2>2, <3>1, <3>2 DEF CallsTyped
    <3>3. CASE d # c
      BY <2>1, <2>4, <3>1, <3>3 DEF CallsTyped, RecordsHold
    <3>. QED
      BY <3>2, <3>3
  <2>. QED
    BY <2>4 DEF RecordsHold
<1>4. ASSUME NEW c \in Calls, Execute(c) \/ ExecuteApproved(c) \/ Approve(c) \/ Invoke(c)
      PROVE  RecordsHold'
  <2>1. /\ UNCHANGED <<policy, ctool, shown, seen>> /\ cstage[c] # "unplanned"
        /\ \A d \in Calls \ {c} : cstage'[d] = cstage[d]
    BY <1>4
       DEF Execute, ExecuteApproved, Approve, Invoke, Returns, RepeatedByClient, AttemptFails,
                BeginAttempt, Reply, CallsTyped
  <2>. QED
    BY <2>1, EnforcedStands DEF RecordsHold
<1>. QED
  BY <1>1, <1>2, <1>3, <1>4 DEF GovernanceNext, ReadPolicy, governanceVars, callVars

LEMMA WaiversInductive ==
  ASSUME GovernanceInv, [GovernanceNext]_governanceVars
  PROVE  WaiversRecorded'
<1>. USE DEF GovernanceInv, GovernanceTyped
<1>1. CASE UNCHANGED <<policy, waived>>
  BY <1>1, EnforcedStands DEF WaiversRecorded
<1>2. ASSUME NEW o \in Operators, WritePolicy(o)
      PROVE  WaiversRecorded'
  <2>1. PICK t \in GovTools :
          /\ t = otool[o]
          /\ Enforced(t)' = Replacement(o)
          /\ \A u \in GovTools \ {t} : Enforced(u)' = Enforced(u)
          /\ \A u \in GovTools : waived[u] \subseteq waived'[u]
    BY <1>2, WriteSeen
  <2>2. Replacement(o)["approval"] \/ ~Enforced(t)["approval"] \/ waived'[t] # {}
    BY <1>2, <2>1 DEF WritePolicy, UpdatesTyped
  <2>3. ASSUME NEW u \in Changing
        PROVE  Enforced(u)'["approval"] \/ waived'[u] # {}
    <3>1. u \in GovTools /\ (Enforced(u)["approval"] \/ waived[u] # {})
      BY GovernanceAssumption DEF WaiversRecorded
    <3>. QED
      BY <2>1, <2>2, <3>1
  <2>. QED
    BY <2>3 DEF WaiversRecorded
<1>3. CASE ~(\E o \in Operators : WritePolicy(o))
  BY <1>1, <1>3 DEF GovernanceNext, governanceVars, operatorVars, ReadPolicy, PlanAction,
                    Execute, Approve,
                    ExecuteApproved, Invoke
<1>. QED
  BY <1>2, <1>3

(* A policy that refuses nothing and asks for no approval admits the call. *)
LEMMA RefusalMeans ==
  ASSUME NEW c \in Calls, NEW p \in Policies, NEW valid \in BOOLEAN, Refusal(c, p, valid) = "none"
  PROVE  p["enabled"] /\ (p["capability"] => capable[c])
  BY DEF Refusal

LEMMA RefusalIs ==
  ASSUME NEW c, NEW p, NEW valid
  PROVE  Refusal(c, p, valid) \in Refused \union {"none"}
  BY DEF Refusal, Refused

LEMMA AdmittedStays ==
  ASSUME NEW c \in Calls, Admitted(c), ctool'[c] = ctool[c], approved'[c] = approved[c],
         capable'[c] = capable[c], seen[c] \subseteq seen'[c],
         ctool[c] \in Changing => waived[ctool[c]] \subseteq waived'[ctool[c]]
  PROVE  Admitted(c)'
  BY DEF Admitted

CallStands(c) ==
  /\ cstage'[c] = cstage[c] /\ ctool'[c] = ctool[c] /\ effects'[c] = effects[c]
  /\ approved'[c] = approved[c] /\ capable'[c] = capable[c]

LEMMA AdmissionInductive ==
  ASSUME GovernanceInv, [GovernanceNext]_governanceVars
  PROVE  CallsAdmitted'
<1>. USE GovernanceAssumption DEF GovernanceInv, GovernanceTyped
<1>1. ASSUME \A c \in Calls : CallStands(c) /\ seen[c] \subseteq seen'[c],
             \A t \in GovTools : waived[t] \subseteq waived'[t]
      PROVE  CallsAdmitted'
  BY <1>1, AdmittedStays DEF CallStands, CallsAdmitted
<1>2. CASE UNCHANGED governanceVars
  BY <1>1, <1>2 DEF governanceVars, callVars, CallStands
<1>3. ASSUME NEW o \in Operators, NEW t \in GovTools, NEW r \in Requests, ReadPolicy(o, t, r)
      PROVE  CallsAdmitted'
  BY <1>1, <1>3 DEF ReadPolicy, callVars, CallStands
<1>4. ASSUME NEW o \in Operators, WritePolicy(o)
      PROVE  CallsAdmitted'
  <2>1. \A c \in Calls : CallStands(c)
    BY <1>4 DEF WritePolicy, callVars, CallStands
  <2>. QED
    BY <1>1, <1>4, <2>1, WriteSeen
(* One call moves, the others stand.                                       *)
<1>5. ASSUME NEW c \in Calls, UNCHANGED <<seen, waived>>,
             \A d \in Calls \ {c} : CallStands(d),
             /\ cstage'[c] \in Begun => Admitted(c)'
             /\ cstage'[c] = "resumed" => approved'[c]
             /\ cstage'[c] \notin Begun => effects'[c] = 0
             /\ cstage'[c] \in {"success", "invalid_output"} => effects'[c] > 0
      PROVE  CallsAdmitted'
  <2>1. \A d \in Calls \ {c} : cstage[d] \in Begun => Admitted(d)'
    BY <1>5, AdmittedStays DEF CallStands, CallsAdmitted
  <2>. QED
    BY <1>5, <2>1 DEF CallStands, CallsAdmitted
<1>6. ASSUME NEW c \in Calls, NEW t \in GovTools, PlanAction(c, t)
      PROVE  CallsAdmitted'
  <2>1. /\ cstage'[c] = "planned" /\ effects'[c] = 0
        /\ \A d \in Calls \ {c} : CallStands(d) /\ seen'[d] = seen[d]
        /\ waived' = waived
    BY <1>6 DEF PlanAction, CallStands, CallsTyped, CallsAdmitted, Begun
  <2>2. \A d \in Calls \ {c} : cstage[d] \in Begun => Admitted(d)'
    BY <2>1, AdmittedStays DEF CallStands, CallsAdmitted
  <2>. QED
    BY <2>1, <2>2 DEF CallStands, CallsAdmitted, Begun
<1>7. ASSUME NEW c \in Calls, Approve(c)
      PROVE  CallsAdmitted'
  <2>1. cstage'[c] = "resumed" /\ approved'[c] /\ effects'[c] = 0 /\ UNCHANGED <<seen, waived>>
    BY <1>7 DEF Approve, Reply, CallsTyped, CallsAdmitted, Begun
  <2>2. \A d \in Calls \ {c} : CallStands(d)
    BY <1>7 DEF Approve, Reply, CallStands, CallsTyped
  <2>. QED
    BY <1>5, <2>1, <2>2 DEF Begun
<1>8. ASSUME NEW c \in Calls, Execute(c) \/ ExecuteApproved(c)
      PROVE  CallsAdmitted'
  <2>. DEFINE p == Enforced(ctool[c])
  <2>1. /\ UNCHANGED <<seen, waived, ctool, capable, approved, effects>>
        /\ \A d \in Calls \ {c} : CallStands(d)
    BY <1>8 DEF Execute, ExecuteApproved, Reply, BeginAttempt, CallStands, CallsTyped
  <2>2. effects[c] = 0 /\ ctool[c] \in GovTools /\ p \in seen[c] /\ p \in Policies
    BY <1>8 DEF Execute, ExecuteApproved, CallsAdmitted, CallsTyped, Begun, RecordsHold
  <2>3. PICK valid \in BOOLEAN :
          \/ cstage'[c] \in Refused \union {"approval_required"}
          \/ /\ cstage'[c] = "calling" /\ Refusal(c, p, valid) = "none"
             /\ ~p["approval"] \/ cstage[c] = "resumed"
    BY <1>8, RefusalIs DEF Execute, ExecuteApproved, Reply, BeginAttempt, CallsTyped, Refused
  <2>4. CASE cstage'[c] \in Refused \union {"approval_required"}
    BY <1>5, <2>1, <2>2, <2>4 DEF Refused, Begun
  <2>5. CASE /\ cstage'[c] = "calling" /\ Refusal(c, p, valid) = "none"
             /\ ~p["approval"] \/ cstage[c] = "resumed"
    <3>1. p["enabled"] /\ (p["capability"] => capable[c])
      BY <2>2, <2>5, RefusalMeans
    <3>2. approved[c] \/ ~p["approval"]
      BY <2>5 DEF CallsAdmitted
    <3>3. ctool[c] \in Changing => approved[c] \/ waived[ctool[c]] # {}
      BY <3>2 DEF WaiversRecorded
    <3>4. Admitted(c)
      BY <2>2, <3>1, <3>2, <3>3 DEF Admitted
    <3>5. Admitted(c)'
      BY <2>1, <3>4, AdmittedStays
    <3>. QED
      BY <1>5, <2>1, <2>2, <2>5, <3>5 DEF Begun
  <2>. QED
    BY <2>3, <2>4, <2>5
<1>9. ASSUME NEW c \in Calls, Invoke(c)
      PROVE  CallsAdmitted'
  <2>1. /\ UNCHANGED <<seen, waived, ctool, capable, approved>> /\ cstage[c] = "calling"
        /\ \A d \in Calls \ {c} : CallStands(d)
    BY <1>9 DEF Invoke, Returns, RepeatedByClient, AttemptFails, BeginAttempt, Reply, Took,
                CallStands,
                CallsTyped, CountsTyped
  <2>2. /\ cstage'[c] \in Begun
        /\ cstage'[c] \in {"success", "invalid_output"} => effects'[c] > 0
    BY <1>9 DEF Invoke, Returns, RepeatedByClient, AttemptFails, BeginAttempt, Reply, Took,
                CallsTyped,
                CountsTyped, Begun
  <2>3. Admitted(c)'
    BY <2>1, AdmittedStays DEF CallsAdmitted, Begun
  <2>. QED
    BY <1>5, <2>1, <2>2, <2>3 DEF Begun
<1>. QED
  BY <1>2, <1>3, <1>4, <1>6, <1>7, <1>8, <1>9 DEF GovernanceNext

(* One attempt less leaves one attempt's tries.                            *)
LEMMA AttemptsCost ==
  ASSUME NEW r \in Nat, NEW k \in Nat
  PROVE  /\ (r + 1) * k = r * k + k
         /\ r > 0 => r * k = (r - 1) * k + k
         /\ r * k \in Nat
  OBVIOUS

LEMMA BoundsInductive ==
  ASSUME GovernanceInv, [GovernanceNext]_governanceVars
  PROVE  EffectsBounded'
<1>. USE DEF GovernanceInv, GovernanceTyped
<1>1. ASSUME NEW c \in Calls, NEW t \in GovTools, PlanAction(c, t)
      PROVE  EffectsBounded'
  <2>1. /\ UNCHANGED <<effects, triesLeft, retriesLeft>>
        /\ cstage'[c] = "planned" /\ effects[c] = 0
        /\ \A d \in Calls \ {c} : cstage'[d] = cstage[d] /\ ctool'[d] = ctool[d]
    BY <1>1 DEF PlanAction, CallsTyped, CallsAdmitted, Begun
  <2>2. \A d \in Calls \ {c} : Tries(d)' = Tries(d)
    BY <2>1 DEF Tries
  <2>3. Tries(c)' \in Nat
    BY GovernanceAssumption DEF Tries
  <2>4. 0 <= (CallRetries + 1) * Tries(c)'
    BY <2>3, AttemptsCost, GovernanceAssumption
  <2>. QED
    BY <2>1, <2>2, <2>4 DEF EffectsBounded
<1>2. CASE UNCHANGED <<cstage, ctool, effects, triesLeft, retriesLeft>>
  BY <1>2 DEF EffectsBounded, Tries
<1>3. ASSUME NEW c \in Calls, UNCHANGED ctool,
             \A d \in Calls \ {c} : /\ cstage'[d] = cstage[d] /\ effects'[d] = effects[d]
                                    /\ triesLeft'[d] = triesLeft[d]
                                    /\ retriesLeft'[d] = retriesLeft[d],
             effects'[c] <= (CallRetries + 1) * Tries(c),
             cstage'[c] = "calling" =>
               effects'[c] + triesLeft'[c] + 1 + retriesLeft'[c] * Tries(c)
                 <= (CallRetries + 1) * Tries(c)
      PROVE  EffectsBounded'
  BY <1>3 DEF EffectsBounded, Tries
<1>4. ASSUME NEW c \in Calls, Execute(c) \/ ExecuteApproved(c)
      PROVE  EffectsBounded'
  <2>1. /\ UNCHANGED <<ctool, effects>> /\ effects[c] = 0
        /\ \A d \in Calls \ {c} : /\ cstage'[d] = cstage[d] /\ effects'[d] = effects[d]
                                  /\ triesLeft'[d] = triesLeft[d]
                                  /\ retriesLeft'[d] = retriesLeft[d]
    BY <1>4 DEF Execute, ExecuteApproved, Reply, BeginAttempt, CallsTyped, CountsTyped,
                CallsAdmitted, Begun
  <2>2. cstage'[c] = "calling" => retriesLeft'[c] = CallRetries /\ triesLeft'[c] + 1 = Tries(c)
    BY <1>4, RefusalIs, GovernanceAssumption
       DEF Execute, ExecuteApproved, Reply, BeginAttempt, CallsTyped, CountsTyped, Refused, Tries
  <2>3. Tries(c) \in Nat /\ CallRetries \in Nat
    BY GovernanceAssumption DEF Tries
  <2>4. /\ CallRetries * Tries(c) \in Nat
        /\ (CallRetries + 1) * Tries(c) = CallRetries * Tries(c) + Tries(c)
    BY <2>3, AttemptsCost
  <2>5. CASE cstage'[c] = "calling"
    <3>1. retriesLeft'[c] * Tries(c) = CallRetries * Tries(c)
      BY <2>2, <2>5
    <3>2. triesLeft'[c] \in Int
      BY <1>4, GovernanceAssumption DEF Execute, ExecuteApproved, Reply, BeginAttempt, CountsTyped
    <3>3. effects'[c] + triesLeft'[c] + 1 + retriesLeft'[c] * Tries(c)
            <= (CallRetries + 1) * Tries(c)
      BY <2>1, <2>2, <2>3, <2>4, <2>5, <3>1, <3>2
    <3>4. effects'[c] <= (CallRetries + 1) * Tries(c)
      BY <2>1, <2>3, <2>4
    <3>. QED
      BY <1>3, <2>1, <3>3, <3>4
  <2>6. CASE cstage'[c] # "calling"
    <3>1. effects'[c] <= (CallRetries + 1) * Tries(c)
      BY <2>1, <2>3, <2>4
    <3>. QED
      BY <1>3, <2>1, <2>6, <3>1
  <2>. QED
    BY <2>5, <2>6
<1>5. ASSUME NEW c \in Calls, Invoke(c)
      PROVE  EffectsBounded'
  <2>1. /\ UNCHANGED ctool /\ cstage[c] = "calling"
        /\ \A d \in Calls \ {c} : /\ cstage'[d] = cstage[d] /\ effects'[d] = effects[d]
                                  /\ triesLeft'[d] = triesLeft[d]
                                  /\ retriesLeft'[d] = retriesLeft[d]
    BY <1>5 DEF Invoke, Returns, RepeatedByClient, AttemptFails, BeginAttempt, Reply, Took,
                CallsTyped,
                CountsTyped
  <2>2. /\ effects[c] \in Nat /\ triesLeft[c] \in Nat /\ retriesLeft[c] \in Nat
        /\ Tries(c) \in Nat /\ CallRetries \in Nat
    BY GovernanceAssumption DEF CountsTyped, Tries
  <2>. DEFINE rest == retriesLeft[c] * Tries(c)
              all == (CallRetries + 1) * Tries(c)
  <2>3. /\ rest \in Nat /\ all \in Nat
        /\ retriesLeft[c] > 0 => rest = (retriesLeft[c] - 1) * Tries(c) + Tries(c)
    BY <2>2, AttemptsCost
  <2>4. effects[c] + triesLeft[c] + 1 + rest <= all
    BY <2>1 DEF EffectsBounded
  <2>5. PICK n \in {0, 1} : effects'[c] = effects[c] + n
    BY <1>5 DEF Invoke, Returns, RepeatedByClient, AttemptFails, Took, CountsTyped
  <2>6. effects'[c] <= all
    <3>. HIDE DEF rest, all
    <3>. QED
      BY <2>2, <2>3, <2>4, <2>5
  <2>7. CASE cstage'[c] # "calling"
    BY <1>3, <2>1, <2>6, <2>7
  <2>8. CASE cstage'[c] = "calling"
    <3>. DEFINE Again == /\ triesLeft[c] > 0 /\ triesLeft'[c] = triesLeft[c] - 1
                         /\ retriesLeft'[c] = retriesLeft[c]
                Anew == /\ retriesLeft[c] > 0 /\ retriesLeft'[c] = retriesLeft[c] - 1
                        /\ triesLeft'[c] + 1 = Tries(c) /\ triesLeft'[c] \in Int
    <3>1. Again \/ Anew
      BY <1>5, <2>8, GovernanceAssumption
         DEF Invoke, Returns, RepeatedByClient, AttemptFails, BeginAttempt, Reply, CallsTyped,
             CountsTyped, Tries
    <3>2. CASE Again
      <4>1. retriesLeft'[c] * Tries(c) = rest
        BY <3>2
      <4>2. effects'[c] + triesLeft'[c] + 1 + rest <= all
        <5>. HIDE DEF rest, all
        <5>. QED
          BY <2>2, <2>3, <2>4, <2>5, <3>2
      <4>. QED
        BY <1>3, <2>1, <2>6, <4>1, <4>2
    <3>3. CASE Anew
      <4>. DEFINE less == (retriesLeft[c] - 1) * Tries(c)
      <4>1. retriesLeft'[c] * Tries(c) = less /\ less \in Nat
        BY <2>2, <3>3, AttemptsCost
      <4>2. effects'[c] + triesLeft'[c] + 1 + less <= all
        <5>1. rest = less + Tries(c)
          BY <2>3, <3>3
        <5>. HIDE DEF rest, all, less
        <5>. QED
          BY <2>2, <2>3, <2>4, <2>5, <3>3, <4>1, <5>1
      <4>. QED
        BY <1>3, <2>1, <2>6, <4>1, <4>2
    <3>. QED
      BY <3>1, <3>2, <3>3
  <2>. QED
    BY <2>7, <2>8
<1>6. ASSUME NEW c \in Calls, Approve(c)
      PROVE  EffectsBounded'
  <2>1. /\ UNCHANGED <<ctool, effects, triesLeft, retriesLeft>> /\ cstage'[c] = "resumed"
        /\ \A d \in Calls \ {c} : cstage'[d] = cstage[d]
    BY <1>6 DEF Approve, Reply, CallsTyped
  <2>. QED
    BY <2>1 DEF EffectsBounded, Tries
<1>. QED
  BY <1>1, <1>2, <1>4, <1>5, <1>6
     DEF GovernanceNext, governanceVars, callVars, ReadPolicy, WritePolicy

LEMMA RowsInductive ==
  ASSUME GovernanceInv, [GovernanceNext]_governanceVars
  PROVE  RowsHold'
<1>. USE DEF GovernanceInv, GovernanceTyped
<1>1. CASE UNCHANGED <<policy, operatorVars, lastSaid, overlapped>>
  BY <1>1 DEF operatorVars, RowsHold, LastWordHolds
<1>2. ASSUME NEW o \in Operators, NEW t \in GovTools, NEW r \in Requests, ReadPolicy(o, t, r)
      PROVE  RowsHold'
  <2>1. /\ UNCHANGED <<policy, lastSaid>> /\ overlapped \subseteq overlapped'
        /\ ostage[o] = "free" /\ otool'[o] = t /\ oread'[o] = policy[t]
        /\ \A q \in Operators \ {o} : /\ ostage'[q] = ostage[q] /\ otool'[q] = otool[q]
                                      /\ oread'[q] = oread[q]
        /\ \A q \in Operators : ostage[q] = "writing" /\ otool[q] = t => t \in overlapped'
    BY <1>2 DEF ReadPolicy, UpdatesTyped
  <2>2. \A q \in Operators \ {o} : otool[q] = t => t \in overlapped'
    BY <2>1 DEF UpdatesTyped
  <2>3. \A q \in Operators : ostage'[q] = "writing" /\ otool'[q] \notin overlapped' =>
          /\ oread'[q] = policy'[otool'[q]]
          /\ \A p \in Operators \ {q} : otool'[p] # otool'[q]
    BY <2>1, <2>2 DEF RowsHold
  <2>. QED
    BY <2>1, <2>3 DEF RowsHold, LastWordHolds
<1>3. ASSUME NEW o \in Operators, WritePolicy(o)
      PROVE  RowsHold'
  <2>1. PICK t \in GovTools :
          /\ t = otool[o] /\ t # NoCall
          /\ policy'[t] = Replacement(o) /\ policy'[t] # NoRow
          /\ \A u \in GovTools \ {t} : policy'[u] = policy[u]
    BY <1>3, WriteSeen
  <2>2. /\ ostage[o] = "writing" /\ otool'[o] = NoCall /\ ostage'[o] = "free"
        /\ overlapped' = overlapped
        /\ \A q \in Operators \ {o} : /\ ostage'[q] = ostage[q] /\ otool'[q] = otool[q]
                                      /\ oread'[q] = oread[q]
        /\ \A u \in GovTools \ {t} : lastSaid'[u] = lastSaid[u]
        /\ lastSaid'[t] = Over(orequest[o], lastSaid[t])
    BY <1>3, <2>1 DEF WritePolicy, UpdatesTyped, RowsHold
  <2>3. \A q \in Operators : ostage'[q] = "writing" /\ otool'[q] \notin overlapped' =>
          /\ oread'[q] = policy'[otool'[q]]
          /\ \A p \in Operators \ {q} : otool'[p] # otool'[q]
    BY <2>1, <2>2, GovernanceAssumption DEF RowsHold, UpdatesTyped
  <2>4. orequest[o] \in Requests /\ DOMAIN orequest[o] \subseteq Fields
    BY <2>2, RequestsTyped DEF UpdatesTyped
  <2>. DEFINE request == orequest[o]
              said == Over(request, lastSaid[t])
  <2>7. /\ DOMAIN said = DOMAIN request \union DOMAIN lastSaid[t]
        /\ \A f \in DOMAIN request : said[f] = request[f]
        /\ \A f \in DOMAIN lastSaid[t] \ DOMAIN request : said[f] = lastSaid[t][f]
    BY OverIs
  <2>8. lastSaid'[t] = said
    BY <2>2
  <2>9. lastSaid' = [u \in GovTools |-> lastSaid'[u]]
    BY <1>3 DEF WritePolicy, RowsHold
  <2>10. PICK row : Replacement(o) = Over(request, row) /\ (oread[o] # NoRow => row = oread[o])
    BY DEF Replacement
  <2>11. /\ \A f \in DOMAIN request : policy'[t][f] = request[f]
         /\ \A f \in DOMAIN row \ DOMAIN request : policy'[t][f] = row[f]
    <3>1. /\ \A f \in DOMAIN request : Over(request, row)[f] = request[f]
          /\ \A f \in DOMAIN row \ DOMAIN request : Over(request, row)[f] = row[f]
      BY OverIs
    <3>. QED
      BY <2>1, <2>10, <3>1
  <2>. HIDE DEF said, request
  <2>5. \A u \in GovTools : /\ DOMAIN lastSaid'[u] \subseteq Fields
                            /\ policy'[u] = NoRow => lastSaid'[u] = <<>>
    <3>1. DOMAIN said \subseteq Fields
      BY <2>4, <2>7 DEF RowsHold, request
    <3>. QED
      BY <2>1, <2>2, <2>8, <3>1 DEF RowsHold
  <2>6. ASSUME NEW u \in GovTools \ overlapped, NEW f \in DOMAIN lastSaid'[u]
        PROVE  policy'[u][f] = lastSaid'[u][f]
    <3>1. CASE u # t
      BY <2>1, <2>2, <3>1 DEF RowsHold, LastWordHolds
    <3>2. CASE u = t
      <4>1. oread[o] = policy[t]
        BY <2>1, <2>2, <2>6, <3>2 DEF RowsHold
      <4>2. CASE f \in DOMAIN request
        BY <2>7, <2>8, <2>11, <3>2, <4>2
      <4>3. CASE f \notin DOMAIN request
        <5>1. f \in DOMAIN lastSaid[t] /\ lastSaid'[t][f] = lastSaid[t][f] /\ f \in Fields
          BY <2>6, <2>7, <2>8, <3>2, <4>3 DEF RowsHold
        <5>2. policy[t] # NoRow
          BY <5>1 DEF RowsHold
        <5>3. policy[t] \in Policies /\ DOMAIN policy[t] = Fields
          BY <5>2 DEF UpdatesTyped, Policies
        <5>5. policy'[t][f] = policy[t][f]
          BY <2>10, <2>11, <4>1, <4>3, <5>1, <5>2, <5>3
        <5>6. policy[t][f] = lastSaid[t][f]
          BY <2>6, <3>2, <5>1 DEF RowsHold, LastWordHolds
        <5>. QED
          BY <3>2, <5>1, <5>5, <5>6
      <4>. QED
        BY <4>2, <4>3
    <3>. QED
      BY <3>1, <3>2
  <2>. QED
    BY <2>2, <2>3, <2>5, <2>6, <2>9 DEF RowsHold, LastWordHolds
<1>. QED
  BY <1>1, <1>2, <1>3
     DEF GovernanceNext, governanceVars, PlanAction, Execute, Approve, ExecuteApproved,
                          Invoke
----------------------------------------------------------------------------
(* The theorems.                                                           *)

LEMMA GovernanceInvInitially ==
  ASSUME GovernanceInit
  PROVE  GovernanceInv
<1>. USE GovernanceAssumption DEF GovernanceInit
<1>1. GovernanceTyped
  BY FS_EmptySet DEF GovernanceTyped, UpdatesTyped, CallsTyped, CountsTyped, CallStages
<1>2. RecordsHold
  BY DEF RecordsHold
<1>3. WaiversRecorded
  <2>1. \A t \in Changing : Declared(t)["approval"]
    <3>1. "approval" \in Fields
      BY DEF Fields
    <3>2. \A t \in Changing : Declared(t)["approval"] = TRUE
      BY <3>1 DEF Declared
    <3>. QED
      BY <3>2
  <2>2. \A t \in Changing : Enforced(t) = Declared(t)
    BY DEF Enforced
  <2>. QED
    BY <2>1, <2>2 DEF WaiversRecorded
<1>4. CallsAdmitted
  BY DEF CallsAdmitted, Begun
<1>5. EffectsBounded
  <2>1. \A c \in Calls : Tries(c) \in Nat /\ (CallRetries + 1) * Tries(c) \in Nat
    BY AttemptsCost DEF Tries
  <2>. QED
    BY <2>1 DEF EffectsBounded
<1>6. RowsHold
  BY DEF RowsHold, LastWordHolds
<1>. QED
  BY <1>1, <1>2, <1>3, <1>4, <1>5, <1>6 DEF GovernanceInv

LEMMA GovernanceInvInductive ==
  ASSUME GovernanceInv, [GovernanceNext]_governanceVars
  PROVE  GovernanceInv'
<1>1. GovernanceTyped'
  BY GovernanceTypedInductive DEF GovernanceInv
<1>. QED
  BY <1>1, RecordsInductive, WaiversInductive, AdmissionInductive, BoundsInductive, RowsInductive
     DEF GovernanceInv

LEMMA GovernanceInvAlways == GovernanceSpec => []GovernanceInv
  BY GovernanceInvInitially, GovernanceInvInductive, PTL DEF GovernanceSpec

(* Every variable keeps its type, under any interleaving of updates and    *)
(* calls.                                                                  *)
THEOREM GovernanceTypesHold == GovernanceSpec => []GovernanceTypeOK
<1>1. GovernanceInv => GovernanceTypeOK
  BY DEF GovernanceInv, GovernanceTyped, UpdatesTyped, CallsTyped, CountsTyped,
         GovernanceTypeOK, CallStages
<1>. QED
  BY <1>1, GovernanceInvAlways, PTL

(* A call takes effect only under a policy its tool had since the call was *)
(* planned, on a tool that changes something only when approved or waived, *)
(* and at most once per attempt and try of the client; a refused call has  *)
(* none.                                                                   *)
THEOREM EffectsAreAllowedHolds == GovernanceSpec => []EffectsAreAllowed
<1>1. ASSUME GovernanceInv PROVE EffectsAreAllowed
  <2>1. \A c \in Calls : effects[c] > 0 => cstage[c] \in Begun
    BY <1>1 DEF GovernanceInv, CallsAdmitted
  <2>2. \A c \in Calls : cstage[c] \in Refused \union {"approval_required"} => effects[c] = 0
    BY <1>1 DEF GovernanceInv, CallsAdmitted, Begun, Refused
  <2>. QED
    BY <1>1, <2>1, <2>2
       DEF GovernanceInv, CallsAdmitted, Admitted, EffectsBounded, Tries, Refused,
           EffectsAreAllowed
<1>. QED
  BY <1>1, GovernanceInvAlways, PTL

(* What the gate shows is what the executor enforces, if the tool's policy *)
(* stood in between; and a row holds what was last said of each field.     *)
THEOREM PoliciesAgreeHolds == GovernanceSpec => []PoliciesAgree
<1>1. ASSUME GovernanceInv PROVE ShownIsEnforced
  <2>1. SUFFICES ASSUME NEW c \in Calls, effects[c] > 0, Cardinality(seen[c]) = 1
                 PROVE  /\ shown[c]["enabled"]
                        /\ shown[c]["approval"] => approved[c]
                        /\ shown[c]["capability"] => \/ capable[c]
                                                     \/ \E p \in seen[c] : ~p["capability"]
    BY DEF ShownIsEnforced
  <2>2. IsFiniteSet(seen[c]) /\ cstage[c] \in Begun
    BY <1>1, <2>1 DEF GovernanceInv, GovernanceTyped, CallsTyped, CallsAdmitted
  <2>3. PICK p : seen[c] = {p}
    BY <2>1, <2>2, FS_Singleton
  <2>4. Admitted(c) /\ cstage[c] # "unplanned"
    BY <1>1, <2>2 DEF GovernanceInv, CallsAdmitted, Begun
  <2>5. shown[c]["enabled"] = p["enabled"] /\ shown[c]["approval"] = p["approval"]
    BY <1>1, <2>3, <2>4 DEF GovernanceInv, RecordsHold
  <2>6. /\ p["enabled"]
        /\ p["capability"] => capable[c]
        /\ approved[c] \/ ~p["approval"]
    BY <2>3, <2>4 DEF Admitted
  <2>. QED
    BY <2>3, <2>5, <2>6
<1>2. GovernanceInv => PoliciesAgree
  BY <1>1 DEF GovernanceInv, RowsHold, PoliciesAgree
<1>. QED
  BY <1>2, GovernanceInvAlways, PTL

----------------------------------------------------------------------------
(* What surrounds the runs as a whole: a behaviour runs one part of it,    *)
(* and what is proved of the part holds of the behaviour.                  *)

LEMMA OperationsTakeTheirSteps ==
  ASSUME [OperationsNext]_operationsVars
  PROVE  /\ part' = part
         /\ [GovernanceNext]_governanceVars /\ [CatalogueNext]_catalogueVars
         /\ [MonitorNext]_monitorVars /\ [AgentOpsNext]_opsVars
         /\ [LimiterNext]_limiterVars /\ [DecisionNext]_decisionVars
         /\ [ReportsNext]_reportsVars
         /\ part # "diagnoses" => [ChatNext]_chatVars
         /\ part = "diagnoses" => [DiagnosisNext]_<<chatVars, diagnosisVars>>
<1>1. CASE UNCHANGED operationsVars
  BY <1>1 DEF operationsVars
<1>2. CASE Governance
  BY <1>2 DEF Governance
<1>3. CASE Catalogue
  BY <1>3 DEF Catalogue
<1>4. CASE Chat
  BY <1>4 DEF Chat
<1>5. CASE DiagnosesAndClearings
  BY <1>5 DEF DiagnosesAndClearings
<1>6. CASE Monitoring
  BY <1>6 DEF Monitoring
<1>7. CASE Metrics
  BY <1>7 DEF Metrics
<1>8. CASE Limits
  BY <1>8 DEF Limits
<1>9. CASE Deciding
  BY <1>9 DEF Deciding
<1>10. CASE Reporting
  BY <1>10 DEF Reporting
<1>. QED
  BY <1>1, <1>2, <1>3, <1>4, <1>5, <1>6, <1>7, <1>8, <1>9, <1>10 DEF OperationsNext

(* A behaviour of the whole is one of every component, of the chat alone   *)
(* or of the diagnoses that share its session: what is proved of them      *)
(* holds of it.                                                            *)
THEOREM OperationsAreTheirParts ==
  OperationsSpec => /\ GovernanceSpec /\ CatalogueSpec /\ MonitorSpec /\ AgentOpsSpec
                    /\ LimiterSpec /\ DecisionSpec /\ ReportsSpec
                    /\ \/ ChatSpec /\ [](part # "diagnoses")
                       \/ DiagnosisSpec /\ [](part = "diagnoses")
<1>1. OperationsInit => /\ GovernanceInit /\ CatalogueInit /\ MonitorInit /\ AgentOpsInit
                        /\ LimiterInit /\ DecisionInit /\ ReportsInit
                        /\ ChatInit /\ DiagnosisInit
  BY DEF OperationsInit, DiagnosisInit
<1>2. [OperationsNext]_operationsVars
        => /\ [GovernanceNext]_governanceVars /\ [CatalogueNext]_catalogueVars
           /\ [MonitorNext]_monitorVars /\ [AgentOpsNext]_opsVars
           /\ [LimiterNext]_limiterVars /\ [DecisionNext]_decisionVars
           /\ [ReportsNext]_reportsVars
  BY OperationsTakeTheirSteps
<1>3. part = "diagnoses" /\ [OperationsNext]_operationsVars
        => (part = "diagnoses")' /\ [DiagnosisNext]_<<chatVars, diagnosisVars>>
  BY OperationsTakeTheirSteps
<1>4. part # "diagnoses" /\ [OperationsNext]_operationsVars
        => (part # "diagnoses")' /\ [ChatNext]_chatVars
  BY OperationsTakeTheirSteps
<1>5. part = "diagnoses" \/ part # "diagnoses"
  OBVIOUS
<1>6. OperationsSpec /\ part = "diagnoses" => DiagnosisSpec /\ [](part = "diagnoses")
  BY <1>1, <1>3, PTL DEF OperationsSpec, DiagnosisSpec
<1>7. OperationsSpec /\ part # "diagnoses" => ChatSpec /\ [](part # "diagnoses")
  BY <1>1, <1>4, PTL DEF OperationsSpec, ChatSpec
<1>8. OperationsSpec => /\ GovernanceSpec /\ CatalogueSpec /\ MonitorSpec /\ AgentOpsSpec
                        /\ LimiterSpec /\ DecisionSpec /\ ReportsSpec
  BY <1>1, <1>2, PTL DEF OperationsSpec, GovernanceSpec, CatalogueSpec, MonitorSpec,
                         AgentOpsSpec, LimiterSpec, DecisionSpec, ReportsSpec
<1>. QED
  BY <1>5, <1>6, <1>7, <1>8, PTL

(* Every variable around the runs keeps its type, whichever part runs.     *)
THEOREM OperationsTypesHold == OperationsSpec => []OperationsTypeOK
<1>. DEFINE SessionTypeOK == /\ part # "diagnoses" => ChatTypeOK
                             /\ part = "diagnoses" => DiagnosisTypeOK
<1>1. OperationsSpec => []SessionTypeOK
  <2>1. ChatTypeOK /\ part # "diagnoses" => SessionTypeOK
    OBVIOUS
  <2>2. DiagnosisTypeOK /\ part = "diagnoses" => SessionTypeOK
    OBVIOUS
  <2>3. OperationsSpec => \/ ChatSpec /\ [](part # "diagnoses")
                          \/ DiagnosisSpec /\ [](part = "diagnoses")
    BY OperationsAreTheirParts
  <2>. HIDE DEF SessionTypeOK
  <2>. QED
    BY <2>1, <2>2, <2>3, ChatTypesHold, DiagnosisTypesHold, PTL
<1>2. OperationsSpec => /\ []GovernanceTypeOK /\ []CatalogueTypeOK /\ []MonitorTypeOK
                        /\ []AgentOpsTypeOK
  BY OperationsAreTheirParts, GovernanceTypesHold, CatalogueTypesHold, MonitorTypesHold,
     AgentOpsTypesHold
<1>3. OperationsSpec => []LimiterTypeOK /\ []DecisionTypeOK /\ []ReportsTypeOK
  BY OperationsAreTheirParts, LimiterTypesHold, DecisionTypesHold, ReportsTypesHold
<1>4. /\ GovernanceTypeOK /\ CatalogueTypeOK /\ MonitorTypeOK /\ AgentOpsTypeOK
      /\ LimiterTypeOK /\ DecisionTypeOK /\ ReportsTypeOK /\ SessionTypeOK
      => OperationsTypeOK
  BY DEF OperationsTypeOK
<1>. HIDE DEF SessionTypeOK
<1>. QED
  BY <1>1, <1>2, <1>3, <1>4, PTL

(* What the run of the operations checks holds for all constants: what a   *)
(* conversation and what a diagnosis promise, in the part that has them.   *)
THEOREM OperationsHold ==
  OperationsSpec => /\ [](EffectsAreAllowed /\ PoliciesAgree /\ GapsAreFailures)
                    /\ [](ReleaseGateStaysShut /\ RateIsExact)
                    /\ [](DecisionIsRecorded /\ ReportsAreFaithful)
                    /\ AlertsAreSpaced
                    /\ [](part # "diagnoses" => ConversationAgrees)
                    /\ [](part = "diagnoses" => DiagnosisOutcome)
<1>1. OperationsSpec => [](EffectsAreAllowed /\ PoliciesAgree /\ GapsAreFailures)
  BY OperationsAreTheirParts, EffectsAreAllowedHolds, PoliciesAgreeHolds, GapsAreFailuresHolds,
     PTL
<1>2. OperationsSpec => [](ReleaseGateStaysShut /\ RateIsExact)
  BY OperationsAreTheirParts, ReleaseGateStaysShutHolds, RateIsExactHolds, PTL
<1>3. OperationsSpec => [](DecisionIsRecorded /\ ReportsAreFaithful)
  BY OperationsAreTheirParts, DecisionIsRecordedHolds, ReportsAreFaithfulHolds, PTL
<1>4. OperationsSpec => AlertsAreSpaced
  BY OperationsAreTheirParts, AlertsAreSpacedHolds
<1>. DEFINE AgreesThroughout == part # "diagnoses" => ConversationAgrees
            EndsRightly == part = "diagnoses" => DiagnosisOutcome
<1>5. OperationsSpec => []AgreesThroughout /\ []EndsRightly
  <2>1. /\ part # "diagnoses" => EndsRightly
        /\ part = "diagnoses" => AgreesThroughout
        /\ ConversationAgrees => AgreesThroughout
        /\ DiagnosisOutcome => EndsRightly
    OBVIOUS
  <2>2. OperationsSpec => \/ ChatSpec /\ [](part # "diagnoses")
                          \/ DiagnosisSpec /\ [](part = "diagnoses")
    BY OperationsAreTheirParts
  <2>. HIDE DEF AgreesThroughout, EndsRightly
  <2>. QED
    BY <2>1, <2>2, ConversationAgreesHolds, DiagnosisOutcomeHolds, PTL
<1>. QED
  BY <1>1, <1>2, <1>3, <1>4, <1>5
=============================================================================
