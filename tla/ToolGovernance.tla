--------------------------- MODULE ToolGovernance ---------------------------
(***************************************************************************)
(* Which calls of a tool happen: the policy rows an operator edits, the    *)
(* gate that shows a policy with a planned action, the executor that       *)
(* enforces one, and the retries of the executor and of the MCP client     *)
(* around the call itself.                                                 *)
(*                                                                         *)
(* A policy is three booleans: enabled, approval (is one required) and     *)
(* capability (does it name one the caller needs).  Scope, risk level and  *)
(* the rest are shown and never enforced.  The approval of a call is       *)
(* ApprovalWorkflow's business: here it arrives.                           *)
(***************************************************************************)
EXTENDS Naturals, FiniteSets

CONSTANTS GovTools,
          Changing,    \* tools with a side effect "change" or "destructive"
          Asking,      \* tools that declare approval_required
          Guarded,     \* tools that declare a capability
          Remote,      \* MCP tools
          Calls,       \* planned actions of all runs
          Operators,   \* requests that update a policy at the same time
          CallRetries, \* retry_count of every tool
          MCPTries,    \* max_retries of the MCP client
          NoRow, NoCall,
          MaxUpdates   \* bound: policy updates in all

Fields == {"enabled", "approval", "capability"}
Policies == [Fields -> BOOLEAN]

ASSUME GovernanceAssumption ==
  /\ Changing \union Asking \union Guarded \union Remote \subseteq GovTools
  /\ NoCall \notin GovTools /\ NoRow \notin Policies
  /\ CallRetries \in Nat /\ MCPTries \in Nat \ {0} /\ MaxUpdates \in Nat

VARIABLES
  policy,                        \* tool_policies: a row, or NoRow
  ostage, otool, orequest, oread,  \* update requests
  cstage, ctool, capable, shown, approved, retriesLeft, triesLeft, effects,  \* calls
  \* history: per call, the policies its tool had since it was planned; per
  \* tool, what an update last said of each field, how an approval came to be
  \* waived, and whether two updates overlapped
  seen, lastSaid, waived, overlapped,
  updates

operatorVars == <<ostage, otool, orequest, oread>>
callVars == <<cstage, ctool, capable, shown, approved, retriesLeft, triesLeft, effects>>
governanceVars == <<policy, operatorVars, callVars, seen, lastSaid, waived, overlapped, updates>>

Answers == {"disabled", "forbidden", "invalid_input", "approval_required",
            "success", "invalid_output", "error"}

(* The tool's own word: the catalogue and the executor both force an       *)
(* approval on a side effect.                                              *)
Declared(t) ==
  [f \in Fields |-> \/ f = "enabled"
                    \/ f = "approval" /\ t \in Asking \union Changing
                    \/ f = "capability" /\ t \in Guarded]

(* The executor: a row replaces all three.                                 *)
Enforced(t) == IF policy[t] = NoRow THEN Declared(t) ELSE policy[t]

(* The gate: a row that names no capability leaves the tool's.             *)
Shown(t) ==
  IF policy[t] = NoRow THEN Declared(t)
  ELSE [policy[t] EXCEPT !["capability"] = @ \/ t \in Guarded]

GovernanceInit ==
  /\ policy = [t \in GovTools |-> NoRow]
  /\ ostage = [o \in Operators |-> "free"]
  /\ otool = [o \in Operators |-> NoCall]
  /\ orequest = [o \in Operators |-> <<>>]
  /\ oread = [o \in Operators |-> NoRow]
  /\ cstage = [c \in Calls |-> "unplanned"]
  /\ ctool = [c \in Calls |-> NoCall]
  /\ capable \in [Calls -> BOOLEAN]
  /\ shown = [c \in Calls |-> NoRow]
  /\ approved = [c \in Calls |-> FALSE]
  /\ retriesLeft = [c \in Calls |-> 0]
  /\ triesLeft = [c \in Calls |-> 0]
  /\ effects = [c \in Calls |-> 0]
  /\ seen = [c \in Calls |-> {}]
  /\ lastSaid = [t \in GovTools |-> <<>>]
  /\ waived = [t \in GovTools |-> {}]
  /\ overlapped = {}
  /\ updates = 0
----------------------------------------------------------------------------
(* PATCH /tools/{tool_name}/policy: the row is read, the fields that the   *)
(* request leaves out are filled in, and the whole row is written.         *)

(* A request sets some fields; a capability can be named, not taken away.  *)
Requests ==
  UNION {{r \in [F -> BOOLEAN] : "capability" \in F => r["capability"]}
           : F \in SUBSET Fields \ {{}}}

ReadPolicy(o, t, r) ==
  /\ ostage[o] = "free"
  /\ updates < MaxUpdates
  /\ updates' = updates + 1
  /\ ostage' = [ostage EXCEPT ![o] = "writing"]
  /\ otool' = [otool EXCEPT ![o] = t]
  /\ orequest' = [orequest EXCEPT ![o] = r]
  /\ oread' = [oread EXCEPT ![o] = policy[t]]
  /\ overlapped' = IF \E p \in Operators : ostage[p] = "writing" /\ otool[p] = t
                   THEN overlapped \union {t} ELSE overlapped
  /\ UNCHANGED <<policy, callVars, seen, lastSaid, waived>>

(* The fields of a request, and of a row where the request has none.       *)
Over(request, row) ==
  [f \in DOMAIN request \union DOMAIN row |->
     IF f \in DOMAIN request THEN request[f] ELSE row[f]]

(* What there is no row for yet is not asked of the tool.                  *)
DefaultRow == [f \in Fields |-> f = "enabled"]

(* Mutant: what the request leaves out gets its default.                   *)
ReplacementRow(o) == Over(orequest[o], DefaultRow)

Replacement(o) == Over(orequest[o], IF oread[o] = NoRow THEN DefaultRow ELSE oread[o])

WritePolicy(o) ==
  LET t == otool[o] IN
  /\ ostage[o] = "writing"
  /\ policy' = [policy EXCEPT ![t] = Replacement(o)]
  /\ seen' = [c \in Calls |-> IF ctool[c] = t THEN seen[c] \union {Replacement(o)} ELSE seen[c]]
  /\ lastSaid' = [lastSaid EXCEPT ![t] = Over(orequest[o], @)]
  /\ waived' = [waived EXCEPT ![t] =
       IF Replacement(o)["approval"] \/ ~Enforced(t)["approval"] THEN @
       ELSE @ \union {IF "approval" \in DOMAIN orequest[o] THEN "asked" ELSE "unasked"}]
  /\ ostage' = [ostage EXCEPT ![o] = "free"]
  /\ otool' = [otool EXCEPT ![o] = NoCall]
  /\ orequest' = [orequest EXCEPT ![o] = <<>>]
  /\ oread' = [oread EXCEPT ![o] = NoRow]
  /\ UNCHANGED <<callVars, overlapped, updates>>
----------------------------------------------------------------------------
(* create_action: the policy that the run's record shows.                  *)
PlanAction(c, t) ==
  /\ cstage[c] = "unplanned"
  /\ cstage' = [cstage EXCEPT ![c] = "planned"]
  /\ ctool' = [ctool EXCEPT ![c] = t]
  /\ shown' = [shown EXCEPT ![c] = Shown(t)]
  /\ seen' = [seen EXCEPT ![c] = {Enforced(t)}]
  /\ UNCHANGED <<policy, operatorVars, capable, approved, retriesLeft, triesLeft, effects,
                 lastSaid, waived, overlapped, updates>>

Reply(c, a) == cstage' = [cstage EXCEPT ![c] = a]

(* The first attempt, or the next one.                                     *)
BeginAttempt(c, left) ==
  /\ Reply(c, "calling")
  /\ retriesLeft' = [retriesLeft EXCEPT ![c] = left]
  /\ triesLeft' = [triesLeft EXCEPT ![c] = IF ctool[c] \in Remote THEN MCPTries - 1 ELSE 0]

(* What execute and execute_approved look at before the call.  valid: the  *)
(* arguments pass the tool's schema.                                       *)
Refusal(c, p, valid) ==
  CASE ~p["enabled"] -> "disabled"
    [] p["enabled"] /\ p["capability"] /\ ~capable[c] -> "forbidden"
    [] p["enabled"] /\ (p["capability"] => capable[c]) /\ ~valid -> "invalid_input"
    [] OTHER -> "none"

Execute(c) ==
  LET p == Enforced(ctool[c]) IN
  /\ cstage[c] = "planned"
  /\ \E valid \in BOOLEAN :
       IF Refusal(c, p, valid) # "none"
         THEN Reply(c, Refusal(c, p, valid)) /\ UNCHANGED <<retriesLeft, triesLeft>>
         ELSE IF p["approval"]
                THEN Reply(c, "approval_required") /\ UNCHANGED <<retriesLeft, triesLeft>>
                ELSE BeginAttempt(c, CallRetries)
  /\ UNCHANGED <<policy, operatorVars, ctool, capable, shown, approved, effects, seen, lastSaid,
                 waived, overlapped, updates>>

(* The resumed run executes the approved call as an administrator.         *)
Approve(c) ==
  /\ cstage[c] = "approval_required"
  /\ ~approved[c]
  /\ Reply(c, "resumed")
  /\ approved' = [approved EXCEPT ![c] = TRUE]
  /\ capable' = [capable EXCEPT ![c] = TRUE]
  /\ UNCHANGED <<policy, operatorVars, ctool, shown, retriesLeft, triesLeft, effects, seen,
                 lastSaid, waived, overlapped, updates>>

ExecuteApproved(c) ==
  LET p == Enforced(ctool[c]) IN
  /\ cstage[c] = "resumed"
  /\ \E valid \in BOOLEAN :
       IF Refusal(c, p, valid) # "none"
         THEN Reply(c, Refusal(c, p, valid)) /\ UNCHANGED <<retriesLeft, triesLeft>>
         ELSE BeginAttempt(c, CallRetries)
  /\ UNCHANGED <<policy, operatorVars, ctool, capable, shown, approved, effects, seen, lastSaid,
                 waived, overlapped, updates>>
----------------------------------------------------------------------------
Took(c, n) == effects' = [effects EXCEPT ![c] = @ + n]

Returns(c) ==
  /\ cstage[c] = "calling"
  /\ Took(c, 1)
  /\ Reply(c, "success") \/ Reply(c, "invalid_output")
  /\ UNCHANGED <<retriesLeft, triesLeft>>

(* The call raised, before or after it took effect: the MCP client repeats *)
(* it inside the attempt.                                                  *)
RepeatedByClient(c) ==
  /\ cstage[c] = "calling"
  /\ triesLeft[c] > 0
  /\ triesLeft' = [triesLeft EXCEPT ![c] = @ - 1]
  /\ \E n \in {0, 1} : Took(c, n)
  /\ UNCHANGED <<cstage, retriesLeft>>

(* The attempt raised, or timed out with its client's tries unused.        *)
AttemptFails(c) ==
  /\ cstage[c] = "calling"
  /\ \E n \in {0, 1} : Took(c, n)
  /\ IF retriesLeft[c] > 0
       THEN BeginAttempt(c, retriesLeft[c] - 1)
       ELSE Reply(c, "error") /\ UNCHANGED <<retriesLeft, triesLeft>>

(* Mutant: a last attempt that failed with a warning only is a success.    *)
InvokeLenient(c) ==
  /\ \/ Returns(c) \/ RepeatedByClient(c) \/ AttemptFails(c)
     \/ /\ cstage[c] = "calling" /\ retriesLeft[c] = 0
        /\ Reply(c, "success")
        /\ UNCHANGED <<retriesLeft, triesLeft, effects>>
  /\ UNCHANGED <<policy, operatorVars, ctool, capable, shown, approved, seen, lastSaid, waived,
                 overlapped, updates>>

Invoke(c) ==
  /\ Returns(c) \/ RepeatedByClient(c) \/ AttemptFails(c)
  /\ UNCHANGED <<policy, operatorVars, ctool, capable, shown, approved, seen, lastSaid, waived,
                 overlapped, updates>>

GovernanceNext ==
  \/ \E o \in Operators : \/ \E t \in GovTools, r \in Requests : ReadPolicy(o, t, r)
                          \/ WritePolicy(o)
  \/ \E c \in Calls : \/ \E t \in GovTools : PlanAction(c, t)
                      \/ Execute(c) \/ Approve(c) \/ ExecuteApproved(c) \/ Invoke(c)

GovernanceSpec == GovernanceInit /\ [][GovernanceNext]_governanceVars
----------------------------------------------------------------------------
(* Every variable keeps its type.                                          *)
GovernanceTypeOK ==
  /\ policy \in [GovTools -> Policies \union {NoRow}]
  /\ ostage \in [Operators -> {"free", "writing"}]
  /\ \A o \in Operators : (ostage[o] = "writing") <=> (otool[o] \in GovTools)
  /\ cstage \in [Calls -> {"unplanned", "planned", "resumed", "calling"} \union Answers]
  /\ \A c \in Calls : (cstage[c] = "unplanned") <=> (ctool[c] = NoCall)
  /\ retriesLeft \in [Calls -> 0 .. CallRetries]
  /\ triesLeft \in [Calls -> 0 .. MCPTries]

(* What a call may do and what it answers: it took effect only if the tool *)
(* had, at some moment since it was planned, a policy that allows it,      *)
(* whatever updates came between; one of a tool that changes something     *)
(* ("side-effect levels that force approval_required = True at every       *)
(* governance layer") without an approval only after an update waived it,  *)
(* which one that says nothing of approvals does too; a refused call took  *)
(* none, a successful one at least one, and a call that failed and was     *)
(* repeated no more than its attempts and the client's tries.              *)
EffectsAreAllowed ==
  \A c \in Calls :
    /\ effects[c] > 0 =>
         /\ \E p \in seen[c] : p["enabled"] /\ (p["capability"] => capable[c])
         /\ approved[c] \/ \E p \in seen[c] : ~p["approval"]
         /\ ctool[c] \in Changing => approved[c] \/ waived[ctool[c]] # {}
    /\ cstage[c] \in {"success", "invalid_output"} => effects[c] > 0
    /\ cstage[c] \in {"disabled", "forbidden", "invalid_input", "approval_required"}
         => effects[c] = 0
    /\ effects[c] <= (CallRetries + 1) * (IF ctool[c] \in Remote THEN MCPTries ELSE 1)

(* The gate shows what the executor enforces: a call that went through     *)
(* without an approval that its record shows as required, or past a        *)
(* capability that it shows, had its tool's policy changed in between, or  *)
(* a row without a capability (the executor then asks for none).           *)
ShownIsEnforced ==
  \A c \in Calls :
    effects[c] > 0 /\ Cardinality(seen[c]) = 1 =>
      /\ shown[c]["enabled"]
      /\ shown[c]["approval"] => approved[c]
      /\ shown[c]["capability"] => capable[c] \/ \E p \in seen[c] : ~p["capability"]

(* What an operator last said of a field holds, although every update      *)
(* writes the whole row, unless two updates of the tool overlapped.        *)
LastWordHolds ==
  \A t \in GovTools \ overlapped :
    \A f \in DOMAIN lastSaid[t] : policy[t][f] = lastSaid[t][f]

(* The layers of a tool's policy agree: what is shown is what is enforced, *)
(* and what is stored is what the operators last said.                     *)
PoliciesAgree == ShownIsEnforced /\ LastWordHolds
=============================================================================
