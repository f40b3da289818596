---------------------------- MODULE RunLifecycle ----------------------------
(***************************************************************************)
(* What the runtime promises about the row and the log of an agent run,    *)
(* however the run is configured: the row leaves "running" once and is     *)
(* then told in the log by the event that belongs to its status; only a    *)
(* failure between the two turns the status, into "failed"; and the        *)
(* runtime lets go of a run only when log and row agree, unless its        *)
(* process died or the failure handling itself failed.  Decisions, tools,  *)
(* evidence and interventions are hidden.  AgentRun is shown to implement  *)
(* this specification.                                                     *)
(***************************************************************************)

VARIABLES status,    \* the row's status
          outcome,   \* the event that tells the log how the run ended, or "none"
          open,      \* the runtime still drives the run
          broken     \* its process died, or recording a failure failed

runLifecycleVars == <<status, outcome, open, broken>>

Settled == {"waiting_approval", "handoff_required", "completed", "failed", "cancelled"}

(* The events that may tell the end of a run with status s.                *)
OutcomesOf(s) ==
  CASE s = "completed"        -> {"final_report"}
    [] s = "handoff_required" -> {"handoff"}
    [] s = "waiting_approval" -> {"approval_required"}
    [] s = "failed"           -> {"timeout", "error"}
    [] s = "cancelled"        -> {"cancelled"}
    [] OTHER                  -> {"none"}

Told == outcome \in OutcomesOf(status)
----------------------------------------------------------------------------
Init ==
  /\ status = "running"
  /\ outcome = "none"
  /\ open = TRUE
  /\ broken = FALSE

Settle(s) ==
  /\ open
  /\ status = "running"
  /\ status' = s
  /\ UNCHANGED <<outcome, open, broken>>

(* A failure before the end is told.                                       *)
Fail ==
  /\ open
  /\ outcome = "none"
  /\ status' = "failed"
  /\ UNCHANGED <<outcome, open, broken>>

Tell ==
  /\ open
  /\ status \in Settled
  /\ outcome = "none"
  /\ outcome' \in OutcomesOf(status)
  /\ UNCHANGED <<status, open, broken>>

(* The runtime returns, or the client of the stream has gone.              *)
LetGo ==
  /\ open
  /\ Told
  /\ open' = FALSE
  /\ UNCHANGED <<status, outcome, broken>>

Break ==
  /\ open
  /\ open' = FALSE
  /\ broken' = TRUE
  /\ UNCHANGED <<status, outcome>>

Next ==
  \/ \E s \in Settled : Settle(s)
  \/ Fail \/ Tell \/ LetGo \/ Break

Spec == Init /\ [][Next]_runLifecycleVars
=============================================================================
