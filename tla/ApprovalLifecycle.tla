-------------------------- MODULE ApprovalLifecycle --------------------------
(***************************************************************************)
(* What the approval subsystem promises about the tools of a run, however  *)
(* many requests decide, expire and resume at the same time and whatever   *)
(* fails: a tool gets a second verdict only if parties that had both found *)
(* none overlap, a verdict that it expired only if the run called it; an   *)
(* approval is worth one execution, and so is each repetition; one         *)
(* execution calls the tool a limited number of times; what is executed or *)
(* answered was called, approved and can be resumed; and once the runtime  *)
(* has let go of the run, its row changes only by a hand-off that was      *)
(* reported of a refused tool.  The requests, the workers, the resume      *)
(* queue and the order of the log are hidden.  ApprovalWorkflow is shown   *)
(* to implement this specification.                                        *)
(***************************************************************************)
EXTENDS Naturals, Sequences

CONSTANTS Tools,     \* the tools the run may call
          MaxCalls   \* how often one execution may call its tool

VARIABLES open,      \* the runtime still drives the run
          handedOff, \* the run's row says handoff_required
          resumable, \* the run left a checkpoint to resume from
          called,    \* the tools the run called
          verdicts,  \* verdicts[t]: what was decided of t
          contested, \* the tools whose decisions overlapped
          refused,   \* the tools whose hand-off is reported
          chances,   \* chances[t]: how often t may be executed in all
          executed,  \* executed[t]: the calls of each execution of t, once approved
          answered   \* the tools with a result of a resumed execution

approvalVars == <<open, handedOff, resumable, called, verdicts, contested, refused, chances,
                  executed, answered>>

Verdicts == {"approved", "rejected", "expired"}

MayExecute(t) == t \in called /\ resumable /\ "approved" \in verdicts[t]
----------------------------------------------------------------------------
Init ==
  /\ open = TRUE
  /\ handedOff = FALSE
  /\ resumable \in BOOLEAN
  /\ called = {}
  /\ verdicts = [t \in Tools |-> {}]
  /\ contested = {}
  /\ refused = {}
  /\ chances = [t \in Tools |-> 0]
  /\ executed = [t \in Tools |-> <<>>]
  /\ answered = {}

(* The runtime writes the row's status as it goes, whatever it says.       *)
Drive ==
  /\ open
  /\ open' \in BOOLEAN
  /\ handedOff' \in BOOLEAN
  /\ UNCHANGED <<resumable, called, contested, refused,
                 executed, answered, verdicts, chances>>

Call(t) ==
  /\ open
  /\ t \notin called
  /\ called' = called \union {t}
  /\ UNCHANGED <<open, handedOff, resumable, contested, refused,
                 executed, answered, verdicts, chances>>

Decide(t, d) ==
  /\ d = "expired" => t \in called
  /\ verdicts' = [verdicts EXCEPT ![t] = @ \union {d}]
  /\ \/ verdicts[t] = {} /\ UNCHANGED contested
     \/ contested' = contested \union {t}
  /\ chances' = IF d = "approved" THEN [chances EXCEPT ![t] = @ + 1] ELSE chances
  /\ UNCHANGED <<open, handedOff, resumable, called, refused, executed, answered>>

(* An approval is resumed again: by hand, or by a message sent twice.      *)
Repeat(t) ==
  /\ chances' = [chances EXCEPT ![t] = @ + 1]
  /\ UNCHANGED <<open, handedOff, resumable, called, contested, refused,
                 executed, answered, verdicts>>

Report(t) ==
  /\ verdicts[t] \intersect {"rejected", "expired"} # {}
  /\ refused' = refused \union {t}
  /\ UNCHANGED <<open, handedOff, resumable, called, contested,
                 executed, answered, verdicts, chances>>

HandOff ==
  /\ refused # {}
  /\ handedOff' = TRUE
  /\ UNCHANGED <<open, resumable, called, contested, refused,
                 executed, answered, verdicts, chances>>

Execute(t) ==
  /\ MayExecute(t)
  /\ Len(executed[t]) < chances[t]
  /\ executed' = [executed EXCEPT ![t] = Append(@, 1)]
  /\ UNCHANGED <<open, handedOff, resumable, called, contested,
                 refused, answered, verdicts, chances>>

OneMore(calls, k) == [calls EXCEPT ![k] = @ + 1]

(* An execution that has begun calls the tool again.                       *)
Retry(t) ==
  /\ \E k \in 1 .. Len(executed[t]) :
       /\ executed[t][k] < MaxCalls
       /\ executed' = [executed EXCEPT ![t] = OneMore(@, k)]
  /\ UNCHANGED <<open, handedOff, resumable, called, contested,
                 refused, answered, verdicts, chances>>

(* The result of an execution, or why the tool could not be executed.      *)
Answer(t) ==
  /\ MayExecute(t)
  /\ answered' = answered \union {t}
  /\ UNCHANGED <<open, handedOff, resumable, called, contested, refused,
                 executed, verdicts, chances>>

Next ==
  \/ Drive \/ HandOff
  \/ \E t \in Tools :
       \/ Call(t) \/ Repeat(t) \/ Report(t) \/ Execute(t) \/ Retry(t) \/ Answer(t)
       \/ \E d \in Verdicts : Decide(t, d)

Spec == Init /\ [][Next]_approvalVars
=============================================================================
