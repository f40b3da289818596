------------------------------ MODULE RunContext ------------------------------
(***************************************************************************)
(* What a run may be given to start from: the memory of its workspace and  *)
(* what the pipeline retrieves.  The two share no state, so that any of    *)
(* their steps may fall together.                                          *)
(***************************************************************************)
EXTENDS Workspaces, Retrieval

ContextSpec == WorkspacesSpec /\ RetrievalSpec

(* Memories of its own workspace only, and from the pipeline what was      *)
(* indexed lately and passed the gate.                                     *)
RecallHolds == RecallStaysLocal /\ RetrievalHolds
=============================================================================
