------------------------- MODULE MCApprovalWorkflow -------------------------
(* Small instances of ApprovalWorkflow for TLC.                            *)
EXTENDS ApprovalWorkflow, TLC

Symmetry == Permutations(Tools) \union Permutations(Requests)
=============================================================================
