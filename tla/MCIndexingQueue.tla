-------------------------- MODULE MCIndexingQueue --------------------------
(* Small instances of IndexingQueue for TLC.                               *)
EXTENDS IndexingQueue, TLC

Symmetry == Permutations(Workers) \union Permutations(Requests) \union Permutations(Files)
=============================================================================
