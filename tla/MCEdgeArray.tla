---------------------------- MODULE MCEdgeArray ----------------------------
(* EdgeArray with the symmetry of its threads, for TLC. *)
EXTENDS EdgeArrayProperties, TLC

ThreadSymmetry == Permutations(Writers) \cup Permutations(Readers)
=============================================================================
