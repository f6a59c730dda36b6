---------------------------- MODULE MCSortIndex ----------------------------
(* SortIndex on a tree of two levels of one bit each, for TLC. *)
EXTENDS SortIndexProperties, TLC

TwoLevels == <<1, 1>>

ThreadSymmetry == Permutations(Threads)
=============================================================================
