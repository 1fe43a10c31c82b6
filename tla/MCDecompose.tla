----------------------------- MODULE MCDecompose ------------------------------
(***************************************************************************)
(* Decompose for four inputs, seven splits, of which the set keeps four.   *)
(***************************************************************************)
EXTENDS Decompose

\* The order and the ties in the set: all estimates out of three.
BfsProblems ==
  [mode : {"BFS_SEARCH"}, errorOf : [Splits -> 0..2], resultOf : {[k \in Splits |-> 8 - k]}]

\* The bound: a split may look better or worse than it becomes.
SeriesProblems ==
  [mode : Modes \ {"BFS_SEARCH"},
   errorOf : [Splits -> {0, 1}], resultOf : {f \in [Splits -> {0, 1}] : f[1] = 1 /\ f[7] = 1}]

MCProblems == BfsProblems \cup SeriesProblems
=============================================================================
