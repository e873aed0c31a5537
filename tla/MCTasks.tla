------------------------------ MODULE MCTasks ------------------------------
(* Small instances of Tasks for TLC. *)
EXTENDS Tasks, TLC

CONSTANTS p1, p2, t1, t2, a, b

Symmetry == Permutations(Procs) \cup Permutations(Ids) \cup Permutations(Titles)
=============================================================================
