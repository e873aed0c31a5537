---------------------------- MODULE MCUsageMeter ----------------------------
(* Small instances of UsageMeter for TLC. *)
EXTENDS UsageMeter, TLC

CONSTANTS r1, r2, r3

\* Two days to a month.
TwoDayMonths == [d \in 0..LastDay |-> d \div 2]

Symmetry == Permutations(Requests)
=============================================================================
