----------------------------- MODULE MCAccounts -----------------------------
(* Small instances of Accounts for TLC. *)
EXTENDS Accounts, TLC

CONSTANTS p1, p2

Symmetry == Permutations(Procs)
=============================================================================
