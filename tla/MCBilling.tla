----------------------------- MODULE MCBilling -----------------------------
(* Small instances of Billing for TLC. *)
EXTENDS Billing, TLC

CONSTANTS p1, p2, hostA, hostB

OneHost == [p \in Procs |-> hostA]
TwoHosts == (p1 :> hostA) @@ (p2 :> hostB)
=============================================================================
