-------------------------- MODULE MCBillingCollector --------------------------
(* Small instances of BillingCollector for TLC. *)
EXTENDS BillingCollector, TLC

CONSTANTS r1, r2, r3

Symmetry == Permutations(Requests)

=============================================================================
