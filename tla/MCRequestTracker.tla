--------------------------- MODULE MCRequestTracker ---------------------------
(* Small instances of RequestTracker for TLC. *)
EXTENDS RequestTracker, TLC

CONSTANTS c1, c2, c3, c4, k1, k2

Symmetry == Permutations(Requests) \cup Permutations(Keys)

=============================================================================
