------------------------- MODULE MCOverloadMetrics -------------------------
(* Small instances of OverloadMetrics for TLC. *)
EXTENDS OverloadMetrics, TLC

CONSTANTS o1, o2, r1

High == [max |-> 2, minutes |-> 0]
OneConfig == {High}
AllOps    == {"admit", "configure", "drop", "delist"}

=============================================================================
