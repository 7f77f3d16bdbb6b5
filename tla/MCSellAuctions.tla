--------------------------- MODULE MCSellAuctions ---------------------------
(* Instances of SellAuctions for TLC.                                      *)
EXTENDS SellAuctions, TLC

CONSTANTS b1, b2, r1, r2, o1, o2

Symmetry == Permutations({b1, b2}) \cup Permutations({r1, r2}) \cup Permutations({o1, o2})
=============================================================================
