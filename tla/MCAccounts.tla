------------------------------ MODULE MCAccounts ------------------------------
(* Instances of Accounts for TLC.                                          *)
EXTENDS Accounts, TLC

CONSTANTS u1, a1, a2, s1, s2, n1, n2, r1, r2, d1, d2

Symmetry == Permutations(Admin) \cup Permutations(Saver) \cup Permutations(Region)
=============================================================================
