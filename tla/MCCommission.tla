----------------------------- MODULE MCCommission -----------------------------
(* Instances of Commission for TLC.                                        *)
EXTENDS Commission, TLC

CONSTANTS o1, o2, s1, i1, i2

OneSeller == [o \in OrderId |-> s1]
Values    == [o \in OrderId |-> IF o = o1 THEN 100 ELSE 250]

OnePercentOddDays == [rate |-> 1, close |-> 1]

Symmetry == Permutations(Instance)
=============================================================================
