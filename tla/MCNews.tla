-------------------------------- MODULE MCNews --------------------------------
(* Instances of News for TLC.                                              *)
EXTENDS News

CONSTANTS n1, u1, u2, i1, c1, c2

OneInterested == [u \in Member |-> IF u = u1 THEN {i1} ELSE {}]
=============================================================================
