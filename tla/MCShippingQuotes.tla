--------------------------- MODULE MCShippingQuotes ---------------------------
(* Instances of ShippingQuotes for TLC.                                    *)
EXTENDS ShippingQuotes, TLC

CONSTANTS c1, c2, k1, k2, north, low, high

OneRegion   == [p \in Post |-> north]
EveryRegion == [c \in Carrier |-> Region]
AskLowHigh  == c1 :> low @@ c2 :> high

\* The carriers can be swapped together with the prices they ask.
SwapCarriers == c1 :> c2 @@ c2 :> c1 @@ low :> high @@ high :> low

Symmetry == {SwapCarriers} \cup Permutations({k1, k2})
=============================================================================
