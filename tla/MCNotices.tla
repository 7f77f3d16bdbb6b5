------------------------------- MODULE MCNotices -------------------------------
(* Instances of Notices for TLC.                                           *)
EXTENDS Notices, TLC

CONSTANTS demoer, whole, shop, other, s1, s2, b1, d1, d2, e1, giza, aswan, food, cloth

\* whole does not sell to retail; shop is a retailer; the demo account is a
\* wholesaler's.
Owners    == (s1 :> whole) @@ (s2 :> other) @@ (b1 :> whole) @@ (d1 :> demoer) @@ (d2 :> demoer) @@ (e1 :> demoer)
Regions   == [p \in Post |-> IF p = s2 THEN aswan ELSE giza]
Interests == [p \in Post |-> IF p = s2 THEN cloth ELSE food]
Profiles  ==
  (demoer :> [role |-> "wholesaler", region |-> giza, interests |-> {food}, supplies |-> TRUE]) @@
  (whole :> [role |-> "wholesaler", region |-> giza, interests |-> {food}, supplies |-> FALSE]) @@
  (shop :> [role |-> "retailer", region |-> giza, interests |-> {food}, supplies |-> FALSE]) @@
  (other :> [role |-> "importer", region |-> giza, interests |-> {food}, supplies |-> TRUE])

Tastes == {{food}, {cloth}}

Searches == {{s1, s2, b1, e1}}

Only(posts, s) == [p \in Post |-> IF p \in posts THEN s ELSE "expired"]

Situation(at, t, hushed, faulty) ==
  [post |-> at, now |-> t, banned |-> hushed, faults |-> IF faulty THEN 0 ELSE MaxFaults]

\* A new post of each kind; demo posts; an owner who has yet to choose; posts
\* about to end; a market with something in every list.
Situations ==
  { Situation(Only({s1}, "none"), MaxTime, {other}, TRUE),
    Situation(Only({b1}, "none"), MaxTime, {demoer}, TRUE),
    Situation(Only({d1, e1, d2}, "none"), 1, {shop, other, demoer}, FALSE),
    Situation(Only({d1}, "none"), MaxTime, {demoer}, TRUE),
    Situation(Only({b1}, "pending_selection"), 1, {demoer}, TRUE),
    Situation(Only({s1, e1}, "active"), MaxTime - 2, {other, demoer}, TRUE),
    Situation([Only({s1, d1, e1}, "active") EXCEPT ![s2] = "suspended", ![b1] = "pending_approval"],
              MaxTime, {other, demoer}, FALSE) }
=============================================================================
