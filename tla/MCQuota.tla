-------------------------------- MODULE MCQuota --------------------------------
(* Instances of Quota for TLC.                                             *)
EXTENDS Quota, TLC

CONSTANTS m1, m2, m3, p1, p2, q1, basic, pro, c1, c2, a1

\* One tier with an allowance of one a month, one without.
Limits == (basic :> 1) @@ (pro :> None)

\* A month of one day, day 0, and a longer one that starts on day 1: what was
\* emptied on day 0 is a month old on days 1 and 2, and on day 2, as if it were
\* the 31st, AddDate finds a month passed since day 1.
First  == [d \in 0 .. Horizon |-> IF d = 0 THEN 0 ELSE 1]
Before == [d \in 0 .. Horizon |-> IF d = 0 THEN -1 ELSE 0]

\* m1 meets every post, the others one of them.
Visits == ({m1} \X Post) \cup ({m2, m3} \X {p1})

Only(m, t) == [n \in Member |-> IF n = m THEN t ELSE None]

\* Members without a limit before open posts; a limited member whose
\* subscription may be edited; the same with a post to bid on.
Situations ==
  { [open |-> Post, tier |-> [m \in Member |-> pro], today |-> Horizon, granted |-> MaxGrants],
    [open |-> {}, tier |-> Only(m1, basic), today |-> 0, granted |-> 0],
    [open |-> {p1}, tier |-> Only(m1, basic), today |-> 0, granted |-> MaxGrants] }

Symmetry == Permutations(Call) \cup Permutations({m2, m3})
=============================================================================
