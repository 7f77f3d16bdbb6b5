--------------------------- MODULE CommissionLedger ---------------------------
(***************************************************************************)
(* What the commission feature promises a seller about one completed sale: *)
(* it is charged once, it is billed once, and what was settled stays       *)
(* settled.  Commission is shown to implement it.                          *)
(***************************************************************************)
CONSTANT OrderId

VARIABLE account   \* where the commission of each sale stands

Standing == {"open", "charged", "billed", "paid", "waived"}

Init == account = [o \in OrderId |-> "open"]

\* Sales move together: one invoice bills, or settles, several of them.
Move(sales, from, to) ==
  /\ sales # {}
  /\ \A o \in sales : account[o] = from
  /\ account' = [o \in OrderId |-> IF o \in sales THEN to ELSE account[o]]

Next == \E sales \in SUBSET OrderId :
  \/ Move(sales, "open", "charged")
  \/ Move(sales, "charged", "billed")
  \/ Move(sales, "billed", "paid")
  \/ Move(sales, "billed", "waived")

Spec == Init /\ [][Next]_account
=============================================================================
