\* A carrier is suspended for a day while its application waits.
SPECIFICATION VettingSpec
CONSTANTS
  None = None
  User = {u1}
  Admin = {a1}
  Saver = {}
  Interest = {n1}
  Region = {r1}
  DocType = {d1, d2}
  MinInterests = 1
  Horizon = 2
  MaxFaults = 0
INVARIANT CarriersAreVetted
CHECK_DEADLOCK FALSE
