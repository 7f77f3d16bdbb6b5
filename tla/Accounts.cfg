\* One account, one administrator, one request replacing interests.
SPECIFICATION FairSpec
CONSTANTS
  u1 = u1
  a1 = a1
  a2 = a2
  s1 = s1
  s2 = s2
  n1 = n1
  n2 = n2
  r1 = r1
  r2 = r2
  d1 = d1
  d2 = d2
  None = None
  User = {u1}
  Admin = {a1}
  Saver = {s1}
  Interest = {n1}
  Region = {r1}
  DocType = {d1, d2}
  MinInterests = 1
  Horizon = 2
  MaxFaults = 1
INVARIANTS
  ReviewQueueIsComplete
  CarriersAreSetUp
PROPERTIES
  SanctionsHold
  LapsedSuspensionsEnd
  OnboardingEnds
