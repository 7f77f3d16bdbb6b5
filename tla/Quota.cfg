\* Two requests at a time: of three members, on two sell posts and one buy
\* request; and under one subscription, granted or edited meanwhile.
SPECIFICATION Spec
CONSTANTS
  m1 = m1
  m2 = m2
  m3 = m3
  p1 = p1
  p2 = p2
  q1 = q1
  basic = basic
  pro = pro
  c1 = c1
  c2 = c2
  a1 = a1
  None = None
  Member = {m1, m2, m3}
  SellPost = {p1, p2}
  BuyPost = {q1}
  Visit <- Visits
  Tier = {basic, pro}
  Trading = {basic, pro}
  Limit <- Limits
  Call = {c1, c2}
  Admin = {a1}
  MaxActive = 1
  MaxBidders = 1
  FirstOfMonth <- First
  FirstBefore <- Before
  Horizon = 2
  MaxUses = 3
  MaxGrants = 1
  MaxRestores = 1
  MaxFaults = 1
  Start <- Situations
SYMMETRY Symmetry
INVARIANTS
  SlotsHold
  BiddersHold
  AllowanceHolds
