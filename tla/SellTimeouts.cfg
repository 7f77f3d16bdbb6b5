\* The cron and the clock are fair; the process may die once.
SPECIFICATION FairSpec
CONSTANTS
  b1 = b1
  b2 = b2
  r1 = r1
  r2 = r2
  o1 = o1
  o2 = o2
  None = None
  Auction = {a1}
  OrderId = {o1}
  Request = {r1}
  Seller = {u1}
  Bidder = {b1, b2}
  AuctionDuration = 1
  SelectionWindow = 1
  ConfirmWindow = 1
  MaxBidsPerAuction = 2
  MaxCancellations = 1
  PostApproval = TRUE
  Horizon = 3
  MaxFaults = 1
PROPERTIES
  EndedAuctionsLeaveMarket
  LapsedSelectionsClose
  OrdersEventuallySettle
