\* One moderated post, two requests at a time, the cron, the clock, one fault.
SPECIFICATION Spec
CONSTANTS
  b1 = b1
  b2 = b2
  r1 = r1
  r2 = r2
  o1 = o1
  o2 = o2
  None = None
  Auction = {a1}
  OrderId = {o1, o2}
  Request = {r1, r2}
  Seller = {u1}
  Bidder = {b1}
  AuctionDuration = 1
  SelectionWindow = 1
  ConfirmWindow = 1
  MaxBidsPerAuction = 2
  MaxCancellations = 1
  PostApproval = TRUE
  Horizon = 3
  MaxFaults = 1
SYMMETRY Symmetry
INVARIANTS
  IInv
  BidCountNeverAhead
PROPERTIES
  SuspensionHolds
  WinnerClearedByCancellation
  OrdersKeepPromise
