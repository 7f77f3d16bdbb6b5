\* One request met in parts, one call at a time, one fault; the cron and the
\* clock are fair.
SPECIFICATION FairSpec
CONSTANTS
  s1 = s1
  s2 = s2
  c1 = c1
  c2 = c2
  o1 = o1
  o2 = o2
  None = None
  BuyRequest = {b1}
  OrderId = {o1}
  Call = {c1}
  Buyer = {u1}
  Supplier = {s1}
  Quantity = {1, 2}
  Asked = {2}
  BuyAllFromOne = {FALSE}
  AuctionDuration = 1
  SelectionWindow = 1
  ConfirmWindow = 1
  MaxOffers = 2
  MaxCancellations = 1
  PostApproval = FALSE
  Horizon = 3
  MaxFaults = 1
INVARIANTS
  IInv
PROPERTIES
  EndedRequestsLeaveMarket
  OrdersEventuallySettle
