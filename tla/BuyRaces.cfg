\* One request, whole or in parts; two orders; two calls at a time, the cron,
\* the clock.
SPECIFICATION Spec
CONSTANTS
  s1 = s1
  s2 = s2
  c1 = c1
  c2 = c2
  o1 = o1
  o2 = o2
  None = None
  BuyRequest = {b1}
  OrderId = {o1, o2}
  Call = {c1, c2}
  Buyer = {u1}
  Supplier = {s1}
  Quantity = {1, 2}
  Asked = {2}
  BuyAllFromOne = {TRUE, FALSE}
  AuctionDuration = 0
  SelectionWindow = 1
  ConfirmWindow = 1
  MaxOffers = 2
  MaxCancellations = 1
  PostApproval = TRUE
  Horizon = 2
  MaxFaults = 0
SYMMETRY Symmetry
INVARIANTS
  IInv
PROPERTIES
  CountersClearedByCancellation
  OrdersKeepPromise
