\* Two sales of one seller, two processes, weeks of two days.
SPECIFICATION FairSpec
CONSTANTS
  o1 = o1
  o2 = o2
  s1 = s1
  i1 = i1
  i2 = i2
  None = None
  OrderId = {o1, o2}
  Seller = {s1}
  SellerOf <- OneSeller
  DealValue <- Values
  Instance = {i1, i2}
  WeekLength = 2
  Rates = {1, 2}
  Weekdays = {1}
  Defaults <- OnePercentOddDays
  StartDay = 0
  GraceDays = 0
  RemindDays = 1
  Horizon = 2
  MaxFaults = 1
  MaxChanges = 1
INVARIANTS
  InvoiceMatchesCharges
  PagesAddUp
PROPERTIES
  LedgerKeepsPromise
  CompletedAreCharged
  UnpaidAreReminded
