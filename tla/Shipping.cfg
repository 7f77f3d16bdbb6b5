\* Two carriers, one post and the order it becomes, two calls at a time.
SPECIFICATION Spec
CONSTANTS
  c1 = c1
  c2 = c2
  k1 = k1
  k2 = k2
  north = north
  low = low
  high = high
  None = None
  Carrier = {c1, c2}
  Post = {p1}
  OrderId = {o1}
  Region = {north}
  Origin <- OneRegion
  Coverage <- EveryRegion
  Price = {low, high}
  Ask <- AskLowHigh
  Stages = {"order", "both"}
  Call = {k1, k2}
  MaxFaults = 1
SYMMETRY Symmetry
INVARIANTS
  CarrierBacked
  AnswersTruthful
  FeedAgreesWithEndpoint
  AcceptedIsAttached
  RejectedAreTold
