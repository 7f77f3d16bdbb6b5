\* One story, two publish calls, two members of different interests.
SPECIFICATION FairSpec
CONSTANTS
  n1 = n1
  u1 = u1
  u2 = u2
  i1 = i1
  c1 = c1
  c2 = c2
  None = None
  Story = {n1}
  Member = {u1, u2}
  Interest = {i1}
  InterestsOf <- OneInterested
  Call = {c1, c2}
  PushConcurrency = 2
  Reader = {}
  Horizon = 0
  MaxFaults = 1
  MaxChanges = 1
INVARIANTS
  OnePushPerMember
  DeliveriesAreExact
PROPERTIES
  RecipientsAreServed
CHECK_DEADLOCK FALSE
