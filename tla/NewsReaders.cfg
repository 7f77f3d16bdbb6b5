\* One story, one member who comes back to it and whose subscription changes.
SPECIFICATION Spec
CONSTANTS
  n1 = n1
  u1 = u1
  u2 = u2
  i1 = i1
  c1 = c1
  c2 = c2
  None = None
  Story = {n1}
  Member = {u1}
  Interest = {i1}
  InterestsOf <- OneInterested
  Call = {c1}
  PushConcurrency = 1
  Reader = {u1}
  Horizon = 2
  MaxFaults = 1
  MaxChanges = 2
INVARIANTS
  ViewersAddUp
PROPERTIES
  NeverNewAgain
CHECK_DEADLOCK FALSE
