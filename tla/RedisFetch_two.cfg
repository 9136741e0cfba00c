SPECIFICATION Spec
CONSTANTS
  o1 = o1
  o2 = o2
  k1 = k1
  k2 = k2
  Other = {o1, o2}
  Socket = {k1, k2}
  Found <- FoundAt
  Call = {1, 2}
  Id = {1, 2}
  MaxChanges = 1
  None = None
INVARIANTS
  CompleteWhenClosed
  NoSendOnClosed
  IdsAreNotShared
PROPERTIES
  FetchReturns
  SubscriberServes
CHECK_DEADLOCK FALSE
