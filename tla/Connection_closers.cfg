SPECIFICATION FairSpec
CONSTANTS
  s1 = s1
  s2 = s2
  n1 = n1
  Socket = {s1}
  Nsp = {n1}
  NspOf <- OneNsp
  Restored = {s1}
  Worker = {w1, w2}
  Closers = {"client", "server"}
  None = None
INVARIANTS
  ConnectedIsTracked
  TrackedIsConnected
PROPERTIES
  StoredIsDisconnected
  IdleClientIsClosed
CHECK_DEADLOCK FALSE
