SPECIFICATION Spec
CONSTANTS
  s1 = s1
  s2 = s2
  n1 = n1
  Socket = {s1, s2}
  Nsp = {n1}
  NspOf <- OneNsp
  Restored = {s2}
  Worker = {w1, w2}
  Closers = {"client"}
  None = None
SYMMETRY Symmetry
INVARIANTS
  DeadIsInNoRoom
  RouteIsLive
CHECK_DEADLOCK FALSE
