SPECIFICATION Spec
CONSTANTS
  Client = {c1, c2, c3}
  User = {u}
  Closer = {k}
  Name = {n}
  MaxNsp = 7
  None = None
SYMMETRY Symmetry
INVARIANTS
  ParentReachesAll
  TrackedIsListed
  EmptiedIsForgotten
CHECK_DEADLOCK FALSE
