SPECIFICATION Spec
CONSTANTS
  s1 = s1
  s2 = s2
  k1 = k1
  k2 = k2
  r1 = r1
  Server = {s1, s2}
  Socket = {k1, k2}
  Room = {r1, r2}
  r2 = r2
  Home <- HomeOf
  CastOpts <- SomeCastOpts
  CallOpts <- SomeCallOpts
  Calls <- SomeCalls
  MaxCalls = 2
  MaxMoves = 1
  None = None
INVARIANTS
  TypeOK
  SteadyReachedOnce
  RemoteInOrder
PROPERTIES
  DecidedWhenPublished
CHECK_DEADLOCK FALSE
