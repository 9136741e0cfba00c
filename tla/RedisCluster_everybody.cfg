SPECIFICATION Spec
CONSTANTS
  s1 = s1
  s2 = s2
  k1 = k1
  k2 = k2
  r1 = r1
  Server = {s1, s2}
  Socket = {k1, k2}
  Room = {r1, r2}
  r2 = r2
  Home <- HomeOf
  CastOpts <- EmitToAll
  CallOpts <- SomeCallOpts
  Calls <- SomeCalls
  MaxCalls = 1
  MaxMoves = 1
  None = None
INVARIANT
  ReachesEverybody
CHECK_DEADLOCK FALSE
