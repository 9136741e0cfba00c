SPECIFICATION Spec
CONSTANTS
  own = own
  r1 = r1
  Conn = {1, 2, 3}
  Room = {own, r1}
  OwnRoom = own
  Opts <- ButRoom
  Duration = 0
  MaxPackets = 2
  MaxBusy = 2
  MaxTime = 1
  None = None
CHECK_DEADLOCK FALSE
INVARIANTS  RecoveredMissesNothing
PROPERTIES FreshIsJustified
