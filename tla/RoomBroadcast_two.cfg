SPECIFICATION Spec
CONSTANTS
  SocketId = {s1, s2}
  Room = {r1, r2}
  All = All
  None = None
SYMMETRY Symmetry
INVARIANTS NotifiedOnce StableMembersNotified ExceptRespected
CHECK_DEADLOCK FALSE
