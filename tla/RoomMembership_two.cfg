SPECIFICATION Spec
CONSTANTS
  Sid = {s1, s2}
  Room = {r1, r2}
  Goroutine = {g1, g2}
  RoomSet = {1, 2, 3, 4}
  SidSet = {1, 2, 3, 4}
  None = None
SYMMETRY Symmetry
VIEW View
INVARIANTS
  NoEmptyRoomLeft
  NoGhostMember
  CleanedUpIsNowhere
  ListedIsMember
PROPERTIES
  ImplementsRelation
CONSTRAINT FewOverlaps
