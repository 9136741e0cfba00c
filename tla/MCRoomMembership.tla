-------------------------- MODULE MCRoomMembership --------------------------
(* Small instances of RoomMembership for TLC. *)
EXTENDS RoomMembership, TLC

(* Enough addresses: a map entry for each key, a local for each goroutine. *)
ASSUME EnoughAddresses ==
  /\ Cardinality(RoomSet) >= Cardinality(Sid) + Cardinality(Goroutine)
  /\ Cardinality(SidSet) >= Cardinality(Room) + Cardinality(Goroutine)

Symmetry == Permutations(Sid) \cup Permutations(Room)
              \cup Permutations(Goroutine)

(* A bound: one socket or one room whose calls overlapped is enough to see   *)
(* what the others, and the rest of the maps, make of it.                   *)
FewOverlaps == Cardinality(crossed \cup contended) <= 1
(* What the goroutines can still reach: a free object's contents are never *)
(* read again, for LoadOrStore empties it.                                 *)
View == <<sids, rooms, canJoin, frame, crossed, contended,
          [a \in RoomSet \ FreeRoomSet |-> roomsOf[a]],
          [a \in SidSet \ FreeSidSet |-> idsIn[a]]>>
=============================================================================
