--------------------------- MODULE MCRoomBroadcast ---------------------------
(* RoomBroadcast for TLC. *)
EXTENDS RoomBroadcast, TLC

Symmetry == Permutations(SocketId) \cup Permutations(Room)
=============================================================================
