---------------------------- MODULE RoomRelation ----------------------------
(***************************************************************************)
(* What the adapter promises about rooms: a relation between sockets and   *)
(* rooms that only the calls made for a socket change, and only in that    *)
(* socket's pairs, one at a time, until the socket is shut out for good.   *)
(* It does not promise all of this of the sockets and rooms whose calls    *)
(* got into each other's way.                                              *)
(***************************************************************************)
CONSTANTS Sid, Room

VARIABLES
  member,   \* the pairs <<socket, room>>
  open,     \* the sockets that may still join rooms
  calling,  \* the sockets for which a call is under way
  crossed,  \* sockets that were added to rooms and removed at the same time
  contended \* rooms that were entered and left at the same time

vars == <<member, open, calling, crossed, contended>>

Init == member = {} /\ open = Sid /\ calling = {} /\ crossed = {} /\ contended = {}

Call(id) == calling' = calling \cup {id} /\ UNCHANGED <<member, open>>

(* A call may return with its last update. *)
GoesOn(id) == id \in calling /\ calling' \in {calling, calling \ {id}}

Enter(id, r) ==
  /\ GoesOn(id) /\ id \in open \cup crossed
  /\ member' = member \cup {<<id, r>>} /\ UNCHANGED open

Exit(id, r) == GoesOn(id) /\ member' = member \ {<<id, r>>} /\ UNCHANGED open

(* Members that entered a room while others left it may be lost. *)
Lose(id, r) ==
  /\ GoesOn(id) /\ r \in contended
  /\ member' = {p \in member : p[2] # r} /\ UNCHANGED open

(* A socket that is shut out is in no room, or another call is taking it out. *)
ShutOut(id) ==
  /\ GoesOn(id)
  /\ (\A r \in Room : <<id, r>> \notin member) \/ id \in calling' \cup crossed
  /\ open' = open \ {id} /\ UNCHANGED member

Return(id) == GoesOn(id) /\ UNCHANGED <<member, open>>

Next ==
  /\ crossed \subseteq crossed' /\ contended \subseteq contended'
  /\ \E id \in Sid :
       \/ Call(id) \/ Return(id) \/ ShutOut(id)
       \/ \E r \in Room : Enter(id, r) \/ Exit(id, r) \/ Lose(id, r)

Spec == Init /\ [][Next]_vars
=============================================================================
