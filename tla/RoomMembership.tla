--------------------------- MODULE RoomMembership ---------------------------
(***************************************************************************)
(* Room membership of one namespace's in-memory adapter                    *)
(* (socket/adapter.go) as its callers reach it: Socket.Join, Socket.Leave  *)
(* and Socket._cleanup (socket/socket.go), each running in its own         *)
(* goroutine.                                                              *)
(*                                                                         *)
(* adapter.rooms and adapter.sids are concurrent maps whose values are     *)
(* pointers to concurrent sets.  Every map or set operation is atomic and  *)
(* nothing is atomic beyond it, so each is a step of its own here, and a   *)
(* set is an object with an identity: a goroutine goes on using the object *)
(* it loaded after the map has dropped it.                                 *)
(***************************************************************************)
EXTENDS Naturals, FiniteSets

CONSTANTS
  Sid,              \* sockets of the namespace, by id
  Room,             \* rooms
  Goroutine,        \* goroutines that call into the adapter
  RoomSet,          \* addresses of *Set[Room] objects
  SidSet,           \* addresses of *Set[SocketId] objects
  None              \* a missing map entry, an empty local variable

ASSUME AddressAssumption ==
  /\ RoomSet \subseteq Nat /\ SidSet \subseteq Nat
  /\ None \notin RoomSet \cup SidSet \cup Sid \cup Room

VARIABLES
  sids,     \* adapter.sids:  socket -> its set of rooms, or None
  rooms,    \* adapter.rooms: room -> its set of sockets, or None
  roomsOf,  \* contents of each *Set[Room]
  idsIn,    \* contents of each *Set[SocketId]
  canJoin,  \* Socket.canJoin
  frame,    \* the local variables of each goroutine
  crossed,  \* history: sockets whose AddAll overlapped a Del or DelAll of theirs
  contended \* history: rooms of which an AddAll overlapped a _del

vars == <<sids, rooms, roomsOf, idsIn, canJoin, frame, crossed, contended>>

Idle == [op |-> "none", pc |-> "idle", id |-> None, todo |-> {},
         room |-> None, own |-> None, set |-> None]

Init ==
  /\ sids = [id \in Sid |-> None] /\ rooms = [r \in Room |-> None]
  /\ roomsOf = [a \in RoomSet |-> {}] /\ idsIn = [a \in SidSet |-> {}]
  /\ canJoin = [id \in Sid |-> TRUE]
  /\ frame = [g \in Goroutine |-> Idle]
  /\ crossed = {} /\ contended = {}

-----------------------------------------------------------------------------
(* Goroutine g is at step pc; it goes on at step pc; it returns. *)
At(g, pc) == frame[g].pc = pc
Goto(g, pc) == frame' = [frame EXCEPT ![g].pc = pc]
Return(g) == frame' = [frame EXCEPT ![g] = Idle]

(* No call on socket id is under way. *)
Quiet(id) == \A g \in Goroutine : frame[g].id # id

(* Two calls under way at once.  One adds socket id to rooms while another   *)
(* takes it out of some; one enters its socket in the set of room r while    *)
(* another has that set in hand to take its socket out and see who is left.  *)
Adding == {"storeOwn", "addRoom", "storeRoom", "addId"}
Crossing(id) == \E g, h \in Goroutine :
  /\ frame[g].id = id /\ frame[g].pc \in Adding
  /\ frame[h].id = id /\ frame[h].op \in {"leave", "cleanup"}
Contending(r) == \E g, h \in Goroutine :
  /\ frame[g].room = r /\ frame[g].pc \in {"storeRoom", "addId"}
  /\ frame[h].room = r /\ frame[h].pc \in {"delId", "len", "dropRoom"}
Overlaps ==
  /\ crossed' = crossed \cup {id \in Sid : Crossing(id)'}
  /\ contended' = contended \cup {r \in Room : Contending(r)'}

(* The addresses a new object may get: the garbage collector frees one only *)
(* once no map entry and no local variable holds it.                        *)
Lowest(S) == {a \in S : \A b \in S : a <= b}
FreeRoomSet == {a \in RoomSet : /\ \A id \in Sid : sids[id] # a
                                /\ \A g \in Goroutine : frame[g].own # a}
FreeSidSet == {a \in SidSet : /\ \A r \in Room : rooms[r] # a
                              /\ \A g \in Goroutine : frame[g].set # a}

Call(g, op, pc, id, todo, room) ==
  /\ frame[g] = Idle
  /\ frame' = [frame EXCEPT ![g] =
       [op |-> op, pc |-> pc, id |-> id, todo |-> todo, room |-> room,
        own |-> None, set |-> None]]
  /\ UNCHANGED <<sids, rooms, roomsOf, idsIn, canJoin>>

(* A bug: AddAll is called without the canJoin test. *)
CheckCanJoin_Untested(g) ==
  /\ At(g, "canJoin") /\ Goto(g, "storeOwn")
  /\ UNCHANGED <<sids, rooms, roomsOf, idsIn, canJoin>>

-----------------------------------------------------------------------------
(* Socket.Join: canJoin is tested under its lock, adapter.AddAll runs after  *)
(* the unlock.                                                               *)
CallJoin(g) == \E id \in Sid, rs \in SUBSET Room \ {{}} :
                 Call(g, "join", "canJoin", id, rs, None)

CheckCanJoin(g) ==
  /\ At(g, "canJoin")
  /\ IF canJoin[frame[g].id] THEN Goto(g, "storeOwn") ELSE Return(g)
  /\ UNCHANGED <<sids, rooms, roomsOf, idsIn, canJoin>>

(* _rooms, _ := a.sids.LoadOrStore(id, NewSet) *)
LoadOrStoreOwn(g) ==
  /\ At(g, "storeOwn")
  /\ \E a \in IF sids[frame[g].id] = None THEN Lowest(FreeRoomSet)
              ELSE {sids[frame[g].id]} :
       /\ roomsOf' = IF sids[frame[g].id] = None
                     THEN [roomsOf EXCEPT ![a] = {}] ELSE roomsOf
       /\ sids' = [sids EXCEPT ![frame[g].id] = a]
       /\ frame' = [frame EXCEPT ![g].own = a, ![g].pc = "addRoom"]
  /\ UNCHANGED <<rooms, idsIn, canJoin>>

(* A bug: the map gets a new set in any case. *)
LoadOrStoreRoom_Stores(g) ==
  /\ At(g, "storeRoom")
  /\ \E a \in Lowest(FreeSidSet) :
       /\ idsIn' = [idsIn EXCEPT ![a] = {}]
       /\ rooms' = [rooms EXCEPT ![frame[g].room] = a]
       /\ frame' = [frame EXCEPT ![g].set = a, ![g].pc = "addId"]
  /\ UNCHANGED <<sids, roomsOf, canJoin>>

(* _rooms.Add(room), for the next room of the argument in any order *)
AddRoom(g) ==
  /\ At(g, "addRoom")
  /\ \E r \in frame[g].todo :
       /\ roomsOf' = [roomsOf EXCEPT ![frame[g].own] = @ \cup {r}]
       /\ frame' = [frame EXCEPT ![g].room = r, ![g].todo = @ \ {r},
                                 ![g].pc = "storeRoom"]
  /\ UNCHANGED <<sids, rooms, idsIn, canJoin>>

(* ids, ok := a.rooms.LoadOrStore(room, NewSet) *)
LoadOrStoreRoom(g) ==
  /\ At(g, "storeRoom")
  /\ \E a \in IF rooms[frame[g].room] = None THEN Lowest(FreeSidSet)
              ELSE {rooms[frame[g].room]} :
       /\ idsIn' = IF rooms[frame[g].room] = None
                   THEN [idsIn EXCEPT ![a] = {}] ELSE idsIn
       /\ rooms' = [rooms EXCEPT ![frame[g].room] = a]
       /\ frame' = [frame EXCEPT ![g].set = a, ![g].pc = "addId"]
  /\ UNCHANGED <<sids, roomsOf, canJoin>>

(* if !ids.Has(id) { ids.Add(id) }, then the next room *)
AddId(g) ==
  /\ At(g, "addId")
  /\ idsIn' = [idsIn EXCEPT ![frame[g].set] = @ \cup {frame[g].id}]
  /\ IF frame[g].todo = {} THEN Return(g)
     ELSE frame' = [frame EXCEPT ![g].set = None, ![g].pc = "addRoom"]
  /\ UNCHANGED <<sids, rooms, roomsOf, canJoin>>

-----------------------------------------------------------------------------
(* Socket.Leave is adapter.Del; Socket._cleanup is adapter.DelAll and then   *)
(* canJoin = false.  Both load the socket's own set first.                   *)
CallLeave(g) == \E id \in Sid, r \in Room :
                  Call(g, "leave", "loadOwn", id, {}, r)
CallCleanup(g) == \E id \in Sid : Call(g, "cleanup", "loadOwn", id, {}, None)

LoadOwn(g) ==
  /\ At(g, "loadOwn")
  /\ frame' = [frame EXCEPT ![g].own = sids[frame[g].id],
       ![g].pc = IF sids[frame[g].id] # None THEN "useOwn"
                 ELSE IF frame[g].op = "leave" THEN "loadRoom" ELSE "forbid"]
  /\ UNCHANGED <<sids, rooms, roomsOf, idsIn, canJoin>>

(* A bug: Del updates the socket's own set and forgets _del. *)
DeleteRoom_OwnSetOnly(g) ==
  /\ At(g, "useOwn") /\ frame[g].op = "leave"
  /\ roomsOf' = [roomsOf EXCEPT ![frame[g].own] = @ \ {frame[g].room}]
  /\ Return(g)
  /\ UNCHANGED <<sids, rooms, idsIn, canJoin>>

(* Del: rooms.Delete(room) *)
DeleteRoom(g) ==
  /\ At(g, "useOwn") /\ frame[g].op = "leave"
  /\ roomsOf' = [roomsOf EXCEPT ![frame[g].own] = @ \ {frame[g].room}]
  /\ frame' = [frame EXCEPT ![g].own = None, ![g].pc = "loadRoom"]
  /\ UNCHANGED <<sids, rooms, idsIn, canJoin>>

(* DelAll: rooms.Keys(), a copy that later changes do not reach *)
Keys(g) ==
  /\ At(g, "useOwn") /\ frame[g].op = "cleanup"
  /\ frame' = [frame EXCEPT ![g].todo = roomsOf[frame[g].own],
                            ![g].own = None, ![g].pc = "nextRoom"]
  /\ UNCHANGED <<sids, rooms, roomsOf, idsIn, canJoin>>

NextRoom(g) ==
  /\ At(g, "nextRoom")
  /\ \E r \in frame[g].todo :
       frame' = [frame EXCEPT ![g].room = r, ![g].todo = @ \ {r},
                              ![g].pc = "loadRoom"]
  /\ UNCHANGED <<sids, rooms, roomsOf, idsIn, canJoin>>

(* The end of _del: Del returns, DelAll takes its next room. *)
DelReturns(g) ==
  IF frame[g].op = "leave" THEN Return(g)
  ELSE frame' = [frame EXCEPT ![g].set = None, ![g].room = None,
                              ![g].pc = "nextRoom"]

LoadRoom(g) ==
  /\ At(g, "loadRoom")
  /\ IF rooms[frame[g].room] = None THEN DelReturns(g)
     ELSE frame' = [frame EXCEPT ![g].set = rooms[frame[g].room],
                                 ![g].pc = "delId"]
  /\ UNCHANGED <<sids, rooms, roomsOf, idsIn, canJoin>>

(* A bug: _del never deletes the room, or deletes it with one member left. *)
CheckLen_KeepsRoom(g) ==
  /\ At(g, "len") /\ DelReturns(g)
  /\ UNCHANGED <<sids, rooms, roomsOf, idsIn, canJoin>>

CheckLen_OffByOne(g) ==
  /\ At(g, "len")
  /\ IF Cardinality(idsIn[frame[g].set]) <= 1
     THEN Goto(g, "dropRoom") ELSE DelReturns(g)
  /\ UNCHANGED <<sids, rooms, roomsOf, idsIn, canJoin>>

DeleteId(g) ==
  /\ At(g, "delId")
  /\ idsIn' = [idsIn EXCEPT ![frame[g].set] = @ \ {frame[g].id}]
  /\ Goto(g, "len")
  /\ UNCHANGED <<sids, rooms, roomsOf, canJoin>>

CheckLen(g) ==
  /\ At(g, "len")
  /\ IF idsIn[frame[g].set] = {} THEN Goto(g, "dropRoom") ELSE DelReturns(g)
  /\ UNCHANGED <<sids, rooms, roomsOf, idsIn, canJoin>>

(* a.rooms.LoadAndDelete(room): whatever set the map holds by now *)
DropRoom(g) ==
  /\ At(g, "dropRoom")
  /\ rooms' = [rooms EXCEPT ![frame[g].room] = None]
  /\ DelReturns(g)
  /\ UNCHANGED <<sids, roomsOf, idsIn, canJoin>>

(* a.sids.Delete(id) after the last room *)
ForgetSid(g) ==
  /\ At(g, "nextRoom") /\ frame[g].todo = {}
  /\ sids' = [sids EXCEPT ![frame[g].id] = None]
  /\ Goto(g, "forbid")
  /\ UNCHANGED <<rooms, roomsOf, idsIn, canJoin>>

ForbidJoin(g) ==
  /\ At(g, "forbid")
  /\ canJoin' = [canJoin EXCEPT ![frame[g].id] = FALSE]
  /\ Return(g)
  /\ UNCHANGED <<sids, rooms, roomsOf, idsIn>>

Step(g) ==
  \/ CallJoin(g) \/ CheckCanJoin(g) \/ LoadOrStoreOwn(g) \/ AddRoom(g)
  \/ LoadOrStoreRoom(g) \/ AddId(g)
  \/ CallLeave(g) \/ CallCleanup(g) \/ LoadOwn(g) \/ DeleteRoom(g) \/ Keys(g)
  \/ NextRoom(g) \/ LoadRoom(g) \/ DeleteId(g) \/ CheckLen(g) \/ DropRoom(g)
  \/ ForgetSid(g) \/ ForbidJoin(g)

Next == (\E g \in Goroutine : Step(g)) /\ Overlaps

Spec == Init /\ [][Next]_vars

-----------------------------------------------------------------------------
Steps == {"idle", "canJoin", "storeOwn", "addRoom", "storeRoom", "addId",
          "loadOwn", "useOwn", "nextRoom", "loadRoom", "delId", "len",
          "dropRoom", "forbid"}

(* The types of the adapter's maps, the sets they hold and the goroutines. *)
MapsOK ==
  /\ sids \in [Sid -> RoomSet \cup {None}]
  /\ rooms \in [Room -> SidSet \cup {None}]
  /\ roomsOf \in [RoomSet -> SUBSET Room]
  /\ idsIn \in [SidSet -> SUBSET Sid]
  /\ canJoin \in [Sid -> BOOLEAN]
  /\ frame \in [Goroutine ->
       [op : {"none", "join", "leave", "cleanup"}, pc : Steps,
        id : Sid \cup {None}, todo : SUBSET Room, room : Room \cup {None},
        own : RoomSet \cup {None}, set : SidSet \cup {None}]]
TypeOK == MapsOK /\ crossed \subseteq Sid /\ contended \subseteq Room

(* id is in the set that adapter.rooms holds for r: broadcasts to r reach it *)
Member(id, r) == rooms[r] # None /\ id \in idsIn[rooms[r]]

(* r is in the set that adapter.sids holds for id: Socket.Rooms() lists it *)
Listed(id, r) == sids[id] # None /\ r \in roomsOf[sids[id]]

(* A room whose set is empty never stays in adapter.rooms: once all calls   *)
(* have returned, however they interleaved, every room that is still there  *)
(* has a member (_del deletes a room with its last member, AddAll creates   *)
(* one only to fill it).                                                    *)
NoEmptyRoomLeft ==
  (\A g \in Goroutine : At(g, "idle"))
    => \A r \in Room : rooms[r] # None => idsIn[rooms[r]] # {}

(* Once the calls on a socket have returned, every room whose members       *)
(* include it is one that Socket.Rooms() lists: the two maps may disagree   *)
(* while AddAll or DelAll is between its two updates, not afterwards.  Only *)
(* an AddAll for the socket that overlaps a Del or DelAll for it can leave  *)
(* them so, whatever the calls on other sockets do.                         *)
NoGhostMember ==
  \A id \in Sid \ crossed :
    Quiet(id) => \A r \in Room : Member(id, r) => Listed(id, r)

(* The converse: a room that Socket.Rooms() lists for a socket counts the   *)
(* socket among its members, so that a broadcast to the room reaches it.    *)
(* Besides such an overlap, only an AddAll that overlaps a _del of the very *)
(* room, by whichever socket, can lose a member: _del may find the set      *)
(* empty and drop it when the other has entered.                            *)
ListedIsMember ==
  \A id \in Sid \ crossed, r \in Room \ contended :
    Quiet(id) /\ Listed(id, r) => Member(id, r)

(* A socket that was cleaned up (it left all rooms and may join no other)   *)
(* is in no room and has no entry in adapter.sids, as _cleanup's comment    *)
(* says, once the calls on it have returned, be they Joins that come too    *)
(* late, Leaves or a second _cleanup side by side: unless an AddAll was     *)
(* among those that overlapped, as that of a Join that _cleanup overtakes   *)
(* after the canJoin test.                                                  *)
CleanedUpIsNowhere ==
  \A id \in Sid \ crossed : Quiet(id) /\ ~canJoin[id] =>
    sids[id] = None /\ \A r \in Room : ~Member(id, r)

(* The adapter as the relation it promises, for any number of calls side by  *)
(* side: each step adds or removes at most the pair of the call it belongs   *)
(* to, except that a contended room may lose any of its members.             *)
Relation == INSTANCE RoomRelation WITH
  member <- {p \in Sid \X Room : Member(p[1], p[2])},
  open <- {id \in Sid : canJoin[id]},
  calling <- {id \in Sid : ~Quiet(id)}
ImplementsRelation == Relation!Spec
=============================================================================
