---------------------------- MODULE AdapterProofs ----------------------------
(***************************************************************************)
(* What the in-memory adapter guarantees for any number of sockets, rooms  *)
(* and goroutines: RoomMembership, and in the last part RoomBroadcast.     *)
(***************************************************************************)
EXTENDS RoomMembership, Selection, TLAPS

(* What the local variables hold at each step. *)
FrameOK(f) ==
  /\ f.pc # "idle" => f.id \in Sid
  /\ f.op = "leave" => f.room \in Room
  /\ f.pc \in {"addRoom", "storeRoom", "addId", "useOwn"} => f.own \in RoomSet
  /\ f.pc \in {"storeRoom", "addId", "loadRoom", "delId", "len", "dropRoom"}
       => f.room \in Room
  /\ IF f.pc \in {"addId", "delId", "len", "dropRoom"} THEN f.set \in SidSet
     ELSE f.set = None

FramesOK == \A g \in Goroutine : FrameOK(frame[g])

(* A step of any kind keeps the types of the adapter's state: what          *)
(* adapter.go reads from its maps is always a set object or a missing entry. *)
LEMMA StepTypeOK ==
  ASSUME MapsOK, FramesOK, NEW g \in Goroutine, Step(g)
  PROVE  MapsOK' /\ FramesOK'
<1> USE DEF MapsOK, Steps, FramesOK, FrameOK, At
<1> USE AddressAssumption
<1>1. CASE CallJoin(g)
  BY <1>1 DEF CallJoin, Call
<1>2. CASE CheckCanJoin(g)
  BY <1>2, SMTT(20) DEF CheckCanJoin, Goto, Return, Idle
<1>3. CASE LoadOrStoreOwn(g)
  BY <1>3 DEF LoadOrStoreOwn, Lowest, FreeRoomSet, At
<1>4. CASE AddRoom(g)
  BY <1>4 DEF AddRoom
<1>5. CASE LoadOrStoreRoom(g)
  BY <1>5 DEF LoadOrStoreRoom, Lowest, FreeSidSet
<1>6. CASE AddId(g)
  <2>1. idsIn' \in [SidSet -> SUBSET Sid]
    BY <1>6 DEF AddId
  <2>2. CASE frame[g].todo = {}
    BY <1>6, <2>1, <2>2 DEF AddId, Return, Idle
  <2>3. CASE frame[g].todo # {}
    BY <1>6, <2>1, <2>3 DEF AddId
  <2>. QED
    BY <2>2, <2>3
<1>7. CASE CallLeave(g)
  BY <1>7 DEF CallLeave, Call
<1>8. CASE CallCleanup(g)
  BY <1>8 DEF CallCleanup, Call
<1>9. CASE LoadOwn(g)
  BY <1>9 DEF LoadOwn
<1>10. CASE DeleteRoom(g)
  BY <1>10 DEF DeleteRoom
<1>11. CASE Keys(g)
  BY <1>11 DEF Keys
<1>12. CASE NextRoom(g)
  BY <1>12 DEF NextRoom
<1>13. CASE LoadRoom(g)
  BY <1>13 DEF LoadRoom, DelReturns, Return, Idle
<1>14. CASE DeleteId(g)
  BY <1>14 DEF DeleteId, Goto
<1>15. CASE CheckLen(g)
  BY <1>15, SMTT(20) DEF CheckLen, DelReturns, Goto, Return, Idle
<1>16. CASE DropRoom(g)
  BY <1>16 DEF DropRoom, DelReturns, Return, Idle
<1>17. CASE ForgetSid(g)
  BY <1>17 DEF ForgetSid, Goto
<1>18. CASE ForbidJoin(g)
  BY <1>18 DEF ForbidJoin, Return, Idle
<1>. QED
  BY <1>1, <1>2, <1>3, <1>4, <1>5, <1>6, <1>7, <1>8, <1>9, <1>10, <1>11,
     <1>12, <1>13, <1>14, <1>15, <1>16, <1>17, <1>18 DEF Step

-----------------------------------------------------------------------------
(* Two rooms never share a set object. *)
OneRoomPerSet ==
  \A r1, r2 \in Room : rooms[r1] # None /\ rooms[r1] = rooms[r2] => r1 = r2

(* The set object a goroutine holds is in the map for the room the goroutine *)
(* works on, or for no room any more.                                        *)
HeldForItsRoom ==
  \A g \in Goroutine, r \in Room :
    frame[g].set # None /\ rooms[r] = frame[g].set => r = frame[g].room

(* Two goroutines that hold one set object work on the same room. *)
HeldTogether ==
  \A g, h \in Goroutine :
    frame[g].set # None /\ frame[g].set = frame[h].set => frame[g].room = frame[h].room

(* Goroutine g is about to fill or to drop the empty room r. *)
Attends(g, r) ==
  /\ frame[g].room = r
  /\ \/ frame[g].pc = "dropRoom"
     \/ frame[g].pc \in {"addId", "len"} /\ frame[g].set = rooms[r]

EmptyIsAttended ==
  \A r \in Room : rooms[r] # None /\ idsIn[rooms[r]] = {}
                   => \E g \in Goroutine : Attends(g, r)

IInv == MapsOK /\ FramesOK /\ OneRoomPerSet /\ HeldForItsRoom /\ HeldTogether
          /\ EmptyIsAttended

LEMMA InitIInv == Init => IInv
BY AddressAssumption
DEF Init, IInv, MapsOK, Steps, FramesOK, FrameOK, OneRoomPerSet,
    HeldForItsRoom, HeldTogether, EmptyIsAttended, Idle

(* LoadOrStore stores an object that no map entry and no goroutine holds, so *)
(* no set object ever serves two rooms.                                      *)
LEMMA StepSharing ==
  ASSUME IInv, NEW g \in Goroutine, Step(g)
  PROVE  OneRoomPerSet' /\ HeldForItsRoom' /\ HeldTogether'
<1> USE AddressAssumption
    DEF IInv, MapsOK, FramesOK, FrameOK, At, OneRoomPerSet, HeldForItsRoom, HeldTogether
<1>1. CASE CallJoin(g)
  BY <1>1 DEF CallJoin, Call
<1>2. CASE CheckCanJoin(g)
  <2>1. /\ \A r \in Room : rooms'[r] \in {None, rooms[r]}
        /\ \A h \in Goroutine : h # g => frame'[h] = frame[h]
        /\ \/ frame'[g].set = None
           \/ frame'[g].set = frame[g].set /\ frame'[g].room = frame[g].room
    BY <1>2 DEF CheckCanJoin, Goto, Return, Idle
  <2>. QED
    BY <2>1
<1>3. CASE LoadOrStoreOwn(g)
  BY <1>3 DEF LoadOrStoreOwn
<1>4. CASE AddRoom(g)
  BY <1>4 DEF AddRoom
<1>5. CASE LoadOrStoreRoom(g)
  BY <1>5 DEF LoadOrStoreRoom, Lowest, FreeSidSet
<1>6. CASE AddId(g)
  <2>1. rooms' = rooms
    BY <1>6 DEF AddId
  <2>2. \A h \in Goroutine : h # g => frame'[h] = frame[h]
    BY <1>6 DEF AddId, Return
  <2>3. frame'[g].set = None
    BY <1>6 DEF AddId, Return, Idle
  <2>. QED
    BY <2>1, <2>2, <2>3
<1>7. CASE CallLeave(g)
  BY <1>7 DEF CallLeave, Call
<1>8. CASE CallCleanup(g)
  BY <1>8 DEF CallCleanup, Call
<1>9. CASE LoadOwn(g)
  BY <1>9 DEF LoadOwn
<1>10. CASE DeleteRoom(g)
  BY <1>10 DEF DeleteRoom
<1>11. CASE Keys(g)
  BY <1>11 DEF Keys
<1>12. CASE NextRoom(g)
  BY <1>12 DEF NextRoom
<1>13. CASE LoadRoom(g)
  BY <1>13, SMTT(20) DEF LoadRoom, DelReturns, Return, Idle
<1>14. CASE DeleteId(g)
  BY <1>14 DEF DeleteId, Goto
<1>15. CASE CheckLen(g)
  <2>1. /\ \A r \in Room : rooms'[r] \in {None, rooms[r]}
        /\ \A h \in Goroutine : h # g => frame'[h] = frame[h]
        /\ \/ frame'[g].set = None
           \/ frame'[g].set = frame[g].set /\ frame'[g].room = frame[g].room
    BY <1>15 DEF CheckLen, DelReturns, Goto, Return, Idle
  <2>. QED
    BY <2>1
<1>16. CASE DropRoom(g)
  <2>1. /\ \A r \in Room : rooms'[r] \in {None, rooms[r]}
        /\ \A h \in Goroutine : h # g => frame'[h] = frame[h]
        /\ \/ frame'[g].set = None
           \/ frame'[g].set = frame[g].set /\ frame'[g].room = frame[g].room
    BY <1>16 DEF DropRoom, DelReturns, Return, Idle
  <2>. QED
    BY <2>1
<1>17. CASE ForgetSid(g)
  BY <1>17 DEF ForgetSid, Goto
<1>18. CASE ForbidJoin(g)
  BY <1>18 DEF ForbidJoin, Return, Idle
<1>. QED
  BY <1>1, <1>2, <1>3, <1>4, <1>5, <1>6, <1>7, <1>8, <1>9, <1>10, <1>11,
     <1>12, <1>13, <1>14, <1>15, <1>16, <1>17, <1>18 DEF Step

(* A step leaves every empty room attended. *)
LEMMA StepAttended ==
  ASSUME IInv, NEW g \in Goroutine, Step(g)
  PROVE  EmptyIsAttended'
<1> SUFFICES ASSUME NEW r \in Room, (rooms[r] # None)', (idsIn[rooms[r]] = {})'
             PROVE  \E h \in Goroutine : Attends(h, r)'
  BY DEF EmptyIsAttended
<1> USE AddressAssumption DEF IInv, MapsOK, FramesOK, FrameOK, At
<1>1. CASE UNCHANGED <<rooms, idsIn>> /\ ~Attends(g, r)
  \* an attendant other than g is still there
  <2>1. PICK h \in Goroutine : Attends(h, r)
    BY <1>1 DEF EmptyIsAttended
  <2>2. frame'[h] = frame[h]
    BY <1>1, <2>1, ZenonT(30) DEF Step, CallJoin, Call, CheckCanJoin, LoadOrStoreOwn,
       AddRoom, LoadOrStoreRoom, AddId, CallLeave, CallCleanup, LoadOwn,
       DeleteRoom, Keys, NextRoom, LoadRoom, DeleteId, CheckLen, DropRoom,
       ForgetSid, ForbidJoin, DelReturns, Goto, Return
  <2>. QED
    BY <1>1, <2>1, <2>2 DEF Attends
<1>2. CASE LoadOrStoreRoom(g)
  <2>1. CASE frame[g].room = r
    BY <1>2, <2>1 DEF LoadOrStoreRoom, Attends
  <2>2. CASE frame[g].room # r
    <3>1. rooms'[r] = rooms[r] /\ idsIn'[rooms[r]] = idsIn[rooms[r]]
      BY <1>2, <2>2 DEF LoadOrStoreRoom, Lowest, FreeSidSet
    <3>2. PICK h \in Goroutine : Attends(h, r)
      BY <3>1 DEF EmptyIsAttended
    <3>3. h # g
      BY <1>2, <3>2 DEF LoadOrStoreRoom, Attends
    <3>. QED
      BY <1>2, <3>1, <3>2, <3>3 DEF LoadOrStoreRoom, Attends
  <2>. QED
    BY <2>1, <2>2
<1>3. CASE AddId(g)
  <2>1. rooms[r] # frame[g].set /\ idsIn[rooms[r]] = {} /\ rooms'[r] = rooms[r]
    BY <1>3 DEF AddId
  <2>2. PICK h \in Goroutine : Attends(h, r)
    BY <1>3, <2>1 DEF EmptyIsAttended, AddId
  <2>3. h # g
    BY <1>3, <2>1, <2>2 DEF AddId, Attends
  <2>4. frame'[h] = frame[h]
    BY <1>3, <2>3 DEF AddId, Return
  <2>. QED
    BY <2>1, <2>2, <2>4 DEF Attends
<1>4. CASE DeleteId(g)
  <2>1. CASE rooms[r] = frame[g].set
    BY <1>4, <2>1 DEF DeleteId, Goto, Attends, HeldForItsRoom
  <2>2. CASE rooms[r] # frame[g].set
    <3>1. PICK h \in Goroutine : Attends(h, r)
      BY <1>4, <2>2 DEF DeleteId, EmptyIsAttended
    <3>2. h # g
      BY <1>4, <3>1 DEF DeleteId, Attends
    <3>. QED
      BY <1>4, <3>1, <3>2 DEF DeleteId, Goto, Attends
  <2>. QED
    BY <2>1, <2>2
<1>5. CASE CheckLen(g)
  <2>1. CASE Attends(g, r)
    BY <1>5, <2>1 DEF CheckLen, Goto, Attends
  <2>. QED
    BY <1>1, <1>5, <2>1 DEF CheckLen
<1>6. CASE DropRoom(g)
  <2>1. frame[g].room # r /\ rooms'[r] = rooms[r]
    BY <1>6 DEF DropRoom
  <2>2. PICK h \in Goroutine : Attends(h, r)
    BY <1>6, <2>1 DEF DropRoom, EmptyIsAttended
  <2>3. h # g
    BY <2>1, <2>2 DEF Attends
  <2>4. frame'[h] = frame[h]
    BY <1>6, <2>3 DEF DropRoom, DelReturns, Return
  <2>. QED
    BY <2>1, <2>2, <2>4 DEF Attends
<1>7. CASE ~(LoadOrStoreRoom(g) \/ AddId(g) \/ DeleteId(g) \/ CheckLen(g)
             \/ DropRoom(g))
  <2>1. UNCHANGED <<rooms, idsIn>>
    BY <1>7 DEF Step, CallJoin, Call, CheckCanJoin, LoadOrStoreOwn, AddRoom,
       CallLeave, CallCleanup, LoadOwn, DeleteRoom, Keys, NextRoom, LoadRoom,
       ForgetSid, ForbidJoin
  <2>2. CASE frame[g] = Idle
    BY <1>1, <2>1, <2>2 DEF Idle, Attends
  <2>3. CASE frame[g] # Idle
    <3>1. frame[g].pc \notin {"dropRoom", "addId", "len"}
      BY <1>7, <2>3 DEF Step, CallJoin, Call, CheckCanJoin, LoadOrStoreOwn,
         AddRoom, CallLeave, CallCleanup, LoadOwn, DeleteRoom, Keys, NextRoom,
         LoadRoom, ForgetSid, ForbidJoin
    <3>. QED
      BY <1>1, <2>1, <3>1 DEF Attends
  <2>. QED
    BY <2>2, <2>3
<1>. QED
  BY <1>2, <1>3, <1>4, <1>5, <1>6, <1>7

(* The adapter's maps and the sets in them keep their types. *)
THEOREM TypeCorrect == Spec => []TypeOK
<1>1. TypeOK /\ FramesOK /\ [Next]_vars => (TypeOK /\ FramesOK)'
  <2>1. ASSUME TypeOK, FramesOK, UNCHANGED vars
        PROVE  (TypeOK /\ FramesOK)'
    BY <2>1 DEF vars, TypeOK, MapsOK, FramesOK, FrameOK
  <2>2. ASSUME TypeOK, Overlaps
        PROVE  crossed' \subseteq Sid /\ contended' \subseteq Room
    BY <2>2 DEF TypeOK, Overlaps
  <2>. QED
    BY <2>1, <2>2, StepTypeOK DEF Next, TypeOK
<1>2. Init => TypeOK /\ FramesOK
  BY InitIInv DEF IInv, TypeOK, Init
<1>. QED
  BY <1>1, <1>2, PTL DEF Spec

(* When every call has returned no empty room is left in adapter.rooms,      *)
(* whatever the interleaving of Join, Leave and _cleanup was, even of calls  *)
(* on one socket: _del and AddAll never leak a room.                         *)
THEOREM NoRoomLeaks == Spec => []NoEmptyRoomLeft
<1>1. IInv /\ [Next]_vars => IInv'
  <2>1. ASSUME IInv, UNCHANGED vars
        PROVE  IInv'
    BY <2>1 DEF vars, IInv, MapsOK, FramesOK, FrameOK, OneRoomPerSet,
       HeldForItsRoom, HeldTogether, EmptyIsAttended, Attends
  <2>2. ASSUME IInv, NEW g \in Goroutine, Step(g)
        PROVE  IInv'
    BY <2>2, StepTypeOK, StepSharing, StepAttended DEF IInv
  <2>. QED
    BY <2>1, <2>2 DEF Next
<1>2. IInv => NoEmptyRoomLeft
  BY DEF IInv, EmptyIsAttended, Attends, NoEmptyRoomLeft, At
<1>. QED
  BY InitIInv, <1>1, <1>2, PTL DEF Spec


-----------------------------------------------------------------------------
(* Calls on one socket side by side.  Nothing is claimed of the sockets that *)
(* were crossed: an AddAll for one overlapped a Del or DelAll for it.        *)
NothingOverlaps ==
  /\ \A id \in Sid \ crossed : ~Crossing(id)
  /\ \A r \in Room \ contended : ~Contending(r)

IdleOK == \A g \in Goroutine : At(g, "idle") => frame[g] = Idle

Deleting == {"nextRoom", "loadRoom", "delId", "len", "dropRoom"}

(* The operation that a step belongs to, which lets go of its set of rooms   *)
(* before it goes through them.                                              *)
OpOK(f) ==
  /\ f.pc \in {"canJoin", "storeOwn", "addRoom", "storeRoom", "addId"} => f.op = "join"
  /\ f.pc \in {"nextRoom", "forbid"} => f.op = "cleanup"
  /\ f.pc \in {"loadOwn", "useOwn", "loadRoom", "delId", "len", "dropRoom"}
       => f.op \in {"leave", "cleanup"}
  /\ f.pc \in Deleting \cup {"canJoin", "storeOwn", "loadOwn", "forbid"} => f.own = None

(* A set of rooms belongs to one socket, and so do the goroutines that hold  *)
(* it, even when adapter.sids has dropped it.                                *)
OwnOK ==
  /\ \A id1, id2 \in Sid : sids[id1] # None /\ sids[id1] = sids[id2] => id1 = id2
  /\ \A g \in Goroutine, id \in Sid :
       frame[g].own # None /\ frame[g].own = sids[id] => id = frame[g].id
  /\ \A g, h \in Goroutine :
       frame[g].own # None /\ frame[g].own = frame[h].own => frame[g].id = frame[h].id

(* Goroutine g has taken r from the rooms of socket id, but not id from r. *)
Leaving(g, id, r) ==
  frame[g].id = id /\ frame[g].room = r /\ frame[g].pc \in {"loadRoom", "delId"}
IsLeft(id, r) == \E g \in Goroutine : Leaving(g, id, r)

(* What a goroutine knows of its socket's memberships, whatever the other    *)
(* goroutines do, unless the socket was crossed.                             *)
AddingOK(f) ==
  f.pc \in Adding =>
    /\ canJoin[f.id]
    /\ f.pc # "storeOwn" => f.own = sids[f.id]
    /\ f.pc \in {"storeRoom", "addId"} => f.room \in roomsOf[f.own]
RemovingOK(f) ==
  /\ f.pc = "useOwn" => sids[f.id] \in {None, f.own}
  /\ f.pc = "delId" => (Member(f.id, f.room) => rooms[f.room] = f.set)
  /\ f.op = "leave" /\ f.pc \in {"loadRoom", "delId"} => ~Listed(f.id, f.room)
CleaningOK(f) ==
  /\ f.op = "cleanup" /\ f.pc \in Deleting =>
       \A r \in Room : Member(f.id, r) => r \in f.todo \/ IsLeft(f.id, r)
  /\ f.pc = "forbid" =>
       sids[f.id] = None /\ \A r \in Room : Member(f.id, r) => IsLeft(f.id, r)
ProgressOK(f) == f.id \in Sid \ crossed => AddingOK(f) /\ RemovingOK(f) /\ CleaningOK(f)

(* Who is a member of a room lists it, or is on his way out of it; and who   *)
(* was shut out is nowhere, or on his way out.                               *)
GhostOK ==
  \A id \in Sid \ crossed, r \in Room : Member(id, r) => Listed(id, r) \/ IsLeft(id, r)
ShutOK ==
  \A id \in Sid \ crossed : ~canJoin[id] =>
    sids[id] = None /\ \A r \in Room : Member(id, r) => IsLeft(id, r)

CallOK == NothingOverlaps /\ IdleOK /\ OwnOK /\ \A g \in Goroutine : OpOK(frame[g])
SideBySide == /\ IInv /\ CallOK /\ GhostOK /\ ShutOK
              /\ \A g \in Goroutine : ProgressOK(frame[g])

LEMMA InitSideBySide == Init => SideBySide
<1> SUFFICES ASSUME Init PROVE SideBySide
  OBVIOUS
<1>1. \A g \in Goroutine : frame[g] = Idle
  BY DEF Init
<1>2. CallOK
  BY <1>1, AddressAssumption
  DEF Init, CallOK, NothingOverlaps, Crossing, Contending, IdleOK, OwnOK, OpOK, Idle, At,
      Adding, Deleting
<1>3. \A id \in Sid, r \in Room : ~Member(id, r)
  BY DEF Init, Member
<1>4. GhostOK /\ ShutOK
  BY <1>3 DEF Init, GhostOK, ShutOK
<1>5. \A g \in Goroutine : ProgressOK(frame[g])
  BY <1>1, AddressAssumption DEF ProgressOK, Idle
<1>. QED
  BY <1>2, <1>4, <1>5, InitIInv DEF SideBySide

(* A step is one goroutine's. *)
LEMMA StepFrame ==
  ASSUME MapsOK, NEW g \in Goroutine, Step(g)
  PROVE  \A h \in Goroutine : h # g => frame'[h] = frame[h]
<1> USE DEF MapsOK
<1>1. CASE CallJoin(g)
  BY <1>1 DEF CallJoin, Call
<1>2. CASE CheckCanJoin(g)
  BY <1>2 DEF CheckCanJoin, Goto, Return, Idle
<1>3. CASE LoadOrStoreOwn(g)
  BY <1>3 DEF LoadOrStoreOwn, Lowest, FreeRoomSet
<1>4. CASE AddRoom(g)
  BY <1>4 DEF AddRoom
<1>5. CASE LoadOrStoreRoom(g)
  BY <1>5 DEF LoadOrStoreRoom, Lowest, FreeSidSet
<1>6. CASE AddId(g)
  BY <1>6 DEF AddId, Return, Idle
<1>7. CASE CallLeave(g)
  BY <1>7 DEF CallLeave, Call
<1>8. CASE CallCleanup(g)
  BY <1>8 DEF CallCleanup, Call
<1>9. CASE LoadOwn(g)
  BY <1>9 DEF LoadOwn
<1>10. CASE DeleteRoom(g)
  BY <1>10 DEF DeleteRoom
<1>11. CASE Keys(g)
  BY <1>11 DEF Keys
<1>12. CASE NextRoom(g)
  BY <1>12 DEF NextRoom
<1>13. CASE LoadRoom(g)
  BY <1>13 DEF LoadRoom, DelReturns, Return, Idle
<1>14. CASE DeleteId(g)
  BY <1>14 DEF DeleteId, Goto
<1>15. CASE CheckLen(g)
  BY <1>15 DEF CheckLen, DelReturns, Goto, Return, Idle
<1>16. CASE DropRoom(g)
  BY <1>16 DEF DropRoom, DelReturns, Return, Idle
<1>17. CASE ForgetSid(g)
  BY <1>17 DEF ForgetSid, Goto
<1>18. CASE ForbidJoin(g)
  BY <1>18 DEF ForbidJoin, Return, Idle
<1>. QED
  BY <1>1, <1>2, <1>3, <1>4, <1>5, <1>6, <1>7, <1>8, <1>9, <1>10, <1>11,
     <1>12, <1>13, <1>14, <1>15, <1>16, <1>17, <1>18 DEF Step

LEMMA StepOp ==
  ASSUME MapsOK, FramesOK, CallOK, NEW g \in Goroutine, Step(g)
  PROVE  OpOK(frame'[g])
<1> USE DEF MapsOK, FramesOK, FrameOK, CallOK, IdleOK, OpOK, At, Deleting
<1>1. CASE CallJoin(g)
  BY <1>1 DEF CallJoin, Call
<1>2. CASE CheckCanJoin(g)
  BY <1>2 DEF CheckCanJoin, Goto, Return, Idle
<1>3. CASE LoadOrStoreOwn(g)
  BY <1>3 DEF LoadOrStoreOwn, Lowest, FreeRoomSet
<1>4. CASE AddRoom(g)
  BY <1>4 DEF AddRoom
<1>5. CASE LoadOrStoreRoom(g)
  BY <1>5 DEF LoadOrStoreRoom, Lowest, FreeSidSet
<1>6. CASE AddId(g)
  BY <1>6 DEF AddId, Return, Idle
<1>7. CASE CallLeave(g)
  BY <1>7 DEF CallLeave, Call
<1>8. CASE CallCleanup(g)
  BY <1>8 DEF CallCleanup, Call
<1>9. CASE LoadOwn(g)
  BY <1>9 DEF LoadOwn
<1>10. CASE DeleteRoom(g)
  BY <1>10 DEF DeleteRoom
<1>11. CASE Keys(g)
  BY <1>11 DEF Keys
<1>12. CASE NextRoom(g)
  BY <1>12 DEF NextRoom
<1>13. CASE LoadRoom(g)
  BY <1>13 DEF LoadRoom, DelReturns, Return, Idle
<1>14. CASE DeleteId(g)
  BY <1>14 DEF DeleteId, Goto
<1>15. CASE CheckLen(g)
  BY <1>15 DEF CheckLen, DelReturns, Goto, Return, Idle
<1>16. CASE DropRoom(g)
  BY <1>16 DEF DropRoom, DelReturns, Return, Idle
<1>17. CASE ForgetSid(g)
  BY <1>17 DEF ForgetSid, Goto
<1>18. CASE ForbidJoin(g)
  BY <1>18 DEF ForbidJoin, Return, Idle
<1>. QED
  BY <1>1, <1>2, <1>3, <1>4, <1>5, <1>6, <1>7, <1>8, <1>9, <1>10, <1>11,
     <1>12, <1>13, <1>14, <1>15, <1>16, <1>17, <1>18 DEF Step

(* A goroutine begins a call, goes on with it, or returns. *)
LEMMA StepCaller ==
  ASSUME MapsOK, FramesOK, NEW g \in Goroutine, Step(g)
  PROVE  /\ frame'[g].pc # "idle" \/ frame'[g] = Idle
         /\ \/ frame[g].pc # "idle" /\ (frame'[g] = Idle \/ frame'[g].id = frame[g].id)
            \/ frame[g] = Idle /\ frame'[g].id \in Sid
<1> USE DEF MapsOK, FramesOK, FrameOK, At, Steps
<1>1. CASE CallJoin(g)
  BY <1>1 DEF CallJoin, Call
<1>2. CASE CheckCanJoin(g)
  BY <1>2 DEF CheckCanJoin, Goto, Return
<1>3. CASE LoadOrStoreOwn(g)
  BY <1>3 DEF LoadOrStoreOwn, Lowest, FreeRoomSet
<1>4. CASE AddRoom(g)
  BY <1>4 DEF AddRoom
<1>5. CASE LoadOrStoreRoom(g)
  BY <1>5 DEF LoadOrStoreRoom, Lowest, FreeSidSet
<1>6. CASE AddId(g)
  BY <1>6 DEF AddId, Return
<1>7. CASE CallLeave(g)
  BY <1>7 DEF CallLeave, Call
<1>8. CASE CallCleanup(g)
  BY <1>8 DEF CallCleanup, Call
<1>9. CASE LoadOwn(g)
  BY <1>9 DEF LoadOwn
<1>10. CASE DeleteRoom(g)
  BY <1>10 DEF DeleteRoom
<1>11. CASE Keys(g)
  BY <1>11 DEF Keys
<1>12. CASE NextRoom(g)
  BY <1>12 DEF NextRoom
<1>13. CASE LoadRoom(g)
  BY <1>13 DEF LoadRoom, DelReturns, Return
<1>14. CASE DeleteId(g)
  BY <1>14 DEF DeleteId, Goto
<1>15. CASE CheckLen(g)
  BY <1>15 DEF CheckLen, DelReturns, Goto, Return
<1>16. CASE DropRoom(g)
  BY <1>16 DEF DropRoom, DelReturns, Return
<1>17. CASE ForgetSid(g)
  BY <1>17 DEF ForgetSid, Goto
<1>18. CASE ForbidJoin(g)
  BY <1>18 DEF ForbidJoin, Return
<1>. QED
  BY <1>1, <1>2, <1>3, <1>4, <1>5, <1>6, <1>7, <1>8, <1>9, <1>10, <1>11,
     <1>12, <1>13, <1>14, <1>15, <1>16, <1>17, <1>18 DEF Step

(* What the history says of the next state. *)
LEMMA StepOverlaps ==
  ASSUME Overlaps
  PROVE  NothingOverlaps' /\ crossed \subseteq crossed' /\ contended \subseteq contended'
BY DEF Overlaps, NothingOverlaps

LEMMA StepIdle ==
  ASSUME MapsOK, FramesOK, IdleOK, NEW g \in Goroutine, Step(g)
  PROVE  IdleOK'
BY StepFrame, StepCaller DEF IdleOK, At

LEMMA StepOwn ==
  ASSUME MapsOK, FramesOK, CallOK, NEW g \in Goroutine, Step(g)
  PROVE  OwnOK'
<1> USE AddressAssumption DEF MapsOK, FramesOK, FrameOK, CallOK, OwnOK, OpOK, At, Deleting
<1>1. CASE CallJoin(g)
  BY <1>1 DEF CallJoin, Call
<1>2. CASE CheckCanJoin(g)
  <2>1. /\ sids' = sids
        /\ \A h \in Goroutine : h # g => frame'[h] = frame[h]
        /\ frame'[g].own = None \/ (frame'[g].own = frame[g].own /\ frame'[g].id = frame[g].id)
    BY <1>2, AddressAssumption DEF CheckCanJoin, Goto, Return, Idle
  <2>. QED
    BY <2>1
<1>3. CASE LoadOrStoreOwn(g)
  BY <1>3 DEF LoadOrStoreOwn, Lowest, FreeRoomSet
<1>4. CASE AddRoom(g)
  BY <1>4 DEF AddRoom
<1>5. CASE LoadOrStoreRoom(g)
  BY <1>5 DEF LoadOrStoreRoom, Lowest, FreeSidSet
<1>6. CASE AddId(g)
  <2>1. /\ sids' = sids
        /\ \A h \in Goroutine : h # g => frame'[h] = frame[h]
        /\ frame'[g].own = None \/ (frame'[g].own = frame[g].own /\ frame'[g].id = frame[g].id)
    BY <1>6, AddressAssumption DEF AddId, Return, Idle
  <2>. QED
    BY <2>1
<1>7. CASE CallLeave(g)
  BY <1>7 DEF CallLeave, Call
<1>8. CASE CallCleanup(g)
  BY <1>8 DEF CallCleanup, Call
<1>9. CASE LoadOwn(g)
  BY <1>9 DEF LoadOwn
<1>10. CASE DeleteRoom(g)
  BY <1>10 DEF DeleteRoom
<1>11. CASE Keys(g)
  BY <1>11 DEF Keys
<1>12. CASE NextRoom(g)
  BY <1>12 DEF NextRoom
<1>13. CASE LoadRoom(g)
  <2>1. /\ sids' = sids
        /\ \A h \in Goroutine : h # g => frame'[h] = frame[h]
        /\ frame'[g].own = None \/ (frame'[g].own = frame[g].own /\ frame'[g].id = frame[g].id)
    BY <1>13, AddressAssumption DEF LoadRoom, DelReturns, Return, Idle
  <2>. QED
    BY <2>1
<1>14. CASE DeleteId(g)
  <2>1. /\ sids' = sids
        /\ \A h \in Goroutine : h # g => frame'[h] = frame[h]
        /\ frame'[g].own = None \/ (frame'[g].own = frame[g].own /\ frame'[g].id = frame[g].id)
    BY <1>14, AddressAssumption DEF DeleteId, Goto
  <2>. QED
    BY <2>1
<1>15. CASE CheckLen(g)
  <2>1. /\ sids' = sids
        /\ \A h \in Goroutine : h # g => frame'[h] = frame[h]
        /\ frame'[g].own = None \/ (frame'[g].own = frame[g].own /\ frame'[g].id = frame[g].id)
    BY <1>15, AddressAssumption DEF CheckLen, DelReturns, Goto, Return, Idle
  <2>. QED
    BY <2>1
<1>16. CASE DropRoom(g)
  <2>1. /\ sids' = sids
        /\ \A h \in Goroutine : h # g => frame'[h] = frame[h]
        /\ frame'[g].own = None \/ (frame'[g].own = frame[g].own /\ frame'[g].id = frame[g].id)
    BY <1>16, AddressAssumption DEF DropRoom, DelReturns, Return, Idle
  <2>. QED
    BY <2>1
<1>17. CASE ForgetSid(g)
  BY <1>17 DEF ForgetSid, Goto
<1>18. CASE ForbidJoin(g)
  BY <1>18 DEF ForbidJoin, Return, Idle
<1>. QED
  BY <1>1, <1>2, <1>3, <1>4, <1>5, <1>6, <1>7, <1>8, <1>9, <1>10, <1>11,
     <1>12, <1>13, <1>14, <1>15, <1>16, <1>17, <1>18 DEF Step

(* A socket becomes a member of a room only when its goroutine adds it, and  *)
(* what else happens to the room's set leaves its members alone or drops     *)
(* the set.                                                                  *)
LEMMA StepMember ==
  ASSUME IInv, NEW g \in Goroutine, Step(g), NEW id \in Sid, NEW r \in Room, Member(id, r)'
  PROVE  \/ Member(id, r) /\ rooms'[r] = rooms[r]
         \/ AddId(g) /\ id = frame[g].id /\ r = frame[g].room
<1> USE AddressAssumption DEF IInv, MapsOK, FramesOK, FrameOK, At, HeldForItsRoom, Member
<1>1. CASE CallJoin(g)
  BY <1>1 DEF CallJoin, Call
<1>2. CASE CheckCanJoin(g)
  BY <1>2 DEF CheckCanJoin, Goto, Return, Idle
<1>3. CASE LoadOrStoreOwn(g)
  BY <1>3 DEF LoadOrStoreOwn, Lowest, FreeRoomSet
<1>4. CASE AddRoom(g)
  BY <1>4 DEF AddRoom
<1>5. CASE LoadOrStoreRoom(g)
  BY <1>5 DEF LoadOrStoreRoom, Lowest, FreeSidSet
<1>6. CASE AddId(g)
  BY <1>6 DEF AddId, Return, Idle
<1>7. CASE CallLeave(g)
  BY <1>7 DEF CallLeave, Call
<1>8. CASE CallCleanup(g)
  BY <1>8 DEF CallCleanup, Call
<1>9. CASE LoadOwn(g)
  BY <1>9 DEF LoadOwn
<1>10. CASE DeleteRoom(g)
  BY <1>10 DEF DeleteRoom
<1>11. CASE Keys(g)
  BY <1>11 DEF Keys
<1>12. CASE NextRoom(g)
  BY <1>12 DEF NextRoom
<1>13. CASE LoadRoom(g)
  BY <1>13 DEF LoadRoom, DelReturns, Return, Idle
<1>14. CASE DeleteId(g)
  BY <1>14 DEF DeleteId, Goto
<1>15. CASE CheckLen(g)
  BY <1>15 DEF CheckLen, DelReturns, Goto, Return, Idle
<1>16. CASE DropRoom(g)
  BY <1>16 DEF DropRoom, DelReturns, Return, Idle
<1>17. CASE ForgetSid(g)
  BY <1>17 DEF ForgetSid, Goto
<1>18. CASE ForbidJoin(g)
  BY <1>18 DEF ForbidJoin, Return, Idle
<1>. QED
  BY <1>1, <1>2, <1>3, <1>4, <1>5, <1>6, <1>7, <1>8, <1>9, <1>10, <1>11,
     <1>12, <1>13, <1>14, <1>15, <1>16, <1>17, <1>18 DEF Step

(* A goroutine leaves the rooms of other sockets alone. *)
LEMMA StepOthers ==
  ASSUME MapsOK, FramesOK, CallOK, NEW g \in Goroutine, Step(g), NEW id \in Sid,
         frame[g].id # id
  PROVE  /\ sids'[id] = sids[id] /\ canJoin'[id] = canJoin[id]
         /\ sids[id] # None => roomsOf'[sids[id]] = roomsOf[sids[id]]
<1> USE AddressAssumption DEF MapsOK, FramesOK, FrameOK, CallOK, OwnOK, At
<1>1. CASE CallJoin(g)
  BY <1>1 DEF CallJoin, Call
<1>2. CASE CheckCanJoin(g)
  BY <1>2 DEF CheckCanJoin, Goto
<1>3. CASE LoadOrStoreOwn(g)
  BY <1>3 DEF LoadOrStoreOwn, Lowest, FreeRoomSet
<1>4. CASE AddRoom(g)
  BY <1>4 DEF AddRoom
<1>5. CASE LoadOrStoreRoom(g)
  BY <1>5 DEF LoadOrStoreRoom, Lowest, FreeSidSet
<1>6. CASE AddId(g)
  BY <1>6 DEF AddId
<1>7. CASE CallLeave(g)
  BY <1>7 DEF CallLeave, Call
<1>8. CASE CallCleanup(g)
  BY <1>8 DEF CallCleanup, Call
<1>9. CASE LoadOwn(g)
  BY <1>9 DEF LoadOwn
<1>10. CASE DeleteRoom(g)
  BY <1>10 DEF DeleteRoom
<1>11. CASE Keys(g)
  BY <1>11 DEF Keys
<1>12. CASE NextRoom(g)
  BY <1>12 DEF NextRoom
<1>13. CASE LoadRoom(g)
  BY <1>13 DEF LoadRoom, DelReturns
<1>14. CASE DeleteId(g)
  BY <1>14 DEF DeleteId, Goto
<1>15. CASE CheckLen(g)
  BY <1>15 DEF CheckLen, DelReturns, Goto
<1>16. CASE DropRoom(g)
  BY <1>16 DEF DropRoom, DelReturns
<1>17. CASE ForgetSid(g)
  BY <1>17 DEF ForgetSid, Goto
<1>18. CASE ForbidJoin(g)
  BY <1>18 DEF ForbidJoin
<1>. QED
  BY <1>1, <1>2, <1>3, <1>4, <1>5, <1>6, <1>7, <1>8, <1>9, <1>10, <1>11,
     <1>12, <1>13, <1>14, <1>15, <1>16, <1>17, <1>18 DEF Step

(* What a goroutine does to its own socket: Join only adds, and nothing yet  *)
(* before its test; Leave and _cleanup only remove.                          *)
LEMMA StepSame ==
  ASSUME MapsOK, FramesOK, CallOK, NEW g \in Goroutine, Step(g), NEW id \in Sid,
         frame[g].id = id
  PROVE  /\ frame[g].op = "join" =>
              /\ canJoin'[id] = canJoin[id]
              /\ sids[id] # None => sids'[id] = sids[id] /\ roomsOf[sids[id]] \subseteq roomsOf'[sids[id]]
              /\ frame[g].pc \in Adding \/ UNCHANGED <<sids, roomsOf>>
         /\ frame[g].op # "join" =>
              /\ sids'[id] \in {None, sids[id]}
              /\ sids[id] # None => roomsOf'[sids[id]] \subseteq roomsOf[sids[id]]
<1> USE AddressAssumption DEF MapsOK, FramesOK, FrameOK, CallOK, OpOK, Adding, At
<1>0. frame[g] # Idle
  BY DEF Idle
<1>1. CASE CallJoin(g)
  BY <1>1, <1>0 DEF CallJoin, Call
<1>2. CASE CheckCanJoin(g)
  BY <1>2, <1>0 DEF CheckCanJoin, Goto
<1>3. CASE LoadOrStoreOwn(g)
  BY <1>3, <1>0 DEF LoadOrStoreOwn, Lowest, FreeRoomSet
<1>4. CASE AddRoom(g)
  BY <1>4, <1>0 DEF AddRoom
<1>5. CASE LoadOrStoreRoom(g)
  BY <1>5, <1>0 DEF LoadOrStoreRoom, Lowest, FreeSidSet
<1>6. CASE AddId(g)
  BY <1>6, <1>0 DEF AddId
<1>7. CASE CallLeave(g)
  BY <1>7, <1>0 DEF CallLeave, Call
<1>8. CASE CallCleanup(g)
  BY <1>8, <1>0 DEF CallCleanup, Call
<1>9. CASE LoadOwn(g)
  BY <1>9, <1>0 DEF LoadOwn
<1>10. CASE DeleteRoom(g)
  BY <1>10, <1>0 DEF DeleteRoom
<1>11. CASE Keys(g)
  BY <1>11, <1>0 DEF Keys
<1>12. CASE NextRoom(g)
  BY <1>12, <1>0 DEF NextRoom
<1>13. CASE LoadRoom(g)
  BY <1>13, <1>0 DEF LoadRoom, DelReturns
<1>14. CASE DeleteId(g)
  BY <1>14, <1>0 DEF DeleteId, Goto
<1>15. CASE CheckLen(g)
  BY <1>15, <1>0 DEF CheckLen, DelReturns, Goto
<1>16. CASE DropRoom(g)
  BY <1>16, <1>0 DEF DropRoom, DelReturns
<1>17. CASE ForgetSid(g)
  BY <1>17, <1>0 DEF ForgetSid, Goto
<1>18. CASE ForbidJoin(g)
  BY <1>18, <1>0 DEF ForbidJoin
<1>. QED
  BY <1>1, <1>2, <1>3, <1>4, <1>5, <1>6, <1>7, <1>8, <1>9, <1>10, <1>11,
     <1>12, <1>13, <1>14, <1>15, <1>16, <1>17, <1>18 DEF Step

(* Who is on his way out of a room goes on until he is out. *)
LEMMA StepLeft ==
  ASSUME SideBySide, NEW g \in Goroutine, Step(g), NEW id \in Sid \ crossed, NEW r \in Room,
         Member(id, r)', IsLeft(id, r)
  PROVE  IsLeft(id, r)'
<1>1. PICK h \in Goroutine : Leaving(h, id, r)
  BY DEF IsLeft
<1>2. CASE h # g
  BY <1>1, <1>2, StepFrame DEF IsLeft, Leaving, SideBySide, IInv
<1>3. CASE h = g
  <2>0. frame[g].pc \in {"loadRoom", "delId"} /\ frame[g] # Idle /\ frame[g].id = id
        /\ frame[g].room = r
    BY <1>1, <1>3 DEF Leaving, Idle
  <2>1. LoadRoom(g) \/ DeleteId(g)
    BY <2>0 DEF Step, CallJoin, Call, CheckCanJoin, LoadOrStoreOwn, AddRoom,
           LoadOrStoreRoom, AddId, CallLeave, CallCleanup, LoadOwn, DeleteRoom,
           Keys, NextRoom, CheckLen, DropRoom, ForgetSid, ForbidJoin, At
  <2>2. Member(id, r) /\ rooms'[r] = rooms[r]
    BY <2>0, StepMember DEF SideBySide, AddId, At
  <2>3. CASE LoadRoom(g)
    BY <2>0, <2>2, <2>3 DEF LoadRoom, IsLeft, Leaving, Member, SideBySide, IInv, MapsOK
  <2>4. CASE DeleteId(g)
    BY <2>0, <2>2, <2>4
    DEF DeleteId, Member, SideBySide, IInv, MapsOK, FramesOK, FrameOK, ProgressOK,
        RemovingOK, At
  <2>. QED
    BY <2>1, <2>3, <2>4
<1>. QED
  BY <1>2, <1>3

(* A Join and a removal of one socket never run side by side then.           *)
LEMMA SameKind ==
  ASSUME SideBySide, NEW g \in Goroutine, NEW h \in Goroutine, NEW id \in Sid \ crossed,
         frame[g].id = id, frame[h].id = id
  PROVE  frame[g].pc \in Adding => frame[h].op \notin {"leave", "cleanup"}
BY DEF SideBySide, CallOK, NothingOverlaps, Crossing

(* Membership and listing of an uncrossed socket, as one of its goroutines   *)
(* that is removing finds them after another's step.                         *)
LEMMA StepRemoving ==
  ASSUME SideBySide, NEW g \in Goroutine, Step(g), NEW h \in Goroutine, h # g,
         NEW id \in Sid \ crossed, frame[h].id = id, frame[h].op \in {"leave", "cleanup"}
  PROVE  /\ sids'[id] \in {None, sids[id]}
         /\ sids[id] # None => roomsOf'[sids[id]] \subseteq roomsOf[sids[id]]
         /\ \A r \in Room : Member(id, r)' => Member(id, r) /\ rooms'[r] = rooms[r]
<1>1. CASE frame[g].id # id
  BY <1>1, StepOthers, StepMember DEF SideBySide, IInv
<1>2. CASE frame[g].id = id
  <2>1. frame[g].pc \notin Adding
    BY <1>2, SameKind
  <2>2. \A r \in Room : Member(id, r)' => Member(id, r) /\ rooms'[r] = rooms[r]
    BY <2>1, StepMember DEF SideBySide, AddId, At, Adding
  <2>3. CASE frame[g].op = "join"
    BY <1>2, <2>1, <2>2, <2>3, StepSame DEF SideBySide, IInv
  <2>4. CASE frame[g].op # "join"
    BY <1>2, <2>2, <2>4, StepSame DEF SideBySide, IInv
  <2>. QED
    BY <2>3, <2>4
<1>. QED
  BY <1>1, <1>2

LEMMA StepAdding ==
  ASSUME SideBySide, NEW g \in Goroutine, Step(g), NEW h \in Goroutine, h # g,
         NEW id \in Sid \ crossed, frame[h].id = id, frame[h].pc \in Adding
  PROVE  /\ canJoin'[id] = canJoin[id]
         /\ sids[id] # None => sids'[id] = sids[id] /\ roomsOf[sids[id]] \subseteq roomsOf'[sids[id]]
<1>1. CASE frame[g].id # id
  BY <1>1, StepOthers DEF SideBySide, IInv
<1>2. CASE frame[g].id = id
  <2>1. frame[g].op = "join"
    <3>1. frame[g].op \notin {"leave", "cleanup"}
      BY <1>2, SameKind
    <3>2. frame[g].pc # "idle" /\ frame[g].pc \in Steps
      BY <1>2, AddressAssumption DEF SideBySide, CallOK, IdleOK, IInv, MapsOK, Idle, At
    <3>. QED
      BY <3>1, <3>2 DEF SideBySide, CallOK, OpOK, Steps, Deleting
  <2>. QED
    BY <1>2, <2>1, StepSame DEF SideBySide, IInv
<1>. QED
  BY <1>1, <1>2

(* What a goroutine knows of its socket another goroutine leaves true. *)
LEMMA StepProgressOthers ==
  ASSUME SideBySide, NEW g \in Goroutine, Step(g), Overlaps, NEW h \in Goroutine, h # g
  PROVE  ProgressOK(frame[h])'
<1> SUFFICES ASSUME frame'[h].id \in Sid \ crossed'
             PROVE  AddingOK(frame[h])' /\ RemovingOK(frame[h])' /\ CleaningOK(frame[h])'
  BY DEF ProgressOK
<1>1. frame'[h] = frame[h]
  BY StepFrame DEF SideBySide, IInv
<1>2. PICK id \in Sid \ crossed : id = frame[h].id
  BY <1>1, StepOverlaps
<1>3. AddingOK(frame[h]) /\ RemovingOK(frame[h]) /\ CleaningOK(frame[h])
  BY <1>2 DEF SideBySide, ProgressOK
<1>4. FrameOK(frame[h]) /\ OpOK(frame[h])
  BY DEF SideBySide, IInv, FramesOK, CallOK
<1>5. AddingOK(frame[h])'
  <2> SUFFICES ASSUME frame[h].pc \in Adding
               PROVE  /\ canJoin'[id]
                      /\ frame[h].pc # "storeOwn" => frame[h].own = sids'[id]
                      /\ frame[h].pc \in {"storeRoom", "addId"} => frame[h].room \in roomsOf'[frame[h].own]
    BY <1>1, <1>2 DEF AddingOK
  <2>1. /\ canJoin'[id] = canJoin[id]
        /\ sids[id] # None => sids'[id] = sids[id] /\ roomsOf[sids[id]] \subseteq roomsOf'[sids[id]]
    BY <1>2, StepAdding
  <2>2. frame[h].pc # "storeOwn" => frame[h].own = sids[id] /\ sids[id] # None
    BY <1>2, <1>3, <1>4, AddressAssumption DEF AddingOK, FrameOK, Adding
  <2>. QED
    BY <1>2, <1>3, <2>1, <2>2 DEF AddingOK, Adding
<1>6. RemovingOK(frame[h])'
  <2> SUFFICES ASSUME frame[h].pc \in {"useOwn", "loadRoom", "delId"}
               PROVE  RemovingOK(frame[h])'
    BY <1>1 DEF RemovingOK
  <2>0. frame[h].op \in {"leave", "cleanup"}
    BY <1>4 DEF OpOK
  <2>1. /\ sids'[id] \in {None, sids[id]}
        /\ sids[id] # None => roomsOf'[sids[id]] \subseteq roomsOf[sids[id]]
        /\ \A r \in Room : Member(id, r)' => Member(id, r) /\ rooms'[r] = rooms[r]
    BY <1>2, <2>0, StepRemoving
  <2>2. frame[h].pc = "useOwn" => sids'[id] \in {None, frame[h].own}
    BY <1>2, <1>3, <2>1 DEF RemovingOK
  <2>3. frame[h].pc = "delId" =>
          (Member(id, frame[h].room)' => rooms'[frame[h].room] = frame[h].set)
    BY <1>1, <1>2, <1>3, <1>4, <2>1 DEF RemovingOK, FrameOK
  <2>4. frame[h].op = "leave" /\ frame[h].pc \in {"loadRoom", "delId"} =>
          ~Listed(id, frame[h].room)'
    BY <1>1, <1>2, <1>3, <2>1 DEF RemovingOK, Listed
  <2>. QED
    BY <1>1, <1>2, <2>2, <2>3, <2>4 DEF RemovingOK, Member
<1>7. CleaningOK(frame[h])'
  <2> SUFFICES ASSUME frame[h].pc \in Deleting \cup {"forbid"}
               PROVE  CleaningOK(frame[h])'
    BY <1>1 DEF CleaningOK
  <2>0. frame[h].op \in {"leave", "cleanup"}
    BY <1>4 DEF OpOK, Deleting
  <2>1. /\ sids'[id] \in {None, sids[id]}
        /\ \A r \in Room : Member(id, r)' => Member(id, r)
    BY <1>2, <2>0, StepRemoving
  <2>2. \A r \in Room : Member(id, r)' /\ IsLeft(id, r) => IsLeft(id, r)'
    BY StepLeft
  <2>3. frame[h].op = "cleanup" /\ frame[h].pc \in Deleting =>
          \A r \in Room : Member(id, r)' => r \in frame[h].todo \/ IsLeft(id, r)'
    BY <1>2, <1>3, <2>1, <2>2 DEF CleaningOK
  <2>4. frame[h].pc = "forbid" =>
          sids'[id] = None /\ \A r \in Room : Member(id, r)' => IsLeft(id, r)'
    BY <1>2, <1>3, <2>1, <2>2 DEF CleaningOK
  <2>5. frame'[h].op = frame[h].op /\ frame'[h].pc = frame[h].pc /\ frame'[h].id = id
        /\ frame'[h].todo = frame[h].todo
    BY <1>1, <1>2
  <2>. QED
    BY <2>3, <2>4, <2>5, ZenonT(30) DEF CleaningOK
<1>. QED
  BY <1>5, <1>6, <1>7

(* The goroutine's own next step finds what its last one left. *)
LEMMA StepAddingOK ==
  ASSUME SideBySide, NEW g \in Goroutine, Step(g), frame'[g].id \in Sid \ crossed
  PROVE  AddingOK(frame[g])'
<1>i. ASSUME Return(g) PROVE AddingOK(frame[g])'
  BY <1>i DEF Return, SideBySide, IInv, MapsOK, Idle, AddingOK, Adding
<1> USE AddressAssumption
    DEF SideBySide, IInv, MapsOK, FramesOK, FrameOK, CallOK, OwnOK, OpOK, At, ProgressOK,
        AddingOK, Adding, Deleting
<1>1. CASE CallJoin(g)
  BY <1>1, <1>i DEF CallJoin, Call
<1>2. CASE CheckCanJoin(g)
  BY <1>2, <1>i DEF CheckCanJoin, Goto
<1>3. CASE LoadOrStoreOwn(g)
  BY <1>3, <1>i DEF LoadOrStoreOwn, Lowest, FreeRoomSet
<1>4. CASE AddRoom(g)
  BY <1>4, <1>i DEF AddRoom
<1>5. CASE LoadOrStoreRoom(g)
  BY <1>5, <1>i DEF LoadOrStoreRoom, Lowest, FreeSidSet
<1>6. CASE AddId(g)
  BY <1>6, <1>i DEF AddId
<1>7. CASE CallLeave(g)
  BY <1>7, <1>i DEF CallLeave, Call
<1>8. CASE CallCleanup(g)
  BY <1>8, <1>i DEF CallCleanup, Call
<1>9. CASE LoadOwn(g)
  BY <1>9, <1>i DEF LoadOwn
<1>10. CASE DeleteRoom(g)
  BY <1>10, <1>i DEF DeleteRoom
<1>11. CASE Keys(g)
  BY <1>11, <1>i DEF Keys
<1>12. CASE NextRoom(g)
  BY <1>12, <1>i DEF NextRoom
<1>13. CASE LoadRoom(g)
  BY <1>13, <1>i DEF LoadRoom, DelReturns
<1>14. CASE DeleteId(g)
  BY <1>14, <1>i DEF DeleteId, Goto
<1>15. CASE CheckLen(g)
  BY <1>15, <1>i DEF CheckLen, DelReturns, Goto
<1>16. CASE DropRoom(g)
  BY <1>16, <1>i DEF DropRoom, DelReturns
<1>17. CASE ForgetSid(g)
  BY <1>17, <1>i DEF ForgetSid, Goto
<1>18. CASE ForbidJoin(g)
  BY <1>18, <1>i DEF ForbidJoin
<1>. QED
  BY <1>1, <1>2, <1>3, <1>4, <1>5, <1>6, <1>7, <1>8, <1>9, <1>10, <1>11,
     <1>12, <1>13, <1>14, <1>15, <1>16, <1>17, <1>18 DEF Step

LEMMA StepRemovingOK ==
  ASSUME SideBySide, NEW g \in Goroutine, Step(g), frame'[g].id \in Sid \ crossed
  PROVE  RemovingOK(frame[g])'
<1>m. \A id \in Sid, r \in Room : Member(id, r)' =>
        \/ Member(id, r) /\ rooms'[r] = rooms[r]
        \/ AddId(g) /\ id = frame[g].id /\ r = frame[g].room
  BY StepMember DEF SideBySide
<1>i. ASSUME Return(g) PROVE RemovingOK(frame[g])'
  BY <1>i DEF Return, SideBySide, IInv, MapsOK, Idle, RemovingOK
<1> USE AddressAssumption
    DEF SideBySide, IInv, MapsOK, FramesOK, FrameOK, CallOK, OwnOK, OpOK, At, ProgressOK,
        RemovingOK, Listed, Deleting
<1>1. CASE CallJoin(g)
  BY <1>1, <1>m, <1>i DEF CallJoin, Call
<1>2. CASE CheckCanJoin(g)
  BY <1>2, <1>m, <1>i DEF CheckCanJoin, Goto
<1>3. CASE LoadOrStoreOwn(g)
  BY <1>3, <1>m, <1>i DEF LoadOrStoreOwn, Lowest, FreeRoomSet
<1>4. CASE AddRoom(g)
  BY <1>4, <1>m, <1>i DEF AddRoom
<1>5. CASE LoadOrStoreRoom(g)
  BY <1>5, <1>m, <1>i DEF LoadOrStoreRoom, Lowest, FreeSidSet
<1>6. CASE AddId(g)
  BY <1>6, <1>m, <1>i DEF AddId
<1>7. CASE CallLeave(g)
  BY <1>7, <1>m, <1>i DEF CallLeave, Call
<1>8. CASE CallCleanup(g)
  BY <1>8, <1>m, <1>i DEF CallCleanup, Call
<1>9. CASE LoadOwn(g)
  BY <1>9, <1>m, <1>i DEF LoadOwn
<1>10. CASE DeleteRoom(g)
  BY <1>10, <1>m, <1>i DEF DeleteRoom
<1>11. CASE Keys(g)
  BY <1>11, <1>m, <1>i DEF Keys
<1>12. CASE NextRoom(g)
  BY <1>12, <1>m, <1>i DEF NextRoom
<1>13. CASE LoadRoom(g)
  BY <1>13, <1>m, <1>i DEF LoadRoom, DelReturns
<1>14. CASE DeleteId(g)
  BY <1>14, <1>m, <1>i DEF DeleteId, Goto
<1>15. CASE CheckLen(g)
  BY <1>15, <1>m, <1>i DEF CheckLen, DelReturns, Goto
<1>16. CASE DropRoom(g)
  BY <1>16, <1>m, <1>i DEF DropRoom, DelReturns
<1>17. CASE ForgetSid(g)
  BY <1>17, <1>m, <1>i DEF ForgetSid, Goto
<1>18. CASE ForbidJoin(g)
  BY <1>18, <1>m, <1>i DEF ForbidJoin
<1>. QED
  BY <1>1, <1>2, <1>3, <1>4, <1>5, <1>6, <1>7, <1>8, <1>9, <1>10, <1>11,
     <1>12, <1>13, <1>14, <1>15, <1>16, <1>17, <1>18 DEF Step

LEMMA StepCleaningOK ==
  ASSUME SideBySide, NEW g \in Goroutine, Step(g), frame'[g].id \in Sid \ crossed
  PROVE  CleaningOK(frame[g])'
<1>i. ASSUME Return(g) PROVE CleaningOK(frame[g])'
  BY <1>i DEF Return, SideBySide, IInv, MapsOK, Idle, CleaningOK, Deleting
<1>l. \A id \in Sid \ crossed, r \in Room : Member(id, r)' /\ IsLeft(id, r) => IsLeft(id, r)'
  BY StepLeft
<1>m. \A id \in Sid, r \in Room : Member(id, r)' =>
        \/ Member(id, r) /\ rooms'[r] = rooms[r]
        \/ AddId(g) /\ id = frame[g].id /\ r = frame[g].room
  BY StepMember DEF SideBySide
<1>g. \A id \in Sid \ crossed, r \in Room : Member(id, r) => Listed(id, r) \/ IsLeft(id, r)
  BY DEF SideBySide, GhostOK
<1> USE AddressAssumption
    DEF SideBySide, IInv, MapsOK, FramesOK, FrameOK, CallOK, OwnOK, OpOK, At, ProgressOK,
        CleaningOK, Deleting
<1>1. CASE CallJoin(g)
  BY <1>1, <1>m, <1>i DEF CallJoin, Call
<1>2. CASE CheckCanJoin(g)
  BY <1>2, <1>m, <1>i DEF CheckCanJoin, Goto
<1>3. CASE LoadOrStoreOwn(g)
  BY <1>3, <1>m, <1>i DEF LoadOrStoreOwn, Lowest, FreeRoomSet
<1>4. CASE AddRoom(g)
  BY <1>4, <1>m, <1>i DEF AddRoom
<1>5. CASE LoadOrStoreRoom(g)
  BY <1>5, <1>m, <1>i DEF LoadOrStoreRoom, Lowest, FreeSidSet
<1>6. CASE AddId(g)
  BY <1>6, <1>m, <1>i DEF AddId
<1>7. CASE CallLeave(g)
  BY <1>7, <1>m, <1>i DEF CallLeave, Call
<1>8. CASE CallCleanup(g)
  BY <1>8, <1>m, <1>i DEF CallCleanup, Call
<1>9. CASE LoadOwn(g)
  <2>1. /\ frame'[g].id = frame[g].id /\ frame'[g].op = frame[g].op
        /\ frame'[g].pc = "forbid" => sids[frame[g].id] = None
        /\ frame'[g].pc \in {"useOwn", "loadRoom", "forbid"} /\ frame[g].pc = "loadOwn"
        /\ frame'[g].pc = "loadRoom" => frame[g].op = "leave"
        /\ sids' = sids
    BY <1>9 DEF LoadOwn
  <2>2. \A r \in Room : Member(frame[g].id, r)' => Member(frame[g].id, r)
    BY <1>m, <2>1 DEF AddId
  <2>3. frame'[g].pc = "forbid" =>
          \A r \in Room : Member(frame[g].id, r)' => IsLeft(frame[g].id, r)'
    BY <1>g, <1>l, <2>1, <2>2 DEF Listed
  <2>. QED
    BY <2>1, <2>3
<1>10. CASE DeleteRoom(g)
  BY <1>10, <1>m, <1>i DEF DeleteRoom
<1>11. CASE Keys(g)
  <2>1. /\ frame'[g].id = frame[g].id /\ frame'[g].op = "cleanup" /\ frame'[g].pc = "nextRoom"
        /\ frame'[g].todo = roomsOf[frame[g].own] /\ frame[g].pc = "useOwn"
    BY <1>11 DEF Keys
  <2>2. \A r \in Room : Member(frame[g].id, r)' => Member(frame[g].id, r)
    BY <1>m, <2>1 DEF AddId
  <2>3. \A r \in Room : Listed(frame[g].id, r) => r \in frame'[g].todo
    BY <2>1 DEF RemovingOK, Listed
  <2>4. \A r \in Room : Member(frame[g].id, r)' =>
          r \in frame'[g].todo \/ IsLeft(frame[g].id, r)'
    BY <1>g, <1>l, <2>1, <2>2, <2>3
  <2>. QED
    BY <2>1, <2>4
<1>12. CASE NextRoom(g)
  <2>1. PICK r0 \in frame[g].todo :
          frame' = [frame EXCEPT ![g].room = r0, ![g].todo = @ \ {r0}, ![g].pc = "loadRoom"]
    BY <1>12 DEF NextRoom
  <2>2. /\ frame'[g].id = frame[g].id /\ frame'[g].op = frame[g].op /\ frame'[g].pc = "loadRoom"
        /\ frame'[g].todo = frame[g].todo \ {r0} /\ frame'[g].room = r0
        /\ frame[g].pc = "nextRoom" /\ frame[g].op = "cleanup"
    BY <1>12, <2>1 DEF NextRoom
  <2>3. IsLeft(frame[g].id, r0)'
    BY <2>2 DEF IsLeft, Leaving
  <2>4. \A r \in Room : Member(frame[g].id, r)' =>
          r \in frame[g].todo \/ IsLeft(frame[g].id, r)'
    BY <1>l, <1>m, <2>2 DEF AddId
  <2>. QED
    BY <2>2, <2>3, <2>4
<1>13. CASE LoadRoom(g)
  <2>1. CASE Return(g)
    BY <1>i, <2>1
  <2>2. CASE ~Return(g)
    <3>1. /\ frame'[g].id = frame[g].id /\ frame'[g].op = frame[g].op
          /\ frame'[g].todo = frame[g].todo /\ frame'[g].pc # "forbid"
          /\ frame[g].pc \in Deleting
      BY <1>13, <2>2 DEF LoadRoom, DelReturns
    <3>2. \A r \in Room : Member(frame[g].id, r)' => Member(frame[g].id, r)
      BY <1>m, <3>1 DEF AddId
    <3>3. frame[g].op = "cleanup" => \A r \in Room : Member(frame[g].id, r)' =>
            r \in frame[g].todo \/ IsLeft(frame[g].id, r)'
      BY <1>l, <3>1, <3>2
    <3>. QED
      BY <3>1, <3>3
  <2>. QED
    BY <2>1, <2>2
<1>14. CASE DeleteId(g)
  <2>1. CASE Return(g)
    BY <1>i, <2>1
  <2>2. CASE ~Return(g)
    <3>1. /\ frame'[g].id = frame[g].id /\ frame'[g].op = frame[g].op
          /\ frame'[g].todo = frame[g].todo /\ frame'[g].pc # "forbid"
          /\ frame[g].pc \in Deleting
      BY <1>14, <2>2 DEF DeleteId, Goto
    <3>2. \A r \in Room : Member(frame[g].id, r)' => Member(frame[g].id, r)
      BY <1>m, <3>1 DEF AddId
    <3>3. frame[g].op = "cleanup" => \A r \in Room : Member(frame[g].id, r)' =>
            r \in frame[g].todo \/ IsLeft(frame[g].id, r)'
      BY <1>l, <3>1, <3>2
    <3>. QED
      BY <3>1, <3>3
  <2>. QED
    BY <2>1, <2>2
<1>15. CASE CheckLen(g)
  <2>1. CASE Return(g)
    BY <1>i, <2>1
  <2>2. CASE ~Return(g)
    <3>1. /\ frame'[g].id = frame[g].id /\ frame'[g].op = frame[g].op
          /\ frame'[g].todo = frame[g].todo /\ frame'[g].pc # "forbid"
          /\ frame[g].pc \in Deleting
      BY <1>15, <2>2 DEF CheckLen, DelReturns, Goto
    <3>2. \A r \in Room : Member(frame[g].id, r)' => Member(frame[g].id, r)
      BY <1>m, <3>1 DEF AddId
    <3>3. frame[g].op = "cleanup" => \A r \in Room : Member(frame[g].id, r)' =>
            r \in frame[g].todo \/ IsLeft(frame[g].id, r)'
      BY <1>l, <3>1, <3>2
    <3>. QED
      BY <3>1, <3>3
  <2>. QED
    BY <2>1, <2>2
<1>16. CASE DropRoom(g)
  <2>1. CASE Return(g)
    BY <1>i, <2>1
  <2>2. CASE ~Return(g)
    <3>1. /\ frame'[g].id = frame[g].id /\ frame'[g].op = frame[g].op
          /\ frame'[g].todo = frame[g].todo /\ frame'[g].pc # "forbid"
          /\ frame[g].pc \in Deleting
      BY <1>16, <2>2 DEF DropRoom, DelReturns
    <3>2. \A r \in Room : Member(frame[g].id, r)' => Member(frame[g].id, r)
      BY <1>m, <3>1 DEF AddId
    <3>3. frame[g].op = "cleanup" => \A r \in Room : Member(frame[g].id, r)' =>
            r \in frame[g].todo \/ IsLeft(frame[g].id, r)'
      BY <1>l, <3>1, <3>2
    <3>. QED
      BY <3>1, <3>3
  <2>. QED
    BY <2>1, <2>2
<1>17. CASE ForgetSid(g)
  <2>1. /\ frame'[g].id = frame[g].id /\ frame'[g].pc = "forbid" /\ frame[g].pc = "nextRoom"
        /\ frame[g].op = "cleanup" /\ frame[g].todo = {} /\ sids'[frame[g].id] = None
    BY <1>17 DEF ForgetSid, Goto
  <2>2. \A r \in Room : Member(frame[g].id, r)' => IsLeft(frame[g].id, r)'
    BY <1>l, <1>m, <2>1 DEF AddId
  <2>. QED
    BY <2>1, <2>2
<1>18. CASE ForbidJoin(g)
  BY <1>18, <1>m, <1>i DEF ForbidJoin
<1>. QED
  BY <1>1, <1>2, <1>3, <1>4, <1>5, <1>6, <1>7, <1>8, <1>9, <1>10, <1>11,
     <1>12, <1>13, <1>14, <1>15, <1>16, <1>17, <1>18 DEF Step

(* A socket stays listed, or on its way out, in every room it is in. *)
LEMMA StepGhost ==
  ASSUME SideBySide, NEW g \in Goroutine, Step(g), Overlaps
  PROVE  GhostOK'
<1> SUFFICES ASSUME NEW id \in Sid \ crossed', NEW r \in Room, Member(id, r)'
             PROVE  Listed(id, r)' \/ IsLeft(id, r)'
  BY DEF GhostOK
<1>0. id \in Sid \ crossed
  BY StepOverlaps
<1>1. CASE AddId(g) /\ id = frame[g].id /\ r = frame[g].room
  BY <1>0, <1>1, AddressAssumption
  DEF AddId, SideBySide, IInv, FramesOK, FrameOK, ProgressOK, AddingOK, Adding, Listed, At
<1>2. CASE Member(id, r) /\ rooms'[r] = rooms[r]
  <2>1. Listed(id, r) \/ IsLeft(id, r)
    BY <1>0, <1>2 DEF SideBySide, GhostOK
  <2>2. CASE IsLeft(id, r)
    BY <1>0, <2>2, StepLeft
  <2>3. CASE Listed(id, r) /\ frame[g].id # id
    BY <2>3, StepOthers DEF SideBySide, IInv, Listed
  <2>4. CASE Listed(id, r) /\ frame[g].id = id /\ ~IsLeft(id, r)
    <3>1. CASE DeleteRoom(g)
      <4>1. CASE r = frame[g].room
        BY <2>4, <3>1, <4>1
        DEF DeleteRoom, SideBySide, IInv, MapsOK, IsLeft, Leaving
      <4>2. CASE r # frame[g].room
        BY <2>4, <3>1, <4>2
        DEF DeleteRoom, SideBySide, IInv, MapsOK, Listed
      <4>. QED
        BY <4>1, <4>2
    <3>2. CASE ForgetSid(g)
      <4>1. frame[g].op = "cleanup" /\ frame[g].pc \in Deleting /\ frame[g].todo = {}
        BY <3>2 DEF ForgetSid, SideBySide, CallOK, OpOK, Deleting, At
      <4>2. CleaningOK(frame[g])
        BY <1>0, <2>4 DEF SideBySide, ProgressOK
      <4>. QED
        BY <1>2, <2>4, <4>1, <4>2 DEF CleaningOK
    <3>3. CASE ~DeleteRoom(g) /\ ~ForgetSid(g)
      <4>1. CASE LoadOrStoreOwn(g)
        BY <2>4, <4>1 DEF LoadOrStoreOwn, SideBySide, IInv, MapsOK, Listed
      <4>2. CASE AddRoom(g)
        BY <2>4, <4>2 DEF AddRoom, SideBySide, IInv, MapsOK, Listed
      <4>3. CASE ~LoadOrStoreOwn(g) /\ ~AddRoom(g)
        <5>1. UNCHANGED <<sids, roomsOf>>
          BY <3>3, <4>3 DEF Step, CallJoin, Call, CheckCanJoin, LoadOrStoreRoom, AddId,
                 CallLeave, CallCleanup, LoadOwn, Keys, NextRoom, LoadRoom,
                 DeleteId, CheckLen, DropRoom, ForbidJoin
        <5>. QED
          BY <2>4, <5>1 DEF Listed
      <4>. QED
        BY <4>1, <4>2, <4>3
    <3>. QED
      BY <3>1, <3>2, <3>3
  <2>. QED
    BY <2>1, <2>2, <2>3, <2>4
<1>. QED
  BY <1>1, <1>2, StepMember DEF SideBySide

(* A socket that was shut out joins nothing any more. *)
LEMMA StepShut ==
  ASSUME SideBySide, NEW g \in Goroutine, Step(g), Overlaps
  PROVE  ShutOK'
<1> SUFFICES ASSUME NEW id \in Sid \ crossed', ~canJoin'[id]
             PROVE  sids'[id] = None /\ \A r \in Room : Member(id, r)' => IsLeft(id, r)'
  BY DEF ShutOK
<1>0. id \in Sid \ crossed
  BY StepOverlaps
<1>m. \A r \in Room : Member(id, r)' => Member(id, r) \/ (AddId(g) /\ id = frame[g].id)
  BY StepMember DEF SideBySide
<1>l. \A r \in Room : Member(id, r)' /\ IsLeft(id, r) => IsLeft(id, r)'
  BY <1>0, StepLeft
<1>1. CASE frame[g].id # id
  BY <1>0, <1>1, <1>m, <1>l, StepOthers DEF SideBySide, IInv, ShutOK
<1>2. CASE frame[g].id = id /\ ForbidJoin(g)
  <2>1. CleaningOK(frame[g])
    BY <1>0, <1>2 DEF SideBySide, ProgressOK
  <2>. QED
    BY <1>2, <1>m, <1>l, <2>1 DEF ForbidJoin, AddId, CleaningOK, At
<1>3. CASE frame[g].id = id /\ ~ForbidJoin(g)
  <2>1. ~canJoin[id]
    BY <1>3 DEF Step, CallJoin, Call, CheckCanJoin, LoadOrStoreOwn, AddRoom,
           LoadOrStoreRoom, AddId, CallLeave, CallCleanup, LoadOwn, DeleteRoom,
           Keys, NextRoom, LoadRoom, DeleteId, CheckLen, DropRoom, ForgetSid
  <2>2. frame[g].pc \notin {"storeOwn", "addId"}
    BY <1>0, <1>3, <2>1 DEF SideBySide, ProgressOK, AddingOK, Adding
  <2>3. sids[id] = None /\ \A r \in Room : Member(id, r) => IsLeft(id, r)
    BY <1>0, <2>1 DEF SideBySide, ShutOK
  <2>4. sids'[id] = None
    BY <1>3, <2>2, <2>3 DEF Step, CallJoin, Call, CheckCanJoin, LoadOrStoreOwn, AddRoom,
           LoadOrStoreRoom, AddId, CallLeave, CallCleanup, LoadOwn, DeleteRoom,
           Keys, NextRoom, LoadRoom, DeleteId, CheckLen, DropRoom, ForgetSid,
           SideBySide, IInv, MapsOK, At
  <2>. QED
    BY <1>m, <1>l, <2>2, <2>3, <2>4 DEF AddId, At
<1>. QED
  BY <1>1, <1>2, <1>3

LEMMA StepSideBySide ==
  ASSUME SideBySide, [Next]_vars
  PROVE  SideBySide'
<1>1. CASE UNCHANGED vars
  BY <1>1 DEF vars, SideBySide, IInv, MapsOK, FramesOK, FrameOK, OneRoomPerSet,
     HeldForItsRoom, HeldTogether, EmptyIsAttended, Attends, CallOK, NothingOverlaps,
     Crossing, Contending, IdleOK, OwnOK, OpOK, At, GhostOK, ShutOK, ProgressOK, AddingOK,
     RemovingOK, CleaningOK, Member, Listed, IsLeft, Leaving
<1>2. ASSUME NEW g \in Goroutine, Step(g), Overlaps
      PROVE  SideBySide'
  <2>1. IInv'
    BY <1>2, StepTypeOK, StepSharing, StepAttended DEF SideBySide, IInv
  <2>2. NothingOverlaps' /\ IdleOK' /\ OwnOK'
    BY <1>2, StepOverlaps, StepIdle, StepOwn DEF SideBySide, IInv, CallOK
  <2>3. \A h \in Goroutine : OpOK(frame'[h])
    BY <1>2, StepOp, StepFrame DEF SideBySide, IInv, CallOK
  <2>4. ProgressOK(frame[g])'
    <3>1. frame'[g].id \in Sid \ crossed' => frame'[g].id \in Sid \ crossed
      BY <1>2, StepOverlaps
    <3>. QED
      BY <1>2, <3>1, StepAddingOK, StepRemovingOK, StepCleaningOK DEF ProgressOK
  <2>5. \A h \in Goroutine : ProgressOK(frame[h])'
    BY <1>2, <2>4, StepProgressOthers
  <2>6. GhostOK' /\ ShutOK'
    BY <1>2, StepGhost, StepShut
  <2>. QED
    BY <2>1, <2>2, <2>3, <2>5, <2>6 DEF SideBySide, CallOK
<1>. QED
  BY <1>1, <1>2 DEF Next

(* No room keeps a socket that its own Rooms() does not list once the calls  *)
(* on the socket have returned, unless an AddAll for it overlapped a Del or  *)
(* DelAll for it, however all other calls interleave in the shared sets.     *)
THEOREM NoGhosts == Spec => []NoGhostMember
<1>1. SideBySide => NoGhostMember
  BY DEF SideBySide, GhostOK, NoGhostMember, Quiet, IsLeft, Leaving
<1>2. SideBySide /\ [Next]_vars => SideBySide'
  BY StepSideBySide
<1>. QED
  BY InitSideBySide, <1>1, <1>2, PTL DEF Spec

(* With the same exception a socket that _cleanup shut out has no entry in   *)
(* adapter.sids and is in no room: a Join that comes later is refused, and   *)
(* Leaves and other _cleanups that run beside it leave nothing behind.       *)
THEOREM CleanedUpNowhere == Spec => []CleanedUpIsNowhere
<1>1. SideBySide => CleanedUpIsNowhere
  BY DEF SideBySide, ShutOK, CleanedUpIsNowhere, Quiet, IsLeft, Leaving
<1>2. SideBySide /\ [Next]_vars => SideBySide'
  BY StepSideBySide
<1>. QED
  BY InitSideBySide, <1>1, <1>2, PTL DEF Spec

-----------------------------------------------------------------------------
(* Rooms that were not contended: no AddAll entered one while a _del had its *)
(* set in hand.                                                              *)

(* Goroutine g has entered r in the rooms of socket id, but not id in r, or  *)
(* it is taking id out of every room before sids forgets it.                 *)
Unfinished(g, id, r) ==
  /\ frame[g].id = id
  /\ \/ frame[g].pc \in {"storeRoom", "addId"} /\ frame[g].room = r
     \/ frame[g].op = "cleanup" /\ frame[g].pc \in Deleting

(* The set that AddAll is about to fill is the one that adapter.rooms has,   *)
(* and so is the one _del has in hand, unless the room is gone; and it is    *)
(* empty when _del drops it.                                                 *)
SetOK(f) ==
  f.room \in Room \ contended =>
    /\ f.pc = "addId" => rooms[f.room] = f.set
    /\ f.pc \in {"delId", "len", "dropRoom"} => rooms[f.room] \in {None, f.set}
    /\ f.pc = "dropRoom" => idsIn[f.set] = {}

ListedOK ==
  \A id \in Sid \ crossed, r \in Room \ contended :
    Listed(id, r) => Member(id, r) \/ \E g \in Goroutine : Unfinished(g, id, r)

AllOK == SideBySide /\ ListedOK /\ \A g \in Goroutine : SetOK(frame[g])

LEMMA InitAll == Init => AllOK
<1> SUFFICES ASSUME Init PROVE AllOK
  OBVIOUS
<1>1. ListedOK /\ \A g \in Goroutine : SetOK(frame[g])
  BY DEF Init, ListedOK, Listed, SetOK, Idle
<1>. QED
  BY <1>1, InitSideBySide DEF AllOK

(* A step takes nothing from such a room but its own socket. *)
LEMMA StepKeepsMember ==
  ASSUME AllOK, NEW g \in Goroutine, Step(g), NEW id \in Sid, NEW r \in Room \ contended,
         Member(id, r)
  PROVE  \/ Member(id, r)'
         \/ DeleteId(g) /\ id = frame[g].id /\ r = frame[g].room
<1> USE DEF AllOK, SideBySide, IInv, MapsOK, FramesOK, FrameOK, At, Member
<1>1. CASE LoadOrStoreRoom(g)
  BY <1>1 DEF LoadOrStoreRoom, Lowest, FreeSidSet
<1>2. CASE AddId(g)
  BY <1>2 DEF AddId
<1>3. CASE DeleteId(g)
  BY <1>3 DEF DeleteId, HeldForItsRoom
<1>4. CASE DropRoom(g)
  <2>1. CASE frame[g].room = r
    BY <1>4, <2>1 DEF DropRoom, SetOK
  <2>2. CASE frame[g].room # r
    BY <1>4, <2>2 DEF DropRoom
  <2>. QED
    BY <2>1, <2>2
<1>5. CASE ~(LoadOrStoreRoom(g) \/ AddId(g) \/ DeleteId(g) \/ DropRoom(g))
  <2>1. UNCHANGED <<rooms, idsIn>>
    BY <1>5 DEF Step, CallJoin, Call, CheckCanJoin, LoadOrStoreOwn, AddRoom,
           CallLeave, CallCleanup, LoadOwn, DeleteRoom, Keys, NextRoom, LoadRoom,
           CheckLen, ForgetSid, ForbidJoin
  <2>. QED
    BY <2>1
<1>. QED
  BY <1>1, <1>2, <1>3, <1>4, <1>5

LEMMA StepSet ==
  ASSUME AllOK, NEW g \in Goroutine, Step(g), frame'[g].room \in Room \ contended
  PROVE  SetOK(frame[g])'
<1>i. ASSUME Return(g) PROVE SetOK(frame[g])'
  BY <1>i, AddressAssumption DEF Return, AllOK, SideBySide, IInv, MapsOK, Idle, SetOK
<1> USE AddressAssumption
    DEF AllOK, SideBySide, IInv, MapsOK, FramesOK, FrameOK, At, SetOK
<1>1. CASE CallJoin(g)
  BY <1>1, <1>i DEF CallJoin, Call
<1>2. CASE CheckCanJoin(g)
  BY <1>2, <1>i DEF CheckCanJoin, Goto
<1>3. CASE LoadOrStoreOwn(g)
  BY <1>3, <1>i DEF LoadOrStoreOwn, Lowest, FreeRoomSet
<1>4. CASE AddRoom(g)
  BY <1>4, <1>i DEF AddRoom
<1>5. CASE LoadOrStoreRoom(g)
  BY <1>5, <1>i DEF LoadOrStoreRoom, Lowest, FreeSidSet
<1>6. CASE AddId(g)
  BY <1>6, <1>i DEF AddId
<1>7. CASE CallLeave(g)
  BY <1>7, <1>i DEF CallLeave, Call
<1>8. CASE CallCleanup(g)
  BY <1>8, <1>i DEF CallCleanup, Call
<1>9. CASE LoadOwn(g)
  BY <1>9, <1>i DEF LoadOwn
<1>10. CASE DeleteRoom(g)
  BY <1>10, <1>i DEF DeleteRoom
<1>11. CASE Keys(g)
  BY <1>11, <1>i DEF Keys
<1>12. CASE NextRoom(g)
  BY <1>12, <1>i DEF NextRoom
<1>13. CASE LoadRoom(g)
  BY <1>13, <1>i DEF LoadRoom, DelReturns
<1>14. CASE DeleteId(g)
  BY <1>14, <1>i DEF DeleteId, Goto
<1>15. CASE CheckLen(g)
  BY <1>15, <1>i DEF CheckLen, DelReturns, Goto
<1>16. CASE DropRoom(g)
  BY <1>16, <1>i DEF DropRoom, DelReturns
<1>17. CASE ForgetSid(g)
  BY <1>17, <1>i DEF ForgetSid, Goto
<1>18. CASE ForbidJoin(g)
  BY <1>18, <1>i DEF ForbidJoin
<1>. QED
  BY <1>1, <1>2, <1>3, <1>4, <1>5, <1>6, <1>7, <1>8, <1>9, <1>10, <1>11,
     <1>12, <1>13, <1>14, <1>15, <1>16, <1>17, <1>18 DEF Step

LEMMA StepSetOthers ==
  ASSUME AllOK, NEW g \in Goroutine, Step(g), NEW h \in Goroutine, h # g,
         frame[h].room \in Room \ contended
  PROVE  SetOK(frame[h])'
<1>1. frame'[h] = frame[h]
  BY StepFrame DEF AllOK, SideBySide, IInv
<1>2. SetOK(frame[h]) /\ FrameOK(frame[h]) /\ FrameOK(frame[g]) /\ MapsOK
  BY DEF AllOK, SideBySide, IInv, FramesOK
<1>3. ~Contending(frame[h].room)
  BY DEF AllOK, SideBySide, CallOK, NothingOverlaps
<1> USE AddressAssumption DEF At, MapsOK
<1>4. CASE frame[h].pc \notin {"addId", "delId", "len", "dropRoom"}
  BY <1>1, <1>4 DEF SetOK
<1>5. CASE frame[h].pc \in {"addId", "delId", "len", "dropRoom"}
  <2>0. frame[h].set \in SidSet /\ frame[h].set # None
    BY <1>2, <1>5 DEF FrameOK
  <2>1. CASE LoadOrStoreRoom(g)
    <3>1. rooms'[frame[h].room] = rooms[frame[h].room]
      BY <1>2, <1>3, <1>5, <2>0, <2>1 DEF LoadOrStoreRoom, SetOK, Contending
    <3>2. idsIn'[frame[h].set] = idsIn[frame[h].set]
      BY <1>2, <2>0, <2>1 DEF LoadOrStoreRoom, Lowest, FreeSidSet
    <3>. QED
      BY <1>1, <1>2, <3>1, <3>2 DEF SetOK
  <2>2. CASE AddId(g)
    <3>1. frame[h].pc = "dropRoom" => frame[g].set # frame[h].set
      BY <1>3, <2>0, <2>2 DEF AddId, Contending, AllOK, SideBySide, IInv, HeldTogether
    <3>2. rooms' = rooms
      BY <2>2 DEF AddId
    <3>3. frame[h].pc = "dropRoom" => idsIn'[frame[h].set] = idsIn[frame[h].set]
      BY <1>2, <2>0, <2>2, <3>1 DEF AddId
    <3>. QED
      BY <1>1, <1>2, <3>2, <3>3 DEF SetOK
  <2>3. CASE DeleteId(g)
    <3>1. rooms' = rooms
      BY <2>3 DEF DeleteId
    <3>2. idsIn'[frame[h].set] \subseteq idsIn[frame[h].set]
      BY <1>2, <2>0, <2>3 DEF DeleteId
    <3>. QED
      BY <1>1, <1>2, <3>1, <3>2 DEF SetOK
  <2>4. CASE DropRoom(g)
    <3>1. frame[h].pc = "addId" => frame[g].room # frame[h].room
      BY <1>3, <2>4 DEF DropRoom, Contending
    <3>2. rooms'[frame[h].room] = rooms[frame[h].room] \/
            (frame[g].room = frame[h].room /\ rooms'[frame[h].room] = None)
      BY <1>2, <2>4 DEF DropRoom
    <3>3. idsIn' = idsIn
      BY <2>4 DEF DropRoom
    <3>. QED
      BY <1>1, <1>2, <3>1, <3>2, <3>3 DEF SetOK
  <2>5. CASE ~(LoadOrStoreRoom(g) \/ AddId(g) \/ DeleteId(g) \/ DropRoom(g))
    <3>1. UNCHANGED <<rooms, idsIn>>
      BY <2>5 DEF Step, CallJoin, Call, CheckCanJoin, LoadOrStoreOwn, AddRoom,
             CallLeave, CallCleanup, LoadOwn, DeleteRoom, Keys, NextRoom,
             LoadRoom, CheckLen, ForgetSid, ForbidJoin
    <3>. QED
      BY <1>1, <1>2, <3>1 DEF SetOK
  <2>. QED
    BY <2>1, <2>2, <2>3, <2>4, <2>5
<1>. QED
  BY <1>4, <1>5

(* A room that a socket lists and is not in belongs to a call under way. *)
LEMMA StepListed ==
  ASSUME AllOK, NEW g \in Goroutine, Step(g), Overlaps
  PROVE  ListedOK'
<1> SUFFICES ASSUME NEW id \in Sid \ crossed', NEW r \in Room \ contended',
                    Listed(id, r)', ~Member(id, r)'
             PROVE  \E h \in Goroutine : Unfinished(h, id, r)'
  BY DEF ListedOK
<1>0. id \in Sid \ crossed /\ r \in Room \ contended
  BY StepOverlaps
<1> USE DEF AllOK, SideBySide, IInv, MapsOK, FramesOK, FrameOK, CallOK, OpOK, At
<1>1. CASE Listed(id, r) /\ Member(id, r)
  <2>1. DeleteId(g) /\ id = frame[g].id /\ r = frame[g].room
    BY <1>0, <1>1, StepKeepsMember
  <2>2. frame[g].op = "cleanup"
    BY <1>0, <1>1, <2>1 DEF DeleteId, ProgressOK, RemovingOK
  <2>. QED
    BY <2>1, <2>2 DEF DeleteId, Goto, Unfinished, Deleting
<1>2. CASE Listed(id, r) /\ ~Member(id, r)
  <2>0. PICK h \in Goroutine : Unfinished(h, id, r)
    BY <1>0, <1>2 DEF ListedOK
  <2>1. CASE h # g
    BY <2>0, <2>1, StepFrame DEF Unfinished
  <2>2. CASE h = g /\ frame[g].pc = "storeRoom"
    <3>1. LoadOrStoreRoom(g)
      BY <2>2 DEF Step, CallJoin, Call, CheckCanJoin, LoadOrStoreOwn, AddRoom,
             AddId, CallLeave, CallCleanup, LoadOwn, DeleteRoom, Keys, NextRoom,
             LoadRoom, DeleteId, CheckLen, DropRoom, ForgetSid, ForbidJoin, Idle
    <3>. QED
      BY <2>0, <2>2, <3>1 DEF LoadOrStoreRoom, Unfinished, Deleting
  <2>3. CASE h = g /\ frame[g].pc = "addId"
    <3>1. AddId(g)
      BY <2>3 DEF Step, CallJoin, Call, CheckCanJoin, LoadOrStoreOwn, AddRoom,
             LoadOrStoreRoom, CallLeave, CallCleanup, LoadOwn, DeleteRoom, Keys,
             NextRoom, LoadRoom, DeleteId, CheckLen, DropRoom, ForgetSid,
             ForbidJoin, Idle
    <3>2. frame[g].id = id /\ frame[g].room = r
      BY <2>0, <2>3 DEF Unfinished, Deleting
    <3>3. id \in idsIn'[rooms'[r]] /\ rooms'[r] # None
      BY <1>0, <3>1, <3>2, AddressAssumption DEF AddId, SetOK
    <3>. QED
      BY <3>3 DEF Member
  <2>4. CASE h = g /\ frame[g].op = "cleanup" /\ frame[g].pc \in Deleting
    <3>1. frame[g].id = id
      BY <2>0, <2>4 DEF Unfinished
    <3>2. CASE ForgetSid(g)
      BY <3>1, <3>2 DEF ForgetSid, Listed
    <3>3. CASE NextRoom(g)
      BY <2>4, <3>1, <3>3 DEF NextRoom, Unfinished, Deleting
    <3>4. CASE DeleteId(g)
      BY <2>4, <3>1, <3>4 DEF DeleteId, Goto, Unfinished, Deleting
    <3>5. CASE LoadRoom(g) \/ CheckLen(g) \/ DropRoom(g)
      BY <2>4, <3>1, <3>5
      DEF LoadRoom, CheckLen, DropRoom, DelReturns, Goto, Unfinished, Deleting
    <3>6. frame[g] # Idle
      BY <2>4 DEF Deleting, Idle
    <3>. QED
      BY <2>4, <3>2, <3>3, <3>4, <3>5, <3>6
      DEF Deleting, Step, CallJoin, Call, CheckCanJoin, LoadOrStoreOwn, AddRoom,
          LoadOrStoreRoom, AddId, CallLeave, CallCleanup, LoadOwn, DeleteRoom,
          Keys, ForbidJoin
  <2>. QED
    BY <2>0, <2>1, <2>2, <2>3, <2>4 DEF Unfinished
<1>3. CASE ~Listed(id, r)
  <2>1. frame[g].id = id
    BY <1>3, StepOthers DEF Listed
  <2>2. CASE LoadOrStoreOwn(g)
    BY <1>3, <2>1, <2>2, AddressAssumption
    DEF LoadOrStoreOwn, Lowest, FreeRoomSet, Listed
  <2>3. CASE AddRoom(g)
    BY <1>3, <2>1, <2>3 DEF AddRoom, Listed, Unfinished
  <2>4. CASE DeleteRoom(g)
    BY <1>3, <2>4 DEF DeleteRoom, Listed
  <2>5. CASE ForgetSid(g)
    BY <2>1, <2>5 DEF ForgetSid, Listed
  <2>6. CASE ~(LoadOrStoreOwn(g) \/ AddRoom(g) \/ DeleteRoom(g) \/ ForgetSid(g))
    <3>1. UNCHANGED <<sids, roomsOf>>
      BY <2>6 DEF Step, CallJoin, Call, CheckCanJoin, LoadOrStoreRoom, AddId,
             CallLeave, CallCleanup, LoadOwn, Keys, NextRoom, LoadRoom, DeleteId,
             CheckLen, DropRoom, ForbidJoin
    <3>. QED
      BY <1>3, <3>1 DEF Listed
  <2>. QED
    BY <2>2, <2>3, <2>4, <2>5, <2>6
<1>. QED
  BY <1>1, <1>2, <1>3

LEMMA StepAll ==
  ASSUME AllOK, [Next]_vars
  PROVE  AllOK'
<1>1. SideBySide'
  BY StepSideBySide DEF AllOK
<1>2. CASE UNCHANGED vars
  BY <1>1, <1>2 DEF vars, AllOK, ListedOK, Listed, Member, Unfinished, SetOK
<1>3. ASSUME NEW g \in Goroutine, Step(g), Overlaps
      PROVE  AllOK'
  <2>1. contended \subseteq contended'
    BY <1>3, StepOverlaps
  <2>2. \A h \in Goroutine : SetOK(frame[h])'
    <3> SUFFICES ASSUME NEW h \in Goroutine, frame'[h].room \in Room \ contended'
                 PROVE  SetOK(frame[h])'
      BY DEF SetOK
    <3>1. CASE h = g
      BY <1>3, <2>1, <3>1, StepSet
    <3>2. CASE h # g
      <4>1. frame'[h] = frame[h]
        BY <1>3, <3>2, StepFrame DEF AllOK, SideBySide, IInv
      <4>. QED
        BY <1>3, <2>1, <3>2, <4>1, StepSetOthers
    <3>. QED
      BY <3>1, <3>2
  <2>. QED
    BY <1>1, <1>3, <2>2, StepListed DEF AllOK
<1>. QED
  BY <1>2, <1>3 DEF Next

(* A room that Socket.Rooms() lists once the calls on the socket have        *)
(* returned has the socket among its members, whatever calls run side by     *)
(* side, unless an AddAll for the socket overlapped a removal of it or any   *)
(* AddAll overlapped a _del of the very room.                                *)
THEOREM ListedMember == Spec => []ListedIsMember
<1>1. AllOK => ListedIsMember
  BY DEF AllOK, ListedOK, Unfinished, ListedIsMember, Quiet
<1>2. AllOK /\ [Next]_vars => AllOK'
  BY StepAll
<1>. QED
  BY InitAll, <1>1, <1>2, PTL DEF Spec

-----------------------------------------------------------------------------
(* The relation that the adapter's maps stand for. *)
Pairs == {p \in Sid \X Room : Member(p[1], p[2])}
Open == {id \in Sid : canJoin[id]}
Calling == {id \in Sid : ~Quiet(id)}

LEMMA PairsMember ==
  ASSUME NEW id \in Sid, NEW r \in Room
  PROVE  <<id, r>> \in Pairs <=> Member(id, r)
BY DEF Pairs

(* A goroutine's call goes on or returns. *)
LEMMA StepGoesOn ==
  ASSUME AllOK, NEW g \in Goroutine, Step(g), frame[g].pc # "idle"
  PROVE  /\ frame[g].id \in Calling /\ Calling' \in {Calling, Calling \ {frame[g].id}}
         /\ \A h \in Goroutine : h # g /\ frame[h].id = frame[g].id => frame[g].id \in Calling'
<1>0. frame[g] # Idle
  BY DEF Idle
<1>1. frame'[g] = Idle \/ frame'[g].id = frame[g].id
  BY <1>0, StepCaller DEF AllOK, SideBySide, IInv
<1>2. frame[g].id \in Sid
  BY DEF AllOK, SideBySide, IInv, FramesOK, FrameOK
<1>3. \A h \in Goroutine : h # g => frame'[h] = frame[h]
  BY StepFrame DEF AllOK, SideBySide, IInv
<1>4. \A id \in Sid : id # frame[g].id => (id \in Calling' <=> id \in Calling)
  BY <1>1, <1>3, AddressAssumption DEF Calling, Quiet, Idle
<1>5. frame[g].id \in Calling
  BY <1>2 DEF Calling, Quiet
<1>6. Calling' \in {Calling, Calling \ {frame[g].id}}
  BY <1>4, <1>5 DEF Calling
<1>. QED
  BY <1>2, <1>3, <1>5, <1>6 DEF Calling, Quiet

(* A call that begins concerns its own socket and changes nothing yet. *)
LEMMA StepCalls ==
  ASSUME AllOK, NEW g \in Goroutine, CallJoin(g) \/ CallLeave(g) \/ CallCleanup(g)
  PROVE  /\ UNCHANGED <<rooms, idsIn, canJoin>>
         /\ \E id \in Sid : Calling' = Calling \cup {id}
<1>1. PICK id \in Sid : frame[g] = Idle /\ frame'[g].id = id
                        /\ UNCHANGED <<rooms, idsIn, canJoin>>
  BY DEF AllOK, SideBySide, IInv, MapsOK, CallJoin, CallLeave, CallCleanup, Call
<1>2. \A h \in Goroutine : h # g => frame'[h] = frame[h]
  BY StepFrame DEF Step, AllOK, SideBySide, IInv
<1>3. Calling' = Calling \cup {id}
  BY <1>1, <1>2, AddressAssumption DEF Calling, Quiet, Idle
<1>. QED
  BY <1>1, <1>3

(* Each step of the adapter is a step of the relation. *)
LEMMA StepRelation ==
  ASSUME AllOK, NEW g \in Goroutine, Step(g), Overlaps
  PROVE  Relation!Next
<1>0. crossed \subseteq crossed' /\ contended \subseteq contended'
  BY StepOverlaps
<1> USE <1>0 DEF Relation!Next, Relation!GoesOn
<1>m. ASSUME NEW p \in Sid \X Room
      PROVE  /\ p \in Pairs' => p \in Pairs \/ (AddId(g) /\ p = <<frame[g].id, frame[g].room>>)
             /\ p \in Pairs /\ p[2] \notin contended =>
                  p \in Pairs' \/ (DeleteId(g) /\ p = <<frame[g].id, frame[g].room>>)
  BY StepMember, StepKeepsMember DEF Pairs, AllOK, SideBySide
<1>1. CASE CallJoin(g) \/ CallLeave(g) \/ CallCleanup(g)
  <2>1. PICK i \in Sid : Calling' = Calling \cup {i}
    BY <1>1, StepCalls
  <2>2. Pairs' = Pairs /\ Open' = Open
    BY <1>1, StepCalls DEF Pairs, Open, Member
  <2>3. Relation!Call(i)
    BY <2>1, <2>2 DEF Relation!Call, Pairs, Open, Calling
  <2>. QED
    BY <2>3
<1>2. CASE ~(CallJoin(g) \/ CallLeave(g) \/ CallCleanup(g))
  <2>1. frame[g].pc # "idle"
    BY <1>2 DEF Step, CheckCanJoin, LoadOrStoreOwn, AddRoom, LoadOrStoreRoom,
       AddId, LoadOwn, DeleteRoom, Keys, NextRoom, LoadRoom, DeleteId, CheckLen,
       DropRoom, ForgetSid, ForbidJoin, At
  <2>2. PICK i \in Sid : i = frame[g].id
    BY <2>1 DEF AllOK, SideBySide, IInv, FramesOK, FrameOK
  <2>3. Relation!GoesOn(i)
    BY <2>1, <2>2, StepGoesOn DEF Calling
  <2>4. CASE AddId(g)
    <3>1. PICK r \in Room : r = frame[g].room
      BY <2>4 DEF AllOK, SideBySide, IInv, FramesOK, FrameOK, AddId, At
    <3>2. Open' = Open
      BY <2>4 DEF AddId, Open
    <3>3. \A p \in Pairs : p \in Pairs'
      BY <2>4 DEF AddId, Pairs, Member, AllOK, SideBySide, IInv, MapsOK
    <3>4. CASE Member(i, r)'
      <4>1. Pairs' = Pairs \cup {<<i, r>>}
        BY <1>m, <2>2, <3>1, <3>3, <3>4 DEF Pairs
      <4>2. i \in Open \cup crossed
        BY <2>2, <2>4 DEF AllOK, SideBySide, ProgressOK, AddingOK, Adding, AddId, At, Open
      <4>3. Relation!Enter(i, r)
        BY <2>3, <3>2, <4>1, <4>2 DEF Relation!Enter, Pairs, Open
      <4>. QED
        BY <4>3
    <3>5. CASE ~Member(i, r)'
      <4>1. Pairs' = Pairs
        BY <1>m, <2>2, <3>1, <3>3, <3>5 DEF Pairs
      <4>2. Relation!Return(i)
        BY <2>3, <3>2, <4>1 DEF Relation!Return, Pairs, Open
      <4>. QED
        BY <4>2
    <3>. QED
      BY <3>4, <3>5
  <2>5. CASE DeleteId(g)
    <3>1. PICK r \in Room : r = frame[g].room
      BY <2>5 DEF AllOK, SideBySide, IInv, FramesOK, FrameOK, DeleteId, At
    <3>2. Open' = Open
      BY <2>5 DEF DeleteId, Open
    <3>3. \A id \in Sid, q \in Room : Member(id, q) => Member(id, q)' \/ (id = i /\ q = r)
      BY <2>2, <2>5, <3>1
      DEF AllOK, SideBySide, IInv, MapsOK, FramesOK, FrameOK, HeldForItsRoom, DeleteId, At, Member
    <3>4. \A p \in Pairs' : p \in Pairs
      BY <1>m, <2>5 DEF Pairs, DeleteId, AddId, At
    <3>5. CASE Member(i, r)'
      <4>1. Pairs' = Pairs
        BY <3>3, <3>4, <3>5 DEF Pairs
      <4>2. Relation!Return(i)
        BY <2>3, <3>2, <4>1 DEF Relation!Return, Pairs, Open
      <4>. QED
        BY <4>2
    <3>6. CASE ~Member(i, r)'
      <4>1. \A p \in Sid \X Room : p \in Pairs' <=> p \in Pairs /\ p # <<i, r>>
        <5> SUFFICES ASSUME NEW id \in Sid, NEW q \in Room
                     PROVE  <<id, q>> \in Pairs' <=> <<id, q>> \in Pairs /\ <<id, q>> # <<i, r>>
          OBVIOUS
        <5>1. <<id, q>> \in Pairs => Member(id, q)
          BY DEF Pairs
        <5>2. Member(id, q)' => <<id, q>> \in Pairs'
          BY DEF Pairs
        <5>3. <<i, r>> \notin Pairs'
          BY <3>6 DEF Pairs
        <5>. QED
          BY <3>3, <3>4, <5>1, <5>2, <5>3
      <4>2. Pairs' = Pairs \ {<<i, r>>}
        BY <4>1 DEF Pairs
      <4>3. Relation!Exit(i, r)
        BY <2>3, <3>2, <4>2 DEF Relation!Exit, Pairs, Open
      <4>. QED
        BY <4>3
    <3>. QED
      BY <3>5, <3>6
  <2>6. CASE ForbidJoin(g)
    <3>1. (\A r \in Room : <<i, r>> \notin Pairs) \/ i \in Calling' \cup crossed
      <4>1. ASSUME i \notin crossed, NEW r \in Room, Member(i, r)
            PROVE  i \in Calling'
        <5>1. IsLeft(i, r)
          BY <2>2, <2>6, <4>1 DEF AllOK, SideBySide, ProgressOK, CleaningOK, ForbidJoin, At
        <5>2. PICK h \in Goroutine : Leaving(h, i, r)
          BY <5>1 DEF IsLeft
        <5>3. h # g /\ frame[h].id = frame[g].id
          BY <2>2, <2>6, <5>2 DEF Leaving, ForbidJoin, At
        <5>. QED
          BY <2>1, <2>2, <5>3, StepGoesOn
      <4>. QED
        BY <4>1 DEF Pairs
    <3>2. Pairs' = Pairs
      BY <2>6 DEF ForbidJoin, Pairs, Member
    <3>3. Open' = Open \ {i}
      BY <2>2, <2>6 DEF AllOK, SideBySide, IInv, MapsOK, ForbidJoin, Open
    <3>4. Relation!ShutOut(i)
      BY <2>3, <3>1, <3>2, <3>3 DEF Relation!ShutOut, Pairs, Open, Calling
    <3>. QED
      BY <3>4
  <2>7. CASE DropRoom(g)
    <3>1. PICK r \in Room : r = frame[g].room
      BY <2>7 DEF AllOK, SideBySide, IInv, FramesOK, FrameOK, DropRoom, At
    <3>2. Open' = Open
      BY <2>7 DEF DropRoom, Open
    <3>3. CASE r \in contended
      <4>1. \A id \in Sid, q \in Room : Member(id, q)' <=> Member(id, q) /\ q # r
        BY <2>7, <3>1 DEF DropRoom, Member, AllOK, SideBySide, IInv, MapsOK
      <4>2. Pairs' = {p \in Pairs : p[2] # r}
        BY <4>1 DEF Pairs
      <4>3. Relation!Lose(i, r)
        BY <2>3, <3>2, <3>3, <4>2 DEF Relation!Lose, Pairs, Open
      <4>. QED
        BY <4>3
    <3>4. CASE r \notin contended
      <4>1. \A id \in Sid, q \in Room : Member(id, q)' <=> Member(id, q)
        BY <2>7, <3>1, <3>4 DEF DropRoom, Member, AllOK, SideBySide, IInv, MapsOK, SetOK, At
      <4>2. Pairs' = Pairs
        BY <4>1 DEF Pairs
      <4>3. Relation!Return(i)
        BY <2>3, <3>2, <4>2 DEF Relation!Return, Pairs, Open
      <4>. QED
        BY <4>3
    <3>. QED
      BY <3>3, <3>4
  <2>8. CASE ~(AddId(g) \/ DeleteId(g) \/ ForbidJoin(g) \/ DropRoom(g))
    <3>1. canJoin' = canJoin
      BY <2>8 DEF Step, CallJoin, Call, CheckCanJoin, LoadOrStoreOwn, AddRoom,
             LoadOrStoreRoom, CallLeave, CallCleanup, LoadOwn, DeleteRoom, Keys,
             NextRoom, LoadRoom, CheckLen, ForgetSid
    <3>2. \A id \in Sid, q \in Room : Member(id, q)' <=> Member(id, q)
      <4>1. CASE LoadOrStoreRoom(g)
        BY <4>1 DEF LoadOrStoreRoom, Lowest, FreeSidSet, Member, AllOK, SideBySide, IInv, MapsOK
      <4>2. CASE ~LoadOrStoreRoom(g)
        <5>1. UNCHANGED <<rooms, idsIn>>
          BY <2>8, <4>2 DEF Step, CallJoin, Call, CheckCanJoin, LoadOrStoreOwn, AddRoom,
                 CallLeave, CallCleanup, LoadOwn, DeleteRoom, Keys, NextRoom,
                 LoadRoom, CheckLen, ForgetSid, ForbidJoin
        <5>. QED
          BY <5>1 DEF Member
      <4>. QED
        BY <4>1, <4>2
    <3>3. Pairs' = Pairs /\ Open' = Open
      BY <3>1, <3>2 DEF Open, Pairs
    <3>4. Relation!Return(i)
      BY <2>3, <3>3 DEF Relation!Return, Pairs, Open
    <3>. QED
      BY <3>4
  <2>. QED
    BY <2>4, <2>5, <2>6, <2>7, <2>8
<1>. QED
  BY <1>1, <1>2

(* With any number of goroutines the maps implement the relation: AddAll     *)
(* adds one pair at a time and only while the socket may join, Del and       *)
(* DelAll take away their own socket's pairs only, _cleanup shuts the socket *)
(* out when none is left but those another call is taking away; only in a    *)
(* contended room are others lost.                                           *)
THEOREM Implements == Spec => ImplementsRelation
<1>1. Init => Relation!Init
  BY AddressAssumption DEF Init, Relation!Init, Member, Quiet, Idle
<1>2. AllOK /\ [Next]_vars => AllOK'
  BY StepAll
<1>3. AllOK /\ [Next]_vars => [Relation!Next]_(Relation!vars)
  <2>1. ASSUME UNCHANGED vars
        PROVE  UNCHANGED Relation!vars
    BY <2>1 DEF vars, Relation!vars, Member, Quiet
  <2>. QED
    BY <2>1, StepRelation DEF Next
<1>. QED
  BY InitAll, <1>1, <1>2, <1>3, PTL DEF Spec, ImplementsRelation, Relation!Spec

-----------------------------------------------------------------------------
(***************************************************************************)
(* apply: how a broadcast selects its sockets (RoomBroadcast).             *)
(***************************************************************************)
VARIABLES members, nspSockets

Apply == INSTANCE RoomBroadcast

(* What RoomBroadcast assumes of its constants. *)
Named == All \notin Room /\ None \notin SocketId \cup Room

(* kept holds memberships of the moment, and seen all of them. *)
HistoryNow ==
  /\ \A id \in SocketId, r \in Apply!Rooms :
       <<id, r>> \in kept => id \in members[r] /\ id \in nspSockets
  /\ walk.pc # "idle" =>
       \A id \in SocketId, r \in Apply!Rooms : id \in members[r] => <<id, r>> \in seen

(* What the local variables hold at each step of apply. *)
WalkStepOK ==
  /\ walk.opts.rooms \subseteq Room
  /\ walk.pc \in {"idle", "except"} => walk.ids = {}
  /\ walk.pc \in {"idle", "except", "rooms", "done"} => walk.pending = {}
  /\ walk.pc = "done" => walk.todo = {}
  /\ IF walk.pc = "call"
     THEN walk.sock \in SocketId /\ walk.sock \notin walk.ids \cup walk.except
     ELSE walk.sock = None
  /\ walk.ids \cap walk.except = {}

(* The callback ran for walk.ids, once each. *)
GotOK == \A id \in SocketId : got[id] = IF id \in walk.ids THEN 1 ELSE 0

(* The excepted rooms that apply has read: no stable member is left out of  *)
(* walk.except, and nobody is in it without a reason.                       *)
ExceptOK ==
  /\ walk.pc \notin {"idle", "except"} \/ walk.todo \subseteq walk.opts.except
  /\ walk.pc # "idle" =>
       \A x \in walk.opts.except : (walk.pc = "except" => x \notin walk.todo) =>
         \A id \in SocketId : <<id, x>> \in kept => id \in walk.except
  /\ \A id \in walk.except : \E x \in walk.opts.except : <<id, x>> \in seen

(* Whoever apply looks at was seen in a target. *)
FoundOK ==
  /\ walk.pc \in {"rooms", "ids", "call", "done"} => walk.todo \subseteq Targets
  /\ \A id \in walk.ids \cup ({walk.sock} \ {None}) :
       \E r \in Targets : <<id, r>> \in seen
  /\ walk.opts.rooms # {} => \A id \in walk.pending :
       \E r \in Targets : <<id, r>> \in seen

(* A stable member of a target already read is served or still pending. *)
Excused(id) == \E x \in walk.opts.except : <<id, x>> \in seen
ServedOK ==
  walk.pc \in {"rooms", "ids", "call", "done"} =>
    \A r \in Targets \ walk.todo : \A id \in SocketId :
      <<id, r>> \in kept =>
        id \in walk.pending \cup walk.ids \cup {walk.sock} \/ Excused(id)

WalkInv == /\ Apply!TypeOK /\ HistoryNow /\ WalkStepOK /\ GotOK
       /\ ExceptOK /\ FoundOK /\ ServedOK

-----------------------------------------------------------------------------
LEMMA WalkInitInv == Named /\ Apply!Init => WalkInv
<1> SUFFICES ASSUME Named, Apply!Init PROVE WalkInv
  OBVIOUS
<1> USE DEF Named, Apply!Init, Apply!Frame, Apply!NoOptions
<1>1. Apply!TypeOK
  BY DEF Apply!TypeOK, Apply!WorldOK, Apply!HistoryOK, Apply!WalkOK, Apply!Options,
         Apply!Op, Apply!Rooms
<1> QED
  BY <1>1 DEF WalkInv, HistoryNow, WalkStepOK, GotOK, ExceptOK, FoundOK, ServedOK

(* What a change of memberships does to the history. *)
LEMMA RecordOK ==
  ASSUME Apply!TypeOK, Apply!WorldOK', Apply!Record
  PROVE  /\ kept' \subseteq kept /\ seen \subseteq seen' /\ Apply!HistoryOK'
         /\ \A id \in SocketId, r \in Apply!Rooms :
              <<id, r>> \in kept' => id \in members'[r] /\ id \in nspSockets'
         /\ \A id \in SocketId, r \in Apply!Rooms : id \in members'[r] => <<id, r>> \in seen'
  BY DEF Apply!TypeOK, Apply!WorldOK, Apply!HistoryOK, Apply!Record,
         Apply!MembershipsOf

(* The other goroutines disturb nothing that apply relies on. *)
LEMMA OthersInv == WalkInv /\ Apply!Others => WalkInv'
<1> SUFFICES ASSUME WalkInv, NEW id \in SocketId,
                    \/ Apply!Track(id) \/ Apply!Join(id) \/ Apply!Leave(id)
                    \/ Apply!Cleanup(id) \/ Apply!Remove(id)
             PROVE  WalkInv'
  BY DEF Apply!Others
<1>1. Apply!WorldOK' /\ Apply!Record /\ UNCHANGED <<walk, got>>
  BY DEF Apply!Track, Apply!Join, Apply!Leave, Apply!Cleanup, Apply!Remove,
         Apply!Joins, Apply!Leaves, WalkInv, Apply!TypeOK, Apply!WorldOK,
         Apply!Rooms
<1>2. /\ kept' \subseteq kept /\ seen \subseteq seen' /\ Apply!HistoryOK'
      /\ HistoryNow'
  BY <1>1, RecordOK DEF WalkInv, HistoryNow
<1>3. Apply!TypeOK' /\ WalkStepOK' /\ GotOK'
  BY <1>1, <1>2 DEF WalkInv, Apply!TypeOK, Apply!WalkOK, WalkStepOK, GotOK
<1>4. ExceptOK'
  BY <1>1, <1>2 DEF WalkInv, ExceptOK
<1>5. FoundOK'
  BY <1>1, <1>2 DEF WalkInv, FoundOK, Targets
<1>6. ServedOK'
  BY <1>1, <1>2 DEF WalkInv, ServedOK, Targets, Excused
<1> QED
  BY <1>2, <1>3, <1>4, <1>5, <1>6 DEF WalkInv

(* The steps of apply that change only its own variables. *)
LEMMA LocalInv ==
  ASSUME Named, WalkInv,
         \/ Apply!ExceptRoom \/ Apply!ExceptDone \/ Apply!NextRoom \/ Apply!Skip
         \/ Apply!Load \/ Apply!RoomDone \/ Apply!Return
  PROVE  WalkInv'
<1>0. Apply!Quiet
  BY DEF Apply!ExceptRoom, Apply!ExceptDone, Apply!NextRoom, Apply!Skip, Apply!Load,
         Apply!RoomDone, Apply!Return
<1>1. Apply!TypeOK'
  BY <1>0
  DEF Named, Apply!ExceptRoom, Apply!ExceptDone, Apply!NextRoom, Apply!Skip, Apply!Load,
      Apply!RoomDone, Apply!Return, Apply!Quiet, Apply!Frame, WalkInv,
      Apply!TypeOK, Apply!WorldOK, Apply!HistoryOK, Apply!WalkOK, Apply!At,
      Targets, Apply!Targets, Apply!Options, Apply!Rooms
<1>2. HistoryNow' /\ WalkStepOK'
  BY <1>0
  DEF Named, Apply!ExceptRoom, Apply!ExceptDone, Apply!NextRoom, Apply!Skip, Apply!Load,
      Apply!RoomDone, Apply!Return, Apply!Quiet, Apply!Frame, WalkInv,
      Apply!TypeOK, Apply!WalkOK, Apply!At, HistoryNow, WalkStepOK
<1>3. GotOK'
  BY <1>0
  DEF Apply!ExceptRoom, Apply!ExceptDone, Apply!NextRoom, Apply!Skip, Apply!Load,
      Apply!RoomDone, Apply!Return, Apply!Quiet, Apply!Frame, WalkInv, Apply!At,
      WalkStepOK, GotOK
<1>4. Targets' = Targets
  BY DEF Apply!ExceptRoom, Apply!ExceptDone, Apply!NextRoom, Apply!Skip, Apply!Load,
         Apply!RoomDone, Apply!Return, Apply!Frame, Targets, Apply!Targets
<1>5. CASE Apply!ExceptRoom
  BY <1>0, <1>1, <1>2, <1>3, <1>4, <1>5
  DEF Apply!ExceptRoom, Apply!Quiet, Apply!Frame, WalkInv, Apply!TypeOK,
      Apply!WorldOK, Apply!WalkOK, Apply!Options, Apply!At, HistoryNow,
      WalkStepOK, ExceptOK, FoundOK, ServedOK, Apply!Rooms
<1>6. CASE Apply!ExceptDone
  BY <1>0, <1>1, <1>2, <1>3, <1>4, <1>6
  DEF Apply!ExceptDone, Apply!Quiet, Apply!Frame, WalkInv, Apply!TypeOK, Apply!At,
      WalkStepOK, ExceptOK, FoundOK, ServedOK, Targets, Apply!Targets
<1>7. CASE Apply!NextRoom
  <2>1. ExceptOK'
    BY <1>0, <1>7
    DEF Apply!NextRoom, Apply!Quiet, Apply!Frame, WalkInv, Apply!At, ExceptOK
  <2>2. FoundOK'
    <3>1. Targets \subseteq Apply!Rooms
      BY DEF Targets, Apply!Rooms, WalkInv, Apply!TypeOK, Apply!WalkOK,
             Apply!Options
    <3>2. walk.opts.rooms # {} => Targets = walk.opts.rooms /\ All \notin Targets
      BY DEF Named, Targets, WalkInv, WalkStepOK
    <3> QED
      BY <1>0, <1>4, <1>7, <3>1, <3>2
      DEF Apply!NextRoom, Apply!Quiet, Apply!Frame, WalkInv, Apply!TypeOK,
          Apply!WorldOK, Apply!At, HistoryNow, WalkStepOK, FoundOK
  <2>3. ServedOK'
    <3>1. Targets \subseteq Apply!Rooms
      BY DEF Targets, Apply!Rooms, WalkInv, Apply!TypeOK, Apply!WalkOK,
             Apply!Options
    <3> QED
      BY <1>0, <1>4, <1>7, <3>1
      DEF Apply!NextRoom, Apply!Quiet, Apply!Frame, WalkInv, Apply!TypeOK,
          Apply!At, HistoryNow, WalkStepOK, ServedOK, Excused
  <2> QED
    BY <1>1, <1>2, <1>3, <2>1, <2>2, <2>3 DEF WalkInv
<1>8. CASE Apply!Skip
  <2>1. ExceptOK' /\ FoundOK'
    BY <1>0, <1>4, <1>8
    DEF Apply!Skip, Apply!Quiet, Apply!Frame, WalkInv, Apply!At, ExceptOK,
        FoundOK, WalkStepOK
  <2>2. ServedOK'
    <3>1. Targets \subseteq Apply!Rooms
      BY DEF Targets, Apply!Rooms, WalkInv, Apply!TypeOK, Apply!WalkOK,
             Apply!Options
    <3> QED
      BY <1>0, <1>4, <1>8, <3>1
      DEF Apply!Skip, Apply!Present, Targets, Apply!Targets, Apply!Quiet,
          Apply!Frame, WalkInv, Apply!TypeOK, Apply!At, HistoryNow, WalkStepOK, ServedOK, ExceptOK,
          Excused
  <2> QED
    BY <1>1, <1>2, <1>3, <2>1, <2>2 DEF WalkInv
<1>9. CASE Apply!Load
  <2>0. ASSUME NEW id \in walk.pending, id \in SocketId, Apply!Present(id)
        PROVE  \E r \in Targets : <<id, r>> \in seen
    BY <1>9, <2>0
    DEF Apply!Load, Apply!At, Apply!Present, Targets, Apply!Targets, Apply!Rooms,
        WalkInv, HistoryNow, FoundOK
  <2>1. ExceptOK' /\ FoundOK'
    <3>1. ExceptOK'
      BY <1>0, <1>9
      DEF Apply!Load, Apply!Quiet, Apply!Frame, WalkInv, Apply!At, ExceptOK
    <3>2. PICK id \in walk.pending :
            /\ id \in SocketId /\ Apply!Present(id)
            /\ walk' = Apply!Frame("call", walk.opts, walk.todo, walk.except,
                                   walk.pending \ {id}, walk.ids, id)
      BY <1>9 DEF Apply!Load, WalkInv, Apply!TypeOK, Apply!WalkOK
    <3>3. walk.pc = "ids" /\ walk.sock = None /\ UNCHANGED <<kept, seen>>
      BY <1>0, <1>9 DEF Apply!Load, Apply!Quiet, Apply!At, WalkInv, WalkStepOK
    <3>4. FoundOK'
      BY <1>4, <2>0, <3>2, <3>3 DEF Apply!Frame, WalkInv, FoundOK
    <3> QED
      BY <3>1, <3>4
  <2>2. /\ walk'.opts = walk.opts /\ walk'.todo = walk.todo
        /\ walk'.ids = walk.ids
        /\ walk.pc = "ids" /\ walk.sock = None
        /\ walk.pending \subseteq walk'.pending \cup {walk'.sock}
        /\ UNCHANGED <<kept, seen>>
    BY <1>0, <1>9
    DEF Apply!Load, Apply!Quiet, Apply!Frame, WalkInv, Apply!At, WalkStepOK
  <2>3. ServedOK'
    BY <1>4, <2>2 DEF Named, WalkInv, ServedOK, Excused
  <2> QED
    BY <1>1, <1>2, <1>3, <2>1, <2>3 DEF WalkInv
<1>10. CASE Apply!RoomDone \/ Apply!Return
  <2>1. /\ walk'.opts = walk.opts /\ walk'.except = walk.except
        /\ walk'.ids = walk.ids /\ walk'.todo = walk.todo
        /\ walk'.pending = walk.pending /\ walk'.sock = walk.sock
        /\ walk.pc \in {"rooms", "ids"} /\ walk'.pc \in {"rooms", "done"}
        /\ UNCHANGED <<kept, seen>>
    BY <1>0, <1>10
    DEF Apply!RoomDone, Apply!Return, Apply!Quiet, Apply!Frame, WalkInv, Apply!At,
        WalkStepOK
  <2>2. ExceptOK'
    BY <2>1 DEF WalkInv, ExceptOK
  <2>3. FoundOK' /\ ServedOK'
    BY <1>4, <2>1 DEF WalkInv, FoundOK, ServedOK, Excused
  <2> QED
    BY <1>1, <1>2, <1>3, <2>2, <2>3 DEF WalkInv
<1> QED
  BY <1>5, <1>6, <1>7, <1>8, <1>9, <1>10

LEMMA ApplyInv == WalkInv /\ Apply!Apply => WalkInv'
<1> SUFFICES ASSUME WalkInv, Apply!Apply PROVE WalkInv'
  OBVIOUS
<1> USE DEF Apply!Apply, Apply!Frame, Apply!At
<1>1. Apply!TypeOK'
  BY DEF WalkInv, Apply!TypeOK, Apply!WorldOK, Apply!HistoryOK, Apply!WalkOK,
         Apply!Options, Apply!Rooms, Apply!MembershipsOf
<1>2. HistoryNow' /\ WalkStepOK' /\ GotOK'
  BY DEF WalkInv, Apply!TypeOK, Apply!WorldOK, HistoryNow, WalkStepOK, GotOK,
         Apply!MembershipsOf
<1>3. ExceptOK' /\ FoundOK' /\ ServedOK'
  BY DEF ExceptOK, FoundOK, ServedOK
<1> QED
  BY <1>1, <1>2, <1>3 DEF WalkInv

LEMMA CallbackInv == Named /\ WalkInv /\ Apply!Callback => WalkInv'
<1> SUFFICES ASSUME Named, WalkInv, Apply!Callback PROVE WalkInv'
  OBVIOUS
<1> USE DEF Apply!At
<1>1. walk.sock \in SocketId /\ walk.sock \notin walk.ids /\ walk.pc = "call"
      /\ walk.sock \notin walk.except
  BY DEF Apply!Callback, WalkInv, WalkStepOK
<1>2. Apply!WorldOK'
  BY <1>1
  DEF Apply!Callback, Apply!Effect, Apply!world, Apply!Joins, Apply!Leaves, WalkInv,
      Apply!TypeOK, Apply!WorldOK, Apply!Rooms
<1>3. /\ kept' \subseteq kept /\ seen \subseteq seen' /\ Apply!HistoryOK'
      /\ HistoryNow'
  BY <1>2, RecordOK DEF Apply!Callback, WalkInv, HistoryNow
<1>4. walk' = Apply!Frame("ids", walk.opts, walk.todo, walk.except, walk.pending,
                    walk.ids \cup {walk.sock}, None)
      /\ got' = [got EXCEPT ![walk.sock] = @ + 1]
  BY DEF Apply!Callback
<1>5. Apply!TypeOK'
  BY <1>1, <1>2, <1>3, <1>4 DEF Apply!Frame, WalkInv, Apply!TypeOK, Apply!WalkOK
<1>6. WalkStepOK' /\ GotOK'
  BY <1>1, <1>4
  DEF Named, Apply!Frame, WalkInv, Apply!TypeOK, WalkStepOK, GotOK
<1>7. Targets' = Targets
  BY <1>4 DEF Apply!Frame, Targets
<1>8. ExceptOK'
  BY <1>1, <1>3, <1>4 DEF Apply!Frame, WalkInv, ExceptOK
<1>9. FoundOK'
  BY <1>1, <1>3, <1>4, <1>7 DEF Named, Apply!Frame, WalkInv, FoundOK
<1>10. ServedOK'
  BY <1>1, <1>3, <1>4, <1>7 DEF Apply!Frame, WalkInv, ServedOK, Excused
<1> QED
  BY <1>3, <1>5, <1>6, <1>8, <1>9, <1>10 DEF WalkInv

LEMMA WalkNextInv == Named /\ WalkInv /\ [Apply!Next]_(Apply!vars) => WalkInv'
<1> SUFFICES ASSUME Named, WalkInv, [Apply!Next]_(Apply!vars) PROVE WalkInv'
  OBVIOUS
<1>1. CASE UNCHANGED Apply!vars
  BY <1>1
  DEF Apply!vars, WalkInv, Apply!TypeOK, Apply!WorldOK, Apply!HistoryOK,
      Apply!WalkOK, HistoryNow, WalkStepOK, GotOK, ExceptOK, FoundOK, ServedOK,
      Targets, Excused
<1> QED
  BY <1>1, OthersInv, LocalInv, ApplyInv, CallbackInv DEF Apply!Next, Apply!Walk

LEMMA WalkSpecInv ==
  ASSUME Named PROVE Apply!Spec => []WalkInv
  BY WalkInitInv, WalkNextInv, PTL DEF Apply!Spec

-----------------------------------------------------------------------------
(* Types, for any number of sockets and rooms. *)
THEOREM SelectionTypeCorrect ==
  ASSUME Named PROVE Apply!Spec => []Apply!TypeOK
  BY WalkSpecInv, PTL DEF WalkInv

(* No socket is notified twice, however many rooms it is in. *)
THEOREM OncePerSocket ==
  ASSUME Named PROVE Apply!Spec => []NotifiedOnce
<1>1. WalkInv => NotifiedOnce
  <2>1. \A id \in SocketId : GotOK => got[id] = 0 \/ got[id] = 1
    BY DEF GotOK
  <2>2. 0 <= 1 /\ 1 <= 1
    OBVIOUS
  <2> QED
    BY <2>1, <2>2 DEF WalkInv, NotifiedOnce
<1> QED
  BY <1>1, WalkSpecInv, PTL

(* No stable member of a target room is missed. *)
THEOREM NoStableMemberMissed ==
  ASSUME Named PROVE Apply!Spec => []StableMembersNotified
<1>1. WalkInv => StableMembersNotified
  <2> SUFFICES ASSUME WalkInv, walk.pc = "done", NEW id \in SocketId, Missed(id) PROVE FALSE
    BY DEF StableMembersNotified
  <2>1. id \notin walk.ids /\ walk.pending = {} /\ walk.todo = {}
        /\ walk.sock = None
    BY DEF WalkInv, GotOK, WalkStepOK, Missed, Apply!At
  <2> QED
    BY <2>1 DEF Named, WalkInv, ServedOK, Missed, Excused, Apply!At
<1> QED
  BY <1>1, WalkSpecInv, PTL

(* No stable member of an excepted room is notified. *)
THEOREM ExceptedAreLeftOut ==
  ASSUME Named PROVE Apply!Spec => []ExceptRespected
<1>1. WalkInv => ExceptRespected
  <2> SUFFICES ASSUME WalkInv, NEW id \in SocketId, got[id] > 0,
                      NEW x \in walk.opts.except, <<id, x>> \in kept
               PROVE  FALSE
    BY DEF ExceptRespected
  <2>1. id \in walk.ids
    BY DEF WalkInv, GotOK
  <2> QED
    BY <2>1 DEF WalkInv, WalkStepOK, ExceptOK
<1> QED
  BY <1>1, WalkSpecInv, PTL

(* Nobody is notified who was in none of the rooms meanwhile. *)
THEOREM OnlyMembers ==
  ASSUME Named PROVE Apply!Spec => []OnlyMembersNotified
<1>1. WalkInv => OnlyMembersNotified
  BY DEF WalkInv, GotOK, FoundOK, OnlyMembersNotified
<1> QED
  BY <1>1, WalkSpecInv, PTL
=============================================================================
