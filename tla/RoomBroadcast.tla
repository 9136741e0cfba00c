---------------------------- MODULE RoomBroadcast ----------------------------
(***************************************************************************)
(* adapter.apply (socket/adapter.go): how a broadcast, FetchSockets,       *)
(* SocketsJoin, SocketsLeave and DisconnectSockets find their sockets,     *)
(* while other goroutines connect and close sockets and move them between  *)
(* rooms.                                                                  *)
(*                                                                         *)
(* A room is its set of members here: the race between its last Del and    *)
(* the next AddAll is the business of RoomMembership.  The keys of         *)
(* adapter.sids are the members of All, the target of a broadcast without  *)
(* rooms.  The canJoin test of Join may have come long before its AddAll,   *)
(* and a restored session brings back the id of a socket that is gone, so    *)
(* that neither limits what the other goroutines may do here.              *)
(***************************************************************************)
EXTENDS Naturals, Selection

CONSTANTS Room, None

ASSUME NamesAssumption == All \notin Room /\ None \notin SocketId /\ None \notin Room

VARIABLES
  members,     \* adapter.rooms, and the keys of adapter.sids under All
  nspSockets   \* namespace.sockets

world == <<members, nspSockets>>
vars == <<members, nspSockets, walk, got, kept, seen>>

Rooms == Room \cup {All}
Op == {"broadcast", "join", "leave", "disconnect"}

Frame(pc, opts, todo, except, pending, ids, sock) ==
  [pc |-> pc, opts |-> opts, todo |-> todo, except |-> except,
   pending |-> pending, ids |-> ids, sock |-> sock]
Options == [op : Op, arg : Room \cup {None}, rooms : SUBSET Rooms,
            except : SUBSET Room]
NoOptions == [op |-> "broadcast", arg |-> None, rooms |-> {}, except |-> {}]

Init ==
  /\ members = [r \in Rooms |-> {}] /\ nspSockets = {}
  /\ walk = Frame("idle", NoOptions, {}, {}, {}, {}, None)
  /\ got = [id \in SocketId |-> 0] /\ kept = {} /\ seen = {}

-----------------------------------------------------------------------------
(* What happens to the rooms, and what the history makes of it. *)
MembershipsOf(m) == {p \in SocketId \X Rooms : p[1] \in m[p[2]]}
Record ==
  /\ kept' = {p \in kept : p[1] \in members'[p[2]] /\ p[1] \in nspSockets'}
  /\ seen' = seen \cup MembershipsOf(members')

Joins(id, r) ==
  members' = [q \in Rooms |-> IF q \in {r, All} THEN members[q] \cup {id}
                              ELSE members[q]]
Leaves(id, rs) ==
  members' = [q \in Rooms |-> IF q \in rs THEN members[q] \ {id}
                              ELSE members[q]]

(* Other goroutines: a socket is tracked by its namespace, joins, leaves, *)
(* leaves all rooms in _cleanup, and is removed from its namespace.       *)
Track(id) ==
  /\ nspSockets' = nspSockets \cup {id}
  /\ UNCHANGED <<members, walk, got>> /\ Record

Join(id) ==
  /\ \E r \in Room : Joins(id, r)
  /\ UNCHANGED <<nspSockets, walk, got>> /\ Record

Leave(id) ==
  /\ \E r \in Room : Leaves(id, {r})
  /\ UNCHANGED <<nspSockets, walk, got>> /\ Record

Cleanup(id) ==
  /\ Leaves(id, Rooms)
  /\ UNCHANGED <<nspSockets, walk, got>> /\ Record

Remove(id) ==
  /\ nspSockets' = nspSockets \ {id}
  /\ UNCHANGED <<members, walk, got>> /\ Record

Others == \E id \in SocketId : Track(id) \/ Join(id) \/ Leave(id) \/ Cleanup(id)
                          \/ Remove(id)

-----------------------------------------------------------------------------
At(pc) == walk.pc = pc
Quiet == UNCHANGED <<members, nspSockets, got, kept, seen>>

(* A call of apply, which begins with computeExceptSids. *)
Apply ==
  /\ At("idle")
  /\ \E opts \in Options :
       /\ opts.rooms \subseteq Room
       /\ (opts.op \in {"join", "leave"}) <=> (opts.arg # None)
       /\ walk' = Frame("except", opts, opts.except, {}, {}, {}, None)
  /\ kept' = {p \in MembershipsOf(members) : p[1] \in nspSockets}
  /\ seen' = MembershipsOf(members)
  /\ UNCHANGED <<members, nspSockets, got>>

(* A bug: only the members of the last excepted room are kept. *)
ExceptRoom_Overwrites ==
  /\ At("except")
  /\ \E r \in walk.todo :
       walk' = Frame("except", walk.opts, walk.todo \ {r}, members[r], {}, {},
                     None)
  /\ Quiet

(* exceptSids.Add(ids.Keys()...) for the next excepted room *)
ExceptRoom ==
  /\ At("except")
  /\ \E r \in walk.todo :
       walk' = Frame("except", walk.opts, walk.todo \ {r},
                     walk.except \cup members[r], {}, {}, None)
  /\ Quiet

ExceptDone ==
  /\ At("except") /\ walk.todo = {}
  /\ walk' = Frame("rooms", walk.opts, Targets, walk.except, {}, {}, None)
  /\ Quiet

(* _ids.Keys() of the next room is a copy that later changes do not reach.   *)
(* A Range over sids looks each key up when it comes to it, in any order.    *)
NextRoom ==
  /\ At("rooms")
  /\ \E r \in walk.todo :
       walk' = Frame("ids", walk.opts, walk.todo \ {r}, walk.except,
                     IF r = All THEN SocketId ELSE members[r], walk.ids, None)
  /\ Quiet

Present(id) == walk.opts.rooms = {} => id \in members[All]

(* Sockets already served, excepted, or gone from the adapter or namespace *)
Skip ==
  /\ At("ids")
  /\ \E id \in walk.pending :
       /\ id \in walk.ids \cup walk.except \/ ~Present(id) \/ id \notin nspSockets
       /\ walk' = Frame("ids", walk.opts, walk.todo, walk.except,
                        walk.pending \ {id}, walk.ids, None)
  /\ Quiet

(* A bug: the ids already served are not looked at. *)
Load_Again ==
  /\ At("ids")
  /\ \E id \in (walk.pending \cap nspSockets) \ walk.except :
       /\ Present(id)
       /\ walk' = Frame("call", walk.opts, walk.todo, walk.except,
                        walk.pending \ {id}, walk.ids, id)
  /\ Quiet

(* The others are loaded from the namespace, and the callback runs. *)
Load ==
  /\ At("ids")
  /\ \E id \in (walk.pending \cap nspSockets) \ (walk.ids \cup walk.except) :
       /\ Present(id)
       /\ walk' = Frame("call", walk.opts, walk.todo, walk.except,
                        walk.pending \ {id}, walk.ids, id)
  /\ Quiet

(* The callback: WriteToEngine, Join (nothing, for a closed socket), Leave or *)
(* Disconnect                                                                 *)
Effect(op, id) ==
  \/ op \in {"broadcast", "join"} /\ UNCHANGED world
  \/ op = "join" /\ Joins(id, walk.opts.arg) /\ UNCHANGED nspSockets
  \/ op = "leave" /\ Leaves(id, {walk.opts.arg}) /\ UNCHANGED nspSockets
  \/ op = "disconnect" /\ Leaves(id, Rooms) /\ nspSockets' = nspSockets \ {id}

Callback ==
  /\ At("call")
  /\ Effect(walk.opts.op, walk.sock) /\ Record
  /\ got' = [got EXCEPT ![walk.sock] = @ + 1]
  /\ walk' = Frame("ids", walk.opts, walk.todo, walk.except, walk.pending,
                   walk.ids \cup {walk.sock}, None)

(* A bug: apply ends with the first room. *)
RoomDone_Stops ==
  /\ At("ids") /\ walk.pending = {}
  /\ walk' = Frame("done", walk.opts, {}, walk.except, {}, walk.ids, None)
  /\ Quiet

RoomDone ==
  /\ At("ids") /\ walk.pending = {}
  /\ walk' = Frame("rooms", walk.opts, walk.todo, walk.except, {}, walk.ids,
                   None)
  /\ Quiet

Return ==
  /\ At("rooms") /\ walk.todo = {}
  /\ walk' = Frame("done", walk.opts, {}, walk.except, {}, walk.ids, None)
  /\ Quiet

Walk == \/ Apply \/ ExceptRoom \/ ExceptDone \/ NextRoom \/ Skip \/ Load
        \/ Callback \/ RoomDone \/ Return

Next == Others \/ Walk

Spec == Init /\ [][Next]_vars

-----------------------------------------------------------------------------
WorldOK ==
  /\ members \in [Rooms -> SUBSET SocketId]
  /\ nspSockets \subseteq SocketId
HistoryOK == kept \subseteq SocketId \X Rooms /\ seen \subseteq SocketId \X Rooms
WalkOK ==
  walk \in [pc : {"idle", "except", "rooms", "ids", "call", "done"},
            opts : Options, todo : SUBSET Rooms, except : SUBSET SocketId,
            pending : SUBSET SocketId, ids : SUBSET SocketId, sock : SocketId \cup {None}]

(* The types of the adapter's state and of apply's local variables. *)
TypeOK == WorldOK /\ HistoryOK /\ WalkOK /\ got \in [SocketId -> Nat]
=============================================================================
