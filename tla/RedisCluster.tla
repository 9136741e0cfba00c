---------------------------- MODULE RedisCluster ----------------------------
(***************************************************************************)
(* Servers that share a namespace through Redis (redis.go).  Each server   *)
(* keeps its own sockets in its own in-memory adapter; broadcasts and      *)
(* requests are published, and each server has two subscriber goroutines,  *)
(* psub for the broadcasts and sub for the requests, that take what Redis  *)
(* sends them one by one.  Redis gives all its subscribers the messages in *)
(* one order; what is under way to a subscriber whose connection breaks is *)
(* lost.                                                                   *)
(*                                                                         *)
(* The in-memory adapter is that of RoomMembership and RoomBroadcast: here *)
(* a call on it is one step.  What Publish sends is what arrives: Marshal  *)
(* and Unmarshal copy the record and its two sets of rooms.                *)
(*                                                                         *)
(* AddAll, Del and DelAll publish a request too, with the id of the socket *)
(* and no options.  It is for the server that tracks that socket unless it *)
(* is the sender (onrequest), and no other server does: it changes nothing *)
(* and is left out.                                                        *)
(***************************************************************************)
EXTENDS Naturals, Sequences, FiniteSets, SequencesExt

CONSTANTS
  Server, Socket, Room,
  Home,       \* the server of each socket
  CastOpts,   \* options of the broadcasts: [rooms, except, local]
  CallOpts,   \* and of the requests
  Calls,      \* what is requested: [type, rooms]
  MaxCalls,   \* bound on the broadcasts and requests published
  MaxMoves,   \* bound on what a server does to its own sockets alone
  None

ASSUME HomeAssumption == Home \in [Socket -> Server]
Opts == [rooms : SUBSET Room, except : SUBSET Room, local : BOOLEAN]

ASSUME CallAssumption ==
  /\ CastOpts \subseteq Opts /\ CallOpts \subseteq Opts
  /\ \A o \in CastOpts : IsFiniteSet(o.rooms)
  /\ Calls \subseteq [type : {"join", "leave", "disconnect"}, rooms : SUBSET Room]
ASSUME BoundAssumption == {MaxCalls, MaxMoves} \subseteq Nat
ASSUME NoneAssumption == None \notin Room \cup Socket \cup Server

VARIABLES
  rooms,   \* the rooms of each tracked socket, or None
  up,      \* the servers that are subscribed
  psub,    \* server -> the broadcasts under way to it
  sub,     \* server -> the requests under way to it
  casting, \* broadcasts published but not yet given to the local adapter
  got,     \* socket -> the broadcasts it was given
  casts,   \* history: the broadcasts, [uid, opts], in the order of publication
  calls,   \* history: the requests for the sockets that match options, likewise
  moves,   \* history: how often a server changed its own sockets alone
  moved,   \* history: how many broadcasts there were when a socket last moved
  lost     \* history: the servers that may have lost messages

vars == <<rooms, up, psub, sub, casting, got, casts, calls, moves, moved, lost>>

Cast == 1 .. MaxCalls
Message == [uid : Server, room : Room \cup {None}, cast : Cast]
Request == [type : {"join", "leave", "disconnect"}, uid : Server,
            rooms : SUBSET Room,
            opts : [rooms : SUBSET Room, except : SUBSET Room]]

TypeOK ==
  /\ rooms \in [Socket -> {None} \cup SUBSET Room]
  /\ up \subseteq Server /\ lost \subseteq Server
  /\ psub \in [Server -> Seq(Message)] /\ sub \in [Server -> Seq(Request)]
  /\ casting \subseteq Cast
  /\ got \in [Socket -> Seq(Cast)]
  /\ casts \in Seq([uid : Server, opts : Opts]) /\ calls \in Seq(Request)
  /\ moves \in 0 .. MaxMoves /\ moved \in [Socket -> 0 .. MaxCalls]

\* The sockets are connected.
Init ==
  /\ rooms \in [Socket -> SUBSET Room]
  /\ up = Server /\ lost = {}
  /\ psub = [s \in Server |-> <<>>] /\ sub = [s \in Server |-> <<>>]
  /\ casting = {} /\ got = [k \in Socket |-> <<>>]
  /\ casts = <<>> /\ calls = <<>>
  /\ moves = 0 /\ moved = [k \in Socket |-> 0]

(***************************************************************************)
(* Helpers                                                                 *)
(***************************************************************************)
\* adapter.apply: without rooms, all sockets are meant.
Matches(rs, o) ==
  /\ rs # None
  /\ o.rooms = {} \/ o.rooms \cap rs # {}
  /\ o.except \cap rs = {}

Reached(s, o) == {k \in Socket : Home[k] = s /\ Matches(rooms[k], o)}

Publish(queue, message) ==
  [s \in Server |-> IF s \in up THEN Append(queue[s], message) ELSE queue[s]]

Nobody == [rooms |-> {}, except |-> {}]

\* A bug: broadcasts that only leave rooms out are not recognised.
CheckOpt_RoomsOnly(o) == o.rooms # {}

CheckOpt(o) == o.rooms # {} \/ o.except # {}

MayCall == Len(casts) + Len(calls) < MaxCalls

(***************************************************************************)
(* The sockets of a server                                                 *)
(***************************************************************************)
Move(k, place) ==
  /\ moves < MaxMoves
  /\ moves' = moves + 1
  /\ rooms' = [rooms EXCEPT ![k] = place]
  /\ moved' = [moved EXCEPT ![k] = Len(casts)]
  /\ UNCHANGED <<up, psub, sub, casting, got, casts, calls, lost>>

Connect(k) ==
  /\ rooms[k] = None /\ Home[k] \in up
  /\ Move(k, {})

AddAll(k, r) ==
  /\ rooms[k] # None /\ r \notin rooms[k]
  /\ Move(k, rooms[k] \cup {r})

Del(k, r) ==
  /\ rooms[k] # None /\ r \in rooms[k]
  /\ Move(k, rooms[k] \ {r})

DelAll(k) ==
  /\ rooms[k] # None
  /\ Move(k, None)

(***************************************************************************)
(* Broadcast publishes, on the channel of one of the rooms, and then       *)
(* serves the server's own sockets                                         *)
(***************************************************************************)
Broadcast(s, o) ==
  LET id == Len(casts) + 1 IN
  /\ MayCall
  /\ casts' = Append(casts, [uid |-> s, opts |-> o])
  /\ casting' = casting \cup {id}
  /\ IF o.local THEN UNCHANGED psub
     ELSE \E r \in IF o.rooms = {} THEN {None} ELSE o.rooms :
            psub' = Publish(psub, [uid |-> s, room |-> r, cast |-> id])
  /\ UNCHANGED <<rooms, up, sub, got, calls, moves, moved, lost>>

Give(s, id) ==
  got' = [k \in Socket |->
            IF k \in Reached(s, casts[id].opts) THEN Append(got[k], id) ELSE got[k]]

BroadcastLocally(id) ==
  /\ id \in casting
  /\ casting' = casting \ {id}
  /\ Give(casts[id].uid, id)
  /\ UNCHANGED <<rooms, up, psub, sub, casts, calls, moves, moved, lost>>

\* The channel names a room, and the room has a set in the local adapter.
HasRoom(s, r) == r # None /\ \E k \in Socket :
  Home[k] = s /\ rooms[k] # None /\ r \in rooms[k]

\* A bug: a server's own broadcast is not recognised.
OnMessage_OwnToo(s) ==
  /\ psub[s] # <<>>
  /\ LET message == Head(psub[s]) IN
       IF HasRoom(s, message.room) THEN Give(s, message.cast) ELSE UNCHANGED got
  /\ psub' = [psub EXCEPT ![s] = Tail(@)]
  /\ UNCHANGED <<rooms, up, sub, casting, casts, calls, moves, moved, lost>>

\* A bug: the messages are handled in goroutines of their own.
OnMessage_AnyOrder(s) ==
  /\ \E i \in DOMAIN psub[s] :
       /\ LET message == psub[s][i] IN
            IF HasRoom(s, message.room) /\ message.uid # s
              THEN Give(s, message.cast) ELSE UNCHANGED got
       /\ psub' = [psub EXCEPT ![s] = RemoveAt(@, i)]
  /\ UNCHANGED <<rooms, up, sub, casting, casts, calls, moves, moved, lost>>

OnMessage(s) ==
  /\ psub[s] # <<>>
  /\ LET message == Head(psub[s]) IN
       IF HasRoom(s, message.room) /\ message.uid # s
         THEN Give(s, message.cast) ELSE UNCHANGED got
  /\ psub' = [psub EXCEPT ![s] = Tail(@)]
  /\ UNCHANGED <<rooms, up, sub, casting, casts, calls, moves, moved, lost>>

(***************************************************************************)
(* AddSockets, DelSockets and DisconnectSockets: the server's own sockets  *)
(* with the local flag, else a request that all servers serve, the caller  *)
(* too                                                                     *)
(***************************************************************************)
After(q, place) ==
  CASE q.type = "join" -> place \cup q.rooms
    [] q.type = "leave" -> place \ q.rooms
    [] OTHER -> None

\* The in-memory adapter's AddSockets, DelSockets and DisconnectSockets.
Apply(s, q) ==
  LET reached == Reached(s, q.opts) IN
  /\ rooms' = [k \in Socket |-> IF k \in reached THEN After(q, rooms[k]) ELSE rooms[k]]
  /\ moved' = [k \in Socket |-> IF k \in reached THEN Len(casts) ELSE moved[k]]

\* A bug: the flags are sent too.
CallSockets_WithFlags(s, call, o) ==
  LET q == [type |-> call.type, uid |-> s, rooms |-> call.rooms,
            opts |-> o] IN
  /\ IF o.local
       THEN /\ moves < MaxMoves /\ moves' = moves + 1
            /\ Apply(s, q)
            /\ UNCHANGED <<sub, calls>>
       ELSE /\ MayCall
            /\ sub' = Publish(sub, q)
            /\ calls' = Append(calls, q)
            /\ UNCHANGED <<rooms, moves, moved>>
  /\ UNCHANGED <<up, psub, casting, got, casts, lost>>

CallSockets(s, call, o) ==
  LET q == [type |-> call.type, uid |-> s, rooms |-> call.rooms,
            opts |-> [rooms |-> o.rooms, except |-> o.except]] IN
  /\ IF o.local
       THEN /\ moves < MaxMoves /\ moves' = moves + 1
            /\ Apply(s, q)
            /\ UNCHANGED <<sub, calls>>
       ELSE /\ MayCall
            /\ sub' = Publish(sub, q)
            /\ calls' = Append(calls, q)
            /\ UNCHANGED <<rooms, moves, moved>>
  /\ UNCHANGED <<up, psub, casting, got, casts, lost>>

OnRequest(s) ==
  /\ sub[s] # <<>>
  /\ LET q == Head(sub[s]) IN
       IF CheckOpt(q.opts) THEN Apply(s, q) ELSE UNCHANGED <<rooms, moved>>
  /\ sub' = [sub EXCEPT ![s] = Tail(@)]
  /\ UNCHANGED <<up, psub, casting, got, casts, calls, moves, lost>>

(***************************************************************************)
(* Subscriptions                                                           *)
(***************************************************************************)
\* The namespace goes when its last socket has left.
Close(s) ==
  /\ s \in up /\ \A k \in Socket : Home[k] = s => rooms[k] = None
  /\ up' = up \ {s}
  /\ UNCHANGED <<rooms, psub, sub, casting, got, casts, calls, moves, moved, lost>>

\* A subscriber's connection to Redis breaks and run goes on with the next.
LoseMessages(s) ==
  /\ lost = {}
  /\ lost' = {s}
  /\ \/ psub[s] # <<>> /\ psub' = [psub EXCEPT ![s] = <<>>] /\ UNCHANGED sub
     \/ sub[s] # <<>> /\ sub' = [sub EXCEPT ![s] = <<>>] /\ UNCHANGED psub
  /\ UNCHANGED <<rooms, up, casting, got, casts, calls, moves, moved>>

Next ==
  \/ \E k \in Socket : Connect(k) \/ DelAll(k) \/ \E r \in Room : AddAll(k, r) \/ Del(k, r)
  \/ \E s \in Server : \/ \E o \in CastOpts : Broadcast(s, o)
                       \/ \E o \in CallOpts, call \in Calls : CallSockets(s, call, o)
  \/ \E id \in Cast : BroadcastLocally(id)
  \/ \E s \in Server : OnMessage(s) \/ OnRequest(s) \/ Close(s) \/ LoseMessages(s)

Spec == Init /\ [][Next]_vars

(***************************************************************************)
(* Properties                                                              *)
(***************************************************************************)
UnderWay(id, s) == id \in casting \/ \E i \in DOMAIN psub[s] : psub[s][i].cast = id

Count(id, k) == Cardinality({i \in DOMAIN got[k] : got[k][i] = id})

\* Of the sockets that have not moved since a broadcast was published, once
\* their server has taken it from Redis and provided that nothing was lost:
\* a broadcast to one room reaches every socket of the cluster that it is for
\* exactly once, and no other; one with the local flag, or one that names no
\* room, reaches those of the broadcaster's own server, and no other.  (That the
\* other servers drop what names no room is onmessage's doing and not what Emit
\* promises: ReachesEverybody.  A broadcast to several rooms reaches a server
\* only if the room of the channel is known there.)
SteadyReachedOnce ==
  \A id \in DOMAIN casts, k \in Socket :
    LET o == casts[id].opts
        for == /\ Matches(rooms[k], o)
               /\ o.local \/ o.rooms = {} => Home[k] = casts[id].uid
    IN (/\ moved[k] < id /\ ~UnderWay(id, Home[k])
        /\ Home[k] \in up \ lost /\ Cardinality(o.rooms) <= 1)
       => Count(id, k) = IF for THEN 1 ELSE 0

\* What the comments of BroadcastOperator.Emit promise of a broadcast that names
\* no room: all clients are given it, but for those in the rooms it leaves out.
\* Said only of sockets that have not moved since, on servers that lost nothing
\* and have taken all broadcasts from Redis.
ReachesEverybody ==
  \A id \in DOMAIN casts, k \in Socket :
    (/\ casts[id].opts.rooms = {} /\ ~casts[id].opts.local
     /\ Matches(rooms[k], casts[id].opts)
     /\ moved[k] < id /\ ~UnderWay(id, Home[k]) /\ Home[k] \in up \ lost)
    => Count(id, k) = 1

\* A socket gets the broadcasts of the other servers in the order in which they
\* were published, none of them twice, even if some are lost.
RemoteInOrder ==
  \A k \in Socket : \A i, j \in DOMAIN got[k] :
    (/\ i < j
     /\ casts[got[k][i]].uid # Home[k] /\ casts[got[k][j]].uid # Home[k])
    => got[k][i] < got[k][j]

\* Where a socket in these rooms is when its server has served those requests;
\* those without rooms are passed over.
Serve(place, q) ==
  IF Matches(place, q.opts) /\ q.opts # Nobody THEN After(q, place) ELSE place

Served(place, queue) ==
  LET after[i \in 0 .. Len(queue)] ==
        IF i = 0 THEN place ELSE Serve(after[i - 1], queue[i])
  IN after[Len(queue)]

\* Where a socket will be when its server has served the requests under way.
Decided(k) == Served(rooms[k], sub[Home[k]])

\* What a call of SocketsJoin, SocketsLeave or DisconnectSockets that names rooms,
\* to go to or to leave out, does to the sockets of all servers is decided when
\* it is published, as if it was done everywhere at that moment: no later call,
\* and no server that is slow to serve it, changes it.  Of a call that names no
\* room nothing is claimed: it should be for all sockets, and checkOpt makes
\* every server pass over it.
DecidedWhenPublished ==
  [][(/\ moves' = moves /\ lost' = lost
      /\ calls' = calls \/ Last(calls').opts # Nobody)
     => \A k \in Socket : Home[k] \in up \ lost =>
         IF calls' = calls THEN Decided(k)' = Decided(k)
         ELSE LET q == Last(calls') IN
              Decided(k)' = IF Matches(Decided(k), q.opts) THEN After(q, Decided(k))
                            ELSE Decided(k)]_vars
=============================================================================
