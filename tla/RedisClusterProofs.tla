------------------------- MODULE RedisClusterProofs -------------------------
(***************************************************************************)
(* What RedisCluster guarantees for any number of servers, sockets, rooms, *)
(* broadcasts and requests, in any order, whatever is lost.                *)
(***************************************************************************)
EXTENDS RedisCluster, FiniteSetTheorems, TLAPS

(* What was published is bounded, and what is being published was.          *)
CountsOK == Len(casts) + Len(calls) <= MaxCalls /\ casting \subseteq DOMAIN casts

(* What is under way to a server says of a broadcast who made it, and names  *)
(* one of its rooms; it is in the order of publication.                     *)
QueueOK ==
  \A s \in Server : \A i \in DOMAIN psub[s] :
    LET message == psub[s][i]
        cast == casts[message.cast]
    IN /\ message.cast \in DOMAIN casts
       /\ message.uid = cast.uid /\ ~cast.opts.local
       /\ IF cast.opts.rooms = {} THEN message.room = None
          ELSE message.room \in cast.opts.rooms
       /\ \A j \in DOMAIN psub[s] : i < j => message.cast < psub[s][j].cast

(* A socket got no broadcast twice, none that its server has still to give    *)
(* it, and of the other servers' only such as come before all under way.     *)
GotOK ==
  \A k \in Socket : \A i \in DOMAIN got[k] :
    LET id == got[k][i] IN
    /\ id \in DOMAIN casts
    /\ \A j \in DOMAIN got[k] : i # j => got[k][j] # id
    /\ IF casts[id].uid = Home[k] THEN id \notin casting
       ELSE \A j \in DOMAIN psub[Home[k]] : id < psub[Home[k]][j].cast

(* The sockets that a broadcast is for, where they are now.                 *)
IsFor(id, k) ==
  /\ Matches(rooms[k], casts[id].opts)
  /\ casts[id].opts.local \/ casts[id].opts.rooms = {} => Home[k] = casts[id].uid

Has(k, id) == \E i \in DOMAIN got[k] : got[k][i] = id

Coming(id, k) ==
  IF casts[id].uid = Home[k] THEN id \in casting
  ELSE \E i \in DOMAIN psub[Home[k]] : psub[Home[k]][i].cast = id

(* Who has not moved since a broadcast has it only if it is for him, and has  *)
(* it, or will get it, if it is.                                            *)
SteadyOK ==
  \A id \in DOMAIN casts, k \in Socket : moved[k] < id =>
    /\ Has(k, id) => IsFor(id, k)
    /\ (/\ IsFor(id, k) /\ Home[k] \in up \ lost
        /\ Cardinality(casts[id].opts.rooms) <= 1)
       => Has(k, id) \/ Coming(id, k)

(* The broadcasts name finitely many rooms.                                 *)
FiniteOK == \A id \in DOMAIN casts : IsFiniteSet(casts[id].opts.rooms)

TypeInv == TypeOK /\ CountsOK /\ FiniteOK
Inv == TypeInv /\ QueueOK /\ GotOK /\ RemoteInOrder /\ SteadyOK

-----------------------------------------------------------------------------
(* Types *)
LEMMA CallTypes ==
  ASSUME NEW o \in CallOpts, NEW call \in Calls, NEW s \in Server
  PROVE  [type |-> call.type, uid |-> s, rooms |-> call.rooms,
          opts |-> [rooms |-> o.rooms, except |-> o.except]] \in Request
BY CallAssumption DEF Opts, Request

LEMMA AfterType ==
  ASSUME NEW q, q.rooms \subseteq Room, NEW place \in SUBSET Room
  PROVE  After(q, place) \in {None} \cup SUBSET Room
BY DEF After

(* Publish gives the message to the servers that are subscribed. *)
LEMMA PublishType ==
  ASSUME NEW S, NEW queue \in [Server -> Seq(S)], NEW message \in S
  PROVE  /\ Publish(queue, message) \in [Server -> Seq(S)]
         /\ \A s \in Server : Publish(queue, message)[s] =
              IF s \in up THEN Append(queue[s], message) ELSE queue[s]
BY DEF Publish

LEMMA ApplyType ==
  ASSUME TypeInv, NEW s \in Server, NEW q, q.rooms \subseteq Room, Apply(s, q)
  PROVE  /\ rooms' \in [Socket -> {None} \cup SUBSET Room]
         /\ moved' \in [Socket -> 0 .. MaxCalls]
         /\ \A k \in Socket : \/ moved'[k] = Len(casts)
                              \/ moved'[k] = moved[k] /\ rooms'[k] = rooms[k]
<1>1. Len(casts) \in 0 .. MaxCalls
  BY BoundAssumption DEF TypeInv, TypeOK, CountsOK
<1>2. ASSUME NEW k \in Reached(s, q.opts) PROVE rooms[k] \in SUBSET Room
  BY DEF TypeInv, TypeOK, Reached, Matches
<1>3. rooms' \in [Socket -> {None} \cup SUBSET Room]
  BY <1>2, AfterType DEF TypeInv, TypeOK, Apply
<1> QED
  BY <1>1, <1>3 DEF TypeInv, TypeOK, Apply

(* What a step does that changes the rooms of sockets: who is in other rooms  *)
(* has moved.                                                               *)
RoomsStep ==
  /\ UNCHANGED <<up, psub, casting, got, casts, lost>>
  /\ \A k \in Socket : \/ moved'[k] = Len(casts)
                       \/ moved'[k] = moved[k] /\ rooms'[k] = rooms[k]

(* Connect, AddAll, Del and DelAll. *)
LEMMA MoveStep ==
  ASSUME TypeInv, NEW k \in Socket, NEW place \in {None} \cup SUBSET Room, Move(k, place)
  PROVE  TypeInv' /\ RoomsStep
<1>1. Len(casts) \in 0 .. MaxCalls
  BY BoundAssumption DEF TypeInv, TypeOK, CountsOK
<1>2. moves' \in 0 .. MaxMoves
  BY BoundAssumption DEF TypeInv, TypeOK, Move
<1> QED
  BY <1>1, <1>2 DEF TypeInv, TypeOK, CountsOK, FiniteOK, Move, RoomsStep

LEMMA MovesStep ==
  ASSUME TypeInv, NEW k \in Socket,
         Connect(k) \/ DelAll(k) \/ \E r \in Room : AddAll(k, r) \/ Del(k, r)
  PROVE  TypeInv' /\ RoomsStep
<1>1. \E place \in {None} \cup SUBSET Room : Move(k, place)
  BY DEF TypeInv, TypeOK, Connect, DelAll, AddAll, Del
<1> QED
  BY <1>1, MoveStep

LEMMA CallStep ==
  ASSUME TypeInv, NEW s \in Server, NEW o \in CallOpts, NEW call \in Calls,
         CallSockets(s, call, o)
  PROVE  TypeInv' /\ RoomsStep
<1> DEFINE q == [type |-> call.type, uid |-> s, rooms |-> call.rooms,
                 opts |-> [rooms |-> o.rooms, except |-> o.except]]
<1>q. q \in Request
  BY CallTypes
<1>1. CASE o.local
  <2>1. Apply(s, q) /\ moves' = moves + 1 /\ moves < MaxMoves /\ UNCHANGED <<sub, calls>>
    BY <1>1 DEF CallSockets
  <2>2. UNCHANGED <<up, psub, casting, got, casts, lost>>
    BY DEF CallSockets
  <2>3. q.rooms \subseteq Room
    BY <1>q DEF Request
  <2> HIDE DEF q
  <2>4. moves' \in 0 .. MaxMoves
    BY <2>1, BoundAssumption DEF TypeInv, TypeOK
  <2> QED
    BY <2>1, <2>2, <2>3, <2>4, ApplyType DEF TypeInv, TypeOK, CountsOK, FiniteOK, RoomsStep
<1>2. CASE ~o.local
  <2>1. /\ sub' = Publish(sub, q) /\ calls' = Append(calls, q) /\ MayCall
        /\ UNCHANGED <<rooms, moves, moved, up, psub, casting, got, casts, lost>>
    BY <1>2 DEF CallSockets
  <2> HIDE DEF q
  <2>2. sub' \in [Server -> Seq(Request)]
    BY <2>1, <1>q, PublishType DEF TypeInv, TypeOK
  <2>3. calls' \in Seq(Request) /\ Len(calls') = Len(calls) + 1
    BY <2>1, <1>q DEF TypeInv, TypeOK
  <2>4. Len(casts) + Len(calls') <= MaxCalls
    BY <2>1, <2>3, BoundAssumption DEF TypeInv, TypeOK, MayCall
  <2> QED
    BY <2>1, <2>2, <2>3, <2>4 DEF TypeInv, TypeOK, CountsOK, FiniteOK, RoomsStep
<1> QED
  BY <1>1, <1>2

LEMMA RequestStep ==
  ASSUME TypeInv, NEW s \in Server, OnRequest(s)
  PROVE  TypeInv' /\ RoomsStep
<1>1. Head(sub[s]) \in Request /\ Tail(sub[s]) \in Seq(Request)
  BY DEF TypeInv, TypeOK, OnRequest
<1>2. sub' \in [Server -> Seq(Request)]
  BY <1>1 DEF TypeInv, TypeOK, OnRequest
<1>3. UNCHANGED <<up, psub, casting, got, casts, calls, moves, lost>>
  BY DEF OnRequest
<1>4. CASE Apply(s, Head(sub[s]))
  <2>1. Head(sub[s]).rooms \subseteq Room
    BY <1>1 DEF Request
  <2> QED
    BY <1>2, <1>3, <1>4, <2>1, ApplyType DEF TypeInv, TypeOK, CountsOK, FiniteOK, RoomsStep
<1>5. CASE UNCHANGED <<rooms, moved>>
  BY <1>2, <1>3, <1>5 DEF TypeInv, TypeOK, CountsOK, FiniteOK, RoomsStep
<1> QED
  BY <1>4, <1>5 DEF OnRequest

(* A new broadcast, and its message to the servers that are subscribed. *)
Added(s, o) ==
  LET new == Len(casts) + 1 IN
  /\ new \in Cast /\ new \in Nat /\ DOMAIN casts' = DOMAIN casts \cup {new}
  /\ casts'[new] = [uid |-> s, opts |-> o]
  /\ \A id \in DOMAIN casts : casts'[id] = casts[id] /\ id < new /\ id \in Nat
  /\ casting' = casting \cup {new}
  /\ UNCHANGED <<rooms, up, sub, got, calls, moves, moved, lost>>

Sent(s, o, message) ==
  /\ message \in Message /\ message.uid = s /\ message.cast = Len(casts) + 1
  /\ IF o.rooms = {} THEN message.room = None ELSE message.room \in o.rooms
  /\ \A t \in Server : psub'[t] =
       IF t \in up THEN Append(psub[t], message) ELSE psub[t]

LEMMA BroadcastType ==
  ASSUME TypeInv, NEW s \in Server, NEW o \in CastOpts, Broadcast(s, o)
  PROVE  /\ TypeInv' /\ Added(s, o)
         /\ IF o.local THEN psub' = psub ELSE \E message \in Message : Sent(s, o, message)
<1> DEFINE id == Len(casts) + 1
<1>1. id \in Cast
  BY BoundAssumption DEF Broadcast, MayCall, TypeInv, TypeOK, Cast
<1>2. o \in Opts /\ IsFiniteSet(o.rooms)
  BY CallAssumption
<1>3. casts' = Append(casts, [uid |-> s, opts |-> o]) /\ casts \in Seq([uid : Server, opts : Opts])
  BY DEF Broadcast, TypeInv, TypeOK
<1>4. /\ casts' \in Seq([uid : Server, opts : Opts]) /\ Len(casts') = id
      /\ casts'[id] = [uid |-> s, opts |-> o]
      /\ DOMAIN casts' = 1 .. id
      /\ \A i \in DOMAIN casts : casts'[i] = casts[i] /\ i < id /\ i \in Nat
      /\ DOMAIN casts' = DOMAIN casts \cup {id}
  BY <1>2, <1>3
<1>5. /\ psub' \in [Server -> Seq(Message)]
      /\ IF o.local THEN psub' = psub
         ELSE \E message \in Message : Sent(s, o, message)
  <2>1. CASE o.local
    BY <2>1 DEF Broadcast, TypeInv, TypeOK
  <2>2. CASE ~o.local
    <3>1. PICK r \in IF o.rooms = {} THEN {None} ELSE o.rooms :
            psub' = Publish(psub, [uid |-> s, room |-> r, cast |-> id])
      BY <2>2 DEF Broadcast
    <3>2. r \in Room \cup {None} /\ IF o.rooms = {} THEN r = None ELSE r \in o.rooms
      BY <1>2 DEF Opts
    <3>3. [uid |-> s, room |-> r, cast |-> id] \in Message
      BY <1>1, <3>2 DEF Message
    <3> QED
      <4> DEFINE message == [uid |-> s, room |-> r, cast |-> id]
      <4>1. psub' = Publish(psub, message) /\ message \in Message
        BY <3>1, <3>3
      <4>3. message.uid = s /\ message.cast = id /\ message.room = r
        OBVIOUS
      <4> HIDE DEF message
      <4>2. /\ psub' \in [Server -> Seq(Message)]
            /\ \A t \in Server : psub'[t] =
                 IF t \in up THEN Append(psub[t], message) ELSE psub[t]
        <5>1. psub \in [Server -> Seq(Message)]
          BY DEF TypeInv, TypeOK
        <5>2. /\ Publish(psub, message) \in [Server -> Seq(Message)]
              /\ \A t \in Server : Publish(psub, message)[t] =
                   IF t \in up THEN Append(psub[t], message) ELSE psub[t]
          BY <4>1, <5>1, PublishType
        <5> QED
          BY <4>1, <5>2
      <4> QED
        BY <2>2, <3>2, <4>1, <4>2, <4>3 DEF Sent
  <2> QED
    BY <2>1, <2>2
<1>6. /\ casting' = casting \cup {id}
      /\ UNCHANGED <<rooms, up, sub, got, calls, moves, moved, lost>>
  BY DEF Broadcast
<1>7. TypeOK'
  BY <1>1, <1>4, <1>5, <1>6 DEF TypeInv, TypeOK
<1>8. CountsOK'
  <2>1. Len(casts) \in Nat /\ Len(calls) \in Nat /\ Len(casts) + Len(calls) < MaxCalls
    BY DEF Broadcast, MayCall, TypeInv, TypeOK
  <2>2. Len(casts') + Len(calls') <= MaxCalls
    BY <1>4, <1>6, <2>1, BoundAssumption
  <2>3. casting' \subseteq DOMAIN casts'
    BY <1>4, <1>6 DEF TypeInv, CountsOK
  <2> QED
    BY <2>2, <2>3 DEF CountsOK
<1>9. FiniteOK'
  <2>1. ASSUME NEW i \in DOMAIN casts PROVE IsFiniteSet(casts'[i].opts.rooms)
    BY <1>4, <2>1 DEF TypeInv, FiniteOK
  <2>2. IsFiniteSet(casts'[id].opts.rooms)
    BY <1>2, <1>4
  <2> QED
    BY <1>4, <2>1, <2>2 DEF FiniteOK
<1> QED
  <2>1. id \in Nat
    BY <1>1 DEF Cast
  <2>2. Added(s, o)
    BY <1>1, <1>4, <1>6, <2>1 DEF Added
  <2> QED
    BY <1>5, <1>7, <1>8, <1>9, <2>2 DEF TypeInv

(* Giving a broadcast to the sockets of a server that it is for. *)
LEMMA GiveType ==
  ASSUME TypeInv, NEW s \in Server, NEW id \in Cast, Give(s, id)
  PROVE  /\ got' \in [Socket -> Seq(Cast)]
         /\ \A k \in Socket :
              IF k \in Reached(s, casts[id].opts)
                THEN /\ DOMAIN got'[k] = 1 .. Len(got[k]) + 1 /\ DOMAIN got[k] = 1 .. Len(got[k])
                     /\ got'[k][Len(got[k]) + 1] = id /\ Len(got[k]) \in Nat
                     /\ \A i \in DOMAIN got[k] : got'[k][i] = got[k][i]
                ELSE got'[k] = got[k]
<1>1. got \in [Socket -> Seq(Cast)]
  BY DEF TypeInv, TypeOK
<1>2. \A k \in Socket : got'[k] = IF k \in Reached(s, casts[id].opts)
                                    THEN Append(got[k], id) ELSE got[k]
  BY DEF Give
<1>3. \A k \in Socket :
        /\ Append(got[k], id) \in Seq(Cast)
        /\ DOMAIN Append(got[k], id) = 1 .. Len(got[k]) + 1 /\ DOMAIN got[k] = 1 .. Len(got[k])
        /\ Append(got[k], id)[Len(got[k]) + 1] = id /\ Len(got[k]) \in Nat
        /\ \A i \in DOMAIN got[k] : Append(got[k], id)[i] = got[k][i]
  BY <1>1
<1>4. got' \in [Socket -> Seq(Cast)]
  BY <1>1, <1>3 DEF Give
<1> QED
  BY <1>2, <1>3, <1>4

-----------------------------------------------------------------------------
(* Safety *)
(* Steps that change only the rooms of sockets. *)
LEMMA RoomsKeep ==
  ASSUME Inv, RoomsStep
  PROVE  QueueOK' /\ GotOK' /\ RemoteInOrder' /\ SteadyOK'
<1>1. UNCHANGED <<up, psub, casting, got, casts, lost>>
  BY DEF RoomsStep
<1>2. QueueOK'
  BY <1>1 DEF Inv, QueueOK
<1>3. GotOK'
  BY <1>1 DEF Inv, GotOK
<1>4. RemoteInOrder'
  BY <1>1 DEF Inv, RemoteInOrder
<1>5. ASSUME NEW id \in DOMAIN casts, NEW k \in Socket, moved'[k] < id
      PROVE  /\ moved[k] < id /\ rooms'[k] = rooms[k]
             /\ Has(k, id)' <=> Has(k, id)
             /\ Coming(id, k)' <=> Coming(id, k)
  <2>1. moved'[k] # Len(casts)
    BY <1>5 DEF Inv, TypeInv, TypeOK
  <2>2. moved'[k] = moved[k] /\ rooms'[k] = rooms[k]
    BY <2>1 DEF RoomsStep
  <2> QED
    BY <1>1, <1>5, <2>2 DEF Has, Coming
<1>6. ASSUME NEW id \in DOMAIN casts, NEW k \in Socket, moved'[k] < id
      PROVE  IsFor(id, k)' <=> IsFor(id, k)
  BY <1>1, <1>5, <1>6 DEF IsFor
<1>7. SteadyOK'
  BY <1>1, <1>5, <1>6 DEF Inv, SteadyOK
<1> QED
  BY <1>2, <1>3, <1>4, <1>7

(* A new broadcast is behind all others, for nobody yet, and comes to all       *)
(* servers that are up.                                                     *)
LEMMA BroadcastKeeps ==
  ASSUME Inv, NEW s \in Server, NEW o \in CastOpts, Broadcast(s, o)
  PROVE  QueueOK' /\ GotOK' /\ RemoteInOrder' /\ SteadyOK'
<1> DEFINE new == Len(casts) + 1
<1>t. TypeInv /\ TypeInv' /\ Added(s, o)
  BY BroadcastType DEF Inv
<1>1. /\ casts'[new] = [uid |-> s, opts |-> o] /\ new \in DOMAIN casts' /\ new \in Nat
      /\ DOMAIN casts' = DOMAIN casts \cup {new}
      /\ \A id \in DOMAIN casts : casts'[id] = casts[id] /\ id < new /\ id \in Nat
  BY <1>t DEF Added
<1>2. casting' = casting \cup {new} /\ UNCHANGED <<rooms, up, got, moved, lost>>
  BY <1>t DEF Added
<1>p. /\ \A t \in Server : \A i \in DOMAIN psub'[t] :
           \/ i \in DOMAIN psub[t] /\ psub'[t][i] = psub[t][i]
           \/ /\ psub'[t][i].cast = new /\ psub'[t][i].uid = s /\ ~o.local
              /\ IF o.rooms = {} THEN psub'[t][i].room = None
                 ELSE psub'[t][i].room \in o.rooms
              /\ i = Len(psub[t]) + 1
      /\ \A t \in Server : \A i \in DOMAIN psub[t] :
           i \in DOMAIN psub'[t] /\ psub'[t][i] = psub[t][i]
      /\ ~o.local => \A t \in up : \E i \in DOMAIN psub'[t] : psub'[t][i].cast = new
  <2>1. CASE o.local
    BY <2>1, BroadcastType DEF Inv, TypeInv, TypeOK
  <2>2. CASE ~o.local
    <3>1. PICK message \in Message : Sent(s, o, message)
      BY <1>t, <2>2, BroadcastType
    <3>2. /\ message.uid = s /\ message.cast = new
          /\ IF o.rooms = {} THEN message.room = None ELSE message.room \in o.rooms
      BY <3>1 DEF Sent
    <3>3. \A t \in Server : psub'[t] =
            IF t \in up THEN Append(psub[t], message) ELSE psub[t]
      BY <3>1 DEF Sent
    <3> HIDE DEF new
    <3>4. ASSUME NEW t \in Server
          PROVE  /\ psub[t] \in Seq(Message) /\ Len(psub[t]) \in Nat
                 /\ DOMAIN psub[t] = 1 .. Len(psub[t])
                 /\ DOMAIN Append(psub[t], message) = 1 .. Len(psub[t]) + 1
                 /\ \A i \in 1 .. Len(psub[t]) : Append(psub[t], message)[i] = psub[t][i]
                 /\ Append(psub[t], message)[Len(psub[t]) + 1] = message
      BY <1>t DEF TypeInv, TypeOK
    <3>5. up \subseteq Server
      BY <1>t DEF TypeInv, TypeOK
    <3>6. ASSUME NEW t \in Server, NEW i \in DOMAIN psub'[t]
          PROVE  \/ i \in DOMAIN psub[t] /\ psub'[t][i] = psub[t][i]
                 \/ psub'[t][i] = message /\ i = Len(psub[t]) + 1
      <4>1. CASE t \in up
        <5>1. psub'[t] = Append(psub[t], message)
          BY <3>3, <4>1
        <5> QED
          BY <3>4, <5>1
      <4>2. CASE t \notin up
        BY <3>3, <4>2
      <4> QED
        BY <4>1, <4>2
    <3>7. ASSUME NEW t \in Server, NEW i \in DOMAIN psub[t]
          PROVE  i \in DOMAIN psub'[t] /\ psub'[t][i] = psub[t][i]
      <4>1. CASE t \in up
        <5>1. psub'[t] = Append(psub[t], message)
          BY <3>3, <4>1
        <5> QED
          BY <3>4, <5>1
      <4>2. CASE t \notin up
        BY <3>3, <4>2
      <4> QED
        BY <4>1, <4>2
    <3>8. ASSUME NEW t \in up PROVE \E i \in DOMAIN psub'[t] : psub'[t][i].cast = new
      <4>1. psub'[t] = Append(psub[t], message) /\ t \in Server
        BY <3>3, <3>5
      <4> QED
        BY <3>2, <3>4, <4>1
    <3> QED
      BY <2>2, <3>2, <3>6, <3>7, <3>8
  <2> QED
    BY <2>1, <2>2
<1> HIDE DEF new
<1>6. QueueOK'
  <2> SUFFICES ASSUME NEW t \in Server, NEW i \in DOMAIN psub'[t]
               PROVE  LET message == psub'[t][i]
                          cast == casts'[message.cast]
                      IN /\ message.cast \in DOMAIN casts'
                         /\ message.uid = cast.uid /\ ~cast.opts.local
                         /\ IF cast.opts.rooms = {} THEN message.room = None
                            ELSE message.room \in cast.opts.rooms
                         /\ \A j \in DOMAIN psub'[t] : i < j => message.cast < psub'[t][j].cast
    BY DEF QueueOK
  <2>1. CASE i \in DOMAIN psub[t] /\ psub'[t][i] = psub[t][i]
    <3>1. psub[t][i].cast \in DOMAIN casts
      BY <2>1 DEF Inv, QueueOK
    <3>2. ASSUME NEW j \in DOMAIN psub'[t], i < j PROVE psub'[t][i].cast < psub'[t][j].cast
      BY <1>1, <1>p, <2>1, <3>1, <3>2 DEF Inv, QueueOK
    <3> QED
      BY <1>1, <2>1, <3>1, <3>2 DEF Inv, QueueOK
  <2>2. CASE /\ psub'[t][i].cast = new /\ psub'[t][i].uid = s /\ ~o.local
             /\ IF o.rooms = {} THEN psub'[t][i].room = None ELSE psub'[t][i].room \in o.rooms
             /\ i = Len(psub[t]) + 1
    <3>1. \A j \in DOMAIN psub'[t] : ~(i < j)
      <4>1. DOMAIN psub[t] = 1 .. Len(psub[t]) /\ Len(psub[t]) \in Nat
        BY <1>t DEF TypeInv, TypeOK
      <4>2. \A j \in DOMAIN psub'[t] : j \in DOMAIN psub[t] \/ j = Len(psub[t]) + 1
        BY <1>p
      <4> QED
        BY <2>2, <4>1, <4>2
    <3> QED
      BY <1>1, <2>2, <3>1
  <2> QED
    BY <1>p, <2>1, <2>2
<1>7. GotOK'
  <2> SUFFICES ASSUME NEW k \in Socket, NEW i \in DOMAIN got[k]
               PROVE  LET id == got[k][i] IN
                      /\ id \in DOMAIN casts'
                      /\ \A j \in DOMAIN got[k] : i # j => got[k][j] # id
                      /\ IF casts'[id].uid = Home[k] THEN id \notin casting'
                         ELSE \A j \in DOMAIN psub'[Home[k]] : id < psub'[Home[k]][j].cast
    BY <1>2 DEF GotOK
  <2>1. got[k][i] \in DOMAIN casts /\ Home[k] \in Server
    BY HomeAssumption DEF Inv, GotOK
  <2>2. casts'[got[k][i]] = casts[got[k][i]] /\ got[k][i] < new
    BY <1>1, <2>1
  <2> QED
    BY <1>1, <1>2, <1>p, <2>1, <2>2, SMTT(20) DEF Inv, GotOK
<1>8. RemoteInOrder'
  <2>1. \A k \in Socket : \A i \in DOMAIN got[k] : casts'[got[k][i]] = casts[got[k][i]]
    BY <1>1 DEF Inv, GotOK
  <2> QED
    BY <1>2, <2>1 DEF Inv, RemoteInOrder
<1>9. SteadyOK'
  <2> SUFFICES ASSUME NEW id \in DOMAIN casts', NEW k \in Socket, moved'[k] < id
               PROVE  /\ Has(k, id)' => IsFor(id, k)'
                      /\ (/\ IsFor(id, k)' /\ Home[k] \in up' \ lost'
                          /\ Cardinality(casts'[id].opts.rooms) <= 1)
                         => Has(k, id)' \/ Coming(id, k)'
    BY DEF SteadyOK
  <2>h. Home[k] \in Server
    BY HomeAssumption
  <2>1. CASE id \in DOMAIN casts
    <3>1. Has(k, id)' <=> Has(k, id)
      BY <1>2 DEF Has
    <3>2. IsFor(id, k)' <=> IsFor(id, k)
      BY <1>1, <1>2, <2>1 DEF IsFor
    <3>3. Coming(id, k) => Coming(id, k)'
      BY <1>1, <1>2, <1>p, <2>h, <2>1 DEF Coming
    <3> QED
      BY <1>1, <1>2, <2>1, <3>1, <3>2, <3>3 DEF Inv, SteadyOK
  <2>2. CASE id = new
    <3>1. ~Has(k, id)'
      BY <1>1, <1>2, <2>2 DEF Inv, GotOK, Has
    <3>2. ASSUME IsFor(id, k)', Home[k] \in up' \ lost' PROVE Coming(id, k)'
      <4>1. casts'[id] = [uid |-> s, opts |-> o]
        BY <1>1, <2>2
      <4>2. CASE s = Home[k]
        BY <1>2, <2>2, <4>1, <4>2 DEF Coming
      <4>3. CASE s # Home[k]
        <5>1. ~o.local
          BY <3>2, <4>1, <4>3 DEF IsFor
        <5> QED
          BY <1>2, <1>p, <2>2, <3>2, <4>1, <4>3, <5>1 DEF Coming
      <4> QED
        BY <4>2, <4>3
    <3> QED
      BY <3>1, <3>2
  <2> QED
    BY <1>1, <2>1, <2>2
<1> QED
  BY <1>6, <1>7, <1>8, <1>9

(* A broadcast is given to sockets that have not got it, that will not get it   *)
(* again, and, if it is another server's, have got none that came after it.    *)
Fresh(s, id) ==
  \A k \in Reached(s, casts[id].opts) :
    /\ ~Has(k, id)
    /\ IF casts[id].uid = Home[k] THEN id \notin casting'
       ELSE /\ \A j \in DOMAIN psub'[Home[k]] : id < psub'[Home[k]][j].cast
            /\ \A i \in DOMAIN got[k] : casts[got[k][i]].uid # Home[k] => got[k][i] < id

(* The queues of the subscribers shrink, if they change at all.              *)
Shrinks ==
  /\ UNCHANGED casts /\ casting' \subseteq casting
  /\ \A s \in Server : \A j \in DOMAIN psub'[s] : \E i \in DOMAIN psub[s] :
       psub'[s][j] = psub[s][i]

LEMMA GiveKeeps ==
  ASSUME Inv, NEW s \in Server, NEW id \in DOMAIN casts, Give(s, id), Fresh(s, id), Shrinks
  PROVE  GotOK' /\ RemoteInOrder'
<1>1. id \in Cast
  BY BoundAssumption DEF Inv, TypeInv, TypeOK, CountsOK, Cast
<1>2. \A k \in Socket :
        IF k \in Reached(s, casts[id].opts)
          THEN /\ DOMAIN got'[k] = 1 .. Len(got[k]) + 1 /\ DOMAIN got[k] = 1 .. Len(got[k])
               /\ got'[k][Len(got[k]) + 1] = id /\ Len(got[k]) \in Nat
               /\ \A i \in DOMAIN got[k] : got'[k][i] = got[k][i]
          ELSE got'[k] = got[k]
  BY <1>1, GiveType DEF Inv
<1>3. \A k \in Socket : Home[k] \in Server
  BY HomeAssumption
<1>4. ASSUME NEW k \in Socket, NEW i \in DOMAIN got[k]
      PROVE  /\ got[k][i] \in DOMAIN casts
             /\ \A j \in DOMAIN got[k] : i # j => got[k][j] # got[k][i]
             /\ IF casts[got[k][i]].uid = Home[k] THEN got[k][i] \notin casting'
                ELSE \A j \in DOMAIN psub'[Home[k]] : got[k][i] < psub'[Home[k]][j].cast
  BY <1>3 DEF Inv, GotOK, Shrinks
<1>5. ASSUME NEW k \in Socket, NEW i \in DOMAIN got'[k]
      PROVE  /\ got'[k][i] \in DOMAIN casts
             /\ \A j \in DOMAIN got'[k] : i # j => got'[k][j] # got'[k][i]
             /\ IF casts[got'[k][i]].uid = Home[k] THEN got'[k][i] \notin casting'
                ELSE \A j \in DOMAIN psub'[Home[k]] : got'[k][i] < psub'[Home[k]][j].cast
  <2>1. CASE k \notin Reached(s, casts[id].opts)
    BY <1>2, <1>4, <2>1, ZenonT(30)
  <2>2. CASE k \in Reached(s, casts[id].opts) /\ i \in DOMAIN got[k]
    <3>1. got'[k][i] = got[k][i]
      BY <1>2, <2>2
    <3>2. ASSUME NEW j \in DOMAIN got'[k], i # j PROVE got'[k][j] # got'[k][i]
      <4>1. CASE j \in DOMAIN got[k]
        BY <1>2, <1>4, <2>2, <3>2, <4>1
      <4>2. CASE j \notin DOMAIN got[k]
        <5>1. got'[k][j] = id
          BY <1>2, <2>2, <4>2
        <5> QED
          BY <2>2, <3>1, <5>1 DEF Fresh, Has
      <4> QED
        BY <4>1, <4>2
    <3> QED
      BY <1>4, <2>2, <3>1, <3>2
  <2>3. CASE k \in Reached(s, casts[id].opts) /\ i \notin DOMAIN got[k]
    <3>1. got'[k][i] = id /\ i = Len(got[k]) + 1
      BY <1>2, <2>3
    <3>2. \A j \in DOMAIN got'[k] : i # j => j \in DOMAIN got[k] /\ got'[k][j] = got[k][j]
      BY <1>2, <2>3, <3>1
    <3>3. \A j \in DOMAIN got'[k] : i # j => got'[k][j] # id
      BY <2>3, <3>2 DEF Fresh, Has
    <3> QED
      BY <2>3, <3>1, <3>3 DEF Fresh
  <2> QED
    BY <2>1, <2>2, <2>3
<1>6. GotOK'
  BY <1>5 DEF GotOK, Shrinks
<1>7. RemoteInOrder'
  <2> SUFFICES ASSUME NEW k \in Socket, NEW i \in DOMAIN got'[k], NEW j \in DOMAIN got'[k],
                      i < j, casts[got'[k][i]].uid # Home[k], casts[got'[k][j]].uid # Home[k]
               PROVE  got'[k][i] < got'[k][j]
    BY DEF RemoteInOrder, Shrinks
  <2>1. CASE k \notin Reached(s, casts[id].opts)
    BY <1>2, <2>1 DEF Inv, RemoteInOrder
  <2>2. CASE k \in Reached(s, casts[id].opts) /\ j \in DOMAIN got[k]
    <3>1. i \in DOMAIN got[k] /\ got'[k][i] = got[k][i] /\ got'[k][j] = got[k][j]
      BY <1>2, <2>2
    <3> QED
      <4>1. casts[got[k][i]].uid # Home[k] /\ casts[got[k][j]].uid # Home[k]
        BY <3>1
      <4>2. got[k][i] < got[k][j]
        BY <3>1, <4>1, <2>2 DEF Inv, RemoteInOrder
      <4> QED
        BY <3>1, <4>2
  <2>3. CASE k \in Reached(s, casts[id].opts) /\ j \notin DOMAIN got[k]
    <3>1. j = Len(got[k]) + 1 /\ got'[k][j] = id /\ i \in DOMAIN got[k] /\ got'[k][i] = got[k][i]
      BY <1>2, <2>3
    <3> QED
      BY <2>3, <3>1 DEF Fresh
  <2> QED
    BY <2>1, <2>2, <2>3
<1> QED
  BY <1>6, <1>7

(* Who has what, after a broadcast was given. *)
LEMMA GiveHas ==
  ASSUME Inv, NEW s \in Server, NEW id \in Cast, Give(s, id), NEW k \in Socket, NEW x
  PROVE  Has(k, x)' <=> Has(k, x) \/ (x = id /\ k \in Reached(s, casts[id].opts))
<1>1. IF k \in Reached(s, casts[id].opts)
        THEN /\ DOMAIN got'[k] = 1 .. Len(got[k]) + 1 /\ DOMAIN got[k] = 1 .. Len(got[k])
             /\ got'[k][Len(got[k]) + 1] = id /\ Len(got[k]) \in Nat
             /\ \A i \in DOMAIN got[k] : got'[k][i] = got[k][i]
        ELSE got'[k] = got[k]
  BY GiveType DEF Inv
<1>2. CASE k \in Reached(s, casts[id].opts)
  <2>1. \A i \in DOMAIN got'[k] : i \in DOMAIN got[k] \/ i = Len(got[k]) + 1
    BY <1>1, <1>2
  <2>2. \A i \in DOMAIN got[k] : i \in DOMAIN got'[k]
    BY <1>1, <1>2
  <2>3. Len(got[k]) + 1 \in DOMAIN got'[k]
    BY <1>1, <1>2
  <2> QED
    BY <1>1, <1>2, <2>1, <2>2, <2>3 DEF Has
<1>3. CASE k \notin Reached(s, casts[id].opts)
  BY <1>1, <1>3 DEF Has
<1> QED
  BY <1>2, <1>3

LEMMA LocallyKeeps ==
  ASSUME Inv, NEW id \in Cast, BroadcastLocally(id)
  PROVE  TypeInv' /\ QueueOK' /\ GotOK' /\ RemoteInOrder' /\ SteadyOK'
<1>1. /\ id \in casting /\ id \in DOMAIN casts /\ casting' = casting \ {id}
      /\ Give(casts[id].uid, id) /\ casts[id].uid \in Server
      /\ UNCHANGED <<rooms, up, psub, sub, casts, calls, moves, moved, lost>>
  <2>1. id \in casting /\ id \in DOMAIN casts
    BY DEF BroadcastLocally, Inv, TypeInv, CountsOK
  <2>2. casts \in Seq([uid : Server, opts : Opts])
    BY DEF Inv, TypeInv, TypeOK
  <2>3. casts[id].uid \in Server
    <3> DEFINE Record == [uid : Server, opts : Opts]
    <3>1. casts \in Seq(Record) /\ id \in DOMAIN casts
      BY <2>1, <2>2
    <3>2. \A r \in Record : r.uid \in Server
      OBVIOUS
    <3> HIDE DEF Record
    <3>3. casts[id] \in Record
      BY <3>1
    <3> QED
      BY <3>2, <3>3
  <2> QED
    BY <2>1, <2>3 DEF BroadcastLocally
<1> DEFINE s == casts[id].uid
<1>2. got' \in [Socket -> Seq(Cast)]
  BY <1>1, GiveType DEF Inv
<1>3. TypeInv'
  BY <1>1, <1>2 DEF Inv, TypeInv, TypeOK, CountsOK, FiniteOK
<1>4. QueueOK'
  BY <1>1 DEF Inv, QueueOK
<1>5. Fresh(s, id)
  BY <1>1 DEF Inv, GotOK, Fresh, Reached, Has
<1>6. Shrinks
  BY <1>1 DEF Shrinks
<1>7. GotOK' /\ RemoteInOrder'
  BY <1>1, <1>5, <1>6, GiveKeeps
<1>8. SteadyOK'
  <2> SUFFICES ASSUME NEW x \in DOMAIN casts, NEW k \in Socket, moved[k] < x
               PROVE  /\ Has(k, x)' => IsFor(x, k)
                      /\ (/\ IsFor(x, k) /\ Home[k] \in up \ lost
                          /\ Cardinality(casts[x].opts.rooms) <= 1)
                         => Has(k, x)' \/ Coming(x, k)'
    BY <1>1 DEF SteadyOK, IsFor
  <2>1. Has(k, x)' <=> Has(k, x) \/ (x = id /\ k \in Reached(s, casts[id].opts))
    BY <1>1, GiveHas
  <2>2. k \in Reached(s, casts[id].opts) => IsFor(id, k)
    BY DEF Reached, IsFor
  <2>3. Coming(x, k) => Coming(x, k)' \/ (x = id /\ Home[k] = s)
    BY <1>1 DEF Coming
  <2>4. Home[k] = s /\ IsFor(id, k) => k \in Reached(s, casts[id].opts)
    BY DEF Reached, IsFor
  <2> QED
    BY <2>1, <2>2, <2>3, <2>4 DEF Inv, SteadyOK
<1> QED
  BY <1>3, <1>4, <1>7, <1>8

(* Nothing is given, and the queues lose messages. *)
LEMMA GotShrinks ==
  ASSUME Inv, got' = got, UNCHANGED <<casts, casting>>,
         \A t \in Server : \A j \in DOMAIN psub'[t] : \E i \in DOMAIN psub[t] :
           psub'[t][j] = psub[t][i]
  PROVE  GotOK'
<1>1. ASSUME NEW k \in Socket, NEW i \in DOMAIN got[k]
      PROVE  /\ got[k][i] \in DOMAIN casts
             /\ \A j \in DOMAIN got[k] : i # j => got[k][j] # got[k][i]
             /\ IF casts[got[k][i]].uid = Home[k] THEN got[k][i] \notin casting
                ELSE \A j \in DOMAIN psub'[Home[k]] : got[k][i] < psub'[Home[k]][j].cast
  <2>1. Home[k] \in Server
    BY HomeAssumption
  <2>2. /\ got[k][i] \in DOMAIN casts
        /\ \A j \in DOMAIN got[k] : i # j => got[k][j] # got[k][i]
        /\ IF casts[got[k][i]].uid = Home[k] THEN got[k][i] \notin casting
           ELSE \A j \in DOMAIN psub[Home[k]] : got[k][i] < psub[Home[k]][j].cast
    BY DEF Inv, GotOK
  <2> QED
    BY <2>1, <2>2
<1> QED
  BY <1>1 DEF GotOK

(* The first message of a queue is taken. *)
LEMMA TakenFirst ==
  ASSUME Inv, NEW s \in Server, psub[s] # <<>>, psub' = [psub EXCEPT ![s] = Tail(@)],
         UNCHANGED casts
  PROVE  /\ psub' \in [Server -> Seq(Message)] /\ QueueOK'
         /\ Head(psub[s]) = psub[s][1] /\ 1 \in DOMAIN psub[s]
         /\ \A i \in DOMAIN psub[s] : i # 1 =>
              \E j \in DOMAIN psub'[s] : psub'[s][j] = psub[s][i]
         /\ \A j \in DOMAIN psub'[s] :
              j + 1 \in DOMAIN psub[s] /\ 1 < j + 1 /\ psub'[s][j] = psub[s][j + 1]
         /\ \A t \in Server : t # s => psub'[t] = psub[t]
<1>1. psub \in [Server -> Seq(Message)]
  BY DEF Inv, TypeInv, TypeOK
<1> DEFINE queue == psub[s]
<1>2. queue \in Seq(Message) /\ queue # <<>>
  BY <1>1
<1>3. /\ Head(queue) = queue[1] /\ Tail(queue) \in Seq(Message)
      /\ DOMAIN queue = 1 .. Len(queue) /\ Len(queue) \in Nat /\ Len(queue) > 0
      /\ DOMAIN Tail(queue) = 1 .. Len(queue) - 1
      /\ \A j \in 1 .. Len(queue) - 1 : Tail(queue)[j] = queue[j + 1]
  BY <1>2
<1>4. psub'[s] = Tail(queue) /\ \A t \in Server : t # s => psub'[t] = psub[t]
  BY <1>1
<1>5. psub' \in [Server -> Seq(Message)]
  BY <1>1, <1>3
<1> HIDE DEF queue
<1>6. \A j \in DOMAIN psub'[s] :
        j + 1 \in DOMAIN queue /\ 1 < j + 1 /\ psub'[s][j] = queue[j + 1] /\ j \in Nat
  BY <1>3, <1>4
<1>7. \A i \in DOMAIN queue : i # 1 => \E j \in DOMAIN psub'[s] : psub'[s][j] = queue[i]
  <2> SUFFICES ASSUME NEW i \in DOMAIN queue, i # 1
               PROVE  \E j \in DOMAIN psub'[s] : psub'[s][j] = queue[i]
    OBVIOUS
  <2>1. i - 1 \in 1 .. Len(queue) - 1 /\ (i - 1) + 1 = i
    BY <1>3
  <2> QED
    BY <1>3, <1>4, <2>1
<1>8. QueueOK'
  <2> SUFFICES ASSUME NEW t \in Server, NEW j \in DOMAIN psub'[t]
               PROVE  LET message == psub'[t][j]
                          cast == casts[message.cast]
                      IN /\ message.cast \in DOMAIN casts
                         /\ message.uid = cast.uid /\ ~cast.opts.local
                         /\ IF cast.opts.rooms = {} THEN message.room = None
                            ELSE message.room \in cast.opts.rooms
                         /\ \A i \in DOMAIN psub'[t] : j < i => message.cast < psub'[t][i].cast
    <3>1. casts' = casts
      BY <1>1
    <3> HIDE <1>1, <1>2, <1>3, <1>4, <1>5, <1>6, <1>7
    <3> QED
      BY <3>1, SMTT(30) DEF QueueOK
  <2>1. CASE t # s
    BY <1>4, <2>1 DEF Inv, QueueOK
  <2>2. CASE t = s
    <3>1. j + 1 \in DOMAIN psub[s] /\ psub'[s][j] = psub[s][j + 1]
      BY <1>6, <2>2 DEF queue
    <3>2. ASSUME NEW i \in DOMAIN psub'[s], j < i PROVE psub'[s][j].cast < psub'[s][i].cast
      <4>1. i + 1 \in DOMAIN psub[s] /\ psub'[s][i] = psub[s][i + 1] /\ j + 1 < i + 1
        BY <1>6, <2>2, <3>2 DEF queue
      <4> QED
        BY <3>1, <4>1 DEF Inv, QueueOK
    <3> QED
      BY <2>2, <3>1, <3>2 DEF Inv, QueueOK
  <2> QED
    BY <2>1, <2>2
<1> QED
  BY <1>3, <1>4, <1>5, <1>6, <1>7, <1>8 DEF queue

LEMMA MessageKeeps ==
  ASSUME Inv, NEW s \in Server, OnMessage(s)
  PROVE  TypeInv' /\ QueueOK' /\ GotOK' /\ RemoteInOrder' /\ SteadyOK'
<1> DEFINE message == Head(psub[s])
           id == message.cast
<1>1. /\ psub[s] # <<>> /\ psub' = [psub EXCEPT ![s] = Tail(@)]
      /\ IF HasRoom(s, message.room) /\ message.uid # s THEN Give(s, id) ELSE got' = got
      /\ UNCHANGED <<rooms, up, sub, casting, casts, calls, moves, moved, lost>>
  BY DEF OnMessage
<1>2. /\ psub' \in [Server -> Seq(Message)] /\ QueueOK'
      /\ Head(psub[s]) = psub[s][1] /\ 1 \in DOMAIN psub[s]
      /\ \A i \in DOMAIN psub[s] : i # 1 =>
           \E j \in DOMAIN psub'[s] : psub'[s][j] = psub[s][i]
      /\ \A j \in DOMAIN psub'[s] :
           j + 1 \in DOMAIN psub[s] /\ 1 < j + 1 /\ psub'[s][j] = psub[s][j + 1]
      /\ \A t \in Server : t # s => psub'[t] = psub[t]
  BY <1>1, TakenFirst
<1>3. /\ id \in DOMAIN casts /\ message.uid = casts[id].uid /\ ~casts[id].opts.local
      /\ IF casts[id].opts.rooms = {} THEN message.room = None
         ELSE message.room \in casts[id].opts.rooms
      /\ \A j \in DOMAIN psub[s] : 1 < j => id < psub[s][j].cast
  BY <1>2 DEF Inv, QueueOK
<1> HIDE DEF message, id
<1>4. id \in Cast
  BY <1>3, BoundAssumption DEF Inv, TypeInv, TypeOK, CountsOK, Cast
<1>5. \A j \in DOMAIN psub'[s] : id < psub'[s][j].cast
  BY <1>2, <1>3
<1>6. \A t \in Server : \A j \in DOMAIN psub'[t] : \E i \in DOMAIN psub[t] :
        psub'[t][j] = psub[t][i]
  BY <1>2
<1>7. Shrinks
  BY <1>1, <1>6 DEF Shrinks
<1>8. \A k \in Socket : Home[k] \in Server
  BY HomeAssumption
<1>9. TypeInv' /\ GotOK' /\ RemoteInOrder'
  <2>1. CASE HasRoom(s, message.room) /\ message.uid # s
    <3>1. Give(s, id)
      BY <1>1, <2>1
    <3>2. got' \in [Socket -> Seq(Cast)]
      BY <1>4, <3>1, GiveType DEF Inv
    <3>3. TypeInv'
      BY <1>1, <1>2, <3>2 DEF Inv, TypeInv, TypeOK, CountsOK, FiniteOK
    <3>4. psub[s][1].cast = id
      BY <1>2 DEF message, id
    <3>5. \A k \in Reached(s, casts[id].opts) :
            Home[k] = s /\ k \in Socket /\ casts[id].uid # Home[k]
      BY <1>3, <2>1 DEF Reached
    <3>6. \A k \in Reached(s, casts[id].opts) : \A i \in DOMAIN got[k] :
            casts[got[k][i]].uid # Home[k] => got[k][i] < id
      BY <1>2, <3>4, <3>5 DEF Inv, GotOK
    <3>7. \A k \in Reached(s, casts[id].opts) : ~Has(k, id)
      BY <1>4, <3>5, <3>6 DEF Has, Cast
    <3>8. Fresh(s, id)
      BY <1>5, <3>5, <3>6, <3>7 DEF Fresh
    <3> QED
      BY <1>3, <1>7, <3>1, <3>3, <3>8, GiveKeeps
  <2>2. CASE got' = got
    <3>1. TypeInv'
      BY <1>1, <1>2, <2>2 DEF Inv, TypeInv, TypeOK, CountsOK, FiniteOK
    <3>2. GotOK'
      BY <1>1, <1>6, <1>8, <2>2, GotShrinks
    <3>3. RemoteInOrder'
      BY <1>1, <2>2 DEF Inv, RemoteInOrder
    <3> QED
      BY <3>1, <3>2, <3>3
  <2> QED
    BY <1>1, <2>1, <2>2
<1>10. SteadyOK'
  <2> SUFFICES ASSUME NEW x \in DOMAIN casts, NEW k \in Socket, moved[k] < x
               PROVE  /\ Has(k, x)' => IsFor(x, k)
                      /\ (/\ IsFor(x, k) /\ Home[k] \in up \ lost
                          /\ Cardinality(casts[x].opts.rooms) <= 1)
                         => Has(k, x)' \/ Coming(x, k)'
    BY <1>1 DEF SteadyOK, IsFor
  <2>1. Has(k, x)' <=> \/ Has(k, x)
                       \/ /\ x = id /\ k \in Reached(s, casts[id].opts)
                          /\ HasRoom(s, message.room) /\ message.uid # s
    <3>1. CASE HasRoom(s, message.room) /\ message.uid # s
      BY <1>1, <1>4, <3>1, GiveHas
    <3>2. CASE ~(HasRoom(s, message.room) /\ message.uid # s)
      BY <1>1, <3>2 DEF Has
    <3> QED
      BY <3>1, <3>2
  <2>2. k \in Reached(s, casts[id].opts) /\ HasRoom(s, message.room) => IsFor(id, k)
    BY <1>3 DEF Reached, IsFor, HasRoom
  <2>3. Coming(x, k) => Coming(x, k)' \/ (x = id /\ Home[k] = s /\ casts[id].uid # s)
    <3>1. CASE casts[x].uid = Home[k]
      BY <1>1, <3>1 DEF Coming
    <3>2. CASE casts[x].uid # Home[k] /\ Home[k] # s
      BY <1>1, <1>2, <1>8, <3>2 DEF Coming
    <3>3. CASE casts[x].uid # Home[k] /\ Home[k] = s
      <4>1. ASSUME NEW i \in DOMAIN psub[s], psub[s][i].cast = x, x # id
            PROVE  \E j \in DOMAIN psub'[s] : psub'[s][j].cast = x
        <5>1. i # 1
          BY <1>2, <4>1 DEF message, id
        <5> QED
          BY <1>2, <4>1, <5>1
      <4> QED
        BY <1>1, <3>3, <4>1 DEF Coming
    <3> QED
      BY <3>1, <3>2, <3>3
  <2>4. ASSUME IsFor(id, k), Home[k] = s, casts[id].uid # s,
               Cardinality(casts[id].opts.rooms) <= 1
        PROVE  /\ k \in Reached(s, casts[id].opts) /\ HasRoom(s, message.room)
               /\ message.uid # s
    <3>1. k \in Reached(s, casts[id].opts) /\ message.uid # s
      BY <1>3, <2>4 DEF Reached, IsFor
    <3>3. casts[id].opts.rooms # {}
      BY <2>4 DEF IsFor
    <3>2. HasRoom(s, message.room)
      <4> DEFINE R == casts[id].opts.rooms
      <4>1. IsFiniteSet(R) /\ Cardinality(R) <= 1
        BY <1>3, <2>4 DEF Inv, TypeInv, FiniteOK
      <4>2. Cardinality(R) = 1
        BY <3>3, <4>1, FS_EmptySet, FS_CardinalityType
      <4>3. PICK r : R = {r}
        BY <4>1, <4>2, FS_Singleton
      <4>4. rooms[k] # None /\ r \in rooms[k] /\ message.room = r
        BY <1>3, <2>4, <3>3, <4>3 DEF IsFor, Matches
      <4>5. r # None
        BY <4>4, NoneAssumption DEF Inv, TypeInv, TypeOK
      <4> QED
        BY <2>4, <4>4, <4>5 DEF HasRoom
    <3> QED
      BY <3>1, <3>2
  <2> QED
    BY <2>1, <2>2, <2>3, <2>4 DEF Inv, SteadyOK
<1> QED
  BY <1>2, <1>9, <1>10

LEMMA CloseKeeps ==
  ASSUME Inv, NEW s \in Server, Close(s)
  PROVE  Inv'
<1>1. /\ up' \subseteq up
      /\ UNCHANGED <<rooms, psub, sub, casting, got, casts, calls, moves, moved, lost>>
  BY DEF Close
<1>2. TypeInv'
  BY <1>1 DEF Inv, TypeInv, TypeOK, CountsOK, FiniteOK
<1>3. QueueOK' /\ GotOK' /\ RemoteInOrder'
  BY <1>1 DEF Inv, QueueOK, GotOK, RemoteInOrder
<1>4. SteadyOK'
  BY <1>1 DEF Inv, SteadyOK, Has, IsFor, Coming
<1> QED
  BY <1>2, <1>3, <1>4 DEF Inv

LEMMA LoseKeeps ==
  ASSUME Inv, NEW s \in Server, LoseMessages(s)
  PROVE  Inv'
<1>1. /\ lost = {} /\ lost' = {s}
      /\ psub' = [psub EXCEPT ![s] = <<>>] \/ psub' = psub
      /\ sub' = [sub EXCEPT ![s] = <<>>] \/ sub' = sub
      /\ UNCHANGED <<rooms, up, casting, got, casts, calls, moves, moved>>
  BY DEF LoseMessages
<1>2. psub \in [Server -> Seq(Message)] /\ sub \in [Server -> Seq(Request)]
  BY DEF Inv, TypeInv, TypeOK
<1>3. /\ psub' \in [Server -> Seq(Message)] /\ sub' \in [Server -> Seq(Request)]
      /\ \A t \in Server : psub'[t] = psub[t] \/ (psub'[t] = <<>> /\ t = s)
  <2>1. ASSUME NEW S, NEW queue \in [Server -> Seq(S)]
        PROVE  [queue EXCEPT ![s] = <<>>] \in [Server -> Seq(S)]
    OBVIOUS
  <2>2. psub' \in [Server -> Seq(Message)] /\ sub' \in [Server -> Seq(Request)]
    <3>1. /\ [psub EXCEPT ![s] = <<>>] \in [Server -> Seq(Message)]
          /\ [sub EXCEPT ![s] = <<>>] \in [Server -> Seq(Request)]
      BY <1>2, <2>1
    <3> QED
      BY <1>1, <1>2, <3>1
  <2>3. \A t \in Server : psub'[t] = psub[t] \/ (psub'[t] = <<>> /\ t = s)
    BY <1>1, <1>2
  <2> QED
    BY <2>2, <2>3
<1>4. TypeInv'
  BY <1>1, <1>3 DEF Inv, TypeInv, TypeOK, CountsOK, FiniteOK
<1>5. ASSUME NEW t \in Server, NEW i \in DOMAIN psub'[t]
      PROVE  psub'[t] = psub[t]
  BY <1>3, <1>5
<1>6. QueueOK'
  BY <1>1, <1>5 DEF Inv, QueueOK
<1>7. GotOK'
  BY <1>1, <1>5, GotShrinks
<1>8. RemoteInOrder'
  BY <1>1 DEF Inv, RemoteInOrder
<1>9. SteadyOK'
  <2> SUFFICES ASSUME NEW x \in DOMAIN casts, NEW k \in Socket, moved[k] < x
               PROVE  /\ Has(k, x) => IsFor(x, k)
                      /\ (/\ IsFor(x, k) /\ Home[k] \in up \ lost'
                          /\ Cardinality(casts[x].opts.rooms) <= 1)
                         => Has(k, x) \/ Coming(x, k)'
    BY <1>1 DEF SteadyOK, IsFor, Has
  <2>1. Home[k] \notin lost' => psub'[Home[k]] = psub[Home[k]]
    BY <1>1, <1>3, HomeAssumption
  <2>2. Home[k] \notin lost' => (Coming(x, k)' <=> Coming(x, k))
    BY <1>1, <2>1 DEF Coming
  <2> QED
    BY <1>1, <2>2 DEF Inv, SteadyOK
<1> QED
  BY <1>4, <1>6, <1>7, <1>8, <1>9 DEF Inv

LEMMA InvInit ==
  ASSUME Init
  PROVE  Inv
<1>1. TypeInv
  BY BoundAssumption DEF Init, TypeInv, TypeOK, CountsOK, FiniteOK
<1>2. QueueOK /\ GotOK /\ RemoteInOrder /\ SteadyOK
  BY DEF Init, QueueOK, GotOK, RemoteInOrder, SteadyOK
<1> QED
  BY <1>1, <1>2 DEF Inv

LEMMA InvStep ==
  ASSUME Inv, [Next]_vars
  PROVE  Inv'
<1>t. TypeInv
  BY DEF Inv
<1>1. ASSUME NEW k \in Socket,
             Connect(k) \/ DelAll(k) \/ \E r \in Room : AddAll(k, r) \/ Del(k, r)
      PROVE  Inv'
  BY <1>t, <1>1, MovesStep, RoomsKeep DEF Inv
<1>2. ASSUME NEW s \in Server, NEW o \in CastOpts, Broadcast(s, o)
      PROVE  Inv'
  BY <1>t, <1>2, BroadcastType, BroadcastKeeps DEF Inv
<1>3. ASSUME NEW s \in Server, NEW o \in CallOpts, NEW call \in Calls, CallSockets(s, call, o)
      PROVE  Inv'
  BY <1>t, <1>3, CallStep, RoomsKeep DEF Inv
<1>4. ASSUME NEW id \in Cast, BroadcastLocally(id)
      PROVE  Inv'
  BY <1>4, LocallyKeeps DEF Inv
<1>5. ASSUME NEW s \in Server, OnMessage(s)
      PROVE  Inv'
  BY <1>5, MessageKeeps DEF Inv
<1>6. ASSUME NEW s \in Server, OnRequest(s)
      PROVE  Inv'
  BY <1>t, <1>6, RequestStep, RoomsKeep DEF Inv
<1>7. ASSUME NEW s \in Server, Close(s) \/ LoseMessages(s)
      PROVE  Inv'
  BY <1>7, CloseKeeps, LoseKeeps
<1>8. CASE UNCHANGED vars
  BY <1>8, SMTT(20) DEF vars, Inv, TypeInv, TypeOK, CountsOK, FiniteOK, QueueOK, GotOK, RemoteInOrder,
              SteadyOK, Has, IsFor, Coming
<1> QED
  BY <1>1, <1>2, <1>3, <1>4, <1>5, <1>6, <1>7, <1>8 DEF Next

LEMMA Invariant == Spec => []Inv
<1>1. Init => Inv
  BY InvInit
<1>2. Inv /\ [Next]_vars => Inv'
  BY InvStep
<1> QED
  BY <1>1, <1>2, PTL DEF Spec

(* Every variable keeps its type. *)
THEOREM TypeCorrect == Spec => []TypeOK
<1>1. Inv => TypeOK
  BY DEF Inv, TypeInv
<1> QED
  BY <1>1, Invariant, PTL

(* A socket gets the broadcasts of other servers in the order of publication,  *)
(* none twice, whatever is lost (onmessage in the one subscriber goroutine).   *)
THEOREM InOrder == Spec => []RemoteInOrder
<1>1. Inv => RemoteInOrder
  BY DEF Inv
<1> QED
  BY <1>1, Invariant, PTL

(* A broadcast to one room reaches each socket of the cluster that did not     *)
(* move once if it is for it, else never; a local one, or one without rooms,   *)
(* so reaches those of the broadcaster's server (Broadcast, onmessage).       *)
THEOREM ReachedOnce == Spec => []SteadyReachedOnce
<1>1. ASSUME Inv PROVE SteadyReachedOnce
  <2> SUFFICES ASSUME NEW id \in DOMAIN casts, NEW k \in Socket,
                      moved[k] < id, ~UnderWay(id, Home[k]), Home[k] \in up \ lost,
                      Cardinality(casts[id].opts.rooms) <= 1
               PROVE  Count(id, k) = IF IsFor(id, k) THEN 1 ELSE 0
    BY DEF SteadyReachedOnce, IsFor
  <2>1. ~Coming(id, k)
    BY DEF Coming, UnderWay
  <2>2. Has(k, id) <=> IsFor(id, k)
    BY <1>1, <2>1 DEF Inv, SteadyOK
  <2>3. \A i, j \in DOMAIN got[k] : got[k][i] = id /\ got[k][j] = id => i = j
    BY <1>1 DEF Inv, GotOK
  <2>4. CASE Has(k, id)
    <3>1. PICK i \in DOMAIN got[k] : got[k][i] = id
      BY <2>4 DEF Has
    <3>2. {j \in DOMAIN got[k] : got[k][j] = id} = {i}
      BY <2>3, <3>1
    <3> QED
      BY <2>2, <2>4, <3>2, FS_Singleton DEF Count
  <2>5. CASE ~Has(k, id)
    <3>1. {j \in DOMAIN got[k] : got[k][j] = id} = {}
      BY <2>5 DEF Has
    <3> QED
      BY <2>2, <2>5, <3>1, FS_EmptySet DEF Count
  <2> QED
    BY <2>4, <2>5
<1> QED
  BY <1>1, Invariant, PTL

-----------------------------------------------------------------------------
(* Serving a queue of requests: what the recursion of Served computes.        *)
LEMMA LeastNatural ==
  ASSUME NEW T, T \subseteq Nat, T # {}
  PROVE  \E m \in T : \A n \in T : m <= n
<1> DEFINE R == StrictSubsetOrdering(Nat)
           U == {0 .. n : n \in T}
<1>1. U \subseteq FiniteSubsetsOf(Nat)
  <2>1. ASSUME NEW n \in T PROVE 0 .. n \subseteq Nat /\ IsFiniteSet(0 .. n)
    <3>1. n \in Int /\ 0 \in Int
      OBVIOUS
    <3> QED
      BY <3>1, FS_Interval
  <2> QED
    BY <2>1 DEF FiniteSubsetsOf
<1>2. U # {}
  OBVIOUS
<1>3. IsWellFoundedOn(R, FiniteSubsetsOf(Nat))
  BY FS_StrictSubsetOrderingWellFounded
<1>4. PICK X \in U : \A Y \in U : ~(<<Y, X>> \in R)
  <2> HIDE DEF R, U
  <2> QED
    BY <1>1, <1>2, <1>3, WFMin
<1>5. PICK m \in T : X = 0 .. m
  OBVIOUS
<1>6. ASSUME NEW n \in T, ~(m <= n) PROVE FALSE
  <2>1. n \in Nat /\ m \in Nat /\ n < m
    BY <1>6
  <2>2. 0 .. n \subseteq 0 .. m /\ m \in 0 .. m /\ m \notin 0 .. n
    BY <2>1
  <2>3. <<0 .. n, 0 .. m>> \in R
    BY <2>1, <2>2 DEF StrictSubsetOrdering
  <2> QED
    BY <1>4, <1>5, <2>3
<1> QED
  BY <1>6

(* A run of a queue: where a socket in these rooms is after each request.     *)
Run(f, place, queue, n) ==
  f = [i \in 0 .. n |-> IF i = 0 THEN place ELSE Serve(f[i - 1], queue[i])]

LEMMA RunExists ==
  ASSUME NEW place, NEW queue, NEW n \in Nat
  PROVE  \E f : Run(f, place, queue, n)
<1> DEFINE T == {i \in Nat : \A f : ~Run(f, place, queue, i)}
<1>1. SUFFICES ASSUME T # {} PROVE FALSE
  OBVIOUS
<1>2. PICK m \in T : \A i \in T : m <= i
  BY <1>1, LeastNatural
<1>3. CASE m = 0
  <2> DEFINE f == [i \in 0 .. 0 |-> place]
  <2>1. f = [i \in 0 .. 0 |-> IF i = 0 THEN place ELSE Serve(f[i - 1], queue[i])]
    OBVIOUS
  <2> HIDE DEF f
  <2>2. Run(f, place, queue, 0)
    BY <2>1 DEF Run
  <2> QED
    BY <1>3, <2>2
<1>4. CASE m # 0
  <2>1. m - 1 \in Nat /\ m - 1 \notin T
    BY <1>2, <1>4
  <2>2. PICK g : Run(g, place, queue, m - 1)
    BY <2>1
  <2> DEFINE f == [i \in 0 .. m |-> IF i = m THEN Serve(g[m - 1], queue[m]) ELSE g[i]]
  <2>3. \A i \in 0 .. m - 1 : g[i] = IF i = 0 THEN place ELSE Serve(g[i - 1], queue[i])
    BY <2>1, <2>2 DEF Run
  <2>4. \A i \in 0 .. m - 1 : f[i] = g[i]
    BY <2>1
  <2>5. f[m] = Serve(g[m - 1], queue[m])
    OBVIOUS
  <2>6. f = [i \in 0 .. m |-> f[i]]
    OBVIOUS
  <2> HIDE DEF f
  <2>7. ASSUME NEW i \in 0 .. m
        PROVE  f[i] = IF i = 0 THEN place ELSE Serve(f[i - 1], queue[i])
    <3>1. CASE i = m
      BY <1>4, <2>1, <2>4, <2>5, <3>1
    <3>2. CASE i # m
      <4>1. i \in 0 .. m - 1 /\ (i # 0 => i - 1 \in 0 .. m - 1)
        BY <2>1, <3>2
      <4> QED
        BY <2>3, <2>4, <4>1
    <3> QED
      BY <3>1, <3>2
  <2>8. Run(f, place, queue, m)
    BY <2>6, <2>7 DEF Run
  <2> QED
    BY <2>8
<1> QED
  BY <1>3, <1>4

LEMMA RunUnique ==
  ASSUME NEW place, NEW queue, NEW other, NEW n \in Nat, NEW f, NEW g,
         Run(f, place, queue, n), Run(g, place, other, n),
         \A i \in 1 .. n : queue[i] = other[i]
  PROVE  \A i \in 0 .. n : f[i] = g[i]
<1> DEFINE T == {i \in 0 .. n : f[i] # g[i]}
<1>1. SUFFICES ASSUME T # {} PROVE FALSE
  OBVIOUS
<1>2. PICK m \in T : \A i \in T : m <= i
  <2>1. T \subseteq Nat
    OBVIOUS
  <2> HIDE DEF T
  <2> QED
    BY <1>1, <2>1, LeastNatural
<1>3. /\ f[m] = IF m = 0 THEN place ELSE Serve(f[m - 1], queue[m])
      /\ g[m] = IF m = 0 THEN place ELSE Serve(g[m - 1], other[m])
  BY DEF Run
<1>4. m # 0
  BY <1>3
<1>5. m - 1 \in 0 .. n /\ m - 1 \notin T /\ m \in 1 .. n
  BY <1>2, <1>4
<1> QED
  BY <1>3, <1>4, <1>5

LEMMA ServedRun ==
  ASSUME NEW S, NEW queue \in Seq(S), NEW place
  PROVE  \E f : Run(f, place, queue, Len(queue)) /\ Served(place, queue) = f[Len(queue)]
<1> DEFINE n == Len(queue)
           h == CHOOSE f : f = [i \in 0 .. n |-> IF i = 0 THEN place ELSE Serve(f[i - 1], queue[i])]
<1>1. \E f : f = [i \in 0 .. n |-> IF i = 0 THEN place ELSE Serve(f[i - 1], queue[i])]
  <2>1. n \in Nat
    OBVIOUS
  <2> QED
    <3>1. \E f : Run(f, place, queue, n)
      BY <2>1, RunExists
    <3> QED
      BY <3>1 DEF Run
<1>2. h = [i \in 0 .. n |-> IF i = 0 THEN place ELSE Serve(h[i - 1], queue[i])]
  BY <1>1
<1>3. Served(place, queue) = h[n]
  BY DEF Served
<1> HIDE DEF h
<1> QED
  BY <1>2, <1>3 DEF Run

LEMMA ServedAppend ==
  ASSUME NEW S, NEW queue \in Seq(S), NEW place, NEW q \in S
  PROVE  Served(place, Append(queue, q)) = Serve(Served(place, queue), q)
<1> DEFINE more == Append(queue, q)
           n == Len(queue)
<1>1. /\ more \in Seq(S) /\ Len(more) = n + 1 /\ n \in Nat
      /\ more[n + 1] = q /\ \A i \in 1 .. n : more[i] = queue[i]
  OBVIOUS
<1> HIDE DEF more
<1>2. PICK f : Run(f, place, more, n + 1) /\ Served(place, more) = f[n + 1]
  BY <1>1, ServedRun
<1>3. PICK g : Run(g, place, queue, n) /\ Served(place, queue) = g[n]
  BY ServedRun
<1> HIDE DEF n
<1> DEFINE e == [i \in 0 .. n |-> f[i]]
<1>4. e = [i \in 0 .. n |-> IF i = 0 THEN place ELSE Serve(e[i - 1], more[i])]
  <2>1. \A i \in 0 .. n : e[i] = f[i]
    OBVIOUS
  <2>2. \A i \in 0 .. n + 1 : f[i] = IF i = 0 THEN place ELSE Serve(f[i - 1], more[i])
    BY <1>2 DEF Run
  <2>3. \A i \in 0 .. n : i \in 0 .. n + 1 /\ (i # 0 => i - 1 \in 0 .. n)
    BY <1>1
  <2>4. \A i \in 0 .. n : e[i] = IF i = 0 THEN place ELSE Serve(e[i - 1], more[i])
    BY <2>1, <2>2, <2>3
  <2>5. e = [i \in 0 .. n |-> e[i]]
    OBVIOUS
  <2> HIDE DEF e
  <2> QED
    BY <2>4, <2>5
<1>5. e[n] = f[n]
  BY <1>1
<1> HIDE DEF e
<1>6. Run(e, place, more, n)
  BY <1>4 DEF Run
<1>7. e[n] = g[n]
  <2>1. \A i \in 1 .. n : more[i] = queue[i]
    BY <1>1
  <2>2. \A i \in 0 .. n : e[i] = g[i]
    <3>1. n \in Nat /\ Run(e, place, more, n) /\ Run(g, place, queue, n)
      BY <1>1, <1>3, <1>6
    <3> QED
      BY <2>1, <3>1, RunUnique
  <2> QED
    BY <1>1, <2>2
<1>8. f[n + 1] = Serve(f[n], q)
  BY <1>1, <1>2 DEF Run
<1> QED
  BY <1>2, <1>3, <1>5, <1>7, <1>8 DEF more

LEMMA ServedHead ==
  ASSUME NEW S, NEW queue \in Seq(S), NEW place, queue # <<>>
  PROVE  Served(place, queue) = Served(Serve(place, Head(queue)), Tail(queue))
<1> DEFINE rest == Tail(queue)
           n == Len(rest)
<1>1. /\ rest \in Seq(S) /\ Len(queue) = n + 1 /\ n \in Nat
      /\ Head(queue) = queue[1] /\ \A i \in 1 .. n : rest[i] = queue[i + 1]
  OBVIOUS
<1> HIDE DEF rest
<1>2. PICK f : Run(f, place, queue, n + 1) /\ Served(place, queue) = f[n + 1]
  BY <1>1, ServedRun
<1>3. PICK g : /\ Run(g, Serve(place, Head(queue)), rest, n)
               /\ Served(Serve(place, Head(queue)), rest) = g[n]
  BY <1>1, ServedRun
<1> HIDE DEF n
<1> DEFINE e == [i \in 0 .. n |-> f[i + 1]]
<1>4. \A i \in 0 .. n : e[i] = f[i + 1]
  OBVIOUS
<1>5. \A i \in 0 .. n + 1 : f[i] = IF i = 0 THEN place ELSE Serve(f[i - 1], queue[i])
  BY <1>2 DEF Run
<1>6. e = [i \in 0 .. n |-> e[i]]
  OBVIOUS
<1> HIDE DEF e
<1>7. ASSUME NEW i \in 0 .. n
      PROVE  e[i] = IF i = 0 THEN Serve(place, Head(queue)) ELSE Serve(e[i - 1], rest[i])
  <2>1. CASE i = 0
    <3>1. f[1] = Serve(f[0], queue[1]) /\ f[0] = place
      BY <1>1, <1>5
    <3> QED
      BY <1>1, <1>4, <2>1, <3>1
  <2>2. CASE i # 0
    <3>1. i + 1 \in 0 .. n + 1 /\ i - 1 \in 0 .. n /\ (i - 1) + 1 = i /\ (i + 1) - 1 = i
          /\ i \in 1 .. n /\ i + 1 # 0
      BY <1>1, <2>2
    <3>2. f[i + 1] = Serve(f[i], queue[i + 1])
      BY <1>5, <3>1
    <3>3. e[i - 1] = f[i]
      BY <1>4, <3>1
    <3> QED
      BY <1>1, <1>4, <2>2, <3>1, <3>2, <3>3
  <2> QED
    BY <2>1, <2>2
<1>8. Run(e, Serve(place, Head(queue)), rest, n)
  BY <1>6, <1>7 DEF Run
<1>9. e[n] = g[n]
  <2>1. \A i \in 0 .. n : e[i] = g[i]
    BY <1>1, <1>3, <1>8, RunUnique
  <2> QED
    BY <1>1, <2>1
<1>10. e[n] = f[n + 1]
  BY <1>1, <1>4
<1> QED
  BY <1>2, <1>3, <1>9, <1>10 DEF rest

(* A step decides what becomes of a socket as DecidedWhenPublished says; what   *)
(* names no room decides nothing.                                             *)
LEMMA DecidedStep ==
  ASSUME Inv, [Next]_vars, moves' = moves, lost' = lost,
         NEW k \in Socket, Home[k] \in up \ lost
  PROVE  IF calls' = calls \/ Last(calls').opts = Nobody THEN Decided(k)' = Decided(k)
         ELSE LET q == Last(calls') IN
              Decided(k)' = IF Matches(Decided(k), q.opts) THEN After(q, Decided(k))
                            ELSE Decided(k)
<1> DEFINE Goal ==
      IF calls' = calls \/ Last(calls').opts = Nobody THEN Decided(k)' = Decided(k)
      ELSE LET q == Last(calls') IN
           Decided(k)' = IF Matches(Decided(k), q.opts) THEN After(q, Decided(k))
                         ELSE Decided(k)
<1>h. Home[k] \in Server
  BY HomeAssumption
<1>y. /\ sub \in [Server -> Seq(Request)] /\ calls \in Seq(Request) /\ moves \in Nat
      /\ rooms \in [Socket -> {None} \cup SUBSET Room]
  BY DEF Inv, TypeInv, TypeOK
<1>d. Decided(k) = Served(rooms[k], sub[Home[k]])
  BY DEF Decided
<1>e. Decided(k)' = Served(rooms'[k], sub'[Home[k]])
  BY DEF Decided
<1>s. ASSUME rooms'[k] = rooms[k], sub'[Home[k]] = sub[Home[k]], calls' = calls
      PROVE  Goal
  BY <1>d, <1>e, <1>s
<1> HIDE DEF Goal
<1>1. ASSUME NEW j \in Socket,
             Connect(j) \/ DelAll(j) \/ \E r \in Room : AddAll(j, r) \/ Del(j, r)
      PROVE  Goal
  BY <1>y, <1>1 DEF Connect, DelAll, AddAll, Del, Move
<1>2. ASSUME NEW s \in Server, NEW o \in CastOpts, Broadcast(s, o)
      PROVE  Goal
  BY <1>2, <1>s DEF Broadcast
<1>3. ASSUME NEW s \in Server, NEW o \in CallOpts, NEW call \in Calls, CallSockets(s, call, o)
      PROVE  Goal
  <2> DEFINE q == [type |-> call.type, uid |-> s, rooms |-> call.rooms,
                   opts |-> [rooms |-> o.rooms, except |-> o.except]]
  <2>q. q \in Request
    BY CallTypes
  <2>1. ~o.local
    BY <1>3, <1>y DEF CallSockets
  <2>2. sub' = Publish(sub, q) /\ calls' = Append(calls, q) /\ rooms' = rooms
    BY <1>3, <2>1 DEF CallSockets
  <2> HIDE DEF q
  <2>3. sub'[Home[k]] = Append(sub[Home[k]], q)
    <3>1. \A s2 \in Server : Publish(sub, q)[s2] =
            IF s2 \in up THEN Append(sub[s2], q) ELSE sub[s2]
      BY <1>y, <2>q, PublishType
    <3> QED
      BY <1>h, <2>2, <3>1
  <2>4. calls' # calls /\ Last(calls') = q
    BY <1>y, <2>q, <2>2 DEF Last
  <2>5. Decided(k)' = Serve(Decided(k), q)
    BY <1>h, <1>y, <1>d, <1>e, <2>q, <2>2, <2>3, ServedAppend
  <2> QED
    BY <2>4, <2>5 DEF Goal, Serve
<1>4. ASSUME NEW id \in Cast, BroadcastLocally(id)
      PROVE  Goal
  BY <1>4, <1>s DEF BroadcastLocally
<1>5. ASSUME NEW s \in Server, OnMessage(s) \/ Close(s) \/ LoseMessages(s)
      PROVE  Goal
  BY <1>5, <1>s DEF OnMessage, Close, LoseMessages
<1>6. ASSUME NEW s \in Server, OnRequest(s)
      PROVE  Goal
  <2> DEFINE q == Head(sub[s])
  <2>1. /\ sub[s] # <<>> /\ sub' = [sub EXCEPT ![s] = Tail(@)] /\ calls' = calls
        /\ IF CheckOpt(q.opts) THEN Apply(s, q) ELSE UNCHANGED <<rooms, moved>>
    BY <1>6 DEF OnRequest
  <2>2. q \in Request
    BY <1>y, <2>1
  <2> HIDE DEF q
  <2>3. CheckOpt(q.opts) <=> q.opts # Nobody
    BY <2>2 DEF CheckOpt, Nobody, Request
  <2>4. CASE Home[k] # s
    <3>1. sub'[Home[k]] = sub[Home[k]]
      BY <1>h, <1>y, <2>1, <2>4
    <3>2. rooms'[k] = rooms[k]
      BY <2>1, <2>4 DEF Apply, Reached
    <3> QED
      BY <1>s, <2>1, <3>1, <3>2
  <2>5. CASE Home[k] = s
    <3>1. sub'[s] = Tail(sub[s])
      BY <1>y, <2>1
    <3>2. rooms'[k] = Serve(rooms[k], q)
      BY <2>1, <2>3, <2>5 DEF Apply, Reached, Serve
    <3>3. Served(rooms[k], sub[s]) = Served(Serve(rooms[k], q), Tail(sub[s]))
      BY <1>y, <2>1, ServedHead DEF q
    <3>4. Decided(k)' = Decided(k)
      BY <1>d, <1>e, <2>5, <3>1, <3>2, <3>3
    <3> QED
      BY <2>1, <3>4 DEF Goal
  <2> QED
    BY <2>4, <2>5
<1>7. ASSUME UNCHANGED vars PROVE Goal
  <2>1. rooms' = rooms /\ sub' = sub /\ calls' = calls
    BY <1>7 DEF vars
  <2> QED
    BY <1>s, <2>1
<1>8. Goal
  <2>1. ASSUME Next PROVE Goal
    BY <1>1, <1>2, <1>3, <1>4, <1>5, <1>6, <2>1 DEF Next
  <2> QED
    BY <1>7, <2>1
<1> QED
  BY <1>8 DEF Goal

(* The cluster behaves as if what SocketsJoin, SocketsLeave and               *)
(* DisconnectSockets with rooms do to its sockets was done when published.    *)
THEOREM Decides == Spec => DecidedWhenPublished
<1>1. ASSUME Inv, [Next]_vars
      PROVE  [(/\ moves' = moves /\ lost' = lost
               /\ calls' = calls \/ Last(calls').opts # Nobody)
              => \A k \in Socket : Home[k] \in up \ lost =>
                  IF calls' = calls THEN Decided(k)' = Decided(k)
                  ELSE LET q == Last(calls') IN
                       Decided(k)' = IF Matches(Decided(k), q.opts) THEN After(q, Decided(k))
                                     ELSE Decided(k)]_vars
  BY <1>1, DecidedStep
<1> QED
  BY <1>1, Invariant, PTL DEF Spec, DecidedWhenPublished
=============================================================================
