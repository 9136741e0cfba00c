--------------------------- MODULE RedisFetchProofs ---------------------------
(***************************************************************************)
(* What RedisFetch guarantees for any number of calls, request ids, servers *)
(* and sockets, whatever comes, goes and gets lost.                        *)
(***************************************************************************)
EXTENDS RedisFetch, FiniteSetTheorems, TLAPS

(* The calls that have taken an id from the pool and not put it back.       *)
Holding(c) == Fetching(c) \/ pc[c] = "emit"

HoldOK == \A c \in Call : /\ Holding(c) => idOf[c] \in Id \cap used
                          /\ pc[c] = "start" => idOf[c] = None

(* As long as nobody has put an id back twice, each id is in the pool, held  *)
(* by one call, or given up.                                                *)
PoolOK ==
  /\ \A i \in Id : pool[i] > 0 => i \in used
  /\ ~emitted =>
       /\ \A i \in Id : pool[i] <= 1
       /\ \A c \in Call : Holding(c) => pool[idOf[c]] = 0
       /\ \A c, d \in Call : Holding(c) /\ Holding(d) /\ idOf[c] = idOf[d] => c = d

Inv == TypeOK /\ HoldOK /\ PoolOK

-----------------------------------------------------------------------------
(* TypeOK by the groups of variables that steps change. *)
Message == [type : {"request", "response"}, id : Id, from : {None} \cup Other,
            sockets : Seq(Socket)]
WireType ==
  /\ others \subseteq Other /\ todo \in [Other -> Seq(Id)] /\ changes \in 0 .. MaxChanges
  /\ inbox \in Seq(Message)
IdType == pool \in [Id -> Nat] /\ used \subseteq Id /\ reused \in BOOLEAN /\ emitted \in BOOLEAN
TableType == requests \in [Id -> {None} \cup Call] /\ ackRequests \subseteq Id
CallType ==
  /\ pc \in [Call -> {"start", "store", "publish", "failed", "read", "recycle",
                      "delete", "put", "emit", "done"}]
  /\ idOf \in [Call -> {None} \cup Id]
  /\ sockets \in [Call -> Seq(Socket)] /\ timedOut \subseteq Call
ChannelType ==
  /\ buffer \in [Call -> Seq(Socket)] /\ \A c \in Call : Len(buffer[c]) <= 1
  /\ msgCount \in [Call -> Nat] /\ closed \in [Call -> BOOLEAN] /\ spare \in [Call -> BOOLEAN]
  /\ user \in [Call -> Call] /\ shared \in BOOLEAN
ServingType == (serving = None \/ serving \in Hand) /\ crashed \in BOOLEAN

Types == WireType /\ IdType /\ TableType /\ CallType /\ ChannelType /\ ServingType

LEMMA TypeParts ==
  TypeOK <=> Types
BY DEF Types, TypeOK, Message, WireType, IdType, TableType, CallType, ChannelType,
       ServingType

(* What a step leaves alone keeps its type. *)
LEMMA Unchanged ==
  /\ WireType /\ UNCHANGED wire => WireType'
  /\ IdType /\ UNCHANGED ids => IdType'
  /\ TableType /\ UNCHANGED tables => TableType'
  /\ CallType /\ UNCHANGED calls => CallType'
  /\ ChannelType /\ UNCHANGED channels => ChannelType'
  /\ ServingType /\ UNCHANGED <<serving, crashed>> => ServingType'
BY DEF WireType, IdType, TableType, CallType, ChannelType, ServingType, wire, ids, tables, calls,
       channels

(* To take an id from the pool keeps it a pool of ids. *)
LEMMA GetIdType ==
  ASSUME IdType, NEW i \in Id, GetId(i), UNCHANGED emitted
  PROVE  IdType'
<1>1. CASE pool[i] > 0 /\ pool' = [pool EXCEPT ![i] = @ - 1] /\ reused' = TRUE /\ UNCHANGED used
  <2>1. pool \in [Id -> Nat] /\ pool[i] - 1 \in Nat
    BY <1>1 DEF IdType
  <2> QED
    BY <1>1, <2>1 DEF IdType
<1>2. CASE used' = used \cup {i} /\ UNCHANGED <<pool, reused>>
  BY <1>2 DEF IdType
<1> QED
  BY <1>1, <1>2 DEF GetId

(* The types. *)
LEMMA TypeStep ==
  ASSUME TypeOK, HoldOK, Next
  PROVE  TypeOK'
<1>0. Types
  BY TypeParts
<1>t. Types' => TypeOK'
  BY TypeParts, PTL
<1>h. \A c \in Call : pc[c] \in {"store", "publish", "failed", "read", "recycle", "delete", "put", "emit"}
        => idOf[c] \in Id
  BY DEF HoldOK, Holding, Fetching
<1>1. ASSUME NEW c \in Call, FetchSockets(c) PROVE Types'
  <2>1. IdType'
    <3>1. UNCHANGED emitted /\ (UNCHANGED <<pool, used, reused>> \/ \E i \in Id : GetId(i))
      BY <1>1 DEF FetchSockets
    <3>2. ASSUME NEW i \in Id, GetId(i) PROVE IdType'
      BY <1>0, <3>1, <3>2, GetIdType DEF Types
    <3> QED
      BY <1>0, <3>1, <3>2 DEF Types, IdType
  <2>2. CallType'
    BY <1>0, <1>1 DEF Types, Goto, FetchSockets, CallType
  <2> QED
    BY <1>0, <1>1, <2>1, <2>2, Unchanged DEF Types, FetchSockets
<1>2. ASSUME NEW c \in Call, ServerSideEmit(c) PROVE Types'
  <2>1. IdType'
    <3>1. UNCHANGED emitted /\ (UNCHANGED <<pool, used, reused>> \/ \E i \in Id : GetId(i))
      BY <1>2 DEF ServerSideEmit
    <3>2. ASSUME NEW i \in Id, GetId(i) PROVE IdType'
      BY <1>0, <3>1, <3>2, GetIdType DEF Types
    <3> QED
      BY <1>0, <3>1, <3>2 DEF Types, IdType
  <2>2. CallType' /\ TableType'
    BY <1>0, <1>2 DEF Types, Goto, ServerSideEmit, CallType, TableType
  <2> QED
    BY <1>0, <1>2, <2>1, <2>2, Unchanged DEF Types, ServerSideEmit
<1>3. ASSUME NEW c \in Call, BroadcastWithAck(c) PROVE Types'
  <2>1. IdType'
    BY <1>0, <1>3 DEF Types, BroadcastWithAck, IdType
  <2>2. CallType' /\ TableType'
    BY <1>0, <1>3 DEF Types, Goto, BroadcastWithAck, CallType, TableType
  <2> QED
    BY <1>0, <1>3, <2>1, <2>2, Unchanged DEF Types, BroadcastWithAck
<1>4. ASSUME NEW c \in Call, StoreRequest(c) PROVE Types'
  <2>1. TableType'
    BY <1>0, <1>4 DEF Types, StoreRequest, TableType
  <2>2. CallType'
    BY <1>0, <1>4 DEF Types, Goto, StoreRequest, CallType
  <2>3. ChannelType'
    <3>1. user' \in [Call -> Call] /\ shared' \in BOOLEAN
      BY <1>0, <1>4 DEF Types, StoreRequest, GetRequest, ChannelType
    <3> QED
      BY <1>0, <1>4, <3>1 DEF Types, StoreRequest, ChannelType
  <2> QED
    BY <1>0, <1>4, <2>1, <2>2, <2>3, Unchanged DEF Types, StoreRequest
<1>5. ASSUME NEW c \in Call, PublishRequest(c) PROVE Types'
  <2>1. WireType'
    <3>1. idOf[c] \in Id
      BY <1>h, <1>5 DEF PublishRequest
    <3>2. todo' \in [Other -> Seq(Id)]
      BY <1>0, <1>5, <3>1 DEF Types, PublishRequest, WireType
    <3>3. [type |-> "request", id |-> idOf[c], from |-> None, sockets |-> <<>>] \in Message
      BY <3>1 DEF Message
    <3> QED
      BY <1>0, <1>5, <3>2, <3>3 DEF Types, PublishRequest, WireType
  <2>2. CallType'
    BY <1>0, <1>5 DEF Types, Goto, PublishRequest, CallType
  <2> QED
    BY <1>0, <1>5, <2>1, <2>2, Unchanged DEF Types, PublishRequest
<1>20. ASSUME NEW c \in Call, PublishFails(c) PROVE Types'
  <2>1. CallType'
    BY <1>0, <1>20 DEF Types, Goto, PublishFails, CallType
  <2> QED
    BY <1>0, <1>20, <2>1, Unchanged DEF Types, PublishFails
<1>6. ASSUME NEW c \in Call, Receive(c) PROVE Types'
  <2>1. CallType'
    <3>1. sockets[c] \o buffer[c] \in Seq(Socket)
      BY <1>0 DEF Types, CallType, ChannelType
    <3> QED
      BY <1>0, <1>6, <3>1 DEF Types, Receive, CallType
  <2>2. ChannelType'
    BY <1>0, <1>6 DEF Types, Receive, ChannelType
  <2> QED
    BY <1>0, <1>6, <2>1, <2>2, Unchanged DEF Types, Receive
<1>7. ASSUME NEW c \in Call, ReceiveClosed(c) PROVE Types'
  <2>1. CallType'
    BY <1>0, <1>7 DEF Types, Goto, ReceiveClosed, CallType
  <2> QED
    BY <1>0, <1>7, <2>1, Unchanged DEF Types, ReceiveClosed
<1>8. ASSUME NEW c \in Call, Timeout(c) PROVE Types'
  <2>1. CallType'
    BY <1>0, <1>8 DEF Types, Goto, Timeout, CallType
  <2> QED
    BY <1>0, <1>8, <2>1, Unchanged DEF Types, Timeout
<1>9. ASSUME NEW c \in Call, Recycle(c) PROVE Types'
  <2>1. CallType'
    BY <1>0, <1>9 DEF Types, Goto, Recycle, CallType
  <2>2. ChannelType'
    BY <1>0, <1>9 DEF Types, Recycle, ChannelType
  <2> QED
    BY <1>0, <1>9, <2>1, <2>2, Unchanged DEF Types, Recycle
<1>10. ASSUME NEW c \in Call, DeleteRequest(c) PROVE Types'
  <2>1. TableType'
    BY <1>0, <1>10 DEF Types, DeleteRequest, TableType
  <2>2. CallType'
    BY <1>0, <1>10 DEF Types, Goto, DeleteRequest, CallType
  <2> QED
    BY <1>0, <1>10, <2>1, <2>2, Unchanged DEF Types, DeleteRequest
<1>11. ASSUME NEW c \in Call, PutId(c) PROVE Types'
  <2>1. IdType'
    BY <1>0, <1>h, <1>11 DEF Types, PutId, IdType
  <2>2. CallType'
    BY <1>0, <1>11 DEF Types, Goto, PutId, CallType
  <2> QED
    BY <1>0, <1>11, <2>1, <2>2, Unchanged DEF Types, PutId
<1>12. ASSUME NEW c \in Call, EmitTimeout(c) PROVE Types'
  <2>1. IdType'
    BY <1>0, <1>h, <1>12 DEF Types, EmitTimeout, IdType
  <2>2. CallType' /\ TableType'
    BY <1>0, <1>12 DEF Types, Goto, EmitTimeout, CallType, TableType
  <2> QED
    BY <1>0, <1>12, <2>1, <2>2, Unchanged DEF Types, EmitTimeout
<1>13. ASSUME NEW s \in Other, OnRequest(s) PROVE Types'
  <2>1. WireType'
    <3>1. Head(todo[s]) \in Id /\ Tail(todo[s]) \in Seq(Id) /\ Found[s] \in Seq(Socket)
      BY FoundAssumption, <1>0, <1>13 DEF Types, OnRequest, WireType
    <3>2. [type |-> "response", id |-> Head(todo[s]), from |-> s, sockets |-> Found[s]] \in Message
      BY <3>1 DEF Message
    <3> QED
      BY <1>0, <1>13, <3>1, <3>2 DEF Types, OnRequest, Answer, WireType
  <2> QED
    BY <1>0, <1>13, <2>1, Unchanged DEF Types, OnRequest
<1>14. ASSUME NEW s \in Other, Change(s) PROVE Types'
  <2>1. WireType'
    <3>1. changes' \in 0 .. MaxChanges /\ others' \subseteq Other /\ UNCHANGED inbox
      BY BoundAssumption, <1>0, <1>14 DEF Types, Change, WireType
    <3>2. <<>> \in Seq(Id)
      OBVIOUS
    <3>3. todo' \in [Other -> Seq(Id)]
      BY <1>0, <1>14, <3>2 DEF Types, Change, WireType
    <3> QED
      BY <1>0, <3>1, <3>3 DEF Types, WireType
  <2> QED
    BY <1>0, <1>14, <2>1, Unchanged DEF Types, Change
<1>15. ASSUME OnOwnRequest PROVE Types'
  <2>1. WireType'
    <3>1. Head(inbox) \in Message
          /\ Tail(inbox) \in Seq(Message)
      BY <1>0, <1>15 DEF Types, OnOwnRequest, WireType
    <3>2. PICK m \in Seq(Message) : inbox' = Tail(inbox) \o m
      <4>1. <<[type |-> "response", id |-> Head(inbox).id, from |-> None, sockets |-> <<>>]>> \in Seq(Message)
        BY <3>1 DEF Message
      <4>2. <<>> \in Seq(Message)
        OBVIOUS
      <4> QED
        BY <1>15, <4>1, <4>2 DEF OnOwnRequest
    <3>4. inbox' \in Seq(Message)
      BY <3>1, <3>2
    <3> QED
      BY <1>0, <1>15, <3>4 DEF Types, OnOwnRequest, WireType
  <2> QED
    BY <1>0, <1>15, <2>1, Unchanged DEF Types, OnOwnRequest
<1>16. ASSUME OnResponse PROVE Types'
  <2>1. WireType' /\ ServingType'
    <3>1. Head(inbox) \in Message
          /\ Tail(inbox) \in Seq(Message)
      BY <1>0, <1>16 DEF Types, OnResponse, WireType
    <3>2. UNCHANGED <<others, todo, changes, crashed>> /\ inbox' = Tail(inbox)
      BY <1>16 DEF OnResponse
    <3>3. \/ serving' = None
          \/ requests[Head(inbox).id] # None
             /\ serving' = [call |-> requests[Head(inbox).id], from |-> Head(inbox).from,
                            rest |-> Head(inbox).sockets, chan |-> None]
      BY <1>16 DEF OnResponse
    <3>4. requests[Head(inbox).id] \in {None} \cup Call
      BY <1>0, <3>1 DEF Types, Message, TableType
    <3> QED
      BY <1>0, <3>1, <3>2, <3>3, <3>4 DEF Types, Message, WireType, ServingType, Hand
  <2> QED
    BY <1>0, <1>16, <2>1, Unchanged DEF Types, OnResponse
<1>17. ASSUME EvalChannel PROVE Types'
  <2>1. ServingType'
    <3>1. serving \in Hand /\ user[serving.call] \in Call
      BY <1>0, <1>17 DEF Types, EvalChannel, ServingType, ChannelType, Hand
    <3> QED
      BY <1>0, <1>17, <3>1 DEF Types, EvalChannel, ServingType, Hand
  <2> QED
    BY <1>0, <1>17, <2>1, Unchanged DEF Types, EvalChannel
<1>18. ASSUME SendSocket PROVE Types'
  <2>1. ServingType' /\ ChannelType'
    <3>1. serving \in Hand
          /\ serving.rest # <<>>
      BY <1>0, <1>18 DEF Types, SendSocket, ServingType, Hand
    <3>2. Head(serving.rest) \in Socket /\ Tail(serving.rest) \in Seq(Socket)
      BY <3>1 DEF Hand
    <3>3. serving' \in Hand
      BY <1>18, <3>1, <3>2 DEF SendSocket, Hand
    <3>4. crashed' \in BOOLEAN /\ spare' \in [Call -> BOOLEAN]
      BY <1>0, <1>18 DEF Types, SendSocket, ServingType, ChannelType
    <3>5. \/ buffer' = buffer
          \/ buffer' = [buffer EXCEPT ![serving.call] = <<Head(serving.rest)>>]
      BY <1>18 DEF SendSocket
    <3>6. <<Head(serving.rest)>> \in Seq(Socket) /\ Len(<<Head(serving.rest)>>) = 1
      BY <3>2
    <3>7. buffer' \in [Call -> Seq(Socket)] /\ \A c \in Call : Len(buffer'[c]) <= 1
      <4>1. buffer \in [Call -> Seq(Socket)] /\ \A c \in Call : Len(buffer[c]) <= 1
        BY <1>0 DEF Types, ChannelType
      <4>2. \A c \in Call : buffer'[c] = buffer[c] \/ buffer'[c] = <<Head(serving.rest)>>
        BY <3>5, <4>1
      <4>3. buffer' \in [Call -> Seq(Socket)]
        BY <3>5, <3>6, <4>1
      <4>4. ASSUME NEW c \in Call PROVE Len(buffer'[c]) <= 1
        <5>1. CASE buffer'[c] = buffer[c]
          BY <4>1, <5>1
        <5>2. CASE buffer'[c] = <<Head(serving.rest)>>
          BY <3>6, <5>2
        <5> QED
          BY <4>2, <5>1, <5>2
      <4> QED
        BY <4>3, <4>4
    <3>8. UNCHANGED <<msgCount, closed, user, shared>>
      BY <1>18 DEF SendSocket
    <3> QED
      BY <1>0, <3>3, <3>4, <3>7, <3>8 DEF Types, ServingType, ChannelType
  <2> QED
    BY <1>0, <1>18, <2>1, Unchanged DEF Types, SendSocket
<1>19. ASSUME CountResponse PROVE Types'
  <2>1. ServingType' /\ ChannelType'
    <3>1. user[serving.call] \in Call
      BY <1>0, <1>19 DEF Types, CountResponse, ServingType, ChannelType, Hand
    <3>2. closed' \in [Call -> BOOLEAN]
      BY <1>0, <1>19, <3>1 DEF Types, CountResponse, ChannelType
    <3>3. msgCount' \in [Call -> Nat]
      BY <1>0, <1>19, <3>1 DEF Types, CountResponse, ChannelType
    <3> QED
      BY <1>0, <1>19, <3>2, <3>3 DEF Types, CountResponse, ServingType, ChannelType
  <2> QED
    BY <1>0, <1>19, <2>1, Unchanged DEF Types, CountResponse
<1> QED
  BY <1>t, <1>1, <1>2, <1>3, <1>4, <1>5, <1>6, <1>7, <1>8, <1>9, <1>10, <1>11, <1>12, <1>13,
     <1>14, <1>15, <1>16, <1>17, <1>18, <1>19, <1>20 DEF Next, Begin, Continue, Subscriber

-----------------------------------------------------------------------------
(* What the steps do with an id: a call takes it, goes on with it, puts it   *)
(* back, puts it back twice or does without.                               *)
Label == {"start", "store", "publish", "failed", "read", "recycle", "delete", "put", "emit", "done"}
Held == Label \ {"start", "done"}

Taken(c, i) ==
  /\ pc[c] = "start" /\ GetId(i) /\ UNCHANGED emitted
  /\ idOf' = [idOf EXCEPT ![c] = i]
  /\ \E x \in Held : pc' = [pc EXCEPT ![c] = x]
Kept(c) ==
  /\ UNCHANGED <<ids, idOf>> /\ Holding(c)
  /\ \E x \in Held : pc' = [pc EXCEPT ![c] = x]
PutTwice(c) ==
  /\ Holding(c) /\ UNCHANGED <<used, idOf>> /\ emitted' = TRUE
  /\ pc' = [pc EXCEPT ![c] = "done"] /\ pool' = [pool EXCEPT ![idOf[c]] = @ + 2]
Without(c) ==
  /\ pc[c] = "start" /\ pc' = [pc EXCEPT ![c] = "done"] /\ UNCHANGED <<pool, used, emitted, idOf>>

LEMMA Steps ==
  ASSUME Next
  PROVE  \/ UNCHANGED <<pc, idOf, ids>>
         \/ \E c \in Call : \/ \E i \in Id : Taken(c, i)
                            \/ Kept(c) \/ PutId(c) \/ PutTwice(c) \/ Without(c)
                            \/ BroadcastWithAck(c)
<1>1. ASSUME NEW s \in Other, OnRequest(s) \/ Change(s) PROVE UNCHANGED <<pc, idOf, ids>>
  BY <1>1 DEF OnRequest, Change, calls
<1>2. ASSUME Subscriber PROVE UNCHANGED <<pc, idOf, ids>>
  BY <1>2 DEF Subscriber, OnOwnRequest, OnResponse, EvalChannel, SendSocket, CountResponse, calls
<1>3. ASSUME NEW c \in Call, FetchSockets(c) PROVE Without(c) \/ \E i \in Id : Taken(c, i)
  BY <1>3 DEF FetchSockets, Goto, Without, Taken, Held, Label
<1>4. ASSUME NEW c \in Call, ServerSideEmit(c) PROVE \E i \in Id : Taken(c, i)
  BY <1>4 DEF ServerSideEmit, Goto, Taken, Held, Label
<1>5. ASSUME NEW c \in Call, \/ StoreRequest(c) \/ PublishRequest(c) \/ ReceiveClosed(c)
                             \/ PublishFails(c) \/ Timeout(c) \/ Recycle(c)
                             \/ DeleteRequest(c)
      PROVE  Kept(c)
  BY <1>5 DEF StoreRequest, PublishRequest, PublishFails, ReceiveClosed, Timeout, Recycle, DeleteRequest,
     Goto, Kept, Holding, Fetching, Held, Label
<1>6. ASSUME NEW c \in Call, Receive(c) PROVE UNCHANGED <<pc, idOf, ids>>
  BY <1>6 DEF Receive
<1>7. ASSUME NEW c \in Call, EmitTimeout(c) PROVE PutTwice(c)
  BY <1>7 DEF EmitTimeout, Goto, PutTwice, Holding
<1> QED
  BY <1>1, <1>2, <1>3, <1>4, <1>5, <1>6, <1>7 DEF Next, Begin, Continue

(* An id that is taken from the pool is held by nobody. *)
LEMMA PoolStep ==
  ASSUME TypeOK, HoldOK, PoolOK, Next
  PROVE  HoldOK' /\ PoolOK'
<1> USE DEF ids, Goto, Label
<1>0. pc \in [Call -> Label] /\ idOf \in [Call -> {None} \cup Id]
      /\ pool \in [Id -> Nat] /\ used \subseteq Id
  BY DEF TypeOK
<1>1. CASE UNCHANGED <<pc, idOf, ids>>
  BY <1>1 DEF HoldOK, PoolOK, Holding, Fetching
<1>2. ASSUME NEW c \in Call, NEW i \in Id, Taken(c, i) PROVE HoldOK' /\ PoolOK'
  <2>1. \/ pool[i] > 0 /\ pool' = [pool EXCEPT ![i] = @ - 1] /\ used' = used
        \/ i \notin used /\ used' = used \cup {i} /\ pool' = pool
    <3>1. i \in Int
      BY CallAssumption, FS_CardinalityType
    <3>2. IsNew(i) => i \notin used
      BY <3>1 DEF IsNew
    <3> QED
      BY <1>2, <3>2 DEF Taken, GetId
  <2>2. i \in used' /\ used \subseteq used'
    BY <2>1 DEF PoolOK
  <2>3. \A d \in Call \ {c} : pc'[d] = pc[d] /\ idOf'[d] = idOf[d]
    BY <1>0, <1>2 DEF Taken
  <2>4. pc'[c] \in Held /\ idOf'[c] = i /\ emitted' = emitted
    BY <1>0, <1>2 DEF Taken
  <2>5. HoldOK'
    BY <2>2, <2>3, <2>4 DEF HoldOK, Holding, Fetching, Held
  <2>6. \A j \in Id : pool'[j] > 0 => j \in used'
    BY <1>0, <2>1 DEF PoolOK
  <2>7. ASSUME ~emitted
        PROVE  /\ \A d \in Call : Holding(d) => idOf[d] # i
               /\ pool'[i] = 0 /\ \A j \in Id \ {i} : pool'[j] = pool[j]
    <3>1. pool[i] = 0 \/ pool[i] = 1
      BY <1>0, <2>7 DEF PoolOK
    <3>2. \A d \in Call : Holding(d) => idOf[d] \in used /\ pool[idOf[d]] = 0
      BY <2>7 DEF HoldOK, PoolOK
    <3> QED
      BY <1>0, <2>1, <3>1, <3>2 DEF PoolOK
  <2>8. ASSUME ~emitted' PROVE \A j \in Id : pool'[j] <= 1
    BY <2>4, <2>7, <2>8 DEF PoolOK
  <2>9. ASSUME ~emitted', NEW d \in Call, Holding(d)' PROVE pool'[idOf'[d]] = 0
    BY <2>3, <2>4, <2>7, <2>9 DEF HoldOK, PoolOK, Holding, Fetching
  <2>10. ASSUME ~emitted', NEW d \in Call, NEW e \in Call, Holding(d)', Holding(e)',
                idOf'[d] = idOf'[e]
         PROVE  d = e
    BY <2>3, <2>4, <2>7, <2>10 DEF PoolOK, Holding, Fetching
  <2> QED
    BY <2>5, <2>6, <2>8, <2>9, <2>10 DEF PoolOK
<1>3. ASSUME NEW c \in Call, Kept(c) PROVE HoldOK' /\ PoolOK'
  <2>1. \A d \in Call : Holding(d)' <=> Holding(d)
    BY <1>0, <1>3 DEF Kept, Holding, Fetching, Held
  <2>2. \A d \in Call : pc'[d] = "start" => pc[d] = "start"
    BY <1>0, <1>3 DEF Kept, Held
  <2> QED
    BY <1>3, <2>1, <2>2 DEF Kept, HoldOK, PoolOK
<1>4. ASSUME NEW c \in Call, PutId(c) PROVE HoldOK' /\ PoolOK'
  <2>1. Holding(c) /\ idOf[c] \in Id \cap used
    BY <1>4 DEF PutId, HoldOK, Holding, Fetching
  <2>2. UNCHANGED <<used, emitted, idOf>> /\ pool' = [pool EXCEPT ![idOf[c]] = @ + 1]
        /\ pc' = [pc EXCEPT ![c] = "done"]
    BY <1>4 DEF PutId
  <2>3. \A d \in Call : (Holding(d)' => Holding(d) /\ d # c) /\ (pc'[d] = "start" => pc[d] = "start")
    BY <1>0, <2>2 DEF Holding, Fetching
  <2>4. HoldOK'
    BY <2>2, <2>3 DEF HoldOK
  <2>5. \A j \in Id : pool'[j] = IF j = idOf[c] THEN pool[j] + 1 ELSE pool[j]
    BY <1>0, <2>2
  <2>6. ~emitted => pool[idOf[c]] = 0 /\ \A d \in Call : Holding(d) /\ d # c => idOf[d] # idOf[c]
    BY <2>1 DEF PoolOK
  <2>7. \A d \in Call : Holding(d) => idOf[d] \in Id
    BY DEF HoldOK
  <2>8. \A j \in Id : pool'[j] > 0 => j \in used
    BY <1>0, <2>1, <2>5 DEF PoolOK
  <2>9. ~emitted => \A j \in Id : pool'[j] <= 1
    BY <1>0, <2>5, <2>6 DEF PoolOK
  <2> QED
    BY <2>2, <2>3, <2>4, <2>5, <2>6, <2>7, <2>8, <2>9 DEF PoolOK
<1>5. ASSUME NEW c \in Call, PutTwice(c) PROVE HoldOK' /\ PoolOK'
  <2>1. idOf[c] \in Id \cap used
    BY <1>5 DEF PutTwice, HoldOK
  <2>2. \A d \in Call : (Holding(d)' => Holding(d)) /\ (pc'[d] = "start" => pc[d] = "start")
    BY <1>0, <1>5 DEF PutTwice, Holding, Fetching
  <2>3. HoldOK'
    BY <1>5, <2>2 DEF PutTwice, HoldOK
  <2>4. \A j \in Id : pool'[j] > 0 => j \in used
    BY <1>0, <1>5, <2>1 DEF PutTwice, PoolOK
  <2> QED
    BY <1>5, <2>3, <2>4 DEF PutTwice, PoolOK
<1>6. ASSUME NEW c \in Call, Without(c) PROVE HoldOK' /\ PoolOK'
  <2>1. \A d \in Call : (Holding(d)' <=> Holding(d)) /\ (pc'[d] = "start" => pc[d] = "start")
    BY <1>0, <1>6 DEF Without, Holding, Fetching
  <2> QED
    BY <1>6, <2>1 DEF Without, HoldOK, PoolOK
<1>7. ASSUME NEW c \in Call, BroadcastWithAck(c) PROVE HoldOK' /\ PoolOK'
  <2>1. pc[c] = "start" /\ pc' = [pc EXCEPT ![c] = "done"] /\ UNCHANGED <<emitted, idOf>>
    BY <1>7 DEF BroadcastWithAck
  <2>2. \A d \in Call : (Holding(d)' <=> Holding(d)) /\ (pc'[d] = "start" => pc[d] = "start")
    BY <1>0, <2>1 DEF Holding, Fetching
  <2>3. PICK i \in Id : /\ used' = used \cup {i}
                        /\ pool' = [pool EXCEPT ![i] = IF i \in used THEN @ ELSE @ + 1]
    BY <1>7 DEF BroadcastWithAck
  <2>4. HoldOK'
    BY <2>1, <2>2, <2>3 DEF HoldOK
  <2>5. \A j \in Id : /\ j \in used => pool'[j] = pool[j]
                      /\ pool[j] > 0 => j \in used
                      /\ j # i => pool'[j] = pool[j]
                      /\ j = i /\ j \notin used => pool'[j] = 1
    BY <1>0, <2>3 DEF PoolOK
  <2>6. \A d \in Call : Holding(d) => idOf[d] \in Id \cap used
    BY DEF HoldOK
  <2>7. ~emitted => \A j \in Id : pool'[j] <= 1
    BY <2>5 DEF PoolOK
  <2> QED
    BY <2>1, <2>2, <2>3, <2>4, <2>5, <2>6, <2>7 DEF PoolOK
<1> QED
  BY <1>1, <1>2, <1>3, <1>4, <1>5, <1>6, <1>7, Steps

LEMMA InitInv ==
  Init => Inv
<1> SUFFICES ASSUME Init PROVE Inv
  OBVIOUS
<1> USE DEF Init
<1>1. <<>> \in Seq(Id) /\ <<>> \in Seq(Socket) /\ Len(<<>>) = 0 /\ <<>> \in Seq(Message)
  OBVIOUS
<1>2. WireType /\ IdType /\ TableType
  <2>1. todo \in [Other -> Seq(Id)] /\ inbox \in Seq(Message)
    BY <1>1
  <2>2. WireType
    BY BoundAssumption, <2>1 DEF WireType
  <2>3. IdType /\ TableType
    BY DEF IdType, TableType
  <2> QED
    BY <2>2, <2>3
<1>3. CallType /\ ServingType
  BY <1>1 DEF CallType, ServingType
<1>4. ChannelType
  <2>1. user \in [Call -> Call] /\ shared \in BOOLEAN /\ spare \in [Call -> BOOLEAN]
    OBVIOUS
  <2>2. buffer \in [Call -> Seq(Socket)] /\ \A c \in Call : Len(buffer[c]) <= 1
    BY <1>1
  <2>3. msgCount \in [Call -> Nat] /\ closed \in [Call -> BOOLEAN]
    OBVIOUS
  <2> QED
    BY <2>1, <2>2, <2>3 DEF ChannelType
<1>5. TypeOK
  BY <1>2, <1>3, <1>4, TypeParts DEF Types
<1>6. HoldOK /\ PoolOK
  BY DEF HoldOK, PoolOK, Holding, Fetching
<1> QED
  BY <1>5, <1>6 DEF Inv

LEMMA StepInv ==
  Inv /\ [Next]_vars => Inv'
<1> SUFFICES ASSUME Inv, [Next]_vars PROVE Inv'
  OBVIOUS
<1>1. CASE Next
  BY <1>1, TypeStep, PoolStep DEF Inv
<1>2. CASE UNCHANGED vars
  <2>1. TypeOK'
    <3>1. Types'
      BY <1>2, TypeParts, Unchanged DEF Inv, vars, Types
    <3> QED
      BY <3>1, TypeParts, PTL
  <2>2. HoldOK' /\ PoolOK'
    BY <1>2 DEF Inv, vars, ids, calls, HoldOK, PoolOK, Holding, Fetching
  <2> QED
    BY <2>1, <2>2 DEF Inv
<1> QED
  BY <1>1, <1>2

(* Requests, answers, timeouts and the pool, in every interleaving, keep what is *)
(* said of them above.                                                          *)
THEOREM Invariant ==
  Spec => []Inv
<1> QED
  BY InitInv, StepInv, PTL DEF Spec

(* Every variable keeps its type: no channel ever holds more than one socket,    *)
(* and every request under way has an id.                                       *)
THEOREM TypeCorrect ==
  Spec => []TypeOK
<1>1. Inv => TypeOK
  BY DEF Inv
<1> QED
  BY <1>1, Invariant, PTL

(* For any number of calls and ids: whatever times out or gets lost, a fetch     *)
(* shares its id with no other call, unless a ServerSideEmit put its id back twice. *)
THEOREM IdsNotShared ==
  Spec => []IdsAreNotShared
<1>1. Inv => IdsAreNotShared
  <2> SUFFICES ASSUME Inv, NEW c \in Call, NEW d \in Call, c # d, Fetching(c), pc[d] # "done",
                      idOf[c] = idOf[d]
               PROVE  emitted
    BY DEF IdsAreNotShared
  <2>1. idOf[c] \in Id /\ Holding(c)
    BY DEF Inv, HoldOK, Holding
  <2>2. Holding(d)
    BY NoneAssumption, <2>1 DEF Inv, TypeOK, HoldOK, Holding, Fetching
  <2> QED
    BY <2>1, <2>2 DEF Inv, PoolOK
<1> QED
  BY <1>1, Invariant, PTL
-----------------------------------------------------------------------------
(* The servers whose answer to a fetch is still to be counted: they have the *)
(* request before them, their answer is under way, or the subscriber has it  *)
(* in hand.                                                                  *)
AnswerIn(q, i, s) == \E m \in ToSet(q) : m.type = "response" /\ m.id = i /\ m.from = s

Asked(t, i) == {s \in Other : i \in ToSet(t[s])}
Answering(q, i) == {s \in Other : AnswerIn(q, i, s)}
InHand(h, c) == {s \in Other : h # None /\ h.call = c /\ h.from = s}
Awaited(c) == Asked(todo, idOf[c]) \cup Answering(inbox, idOf[c]) \cup InHand(serving, c)

Early == {"start", "store", "publish", "failed", "emit"}
Open == {"read", "recycle"}
Over == {"delete", "put", "done"}

(* Every id is fresh when it is taken. *)
FreshOK ==
  /\ others = Other /\ ackRequests \subseteq used
  /\ \A c \in Call : idOf[c] # None => idOf[c] \in used \ ackRequests
  /\ \A c, d \in Call : idOf[c] # None /\ idOf[c] = idOf[d] => c = d
  /\ \A s \in Other : ToSet(todo[s]) \subseteq used
  /\ \A m \in ToSet(inbox) : m.id \in used
  /\ \A c \in Call, m \in ToSet(inbox) : pc[c] = "store" => m.id # idOf[c]

(* requests has the calls that an answer may be for, under their ids. *)
TableOK ==
  /\ \A i \in Id : requests[i] # None =>
       /\ idOf[requests[i]] = i
       /\ pc[requests[i]] \in Open \cup {"publish", "failed", "delete", "emit"}
  /\ \A c \in Call : pc[c] \in Open \cup {"publish", "failed", "delete"} => requests[idOf[c]] = c

(* No server has two answers to one request under way. *)
OneEach(q) ==
  \A j, k \in DOMAIN q :
    /\ q[j].type = "response" /\ q[k].type = "response"
    /\ q[j].id = q[k].id /\ q[j].from = q[k].from /\ q[j].from \in Other
    => j = k

(* A server has a request once, or has answered it once, with what it found. *)
OnceOK ==
  /\ \A s \in Other : IsInjective(todo[s])
  /\ OneEach(inbox)
  /\ \A i \in Id : Asked(todo, i) \cap Answering(inbox, i) = {}
  /\ \A m \in ToSet(inbox) : m.type = "response" =>
       \/ requests[m.id] = None
       \/ m.from \in Other /\ m.sockets = Found[m.from]

(* The answer in hand is no longer under way. *)
HandOK ==
  serving # None =>
    /\ pc[serving.call] \in Open \cup Over
    /\ serving.chan = "spare" => pc[serving.call] \in Over
    /\ idOf[serving.call] # None /\ serving.from \in Other
    /\ serving.from \notin Asked(todo, idOf[serving.call]) \cup Answering(inbox, idOf[serving.call])
    /\ IsInjective(serving.rest) /\ ToSet(serving.rest) \subseteq ToSet(Found[serving.from])

(* The count is right: it closes the channel when nobody is awaited. *)
CountOK(c) ==
  /\ pc[c] \in Early => /\ Awaited(c) = {} /\ ~closed[c] /\ buffer[c] = <<>>
                        /\ sockets[c] = <<>>
                        /\ msgCount[c] = IF pc[c] \in {"publish", "failed"} THEN 1 ELSE 0
  /\ pc[c] \in Open => msgCount[c] = 1 + Cardinality(Other \ Awaited(c))
  /\ pc[c] \in Over => msgCount[c] <= Cardinality(Other \ Awaited(c))
  /\ closed[c] => Awaited(c) = {}

(* The sockets received or in the channel are those counted, each once. *)
Collected(c) == sockets[c] \o buffer[c]

CollectedOK(c) ==
  /\ IsInjective(Collected(c))
  /\ \A s \in Other : \A k \in ToSet(Found[s]) :
       k \in ToSet(Collected(c)) <=> \/ s \notin Awaited(c)
                                     \/ s \in InHand(serving, c) /\ k \notin ToSet(serving.rest)

FetchOK(c) ==
  /\ CountOK(c)
  /\ pc[c] \in Open => CollectedOK(c)
  /\ pc[c] = "recycle" /\ c \notin timedOut => closed[c] /\ buffer[c] = <<>>

(* What holds as long as no id is used twice, no request is given to another *)
(* fetch while in use and no server comes or goes.                          *)
Calm ==
  FreshOK /\ TableOK /\ OnceOK /\ HandOK /\ ~crashed /\ \A c \in Call : FetchOK(c)

(* Every fetch has its request for itself.                                  *)
Own == \A c \in Call : user[c] = c

CalmInv == Inv /\ (~shared => Own) /\ (Undisturbed => Calm)

-----------------------------------------------------------------------------
(* What is in a sequence to which something is added or from which the first *)
(* is taken.                                                                 *)
LEMMA AppendMember ==
  ASSUME NEW S, NEW q \in Seq(S), NEW x \in S
  PROVE  /\ ToSet(Append(q, x)) = ToSet(q) \cup {x}
         /\ IsInjective(q) /\ x \notin ToSet(q) => IsInjective(Append(q, x))
<1>1. /\ DOMAIN Append(q, x) = 1 .. Len(q) + 1 /\ DOMAIN q = 1 .. Len(q) /\ Len(q) \in Nat
      /\ Append(q, x)[Len(q) + 1] = x /\ \A i \in 1 .. Len(q) : Append(q, x)[i] = q[i]
  OBVIOUS
<1>2. \A i \in DOMAIN Append(q, x) : i \in DOMAIN q \/ i = Len(q) + 1
  BY <1>1
<1>3. \A i \in DOMAIN q : i \in DOMAIN Append(q, x)
  BY <1>1
<1>4. Len(q) + 1 \in DOMAIN Append(q, x)
  BY <1>1
<1> QED
  BY <1>1, <1>2, <1>3, <1>4 DEF ToSet, IsInjective

LEMMA TailMember ==
  ASSUME NEW S, NEW q \in Seq(S), q # <<>>
  PROVE  /\ Head(q) \in S /\ Tail(q) \in Seq(S)
         /\ ToSet(q) = {Head(q)} \cup ToSet(Tail(q))
         /\ IsInjective(q) => IsInjective(Tail(q)) /\ Head(q) \notin ToSet(Tail(q))
<1>1. /\ DOMAIN Tail(q) = 1 .. Len(q) - 1 /\ DOMAIN q = 1 .. Len(q) /\ Len(q) \in Nat \ {0}
      /\ Head(q) = q[1] /\ \A i \in 1 .. Len(q) - 1 : Tail(q)[i] = q[i + 1]
  OBVIOUS
<1>2. \A i \in DOMAIN q : i = 1 \/ (i - 1 \in DOMAIN Tail(q) /\ Tail(q)[i - 1] = q[i])
  BY <1>1
<1>3. \A i \in DOMAIN Tail(q) : i + 1 \in DOMAIN q /\ i + 1 # 1 /\ Tail(q)[i] = q[i + 1]
  BY <1>1
<1>4. 1 \in DOMAIN q /\ Head(q) \in S /\ Tail(q) \in Seq(S)
  BY <1>1
<1>5. \A i, j \in DOMAIN Tail(q) : i + 1 = j + 1 => i = j
  BY <1>1
<1>6. ToSet(q) = {Head(q)} \cup ToSet(Tail(q))
  <2>1. ToSet(q) \subseteq {Head(q)} \cup ToSet(Tail(q))
    BY <1>1, <1>2 DEF ToSet
  <2>2. {Head(q)} \cup ToSet(Tail(q)) \subseteq ToSet(q)
    BY <1>1, <1>3, <1>4 DEF ToSet
  <2> QED
    BY <2>1, <2>2
<1>7. IsInjective(q) => IsInjective(Tail(q)) /\ Head(q) \notin ToSet(Tail(q))
  BY <1>1, <1>3, <1>4, <1>5 DEF ToSet, IsInjective
<1> QED
  BY <1>4, <1>6, <1>7

LEMMA EmptyMember ==
  ToSet(<<>>) = {} /\ IsInjective(<<>>)
BY DEF ToSet, IsInjective

(* The same for what the answers under way are about. *)
Answers(m, i) == {s \in Other : m.type = "response" /\ m.id = i /\ m.from = s}
LEMMA AppendAnswer ==
  ASSUME NEW q \in Seq(Message), NEW m \in Message
  PROVE  /\ \A i \in Id : Answering(Append(q, m), i) = Answering(q, i) \cup Answers(m, i)
         /\ OneEach(q) /\ Answers(m, m.id) \cap Answering(q, m.id) = {} => OneEach(Append(q, m))
<1>1. /\ DOMAIN Append(q, m) = 1 .. Len(q) + 1 /\ DOMAIN q = 1 .. Len(q) /\ Len(q) \in Nat
      /\ Append(q, m)[Len(q) + 1] = m /\ \A j \in 1 .. Len(q) : Append(q, m)[j] = q[j]
  OBVIOUS
<1>2. \A j \in DOMAIN Append(q, m) : j \in DOMAIN q \/ j = Len(q) + 1
  BY <1>1
<1>3. ToSet(Append(q, m)) = ToSet(q) \cup {m}
  BY AppendMember
<1>4. ASSUME OneEach(q), Answers(m, m.id) \cap Answering(q, m.id) = {}
      PROVE  OneEach(Append(q, m))
  <2>1. \A j \in DOMAIN q : ~ (q[j].type = "response" /\ m.type = "response" /\
          q[j].id = m.id /\ q[j].from = m.from /\ m.from \in Other)
    BY <1>4 DEF Answers, Answering, AnswerIn, ToSet
  <2> QED
    BY <1>1, <1>2, <1>4, <2>1 DEF OneEach
<1> QED
  BY <1>3, <1>4 DEF Answering, AnswerIn, Answers

LEMMA TailAnswer ==
  ASSUME NEW q \in Seq(Message), q # <<>>
  PROVE  /\ \A i \in Id : Answering(q, i) = Answering(Tail(q), i) \cup Answers(Head(q), i)
         /\ OneEach(q) => /\ OneEach(Tail(q))
                          /\ Answers(Head(q), Head(q).id) \cap Answering(Tail(q), Head(q).id) = {}
<1>1. /\ DOMAIN Tail(q) = 1 .. Len(q) - 1 /\ DOMAIN q = 1 .. Len(q) /\ Len(q) \in Nat \ {0}
      /\ Head(q) = q[1] /\ \A i \in 1 .. Len(q) - 1 : Tail(q)[i] = q[i + 1]
  OBVIOUS
<1>2. \A i \in DOMAIN Tail(q) : i + 1 \in DOMAIN q /\ i + 1 # 1 /\ Tail(q)[i] = q[i + 1]
  BY <1>1
<1>3. 1 \in DOMAIN q
  BY <1>1
<1>4. \A i, j \in DOMAIN Tail(q) : i + 1 = j + 1 => i = j
  BY <1>1
<1>5. ToSet(q) = {Head(q)} \cup ToSet(Tail(q))
  BY TailMember
<1>6. ASSUME OneEach(q)
      PROVE  /\ OneEach(Tail(q))
             /\ Answers(Head(q), Head(q).id) \cap Answering(Tail(q), Head(q).id) = {}
  <2>1. OneEach(Tail(q))
    BY <1>2, <1>4, <1>6 DEF OneEach
  <2>2. \A j \in DOMAIN Tail(q) :
          ~ (Tail(q)[j].type = "response" /\ Head(q).type = "response" /\
             Tail(q)[j].id = Head(q).id /\ Tail(q)[j].from = Head(q).from /\
             Head(q).from \in Other)
    BY <1>1, <1>2, <1>3, <1>6 DEF OneEach
  <2> QED
    BY <2>1, <2>2 DEF Answers, Answering, AnswerIn, ToSet
<1> QED
  BY <1>5, <1>6 DEF Answering, AnswerIn, Answers

-----------------------------------------------------------------------------
(* An id that was used stays so, and so does a change of the servers. *)
LEMMA StaysDisturbed ==
  ASSUME TypeOK, Next, Undisturbed'
  PROVE  /\ Undisturbed /\ (others = Other => \A s \in Other : ~Change(s))
         /\ \A i \in Id : GetId(i) => IsNew(i) /\ used' = used \cup {i}
<1>1. ASSUME NEW s \in Other, Change(s) PROVE s \notin others /\ Undisturbed
  <2>1. s \notin others /\ changes' = changes
    BY <1>1 DEF TypeOK, Undisturbed, Change
  <2>2. UNCHANGED <<reused, shared>>
    BY <1>1 DEF Change, ids, channels
  <2> QED
    BY <2>1, <2>2 DEF Undisturbed
<1>2. \A i \in Id : GetId(i) => reused' = reused /\ IsNew(i) /\ used' = used \cup {i}
  BY DEF GetId, Undisturbed
<1>3. ASSUME NEW c \in Call, Begin(c) PROVE Undisturbed
  <2>1. changes' = changes
    BY <1>3 DEF Begin, FetchSockets, ServerSideEmit, BroadcastWithAck, wire
  <2>2. reused' = reused \/ ~reused
    BY <1>2, <1>3 DEF Begin, FetchSockets, ServerSideEmit, BroadcastWithAck, Undisturbed
  <2>3. shared' = shared
    BY <1>3 DEF Begin, FetchSockets, ServerSideEmit, BroadcastWithAck, channels
  <2> QED
    BY <2>1, <2>2, <2>3 DEF Undisturbed
<1>4. ASSUME NEW c \in Call, Continue(c) \/ Timeout(c) \/ EmitTimeout(c)
      PROVE  UNCHANGED <<changes, reused>> /\ (shared => shared')
  <2>0. ASSUME StoreRequest(c)
        PROVE  UNCHANGED <<changes, reused>> /\ (shared => shared')
    BY <2>0 DEF StoreRequest, GetRequest, wire, ids
  <2>1. ASSUME \/ PublishRequest(c) \/ PublishFails(c) \/ Receive(c) \/ ReceiveClosed(c)
        PROVE  UNCHANGED <<changes, reused>> /\ (shared => shared')
    <3>1. ASSUME PublishRequest(c) PROVE UNCHANGED <<changes, reused, shared>>
      BY <3>1 DEF PublishRequest, ids, channels
    <3>2. ASSUME PublishFails(c) \/ ReceiveClosed(c) PROVE UNCHANGED <<changes, reused, shared>>
      BY <3>2 DEF PublishFails, ReceiveClosed, wire, ids, channels
    <3>3. ASSUME Receive(c) PROVE UNCHANGED <<changes, reused, shared>>
      BY <3>3 DEF Receive, wire, ids
    <3> QED
      BY <2>1, <3>1, <3>2, <3>3
  <2>2. ASSUME Recycle(c) \/ DeleteRequest(c) \/ PutId(c)
        PROVE  UNCHANGED <<changes, reused>> /\ (shared => shared')
    BY <2>2 DEF Recycle, DeleteRequest, PutId, wire, ids, channels
  <2>3. ASSUME Timeout(c) \/ EmitTimeout(c)
        PROVE  UNCHANGED <<changes, reused>> /\ (shared => shared')
    BY <2>3 DEF Timeout, EmitTimeout, wire, ids, channels
  <2> QED
    BY <1>4, <2>0, <2>1, <2>2, <2>3 DEF Continue
<1>5. ASSUME NEW s \in Other, OnRequest(s)
      PROVE  UNCHANGED <<changes, reused>> /\ (shared => shared')
  BY <1>5 DEF OnRequest, ids, channels
<1>6. ASSUME Subscriber
      PROVE  UNCHANGED <<changes, reused>> /\ (shared => shared')
  <2>1. ASSUME OnOwnRequest \/ OnResponse
        PROVE  UNCHANGED <<changes, reused>> /\ (shared => shared')
    <3>1. ASSUME OnOwnRequest PROVE UNCHANGED <<changes, reused, shared>>
      BY <3>1 DEF OnOwnRequest, ids, channels
    <3>2. ASSUME OnResponse PROVE UNCHANGED <<changes, reused, shared>>
      BY <3>2 DEF OnResponse, ids, channels
    <3> QED
      BY <2>1, <3>1, <3>2
  <2>2. ASSUME EvalChannel \/ SendSocket \/ CountResponse
        PROVE  UNCHANGED <<changes, reused>> /\ (shared => shared')
    BY <2>2 DEF EvalChannel, SendSocket, CountResponse, wire, ids, channels
  <2> QED
    BY <1>6, <2>1, <2>2 DEF Subscriber
<1>7. UNCHANGED <<changes, reused>> /\ (shared => shared') => Undisturbed
  BY DEF Undisturbed
<1> QED
  BY <1>1, <1>2, <1>3, <1>4, <1>5, <1>6, <1>7 DEF Next

(* A fetch loses its request to another only if the other is given it in use. *)
LEMMA StaysOwn ==
  ASSUME [Next]_vars, ~shared => Own
  PROVE  ~shared' => Own'
<1>1. UNCHANGED channels => UNCHANGED <<user, shared>>
  BY DEF channels
<1>2. ASSUME NEW c \in Call, Begin(c) \/ Continue(c) \/ Timeout(c) \/ EmitTimeout(c)
      PROVE  UNCHANGED <<user, shared>> \/ shared' = TRUE
  <2>1. ASSUME Begin(c) \/ Timeout(c) \/ EmitTimeout(c) PROVE UNCHANGED <<user, shared>>
    BY <1>1, <2>1 DEF Begin, FetchSockets, ServerSideEmit, BroadcastWithAck, Timeout, EmitTimeout
  <2>2. CASE StoreRequest(c)
    BY <2>2 DEF StoreRequest, GetRequest
  <2>3. ASSUME \/ PublishRequest(c) \/ PublishFails(c) \/ Receive(c) \/ ReceiveClosed(c)
               \/ Recycle(c) \/ DeleteRequest(c) \/ PutId(c)
        PROVE  UNCHANGED <<user, shared>>
    BY <1>1, <2>3 DEF PublishRequest, PublishFails, Receive, ReceiveClosed, Recycle, DeleteRequest,
       PutId
  <2> QED
    BY <1>2, <2>1, <2>2, <2>3 DEF Continue
<1>3. ASSUME NEW s \in Other, OnRequest(s) \/ Change(s) PROVE UNCHANGED <<user, shared>>
  BY <1>1, <1>3 DEF OnRequest, Change
<1>4. ASSUME Subscriber PROVE UNCHANGED <<user, shared>>
  BY <1>1, <1>4 DEF Subscriber, OnOwnRequest, OnResponse, EvalChannel, SendSocket, CountResponse
<1>5. CASE UNCHANGED vars
  BY <1>1, <1>5 DEF vars, Own
<1> QED
  BY <1>2, <1>3, <1>4, <1>5 DEF Next, Own

LEMMA NewIsUnused ==
  ASSUME NEW i \in Id, IsNew(i)
  PROVE  i \notin used
BY CallAssumption, FS_CardinalityType DEF IsNew

(* What a step leaves alone stays right. *)
LEMMA SameAwaited ==
  ASSUME NEW c \in Call, UNCHANGED <<todo, inbox, serving>>, idOf'[c] = idOf[c]
  PROVE  Awaited(c)' = Awaited(c)
BY DEF Awaited, Asked, Answering, AnswerIn, InHand

LEMMA SameFetch ==
  ASSUME NEW c \in Call, FetchOK(c), Awaited(c)' = Awaited(c), UNCHANGED serving,
         pc'[c] = pc[c], closed'[c] = closed[c], buffer'[c] = buffer[c],
         sockets'[c] = sockets[c], msgCount'[c] = msgCount[c], c \in timedOut => c \in timedOut'
  PROVE  FetchOK(c)'
<1>1. Collected(c)' = Collected(c)
  BY DEF Collected
<1>2. CountOK(c)'
  BY DEF FetchOK, CountOK
<1>3. CollectedOK(c) => CollectedOK(c)'
  BY <1>1 DEF CollectedOK, InHand
<1> QED
  BY <1>2, <1>3 DEF FetchOK

LEMMA SameFresh ==
  ASSUME FreshOK, UNCHANGED <<others, ackRequests, idOf, todo, inbox, used>>,
         \A c \in Call : pc'[c] = "store" => pc[c] = "store"
  PROVE  FreshOK'
BY DEF FreshOK

LEMMA SameOnce ==
  ASSUME OnceOK, UNCHANGED <<todo, inbox>>,
         \A m \in ToSet(inbox) : requests[m.id] = None => requests'[m.id] = None
  PROVE  OnceOK'
BY DEF OnceOK, OneEach, Asked, Answering, AnswerIn

LEMMA SameHand ==
  ASSUME HandOK, UNCHANGED <<serving, todo, inbox>>,
         serving # None => /\ idOf'[serving.call] = idOf[serving.call]
                           /\ pc'[serving.call] \in Open \cup Over
                           /\ pc[serving.call] \in Over => pc'[serving.call] \in Over
  PROVE  HandOK'
BY DEF HandOK, Asked, Answering, AnswerIn

-----------------------------------------------------------------------------
(* The steps of the calls.  A call that takes an id finds nothing under it.  *)
LEMMA TakeId ==
  ASSUME TypeOK, HoldOK, Calm, NEW c \in Call, NEW i \in Id, pc[c] = "start",
         i \notin used, used' = used \cup {i}, idOf' = [idOf EXCEPT ![c] = i],
         UNCHANGED <<wire, ackRequests, sockets, timedOut, channels, serving, crashed>>,
         \/ Goto(c, "store") /\ UNCHANGED requests
         \/ Goto(c, "emit") /\ requests' = [requests EXCEPT ![i] = c]
  PROVE  Calm'
<1> USE DEF Calm
<1>1. /\ \A d \in Call \ {c} : pc'[d] = pc[d] /\ idOf'[d] = idOf[d]
      /\ pc'[c] \in {"store", "emit"} /\ idOf'[c] = i /\ pc' \in [Call -> Label]
  BY DEF TypeOK, Goto, Label
<1>2. /\ UNCHANGED <<others, todo, inbox, changes, ackRequests, serving, crashed, sockets>>
      /\ UNCHANGED <<timedOut, buffer, msgCount, closed, spare>>
  BY DEF wire, channels
<1>3. FreshOK'
  <2>1. \A m \in ToSet(inbox) : m.id # i
    BY DEF FreshOK
  <2>2. \A d \in Call : idOf[d] # i
    BY NoneAssumption DEF FreshOK
  <2> QED
    BY <1>1, <1>2, <2>1, <2>2 DEF FreshOK
<1>4. TableOK'
  <2>1. \A j \in Id : requests[j] # c
    BY NoneAssumption DEF TableOK, Open
  <2>2. \A j \in Id : requests'[j] = requests[j] \/ (j = i /\ requests'[j] = c /\ pc'[c] = "emit")
    BY DEF TypeOK, Goto
  <2>3. \A d \in Call \ {c} : pc[d] \in Open \cup {"publish", "failed", "delete"} => idOf[d] \in Id /\ idOf[d] # i
    BY DEF HoldOK, Holding, Fetching, Open, FreshOK
  <2>4. \A d \in Call : pc'[d] \in Open \cup {"publish", "failed", "delete"} => requests'[idOf'[d]] = d
    BY <1>1, <2>2, <2>3 DEF TableOK, Open
  <2>5. ASSUME NEW j \in Id, requests'[j] # None
        PROVE  /\ idOf'[requests'[j]] = j
               /\ pc'[requests'[j]] \in Open \cup {"publish", "failed", "delete", "emit"}
    <3>1. requests[j] \in {None} \cup Call
      BY DEF TypeOK
    <3> QED
      BY <1>1, <2>1, <2>2, <2>5, <3>1 DEF TableOK
  <2> QED
    BY <2>4, <2>5 DEF TableOK
<1>5. OnceOK'
  <2>1. \A m \in ToSet(inbox) : requests'[m.id] = requests[m.id]
    BY DEF FreshOK, TypeOK
  <2> QED
    BY <1>2, <2>1, SameOnce
<1>6. HandOK'
  BY <1>1, <1>2, SameHand DEF HandOK, Open, Over, TypeOK, Hand
<1>7. FetchOK(c)'
  <2>1. Awaited(c)' = {}
    <3>1. InHand(serving, c) = {}
      BY DEF HandOK, InHand, Open, Over
    <3>2. Asked(todo, i) = {} /\ Answering(inbox, i) = {}
      BY DEF FreshOK, Asked, Answering, AnswerIn
    <3> QED
      BY <1>1, <1>2, <3>1, <3>2 DEF Awaited, Asked, Answering, AnswerIn, InHand
  <2>2. ~closed[c] /\ buffer[c] = <<>> /\ sockets[c] = <<>> /\ msgCount[c] = 0
    BY DEF FetchOK, CountOK, Early
  <2> QED
    BY <1>1, <1>2, <2>1, <2>2 DEF FetchOK, CountOK, Early, Open, Over
<1>8. ASSUME NEW d \in Call \ {c} PROVE FetchOK(d)'
  BY <1>1, <1>2, SameAwaited, SameFetch
<1> QED
  BY <1>2, <1>3, <1>4, <1>5, <1>6, <1>7, <1>8

(* One that asks nobody, or leaves an id in ackRequests, is over at once. *)
LEMMA AskNobody ==
  ASSUME TypeOK, HoldOK, Calm, NEW c \in Call, pc[c] = "start", Goto(c, "done"),
         UNCHANGED <<wire, requests, idOf, sockets, timedOut, channels, serving, crashed>>,
         \/ UNCHANGED <<used, ackRequests>>
         \/ \E i \in Id \ used : used' = used \cup {i} /\ ackRequests' = ackRequests \cup {i}
  PROVE  Calm'
<1> USE DEF Calm
<1>1. /\ \A d \in Call \ {c} : pc'[d] = pc[d]
      /\ pc'[c] = "done" /\ idOf' = idOf
  BY DEF TypeOK, Goto
<1>2. /\ UNCHANGED <<others, todo, inbox, changes, requests, serving, crashed, sockets>>
      /\ UNCHANGED <<timedOut, buffer, msgCount, closed, spare>>
  BY DEF wire, channels
<1>3. FreshOK'
  BY <1>1, <1>2 DEF FreshOK
<1>4. TableOK'
  <2>1. \A j \in Id : requests[j] # c
    BY NoneAssumption DEF TableOK, Open
  <2> QED
    BY <1>1, <1>2, <2>1 DEF TableOK, Open, TypeOK
<1>5. OnceOK'
  BY <1>2, SameOnce
<1>6. HandOK'
  BY <1>1, <1>2, SameHand DEF HandOK, Open, Over, TypeOK, Hand
<1>7. FetchOK(c)'
  <2>1. Awaited(c)' = {} /\ ~closed[c] /\ msgCount[c] = 0
    BY <1>1, <1>2, SameAwaited DEF FetchOK, CountOK, Early
  <2>2. Cardinality(Other) \in Nat /\ Other \ {} = Other
    BY FoundAssumption, FS_CardinalityType
  <2> QED
    BY <1>1, <1>2, <2>1, <2>2 DEF FetchOK, CountOK, Early, Open, Over
<1>8. ASSUME NEW d \in Call \ {c} PROVE FetchOK(d)'
  BY <1>1, <1>2, SameAwaited, SameFetch
<1> QED
  BY <1>2, <1>3, <1>4, <1>5, <1>6, <1>7, <1>8

LEMMA BeginCalm ==
  ASSUME TypeOK, HoldOK, Calm, Next, Undisturbed', NEW c \in Call, Begin(c)
  PROVE  Calm'
<1>1. \A i \in Id : GetId(i) => i \notin used /\ used' = used \cup {i}
  BY StaysDisturbed, NewIsUnused
<1>2. CASE FetchSockets(c)
  <2>1. UNCHANGED tables => UNCHANGED <<requests, ackRequests>>
    BY DEF tables
  <2>2. CASE ServerCount <= 1
    BY <1>2, <2>1, <2>2, AskNobody DEF FetchSockets
  <2>3. CASE ~(ServerCount <= 1)
    <3>1. PICK i \in Id : GetId(i) /\ idOf' = [idOf EXCEPT ![c] = i] /\ Goto(c, "store")
      BY <1>2, <2>3 DEF FetchSockets
    <3> QED
      BY <1>1, <1>2, <2>1, <3>1, TakeId DEF FetchSockets
  <2> QED
    BY <2>2, <2>3
<1>3. CASE ServerSideEmit(c)
  <2>1. PICK i \in Id : /\ GetId(i) /\ idOf' = [idOf EXCEPT ![c] = i]
                        /\ requests' = [requests EXCEPT ![i] = c]
    BY <1>3 DEF ServerSideEmit
  <2> QED
    BY <1>1, <1>3, <2>1, TakeId DEF ServerSideEmit
<1>4. CASE BroadcastWithAck(c)
  <2>1. PICK i \in Id : /\ used' = used \cup {i} /\ reused' = (reused \/ i \in used)
                        /\ ackRequests' = ackRequests \cup {i}
    BY <1>4 DEF BroadcastWithAck
  <2>2. i \notin used
    BY <2>1 DEF Undisturbed
  <2> QED
    BY <1>4, <2>1, <2>2, AskNobody DEF BroadcastWithAck
<1> QED
  BY <1>2, <1>3, <1>4 DEF Begin

(* A call that goes on keeps its id, and its entry while answers may come. *)
Listed == Open \cup {"publish", "failed", "delete"}

LEMMA GoOn ==
  ASSUME TypeOK, HoldOK, Calm, NEW c \in Call, Holding(c), NEW x \in Label \ {"start", "store", "emit"},
         Goto(c, x), UNCHANGED <<wire, used, ackRequests, idOf, serving, crashed>>,
         pc[c] \in Open \cup Over => x \in Open \cup Over, pc[c] \in Over => x \in Over,
         \A i \in Id \ {idOf[c]} : requests'[i] = requests[i],
         requests'[idOf[c]] = IF x \in Listed THEN c ELSE None,
         pc[c] \in Listed \/ x \notin Listed \/ \A m \in ToSet(inbox) : m.id # idOf[c],
         \A d \in Call \ {c} :
           /\ closed'[d] = closed[d] /\ buffer'[d] = buffer[d] /\ sockets'[d] = sockets[d]
           /\ msgCount'[d] = msgCount[d] /\ (d \in timedOut => d \in timedOut'),
         FetchOK(c)'
  PROVE  Calm'
<1> USE DEF Calm
<1>1. /\ \A d \in Call \ {c} : pc'[d] = pc[d]
      /\ pc'[c] = x /\ idOf' = idOf /\ UNCHANGED <<others, todo, inbox, serving>>
      /\ idOf[c] \in Id /\ idOf[c] # None /\ idOf[c] \in used
  BY NoneAssumption DEF TypeOK, HoldOK, Goto, wire
<1>2. FreshOK'
  BY <1>1, SameFresh
<1>3. \A d \in Call \ {c} : pc[d] \in Listed => idOf[d] \in Id \ {idOf[c]}
  BY <1>1 DEF FreshOK, HoldOK, Holding, Fetching, Listed, Open
<1>4. TableOK'
  <2>1. ASSUME NEW i \in Id, requests'[i] # None
        PROVE  /\ idOf'[requests'[i]] = i
               /\ pc'[requests'[i]] \in Open \cup {"publish", "failed", "delete", "emit"}
    <3>1. CASE i = idOf[c]
      BY <1>1, <2>1, <3>1 DEF Listed
    <3>2. CASE i # idOf[c]
      <4>1. requests'[i] = requests[i] /\ requests[i] \in Call
        BY <2>1, <3>2 DEF TypeOK
      <4> QED
        BY <1>1, <2>1, <3>2, <4>1 DEF TableOK
    <3> QED
      BY <3>1, <3>2
  <2>2. \A d \in Call : pc'[d] \in Listed => requests'[idOf'[d]] = d
    BY <1>1, <1>3 DEF TableOK, Listed
  <2> QED
    BY <2>1, <2>2 DEF TableOK, Listed
<1>5. OnceOK'
  <2>1. pc[c] \in Listed => requests[idOf[c]] # None
    BY <1>1, NoneAssumption DEF TableOK, Listed
  <2>2. used \subseteq Id /\ \A m \in ToSet(inbox) : m.id \in Id
    BY DEF TypeOK, FreshOK
  <2>3. \A m \in ToSet(inbox) : requests[m.id] = None => requests'[m.id] = None
    BY <2>1, <2>2
  <2> QED
    BY <1>1, <2>3, SameOnce
<1>6. HandOK'
  BY <1>1, SameHand DEF HandOK, TypeOK, Hand
<1>7. ASSUME NEW d \in Call \ {c} PROVE FetchOK(d)'
  BY <1>1, <1>7, SameAwaited, SameFetch
<1> QED
  BY <1>2, <1>4, <1>5, <1>6, <1>7

LEMMA ContinueCalm ==
  ASSUME TypeOK, HoldOK, Calm, NEW c \in Call,
         \/ StoreRequest(c) \/ PublishFails(c) \/ Receive(c) \/ ReceiveClosed(c)
         \/ Timeout(c) \/ Recycle(c) \/ DeleteRequest(c) \/ PutId(c) \/ EmitTimeout(c)
  PROVE  Calm'
<1> DEFINE Alone == \A d \in Call \ {c} :
             /\ closed'[d] = closed[d] /\ buffer'[d] = buffer[d] /\ sockets'[d] = sockets[d]
             /\ msgCount'[d] = msgCount[d] /\ (d \in timedOut => d \in timedOut')
<1>0. /\ FetchOK(c) /\ TableOK /\ OnceOK /\ FreshOK /\ HandOK
      /\ pc \in [Call -> Label] /\ \A x : Goto(c, x) => pc'[c] = x
      /\ requests \in [Id -> {None} \cup Call] /\ timedOut \subseteq Call
      /\ closed \in [Call -> BOOLEAN] /\ buffer \in [Call -> Seq(Socket)]
      /\ sockets \in [Call -> Seq(Socket)] /\ msgCount \in [Call -> Nat]
  BY DEF Calm, TypeOK, Goto, Label
<1>1. UNCHANGED wire => UNCHANGED <<todo, inbox>>
  BY DEF wire
<1>2. Holding(c) => idOf[c] \in Id
  BY DEF HoldOK
<1>3. ASSUME Holding(c), requests[idOf[c]] # None
      PROVE  requests[idOf[c]] = c /\ pc[c] \in Listed \cup {"emit"}
  <2>1. requests[idOf[c]] \in Call /\ idOf[requests[idOf[c]]] = idOf[c] /\ idOf[c] # None
    BY <1>0, <1>2, <1>3, NoneAssumption DEF TableOK
  <2>2. requests[idOf[c]] = c
    BY <1>0, <2>1 DEF FreshOK
  <2> QED
    BY <1>0, <1>2, <1>3, <2>2 DEF TableOK, Listed
<1>4. CASE StoreRequest(c)
  <2>1. Alone /\ Goto(c, "publish") /\ Holding(c) /\ pc[c] = "store"
        /\ UNCHANGED <<wire, used, ackRequests, idOf, serving, crashed>>
    BY <1>0, <1>4 DEF StoreRequest, Holding, Fetching, ids
  <2>2. requests' = [requests EXCEPT ![idOf[c]] = c] /\ msgCount'[c] = 1
        /\ UNCHANGED <<closed, buffer, sockets>>
    BY <1>0, <1>4 DEF StoreRequest
  <2>3. FetchOK(c)'
    <3>1. Awaited(c)' = Awaited(c)
      BY <1>1, <2>1, SameAwaited
    <3> QED
      BY <1>0, <2>1, <2>2, <3>1 DEF FetchOK, CountOK, Early, Open, Over
  <2> QED
    BY <1>0, <1>2, <2>1, <2>2, <2>3, GoOn DEF Label, Open, Over, Listed, FreshOK
<1>9. CASE PublishFails(c)
  <2>1. /\ Alone /\ Goto(c, "failed") /\ Holding(c) /\ pc[c] = "publish"
        /\ UNCHANGED <<wire, used, ackRequests, idOf, serving, crashed, requests>>
        /\ UNCHANGED <<closed, buffer, sockets, msgCount>>
    BY <1>9 DEF PublishFails, Holding, Fetching, ids, tables, channels
  <2>2. FetchOK(c)'
    <3>1. Awaited(c)' = Awaited(c)
      BY <1>1, <2>1, SameAwaited
    <3> QED
      BY <1>0, <2>1, <3>1 DEF FetchOK, CountOK, Early, Open, Over
  <2>3. requests[idOf[c]] = c
    BY <1>0, <2>1 DEF TableOK
  <2> QED
    BY <1>2, <2>1, <2>2, <2>3, GoOn DEF Label, Open, Over, Listed
<1>5. CASE Receive(c)
  <2>1. /\ UNCHANGED <<others, ackRequests, idOf, todo, inbox, used, requests, serving, crashed>>
        /\ UNCHANGED <<pc, timedOut, msgCount, closed>> /\ pc[c] = "read"
    BY <1>5 DEF Receive, wire, ids, tables
  <2>2. /\ \A d \in Call \ {c} : buffer'[d] = buffer[d] /\ sockets'[d] = sockets[d]
        /\ sockets'[c] = sockets[c] \o buffer[c] /\ buffer'[c] = <<>>
    BY <1>0, <1>5 DEF Receive
  <2>3. Awaited(c)' = Awaited(c) /\ Collected(c)' = Collected(c)
    <3>1. sockets[c] \o buffer[c] \in Seq(Socket)
      BY <1>0
    <3> QED
      BY <2>1, <2>2, <3>1, SameAwaited DEF Collected
  <2>4. FetchOK(c)'
    <3>1. CollectedOK(c)'
      BY <1>0, <2>1, <2>3 DEF FetchOK, CollectedOK, InHand, Open
    <3> QED
      BY <1>0, <2>1, <2>2, <2>3, <3>1 DEF FetchOK, CountOK, Early, Open, Over
  <2>5. ASSUME NEW d \in Call \ {c} PROVE FetchOK(d)'
    BY <2>1, <2>2, SameAwaited, SameFetch DEF Calm
  <2>6. FreshOK' /\ OnceOK' /\ HandOK' /\ TableOK'
    BY <1>0, <2>1, SameFresh, SameOnce, SameHand DEF HandOK, TableOK
  <2> QED
    BY <2>1, <2>4, <2>5, <2>6 DEF Calm
<1>6. CASE ReceiveClosed(c) \/ Timeout(c)
  <2>1. /\ Alone /\ Goto(c, "recycle") /\ Holding(c) /\ pc[c] = "read"
        /\ UNCHANGED <<wire, used, ackRequests, idOf, serving, crashed, requests>>
        /\ UNCHANGED <<closed, buffer, sockets, msgCount>>
        /\ c \in timedOut' \/ (closed[c] /\ buffer[c] = <<>>)
    BY <1>6 DEF ReceiveClosed, Timeout, Holding, Fetching, ids, tables, channels
  <2>2. FetchOK(c)'
    <3>1. Awaited(c)' = Awaited(c) /\ Collected(c)' = Collected(c)
      BY <1>1, <2>1, SameAwaited DEF Collected
    <3>2. CollectedOK(c)'
      BY <1>0, <2>1, <3>1 DEF FetchOK, CollectedOK, InHand, Open
    <3> QED
      BY <1>0, <2>1, <3>1, <3>2 DEF FetchOK, CountOK, Early, Open, Over
  <2>3. requests[idOf[c]] = c
    BY <1>0, <2>1 DEF TableOK, Open
  <2> QED
    BY <1>2, <2>1, <2>2, <2>3, GoOn DEF Label, Open, Over, Listed
<1>7. CASE Recycle(c)
  <2>1. /\ Alone /\ Goto(c, "delete") /\ Holding(c) /\ pc[c] \in {"failed", "recycle"}
        /\ UNCHANGED <<wire, used, ackRequests, idOf, serving, crashed, requests>>
        /\ UNCHANGED <<closed, buffer>> /\ msgCount'[c] = 0
    BY <1>0, <1>7 DEF Recycle, Holding, Fetching, ids, tables
  <2>2. FetchOK(c)'
    <3>1. Awaited(c)' = Awaited(c)
      BY <1>1, <2>1, SameAwaited
    <3>2. Cardinality(Other \ Awaited(c)) \in Nat
      BY FoundAssumption, FS_Subset, FS_CardinalityType
    <3> QED
      BY <1>0, <2>1, <3>1, <3>2 DEF FetchOK, CountOK, Early, Open, Over
  <2>3. requests[idOf[c]] = c
    BY <1>0, <2>1 DEF TableOK, Open
  <2> QED
    BY <1>2, <2>1, <2>2, <2>3, GoOn DEF Label, Open, Over, Listed
<1>8. CASE DeleteRequest(c) \/ PutId(c) \/ EmitTimeout(c)
  <2>1. /\ UNCHANGED <<wire, used, ackRequests, idOf, serving, crashed, timedOut>>
        /\ UNCHANGED <<closed, buffer, sockets, msgCount>>
        /\ pc[c] \in {"delete", "put", "emit"} /\ Holding(c)
    BY <1>8 DEF DeleteRequest, PutId, EmitTimeout, Holding, Fetching, ids, tables, channels
  <2>2. PICK x \in {"put", "done"} : Goto(c, x)
    BY <1>8 DEF DeleteRequest, PutId, EmitTimeout
  <2>3. requests'[idOf[c]] = None /\ \A i \in Id \ {idOf[c]} : requests'[i] = requests[i]
    BY <1>0, <1>2, <1>3, <1>8, <2>1 DEF DeleteRequest, PutId, EmitTimeout, tables, Listed, Open
  <2>4. FetchOK(c)'
    <3>1. Awaited(c)' = Awaited(c)
      BY <1>1, <2>1, SameAwaited
    <3>2. Cardinality(Other) \in Nat /\ Other \ {} = Other
      BY FoundAssumption, FS_CardinalityType
    <3>3. pc'[c] \in {"put", "done"}
      BY <1>0, <2>2
    <3>4. msgCount[c] <= Cardinality(Other \ Awaited(c)) /\ (closed[c] => Awaited(c) = {})
      <4>1. CASE pc[c] = "emit"
        <5>1. Awaited(c) = {} /\ msgCount[c] = 0 /\ ~closed[c]
          BY <1>0, <4>1 DEF FetchOK, CountOK, Early
        <5> QED
          BY <3>2, <5>1
      <4>2. CASE pc[c] \in Over
        BY <1>0, <4>2 DEF FetchOK, CountOK
      <4> QED
        BY <2>1, <4>1, <4>2 DEF Over
    <3> QED
      BY <2>1, <3>1, <3>3, <3>4 DEF FetchOK, CountOK, Early, Open, Over
  <2>5. Alone
    BY <2>1
  <2> QED
    BY <2>1, <2>2, <2>3, <2>4, <2>5, GoOn DEF Label, Open, Over, Listed
<1> QED
  BY <1>4, <1>5, <1>6, <1>7, <1>8, <1>9

-----------------------------------------------------------------------------
(* The steps of the messages and of the subscriber.  Who is no longer awaited *)
(* is counted, or his answer dropped once the fetch is over.                 *)
LEMMA FewerAwaited ==
  ASSUME NEW c \in Call, FetchOK(c), Awaited(c)' \subseteq Awaited(c),
         UNCHANGED <<pc, closed, buffer, sockets, msgCount, timedOut>>,
         msgCount[c] \in Nat,
         pc[c] \in Open => Awaited(c)' = Awaited(c) /\ CollectedOK(c)'
  PROVE  FetchOK(c)'
<1>1. /\ Cardinality(Other \ Awaited(c)) <= Cardinality(Other \ Awaited(c)')
      /\ Cardinality(Other \ Awaited(c)) \in Nat /\ Cardinality(Other \ Awaited(c)') \in Nat
  <2>1. Other \ Awaited(c) \subseteq Other \ Awaited(c)'
    OBVIOUS
  <2>2. IsFiniteSet(Other \ Awaited(c)') /\ IsFiniteSet(Other \ Awaited(c))
    BY FoundAssumption, FS_Subset
  <2> QED
    BY <2>1, <2>2, FS_Subset, FS_CardinalityType
<1>2. CountOK(c)'
  <2>1. pc[c] \in Over => msgCount[c] <= Cardinality(Other \ Awaited(c)')
    BY <1>1 DEF FetchOK, CountOK
  <2> QED
    BY <2>1 DEF FetchOK, CountOK
<1> QED
  BY <1>2 DEF FetchOK

(* A call without an id awaits nobody. *)
LEMMA NoneAwaited ==
  ASSUME NEW t, NEW q, NEW I \in SUBSET Id,
         \A s \in Other : ToSet(t[s]) \subseteq I, \A m \in ToSet(q) : m.id \in I
  PROVE  Asked(t, None) = {} /\ Answering(q, None) = {}
BY NoneAssumption DEF Asked, Answering, AnswerIn

(* A request goes to all servers. *)
LEMMA PublishCalm ==
  ASSUME TypeOK, HoldOK, Calm, NEW c \in Call, PublishRequest(c)
  PROVE  Calm'
<1> DEFINE m == [type |-> "request", id |-> idOf[c], from |-> None, sockets |-> <<>>]
<1>1. /\ idOf[c] \in Id /\ idOf[c] \in used /\ pc[c] = "publish" /\ pc'[c] = "read"
      /\ \A d \in Call \ {c} : pc'[d] = pc[d]
  BY DEF PublishRequest, HoldOK, Holding, Fetching, TypeOK, Goto
<1>2. /\ UNCHANGED <<others, ackRequests, idOf, used, requests, serving, crashed>>
      /\ UNCHANGED <<closed, buffer, sockets, msgCount, timedOut>>
  BY DEF PublishRequest, ids, tables, channels
<1>3. /\ m \in Message /\ inbox \in Seq(Message) /\ inbox' = Append(inbox, m)
      /\ \A s \in Other : todo[s] \in Seq(Id) /\ todo'[s] = Append(todo[s], idOf[c])
  BY <1>1 DEF PublishRequest, TypeOK, Message, Calm, FreshOK
<1>4. /\ ToSet(inbox') = ToSet(inbox) \cup {m}
      /\ \A i \in Id : Answering(inbox', i) = Answering(inbox, i)
      /\ OneEach(inbox) => OneEach(inbox')
  <2>1. ToSet(inbox') = ToSet(inbox) \cup {m}
    BY <1>3, AppendMember
  <2>2. \A i : Answers(m, i) = {}
    BY DEF Answers
  <2> HIDE DEF m
  <2> QED
    <3>1. inbox \in Seq(Message) /\ m \in Message /\ inbox' = Append(inbox, m)
      BY <1>3
    <3>2. \A i \in Id : Answering(inbox', i) = Answering(inbox, i) \cup Answers(m, i)
      BY <3>1, AppendAnswer
    <3>3. OneEach(inbox) /\ Answers(m, m.id) \cap Answering(inbox, m.id) = {} => OneEach(inbox')
      BY <3>1, AppendAnswer
    <3> QED
      BY <2>1, <2>2, <3>2, <3>3
<1>5. ASSUME NEW s \in Other
      PROVE  /\ ToSet(todo'[s]) = ToSet(todo[s]) \cup {idOf[c]}
             /\ idOf[c] \notin ToSet(todo[s])
             /\ IsInjective(todo[s]) => IsInjective(todo'[s])
  <2>1. idOf[c] \notin ToSet(todo[s])
    BY <1>1 DEF Calm, FetchOK, CountOK, Early, Awaited, Asked
  <2>2. todo[s] \in Seq(Id) /\ todo'[s] = Append(todo[s], idOf[c])
    BY <1>3
  <2> QED
    BY <1>1, <2>1, <2>2, AppendMember
<1>6. Asked(todo', idOf[c]) = Other /\ \A i \in Id \ {idOf[c]} : Asked(todo', i) = Asked(todo, i)
  BY <1>5 DEF Asked
<1>7. \A d \in Call : idOf[d] # None => idOf[d] \in Id /\ (d # c => idOf[d] # idOf[c])
  BY <1>1 DEF Calm, FreshOK, TypeOK
<1>8. FreshOK'
  <2>1. \A d \in Call : pc'[d] = "store" => pc[d] = "store" /\ idOf[d] # idOf[c]
    BY <1>1, <1>7, NoneAssumption DEF HoldOK, Holding, Fetching
  <2> QED
    BY <1>1, <1>2, <1>4, <1>5, <2>1 DEF Calm, FreshOK
<1>9. TableOK'
  BY <1>1, <1>2 DEF Calm, TableOK, Open, TypeOK
<1>10. OnceOK'
  <2>1. \A i \in Id : Asked(todo', i) \cap Answering(inbox', i) = {}
    <3>1. Answering(inbox, idOf[c]) = {}
      BY <1>1 DEF Calm, FetchOK, CountOK, Early, Awaited
    <3> QED
      BY <1>4, <1>6, <3>1 DEF Calm, OnceOK
  <2> QED
    BY <1>2, <1>4, <1>5, <2>1 DEF Calm, OnceOK
<1>11. HandOK'
  <2>1. serving # None => serving.call \in Call /\ serving.call # c
    BY <1>1 DEF Calm, HandOK, TypeOK, Hand, Open, Over
  <2> QED
    BY <1>1, <1>2, <1>4, <1>6, <1>7, <2>1 DEF Calm, HandOK
<1>12. FetchOK(c)'
  <2>1. Awaited(c)' = Other
    BY <1>2, <1>6 DEF Awaited, Asked, Answering, InHand
  <2>2. Cardinality(Other \ Other) = 0
    BY FS_EmptySet
  <2>3. ~closed[c] /\ buffer[c] = <<>> /\ sockets[c] = <<>> /\ msgCount[c] = 1 /\ InHand(serving, c) = {}
    BY <1>1 DEF Calm, FetchOK, CountOK, Early, Awaited
  <2>4. CollectedOK(c)'
    <3>1. Collected(c)' = <<>>
      BY <1>2, <2>3 DEF Collected
    <3>2. InHand(serving', c) = {}
      BY <1>2, <2>3
    <3> QED
      BY <2>1, <3>1, <3>2, EmptyMember DEF CollectedOK
  <2> QED
    BY <1>1, <1>2, <2>1, <2>2, <2>3, <2>4 DEF FetchOK, CountOK, Early, Open, Over
<1>13. ASSUME NEW d \in Call \ {c} PROVE FetchOK(d)'
  <2>1. Awaited(d)' = Awaited(d)
    <3>1. CASE idOf[d] = None
      <4>1. used \subseteq Id /\ used' = used
        BY <1>2 DEF TypeOK
      <4>2. Asked(todo, None) = {} /\ Answering(inbox, None) = {}
        BY <4>1, NoneAwaited DEF Calm, FreshOK
      <4>3. Asked(todo', None) = {} /\ Answering(inbox', None) = {}
        BY <1>8, <4>1, NoneAwaited DEF FreshOK
      <4> QED
        BY <1>2, <3>1, <4>2, <4>3 DEF Awaited, Asked, Answering, InHand
    <3>2. CASE idOf[d] # None
      BY <1>2, <1>4, <1>6, <1>7, <3>2 DEF Awaited, Asked, Answering, InHand
    <3> QED
      BY <3>1, <3>2
  <2> QED
    BY <1>1, <1>2, <1>13, <2>1, SameFetch DEF Calm
<1> QED
  BY <1>2, <1>8, <1>9, <1>10, <1>11, <1>12, <1>13 DEF Calm

(* A server's answer takes the place of its request. *)
LEMMA AnswerCalm ==
  ASSUME TypeOK, HoldOK, Calm, NEW s \in Other, OnRequest(s)
  PROVE  Calm'
<1> DEFINE id == Head(todo[s])
           m == [type |-> "response", id |-> id, from |-> s, sockets |-> Found[s]]
<1>1. /\ UNCHANGED <<others, changes, used, requests, ackRequests, pc, idOf, sockets, timedOut>>
      /\ UNCHANGED <<buffer, msgCount, closed, spare, serving, crashed>>
  BY DEF OnRequest, ids, tables, calls, channels
<1>2. /\ todo \in [Other -> Seq(Id)] /\ todo[s] # <<>> /\ todo' = [todo EXCEPT ![s] = Tail(@)]
      /\ inbox \in Seq(Message) /\ inbox' = Append(inbox, m) /\ used \subseteq Id
  BY DEF OnRequest, Answer, TypeOK, Message
<1>3. /\ id \in Id /\ ToSet(todo[s]) = {id} \cup ToSet(todo'[s]) /\ id \notin ToSet(todo'[s])
      /\ IsInjective(todo'[s]) /\ \A t \in Other \ {s} : todo'[t] = todo[t]
  <2>1. todo[s] \in Seq(Id) /\ todo'[s] = Tail(todo[s]) /\ IsInjective(todo[s])
    BY <1>2 DEF Calm, OnceOK
  <2> QED
    BY <1>2, <2>1, TailMember
<1>4. /\ Asked(todo, id) = Asked(todo', id) \cup {s} /\ s \notin Asked(todo', id)
      /\ \A i \in Id \ {id} : Asked(todo', i) = Asked(todo, i)
  BY <1>3 DEF Asked
<1>5. m \in Message
  BY <1>3, FoundAssumption DEF Message
<1>6. Answers(m, id) = {s} /\ \A i \in Id \ {id} : Answers(m, i) = {}
  BY DEF Answers
<1>7. s \notin Answering(inbox, id)
  BY <1>3, <1>4 DEF Calm, OnceOK
<1>8. /\ ToSet(inbox') = ToSet(inbox) \cup {m} /\ OneEach(inbox')
      /\ Answering(inbox', id) = Answering(inbox, id) \cup {s}
      /\ \A i \in Id \ {id} : Answering(inbox', i) = Answering(inbox, i)
  <2>1. ToSet(inbox') = ToSet(inbox) \cup {m}
    BY <1>2, <1>5, AppendMember
  <2>2. m.id = id
    OBVIOUS
  <2> HIDE DEF m, id
  <2>3. \A i \in Id : Answering(inbox', i) = Answering(inbox, i) \cup Answers(m, i)
    BY <1>2, <1>5, AppendAnswer
  <2>4. OneEach(inbox) /\ Answers(m, m.id) \cap Answering(inbox, m.id) = {} => OneEach(inbox')
    BY <1>2, <1>5, AppendAnswer
  <2> QED
    BY <1>3, <1>6, <1>7, <2>1, <2>2, <2>3, <2>4, ZenonT(30) DEF Calm, OnceOK
<1>9. FreshOK'
  <2>1. id \in used /\ m.id = id
    BY <1>3 DEF Calm, FreshOK
  <2>2. \A d \in Call : pc[d] = "store" => id # idOf[d]
    BY <1>4 DEF Calm, FetchOK, CountOK, Early, Awaited
  <2> QED
    BY <1>1, <1>3, <1>8, <2>1, <2>2 DEF Calm, FreshOK
<1>10. TableOK'
  BY <1>1 DEF Calm, TableOK
<1>11. OnceOK'
  <2>1. \A t \in Other : IsInjective(todo'[t])
    BY <1>3 DEF Calm, OnceOK
  <2>2. \A i \in Id : Asked(todo', i) \cap Answering(inbox', i) = {}
    BY <1>4, <1>8 DEF Calm, OnceOK
  <2>3. m.from \in Other /\ m.sockets = Found[m.from]
    OBVIOUS
  <2> QED
    BY <1>1, <1>8, <2>1, <2>2, <2>3 DEF Calm, OnceOK
<1>12. \A i \in Id : Asked(todo', i) \cup Answering(inbox', i) = Asked(todo, i) \cup Answering(inbox, i)
  BY <1>4, <1>8
<1>13. HandOK'
  <2>1. serving # None => serving.call \in Call /\ idOf[serving.call] \in Id
    BY DEF Calm, HandOK, TypeOK, Hand
  <2> QED
    BY <1>1, <1>12, <2>1 DEF Calm, HandOK
<1>14. ASSUME NEW d \in Call PROVE FetchOK(d)'
  <2>1. idOf[d] \in Id \cup {None}
    BY DEF TypeOK
  <2>2. Asked(todo', None) = {} /\ Answering(inbox', None) = {}
    BY <1>1, <1>2, <1>9, NoneAwaited DEF FreshOK
  <2>3. Asked(todo, None) = {} /\ Answering(inbox, None) = {}
    BY <1>2, NoneAwaited DEF Calm, FreshOK
  <2>4. Awaited(d)' = Asked(todo', idOf[d]) \cup Answering(inbox', idOf[d]) \cup InHand(serving, d)
    BY <1>1 DEF Awaited, Asked, Answering, InHand
  <2>5. Awaited(d)' = Awaited(d)
    BY <1>12, <2>1, <2>2, <2>3, <2>4 DEF Awaited
  <2> QED
    BY <1>1, <2>5, SameFetch DEF Calm
<1> QED
  BY <1>1, <1>9, <1>10, <1>11, <1>13, <1>14 DEF Calm

(* A request that comes back to its own server counts for nobody. *)
LEMMA OwnCalm ==
  ASSUME TypeOK, HoldOK, Calm, OnOwnRequest
  PROVE  Calm'
<1> DEFINE r == Head(inbox)
           m == [type |-> "response", id |-> r.id, from |-> None, sockets |-> <<>>]
<1>1. /\ UNCHANGED <<others, todo, changes, used, requests, ackRequests, pc, idOf, sockets>>
      /\ UNCHANGED <<timedOut, buffer, msgCount, closed, spare, serving, crashed>>
  BY DEF OnOwnRequest, ids, tables, calls, channels
<1>2. /\ inbox \in Seq(Message) /\ inbox # <<>> /\ r.type = "request" /\ used \subseteq Id
      /\ \/ requests[r.id] # None /\ inbox' = Tail(inbox) \o <<>>
         \/ requests[r.id] = None /\ inbox' = Tail(inbox) \o <<m>>
  BY DEF OnOwnRequest, TypeOK, Message
<1>3. r \in Message /\ Tail(inbox) \in Seq(Message) /\ ToSet(inbox) = {r} \cup ToSet(Tail(inbox))
  BY <1>2, TailMember
<1>4. m \in Message /\ m.id = r.id /\ r.id \in Id
  BY <1>3 DEF Message
<1>5. \A i \in Id : Answers(r, i) = {} /\ Answers(m, i) = {}
  BY <1>2, NoneAssumption DEF Answers
<1>6. OneEach(Tail(inbox)) /\ \A i \in Id : Answering(Tail(inbox), i) = Answering(inbox, i)
  <2> HIDE DEF r
  <2>1. OneEach(Tail(inbox)) /\ \A i \in Id : Answering(inbox, i) = Answering(Tail(inbox), i) \cup Answers(r, i)
    BY <1>2, TailAnswer DEF Calm, OnceOK, r
  <2> QED
    BY <1>5, <2>1
<1>7. /\ OneEach(inbox') /\ \A i \in Id : Answering(inbox', i) = Answering(inbox, i)
      /\ \/ ToSet(inbox') \subseteq ToSet(inbox)
         \/ requests[r.id] = None /\ ToSet(inbox') \subseteq ToSet(inbox) \cup {m}
  <2>1. CASE inbox' = Tail(inbox) \o <<>>
    BY <1>3, <1>6, <2>1
  <2>2. CASE requests[r.id] = None /\ inbox' = Tail(inbox) \o <<m>>
    <3> HIDE DEF m, r
    <3>1. inbox' = Append(Tail(inbox), m) /\ Tail(inbox) \in Seq(Message) /\ m \in Message
      BY <1>3, <1>4, <2>2
    <3>2. ToSet(inbox') = ToSet(Tail(inbox)) \cup {m}
      <4>1. \A q \in Seq(Message), x \in Message : ToSet(Append(q, x)) = ToSet(q) \cup {x}
        BY AppendMember
      <4> QED
        BY <3>1, <4>1
    <3>3. \A i \in Id : Answering(inbox', i) = Answering(Tail(inbox), i) \cup Answers(m, i)
      BY <1>3, <1>4, <3>1, AppendAnswer
    <3>4. OneEach(Tail(inbox)) /\ Answers(m, m.id) \cap Answering(Tail(inbox), m.id) = {}
            => OneEach(inbox')
      BY <1>3, <1>4, <3>1, AppendAnswer
    <3> QED
      BY <1>3, <1>4, <1>5, <1>6, <2>2, <3>2, <3>3, <3>4
  <2> QED
    BY <1>2, <2>1, <2>2
<1>8. FreshOK'
  <2>1. r.id \in used /\ \A d \in Call : pc[d] = "store" => r.id # idOf[d]
    BY <1>3 DEF Calm, FreshOK
  <2> QED
    BY <1>1, <1>4, <1>7, <2>1 DEF Calm, FreshOK
<1>9. TableOK'
  BY <1>1 DEF Calm, TableOK
<1>10. OnceOK'
  <2>1. \A i \in Id : Asked(todo', i) \cap Answering(inbox', i) = {}
    BY <1>1, <1>7 DEF Calm, OnceOK
  <2>2. \A x \in ToSet(inbox') : x.type = "response" =>
          requests'[x.id] = None \/ (x.from \in Other /\ x.sockets = Found[x.from])
    BY <1>1, <1>4, <1>7 DEF Calm, OnceOK
  <2> QED
    BY <1>1, <1>7, <2>1, <2>2 DEF Calm, OnceOK
<1>11. HandOK'
  <2>1. serving # None => serving.call \in Call /\ idOf[serving.call] \in Id
    BY DEF Calm, HandOK, TypeOK, Hand
  <2> QED
    BY <1>1, <1>7, <2>1 DEF Calm, HandOK
<1>12. ASSUME NEW d \in Call PROVE FetchOK(d)'
  <2>1. idOf[d] \in Id \cup {None}
    BY DEF TypeOK
  <2>2. Answering(inbox', None) = {}
    BY <1>1, <1>2, <1>8, NoneAwaited DEF FreshOK
  <2>3. Answering(inbox, None) = {}
    BY <1>2, NoneAwaited DEF Calm, FreshOK
  <2>4. Awaited(d)' = Asked(todo, idOf[d]) \cup Answering(inbox', idOf[d]) \cup InHand(serving, d)
    BY <1>1 DEF Awaited, Asked, Answering, InHand
  <2>5. Awaited(d)' = Awaited(d)
    BY <1>7, <2>1, <2>2, <2>3, <2>4 DEF Awaited
  <2> QED
    BY <1>1, <2>5, SameFetch DEF Calm
<1> QED
  BY <1>1, <1>8, <1>9, <1>10, <1>11, <1>12 DEF Calm

(* onresponse takes an answer in hand, or drops it when no fetch waits for it. *)
LEMMA ResponseCalm ==
  ASSUME TypeOK, HoldOK, Own, Calm, OnResponse
  PROVE  Calm'
<1> DEFINE r == Head(inbox)
<1>1. /\ UNCHANGED <<others, todo, changes, used, requests, ackRequests, pc, idOf, sockets>>
      /\ UNCHANGED <<timedOut, buffer, msgCount, closed, spare, crashed>>
      /\ serving = None /\ inbox # <<>> /\ r.type = "response" /\ inbox' = Tail(inbox)
  BY DEF OnResponse, ids, tables, calls, channels
<1>2. inbox \in Seq(Message) /\ used \subseteq Id /\ requests \in [Id -> {None} \cup Call]
  BY DEF TypeOK, Message
<1>3. r \in Message /\ ToSet(inbox) = {r} \cup ToSet(inbox') /\ r.id \in Id /\ inbox' \in Seq(Message)
  <2>1. /\ r \in Message /\ Tail(inbox) \in Seq(Message)
        /\ ToSet(inbox) = {r} \cup ToSet(Tail(inbox))
    BY <1>1, <1>2, TailMember
  <2> QED
    BY <1>1, <2>1 DEF Message
<1>4. /\ OneEach(inbox') /\ Answers(r, r.id) \cap Answering(inbox', r.id) = {}
      /\ \A i \in Id : Answering(inbox, i) = Answering(inbox', i) \cup Answers(r, i)
  BY <1>1, <1>2, TailAnswer DEF Calm, OnceOK
<1>5. \A i \in Id \ {r.id} : Answering(inbox', i) = Answering(inbox, i)
  BY <1>4 DEF Answers
<1>6. FreshOK' /\ TableOK'
  BY <1>1, <1>3 DEF Calm, FreshOK, TableOK
<1>7. OnceOK'
  <2>1. \A i \in Id : Asked(todo', i) \cap Answering(inbox', i) = {}
    BY <1>1, <1>4 DEF Calm, OnceOK
  <2> QED
    BY <1>1, <1>3, <1>4, <2>1 DEF Calm, OnceOK
<1>8. ASSUME NEW d \in Call
      PROVE  /\ InHand(serving, d) = {}
             /\ Awaited(d) = Asked(todo, idOf[d]) \cup Answering(inbox, idOf[d])
             /\ Awaited(d)' = Asked(todo, idOf[d]) \cup Answering(inbox', idOf[d]) \cup InHand(serving', d)
  BY <1>1 DEF Awaited, Asked, Answering, InHand
<1>9. Answering(inbox', None) = {} /\ Answering(inbox, None) = {}
  <2>1. Answering(inbox', None) = {}
    BY <1>1, <1>2, <1>6, NoneAwaited DEF FreshOK
  <2>2. Answering(inbox, None) = {}
    BY <1>2, NoneAwaited DEF Calm, FreshOK
  <2> QED
    BY <2>1, <2>2
<1>10. \A d \in Call : idOf[d] # r.id => Answering(inbox', idOf[d]) = Answering(inbox, idOf[d])
  BY <1>5, <1>9 DEF TypeOK
<1> DEFINE Dropped == \/ r.id \in ackRequests \/ requests[r.id] = None
                      \/ pc[requests[r.id]] = "emit" \/ Recycled(requests[r.id])
<1>u. requests[r.id] # None => user[requests[r.id]] = requests[r.id]
  BY <1>2, <1>3 DEF Own
<1>11. CASE Dropped
  <2>1. serving' = None
    BY <1>u, <1>11 DEF OnResponse
  <2>2. \A d \in Call : InHand(serving', d) = {}
    BY <2>1 DEF InHand
  <2>3. HandOK'
    BY <2>1 DEF HandOK
  <2>4. ASSUME NEW d \in Call PROVE FetchOK(d)'
    <3>1. Awaited(d)' \subseteq Awaited(d)
      BY <1>3, <1>4, <1>8, <1>10, <2>2
    <3>2. pc[d] \in Open => idOf[d] # r.id
      <4>1. ASSUME pc[d] \in Open, idOf[d] = r.id PROVE FALSE
        <5>1. requests[r.id] = d /\ r.id \notin ackRequests /\ d # None
          BY <1>3, <4>1, NoneAssumption DEF Calm, TableOK, FreshOK
        <5> QED
          BY <1>11, <4>1, <5>1 DEF Open, Recycled
      <4> QED
        BY <4>1
    <3>3. pc[d] \in Open => Awaited(d)' = Awaited(d)
      BY <1>8, <1>10, <2>2, <3>2
    <3>4. pc[d] \in Open => CollectedOK(d)'
      <4>1. Collected(d)' = Collected(d)
        BY <1>1 DEF Collected
      <4> QED
        BY <1>8, <2>2, <3>3, <4>1 DEF Calm, FetchOK, CollectedOK
    <3>5. msgCount[d] \in Nat /\ FetchOK(d)
      BY DEF TypeOK, Calm
    <3> QED
      BY <1>1, <3>1, <3>3, <3>4, <3>5, FewerAwaited
  <2> QED
    BY <1>1, <1>6, <1>7, <2>3, <2>4 DEF Calm
<1>12. CASE ~Dropped
  <2>0. PICK c \in Call, s \in Other \cup {None} : c = requests[r.id] /\ s = r.from
    BY <1>2, <1>3, <1>12 DEF Message
  <2>1. serving' = [call |-> c, from |-> s, rest |-> r.sockets, chan |-> None]
    BY <1>u, <1>12, <2>0 DEF OnResponse
  <2>2. c \in Call /\ idOf[c] = r.id /\ pc[c] \in Open \cup {"publish", "failed"} /\ s \in Other
        /\ r.sockets = Found[s] /\ serving' # None
    <3>1. c \in Call /\ idOf[c] = r.id /\ pc[c] \in Open \cup {"publish", "failed"}
      BY <1>2, <1>3, <1>12, <2>0, NoneAssumption DEF Calm, TableOK, Recycled
    <3>2. s \in Other /\ r.sockets = Found[s]
      BY <1>1, <1>3, <1>12, <2>0 DEF Calm, OnceOK
    <3>3. serving' # None
      BY <1>3, <2>1, <3>1, NoneAssumption DEF Hand, Message
    <3> QED
      BY <3>1, <3>2, <3>3
  <2>3. /\ Answers(r, r.id) = {s} /\ s \in Answering(inbox, r.id)
        /\ s \notin Answering(inbox', r.id) /\ s \notin Asked(todo, r.id)
    BY <1>1, <1>3, <1>4, <2>0, <2>2 DEF Answers, Calm, OnceOK
  <2>4. pc[c] \in Open
    <3>1. s \in Awaited(c)
      BY <1>8, <2>2, <2>3
    <3> QED
      BY <2>2, <3>1 DEF Calm, FetchOK, CountOK, Early
  <2>5. InHand(serving', c) = {s} /\ \A d \in Call \ {c} : InHand(serving', d) = {}
    BY <2>1, <2>2 DEF InHand
  <2>6. IsInjective(Found[s])
    BY <2>2, FoundAssumption DEF IsInjective
  <2>7. HandOK'
    <3>1. /\ serving'.call = c /\ serving'.from = s /\ serving'.rest = Found[s]
          /\ serving'.chan = None
      BY <2>1, <2>2
    <3>2. serving'.chan # "spare"
      BY <3>1, NoneAssumption
    <3>3. pc'[c] \in Open /\ idOf'[c] = r.id /\ r.id # None
      BY <1>1, <1>3, <2>2, <2>4, NoneAssumption
    <3>4. s \notin Asked(todo', r.id) \cup Answering(inbox', r.id)
      BY <1>1, <2>3
    <3> HIDE DEF r
    <3> QED
      BY <2>2, <2>6, <3>1, <3>2, <3>3, <3>4 DEF HandOK
  <2>8. Awaited(c)' = Awaited(c)
    <3>1. Answering(inbox, r.id) = Answering(inbox', r.id) \cup {s}
      BY <1>3, <1>4, <2>3
    <3> HIDE DEF r
    <3> QED
      BY <1>8, <2>2, <2>5, <3>1
  <2>9. ASSUME NEW d \in Call \ {c} PROVE Awaited(d)' = Awaited(d) /\ idOf[d] # r.id
    <3>1. idOf[d] # r.id
      BY <1>3, <2>2, NoneAssumption DEF Calm, FreshOK
    <3> QED
      BY <1>8, <1>10, <2>5, <3>1
  <2>10. \A d \in Call : Awaited(d)' = Awaited(d)
    BY <2>8, <2>9
  <2>11. ASSUME NEW d \in Call, pc[d] \in Open PROVE CollectedOK(d)'
    <3>1. Collected(d)' = Collected(d)
      BY <1>1 DEF Collected
    <3>2. CollectedOK(d)
      BY <2>11 DEF Calm, FetchOK
    <3>3. CASE d # c
      BY <1>8, <2>5, <2>10, <3>1, <3>2, <3>3 DEF CollectedOK
    <3>4. CASE d = c
      <4>1. s \in Awaited(c) /\ serving'.rest = Found[s] /\ InHand(serving, c) = {}
        BY <1>8, <2>1, <2>2, <2>3
      <4> HIDE DEF r
      <4> QED
        BY <2>5, <2>10, <3>1, <3>2, <3>4, <4>1 DEF CollectedOK
    <3> QED
      BY <3>3, <3>4
  <2>12. ASSUME NEW d \in Call PROVE FetchOK(d)'
    <3>1. msgCount[d] \in Nat /\ FetchOK(d)
      BY DEF TypeOK, Calm
    <3>2. Awaited(d)' = Awaited(d)
      BY <2>10
    <3> QED
      BY <1>1, <2>11, <3>1, <3>2, FewerAwaited
  <2> QED
    BY <1>1, <1>6, <1>7, <2>7, <2>12 DEF Calm
<1> QED
  BY <1>11, <1>12

(* The subscriber has one answer in hand, which its fetch awaits. *)
LEMMA ServingFacts ==
  ASSUME TypeOK, Calm, serving # None
  PROVE  \E c \in Call, s \in Other :
           /\ c = serving.call /\ s = serving.from /\ serving \in Hand
           /\ InHand(serving, c) = {s} /\ \A d \in Call \ {c} : InHand(serving, d) = {}
           /\ s \in Awaited(c) /\ ~closed[c]
           /\ s \notin Asked(todo, idOf[c]) \cup Answering(inbox, idOf[c])
<1>1. serving \in Hand /\ serving.call \in Call /\ serving.from \in Other
  BY DEF TypeOK, Calm, HandOK, Hand
<1>2. PICK c \in Call, s \in Other : c = serving.call /\ s = serving.from
  BY <1>1
<1>3. InHand(serving, c) = {s} /\ \A d \in Call \ {c} : InHand(serving, d) = {}
  BY <1>1, <1>2 DEF InHand
<1>4. s \in Awaited(c) /\ ~closed[c]
  BY <1>3 DEF Awaited, Calm, FetchOK, CountOK
<1>5. s \notin Asked(todo, idOf[c]) \cup Answering(inbox, idOf[c])
  BY <1>2 DEF Calm, HandOK
<1> QED
  BY <1>1, <1>2, <1>3, <1>4, <1>5

LEMMA EvalCalm ==
  ASSUME TypeOK, HoldOK, Own, Calm, EvalChannel
  PROVE  Calm'
<1>1. PICK c \in Call, s \in Other :
        /\ c = serving.call /\ s = serving.from /\ serving \in Hand
        /\ InHand(serving, c) = {s} /\ \A d \in Call \ {c} : InHand(serving, d) = {}
  BY ServingFacts DEF EvalChannel
<1>2. /\ UNCHANGED <<others, todo, inbox, used, requests, ackRequests, pc, idOf, sockets>>
      /\ UNCHANGED <<timedOut, buffer, msgCount, closed, crashed>>
  BY DEF EvalChannel, wire, ids, tables, calls, channels
<1>3. /\ serving # None /\ serving'.call = c /\ serving'.from = s /\ serving'.rest = serving.rest
      /\ serving'.chan = IF pc[c] \in Over THEN "spare" ELSE "mesChan"
      /\ serving' \in Hand
  BY <1>1 DEF EvalChannel, Hand, Over, Own, Recycled
<1>4. serving' # None
  BY <1>3, NoneAssumption
<1>5. \A d \in Call : InHand(serving', d) = InHand(serving, d)
  BY <1>1, <1>3, <1>4 DEF InHand
<1>6. HandOK'
  <2>1. /\ pc[c] \in Open \cup Over /\ idOf[c] # None
        /\ s \notin Asked(todo, idOf[c]) \cup Answering(inbox, idOf[c])
        /\ IsInjective(serving.rest) /\ ToSet(serving.rest) \subseteq ToSet(Found[s])
    BY <1>1, <1>3 DEF Calm, HandOK
  <2>2. serving'.chan = "spare" => pc[c] \in Over
    BY <1>3
  <2> QED
    BY <1>2, <1>3, <2>1, <2>2 DEF HandOK
<1>7. FreshOK' /\ TableOK' /\ OnceOK'
  BY <1>2, SameFresh, SameOnce DEF Calm, TableOK
<1>8. ASSUME NEW d \in Call PROVE FetchOK(d)'
  <2>1. Awaited(d)' = Awaited(d)
    BY <1>2, <1>5 DEF Awaited, Asked, Answering
  <2>2. msgCount[d] \in Nat /\ FetchOK(d)
    BY DEF TypeOK, Calm
  <2>3. CollectedOK(d) => CollectedOK(d)'
    <3>1. Collected(d)' = Collected(d)
      BY <1>2 DEF Collected
    <3> QED
      BY <1>3, <1>5, <2>1, <3>1 DEF CollectedOK
  <2> QED
    BY <1>2, <2>1, <2>2, <2>3, FewerAwaited DEF FetchOK
<1> QED
  BY <1>2, <1>6, <1>7, <1>8 DEF Calm

(* A socket goes into the channel that its fetch reads, or the one that nobody reads. *)
LEMMA SendCalm ==
  ASSUME TypeOK, HoldOK, Calm, SendSocket
  PROVE  Calm'
<1>1. PICK c \in Call, s \in Other :
        /\ c = serving.call /\ s = serving.from /\ serving \in Hand
        /\ InHand(serving, c) = {s} /\ \A d \in Call \ {c} : InHand(serving, d) = {}
        /\ s \in Awaited(c) /\ ~closed[c]
  BY ServingFacts DEF SendSocket
<1> DEFINE h == Head(serving.rest)
<1>2. /\ UNCHANGED <<others, todo, inbox, used, requests, ackRequests, pc, idOf, sockets>>
      /\ UNCHANGED <<timedOut, msgCount, closed>>
  BY DEF SendSocket, wire, ids, tables, calls
<1>3. /\ serving.rest \in Seq(Socket) /\ serving.rest # <<>> /\ serving # None
      /\ serving'.call = c /\ serving'.from = s /\ serving'.rest = Tail(serving.rest)
      /\ serving'.chan = None /\ serving' = [serving EXCEPT !.rest = Tail(@), !.chan = None]
  BY <1>1 DEF SendSocket, Hand
<1>4. /\ h \in Socket /\ Tail(serving.rest) \in Seq(Socket) /\ IsInjective(Tail(serving.rest))
      /\ ToSet(serving.rest) = {h} \cup ToSet(serving'.rest) /\ h \notin ToSet(serving'.rest)
  <2>1. IsInjective(serving.rest)
    BY <1>3 DEF Calm, HandOK
  <2> QED
    BY <1>3, <2>1, TailMember
<1>5. serving' # None
  <2>1. serving' \in Hand
    BY <1>1, <1>3, <1>4 DEF Hand
  <2> QED
    BY <2>1, NoneAssumption
<1>6. /\ crashed' = crashed
      /\ \/ serving.chan = "mesChan" /\ buffer[c] = <<>> /\ buffer' = [buffer EXCEPT ![c] = <<h>>]
         \/ serving.chan = "spare" /\ buffer' = buffer
  BY <1>1 DEF SendSocket
<1>7. \A d \in Call : InHand(serving', d) = InHand(serving, d)
  BY <1>1, <1>3, <1>5 DEF InHand
<1>8. HandOK'
  <2>1. /\ pc[c] \in Open \cup Over /\ idOf[c] # None
        /\ s \notin Asked(todo, idOf[c]) \cup Answering(inbox, idOf[c])
        /\ ToSet(serving.rest) \subseteq ToSet(Found[s])
    BY <1>1, <1>3 DEF Calm, HandOK
  <2>2. serving'.chan # "spare"
    BY <1>3, NoneAssumption
  <2> QED
    BY <1>2, <1>3, <1>4, <2>1, <2>2 DEF HandOK
<1>9. FreshOK' /\ TableOK' /\ OnceOK'
  BY <1>2, SameFresh, SameOnce DEF Calm, TableOK
<1>10. \A d \in Call : Awaited(d)' = Awaited(d)
  BY <1>2, <1>7 DEF Awaited, Asked, Answering
<1>11. ASSUME NEW d \in Call, d # c PROVE FetchOK(d)'
  <2>1. buffer'[d] = buffer[d] /\ Collected(d)' = Collected(d)
    BY <1>2, <1>6, <1>11 DEF TypeOK, Collected
  <2>2. FetchOK(d) /\ Awaited(d)' = Awaited(d) /\ InHand(serving, d) = {} /\ InHand(serving', d) = {}
    BY <1>1, <1>7, <1>10, <1>11 DEF Calm
  <2>3. CollectedOK(d) => CollectedOK(d)'
    BY <2>1, <2>2 DEF CollectedOK
  <2>4. CountOK(d)'
    BY <1>2, <2>1, <2>2 DEF FetchOK, CountOK
  <2> QED
    BY <1>2, <2>1, <2>2, <2>3, <2>4 DEF FetchOK
<1>12. FetchOK(c)'
  <2>1. pc[c] \in Open \cup Over /\ FetchOK(c) /\ (pc[c] \in Open => serving.chan = "mesChan")
        /\ ToSet(serving.rest) \subseteq ToSet(Found[s])
    BY <1>1, <1>3, <1>6 DEF Calm, HandOK, Open, Over
  <2>2. CountOK(c)'
    BY <1>2, <1>10, <2>1 DEF FetchOK, CountOK, Early, Open, Over
  <2>3. pc[c] = "recycle" => c \in timedOut
    BY <1>1, <2>1 DEF FetchOK
  <2>4. ASSUME pc[c] \in Open PROVE CollectedOK(c)'
    <3>1. /\ sockets[c] \in Seq(Socket) /\ Collected(c) = sockets[c]
          /\ Collected(c)' = Append(sockets[c], h)
      <4>1. sockets[c] \in Seq(Socket) /\ buffer[c] = <<>> /\ buffer'[c] = <<h>> /\ sockets'[c] = sockets[c]
        BY <1>2, <1>6, <2>1, <2>4 DEF TypeOK
      <4>2. sockets[c] \o <<>> = sockets[c] /\ sockets[c] \o <<h>> = Append(sockets[c], h)
        BY <1>4, <4>1
      <4> QED
        BY <4>1, <4>2 DEF Collected
    <3>2. CollectedOK(c) /\ h \in ToSet(serving.rest) /\ h \in ToSet(Found[s])
      BY <1>4, <2>1, <2>4 DEF FetchOK
    <3>3. h \notin ToSet(sockets[c])
      BY <1>1, <3>1, <3>2 DEF CollectedOK
    <3>4. ToSet(Collected(c)') = ToSet(sockets[c]) \cup {h} /\ IsInjective(Collected(c)')
      BY <1>4, <3>1, <3>2, <3>3, AppendMember DEF CollectedOK
    <3>5. ASSUME NEW t \in Other, NEW k \in ToSet(Found[t])
          PROVE  k \in ToSet(Collected(c)') <=>
                   \/ t \notin Awaited(c)' \/ (t \in InHand(serving', c) /\ k \notin ToSet(serving'.rest))
      <4>1. k = h => t = s
        BY <3>2, FoundAssumption DEF ToSet
      <4> QED
        BY <1>1, <1>4, <1>7, <1>10, <3>1, <3>2, <3>4, <4>1 DEF CollectedOK
    <3> QED
      BY <3>4, <3>5 DEF CollectedOK
  <2> QED
    BY <1>2, <2>2, <2>3, <2>4 DEF FetchOK
<1> QED
  BY <1>6, <1>8, <1>9, <1>11, <1>12 DEF Calm

(* The last answer counted closes the channel, and no earlier one does. *)
LEMMA CountCalm ==
  ASSUME TypeOK, HoldOK, Own, Calm, CountResponse
  PROVE  Calm'
<1>1. PICK c \in Call, s \in Other :
        /\ c = serving.call /\ s = serving.from /\ serving \in Hand
        /\ InHand(serving, c) = {s} /\ \A d \in Call \ {c} : InHand(serving, d) = {}
        /\ s \in Awaited(c) /\ ~closed[c]
        /\ s \notin Asked(todo, idOf[c]) \cup Answering(inbox, idOf[c])
  BY ServingFacts DEF CountResponse
<1>2. /\ UNCHANGED <<others, todo, inbox, used, requests, ackRequests, pc, idOf, sockets>>
      /\ UNCHANGED <<timedOut, buffer, crashed>> /\ serving' = None /\ serving.rest = <<>>
  BY DEF CountResponse, wire, ids, tables, calls
<1>3. /\ \A d \in Call \ {c} : msgCount'[d] = msgCount[d] /\ closed'[d] = closed[d]
      /\ msgCount'[c] = msgCount[c] + 1
      /\ closed'[c] => msgCount[c] + 1 = 1 + Cardinality(Other)
  BY <1>1 DEF CountResponse, ServerCount, TypeOK, Calm, FreshOK, Own
<1>4. \A d \in Call : InHand(serving', d) = {}
  BY <1>2 DEF InHand
<1>5. HandOK'
  BY <1>2 DEF HandOK
<1>6. FreshOK' /\ TableOK' /\ OnceOK'
  BY <1>2, SameFresh, SameOnce DEF Calm, TableOK
<1>7. Awaited(c)' = Awaited(c) \ {s}
  BY <1>1, <1>2, <1>4 DEF Awaited, Asked, Answering
<1>8. ASSUME NEW d \in Call, d # c PROVE FetchOK(d)'
  <2>1. Awaited(d)' = Awaited(d) /\ Collected(d)' = Collected(d) /\ FetchOK(d)
    BY <1>1, <1>2, <1>4, <1>8 DEF Awaited, Asked, Answering, Collected, Calm
  <2>2. CollectedOK(d) => CollectedOK(d)'
    BY <1>1, <1>4, <1>8, <2>1 DEF CollectedOK
  <2>3. CountOK(d)'
    BY <1>2, <1>3, <1>8, <2>1 DEF FetchOK, CountOK
  <2> QED
    BY <1>2, <1>3, <1>8, <2>1, <2>2, <2>3 DEF FetchOK
<1>9. FetchOK(c)'
  <2> DEFINE n == Cardinality(Other \ Awaited(c))
  <2>1. n \in Nat /\ Cardinality(Other) \in Nat /\ msgCount[c] \in Nat
    BY FoundAssumption, FS_Subset, FS_CardinalityType DEF TypeOK
  <2>2. Cardinality(Other \ Awaited(c)') = n + 1
    <3>1. IsFiniteSet(Other \ Awaited(c)) /\ s \notin Other \ Awaited(c)
      BY <1>1, FoundAssumption, FS_Subset
    <3>2. Other \ Awaited(c)' = (Other \ Awaited(c)) \cup {s}
      BY <1>1, <1>7
    <3> QED
      BY <3>1, <3>2, FS_AddElement
  <2>3. n + 1 <= Cardinality(Other)
        /\ (n + 1 = Cardinality(Other) => Other \ Awaited(c)' = Other)
    <3>1. Other \ Awaited(c)' \subseteq Other
      OBVIOUS
    <3> QED
      BY <2>2, <3>1, FoundAssumption, FS_Subset
  <2>4. pc[c] \in Open \cup Over /\ FetchOK(c)
    BY <1>1, <1>2, NoneAssumption DEF Calm, HandOK
  <2> HIDE DEF n
  <2>5. ASSUME closed'[c] PROVE Awaited(c)' = {}
    <3>1. msgCount[c] = Cardinality(Other)
      BY <1>3, <2>1, <2>5
    <3>2. CASE pc[c] \in Open
      <4>1. n + 1 = Cardinality(Other)
        BY <2>1, <2>4, <3>1, <3>2 DEF FetchOK, CountOK, n
      <4> QED
        BY <2>3, <4>1 DEF Awaited, Asked, Answering, InHand
    <3>3. CASE pc[c] \in Over
      BY <2>1, <2>3, <2>4, <3>1, <3>3 DEF FetchOK, CountOK, n
    <3> QED
      BY <2>4, <3>2, <3>3
  <2>6. CountOK(c)'
    <3>1. CASE pc[c] \in Open
      <4>1. msgCount'[c] = 1 + (n + 1)
        BY <1>3, <2>1, <2>4, <3>1 DEF FetchOK, CountOK, n
      <4> QED
        BY <1>2, <2>2, <2>5, <3>1, <4>1 DEF CountOK, Early, Open, Over
    <3>2. CASE pc[c] \in Over
      <4>1. msgCount'[c] <= n + 1
        BY <1>3, <2>1, <2>4, <3>2 DEF FetchOK, CountOK, n
      <4> QED
        BY <1>2, <2>2, <2>5, <3>2, <4>1 DEF CountOK, Early, Open, Over
    <3> QED
      BY <2>4, <3>1, <3>2
  <2>7. ASSUME pc[c] \in Open PROVE CollectedOK(c)'
    <3>1. CollectedOK(c) /\ Collected(c)' = Collected(c)
      BY <1>2, <2>4, <2>7 DEF FetchOK, Collected
    <3> QED
      BY <1>1, <1>2, <1>4, <1>7, <3>1, EmptyMember DEF CollectedOK
  <2>8. pc[c] = "recycle" => c \in timedOut
    BY <1>1, <2>4 DEF FetchOK
  <2> QED
    BY <1>2, <2>6, <2>7, <2>8 DEF FetchOK
<1> QED
  BY <1>2, <1>5, <1>6, <1>8, <1>9 DEF Calm

-----------------------------------------------------------------------------
LEMMA InitCalm ==
  Init => CalmInv
<1> SUFFICES ASSUME Init PROVE Calm
  BY InitInv DEF CalmInv, Init, Own
<1>1. /\ others = Other /\ todo = [s \in Other |-> <<>>] /\ inbox = <<>> /\ used = {}
      /\ requests = [i \in Id |-> None] /\ ackRequests = {} /\ pc = [c \in Call |-> "start"]
      /\ idOf = [c \in Call |-> None] /\ serving = None /\ crashed = FALSE
      /\ buffer = [c \in Call |-> <<>>] /\ msgCount = [c \in Call |-> 0]
      /\ closed = [c \in Call |-> FALSE] /\ sockets = [c \in Call |-> <<>>]
  BY DEF Init
<1>2. FreshOK /\ TableOK /\ HandOK
  BY <1>1, EmptyMember DEF FreshOK, TableOK, HandOK, Open
<1>3. Asked(todo, None) = {} /\ Answering(inbox, None) = {}
  BY <1>1, EmptyMember DEF Asked, Answering, AnswerIn
<1>4. OnceOK
  <2>1. DOMAIN inbox = {} /\ ToSet(inbox) = {} /\ \A i : Asked(todo, i) = {}
    BY <1>1, EmptyMember DEF Asked
  <2> QED
    BY <1>1, <2>1, EmptyMember DEF OnceOK, OneEach
<1>5. ASSUME NEW c \in Call PROVE FetchOK(c)
  <2>1. Awaited(c) = {}
    BY <1>1, <1>3 DEF Awaited, InHand
  <2> QED
    BY <1>1, <2>1 DEF FetchOK, CountOK, Early, Open, Over
<1> QED
  BY <1>1, <1>2, <1>4, <1>5 DEF Calm

LEMMA StepCalm ==
  CalmInv /\ [Next]_vars => CalmInv'
<1> SUFFICES ASSUME CalmInv, [Next]_vars PROVE CalmInv'
  OBVIOUS
<1>1. Inv' /\ (~shared' => Own')
  BY StepInv, StaysOwn DEF CalmInv
<1>2. CASE Next
  <2> SUFFICES ASSUME Undisturbed' PROVE Calm'
    BY <1>1 DEF CalmInv
  <2>1. TypeOK /\ HoldOK
    BY DEF CalmInv, Inv
  <2>2. Calm /\ Own /\ \A s \in Other : ~Change(s)
    BY <1>2, <2>1, StaysDisturbed DEF CalmInv, Undisturbed, Calm, FreshOK
  <2>3. ASSUME NEW c \in Call, Begin(c) \/ Continue(c) \/ Timeout(c) \/ EmitTimeout(c)
        PROVE  Calm'
    BY <1>2, <2>1, <2>2, <2>3, BeginCalm, ContinueCalm, PublishCalm DEF Continue
  <2>4. ASSUME NEW s \in Other, OnRequest(s) PROVE Calm'
    BY <2>1, <2>2, <2>4, AnswerCalm
  <2>5. ASSUME Subscriber PROVE Calm'
    BY <2>1, <2>2, <2>5, OwnCalm, ResponseCalm, EvalCalm, SendCalm, CountCalm DEF Subscriber
  <2> QED
    BY <1>2, <2>2, <2>3, <2>4, <2>5 DEF Next
<1>3. CASE UNCHANGED vars
  <2>1. /\ UNCHANGED <<others, todo, inbox, used, requests, ackRequests, pc, idOf, serving>>
        /\ UNCHANGED <<timedOut, sockets, buffer, msgCount, closed, crashed, reused, changes,
                       shared>>
    BY <1>3 DEF vars, wire, ids, tables, calls, channels
  <2> SUFFICES ASSUME Undisturbed' PROVE Calm'
    BY <1>1 DEF CalmInv
  <2>2. Calm
    BY <2>1 DEF CalmInv, Undisturbed
  <2>3. FreshOK' /\ TableOK' /\ OnceOK' /\ HandOK'
    BY <2>1, <2>2, SameFresh, SameOnce, SameHand DEF Calm, TableOK, HandOK
  <2>4. ASSUME NEW d \in Call PROVE FetchOK(d)'
    BY <2>1, <2>2, SameAwaited, SameFetch DEF Calm
  <2> QED
    BY <2>1, <2>2, <2>3, <2>4 DEF Calm
<1> QED
  BY <1>2, <1>3

(* Undisturbed, a fetch that ends because its channel was closed has collected  *)
(* every socket of the other servers, each once, for any number of servers and   *)
(* sockets and in any order of the answers.                                     *)
THEOREM ClosedIsComplete ==
  Spec => []CompleteWhenClosed
<1>1. CalmInv => CompleteWhenClosed
  <2> SUFFICES ASSUME CalmInv, NEW c \in Call, pc[c] = "recycle", c \notin timedOut, Undisturbed,
                      NEW s \in others, NEW k \in Socket, k \in ToSet(Found[s])
               PROVE  Cardinality({i \in DOMAIN sockets[c] : sockets[c][i] = k}) = 1
    BY DEF CompleteWhenClosed
  <2>1. closed[c] /\ buffer[c] = <<>> /\ Awaited(c) = {} /\ CollectedOK(c) /\ s \in Other
    BY DEF CalmInv, Calm, FetchOK, CountOK, Open, FreshOK
  <2>2. Collected(c) = sockets[c]
    BY <2>1 DEF CalmInv, Inv, TypeOK, Collected
  <2>3. IsInjective(sockets[c]) /\ k \in ToSet(sockets[c])
    BY <2>1, <2>2 DEF CollectedOK
  <2>4. PICK i \in DOMAIN sockets[c] : sockets[c][i] = k
    BY <2>3 DEF ToSet
  <2>5. {j \in DOMAIN sockets[c] : sockets[c][j] = k} = {i}
    BY <2>3, <2>4 DEF IsInjective
  <2> QED
    BY <2>5, FS_Singleton
<1> QED
  BY <1>1, InitCalm, StepCalm, PTL DEF Spec

(* Undisturbed, onresponse never sends on a channel that it closed: it closes one *)
(* only when nobody is awaited, so that no answer with a socket can follow, also   *)
(* when the fetch has timed out and Recycle has set its count back.               *)
THEOREM SendsOnOpen ==
  Spec => []NoSendOnClosed
<1>1. CalmInv => NoSendOnClosed
  BY DEF CalmInv, Calm, NoSendOnClosed
<1> QED
  BY <1>1, InitCalm, StepCalm, PTL DEF Spec
===============================================================================
