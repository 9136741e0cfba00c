------------------------------ MODULE RedisFetch ------------------------------
(***************************************************************************)
(* FetchSockets over Redis (redis.go): a server asks the others for their  *)
(* sockets and collects the answers until they have all come or the        *)
(* request times out.  Request ids come from a pool (RequestIdPool) and go *)
(* back to it, ServerSideEmit and BroadcastWithAck use ids of the same     *)
(* pool.  The requests themselves come from a pool too (HandMessagePool):  *)
(* one that its fetch has recycled may become the request of the next      *)
(* while the subscriber is still working on it.                            *)
(*                                                                         *)
(* The asking server has its calls, each in a goroutine of its own, and    *)
(* the goroutine that takes messages from Redis one by one (run) and gives *)
(* the answers to the calls, through channels that hold one value.  The    *)
(* other servers answer what reaches them.                                 *)
(***************************************************************************)
EXTENDS Naturals, Sequences, FiniteSets, SequencesExt

CONSTANTS
  Call,      \* the calls of the asking server, 1 .. N in the order they begin
  Id,        \* request ids, 1 .. M in the order they are made
  Other,     \* the other servers
  Socket,    \* the sockets of the other servers
  Found,     \* server -> its sockets that match, in the order it sends them
  MaxChanges, \* bound on the servers that go, and may come back, or lose a request, and on the
              \* request that is given to another fetch while in use, together
  None

ASSUME CallAssumption ==
  /\ IsFiniteSet(Call) /\ Call = 1 .. Cardinality(Call)
  /\ IsFiniteSet(Id) /\ Id = 1 .. Cardinality(Id)
\* A socket lives on one server, which lists it once.
ASSUME FoundAssumption ==
  /\ IsFiniteSet(Other) /\ Found \in [Other -> Seq(Socket)]
  /\ \A s, t \in Other : \A i \in DOMAIN Found[s], j \in DOMAIN Found[t] :
       Found[s][i] = Found[t][j] => s = t /\ i = j
ASSUME BoundAssumption == MaxChanges \in Nat

\* What the subscriber is doing: it gives the sockets of an answer to a call, to
\* the channel that it has evaluated; from is history, the server that answered.
\* It holds the request of the call, or what this has become since: user.
Hand == [call : Call, from : {None} \cup Other, rest : Seq(Socket),
         chan : {None, "mesChan", "spare"}]

ASSUME NoneAssumption ==
  None \notin Id \cup Call \cup Other \cup Hand \cup {"mesChan", "spare"}

VARIABLES
  others,    \* the other servers that are subscribed
  todo,      \* server -> the requests under way to it
  inbox,     \* the messages under way to the asking server; from is history
  pool,      \* RequestIdPool: how often an id is in it
  requests,  \* requests: id -> call, or None
  ackRequests, \* ackRequests: the ids in it
  pc,        \* call -> where its goroutine is
  idOf,      \* call -> its id, or None
  buffer,    \* call -> what its channel holds
  msgCount,  \* call -> the servers counted
  closed,    \* call -> CloseFlag: its channel is closed
  sockets,   \* call -> the sockets collected, until f has returned
  serving,   \* what the subscriber is doing, or None
  spare,     \* call -> the channel Recycle gave the request holds a value
  user,      \* call -> the call that has its request now
  crashed,   \* a send on a closed channel ended the process
  used,      \* history: the ids taken from the pool so far
  reused,    \* history: an id was taken a second time
  emitted,   \* history: a ServerSideEmit put its id back twice
  changes,   \* history: how often servers went or lost a request
  shared,    \* history: a fetch was given a request that was still in use
  timedOut   \* history: the fetches that timed out

wire == <<others, todo, inbox, changes>>
ids == <<pool, used, reused, emitted>>
tables == <<requests, ackRequests>>
calls == <<pc, idOf, sockets, timedOut>>
channels == <<buffer, msgCount, closed, spare, user, shared>>
vars == <<wire, ids, tables, calls, channels, serving, crashed>>

TypeOK ==
  /\ others \subseteq Other /\ todo \in [Other -> Seq(Id)]
  /\ inbox \in Seq([type : {"request", "response"}, id : Id, from : {None} \cup Other,
                     sockets : Seq(Socket)])
  /\ pool \in [Id -> Nat] /\ used \subseteq Id /\ reused \in BOOLEAN /\ emitted \in BOOLEAN
  /\ requests \in [Id -> {None} \cup Call] /\ ackRequests \subseteq Id
  /\ pc \in [Call -> {"start", "store", "publish", "failed", "read", "recycle",
                      "delete", "put", "emit", "done"}]
  /\ idOf \in [Call -> {None} \cup Id]
  /\ buffer \in [Call -> Seq(Socket)] /\ \A c \in Call : Len(buffer[c]) <= 1
  /\ msgCount \in [Call -> Nat] /\ closed \in [Call -> BOOLEAN]
  /\ sockets \in [Call -> Seq(Socket)]
  /\ serving = None \/ serving \in Hand
  /\ spare \in [Call -> BOOLEAN] /\ crashed \in BOOLEAN
  /\ user \in [Call -> Call] /\ shared \in BOOLEAN
  /\ changes \in 0 .. MaxChanges /\ timedOut \subseteq Call

Init ==
  /\ others = Other /\ todo = [s \in Other |-> <<>>] /\ inbox = <<>>
  /\ pool = [i \in Id |-> 0] /\ used = {} /\ reused = FALSE /\ emitted = FALSE
  /\ requests = [i \in Id |-> None] /\ ackRequests = {}
  /\ pc = [c \in Call |-> "start"] /\ idOf = [c \in Call |-> None]
  /\ buffer = [c \in Call |-> <<>>] /\ msgCount = [c \in Call |-> 0]
  /\ closed = [c \in Call |-> FALSE] /\ sockets = [c \in Call |-> <<>>]
  /\ serving = None /\ spare = [c \in Call |-> FALSE] /\ crashed = FALSE
  /\ user = [c \in Call |-> c] /\ shared = FALSE
  /\ changes = 0 /\ timedOut = {}

ServerCount == 1 + Cardinality(others)

Goto(c, label) == pc' = [pc EXCEPT ![c] = label]

(***************************************************************************)
(* The pool of request ids.  sync.Pool may forget what it holds: Get       *)
(* answers an id of the pool, or a new one.                                *)
(***************************************************************************)
IsNew(i) == used = 1 .. i - 1

GetId(i) ==
  \/ /\ pool[i] > 0
     /\ pool' = [pool EXCEPT ![i] = @ - 1] /\ reused' = TRUE /\ UNCHANGED used
  \/ /\ IsNew(i)
     /\ used' = used \cup {i} /\ UNCHANGED <<pool, reused>>

(***************************************************************************)
(* FetchSockets and the function it returns.  (With the local flag, or     *)
(* alone, a server asks nobody.)                                           *)
(***************************************************************************)
\* A bug: the deferred Put is that of FetchSockets, not of what it returns.
FetchSockets_PutsId(c) ==
  /\ pc[c] = "start"
  /\ IF ServerCount <= 1
       THEN Goto(c, "done") /\ UNCHANGED <<pool, used, reused, idOf>>
       ELSE \E i \in Id : /\ IsNew(i) \/ pool[i] > 0
                          /\ used' = used \cup {i}
                          /\ reused' = (reused \/ i \in used)
                          /\ pool' = [pool EXCEPT ![i] = 1]
                          /\ idOf' = [idOf EXCEPT ![c] = i] /\ Goto(c, "store")
  /\ UNCHANGED <<wire, emitted, tables, sockets, timedOut, channels, serving, crashed>>

FetchSockets(c) ==
  /\ pc[c] = "start"
  /\ IF ServerCount <= 1
       THEN Goto(c, "done") /\ UNCHANGED <<pool, used, reused, idOf>>
       ELSE \E i \in Id : /\ GetId(i)
                          /\ idOf' = [idOf EXCEPT ![c] = i] /\ Goto(c, "store")
  /\ UNCHANGED <<wire, emitted, tables, sockets, timedOut, channels, serving, crashed>>

Recycled(d) == pc[d] \in {"delete", "put", "done"}

\* The request that d has recycled is still in requests, or in the subscriber's
\* hand.
InUse(d) == Recycled(d) /\ \E c \in Call :
  user[c] = d /\ (pc[c] = "delete" \/ (serving # None /\ serving.call = c))

\* HandMessagePool.Get: a new request, or one that was recycled; only what is
\* still in use differs from a new one.
GetRequest(c) ==
  \/ UNCHANGED <<user, shared>>
  \/ \E d \in Call :
       /\ InUse(d) /\ changes < MaxChanges
       /\ user' = [x \in Call |-> IF user[x] = d THEN c ELSE user[x]]
       /\ shared' = TRUE

\* A bug: the caller is counted twice.
StoreRequest_Twice(c) ==
  /\ pc[c] = "store" /\ Goto(c, "publish")
  /\ GetRequest(c)
  /\ requests' = [requests EXCEPT ![idOf[c]] = c]
  /\ msgCount' = [msgCount EXCEPT ![c] = 2]
  /\ UNCHANGED <<wire, ids, ackRequests, idOf, sockets, timedOut, buffer, closed, spare,
                 serving, crashed>>

StoreRequest(c) ==
  /\ pc[c] = "store" /\ Goto(c, "publish")
  /\ GetRequest(c)
  /\ requests' = [requests EXCEPT ![idOf[c]] = c]
  /\ msgCount' = [msgCount EXCEPT ![c] = 1]
  /\ UNCHANGED <<wire, ids, ackRequests, idOf, sockets, timedOut, buffer, closed, spare,
                 serving, crashed>>

PublishRequest(c) ==
  /\ pc[c] = "publish" /\ Goto(c, "read")
  /\ todo' = [s \in Other |-> IF s \in others THEN Append(todo[s], idOf[c]) ELSE todo[s]]
  /\ inbox' = Append(inbox, [type |-> "request", id |-> idOf[c], from |-> None,
                              sockets |-> <<>>])
  /\ UNCHANGED <<others, changes, ids, tables, idOf, sockets, timedOut, channels, serving,
                 crashed>>

\* Redis answers with an error.  (When the request has gone out all the same, that
\* is like a timeout at once.)
PublishFails(c) ==
  /\ pc[c] = "publish" /\ Goto(c, "failed")
  /\ UNCHANGED <<wire, ids, tables, idOf, sockets, timedOut, channels, serving, crashed>>

Receive(c) ==
  /\ pc[c] = "read" /\ buffer[c] # <<>>
  /\ sockets' = [sockets EXCEPT ![c] = @ \o buffer[c]]
  /\ buffer' = [buffer EXCEPT ![c] = <<>>]
  /\ UNCHANGED <<wire, ids, tables, pc, idOf, timedOut, msgCount, closed, spare, user, shared,
                 serving, crashed>>

ReceiveClosed(c) ==
  /\ pc[c] = "read" /\ buffer[c] = <<>> /\ closed[c]
  /\ Goto(c, "recycle")
  /\ UNCHANGED <<wire, ids, tables, idOf, sockets, timedOut, channels, serving, crashed>>

\* A bug: only a fetch that nobody has answered times out.
Timeout_Unanswered(c) ==
  /\ pc[c] = "read" /\ msgCount[c] = 1 /\ Goto(c, "recycle")
  /\ timedOut' = timedOut \cup {c}
  /\ UNCHANGED <<wire, ids, tables, idOf, sockets, channels, serving, crashed>>

Timeout(c) ==
  /\ pc[c] = "read" /\ Goto(c, "recycle")
  /\ timedOut' = timedOut \cup {c}
  /\ UNCHANGED <<wire, ids, tables, idOf, sockets, channels, serving, crashed>>

\* Once f has returned, the sockets are the user's and the deferred calls are made.
\* The request gets a new channel and goes to the pool: GetRequest.
Recycle(c) ==
  /\ pc[c] \in {"failed", "recycle"} /\ Goto(c, "delete")
  /\ msgCount' = [msgCount EXCEPT ![c] = 0]
  /\ sockets' = [sockets EXCEPT ![c] = <<>>]
  /\ UNCHANGED <<wire, ids, tables, idOf, timedOut, buffer, closed, spare, user, shared,
                 serving, crashed>>

DeleteRequest(c) ==
  /\ pc[c] = "delete" /\ Goto(c, "put")
  /\ requests' = [requests EXCEPT ![idOf[c]] = None]
  /\ UNCHANGED <<wire, ids, ackRequests, idOf, sockets, timedOut, channels, serving,
                 crashed>>

PutId(c) ==
  /\ pc[c] = "put" /\ Goto(c, "done")
  /\ pool' = [pool EXCEPT ![idOf[c]] = @ + 1]
  /\ UNCHANGED <<wire, used, reused, emitted, tables, idOf, sockets, timedOut, channels,
                 serving, crashed>>

(***************************************************************************)
(* The other users of the pool                                             *)
(***************************************************************************)
\* ServerSideEmit with a callback: the request cannot be marshalled with the
\* callback in it and is not sent.
ServerSideEmit(c) ==
  /\ pc[c] = "start" /\ ServerCount > 1 /\ Goto(c, "emit")
  /\ \E i \in Id : /\ GetId(i)
                   /\ idOf' = [idOf EXCEPT ![c] = i]
                   /\ requests' = [requests EXCEPT ![i] = c]
  /\ UNCHANGED <<wire, emitted, ackRequests, sockets, timedOut, channels, serving, crashed>>

\* It times out; both deferred functions put the id back.
EmitTimeout(c) ==
  /\ pc[c] = "emit" /\ Goto(c, "done")
  /\ requests' = [requests EXCEPT ![idOf[c]] = None]
  /\ pool' = [pool EXCEPT ![idOf[c]] = @ + 2]
  /\ emitted' = TRUE
  /\ UNCHANGED <<wire, used, reused, ackRequests, idOf, sockets, timedOut, channels, serving,
                 crashed>>

\* BroadcastWithAck leaves its id in ackRequests and puts it back.
BroadcastWithAck(c) ==
  /\ pc[c] = "start" /\ Goto(c, "done")
  /\ \E i \in Id : /\ IsNew(i) \/ pool[i] > 0
                   /\ reused' = (reused \/ i \in used)
                   /\ used' = used \cup {i}
                   /\ pool' = [pool EXCEPT ![i] = IF i \in used THEN @ ELSE @ + 1]
                   /\ ackRequests' = ackRequests \cup {i}
  /\ UNCHANGED <<wire, emitted, requests, idOf, sockets, timedOut, channels, serving,
                 crashed>>

(***************************************************************************)
(* The other servers                                                       *)
(***************************************************************************)
Answer(id, s, found) ==
  Append(inbox, [type |-> "response", id |-> id, from |-> s, sockets |-> found])

OnRequest(s) ==
  /\ todo[s] # <<>>
  /\ inbox' = Answer(Head(todo[s]), s, Found[s])
  /\ todo' = [todo EXCEPT ![s] = Tail(@)]
  /\ UNCHANGED <<others, changes, ids, tables, calls, channels, serving, crashed>>

Change(s) ==
  /\ \/ /\ s \notin others /\ others' = others \cup {s}
        /\ UNCHANGED <<todo, changes>>
     \/ /\ changes + (IF shared THEN 1 ELSE 0) < MaxChanges /\ changes' = changes + 1
        /\ \/ s \in others /\ others' = others \ {s} /\ UNCHANGED todo
           \/ todo[s] # <<>> /\ todo' = [todo EXCEPT ![s] = <<>>] /\ UNCHANGED others
  /\ UNCHANGED <<inbox, ids, tables, calls, channels, serving, crashed>>

(***************************************************************************)
(* The subscriber                                                          *)
(***************************************************************************)
\* Its own request comes back: it answers it only if the call is over.
OnOwnRequest ==
  /\ serving = None /\ inbox # <<>> /\ Head(inbox).type = "request"
  /\ inbox' = Tail(inbox) \o
       IF requests[Head(inbox).id] # None THEN <<>>
       ELSE <<[type |-> "response", id |-> Head(inbox).id, from |-> None,
               sockets |-> <<>>]>>
  /\ UNCHANGED <<others, todo, changes, ids, tables, calls, channels, serving, crashed>>

\* onresponse finds the request, if the id is not one of ackRequests; recycled, it
\* has no type.  (What a ServerSideEmit that has got the id of an older fetch
\* would get is left out, and what a recycled request that has become anything
\* but the request of another fetch does: no fetch reads its channel or count.)
OnResponse ==
  LET response == Head(inbox) IN
  /\ serving = None /\ inbox # <<>> /\ response.type = "response"
  /\ inbox' = Tail(inbox)
  /\ LET c == requests[response.id] IN
       serving' = IF \/ response.id \in ackRequests \/ c = None
                     \/ pc[c] = "emit" \/ Recycled(user[c])
                    THEN None
                    ELSE [call |-> c, from |-> response.from, rest |-> response.sockets,
                          chan |-> None]
  /\ UNCHANGED <<others, todo, changes, ids, tables, calls, channels, crashed>>

\* It evaluates request.Channal, which Recycle replaces, and StoreRequest again.
EvalChannel ==
  /\ serving # None /\ serving.rest # <<>> /\ serving.chan = None
  /\ LET c == user[serving.call] IN
       serving' = [serving EXCEPT !.call = c,
                                  !.chan = IF Recycled(c) THEN "spare" ELSE "mesChan"]
  /\ UNCHANGED <<wire, ids, tables, calls, channels, crashed>>

\* It sends, once the channel has room; the process ends if it is closed.
SendSocket ==
  /\ serving # None /\ serving.rest # <<>>
  /\ LET c == serving.call IN
       \/ /\ serving.chan = "mesChan" /\ ~closed[c] /\ buffer[c] = <<>>
          /\ buffer' = [buffer EXCEPT ![c] = <<Head(serving.rest)>>]
          /\ UNCHANGED <<spare, crashed>>
       \/ /\ serving.chan = "spare" /\ ~spare[c]
          /\ spare' = [spare EXCEPT ![c] = TRUE]
          /\ UNCHANGED <<buffer, crashed>>
       \/ /\ serving.chan = "mesChan" /\ closed[c]
          /\ crashed' = TRUE
          /\ UNCHANGED <<buffer, spare>>
  /\ serving' = [serving EXCEPT !.rest = Tail(@), !.chan = None]
  /\ UNCHANGED <<wire, ids, tables, calls, msgCount, closed, user, shared>>

\* A bug: the asking server is not one of those counted.
CountResponse_OthersOnly ==
  /\ serving # None /\ serving.rest = <<>>
  /\ LET c == user[serving.call] IN
       /\ msgCount' = [msgCount EXCEPT ![c] = @ + 1]
       /\ closed' = [closed EXCEPT ![c] = @ \/ msgCount[c] = Cardinality(others) - 1]
  /\ serving' = None
  /\ UNCHANGED <<wire, ids, tables, calls, buffer, spare, user, shared, crashed>>

CountResponse ==
  /\ serving # None /\ serving.rest = <<>>
  /\ LET c == user[serving.call] IN
       /\ msgCount' = [msgCount EXCEPT ![c] = @ + 1]
       /\ closed' = [closed EXCEPT ![c] = @ \/ msgCount[c] + 1 = ServerCount]
  /\ serving' = None
  /\ UNCHANGED <<wire, ids, tables, calls, buffer, spare, user, shared, crashed>>

Begin(c) == (c > 1 => pc[c - 1] # "start") /\
  (FetchSockets(c) \/ ServerSideEmit(c) \/ BroadcastWithAck(c))

Continue(c) ==
  \/ StoreRequest(c) \/ PublishRequest(c) \/ PublishFails(c)
  \/ Receive(c) \/ ReceiveClosed(c)
  \/ Recycle(c) \/ DeleteRequest(c) \/ PutId(c)

Subscriber == OnOwnRequest \/ OnResponse \/ EvalChannel \/ SendSocket \/ CountResponse

Next == ~crashed /\
  \/ \E c \in Call : Begin(c) \/ Continue(c) \/ Timeout(c) \/ EmitTimeout(c)
  \/ \E s \in Other : OnRequest(s) \/ Change(s)
  \/ Subscriber

Fairness ==
  /\ \A c \in Call : WF_vars(~crashed /\ (Continue(c) \/ Timeout(c)))
  /\ WF_vars(~crashed /\ Subscriber)

Spec == Init /\ [][Next]_vars /\ Fairness

(***************************************************************************)
(* Properties                                                              *)
(***************************************************************************)
Fetching(c) == pc[c] \in {"store", "publish", "failed", "read", "recycle", "delete", "put"}

\* No id was used twice, no request was given to another fetch while in use, and
\* no server came, went or lost its request.
Undisturbed == ~reused /\ ~shared /\ changes = 0

\* A fetch that ends because its channel was closed, and not by an error or the
\* timeout, has collected every socket of the other servers once, as long as
\* nothing disturbs it.
CompleteWhenClosed ==
  \A c \in Call :
    pc[c] = "recycle" /\ c \notin timedOut /\ Undisturbed =>
      \A s \in others, k \in Socket : k \in ToSet(Found[s]) =>
        Cardinality({i \in DOMAIN sockets[c] : sockets[c][i] = k}) = 1

\* Under the same conditions onresponse never sends on a closed channel, which
\* would end the process: the last server closes it.
NoSendOnClosed == crashed => ~Undisturbed

\* Two calls never use one id at a time, unless a ServerSideEmit was made: it puts
\* its id back twice.
IdsAreNotShared ==
  \A c, d \in Call :
    c # d /\ Fetching(c) /\ pc[d] # "done" /\ idOf[c] = idOf[d] => emitted

\* Every fetch ends, whatever the other servers do: by its timeout if not before,
\* even if another fetch has its request.  (A call fetches once.)
FetchReturns == <>[](crashed \/ \A c \in Call : ~Fetching(c))

\* The subscriber never blocks for ever on a channel, unless a fetch timed out or
\* was disturbed: then nobody reads the channel any more.
SubscriberServes ==
  []<>(serving = None \/ timedOut # {} \/ ~Undisturbed \/ crashed)
===============================================================================
