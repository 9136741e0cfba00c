# A TLA+ model of socket.io_go

socket.io_go is a Socket.IO server in Go. The JavaScript original runs its
callbacks one at a time; this port runs them in goroutines, over concurrent
maps and sets that make single operations atomic and nothing larger. Most of
what can go wrong in it is therefore an interleaving, and that is what these
modules are about: each access to shared state is a step of the goroutine that
makes it.

## The system

| Part | State | Operations | Talks to |
|---|---|---|---|
| In-memory adapter (`socket/adapter.go`) | `rooms`, `sids`: concurrent maps to concurrent sets | `AddAll`, `Del`, `DelAll`, `broadcast`, `BroadcastWithAck`, `FetchSockets`, `AddSockets`, `DelSockets`, `DisconnectSockets` | called by sockets and broadcast operators; calls sockets back |
| Client (`socket/client.go`) | the engine connection, `sockets`, `nsps`, connect timer | `ondecoded`, `connect`, `doConnect`, `remove`, `close`, `_disconnect`, `onclose` | engine (data, close, error events), namespaces, sockets |
| Namespace (`socket/namespace.go`) | `sockets`, middlewares, ack ids | `Add`, `run`, `_createSocket`, `_doConnect`, `remove`; everything else forwards to a broadcast operator | clients, sockets, adapter |
| Socket (`socket/socket.go`) | `connected`, `canJoin`, `acks`, `flags`, middlewares | `Join`, `Leave`, `Emit`, `_onconnect`, `_onpacket`, `onack`, `_onclose`, `Disconnect` | client, namespace, adapter, the user's handlers |
| Broadcast operator (`socket/broadcast-operator.go`) | rooms, excepted rooms, flags; per acknowledged broadcast: responses, counters, timer | `Emit`, `FetchSockets`, `SocketsJoin`, `SocketsLeave`, `DisconnectSockets` | adapter |
| Session-aware adapter (`socket/session-aware-adapter.go`) | `sessions`, log of `packets` | `PersistSession`, `RestoreSession`, `broadcast`, a clean-up every minute | the in-memory adapter, sockets |
| Redis adapter (`adapter/redis`) | an in-memory adapter, `requests`, `ackRequests`, object pools, one subscriber goroutine | cluster-wide versions of the adapter's operations, `onmessage`, `onrequest`, `onresponse` | Redis pub/sub, the other servers |
| Server, parent namespaces (`socket/server.go`, `socket/parent-namespace.go`) | `_nsps`, parent namespaces, children | `Of`, `_checkNamespace`, `CreateChild`, `Close` | engine, namespaces |

What is hard in it: goroutines for each CONNECT (`Namespace.run`), each packet
(`go socket._onpacket`), each dispatched event, each timer and each transport
event, all on one client's tables; closes that come from the client, the
transport, a timer and the server's code at once; an adapter that reads while
others join and leave; acknowledgements that race their timeout; sessions
restored while the old socket is still closing; and a cluster that loses,
delays and reuses requests.

What makes each part correct:

* adapter: the two maps agree; no empty room is kept; a closed socket is in no
  room; a broadcast reaches each socket at most once, the stable members of its
  rooms exactly once and no excepted one.
* client, namespace, socket: every connected socket is tracked, no dead one is;
  whatever the client held when its transport closed is disconnected; a client
  without a namespace is closed; events reach the user once and in order.
* acknowledgements: a callback is called once, with an answer or the timeout.
* session recovery: the restored session has the rooms and exactly the missed
  packets; sessions and packets expire.
* Redis adapter: an operation has the effect on the cluster that the in-memory
  one has on one server; a response reaches the request it answers; a late one
  does no harm.
* namespaces: one namespace per name, one child per name, and no child removed
  under a connecting socket.

## Plan

In this order, each module with its runs and theorems; all eight are done.

1. `RoomMembership`, implementing `RoomRelation`.
2. `Connection`.
3. `RoomBroadcast`: `apply` against members that join and leave meanwhile.
4. `SocketAck`, `BroadcastAck`: acknowledgements, timeouts, counting.
5. `SessionRecovery`: persist, log, clean-up, restore.
6. `RedisCluster` and `RedisFetch`: channels, remote operations, requests with
   pooled ids, the subscriber goroutine.
7. `Namespaces`: `Of`, `_checkNamespace`, `CreateChild`, clean-up of children.
8. `EventDispatch`: packets, middlewares and events of one socket, and the
   answers it gives, while it closes.

Every invariant and action property that a run checks is a theorem by now; only
liveness is left to TLC.

## Modules

### RoomMembership, RoomRelation

`sids` and `rooms` map keys to the addresses of set objects, whose contents are
`roomsOf` and `idsIn`: a goroutine that loaded a set goes on using it after the
map dropped it, which is the point of the races here. `frame[g]` is what
goroutine `g` holds in local variables. The actions follow the code access by
access: `CheckCanJoin`, `LoadOrStoreOwn`, `AddRoom`, `LoadOrStoreRoom`, `AddId`
are `Socket.Join` and `AddAll`; `LoadOwn`, `DeleteRoom` and `Keys`, `NextRoom`,
`ForgetSid`, `ForbidJoin` are `Del` and `_cleanup`/`DelAll`; `LoadRoom`,
`DeleteId`, `CheckLen`, `DropRoom` are `_del`. A new object takes the lowest
address that no map and no goroutine holds, as a garbage collector may reuse
it. Any goroutine may call anything for any socket at any time: nothing in the
code serialises the calls. `crossed` and `contended` are history: the sockets
that one goroutine was adding to rooms while another took them out of some, and
the rooms that one was entering while another was leaving them.

`RoomRelation` is what a user of rooms thinks of: a relation between sockets
and rooms that only a socket's own calls change, one pair at a time, until the
socket is shut out. What the adapter does not keep is in it too: a contended
room may lose its members (`Lose`), and a crossed socket may enter rooms after
it was shut out.

* `rooms`: two goroutines, two sockets, two rooms, all interleavings:
  `NoEmptyRoomLeft`, `NoGhostMember`, `CleanedUpIsNowhere`, `ListedIsMember` and
  the refinement `ImplementsRelation`. All five are proved for any number of
  goroutines, sockets and rooms.

Two goroutines are enough for each pair of racing accesses. The constraint
`FewOverlaps` follows an execution until a second socket or room is crossed or
contended, so that the run sees each kind of overlap, and what comes after it, but
not two of them together; the proofs have no such bound. The view `View` and the
symmetry only identify states that differ in unreachable objects or in names.

### Connection

One `Client` with the sockets its CONNECT packets create. `pc[s]` is the
goroutine in which `Namespace.Add` continues for socket `s` (`ConnectPacket` to
`Announce`, in the order of `Add`, `_doConnect`, `_onconnect` and the callback
of `doConnect`). A worker is any other goroutine: the transport's close event
(`TransportClose`), the connect timer (`TimerFires`), a packet in an invalid
state (`InvalidState`), a DISCONNECT packet, `Socket.Disconnect`,
`Server.Close`. `work[w]` holds its step, the `Range` it is in and the socket
it closes; `Check` to `Disconnect` are `Socket._onclose`. `Closers` says who
closes besides the transport. A `Range` visits the keys present when it starts
unless they were deleted since; the engine connection and its events are
modelled from their use.

* `connection_client`: two sockets of one namespace, one of them restored from
  a session, two workers, client and transport closing: `DeadIsInNoRoom`,
  `RouteIsLive`, proved for any number of each.
* `connection_closers`: one socket, two workers, everybody closing:
  `ConnectedIsTracked`, `TrackedIsConnected`, which are also proved for every
  size, and `StoredIsDisconnected`, `IdleClientIsClosed`. Fairness: a goroutine
  that can run does run (the Go scheduler), a timer that is armed fires, an
  engine connection whose `Close` was called closes. No fairness is assumed of
  clients, of an open transport or of middlewares.

Bounds: two sockets of one namespace share all tables, those of different ones
only the client's; two workers suffice for two closes that race; a third that
comes late is in the proof.

### RoomBroadcast

One call of `apply` (`walk` is its options and local variables): the excepted
rooms one by one (`ExceptRoom`), then each target room (`NextRoom` copies its
keys), each socket found (`Skip`, `Load`) and the `Callback`, which for
`AddSockets`, `DelSockets` and `DisconnectSockets` changes the rooms it is going
through. Without rooms the walk is a `Range` over `sids`, which looks at each
key at some moment of its own. Between any two steps other goroutines track,
move, clean up and remove sockets. A room is a set here; its own races are those
of `RoomMembership`. `kept` and `seen` are history: the memberships that held all
through the call, and at any time of it; a property cannot be about "the members"
of a room, since they change during the call. `Selection` states what the callers
of `apply` rely on, without the steps, for the run and for the proofs.

* `broadcast_rooms`: two sockets, two rooms, all options: `NotifiedOnce`,
  `StableMembersNotified`, `ExceptRespected`. Two rooms let a socket move between a
  room already read and one not yet read, be in both, and be excepted by one. They
  are proved for every size, and so is `OnlyMembersNotified`.

### SocketAck

The acknowledgements of one socket's `Emit`. An emission `a` goes through
`Timeout`, `ReadTimeout`, `ArmTimer`, `StoreAck`, `ResetFlags`, `Send`, in the
goroutine of its emitter; its timer through `FireTimer`, `ForgetAck`,
`CallTimedOut`; its answer through `LoadAck`, `ClearTimer`, `CallAnswered`,
`RemoveAck`. `acks` and the flags are the socket's, so that emitters share them,
and a timeout asked for by one may be taken by another; an `Emit` of a reserved
event returns before it touches the flags, so that in the model it is no step.
`early` is history: the timers that went off before their `Emit` was over.

* `ack_emitter`: two emitters, two ids: `AnsweredIsDisarmed`, `ExpiredIsForgotten`,
  `TimedEmitCompletes`. Two ids let a timeout be taken by the other emission and an
  old timer meet a new one. More emitters and ids are in the proofs. Fairness:
  goroutines run and timers go off; a client need not answer.

### BroadcastAck

One acknowledged broadcast: the goroutine of `BroadcastOperator.Emit`, the timer,
a goroutine for each local client's answer, and the one subscriber goroutine that
serves the other servers' responses (`SubscriberFree`). The callback for counts is
`AddClients`, `AddServer`; the one for answers `AppendResponse`; both go on with
`checkCompleteness`, test by test (`CheckTimedOut` to `Complete`), under the read
lock of `responsesMu`: `Unlocked` is what a writer waits for. Another server
serves the request in `RemoteBroadcast`, and its handler returns in `Recycle`:
from then on the closure that sends the answers on may find the request's id
erased, or written anew by whoever uses the pooled object, so an `Answer` may be
`"lost"` to this broadcast and counted for another. The id itself goes back to its
pool when the local broadcast is over, so that counts and answers still under way
may be taken by the next broadcast that gets it (`Divert`), and this one may get
those of the last (`StrayArrives`, the processes `Stray`): a stray count adds a
number of clients, a stray answer one response. `extra` and `miscounted` are
history: the responses beyond one for each client that answered, and whether a
stray count was added. `Completions` states what the calls of the user's callback
mean.

* `ackcast_two_servers`: `CompleteMeansAll`, also proved for every size: a call
  without an error lacks the answers of exactly as many clients as there are
  responses that stand for nobody, be they strays or second arguments, unless a
  stray count was added; `AlwaysCalled`; `AnsweredCompletes`, which supposes that
  nothing is lost and nothing comes astray. Fairness: goroutines, among them
  writers waiting for the lock, and a timer that went off; none of clients and
  servers, and none that makes the timer go off, so that a completion is not the
  timer's merit.

One client on each of two servers and one stray let a count arrive before and
after the answers of either server and of another broadcast. One broadcast is
modelled; what it does to others is what `Stray` does to it. `ExpectSingleResponse`
changes what the callback is given, and is left out.

### SessionRecovery

One client that loses its connections and opens new ones. `pc[k]` is the
goroutine of connection `k`: `Load`, `Restore` or `OffsetNotFound`, `Fresh`,
`DoConnect` or `Abandon` are `RestoreSession`, `NewSocket` and `_doConnect`;
`PersistSession`, `Cleanup`, `Untrack` are `_onclose` of a socket whose
connection broke. `Store` and `Deliver` are `broadcast`, which holds `mu_packets`
from one to the other; `IntervalTest`, `IntervalDelete` and `IntervalDrop` are the
clean-up, which deletes an expired session by its id after it has looked at it, as
`RestoreSession` does (`DeleteSession`): a session persisted in between goes
instead (`crossed`, history). A socket's ids are those of the
connection it was born with (`born`), so that a restored socket is found by the
rooms of the old one, and the old one's clean-up hits it. The client (`Open`,
`Welcome`, `Receive`, `Lose`) is modelled from what the server expects of it: it
sends its private id and the offset of the last packet it has processed. `owed` is
history: the packets that were the client's when they were broadcast, by the rooms
of its socket or of its session (`Claim`), less those it is no longer entitled to
since it joined or left a room (`StillOwed`). `Missed` is the loop of
`RestoreSession` over the log, as a recursive function.

* `session_client`: up to three connections, two served at a time, two packets, a
  clock with two values and a `Duration` of zero, so that sessions and packets
  both live and expire: `InOrderOnce`, `RecoveredMissesNothing`,
  `FreshIsJustified`. Three connections are needed for a session restored twice
  and for a break of a restored connection; two packets for one before and one
  after the offset. No fairness: nothing says that a client comes back.

### RedisCluster

Servers that share a namespace. `psub[s]` and `sub[s]` are the broadcasts and the
requests under way to server `s`, each taken by a goroutine of its own
(`OnMessage`, `OnRequest`); `Broadcast` publishes and `BroadcastLocally` serves
the caller's own sockets later; `CallSockets` is `AddSockets`, `DelSockets` and
`DisconnectSockets`, with the local flag or by a request that the caller serves
too. Sockets move by themselves (`Connect`, `AddAll`, `Del`, `DelAll`), a server
closes its namespace with its last socket (`Close`), and a subscriber whose
connection to Redis breaks loses what was under way to it (`LoseMessages`). A call
on the in-memory adapter is one step, its races being those of `RoomMembership`
and `RoomBroadcast`; Redis is modelled from its use, with one order of publication.

* `redis_cluster`: two servers with a socket each, two rooms, two calls, one move
  and one loss: `SteadyReachedOnce` for broadcasts to one room, `RemoteInOrder`, and
  `DecidedWhenPublished`: the cluster behaves as one adapter on which the remote
  calls that name rooms are done at the moment they are published. All three are
  proved for every size. Two calls give two broadcasts that may be reordered, two
  requests whose effects depend on each other, and a broadcast that overtakes a
  request. No fairness: the properties are about safety.
* `redis_everybody`: `ReachesEverybody`, which is what the comment of `Emit` says of
  a broadcast that names no room, and which is violated: `onmessage` returns when
  nothing follows the channel's prefix, so that only the broadcaster's own server
  serves it. `SteadyReachedOnce` says so: such a broadcast reaches its own server's
  sockets and no other.

### RedisFetch

The asking server's side of `FetchSockets`: `pc[c]` is the goroutine of call `c`
(`FetchSockets`, `StoreRequest`, `PublishRequest`, then `Receive`,
`ReceiveClosed` or `Timeout`, then the deferred `Recycle`, `DeleteRequest`,
`PutId`), with its id from `RequestIdPool`, a `sync.Pool` that may forget what it
holds, and its channel of capacity one (`buffer`, `closed`). `serving` is the one
subscriber: `OnOwnRequest`, `OnResponse`, then for each socket of an answer
`EvalChannel` (which reads the request's channel, perhaps after `Recycle` replaced
it) and `SendSocket`, and `CountResponse`, which closes the channel when as many
servers were counted as there are at that moment. The request itself comes from a
pool too (`HandMessagePool`): what one call has recycled, while it is still in
`requests` or in the subscriber's hand (`InUse`), may become the request of the next
(`GetRequest`), and `user[c]` is the call that has `c`'s request now; the
subscriber's next access finds that call's channel and count. The publication may
fail (`PublishFails`), which ends the fetch with an error. `ServerSideEmit`,
`EmitTimeout` and `BroadcastWithAck` are what else uses the ids. The other servers
answer (`OnRequest`), go, come back, and miss requests (`Change`). A response's
`from` is history, and so are `shared`, `reused` and `changes`: a request was given
to another fetch while in use, an id was taken again, a server went or lost its
request. A call hands its sockets to the caller at `Recycle`, and they are not
looked at afterwards.

* `redis_fetch`: two other servers, one with two sockets, so that the channel is
  full, and one without; two calls and two ids; one change of the servers or one
  request that is given away, but not both, which the proofs do not need:
  `CompleteWhenClosed`, `NoSendOnClosed` (both while no server changes and no id or
  request is used again), `IdsAreNotShared` (all three proved for every size),
  `FetchReturns`, `SubscriberServes`. Two calls let one meet what the other left
  behind. Fairness: each call goes on, by its goroutine or by its timer, and so does
  the subscriber. None of the other servers: they may never answer.

### Namespaces

Each client connects to a name and leaves; each user calls `Of`. `Connect`,
`Allow`, `Deny`, `CreateChild`, `StoreChild` are `Client.connect` and
`_checkNamespace`; `Of`, `OfCreate`, `OfStore` the second look-up, in `doConnect`,
or the application's; `Track`, `Reject` stand for `Namespace.Add`, whose own steps
are in `Connection`; `Remove`, `CheckLen`, `DeleteName`, `DeleteChild` are the
replaced `remove` of a child. Several goroutines may close one socket, each running
`nsp.remove`: the first takes the socket out, a `Closer` runs the clean-up once more,
however late (`RemoveAgain`). A namespace is a number; the parent was made with a
regular expression or with a function (`regexp`), with the clean-up of empty
children or without. `raced`, `doubled` and `twice` are history: a connection
overlapped a removal, or another connection, and the names of which a socket was
removed twice, for which `TrackedIsListed` does not hold.

* `namespaces_dynamic`: three clients, one further closer, one user, one name: `ParentReachesAll`,
  `TrackedIsListed`, `EmptiedIsForgotten`, all proved for every size. Three
  clients are one that leaves, one that is in the child and one that comes; each
  client makes at most two namespaces and the user one, so that `MaxNsp` of seven
  is no restriction. More names are in the proofs, where a lemma's invariant
  (`NamesOK`) keeps their namespaces apart.

### EventDispatch

An event of the client goes through `Arrive` (`ondecoded`, which drops it if the
socket is not in `client.nsps`), `CopyListeners`, `CallListener` (`onevent`),
`Run` (`dispatch`), `NextFn` or `NextError` (a middleware calling its `next`,
whenever and as often as it likes), `TestConnected`, `EmitUntyped` and `Ack`; one
of the server through `Emit`, `CopyListeners`, `CallListener`. `OnAny`,
`PrependAny`, `OffAny`, `OffAll`, `Use` change the lists meanwhile, and
`OnConnect`, `StoreNsp`, `ClientRemove`, `Disconnect` are the steps of connecting
and closing that an event can see. `times` and `due` are history: how often a
listener was registered during the announcement, and which middlewares there were
when the event arrived.

* `events_socket`: one event each way, two listeners, up to four middlewares, three
  calls of `next`, two changes of the lists: `SteadyListenersHear` and
  `HandledIfPassed`, proved for every size, and `AcceptedIsHandled`. Events of one
  socket share only the lists, which other goroutines change anyway, so that one
  each way is enough; three calls of `next` let a chain of two be run and its end
  be run again. Fairness: the goroutine of an event and those of its callback go
  on, and a middleware that was called calls `next` at last, which is the user's
  part.

## What the code does not give

The models show some behaviours that a comment or a reader would not expect. The
properties above leave them out by a condition each states.

* A `Join` and a `Leave` of different sockets can lose a member: `_del` deletes the
  room that `AddAll` has just filled, while `Socket.Rooms` ("the rooms the socket is
  currently in", `socket.go:838`) goes on listing it: `ListedIsMember` leaves out
  the room (`contended`). A `Join` that tested `canJoin` before `_cleanup` and calls
  `AddAll` after it leaves a closed socket in a room: `NoGhostMember` and
  `CleanedUpIsNowhere` leave out the socket (`crossed`).
* A socket stored in the client's table after `onclose` went through it stays
  connected for ever, although the comment at `client.go:218` has the tables cleaned
  up seamlessly; and two closes at once may announce `disconnect` twice, although
  `onclose` is meant to ignore a second close event (`client.go:216`).
* The CONNECT packet is written before `client.nsps.Store`: a client that answers
  at once is closed as if it had sent an invalid packet. The `connection` event may
  come after `disconnect`.
* A broadcast misses a socket that moves, during the call, from a room not yet read
  to one already read.
* Two goroutines that emit on one socket share its flags, so that one may take the
  other's timeout. An `Emit` of a reserved event returns before the flags are reset
  (`socket.go:251`): a timeout asked for it stays for whatever is emitted next, by
  whom ever. A timer that goes off before the callback is stored leaves it
  stored: the answer follows the error. One that goes off between `LoadAck` and
  `ClearTimer` makes the error follow the answer.
* The request of an acknowledged broadcast is recycled, and its id put back, while
  its answers are still to come: one may be lost, or be counted for another
  broadcast that has the id or the pooled request by then. The first leaves the
  broadcast to its timeout, the second ends the other one before all its clients
  have answered, or keeps it from ending, although the callback is to be called
  when all clients have answered (`broadcast-operator.go:255`). With `LocalOnly` in a cluster, servers that were not
  asked are waited for. A client that answers with two arguments counts twice. Two
  goroutines may both complete a broadcast, and the timer may report an error after
  it was completed.
* A packet broadcast between the read of the log and the tracking of the socket is
  lost to the client that is restored. The clean-up drops the packets up to the
  first expired one only, once a minute. A client that is back before its old socket
  was closed loses its rooms to the old one's clean-up. An expired session is deleted
  by its id after it was looked at, so that a fresh one stored in between goes with
  it. `mu_packets` is held while outgoing listeners run.
* What a Redis subscriber misses while its connection is down is not asked for
  again. A broadcast to several rooms is published on the channel of one of them and
  dropped by a server that has no socket in that one. A broadcast overtakes the
  `SocketsJoin` published before it. A broadcast that names no room is dropped
  by all other servers (the run `redis_everybody`). A remote call that names no room
  is taken for a request by socket id, and nobody serves it, although
  `broadcast-operator.go:320` and its like say that it is for all sockets. `ServerSideEmit` reaches no listener,
  and puts its id into the pool twice.
* A fetch that timed out leaves its channel without a reader: the subscriber blocks
  on the second socket of a late answer, for ever, and serves nothing more. Answers
  to an id that is used again are counted for the new call, and so are those that
  arrive while the recycled request of the old call is given to the new one. If the count of servers
  falls, the channel is closed early, and an answer that follows ends the process.
* A child that loses its last socket while another client connects to it is closed
  and forgotten with that client in it. Clients that connect at once may make two
  children of one name, the second of which unlists the first. Two goroutines that close one socket both
  run `nsp.remove`: the second, which comes late, may unlist a newer child with a
  connected socket in it. A child whose only clients were rejected is never removed.
* Each packet has a goroutine of its own: events of one client are not handled in
  their order. A handler may run after `disconnect`. A middleware that calls `next`
  twice runs the rest of the chain, and the handlers, twice; the acknowledgement is
  sent once all the same.

## Proofs

`AdapterProofs` is about `RoomMembership` first: `TypeCorrect`, and `NoRoomLeaks` (`NoEmptyRoomLeft` for
any number of sockets, rooms and goroutines). `NoEmptyRoomLeft` speaks of
states in which no call is under way, so it is not inductive. The invariant
says for every state that an empty room has an attendant: a goroutine that is
about to add to it (`AddAll` between `LoadOrStore` and `Add`), that has just
emptied it (`_del` before `Len`) or that is about to delete it. It needs that
two rooms never share a set object and that a goroutine's set belongs to the
room it works on, which hold because `LoadOrStore` stores fresh objects.

`NoGhosts`, `CleanedUpNowhere`, `ListedMember` and the refinement `Implements` have
no hypothesis either: what they leave out is in the properties. `SideBySide` says of
the calls on a socket that is not crossed that the set of rooms a goroutine holds is
still its socket's (`OwnOK`), that a member of a room lists it or is being taken out
of it by a call under way (`GhostOK`), that a `_cleanup` has every membership still
to be undone in the keys it copied, unless another call is undoing it
(`ProgressOK`), and that who was shut out is nowhere or on his way out (`ShutOK`).
`AllOK` adds, for a room that is not contended, that the set a goroutine holds is
the one in the map or the room is gone (`SetOK`), and that a listed room has its
socket but for the step that is about to add or to forget it (`ListedOK`).
`Implements` maps each step of `AddAll`, `Del` and `_cleanup` to a step of
`RoomRelation` or to none.

`ConnectionProofs`: `TypeCorrect`, `ConnectedTracked`, `TrackedConnected`. The
invariant adds that `_onclose` runs only for sockets that were connected once,
and that a closer past `nsp.remove` left the socket out of the namespace, so
that no later step, of any number of concurrent closers, puts it back.
`DeadInNoRoom` and `RouteLive` assume that the server's code disconnects nobody
(`NoServer`), as their run does: `Server.Close` and `Socket.Disconnect` reach a
socket through its namespace, before it has joined its own room. A client and a
transport reach it through the client's tables, where `_doConnect` stores it after
its last `Join`: `ServedInv` says that whoever is being closed was stored
(`StoredOK`, `LateOK`) and, while the transport is open, that only DISCONNECT
packets close, which take the route away first (`OpenOK`, `RouteOK`).

The second half of `AdapterProofs` is about `apply`: it has an instance of `RoomBroadcast`, with the
assumptions on its constants as a hypothesis (`Named`), and proves of it
`SelectionTypeCorrect` and what `Selection` says: `OnlyMembers` and all properties
of `broadcast_rooms`. The invariant ties the walk to the history: whoever was a member all through of a room already read
is served, pending, being served or excused by an excepted room he was in;
everybody served was seen in a target; the excepted set holds every stable member
of the excepted rooms already read and nobody without a reason; and the callback
ran once for the served, never for others.

`AckProofs` is about `SocketAck` first: `TypeCorrect`, `AnsweredDisarmed`,
`ExpiredForgotten`. The invariant says what an emission in progress has written for its id, that an id
belongs to one emission, and that an answered or answering callback's timer is not
armed.

The rest is about `BroadcastAck`, of which it has an instance, with the assumptions
on its constants as a hypothesis (`Configured`): `BroadcastTypeCorrect`, and
`CompleteIsComplete`. The invariant counts: unless a stray count was added,
`actualServers` and `expectedClients` are the cardinalities of the servers counted
and of their clients; `responses` is the number of the clients that answered and
`extra`. Clients are added before their server, so that when all
servers are counted all clients are expected, and as many responses as clients
leave as many answers missing as there are responses that stand for nobody. Counts and answers may still arrive between the two tests of a
check, which is why a check that has passed a test keeps what it learnt.

`RedisClusterProofs`: `TypeCorrect`, `InOrder`, `ReachedOnce`, `Decides`. For the
order of delivery the invariant says that what is under way to a server is in the
order of publication, names the broadcast's server and one of its rooms
(`QueueOK`), and that no socket has a broadcast twice, one its server has still to
give it, or another server's that comes after one under way (`GotOK`); `SteadyOK`
says of a socket that has not moved since a broadcast was published that it has it,
or will get it, exactly if its rooms match and its server serves the broadcast.
`Decides` is about `Decided`, a
recursive function over the requests under way: what the sockets' rooms will be
when they are served. That it has one value, that a request published last is
served last, and that serving the first changes nothing of the outcome are lemmas
on it (`RunExists`, `RunUnique`, `ServedAppend`, `ServedHead`), each proved from a
least counterexample (`LeastNatural`), which the library has for finite sets.

`RedisFetchProofs`: `TypeCorrect`, `IdsNotShared`, `ClosedIsComplete`,
`SendsOnOpen`, without further hypotheses. Each id is in the pool once, or held by
one call, or given up, as long as no `ServerSideEmit` has put one back twice.
`CalmInv` is about executions in which no id was used twice, no request was given to
another fetch while in use and no server went or lost its request, which is what the
two properties are about: the servers
awaited are those that have the request before them, whose answer is under way, or
whose answer the subscriber has in hand, and only one of these at a time (`OnceOK`,
`HandOK`); the count is one for the asking server and one for each server not
awaited, so that it reaches the number of servers, and the channel is closed, when
nobody is awaited; and what was collected is what these servers found, each socket
once (`CollectedOK`). After a timeout `Recycle` resets the count under the late
answers, so that it is only bounded from then on: that keeps the channel open.

`NamespacesProofs`: `TypeCorrect`, `ParentReaches`, `ListedTracked`,
`EmptiedForgotten`. That sockets are in open children does not say why the
namespace about to be joined is open: the invariant adds, for runs in which
removals and connections are apart, that what is listed is good or about to be
unlisted by a client at `DeleteName` (`ReachOK`). Since `DeleteName` deletes by
name, it rests on `NamesOK`: a namespace has one name, whoever refers to it, and
belongs to its maker alone until it is stored. `EmptyOK` says of every empty child
that somebody is on his way to find it empty or to forget it; `ListOK` that whoever
is about to list a namespace finds nobody connected to another of that name, unless
a socket of the name was removed twice.

`EventDispatchProofs`: `TypeCorrect`, `SteadyHear`, `HandledPassed`,
`Acknowledged`. The invariant counts, for a listener, those heard and those still
to be called together, so that the sum is a number of registrations the list had;
and follows the chain: a middleware was called because all before it let the event
pass, and the handlers run because all did.

`SessionRecoveryProofs`: `TypeCorrect`, `OrderKept`, `FreshJustified`,
`RecoversAll`, for any number of connections, rooms and packets. The invariant is
built in layers. `LogOK` says that the log holds the last packets broadcast, with
consecutive numbers, so that a number after the offset is either in the log or not
broadcast yet; `OrderOK` that what was processed comes before what is written, and
both before the packet being delivered, from which `OrderKept` follows. `KeptOK` and
`SessionOK` say that whatever of the client's was dropped, a packet or its session,
had expired or, for a session, was stored when the deletion of its predecessor was
under way (`DoomedOK`), and `OffsetOK` that a connection being restored asked with the
client's last packet: hence `FreshJustified`. For `RecoversAll`, `Mine` follows what
the client is owed through the hands it passes: the rooms of its socket, the session
persisted from them, the session read back. `LiveOK` has the live socket tracked,
for which no other connection may serve the same socket (`Solo`, which is what
`overlap` excludes), and `InWire` says that a restored client has, or is being sent,
all it is owed. That the loop of `RestoreSession` collects just the packets after
the offset that match the rooms, in order, is the lemma `MissedCollects`, proved
from a least counterexample.

All rest only on the assumptions about constants in the modules, and on the
named ones above: `NoServer`, for the two theorems that say so; `Named` and
`Configured` repeat the assumptions of the modules that have instances. `TypeCorrect` states the type invariant of its
module.

Checked by TLC only: liveness (`StoredIsDisconnected`, `IdleClientIsClosed`,
`TimedEmitCompletes`, `AlwaysCalled`, `AnsweredCompletes`, `FetchReturns`,
`SubscriberServes`, `AcceptedIsHandled`), which is out of the prover's reach.

## Not modelled

Encoding and compression of packets, the JSON of the Redis records, handshakes,
static files and HTTP serving, options, the event emitter and the typed wrappers
around it, the example program and the bundled client: they keep no state that
these properties are about, or only pass it on. The events of the adapter
(`create-room`, `join-room` and the like) are left out, since only the
application could listen to them; so is the content of packets, except for what
recovery needs to tell them apart.
