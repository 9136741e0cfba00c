----------------------------- MODULE Connection -----------------------------
(***************************************************************************)
(* One Client (socket/client.go): its engine connection, the Sockets that  *)
(* are connected over it to namespaces, and the tables that track them:    *)
(* client.sockets, client.nsps, namespace.sockets and the rooms of each    *)
(* socket.                                                                 *)
(*                                                                         *)
(* Each CONNECT packet ends in a goroutine of its own (Namespace.run), and *)
(* so do the transport's "close" event, the connect timer, each DISCONNECT *)
(* packet and each call of the server's code: the workers.  A step is one  *)
(* access to state that goroutines share.                                  *)
(***************************************************************************)
EXTENDS FiniteSets

CONSTANTS
  Socket,       \* sockets that CONNECT packets of this client may create
  Nsp,          \* namespaces
  NspOf,        \* the namespace that each socket's CONNECT packet asks for
  Restored,     \* sockets created from a persisted session
  Worker,       \* goroutines that close sockets or the client
  Closers,      \* who closes sockets besides the transport: "client" (DISCONNECT
                \* packets), "server" (Disconnect, Server.Close)
  None

ASSUME NspAssumption == NspOf \in [Socket -> Nsp]
ASSUME NoneAssumption == None \notin Socket
ASSUME RestoredAssumption == Restored \subseteq Socket
ASSUME ClosersAssumption == Closers \subseteq {"client", "server"}

VARIABLES
  ready,       \* conn.ReadyState()
  listening,   \* Client.destroy has not removed the listeners yet
  timer,       \* Client.connectTimeout
  cSockets,    \* Client.sockets
  cNsps,       \* Client.nsps
  nspSockets,  \* the sockets that are in their Namespace.sockets
  inRooms,     \* the sockets with an entry in adapter.sids
  canJoin,     \* Socket.canJoin
  connected,   \* Socket.connected
  pc,          \* the goroutine that connects each socket
  greeted,     \* the client got the CONNECT packet for the socket
  work         \* the local variables of each worker

transport == <<ready, listening, timer>>
tables == <<cSockets, cNsps, nspSockets, inRooms, canJoin, connected>>
vars == <<transport, tables, pc, greeted, work>>

(* loop: what runs when the worker is done with a socket ("once": nothing);   *)
(* todo: the keys a Range has still to visit; sock: the socket being closed.  *)
Local(step, loop, todo, sock) ==
  [pc |-> step, loop |-> loop, todo |-> todo, sock |-> sock]
Free == Local("free", "once", {}, None)

Init ==
  /\ ready = "open" /\ listening = TRUE /\ timer = "armed"
  /\ cSockets = {} /\ cNsps = [n \in Nsp |-> None] /\ nspSockets = {}
  /\ inRooms = {} /\ canJoin = Socket /\ connected = {}
  /\ pc = [s \in Socket |-> "none"] /\ greeted = {}
  /\ work = [w \in Worker |-> Free]

-----------------------------------------------------------------------------
(* Connecting a socket. *)

Connecting(s, from, to) ==
  pc[s] = from /\ pc' = [pc EXCEPT ![s] = to]

(* Client.ondecoded, connect, doConnect and Namespace.Add up to the          *)
(* middlewares.  NewSocket joins the rooms of a restored session.            *)
ConnectPacket(s) ==
  /\ listening /\ ready = "open"
  /\ cNsps[NspOf[s]] = None
  /\ Connecting(s, "none", "middlewares")
  /\ inRooms' = IF s \in Restored THEN inRooms \cup {s} ELSE inRooms
  /\ UNCHANGED <<transport, cSockets, cNsps, nspSockets, canJoin, connected,
                 greeted, work>>

(* A bug: a rejected socket is not cleaned up. *)
Reject_NoCleanup(s) ==
  /\ Connecting(s, "middlewares", "rejected")
  /\ UNCHANGED <<transport, tables, greeted, work>>

(* The middlewares call next: the socket is admitted if the transport is     *)
(* still open and no middleware objected, else Socket._cleanup.              *)
Admit(s) ==
  /\ ready = "open"
  /\ Connecting(s, "middlewares", "track")
  /\ UNCHANGED <<transport, tables, greeted, work>>

Reject(s) ==
  /\ Connecting(s, "middlewares", "rejected")
  /\ inRooms' = inRooms \ {s} /\ canJoin' = canJoin \ {s}
  /\ UNCHANGED <<transport, cSockets, cNsps, nspSockets, connected, greeted, work>>

(* A bug: the socket is connected before it is tracked. *)
Track_Late(s) ==
  /\ Connecting(s, "track", "connect")
  /\ connected' = connected \cup {s}
  /\ UNCHANGED <<transport, cSockets, cNsps, nspSockets, inRooms, canJoin,
                 greeted, work>>

(* _doConnect: n.sockets.Store *)
Track(s) ==
  /\ Connecting(s, "track", "connect")
  /\ nspSockets' = nspSockets \cup {s}
  /\ UNCHANGED <<transport, cSockets, cNsps, inRooms, canJoin, connected,
                 greeted, work>>

(* _onconnect: connected = true, Join of the socket's own room, CONNECT *)
SetConnected(s) ==
  /\ Connecting(s, "connect", "join")
  /\ connected' = connected \cup {s}
  /\ UNCHANGED <<transport, cSockets, cNsps, nspSockets, inRooms, canJoin,
                 greeted, work>>

JoinOwnRoom(s) ==
  /\ Connecting(s, "join", IF s \in canJoin THEN "addAll" ELSE "greet")
  /\ UNCHANGED <<transport, tables, greeted, work>>

AddAll(s) ==
  /\ Connecting(s, "addAll", "greet")
  /\ inRooms' = inRooms \cup {s}
  /\ UNCHANGED <<transport, cSockets, cNsps, nspSockets, canJoin, connected,
                 greeted, work>>

Greet(s) ==
  /\ Connecting(s, "greet", "storeSocket")
  /\ greeted' = IF ready = "open" THEN greeted \cup {s} ELSE greeted
  /\ UNCHANGED <<transport, tables, work>>

(* doConnect's callback: c.sockets.Store, c.nsps.Store, stop the timer *)
StoreSocket(s) ==
  /\ Connecting(s, "storeSocket", "storeNsp")
  /\ cSockets' = cSockets \cup {s}
  /\ UNCHANGED <<transport, cNsps, nspSockets, inRooms, canJoin, connected,
                 greeted, work>>

StoreNsp(s) ==
  /\ Connecting(s, "storeNsp", "stopTimer")
  /\ cNsps' = [cNsps EXCEPT ![NspOf[s]] = s]
  /\ UNCHANGED <<transport, cSockets, nspSockets, inRooms, canJoin, connected,
                 greeted, work>>

Stopped == IF timer = "armed" THEN "stopped" ELSE timer

StopTimer(s) ==
  /\ Connecting(s, "stopTimer", "announce")
  /\ timer' = Stopped
  /\ UNCHANGED <<ready, listening, tables, greeted, work>>

(* n.EmitReserved("connect", socket), ("connection", socket) *)
Announce(s) ==
  /\ Connecting(s, "announce", "done")
  /\ UNCHANGED <<transport, tables, greeted, work>>

Connect(s) ==
  \/ ConnectPacket(s) \/ Admit(s) \/ Reject(s) \/ Track(s) \/ SetConnected(s)
  \/ JoinOwnRoom(s) \/ AddAll(s) \/ Greet(s) \/ StoreSocket(s) \/ StoreNsp(s)
  \/ StopTimer(s) \/ Announce(s)

-----------------------------------------------------------------------------
(* The workers. *)
At(w, step) == work[w].pc = step
Goto(w, step) == work' = [work EXCEPT ![w].pc = step]
Become(w, l) == work' = [work EXCEPT ![w] = l]
Start(w, l) == work[w] = Free /\ Become(w, l)

Closing(s) == Local("check", "once", {}, s)
Ranging(loop) == Local("rangeStart", loop, {}, None)

(* The engine emits "close": Client.onclose, unless it was destroyed. *)
TransportClose ==
  /\ ready # "closed" /\ ready' = "closed"
  /\ IF listening
     THEN \E w \in Worker : Start(w, Local("destroy", "once", {}, None))
     ELSE UNCHANGED work
  /\ UNCHANGED <<listening, timer, tables, pc, greeted>>

(* A bug: the timer's test is inverted. *)
TimerFires_Inverted(w) ==
  /\ timer = "armed" /\ timer' = "fired"
  /\ IF \A n \in Nsp : cNsps[n] = None THEN UNCHANGED work
     ELSE Start(w, Local("readyState", "once", {}, None))
  /\ UNCHANGED <<ready, listening, tables, pc, greeted>>

(* The connect timeout: Client.close if no namespace was joined. *)
TimerFires(w) ==
  /\ timer = "armed" /\ timer' = "fired"
  /\ IF \A n \in Nsp : cNsps[n] = None
     THEN Start(w, Local("readyState", "once", {}, None)) ELSE UNCHANGED work
  /\ UNCHANGED <<ready, listening, tables, pc, greeted>>

(* ondecoded: a packet of a client that was told it is connected *)
InvalidState(w) ==
  /\ listening /\ ready = "open"
  /\ \E s \in greeted : cNsps[NspOf[s]] = None
  /\ Start(w, Local("readyState", "once", {}, None))
  /\ UNCHANGED <<transport, tables, pc, greeted>>

DisconnectPacket(w) ==
  /\ "client" \in Closers /\ listening /\ ready = "open"
  /\ \E s \in greeted : cNsps[NspOf[s]] = s /\ Start(w, Closing(s))
  /\ UNCHANGED <<transport, tables, pc, greeted>>

(* Socket.Disconnect(false), Socket.Disconnect(true) *)
ServerDisconnect(w) ==
  /\ "server" \in Closers
  /\ \E s \in nspSockets \cap connected :
       Start(w, Closing(s)) \/ Start(w, Ranging("disconnect"))
  /\ UNCHANGED <<transport, tables, pc, greeted>>

(* Server.Close: _onclose of each socket of the main namespace, whichever    *)
(* it is (without sockets nothing happens)                                   *)
ServerClose(w) ==
  /\ "server" \in Closers
  /\ \E t \in nspSockets :
       Start(w, Local("range", "shutdown",
                      {s \in nspSockets : NspOf[s] = NspOf[t]}, None))
  /\ UNCHANGED <<transport, tables, pc, greeted>>

(* Client.close: ReadyState is read, then conn.Close, then onclose *)
ReadReadyState(w) ==
  /\ At(w, "readyState")
  /\ IF ready = "open" THEN Goto(w, "connClose")
     ELSE Become(w, Free)
  /\ UNCHANGED <<transport, tables, pc, greeted>>

ConnClose(w) ==
  /\ At(w, "connClose") /\ Goto(w, "destroy")
  /\ ready' = IF ready = "open" THEN "closing" ELSE ready
  /\ UNCHANGED <<listening, timer, tables, pc, greeted>>

(* A bug: client.sockets is emptied before the loop. *)
RangeStart_Emptied(w) ==
  /\ At(w, "rangeStart") /\ cSockets' = {}
  /\ Goto(w, "range")
  /\ UNCHANGED <<transport, cNsps, nspSockets, inRooms, canJoin, connected, pc,
                 greeted>>

(* Client.onclose: destroy(), then the Range over client.sockets.  A Range   *)
(* visits the keys that were there when it started, unless deleted since.    *)
Destroy(w) ==
  /\ At(w, "destroy")
  /\ listening' = FALSE /\ timer' = Stopped
  /\ Become(w, Ranging("onclose"))
  /\ UNCHANGED <<ready, tables, pc, greeted>>

RangeStart(w) ==
  /\ At(w, "rangeStart")
  /\ Become(w, Local("range", work[w].loop, cSockets, None))
  /\ UNCHANGED <<transport, tables, pc, greeted>>

RangeVisit(w) ==
  /\ At(w, "range")
  /\ \E s \in work[w].todo :
       LET there == s \in IF work[w].loop = "shutdown" THEN nspSockets
                          ELSE cSockets
       IN Become(w, Local(IF there THEN "check" ELSE "range", work[w].loop,
                          work[w].todo \ {s}, IF there THEN s ELSE None))
  /\ UNCHANGED <<transport, tables, pc, greeted>>

(* Client._disconnect goes on with Client.close. *)
RangeEnd(w) ==
  /\ At(w, "range") /\ work[w].todo = {}
  /\ Become(w, IF work[w].loop = "disconnect"
               THEN Local("readyState", "once", {}, None) ELSE Free)
  /\ UNCHANGED <<transport, tables, pc, greeted>>

(* After _onclose: the loops of a Client delete the key they visited. *)
Closed(w) ==
  CASE work[w].loop = "once" -> Become(w, Free)
    [] work[w].loop = "shutdown" ->
         Become(w, Local("range", "shutdown", work[w].todo, None))
    [] OTHER -> Goto(w, "delete")

DeleteKey(w) ==
  /\ At(w, "delete")
  /\ cSockets' = cSockets \ {work[w].sock}
  /\ Become(w, Local("range", work[w].loop, work[w].todo, None))
  /\ UNCHANGED <<transport, cNsps, nspSockets, inRooms, canJoin, connected, pc,
                 greeted>>

(* Socket._onclose: the Connected check, *)
Check(w) ==
  /\ At(w, "check")
  /\ IF work[w].sock \in connected
     THEN Goto(w, "leaveAll") ELSE Closed(w)
  /\ UNCHANGED <<transport, tables, pc, greeted>>

(* _cleanup: leaveAll, then canJoin = false, *)
LeaveAll(w) ==
  /\ At(w, "leaveAll") /\ Goto(w, "forbidJoin")
  /\ inRooms' = inRooms \ {work[w].sock}
  /\ UNCHANGED <<transport, cSockets, cNsps, nspSockets, canJoin, connected, pc,
                 greeted>>

ForbidJoin(w) ==
  /\ At(w, "forbidJoin") /\ Goto(w, "nspRemove")
  /\ canJoin' = canJoin \ {work[w].sock}
  /\ UNCHANGED <<transport, cSockets, cNsps, nspSockets, inRooms, connected, pc,
                 greeted>>

(* A bug: _onclose forgets to remove the socket from the namespace. *)
NspRemove_Forgotten(w) ==
  /\ At(w, "nspRemove") /\ Goto(w, "clientRemove")
  /\ UNCHANGED <<transport, tables, pc, greeted>>

(* A bug: client.remove leaves the entry in client.nsps. *)
ClientRemove_KeepsRoute(w) ==
  /\ At(w, "clientRemove") /\ Goto(w, "disconnect")
  /\ cSockets' = cSockets \ {work[w].sock}
  /\ UNCHANGED <<transport, cNsps, nspSockets, inRooms, canJoin, connected, pc,
                 greeted>>

(* nsp.remove and client.remove, *)
NspRemove(w) ==
  /\ At(w, "nspRemove") /\ Goto(w, "clientRemove")
  /\ nspSockets' = nspSockets \ {work[w].sock}
  /\ UNCHANGED <<transport, cSockets, cNsps, inRooms, canJoin, connected, pc,
                 greeted>>

ClientRemove(w) ==
  /\ At(w, "clientRemove") /\ Goto(w, "disconnect")
  /\ IF work[w].sock \in cSockets
     THEN /\ cSockets' = cSockets \ {work[w].sock}
          /\ cNsps' = [cNsps EXCEPT ![NspOf[work[w].sock]] = None]
     ELSE UNCHANGED <<cSockets, cNsps>>
  /\ UNCHANGED <<transport, nspSockets, inRooms, canJoin, connected, pc,
                 greeted>>

(* connected = false. *)
Disconnect(w) ==
  /\ At(w, "disconnect") /\ Closed(w)
  /\ connected' = connected \ {work[w].sock}
  /\ UNCHANGED <<transport, cSockets, cNsps, nspSockets, inRooms, canJoin, pc,
                 greeted>>

Work(w) ==
  \/ ReadReadyState(w) \/ ConnClose(w) \/ Destroy(w) \/ RangeStart(w)
  \/ RangeVisit(w) \/ RangeEnd(w) \/ DeleteKey(w) \/ Check(w) \/ LeaveAll(w)
  \/ ForbidJoin(w) \/ NspRemove(w) \/ ClientRemove(w) \/ Disconnect(w)

Next ==
  \/ TransportClose
  \/ \E s \in Socket : Connect(s)
  \/ \E w \in Worker : \/ Work(w) \/ TimerFires(w) \/ InvalidState(w)
                       \/ DisconnectPacket(w) \/ ServerDisconnect(w)
                       \/ ServerClose(w)

Spec == Init /\ [][Next]_vars

(* The Go scheduler runs every goroutine that can go on, timers fire, and an *)
(* engine connection whose Close was called does close.  Nothing makes a     *)
(* client send, an open transport close, or middlewares call next.           *)
Fairness ==
  /\ \A w \in Worker : WF_vars(Work(w)) /\ WF_vars(TimerFires(w))
  /\ WF_vars(ready = "closing" /\ TransportClose)
  /\ \A s \in Socket : WF_vars(pc[s] # "none" /\ pc[s] # "middlewares"
                                  /\ Connect(s))

FairSpec == Spec /\ Fairness

-----------------------------------------------------------------------------
Steps == {"free", "destroy", "readyState", "connClose", "rangeStart", "range",
          "delete", "check", "leaveAll", "forbidJoin", "nspRemove",
          "clientRemove", "disconnect"}
Stages == {"none", "middlewares", "rejected", "track", "connect", "join",
           "addAll", "greet", "storeSocket", "storeNsp", "stopTimer",
           "announce", "done"}

Locals == [pc : Steps, loop : {"once", "onclose", "disconnect", "shutdown"},
           todo : SUBSET Socket, sock : Socket \cup {None}]

TablesOK ==
  /\ ready \in {"open", "closing", "closed"} /\ listening \in BOOLEAN
  /\ timer \in {"armed", "fired", "stopped"}
  /\ cSockets \subseteq Socket /\ cNsps \in [Nsp -> Socket \cup {None}]
  /\ nspSockets \subseteq Socket /\ inRooms \subseteq Socket
  /\ canJoin \subseteq Socket /\ connected \subseteq Socket
  /\ pc \in [Socket -> Stages] /\ greeted \subseteq Socket

(* The types of the client's tables and of the goroutines. *)
TypeOK == TablesOK /\ work \in [Worker -> Locals]

(* Some goroutine is in the middle of Socket._onclose of s. *)
ClosingSteps == {"leaveAll", "forbidJoin", "nspRemove", "clientRemove",
                 "disconnect"}
UnderClose(s) ==
  \E w \in Worker : work[w].sock = s /\ work[w].pc \in ClosingSteps

(* A connected socket is one of its namespace's sockets, so that broadcasts, *)
(* FetchSockets and DisconnectSockets find it, unless it is being closed.    *)
ConnectedIsTracked == \A s \in connected : s \in nspSockets \/ UnderClose(s)

(* The namespace keeps no socket that is not connected, however many         *)
(* goroutines close it at once, except one about to be connected.            *)
TrackedIsConnected ==
  \A s \in nspSockets : s \in connected \/ pc[s] = "connect"

(* A socket that was rejected or closed is in no room of the adapter.        *)
DeadIsInNoRoom ==
  \A s \in inRooms :
    s \in connected \/ pc[s] \in {"middlewares", "track", "connect"}

(* While the transport is open the client's packets for a namespace are      *)
(* routed to a connected socket: a route to a dead one would make every      *)
(* later CONNECT to the namespace an invalid state.                          *)
RouteIsLive ==
  ready = "open" => \A n \in Nsp : cNsps[n] # None =>
                      cNsps[n] \in connected \/ UnderClose(cNsps[n])

(* A socket that client.sockets held while the transport was open is         *)
(* disconnected once the transport closes.                                   *)
StoredIsDisconnected ==
  \A s \in Socket :
    [](s \in cSockets /\ ready = "open"
         => [](ready = "open") \/ <>(s \notin connected))

(* A client that joins no namespace within the connect timeout is closed     *)
(* (server-options.go:88).                                                   *)
IdleClientIsClosed ==
  <>(ready # "open" \/ \E s \in Socket : pc[s] \notin {"none", "middlewares", "rejected"})
=============================================================================
