-------------------------- MODULE ConnectionProofs --------------------------
(* Proofs about Connection, for any number of sockets, namespaces and       *)
(* workers.                                                                 *)
EXTENDS Connection, TLAPS

(* A worker that closes a socket holds a socket. *)
LocalOK(l) == /\ l \in Locals
              /\ l.pc \in ClosingSteps \cup {"check", "delete"} => l.sock \in Socket

WorkOK == work \in [Worker -> Locals] /\ \A w \in Worker : LocalOK(work[w])

TypeInv == TablesOK /\ WorkOK

LEMMA FreeIsOutside == Free.pc \notin ClosingSteps
BY DEF Free, Local, ClosingSteps

LEMMA InitType == Init => TypeInv
<1> SUFFICES ASSUME Init PROVE TypeInv
  OBVIOUS
<1>1. TablesOK
  BY DEF Init, TablesOK, Stages
<1>3. WorkOK
  <2>1. LocalOK(Free)
    BY DEF LocalOK, Locals, Steps, ClosingSteps, Free, Local
  <2>. QED
    BY <2>1 DEF Init, WorkOK, LocalOK
<1>. QED
  BY <1>1, <1>3 DEF TypeInv

LEMMA LocalType ==
  ASSUME NEW step \in Steps, NEW loop \in {"once", "onclose", "disconnect", "shutdown"},
         NEW todo \in SUBSET Socket, NEW sock \in Socket \cup {None},
         step \in ClosingSteps \cup {"check", "delete"} => sock \in Socket
  PROVE  LocalOK(Local(step, loop, todo, sock))
BY DEF LocalOK, Locals, Local

LEMMA BecomeType ==
  ASSUME WorkOK, NEW w \in Worker, NEW l, LocalOK(l), Become(w, l)
  PROVE  WorkOK'
BY DEF WorkOK, LocalOK, Become

LEMMA GotoType ==
  ASSUME WorkOK, NEW w \in Worker, NEW step \in Steps, Goto(w, step),
         step \in ClosingSteps \cup {"check", "delete"} => work[w].sock \in Socket
  PROVE  WorkOK'
BY DEF WorkOK, LocalOK, Goto, Locals

(* The steps of the goroutine that connects a socket keep the types. *)
LEMMA ConnectType ==
  ASSUME TypeInv, NEW s \in Socket, Connect(s)
  PROVE  TypeInv'
<1>1. TablesOK'
  BY NspAssumption
  DEF TypeInv, TablesOK, Stages, Connecting, tables, transport, Connect,
      ConnectPacket, Admit, Reject, Track, SetConnected, JoinOwnRoom, AddAll,
      Greet, StoreSocket, StoreNsp, StopTimer, Stopped, Announce
<1>3. work' = work
  BY DEF Connect, ConnectPacket, Admit, Reject, Track, SetConnected,
      JoinOwnRoom, AddAll, Greet, StoreSocket, StoreNsp, StopTimer, Announce
<1>. QED
  BY <1>1, <1>3 DEF TypeInv, WorkOK

(* The steps of a worker keep the types. *)
LEMMA WorkType ==
  ASSUME TypeInv, NEW w \in Worker, Work(w)
  PROVE  TypeInv'
<1>1. LocalOK(work[w])
  BY DEF TypeInv, WorkOK
<1>2. TablesOK'
  BY NspAssumption
  DEF TypeInv, TablesOK, tables, transport, Work, ReadReadyState, ConnClose,
      Destroy, Stopped, RangeStart, RangeVisit, RangeEnd, DeleteKey, Check,
      LeaveAll, ForbidJoin, NspRemove, ClientRemove, Disconnect
<1>4. WorkOK'
  <2>. DEFINE l == work[w]
  <2>a. /\ l.loop \in {"once", "onclose", "disconnect", "shutdown"}
        /\ l.todo \in SUBSET Socket /\ l.sock \in Socket \cup {None}
        /\ l.pc \in ClosingSteps \cup {"check", "delete"} => l.sock \in Socket
    BY <1>1 DEF LocalOK, Locals
  <2> HIDE DEF l
  <2>b. ASSUME NEW step \in {"range", "readyState", "free"},
               NEW loop \in {"once", "onclose", "disconnect", "shutdown"},
               NEW todo \in SUBSET Socket
        PROVE  LocalOK(Local(step, loop, todo, None))
    BY LocalType DEF Steps, ClosingSteps
  <2> USE BecomeType, GotoType
      DEF TypeInv, TablesOK, At, Steps, ClosingSteps, l
  <2>0. LocalOK(Free) /\ LocalOK(Local("readyState", "once", {}, None))
    BY <2>b DEF Free
  <2>1. CASE ReadReadyState(w)
    BY <2>0, <2>1 DEF ReadReadyState
  <2>2. CASE ConnClose(w)
    BY <2>2 DEF ConnClose
  <2>3. CASE Destroy(w)
    BY <2>3, LocalType DEF Destroy, Ranging
  <2>4. CASE RangeStart(w)
    BY <2>4, <2>a, <2>b DEF RangeStart
  <2>5. CASE RangeVisit(w)
    <3>1. PICK s \in l.todo :
            \/ Become(w, Local("check", l.loop, l.todo \ {s}, s))
            \/ Become(w, Local("range", l.loop, l.todo \ {s}, None))
      BY <2>5 DEF RangeVisit
    <3>2. LocalOK(Local("check", l.loop, l.todo \ {s}, s))
      BY <2>a, LocalType
    <3>3. LocalOK(Local("range", l.loop, l.todo \ {s}, None))
      BY <2>a, <2>b
    <3>. QED
      BY <3>1, <3>2, <3>3
  <2>6. CASE RangeEnd(w)
    BY <2>0, <2>6 DEF RangeEnd
  <2>7. CASE DeleteKey(w)
    BY <2>7, <2>a, <2>b DEF DeleteKey
  <2>8. ASSUME Closed(w), At(w, "check") \/ At(w, "disconnect")
        PROVE  WorkOK'
    <3>1. LocalOK(Local("range", "shutdown", l.todo, None))
      BY <2>a, <2>b
    <3>. QED
      BY <2>0, <2>8, <2>a, <3>1 DEF Closed
  <2>9. CASE Check(w)
    BY <2>8, <2>9, <2>a DEF Check
  <2>10. CASE LeaveAll(w)
    BY <2>10, <2>a DEF LeaveAll
  <2>11. CASE ForbidJoin(w)
    BY <2>11, <2>a DEF ForbidJoin
  <2>12. CASE NspRemove(w)
    BY <2>12, <2>a DEF NspRemove
  <2>13. CASE ClientRemove(w)
    BY <2>13, <2>a DEF ClientRemove
  <2>14. CASE Disconnect(w)
    BY <2>8, <2>14 DEF Disconnect
  <2>. QED
    BY <2>1, <2>2, <2>3, <2>4, <2>5, <2>6, <2>7, <2>9, <2>10, <2>11, <2>12,
       <2>13, <2>14 DEF Work
<1>. QED
  BY <1>2, <1>4 DEF TypeInv

(* What starts a worker. *)
Starts(w) == \/ TransportClose \/ TimerFires(w) \/ InvalidState(w)
             \/ DisconnectPacket(w) \/ ServerDisconnect(w) \/ ServerClose(w)

LEMMA StartType ==
  ASSUME TypeInv, NEW w \in Worker, Starts(w)
  PROVE  TypeInv'
<1>1. TablesOK'
  BY DEF TypeInv, TablesOK, tables, transport, Starts, TransportClose,
     TimerFires, InvalidState, DisconnectPacket, ServerDisconnect, ServerClose
<1>2. WorkOK'
  <2>1. work' = work \/ \E v \in Worker, l \in Locals : LocalOK(l) /\ Become(v, l)
    <3> USE LocalType DEF TypeInv, TablesOK, LocalOK, Steps, ClosingSteps, Start
    <3>1. CASE TransportClose
      BY <3>1 DEF TransportClose
    <3>2. CASE TimerFires(w)
      BY <3>2 DEF TimerFires
    <3>3. CASE InvalidState(w)
      BY <3>3 DEF InvalidState
    <3>4. CASE DisconnectPacket(w)
      BY <3>4 DEF DisconnectPacket, Closing
    <3>5. CASE ServerDisconnect(w)
      BY <3>5 DEF ServerDisconnect, Closing, Ranging
    <3>6. CASE ServerClose(w)
      BY <3>6 DEF ServerClose
    <3>. QED
      BY <3>1, <3>2, <3>3, <3>4, <3>5, <3>6 DEF Starts
  <2>. QED
    BY <2>1, BecomeType DEF TypeInv, WorkOK
<1>. QED
  BY <1>1, <1>2 DEF TypeInv

-----------------------------------------------------------------------------
(* The stages before connected = true. *)
Unconnected == {"none", "middlewares", "rejected", "track", "connect"}

StageOK ==
  /\ \A s \in connected : pc[s] \notin Unconnected
  /\ \A s \in nspSockets : pc[s] \notin Unconnected \ {"connect"}
  /\ \A s \in Socket : pc[s] = "connect" => s \in nspSockets

(* _onclose runs for a socket that was connected, and from nsp.remove on the *)
(* namespace does not hold it.                                               *)
CloserOK(l) ==
  l.pc \in ClosingSteps =>
    /\ pc[l.sock] \notin Unconnected
    /\ l.pc \in {"clientRemove", "disconnect"} => l.sock \notin nspSockets

ClosersOK == \A w \in Worker : CloserOK(work[w])

IInv == TypeInv /\ StageOK /\ ClosersOK /\ ConnectedIsTracked /\ TrackedIsConnected

LEMMA InitIInv == Init => IInv
<1>1. Init => ClosersOK
  <2>1. CloserOK(Free)
    BY DEF CloserOK, Free, Local, ClosingSteps
  <2>. QED
    BY <2>1 DEF Init, ClosersOK, CloserOK
<1>2. Init => StageOK /\ ConnectedIsTracked /\ TrackedIsConnected
  BY DEF Init, StageOK, ConnectedIsTracked, TrackedIsConnected
<1>. QED
  BY <1>1, <1>2, InitType DEF IInv

(* A goroutine that connects s does not touch what closers work on: s is not *)
(* under a closer before it is connected.                                    *)
LEMMA ConnectIInv ==
  ASSUME IInv, NEW s \in Socket, Connect(s)
  PROVE  IInv'
<1>1. TypeInv' /\ work' = work
  BY ConnectType
  DEF IInv, Connect, ConnectPacket, Admit, Reject, Track, SetConnected,
      JoinOwnRoom, AddAll, Greet, StoreSocket, StoreNsp, StopTimer, Announce
<1>2. pc \in [Socket -> Stages] /\ connected \subseteq Socket /\ nspSockets \subseteq Socket
  BY DEF IInv, TypeInv, TablesOK
<1>3. CASE Track(s)
  <2>1. /\ pc[s] = "track" /\ pc' = [pc EXCEPT ![s] = "connect"]
        /\ nspSockets' = nspSockets \cup {s} /\ connected' = connected
    BY <1>3 DEF Track, Connecting
  <2>2. StageOK'
    BY <1>2, <2>1 DEF IInv, StageOK, Unconnected
  <2>3. ASSUME NEW w \in Worker PROVE CloserOK(work[w])'
    <3>1. work[w].pc \in ClosingSteps => work[w].sock # s /\ work[w].sock \in Socket
      BY <2>1 DEF IInv, ClosersOK, CloserOK, TypeInv, WorkOK, LocalOK, Unconnected
    <3>. QED
      BY <1>1, <1>2, <2>1, <3>1 DEF IInv, ClosersOK, CloserOK
  <2>4. ConnectedIsTracked' /\ TrackedIsConnected'
    BY <1>1, <1>2, <2>1 DEF IInv, ConnectedIsTracked, TrackedIsConnected, UnderClose
  <2>. QED
    BY <1>1, <2>2, <2>3, <2>4 DEF IInv, ClosersOK
<1>4. CASE SetConnected(s)
  <2>1. /\ pc[s] = "connect" /\ pc' = [pc EXCEPT ![s] = "join"]
        /\ nspSockets' = nspSockets /\ connected' = connected \cup {s}
    BY <1>4 DEF SetConnected, Connecting
  <2>2. StageOK'
    BY <1>2, <2>1 DEF IInv, StageOK, Unconnected
  <2>3. ASSUME NEW w \in Worker PROVE CloserOK(work[w])'
    <3>1. work[w].pc \in ClosingSteps => work[w].sock # s /\ work[w].sock \in Socket
      BY <2>1 DEF IInv, ClosersOK, CloserOK, TypeInv, WorkOK, LocalOK, Unconnected
    <3>. QED
      BY <1>1, <1>2, <2>1, <3>1 DEF IInv, ClosersOK, CloserOK
  <2>4. ConnectedIsTracked' /\ TrackedIsConnected'
    BY <1>1, <1>2, <2>1
    DEF IInv, StageOK, ConnectedIsTracked, TrackedIsConnected, UnderClose
  <2>. QED
    BY <1>1, <2>2, <2>3, <2>4 DEF IInv, ClosersOK
<1>5. CASE ~Track(s) /\ ~SetConnected(s)
  <2>1. nspSockets' = nspSockets /\ connected' = connected
    BY <1>5 DEF Connect, ConnectPacket, Admit, Reject, JoinOwnRoom, AddAll, Greet,
       StoreSocket, StoreNsp, StopTimer, Announce, tables
  <2>2. PICK to \in Stages : pc' = [pc EXCEPT ![s] = to]
    BY <1>5 DEF Connect, ConnectPacket, Admit, Reject, JoinOwnRoom, AddAll, Greet,
       StoreSocket, StoreNsp, StopTimer, Announce, Connecting, Stages
  <2>3. pc[s] \notin {"track", "connect"}
    BY <1>5 DEF Connect, ConnectPacket, Admit, Reject, JoinOwnRoom, AddAll, Greet,
       StoreSocket, StoreNsp, StopTimer, Announce, Connecting
  <2>4. to # "connect" /\ (pc[s] \notin Unconnected => to \notin Unconnected)
    BY <1>2, <1>5, <2>2
    DEF Connect, ConnectPacket, Admit, Reject, JoinOwnRoom, AddAll, Greet,
        StoreSocket, StoreNsp, StopTimer, Announce, Connecting, Unconnected
  <2>5. StageOK'
    BY <1>2, <2>1, <2>2, <2>3, <2>4 DEF IInv, StageOK, Unconnected
  <2>6. ASSUME NEW w \in Worker PROVE CloserOK(work[w])'
    <3>1. work[w].pc \in ClosingSteps => work[w].sock \in Socket
      BY DEF IInv, TypeInv, WorkOK, LocalOK
    <3>. QED
      BY <1>1, <1>2, <2>1, <2>2, <2>4, <3>1 DEF IInv, ClosersOK, CloserOK
  <2>7. ConnectedIsTracked' /\ TrackedIsConnected'
    BY <1>1, <1>2, <2>1, <2>2, <2>3
    DEF IInv, ConnectedIsTracked, TrackedIsConnected, UnderClose
  <2>. QED
    BY <1>1, <2>5, <2>6, <2>7 DEF IInv, ClosersOK
<1>. QED
  BY <1>3, <1>4, <1>5

(* A worker that moves outside _onclose, or enters it for a connected socket. *)
LEMMA OutsideIInv ==
  ASSUME IInv, TypeInv', NEW w \in Worker, NEW l, Become(w, l),
         UNCHANGED <<pc, nspSockets, connected>>,
         work[w].pc \notin ClosingSteps,
         l.pc \in ClosingSteps => l.pc = "leaveAll" /\ l.sock \in connected
  PROVE  IInv'
<1>1. work \in [Worker -> Locals] /\ work'[w] = l
      /\ \A v \in Worker : v # w => work'[v] = work[v]
  BY DEF IInv, TypeInv, WorkOK, Become
<1>2. StageOK' /\ TrackedIsConnected'
  BY DEF IInv, StageOK, TrackedIsConnected
<1>3. ClosersOK'
  BY <1>1 DEF IInv, ClosersOK, CloserOK, StageOK
<1>4. ConnectedIsTracked'
  BY <1>1 DEF IInv, ConnectedIsTracked, UnderClose
<1>. QED
  BY <1>2, <1>3, <1>4 DEF IInv

(* A worker that moves on inside _onclose. *)
LEMMA InsideIInv ==
  ASSUME IInv, TypeInv', NEW w \in Worker, NEW step \in ClosingSteps, Goto(w, step),
         UNCHANGED <<pc, connected>>, work[w].pc \in ClosingSteps,
         nspSockets' \in {nspSockets, nspSockets \ {work[w].sock}},
         step \in {"clientRemove", "disconnect"} => work[w].sock \notin nspSockets'
  PROVE  IInv'
<1>1. /\ work'[w].pc = step /\ work'[w].sock = work[w].sock
      /\ \A v \in Worker : v # w => work'[v] = work[v]
  BY DEF IInv, TypeInv, WorkOK, Goto, Locals
<1>2. StageOK' /\ TrackedIsConnected'
  BY DEF IInv, StageOK, TrackedIsConnected, ClosersOK, CloserOK, Unconnected
<1>3. ClosersOK'
  BY <1>1 DEF IInv, ClosersOK, CloserOK
<1>4. ConnectedIsTracked'
  BY <1>1 DEF IInv, ConnectedIsTracked, UnderClose
<1>. QED
  BY <1>2, <1>3, <1>4 DEF IInv

(* connected = false is the last step of a close: the namespace let go of the *)
(* socket before.                                                             *)
LEMMA DisconnectIInv ==
  ASSUME IInv, NEW w \in Worker, Disconnect(w)
  PROVE  IInv'
<1>1. TypeInv'
  BY WorkType DEF IInv, Work
<1>a. work \in [Worker -> Locals] /\ work[w].pc = "disconnect"
  BY DEF IInv, TypeInv, WorkOK, Disconnect, At
<1>b. /\ work'[w].pc \notin ClosingSteps
      /\ \A v \in Worker : v # w => work'[v] = work[v]
  <2>1. CASE work[w].loop = "once"
    <3>1. Become(w, Free)
      BY <2>1 DEF Disconnect, Closed
    <3>. QED
      BY <1>a, <3>1, FreeIsOutside DEF Become
  <2>2. CASE work[w].loop = "shutdown"
    BY <1>a, <2>2 DEF Disconnect, Closed, Become, Local, ClosingSteps
  <2>3. CASE work[w].loop \notin {"once", "shutdown"}
    BY <1>a, <2>3 DEF Disconnect, Closed, Goto, Locals, ClosingSteps
  <2>. QED
    BY <2>1, <2>2, <2>3
<1>2. /\ \A v \in Worker : v # w => work'[v] = work[v]
      /\ work[w].sock \notin nspSockets /\ connected' = connected \ {work[w].sock}
      /\ UNCHANGED <<pc, nspSockets>>
  BY <1>a, <1>b DEF IInv, ClosersOK, CloserOK, Disconnect, ClosingSteps
<1>3. work'[w].pc \notin ClosingSteps
  BY <1>b
<1>4. StageOK' /\ TrackedIsConnected'
  BY <1>2 DEF IInv, StageOK, TrackedIsConnected
<1>5. ClosersOK'
  BY <1>2, <1>3 DEF IInv, ClosersOK, CloserOK
<1>6. ConnectedIsTracked'
  <2> SUFFICES ASSUME NEW s \in connected', s \notin nspSockets
               PROVE  UnderClose(s)'
    BY <1>2 DEF ConnectedIsTracked
  <2>1. PICK v \in Worker : work[v].sock = s /\ work[v].pc \in ClosingSteps
    BY <1>2 DEF IInv, ConnectedIsTracked, UnderClose
  <2>. QED
    BY <1>2, <2>1 DEF UnderClose
<1>. QED
  BY <1>1, <1>4, <1>5, <1>6 DEF IInv

LEMMA WorkIInv ==
  ASSUME IInv, NEW w \in Worker, Work(w)
  PROVE  IInv'
<1>1. TypeInv'
  BY WorkType DEF IInv
<1>2. CASE Disconnect(w)
  BY <1>2, DisconnectIInv
<1>3. CASE LeaveAll(w)
  BY <1>1, <1>3, InsideIInv DEF LeaveAll, At, ClosingSteps
<1>4. CASE ForbidJoin(w)
  BY <1>1, <1>4, InsideIInv DEF ForbidJoin, At, ClosingSteps
<1>5. CASE NspRemove(w)
  BY <1>1, <1>5, InsideIInv DEF NspRemove, At, ClosingSteps
<1>6. CASE ClientRemove(w)
  <2>1. work[w].sock \notin nspSockets
    BY <1>6 DEF IInv, ClosersOK, CloserOK, ClientRemove, At, ClosingSteps
  <2>. QED
    BY <1>1, <1>6, <2>1, InsideIInv DEF ClientRemove, At, ClosingSteps
<1>7. CASE ~(Disconnect(w) \/ LeaveAll(w) \/ ForbidJoin(w) \/ NspRemove(w)
             \/ ClientRemove(w))
  <2>1. UNCHANGED <<pc, nspSockets, connected>> /\ work[w].pc \notin ClosingSteps
    BY <1>7 DEF Work, ReadReadyState, ConnClose, Destroy, RangeStart, RangeVisit,
       RangeEnd, DeleteKey, Check, At, ClosingSteps, tables
  <2> DEFINE Moves(l) == /\ Become(w, l)
                         /\ l.pc \in ClosingSteps =>
                              l.pc = "leaveAll" /\ l.sock \in connected
  <2>2. \E l : Moves(l)
    <3>1. ASSUME NEW step, Goto(w, step), step \in ClosingSteps =>
                   step = "leaveAll" /\ work[w].sock \in connected
          PROVE  \E l : Moves(l)
      <4>1. Moves([work[w] EXCEPT !.pc = step])
        BY <3>1 DEF IInv, TypeInv, WorkOK, Locals, Goto, Become
      <4>. QED
        BY <4>1
    <3>2. ASSUME NEW step, NEW loop, NEW todo, NEW sock, step \notin ClosingSteps,
                 Become(w, Local(step, loop, todo, sock))
          PROVE  \E l : Moves(l)
      BY <3>2 DEF Local
    <3>. QED
      BY <1>7, <3>1, <3>2
      DEF Work, ReadReadyState, ConnClose, Destroy, Ranging, RangeStart, RangeVisit,
          RangeEnd, DeleteKey, Check, Closed, Free, ClosingSteps
  <2>. QED
    BY <1>1, <2>1, <2>2, OutsideIInv
<1>. QED
  BY <1>2, <1>3, <1>4, <1>5, <1>6, <1>7

LEMMA StartIInv ==
  ASSUME IInv, NEW w \in Worker, Starts(w)
  PROVE  IInv'
<1>1. TypeInv' /\ UNCHANGED <<pc, nspSockets, connected>>
  BY StartType
  DEF IInv, Starts, TransportClose, TimerFires, InvalidState, DisconnectPacket,
      ServerDisconnect, ServerClose, tables
<1>2. CASE work' = work
  BY <1>1, <1>2 DEF IInv, StageOK, ClosersOK, CloserOK, ConnectedIsTracked,
     TrackedIsConnected, UnderClose
<1>3. CASE \E v \in Worker : \E step, loop, todo, sock :
             /\ step \notin ClosingSteps
             /\ Start(v, Local(step, loop, todo, sock))
  <2>v. PICK v \in Worker : \E step, loop, todo, sock :
          step \notin ClosingSteps /\ Start(v, Local(step, loop, todo, sock))
    BY <1>3
  <2>1. PICK step, loop, todo, sock :
          step \notin ClosingSteps /\ Start(v, Local(step, loop, todo, sock))
    BY <2>v
  <2>2. work[v].pc \notin ClosingSteps /\ Become(v, Local(step, loop, todo, sock))
    BY <2>1, FreeIsOutside DEF Start
  <2>3. Local(step, loop, todo, sock).pc \notin ClosingSteps
    BY <2>1 DEF Local
  <2>. QED
    BY <1>1, <2>2, <2>3, OutsideIInv
<1>4. work' = work \/ \E v \in Worker : \E step, loop, todo, sock :
                       /\ step \notin ClosingSteps
                       /\ Start(v, Local(step, loop, todo, sock))
  BY DEF Starts, TransportClose, TimerFires, InvalidState, DisconnectPacket,
     ServerDisconnect, ServerClose, Closing, Ranging, ClosingSteps
<1>. QED
  BY <1>2, <1>3, <1>4

LEMMA NextIInv == IInv /\ [Next]_vars => IInv'
<1> SUFFICES ASSUME IInv, [Next]_vars PROVE IInv'
  OBVIOUS
<1>1. CASE UNCHANGED vars
  BY <1>1 DEF vars, transport, tables, IInv, TypeInv, TablesOK, WorkOK, LocalOK,
     StageOK, ClosersOK, CloserOK, ConnectedIsTracked, TrackedIsConnected, UnderClose
<1>2. CASE \E s \in Socket : Connect(s)
  BY <1>2, ConnectIInv
<1>3. CASE \E w \in Worker : Work(w)
  BY <1>3, WorkIInv
<1>4. CASE \E w \in Worker : Starts(w)
  BY <1>4, StartIInv
<1>5. CASE TransportClose /\ Worker = {}
  <2>1. UNCHANGED <<tables, pc, work, greeted, timer, listening>> /\ ready' = "closed"
    BY <1>5 DEF TransportClose
  <2>. QED
    BY <2>1 DEF tables, IInv, TypeInv, TablesOK, WorkOK, LocalOK,
     StageOK, ClosersOK, CloserOK, ConnectedIsTracked, TrackedIsConnected, UnderClose
<1>. QED
  BY <1>1, <1>2, <1>3, <1>4, <1>5 DEF Next, Starts

(* The tables of the client and of its namespaces, and the goroutines that    *)
(* work on them, keep their types.                                            *)
THEOREM TypeCorrect == Spec => []TypeOK
<1>1. IInv => TypeOK
  BY DEF IInv, TypeInv, TypeOK, WorkOK
<1>. QED
  BY InitIInv, NextIInv, <1>1, PTL DEF Spec

(* Namespace.sockets and Socket.connected agree, whatever the client, the     *)
(* transport and the server's code close, however often and at the same time: *)
(* a connected socket is tracked unless a close of it is under way,           *)
THEOREM ConnectedTracked == Spec => []ConnectedIsTracked
<1>1. IInv => ConnectedIsTracked
  BY DEF IInv
<1>. QED
  BY InitIInv, NextIInv, <1>1, PTL DEF Spec

(* and a tracked socket is connected, or about to be connected for the first  *)
(* time: namespaces do not leak dead sockets.                                 *)
THEOREM TrackedConnected == Spec => []TrackedIsConnected
<1>1. IInv => TrackedIsConnected
  BY DEF IInv
<1>. QED
  BY InitIInv, NextIInv, <1>1, PTL DEF Spec
-----------------------------------------------------------------------------
(* While only the client and the transport close sockets: a socket that      *)
(* anybody can close has been stored by the goroutine that connects it, so   *)
(* that this goroutine joins no room for it any more.                        *)
NoServer == "server" \notin Closers

Late == {"storeNsp", "stopTimer", "announce", "done"}
Routed == Late \ {"storeNsp"}

StoredOK ==
  /\ \A s \in cSockets : pc[s] \in Late
  /\ \A n \in Nsp : cNsps[n] # None =>
       NspOf[cNsps[n]] = n /\ pc[cNsps[n]] \in Routed
  /\ \A s \in Socket : pc[s] \in {"join", "addAll", "greet", "storeSocket"}
                         => s \in connected

LateOK(l) ==
  /\ l.loop \in {"once", "onclose"}
  /\ l.pc \in ClosingSteps \cup {"check", "delete"} => pc[l.sock] \in Late
  /\ l.pc \in ClosingSteps \ {"leaveAll"} => l.sock \notin inRooms

(* As long as the transport is open only DISCONNECT packets close sockets,   *)
(* sockets that have a route; and the route is gone before connected is.     *)
OpenOK(l) ==
  ready = "open" =>
    /\ l.loop = "once" /\ l.pc \notin {"destroy", "rangeStart", "range", "delete"}
    /\ l.pc \in ClosingSteps \cup {"check"} => pc[l.sock] \in Routed
    /\ l.pc = "disconnect" => cNsps[NspOf[l.sock]] # l.sock

RouteOK ==
  ready = "open" =>
    /\ \A n \in Nsp : cNsps[n] # None => cNsps[n] \in cSockets
    /\ \A s \in Socket : pc[s] = "storeNsp" => s \in cSockets \cap connected

ServedInv == /\ TypeInv /\ StoredOK /\ RouteOK /\ DeadIsInNoRoom /\ RouteIsLive
             /\ \A w \in Worker : LateOK(work[w]) /\ OpenOK(work[w])
LEMMA InitServed == Init => ServedInv
<1>1. LateOK(Free) /\ OpenOK(Free)
  BY DEF LateOK, OpenOK, Free, Local, ClosingSteps
<1>2. Init => \A w \in Worker : LateOK(work[w]) /\ OpenOK(work[w])
  BY <1>1 DEF Init, LateOK, OpenOK
<1>3. Init => StoredOK /\ RouteOK /\ DeadIsInNoRoom /\ RouteIsLive
  BY DEF Init, StoredOK, RouteOK, DeadIsInNoRoom, RouteIsLive
<1>. QED
  BY <1>2, <1>3, InitType DEF ServedInv

(* The goroutine that connects a socket goes from stage to stage. *)
LEMMA ConnectStages ==
  ASSUME TypeInv, NEW s \in Socket, Connect(s)
  PROVE  /\ work' = work /\ ready' = ready
         /\ \A t \in Socket : t # s => pc'[t] = pc[t]
         /\ pc[s] \in Late => pc'[s] \in Routed
         /\ pc'[s] \in Late => pc[s] = "storeSocket" \/ pc[s] \in Late
         /\ pc'[s] \in {"join", "addAll", "greet", "storeSocket"} =>
              pc[s] \in {"join", "addAll", "greet"} \/ s \in connected'
         /\ connected \subseteq connected' /\ cSockets \subseteq cSockets'
<1> USE DEF TypeInv, TablesOK, Late, Routed, Connecting, transport, tables
<1>1. CASE ConnectPacket(s) \/ Admit(s) \/ Reject(s) \/ Track(s)
  BY <1>1 DEF ConnectPacket, Admit, Reject, Track
<1>2. CASE SetConnected(s) \/ JoinOwnRoom(s) \/ AddAll(s) \/ Greet(s)
  BY <1>2 DEF SetConnected, JoinOwnRoom, AddAll, Greet
<1>3. CASE StoreSocket(s) \/ StoreNsp(s) \/ StopTimer(s) \/ Announce(s)
  BY <1>3 DEF StoreSocket, StoreNsp, StopTimer, Announce
<1>. QED
  BY <1>1, <1>2, <1>3 DEF Connect

(* It stores the socket only at the end, and gives it a route last. *)
LEMMA ConnectStores ==
  ASSUME TypeInv, NEW s \in Socket, Connect(s)
  PROVE  /\ pc[s] # "storeSocket" => cSockets' = cSockets
         /\ pc[s] = "storeSocket" => cSockets' = cSockets \cup {s} /\ pc'[s] = "storeNsp"
         /\ pc'[s] = "storeNsp" => pc[s] = "storeSocket"
         /\ pc[s] # "storeNsp" => cNsps' = cNsps
         /\ pc[s] = "storeNsp" => cNsps' = [cNsps EXCEPT ![NspOf[s]] = s]
         /\ inRooms' \ inRooms \subseteq
              IF (pc[s] = "none" /\ pc'[s] = "middlewares") \/ pc[s] = "addAll"
              THEN {s} ELSE {}
         /\ s \in inRooms' => \/ pc'[s] \in {"middlewares", "track", "connect"}
                              \/ s \in connected'
                              \/ s \in inRooms /\ pc[s] \notin {"middlewares", "track", "connect"}
                              \/ pc[s] = "addAll"
<1> USE DEF TypeInv, TablesOK, Connecting, transport, tables
<1>1. CASE ConnectPacket(s) \/ Admit(s) \/ Reject(s) \/ Track(s)
  BY <1>1 DEF ConnectPacket, Admit, Reject, Track
<1>2. CASE SetConnected(s) \/ JoinOwnRoom(s) \/ AddAll(s) \/ Greet(s)
  BY <1>2 DEF SetConnected, JoinOwnRoom, AddAll, Greet
<1>3. CASE StoreSocket(s) \/ StoreNsp(s) \/ StopTimer(s) \/ Announce(s)
  BY <1>3 DEF StoreSocket, StoreNsp, StopTimer, Announce
<1>. QED
  BY <1>1, <1>2, <1>3 DEF Connect

LEMMA ConnectServed ==
  ASSUME ServedInv, NEW s \in Socket, Connect(s)
  PROVE  ServedInv'
<1>0. TypeInv /\ TypeInv'
  BY ConnectType DEF ServedInv
<1>t. /\ cSockets \subseteq Socket /\ inRooms \subseteq Socket /\ connected \subseteq Socket
      /\ cNsps \in [Nsp -> Socket \cup {None}] /\ pc \in [Socket -> Stages]
      /\ NspOf[s] \in Nsp
      /\ \A w \in Worker : work[w].pc \in ClosingSteps \cup {"check", "delete"}
                             => work[w].sock \in Socket
  BY <1>0, NspAssumption DEF TypeInv, TablesOK, WorkOK, LocalOK
<1>a. /\ work' = work /\ ready' = ready
      /\ \A t \in Socket : t # s => pc'[t] = pc[t]
      /\ pc[s] \in Late => pc'[s] \in Routed
      /\ connected \subseteq connected' /\ cSockets \subseteq cSockets'
  BY <1>0, ConnectStages
<1>b. /\ pc'[s] \in Late => pc[s] = "storeSocket" \/ pc[s] \in Late
      /\ pc'[s] \in {"join", "addAll", "greet", "storeSocket"} =>
           pc[s] \in {"join", "addAll", "greet"} \/ s \in connected'
  BY <1>0, ConnectStages
<1>1. StoredOK'
  <2>1. (\A t \in cSockets : pc[t] \in Late)'
    BY <1>0, <1>t, <1>a, ConnectStores DEF ServedInv, StoredOK, Late, Routed
  <2>2. (\A n \in Nsp : cNsps[n] # None =>
           NspOf[cNsps[n]] = n /\ pc[cNsps[n]] \in Routed)'
    BY <1>0, <1>t, <1>a, ConnectStores, NoneAssumption
    DEF ServedInv, StoredOK, Late, Routed
  <2>3. (\A t \in Socket : pc[t] \in {"join", "addAll", "greet", "storeSocket"}
                             => t \in connected)'
    BY <1>t, <1>a, <1>b DEF ServedInv, StoredOK
  <2>. QED
    BY <2>1, <2>2, <2>3 DEF StoredOK
<1>2. RouteOK'
  BY <1>0, <1>t, <1>a, ConnectStores, NoneAssumption
  DEF ServedInv, RouteOK, StoredOK
<1>3. DeadIsInNoRoom'
  BY <1>0, <1>t, <1>a, ConnectStores DEF ServedInv, DeadIsInNoRoom, StoredOK
<1>4. RouteIsLive'
  BY <1>0, <1>t, <1>a, ConnectStores
  DEF ServedInv, RouteIsLive, RouteOK, UnderClose
<1>5. ASSUME NEW w \in Worker PROVE LateOK(work[w])' /\ OpenOK(work[w])'
  <2>1. LateOK(work[w]) /\ OpenOK(work[w])
    BY DEF ServedInv
  <2>2. LateOK(work[w])'
    <3>1. work[w].pc \in ClosingSteps \cup {"check", "delete"} =>
            pc[work[w].sock] \in Late /\ pc'[work[w].sock] \in Late
      BY <1>t, <1>a, <2>1 DEF LateOK, Routed
    <3>2. \A t \in inRooms' : t \in inRooms \/ pc[t] \notin Late
      BY <1>0, <1>t, ConnectStores DEF Late
    <3>. QED
      BY <1>a, <2>1, <3>1, <3>2 DEF LateOK
  <2>3. OpenOK(work[w])'
    <3>1. \A t \in Socket : pc[t] \in Routed => pc'[t] \in Routed
      BY <1>a DEF Routed
    <3>2. \A t \in Socket : pc[t] \in Routed /\ cNsps[NspOf[t]] # t
                             => cNsps'[NspOf[t]] # t
      BY <1>0, <1>t, ConnectStores, NspAssumption DEF Routed
    <3>. QED
      BY <1>t, <1>a, <2>1, <3>1, <3>2 DEF OpenOK, ClosingSteps
  <2>. QED
    BY <2>2, <2>3
<1>. QED
  BY <1>0, <1>1, <1>2, <1>3, <1>4, <1>5 DEF ServedInv
(* A worker's step is its own, and takes away only. *)
LEMMA WorkShrinks ==
  ASSUME TypeInv, NEW w \in Worker, Work(w)
  PROVE  /\ \A v \in Worker : v # w => work'[v] = work[v]
         /\ pc' = pc /\ inRooms' \subseteq inRooms /\ cSockets' \subseteq cSockets
         /\ ready' = "open" => ready = "open"
         /\ \A n \in Nsp : cNsps'[n] \in {cNsps[n], None}
<1> USE DEF TypeInv, TablesOK, WorkOK, Become, Goto, transport, tables
<1>1. CASE ReadReadyState(w) \/ ConnClose(w) \/ Destroy(w)
  BY <1>1 DEF ReadReadyState, ConnClose, Destroy
<1>2. CASE RangeStart(w) \/ RangeVisit(w) \/ RangeEnd(w) \/ DeleteKey(w)
  BY <1>2 DEF RangeStart, RangeVisit, RangeEnd, DeleteKey
<1>3. CASE Check(w) \/ Disconnect(w)
  BY <1>3 DEF Check, Disconnect, Closed
<1>4. CASE LeaveAll(w) \/ ForbidJoin(w) \/ NspRemove(w) \/ ClientRemove(w)
  BY <1>4 DEF LeaveAll, ForbidJoin, NspRemove, ClientRemove
<1>. QED
  BY <1>1, <1>2, <1>3, <1>4 DEF Work

(* What a worker knows at its next step. *)
LEMMA WorkKnows ==
  ASSUME ServedInv, NEW w \in Worker, Work(w)
  PROVE  LateOK(work[w])' /\ OpenOK(work[w])'
<1>0. /\ work \in [Worker -> Locals] /\ TypeInv
      /\ work[w].pc \in ClosingSteps \cup {"check", "delete"} => work[w].sock \in Socket
      /\ LateOK(work[w]) /\ OpenOK(work[w])
  BY DEF ServedInv, TypeInv, WorkOK, LocalOK
<1>1. pc' = pc /\ inRooms' \subseteq inRooms /\ (ready' = "open" => ready = "open")
  BY <1>0, WorkShrinks
<1>g. ASSUME NEW step, Goto(w, step)
      PROVE  /\ work'[w].pc = step /\ work'[w].loop = work[w].loop
             /\ work'[w].sock = work[w].sock
  BY <1>0, <1>g DEF Goto, Locals
<1>b. ASSUME NEW step, NEW loop, NEW todo, NEW sock, Become(w, Local(step, loop, todo, sock))
      PROVE  work'[w].pc = step /\ work'[w].loop = loop /\ work'[w].sock = sock
  BY <1>0, <1>b DEF Become, Local
<1>f. ASSUME Become(w, Free)
      PROVE  LateOK(work[w])' /\ OpenOK(work[w])'
  <2>1. work'[w].pc = "free" /\ work'[w].loop = "once"
    BY <1>f, <1>b DEF Free
  <2>. QED
    BY <2>1 DEF LateOK, OpenOK, ClosingSteps
<1>c. ASSUME Closed(w), work[w].pc \in {"check", "disconnect"}
      PROVE  LateOK(work[w])' /\ OpenOK(work[w])'
  <2>1. CASE work[w].loop = "once"
    BY <1>c, <1>f, <2>1 DEF Closed
  <2>2. CASE work[w].loop # "once"
    <3>1. work[w].loop = "onclose" /\ ready # "open"
      BY <1>0, <2>2 DEF LateOK, OpenOK
    <3>2. /\ work'[w].pc = "delete" /\ work'[w].loop = work[w].loop
          /\ work'[w].sock = work[w].sock
      BY <1>c, <1>g, <3>1 DEF Closed
    <3>. QED
      BY <1>0, <1>1, <1>c, <3>1, <3>2 DEF LateOK, OpenOK, ClosingSteps
  <2>. QED
    BY <2>1, <2>2
<1> USE <1>0, <1>1 DEF At, ClosingSteps, LateOK, OpenOK
<1>2. CASE ReadReadyState(w)
  BY <1>2, <1>f, <1>g DEF ReadReadyState
<1>3. CASE ConnClose(w)
  BY <1>3, <1>g DEF ConnClose
<1>4. CASE Destroy(w)
  BY <1>4, <1>b DEF Destroy, Ranging
<1>5. CASE RangeStart(w)
  BY <1>5, <1>b DEF RangeStart
<1>6. CASE RangeVisit(w)
  <2>1. PICK s \in work[w].todo :
          \/ s \in cSockets /\ Become(w, Local("check", work[w].loop, work[w].todo \ {s}, s))
          \/ Become(w, Local("range", work[w].loop, work[w].todo \ {s}, None))
    BY <1>6 DEF RangeVisit
  <2>2. s \in cSockets => pc[s] \in Late
    BY DEF ServedInv, StoredOK
  <2>3. ready # "open"
    BY <1>6 DEF RangeVisit
  <2>. QED
    BY <2>1, <2>2, <2>3, <1>b
<1>7. CASE RangeEnd(w)
  BY <1>7, <1>f DEF RangeEnd
<1>8. CASE DeleteKey(w)
  BY <1>8, <1>b DEF DeleteKey
<1>9. CASE Check(w)
  BY <1>9, <1>c, <1>g DEF Check
<1>10. CASE LeaveAll(w)
  <2>1. /\ work[w].pc = "leaveAll" /\ work'[w].pc = "forbidJoin"
        /\ work'[w].loop = work[w].loop /\ work'[w].sock = work[w].sock
        /\ inRooms' = inRooms \ {work[w].sock} 
    BY <1>10, <1>g DEF LeaveAll
  <2>2. LateOK(work[w])'
    BY <2>1
  <2>3. OpenOK(work[w])'
    BY <2>1
  <2>. QED
    BY <2>2, <2>3
<1>11. CASE ForbidJoin(w)
  BY <1>11, <1>g DEF ForbidJoin
<1>12. CASE NspRemove(w)
  BY <1>12, <1>g DEF NspRemove
<1>13. CASE ClientRemove(w)
  <2>1. /\ work[w].pc = "clientRemove" /\ work'[w].pc = "disconnect"
        /\ work'[w].loop = work[w].loop /\ work'[w].sock = work[w].sock
    BY <1>13, <1>g DEF ClientRemove
  <2>2. PICK s \in Socket : s = work[w].sock /\ NspOf[s] \in Nsp
    BY <2>1, NspAssumption
  <2>3. ready = "open" => cNsps'[NspOf[s]] # s
    BY <1>13, <2>2, NoneAssumption
    DEF ClientRemove, ServedInv, RouteOK, TypeInv, TablesOK
  <2>. QED
    BY <2>1, <2>2, <2>3
<1>14. CASE Disconnect(w)
  BY <1>14, <1>c DEF Disconnect
<1>. QED
  BY <1>2, <1>3, <1>4, <1>5, <1>6, <1>7, <1>8, <1>9, <1>10, <1>11, <1>12,
     <1>13, <1>14 DEF Work

LEMMA WorkServed ==
  ASSUME ServedInv, NEW w \in Worker, Work(w)
  PROVE  ServedInv'
<1>0. TypeInv /\ TypeInv'
  BY WorkType DEF ServedInv
<1>t. /\ cSockets \subseteq Socket /\ connected \subseteq Socket
      /\ cNsps \in [Nsp -> Socket \cup {None}] /\ NspOf \in [Socket -> Nsp]
      /\ \A v \in Worker : work[v].pc \in ClosingSteps \cup {"check", "delete"}
                             => work[v].sock \in Socket
  BY <1>0, NspAssumption DEF TypeInv, TablesOK, WorkOK, LocalOK
<1>a. /\ \A v \in Worker : v # w => work'[v] = work[v]
      /\ pc' = pc /\ inRooms' \subseteq inRooms /\ cSockets' \subseteq cSockets
      /\ ready' = "open" => ready = "open"
      /\ \A n \in Nsp : cNsps'[n] \in {cNsps[n], None}
  BY <1>0, WorkShrinks
<1>k. LateOK(work[w]) /\ OpenOK(work[w])
  BY DEF ServedInv
<1>b. \/ connected' = connected
      \/ Disconnect(w) /\ connected' = connected \ {work[w].sock}
  BY DEF Work, ReadReadyState, ConnClose, Destroy, RangeStart, RangeVisit, RangeEnd,
     DeleteKey, Check, LeaveAll, ForbidJoin, NspRemove, ClientRemove, Disconnect, tables
<1>c. \/ UNCHANGED <<cSockets, cNsps>>
      \/ DeleteKey(w)
      \/ /\ ClientRemove(w) /\ cSockets' = cSockets \ {work[w].sock}
         /\ cNsps' = [cNsps EXCEPT ![NspOf[work[w].sock]] = None]
  BY DEF Work, ReadReadyState, ConnClose, Destroy, RangeStart, RangeVisit, RangeEnd,
     DeleteKey, Check, LeaveAll, ForbidJoin, NspRemove, ClientRemove, Disconnect, tables
<1>1. StoredOK'
  <2>1. Disconnect(w) => pc[work[w].sock] \in Late
    BY <1>k DEF Disconnect, At, LateOK, ClosingSteps
  <2>. QED
    BY <1>t, <1>a, <1>b, <2>1 DEF ServedInv, StoredOK, Late
<1>2. RouteOK'
  <2> SUFFICES ASSUME ready = "open", ready' = "open" PROVE RouteOK'
    BY <1>a DEF RouteOK
  <2>1. ~DeleteKey(w)
    BY <1>k DEF DeleteKey, At, OpenOK
  <2>2. ClientRemove(w) \/ Disconnect(w) =>
          work[w].sock \in Socket /\ pc[work[w].sock] # "storeNsp"
    BY <1>t, <1>k DEF ClientRemove, Disconnect, At, OpenOK, ClosingSteps, Routed
  <2>3. (\A n \in Nsp : cNsps[n] # None => cNsps[n] \in cSockets)'
    BY <1>t, <1>a, <1>c, <2>1, <2>2 DEF ServedInv, RouteOK, StoredOK
  <2>4. (\A s \in Socket : pc[s] = "storeNsp" => s \in cSockets \cap connected)'
    BY <1>t, <1>a, <1>b, <1>c, <2>1, <2>2 DEF ServedInv, RouteOK
  <2>. QED
    BY <2>3, <2>4 DEF RouteOK
<1>3. DeadIsInNoRoom'
  <2>1. Disconnect(w) => work[w].sock \notin inRooms
    BY <1>k DEF Disconnect, At, LateOK, ClosingSteps
  <2>. QED
    BY <1>a, <1>b, <2>1 DEF ServedInv, DeadIsInNoRoom
<1>4. RouteIsLive'
  <2> SUFFICES ASSUME ready = "open", NEW n \in Nsp, cNsps'[n] # None
               PROVE  (cNsps[n] \in connected \/ UnderClose(cNsps[n]))'
    BY <1>a DEF RouteIsLive
  <2>1. cNsps'[n] = cNsps[n] /\ NspOf[cNsps[n]] = n
    BY <1>a DEF ServedInv, StoredOK
  <2>2. CASE cNsps[n] \in connected
    <3>1. Disconnect(w) => work[w].sock # cNsps[n]
      BY <1>k, <2>1 DEF Disconnect, At, OpenOK
    <3>. QED
      BY <1>b, <2>1, <2>2, <3>1
  <2>3. CASE cNsps[n] \notin connected
    <3>1. PICK v \in Worker : work[v].sock = cNsps[n] /\ work[v].pc \in ClosingSteps
      BY <2>1, <2>3 DEF ServedInv, RouteIsLive, UnderClose
    <3>2. CASE v # w
      BY <1>a, <2>1, <3>1, <3>2 DEF UnderClose
    <3>3. CASE v = w
      <4>1. ~Disconnect(w)
        BY <1>k, <2>1, <3>1, <3>3 DEF Disconnect, At, OpenOK
      <4>2. \E step \in ClosingSteps : Goto(w, step)
        BY <3>1, <3>3, <4>1
        DEF Work, ReadReadyState, ConnClose, Destroy, RangeStart, RangeVisit, RangeEnd,
            DeleteKey, Check, LeaveAll, ForbidJoin, NspRemove, ClientRemove, At,
            ClosingSteps
      <4>3. work'[w].sock = work[w].sock /\ work'[w].pc \in ClosingSteps
        <5>1. PICK step \in ClosingSteps : work' = [work EXCEPT ![w].pc = step]
          BY <4>2 DEF Goto
        <5>. QED
          BY <1>0, <5>1 DEF TypeInv, WorkOK, Locals
      <4>. QED
        BY <2>1, <3>1, <3>3, <4>3 DEF UnderClose
    <3>. QED
      BY <3>2, <3>3
  <2>. QED
    BY <2>2, <2>3
<1>5. ASSUME NEW v \in Worker PROVE LateOK(work[v])' /\ OpenOK(work[v])'
  <2>1. CASE v = w
    BY <2>1, WorkKnows
  <2>2. CASE v # w
    <3>1. LateOK(work[v]) /\ OpenOK(work[v]) /\ work'[v] = work[v]
      BY <1>a, <2>2 DEF ServedInv
    <3>2. LateOK(work[v])'
      BY <1>a, <3>1 DEF LateOK
    <3>3. \A s \in Socket : cNsps[NspOf[s]] # s => cNsps'[NspOf[s]] # s
      BY <1>t, <1>a, NoneAssumption
    <3>4. OpenOK(work[v])'
      BY <1>t, <1>a, <3>1, <3>3 DEF OpenOK, ClosingSteps
    <3>. QED
      BY <3>2, <3>4
  <2>. QED
    BY <2>1, <2>2
<1>. QED
  BY <1>0, <1>1, <1>2, <1>3, <1>4, <1>5 DEF ServedInv
LEMMA StartServed ==
  ASSUME NoServer, ServedInv, TransportClose \/ \E w \in Worker : Starts(w)
  PROVE  ServedInv'
<1>1. /\ UNCHANGED <<cSockets, cNsps, inRooms, connected, pc>>
      /\ ready' = "open" => ready = "open" /\ ~TransportClose
  BY DEF Starts, TransportClose, TimerFires, InvalidState, DisconnectPacket,
     ServerDisconnect, ServerClose, tables, transport
<1>2. \/ work' = work
      \/ \E v \in Worker : \E step \in {"destroy", "readyState"} :
           /\ step = "destroy" => ready' # "open"
           /\ Start(v, Local(step, "once", {}, None))
      \/ \E v \in Worker, s \in greeted :
           cNsps[NspOf[s]] = s /\ Start(v, Local("check", "once", {}, s))
  BY DEF NoServer, Starts, TransportClose, TimerFires, InvalidState, DisconnectPacket,
     ServerDisconnect, ServerClose, Closing
<1>0. TypeInv'
  <2>1. ASSUME Worker = {}, TransportClose PROVE TypeInv'
    BY <2>1 DEF ServedInv, TypeInv, TablesOK, WorkOK, TransportClose, tables
  <2>. QED
    BY <2>1, StartType DEF ServedInv, Starts
<1>3. ASSUME NEW v \in Worker, NEW step \in {"destroy", "readyState", "check"},
             NEW sock, Start(v, Local(step, "once", {}, sock)),
             step = "destroy" => ready' # "open",
             step = "check" => sock \in Socket /\ pc[sock] \in Routed
      PROVE  /\ \A u \in Worker : LateOK(work[u])' /\ OpenOK(work[u])'
             /\ \A s \in Socket : UnderClose(s) => UnderClose(s)'
  <2>1. /\ work[v].pc \notin ClosingSteps
        /\ work'[v].pc = step /\ work'[v].loop = "once" /\ work'[v].sock = sock
        /\ \A u \in Worker : u # v => work'[u] = work[u]
    <3>1. work[v] = Free /\ work' = [work EXCEPT ![v] = Local(step, "once", {}, sock)]
      BY <1>3 DEF Start, Become
    <3>. QED
      BY <3>1, FreeIsOutside DEF ServedInv, TypeInv, WorkOK, Local
  <2>2. LateOK(work[v])' /\ OpenOK(work[v])'
    BY <1>1, <1>3, <2>1 DEF LateOK, OpenOK, Late, Routed, ClosingSteps
  <2>3. ASSUME NEW u \in Worker, u # v PROVE LateOK(work[u])' /\ OpenOK(work[u])'
    BY <1>1, <2>1, <2>3 DEF ServedInv, LateOK, OpenOK
  <2>4. \A s \in Socket : UnderClose(s) => UnderClose(s)'
    BY <2>1 DEF UnderClose
  <2>. QED
    BY <2>2, <2>3, <2>4
<1>4. /\ \A u \in Worker : LateOK(work[u])' /\ OpenOK(work[u])'
      /\ \A s \in Socket : UnderClose(s) => UnderClose(s)'
  <2>1. CASE work' = work
    BY <1>1, <2>1 DEF ServedInv, LateOK, OpenOK, UnderClose
  <2>2. CASE \E v \in Worker : \E step \in {"destroy", "readyState"} :
               /\ step = "destroy" => ready' # "open"
               /\ Start(v, Local(step, "once", {}, None))
    BY <1>3, <2>2
  <2>3. CASE \E v \in Worker, s \in greeted :
               cNsps[NspOf[s]] = s /\ Start(v, Local("check", "once", {}, s))
    <3>1. PICK v \in Worker, s \in greeted :
                 cNsps[NspOf[s]] = s /\ Start(v, Local("check", "once", {}, s))
      BY <2>3
    <3>2. s \in Socket /\ pc[s] \in Routed
      BY <3>1, NspAssumption, NoneAssumption
      DEF ServedInv, TypeInv, TablesOK, StoredOK
    <3>. QED
      BY <1>3, <3>1, <3>2
  <2>. QED
    BY <1>2, <2>1, <2>2, <2>3
<1>5. StoredOK' /\ RouteOK' /\ DeadIsInNoRoom'
  BY <1>1 DEF ServedInv, StoredOK, RouteOK, DeadIsInNoRoom
<1>6. RouteIsLive'
  BY <1>1, <1>4 DEF ServedInv, RouteIsLive, TypeInv, TablesOK
<1>. QED
  BY <1>0, <1>4, <1>5, <1>6 DEF ServedInv

LEMMA NextServed ==
  ASSUME NoServer, ServedInv, [Next]_vars
  PROVE  ServedInv'
<1>1. CASE UNCHANGED vars
  BY <1>1 DEF vars, transport, tables, ServedInv, TypeInv, TablesOK, WorkOK,
     LocalOK, StoredOK, RouteOK, DeadIsInNoRoom, RouteIsLive, UnderClose, LateOK, OpenOK
<1>2. CASE Next
  BY <1>2, ConnectServed, WorkServed, StartServed DEF Next, Starts
<1>. QED
  BY <1>1, <1>2

(* As long as no server code disconnects sockets, a socket that was rejected *)
(* or closed is in no room of the adapter: _onclose reaches it only once     *)
(* _onconnect has joined its own room, so _cleanup finds every room it is in.*)
THEOREM DeadInNoRoom ==
  ASSUME NoServer
  PROVE  Spec => []DeadIsInNoRoom
<1>1. ServedInv => DeadIsInNoRoom
  BY DEF ServedInv
<1>2. ServedInv /\ [Next]_vars => ServedInv'
  BY NextServed
<1>. QED
  BY InitServed, <1>1, <1>2, PTL DEF Spec

(* Under the same condition client.nsps routes the packets of an open        *)
(* transport to a connected socket, or to one whose _onclose is under way:   *)
(* client.remove takes the route away before connected becomes false.        *)
THEOREM RouteLive ==
  ASSUME NoServer
  PROVE  Spec => []RouteIsLive
<1>1. ServedInv => RouteIsLive
  BY DEF ServedInv
<1>2. ServedInv /\ [Next]_vars => ServedInv'
  BY NextServed
<1>. QED
  BY InitServed, <1>1, <1>2, PTL DEF Spec
=============================================================================
