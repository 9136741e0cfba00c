--------------------------- MODULE SessionRecovery ---------------------------
(***************************************************************************)
(* Connection state recovery (session-aware-adapter.go).  One client loses *)
(* its connections and opens new ones; the connections are numbered in the *)
(* order it opens them.  A socket's id and private id are those of the     *)
(* connection it was born with, and pass to the connections that restore   *)
(* it.  Packets are broadcast meanwhile, sessions and packets expire.      *)
(*                                                                         *)
(* Packets that ask for an acknowledgement and volatile ones are neither   *)
(* stored nor given an offset: they change nothing here and are left out.  *)
(***************************************************************************)
EXTENDS Naturals, Sequences, FiniteSets, SequencesExt

CONSTANTS
  Conn,        \* connections of the client, 1 .. N
  Room,        \* rooms, among them
  OwnRoom,     \* the room named after the socket
  Opts,        \* the options of the broadcasts: [rooms, except]
  Duration,    \* maxDisconnectionDuration
  MaxPackets,  \* bound on the packets broadcast
  MaxBusy,     \* bound on the connections the server serves at a time
  MaxTime,     \* bound on the clock
  None

Session == [rooms : SUBSET Room, at : Nat]
Packet == [id : 1 .. MaxPackets, at : Nat, opts : Opts]

ASSUME ConnAssumption == IsFiniteSet(Conn) /\ Conn = 1 .. Cardinality(Conn)
ASSUME OptsAssumption == Opts \subseteq [rooms : SUBSET Room, except : SUBSET Room]
ASSUME BoundAssumption == {Duration, MaxPackets, MaxBusy, MaxTime} \subseteq Nat
ASSUME NoneAssumption == None \notin Conn /\ None \notin Session /\ None \notin Packet
ASSUME RoomAssumption == OwnRoom \in Room

VARIABLES
  now,         \* the clock
  sent,        \* how many packets were broadcast; they are numbered by it
  log,         \* packets: the stored packets, oldest first
  delivering,  \* the packet being delivered while mu_packets is held, or None
  sessions,    \* private id -> persisted session, or None
  doomed,      \* the private id the interval is about to delete, or None
  rooms,       \* socket id -> its rooms in the adapter
  sockets,     \* socket id -> the connection of the socket the namespace tracks
  pc,          \* connection -> where its goroutine is
  born,        \* connection -> the id of its socket, or the one it wants restored
  offset,      \* connection -> the last packet before it, as the client tells
  held,        \* connection -> the session it loaded
  open,        \* the connection the client has, or None
  wire,        \* the packets written to it that the client has not processed
  pid,         \* the private id the client knows, or None
  got,         \* the packets the client processed; the last is its offset
  owed,        \* history: the packets the client must not miss
  overlap,     \* history: it reconnected before its old socket was closed
  crossed,     \* history: a session was persisted whose predecessor, found expired,
               \* was about to be deleted
  leftAt       \* history: when its last session was persisted

clock == <<now, sent>>
store == <<log, delivering, sessions, doomed>>
tables == <<rooms, sockets>>
conns == <<pc, born, offset, held>>
client == <<open, wire, pid, got>>
history == <<owed, overlap, crossed, leftAt>>
vars == <<clock, store, tables, conns, client, history>>

TypeOK ==
  /\ now \in 0 .. MaxTime /\ sent \in 0 .. MaxPackets
  /\ log \in Seq(Packet) /\ delivering \in Packet \cup {None}
  /\ sessions \in [Conn -> Session \cup {None}] /\ doomed \in Conn \cup {None}
  /\ rooms \in [Conn -> SUBSET Room]
  /\ sockets \in [Conn -> Conn \cup {None}]
  /\ pc \in [Conn -> {"new", "load", "expired", "read", "fresh", "run", "live",
                      "cleanup", "remove", "gone"}]
  /\ born \in [Conn -> Conn \cup {None}] /\ offset \in [Conn -> 0 .. MaxPackets]
  /\ held \in [Conn -> Session \cup {None}]
  /\ open \in Conn \cup {None} /\ pid \in Conn \cup {None}
  /\ wire \in Seq(Packet) /\ got \in Seq(Packet)
  /\ owed \subseteq 1 .. MaxPackets /\ leftAt \in Nat
  /\ overlap \in BOOLEAN /\ crossed \in BOOLEAN

Init ==
  /\ now = 0 /\ sent = 0 /\ log = <<>> /\ delivering = None
  /\ sessions = [p \in Conn |-> None] /\ doomed = None
  /\ rooms = [s \in Conn |-> {}] /\ sockets = [s \in Conn |-> None]
  /\ pc = [k \in Conn |-> "new"]
  /\ born = [k \in Conn |-> None] /\ offset = [k \in Conn |-> 0]
  /\ held = [k \in Conn |-> None]
  /\ open = None /\ wire = <<>> /\ pid = None /\ got = <<>>
  /\ owed = {} /\ overlap = FALSE /\ crossed = FALSE /\ leftAt = 0

(***************************************************************************)
(* Helpers                                                                 *)
(***************************************************************************)
Expired(at) == at + Duration < now

\* shouldIncludePacket: a packet to nobody in particular is for everybody.
ShouldIncludePacket(rs, o) ==
  /\ o.rooms = {} \/ o.rooms \cap rs # {}
  /\ o.except \cap rs = {}

Latest == Cardinality({k \in Conn : pc[k] # "new"})

Closed(k) == pc[k] \in {"new", "gone"}

\* The rooms by which a packet is the client's, at this moment: those of its
\* socket until they are persisted, then those of the session.  From the moment
\* a new connection has read the log to the moment its socket is tracked no
\* packet is for it, which is a weakness of the code (see RecoveredMissesNothing).
Claim ==
  LET k == Latest IN
  IF k = 0 \/ pc[k] \in {"fresh", "run"} THEN {}
  ELSE IF pc[k] = "live" THEN rooms[born[k]]
  ELSE IF pid # None /\ sessions[pid] # None THEN sessions[pid].rooms
  ELSE {}

(***************************************************************************)
(* The client                                                              *)
(***************************************************************************)
\* The client opens a connection and sends CONNECT, with its private id and
\* offset if it has them.
Open(k) ==
  /\ open = None /\ k = Latest + 1 /\ Cardinality({j \in Conn : ~Closed(j)}) < MaxBusy
  /\ open' = k
  /\ IF pid # None /\ got # <<>>
       THEN /\ pc' = [pc EXCEPT ![k] = "load"]
            /\ born' = [born EXCEPT ![k] = pid]
            /\ offset' = [offset EXCEPT ![k] = Last(got).id]
       ELSE /\ pc' = [pc EXCEPT ![k] = "fresh"]
            /\ UNCHANGED <<born, offset>>
  /\ overlap' = (overlap \/ \E j \in Conn : ~Closed(j))
  /\ owed' = IF k > 1 /\ born[k - 1] # pid THEN {} ELSE owed
  /\ UNCHANGED <<clock, store, tables, held, wire, pid, got, crossed, leftAt>>

\* The client learns its private id from the CONNECT packet.
Welcome ==
  /\ open # None /\ pc[open] = "live" /\ pid # born[open]
  /\ pid' = born[open]
  /\ UNCHANGED <<clock, store, tables, conns, open, wire, got, history>>

\* It processes a packet; those that come before CONNECT it keeps until then.
Receive ==
  /\ open # None /\ pc[open] = "live" /\ pid = born[open] /\ wire # <<>>
  /\ got' = Append(got, Head(wire)) /\ wire' = Tail(wire)
  /\ UNCHANGED <<clock, store, tables, conns, open, pid, history>>

\* The connection breaks, and what was on its way is lost.
Lose ==
  /\ open # None
  /\ open' = None /\ wire' = <<>>
  /\ UNCHANGED <<clock, store, tables, conns, pid, got, history>>

(***************************************************************************)
(* Connecting                                                              *)
(***************************************************************************)
\* RestoreSession finds the session, unless there is none or it expired ...
Load(k) ==
  LET session == sessions[born[k]] IN
  /\ pc[k] = "load"
  /\ IF session # None /\ ~Expired(session.at)
       THEN /\ pc' = [pc EXCEPT ![k] = "read"]
            /\ held' = [held EXCEPT ![k] = session]
       ELSE /\ pc' = [pc EXCEPT ![k] = IF session = None THEN "fresh" ELSE "expired"]
            /\ UNCHANGED held
  /\ UNCHANGED <<clock, store, tables, born, offset, client, history>>

\* ... in which case what is stored by then is deleted.
DeleteSession(k) ==
  /\ pc[k] = "expired"
  /\ pc' = [pc EXCEPT ![k] = "fresh"]
  /\ sessions' = [sessions EXCEPT ![born[k]] = None]
  /\ UNCHANGED <<clock, log, delivering, doomed, tables, born, offset, held, client, history>>

\* A bug: the packet after the offset is skipped.
Missed_OneLater(k, index) ==
  LET missed[i \in index .. Len(log)] ==
        IF i = index THEN <<>>
        ELSE IF i # index + 1 /\ ShouldIncludePacket(held[k].rooms, log[i].opts)
          THEN Append(missed[i - 1], log[i]) ELSE missed[i - 1]
  IN missed[Len(log)]

\* RestoreSession collects, from the packets that follow the offset, those for
\* the rooms of the session.
Missed(k, index) ==
  LET missed[i \in index .. Len(log)] ==
        IF i = index THEN <<>>
        ELSE IF ShouldIncludePacket(held[k].rooms, log[i].opts)
          THEN Append(missed[i - 1], log[i]) ELSE missed[i - 1]
  IN missed[Len(log)]

\* A bug: the log is read without mu_packets.
Restore_WithoutLock(k) ==
  /\ pc[k] = "read"
  /\ \E index \in DOMAIN log :
       /\ log[index].id = offset[k]
       /\ wire' = IF open = k THEN wire \o Missed(k, index) ELSE wire
  /\ rooms' = [rooms EXCEPT ![born[k]] = @ \cup held[k].rooms]
  /\ pc' = [pc EXCEPT ![k] = "run"]
  /\ held' = [held EXCEPT ![k] = None]
  /\ UNCHANGED <<clock, store, sockets, born, offset, open, pid, got, history>>

\* NewSocket joins the rooms of the session and writes those packets.
Restore(k) ==
  /\ pc[k] = "read" /\ delivering = None
  /\ \E index \in DOMAIN log :
       /\ log[index].id = offset[k]
       /\ wire' = IF open = k THEN wire \o Missed(k, index) ELSE wire
  /\ rooms' = [rooms EXCEPT ![born[k]] = @ \cup held[k].rooms]
  /\ pc' = [pc EXCEPT ![k] = "run"]
  /\ held' = [held EXCEPT ![k] = None]
  /\ UNCHANGED <<clock, store, sockets, born, offset, open, pid, got, history>>

OffsetNotFound(k) ==
  /\ pc[k] = "read" /\ delivering = None
  /\ \A i \in DOMAIN log : log[i].id # offset[k]
  /\ pc' = [pc EXCEPT ![k] = "fresh"]
  /\ held' = [held EXCEPT ![k] = None]
  /\ UNCHANGED <<clock, store, tables, born, offset, client, history>>

\* NewSocket without a session: new ids.
Fresh(k) ==
  /\ pc[k] = "fresh"
  /\ born' = [born EXCEPT ![k] = k]
  /\ pc' = [pc EXCEPT ![k] = "run"]
  /\ owed' = IF k = Latest THEN {} ELSE owed
  /\ overlap' = (overlap /\ k # Latest)
  /\ UNCHANGED <<clock, store, tables, offset, held, client, crossed, leftAt>>

\* Who joins or leaves a room is no longer owed what he is not entitled to.
StillOwed(rs) ==
  {id \in owed : \A i \in DOMAIN log :
     log[i].id = id => ShouldIncludePacket(rs, log[i].opts)}

\* The middlewares are done: the socket is tracked and connected.
DoConnect(k) ==
  LET joined == rooms[born[k]] \cup {OwnRoom} IN
  /\ pc[k] = "run" /\ open = k
  /\ sockets' = [sockets EXCEPT ![born[k]] = k]
  /\ rooms' = [rooms EXCEPT ![born[k]] = joined]
  /\ pc' = [pc EXCEPT ![k] = "live"]
  /\ owed' = StillOwed(joined)
  /\ UNCHANGED <<clock, store, born, offset, held, client, overlap, crossed, leftAt>>

\* The connection was closed before that.
Abandon(k) ==
  /\ pc[k] = "run" /\ open # k
  /\ rooms' = [rooms EXCEPT ![born[k]] = {}]
  /\ pc' = [pc EXCEPT ![k] = "gone"]
  /\ UNCHANGED <<clock, store, sockets, born, offset, held, client, history>>

(***************************************************************************)
(* Being connected and closing                                             *)
(***************************************************************************)
Join(k, r) ==
  LET joined == rooms[born[k]] \cup {r} IN
  /\ pc[k] \in {"live", "cleanup"} /\ r \notin rooms[born[k]]
  /\ rooms' = [rooms EXCEPT ![born[k]] = joined]
  /\ owed' = IF k = Latest /\ pc[k] = "live" THEN StillOwed(joined) ELSE owed
  /\ UNCHANGED <<clock, store, sockets, conns, client, overlap, crossed, leftAt>>

Leave(k, r) ==
  LET left == rooms[born[k]] \ {r} IN
  /\ pc[k] = "live" /\ r \in rooms[born[k]] \ {OwnRoom}
  /\ rooms' = [rooms EXCEPT ![born[k]] = left]
  /\ owed' = IF k = Latest THEN StillOwed(left) ELSE owed
  /\ UNCHANGED <<clock, store, sockets, conns, client, overlap, crossed, leftAt>>

\* _onclose, for a reason that is recoverable.
PersistSession(k) ==
  /\ pc[k] = "live" /\ open # k
  /\ sessions' = [sessions EXCEPT ![born[k]] = [rooms |-> rooms[born[k]], at |-> now]]
  /\ pc' = [pc EXCEPT ![k] = "cleanup"]
  /\ leftAt' = IF born[k] = pid THEN now ELSE leftAt
  /\ crossed' = (crossed \/ doomed = born[k] \/
                   \E j \in Conn : pc[j] = "expired" /\ born[j] = born[k])
  /\ UNCHANGED <<clock, log, delivering, doomed, tables, born, offset, held, client, owed,
                 overlap>>

Cleanup(k) ==
  /\ pc[k] = "cleanup"
  /\ rooms' = [rooms EXCEPT ![born[k]] = {}]
  /\ pc' = [pc EXCEPT ![k] = "remove"]
  /\ UNCHANGED <<clock, store, sockets, born, offset, held, client, history>>

Untrack(k) ==
  /\ pc[k] = "remove"
  /\ sockets' = [sockets EXCEPT ![born[k]] = None]
  /\ pc' = [pc EXCEPT ![k] = "gone"]
  /\ UNCHANGED <<clock, store, rooms, born, offset, held, client, history>>

(***************************************************************************)
(* Broadcasts, which hold mu_packets from storing the packet to having     *)
(* delivered it, and the interval                                          *)
(***************************************************************************)
Store(o) ==
  LET packet == [id |-> sent + 1, at |-> now, opts |-> o] IN
  /\ delivering = None /\ sent < MaxPackets
  /\ sent' = sent + 1
  /\ log' = Append(log, packet)
  /\ delivering' = packet
  /\ owed' = IF Claim # {} /\ ShouldIncludePacket(Claim, o)
               THEN owed \cup {sent + 1} ELSE owed
  /\ UNCHANGED <<now, sessions, doomed, tables, conns, client, overlap, crossed, leftAt>>

Reached(o) ==
  {k \in Conn : \E s \in Conn :
     sockets[s] = k /\ rooms[s] # {} /\ ShouldIncludePacket(rooms[s], o)}

Deliver ==
  /\ delivering # None
  /\ wire' = IF open \in Reached(delivering.opts) THEN Append(wire, delivering)
             ELSE wire
  /\ delivering' = None
  /\ UNCHANGED <<clock, log, sessions, doomed, tables, conns, open, pid, got, history>>

\* The interval finds an expired session ...
IntervalTest(p) ==
  /\ doomed = None /\ sessions[p] # None /\ Expired(sessions[p].at)
  /\ doomed' = p
  /\ UNCHANGED <<clock, log, delivering, sessions, tables, conns, client, history>>

\* ... and deletes what is stored under its id by then.
IntervalDelete ==
  /\ doomed # None
  /\ sessions' = [sessions EXCEPT ![doomed] = None]
  /\ doomed' = None
  /\ UNCHANGED <<clock, log, delivering, tables, conns, client, history>>

\* A bug: one packet more than the expired ones is dropped.
DropExpired_OneMore ==
  LET expired == {i \in DOMAIN log : Expired(log[i].at)}
      first == CHOOSE i \in expired \cup {0} : \A j \in expired \cup {0} : i <= j
  IN log' = IF log = <<>> THEN log ELSE SubSeq(log, first + 2, Len(log))

\* The packets up to the first expired one go.
DropExpired ==
  LET expired == {i \in DOMAIN log : Expired(log[i].at)}
      first == CHOOSE i \in expired : \A j \in expired : i <= j
  IN log' = IF expired = {} THEN log ELSE SubSeq(log, first + 1, Len(log))

\* When it is through with the sessions, it drops packets, under mu_packets.
IntervalDrop ==
  /\ doomed = None /\ delivering = None
  /\ DropExpired
  /\ UNCHANGED <<clock, delivering, sessions, doomed, tables, conns, client, history>>

Interval == (\E p \in Conn : IntervalTest(p)) \/ IntervalDelete \/ IntervalDrop

Tick ==
  /\ now < MaxTime
  /\ now' = now + 1
  /\ UNCHANGED <<sent, store, tables, conns, client, history>>

Serve(k) ==
  \/ Load(k) \/ DeleteSession(k) \/ Restore(k) \/ OffsetNotFound(k) \/ Fresh(k)
  \/ DoConnect(k) \/ Abandon(k)
  \/ PersistSession(k) \/ Cleanup(k) \/ Untrack(k)

Next ==
  \/ \E k \in Conn : Open(k) \/ Serve(k) \/ \E r \in Room : Join(k, r) \/ Leave(k, r)
  \/ Welcome \/ Receive \/ Lose
  \/ \E o \in Opts : Store(o)
  \/ Deliver \/ Interval \/ Tick

Spec == Init /\ [][Next]_vars

(***************************************************************************)
(* Properties                                                              *)
(***************************************************************************)
\* A client processes each packet once and in the order of the broadcasts, over
\* all its connections: mu_packets is held until a packet is delivered, so that a
\* restore sees it either not at all or delivered already.
InOrderOnce == \A i, j \in DOMAIN got : i < j => got[i].id < got[j].id

\* A client that is connected has processed, or is being sent, every packet that
\* was its own since its socket was born, however often the connection broke: the
\* offset, the log and the rooms of the session bridge the gaps.  It may miss
\* packets that were broadcast between reading the log (RestoreSession) and
\* tracking the socket (_doConnect), and it may miss any if it reconnected before
\* the old socket was closed, whose clean-up then hits the new one.
RecoveredMissesNothing ==
  open # None /\ pc[open] = "live" /\ ~overlap =>
    owed \subseteq {p.id : p \in ToSet(got) \cup ToSet(wire) \cup ({delivering} \ {None})}

\* A connection gets a new session only if there is none to restore: the client
\* has no private id or no offset, it was away or without a packet for longer
\* than maxDisconnectionDuration, it reconnected before its old socket was closed,
\* or the deletion of an expired session hit one persisted under its id since.
\* The interval must not delete a session or a packet too early otherwise.
FreshIsJustified ==
  [][\A k \in Conn : pc[k] # "fresh" /\ pc'[k] = "fresh" /\ open' = k =>
       \/ pid = None \/ got = <<>> \/ overlap' \/ crossed
       \/ Expired(leftAt) \/ Expired(Last(got).at)]_vars
=============================================================================
