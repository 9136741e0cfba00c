------------------------- MODULE SessionRecoveryProofs -------------------------
(***************************************************************************)
(* What SessionRecovery guarantees for any number of connections, rooms    *)
(* and packets, and however long a session lasts.                          *)
(***************************************************************************)
EXTENDS SessionRecovery, FiniteSetTheorems, SequenceTheorems, TLAPS

(* The numbers of the packets of a sequence, and that they are in order.     *)
Ids(s) == {s[i].id : i \in DOMAIN s}

Increasing(s) == \A i, j \in DOMAIN s : i < j => s[i].id < s[j].id

(* The connections opened so far are the first ones, and the client has none *)
(* but the newest.                                                           *)
OpenedOK ==
  /\ \A k \in Conn : pc[k] = "new" <=> k > Latest
  /\ open \in {None, Latest}

(* Where a connection is once its socket is made, and what it has by then.   *)
Past == {"run", "live", "cleanup", "remove", "gone"}

StageOK ==
  /\ \A k \in Conn : pc[k] \in Past \cup {"load", "expired", "read"} => born[k] # None
  /\ \A k \in Conn : pc[k] = "read" => held[k] # None
  /\ \A s \in Conn : sockets[s] # None => pc[sockets[s]] \in Past \ {"run"}

(* The stored packets are the last ones that were broadcast, without a gap   *)
(* and by their age; the one being delivered is the newest.                  *)
LogOK ==
  /\ Len(log) <= sent
  /\ \A i \in DOMAIN log : log[i].id = sent - Len(log) + i /\ log[i].at <= now
  /\ \A i, j \in DOMAIN log : i < j => log[i].at <= log[j].at
  /\ delivering # None => log # <<>> /\ delivering = log[Len(log)]

(* What is written to the client comes after what it processed, and before   *)
(* the packet being delivered.                                               *)
OrderOK ==
  /\ Increasing(got) /\ Increasing(wire)
  /\ \A i \in DOMAIN got, j \in DOMAIN wire : got[i].id < wire[j].id
  /\ \A id \in Ids(got) \cup Ids(wire) :
       id <= sent /\ (delivering # None => id < delivering.id)

(* The client has no packet on its way without a connection, nor while it is *)
(* restored: the offset it asked with is still that of its last packet.      *)
OffsetOK ==
  /\ open = None => wire = <<>>
  /\ \A k \in Conn : k = Latest /\ pc[k] \in {"load", "expired", "read"} =>
       /\ wire = <<>> /\ born[k] = pid
       /\ got # <<>> /\ offset[k] = got[Len(got)].id

(* What the client has got is still stored, or has expired.                  *)
Kept(p) == Expired(p.at) \/ \E i \in DOMAIN log : log[i] = p
KeptOK ==
  /\ \A i \in DOMAIN got : Kept(got[i])
  /\ \A i \in DOMAIN wire : Kept(wire[i])

(* A connection that has no socket of its own yet is unknown by its own id.  *)
Unborn == {"new", "load", "expired", "read", "fresh"}
BornOK ==
  \A k \in Conn : pc[k] \in Unborn =>
    /\ pc[k] = "new" => born[k] = None
    /\ pid # k /\ sessions[k] = None
    /\ \A j \in Conn : born[j] # k

(* A socket is in rooms only while a connection serves it.                   *)
RoomsOK ==
  \A s \in Conn : rooms[s] # {} =>
    \E j \in Conn : born[j] = s /\ pc[j] \in {"run", "live", "cleanup"}

(* Unless the client came back too early, no other connection has its        *)
(* socket.                                                                   *)
Solo ==
  ~overlap => \A j, k \in Conn :
    k = Latest /\ j # k => Closed(j) \/ born[j] # born[k]

(* Unless it expired, the session of the id the client knows is stored, or   *)
(* its socket still connected; one that the client knows nothing of is not   *)
(* stored.                                                                   *)
SessionOK ==
  /\ pid # None => \/ Expired(leftAt) \/ crossed
                   \/ sessions[pid] # None
                   \/ \E j \in Conn : born[j] = pid /\ pc[j] = "live"
  /\ pid # None /\ sessions[pid] # None => sessions[pid].at = leftAt
  /\ \A k \in Conn : k = Latest /\ born[k] \notin {None, pid} =>
       /\ born[k] = k /\ (pc[k] \in {"run", "live"} => sessions[k] = None)
       /\ \A j \in Conn : j # k => born[j] # k

(* What is about to be deleted has expired, unless it was persisted since.   *)
DoomedOK ==
  ~crossed =>
    /\ doomed # None /\ sessions[doomed] # None => Expired(sessions[doomed].at)
    /\ \A k \in Conn : pc[k] = "expired" /\ sessions[born[k]] # None =>
         Expired(sessions[born[k]].at)

(* The client's connected socket is tracked and in the room named after it.  *)
LiveOK ==
  ~overlap => \A k \in Conn : k = Latest /\ pc[k] = "live" =>
    OwnRoom \in rooms[born[k]] /\ sockets[born[k]] = k

(* The stored packets that are due are for these rooms.                      *)
Owes(stored, due, rs) ==
  \A i \in DOMAIN stored :
    stored[i].id \in due => ShouldIncludePacket(rs, stored[i].opts)

(* What the client is owed of the stored packets is for the rooms by which   *)
(* it will be asked for: those of its socket, of the session read, or of the *)
(* one stored.                                                               *)
Mine(k) ==
  /\ pc[k] = "live" => Owes(log, owed, rooms[born[k]])
  /\ pc[k] = "read" => /\ Owes(log, owed, held[k].rooms)
                       /\ sessions[pid] \in {None, held[k]}
  /\ (/\ pc[k] \in (Past \ {"live"}) \cup {"load", "expired", "read"}
      /\ born[k] = pid /\ sessions[pid] # None)
     => Owes(log, owed, sessions[pid].rooms)

OwedMine == \A k \in Conn : k = Latest => Mine(k)

(* The client has all that it is owed up to any packet it has processed, as  *)
(* what it is sent comes in order.                                           *)
OwedGot ==
  \A id \in owed : (\E i \in DOMAIN got : id <= got[i].id) => id \in Ids(got)

(* Once restored, it has or is being sent all that it is owed.               *)
InWire ==
  /\ open # None /\ pc[open] = "run" => owed \subseteq Ids(got) \cup Ids(wire)
  /\ open # None /\ pc[open] = "live" => \A id \in owed :
       id \in Ids(got) \cup Ids(wire) \/ (delivering # None /\ id = delivering.id)

(* Nothing is owed that was not broadcast, or before the client's first      *)
(* connection.                                                               *)
OwedSent == \A id \in owed : id <= sent

NothingYet == Latest = 0 => owed = {}

OwedOK == ~overlap => OwedMine /\ OwedGot /\ InWire /\ OwedSent /\ NothingYet

-----------------------------------------------------------------------------
(* What RestoreSession collects *)

(* A set of natural numbers that is not empty has a least element; proofs by   *)
(* induction below are by a least counterexample.                              *)
LEMMA LeastNatural ==
  ASSUME NEW T, T \subseteq Nat, T # {}
  PROVE  \E m \in T : \A n \in T : m <= n
<1> DEFINE R == StrictSubsetOrdering(Nat)
           U == {0 .. n : n \in T}
<1>1. U \subseteq FiniteSubsetsOf(Nat)
  <2>1. ASSUME NEW n \in T PROVE 0 .. n \subseteq Nat /\ IsFiniteSet(0 .. n)
    <3>1. n \in Int /\ 0 \in Int
      OBVIOUS
    <3> QED
      BY <3>1, FS_Interval
  <2> QED
    BY <2>1 DEF FiniteSubsetsOf
<1>2. U # {}
  OBVIOUS
<1>3. IsWellFoundedOn(R, FiniteSubsetsOf(Nat))
  BY FS_StrictSubsetOrderingWellFounded
<1>4. PICK X \in U : \A Y \in U : ~(<<Y, X>> \in R)
  <2> HIDE DEF R, U
  <2> QED
    BY <1>1, <1>2, <1>3, WFMin
<1>5. PICK m \in T : X = 0 .. m
  OBVIOUS
<1>6. ASSUME NEW n \in T, ~(m <= n) PROVE FALSE
  <2>1. n \in Nat /\ m \in Nat /\ n < m
    BY <1>6
  <2>2. 0 .. n \subseteq 0 .. m /\ m \in 0 .. m /\ m \notin 0 .. n
    BY <2>1
  <2>3. <<0 .. n, 0 .. m>> \in R
    BY <2>1, <2>2 DEF StrictSubsetOrdering
  <2> QED
    BY <1>4, <1>5, <2>3
<1> QED
  BY <1>6

(* The packets collected from those between an index and n.                  *)
Collects(f, rs, index, n) ==
  f = [i \in index .. n |->
         IF i = index THEN <<>>
         ELSE IF ShouldIncludePacket(rs, log[i].opts)
           THEN Append(f[i - 1], log[i]) ELSE f[i - 1]]

LEMMA CollectsExists ==
  ASSUME NEW rs, NEW index \in Nat, NEW n \in Nat, index <= n
  PROVE  \E f : Collects(f, rs, index, n)
<1> DEFINE T == {i \in Nat : index <= i /\ \A f : ~Collects(f, rs, index, i)}
<1>1. SUFFICES ASSUME T # {} PROVE FALSE
  OBVIOUS
<1>2. PICK m \in T : \A i \in T : m <= i
  BY <1>1, LeastNatural
<1>3. CASE m = index
  <2> DEFINE f == [i \in index .. index |-> <<>>]
  <2>1. f = [i \in index .. index |->
               IF i = index THEN <<>>
               ELSE IF ShouldIncludePacket(rs, log[i].opts)
                 THEN Append(f[i - 1], log[i]) ELSE f[i - 1]]
    OBVIOUS
  <2> HIDE DEF f
  <2>2. Collects(f, rs, index, index)
    BY <2>1 DEF Collects
  <2> QED
    BY <1>3, <2>2
<1>4. CASE m # index
  <2>1. m - 1 \in Nat /\ index <= m - 1 /\ m - 1 \notin T
    BY <1>2, <1>4
  <2>2. PICK g : Collects(g, rs, index, m - 1)
    BY <2>1
  <2> DEFINE next == IF ShouldIncludePacket(rs, log[m].opts)
                       THEN Append(g[m - 1], log[m]) ELSE g[m - 1]
             f == [i \in index .. m |-> IF i = m THEN next ELSE g[i]]
             step(h, i) == IF i = index THEN <<>>
                           ELSE IF ShouldIncludePacket(rs, log[i].opts)
                             THEN Append(h[i - 1], log[i]) ELSE h[i - 1]
  <2>3. \A i \in index .. m - 1 : g[i] = step(g, i)
    BY <2>1, <2>2 DEF Collects
  <2>4. \A i \in index .. m - 1 : f[i] = g[i]
    BY <2>1
  <2>5. m \in index .. m /\ f[m] = next
    BY <2>1
  <2>6. f = [i \in index .. m |-> f[i]]
    OBVIOUS
  <2> HIDE DEF f
  <2>7. ASSUME NEW i \in index .. m PROVE f[i] = step(f, i)
    <3>1. CASE i = m
      <4>1. f[m - 1] = g[m - 1]
        BY <2>1, <2>4
      <4> QED
        BY <1>4, <2>5, <3>1, <4>1
    <3>2. CASE i # m
      <4>1. i \in index .. m - 1 /\ (i # index => i - 1 \in index .. m - 1)
        BY <2>1, <3>2
      <4> QED
        BY <2>3, <2>4, <4>1
    <3> QED
      BY <3>1, <3>2
  <2>8. Collects(f, rs, index, m)
    BY <2>6, <2>7 DEF Collects
  <2> QED
    BY <2>8
<1> QED
  BY <1>3, <1>4

(* A sequence of those packets, in their order, that are for the rooms.      *)
Collected(s, rs, index, n) ==
  /\ s \in Seq(Packet)
  /\ \A i \in DOMAIN s : \E j \in index + 1 .. n : s[i] = log[j]
  /\ \A j \in index + 1 .. n :
       ShouldIncludePacket(rs, log[j].opts) => \E i \in DOMAIN s : s[i] = log[j]
  /\ Increasing(s)

LEMMA CollectedAll ==
  ASSUME NEW rs, NEW index \in Nat, NEW n \in Nat, index <= n,
         n <= Len(log), log \in Seq(Packet), Increasing(log),
         NEW f, Collects(f, rs, index, n)
  PROVE  Collected(f[n], rs, index, n)
<1> DEFINE T == {i \in Nat : i \in index .. n /\ ~Collected(f[i], rs, index, i)}
<1>1. SUFFICES ASSUME T # {} PROVE FALSE
  OBVIOUS
<1>2. PICK m \in T : \A i \in T : m <= i
  BY <1>1, LeastNatural
<1>3. f[m] = IF m = index THEN <<>>
             ELSE IF ShouldIncludePacket(rs, log[m].opts)
               THEN Append(f[m - 1], log[m]) ELSE f[m - 1]
  BY DEF Collects
<1>4. CASE m = index
  <2>1. f[m] = <<>>
    BY <1>3, <1>4
  <2>2. Collected(<<>>, rs, index, m)
    BY <1>4 DEF Collected, Increasing
  <2> QED
    BY <2>1, <2>2
<1>5. CASE m # index
  <2>1. m - 1 \in index .. n /\ m - 1 \notin T /\ m \in DOMAIN log
    BY <1>2, <1>5
  <2>2. Collected(f[m - 1], rs, index, m - 1)
    BY <2>1
  <2>3. index + 1 .. m = (index + 1 .. m - 1) \cup {m}
    BY <2>1
  <2>4. CASE ~ShouldIncludePacket(rs, log[m].opts)
    <3>1. f[m] = f[m - 1]
      BY <1>3, <1>5, <2>4
    <3>2. Collected(f[m - 1], rs, index, m)
      BY <2>2, <2>3, <2>4 DEF Collected
    <3> QED
      BY <3>1, <3>2
  <2>5. CASE ShouldIncludePacket(rs, log[m].opts)
    <3> DEFINE s == f[m - 1]
               t == Append(s, log[m])
    <3>1. f[m] = t
      BY <1>3, <1>5, <2>5
    <3>2. s \in Seq(Packet) /\ log[m] \in Packet
      BY <2>1, <2>2 DEF Collected
    <3> HIDE DEF s
    <3>3. /\ t \in Seq(Packet) /\ DOMAIN t = DOMAIN s \cup {Len(s) + 1}
          /\ Len(s) + 1 \notin DOMAIN s
          /\ \A i \in DOMAIN s : t[i] = s[i] /\ i < Len(s) + 1
          /\ t[Len(s) + 1] = log[m]
      BY <3>2
    <3> HIDE DEF t
    <3>4. ASSUME NEW i \in DOMAIN s PROVE s[i].id < log[m].id
      <4>1. PICK j \in index + 1 .. m - 1 : s[i] = log[j]
        BY <2>2 DEF Collected, s
      <4>2. j \in DOMAIN log /\ j < m
        BY <2>1, <4>1
      <4> QED
        BY <2>1, <4>1, <4>2 DEF Increasing
    <3>5. Increasing(t)
      <4>1. Increasing(s)
        BY <2>2 DEF Collected, s
      <4> QED
        BY <3>2, <3>3, <3>4, <4>1 DEF Increasing
    <3>6. \A i \in DOMAIN t : \E j \in index + 1 .. m : t[i] = log[j]
      <4>1. \A i \in DOMAIN s : \E j \in index + 1 .. m : s[i] = log[j]
        BY <2>2, <2>3 DEF Collected, s
      <4>2. m \in index + 1 .. m
        BY <2>3
      <4> QED
        BY <3>3, <4>1, <4>2
    <3>7. \A j \in index + 1 .. m :
            ShouldIncludePacket(rs, log[j].opts) => \E i \in DOMAIN t : t[i] = log[j]
      <4>1. \A j \in index + 1 .. m - 1 :
              ShouldIncludePacket(rs, log[j].opts) => \E i \in DOMAIN s : s[i] = log[j]
        BY <2>2 DEF Collected, s
      <4>2. \E i \in DOMAIN t : t[i] = log[m]
        BY <3>3
      <4> QED
        BY <2>3, <3>3, <4>1, <4>2
    <3> QED
      BY <3>1, <3>3, <3>5, <3>6, <3>7 DEF Collected
  <2> QED
    BY <2>4, <2>5
<1> QED
  BY <1>4, <1>5

(* What RestoreSession sends: all packets after the offset that are for the   *)
(* rooms of the session, in their order.                                       *)
LEMMA MissedCollects ==
  ASSUME NEW k \in Conn, NEW index \in DOMAIN log, log \in Seq(Packet), Increasing(log)
  PROVE  Collected(Missed(k, index), held[k].rooms, index, Len(log))
<1>1. index \in Nat /\ Len(log) \in Nat /\ index <= Len(log)
  OBVIOUS
<1> DEFINE rs == held[k].rooms
           F == CHOOSE f : Collects(f, rs, index, Len(log))
<1>2. Collects(F, rs, index, Len(log))
  BY <1>1, CollectsExists
<1>3. Missed(k, index) = F[Len(log)]
  BY DEF Missed, Collects
<1> HIDE DEF F
<1> QED
  BY <1>1, <1>2, <1>3, CollectedAll

-----------------------------------------------------------------------------
(* Types and stages *)

LEMMA ConnNat == Conn \subseteq Nat /\ IsFiniteSet(Conn) /\ \A k \in Conn : k > 0
<1>1. Cardinality(Conn) \in Nat
  BY ConnAssumption, FS_CardinalityType
<1> QED
  BY <1>1, ConnAssumption

LEMMA BoundsNat == Duration \in Nat /\ MaxPackets \in Nat /\ MaxTime \in Nat
BY BoundAssumption

TypeInv == TypeOK /\ OpenedOK /\ StageOK /\ LogOK

LEMMA PacketFields ==
  /\ \A p \in Packet : p.id \in Nat /\ p.at \in Nat /\ p.opts \in Opts
  /\ \A s \in Seq(Packet) : \A i \in DOMAIN s :
       s[i] \in Packet /\ s[i].id \in Nat /\ s[i].at \in Nat
<1>1. \A p \in Packet : p.id \in Nat /\ p.at \in Nat /\ p.opts \in Opts
  BY BoundsNat DEF Packet
<1>2. \A s \in Seq(Packet) : \A i \in DOMAIN s : s[i] \in Packet
  OBVIOUS
<1> QED
  BY <1>1, <1>2

LEMMA LogIncreasing == TypeOK /\ LogOK => Increasing(log)
BY DEF TypeOK, LogOK, Increasing

LEMMA InitType == Init => TypeInv
<1> SUFFICES ASSUME Init PROVE TypeInv
  OBVIOUS
<1> USE DEF Init
<1>1. TypeOK
  <2>1. <<>> \in Seq(Packet)
    OBVIOUS
  <2>2. 0 \in 0 .. MaxTime /\ 0 \in 0 .. MaxPackets
    BY BoundsNat
  <2> QED
    BY <2>1, <2>2 DEF TypeOK
<1>2. StageOK
  BY DEF StageOK, Past
<1>3. LogOK
  BY DEF LogOK
<1>4. OpenedOK
  <2>1. {k \in Conn : pc[k] # "new"} = {}
    OBVIOUS
  <2>2. Latest = 0
    BY <2>1, FS_EmptySet DEF Latest
  <2>3. \A k \in Conn : k > 0
    BY ConnAssumption, ConnNat
  <2> QED
    BY <2>2, <2>3 DEF OpenedOK
<1> QED
  BY <1>1, <1>2, <1>3, <1>4 DEF TypeInv

(* What the interval drops is expired, and comes first.                      *)
DropsOK(d) ==
  /\ \A i \in 1 .. d : Expired(log[i].at)
  /\ log' \in Seq(Packet) /\ Len(log') = Len(log) - d
  /\ \A i \in DOMAIN log' : log'[i] = log[i + d]

LEMMA DropsFirst ==
  ASSUME TypeOK, LogOK, DropExpired
  PROVE  \E d \in 0 .. Len(log) : DropsOK(d)
<1> DEFINE expired == {i \in DOMAIN log : Expired(log[i].at)}
           first == CHOOSE i \in expired : \A j \in expired : i <= j
<1>1. log \in Seq(Packet) /\ Len(log) \in Nat /\ expired \subseteq Nat
  BY DEF TypeOK
<1>2. log' = IF expired = {} THEN log ELSE SubSeq(log, first + 1, Len(log))
  BY DEF DropExpired
<1>3. CASE expired = {}
  BY <1>1, <1>2, <1>3 DEF DropsOK
<1>4. CASE expired # {}
  <2>1. first \in expired
    <3> HIDE DEF expired
    <3> QED
      BY <1>1, <1>4, LeastNatural
  <2> HIDE DEF first
  <2>2. first \in 1 .. Len(log) /\ Expired(log[first].at)
    BY <2>1
  <2>3. \A i \in first + 1 .. Len(log) : log[i] \in Packet
    BY <1>1, <2>2
  <2>4. /\ log' \in Seq(Packet) /\ Len(log') = Len(log) - first
        /\ \A i \in 1 .. Len(log) - first : log'[i] = log[first + i]
    <3>1. /\ SubSeq(log, first + 1, Len(log)) \in Seq(Packet)
          /\ Len(SubSeq(log, first + 1, Len(log)))
               = IF first + 1 <= Len(log) THEN Len(log) - (first + 1) + 1 ELSE 0
          /\ \A i \in 1 .. Len(log) - (first + 1) + 1 :
               SubSeq(log, first + 1, Len(log))[i] = log[first + 1 + i - 1]
      BY <1>1, <2>2, <2>3, SubSeqProperties
    <3>2. log' = SubSeq(log, first + 1, Len(log))
      BY <1>2, <1>4
    <3> QED
      BY <1>1, <2>2, <3>1, <3>2
  <2>5. \A i \in 1 .. first : log[i].at <= log[first].at /\ log[i].at \in Nat
    <3>1. \A i \in DOMAIN log : log[i].at \in Nat
      BY <1>1, PacketFields
    <3>2. \A i \in DOMAIN log : i < first => log[i].at <= log[first].at
      BY <2>2 DEF LogOK
    <3> QED
      BY <1>1, <2>2, <3>1, <3>2
  <2>6. \A i \in 1 .. first : Expired(log[i].at)
    <3>1. log[first].at \in Nat /\ now \in Nat
      BY <2>2, <2>5, BoundsNat DEF TypeOK
    <3> QED
      BY <2>2, <2>5, <3>1, BoundsNat DEF Expired
  <2>7. DropsOK(first)
    BY <1>1, <2>2, <2>4, <2>6 DEF DropsOK
  <2> QED
    BY <2>2, <2>7
<1> QED
  BY <1>3, <1>4

LEMMA IntervalDrops ==
  ASSUME TypeOK, LogOK, Interval
  PROVE  \E d \in 0 .. Len(log) : DropsOK(d)
<1>1. CASE IntervalDrop
  BY <1>1, DropsFirst DEF IntervalDrop
<1>2. CASE log' = log
  <2>1. DropsOK(0)
    BY <1>2 DEF TypeOK, DropsOK
  <2> QED
    BY <2>1 DEF TypeOK
<1> QED
  BY <1>1, <1>2 DEF Interval, IntervalTest, IntervalDelete

LEMMA TypeStep == TypeInv /\ [Next]_vars => TypeOK'
<1> SUFFICES ASSUME TypeInv, [Next]_vars PROVE TypeOK'
  OBVIOUS
<1> USE DEF TypeInv, clock, store, tables, conns, client, history
<1>1. ASSUME NEW k \in Conn, Open(k) PROVE TypeOK'
  <2>1. ASSUME got # <<>> PROVE Last(got).id \in 1 .. MaxPackets
    <3>1. Len(got) \in DOMAIN got /\ got[Len(got)] \in Packet
      BY <2>1 DEF TypeOK
    <3> QED
      BY <3>1 DEF Last, Packet
  <2>2. offset' \in [Conn -> 0 .. MaxPackets]
    <3>1. \/ offset' = offset
          \/ got # <<>> /\ offset' = [offset EXCEPT ![k] = Last(got).id]
      BY <1>1 DEF Open
    <3>2. 1 .. MaxPackets \subseteq 0 .. MaxPackets
      BY BoundsNat
    <3> QED
      BY <2>1, <3>1, <3>2 DEF TypeOK
  <2>3. owed' \subseteq 1 .. MaxPackets /\ overlap' \in BOOLEAN
    BY <1>1 DEF Open, TypeOK
  <2>4. /\ pc' \in [Conn -> {"new", "load", "expired", "read", "fresh", "run", "live",
                            "cleanup", "remove", "gone"}]
        /\ born' \in [Conn -> Conn \cup {None}] /\ open' \in Conn
    BY <1>1 DEF Open, TypeOK
  <2>5. UNCHANGED <<clock, store, tables, held, wire, pid, got, crossed, leftAt>>
    BY <1>1 DEF Open
  <2> QED
    BY <2>2, <2>3, <2>4, <2>5 DEF TypeOK
<1>2. ASSUME NEW k \in Conn, Load(k) PROVE TypeOK'
  <2>1. born[k] \in Conn
    BY <1>2 DEF Load, TypeOK, StageOK
  <2>2. sessions[born[k]] # None => sessions[born[k]] \in Session
    BY <2>1 DEF TypeOK
  <2> QED
    BY <1>2, <2>1, <2>2 DEF Load, TypeOK
<1>3. ASSUME NEW k \in Conn, Restore(k) PROVE TypeOK'
  <2>1. born[k] \in Conn /\ held[k] \in Session
    BY <1>3 DEF Restore, TypeOK, StageOK
  <2>2. PICK index \in DOMAIN log :
          wire' = IF open = k THEN wire \o Missed(k, index) ELSE wire
    BY <1>3 DEF Restore
  <2>3. Missed(k, index) \in Seq(Packet)
    BY LogIncreasing, MissedCollects DEF TypeOK, Collected
  <2>4. wire' \in Seq(Packet)
    BY <2>2, <2>3 DEF TypeOK
  <2>5. rooms' \in [Conn -> SUBSET Room]
    BY <1>3, <2>1 DEF Restore, TypeOK, Session
  <2> QED
    BY <1>3, <2>4, <2>5 DEF Restore, TypeOK
<1>4. ASSUME NEW k \in Conn, OffsetNotFound(k) PROVE TypeOK'
  BY <1>4 DEF OffsetNotFound, TypeOK
<1>5. ASSUME NEW k \in Conn, Fresh(k) PROVE TypeOK'
  BY <1>5 DEF Fresh, TypeOK
<1>6. ASSUME NEW k \in Conn, DoConnect(k) PROVE TypeOK'
  BY <1>6, RoomAssumption DEF DoConnect, TypeOK, StillOwed
<1>7. ASSUME NEW k \in Conn, Abandon(k) PROVE TypeOK'
  BY <1>7 DEF Abandon, TypeOK
<1>8. ASSUME NEW k \in Conn, PersistSession(k) PROVE TypeOK'
  <2>1. rooms[born[k]] \in SUBSET Room /\ now \in Nat
    <3>1. born[k] \in Conn
      BY <1>8, NoneAssumption DEF PersistSession, TypeOK, StageOK, Past
    <3> QED
      BY <3>1, BoundsNat DEF TypeOK
  <2>2. [rooms |-> rooms[born[k]], at |-> now] \in Session
    BY <2>1 DEF Session
  <2> QED
    BY <1>8, <2>1, <2>2 DEF PersistSession, TypeOK
<1>9. ASSUME NEW k \in Conn, Cleanup(k) PROVE TypeOK'
  BY <1>9 DEF Cleanup, TypeOK
<1>10. ASSUME NEW k \in Conn, Untrack(k) PROVE TypeOK'
  BY <1>10 DEF Untrack, TypeOK
<1>11. ASSUME NEW k \in Conn, NEW r \in Room, Join(k, r) PROVE TypeOK'
  BY <1>11 DEF Join, TypeOK, StillOwed
<1>12. ASSUME NEW k \in Conn, NEW r \in Room, Leave(k, r) PROVE TypeOK'
  BY <1>12 DEF Leave, TypeOK, StillOwed
<1>13. ASSUME Welcome PROVE TypeOK'
  BY <1>13 DEF Welcome, TypeOK
<1>14. ASSUME Receive PROVE TypeOK'
  <2>1. Head(wire) \in Packet /\ Tail(wire) \in Seq(Packet)
    BY <1>14 DEF Receive, TypeOK
  <2>2. got' \in Seq(Packet) /\ wire' \in Seq(Packet)
    BY <1>14, <2>1 DEF Receive, TypeOK
  <2> QED
    BY <1>14, <2>2 DEF Receive, TypeOK
<1>15. ASSUME Lose PROVE TypeOK'
  <2>1. <<>> \in Seq(Packet)
    OBVIOUS
  <2> QED
    BY <1>15, <2>1 DEF Lose, TypeOK
<1>16. ASSUME Deliver PROVE TypeOK'
  <2>1. wire' \in Seq(Packet)
    BY <1>16 DEF Deliver, TypeOK
  <2> QED
    BY <1>16, <2>1 DEF Deliver, TypeOK
<1>17. ASSUME Interval PROVE TypeOK'
  <2>1. log' \in Seq(Packet)
    BY <1>17, IntervalDrops DEF DropsOK
  <2>2. sessions' \in [Conn -> Session \cup {None}]
    BY <1>17 DEF Interval, IntervalTest, IntervalDelete, IntervalDrop, TypeOK
  <2> QED
    BY <1>17, <2>1, <2>2 DEF Interval, IntervalTest, IntervalDelete, IntervalDrop, TypeOK
<1>18. ASSUME Tick PROVE TypeOK'
  BY <1>18, BoundsNat DEF Tick, TypeOK
<1>19. ASSUME NEW o \in Opts, Store(o) PROVE TypeOK'
  <2> DEFINE packet == [id |-> sent + 1, at |-> now, opts |-> o]
  <2>1. sent + 1 \in 1 .. MaxPackets /\ sent' \in 0 .. MaxPackets /\ now \in Nat
    BY <1>19, BoundsNat DEF Store, TypeOK
  <2>2. packet \in Packet
    BY <2>1 DEF Packet
  <2>3. log' \in Seq(Packet) /\ delivering' = packet
    BY <1>19, <2>2 DEF Store, TypeOK
  <2>4. owed' \subseteq 1 .. MaxPackets
    BY <1>19, <2>1 DEF Store, TypeOK
  <2> HIDE DEF packet
  <2> QED
    BY <1>19, <2>1, <2>2, <2>3, <2>4 DEF Store, TypeOK
<1>20. ASSUME UNCHANGED vars PROVE TypeOK'
  BY <1>20 DEF vars, TypeOK
<1>21. ASSUME NEW k \in Conn, DeleteSession(k) PROVE TypeOK'
  <2>1. sessions' \in [Conn -> Session \cup {None}]
    BY <1>21 DEF DeleteSession, TypeOK
  <2> QED
    BY <1>21, <2>1 DEF DeleteSession, TypeOK
<1> QED
  BY <1>1, <1>2, <1>3, <1>4, <1>5, <1>6, <1>7, <1>8, <1>9, <1>10, <1>11, <1>12, <1>13,
    <1>14, <1>15, <1>16, <1>17, <1>18, <1>19, <1>20, <1>21 DEF Next, Serve

LEMMA NewestOpens ==
  ASSUME TypeOK, OpenedOK, NEW k \in Conn, Open(k)
  PROVE  /\ pc[k] = "new" /\ Latest = k - 1 /\ Latest' = k
         /\ \A j \in Conn : pc'[j] = "new" <=> j > k
<1> DEFINE opened == {j \in Conn : pc[j] # "new"}
<1>1. Latest \in Nat /\ k = Latest + 1 /\ Conn \subseteq Nat
  <2>1. IsFiniteSet(opened)
    BY ConnNat, FS_Subset
  <2>2. Cardinality(opened) \in Nat
    <3> HIDE DEF opened
    <3> QED
      BY <2>1, FS_CardinalityType
  <2> QED
    BY <2>2, ConnNat DEF Open, Latest
<1>2. \A j \in Conn : pc[j] = "new" <=> j > Latest
  BY DEF OpenedOK
<1>3. pc[k] = "new" /\ Latest = k - 1
  BY <1>1, <1>2
<1>4. pc' = [pc EXCEPT ![k] = "load"] \/ pc' = [pc EXCEPT ![k] = "fresh"]
  BY DEF Open
<1>5. \A j \in Conn : pc'[j] = "new" <=> j > k
  BY <1>1, <1>2, <1>4 DEF TypeOK
<1>6. {j \in Conn : pc'[j] # "new"} = 1 .. k
  <2>1. Cardinality(Conn) \in Nat
    BY ConnAssumption, FS_CardinalityType
  <2>2. k \in 1 .. Cardinality(Conn)
    BY ConnAssumption
  <2>3. 1 .. k \subseteq Conn
    BY <2>1, <2>2, ConnAssumption
  <2> QED
    BY <1>1, <1>5, <2>1, <2>3, ConnAssumption
<1>7. Cardinality(1 .. k) = k
  BY <1>1, FS_Interval
<1>8. Latest' = k
  BY <1>6, <1>7 DEF Latest
<1> QED
  BY <1>3, <1>5, <1>8

(* The steps that open no connection.                                        *)
Others ==
  \/ \E k \in Conn : Serve(k) \/ \E r \in Room : Join(k, r) \/ Leave(k, r)
  \/ Welcome \/ Receive \/ Lose
  \/ \E o \in Opts : Store(o)
  \/ Deliver \/ Interval \/ Tick \/ UNCHANGED vars

LEMMA NewestStays ==
  ASSUME TypeOK, Others
  PROVE  Latest' = Latest /\ \A k \in Conn : pc'[k] = "new" <=> pc[k] = "new"
<1> DEFINE Same == \A k \in Conn : pc'[k] = "new" <=> pc[k] = "new"
<1> USE DEF TypeOK, conns
<1>1. Same
  <2>1. ASSUME NEW k \in Conn, Serve(k) PROVE Same
    <3>1. \E stage \in {"expired", "read", "fresh", "run", "live", "cleanup", "remove", "gone"} :
            pc' = [pc EXCEPT ![k] = stage]
      BY <2>1 DEF Serve, Load, DeleteSession, Restore, OffsetNotFound, Fresh, DoConnect, Abandon,
        PersistSession, Cleanup, Untrack
    <3>2. pc[k] # "new"
      BY <2>1 DEF Serve, Load, DeleteSession, Restore, OffsetNotFound, Fresh, DoConnect, Abandon,
        PersistSession, Cleanup, Untrack
    <3> QED
      BY <3>1, <3>2
  <2>2. ASSUME NEW k \in Conn, NEW r \in Room, Join(k, r) \/ Leave(k, r) PROVE pc' = pc
    BY <2>2 DEF Join, Leave
  <2>3. ASSUME \/ Welcome \/ Receive \/ Lose \/ Deliver \/ Interval \/ Tick
               \/ UNCHANGED vars \/ \E o \in Opts : Store(o)
        PROVE  pc' = pc
    BY <2>3 DEF Welcome, Receive, Lose, Deliver, Interval, IntervalTest, IntervalDelete, IntervalDrop, Tick, Store, vars
  <2> QED
    BY <2>1, <2>2, <2>3 DEF Others
<1>2. {k \in Conn : pc'[k] # "new"} = {k \in Conn : pc[k] # "new"}
  BY <1>1
<1>3. Latest' = Latest
  BY <1>2 DEF Latest
<1> QED
  BY <1>1, <1>3

LEMMA OpenedStep == TypeInv /\ [Next]_vars => OpenedOK'
<1> SUFFICES ASSUME TypeInv, [Next]_vars PROVE OpenedOK'
  OBVIOUS
<1>1. CASE \E k \in Conn : Open(k)
  <2>1. PICK k \in Conn : Open(k)
    BY <1>1
  <2>2. Latest' = k /\ \A j \in Conn : pc'[j] = "new" <=> j > k
    BY <2>1, NewestOpens DEF TypeInv
  <2> QED
    BY <2>1, <2>2 DEF Open, OpenedOK
<1>2. CASE Others
  <2>1. Latest' = Latest /\ \A k \in Conn : pc'[k] = "new" <=> pc[k] = "new"
    BY <1>2, NewestStays DEF TypeInv
  <2>2. open' \in {open, None}
    BY <1>2 DEF Others, Serve, Load, DeleteSession, Restore, OffsetNotFound, Fresh, DoConnect, Abandon,
      PersistSession, Cleanup, Untrack, Join, Leave, Welcome, Receive, Lose, Store,
      Deliver, Interval, IntervalTest, IntervalDelete, IntervalDrop, Tick, client, vars
  <2> QED
    BY <2>1, <2>2 DEF OpenedOK, TypeInv
<1> QED
  BY <1>1, <1>2 DEF Next, Others

LEMMA StageStep == TypeInv /\ [Next]_vars => StageOK'
<1> SUFFICES ASSUME TypeInv, [Next]_vars PROVE StageOK'
  OBVIOUS
<1> USE DEF TypeInv, TypeOK, StageOK, Past, clock, store, tables, conns, client, history
<1>1. ASSUME NEW k \in Conn, Open(k) PROVE StageOK'
  <2>1. pc[k] = "new" /\ UNCHANGED <<held, sockets>>
    BY <1>1, NewestOpens DEF Open
  <2>2. \/ /\ pid # None /\ pc' = [pc EXCEPT ![k] = "load"] /\ born' = [born EXCEPT ![k] = pid]
        \/ pc' = [pc EXCEPT ![k] = "fresh"] /\ born' = born
    BY <1>1 DEF Open
  <2>3. \A j \in Conn : j # k => pc'[j] = pc[j] /\ born'[j] = born[j]
    BY <2>2
  <2>4. pc'[k] = "fresh" \/ (pc'[k] = "load" /\ born'[k] # None)
    BY <2>2
  <2>5. \A s \in Conn : sockets'[s] # None => sockets[s] \in Conn \ {k}
    BY <2>1
  <2> HIDE DEF TypeOK
  <2> QED
    BY <2>1, <2>3, <2>4, <2>5
<1>2. ASSUME NEW k \in Conn, Load(k) PROVE StageOK'
  <2>1. UNCHANGED <<born, sockets>> /\ pc[k] = "load"
    BY <1>2 DEF Load
  <2>2. \/ pc' = [pc EXCEPT ![k] = "read"] /\ held' = [held EXCEPT ![k] = sessions[born[k]]]
           /\ sessions[born[k]] # None
        \/ held' = held /\ \E stage \in {"fresh", "expired"} : pc' = [pc EXCEPT ![k] = stage]
    BY <1>2 DEF Load
  <2> QED
    BY <2>1, <2>2
<1>3. ASSUME NEW k \in Conn, Restore(k) PROVE StageOK'
  BY <1>3, NoneAssumption DEF Restore
<1>4. ASSUME NEW k \in Conn, OffsetNotFound(k) PROVE StageOK'
  BY <1>4, NoneAssumption DEF OffsetNotFound
<1>5. ASSUME NEW k \in Conn, Fresh(k) PROVE StageOK'
  BY <1>5, NoneAssumption DEF Fresh
<1>6. ASSUME NEW k \in Conn, DoConnect(k) PROVE StageOK'
  BY <1>6, NoneAssumption DEF DoConnect
<1>7. ASSUME NEW k \in Conn, Abandon(k) PROVE StageOK'
  BY <1>7, NoneAssumption DEF Abandon
<1>8. ASSUME NEW k \in Conn, PersistSession(k) PROVE StageOK'
  BY <1>8, NoneAssumption DEF PersistSession
<1>9. ASSUME NEW k \in Conn, Cleanup(k) PROVE StageOK'
  BY <1>9, NoneAssumption DEF Cleanup
<1>10. ASSUME NEW k \in Conn, Untrack(k) PROVE StageOK'
  BY <1>10, NoneAssumption DEF Untrack
<1>11. ASSUME NEW k \in Conn, NEW r \in Room, Join(k, r) PROVE StageOK'
  BY <1>11, NoneAssumption DEF Join
<1>12. ASSUME NEW k \in Conn, NEW r \in Room, Leave(k, r) PROVE StageOK'
  BY <1>12, NoneAssumption DEF Leave
<1>13. ASSUME Welcome PROVE StageOK'
  BY <1>13, NoneAssumption DEF Welcome
<1>14. ASSUME Receive PROVE StageOK'
  BY <1>14, NoneAssumption DEF Receive
<1>15. ASSUME Lose PROVE StageOK'
  BY <1>15, NoneAssumption DEF Lose
<1>16. ASSUME Deliver PROVE StageOK'
  BY <1>16, NoneAssumption DEF Deliver
<1>17. ASSUME Interval PROVE StageOK'
  BY <1>17, NoneAssumption DEF Interval, IntervalTest, IntervalDelete, IntervalDrop
<1>18. ASSUME Tick PROVE StageOK'
  BY <1>18, NoneAssumption DEF Tick
<1>19. ASSUME NEW o \in Opts, Store(o) PROVE StageOK'
  BY <1>19, NoneAssumption DEF Store
<1>20. ASSUME UNCHANGED vars PROVE StageOK'
  BY <1>20 DEF vars, StageOK
<1>21. ASSUME NEW k \in Conn, DeleteSession(k) PROVE StageOK'
  BY <1>21, NoneAssumption DEF DeleteSession
<1> QED
  BY <1>1, <1>2, <1>3, <1>4, <1>5, <1>6, <1>7, <1>8, <1>9, <1>10, <1>11, <1>12, <1>13,
    <1>14, <1>15, <1>16, <1>17, <1>18, <1>19, <1>20, <1>21 DEF Next, Serve

LEMMA LogStep == TypeInv /\ [Next]_vars => LogOK'
<1> SUFFICES ASSUME TypeInv, [Next]_vars PROVE LogOK'
  OBVIOUS
<1> USE DEF TypeInv, clock, store, tables, conns, client, history
<1>1. ASSUME Deliver PROVE LogOK'
  BY <1>1 DEF Deliver, LogOK
<1>2. ASSUME Interval PROVE LogOK'
  <2>1. PICK d \in 0 .. Len(log) : DropsOK(d)
    BY <1>2, IntervalDrops
  <2>2. log \in Seq(Packet) /\ Len(log) \in Nat /\ sent \in Nat
    BY BoundsNat DEF TypeOK
  <2>3. \A i \in DOMAIN log' : i + d \in DOMAIN log
    BY <2>1, <2>2 DEF DropsOK
  <2>4. UNCHANGED <<delivering, now, sent>> /\ (delivering # None => log' = log)
    BY <1>2 DEF Interval, IntervalTest, IntervalDelete, IntervalDrop
  <2>5. \A i \in DOMAIN log' : log'[i] = log[i + d]
    BY <2>1 DEF DropsOK
  <2>6. log' \in Seq(Packet) /\ Len(log') = Len(log) - d
    BY <2>1 DEF DropsOK
  <2>7. ASSUME NEW i \in DOMAIN log'
        PROVE  log'[i].id = sent' - Len(log') + i /\ log'[i].at <= now'
    <3>1. log[i + d].id = sent - Len(log) + (i + d) /\ log[i + d].at <= now
      BY <2>3 DEF LogOK
    <3> QED
      BY <2>2, <2>4, <2>5, <2>6, <3>1
  <2>8. ASSUME NEW i \in DOMAIN log', NEW j \in DOMAIN log', i < j
        PROVE  log'[i].at <= log'[j].at
    <3>1. i + d < j + d
      BY <2>6, <2>8
    <3> QED
      BY <2>3, <2>5, <3>1 DEF LogOK
  <2>9. /\ Len(log') <= sent'
        /\ delivering' # None => log' # <<>> /\ delivering' = log'[Len(log')]
    BY <2>2, <2>4, <2>6 DEF LogOK
  <2> QED
    BY <2>7, <2>8, <2>9 DEF LogOK
<1>3. ASSUME Tick PROVE LogOK'
  <2>1. \A i \in DOMAIN log : log[i].at \in Nat
    BY PacketFields DEF TypeOK
  <2>2. now \in Nat
    BY BoundsNat DEF TypeOK
  <2> QED
    BY <1>3, <2>1, <2>2 DEF Tick, LogOK
<1>4. ASSUME NEW o \in Opts, Store(o) PROVE LogOK'
  <2> DEFINE packet == [id |-> sent + 1, at |-> now, opts |-> o]
  <2>1. log \in Seq(Packet) /\ Len(log) \in Nat /\ sent \in Nat /\ now \in Nat
    BY BoundsNat DEF TypeOK
  <2>2. log' = Append(log, packet) /\ delivering' = packet /\ sent' = sent + 1 /\ now' = now
    BY <1>4 DEF Store
  <2>3. packet.id = sent + 1 /\ packet.at = now
    OBVIOUS
  <2> HIDE DEF packet
  <2>4. /\ Len(log') = Len(log) + 1 /\ DOMAIN log' = DOMAIN log \cup {Len(log) + 1}
        /\ \A i \in DOMAIN log : log'[i] = log[i] /\ i < Len(log) + 1
        /\ log'[Len(log) + 1] = packet
    BY <2>1, <2>2
  <2>5. \A i \in DOMAIN log : log'[i].id = log[i].id /\ log'[i].at = log[i].at
    BY <2>4
  <2>6. log'[Len(log) + 1].id = sent + 1 /\ log'[Len(log) + 1].at = now
    BY <2>3, <2>4
  <2>7. ASSUME NEW i \in DOMAIN log'
        PROVE  log'[i].id = sent' - Len(log') + i /\ log'[i].at <= now'
    <3>1. CASE i \in DOMAIN log
      <4>1. log[i].id = sent - Len(log) + i /\ log[i].at <= now
        BY <3>1 DEF LogOK
      <4> QED
        BY <2>1, <2>2, <2>4, <2>5, <3>1, <4>1
    <3>2. CASE i = Len(log) + 1
      BY <2>1, <2>2, <2>4, <2>6, <3>2
    <3> QED
      BY <2>4, <3>1, <3>2
  <2>8. ASSUME NEW i \in DOMAIN log', NEW j \in DOMAIN log', i < j
        PROVE  log'[i].at <= log'[j].at
    <3>1. i \in DOMAIN log
      BY <2>1, <2>4, <2>8
    <3>2. CASE j \in DOMAIN log
      <4>1. log[i].at <= log[j].at
        BY <2>8, <3>1, <3>2 DEF LogOK
      <4> QED
        BY <2>5, <3>1, <3>2, <4>1
    <3>3. CASE j = Len(log) + 1
      <4>1. log[i].at <= now
        BY <3>1 DEF LogOK
      <4> QED
        BY <2>5, <2>6, <3>1, <3>3, <4>1
    <3> QED
      BY <2>4, <3>2, <3>3
  <2>9. Len(log') <= sent' /\ log' # <<>> /\ delivering' = log'[Len(log')]
    BY <2>1, <2>2, <2>4 DEF LogOK
  <2> QED
    BY <2>7, <2>8, <2>9 DEF LogOK
<1>5. ASSUME UNCHANGED <<log, sent, now, delivering>> PROVE LogOK'
  BY <1>5 DEF LogOK, Expired
<1> QED
  BY <1>1, <1>2, <1>3, <1>4, <1>5 DEF Next, Serve, vars, Open, Load, DeleteSession, Restore,
    OffsetNotFound, Fresh, DoConnect, Abandon, PersistSession, Cleanup, Untrack, Join,
    Leave, Welcome, Receive, Lose,
     clock, store, tables, conns, client, history

LEMMA TypeNext == TypeInv /\ [Next]_vars => TypeInv'
BY TypeStep, OpenedStep, StageStep, LogStep DEF TypeInv

-----------------------------------------------------------------------------
(* Order *)

OrderInv == TypeInv /\ OrderOK /\ OffsetOK

(* Who is reached has a socket that was tracked; the client's newest only.   *)
LEMMA ReachedTracked ==
  ASSUME TypeInv, NEW o, open \in Reached(o)
  PROVE  open \in Conn /\ open = Latest /\ pc[open] \in Past \ {"run"}
<1>1. PICK s \in Conn : sockets[s] = open /\ open \in Conn
  BY DEF Reached
<1>2. open # None
  BY <1>1, NoneAssumption
<1> QED
  BY <1>1, <1>2 DEF TypeInv, OpenedOK, StageOK

LEMMA DeliveringIsLast ==
  ASSUME TypeInv, delivering # None
  PROVE  /\ delivering \in Packet /\ delivering.id = sent
         /\ Len(log) \in DOMAIN log /\ delivering = log[Len(log)]
<1>1. log \in Seq(Packet) /\ delivering \in Packet /\ sent \in Nat
  BY BoundsNat DEF TypeInv, TypeOK
<1>2. log # <<>> /\ delivering = log[Len(log)]
  BY DEF TypeInv, LogOK
<1>3. Len(log) \in DOMAIN log
  BY <1>1, <1>2
<1>4. log[Len(log)].id = sent - Len(log) + Len(log)
  BY <1>3 DEF TypeInv, LogOK
<1> QED
  BY <1>1, <1>2, <1>3, <1>4

LEMMA OffsetStep == OrderInv /\ [Next]_vars => OffsetOK'
<1> SUFFICES ASSUME OrderInv, [Next]_vars PROVE OffsetOK'
  OBVIOUS
<1> TypeOK
  BY DEF OrderInv, TypeInv
<1> USE DEF OrderInv, OffsetOK, TypeOK, clock, store, tables, conns, client, history
<1>1. ASSUME NEW k \in Conn, Open(k) PROVE OffsetOK'
  <2>1. Latest' = k /\ pc[k] = "new"
    BY <1>1, NewestOpens DEF TypeInv
  <2>2. open = None /\ open' = k /\ UNCHANGED <<wire, pid, got>>
    BY <1>1 DEF Open
  <2>3. \/ /\ got # <<>> /\ born' = [born EXCEPT ![k] = pid]
           /\ offset' = [offset EXCEPT ![k] = got[Len(got)].id]
        \/ pc' = [pc EXCEPT ![k] = "fresh"]
    BY <1>1 DEF Open, Last
  <2> QED
    BY <2>1, <2>2, <2>3, NoneAssumption
<1>2. ASSUME NEW k \in Conn, Load(k) PROVE OffsetOK'
  BY <1>2, NewestStays DEF Others, Serve, Load
<1>3. ASSUME NEW k \in Conn, Restore(k) PROVE OffsetOK'
  <2>1. Latest' = Latest
    BY <1>3, NewestStays DEF Others, Serve
  <2>2. k # Latest => open # k
    BY NoneAssumption DEF TypeInv, OpenedOK
  <2>3. open = None => wire' = wire
    BY <1>3, NoneAssumption DEF Restore
  <2>4. k # Latest => wire' = wire
    BY <1>3, <2>2 DEF Restore
  <2> QED
    BY <1>3, <2>1, <2>3, <2>4 DEF Restore
<1>4. ASSUME NEW k \in Conn, OffsetNotFound(k) PROVE OffsetOK'
  BY <1>4, NewestStays DEF Others, Serve, OffsetNotFound
<1>5. ASSUME NEW k \in Conn, Fresh(k) PROVE OffsetOK'
  BY <1>5, NewestStays DEF Others, Serve, Fresh
<1>6. ASSUME NEW k \in Conn, DoConnect(k) PROVE OffsetOK'
  BY <1>6, NewestStays DEF Others, Serve, DoConnect
<1>7. ASSUME NEW k \in Conn, Abandon(k) PROVE OffsetOK'
  BY <1>7, NewestStays DEF Others, Serve, Abandon
<1>8. ASSUME NEW k \in Conn, PersistSession(k) PROVE OffsetOK'
  BY <1>8, NewestStays DEF Others, Serve, PersistSession
<1>9. ASSUME NEW k \in Conn, Cleanup(k) PROVE OffsetOK'
  BY <1>9, NewestStays DEF Others, Serve, Cleanup
<1>10. ASSUME NEW k \in Conn, Untrack(k) PROVE OffsetOK'
  BY <1>10, NewestStays DEF Others, Serve, Untrack
<1>11. ASSUME NEW k \in Conn, NEW r \in Room, Join(k, r) PROVE OffsetOK'
  BY <1>11, NewestStays DEF Others, Serve, Join
<1>12. ASSUME NEW k \in Conn, NEW r \in Room, Leave(k, r) PROVE OffsetOK'
  BY <1>12, NewestStays DEF Others, Serve, Leave
<1>13. ASSUME Welcome PROVE OffsetOK'
  BY <1>13, NewestStays DEF Others, Serve, Welcome, TypeInv, OpenedOK
<1>14. ASSUME Receive PROVE OffsetOK'
  BY <1>14, NewestStays DEF Others, Serve, Receive, TypeInv, OpenedOK
<1>15. ASSUME Lose PROVE OffsetOK'
  BY <1>15, NewestStays DEF Others, Serve, Lose
<1>16. ASSUME Deliver PROVE OffsetOK'
  <2>1. Latest' = Latest
    BY <1>16, NewestStays DEF Others
  <2>2. CASE open \in Reached(delivering.opts)
    <3>1. open # None /\ pc[Latest] \notin {"load", "expired", "read"}
      BY <2>2, ReachedTracked, NoneAssumption DEF Past
    <3> QED
      BY <1>16, <2>1, <3>1 DEF Deliver
  <2>3. CASE open \notin Reached(delivering.opts)
    BY <1>16, <2>1, <2>3 DEF Deliver
  <2> QED
    BY <2>2, <2>3
<1>17. ASSUME Interval PROVE OffsetOK'
  BY <1>17, NewestStays DEF Others, Serve, Interval, IntervalTest, IntervalDelete, IntervalDrop
<1>18. ASSUME Tick PROVE OffsetOK'
  BY <1>18, NewestStays DEF Others, Serve, Tick
<1>19. ASSUME NEW o \in Opts, Store(o) PROVE OffsetOK'
  BY <1>19, NewestStays DEF Others, Serve, Store
<1>20. ASSUME UNCHANGED vars PROVE OffsetOK'
  BY <1>20, NewestStays DEF Others, Serve, vars
<1>21. ASSUME NEW k \in Conn, DeleteSession(k) PROVE OffsetOK'
  BY <1>21, NewestStays DEF Others, Serve, DeleteSession
<1> QED
  BY <1>1, <1>2, <1>3, <1>4, <1>5, <1>6, <1>7, <1>8, <1>9, <1>10, <1>11, <1>12, <1>13,
    <1>14, <1>15, <1>16, <1>17, <1>18, <1>19, <1>20, <1>21 DEF Next, Serve

LEMMA OrderStep == OrderInv /\ [Next]_vars => OrderOK'
<1> SUFFICES ASSUME OrderInv, [Next]_vars PROVE OrderOK'
  OBVIOUS
<1> USE DEF OrderInv, clock, store, tables, conns, client, history
<1>1. ASSUME NEW k \in Conn, Restore(k) PROVE OrderOK'
  <2>1. PICK index \in DOMAIN log :
          /\ log[index].id = offset[k]
          /\ wire' = IF open = k THEN wire \o Missed(k, index) ELSE wire
    BY <1>1 DEF Restore
  <2>2. delivering = None /\ UNCHANGED <<got, sent, delivering>>
    BY <1>1 DEF Restore
  <2>3. CASE open # k
    BY <2>1, <2>2, <2>3 DEF OrderOK
  <2>4. CASE open = k
    <3> DEFINE m == Missed(k, index)
    <3>1. k = Latest /\ pc[k] = "read"
      BY <1>1, <2>4, NoneAssumption DEF TypeInv, OpenedOK, Restore
    <3>2. wire = <<>> /\ got # <<>> /\ offset[k] = got[Len(got)].id
      BY <3>1 DEF OffsetOK
    <3>3. Collected(m, held[k].rooms, index, Len(log))
      BY LogIncreasing, MissedCollects DEF TypeInv, TypeOK
    <3>4. wire' = m
      <4>1. m \in Seq(Packet)
        BY <3>3 DEF Collected
      <4>2. wire' = wire \o m
        BY <2>1, <2>4
      <4> HIDE DEF m
      <4> QED
        BY <3>2, <4>1, <4>2, ConcatEmptySeq
    <3> HIDE DEF m
    <3>5. \A i \in DOMAIN m : offset[k] < m[i].id /\ m[i].id <= sent
      <4>1. /\ log \in Seq(Packet) /\ sent \in Nat /\ Len(log) \in Nat
            /\ \A i \in DOMAIN log : log[i].id = sent - Len(log) + i
        <5>1. \A i \in DOMAIN log : log[i].id = sent - Len(log) + i
          BY DEF TypeInv, LogOK
        <5>2. log \in Seq(Packet) /\ sent \in 0 .. MaxPackets
          BY DEF TypeInv, TypeOK
        <5> QED
          BY <5>1, <5>2, BoundsNat
      <4>2. ASSUME NEW i \in DOMAIN m PROVE offset[k] < m[i].id /\ m[i].id <= sent
        <5>1. PICK j \in index + 1 .. Len(log) : m[i] = log[j]
          BY <3>3 DEF Collected
        <5>2. j \in DOMAIN log /\ index < j /\ j <= Len(log)
          BY <4>1, <5>1
        <5>3. offset[k] = sent - Len(log) + index /\ m[i].id = sent - Len(log) + j
          BY <2>1, <4>1, <5>1, <5>2
        <5>4. index \in Nat /\ j \in Nat
          BY <4>1, <5>2
        <5> QED
          BY <4>1, <5>2, <5>3, <5>4
      <4> QED
        BY <4>2
    <3>6. \A i \in DOMAIN got : got[i].id <= offset[k]
      <4>1. got \in Seq(Packet) /\ \A i \in DOMAIN got : got[i].id \in Nat
        BY PacketFields DEF TypeInv, TypeOK
      <4>2. Len(got) \in DOMAIN got /\ \A i \in DOMAIN got : i < Len(got) \/ i = Len(got)
        BY <3>2, <4>1
      <4> QED
        BY <3>2, <4>1, <4>2 DEF OrderOK, Increasing
    <3>7. offset[k] \in Nat /\ \A i \in DOMAIN got : got[i].id \in Nat
      BY PacketFields, BoundsNat DEF TypeInv, TypeOK
    <3>8. \A i \in DOMAIN m : m[i].id \in Nat
      BY <3>3, PacketFields DEF Collected
    <3>9. Increasing(m)
      BY <3>3 DEF Collected
    <3>10. \A i \in DOMAIN got, j \in DOMAIN m : got[i].id < m[j].id
      BY <3>5, <3>6, <3>7, <3>8
    <3> QED
      BY <2>2, <3>4, <3>5, <3>9, <3>10 DEF OrderOK, Ids
  <2> QED
    BY <2>3, <2>4
<1>2. ASSUME Receive PROVE OrderOK'
  <2> DEFINE m == Len(got)
  <2>1. /\ got \in Seq(Packet) /\ wire \in Seq(Packet) /\ wire # <<>>
        /\ got' = Append(got, Head(wire)) /\ wire' = Tail(wire)
        /\ UNCHANGED <<sent, delivering>>
    BY <1>2 DEF Receive, TypeInv, TypeOK
  <2>2. /\ 1 \in DOMAIN wire /\ m \in Nat /\ DOMAIN got = 1 .. m
        /\ DOMAIN got' = 1 .. m + 1 /\ got'[m + 1] = wire[1]
        /\ \A i \in DOMAIN got : got'[i] = got[i]
    BY <2>1
  <2>3. \A j \in DOMAIN wire' : j + 1 \in DOMAIN wire /\ wire'[j] = wire[j + 1] /\ 1 < j + 1 /\ j \in Nat
    BY <2>1
  <2> HIDE DEF m
  <2>4. Increasing(got')
    <3>1. \A i \in DOMAIN got : got[i].id < wire[1].id
      BY <2>2 DEF OrderOK
    <3>2. \A i, j \in DOMAIN got : i < j => got[i].id < got[j].id
      BY DEF OrderOK, Increasing
    <3>3. ASSUME NEW i \in DOMAIN got', NEW j \in DOMAIN got', i < j
          PROVE  got'[i].id < got'[j].id
      <4>1. i \in DOMAIN got
        BY <2>2, <3>3
      <4>2. j \in DOMAIN got \/ j = m + 1
        BY <2>2
      <4> QED
        BY <2>2, <3>1, <3>2, <3>3, <4>1, <4>2
    <3> QED
      BY <3>3 DEF Increasing
  <2>5. Increasing(wire')
    BY <2>3 DEF OrderOK, Increasing
  <2>6. ASSUME NEW i \in DOMAIN got', NEW j \in DOMAIN wire' PROVE got'[i].id < wire'[j].id
    <3>1. CASE i \in DOMAIN got
      BY <2>2, <2>3, <3>1 DEF OrderOK
    <3>2. CASE i = m + 1
      BY <2>2, <2>3, <3>2 DEF OrderOK, Increasing
    <3> QED
      BY <2>2, <3>1, <3>2
  <2>7. Ids(got)' \cup Ids(wire)' \subseteq Ids(got) \cup Ids(wire)
    <3>1. ASSUME NEW i \in DOMAIN got' PROVE got'[i].id \in Ids(got) \cup Ids(wire)
      BY <2>2 DEF Ids
    <3>2. ASSUME NEW j \in DOMAIN wire' PROVE wire'[j].id \in Ids(wire)
      BY <2>3 DEF Ids
    <3> QED
      BY <3>1, <3>2 DEF Ids
  <2> QED
    BY <2>1, <2>4, <2>5, <2>6, <2>7 DEF OrderOK
<1>3. ASSUME Lose PROVE OrderOK'
  <2>1. wire' = <<>> /\ DOMAIN wire' = {} /\ UNCHANGED <<got, sent, delivering>>
    BY <1>3 DEF Lose
  <2> QED
    BY <2>1 DEF OrderOK, Increasing, Ids
<1>4. ASSUME Deliver PROVE OrderOK'
  <2>1. delivering' = None /\ UNCHANGED <<got, sent>>
    BY <1>4 DEF Deliver
  <2>2. CASE wire' = wire
    BY <2>1, <2>2 DEF OrderOK
  <2>3. CASE wire' = Append(wire, delivering)
    <3>1. delivering \in Packet /\ delivering.id = sent /\ sent \in Nat
      BY <1>4, DeliveringIsLast, BoundsNat DEF Deliver, TypeInv, TypeOK
    <3>2. wire \in Seq(Packet)
      BY DEF TypeInv, TypeOK
    <3>3. /\ DOMAIN wire' = DOMAIN wire \cup {Len(wire) + 1}
          /\ wire'[Len(wire) + 1] = delivering
          /\ \A i \in DOMAIN wire : wire'[i] = wire[i] /\ i < Len(wire) + 1
          /\ Len(wire) \in Nat
      BY <2>3, <3>1, <3>2
    <3>4. \A id \in Ids(got) \cup Ids(wire) : id < delivering.id
      BY <1>4 DEF OrderOK, Deliver
    <3>5. \A i \in DOMAIN wire : wire[i].id < delivering.id
      BY <3>4 DEF Ids
    <3>6. \A i \in DOMAIN got : got[i].id < delivering.id
      BY <3>4 DEF Ids
    <3>7. Increasing(wire')
      BY <3>2, <3>3, <3>5 DEF OrderOK, Increasing
    <3>8. \A i \in DOMAIN got, j \in DOMAIN wire' : got[i].id < wire'[j].id
      BY <3>3, <3>6 DEF OrderOK
    <3>9. \A id \in Ids(wire)' : id <= sent
      BY <3>1, <3>3 DEF OrderOK, Ids
    <3> QED
      BY <2>1, <3>7, <3>8, <3>9 DEF OrderOK, Ids
  <2> QED
    BY <1>4, <2>2, <2>3 DEF Deliver
<1>5. ASSUME NEW o \in Opts, Store(o) PROVE OrderOK'
  <2> DEFINE packet == [id |-> sent + 1, at |-> now, opts |-> o]
  <2>1. delivering' = packet /\ sent' = sent + 1 /\ UNCHANGED <<got, wire>>
    BY <1>5 DEF Store
  <2>2. packet.id = sent + 1
    OBVIOUS
  <2> HIDE DEF packet
  <2>3. sent \in Nat /\ \A id \in Ids(got) \cup Ids(wire) : id <= sent /\ id \in Nat
    BY PacketFields, BoundsNat DEF TypeInv, TypeOK, OrderOK, Ids
  <2>4. \A id \in Ids(got) \cup Ids(wire) : id <= sent' /\ id < delivering'.id
    BY <2>1, <2>2, <2>3
  <2> QED
    BY <2>1, <2>4 DEF OrderOK, Ids
<1>6. ASSUME UNCHANGED <<got, wire, sent, delivering>> PROVE OrderOK'
  BY <1>6 DEF OrderOK, Ids
<1> QED
  BY <1>1, <1>2, <1>3, <1>4, <1>5, <1>6 DEF Next, Serve, vars, Open, Load, DeleteSession, OffsetNotFound,
    Fresh, DoConnect, Abandon, PersistSession, Cleanup, Untrack, Join, Leave, Welcome,
    Interval, IntervalTest, IntervalDelete, IntervalDrop, Tick,
     clock, store, tables, conns, client, history

LEMMA InitOrder == Init => OrderOK /\ OffsetOK
<1> SUFFICES ASSUME Init PROVE OrderOK /\ OffsetOK
  OBVIOUS
<1>1. OffsetOK
  BY DEF Init, OffsetOK
<1>2. OrderOK
  BY DEF Init, OrderOK, Increasing, Ids
<1> QED
  BY <1>1, <1>2

(* A client processes each packet once and in the order of the broadcasts, over *)
(* all its connections: a restore sees a packet not at all or delivered.       *)
THEOREM OrderKept == Spec => []InOrderOnce
<1>1. Init => OrderInv
  BY InitType, InitOrder DEF OrderInv
<1>2. OrderInv /\ [Next]_vars => OrderInv'
  BY TypeNext, OrderStep, OffsetStep DEF OrderInv
<1>3. OrderInv => InOrderOnce
  BY DEF OrderInv, OrderOK, Increasing, InOrderOnce
<1> QED
  BY <1>1, <1>2, <1>3, PTL DEF Spec

(* Every variable of the server and the client keeps its type, through losses, *)
(* restores and expiry.                                                        *)
THEOREM TypeCorrect == Spec => []TypeOK
<1>1. TypeInv => TypeOK
  BY DEF TypeInv
<1> QED
  BY <1>1, InitType, TypeNext, PTL DEF Spec

-----------------------------------------------------------------------------
(* Sessions *)

SessionInv == OrderInv /\ KeptOK /\ BornOK /\ Solo /\ SessionOK /\ DoomedOK

LEMMA ExpiredStays ==
  ASSUME TypeOK, [Next]_vars, NEW at \in Nat, Expired(at)
  PROVE  Expired(at)'
<1>1. now' \in {now, now + 1}
  BY DEF Next, Serve, Open, Load, DeleteSession, Restore, OffsetNotFound, Fresh, DoConnect, Abandon,
    PersistSession, Cleanup, Untrack, Join, Leave, Welcome, Receive, Lose, Store,
    Deliver, Interval, IntervalTest, IntervalDelete, IntervalDrop, Tick, clock, vars
<1>2. now \in Nat
  BY BoundsNat DEF TypeOK
<1> QED
  BY <1>1, <1>2, BoundsNat DEF Expired

(* A packet is stored until it expires.                                      *)
LEMMA KeptStays ==
  ASSUME TypeInv, [Next]_vars, NEW p \in Packet, Kept(p)
  PROVE  Kept(p)'
<1>1. CASE Expired(p.at)
  BY <1>1, ExpiredStays, PacketFields DEF Kept, TypeInv
<1>2. CASE \E i \in DOMAIN log : log[i] = p
  <2>1. PICK i \in DOMAIN log : log[i] = p
    BY <1>2
  <2>2. CASE log' = log
    BY <2>1, <2>2 DEF Kept
  <2>3. CASE \E o \in Opts : Store(o)
    <3>1. PICK x : log' = Append(log, x)
      BY <2>3 DEF Store
    <3>2. log \in Seq(Packet)
      BY DEF TypeInv, TypeOK
    <3>3. i \in DOMAIN log' /\ log'[i] = log[i]
      BY <2>1, <3>1, <3>2
    <3> QED
      BY <2>1, <3>3 DEF Kept
  <2>4. CASE Interval
    <3>1. PICK d \in 0 .. Len(log) : DropsOK(d)
      BY <2>4, IntervalDrops DEF TypeInv
    <3>2. log \in Seq(Packet) /\ Len(log) \in Nat
      BY DEF TypeInv, TypeOK
    <3>3. CASE i <= d
      <4>1. Expired(p.at)
        BY <2>1, <3>1, <3>2, <3>3 DEF DropsOK
      <4> QED
        BY <4>1, ExpiredStays, PacketFields DEF Kept, TypeInv
    <3>4. CASE d < i
      <4>1. /\ log' \in Seq(Packet) /\ Len(log') = Len(log) - d
            /\ \A j \in DOMAIN log' : log'[j] = log[j + d]
        BY <3>1 DEF DropsOK
      <4>2. i - d \in DOMAIN log' /\ (i - d) + d = i
        BY <2>1, <3>2, <3>4, <4>1
      <4>3. log'[i - d] = p
        BY <2>1, <4>1, <4>2
      <4> QED
        BY <4>2, <4>3 DEF Kept
    <3> QED
      BY <3>2, <3>3, <3>4
  <2>5. log' = log \/ Interval \/ \E o \in Opts : Store(o)
    BY DEF Next, Serve, Open, Load, DeleteSession, Restore, OffsetNotFound, Fresh, DoConnect, Abandon,
      PersistSession, Cleanup, Untrack, Join, Leave, Welcome, Receive, Lose, Deliver,
      Tick, store, vars
  <2> QED
    BY <2>2, <2>3, <2>4, <2>5
<1> QED
  BY <1>1, <1>2 DEF Kept

LEMMA KeptStep == OrderInv /\ KeptOK /\ [Next]_vars => KeptOK'
<1> SUFFICES ASSUME OrderInv, KeptOK, [Next]_vars PROVE KeptOK'
  OBVIOUS
<1> TypeInv
  BY DEF OrderInv
<1>1. \A p \in Packet : Kept(p) => Kept(p)'
  BY KeptStays
<1>2. got \in Seq(Packet) /\ wire \in Seq(Packet) /\ log \in Seq(Packet)
  BY DEF TypeInv, TypeOK
<1>3. /\ \A i \in DOMAIN got : got[i] \in Packet /\ Kept(got[i])
      /\ \A i \in DOMAIN wire : wire[i] \in Packet /\ Kept(wire[i])
  BY <1>2 DEF KeptOK
<1>4. \A i \in DOMAIN log : log[i] \in Packet /\ Kept(log[i])
  BY <1>2 DEF Kept
<1>5. CASE \E k \in Conn : Restore(k)
  <2>1. PICK k \in Conn : Restore(k)
    BY <1>5
  <2>2. PICK index \in DOMAIN log :
          wire' = IF open = k THEN wire \o Missed(k, index) ELSE wire
    BY <2>1 DEF Restore
  <2>3. got' = got
    BY <2>1 DEF Restore
  <2> DEFINE m == Missed(k, index)
  <2>4. Collected(m, held[k].rooms, index, Len(log))
    BY <1>2, LogIncreasing, MissedCollects DEF TypeInv
  <2>5. \A i \in DOMAIN m : \E j \in DOMAIN log : m[i] = log[j]
    <3>1. \A i \in DOMAIN m : \E j \in index + 1 .. Len(log) : m[i] = log[j]
      BY <2>4 DEF Collected
    <3>2. index + 1 .. Len(log) \subseteq DOMAIN log
      BY <1>2
    <3> QED
      BY <3>1, <3>2
  <2>6. m \in Seq(Packet)
    BY <2>4 DEF Collected
  <2> HIDE DEF m
  <2>7. \A i \in DOMAIN (wire \o m) :
          \/ i \in DOMAIN wire /\ (wire \o m)[i] = wire[i]
          \/ i - Len(wire) \in DOMAIN m /\ (wire \o m)[i] = m[i - Len(wire)]
    BY <1>2, <2>6
  <2>8. \A i \in DOMAIN wire' :
          (\E j \in DOMAIN wire : wire'[i] = wire[j]) \/ (\E j \in DOMAIN log : wire'[i] = log[j])
    <3>1. wire' = wire \/ wire' = wire \o m
      BY <2>2 DEF m
    <3> QED
      BY <2>5, <2>7, <3>1
  <2> QED
    BY <1>1, <1>3, <1>4, <2>3, <2>8 DEF KeptOK
<1>6. CASE Receive
  <2>1. wire # <<>> /\ got' = Append(got, Head(wire)) /\ wire' = Tail(wire)
    BY <1>6 DEF Receive
  <2>2. /\ 1 \in DOMAIN wire
        /\ \A i \in DOMAIN got' : (i \in DOMAIN got /\ got'[i] = got[i]) \/ got'[i] = wire[1]
    BY <1>2, <2>1
  <2>3. \A i \in DOMAIN wire' : i + 1 \in DOMAIN wire /\ wire'[i] = wire[i + 1]
    BY <1>2, <2>1
  <2> QED
    BY <1>1, <1>3, <2>2, <2>3 DEF KeptOK
<1>7. CASE Deliver
  <2>1. got' = got /\ (wire' = wire \/ wire' = Append(wire, delivering)) /\ delivering # None
    BY <1>7 DEF Deliver
  <2>2. delivering \in Packet /\ Kept(delivering)
    BY <1>4, <2>1, DeliveringIsLast
  <2>3. \A i \in DOMAIN wire' :
          (i \in DOMAIN wire /\ wire'[i] = wire[i]) \/ wire'[i] = delivering
    <3>1. CASE wire' = wire
      BY <3>1
    <3>2. CASE wire' = Append(wire, delivering)
      <4>1. wire \in Seq(Packet)
        BY <1>2
      <4> QED
        BY <2>2, <3>2, <4>1
    <3> QED
      BY <2>1, <3>1, <3>2
  <2> QED
    BY <1>1, <1>3, <2>1, <2>2, <2>3 DEF KeptOK
<1>8. CASE Lose
  <2>1. got' = got /\ DOMAIN wire' = {}
    BY <1>8 DEF Lose
  <2> QED
    BY <1>1, <1>3, <2>1 DEF KeptOK
<1>9. CASE UNCHANGED <<got, wire>>
  BY <1>1, <1>3, <1>9 DEF KeptOK
<1> QED
  BY <1>5, <1>6, <1>7, <1>8, <1>9 DEF Next, Serve, Open, Load, DeleteSession, OffsetNotFound, Fresh,
    DoConnect, Abandon, PersistSession, Cleanup, Untrack, Join, Leave, Welcome, Store,
    Interval, IntervalTest, IntervalDelete, IntervalDrop, Tick, client, vars

LEMMA BornStep == SessionInv /\ [Next]_vars => BornOK'
<1> SUFFICES ASSUME SessionInv, [Next]_vars PROVE BornOK'
  OBVIOUS
<1> TypeOK /\ OpenedOK /\ StageOK /\ BornOK
  BY DEF SessionInv, OrderInv, TypeInv
<1> USE DEF BornOK, Unborn, TypeOK, clock, store, tables, conns, client, history
<1>1. ASSUME NEW k \in Conn, Open(k) PROVE BornOK'
  <2>1. pc[k] = "new" /\ UNCHANGED <<pid, sessions>>
    BY <1>1, NewestOpens DEF Open
  <2>2. \/ /\ pid # None /\ pc' = [pc EXCEPT ![k] = "load"] /\ born' = [born EXCEPT ![k] = pid]
        \/ pc' = [pc EXCEPT ![k] = "fresh"] /\ born' = born
    BY <1>1 DEF Open
  <2> QED
    BY <2>1, <2>2
<1>2. ASSUME NEW k \in Conn, Load(k) PROVE BornOK'
  BY <1>2 DEF Load
<1>3. ASSUME NEW k \in Conn, Restore(k) PROVE BornOK'
  BY <1>3 DEF Restore
<1>4. ASSUME NEW k \in Conn, OffsetNotFound(k) PROVE BornOK'
  BY <1>4 DEF OffsetNotFound
<1>5. ASSUME NEW k \in Conn, Fresh(k) PROVE BornOK'
  BY <1>5 DEF Fresh
<1>6. ASSUME NEW k \in Conn, DoConnect(k) PROVE BornOK'
  BY <1>6 DEF DoConnect
<1>7. ASSUME NEW k \in Conn, Abandon(k) PROVE BornOK'
  BY <1>7 DEF Abandon
<1>8. ASSUME NEW k \in Conn, PersistSession(k) PROVE BornOK'
  BY <1>8 DEF PersistSession
<1>9. ASSUME NEW k \in Conn, Cleanup(k) PROVE BornOK'
  BY <1>9 DEF Cleanup
<1>10. ASSUME NEW k \in Conn, Untrack(k) PROVE BornOK'
  BY <1>10 DEF Untrack
<1>11. ASSUME NEW k \in Conn, NEW r \in Room, Join(k, r) PROVE BornOK'
  BY <1>11 DEF Join
<1>12. ASSUME NEW k \in Conn, NEW r \in Room, Leave(k, r) PROVE BornOK'
  BY <1>12 DEF Leave
<1>13. ASSUME Welcome PROVE BornOK'
  BY <1>13 DEF Welcome
<1>14. ASSUME Receive PROVE BornOK'
  BY <1>14 DEF Receive
<1>15. ASSUME Lose PROVE BornOK'
  BY <1>15 DEF Lose
<1>16. ASSUME Deliver PROVE BornOK'
  BY <1>16 DEF Deliver
<1>17. ASSUME Interval PROVE BornOK'
  BY <1>17 DEF Interval, IntervalTest, IntervalDelete, IntervalDrop
<1>18. ASSUME Tick PROVE BornOK'
  BY <1>18 DEF Tick
<1>19. ASSUME NEW o \in Opts, Store(o) PROVE BornOK'
  BY <1>19 DEF Store
<1>20. ASSUME UNCHANGED vars PROVE BornOK'
  BY <1>20 DEF vars
<1>21. ASSUME NEW k \in Conn, DeleteSession(k) PROVE BornOK'
  BY <1>21 DEF DeleteSession
<1> QED
  BY <1>1, <1>2, <1>3, <1>4, <1>5, <1>6, <1>7, <1>8, <1>9, <1>10, <1>11, <1>12, <1>13,
    <1>14, <1>15, <1>16, <1>17, <1>18, <1>19, <1>20, <1>21 DEF Next, Serve

LEMMA SoloStep == SessionInv /\ [Next]_vars => Solo'
<1> SUFFICES ASSUME SessionInv, [Next]_vars PROVE Solo'
  OBVIOUS
<1> TypeOK /\ OpenedOK /\ BornOK /\ Solo
  BY DEF SessionInv, OrderInv, TypeInv
<1> USE DEF Solo, Closed, TypeOK, clock, store, tables, conns, client, history
<1>1. ASSUME NEW k \in Conn, Open(k) PROVE Solo'
  <2>1. Latest' = k
    BY <1>1, NewestOpens
  <2>2. ~overlap' => \A j \in Conn : Closed(j)
    BY <1>1 DEF Open
  <2>3. \A j \in Conn : j # k => pc'[j] = pc[j]
    BY <1>1 DEF Open
  <2> QED
    BY <2>1, <2>2, <2>3
<1>2. ASSUME NEW k \in Conn, Load(k) PROVE Solo'
  <2>1. Latest' = Latest
    BY <1>2, NewestStays DEF Others, Serve
  <2>2. UNCHANGED <<born, overlap>> /\ \A j \in Conn : Closed(j) => Closed(j)'
    BY <1>2 DEF Load
  <2> QED
    BY <2>1, <2>2
<1>3. ASSUME NEW k \in Conn, Restore(k) PROVE Solo'
  <2>1. Latest' = Latest
    BY <1>3, NewestStays DEF Others, Serve
  <2>2. UNCHANGED <<born, overlap>> /\ \A j \in Conn : Closed(j) => Closed(j)'
    BY <1>3 DEF Restore
  <2> QED
    BY <2>1, <2>2
<1>4. ASSUME NEW k \in Conn, OffsetNotFound(k) PROVE Solo'
  <2>1. Latest' = Latest
    BY <1>4, NewestStays DEF Others, Serve
  <2>2. UNCHANGED <<born, overlap>> /\ \A j \in Conn : Closed(j) => Closed(j)'
    BY <1>4 DEF OffsetNotFound
  <2> QED
    BY <2>1, <2>2
<1>5. ASSUME NEW k \in Conn, Fresh(k) PROVE Solo'
  <2>1. Latest' = Latest
    BY <1>5, NewestStays DEF Others, Serve
  <2>2. /\ pc[k] = "fresh" /\ born' = [born EXCEPT ![k] = k] /\ pc' = [pc EXCEPT ![k] = "run"]
        /\ overlap' = (overlap /\ k # Latest)
    BY <1>5 DEF Fresh
  <2>3. \A j \in Conn : born[j] # k
    BY <2>2 DEF BornOK, Unborn
  <2> QED
    BY <2>1, <2>2, <2>3
<1>6. ASSUME NEW k \in Conn, DoConnect(k) PROVE Solo'
  <2>1. Latest' = Latest
    BY <1>6, NewestStays DEF Others, Serve
  <2>2. UNCHANGED <<born, overlap>> /\ \A j \in Conn : Closed(j) => Closed(j)'
    BY <1>6 DEF DoConnect
  <2> QED
    BY <2>1, <2>2
<1>7. ASSUME NEW k \in Conn, Abandon(k) PROVE Solo'
  <2>1. Latest' = Latest
    BY <1>7, NewestStays DEF Others, Serve
  <2>2. UNCHANGED <<born, overlap>> /\ \A j \in Conn : Closed(j) => Closed(j)'
    BY <1>7 DEF Abandon
  <2> QED
    BY <2>1, <2>2
<1>8. ASSUME NEW k \in Conn, PersistSession(k) PROVE Solo'
  <2>1. Latest' = Latest
    BY <1>8, NewestStays DEF Others, Serve
  <2>2. UNCHANGED <<born, overlap>> /\ \A j \in Conn : Closed(j) => Closed(j)'
    BY <1>8 DEF PersistSession
  <2> QED
    BY <2>1, <2>2
<1>9. ASSUME NEW k \in Conn, Cleanup(k) PROVE Solo'
  <2>1. Latest' = Latest
    BY <1>9, NewestStays DEF Others, Serve
  <2>2. UNCHANGED <<born, overlap>> /\ \A j \in Conn : Closed(j) => Closed(j)'
    BY <1>9 DEF Cleanup
  <2> QED
    BY <2>1, <2>2
<1>10. ASSUME NEW k \in Conn, Untrack(k) PROVE Solo'
  <2>1. Latest' = Latest
    BY <1>10, NewestStays DEF Others, Serve
  <2>2. UNCHANGED <<born, overlap>> /\ \A j \in Conn : Closed(j) => Closed(j)'
    BY <1>10 DEF Untrack
  <2> QED
    BY <2>1, <2>2
<1>11. ASSUME NEW k \in Conn, NEW r \in Room, Join(k, r) PROVE Solo'
  <2>1. Latest' = Latest
    BY <1>11, NewestStays DEF Others
  <2>2. UNCHANGED <<pc, born, overlap>>
    BY <1>11 DEF Join
  <2> QED
    BY <2>1, <2>2
<1>12. ASSUME NEW k \in Conn, NEW r \in Room, Leave(k, r) PROVE Solo'
  <2>1. Latest' = Latest
    BY <1>12, NewestStays DEF Others
  <2>2. UNCHANGED <<pc, born, overlap>>
    BY <1>12 DEF Leave
  <2> QED
    BY <2>1, <2>2
<1>13. ASSUME Welcome PROVE Solo'
  BY <1>13, NewestStays DEF Others, Welcome
<1>14. ASSUME Receive PROVE Solo'
  BY <1>14, NewestStays DEF Others, Receive
<1>15. ASSUME Lose PROVE Solo'
  BY <1>15, NewestStays DEF Others, Lose
<1>16. ASSUME Deliver PROVE Solo'
  BY <1>16, NewestStays DEF Others, Deliver
<1>17. ASSUME Interval PROVE Solo'
  BY <1>17, NewestStays DEF Others, Interval, IntervalTest, IntervalDelete, IntervalDrop
<1>18. ASSUME Tick PROVE Solo'
  BY <1>18, NewestStays DEF Others, Tick
<1>19. ASSUME NEW o \in Opts, Store(o) PROVE Solo'
  BY <1>19, NewestStays DEF Others, Store
<1>20. ASSUME UNCHANGED vars PROVE Solo'
  BY <1>20, NewestStays DEF Others, vars
<1>21. ASSUME NEW k \in Conn, DeleteSession(k) PROVE Solo'
  <2>1. Latest' = Latest
    BY <1>21, NewestStays DEF Others, Serve
  <2>2. UNCHANGED <<born, overlap>> /\ \A j \in Conn : Closed(j) => Closed(j)'
    BY <1>21 DEF DeleteSession
  <2> QED
    BY <2>1, <2>2
<1> QED
  BY <1>1, <1>2, <1>3, <1>4, <1>5, <1>6, <1>7, <1>8, <1>9, <1>10, <1>11, <1>12, <1>13,
    <1>14, <1>15, <1>16, <1>17, <1>18, <1>19, <1>20, <1>21 DEF Next, Serve

LEMMA DoomedStep == SessionInv /\ [Next]_vars => DoomedOK'
<1> SUFFICES ASSUME SessionInv, [Next]_vars, ~crossed' PROVE DoomedOK'
  BY DEF DoomedOK
<1> TypeOK /\ StageOK /\ BornOK /\ DoomedOK
  BY DEF SessionInv, OrderInv, TypeInv
<1> USE DEF clock, store, tables, conns, client, history
<1>1. \A p \in Conn : sessions[p] # None => sessions[p].at \in Nat
  BY DEF TypeOK, Session
<1>2. ASSUME NEW p \in Conn, sessions[p] # None, sessions'[p] = sessions[p],
             Expired(sessions[p].at)
      PROVE  Expired(sessions[p].at)'
  <2>1. PICK at \in Nat : at = sessions[p].at
    BY <1>1, <1>2
  <2>2. Expired(at)'
    BY <1>2, <2>1, ExpiredStays
  <2> QED
    BY <1>2, <2>1, <2>2 DEF Expired
<1>3. \A k \in Conn : pc[k] = "expired" => born[k] \in Conn
  BY DEF TypeOK, StageOK
<1>4. ASSUME NEW k \in Conn, PersistSession(k) PROVE DoomedOK'
  <2>1. /\ ~crossed /\ doomed # born[k]
        /\ \A j \in Conn : pc[j] = "expired" => born[j] # born[k]
        /\ \E s \in Session : sessions' = [sessions EXCEPT ![born[k]] = s]
        /\ UNCHANGED <<doomed, born>> /\ \A j \in Conn : pc'[j] = "expired" => pc[j] = "expired"
    <3>1. born[k] \in Conn /\ now \in Nat
      BY <1>4, BoundsNat DEF PersistSession, TypeOK, StageOK, Past
    <3>2. [rooms |-> rooms[born[k]], at |-> now] \in Session
      BY <3>1 DEF TypeOK, Session
    <3> QED
      BY <1>4, <3>2 DEF PersistSession, TypeOK
  <2>2. \A p \in Conn : p # born[k] => sessions'[p] = sessions[p]
    BY <2>1 DEF TypeOK
  <2>3. doomed \in Conn \cup {None}
    BY DEF TypeOK
  <2> HIDE DEF TypeOK
  <2> QED
    BY <1>2, <1>3, <2>1, <2>2, <2>3 DEF DoomedOK
<1>5. ASSUME NEW p \in Conn, IntervalTest(p) PROVE DoomedOK'
  BY <1>2, <1>3, <1>5 DEF IntervalTest, DoomedOK
<1>6. ASSUME NEW k \in Conn, Load(k) PROVE DoomedOK'
  <2>1. /\ UNCHANGED <<doomed, born, sessions, crossed>>
        /\ \A j \in Conn : pc'[j] = "expired" /\ pc[j] # "expired" =>
             j = k /\ Expired(sessions[born[k]].at)
    BY <1>6 DEF Load, TypeOK
  <2>2. doomed \in Conn \cup {None} /\ (pc[k] = "load" => born[k] \in Conn) /\ pc[k] = "load"
    BY <1>6 DEF Load, TypeOK, StageOK
  <2> QED
    BY <1>2, <1>3, <2>1, <2>2 DEF DoomedOK
<1>7. ASSUME ~crossed, doomed' \in {doomed, None},
             \A p \in Conn : sessions'[p] \in {None, sessions[p]},
             \A j \in Conn : pc'[j] = "expired" => pc[j] = "expired" /\ born'[j] = born[j]
      PROVE  DoomedOK'
  <2>1. doomed \in Conn \cup {None}
    BY DEF TypeOK
  <2> QED
    BY <1>2, <1>3, <1>7, <2>1 DEF DoomedOK
<1>8. ASSUME NEW k \in Conn, Open(k) PROVE DoomedOK'
  <2>1. pc'[k] # "expired" /\ \A j \in Conn : j # k => pc'[j] = pc[j] /\ born'[j] = born[j]
    BY <1>8 DEF Open, TypeOK
  <2>2. UNCHANGED <<crossed, doomed, sessions>>
    BY <1>8 DEF Open
  <2> QED
    BY <1>7, <2>1, <2>2
<1>9. ASSUME NEW k \in Conn,
             \/ DeleteSession(k) \/ Restore(k) \/ OffsetNotFound(k) \/ Fresh(k)
             \/ DoConnect(k) \/ Abandon(k) \/ Cleanup(k) \/ Untrack(k)
      PROVE  DoomedOK'
  <2>1. /\ \E stage \in {"fresh", "run", "live", "gone", "remove"} : pc' = [pc EXCEPT ![k] = stage]
        /\ \A j \in Conn : j # k => born'[j] = born[j]
    BY <1>9 DEF DeleteSession, Restore, OffsetNotFound, Fresh, DoConnect, Abandon, Cleanup,
      Untrack, TypeOK
  <2>2. UNCHANGED <<crossed, doomed>> /\ \A p \in Conn : sessions'[p] \in {None, sessions[p]}
    BY <1>9 DEF DeleteSession, Restore, OffsetNotFound, Fresh, DoConnect, Abandon, Cleanup,
      Untrack, TypeOK
  <2>3. \A j \in Conn : pc'[j] = "expired" => j # k /\ pc[j] = "expired"
    BY <2>1 DEF TypeOK
  <2> QED
    BY <1>7, <2>1, <2>2, <2>3
<1>10. ASSUME \/ (\E k \in Conn, r \in Room : Join(k, r) \/ Leave(k, r))
              \/ Welcome \/ Receive \/ Lose \/ (\E o \in Opts : Store(o))
              \/ Deliver \/ IntervalDelete \/ IntervalDrop \/ Tick \/ UNCHANGED vars
       PROVE  DoomedOK'
  <2>1. /\ UNCHANGED <<crossed, pc, born>> /\ doomed' \in {doomed, None}
        /\ \A p \in Conn : sessions'[p] \in {None, sessions[p]}
    BY <1>10 DEF Join, Leave, Welcome, Receive, Lose, Store, Deliver, IntervalDelete,
      IntervalDrop, Tick, vars, TypeOK
  <2> QED
    BY <1>7, <2>1
<1> QED
  BY <1>4, <1>5, <1>6, <1>8, <1>9, <1>10 DEF Next, Serve, Interval

(* A session is deleted that has expired, or that was persisted too late.     *)
Spent(p) ==
  sessions'[p] = None /\ (sessions[p] # None => Expired(sessions[p].at) \/ crossed)

LEMMA SessionsGo ==
  ASSUME TypeOK, SessionOK, Latest' = Latest, UNCHANGED <<now, leftAt, crossed, pid, born>>,
         \A p \in Conn : sessions'[p] = sessions[p] \/ Spent(p),
         \A j \in Conn : /\ pc[j] = "live" => pc'[j] = "live"
                         /\ pc'[j] \in {"run", "live"} => pc[j] \in {"run", "live"}
  PROVE  SessionOK'
<1> USE DEF SessionOK, TypeOK, Expired, Spent
<1>1. pid # None => \/ Expired(leftAt)' \/ crossed' \/ sessions'[pid] # None
                   \/ \E j \in Conn : born'[j] = pid /\ pc'[j] = "live"
  <2>1. CASE pid # None /\ sessions[pid] # None
    BY <2>1
  <2>2. CASE pid # None /\ sessions[pid] = None
    BY <2>2
  <2> QED
    BY <2>1, <2>2
<1>2. pid # None /\ sessions'[pid] # None => sessions'[pid].at = leftAt
  OBVIOUS
<1>3. ASSUME NEW j \in Conn, j = Latest, born[j] \notin {None, pid}
      PROVE  /\ born[j] = j /\ (pc'[j] \in {"run", "live"} => sessions'[j] = None)
             /\ \A i \in Conn : i # j => born[i] # j
  BY <1>3
<1> QED
  BY <1>1, <1>2, <1>3

LEMMA SessionStep == SessionInv /\ [Next]_vars => SessionOK'
<1> SUFFICES ASSUME SessionInv, [Next]_vars PROVE SessionOK'
  OBVIOUS
<1> TypeOK /\ OpenedOK /\ StageOK /\ OffsetOK /\ BornOK /\ SessionOK /\ DoomedOK
  BY DEF SessionInv, OrderInv, TypeInv
<1> USE DEF SessionOK, TypeOK, Expired, clock, store, tables, conns, client, history
<1>1. ASSUME NEW k \in Conn, Open(k) PROVE SessionOK'
  <2>1. pc[k] = "new" /\ Latest' = k /\ born[k] = None
    BY <1>1, NewestOpens DEF BornOK, Unborn
  <2>2. UNCHANGED <<now, leftAt, crossed, pid, sessions>>
    BY <1>1 DEF Open
  <2>3. \/ pc' = [pc EXCEPT ![k] = "load"] /\ born' = [born EXCEPT ![k] = pid]
        \/ pc' = [pc EXCEPT ![k] = "fresh"] /\ born' = born
    BY <1>1 DEF Open
  <2>4. \A j \in Conn : pc[j] = "live" => j # k /\ pc'[j] = pc[j] /\ born'[j] = born[j]
    BY <2>1, <2>3
  <2> QED
    BY <2>1, <2>2, <2>3, <2>4
<1>2. ASSUME NEW k \in Conn, Load(k) PROVE SessionOK'
  <2>1. Latest' = Latest
    BY <1>2, NewestStays DEF Others, Serve
  <2>2. UNCHANGED <<now, leftAt, crossed, pid, sessions, born>>
    BY <1>2 DEF Load
  <2>3. \A j \in Conn : /\ pc[j] = "live" => pc'[j] = "live"
                        /\ pc'[j] \in {"run", "live"} => pc[j] \in {"run", "live"}
    BY <1>2 DEF Load
  <2> QED
    BY <2>1, <2>2, <2>3
<1>3. ASSUME NEW k \in Conn, Restore(k) PROVE SessionOK'
  <2>1. Latest' = Latest
    BY <1>3, NewestStays DEF Others, Serve
  <2>2. /\ pc[k] = "read" /\ pc' = [pc EXCEPT ![k] = "run"]
        /\ UNCHANGED <<now, leftAt, crossed, pid, sessions, born>>
    BY <1>3 DEF Restore
  <2>3. k = Latest => born[k] = pid
    BY <2>2 DEF OffsetOK
  <2> QED
    BY <2>1, <2>2, <2>3
<1>4. ASSUME NEW k \in Conn, OffsetNotFound(k) PROVE SessionOK'
  <2>1. Latest' = Latest
    BY <1>4, NewestStays DEF Others, Serve
  <2>2. UNCHANGED <<now, leftAt, crossed, pid, sessions, born>>
    BY <1>4 DEF OffsetNotFound
  <2>3. \A j \in Conn : /\ pc[j] = "live" => pc'[j] = "live"
                        /\ pc'[j] \in {"run", "live"} => pc[j] \in {"run", "live"}
    BY <1>4 DEF OffsetNotFound
  <2> QED
    BY <2>1, <2>2, <2>3
<1>5. ASSUME NEW k \in Conn, Fresh(k) PROVE SessionOK'
  <2>1. Latest' = Latest
    BY <1>5, NewestStays DEF Others, Serve
  <2>2. /\ pc[k] = "fresh" /\ born' = [born EXCEPT ![k] = k] /\ pc' = [pc EXCEPT ![k] = "run"]
        /\ UNCHANGED <<now, leftAt, crossed, pid, sessions>>
    BY <1>5 DEF Fresh
  <2>3. pid # k /\ sessions[k] = None /\ \A j \in Conn : born[j] # k
    BY <2>2 DEF BornOK, Unborn
  <2> QED
    BY <2>1, <2>2, <2>3
<1>6. ASSUME NEW k \in Conn, DoConnect(k) PROVE SessionOK'
  <2>1. Latest' = Latest
    BY <1>6, NewestStays DEF Others, Serve
  <2>2. UNCHANGED <<now, leftAt, crossed, pid, sessions, born>>
    BY <1>6 DEF DoConnect
  <2>3. \A j \in Conn : /\ pc[j] = "live" => pc'[j] = "live"
                        /\ pc'[j] \in {"run", "live"} => pc[j] \in {"run", "live"}
    BY <1>6 DEF DoConnect
  <2> QED
    BY <2>1, <2>2, <2>3
<1>7. ASSUME NEW k \in Conn, Abandon(k) PROVE SessionOK'
  <2>1. Latest' = Latest
    BY <1>7, NewestStays DEF Others, Serve
  <2>2. UNCHANGED <<now, leftAt, crossed, pid, sessions, born>>
    BY <1>7 DEF Abandon
  <2>3. \A j \in Conn : /\ pc[j] = "live" => pc'[j] = "live"
                        /\ pc'[j] \in {"run", "live"} => pc[j] \in {"run", "live"}
    BY <1>7 DEF Abandon
  <2> QED
    BY <2>1, <2>2, <2>3
<1>8. ASSUME NEW k \in Conn, PersistSession(k) PROVE SessionOK'
  <2> DEFINE session == [rooms |-> rooms[born[k]], at |-> now]
  <2>1. Latest' = Latest
    BY <1>8, NewestStays DEF Others, Serve
  <2>2. /\ pc[k] = "live" /\ pc' = [pc EXCEPT ![k] = "cleanup"]
        /\ leftAt' = IF born[k] = pid THEN now ELSE leftAt
        /\ sessions' = [sessions EXCEPT ![born[k]] = session]
        /\ UNCHANGED <<now, pid, born>> /\ (crossed => crossed')
    BY <1>8 DEF PersistSession
  <2>3. session.at = now
    OBVIOUS
  <2>4. born[k] \in Conn /\ session # None
    <3>1. born[k] \in Conn
      BY <2>2 DEF StageOK, Past
    <3>2. session \in Session
      BY <3>1, BoundsNat DEF Session
    <3> QED
      BY <3>1, <3>2, NoneAssumption
  <2> HIDE DEF session
  <2> QED
    BY <2>1, <2>2, <2>3, <2>4
<1>9. ASSUME NEW k \in Conn, Cleanup(k) PROVE SessionOK'
  <2>1. Latest' = Latest
    BY <1>9, NewestStays DEF Others, Serve
  <2>2. UNCHANGED <<now, leftAt, crossed, pid, sessions, born>>
    BY <1>9 DEF Cleanup
  <2>3. \A j \in Conn : /\ pc[j] = "live" => pc'[j] = "live"
                        /\ pc'[j] \in {"run", "live"} => pc[j] \in {"run", "live"}
    BY <1>9 DEF Cleanup
  <2> QED
    BY <2>1, <2>2, <2>3
<1>10. ASSUME NEW k \in Conn, Untrack(k) PROVE SessionOK'
  <2>1. Latest' = Latest
    BY <1>10, NewestStays DEF Others, Serve
  <2>2. UNCHANGED <<now, leftAt, crossed, pid, sessions, born>>
    BY <1>10 DEF Untrack
  <2>3. \A j \in Conn : /\ pc[j] = "live" => pc'[j] = "live"
                        /\ pc'[j] \in {"run", "live"} => pc[j] \in {"run", "live"}
    BY <1>10 DEF Untrack
  <2> QED
    BY <2>1, <2>2, <2>3
<1>11. ASSUME NEW k \in Conn, NEW r \in Room, Join(k, r) PROVE SessionOK'
  BY <1>11, NewestStays DEF Others, Serve, Join
<1>12. ASSUME NEW k \in Conn, NEW r \in Room, Leave(k, r) PROVE SessionOK'
  BY <1>12, NewestStays DEF Others, Serve, Leave
<1>13. ASSUME Welcome PROVE SessionOK'
  <2>1. Latest' = Latest
    BY <1>13, NewestStays DEF Others
  <2>2. /\ open = Latest /\ open \in Conn /\ pc[open] = "live" /\ pid # born[open]
        /\ pid' = born[open] /\ UNCHANGED <<now, leftAt, crossed, sessions, pc, born>>
    BY <1>13, NoneAssumption DEF Welcome, OpenedOK
  <2>3. born[open] # None
    BY <2>2 DEF StageOK, Past
  <2> QED
    BY <2>1, <2>2, <2>3
<1>14. ASSUME Receive PROVE SessionOK'
  BY <1>14, NewestStays DEF Others, Serve, Receive
<1>15. ASSUME Lose PROVE SessionOK'
  BY <1>15, NewestStays DEF Others, Serve, Lose
<1>16. ASSUME Deliver PROVE SessionOK'
  BY <1>16, NewestStays DEF Others, Serve, Deliver
<1>17. ASSUME Interval PROVE SessionOK'
  <2>1. Latest' = Latest
    BY <1>17, NewestStays DEF Others
  <2>2. UNCHANGED <<now, leftAt, crossed, pid, pc, born>>
    BY <1>17 DEF Interval, IntervalTest, IntervalDelete, IntervalDrop
  <2>3. \A p \in Conn : sessions'[p] = sessions[p] \/ Spent(p)
    BY <1>17 DEF Interval, IntervalTest, IntervalDelete, IntervalDrop, DoomedOK, Spent
  <2> QED
    BY <2>1, <2>2, <2>3, SessionsGo
<1>18. ASSUME Tick PROVE SessionOK'
  <2>1. Latest' = Latest
    BY <1>18, NewestStays DEF Others
  <2>2. Expired(leftAt) => Expired(leftAt)'
    BY <1>18, BoundsNat DEF Tick, Expired
  <2>3. UNCHANGED <<leftAt, crossed, pid, sessions, pc, born>>
    BY <1>18 DEF Tick
  <2> QED
    BY <2>1, <2>2, <2>3
<1>19. ASSUME NEW o \in Opts, Store(o) PROVE SessionOK'
  BY <1>19, NewestStays DEF Others, Serve, Store
<1>20. ASSUME UNCHANGED vars PROVE SessionOK'
  BY <1>20, NewestStays DEF Others, vars
<1>21. ASSUME NEW k \in Conn, DeleteSession(k) PROVE SessionOK'
  <2>1. Latest' = Latest
    BY <1>21, NewestStays DEF Others, Serve
  <2>2. /\ UNCHANGED <<now, leftAt, crossed, pid, born>> /\ pc[k] = "expired"
        /\ pc' = [pc EXCEPT ![k] = "fresh"]
        /\ sessions' = [sessions EXCEPT ![born[k]] = None]
    BY <1>21 DEF DeleteSession
  <2>3. \A p \in Conn : sessions'[p] = sessions[p] \/ Spent(p)
    BY <2>2 DEF DoomedOK, Spent
  <2>4. \A j \in Conn : /\ pc[j] = "live" => pc'[j] = "live"
                        /\ pc'[j] \in {"run", "live"} => pc[j] \in {"run", "live"}
    BY <2>2
  <2> QED
    BY <2>1, <2>2, <2>3, <2>4, SessionsGo
<1> QED
  BY <1>1, <1>2, <1>3, <1>4, <1>5, <1>6, <1>7, <1>8, <1>9, <1>10, <1>11, <1>12, <1>13,
    <1>14, <1>15, <1>16, <1>17, <1>18, <1>19, <1>20, <1>21 DEF Next, Serve

LEMMA InitSession == Init => SessionInv
<1> SUFFICES ASSUME Init PROVE SessionInv
  OBVIOUS
<1>1. KeptOK /\ Solo
  BY DEF Init, KeptOK, Solo, Closed
<1>2. BornOK
  BY NoneAssumption DEF Init, BornOK
<1>3. SessionOK /\ DoomedOK
  BY DEF Init, SessionOK, DoomedOK
<1> QED
  BY <1>1, <1>2, <1>3, InitType, InitOrder DEF SessionInv, OrderInv

LEMMA SessionNext == SessionInv /\ [Next]_vars => SessionInv'
BY TypeNext, OrderStep, OffsetStep, KeptStep, BornStep, SoloStep, SessionStep, DoomedStep
DEF SessionInv, OrderInv

(* A connection gets a new session only if there is none to restore: the      *)
(* interval deletes neither a session nor a packet too early.                  *)
THEOREM FreshJustified == Spec => FreshIsJustified
<1> DEFINE Justified(k) == \/ pid = None \/ got = <<>> \/ overlap' \/ crossed
                           \/ Expired(leftAt) \/ Expired(Last(got).at)
<1>1. ASSUME SessionInv, [Next]_vars, NEW k \in Conn,
             pc[k] # "fresh", pc'[k] = "fresh", open' = k
      PROVE  Justified(k)
  <2> TypeOK /\ OpenedOK /\ StageOK /\ OffsetOK /\ KeptOK /\ Solo /\ SessionOK /\ DoomedOK
    BY <1>1 DEF SessionInv, OrderInv, TypeInv
  <2> USE DEF clock, store, tables, conns, client, history
  <2>1. CASE Open(k)
    BY <2>1, <1>1 DEF Open, TypeOK
  <2>2. CASE Load(k)
    <3>1. open = k /\ k = Latest /\ pc[k] = "load" /\ overlap' = overlap
      BY <1>1, <2>2, NoneAssumption DEF Load, OpenedOK
    <3>2. born[k] = pid /\ pid # None
      BY <3>1 DEF OffsetOK, StageOK
    <3>3. sessions[pid] = None
      BY <1>1, <2>2, <3>2 DEF Load, TypeOK
    <3>4. CASE \E j \in Conn : born[j] = pid /\ pc[j] = "live"
      BY <3>1, <3>2, <3>4 DEF Solo, Closed
    <3> QED
      BY <3>2, <3>3, <3>4 DEF SessionOK
  <2>9. CASE DeleteSession(k)
    <3>1. open = k /\ k = Latest /\ pc[k] = "expired" /\ overlap' = overlap
      BY <1>1, <2>9, NoneAssumption DEF DeleteSession, OpenedOK
    <3>2. born[k] = pid /\ pid # None
      BY <3>1 DEF OffsetOK, StageOK
    <3>3. CASE sessions[pid] # None
      BY <3>1, <3>2, <3>3 DEF SessionOK, DoomedOK
    <3>4. CASE \E j \in Conn : born[j] = pid /\ pc[j] = "live"
      BY <3>1, <3>2, <3>4 DEF Solo, Closed
    <3> QED
      BY <3>2, <3>3, <3>4 DEF SessionOK
  <2>3. CASE OffsetNotFound(k)
    <3>1. k = Latest /\ pc[k] = "read" /\ \A i \in DOMAIN log : log[i].id # offset[k]
      BY <1>1, <2>3, NoneAssumption DEF OffsetNotFound, OpenedOK
    <3>2. got # <<>> /\ offset[k] = got[Len(got)].id
      BY <3>1 DEF OffsetOK
    <3>3. Len(got) \in DOMAIN got
      BY <3>2 DEF TypeOK
    <3>4. Kept(got[Len(got)])
      BY <3>3 DEF KeptOK
    <3> QED
      BY <3>1, <3>2, <3>4 DEF Kept, Last
  <2>4. CASE UNCHANGED pc
    BY <1>1, <2>4
  <2>5. CASE \E j \in Conn : j # k /\ pc'[k] = pc[k]
    BY <1>1, <2>5
  <2>6. CASE \E j \in Conn : \/ Restore(j) \/ Fresh(j) \/ DoConnect(j) \/ Abandon(j)
                             \/ PersistSession(j) \/ Cleanup(j) \/ Untrack(j)
    BY <1>1, <2>6 DEF Restore, Fresh, DoConnect, Abandon, PersistSession, Cleanup,
      Untrack, TypeOK
  <2>7. ASSUME NEW j \in Conn, j # k, \/ Open(j) \/ Load(j) \/ DeleteSession(j) \/ OffsetNotFound(j)
        PROVE  pc'[k] = pc[k]
    BY <2>7 DEF Open, Load, DeleteSession, OffsetNotFound, TypeOK
  <2>8. CASE \/ (\E j \in Conn, r \in Room : Join(j, r) \/ Leave(j, r))
             \/ Welcome \/ Receive \/ Lose \/ (\E o \in Opts : Store(o))
             \/ Deliver \/ Interval \/ Tick \/ UNCHANGED vars
    BY <2>8, <2>4 DEF Join, Leave, Welcome, Receive, Lose, Store, Deliver, Interval,
      IntervalTest, IntervalDelete, IntervalDrop,
      Tick, vars
  <2> QED
    BY <1>1, <2>1, <2>2, <2>3, <2>6, <2>7, <2>8, <2>9 DEF Next, Serve
<1>2. SessionInv /\ [Next]_vars =>
        [\A k \in Conn : pc[k] # "fresh" /\ pc'[k] = "fresh" /\ open' = k => Justified(k)]_vars
  BY <1>1
<1> QED
  BY <1>2, InitSession, SessionNext, PTL DEF Spec, FreshIsJustified

-----------------------------------------------------------------------------
(* What a restored client is owed *)

RecoveryInv == SessionInv /\ RoomsOK /\ LiveOK /\ OwedOK

LEMMA RoomsStep == RecoveryInv /\ [Next]_vars => RoomsOK'
<1> SUFFICES ASSUME RecoveryInv, [Next]_vars PROVE RoomsOK'
  OBVIOUS
<1> TypeOK /\ OpenedOK /\ RoomsOK
  BY DEF RecoveryInv, SessionInv, OrderInv, TypeInv
<1> USE DEF RoomsOK, TypeOK, clock, store, tables, conns, client, history
<1>1. ASSUME NEW k \in Conn, Open(k) PROVE RoomsOK'
  <2>1. pc[k] = "new" /\ rooms' = rooms
    BY <1>1, NewestOpens DEF Open
  <2>2. \A j \in Conn : j # k => pc'[j] = pc[j] /\ born'[j] = born[j]
    BY <1>1 DEF Open
  <2>3. \A s \in Conn : rooms[s] # {} =>
          \E j \in Conn \ {k} : born[j] = s /\ pc[j] \in {"run", "live", "cleanup"}
    BY <2>1
  <2> HIDE DEF TypeOK
  <2> QED
    BY <2>1, <2>2, <2>3
<1>2. ASSUME NEW k \in Conn, Load(k) PROVE RoomsOK'
  <2>1. \A s \in Conn : rooms'[s] # {} =>
          rooms[s] # {} \/ (s = born[k] /\ pc'[k] \in {"run", "live", "cleanup"})
    BY <1>2 DEF Load
  <2>2. \A s, j \in Conn :
          rooms'[s] # {} /\ born[j] = s /\ pc[j] \in {"run", "live", "cleanup"} =>
            born'[j] = s /\ pc'[j] \in {"run", "live", "cleanup"}
    BY <1>2 DEF Load
  <2>3. born'[k] = born[k]
    BY <1>2 DEF Load
  <2> QED
    BY <2>1, <2>2, <2>3
<1>3. ASSUME NEW k \in Conn, Restore(k) PROVE RoomsOK'
  <2>1. \A s \in Conn : rooms'[s] # {} =>
          rooms[s] # {} \/ (s = born[k] /\ pc'[k] \in {"run", "live", "cleanup"})
    BY <1>3 DEF Restore
  <2>2. \A s, j \in Conn :
          rooms'[s] # {} /\ born[j] = s /\ pc[j] \in {"run", "live", "cleanup"} =>
            born'[j] = s /\ pc'[j] \in {"run", "live", "cleanup"}
    BY <1>3 DEF Restore
  <2>3. born'[k] = born[k]
    BY <1>3 DEF Restore
  <2> QED
    BY <2>1, <2>2, <2>3
<1>4. ASSUME NEW k \in Conn, OffsetNotFound(k) PROVE RoomsOK'
  <2>1. \A s \in Conn : rooms'[s] # {} =>
          rooms[s] # {} \/ (s = born[k] /\ pc'[k] \in {"run", "live", "cleanup"})
    BY <1>4 DEF OffsetNotFound
  <2>2. \A s, j \in Conn :
          rooms'[s] # {} /\ born[j] = s /\ pc[j] \in {"run", "live", "cleanup"} =>
            born'[j] = s /\ pc'[j] \in {"run", "live", "cleanup"}
    BY <1>4 DEF OffsetNotFound
  <2>3. born'[k] = born[k]
    BY <1>4 DEF OffsetNotFound
  <2> QED
    BY <2>1, <2>2, <2>3
<1>5. ASSUME NEW k \in Conn, Fresh(k) PROVE RoomsOK'
  <2>1. pc[k] = "fresh" /\ rooms' = rooms
    BY <1>5 DEF Fresh
  <2>2. \A j \in Conn : j # k => pc'[j] = pc[j] /\ born'[j] = born[j]
    BY <1>5 DEF Fresh
  <2>3. \A s \in Conn : rooms[s] # {} =>
          \E j \in Conn \ {k} : born[j] = s /\ pc[j] \in {"run", "live", "cleanup"}
    BY <2>1
  <2> HIDE DEF TypeOK
  <2> QED
    BY <2>1, <2>2, <2>3
<1>6. ASSUME NEW k \in Conn, DoConnect(k) PROVE RoomsOK'
  <2>1. \A s \in Conn : rooms'[s] # {} =>
          rooms[s] # {} \/ (s = born[k] /\ pc'[k] \in {"run", "live", "cleanup"})
    BY <1>6 DEF DoConnect
  <2>2. \A s, j \in Conn :
          rooms'[s] # {} /\ born[j] = s /\ pc[j] \in {"run", "live", "cleanup"} =>
            born'[j] = s /\ pc'[j] \in {"run", "live", "cleanup"}
    BY <1>6 DEF DoConnect
  <2>3. born'[k] = born[k]
    BY <1>6 DEF DoConnect
  <2> QED
    BY <2>1, <2>2, <2>3
<1>7. ASSUME NEW k \in Conn, Abandon(k) PROVE RoomsOK'
  <2>1. \A s \in Conn : rooms'[s] # {} =>
          rooms[s] # {} \/ (s = born[k] /\ pc'[k] \in {"run", "live", "cleanup"})
    BY <1>7 DEF Abandon
  <2>2. \A s, j \in Conn :
          rooms'[s] # {} /\ born[j] = s /\ pc[j] \in {"run", "live", "cleanup"} =>
            born'[j] = s /\ pc'[j] \in {"run", "live", "cleanup"}
    BY <1>7 DEF Abandon
  <2>3. born'[k] = born[k]
    BY <1>7 DEF Abandon
  <2> QED
    BY <2>1, <2>2, <2>3
<1>8. ASSUME NEW k \in Conn, PersistSession(k) PROVE RoomsOK'
  <2>1. \A s \in Conn : rooms'[s] # {} =>
          rooms[s] # {} \/ (s = born[k] /\ pc'[k] \in {"run", "live", "cleanup"})
    BY <1>8 DEF PersistSession
  <2>2. \A s, j \in Conn :
          rooms'[s] # {} /\ born[j] = s /\ pc[j] \in {"run", "live", "cleanup"} =>
            born'[j] = s /\ pc'[j] \in {"run", "live", "cleanup"}
    BY <1>8 DEF PersistSession
  <2>3. born'[k] = born[k]
    BY <1>8 DEF PersistSession
  <2> QED
    BY <2>1, <2>2, <2>3
<1>9. ASSUME NEW k \in Conn, Cleanup(k) PROVE RoomsOK'
  <2>1. \A s \in Conn : rooms'[s] # {} =>
          rooms[s] # {} \/ (s = born[k] /\ pc'[k] \in {"run", "live", "cleanup"})
    BY <1>9 DEF Cleanup
  <2>2. \A s, j \in Conn :
          rooms'[s] # {} /\ born[j] = s /\ pc[j] \in {"run", "live", "cleanup"} =>
            born'[j] = s /\ pc'[j] \in {"run", "live", "cleanup"}
    BY <1>9 DEF Cleanup
  <2>3. born'[k] = born[k]
    BY <1>9 DEF Cleanup
  <2> QED
    BY <2>1, <2>2, <2>3
<1>10. ASSUME NEW k \in Conn, Untrack(k) PROVE RoomsOK'
  <2>1. \A s \in Conn : rooms'[s] # {} =>
          rooms[s] # {} \/ (s = born[k] /\ pc'[k] \in {"run", "live", "cleanup"})
    BY <1>10 DEF Untrack
  <2>2. \A s, j \in Conn :
          rooms'[s] # {} /\ born[j] = s /\ pc[j] \in {"run", "live", "cleanup"} =>
            born'[j] = s /\ pc'[j] \in {"run", "live", "cleanup"}
    BY <1>10 DEF Untrack
  <2>3. born'[k] = born[k]
    BY <1>10 DEF Untrack
  <2> QED
    BY <2>1, <2>2, <2>3
<1>11. ASSUME NEW k \in Conn, NEW r \in Room, Join(k, r) PROVE RoomsOK'
  <2>1. \A s \in Conn : rooms'[s] # {} =>
          rooms[s] # {} \/ (s = born[k] /\ pc'[k] \in {"run", "live", "cleanup"})
    BY <1>11 DEF Join
  <2>2. \A s, j \in Conn :
          rooms'[s] # {} /\ born[j] = s /\ pc[j] \in {"run", "live", "cleanup"} =>
            born'[j] = s /\ pc'[j] \in {"run", "live", "cleanup"}
    BY <1>11 DEF Join
  <2>3. born'[k] = born[k]
    BY <1>11 DEF Join
  <2> QED
    BY <2>1, <2>2, <2>3
<1>12. ASSUME NEW k \in Conn, NEW r \in Room, Leave(k, r) PROVE RoomsOK'
  <2>1. \A s \in Conn : rooms'[s] # {} =>
          rooms[s] # {} \/ (s = born[k] /\ pc'[k] \in {"run", "live", "cleanup"})
    BY <1>12 DEF Leave
  <2>2. \A s, j \in Conn :
          rooms'[s] # {} /\ born[j] = s /\ pc[j] \in {"run", "live", "cleanup"} =>
            born'[j] = s /\ pc'[j] \in {"run", "live", "cleanup"}
    BY <1>12 DEF Leave
  <2>3. born'[k] = born[k]
    BY <1>12 DEF Leave
  <2> QED
    BY <2>1, <2>2, <2>3
<1>13. ASSUME Welcome PROVE RoomsOK'
  BY <1>13 DEF Welcome
<1>14. ASSUME Receive PROVE RoomsOK'
  BY <1>14 DEF Receive
<1>15. ASSUME Lose PROVE RoomsOK'
  BY <1>15 DEF Lose
<1>16. ASSUME Deliver PROVE RoomsOK'
  BY <1>16 DEF Deliver
<1>17. ASSUME Interval PROVE RoomsOK'
  BY <1>17 DEF Interval, IntervalTest, IntervalDelete, IntervalDrop
<1>18. ASSUME Tick PROVE RoomsOK'
  BY <1>18 DEF Tick
<1>19. ASSUME NEW o \in Opts, Store(o) PROVE RoomsOK'
  BY <1>19 DEF Store
<1>20. ASSUME UNCHANGED vars PROVE RoomsOK'
  BY <1>20 DEF vars
<1>21. ASSUME NEW k \in Conn, DeleteSession(k) PROVE RoomsOK'
  <2>1. pc[k] = "expired" /\ rooms' = rooms
    BY <1>21 DEF DeleteSession
  <2>2. \A j \in Conn : born'[j] = born[j] /\ (j # k => pc'[j] = pc[j])
    BY <1>21 DEF DeleteSession
  <2>3. \A s \in Conn : rooms[s] # {} =>
          \E j \in Conn \ {k} : born[j] = s /\ pc[j] \in {"run", "live", "cleanup"}
    BY <2>1
  <2> HIDE DEF TypeOK
  <2> QED
    BY <2>1, <2>2, <2>3
<1> QED
  BY <1>1, <1>2, <1>3, <1>4, <1>5, <1>6, <1>7, <1>8, <1>9, <1>10, <1>11, <1>12, <1>13,
    <1>14, <1>15, <1>16, <1>17, <1>18, <1>19, <1>20, <1>21 DEF Next, Serve

LEMMA LiveStep == RecoveryInv /\ [Next]_vars => LiveOK'
<1> SUFFICES ASSUME RecoveryInv, [Next]_vars PROVE LiveOK'
  OBVIOUS
<1> TypeOK /\ OpenedOK /\ StageOK /\ Solo /\ LiveOK
  BY DEF RecoveryInv, SessionInv, OrderInv, TypeInv
<1> USE DEF LiveOK, TypeOK, clock, store, tables, conns, client, history
<1>1. ASSUME NEW k \in Conn, Open(k) PROVE LiveOK'
  <2>1. Latest' = k
    BY <1>1, NewestOpens
  <2>2. pc'[k] # "live"
    BY <1>1 DEF Open
  <2> HIDE DEF TypeOK
  <2> QED
    BY <2>1, <2>2
<1>2. ASSUME NEW k \in Conn, Load(k) PROVE LiveOK'
  <2>1. Latest' = Latest /\ UNCHANGED <<born, overlap>>
    BY <1>2, NewestStays DEF Others, Serve, Load
  <2>2. SUFFICES ASSUME NEW l \in Conn, l = Latest, ~overlap, pc'[l] = "live"
                 PROVE  OwnRoom \in rooms'[born[l]] /\ sockets'[born[l]] = l
    BY <2>1
  <2>3. born[l] \in Conn
    BY <1>2, <2>2 DEF Load, StageOK, Past
  <2>4. CASE k = l
    BY <1>2, <2>2, <2>3, <2>4 DEF Load
  <2>5. CASE k # l
    <3>1. born[k] # born[l]
      BY <1>2, <2>2, <2>5 DEF Load, Solo, Closed
    <3> QED
      BY <1>2, <2>2, <2>3, <2>5, <3>1 DEF Load
  <2> QED
    BY <2>4, <2>5
<1>3. ASSUME NEW k \in Conn, Restore(k) PROVE LiveOK'
  <2>1. Latest' = Latest /\ UNCHANGED <<born, overlap>>
    BY <1>3, NewestStays DEF Others, Serve, Restore
  <2>2. SUFFICES ASSUME NEW l \in Conn, l = Latest, ~overlap, pc'[l] = "live"
                 PROVE  OwnRoom \in rooms'[born[l]] /\ sockets'[born[l]] = l
    BY <2>1
  <2>3. born[l] \in Conn
    BY <1>3, <2>2 DEF Restore, StageOK, Past
  <2>4. CASE k = l
    BY <1>3, <2>2, <2>3, <2>4 DEF Restore
  <2>5. CASE k # l
    <3>1. born[k] # born[l]
      BY <1>3, <2>2, <2>5 DEF Restore, Solo, Closed
    <3> QED
      BY <1>3, <2>2, <2>3, <2>5, <3>1 DEF Restore
  <2> QED
    BY <2>4, <2>5
<1>4. ASSUME NEW k \in Conn, OffsetNotFound(k) PROVE LiveOK'
  <2>1. Latest' = Latest /\ UNCHANGED <<born, overlap>>
    BY <1>4, NewestStays DEF Others, Serve, OffsetNotFound
  <2>2. SUFFICES ASSUME NEW l \in Conn, l = Latest, ~overlap, pc'[l] = "live"
                 PROVE  OwnRoom \in rooms'[born[l]] /\ sockets'[born[l]] = l
    BY <2>1
  <2>3. born[l] \in Conn
    BY <1>4, <2>2 DEF OffsetNotFound, StageOK, Past
  <2>4. CASE k = l
    BY <1>4, <2>2, <2>3, <2>4 DEF OffsetNotFound
  <2>5. CASE k # l
    <3>1. born[k] # born[l]
      BY <1>4, <2>2, <2>5 DEF OffsetNotFound, Solo, Closed
    <3> QED
      BY <1>4, <2>2, <2>3, <2>5, <3>1 DEF OffsetNotFound
  <2> QED
    BY <2>4, <2>5
<1>5. ASSUME NEW k \in Conn, Fresh(k) PROVE LiveOK'
  <2>1. Latest' = Latest /\ UNCHANGED <<rooms, sockets>>
    BY <1>5, NewestStays DEF Others, Serve, Fresh
  <2>2. /\ pc' = [pc EXCEPT ![k] = "run"] /\ born' = [born EXCEPT ![k] = k]
        /\ overlap' = (overlap /\ k # Latest)
    BY <1>5 DEF Fresh
  <2> QED
    BY <2>1, <2>2
<1>6. ASSUME NEW k \in Conn, DoConnect(k) PROVE LiveOK'
  <2>1. Latest' = Latest /\ UNCHANGED <<born, overlap>>
    BY <1>6, NewestStays DEF Others, Serve, DoConnect
  <2>2. SUFFICES ASSUME NEW l \in Conn, l = Latest, ~overlap, pc'[l] = "live"
                 PROVE  OwnRoom \in rooms'[born[l]] /\ sockets'[born[l]] = l
    BY <2>1
  <2>3. born[l] \in Conn
    BY <1>6, <2>2 DEF DoConnect, StageOK, Past
  <2>4. CASE k = l
    BY <1>6, <2>2, <2>3, <2>4 DEF DoConnect
  <2>5. CASE k # l
    <3>1. born[k] # born[l]
      BY <1>6, <2>2, <2>5 DEF DoConnect, Solo, Closed
    <3> QED
      BY <1>6, <2>2, <2>3, <2>5, <3>1 DEF DoConnect
  <2> QED
    BY <2>4, <2>5
<1>7. ASSUME NEW k \in Conn, Abandon(k) PROVE LiveOK'
  <2>1. Latest' = Latest /\ UNCHANGED <<born, overlap>>
    BY <1>7, NewestStays DEF Others, Serve, Abandon
  <2>2. SUFFICES ASSUME NEW l \in Conn, l = Latest, ~overlap, pc'[l] = "live"
                 PROVE  OwnRoom \in rooms'[born[l]] /\ sockets'[born[l]] = l
    BY <2>1
  <2>3. born[l] \in Conn
    BY <1>7, <2>2 DEF Abandon, StageOK, Past
  <2>4. CASE k = l
    BY <1>7, <2>2, <2>3, <2>4 DEF Abandon
  <2>5. CASE k # l
    <3>1. born[k] # born[l]
      BY <1>7, <2>2, <2>5 DEF Abandon, Solo, Closed
    <3> QED
      BY <1>7, <2>2, <2>3, <2>5, <3>1 DEF Abandon
  <2> QED
    BY <2>4, <2>5
<1>8. ASSUME NEW k \in Conn, PersistSession(k) PROVE LiveOK'
  <2>1. Latest' = Latest /\ UNCHANGED <<born, overlap>>
    BY <1>8, NewestStays DEF Others, Serve, PersistSession
  <2>2. SUFFICES ASSUME NEW l \in Conn, l = Latest, ~overlap, pc'[l] = "live"
                 PROVE  OwnRoom \in rooms'[born[l]] /\ sockets'[born[l]] = l
    BY <2>1
  <2>3. born[l] \in Conn
    BY <1>8, <2>2 DEF PersistSession, StageOK, Past
  <2>4. CASE k = l
    BY <1>8, <2>2, <2>3, <2>4 DEF PersistSession
  <2>5. CASE k # l
    <3>1. born[k] # born[l]
      BY <1>8, <2>2, <2>5 DEF PersistSession, Solo, Closed
    <3> QED
      BY <1>8, <2>2, <2>3, <2>5, <3>1 DEF PersistSession
  <2> QED
    BY <2>4, <2>5
<1>9. ASSUME NEW k \in Conn, Cleanup(k) PROVE LiveOK'
  <2>1. Latest' = Latest /\ UNCHANGED <<born, overlap>>
    BY <1>9, NewestStays DEF Others, Serve, Cleanup
  <2>2. SUFFICES ASSUME NEW l \in Conn, l = Latest, ~overlap, pc'[l] = "live"
                 PROVE  OwnRoom \in rooms'[born[l]] /\ sockets'[born[l]] = l
    BY <2>1
  <2>3. born[l] \in Conn
    BY <1>9, <2>2 DEF Cleanup, StageOK, Past
  <2>4. CASE k = l
    BY <1>9, <2>2, <2>3, <2>4 DEF Cleanup
  <2>5. CASE k # l
    <3>1. born[k] # born[l]
      BY <1>9, <2>2, <2>5 DEF Cleanup, Solo, Closed
    <3> QED
      BY <1>9, <2>2, <2>3, <2>5, <3>1 DEF Cleanup
  <2> QED
    BY <2>4, <2>5
<1>10. ASSUME NEW k \in Conn, Untrack(k) PROVE LiveOK'
  <2>1. Latest' = Latest /\ UNCHANGED <<born, overlap>>
    BY <1>10, NewestStays DEF Others, Serve, Untrack
  <2>2. SUFFICES ASSUME NEW l \in Conn, l = Latest, ~overlap, pc'[l] = "live"
                 PROVE  OwnRoom \in rooms'[born[l]] /\ sockets'[born[l]] = l
    BY <2>1
  <2>3. born[l] \in Conn
    BY <1>10, <2>2 DEF Untrack, StageOK, Past
  <2>4. CASE k = l
    BY <1>10, <2>2, <2>3, <2>4 DEF Untrack
  <2>5. CASE k # l
    <3>1. born[k] # born[l]
      BY <1>10, <2>2, <2>5 DEF Untrack, Solo, Closed
    <3> QED
      BY <1>10, <2>2, <2>3, <2>5, <3>1 DEF Untrack
  <2> QED
    BY <2>4, <2>5
<1>11. ASSUME NEW k \in Conn, NEW r \in Room, Join(k, r) PROVE LiveOK'
  <2>1. Latest' = Latest /\ UNCHANGED <<born, overlap>>
    BY <1>11, NewestStays DEF Others, Serve, Join
  <2>2. SUFFICES ASSUME NEW l \in Conn, l = Latest, ~overlap, pc'[l] = "live"
                 PROVE  OwnRoom \in rooms'[born[l]] /\ sockets'[born[l]] = l
    BY <2>1
  <2>3. born[l] \in Conn
    BY <1>11, <2>2 DEF Join, StageOK, Past
  <2>4. CASE k = l
    BY <1>11, <2>2, <2>3, <2>4 DEF Join
  <2>5. CASE k # l
    <3>1. born[k] # born[l]
      BY <1>11, <2>2, <2>5 DEF Join, Solo, Closed
    <3> QED
      BY <1>11, <2>2, <2>3, <2>5, <3>1 DEF Join
  <2> QED
    BY <2>4, <2>5
<1>12. ASSUME NEW k \in Conn, NEW r \in Room, Leave(k, r) PROVE LiveOK'
  <2>1. Latest' = Latest /\ UNCHANGED <<born, overlap>>
    BY <1>12, NewestStays DEF Others, Serve, Leave
  <2>2. SUFFICES ASSUME NEW l \in Conn, l = Latest, ~overlap, pc'[l] = "live"
                 PROVE  OwnRoom \in rooms'[born[l]] /\ sockets'[born[l]] = l
    BY <2>1
  <2>3. born[l] \in Conn
    BY <1>12, <2>2 DEF Leave, StageOK, Past
  <2>4. CASE k = l
    BY <1>12, <2>2, <2>3, <2>4 DEF Leave
  <2>5. CASE k # l
    <3>1. born[k] # born[l]
      BY <1>12, <2>2, <2>5 DEF Leave, Solo, Closed
    <3> QED
      BY <1>12, <2>2, <2>3, <2>5, <3>1 DEF Leave
  <2> QED
    BY <2>4, <2>5
<1>13. ASSUME Welcome PROVE LiveOK'
  BY <1>13, NewestStays DEF Others, Serve, Welcome
<1>14. ASSUME Receive PROVE LiveOK'
  BY <1>14, NewestStays DEF Others, Serve, Receive
<1>15. ASSUME Lose PROVE LiveOK'
  BY <1>15, NewestStays DEF Others, Serve, Lose
<1>16. ASSUME Deliver PROVE LiveOK'
  BY <1>16, NewestStays DEF Others, Serve, Deliver
<1>17. ASSUME Interval PROVE LiveOK'
  BY <1>17, NewestStays DEF Others, Serve, Interval, IntervalTest, IntervalDelete, IntervalDrop
<1>18. ASSUME Tick PROVE LiveOK'
  BY <1>18, NewestStays DEF Others, Serve, Tick
<1>19. ASSUME NEW o \in Opts, Store(o) PROVE LiveOK'
  BY <1>19, NewestStays DEF Others, Serve, Store
<1>20. ASSUME UNCHANGED vars PROVE LiveOK'
  BY <1>20, NewestStays DEF Others, vars
<1>21. ASSUME NEW k \in Conn, DeleteSession(k) PROVE LiveOK'
  <2>1. Latest' = Latest /\ UNCHANGED <<born, overlap, rooms, sockets>>
    BY <1>21, NewestStays DEF Others, Serve, DeleteSession
  <2>2. \A l \in Conn : pc'[l] = "live" => pc[l] = "live"
    BY <1>21 DEF DeleteSession
  <2> QED
    BY <2>1, <2>2
<1> QED
  BY <1>1, <1>2, <1>3, <1>4, <1>5, <1>6, <1>7, <1>8, <1>9, <1>10, <1>11, <1>12, <1>13,
    <1>14, <1>15, <1>16, <1>17, <1>18, <1>19, <1>20, <1>21 DEF Next, Serve

LEMMA OwesLess ==
  ASSUME NEW rs, NEW stored, NEW due, NEW less \in SUBSET due, Owes(stored, due, rs)
  PROVE  Owes(stored, less, rs)
BY DEF Owes

LEMMA OwesNothing == \A stored, rs : Owes(stored, {}, rs)
BY DEF Owes

LEMMA StillOwedIs == \A rs : Owes(log, StillOwed(rs), rs) /\ StillOwed(rs) \subseteq owed
BY DEF Owes, StillOwed

LEMMA OwesStored ==
  ASSUME TypeInv, OwedSent, NEW o \in Opts, Store(o), NEW rs, Owes(log, owed, rs),
         Claim # {} /\ ShouldIncludePacket(Claim, o) => ShouldIncludePacket(rs, o)
  PROVE  Owes(log', owed', rs)
<1> DEFINE packet == [id |-> sent + 1, at |-> now, opts |-> o]
<1>1. /\ log' = Append(log, packet) /\ sent \in Nat /\ log \in Seq(Packet)
      /\ owed' = IF Claim # {} /\ ShouldIncludePacket(Claim, o)
                   THEN owed \cup {sent + 1} ELSE owed
  BY BoundsNat DEF Store, TypeInv, TypeOK
<1>2. packet.id = sent + 1 /\ packet.opts = o
  OBVIOUS
<1> HIDE DEF packet
<1>3. /\ DOMAIN log' = DOMAIN log \cup {Len(log) + 1} /\ log'[Len(log) + 1] = packet
      /\ \A i \in DOMAIN log : log'[i] = log[i]
  BY <1>1
<1>4. sent + 1 \notin owed
  BY <1>1 DEF OwedSent
<1>5. \A i \in DOMAIN log : log[i].id # sent + 1
  <2>1. \A i \in DOMAIN log : log[i].id = sent - Len(log) + i /\ i <= Len(log) /\ i \in Nat
    BY <1>1 DEF TypeInv, LogOK
  <2> QED
    BY <1>1, <2>1
<1>6. ASSUME NEW i \in DOMAIN log', log'[i].id \in owed'
      PROVE  ShouldIncludePacket(rs, log'[i].opts)
  <2>1. CASE i \in DOMAIN log
    <3>1. log[i].id \in owed
      BY <1>1, <1>3, <1>5, <1>6, <2>1
    <3> QED
      BY <1>3, <2>1, <3>1 DEF Owes
  <2>2. CASE i = Len(log) + 1
    <3>1. sent + 1 \in owed'
      BY <1>2, <1>3, <1>6, <2>2
    <3>2. Claim # {} /\ ShouldIncludePacket(Claim, o)
      BY <1>1, <1>4, <3>1
    <3> QED
      BY <1>2, <1>3, <2>2, <3>2
  <2> QED
    BY <1>3, <2>1, <2>2
<1> QED
  BY <1>6 DEF Owes

LEMMA OwesDropped ==
  ASSUME TypeOK, NEW d \in 0 .. Len(log), DropsOK(d), NEW rs, Owes(log, owed, rs)
  PROVE  Owes(log', owed, rs)
<1>1. /\ log' \in Seq(Packet) /\ Len(log') = Len(log) - d
      /\ \A i \in DOMAIN log' : log'[i] = log[i + d]
  BY DEF DropsOK
<1>2. \A i \in DOMAIN log' : i + d \in DOMAIN log
  BY <1>1 DEF TypeOK
<1> QED
  BY <1>1, <1>2 DEF Owes

(* Nobody else has the socket of the client's newest connection.             *)
LEMMA Elsewhere ==
  ASSUME SessionInv, ~overlap, NEW l \in Conn, l = Latest, NEW k \in Conn, k # l,
         pc[k] \notin {"new", "gone"}
  PROVE  born[k] # born[l]
BY DEF SessionInv, Solo, Closed

(* What the stored packets that are owed are for, while the connection lasts. *)
LEMMA MineStays ==
  ASSUME RecoveryInv, ~overlap, NEW l \in Conn, l = Latest, Others
  PROVE  Mine(l)'
<1> TypeOK /\ StageOK /\ OffsetOK /\ BornOK /\ RoomsOK /\ OwedSent /\ Mine(l) /\ TypeInv /\ SessionInv
  BY DEF RecoveryInv, SessionInv, OrderInv, TypeInv, OwedOK, OwedMine
<1> USE DEF Mine, Past, TypeOK, clock, store, tables, conns, client, history
<1>2. ASSUME NEW k \in Conn, Load(k) PROVE Mine(l)'
  <2>1. born[k] \in Conn /\ pc[k] = "load"
    BY <1>2 DEF Load, StageOK
  <2>2. UNCHANGED <<log, owed, rooms, born, pid>>
    BY <1>2 DEF Load
  <2>3. CASE k = l
    <3>1. born[l] = pid
      BY <2>1, <2>3 DEF OffsetOK
    <3>2. CASE sessions[pid] # None /\ ~Expired(sessions[pid].at)
      <4>1. /\ pc'[l] = "read" /\ held'[l] = sessions[pid] /\ sessions' = sessions
        BY <1>2, <2>3, <3>1, <3>2 DEF Load
      <4> QED
        BY <2>1, <2>2, <2>3, <3>1, <3>2, <4>1
    <3>3. CASE ~(sessions[pid] # None /\ ~Expired(sessions[pid].at))
      <4>1. pc'[l] \in {"fresh", "expired"} /\ sessions' = sessions
        BY <1>2, <2>3, <3>1, <3>3 DEF Load
      <4>2. sessions[pid] # None => Owes(log, owed, sessions[pid].rooms)
        BY <2>1, <2>3, <3>1
      <4> QED
        BY <2>2, <4>1, <4>2
    <3> QED
      BY <3>2, <3>3
  <2>4. CASE k # l
    <3>1. pc'[l] = pc[l] /\ held'[l] = held[l]
      BY <1>2, <2>4 DEF Load
    <3>2. \A q \in Conn : sessions'[q] \in {None, sessions[q]}
      BY <1>2, <2>1 DEF Load
    <3>3. /\ pc[l] = "read" => pid \in Conn
          /\ pc[l] \in (Past \ {"live"}) \cup {"load", "expired", "read"} /\ born[l] = pid => pid \in Conn
      BY DEF OffsetOK, StageOK
    <3>5. pc[l] = "read" => sessions'[pid] \in {None, held[l]}
      BY <3>2, <3>3
    <3>6. ASSUME pc[l] \in (Past \ {"live"}) \cup {"load", "expired", "read"}, born[l] = pid,
                 sessions'[pid] # None
          PROVE  Owes(log, owed, sessions'[pid].rooms)
      BY <3>2, <3>3, <3>6
    <3> QED
      BY <2>2, <3>1, <3>5, <3>6
  <2> QED
    BY <2>3, <2>4
<1>3. ASSUME NEW k \in Conn, Restore(k) PROVE Mine(l)'
  <2>1. /\ pc[k] = "read" /\ pc' = [pc EXCEPT ![k] = "run"]
        /\ rooms' = [rooms EXCEPT ![born[k]] = @ \cup held[k].rooms]
        /\ held' = [held EXCEPT ![k] = None]
        /\ UNCHANGED <<log, owed, sessions, born, pid>>
    BY <1>3 DEF Restore
  <2>2. CASE k = l
    BY <2>1, <2>2
  <2>3. CASE k # l
    <3>1. born[k] # born[l]
      BY <2>1, <2>3, Elsewhere
    <3>2. rooms'[born[l]] = rooms[born[l]] \/ born[l] \notin Conn
      BY <2>1, <3>1
    <3>3. pc[l] = "live" => born[l] \in Conn
      BY DEF StageOK
    <3> QED
      BY <2>1, <2>3, <3>2, <3>3
  <2> QED
    BY <2>2, <2>3
<1>4. ASSUME NEW k \in Conn, OffsetNotFound(k) PROVE Mine(l)'
  <2>1. /\ pc' = [pc EXCEPT ![k] = "fresh"] /\ held' = [held EXCEPT ![k] = None]
        /\ UNCHANGED <<log, owed, sessions, rooms, born, pid>>
    BY <1>4 DEF OffsetNotFound
  <2> QED
    BY <2>1
<1>5. ASSUME NEW k \in Conn, Fresh(k) PROVE Mine(l)'
  <2>1. /\ pc[k] = "fresh" /\ pc' = [pc EXCEPT ![k] = "run"]
        /\ born' = [born EXCEPT ![k] = k]
        /\ owed' = IF k = Latest THEN {} ELSE owed
        /\ UNCHANGED <<log, sessions, rooms, held, pid>>
    BY <1>5 DEF Fresh
  <2>2. pid # k
    BY <2>1 DEF BornOK, Unborn
  <2> QED
    BY <2>1, <2>2
<1>6. ASSUME NEW k \in Conn, DoConnect(k) PROVE Mine(l)'
  <2> DEFINE joined == rooms[born[k]] \cup {OwnRoom}
  <2>1. /\ open = k /\ rooms' = [rooms EXCEPT ![born[k]] = joined]
        /\ pc[k] = "run" /\ pc' = [pc EXCEPT ![k] = "live"]
        /\ owed' = StillOwed(joined) /\ UNCHANGED <<log, born>>
    BY <1>6 DEF DoConnect
  <2>2. k = l /\ born[k] \in Conn
    BY <2>1, NoneAssumption DEF TypeInv, OpenedOK, StageOK
  <2>3. Owes(log, StillOwed(joined), joined)
    BY StillOwedIs
  <2>4. rooms'[born'[l]] = joined /\ pc'[l] = "live"
    BY <2>1, <2>2
  <2> HIDE DEF joined
  <2> QED
    BY <2>1, <2>3, <2>4
<1>7. ASSUME NEW k \in Conn, Abandon(k) PROVE Mine(l)'
  <2>1. /\ pc[k] = "run" /\ pc' = [pc EXCEPT ![k] = "gone"]
        /\ rooms' = [rooms EXCEPT ![born[k]] = {}]
        /\ UNCHANGED <<log, owed, sessions, born, held, pid>>
    BY <1>7 DEF Abandon
  <2>2. CASE k = l
    BY <2>1, <2>2
  <2>3. CASE k # l
    <3>1. born[k] # born[l]
      BY <2>1, <2>3, Elsewhere
    <3>2. pc[l] = "live" => rooms'[born[l]] = rooms[born[l]]
      BY <2>1, <3>1 DEF StageOK
    <3> QED
      BY <2>1, <2>3, <3>2
  <2> QED
    BY <2>2, <2>3
<1>8. ASSUME NEW k \in Conn, PersistSession(k) PROVE Mine(l)'
  <2> DEFINE session == [rooms |-> rooms[born[k]], at |-> now]
  <2>1. /\ pc[k] = "live" /\ pc' = [pc EXCEPT ![k] = "cleanup"]
        /\ sessions' = [sessions EXCEPT ![born[k]] = session]
        /\ UNCHANGED <<log, owed, rooms, born, held, pid>>
    BY <1>8 DEF PersistSession
  <2>2. session.rooms = rooms[born[k]] /\ born[k] \in Conn
    BY <2>1 DEF StageOK
  <2> HIDE DEF session
  <2>3. CASE k = l
    BY <2>1, <2>2, <2>3
  <2>4. CASE k # l
    <3>1. born[k] # born[l]
      BY <2>1, <2>4, Elsewhere
    <3>2. pc[l] = "read" => born[l] = pid
      BY DEF OffsetOK
    <3>3. born[l] = pid => sessions'[pid] = sessions[pid]
      BY <2>1, <3>1
    <3> QED
      BY <2>1, <2>4, <3>2, <3>3
  <2> QED
    BY <2>3, <2>4
<1>9. ASSUME NEW k \in Conn, Cleanup(k) PROVE Mine(l)'
  <2>1. /\ pc[k] = "cleanup" /\ pc' = [pc EXCEPT ![k] = "remove"]
        /\ rooms' = [rooms EXCEPT ![born[k]] = {}]
        /\ UNCHANGED <<log, owed, sessions, born, held, pid>>
    BY <1>9 DEF Cleanup
  <2>2. CASE k = l
    BY <2>1, <2>2
  <2>3. CASE k # l
    <3>1. born[k] # born[l]
      BY <2>1, <2>3, Elsewhere
    <3>2. pc[l] = "live" => rooms'[born[l]] = rooms[born[l]]
      BY <2>1, <3>1 DEF StageOK
    <3> QED
      BY <2>1, <2>3, <3>2
  <2> QED
    BY <2>2, <2>3
<1>10. ASSUME NEW k \in Conn, Untrack(k) PROVE Mine(l)'
  <2>1. /\ pc[k] = "remove" /\ pc' = [pc EXCEPT ![k] = "gone"]
        /\ UNCHANGED <<log, owed, sessions, rooms, born, held, pid>>
    BY <1>10 DEF Untrack
  <2> QED
    BY <2>1
<1>11. ASSUME NEW k \in Conn, NEW r \in Room, Join(k, r) PROVE Mine(l)'
  <2> DEFINE joined == rooms[born[k]] \cup {r}
  <2>1. /\ pc[k] \in {"live", "cleanup"} /\ rooms' = [rooms EXCEPT ![born[k]] = joined]
        /\ owed' = IF k = Latest /\ pc[k] = "live" THEN StillOwed(joined) ELSE owed
        /\ UNCHANGED <<log, sessions, pc, born, held, pid>>
    BY <1>11 DEF Join
  <2>2. born[k] \in Conn
    BY <2>1 DEF StageOK
  <2> HIDE DEF joined
  <2>3. CASE k = l /\ pc[k] = "live"
    <3>1. Owes(log, StillOwed(joined), joined)
      BY StillOwedIs
    <3>2. rooms'[born[l]] = joined
      BY <2>1, <2>2, <2>3
    <3> QED
      BY <2>1, <2>3, <3>1, <3>2
  <2>4. CASE k = l /\ pc[k] = "cleanup"
    BY <2>1, <2>4
  <2>5. CASE k # l
    <3>1. born[k] # born[l]
      BY <2>1, <2>5, Elsewhere
    <3>2. pc[l] = "live" => rooms'[born[l]] = rooms[born[l]]
      BY <2>1, <3>1 DEF StageOK
    <3> QED
      BY <2>1, <2>5, <3>2
  <2> QED
    BY <2>1, <2>3, <2>4, <2>5
<1>12. ASSUME NEW k \in Conn, NEW r \in Room, Leave(k, r) PROVE Mine(l)'
  <2> DEFINE left == rooms[born[k]] \ {r}
  <2>1. /\ pc[k] = "live" /\ rooms' = [rooms EXCEPT ![born[k]] = left]
        /\ owed' = IF k = Latest THEN StillOwed(left) ELSE owed
        /\ UNCHANGED <<log, sessions, pc, born, held, pid>>
    BY <1>12 DEF Leave
  <2>2. born[k] \in Conn
    BY <2>1 DEF StageOK
  <2> HIDE DEF left
  <2>3. CASE k = l
    <3>1. Owes(log, StillOwed(left), left)
      BY StillOwedIs
    <3>2. rooms'[born[l]] = left
      BY <2>1, <2>2, <2>3
    <3> QED
      BY <2>1, <2>3, <3>1, <3>2
  <2>4. CASE k # l
    <3>1. born[k] # born[l]
      BY <2>1, <2>4, Elsewhere
    <3>2. pc[l] = "live" => rooms'[born[l]] = rooms[born[l]]
      BY <2>1, <3>1 DEF StageOK
    <3> QED
      BY <2>1, <2>4, <3>2
  <2> QED
    BY <2>3, <2>4
<1>13. ASSUME Welcome PROVE Mine(l)'
  <2>1. open = l /\ pc[l] = "live" /\ UNCHANGED <<log, owed, rooms, pc, born>>
    BY <1>13, NoneAssumption DEF Welcome, TypeInv, OpenedOK
  <2> QED
    BY <2>1
<1>14. ASSUME Receive PROVE Mine(l)'
  <2>1. UNCHANGED <<log, owed, sessions, rooms, pc, born, held, pid>>
    BY <1>14 DEF Receive
  <2> QED
    BY <2>1
<1>15. ASSUME Lose PROVE Mine(l)'
  <2>1. UNCHANGED <<log, owed, sessions, rooms, pc, born, held, pid>>
    BY <1>15 DEF Lose
  <2> QED
    BY <2>1
<1>16. ASSUME Deliver PROVE Mine(l)'
  <2>1. UNCHANGED <<log, owed, sessions, rooms, pc, born, held, pid>>
    BY <1>16 DEF Deliver
  <2> QED
    BY <2>1
<1>17. ASSUME Interval PROVE Mine(l)'
  <2>1. PICK d \in 0 .. Len(log) : DropsOK(d)
    BY <1>17, IntervalDrops DEF TypeInv
  <2>2. \A rs : Owes(log, owed, rs) => Owes(log', owed, rs)
    BY <2>1, OwesDropped
  <2>3. UNCHANGED <<owed, rooms, pc, born, held, pid>>
    BY <1>17 DEF Interval, IntervalTest, IntervalDelete, IntervalDrop
  <2>4. \A q \in Conn : sessions'[q] \in {None, sessions[q]}
    BY <1>17 DEF Interval, IntervalTest, IntervalDelete, IntervalDrop
  <2>5. /\ pc[l] = "read" => pid \in Conn
        /\ pc[l] \in (Past \ {"live"}) \cup {"load", "expired", "read"} /\ born[l] = pid => pid \in Conn
    BY DEF OffsetOK, StageOK
  <2>6. pc[l] = "read" => sessions'[pid] \in {None, held[l]}
    BY <2>4, <2>5
  <2>7. ASSUME pc[l] \in (Past \ {"live"}) \cup {"load", "expired", "read"}, born[l] = pid,
               sessions'[pid] # None
        PROVE  Owes(log', owed, sessions'[pid].rooms)
    BY <2>2, <2>4, <2>5, <2>7
  <2> QED
    BY <2>2, <2>3, <2>6, <2>7
<1>18. ASSUME Tick PROVE Mine(l)'
  <2>1. UNCHANGED <<log, owed, sessions, rooms, pc, born, held, pid>>
    BY <1>18 DEF Tick
  <2> QED
    BY <2>1
<1>19. ASSUME NEW o \in Opts, Store(o) PROVE Mine(l)'
  <2>1. UNCHANGED <<sessions, rooms, pc, born, held, pid>>
    BY <1>19 DEF Store
  <2>2. l # 0
    BY ConnNat
  <2>3. Claim = IF pc[l] \in {"fresh", "run"} THEN {}
                ELSE IF pc[l] = "live" THEN rooms[born[l]]
                ELSE IF pid # None /\ sessions[pid] # None THEN sessions[pid].rooms
                ELSE {}
    BY <2>2 DEF Claim
  <2>4. \A rs : /\ Owes(log, owed, rs)
                /\ Claim \in {{}, rs}
                => Owes(log', owed', rs)
    BY <1>19, OwesStored
  <2>5. pc[l] = "read" => born[l] = pid
    BY DEF OffsetOK
  <2>6. CASE pc[l] = "live"
    BY <2>1, <2>3, <2>4, <2>6
  <2>7. CASE pc[l] = "read"
    BY <2>1, <2>3, <2>4, <2>5, <2>7
  <2>8. CASE pc[l] \notin {"live", "read"}
    BY <2>1, <2>3, <2>4, <2>8
  <2> QED
    BY <2>6, <2>7, <2>8
<1>20. ASSUME UNCHANGED vars PROVE Mine(l)'
  BY <1>20 DEF vars
<1>21. ASSUME NEW k \in Conn, DeleteSession(k) PROVE Mine(l)'
  <2>1. born[k] \in Conn /\ pc' = [pc EXCEPT ![k] = "fresh"]
    BY <1>21 DEF DeleteSession, StageOK
  <2>2. UNCHANGED <<log, owed, rooms, born, pid, held>>
    BY <1>21 DEF DeleteSession
  <2>3. CASE k = l
    BY <2>1, <2>3
  <2>4. CASE k # l
    <3>1. pc'[l] = pc[l]
      BY <2>1, <2>4
    <3>2. \A q \in Conn : sessions'[q] \in {None, sessions[q]}
      BY <1>21, <2>1 DEF DeleteSession
    <3>3. /\ pc[l] = "read" => pid \in Conn
          /\ pc[l] \in (Past \ {"live"}) \cup {"load", "expired", "read"} /\ born[l] = pid => pid \in Conn
      BY DEF OffsetOK, StageOK
    <3>4. pc[l] = "read" => sessions'[pid] \in {None, held[l]}
      BY <3>2, <3>3
    <3>5. ASSUME pc[l] \in (Past \ {"live"}) \cup {"load", "expired", "read"}, born[l] = pid,
                 sessions'[pid] # None
          PROVE  Owes(log, owed, sessions'[pid].rooms)
      BY <3>2, <3>3, <3>5
    <3> QED
      BY <2>2, <3>1, <3>4, <3>5
  <2> QED
    BY <2>3, <2>4
<1> QED
  BY <1>2, <1>3, <1>4, <1>5, <1>6, <1>7, <1>8, <1>9, <1>10, <1>11, <1>12, <1>13, <1>14,
    <1>15, <1>16, <1>17, <1>18, <1>19, <1>20, <1>21 DEF Others, Serve

(* The history is the client's unless its newest socket is fresh.             *)
LEMMA NoOverlap ==
  ASSUME RecoveryInv, [Next]_vars, ~overlap'
  PROVE  \/ ~overlap
         \/ \E k \in Conn : k = Latest /\ Fresh(k)
BY DEF Next, Serve, Open, Load, DeleteSession, Restore, OffsetNotFound, Fresh, DoConnect, Abandon,
  PersistSession, Cleanup, Untrack, Join, Leave, Welcome, Receive, Lose, Store, Deliver,
  Interval, IntervalTest, IntervalDelete, IntervalDrop, Tick, history, vars

LEMMA OwedMineStep ==
  ASSUME RecoveryInv, [Next]_vars, ~overlap'
  PROVE  OwedMine'
<1> TypeInv /\ TypeOK /\ OpenedOK /\ BornOK /\ SessionInv
  BY DEF RecoveryInv, SessionInv, OrderInv, TypeInv
<1>1. ASSUME NEW k \in Conn, k = Latest, Fresh(k) PROVE OwedMine'
  <2>1. Latest' = k
    BY <1>1, NewestStays DEF Others, Serve
  <2>2. /\ pc[k] = "fresh" /\ pc'[k] = "run" /\ born'[k] = k /\ pid' = pid
    BY <1>1 DEF Fresh, client, TypeOK
  <2>3. pid # k
    BY <2>2 DEF BornOK, Unborn
  <2> QED
    BY <2>1, <2>2, <2>3 DEF OwedMine, Mine
<1>2. ASSUME ~overlap, Others PROVE OwedMine'
  <2>1. Latest' = Latest
    BY <1>2, NewestStays
  <2> QED
    BY <1>2, <2>1, MineStays DEF OwedMine
<1>3. ASSUME ~overlap, NEW k \in Conn, Open(k) PROVE OwedMine'
  <2>1. pc[k] = "new" /\ Latest' = k /\ Latest = k - 1
    BY <1>3, NewestOpens
  <2>2. /\ owed' = IF k > 1 /\ born[k - 1] # pid THEN {} ELSE owed
        /\ UNCHANGED <<log, sessions, rooms, held, pid>>
        /\ \A j \in Conn : Closed(j)
    BY <1>3 DEF Open, clock, store, tables, client
  <2>3. pc'[k] \in {"load", "fresh"}
    BY <1>3 DEF Open, TypeOK
  <2>4. OwedMine /\ NothingYet
    BY <1>3 DEF RecoveryInv, OwedOK
  <2>5. CASE owed' = {}
    BY <2>1, <2>3, <2>5, OwesNothing DEF OwedMine, Mine
  <2>6. CASE owed' # {}
    <3>1. k > 1 /\ born[k - 1] = pid /\ owed' = owed
      <4>1. k \in Nat /\ k > 0
        BY ConnNat
      <4>2. k # 1
        BY <2>1, <2>2, <2>4, <2>6 DEF NothingYet
      <4> QED
        BY <2>2, <2>6, <4>1, <4>2
    <3>2. k - 1 \in Conn
      <4>1. Cardinality(Conn) \in Nat
        BY ConnAssumption, FS_CardinalityType
      <4>2. k \in 1 .. Cardinality(Conn)
        BY ConnAssumption
      <4>3. k - 1 \in 1 .. Cardinality(Conn)
        BY <3>1, <4>1, <4>2
      <4> QED
        BY <4>3, ConnAssumption
    <3>3. pc[k - 1] = "gone"
      <4>1. pc[k - 1] # "new"
        BY <2>1, <3>2, ConnNat DEF OpenedOK
      <4> QED
        BY <2>2, <3>2, <4>1 DEF Closed
    <3>4. Mine(k - 1)
      BY <2>1, <2>4, <3>2 DEF OwedMine
    <3>5. sessions[pid] # None => Owes(log, owed, sessions[pid].rooms)
      BY <3>1, <3>3, <3>4 DEF Mine, Past
    <3> QED
      BY <2>1, <2>2, <2>3, <3>1, <3>5 DEF OwedMine, Mine
  <2> QED
    BY <2>5, <2>6
<1> QED
  BY <1>1, <1>2, <1>3, NoOverlap DEF Next, Others

LEMMA ReceivesFirst ==
  ASSUME TypeOK, Receive
  PROVE  /\ 1 \in DOMAIN wire /\ Ids(got)' = Ids(got) \cup {wire[1].id}
         /\ Ids(wire) = Ids(wire)' \cup {wire[1].id}
         /\ \A i \in DOMAIN got' : (i \in DOMAIN got /\ got'[i] = got[i]) \/ got'[i] = wire[1]
<1>1. /\ got \in Seq(Packet) /\ wire \in Seq(Packet) /\ wire # <<>>
      /\ got' = Append(got, Head(wire)) /\ wire' = Tail(wire)
  BY DEF Receive, TypeOK
<1>2. /\ 1 \in DOMAIN wire /\ DOMAIN got' = DOMAIN got \cup {Len(got) + 1}
      /\ got'[Len(got) + 1] = wire[1] /\ \A i \in DOMAIN got : got'[i] = got[i]
  BY <1>1
<1>3. \A i \in DOMAIN wire' : i + 1 \in DOMAIN wire /\ wire'[i] = wire[i + 1]
  BY <1>1
<1>4. \A i \in DOMAIN wire : i = 1 \/ (i - 1 \in DOMAIN wire' /\ wire[i] = wire'[i - 1])
  BY <1>1
<1>5. Ids(got)' = Ids(got) \cup {wire[1].id}
  BY <1>2 DEF Ids
<1>6. Ids(wire) = Ids(wire)' \cup {wire[1].id}
  BY <1>2, <1>3, <1>4 DEF Ids
<1> QED
  BY <1>2, <1>5, <1>6

LEMMA OwedLess ==
  ASSUME TypeOK, [Next]_vars, \A o \in Opts : ~Store(o)
  PROVE  owed' \subseteq owed
<1>1. \A rs : StillOwed(rs) \subseteq owed
  BY StillOwedIs
<1>2. \/ owed' \in {{}, owed} \/ \E rs : owed' = StillOwed(rs)
  <2>1. ASSUME NEW k \in Conn, Open(k) \/ Fresh(k) PROVE owed' \in {{}, owed}
    BY <2>1 DEF Open, Fresh
  <2>2. ASSUME NEW k \in Conn, DoConnect(k) PROVE \E rs : owed' = StillOwed(rs)
    BY <2>2 DEF DoConnect
  <2>3. ASSUME NEW k \in Conn, NEW r \in Room, Join(k, r) \/ Leave(k, r)
        PROVE  owed' = owed \/ \E rs : owed' = StillOwed(rs)
    BY <2>3 DEF Join, Leave
  <2>4. ASSUME NEW k \in Conn,
               \/ Load(k) \/ DeleteSession(k) \/ Restore(k) \/ OffsetNotFound(k) \/ Abandon(k)
               \/ PersistSession(k) \/ Cleanup(k) \/ Untrack(k)
        PROVE  owed' = owed
    BY <2>4 DEF Load, DeleteSession, Restore, OffsetNotFound, Abandon, PersistSession, Cleanup, Untrack,
      history
  <2>5. ASSUME Welcome \/ Receive \/ Lose \/ Deliver \/ Interval \/ Tick \/ UNCHANGED vars
        PROVE  owed' = owed
    BY <2>5 DEF Welcome, Receive, Lose, Deliver, Interval, IntervalTest, IntervalDelete, IntervalDrop, Tick, history, vars
  <2> QED
    BY <2>1, <2>2, <2>3, <2>4, <2>5 DEF Next, Serve
<1> QED
  BY <1>1, <1>2

LEMMA OwedGotStep ==
  ASSUME RecoveryInv, [Next]_vars, ~overlap'
  PROVE  OwedGot' /\ OwedSent' /\ NothingYet'
<1> TypeInv /\ TypeOK /\ OpenedOK /\ OrderOK /\ LogOK
  BY DEF RecoveryInv, SessionInv, OrderInv, TypeInv
<1> USE DEF clock, store, tables, conns, client, history
<1>1. ASSUME NEW k \in Conn, k = Latest, Fresh(k) PROVE OwedGot' /\ OwedSent' /\ NothingYet'
  <2>1. owed' = {}
    BY <1>1 DEF Fresh
  <2> QED
    BY <2>1 DEF OwedGot, OwedSent, NothingYet
<1>2. ASSUME ~overlap PROVE OwedGot' /\ OwedSent' /\ NothingYet'
  <2>1. OwedGot /\ InWire /\ OwedSent /\ NothingYet
    BY <1>2 DEF RecoveryInv, OwedOK
  <2>2. CASE Receive
    <3>1. owed' = owed /\ sent' = sent /\ Latest' = Latest
      BY <2>2, NewestStays DEF Receive, Others
    <3>2. ASSUME NEW id \in owed, NEW i \in DOMAIN got', id <= got'[i].id
          PROVE  id \in Ids(got)'
      <4>1. CASE i \in DOMAIN got /\ got'[i] = got[i]
        BY <2>1, <2>2, <3>2, <4>1, ReceivesFirst DEF OwedGot
      <4>2. CASE got'[i] = wire[1] /\ id \notin Ids(got)
        <5>1. open # None /\ pc[open] = "live"
          BY <2>2 DEF Receive
        <5>2. id \in Ids(wire) \/ (delivering # None /\ id = delivering.id)
          BY <2>1, <4>2, <5>1 DEF InWire
        <5>3. 1 \in DOMAIN wire /\ wire[1].id \in Ids(wire) /\ id \in Nat
              /\ \A j \in DOMAIN wire : wire[j].id \in Nat /\ (j = 1 \/ 1 < j)
          BY <2>2, ReceivesFirst, PacketFields, BoundsNat DEF TypeOK, Ids
        <5>4. ~(delivering # None /\ id = delivering.id)
          BY <3>2, <4>2, <5>3 DEF OrderOK
        <5>5. PICK j \in DOMAIN wire : id = wire[j].id
          BY <5>2, <5>4 DEF Ids
        <5>6. j = 1
          BY <3>2, <4>2, <5>3, <5>5 DEF OrderOK, Increasing
        <5> QED
          BY <2>2, <5>5, <5>6, ReceivesFirst
      <4> QED
        BY <2>2, <4>1, <4>2, ReceivesFirst
    <3> QED
      BY <2>1, <3>1, <3>2 DEF OwedGot, OwedSent, NothingYet
  <2>3. CASE \E o \in Opts : Store(o)
    <3>1. PICK o \in Opts : Store(o)
      BY <2>3
    <3>2. /\ sent' = sent + 1 /\ sent \in Nat /\ got' = got /\ Latest' = Latest
          /\ owed' = IF Claim # {} /\ ShouldIncludePacket(Claim, o)
                       THEN owed \cup {sent + 1} ELSE owed
      <4>1. sent \in Nat
        BY BoundsNat DEF TypeOK
      <4>2. Latest' = Latest
        BY <2>3, NewestStays DEF Others
      <4> QED
        BY <3>1, <4>1, <4>2 DEF Store
    <3>3. \A i \in DOMAIN got : got[i].id <= sent /\ got[i].id \in Nat
      BY PacketFields DEF OrderOK, Ids, TypeOK
    <3>4. \A id \in owed' : id \in owed \/ id = sent + 1
      BY <3>2
    <3>5. OwedGot'
      BY <2>1, <3>2, <3>3, <3>4 DEF OwedGot, Ids
    <3>6. OwedSent'
      <4>1. \A id \in owed : id <= sent /\ id \in Nat
        BY <2>1, BoundsNat DEF OwedSent, TypeOK
      <4> QED
        BY <3>2, <3>4, <4>1 DEF OwedSent
    <3>7. NothingYet'
      BY <2>1, <3>2 DEF NothingYet, Claim
    <3> QED
      BY <3>5, <3>6, <3>7
  <2>4. ASSUME ~Receive, \A o \in Opts : ~Store(o) PROVE OwedGot' /\ OwedSent' /\ NothingYet'
    <3>1. owed' \subseteq owed
      BY <2>4, OwedLess
    <3>2. got' = got /\ sent' = sent
      BY <2>4 DEF Next, Serve, Open, Load, DeleteSession, Restore, OffsetNotFound, Fresh, DoConnect,
        Abandon, PersistSession, Cleanup, Untrack, Join, Leave, Welcome, Lose, Deliver,
        Interval, IntervalTest, IntervalDelete, IntervalDrop, Tick, vars
    <3>3. Latest' = Latest \/ Latest' # 0
      <4>1. ASSUME NEW k \in Conn, Open(k) PROVE Latest' # 0
        BY <4>1, NewestOpens, ConnNat
      <4> QED
        BY <4>1, NewestStays DEF Next, Others
    <3> QED
      BY <2>1, <3>1, <3>2, <3>3 DEF OwedGot, OwedSent, NothingYet, Ids
  <2> QED
    BY <2>2, <2>3, <2>4
<1> QED
  BY <1>1, <1>2, NoOverlap

(* A step that takes nothing from the client and serves another connection,   *)
(* or ends this one, leaves in sight what was.                                 *)
LEMMA InWireKept ==
  ASSUME InWire, owed' \subseteq owed, UNCHANGED <<got, wire, delivering, open>>,
         open # None => pc'[open] = pc[open] \/ pc'[open] \notin {"run", "live"}
  PROVE  InWire'
<1>1. Ids(got)' = Ids(got) /\ Ids(wire)' = Ids(wire)
  BY DEF Ids
<1> QED
  BY <1>1 DEF InWire

(* The restore sends what is owed and was not received.                        *)
LEMMA RestoreSends ==
  ASSUME RecoveryInv, ~overlap, NEW k \in Conn, Restore(k), open = k
  PROVE  owed \subseteq Ids(got) \cup Ids(wire)'
<1> TypeInv /\ TypeOK /\ LogOK /\ OffsetOK /\ OwedMine /\ OwedGot /\ OwedSent
  BY DEF RecoveryInv, SessionInv, OrderInv, TypeInv, OwedOK
<1>1. k = Latest /\ pc[k] = "read"
  BY NoneAssumption DEF Restore, TypeInv, OpenedOK
<1>2. wire = <<>> /\ got # <<>> /\ offset[k] = got[Len(got)].id
  BY <1>1 DEF OffsetOK
<1>3. PICK index \in DOMAIN log :
        log[index].id = offset[k] /\ wire' = wire \o Missed(k, index)
  BY DEF Restore
<1>4. Collected(Missed(k, index), held[k].rooms, index, Len(log))
  BY MissedCollects, LogIncreasing DEF TypeOK
<1>5. wire' = Missed(k, index)
  BY <1>2, <1>3, <1>4 DEF Collected
<1>6. Owes(log, owed, held[k].rooms)
  BY <1>1 DEF OwedMine, Mine
<1>7. SUFFICES ASSUME NEW id \in owed PROVE id \in Ids(got) \cup Ids(wire)'
  OBVIOUS
<1>8. Len(got) \in DOMAIN got
  BY <1>2 DEF TypeOK
<1>9. CASE id <= offset[k]
  BY <1>2, <1>8, <1>9 DEF OwedGot
<1>10. CASE id > offset[k]
  <2> DEFINE j == id - (sent - Len(log))
  <2>1. /\ id \in Nat /\ id <= sent /\ sent \in Nat /\ Len(log) \in Nat
        /\ index \in 1 .. Len(log) /\ Len(log) <= sent
    BY BoundsNat DEF TypeOK, OwedSent, LogOK
  <2>2. offset[k] = sent - Len(log) + index
    BY <1>3 DEF LogOK
  <2>3. j \in index + 1 .. Len(log) /\ j \in DOMAIN log
    BY <1>10, <2>1, <2>2 DEF TypeOK
  <2>4. log[j].id = id
    <3>1. log[j].id = sent - Len(log) + j
      BY <2>3 DEF LogOK
    <3> QED
      BY <2>1, <3>1
  <2> HIDE DEF j
  <2>5. ShouldIncludePacket(held[k].rooms, log[j].opts)
    BY <1>6, <2>3, <2>4 DEF Owes
  <2>6. PICK i \in DOMAIN wire' : wire'[i] = log[j]
    BY <1>4, <1>5, <2>3, <2>5 DEF Collected
  <2> QED
    BY <2>4, <2>6 DEF Ids
<1>11. id \in Nat /\ offset[k] \in Nat
  BY BoundsNat DEF TypeOK
<1> QED
  BY <1>9, <1>10, <1>11

(* A packet being delivered that is owed reaches the client's connection.      *)
LEMMA OwedReached ==
  ASSUME RecoveryInv, ~overlap, open # None, pc[open] = "live",
         delivering # None, delivering.id \in owed
  PROVE  open \in Reached(delivering.opts)
<1> TypeInv /\ TypeOK /\ OpenedOK /\ StageOK /\ LiveOK /\ OwedMine
  BY DEF RecoveryInv, SessionInv, OrderInv, TypeInv, OwedOK
<1>1. open \in Conn /\ open = Latest
  BY DEF OpenedOK, TypeOK
<1>2. Len(log) \in DOMAIN log /\ delivering = log[Len(log)]
  BY DeliveringIsLast
<1>3. Owes(log, owed, rooms[born[open]])
  BY <1>1 DEF OwedMine, Mine
<1>4. ShouldIncludePacket(rooms[born[open]], delivering.opts)
  BY <1>2, <1>3 DEF Owes
<1>5. OwnRoom \in rooms[born[open]] /\ sockets[born[open]] = open
  BY <1>1 DEF LiveOK
<1>6. born[open] \in Conn
  BY <1>1 DEF StageOK, Past, TypeOK
<1> QED
  BY <1>1, <1>4, <1>5, <1>6 DEF Reached

LEMMA InWireStep ==
  ASSUME RecoveryInv, [Next]_vars, ~overlap'
  PROVE  InWire'
<1> TypeInv /\ TypeOK /\ OpenedOK /\ OrderOK /\ LogOK
  BY DEF RecoveryInv, SessionInv, OrderInv, TypeInv
<1> USE DEF clock, store, tables, conns, client, history
<1>1. ASSUME NEW k \in Conn, k = Latest, Fresh(k) PROVE InWire'
  BY <1>1 DEF Fresh, InWire
<1>2. ASSUME ~overlap PROVE InWire'
  <2>1. InWire
    BY <1>2 DEF RecoveryInv, OwedOK
  <2>2. (\A o \in Opts : ~Store(o)) => owed' \subseteq owed
    BY OwedLess
  <2>3. ASSUME NEW k \in Conn, Open(k) PROVE InWire'
    <3>1. open' = k /\ pc'[k] \in {"load", "fresh"}
      BY <2>3 DEF Open, TypeOK
    <3> QED
      BY <3>1 DEF InWire
  <2>4. ASSUME NEW k \in Conn, Load(k) \/ DeleteSession(k) PROVE InWire'
    <3>1. UNCHANGED <<owed, got, wire, delivering, open>>
      BY <2>4 DEF Load, DeleteSession
    <3>2. \A j \in Conn : pc'[j] = pc[j] \/ pc'[j] \notin {"run", "live"}
      BY <2>4 DEF Load, DeleteSession, TypeOK
    <3> QED
      BY <2>1, <3>1, <3>2, InWireKept DEF TypeOK
  <2>5. ASSUME NEW k \in Conn, Restore(k) PROVE InWire'
    <3>1. /\ pc' = [pc EXCEPT ![k] = "run"] /\ owed' = owed /\ got' = got /\ open' = open
          /\ delivering' = delivering /\ (open # k => wire' = wire)
      BY <2>5 DEF Restore
    <3>2. CASE open = k
      <4>1. owed \subseteq Ids(got) \cup Ids(wire)'
        BY <1>2, <2>5, <3>2, RestoreSends
      <4>2. pc'[open'] = "run"
        BY <3>1, <3>2 DEF TypeOK
      <4> QED
        BY <3>1, <4>1, <4>2 DEF InWire, Ids
    <3>3. CASE open # k
      BY <2>1, <3>1, <3>3, InWireKept DEF TypeOK
    <3> QED
      BY <3>2, <3>3
  <2>6. ASSUME NEW k \in Conn, OffsetNotFound(k) PROVE InWire'
    BY <2>1, <2>6, InWireKept DEF OffsetNotFound, TypeOK
  <2>7. ASSUME NEW k \in Conn, k # Latest, Fresh(k) PROVE InWire'
    <3>1. open # k
      BY <2>7, NoneAssumption DEF OpenedOK
    <3> QED
      BY <2>1, <2>7, <3>1, InWireKept DEF Fresh, TypeOK
  <2>8. ASSUME NEW k \in Conn, DoConnect(k) PROVE InWire'
    <3>1. open = k /\ open # None /\ pc[k] = "run" /\ pc'[k] = "live"
      BY <2>8, NoneAssumption DEF DoConnect, TypeOK
    <3>2. owed' \subseteq owed
      BY <2>8, StillOwedIs DEF DoConnect
    <3>3. owed \subseteq Ids(got) \cup Ids(wire)
      BY <2>1, <3>1 DEF InWire
    <3>4. UNCHANGED <<open, got, wire>>
      BY <2>8 DEF DoConnect
    <3> QED
      BY <3>1, <3>2, <3>3, <3>4 DEF InWire, Ids
  <2>9. ASSUME NEW k \in Conn, Abandon(k) PROVE InWire'
    BY <2>1, <2>9, InWireKept DEF Abandon, TypeOK
  <2>10. ASSUME NEW k \in Conn, PersistSession(k) PROVE InWire'
    BY <2>1, <2>10, InWireKept DEF PersistSession, TypeOK
  <2>11. ASSUME NEW k \in Conn, Cleanup(k) PROVE InWire'
    BY <2>1, <2>11, InWireKept DEF Cleanup, TypeOK
  <2>12. ASSUME NEW k \in Conn, Untrack(k) PROVE InWire'
    BY <2>1, <2>12, InWireKept DEF Untrack, TypeOK
  <2>13. ASSUME NEW k \in Conn, NEW r \in Room, Join(k, r) \/ Leave(k, r) PROVE InWire'
    <3>1. UNCHANGED <<pc, got, wire, delivering, open>>
      BY <2>13 DEF Join, Leave
    <3>2. owed' \subseteq owed
      BY <2>13, StillOwedIs DEF Join, Leave
    <3> QED
      BY <2>1, <3>1, <3>2, InWireKept
  <2>14. CASE Welcome \/ Interval \/ Tick \/ UNCHANGED vars
    BY <2>1, <2>14, InWireKept DEF Welcome, Interval, IntervalTest, IntervalDelete, IntervalDrop, Tick, vars
  <2>15. CASE Receive
    <3>1. Ids(got)' \cup Ids(wire)' = Ids(got) \cup Ids(wire)
      BY <2>15, ReceivesFirst
    <3>2. UNCHANGED <<pc, delivering, open, owed>>
      BY <2>15 DEF Receive
    <3> QED
      BY <2>1, <3>1, <3>2 DEF InWire
  <2>16. CASE Lose
    BY <2>16 DEF Lose, InWire
  <2>17. ASSUME NEW o \in Opts, Store(o) PROVE InWire'
    <3> DEFINE packet == [id |-> sent + 1, at |-> now, opts |-> o]
    <3>1. /\ delivering = None /\ delivering' = packet /\ packet.id = sent + 1
          /\ UNCHANGED <<pc, got, wire, open>>
          /\ owed' = IF Claim # {} /\ ShouldIncludePacket(Claim, o)
                       THEN owed \cup {sent + 1} ELSE owed
      BY <2>17 DEF Store
    <3> HIDE DEF packet
    <3>2. Ids(got)' = Ids(got) /\ Ids(wire)' = Ids(wire)
      BY <3>1 DEF Ids
    <3>3. open # None => open = Latest /\ Latest # 0
      BY ConnNat DEF OpenedOK, TypeOK
    <3>4. open # None /\ pc[open] = "run" => owed' = owed
      BY <3>1, <3>3 DEF Claim
    <3>5. delivering' # None
      <4>1. delivering' \in Packet \cup {None} /\ log' \in Seq(Packet)
            /\ log' = Append(log, delivering') /\ log \in Seq(Packet)
        BY <2>17, TypeStep DEF Store, TypeOK
      <4>2. log'[Len(log')] = delivering' /\ Len(log') \in DOMAIN log'
        BY <4>1
      <4> QED
        BY <4>1, <4>2, NoneAssumption
    <3> QED
      BY <2>1, <3>1, <3>2, <3>4, <3>5 DEF InWire
  <2>18. CASE Deliver
    <3>1. /\ delivering # None /\ UNCHANGED <<pc, got, open, owed>>
          /\ wire' = IF open \in Reached(delivering.opts) THEN Append(wire, delivering)
                     ELSE wire
      BY <2>18 DEF Deliver
    <3>2. /\ Ids(got)' = Ids(got) /\ Ids(wire) \subseteq Ids(wire)'
          /\ open \in Reached(delivering.opts) => delivering.id \in Ids(wire)'
      <4>1. wire \in Seq(Packet) /\ delivering \in Packet
        BY <3>1 DEF TypeOK
      <4>2. CASE open \in Reached(delivering.opts)
        <5>1. /\ DOMAIN wire' = DOMAIN wire \cup {Len(wire) + 1}
              /\ wire'[Len(wire) + 1] = delivering
              /\ \A i \in DOMAIN wire : wire'[i] = wire[i]
          BY <3>1, <4>1, <4>2
        <5> QED
          BY <3>1, <5>1 DEF Ids
      <4>3. CASE open \notin Reached(delivering.opts)
        BY <3>1, <4>3 DEF Ids
      <4> QED
        BY <4>2, <4>3
    <3>3. ASSUME open # None, pc[open] = "live", NEW id \in owed
          PROVE  id \in Ids(got)' \cup Ids(wire)'
      <4>1. id \in Ids(got) \cup Ids(wire) \/ id = delivering.id
        BY <2>1, <3>3 DEF InWire
      <4>2. id = delivering.id => open \in Reached(delivering.opts)
        BY <1>2, <3>1, <3>3, OwedReached
      <4> QED
        BY <3>2, <4>1, <4>2
    <3> QED
      BY <2>1, <3>1, <3>2, <3>3 DEF InWire
  <2> QED
    BY <1>1, <2>3, <2>4, <2>5, <2>6, <2>7, <2>8, <2>9, <2>10, <2>11, <2>12, <2>13, <2>14,
      <2>15, <2>16, <2>17, <2>18 DEF Next, Serve
<1> QED
  BY <1>1, <1>2, NoOverlap

LEMMA InitRecovery == Init => RecoveryInv
<1> SUFFICES ASSUME Init PROVE RecoveryInv
  OBVIOUS
<1>1. RoomsOK /\ LiveOK
  BY DEF Init, RoomsOK, LiveOK
<1>2. OwedOK
  BY DEF Init, OwedOK, OwedMine, Mine, Past, OwedGot, InWire, OwedSent, NothingYet
<1> QED
  BY <1>1, <1>2, InitSession DEF RecoveryInv

LEMMA RecoveryNext == RecoveryInv /\ [Next]_vars => RecoveryInv'
<1> SUFFICES ASSUME RecoveryInv, [Next]_vars PROVE RecoveryInv'
  OBVIOUS
<1>1. SessionInv'
  BY SessionNext DEF RecoveryInv
<1>2. OwedOK'
  BY OwedMineStep, OwedGotStep, InWireStep DEF OwedOK
<1> QED
  BY <1>1, <1>2, RoomsStep, LiveStep DEF RecoveryInv

(* A client that is connected has processed, or is being sent, every packet   *)
(* that was its own since its socket was born, however often its connection   *)
(* broke: for any rooms, packets and connections.                              *)
THEOREM RecoversAll == Spec => []RecoveredMissesNothing
<1>1. RecoveryInv => RecoveredMissesNothing
  <2> SUFFICES ASSUME RecoveryInv, open # None, pc[open] = "live", ~overlap, NEW id \in owed
               PROVE  id \in {p.id : p \in ToSet(got) \cup ToSet(wire) \cup ({delivering} \ {None})}
    BY DEF RecoveredMissesNothing
  <2>1. id \in Ids(got) \cup Ids(wire) \/ (delivering # None /\ id = delivering.id)
    BY DEF RecoveryInv, OwedOK, InWire
  <2> QED
    BY <2>1 DEF Ids, ToSet
<1> QED
  BY <1>1, InitRecovery, RecoveryNext, PTL DEF Spec

=============================================================================
