------------------------------ MODULE AckProofs ------------------------------
(***************************************************************************)
(* What SocketAck guarantees for any number of emitting goroutines and of  *)
(* acknowledgements, and, in the second part, what an acknowledged         *)
(* broadcast (BroadcastAck) guarantees for any number of servers, clients  *)
(* and answers.                                                            *)
(***************************************************************************)
EXTENDS SocketAck, Completions, Integers, Sequences, FiniteSetTheorems, TLAPS

(* What an emission in progress has done to the entries of its id. *)
EmitOK ==
  \A e \in Emitter :
    /\ emit[e].pc = "idle" => emit[e].id = None
    /\ emit[e].pc \in {"flags", "arm", "store", "send"} => emit[e].id # None
    /\ emit[e].pc = "arm" => emit[e].timed
    /\ emit[e].id # None =>
         /\ emit[e].id \in used /\ handler[emit[e].id] = "none"
         /\ emit[e].pc \in {"flags", "arm"} => timer[emit[e].id] = "none"
         /\ emit[e].pc \in {"flags", "arm", "store"} => acks[emit[e].id] = "none"
         /\ emit[e].pc = "store" => emit[e].timed \/ timer[emit[e].id] = "none"

(* An id belongs to one emission; one not handed out has no entry anywhere. *)
IdsOK ==
  /\ \A e, f \in Emitter :
       emit[e].id # None /\ emit[e].id = emit[f].id => e = f
  /\ \A a \in Ack \ used :
       timer[a] = "none" /\ acks[a] = "none" /\ handler[a] = "none"

(* A plain callback has no timer, and one about to be called no armed one. *)
HandlerOK ==
  /\ \A a \in Ack : acks[a] = "plain" => timer[a] = "none"
  /\ \A a \in Ack : handler[a] \in {"call", "remove"} => timer[a] # "armed"

AnsweredOK ==
  \A a \in Ack : "answer" \in calls[a] =>
    timer[a] # "armed" /\ handler[a] \in {"remove", "done"}

Inv == TypeOK /\ EmitOK /\ IdsOK /\ HandlerOK

-----------------------------------------------------------------------------
LEMMA InitInv == Init => Inv /\ AnsweredOK
<1> SUFFICES ASSUME Init PROVE Inv /\ AnsweredOK
  OBVIOUS
<1>1. TypeOK
  BY AckAssumption DEF Init, TypeOK, Idle, Local, EmitSteps
<1>2. EmitOK /\ IdsOK /\ HandlerOK /\ AnsweredOK
  BY AckAssumption
  DEF Init, EmitOK, IdsOK, HandlerOK, AnsweredOK, Idle, Local
<1> QED
  BY <1>1, <1>2 DEF Inv

(* A step of an emitter keeps the invariant. *)
LEMMA EmitInv ==
  ASSUME Inv, NEW e \in Emitter, Emit(e)
  PROVE  Inv'
<1> USE AckAssumption DEF Inv, Local, Idle, EmitSteps, EmitStep
<1>0. CASE Timeout(e)
  BY <1>0 DEF Timeout, TypeOK, EmitOK, IdsOK, HandlerOK
<1>7. CASE EmitPlain(e)
  BY <1>7 DEF EmitPlain, TypeOK, EmitOK, IdsOK, HandlerOK
<1>1. CASE ReadTimeout(e)
  <2>1. TypeOK' /\ EmitOK'
    BY <1>1 DEF ReadTimeout, TypeOK, EmitOK
  <2>2. IdsOK' /\ HandlerOK'
    BY <1>1 DEF ReadTimeout, TypeOK, EmitOK, IdsOK, HandlerOK
  <2> QED
    BY <2>1, <2>2
<1>2. CASE EmitWithAck(e)
  <2>1. TypeOK'
    BY <1>2 DEF EmitWithAck, TypeOK
  <2>2. EmitOK'
    BY <1>2 DEF EmitWithAck, TypeOK, EmitOK, IdsOK
  <2>3. IdsOK' /\ HandlerOK'
    BY <1>2 DEF EmitWithAck, TypeOK, EmitOK, IdsOK, HandlerOK
  <2> QED
    BY <2>1, <2>2, <2>3
<1>3. CASE ArmTimer(e)
  <2>1. TypeOK'
    BY <1>3 DEF ArmTimer, TypeOK
  <2>2. EmitOK'
    BY <1>3 DEF ArmTimer, TypeOK, EmitOK, IdsOK
  <2>3. IdsOK' /\ HandlerOK'
    BY <1>3 DEF ArmTimer, TypeOK, EmitOK, IdsOK, HandlerOK
  <2> QED
    BY <2>1, <2>2, <2>3
<1>4. CASE StoreAck(e)
  <2>1. TypeOK'
    BY <1>4 DEF StoreAck, TypeOK
  <2>2. EmitOK'
    BY <1>4 DEF StoreAck, TypeOK, EmitOK, IdsOK
  <2>3. IdsOK' /\ HandlerOK'
    BY <1>4 DEF StoreAck, TypeOK, EmitOK, IdsOK, HandlerOK
  <2> QED
    BY <2>1, <2>2, <2>3
<1>5. CASE ResetFlags(e)
  <2>1. TypeOK' /\ EmitOK' /\ IdsOK' /\ HandlerOK'
    BY <1>5, ZenonT(30) DEF ResetFlags, TypeOK, EmitOK, IdsOK, HandlerOK
  <2> QED
    BY <2>1
<1>6. CASE Send(e)
  <2>1. TypeOK'
    BY <1>6 DEF Send, TypeOK
  <2>2. EmitOK'
    BY <1>6 DEF Send, TypeOK, EmitOK, IdsOK
  <2>3. IdsOK' /\ HandlerOK'
    BY <1>6 DEF Send, TypeOK, EmitOK, IdsOK, HandlerOK
  <2> QED
    BY <2>1, <2>2, <2>3
<1> QED
  BY <1>0, <1>1, <1>2, <1>3, <1>4, <1>5, <1>6, <1>7 DEF Emit

(* A step of a timer, of the client or of the goroutine of an answer. *)
LEMMA AckInv ==
  ASSUME Inv, NEW a \in Ack, OnTimer(a) \/ Answer(a) \/ OnAck(a)
  PROVE  Inv'
<1> USE DEF Inv
<1>1. CASE OnTimer(a)
  BY <1>1 DEF OnTimer, FireTimer, ForgetAck, CallTimedOut, TypeOK, EmitOK,
              IdsOK, HandlerOK
<1>2. CASE Answer(a) \/ ClearTimer(a) \/ CallAnswered(a) \/ RemoveAck(a)
  BY <1>2 DEF Answer, ClearTimer, CallAnswered, RemoveAck, TypeOK, EmitOK,
              IdsOK, HandlerOK
<1>3. CASE LoadAck(a)
  <2>1. acks[a] = "none" \/ acks[a] = "plain" \/ acks[a] = "timed"
    BY DEF TypeOK
  <2> QED
    BY <1>3, <2>1 DEF LoadAck, TypeOK, EmitOK, IdsOK, HandlerOK
<1> QED
  BY <1>1, <1>2, <1>3 DEF OnAck

LEMMA NextInv == Inv /\ [Next]_vars => Inv'
<1> SUFFICES ASSUME Inv, [Next]_vars PROVE Inv'
  OBVIOUS
<1>1. CASE UNCHANGED vars
  BY <1>1 DEF vars, Inv, TypeOK, EmitOK, IdsOK, HandlerOK
<1> QED
  BY <1>1, EmitInv, AckInv DEF Next

LEMMA SpecInv == Spec => []Inv
  BY InitInv, NextInv, PTL DEF Spec

(* Types, for any number of emitters and acknowledgements. *)
THEOREM TypeCorrect == Spec => []TypeOK
<1>1. Inv => TypeOK
  BY DEF Inv
<1> QED
  BY <1>1, SpecInv, PTL

-----------------------------------------------------------------------------
(* No step makes an answered callback's timer armed. *)
LEMMA NextAnswered == Inv /\ AnsweredOK /\ [Next]_vars => AnsweredOK'
<1> SUFFICES ASSUME Inv, AnsweredOK, [Next]_vars PROVE AnsweredOK'
  OBVIOUS
<1> USE DEF AnsweredOK, Inv
<1>1. CASE UNCHANGED vars
  BY <1>1 DEF vars
<1>2. ASSUME NEW e \in Emitter, Emit(e) PROVE AnsweredOK'
  <2>1. calls' = calls
    BY <1>2 DEF Emit, Timeout, EmitPlain, EmitWithAck, ReadTimeout, ArmTimer,
                StoreAck, ResetFlags, Send
  <2>2. CASE ArmTimer(e)
    BY <2>1, <2>2, AckAssumption DEF ArmTimer, EmitStep, TypeOK, EmitOK
  <2>3. CASE Send(e)
    BY <2>1, <2>3, AckAssumption DEF Send, TypeOK, EmitOK
  <2>4. CASE Timeout(e) \/ EmitPlain(e) \/ EmitWithAck(e) \/ ReadTimeout(e)
             \/ StoreAck(e) \/ ResetFlags(e)
    BY <2>1, <2>4 DEF Timeout, EmitPlain, EmitWithAck, ReadTimeout, StoreAck,
                      ResetFlags
  <2> QED
    BY <1>2, <2>2, <2>3, <2>4 DEF Emit
<1>3. ASSUME NEW a \in Ack, OnTimer(a) PROVE AnsweredOK'
  BY <1>3 DEF OnTimer, FireTimer, ForgetAck, CallTimedOut, TypeOK
<1>4. ASSUME NEW a \in Ack, Answer(a) \/ OnAck(a) PROVE AnsweredOK'
  BY <1>4 DEF Answer, OnAck, LoadAck, ClearTimer, CallAnswered, RemoveAck,
              TypeOK, HandlerOK
<1> QED
  BY <1>1, <1>2, <1>3, <1>4 DEF Next

(* An answered callback's timer is not armed, so it cannot go off later. *)
THEOREM AnsweredDisarmed == Spec => []AnsweredIsDisarmed
<1>1. AnsweredOK => AnsweredIsDisarmed
  BY DEF AnsweredOK, AnsweredIsDisarmed
<1> QED
  BY <1>1, SpecInv, InitInv, NextAnswered, PTL DEF Spec

-----------------------------------------------------------------------------
(* Unless its timer was early, no emission works on an expired id. *)
ExpiredOK ==
  \A a \in Ack \ early :
    /\ timer[a] \in {"forget", "call", "fired"} =>
         a \in used /\ \A e \in Emitter : emit[e].id # a
    /\ timer[a] \in {"call", "fired"} => acks[a] = "none"

LEMMA NextExpired == Inv /\ ExpiredOK /\ [Next]_vars => ExpiredOK'
<1> SUFFICES ASSUME Inv, ExpiredOK, [Next]_vars PROVE ExpiredOK'
  OBVIOUS
<1> USE AckAssumption DEF ExpiredOK, Inv
<1>1. CASE UNCHANGED vars
  BY <1>1 DEF vars
<1>2. ASSUME NEW e \in Emitter, Emit(e) PROVE ExpiredOK'
  <2>1. CASE StoreAck(e)
    BY <2>1 DEF StoreAck, EmitStep, Local, TypeOK, EmitOK
  <2>2. CASE EmitWithAck(e)
    BY <2>2 DEF EmitWithAck, Local, TypeOK
  <2>3. CASE Timeout(e) \/ EmitPlain(e) \/ ReadTimeout(e)
    BY <2>3 DEF Timeout, EmitPlain, ReadTimeout, EmitStep, Local, Idle, TypeOK
  <2>4. CASE ArmTimer(e) \/ ResetFlags(e) \/ Send(e)
    BY <2>4 DEF ArmTimer, ResetFlags, Send, EmitStep, Local, Idle, TypeOK
  <2> QED
    BY <1>2, <2>1, <2>2, <2>3, <2>4 DEF Emit
<1>3. ASSUME NEW a \in Ack, OnTimer(a) \/ Answer(a) \/ OnAck(a)
      PROVE  ExpiredOK'
  <2>1. CASE FireTimer(a)
    BY <2>1 DEF FireTimer, TypeOK, IdsOK
  <2>2. CASE ForgetAck(a) \/ CallTimedOut(a)
    BY <2>2 DEF ForgetAck, CallTimedOut, TypeOK
  <2>3. CASE Answer(a) \/ LoadAck(a) \/ ClearTimer(a) \/ CallAnswered(a)
             \/ RemoveAck(a)
    BY <2>3 DEF Answer, LoadAck, ClearTimer, CallAnswered, RemoveAck, TypeOK
  <2> QED
    BY <1>3, <2>1, <2>2, <2>3 DEF OnTimer, OnAck
<1> QED
  BY <1>1, <1>2, <1>3 DEF Next

(* A late answer finds no callback, if the timeout outlasted its Emit. *)
THEOREM ExpiredForgotten == Spec => []ExpiredIsForgotten
<1>1. Init => ExpiredOK
  BY DEF Init, ExpiredOK
<1>2. ExpiredOK => ExpiredIsForgotten
  BY DEF ExpiredOK, ExpiredIsForgotten
<1> QED
  BY <1>1, <1>2, SpecInv, NextExpired, PTL DEF Spec

-----------------------------------------------------------------------------
(***************************************************************************)
(* The acknowledged broadcast.  Two of its names are taken by SocketAck:   *)
(* Sender is its goroutine of Emit, and deadline its timer.                *)
(***************************************************************************)
CONSTANTS Server, Here, ServerOf, Args, Stray, Counts, Sender, LocalOnly
VARIABLES pc, notified, published, recycled, deadline, timedOut, expectedServers,
          actualServers, expectedClients, responses, answered, extra

Broadcast ==
  INSTANCE BroadcastAck WITH Emitter <- Sender, timer <- deadline

(* What BroadcastAck assumes of its constants. *)
Configured ==
  /\ Here \in Server /\ ServerOf \in [Client -> Server]
  /\ Args \subseteq Nat /\ Counts \subseteq Nat
  /\ Sender \notin Client \cup Server \cup Stray
  /\ Client \cap Server = {} /\ Stray \cap (Client \cup Server) = {}
  /\ LocalOnly \in BOOLEAN
  /\ IsFiniteSet(Server) /\ IsFiniteSet(Client)

-----------------------------------------------------------------------------
(* The steps each kind of process takes. *)
Steps == {"start", "publish", "apply", "addClients", "addServer", "expect",
          "waiting", "responding", "lost", "append", "check", "done"}
         \cup Broadcast!Reading
Checking == {"check", "done"} \cup Broadcast!Reading
PcOK ==
  /\ pc \in [Broadcast!Process -> Steps]
  /\ pc[Sender] \in {"start", "publish", "apply", "addClients", "addServer",
                     "expect"} \cup Checking
  /\ \A c \in Client :
       pc[c] \in {"waiting", "responding", "lost", "append"} \cup Checking
  /\ \A s \in Broadcast!Remote :
       pc[s] \in {"waiting", "lost", "addClients", "addServer"} \cup Checking
  /\ \A x \in Stray :
       pc[x] \in {"waiting", "append", "addClients", "addServer"} \cup Checking

(* The servers whose clients, and which themselves, are counted already. *)
Counter(s) == IF s = Here THEN Sender ELSE s
BeforeClients == {"start", "publish", "apply", "waiting", "lost", "addClients"}
BeforeServer == BeforeClients \cup {"addServer"}
ClientsAdded == {s \in Server : pc[Counter(s)] \notin BeforeClients}
ServersAdded == {s \in Server : pc[Counter(s)] \notin BeforeServer}
Expected == {c \in Client : ServerOf[c] \in ClientsAdded}

CountersOK ==
  /\ expectedServers \in {-1, Cardinality(Server)}
  /\ extra \in Int /\ responses = Cardinality(answered) + extra
  /\ miscounted \in BOOLEAN
  /\ ~miscounted => /\ actualServers = Cardinality(ServersAdded)
                    /\ expectedClients = Cardinality(Expected)

Before == {"waiting", "responding", "lost", "append"}
AnswersOK ==
  /\ answered \subseteq Client
  /\ \A c \in answered : pc[c] \notin Before

(* Whose count a stray response is, it has been added when it is past that. *)
StraysOK ==
  \A x \in Stray : pc[x] = "addServer" => miscounted

(* What a process knows that is past a test of checkCompleteness. *)
Missing == Cardinality(Client \ answered)
CheckOK ==
  ~miscounted => \A p \in Broadcast!Process :
    /\ pc[p] \in {"clients", "clear", "complete"} => ServersAdded = Server
    /\ pc[p] \in {"clear", "complete"} => Missing = extra

CompletionsOK ==
  /\ completions \in Seq(Completion)
  /\ CompleteMeansAll

BroadcastInv ==
  PcOK /\ CountersOK /\ AnswersOK /\ StraysOK /\ CheckOK /\ CompletionsOK

-----------------------------------------------------------------------------
(* The instance counts as this module does. *)
LEMMA SameCardinality == \A S : Broadcast!Cardinality(S) = Cardinality(S)
  BY DEF Broadcast!Cardinality, Cardinality

LEMMA CounterIsProcess == \A s \in Server : Counter(s) \in Broadcast!Process
  BY DEF Counter, Broadcast!Process, Broadcast!Remote

LEMMA ExpectedFinite ==
  ASSUME Configured
  PROVE  /\ IsFiniteSet(Expected) /\ Expected \subseteq Client
         /\ IsFiniteSet(ServersAdded) /\ ServersAdded \subseteq Server
         /\ IsFiniteSet(ClientsAdded) /\ ClientsAdded \subseteq Server
<1>1. Expected \subseteq Client /\ ServersAdded \subseteq Server
      /\ ClientsAdded \subseteq Server
  BY DEF Expected, ServersAdded, ClientsAdded
<1> QED
  BY <1>1, FS_Subset DEF Configured

LEMMA BroadcastInitInv == Configured /\ Broadcast!Init => BroadcastInv
<1> SUFFICES ASSUME Configured, Broadcast!Init PROVE BroadcastInv
  OBVIOUS
<1>1. PcOK
  BY DEF Configured, Broadcast!Init, PcOK, Broadcast!Process, Broadcast!Remote,
      Steps, Checking, Broadcast!Reading
<1>2. ServersAdded = {} /\ Expected = {}
  <2>1. \A s \in Server : pc[Counter(s)] \in {"start", "waiting"}
    BY CounterIsProcess DEF Broadcast!Init
  <2> QED
    BY <2>1 DEF ServersAdded, ClientsAdded, Expected, BeforeClients,
                BeforeServer
<1>3. CountersOK
  <2>1. Cardinality(ServersAdded) = 0 /\ Cardinality(Expected) = 0
        /\ Cardinality(answered) = 0
    BY <1>2, FS_EmptySet DEF Broadcast!Init
  <2>2. /\ expectedServers = -1 /\ actualServers = 0 /\ expectedClients = 0
        /\ responses = 0 /\ extra = 0 /\ miscounted = FALSE
    BY DEF Broadcast!Init
  <2>3. responses = Cardinality(answered) + extra
    BY <2>1, <2>2
  <2>4. actualServers = Cardinality(ServersAdded)
        /\ expectedClients = Cardinality(Expected)
    BY <2>1, <2>2
  <2>5. expectedServers \in {-1, Cardinality(Server)}
    BY <2>2
  <2>6. extra \in Int
    BY <2>2
  <2>7. miscounted \in BOOLEAN
    BY DEF Broadcast!Init
  <2> QED
    BY <2>3, <2>4, <2>5, <2>6, <2>7 DEF CountersOK
<1>4. AnswersOK /\ StraysOK /\ CheckOK
  BY DEF Broadcast!Init, Broadcast!Process, AnswersOK, StraysOK, CheckOK
<1>5. CompletionsOK
  <2>1. <<>> \in Seq(Completion)
    OBVIOUS
  <2>2. DOMAIN completions = {}
    BY DEF Broadcast!Init
  <2> QED
    BY <2>1, <2>2 DEF Broadcast!Init, CompletionsOK, CompleteMeansAll
<1> QED
  BY <1>1, <1>3, <1>4, <1>5 DEF BroadcastInv

(* A process that counts no server, or moves within one phase of the count,  *)
(* changes no count.                                                         *)
SamePhase(p, step) ==
  \/ p \in Client \cup Stray
  \/ /\ pc[p] \in BeforeClients <=> step \in BeforeClients
     /\ pc[p] \in BeforeServer <=> step \in BeforeServer

LEMMA SameCounts ==
  ASSUME Configured, PcOK, NEW p \in Broadcast!Process, NEW step,
         Broadcast!Goto(p, step), SamePhase(p, step)
  PROVE  ServersAdded' = ServersAdded /\ Expected' = Expected
<1>1. \A s \in Server :
        /\ pc'[Counter(s)] \in BeforeClients <=> pc[Counter(s)] \in BeforeClients
        /\ pc'[Counter(s)] \in BeforeServer <=> pc[Counter(s)] \in BeforeServer
  <2> SUFFICES ASSUME NEW s \in Server
               PROVE  /\ pc'[Counter(s)] \in BeforeClients
                           <=> pc[Counter(s)] \in BeforeClients
                      /\ pc'[Counter(s)] \in BeforeServer
                           <=> pc[Counter(s)] \in BeforeServer
    OBVIOUS
  <2>1. CASE Counter(s) # p
    BY <2>1, CounterIsProcess DEF Broadcast!Goto, PcOK
  <2>2. CASE Counter(s) = p
    <3>1. p \notin Client \cup Stray
      BY <2>2 DEF Configured, Counter
    <3> QED
      BY <2>2, <3>1 DEF SamePhase, Broadcast!Goto, PcOK
  <2> QED
    BY <2>1, <2>2
<1> QED
  BY <1>1 DEF ServersAdded, ClientsAdded, Expected

(* A move that changes no count and passes no test of a check. *)
LEMMA PlainMove ==
  ASSUME Configured, BroadcastInv, NEW p \in Broadcast!Process, NEW step,
         Broadcast!Goto(p, step), SamePhase(p, step), PcOK',
         ~miscounted =>
           /\ step \in {"clients", "clear", "complete"} => ServersAdded = Server
           /\ step \in {"clear", "complete"} => Missing = extra,
         p \in answered => step \notin Before,
         p \in Stray => step # "addServer",
         UNCHANGED <<actualServers, expectedClients, miscounted, Broadcast!answers>>,
         expectedServers' \in {-1, Cardinality(Server)}
  PROVE  CountersOK' /\ AnswersOK' /\ StraysOK' /\ CheckOK'
<1> USE DEF Broadcast!answers
<1>1. ServersAdded' = ServersAdded /\ Expected' = Expected
  BY SameCounts DEF BroadcastInv
<1>2. CountersOK'
  BY <1>1 DEF BroadcastInv, CountersOK
<1>3. AnswersOK' /\ StraysOK'
  BY DEF BroadcastInv, AnswersOK, StraysOK, Broadcast!Goto, PcOK,
         Broadcast!Process
<1>4. CheckOK'
  <2>1. Missing' = Missing
    BY DEF Missing
  <2> QED
    BY <1>1, <2>1 DEF BroadcastInv, CheckOK, Broadcast!Goto, PcOK
<1> QED
  BY <1>2, <1>3, <1>4

(* A new call of the callback, with what is answered. *)
LEMMA CallInv ==
  ASSUME BroadcastInv, NEW err \in BOOLEAN, Broadcast!Called(err),
         UNCHANGED miscounted, err \/ miscounted \/ Missing = extra
  PROVE  CompletionsOK'
<1> DEFINE new == [err |-> err, of |-> answered, extra |-> extra]
<1>1. new \in Completion
  BY DEF BroadcastInv, AnswersOK, CountersOK, Completion
<1>2. /\ completions' \in Seq(Completion)
      /\ DOMAIN completions' = 1..(Len(completions) + 1)
      /\ DOMAIN completions = 1..Len(completions) /\ Len(completions) \in Nat
      /\ \A i \in 1..Len(completions) : completions'[i] = completions[i]
      /\ completions'[Len(completions) + 1] = new
  BY <1>1 DEF Broadcast!Called, BroadcastInv, CompletionsOK
<1>3. new.err = err /\ new.of = answered /\ new.extra = extra
  OBVIOUS
<1> HIDE DEF new
<1>4. miscounted \/ \A i \in 1..Len(completions) :
        ~completions[i].err =>
          Cardinality(Client \ completions[i].of) = completions[i].extra
  BY <1>2 DEF BroadcastInv, CompletionsOK, CompleteMeansAll
<1>5. ~miscounted /\ ~new.err => Cardinality(Client \ new.of) = new.extra
  BY <1>3 DEF Missing
<1>6. \A i \in DOMAIN completions' :
        i \in 1..Len(completions) \/ i = Len(completions) + 1
  BY <1>2
<1>7. CompleteMeansAll'
  <2> SUFFICES ASSUME ~miscounted, NEW i \in DOMAIN completions',
                      ~completions'[i].err
               PROVE  Cardinality(Client \ completions'[i].of)
                        = completions'[i].extra
    BY DEF CompleteMeansAll
  <2>1. CASE i \in 1..Len(completions)
    BY <1>2, <1>4, <2>1
  <2>2. CASE i = Len(completions) + 1
    BY <1>2, <1>5, <2>2
  <2> QED
    BY <1>6, <2>1, <2>2
<1> QED
  BY <1>2, <1>7 DEF CompletionsOK

LEMMA SameCompletions ==
  ASSUME BroadcastInv, UNCHANGED completions, miscounted => miscounted'
  PROVE  CompletionsOK'
  BY DEF BroadcastInv, CompletionsOK, CompleteMeansAll

LEMMA NothingInv ==
  ASSUME BroadcastInv,
         UNCHANGED <<pc, Broadcast!counters, Broadcast!answers, completions>>
  PROVE  BroadcastInv'
<1>1. CompletionsOK'
  BY SameCompletions DEF Broadcast!counters
<1> QED
  BY <1>1
  DEF BroadcastInv, PcOK, CountersOK, AnswersOK, StraysOK, CheckOK, Missing,
      Broadcast!counters, Broadcast!answers, ServersAdded, ClientsAdded, Expected

(* The steps of Emit, *)
LEMMA EmitStepInv ==
  ASSUME Configured, BroadcastInv, Broadcast!Emit
  PROVE  BroadcastInv'
<1> USE DEF Broadcast!At
<1>0. Sender \in Broadcast!Process /\ PcOK
  BY DEF Broadcast!Process, BroadcastInv
<1>1. CASE \E c \in Client : Broadcast!Notify(c)
  BY <1>1, NothingInv DEF Broadcast!Notify
<1>2. ASSUME NEW step, Broadcast!Goto(Sender, step),
             \/ Broadcast!SetTimer /\ step = "publish"
             \/ Broadcast!Publish /\ step = "apply"
             \/ Broadcast!AllNotified /\ step = "addClients"
             \/ Broadcast!ExpectServers /\ step = "check"
      PROVE  BroadcastInv'
  <2>1. PcOK'
    BY <1>0, <1>2
    DEF Configured, PcOK, Broadcast!Goto, Broadcast!Process, Broadcast!Remote,
        Steps, Checking, Broadcast!Reading
  <2>2. /\ UNCHANGED <<actualServers, expectedClients, miscounted,
                       Broadcast!answers, completions>>
        /\ expectedServers' \in {-1, Cardinality(Server)}
    BY <1>2, SameCardinality
    DEF BroadcastInv, CountersOK, Broadcast!counters, Broadcast!SetTimer,
        Broadcast!Publish, Broadcast!AllNotified, Broadcast!ExpectServers
  <2>3. \/ /\ pc[Sender] \in {"start", "publish", "apply"}
           /\ step \in {"publish", "apply", "addClients"}
        \/ pc[Sender] = "expect" /\ step = "check"
    BY <1>2 DEF Broadcast!SetTimer, Broadcast!Publish, Broadcast!AllNotified,
                Broadcast!ExpectServers
  <2>4. SamePhase(Sender, step)
    BY <2>3 DEF SamePhase, BeforeClients, BeforeServer
  <2>5. Sender \notin answered /\ Sender \notin Stray
    BY DEF Configured, BroadcastInv, AnswersOK
  <2>6. step \notin {"clients", "clear", "complete"}
    BY <2>3
  <2>7. CountersOK' /\ AnswersOK' /\ StraysOK' /\ CheckOK'
    BY <1>0, <1>2, <2>1, <2>2, <2>4, <2>5, <2>6, PlainMove
  <2> QED
    BY <2>1, <2>2, <2>7, SameCompletions DEF BroadcastInv
<1> QED
  BY <1>1, <1>2
  DEF Broadcast!Emit, Broadcast!SetTimer, Broadcast!Publish,
      Broadcast!AllNotified, Broadcast!ExpectServers

(* of messages that arrive, are sent or are lost, *)
LEMMA ArrivalInv ==
  ASSUME Configured, BroadcastInv, NEW p \in Broadcast!Process,
         \/ p \in Server /\ Broadcast!CountArrives(p)
         \/ p \in Client /\ (Broadcast!Answer(p) \/ Broadcast!ResponseArrives(p))
         \/ Broadcast!Divert(p) \/ Broadcast!StrayArrives(p)
  PROVE  BroadcastInv'
<1> USE DEF Broadcast!At
<1>0. PcOK
  BY DEF BroadcastInv
<1>1. PICK step :
        /\ Broadcast!Goto(p, step) /\ pc[p] \in {"waiting", "responding"}
        /\ \/ p \in Broadcast!Remote /\ step \in {"addClients", "lost"}
           \/ p \in Client /\ step \in {"append", "responding", "lost"}
           \/ p \in Stray /\ step \in {"append", "addClients"}
  BY <1>0 DEF Broadcast!CountArrives, Broadcast!Answer, Broadcast!ResponseArrives,
              Broadcast!Divert, Broadcast!StrayArrives, Configured, PcOK, Checking,
              Broadcast!Reading, Broadcast!Process
<1>2. UNCHANGED <<Broadcast!counters, Broadcast!answers, completions>>
  BY DEF Broadcast!CountArrives, Broadcast!Answer, Broadcast!ResponseArrives,
         Broadcast!Divert, Broadcast!StrayArrives
<1>3. PcOK'
  BY <1>0, <1>1
  DEF Configured, PcOK, Broadcast!Goto, Broadcast!Process, Broadcast!Remote,
      Steps, Checking, Broadcast!Reading
<1>4. SamePhase(p, step)
  BY <1>0, <1>1 DEF SamePhase, BeforeClients, BeforeServer, PcOK, Checking,
                    Broadcast!Reading
<1>5. p \notin answered
  BY <1>1 DEF BroadcastInv, AnswersOK, Before
<1>6. step \notin {"clients", "clear", "complete", "addServer"}
  BY <1>1
<1>7. /\ UNCHANGED <<actualServers, expectedClients, miscounted, Broadcast!answers>>
      /\ expectedServers' \in {-1, Cardinality(Server)}
  BY <1>2 DEF Broadcast!counters, BroadcastInv, CountersOK
<1>8. CountersOK' /\ AnswersOK' /\ StraysOK' /\ CheckOK'
  BY <1>1, <1>3, <1>4, <1>5, <1>6, <1>7, PlainMove
<1> QED
  BY <1>2, <1>3, <1>7, <1>8, SameCompletions DEF BroadcastInv

(* and of the timer. *)
LEMMA TimerInv ==
  ASSUME BroadcastInv, Broadcast!OnTimer
  PROVE  BroadcastInv'
<1>1. CASE Broadcast!FireTimer \/ Broadcast!SetTimedOut
  BY <1>1, NothingInv DEF Broadcast!FireTimer, Broadcast!SetTimedOut
<1>2. CASE Broadcast!CallTimedOut
  <2>1. UNCHANGED <<pc, Broadcast!counters, Broadcast!answers>>
    BY <1>2 DEF Broadcast!CallTimedOut
  <2>2. CompletionsOK'
    BY <1>2, <2>1, CallInv DEF Broadcast!CallTimedOut, Broadcast!counters
  <2> QED
    BY <2>1, <2>2
    DEF BroadcastInv, PcOK, CountersOK, AnswersOK, StraysOK, CheckOK, Missing,
        Broadcast!counters, Broadcast!answers, ServersAdded, ClientsAdded, Expected
<1> QED
  BY <1>1, <1>2 DEF Broadcast!OnTimer

-----------------------------------------------------------------------------
(* A counting process is the counter of its server, unless it is a stray. *)
LEMMA CountingOK ==
  ASSUME Configured, PcOK, NEW p \in Broadcast!Process, p \notin Stray,
         pc[p] \in {"addClients", "addServer"}
  PROVE  /\ Broadcast!Counting(p) \in Server
         /\ Counter(Broadcast!Counting(p)) = p /\ p \notin Client
         /\ \A s \in Server : Counter(s) = p => s = Broadcast!Counting(p)
<1>1. p \notin Client
  BY DEF PcOK, Checking, Broadcast!Reading
<1> QED
  BY <1>1
  DEF Configured, Broadcast!Counting, Counter, Broadcast!Process, Broadcast!Remote

LEMMA AddClientsInv ==
  ASSUME Configured, BroadcastInv, NEW p \in Broadcast!Process, Broadcast!AddClients(p)
  PROVE  BroadcastInv'
<1> USE DEF Broadcast!At, Broadcast!answers
<1>0. pc[p] = "addClients" /\ Broadcast!Goto(p, "addServer") /\ PcOK
  BY DEF Broadcast!AddClients, BroadcastInv
<1>1. PcOK'
  BY <1>0
  DEF Configured, PcOK, Broadcast!Goto, Broadcast!Process, Broadcast!Remote, Steps,
      Checking, Broadcast!Reading
<1>2. p \notin Client
  BY <1>0 DEF PcOK, Checking, Broadcast!Reading
<1>3. /\ UNCHANGED <<expectedServers, actualServers, responses, answered, extra,
                     completions>>
      /\ miscounted' = (miscounted \/ p \in Stray) /\ miscounted \in BOOLEAN
      /\ Missing' = Missing
  BY DEF Broadcast!AddClients, BroadcastInv, CountersOK, Missing
<1>4. AnswersOK' /\ StraysOK'
  BY <1>0, <1>2, <1>3
  DEF BroadcastInv, AnswersOK, StraysOK, Broadcast!Goto, PcOK, Broadcast!Process
<1>5. CompletionsOK'
  BY <1>3, SameCompletions
<1>6. CASE p \in Stray
  <2>1. miscounted'
    BY <1>3, <1>6
  <2> QED
    BY <1>1, <1>3, <1>4, <1>5, <2>1 DEF BroadcastInv, CountersOK, CheckOK
<1>7. CASE p \notin Stray
  <2> DEFINE s0 == Broadcast!Counting(p)
  <2>1. /\ s0 \in Server /\ Counter(s0) = p
        /\ \A s \in Server : Counter(s) = p => s = s0
    BY <1>0, <1>7, CountingOK
  <2>2. ClientsAdded' = ClientsAdded \cup {s0} /\ s0 \notin ClientsAdded
        /\ ServersAdded' = ServersAdded
    <3>1. \A s \in Server : s # s0 => pc'[Counter(s)] = pc[Counter(s)]
      BY <1>0, <2>1, CounterIsProcess DEF Broadcast!Goto, PcOK
    <3>2. pc'[Counter(s0)] = "addServer"
      BY <1>0, <2>1 DEF Broadcast!Goto, PcOK
    <3> QED
      BY <1>0, <2>1, <3>1, <3>2
      DEF ClientsAdded, ServersAdded, BeforeClients, BeforeServer
  <2>3. Cardinality(Expected') = Cardinality(Expected) + Cardinality(Broadcast!ClientsOf(s0))
    <3>1. Expected' = Expected \cup Broadcast!ClientsOf(s0)
      BY <2>1, <2>2 DEF Expected, Broadcast!ClientsOf
    <3>2. Expected \cap Broadcast!ClientsOf(s0) = {}
      BY <2>2 DEF Expected, Broadcast!ClientsOf
    <3>3. IsFiniteSet(Expected) /\ IsFiniteSet(Broadcast!ClientsOf(s0))
      BY FS_Subset, ExpectedFinite DEF Configured, Broadcast!ClientsOf
    <3>4. Cardinality(Expected) \in Nat /\ Cardinality(Broadcast!ClientsOf(s0)) \in Nat
      BY <3>3, FS_CardinalityType
    <3>5. Cardinality(Expected \cup Broadcast!ClientsOf(s0)) =
            Cardinality(Expected) + Cardinality(Broadcast!ClientsOf(s0)) - Cardinality({})
      BY <3>2, <3>3, FS_Union
    <3> QED
      BY <3>1, <3>4, <3>5, FS_EmptySet
  <2>4. expectedClients' = expectedClients + Cardinality(Broadcast!ClientsOf(s0))
    BY <1>7, SameCardinality DEF Broadcast!AddClients
  <2>5. CountersOK'
    BY <1>3, <2>2, <2>3, <2>4 DEF BroadcastInv, CountersOK
  <2>6. CheckOK'
    BY <1>0, <1>3, <2>2 DEF BroadcastInv, CheckOK, Broadcast!Goto, PcOK
  <2> QED
    BY <1>1, <1>4, <1>5, <2>5, <2>6 DEF BroadcastInv
<1> QED
  BY <1>6, <1>7

LEMMA AddServerInv ==
  ASSUME Configured, BroadcastInv, NEW p \in Broadcast!Process, Broadcast!AddServer(p)
  PROVE  BroadcastInv'
<1> USE DEF Broadcast!At, Broadcast!answers
<1>0. pc[p] = "addServer" /\ Broadcast!Goto(p, "check") /\ PcOK
  BY DEF Broadcast!AddServer, BroadcastInv
<1>1. PcOK'
  BY <1>0
  DEF Configured, PcOK, Broadcast!Goto, Broadcast!Process, Broadcast!Remote, Steps,
      Checking, Broadcast!Reading
<1>2. p \notin Client
  BY <1>0 DEF PcOK, Checking, Broadcast!Reading
<1>3. /\ UNCHANGED <<expectedServers, expectedClients, miscounted, responses,
                     answered, extra, completions>>
      /\ Missing' = Missing
  BY DEF Broadcast!AddServer, Missing
<1>4. AnswersOK' /\ StraysOK'
  BY <1>0, <1>2, <1>3
  DEF BroadcastInv, AnswersOK, StraysOK, Broadcast!Goto, PcOK, Broadcast!Process
<1>5. CompletionsOK'
  BY <1>3, SameCompletions
<1>6. CASE p \in Stray
  <2>1. miscounted'
    BY <1>0, <1>3, <1>6 DEF BroadcastInv, StraysOK
  <2> QED
    BY <1>1, <1>3, <1>4, <1>5, <2>1 DEF BroadcastInv, CountersOK, CheckOK
<1>7. CASE p \notin Stray
  <2> DEFINE s0 == Broadcast!Counting(p)
  <2>1. /\ s0 \in Server /\ Counter(s0) = p
        /\ \A s \in Server : Counter(s) = p => s = s0
    BY <1>0, <1>7, CountingOK
  <2>2. ServersAdded' = ServersAdded \cup {s0} /\ s0 \notin ServersAdded
        /\ Expected' = Expected
    <3>1. \A s \in Server : s # s0 => pc'[Counter(s)] = pc[Counter(s)]
      BY <1>0, <2>1, CounterIsProcess DEF Broadcast!Goto, PcOK
    <3>2. pc'[Counter(s0)] = "check"
      BY <1>0, <2>1 DEF Broadcast!Goto, PcOK
    <3>3. ClientsAdded' = ClientsAdded
      BY <1>0, <2>1, <3>1, <3>2 DEF ClientsAdded, BeforeClients
    <3>4. ServersAdded' = ServersAdded \cup {s0} /\ s0 \notin ServersAdded
      BY <1>0, <2>1, <3>1, <3>2 DEF ServersAdded, BeforeClients, BeforeServer
    <3> QED
      BY <3>3, <3>4 DEF Expected
  <2>3. Cardinality(ServersAdded') = Cardinality(ServersAdded) + 1
    BY <2>2, ExpectedFinite, FS_AddElement
  <2>4. CountersOK'
    BY <1>3, <2>2, <2>3 DEF Broadcast!AddServer, BroadcastInv, CountersOK
  <2>5. CheckOK'
    BY <1>0, <1>3, <2>1, <2>2 DEF BroadcastInv, CheckOK, Broadcast!Goto, PcOK
  <2> QED
    BY <1>1, <1>4, <1>5, <2>4, <2>5 DEF BroadcastInv
<1> QED
  BY <1>6, <1>7

(* Nobody is in the middle of a check while a response is appended. *)
LEMMA AppendInv ==
  ASSUME Configured, BroadcastInv, NEW p \in Broadcast!Process,
         Broadcast!AppendResponse(p)
  PROVE  BroadcastInv'
<1> USE DEF Broadcast!At
<1>0. /\ pc[p] = "append" /\ Broadcast!Goto(p, "check") /\ PcOK
      /\ p \in Client \cup Stray
      /\ \A q \in Broadcast!Process : pc[q] \notin Broadcast!Reading
  BY DEF Broadcast!AppendResponse, Broadcast!Unlocked, BroadcastInv
<1>1. PcOK'
  BY <1>0
  DEF Configured, PcOK, Broadcast!Goto, Broadcast!Process, Broadcast!Remote, Steps,
      Checking, Broadcast!Reading
<1>2. ServersAdded' = ServersAdded /\ Expected' = Expected
  BY <1>0, SameCounts DEF SamePhase
<1>3. PICK n \in Int :
        /\ responses' = responses + n
        /\ extra' = extra + IF p \in Stray THEN n ELSE n - 1
  <2>1. PICK n \in IF p \in Broadcast!ClientsOf(Here) THEN Args ELSE {1} :
          /\ responses' = responses + n
          /\ extra' = extra + IF p \in Stray THEN n ELSE n - 1
    BY DEF Broadcast!AppendResponse
  <2>2. n \in Int
    BY <2>1 DEF Configured
  <2> QED
    BY <2>1, <2>2
<1>4. IsFiniteSet(answered) /\ Cardinality(answered) \in Nat
  BY FS_Subset, FS_CardinalityType DEF Configured, BroadcastInv, AnswersOK
<1>5. /\ answered' = IF p \in Stray THEN answered ELSE answered \cup {p}
      /\ UNCHANGED <<Broadcast!counters, completions>>
  BY DEF Broadcast!AppendResponse
<1>6. extra' \in Int /\ responses' = Cardinality(answered') + extra'
  <2>1. extra \in Int /\ responses = Cardinality(answered) + extra
    BY DEF BroadcastInv, CountersOK
  <2>2. CASE p \in Stray
    BY <1>3, <1>4, <1>5, <2>1, <2>2
  <2>3. CASE p \notin Stray
    <3>1. p \notin answered
      BY <1>0 DEF BroadcastInv, AnswersOK, Before
    <3>2. Cardinality(answered') = Cardinality(answered) + 1
      BY <1>4, <1>5, <2>3, <3>1, FS_AddElement
    <3> QED
      BY <1>3, <1>4, <2>1, <2>3, <3>2
  <2> QED
    BY <2>2, <2>3
<1>7. CountersOK'
  BY <1>2, <1>5, <1>6 DEF Broadcast!counters, BroadcastInv, CountersOK
<1>8. AnswersOK' /\ StraysOK'
  BY <1>0, <1>5
  DEF Configured, BroadcastInv, AnswersOK, StraysOK, Before, Broadcast!Goto, PcOK,
      Broadcast!Process, Broadcast!counters
<1>9. CheckOK'
  BY <1>0 DEF CheckOK, Broadcast!Goto, PcOK, Broadcast!Reading
<1>10. CompletionsOK'
  BY <1>5, SameCompletions DEF Broadcast!counters
<1> QED
  BY <1>1, <1>7, <1>8, <1>9, <1>10 DEF BroadcastInv

(* What the two comparisons of checkCompleteness tell. *)
LEMMA AllServers ==
  ASSUME Configured, CountersOK, ~miscounted, expectedServers = actualServers
  PROVE  ServersAdded = Server
<1>1. Cardinality(ServersAdded) \in Nat
  BY ExpectedFinite, FS_CardinalityType
<1>2. Cardinality(ServersAdded) = Cardinality(Server)
  BY <1>1 DEF CountersOK
<1> QED
  BY <1>2, ExpectedFinite, FS_Subset DEF Configured

LEMMA AllClients ==
  ASSUME Configured, CountersOK, AnswersOK, ~miscounted, ServersAdded = Server,
         responses = expectedClients
  PROVE  Missing = extra
<1>1. ClientsAdded = Server
  BY DEF ServersAdded, ClientsAdded, BeforeServer
<1>2. Expected = Client
  BY <1>1 DEF Configured, Expected
<1>3. Cardinality(answered) + extra = Cardinality(Client) /\ extra \in Int
  BY <1>2 DEF CountersOK
<1>4. Cardinality(answered) \in Nat /\ Cardinality(Client) \in Nat
  BY FS_Subset, FS_CardinalityType DEF Configured, AnswersOK
<1>5. Missing = Cardinality(Client) - Cardinality(Client \cap answered)
  BY FS_Difference DEF Missing, Configured
<1>6. Client \cap answered = answered
  BY DEF AnswersOK
<1> QED
  BY <1>3, <1>4, <1>5, <1>6

LEMMA CheckInv ==
  ASSUME Configured, BroadcastInv, NEW p \in Broadcast!Process, Broadcast!Check(p)
  PROVE  BroadcastInv'
<1> USE DEF Broadcast!At
<1>1. PICK step : /\ Broadcast!Goto(p, step) /\ step \in {"servers", "clients", "clear",
                                                "complete", "expect", "done"}
                  /\ step = "expect" => p = Sender
                  /\ ~miscounted =>
                       /\ step \in {"clients", "clear", "complete"} =>
                            ServersAdded = Server
                       /\ step \in {"clear", "complete"} => Missing = extra
  <2>1. CASE Broadcast!CheckTimedOut(p)
    BY <2>1 DEF Broadcast!CheckTimedOut, Broadcast!Pass, Broadcast!CheckReturns
  <2>2. CASE Broadcast!CheckServers(p)
    BY <2>2, AllServers
    DEF Broadcast!CheckServers, Broadcast!Pass, Broadcast!CheckReturns, BroadcastInv
  <2>3. CASE Broadcast!CheckClients(p)
    BY <2>3, AllClients
    DEF Broadcast!CheckClients, Broadcast!Pass, Broadcast!CheckReturns, BroadcastInv,
        CheckOK
  <2>4. CASE Broadcast!ClearTimer(p) \/ Broadcast!Complete(p)
    BY <2>4
    DEF Broadcast!ClearTimer, Broadcast!Complete, Broadcast!CheckReturns,
        BroadcastInv, CheckOK
  <2> QED
    BY <2>1, <2>2, <2>3, <2>4 DEF Broadcast!Check
<1>2. pc[p] \in {"check", "servers", "clients", "clear", "complete"}
  BY DEF Broadcast!Check, Broadcast!CheckTimedOut, Broadcast!CheckServers,
      Broadcast!CheckClients, Broadcast!Pass, Broadcast!ClearTimer,
         Broadcast!Complete
<1>3. UNCHANGED <<Broadcast!counters, Broadcast!answers>>
  BY DEF Broadcast!Check, Broadcast!CheckTimedOut, Broadcast!CheckServers,
      Broadcast!CheckClients, Broadcast!Pass, Broadcast!ClearTimer,
         Broadcast!Complete
<1>4. PcOK'
  BY <1>1
  DEF Configured, BroadcastInv, PcOK, Broadcast!Goto, Broadcast!Process,
      Broadcast!Remote, Steps, Checking, Broadcast!Reading
<1>5. CountersOK' /\ AnswersOK' /\ StraysOK' /\ CheckOK'
  <2>1. SamePhase(p, step)
    BY <1>1, <1>2 DEF SamePhase, BeforeClients, BeforeServer
  <2>2. /\ UNCHANGED <<actualServers, expectedClients, miscounted, Broadcast!answers>>
        /\ expectedServers' \in {-1, Cardinality(Server)}
    BY <1>3 DEF Broadcast!counters, BroadcastInv, CountersOK
  <2>3. step \notin Before /\ step # "addServer"
    BY <1>1 DEF Before
  <2> QED
    BY <1>1, <1>4, <2>1, <2>2, <2>3, PlainMove
<1>6. CompletionsOK'
  <2>1. CASE Broadcast!Complete(p)
    <3>1. miscounted \/ Missing = extra
      BY <2>1 DEF BroadcastInv, CheckOK, Broadcast!Complete
    <3> QED
      BY <1>3, <2>1, <3>1, CallInv DEF Broadcast!Complete, Broadcast!counters
  <2>2. CASE ~Broadcast!Complete(p)
    <3>1. UNCHANGED completions
      BY <2>2
      DEF Broadcast!Check, Broadcast!CheckTimedOut, Broadcast!CheckServers,
          Broadcast!CheckClients, Broadcast!Pass, Broadcast!ClearTimer
    <3> QED
      BY <1>3, <3>1, SameCompletions DEF Broadcast!counters
  <2> QED
    BY <2>1, <2>2
<1> QED
  BY <1>4, <1>5, <1>6 DEF BroadcastInv

LEMMA BroadcastNextInv ==
  Configured /\ BroadcastInv /\ [Broadcast!Next]_(Broadcast!vars) => BroadcastInv'
<1> SUFFICES ASSUME Configured, BroadcastInv, [Broadcast!Next]_(Broadcast!vars)
             PROVE  BroadcastInv'
  OBVIOUS
<1>1. CASE UNCHANGED Broadcast!vars
  BY <1>1, NothingInv DEF Broadcast!vars
<1>2. ASSUME NEW p \in Broadcast!Process, Broadcast!Run(p) PROVE BroadcastInv'
  BY <1>2, AddClientsInv, AddServerInv, AppendInv, CheckInv DEF Broadcast!Run
<1>3. ASSUME NEW s \in Server, \/ Broadcast!RemoteBroadcast(s) \/ Broadcast!Recycle(s)
                               \/ Broadcast!CountArrives(s)
      PROVE  BroadcastInv'
  <2>1. Broadcast!CountArrives(s) => s \in Broadcast!Process
    BY DEF Broadcast!CountArrives, Broadcast!Process
  <2> QED
    BY <1>3, <2>1, NothingInv, ArrivalInv
    DEF Broadcast!RemoteBroadcast, Broadcast!Recycle
<1>4. ASSUME NEW c \in Client, Broadcast!Answer(c) \/ Broadcast!ResponseArrives(c)
      PROVE  BroadcastInv'
  BY <1>4, ArrivalInv DEF Broadcast!Process
<1>5. ASSUME NEW p \in Broadcast!Process, Broadcast!Divert(p) \/ Broadcast!StrayArrives(p)
      PROVE  BroadcastInv'
  BY <1>5, ArrivalInv
<1> QED
  BY <1>1, <1>2, <1>3, <1>4, <1>5, EmitStepInv, TimerInv DEF Broadcast!Next

(* A completion without an error lacks the answers of as many clients as     *)
(* there are responses that stand for nobody: answers with more than one     *)
(* argument, and answers to other broadcasts that came under its id.         *)
THEOREM CompleteIsComplete ==
  ASSUME Configured PROVE Broadcast!Spec => []CompleteMeansAll
<1>1. BroadcastInv /\ [Broadcast!Next]_(Broadcast!vars) => BroadcastInv'
  BY BroadcastNextInv
<1>2. BroadcastInv => CompleteMeansAll
  BY DEF BroadcastInv, CompletionsOK
<1> QED
  BY <1>1, <1>2, BroadcastInitInv, PTL DEF Broadcast!Spec

-----------------------------------------------------------------------------
(* The types, whatever the clients answer with. *)
LEMMA BroadcastTypeStep ==
  ASSUME Configured, Broadcast!TypeOK, Broadcast!Next
  PROVE  Broadcast!TypeOK'
<1> USE DEF Configured, Completion, Broadcast!Completion, Broadcast!TypeOK,
            Broadcast!counters, Broadcast!answers, Broadcast!network,
            Broadcast!alarm, Broadcast!Goto, Broadcast!Reading
<1>1. CASE \/ Broadcast!SetTimer \/ Broadcast!Publish
             \/ Broadcast!AllNotified \/ Broadcast!ExpectServers
  BY <1>1
  DEF Configured, Broadcast!SetTimer, Broadcast!Publish, Broadcast!AllNotified,
      Broadcast!ExpectServers
<1>2. ASSUME NEW c \in Client, Broadcast!Notify(c) PROVE Broadcast!TypeOK'
  BY <1>2 DEF Broadcast!Notify, Broadcast!ClientsOf
<1>3. CASE Broadcast!OnTimer
  <2>1. CASE Broadcast!FireTimer \/ Broadcast!SetTimedOut
    BY <2>1 DEF Broadcast!FireTimer, Broadcast!SetTimedOut
  <2>2. CASE Broadcast!CallTimedOut
    <3>1. [err |-> TRUE, of |-> answered, extra |-> extra] \in Completion
      OBVIOUS
    <3>2. completions' \in Seq(Completion)
      BY <2>2, <3>1 DEF Broadcast!CallTimedOut, Broadcast!Called
    <3> QED
      BY <2>2, <3>2 DEF Broadcast!CallTimedOut
  <2> QED
    BY <1>3, <2>1, <2>2 DEF Broadcast!OnTimer
<1>4. ASSUME NEW s \in Server, \/ Broadcast!RemoteBroadcast(s) \/ Broadcast!Recycle(s)
                               \/ Broadcast!CountArrives(s)
      PROVE  Broadcast!TypeOK'
  BY <1>4
  DEF Broadcast!RemoteBroadcast, Broadcast!Recycle, Broadcast!CountArrives,
      Broadcast!ClientsOf
<1>5. ASSUME NEW c \in Client, Broadcast!Answer(c) \/ Broadcast!ResponseArrives(c)
      PROVE  Broadcast!TypeOK'
  BY <1>5 DEF Broadcast!Answer, Broadcast!ResponseArrives
<1>10. ASSUME NEW p \in Broadcast!Process, Broadcast!Divert(p) \/ Broadcast!StrayArrives(p)
       PROVE  Broadcast!TypeOK'
  BY <1>10 DEF Broadcast!Divert, Broadcast!StrayArrives
<1>6. ASSUME NEW p \in Broadcast!Process, Broadcast!AddClients(p) PROVE Broadcast!TypeOK'
  <2>1. Broadcast!ClientsOf(Broadcast!Counting(p)) \subseteq Client
    BY DEF Broadcast!ClientsOf
  <2>2. Cardinality(Broadcast!ClientsOf(Broadcast!Counting(p))) \in Nat
    BY <2>1, FS_Subset, FS_CardinalityType DEF Configured
  <2> QED
    BY <1>6, <2>2, SameCardinality DEF Broadcast!AddClients
<1>7. ASSUME NEW p \in Broadcast!Process, Broadcast!AddServer(p) PROVE Broadcast!TypeOK'
  BY <1>7 DEF Broadcast!AddServer
<1>8. ASSUME NEW p \in Broadcast!Process, Broadcast!AppendResponse(p)
      PROVE  Broadcast!TypeOK'
  BY <1>8 DEF Broadcast!AppendResponse
<1>9. ASSUME NEW p \in Broadcast!Process, Broadcast!Check(p) PROVE Broadcast!TypeOK'
  <2>1. CASE \/ Broadcast!CheckTimedOut(p) \/ Broadcast!CheckServers(p)
             \/ Broadcast!CheckClients(p) \/ Broadcast!ClearTimer(p)
    BY <2>1
    DEF Broadcast!CheckTimedOut, Broadcast!CheckServers, Broadcast!CheckClients,
        Broadcast!ClearTimer, Broadcast!Pass, Broadcast!CheckReturns
  <2>2. CASE Broadcast!Complete(p)
    <3>1. [err |-> FALSE, of |-> answered, extra |-> extra] \in Completion
      OBVIOUS
    <3>2. completions' \in Seq(Completion)
      BY <2>2, <3>1 DEF Broadcast!Complete, Broadcast!Called
    <3> QED
      BY <2>2, <3>2 DEF Broadcast!Complete, Broadcast!CheckReturns
  <2> QED
    BY <1>9, <2>1, <2>2 DEF Broadcast!Check
<1> QED
  BY <1>1, <1>2, <1>3, <1>4, <1>5, <1>6, <1>7, <1>8, <1>9, <1>10
  DEF Broadcast!Next, Broadcast!Emit, Broadcast!Run

(* Every variable keeps its type: the counters of Emit only grow, and only what  *)
(* the clients answered is ever handed to the callback.                          *)
THEOREM BroadcastTypeCorrect ==
  ASSUME Configured PROVE Broadcast!Spec => []Broadcast!TypeOK
<1>1. Broadcast!Init => Broadcast!TypeOK
  <2> SUFFICES ASSUME Broadcast!Init PROVE Broadcast!TypeOK
    OBVIOUS
  <2>1. <<>> \in Seq(Completion)
    OBVIOUS
  <2>2. completions \in Seq(Broadcast!Completion)
    BY DEF Broadcast!Init
  <2>3. pc \in [Broadcast!Process -> {"start", "waiting"}]
    BY DEF Broadcast!Init
  <2>4. /\ expectedServers = -1 /\ actualServers \in Nat /\ expectedClients \in Nat
        /\ responses \in Nat /\ extra \in Int
    BY DEF Broadcast!Init
  <2> QED
    BY <2>2, <2>3, <2>4 DEF Broadcast!Init, Broadcast!TypeOK
<1>2. Broadcast!TypeOK /\ [Broadcast!Next]_(Broadcast!vars) => Broadcast!TypeOK'
  <2>1. Broadcast!TypeOK /\ UNCHANGED Broadcast!vars => Broadcast!TypeOK'
    BY DEF Broadcast!TypeOK, Broadcast!vars, Broadcast!counters, Broadcast!answers,
           Broadcast!network, Broadcast!alarm
  <2> QED
    BY <2>1, BroadcastTypeStep
<1> QED
  BY <1>1, <1>2, PTL DEF Broadcast!Spec
=============================================================================
