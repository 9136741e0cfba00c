---------------------------- MODULE BroadcastAck ----------------------------
(***************************************************************************)
(* One acknowledged broadcast: BroadcastOperator.Emit                      *)
(* (socket/broadcast-operator.go) over the in-memory adapter and, when     *)
(* there are other servers, the Redis adapter.                             *)
(*                                                                         *)
(* The processes are the goroutine of Emit, the timer, a goroutine for the *)
(* answer of each local client, and the subscriber goroutine, which serves *)
(* the responses of the other servers one after the other.  They share the *)
(* counters of Emit; responsesMu is held by a reader from the beginning of *)
(* checkCompleteness to its end, the call of the user's callback included. *)
(*                                                                         *)
(* Ids are not exclusive: BroadcastWithAck puts the id back when the local *)
(* broadcast is over, and the ack closure of another server reads it from  *)
(* a pooled request that was recycled.  So responses of this broadcast may *)
(* go to another one (Divert, Answer), and those of others to this one     *)
(* (StrayArrives).                                                         *)
(***************************************************************************)
EXTENDS Sequences, Completions

CONSTANTS
  Server,       \* servers of the cluster
  Here,         \* the one that broadcasts
  ServerOf,     \* the server of each client
  Args,         \* how many arguments clients may answer with
  Stray,        \* responses to other broadcasts that may come under this id
  Counts,       \* the numbers of clients that a stray count may report
  Emitter,      \* the goroutine of Emit
  LocalOnly     \* TRUE: the Local flag is set

ASSUME ClusterAssumption ==
  /\ Here \in Server /\ ServerOf \in [Client -> Server]
  /\ Args \subseteq Nat /\ Counts \subseteq Nat
  /\ Emitter \notin Client \cup Server \cup Stray
  /\ Client \cap Server = {} /\ Stray \cap (Client \cup Server) = {}
ASSUME FlagAssumption == LocalOnly \in BOOLEAN
ASSUME FiniteAssumption == IsFiniteSet(Server) /\ IsFiniteSet(Client)

VARIABLES
  pc,         \* where each process is
  notified,   \* clients whose ack is stored and whose packet is written
  published,  \* the request for the other servers is on its way
  recycled,   \* servers whose handler of the request has returned
  timer,      \* the timer and its goroutine
  timedOut,
  expectedServers, actualServers, expectedClients,
  responses,  \* len(responses)
  answered,   \* the clients whose answers are in responses
  extra       \* history: what responses has beyond one for each of them

network == <<notified, published, recycled>>
alarm == <<timer, timedOut>>
counters == <<expectedServers, actualServers, expectedClients, miscounted>>
answers == <<responses, answered, extra>>
vars == <<pc, network, alarm, counters, answers, completions>>

Remote == Server \ {Here}
ClientsOf(s) == {c \in Client : ServerOf[c] = s}
Process == {Emitter} \cup Client \cup Remote \cup Stray

Init ==
  /\ pc = [p \in Process |-> IF p = Emitter THEN "start" ELSE "waiting"]
  /\ notified = {} /\ published = FALSE /\ recycled = {}
  /\ timer = "none" /\ timedOut = FALSE
  /\ expectedServers = -1 /\ actualServers = 0 /\ expectedClients = 0
  /\ responses = 0 /\ answered = {} /\ completions = <<>>
  /\ extra = 0 /\ miscounted = FALSE

-----------------------------------------------------------------------------
At(p, step) == pc[p] = step
Goto(p, step) == pc' = [pc EXCEPT ![p] = step]

(* checkCompleteness, between RLock and RUnlock *)
Reading == {"servers", "clients", "clear", "complete"}
Unlocked == timer # "call" /\ \A p \in Process : pc[p] \notin Reading

(* The subscriber goroutine is busy with a response of another server. *)
Responses == Remote \cup Stray \cup {c \in Client : ServerOf[c] # Here}
SubscriberFree ==
  \A p \in Responses : pc[p] \in {"waiting", "responding", "lost", "done"}

-----------------------------------------------------------------------------
(* Emit: the timer is set first. *)
SetTimer ==
  /\ At(Emitter, "start") /\ Goto(Emitter, "publish") /\ timer' = "armed"
  /\ UNCHANGED <<network, timedOut, counters, answers, completions>>

(* The Redis adapter publishes the request before it broadcasts locally, *)
Publish ==
  /\ At(Emitter, "publish") /\ Goto(Emitter, "apply")
  /\ published' = ~LocalOnly
  /\ UNCHANGED <<notified, recycled, alarm, counters, answers, completions>>

(* for each socket the ack is stored and the packet written, *)
Notify(c) ==
  /\ At(Emitter, "apply") /\ c \in ClientsOf(Here) \ notified
  /\ notified' = notified \cup {c}
  /\ UNCHANGED <<pc, published, recycled, alarm, counters, answers, completions>>

(* and the callback for the count of clients begins. *)
AllNotified ==
  /\ At(Emitter, "apply") /\ ClientsOf(Here) \subseteq notified
  /\ Goto(Emitter, "addClients")
  /\ UNCHANGED <<network, alarm, counters, answers, completions>>

(* A bug: completeness is not checked again. *)
ExpectServers_Unchecked ==
  /\ At(Emitter, "expect") /\ Goto(Emitter, "done")
  /\ expectedServers' = Cardinality(Server)
  /\ UNCHANGED <<network, alarm, actualServers, expectedClients, miscounted,
                 answers, completions>>

(* b.adapter.ServerCount(), after the broadcast *)
ExpectServers ==
  /\ At(Emitter, "expect") /\ Goto(Emitter, "check")
  /\ expectedServers' = Cardinality(Server)
  /\ UNCHANGED <<network, alarm, actualServers, expectedClients, miscounted,
                 answers, completions>>

(* Another server serves the request and broadcasts to its clients. *)
RemoteBroadcast(s) ==
  /\ published /\ s \in Remote /\ ~(ClientsOf(s) \subseteq notified)
  /\ notified' = notified \cup ClientsOf(s)
  /\ UNCHANGED <<pc, published, recycled, alarm, counters, answers, completions>>

(* The handler returns, and the request is recycled. *)
Recycle(s) ==
  /\ published /\ s \in Remote \ recycled /\ ClientsOf(s) \subseteq notified
  /\ recycled' = recycled \cup {s}
  /\ UNCHANGED <<pc, notified, published, alarm, counters, answers, completions>>

(* Its count arrives in a BROADCAST_CLIENT_COUNT response. *)
CountArrives(s) ==
  /\ s \in Remote /\ At(s, "waiting") /\ published
  /\ ClientsOf(s) \subseteq notified /\ SubscriberFree
  /\ Goto(s, "addClients")
  /\ UNCHANGED <<network, alarm, counters, answers, completions>>

-----------------------------------------------------------------------------
Counting(p) == IF p = Emitter THEN Here ELSE p

(* clientCountCallback: the clients are added, then the server. *)
AddClients(p) ==
  /\ At(p, "addClients") /\ Goto(p, "addServer")
  /\ \E n \in IF p \in Stray THEN Counts
               ELSE {Cardinality(ClientsOf(Counting(p)))} :
       expectedClients' = expectedClients + n
  /\ miscounted' = (miscounted \/ p \in Stray)
  /\ UNCHANGED <<network, alarm, expectedServers, actualServers, answers,
                 completions>>

AddServer(p) ==
  /\ At(p, "addServer") /\ Goto(p, "check")
  /\ actualServers' = actualServers + 1
  /\ UNCHANGED <<network, alarm, expectedServers, expectedClients, miscounted,
                 answers, completions>>

(* The answer of a client arrives at its server.  Another server sends it on  *)
(* with the request id it reads from the request, which goes back to its     *)
(* pool when the handler returns: by then the id may be gone, or that of     *)
(* another broadcast, which takes the answer for one of its own.             *)
Answer(c) ==
  /\ c \in notified /\ At(c, "waiting")
  /\ \/ ServerOf[c] = Here /\ Goto(c, "append")
     \/ ServerOf[c] # Here /\ Goto(c, "responding")
     \/ ServerOf[c] \in recycled /\ Goto(c, "lost")
  /\ UNCHANGED <<network, alarm, counters, answers, completions>>

(* Its BROADCAST_ACK response arrives. *)
ResponseArrives(c) ==
  /\ At(c, "responding") /\ SubscriberFree /\ Goto(c, "append")
  /\ UNCHANGED <<network, alarm, counters, answers, completions>>

(* BroadcastWithAck has returned, the id is in RequestIdPool, and the next   *)
(* broadcast that takes it gets the counts and answers still under way.      *)
Divert(p) ==
  /\ At(Emitter, "expect") \/ expectedServers # -1
  /\ \/ p \in Remote /\ At(p, "waiting") /\ published
     \/ At(p, "responding")
  /\ Goto(p, "lost")
  /\ UNCHANGED <<network, alarm, counters, answers, completions>>

(* A count or an answer for another broadcast arrives under this one's id. *)
StrayArrives(x) ==
  /\ x \in Stray /\ At(x, "waiting") /\ published /\ SubscriberFree
  /\ Goto(x, "addClients") \/ Goto(x, "append")
  /\ UNCHANGED <<network, alarm, counters, answers, completions>>

(* responses = append(responses, clientResponse...): all the arguments of a  *)
(* local client, one packet for a response of another server                 *)
AppendResponse(p) ==
  /\ p \in Client \cup Stray /\ At(p, "append") /\ Unlocked /\ Goto(p, "check")
  /\ \E n \in IF p \in ClientsOf(Here) THEN Args ELSE {1} :
       /\ responses' = responses + n
       /\ extra' = extra + IF p \in Stray THEN n ELSE n - 1
  /\ answered' = IF p \in Stray THEN answered ELSE answered \cup {p}
  /\ UNCHANGED <<network, alarm, counters, completions>>

-----------------------------------------------------------------------------
(* The end of checkCompleteness: Emit checks twice. *)
CheckReturns(p) ==
  Goto(p, IF p = Emitter /\ expectedServers = -1 THEN "expect" ELSE "done")

Pass(p, here, condition, there) ==
  /\ At(p, here)
  /\ IF condition THEN Goto(p, there) ELSE CheckReturns(p)
  /\ UNCHANGED <<network, alarm, counters, answers, completions>>

(* A bug: the servers are not waited for. *)
CheckServers_Not(p) == Pass(p, "servers", TRUE, "clients")

(* checkCompleteness takes the read lock and makes its tests in this order. *)
CheckTimedOut(p) == Pass(p, "check", ~timedOut, "servers")
CheckServers(p) == Pass(p, "servers", expectedServers = actualServers, "clients")
CheckClients(p) == Pass(p, "clients", responses = expectedClients, "clear")

(* A bug: the callback is left to the timer that was just stopped. *)
ClearTimer_Only(p) ==
  /\ At(p, "clear") /\ CheckReturns(p)
  /\ timer' = IF timer = "armed" THEN "stopped" ELSE timer
  /\ UNCHANGED <<network, timedOut, counters, answers, completions>>

(* utils.ClearTimeout, which a timer that went off does not notice *)
ClearTimer(p) ==
  /\ At(p, "clear") /\ Goto(p, "complete")
  /\ timer' = IF timer = "armed" THEN "stopped" ELSE timer
  /\ UNCHANGED <<network, timedOut, counters, answers, completions>>

Called(err) ==
  completions' =
    Append(completions, [err |-> err, of |-> answered, extra |-> extra])

(* ack(responses, nil) *)
Complete(p) ==
  /\ At(p, "complete") /\ CheckReturns(p) /\ Called(FALSE)
  /\ UNCHANGED <<network, alarm, counters, answers>>

Check(p) == CheckTimedOut(p) \/ CheckServers(p) \/ CheckClients(p)
            \/ ClearTimer(p) \/ Complete(p)

(* The timer: timedOut is set, then the callback is called under RLock. *)
FireTimer ==
  /\ timer = "armed" /\ timer' = "fired"
  /\ UNCHANGED <<pc, network, timedOut, counters, answers, completions>>

SetTimedOut ==
  /\ timer = "fired" /\ timer' = "call" /\ timedOut' = TRUE
  /\ UNCHANGED <<pc, network, counters, answers, completions>>

CallTimedOut ==
  /\ timer = "call" /\ timer' = "done" /\ Called(TRUE)
  /\ UNCHANGED <<pc, network, timedOut, counters, answers>>

OnTimer == FireTimer \/ SetTimedOut \/ CallTimedOut

Emit == SetTimer \/ Publish \/ (\E c \in Client : Notify(c)) \/ AllNotified
        \/ ExpectServers
Run(p) == AddClients(p) \/ AddServer(p) \/ AppendResponse(p) \/ Check(p)

Next ==
  \/ Emit \/ OnTimer
  \/ \E s \in Server : RemoteBroadcast(s) \/ Recycle(s) \/ CountArrives(s)
  \/ \E c \in Client : Answer(c) \/ ResponseArrives(c)
  \/ \E p \in Process : Divert(p) \/ StrayArrives(p) \/ Run(p)

Spec == Init /\ [][Next]_vars

(* Goroutines go on, and a writer gets responsesMu when the readers are gone. *)
(* Nothing makes clients answer, servers respond, or the timer go off: the    *)
(* timeout may be longer than anything else.                                 *)
FairSpec == Spec /\ WF_vars(Emit) /\ WF_vars(SetTimedOut \/ CallTimedOut)
                 /\ \A p \in Process : WF_vars(Run(p))

-----------------------------------------------------------------------------
(* The types of Emit's counters and of the processes. *)
TypeOK ==
  /\ pc \in [Process -> {"start", "publish", "apply", "addClients", "addServer",
                         "expect", "waiting", "responding", "lost", "append",
                         "check", "done"}
                        \cup Reading]
  /\ recycled \subseteq Remote
  /\ notified \subseteq Client /\ answered \subseteq Client
  /\ published \in BOOLEAN /\ timedOut \in BOOLEAN /\ miscounted \in BOOLEAN
  /\ timer \in {"none", "armed", "stopped", "fired", "call", "done"}
  /\ expectedServers \in {-1, Cardinality(Server)}
  /\ actualServers \in Nat /\ expectedClients \in Nat /\ responses \in Nat
  /\ extra \in Int /\ completions \in Seq(Completion)

(* When the timer is stopped or goes off, the callback is called.            *)
AlwaysCalled == timer \in {"stopped", "fired"} ~> completions # <<>>

(* Everybody who was notified answers and no answer is lost, every server    *)
(* that got the request reports its count, nothing that was sent waits for   *)
(* ever, and nothing else is counted.                                        *)
EverybodyAnswers ==
  /\ <>[](\A c \in notified : pc[c] \notin {"waiting", "responding", "lost"})
  /\ published ~> \A s \in Remote : pc[s] \notin {"waiting", "lost"}
  /\ [](extra = 0 /\ ~miscounted)

(* Then the callback is called, by whoever comes last: the timer need not go *)
(* off.                                                                      *)
AnsweredCompletes == EverybodyAnswers => <>(completions # <<>>)
=============================================================================
