----------------------------- MODULE EventDispatch -----------------------------
(***************************************************************************)
(* The events of one socket (socket.go).  Each event packet of the client  *)
(* is handled in a goroutine of its own: it goes to the any-listeners,     *)
(* through the middlewares (Use), each of which decides by calling next,   *)
(* and then to the handlers of the event, who may call the acknowledgement *)
(* they are given.  Events that the server emits go to the outgoing        *)
(* any-listeners, in the goroutine of the emission.  Listeners and         *)
(* middlewares come and go meanwhile, and the socket is connected and      *)
(* closed.                                                                 *)
(***************************************************************************)
EXTENDS Naturals, Sequences, FiniteSets, SequencesExt

CONSTANTS
  In,        \* the events of the client
  Out,       \* the events emitted to it
  Listener,  \* any-listeners
  Fn,        \* middlewares
  MaxNexts,  \* bound on the calls of next for one event
  MaxChanges \* bound on the changes of the lists

Event == In \cup Out
Count == 0 .. MaxNexts

ASSUME EventAssumption ==
  /\ In \cap Out = {} /\ {MaxNexts, MaxChanges} \subseteq Nat
  /\ IsFiniteSet(Listener) /\ IsFiniteSet(Fn)

VARIABLES
  connected, \* s.connected
  routed,    \* client.nsps has the socket
  life,      \* where the goroutine that connects the socket, or closes it, is
  listeners, \* _anyListeners and _anyOutgoingListeners
  fns,       \* the middlewares
  pc,        \* event -> where its goroutine is
  left,      \* event -> the any-listeners that its goroutine has still to call
  fnsOf,     \* event -> the middlewares it goes through
  reached,   \* event -> those that were called, as positions of fnsOf
  nexts,     \* event -> how often they called next
  ready,     \* event -> goroutines that will run the callback of run without error
  emitting,  \* event -> those that found the socket connected
  handled,   \* event -> how often its handlers were called
  sent,      \* event -> the flag of its acknowledgement
  acks,      \* event -> how many ACK packets were sent for it
  changes,   \* history: how often the lists were changed
  heard,     \* history: event -> the any-listeners called for it
  times,     \* history: event -> listener -> how often it was registered, at the
             \* moments since the event began
  due,       \* history: event -> the middlewares there were when it arrived
  passed,    \* history: event -> those that let it pass
  rejected   \* history: the events that a middleware answered with an error

socket == <<connected, routed, life>>
lists == <<listeners, fns, changes, times>>
calling == <<left, heard>>
running == <<fnsOf, reached, nexts, passed, rejected>>
handling == <<ready, emitting, handled>>
acking == <<sent, acks>>
vars == <<socket, lists, pc, calling, running, due, handling, acking>>

ListOf(e) == IF e \in In THEN "in" ELSE "out"

TypeOK ==
  /\ connected \in BOOLEAN /\ routed \in BOOLEAN
  /\ life \in {"connect", "route", "open", "closing", "closed"}
  /\ listeners \in [{"in", "out"} -> Seq(Listener)] /\ fns \in Seq(Fn)
  /\ pc \in [Event -> {"new", "refused", "start", "call", "run", "wait", "done"}]
  /\ left \in [Event -> Seq(Listener)] /\ heard \in [Event -> Seq(Listener)]
  /\ fnsOf \in [In -> Seq(Fn)]
  /\ reached \in [In -> SUBSET Nat] /\ \A e \in In : reached[e] \subseteq DOMAIN fnsOf[e]
  /\ nexts \in [In -> Count] /\ ready \in [In -> Nat]
  /\ emitting \in [In -> Nat] /\ handled \in [In -> Nat]
  /\ sent \in [In -> BOOLEAN] /\ acks \in [In -> Nat]
  /\ changes \in 0 .. MaxChanges /\ times \in [Event -> [Listener -> SUBSET Nat]]
  /\ due \in [In -> SUBSET Fn] /\ passed \in [In -> SUBSET Fn] /\ rejected \subseteq In

NoTimes == [l \in Listener |-> {}]

\* Listeners and middlewares may have been registered before.
Init ==
  /\ connected = FALSE /\ routed = FALSE /\ life = "connect"
  /\ listeners = [d \in {"in", "out"} |-> SetToSeq(Listener)]
  /\ \E n \in 0 .. Cardinality(Fn) : fns = SubSeq(SetToSeq(Fn), 1, n)
  /\ pc = [e \in Event |-> "new"]
  /\ left = [e \in Event |-> <<>>] /\ heard = [e \in Event |-> <<>>]
  /\ fnsOf = [e \in In |-> <<>>] /\ reached = [e \in In |-> {}]
  /\ nexts = [e \in In |-> 0] /\ ready = [e \in In |-> 0]
  /\ emitting = [e \in In |-> 0] /\ handled = [e \in In |-> 0]
  /\ sent = [e \in In |-> FALSE] /\ acks = [e \in In |-> 0]
  /\ changes = 0 /\ times = [e \in Event |-> NoTimes] /\ due = [e \in In |-> {}]
  /\ passed = [e \in In |-> {}] /\ rejected = {}

Goto(e, label) == pc' = [pc EXCEPT ![e] = label]

(***************************************************************************)
(* The life of the socket                                                  *)
(***************************************************************************)
\* A bug: packets are routed to the socket, but nobody marks it connected.
OnConnect_Late ==
  /\ life = "connect" /\ life' = "route"
  /\ routed' = TRUE
  /\ UNCHANGED <<connected, lists, pc, calling, running, due, handling, acking>>

\* _onconnect, which also sends the CONNECT packet.
OnConnect ==
  /\ life = "connect" /\ life' = "route"
  /\ connected' = TRUE
  /\ UNCHANGED <<routed, lists, pc, calling, running, due, handling, acking>>

\* doConnect stores the socket in client.nsps.
StoreNsp ==
  /\ life = "route" /\ life' = "open"
  /\ routed' = TRUE
  /\ UNCHANGED <<connected, lists, pc, calling, running, due, handling, acking>>

\* _onclose: client.remove, and then connected is cleared.
ClientRemove ==
  /\ life = "open" /\ life' = "closing"
  /\ routed' = FALSE
  /\ UNCHANGED <<connected, lists, pc, calling, running, due, handling, acking>>

Disconnect ==
  /\ life = "closing" /\ life' = "closed"
  /\ connected' = FALSE
  /\ UNCHANGED <<routed, lists, pc, calling, running, due, handling, acking>>

(***************************************************************************)
(* The lists, which have a lock each                                       *)
(***************************************************************************)
Change == changes < MaxChanges /\ changes' = changes + 1

Times(ls, l) == Cardinality({i \in DOMAIN ls : ls[i] = l})

SetList(d, ls) ==
  /\ Change
  /\ listeners' = [listeners EXCEPT ![d] = ls]
  /\ times' = [e \in Event |-> [l \in Listener |->
       IF ListOf(e) = d /\ pc[e] = "call" THEN times[e][l] \cup {Times(ls, l)} ELSE times[e][l]]]
  /\ UNCHANGED <<socket, fns, pc, calling, running, due, handling, acking>>

OnAny(d, l) == SetList(d, Append(listeners[d], l))

PrependAny(d, l) == SetList(d, <<l>> \o listeners[d])

OffAny(d, l) ==
  \E i \in DOMAIN listeners[d] :
    /\ listeners[d][i] = l /\ \A j \in 1 .. i - 1 : listeners[d][j] # l
    /\ SetList(d, RemoveAt(listeners[d], i))

OffAll(d) == listeners[d] # <<>> /\ SetList(d, <<>>)

Use(fn) ==
  /\ Change
  /\ fns' = Append(fns, fn)
  /\ UNCHANGED <<socket, listeners, times, pc, calling, running, due, handling, acking>>

(***************************************************************************)
(* An event                                                                *)
(***************************************************************************)
\* The client knows that it is connected and sends an event.  ondecoded starts a
\* goroutine for it, if it finds the socket.
Arrive(e) ==
  /\ pc[e] = "new" /\ e \in In /\ life # "connect"
  /\ Goto(e, IF routed THEN "start" ELSE "refused")
  /\ due' = [due EXCEPT ![e] = ToSet(fns)]
  /\ UNCHANGED <<socket, lists, calling, running, handling, acking>>

\* The server emits an event.
Emit(e) ==
  /\ pc[e] = "new" /\ e \in Out /\ Goto(e, "start")
  /\ UNCHANGED <<socket, lists, calling, running, due, handling, acking>>

\* onevent, and notifyOutgoingListeners, copy the list under its lock.
CopyListeners(e) ==
  /\ pc[e] = "start" /\ Goto(e, "call")
  /\ left' = [left EXCEPT ![e] = listeners[ListOf(e)]]
  /\ times' = [times EXCEPT ![e] = [l \in Listener |-> {Times(listeners[ListOf(e)], l)}]]
  /\ UNCHANGED <<socket, listeners, fns, changes, heard, running, due, handling, acking>>

\* All listeners were called; what they heard is forgotten.
Announced(e) ==
  /\ Goto(e, IF e \in In THEN "run" ELSE "done")
  /\ heard' = [heard EXCEPT ![e] = <<>>] /\ times' = [times EXCEPT ![e] = NoTimes]

\* A bug: the goroutine goes through the list itself, which changes under it.
CallListener_Live(e) ==
  LET list == listeners[ListOf(e)]  i == Len(heard[e]) + 1 IN
  /\ pc[e] = "call"
  /\ IF i \in DOMAIN list
       THEN /\ heard' = [heard EXCEPT ![e] = Append(@, list[i])]
            /\ UNCHANGED <<pc, times>>
       ELSE Announced(e)
  /\ UNCHANGED <<socket, listeners, fns, changes, left, running, due, handling, acking>>

CallListener(e) ==
  /\ pc[e] = "call"
  /\ IF left[e] # <<>>
       THEN /\ heard' = [heard EXCEPT ![e] = Append(@, Head(left[e]))]
            /\ left' = [left EXCEPT ![e] = Tail(@)]
            /\ UNCHANGED <<pc, times>>
       ELSE Announced(e) /\ UNCHANGED left
  /\ UNCHANGED <<socket, listeners, fns, changes, running, due, handling, acking>>

\* dispatch copies the middlewares and calls the first; without any, a goroutine
\* runs the callback at once.
Run(e) ==
  /\ pc[e] = "run" /\ Goto(e, "wait")
  /\ fnsOf' = [fnsOf EXCEPT ![e] = fns]
  /\ IF fns = <<>>
       THEN /\ ready' = [ready EXCEPT ![e] = 1] /\ UNCHANGED reached
       ELSE /\ reached' = [reached EXCEPT ![e] = {1}] /\ UNCHANGED ready
  /\ UNCHANGED <<socket, lists, calling, nexts, passed, rejected, due, emitting, handled,
                 acking>>

\* A bug: the last middleware is not asked.
Next_OneLess(e, i) ==
  /\ i \in reached[e] /\ nexts[e] < MaxNexts
  /\ nexts' = [nexts EXCEPT ![e] = @ + 1]
  /\ passed' = [passed EXCEPT ![e] = @ \cup {fnsOf[e][i]}]
  /\ IF i >= Len(fnsOf[e]) - 1
       THEN ready' = [ready EXCEPT ![e] = @ + 1] /\ UNCHANGED reached
       ELSE reached' = [reached EXCEPT ![e] = @ \cup {i + 1}] /\ UNCHANGED ready
  /\ UNCHANGED <<socket, lists, pc, calling, fnsOf, rejected, due, emitting, handled, acking>>

\* A middleware calls next: the next one is called, and after the last one a
\* goroutine runs the callback.  It may call next again, at any later moment.
NextFn(e, i) ==
  /\ i \in reached[e] /\ nexts[e] < MaxNexts
  /\ nexts' = [nexts EXCEPT ![e] = @ + 1]
  /\ passed' = [passed EXCEPT ![e] = @ \cup {fnsOf[e][i]}]
  /\ IF i = Len(fnsOf[e])
       THEN ready' = [ready EXCEPT ![e] = @ + 1] /\ UNCHANGED reached
       ELSE reached' = [reached EXCEPT ![e] = @ \cup {i + 1}] /\ UNCHANGED ready
  /\ UNCHANGED <<socket, lists, pc, calling, fnsOf, rejected, due, emitting, handled, acking>>

\* It calls next with an error, which goes to the "error" handlers.
NextError(e, i) ==
  /\ i \in reached[e] /\ nexts[e] < MaxNexts
  /\ nexts' = [nexts EXCEPT ![e] = @ + 1]
  /\ rejected' = rejected \cup {e}
  /\ UNCHANGED <<socket, lists, pc, calling, fnsOf, reached, passed, due, handling, acking>>

\* The callback tests Connected ...
TestConnected(e) ==
  /\ ready[e] > 0
  /\ ready' = [ready EXCEPT ![e] = @ - 1]
  /\ emitting' = [emitting EXCEPT ![e] = IF connected THEN @ + 1 ELSE @]
  /\ UNCHANGED <<socket, lists, pc, calling, running, due, handled, acking>>

\* ... and emits the event to its handlers.
EmitUntyped(e) ==
  /\ emitting[e] > 0
  /\ emitting' = [emitting EXCEPT ![e] = @ - 1]
  /\ handled' = [handled EXCEPT ![e] = @ + 1]
  /\ UNCHANGED <<socket, lists, pc, calling, running, due, ready, acking>>

\* A handler calls the acknowledgement: the first to set the flag sends it.
Ack(e) ==
  /\ handled[e] > 0 /\ ~sent[e]
  /\ sent' = [sent EXCEPT ![e] = TRUE]
  /\ acks' = [acks EXCEPT ![e] = @ + 1]
  /\ UNCHANGED <<socket, lists, pc, calling, running, due, handling>>

Goroutine(e) ==
  \/ CopyListeners(e) \/ CallListener(e) \/ (e \in In /\ Run(e))

Callback(e) == TestConnected(e) \/ EmitUntyped(e)

Middleware(e) == \E i \in reached[e] : NextFn(e, i) \/ NextError(e, i)

Next ==
  \/ OnConnect \/ StoreNsp \/ ClientRemove \/ Disconnect
  \/ \E d \in {"in", "out"} :
       OffAll(d) \/ \E l \in Listener : OnAny(d, l) \/ PrependAny(d, l) \/ OffAny(d, l)
  \/ \E fn \in Fn : Use(fn)
  \/ \E e \in Event : Arrive(e) \/ Emit(e) \/ Goroutine(e)
  \/ \E e \in In : Callback(e) \/ Middleware(e) \/ Ack(e)

Fairness ==
  /\ \A e \in Event : WF_vars(Goroutine(e))
  /\ \A e \in In : WF_vars(Callback(e)) /\ WF_vars(Middleware(e))

Spec == Init /\ [][Next]_vars /\ Fairness

(***************************************************************************)
(* Properties                                                              *)
(***************************************************************************)
\* An any-listener hears an event as often as it was registered at some moment of
\* the announcement: one that stays is neither skipped nor called twice because
\* others come and go, although OffAny moves what follows down.
SteadyListenersHear ==
  [][\A e \in Event : pc[e] = "call" /\ pc'[e] # "call" =>
       \A l \in Listener : Times(heard[e], l) \in times[e][l]]_vars

\* The handlers of an event are not called before all the middlewares that were
\* registered when it arrived have let it pass, also while others are added and if
\* some call next more than once.
HandledIfPassed == \A e \in In : handled[e] > 0 => due[e] \subseteq passed[e]

\* An event is acknowledged once at most, even if its handlers are called twice,
\* since a middleware called next twice.
AckedOnce == \A e \in In : acks[e] <= 1

\* An event of the client that finds the socket comes to its handlers, unless a
\* middleware rejects it or the socket is closed meanwhile: packets are not routed
\* to a socket that is not connected yet.  (Middlewares are taken to call next in
\* the end, MaxNexts times at most.)
AcceptedIsHandled ==
  \A e \in In : (pc[e] = "start") ~>
    (handled[e] > 0 \/ e \in rejected \/ life \in {"closing", "closed"} \/ nexts[e] = MaxNexts)
================================================================================
