------------------------------ MODULE SocketAck ------------------------------
(***************************************************************************)
(* Acknowledged emissions of one socket (socket/socket.go): Timeout, Emit  *)
(* with registerAckCallback, the timer it arms, and onack, which serves    *)
(* the client's ACK packet in a goroutine of its own (client.go, ondecoded).*)
(*                                                                         *)
(* A callback is user code; what the model records is with what it was     *)
(* called.  The client answers an event at most once; a lost event or      *)
(* answer is one that never comes.  An Emit of a reserved event returns    *)
(* before it takes an id or the flags (socket.go:251): it changes nothing, *)
(* and a timeout asked for it stays for whatever is emitted next.          *)
(***************************************************************************)
CONSTANTS
  Emitter,    \* goroutines that emit on the socket
  Ack,        \* ack ids, each handed out once by the namespace's counter
  None        \* no id

ASSUME AckAssumption == None \notin Ack

VARIABLES
  flag,     \* s.flags.Timeout # nil
  emit,     \* local variables of each emitter
  used,     \* ids handed out
  acks,     \* s.acks: no entry, the plain callback, the one that stops a timer
  timer,    \* the timer of an id and the goroutine it starts
  handler,  \* the packet of an id, and the goroutine that serves its answer
  calls,    \* with what an id's callback was called
  early     \* history: ids whose timer went off before their Emit was over

vars == <<flag, emit, used, acks, timer, handler, calls, early>>

Local(pc, id, timed) == [pc |-> pc, id |-> id, timed |-> timed]
Idle == Local("idle", None, FALSE)

Init ==
  /\ flag = FALSE /\ emit = [e \in Emitter |-> Idle]
  /\ used = {}
  /\ acks = [a \in Ack |-> "none"] /\ timer = [a \in Ack |-> "none"]
  /\ handler = [a \in Ack |-> "none"] /\ calls = [a \in Ack |-> {}]
  /\ early = {}

-----------------------------------------------------------------------------
(* Emitter e moves from step here to step there of an emission. *)
EmitStep(e, here, there) ==
  /\ emit[e].pc = here
  /\ emit' = [emit EXCEPT ![e] =
                Local(there, emit[e].id, emit[e].timed)]

(* socket.Timeout(d): the flag is the socket's, whoever emits next. *)
Timeout(e) ==
  /\ emit[e].pc = "idle"
  /\ flag' = TRUE
  /\ UNCHANGED <<emit, used, acks, timer, handler, calls, early>>

(* Emit without a callback only takes the flags. *)
EmitPlain(e) ==
  /\ EmitStep(e, "idle", "reset")
  /\ UNCHANGED <<flag, used, acks, timer, handler, calls, early>>

(* Emit with a callback takes an id first. *)
EmitWithAck(e) ==
  /\ emit[e].pc = "idle"
  /\ \E a \in Ack \ used :
       /\ used' = used \cup {a}
       /\ emit' = [emit EXCEPT ![e] = Local("flags", a, FALSE)]
  /\ UNCHANGED <<flag, acks, timer, handler, calls, early>>

(* registerAckCallback: the timeout is read under the lock, *)
ReadTimeout(e) ==
  /\ emit[e].pc = "flags"
  /\ emit' = [emit EXCEPT ![e] = Local(IF flag THEN "arm" ELSE "store",
                                       emit[e].id, flag)]
  /\ UNCHANGED <<flag, used, acks, timer, handler, calls, early>>

(* the timer armed, *)
ArmTimer(e) ==
  /\ EmitStep(e, "arm", "store")
  /\ timer' = [timer EXCEPT ![emit[e].id] = "armed"]
  /\ UNCHANGED <<flag, used, acks, handler, calls, early>>

(* and only then the callback stored. *)
StoreAck(e) ==
  /\ EmitStep(e, "store", "reset")
  /\ acks' = [acks EXCEPT ![emit[e].id] =
                IF emit[e].timed THEN "timed" ELSE "plain"]
  /\ UNCHANGED <<flag, used, timer, handler, calls, early>>

(* The flags are replaced by empty ones, *)
ResetFlags(e) ==
  /\ emit[e].pc = "reset"
  /\ flag' = FALSE
  /\ emit' = [emit EXCEPT ![e] = IF emit[e].id = None THEN Idle
                ELSE Local("send", emit[e].id, emit[e].timed)]
  /\ UNCHANGED <<used, acks, timer, handler, calls, early>>

(* and the packet is written. *)
Send(e) ==
  /\ emit[e].pc = "send"
  /\ handler' = [handler EXCEPT ![emit[e].id] = "sent"]
  /\ emit' = [emit EXCEPT ![e] = Idle]
  /\ UNCHANGED <<flag, used, acks, timer, calls, early>>

Emit(e) ==
  \/ Timeout(e) \/ EmitPlain(e) \/ EmitWithAck(e) \/ ReadTimeout(e)
  \/ ArmTimer(e) \/ StoreAck(e) \/ ResetFlags(e) \/ Send(e)

-----------------------------------------------------------------------------
(* The timer goes off, forgets the callback and calls it with an error. *)
FireTimer(a) ==
  /\ timer[a] = "armed"
  /\ timer' = [timer EXCEPT ![a] = "forget"]
  /\ early' = IF \E e \in Emitter : emit[e].id = a THEN early \cup {a} ELSE early
  /\ UNCHANGED <<flag, emit, used, acks, handler, calls>>

(* A bug: the timed out callback stays in s.acks. *)
ForgetAck_Kept(a) ==
  /\ timer[a] = "forget"
  /\ timer' = [timer EXCEPT ![a] = "call"]
  /\ UNCHANGED <<flag, emit, used, acks, handler, calls, early>>

ForgetAck(a) ==
  /\ timer[a] = "forget"
  /\ timer' = [timer EXCEPT ![a] = "call"]
  /\ acks' = [acks EXCEPT ![a] = "none"]
  /\ UNCHANGED <<flag, emit, used, handler, calls, early>>

CallTimedOut(a) ==
  /\ timer[a] = "call"
  /\ timer' = [timer EXCEPT ![a] = "fired"]
  /\ calls' = [calls EXCEPT ![a] = @ \cup {"timeout"}]
  /\ UNCHANGED <<flag, emit, used, acks, handler, early>>

OnTimer(a) == FireTimer(a) \/ ForgetAck(a) \/ CallTimedOut(a)

-----------------------------------------------------------------------------
(* The client's ACK packet arrives. *)
Answer(a) ==
  /\ handler[a] = "sent"
  /\ handler' = [handler EXCEPT ![a] = "load"]
  /\ UNCHANGED <<flag, emit, used, acks, timer, calls, early>>

(* A bug: the timer is stopped by an answer nobody waits for any more. *)
ClearTimer_ThenForgets(a) ==
  /\ handler[a] = "clear"
  /\ handler' = [handler EXCEPT ![a] = "remove"]
  /\ timer' = [timer EXCEPT ![a] = IF @ = "armed" THEN "stopped" ELSE @]
  /\ UNCHANGED <<flag, emit, used, acks, calls, early>>

(* A bug: the callback does not stop its timer. *)
ClearTimer_Left(a) ==
  /\ handler[a] = "clear"
  /\ handler' = [handler EXCEPT ![a] = "call"]
  /\ UNCHANGED <<flag, emit, used, acks, timer, calls, early>>

(* onack: the callback is loaded, or the packet is a bad ack; *)
LoadAck(a) ==
  /\ handler[a] = "load"
  /\ handler' = [handler EXCEPT ![a] =
                   CASE acks[a] = "none" -> "done"
                     [] acks[a] = "plain" -> "call"
                     [] acks[a] = "timed" -> "clear"]
  /\ UNCHANGED <<flag, emit, used, acks, timer, calls, early>>

(* a timed one stops its timer, which does nothing to one that went off, *)
ClearTimer(a) ==
  /\ handler[a] = "clear"
  /\ handler' = [handler EXCEPT ![a] = "call"]
  /\ timer' = [timer EXCEPT ![a] = IF @ = "armed" THEN "stopped" ELSE @]
  /\ UNCHANGED <<flag, emit, used, acks, calls, early>>

(* it is called with the answer, and then removed. *)
CallAnswered(a) ==
  /\ handler[a] = "call"
  /\ handler' = [handler EXCEPT ![a] = "remove"]
  /\ calls' = [calls EXCEPT ![a] = @ \cup {"answer"}]
  /\ UNCHANGED <<flag, emit, used, acks, timer, early>>

RemoveAck(a) ==
  /\ handler[a] = "remove"
  /\ handler' = [handler EXCEPT ![a] = "done"]
  /\ acks' = [acks EXCEPT ![a] = "none"]
  /\ UNCHANGED <<flag, emit, used, timer, calls, early>>

OnAck(a) == LoadAck(a) \/ ClearTimer(a) \/ CallAnswered(a) \/ RemoveAck(a)

Next ==
  \/ \E e \in Emitter : Emit(e)
  \/ \E a \in Ack : OnTimer(a) \/ Answer(a) \/ OnAck(a)

Spec == Init /\ [][Next]_vars

(* Goroutines that can go on do, and timers go off; nobody has to answer. *)
FairSpec ==
  Spec /\ \A a \in Ack : WF_vars(OnTimer(a)) /\ WF_vars(OnAck(a))
       /\ \A e \in Emitter : WF_vars(emit[e].pc # "idle" /\ Emit(e))

-----------------------------------------------------------------------------
EmitSteps == {"idle", "flags", "arm", "store", "reset", "send"}

(* The types of the socket's tables, timers and goroutines. *)
TypeOK ==
  /\ flag \in BOOLEAN
  /\ emit \in [Emitter -> [pc : EmitSteps, id : Ack \cup {None},
                           timed : BOOLEAN]]
  /\ used \subseteq Ack /\ early \subseteq Ack
  /\ acks \in [Ack -> {"none", "plain", "timed"}]
  /\ timer \in [Ack -> {"none", "armed", "stopped", "forget", "call", "fired"}]
  /\ handler \in [Ack -> {"none", "sent", "load", "clear", "call", "remove",
                          "done"}]
  /\ calls \in [Ack -> SUBSET {"answer", "timeout"}]

(* Once the callback has its answer, its timer cannot start any more.        *)
AnsweredIsDisarmed == \A a \in Ack : "answer" \in calls[a] => timer[a] # "armed"

(* Once the timer has decided to report the timeout, an answer that arrives  *)
(* finds no callback.  This needs a timeout that outlasts the Emit that      *)
(* armed it: the callback is stored after the timer is armed.                *)
ExpiredIsForgotten ==
  \A a \in Ack \ early : timer[a] \in {"call", "fired"} => acks[a] = "none"

(* A callback with a timer is called in the end, whatever the client does.   *)
TimedEmitCompletes == \A a \in Ack : timer[a] # "none" ~> calls[a] # {}
=============================================================================
