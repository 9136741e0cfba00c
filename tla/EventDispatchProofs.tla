-------------------------- MODULE EventDispatchProofs --------------------------
(***************************************************************************)
(* What EventDispatch guarantees for any number of events, listeners and   *)
(* middlewares, however often next is called and the lists are changed.    *)
(***************************************************************************)
EXTENDS EventDispatch, FiniteSetTheorems, TLAPS

(* What an event's goroutine copied is what it heard and what is left.      *)
HeardOK ==
  \A e \in Event :
    /\ pc[e] # "call" => heard[e] = <<>>
    /\ pc[e] = "call" => \A l \in Listener : Times(heard[e] \o left[e], l) \in times[e][l]

(* The chain is gone through in its order: a middleware was called because  *)
(* all before it let the event pass, and the callback because all did; and  *)
(* those of the event's arrival are among them, as none is ever taken away. *)
ChainOK ==
  \A e \in In :
    /\ pc[e] # "wait" => reached[e] = {} /\ ready[e] = 0 /\ emitting[e] = 0 /\ handled[e] = 0
    /\ pc[e] \in {"start", "call", "run"} => due[e] \subseteq ToSet(fns)
    /\ pc[e] = "wait" => due[e] \subseteq ToSet(fnsOf[e])
    /\ \A i \in reached[e] : \A j \in 1 .. i - 1 : fnsOf[e][j] \in passed[e]
    /\ ready[e] > 0 \/ emitting[e] > 0 \/ handled[e] > 0 => ToSet(fnsOf[e]) \subseteq passed[e]

(* The flag tells whether the acknowledgement was sent.                      *)
AckOK == \A e \in In : acks[e] = IF sent[e] THEN 1 ELSE 0

Inv == TypeOK /\ HeardOK /\ ChainOK /\ AckOK

-----------------------------------------------------------------------------
(* SetToSeq makes a sequence of a finite set. *)
LEMMA SetToSeqType ==
  ASSUME NEW S, IsFiniteSet(S)
  PROVE  SetToSeq(S) \in Seq(S) /\ Len(SetToSeq(S)) = Cardinality(S)
<1>1. Cardinality(S) \in Nat /\ ExistsBijection(1 .. Cardinality(S), S)
  BY FS_CardinalityType
<1>2. PICK f \in [1 .. Cardinality(S) -> S] : IsInjective(f)
  BY <1>1 DEF ExistsBijection, Bijection, Injection, IsInjective
<1>3. SetToSeq(S) \in [1 .. Cardinality(S) -> S]
  BY <1>2 DEF SetToSeq
<1> QED
  BY <1>1, <1>3

(* A listener is registered a number of times. *)
LEMMA TimesType ==
  ASSUME NEW ls \in Seq(Listener), NEW l
  PROVE  Times(ls, l) \in Nat
<1>1. DOMAIN ls = 1 .. Len(ls) /\ Len(ls) \in Nat
  OBVIOUS
<1>2. IsFiniteSet(1 .. Len(ls))
  BY <1>1, FS_Interval
<1>3. IsFiniteSet({i \in DOMAIN ls : ls[i] = l})
  BY <1>1, <1>2, FS_Subset
<1> QED
  BY <1>3, FS_CardinalityType DEF Times

(* To hear the next of those that are left does not change the whole. *)
LEMMA HearNext ==
  ASSUME NEW h \in Seq(Listener), NEW r \in Seq(Listener), r # <<>>
  PROVE  Append(h, Head(r)) \o Tail(r) = h \o r
<1> DEFINE a == Append(h, Head(r)) \o Tail(r)
           b == h \o r
<1>1. Len(r) \in Nat \ {0} /\ Head(r) = r[1] /\ Tail(r) \in Seq(Listener)
      /\ Len(Tail(r)) = Len(r) - 1 /\ \A k \in 1 .. Len(r) - 1 : Tail(r)[k] = r[k + 1]
  OBVIOUS
<1>2. Append(h, Head(r)) \in Seq(Listener) /\ Len(Append(h, Head(r))) = Len(h) + 1
      /\ Append(h, Head(r))[Len(h) + 1] = r[1]
      /\ \A k \in 1 .. Len(h) : Append(h, Head(r))[k] = h[k]
  BY <1>1
<1>3. a \in Seq(Listener) /\ b \in Seq(Listener) /\ Len(a) = Len(b)
  BY <1>1, <1>2
<1>4. ASSUME NEW k \in 1 .. Len(b) PROVE a[k] = b[k]
  <2>1. CASE k \in 1 .. Len(h)
    BY <1>1, <1>2, <2>1
  <2>2. CASE k = Len(h) + 1
    BY <1>1, <1>2, <2>2
  <2>3. CASE k > Len(h) + 1
    BY <1>1, <1>2, <2>3
  <2> QED
    BY <2>1, <2>2, <2>3
<1> QED
  BY <1>3, <1>4

(* The new lists are sequences of listeners. *)
LEMMA RemoveAtType ==
  ASSUME NEW ls \in Seq(Listener), NEW i \in DOMAIN ls
  PROVE  RemoveAt(ls, i) \in Seq(Listener)
BY DEF RemoveAt

(* What a step that changes a list makes of it. *)
LEMMA NewList ==
  ASSUME TypeOK, NEW d \in {"in", "out"}, NEW l \in Listener,
         OffAll(d) \/ OnAny(d, l) \/ PrependAny(d, l) \/ OffAny(d, l)
  PROVE  \E ls \in Seq(Listener) : SetList(d, ls)
<1>1. listeners[d] \in Seq(Listener)
  BY DEF TypeOK
<1>2. CASE OffAll(d)
  <2>1. <<>> \in Seq(Listener) /\ SetList(d, <<>>)
    BY <1>2 DEF OffAll
  <2> QED
    BY <2>1
<1>3. CASE OnAny(d, l)
  <2>1. Append(listeners[d], l) \in Seq(Listener) /\ SetList(d, Append(listeners[d], l))
    BY <1>1, <1>3 DEF OnAny
  <2> QED
    BY <2>1
<1>4. CASE PrependAny(d, l)
  <2>1. <<l>> \o listeners[d] \in Seq(Listener) /\ SetList(d, <<l>> \o listeners[d])
    BY <1>1, <1>4 DEF PrependAny
  <2> QED
    BY <2>1
<1>5. CASE OffAny(d, l)
  BY <1>1, <1>5, RemoveAtType DEF OffAny
<1> QED
  BY <1>2, <1>3, <1>4, <1>5

-----------------------------------------------------------------------------
(* The steps, by what they belong to. *)
Lives == OnConnect \/ StoreNsp \/ ClientRemove \/ Disconnect
Changes ==
  \/ \E d \in {"in", "out"}, ls \in Seq(Listener) : SetList(d, ls)
  \/ \E fn \in Fn : Use(fn)

LEMMA NextSteps ==
  ASSUME TypeOK, Next
  PROVE  \/ Lives \/ Changes
         \/ \E e \in Event : Arrive(e) \/ Emit(e) \/ CopyListeners(e) \/ CallListener(e)
         \/ \E e \in In : \/ Run(e) \/ \E i \in reached[e] : NextFn(e, i) \/ NextError(e, i)
                          \/ TestConnected(e) \/ EmitUntyped(e) \/ Ack(e)
<1>1. ASSUME NEW d \in {"in", "out"}, OffAll(d)
      PROVE  Changes
  <2>1. <<>> \in Seq(Listener) /\ SetList(d, <<>>)
    BY <1>1 DEF OffAll
  <2> QED
    BY <2>1 DEF Changes
<1>2. ASSUME NEW d \in {"in", "out"}, NEW l \in Listener,
             OnAny(d, l) \/ PrependAny(d, l) \/ OffAny(d, l)
      PROVE  Changes
  BY <1>2, NewList DEF Changes
<1> QED
  BY <1>1, <1>2 DEF Next, Lives, Changes, Goroutine, Callback, Middleware, Event

-----------------------------------------------------------------------------
(* TypeOK by the groups of variables that steps change. *)
SocketType ==
  connected \in BOOLEAN /\ routed \in BOOLEAN
  /\ life \in {"connect", "route", "open", "closing", "closed"}
ListType ==
  /\ listeners \in [{"in", "out"} -> Seq(Listener)] /\ fns \in Seq(Fn)
  /\ changes \in 0 .. MaxChanges
TimesOK == times \in [Event -> [Listener -> SUBSET Nat]]
PcType == pc \in [Event -> {"new", "refused", "start", "call", "run", "wait", "done"}]
CallType == left \in [Event -> Seq(Listener)] /\ heard \in [Event -> Seq(Listener)]
DueType == due \in [In -> SUBSET Fn]
RunType ==
  /\ fnsOf \in [In -> Seq(Fn)]
  /\ reached \in [In -> SUBSET Nat] /\ \A e \in In : reached[e] \subseteq DOMAIN fnsOf[e]
  /\ nexts \in [In -> Count]
  /\ passed \in [In -> SUBSET Fn] /\ rejected \subseteq In
HandleType == ready \in [In -> Nat] /\ emitting \in [In -> Nat] /\ handled \in [In -> Nat]
AckType == sent \in [In -> BOOLEAN] /\ acks \in [In -> Nat]

LEMMA TypeParts ==
  TypeOK <=> /\ SocketType /\ ListType /\ TimesOK /\ PcType /\ CallType /\ DueType
             /\ RunType /\ HandleType /\ AckType
BY DEF TypeOK, SocketType, ListType, TimesOK, PcType, CallType, DueType, RunType, HandleType,
       AckType

(* What a step leaves alone keeps its type. *)
LEMMA Unchanged ==
  /\ SocketType /\ UNCHANGED socket => SocketType'
  /\ ListType /\ UNCHANGED <<listeners, fns, changes>> => ListType'
  /\ TimesOK /\ UNCHANGED times => TimesOK'
  /\ PcType /\ UNCHANGED pc => PcType'
  /\ CallType /\ UNCHANGED calling => CallType'
  /\ DueType /\ UNCHANGED due => DueType'
  /\ RunType /\ UNCHANGED running => RunType'
  /\ HandleType /\ UNCHANGED handling => HandleType'
  /\ AckType /\ UNCHANGED acking => AckType'
BY DEF SocketType, ListType, TimesOK, PcType, CallType, DueType, RunType, HandleType, AckType,
       socket, calling, running, handling, acking

(* The types.  That what Run starts with has reached no middleware is ChainOK's. *)
LEMMA TypeStep ==
  ASSUME TypeOK, ChainOK, Next
  PROVE  TypeOK'
<1> DEFINE Types == /\ SocketType /\ ListType /\ TimesOK /\ PcType /\ CallType /\ DueType
                    /\ RunType /\ HandleType /\ AckType
<1>0. Types
  BY TypeParts
<1>t. Types' => TypeOK'
  BY TypeParts, PTL
<1>1. ASSUME Lives PROVE Types'
  <2>1. SocketType'
    BY <1>0, <1>1 DEF Lives, OnConnect, StoreNsp, ClientRemove, Disconnect, SocketType
  <2> QED
    BY <1>0, <1>1, <2>1, Unchanged DEF Lives, OnConnect, StoreNsp, ClientRemove, Disconnect, lists
<1>2. ASSUME NEW d \in {"in", "out"}, NEW ls \in Seq(Listener), SetList(d, ls)
      PROVE  Types'
  <2>1. ListType'
    BY EventAssumption, <1>0, <1>2 DEF SetList, Change, ListType
  <2>2. TimesOK'
    <3>1. \A l \in Listener : Times(ls, l) \in Nat
      BY TimesType
    <3> QED
      BY <1>0, <1>2, <3>1 DEF SetList, TimesOK
  <2> QED
    BY <1>0, <1>2, <2>1, <2>2, Unchanged DEF SetList
<1>3. ASSUME NEW fn \in Fn, Use(fn) PROVE Types'
  <2>1. ListType'
    BY EventAssumption, <1>0, <1>3 DEF Use, Change, ListType
  <2> QED
    BY <1>0, <1>3, <2>1, Unchanged DEF Use
<1>4. ASSUME NEW e \in Event, Arrive(e) PROVE Types'
  <2>1. PcType'
    BY <1>0, <1>4 DEF Arrive, Goto, PcType
  <2>2. DueType'
    BY <1>0, <1>4 DEF Arrive, ToSet, ListType, DueType
  <2> QED
    BY <1>0, <1>4, <2>1, <2>2, Unchanged DEF Arrive, lists
<1>5. ASSUME NEW e \in Event, Emit(e) PROVE Types'
  <2>1. PcType'
    BY <1>0, <1>5 DEF Emit, Goto, PcType
  <2> QED
    BY <1>0, <1>5, <2>1, Unchanged DEF Emit, lists
<1>6. ASSUME NEW e \in Event, CopyListeners(e) PROVE Types'
  <2>1. PcType'
    BY <1>0, <1>6 DEF CopyListeners, Goto, PcType
  <2>2. CallType' /\ TimesOK'
    <3>1. listeners[ListOf(e)] \in Seq(Listener)
      BY <1>0 DEF ListOf, ListType
    <3>2. \A l \in Listener : Times(listeners[ListOf(e)], l) \in Nat
      BY <3>1, TimesType
    <3> QED
      BY <1>0, <1>6, <3>1, <3>2 DEF CopyListeners, CallType, TimesOK
  <2> QED
    BY <1>0, <1>6, <2>1, <2>2, Unchanged DEF CopyListeners
<1>7. ASSUME NEW e \in Event, CallListener(e) PROVE Types'
  <2>1. PcType'
    BY <1>0, <1>7 DEF CallListener, Announced, Goto, PcType
  <2>2. CallType'
    <3>1. CASE left[e] # <<>>
      <4>1. Head(left[e]) \in Listener /\ Tail(left[e]) \in Seq(Listener)
        BY <1>0, <3>1 DEF CallType
      <4>2. Append(heard[e], Head(left[e])) \in Seq(Listener)
        BY <1>0, <4>1 DEF CallType
      <4> QED
        BY <1>0, <1>7, <3>1, <4>1, <4>2 DEF CallListener, CallType
    <3>2. CASE left[e] = <<>>
      BY <1>0, <1>7, <3>2 DEF CallListener, Announced, CallType
    <3> QED
      BY <3>1, <3>2
  <2>3. TimesOK'
    BY <1>0, <1>7 DEF CallListener, Announced, NoTimes, TimesOK
  <2> QED
    BY <1>0, <1>7, <2>1, <2>2, <2>3, Unchanged DEF CallListener
<1>8. ASSUME NEW e \in In, Run(e) PROVE Types'
  <2>1. PcType'
    BY <1>0, <1>8 DEF Run, Goto, PcType, Event
  <2>2. HandleType'
    <3>1. \/ ready' = ready
          \/ ready' = [ready EXCEPT ![e] = 1]
      BY <1>8 DEF Run
    <3> QED
      BY <1>0, <1>8, <3>1, SMTT(20) DEF Run, HandleType
  <2>3. RunType'
    <3>1. fnsOf' = [fnsOf EXCEPT ![e] = fns] /\ fnsOf' \in [In -> Seq(Fn)]
          /\ reached[e] = {} /\ UNCHANGED <<nexts, passed, rejected>>
      BY <1>0, <1>8 DEF Run, RunType, ListType, ChainOK
    <3>2. \/ reached' = reached
          \/ fns # <<>> /\ reached' = [reached EXCEPT ![e] = {1}]
      BY <1>8 DEF Run
    <3>3. fns # <<>> => 1 \in DOMAIN fns
      BY <1>0 DEF ListType
    <3>4. \A d \in In : reached'[d] \subseteq DOMAIN fnsOf'[d]
      <4>1. CASE reached' = reached
        BY <1>0, <3>1, <4>1 DEF RunType
      <4>2. CASE fns # <<>> /\ reached' = [reached EXCEPT ![e] = {1}]
        BY <1>0, <3>1, <3>3, <4>2 DEF RunType
      <4> QED
        BY <3>2, <4>1, <4>2
    <3>5. reached' \in [In -> SUBSET Nat]
      <4>1. reached \in [In -> SUBSET Nat] /\ {1} \in SUBSET Nat
        BY <1>0 DEF RunType
      <4> QED
        BY <3>2, <4>1
    <3> QED
      BY <1>0, <3>1, <3>4, <3>5 DEF RunType
  <2> QED
    BY <1>0, <1>8, <2>1, <2>2, <2>3, Unchanged DEF Run, lists
<1>9. ASSUME NEW e \in In, NEW i \in reached[e], NextFn(e, i) PROVE Types'
  <2>1. HandleType'
    <3>1. \/ ready' = ready
          \/ ready' = [ready EXCEPT ![e] = @ + 1]
      BY <1>9 DEF NextFn
    <3>2. UNCHANGED <<emitting, handled>>
      BY <1>9 DEF NextFn
    <3> QED
      BY <1>0, <3>1, <3>2 DEF HandleType
  <2>2. RunType'
    <3>1. i \in 1 .. Len(fnsOf[e]) /\ fnsOf[e][i] \in Fn /\ Len(fnsOf[e]) \in Nat
      BY <1>0 DEF RunType
    <3>2. nexts' \in [In -> Count]
      BY EventAssumption, <1>0, <1>9 DEF NextFn, RunType, Count
    <3>3. passed' \in [In -> SUBSET Fn] /\ UNCHANGED <<fnsOf, rejected>>
      BY <1>0, <1>9, <3>1 DEF NextFn, RunType
    <3>4. \/ reached' = reached
          \/ i + 1 \in 1 .. Len(fnsOf[e]) /\ reached' = [reached EXCEPT ![e] = @ \cup {i + 1}]
      BY <1>9, <3>1 DEF NextFn
    <3>5. reached' \in [In -> SUBSET Nat]
      <4>1. reached \in [In -> SUBSET Nat] /\ i + 1 \in Nat
        BY <1>0, <3>1 DEF RunType
      <4>2. reached[e] \cup {i + 1} \in SUBSET Nat
        BY <4>1
      <4> QED
        BY <3>4, <4>1, <4>2
    <3>6. \A d \in In : reached'[d] \subseteq DOMAIN fnsOf[d]
      <4>1. \A d \in In : d # e => reached'[d] = reached[d]
        BY <1>0, <3>4 DEF RunType
      <4>2. reached'[e] \subseteq reached[e] \cup ({i + 1} \cap DOMAIN fnsOf[e])
        BY <1>0, <3>4 DEF RunType
      <4> QED
        BY <1>0, <4>1, <4>2 DEF RunType
    <3> QED
      BY <1>0, <3>2, <3>3, <3>5, <3>6 DEF RunType
  <2> QED
    BY <1>0, <1>9, <2>1, <2>2, Unchanged DEF NextFn, lists
<1>10. ASSUME NEW e \in In, NEW i \in reached[e], NextError(e, i) PROVE Types'
  <2>1. RunType'
    BY EventAssumption, <1>0, <1>10 DEF NextError, RunType, Count
  <2> QED
    BY <1>0, <1>10, <2>1, Unchanged DEF NextError, lists
<1>11. ASSUME NEW e \in In, TestConnected(e) PROVE Types'
  <2>1. HandleType'
    BY <1>0, <1>11 DEF TestConnected, HandleType
  <2> QED
    BY <1>0, <1>11, <2>1, Unchanged DEF TestConnected, lists
<1>12. ASSUME NEW e \in In, EmitUntyped(e) PROVE Types'
  <2>1. HandleType'
    BY <1>0, <1>12 DEF EmitUntyped, HandleType
  <2> QED
    BY <1>0, <1>12, <2>1, Unchanged DEF EmitUntyped, lists
<1>13. ASSUME NEW e \in In, Ack(e) PROVE Types'
  <2>1. AckType'
    BY <1>0, <1>13 DEF Ack, AckType
  <2> QED
    BY <1>0, <1>13, <2>1, Unchanged DEF Ack, lists
<1> HIDE DEF Types
<1> QED
  BY <1>t, <1>1, <1>2, <1>3, <1>4, <1>5, <1>6, <1>7, <1>8, <1>9, <1>10, <1>11, <1>12, <1>13,
     NextSteps DEF Changes

(* The listeners: every change of a list is recorded for whoever goes through it. *)
LEMMA HeardStep ==
  ASSUME TypeOK, HeardOK, Next
  PROVE  HeardOK'
<1> USE DEF PcType, CallType, TimesOK
<1>0. PcType /\ CallType /\ TimesOK
  BY TypeParts
<1>1. ASSUME UNCHANGED <<pc, left, heard, times>> PROVE HeardOK'
  BY <1>1 DEF HeardOK
<1>2. ASSUME NEW d \in {"in", "out"}, NEW ls \in Seq(Listener), SetList(d, ls)
      PROVE  HeardOK'
  <2>1. UNCHANGED <<pc, left, heard>>
    BY <1>2 DEF SetList, calling
  <2>2. \A e \in Event, l \in Listener : times[e][l] \subseteq times'[e][l]
    BY <1>0, <1>2 DEF SetList
  <2> QED
    BY <2>1, <2>2 DEF HeardOK
<1>3. ASSUME NEW e \in Event, UNCHANGED <<left, heard, times>>,
             pc[e] # "call", \E x : x # "call" /\ pc' = [pc EXCEPT ![e] = x]
      PROVE  HeardOK'
  BY <1>0, <1>3 DEF HeardOK
<1>4. ASSUME NEW e \in Event, CopyListeners(e) PROVE HeardOK'
  <2>1. pc[e] = "start" /\ pc' = [pc EXCEPT ![e] = "call"] /\ UNCHANGED heard
        /\ left' = [left EXCEPT ![e] = listeners[ListOf(e)]]
        /\ times' = [times EXCEPT ![e] = [l \in Listener |-> {Times(listeners[ListOf(e)], l)}]]
    BY <1>4 DEF CopyListeners, Goto
  <2>2. heard[e] \o listeners[ListOf(e)] = listeners[ListOf(e)]
    <3>1. heard[e] = <<>>
      BY <2>1 DEF HeardOK
    <3>2. listeners[ListOf(e)] \in Seq(Listener)
      BY DEF TypeOK, ListOf
    <3> QED
      BY <3>1, <3>2
  <2>3. \A l \in Listener : Times(heard'[e] \o left'[e], l) \in times'[e][l]
    BY <1>0, <2>1, <2>2
  <2>4. \A d \in Event \ {e} : pc'[d] = pc[d] /\ left'[d] = left[d] /\ times'[d] = times[d]
    BY <1>0, <2>1
  <2> QED
    BY <1>0, <2>1, <2>3, <2>4 DEF HeardOK
<1>5. ASSUME NEW e \in Event, CallListener(e) PROVE HeardOK'
  <2>1. CASE left[e] # <<>>
    <3>1. UNCHANGED <<pc, times>> /\ left' = [left EXCEPT ![e] = Tail(@)]
          /\ heard' = [heard EXCEPT ![e] = Append(@, Head(left[e]))]
      BY <1>5, <2>1 DEF CallListener
    <3>2. heard'[e] \o left'[e] = heard[e] \o left[e]
      BY <1>0, <2>1, <3>1, HearNext
    <3>3. \A d \in Event \ {e} : heard'[d] = heard[d] /\ left'[d] = left[d]
      BY <1>0, <3>1
    <3>4. pc[e] = "call"
      BY <1>5 DEF CallListener
    <3> QED
      BY <3>1, <3>2, <3>3, <3>4 DEF HeardOK
  <2>2. CASE left[e] = <<>>
    <3>1. UNCHANGED left /\ heard' = [heard EXCEPT ![e] = <<>>] /\ times' = [times EXCEPT ![e] = NoTimes]
          /\ \E x : x # "call" /\ pc' = [pc EXCEPT ![e] = x]
      BY <1>5, <2>2 DEF CallListener, Announced, Goto
    <3>2. \A d \in Event \ {e} : pc'[d] = pc[d] /\ heard'[d] = heard[d] /\ times'[d] = times[d]
      BY <1>0, <3>1
    <3>3. pc'[e] # "call" /\ heard'[e] = <<>>
      BY <1>0, <3>1
    <3> QED
      BY <3>1, <3>2, <3>3 DEF HeardOK
  <2> QED
    BY <2>1, <2>2
<1>6. CASE Lives
  BY <1>1, <1>6 DEF Lives, OnConnect, StoreNsp, ClientRemove, Disconnect, lists, calling
<1>7. ASSUME NEW fn \in Fn, Use(fn) PROVE HeardOK'
  BY <1>1, <1>7 DEF Use, calling
<1>8. ASSUME NEW e \in Event, Arrive(e) PROVE HeardOK'
  BY <1>3, <1>8 DEF Arrive, Goto, lists, calling
<1>9. ASSUME NEW e \in Event, Emit(e) PROVE HeardOK'
  BY <1>3, <1>9 DEF Emit, Goto, lists, calling
<1>10. ASSUME NEW e \in In, Run(e) PROVE HeardOK'
  BY <1>3, <1>10 DEF Run, Goto, lists, calling, Event
<1>11. ASSUME NEW e \in In, NEW i \in reached[e], NextFn(e, i) \/ NextError(e, i)
       PROVE  HeardOK'
  BY <1>1, <1>11 DEF NextFn, NextError, lists, calling
<1>12. ASSUME NEW e \in In, TestConnected(e) \/ EmitUntyped(e) \/ Ack(e) PROVE HeardOK'
  BY <1>1, <1>12 DEF TestConnected, EmitUntyped, Ack, lists, calling
<1> QED
  BY <1>2, <1>4, <1>5, <1>6, <1>7, <1>8, <1>9, <1>10, <1>11, <1>12, NextSteps DEF Changes

(* The chain: a middleware is called, and the callback run, by the one before. *)
LEMMA ChainStep ==
  ASSUME TypeOK, ChainOK, Next
  PROVE  ChainOK'
<1> USE DEF PcType, RunType, HandleType, DueType
<1>0. PcType /\ RunType /\ HandleType /\ DueType /\ fns \in Seq(Fn)
  BY TypeParts DEF ListType
<1>1. ASSUME UNCHANGED <<pc, fns, fnsOf, reached, passed, due, handling>> PROVE ChainOK'
  BY <1>1 DEF ChainOK, handling
<1>2. ASSUME NEW fn \in Fn, Use(fn) PROVE ChainOK'
  <2>1. fns' = Append(fns, fn) /\ UNCHANGED <<pc, fnsOf, reached, passed, due, handling>>
    BY <1>2 DEF Use, running
  <2>2. ToSet(fns) \subseteq ToSet(fns')
    <3>1. DOMAIN fns = 1 .. Len(fns) /\ DOMAIN fns' = 1 .. Len(fns) + 1
          /\ \A k \in 1 .. Len(fns) : fns'[k] = fns[k]
      BY <1>0, <2>1
    <3>2. DOMAIN fns \subseteq DOMAIN fns' /\ \A k \in DOMAIN fns : fns'[k] = fns[k]
      BY <1>0, <3>1
    <3> QED
      BY <3>2 DEF ToSet
  <2> QED
    BY <2>1, <2>2 DEF ChainOK, handling
<1>3. ASSUME NEW e \in Event, NEW x, x # "wait", pc[e] # "wait", pc' = [pc EXCEPT ![e] = x],
             x \in {"start", "call", "run"} => pc[e] \in {"start", "call"} \/ e \notin In,
             UNCHANGED <<fns, fnsOf, reached, passed, due, handling>>
      PROVE  ChainOK'
  BY <1>0, <1>3 DEF ChainOK, handling
<1>4. ASSUME NEW e \in Event, Arrive(e) PROVE ChainOK'
  <2>1. e \in In /\ pc[e] = "new" /\ due' = [due EXCEPT ![e] = ToSet(fns)]
        /\ UNCHANGED <<fns, fnsOf, reached, passed, handling>>
    BY <1>4 DEF Arrive, lists, running
  <2>2. PICK x \in {"start", "refused"} : pc' = [pc EXCEPT ![e] = x]
    BY <1>4 DEF Arrive, Goto
  <2> QED
    BY <1>0, <2>1, <2>2 DEF ChainOK, handling
<1>5. ASSUME NEW e \in Event, Emit(e) PROVE ChainOK'
  <2>1. e \notin In
    BY EventAssumption, <1>5 DEF Emit
  <2> QED
    BY <1>3, <1>5, <2>1 DEF Emit, Goto, lists, running
<1>6. ASSUME NEW e \in Event, CopyListeners(e) PROVE ChainOK'
  BY <1>3, <1>6 DEF CopyListeners, Goto, running
<1>7. ASSUME NEW e \in Event, CallListener(e) PROVE ChainOK'
  <2>1. CASE left[e] # <<>>
    BY <1>1, <1>7, <2>1 DEF CallListener, running
  <2>2. CASE left[e] = <<>>
    BY <1>3, <1>7, <2>2 DEF CallListener, Announced, Goto, running
  <2> QED
    BY <2>1, <2>2
<1>8. ASSUME NEW e \in In, Run(e) PROVE ChainOK'
  <2>1. pc[e] = "run" /\ pc' = [pc EXCEPT ![e] = "wait"] /\ fnsOf' = [fnsOf EXCEPT ![e] = fns]
        /\ UNCHANGED <<passed, due, emitting, handled>>
    BY <1>8 DEF Run, Goto
  <2>2. reached[e] = {} /\ ready[e] = 0 /\ emitting[e] = 0 /\ handled[e] = 0
        /\ due[e] \subseteq ToSet(fns)
    BY <2>1 DEF ChainOK
  <2>3. \A d \in In \ {e} : pc'[d] = pc[d] /\ fnsOf'[d] = fnsOf[d]
    BY <1>0, <2>1 DEF Event
  <2>4. \A d \in In \ {e} : reached'[d] = reached[d] /\ ready'[d] = ready[d]
    BY <1>0, <1>8 DEF Run
  <2>5. pc'[e] = "wait" /\ fnsOf'[e] = fns
    BY <1>0, <2>1 DEF Event
  <2>6. reached'[e] \subseteq {1} /\ (ready'[e] > 0 => fns = <<>>)
    BY <1>0, <1>8, <2>2 DEF Run
  <2>7. fns = <<>> => ToSet(fns) = {}
    BY DEF ToSet
  <2>8. fns' = fns
    BY <1>8 DEF Run, lists
  <2> QED
    BY <2>1, <2>2, <2>3, <2>4, <2>5, <2>6, <2>7, <2>8 DEF ChainOK
<1>9. ASSUME NEW e \in In, NEW i \in reached[e], NextFn(e, i) PROVE ChainOK'
  <2>1. UNCHANGED <<pc, fns, fnsOf, due, emitting, handled>>
        /\ passed' = [passed EXCEPT ![e] = @ \cup {fnsOf[e][i]}]
    BY <1>9 DEF NextFn, lists
  <2>2. i \in 1 .. Len(fnsOf[e]) /\ Len(fnsOf[e]) \in Nat /\ pc[e] = "wait"
    BY <1>0 DEF ChainOK
  <2>3. \A d \in In \ {e} : passed'[d] = passed[d] /\ reached'[d] = reached[d] /\ ready'[d] = ready[d]
    BY <1>0, <1>9 DEF NextFn
  <2>4. passed'[e] = passed[e] \cup {fnsOf[e][i]}
    BY <1>0, <2>1
  <2>5. \A j \in 1 .. i : fnsOf[e][j] \in passed'[e]
    BY <2>2, <2>4 DEF ChainOK
  <2>6. CASE i = Len(fnsOf[e])
    <3>1. ToSet(fnsOf[e]) \subseteq passed'[e]
      BY <1>0, <2>2, <2>5, <2>6 DEF ToSet
    <3>2. UNCHANGED reached
      BY <1>9, <2>6 DEF NextFn
    <3> QED
      BY <2>1, <2>2, <2>3, <2>4, <3>1, <3>2 DEF ChainOK
  <2>7. CASE i # Len(fnsOf[e])
    <3>1. UNCHANGED ready /\ reached'[e] = reached[e] \cup {i + 1}
      BY <1>0, <1>9, <2>7 DEF NextFn
    <3>2. \A k \in reached'[e] : \A j \in 1 .. k - 1 : fnsOf[e][j] \in passed'[e]
      BY <2>2, <2>4, <2>5, <3>1 DEF ChainOK
    <3> QED
      BY <2>1, <2>2, <2>3, <2>4, <3>1, <3>2 DEF ChainOK
  <2> QED
    BY <2>6, <2>7
<1>10. ASSUME NEW e \in In, NEW i \in reached[e], NextError(e, i) PROVE ChainOK'
  BY <1>1, <1>10 DEF NextError, lists
<1>11. ASSUME NEW e \in In, TestConnected(e) PROVE ChainOK'
  <2>1. UNCHANGED <<pc, fns, fnsOf, reached, passed, due, handled>> /\ ready[e] > 0
    BY <1>11 DEF TestConnected, lists, running
  <2>2. \A d \in In : /\ ready'[d] > 0 => ready[d] > 0
                      /\ emitting'[d] > 0 => emitting[d] > 0 \/ d = e
                      /\ ready[d] = 0 /\ emitting[d] = 0 => ready'[d] = 0 /\ emitting'[d] = 0
    BY <1>0, <1>11 DEF TestConnected
  <2> QED
    BY <1>0, <2>1, <2>2 DEF ChainOK
<1>12. ASSUME NEW e \in In, EmitUntyped(e) PROVE ChainOK'
  <2>1. UNCHANGED <<pc, fns, fnsOf, reached, passed, due, ready>> /\ emitting[e] > 0
    BY <1>12 DEF EmitUntyped, lists, running
  <2>2. \A d \in In : /\ emitting'[d] > 0 => emitting[d] > 0
                      /\ handled'[d] > 0 => handled[d] > 0 \/ d = e
                      /\ emitting[d] = 0 /\ handled[d] = 0 => emitting'[d] = 0 /\ handled'[d] = 0
    BY <1>0, <1>12 DEF EmitUntyped
  <2> QED
    BY <1>0, <2>1, <2>2 DEF ChainOK
<1>13. ASSUME NEW e \in In, Ack(e) PROVE ChainOK'
  BY <1>1, <1>13 DEF Ack, lists, running
<1>14. CASE Lives
  BY <1>1, <1>14 DEF Lives, OnConnect, StoreNsp, ClientRemove, Disconnect, lists, running
<1>15. ASSUME NEW d \in {"in", "out"}, NEW ls \in Seq(Listener), SetList(d, ls)
       PROVE  ChainOK'
  BY <1>1, <1>15 DEF SetList, running
<1> QED
  BY <1>2, <1>4, <1>5, <1>6, <1>7, <1>8, <1>9, <1>10, <1>11, <1>12, <1>13, <1>14, <1>15,
     NextSteps DEF Changes

(* The acknowledgement: only Ack sends it, once the flag was not set. *)
LEMMA AckStep ==
  ASSUME TypeOK, AckOK, Next
  PROVE  AckOK'
<1>1. AckType
  BY TypeParts
<1>2. ASSUME UNCHANGED acking PROVE AckOK'
  BY <1>2 DEF AckOK, acking
<1>3. ASSUME NEW e \in In, Ack(e) PROVE AckOK'
  BY <1>1, <1>3 DEF Ack, AckOK, AckType
<1>4. (\E e \in In : Ack(e)) \/ UNCHANGED acking
  BY DEF Next, OnConnect, StoreNsp, ClientRemove, Disconnect, OffAll, OnAny, PrependAny, OffAny,
         SetList, Use, Arrive, Emit, Goroutine, CopyListeners, CallListener, Run, Callback,
         TestConnected, EmitUntyped, Middleware, NextFn, NextError
<1> QED
  BY <1>2, <1>3, <1>4

-----------------------------------------------------------------------------
LEMMA InitInv ==
  Init => Inv
<1> SUFFICES ASSUME Init PROVE Inv
  OBVIOUS
<1> USE DEF Init
<1>1. SetToSeq(Listener) \in Seq(Listener)
  BY EventAssumption, SetToSeqType
<1>2. fns \in Seq(Fn)
  <2>1. SetToSeq(Fn) \in Seq(Fn) /\ Len(SetToSeq(Fn)) = Cardinality(Fn)
    BY EventAssumption, SetToSeqType
  <2>2. Cardinality(Fn) \in Nat
    BY EventAssumption, FS_CardinalityType
  <2>3. PICK n \in 0 .. Cardinality(Fn) : fns = SubSeq(SetToSeq(Fn), 1, n)
    OBVIOUS
  <2> QED
    BY <2>1, <2>2, <2>3
<1>3. ListType
  BY EventAssumption, <1>1, <1>2 DEF ListType
<1>4. SocketType /\ TimesOK /\ PcType /\ CallType /\ DueType
  <2>1. SocketType /\ PcType
    BY DEF SocketType, PcType
  <2>2. TimesOK /\ DueType
    BY DEF TimesOK, NoTimes, DueType
  <2>3. <<>> \in Seq(Listener)
    OBVIOUS
  <2>4. CallType
    BY <2>3 DEF CallType
  <2> QED
    BY <2>1, <2>2, <2>4
<1>5. RunType /\ HandleType /\ AckType
  BY EventAssumption DEF RunType, HandleType, AckType, Count
<1>6. TypeOK
  BY <1>3, <1>4, <1>5, TypeParts
<1>7. HeardOK /\ ChainOK /\ AckOK
  BY DEF HeardOK, ChainOK, AckOK, Event
<1> QED
  BY <1>6, <1>7 DEF Inv

LEMMA StepInv ==
  Inv /\ [Next]_vars => Inv'
<1> SUFFICES ASSUME Inv, [Next]_vars PROVE Inv'
  OBVIOUS
<1>1. CASE Next
  BY <1>1, TypeStep, HeardStep, ChainStep, AckStep DEF Inv
<1>2. CASE UNCHANGED vars
  <2> USE <1>2 DEF Inv, vars, socket, lists, calling, running, handling, acking
  <2>1. TypeOK'
    BY DEF TypeOK
  <2>2. HeardOK' /\ ChainOK' /\ AckOK'
    BY DEF HeardOK, ChainOK, AckOK
  <2> QED
    BY <2>1, <2>2
<1> QED
  BY <1>1, <1>2

(* Dispatching of events, listeners and middlewares that come and go, and the    *)
(* life of the socket, in every interleaving, keep what is said of them above.   *)
THEOREM Invariant ==
  Spec => []Inv
<1> QED
  BY InitInv, StepInv, PTL DEF Spec

(* Every variable keeps its type: only middlewares of the copy that run made are *)
(* called.                                                                       *)
THEOREM TypeCorrect ==
  Spec => []TypeOK
<1>1. Inv => TypeOK
  BY DEF Inv
<1> QED
  BY <1>1, Invariant, PTL

(* Of any number of middlewares, however often they call next and others are     *)
(* added: the handlers are not called before all that there were have passed     *)
(* the event.                                                                    *)
THEOREM HandledPassed ==
  Spec => []HandledIfPassed
<1>1. Inv => HandledIfPassed
  <2> SUFFICES ASSUME Inv, NEW e \in In, handled[e] > 0 PROVE due[e] \subseteq passed[e]
    BY DEF HandledIfPassed
  <2>1. pc[e] = "wait"
    BY DEF Inv, ChainOK
  <2> QED
    BY <2>1 DEF Inv, ChainOK
<1> QED
  BY <1>1, Invariant, PTL

(* An event is acknowledged once at most, however often its handlers are called  *)
(* and call the acknowledgement.                                                 *)
THEOREM Acknowledged ==
  Spec => []AckedOnce
<1>1. Inv => AckedOnce
  BY DEF Inv, AckOK, AckedOnce
<1> QED
  BY <1>1, Invariant, PTL

(* Of any number of listeners and changes of the lists: a listener hears an event *)
(* as often as it was registered at some moment of the announcement.             *)
THEOREM SteadyHear ==
  Spec => SteadyListenersHear
<1>1. Inv /\ [Next]_vars =>
        [\A e \in Event : pc[e] = "call" /\ pc'[e] # "call" =>
           \A l \in Listener : Times(heard[e], l) \in times[e][l]]_vars
  <2> SUFFICES ASSUME Inv, Next, NEW e \in Event, pc[e] = "call", pc'[e] # "call",
                      NEW l \in Listener
               PROVE  Times(heard[e], l) \in times[e][l]
    OBVIOUS
  <2>1. left[e] = <<>>
    <3>1. pc \in [Event -> {"new", "refused", "start", "call", "run", "wait", "done"}]
      BY DEF Inv, TypeOK
    <3>2. ASSUME NEW d \in Event, CallListener(d) PROVE left[e] = <<>>
      BY <3>1, <3>2 DEF CallListener, Announced, Goto
    <3> QED
      BY <3>1, <3>2 DEF Next, OnConnect, StoreNsp, ClientRemove, Disconnect, OffAll, OnAny,
         PrependAny, OffAny, SetList, Use, Arrive, Emit, Goroutine, CopyListeners, Run, Callback,
         TestConnected, EmitUntyped, Middleware, NextFn, NextError, Ack, Goto
  <2>2. heard[e] \in Seq(Listener)
    BY DEF Inv, TypeOK
  <2>3. heard[e] \o left[e] = heard[e]
    BY <2>1, <2>2
  <2> QED
    BY <2>3 DEF Inv, HeardOK
<1> QED
  BY <1>1, Invariant, PTL DEF Spec, SteadyListenersHear
================================================================================
