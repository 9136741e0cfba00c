--------------------------- MODULE NamespacesProofs ---------------------------
(***************************************************************************)
(* What Namespaces guarantees for any number of clients, goroutines of the *)
(* application and names.                                                  *)
(***************************************************************************)
EXTENDS Namespaces, TLAPS

Storing(p) == pc[p] \in {"store", "ofStore"}
Leaving == {"len", "deleteName", "deleteChild"}
Remover == Client \cup Closer
HasNsp == {"store", "ofStore", "add", "connected", "gone"} \cup Leaving

(* What the labels say; and what has not been made is nowhere. *)
StateOK ==
  /\ TypeOK
  /\ \A p \in Proc : pc[p] \in HasNsp => nsp[p] # None
  /\ \A p \in Proc : nsp[p] # None => nsp[p] \in 1 .. made
  /\ \A n \in Name : nsps[n] # None => nsps[n] \in 1 .. made
  /\ \A i \in Nsp : sockets[i] # {} => i \in 1 .. made
  /\ \A u \in User : pc[u] \in {"of", "ofCreate", "ofStore", "done"}
  /\ \A k \in Closer :
       pc[k] \in {"again", "len", "deleteName", "deleteChild", "gone"}
  /\ \A p \in Proc : pc[p] = "again" => p \in Closer /\ nsp[p] = None

(* A namespace has one name, whoever refers to it, is its maker's alone until *)
(* it is stored, and is not listed any more when it is taken from its parent. *)
NamesOK ==
  /\ \A p, q \in Proc : nsp[p] # None /\ nsp[p] = nsp[q] => name[p] = name[q]
  /\ \A p \in Proc, n \in Name : nsp[p] # None /\ nsp[p] = nsps[n] => n = name[p]
  /\ \A m, n \in Name : nsps[m] # None /\ nsps[m] = nsps[n] => m = n
  /\ \A p \in Proc : Storing(p) =>
       /\ \A q \in Proc : nsp[q] = nsp[p] => q = p
       /\ \A n \in Name : nsps[n] # nsp[p]
       /\ nsp[p] \in (children \ closed) \cup plain
  /\ \A c \in Remover : pc[c] = "deleteChild" => \A n \in Name : nsps[n] # nsp[c]

(* The namespaces that a broadcast of the parent reaches, and the others. *)
Good == (children \ closed) \cup plain

Apart == ~raced => Removing = {} \/ Connecting = {}

(* As long as connections and removals do not overlap, what is listed is     *)
(* good, or about to be unlisted.                                            *)
ReachOK ==
  ~raced =>
    /\ \A n \in Name : nsps[n] # None =>
         nsps[n] \in Good \/ \E c \in Remover : pc[c] = "deleteName" /\ nsp[c] = nsps[n]
    /\ \A c \in Client : pc[c] = "add" => nsp[c] \in Good
    /\ \A i \in Nsp : sockets[i] # {} => i \in Good
    /\ \A c \in Remover : pc[c] \in {"deleteName", "deleteChild"} => sockets[nsp[c]] = {}

(* A child that sockets have left and that is empty has somebody who will    *)
(* find it empty, or is about to forget it, or is forgotten.                 *)
Forgotten(i) == \A n \in Name : nsps[n] # i

Attended(i) ==
  \/ \E c \in Remover : nsp[c] = i /\ pc[c] \in {"len", "deleteName"}
  \/ Forgotten(i) /\ \E c \in Remover : nsp[c] = i /\ pc[c] = "deleteChild"
  \/ Forgotten(i) /\ i \notin children

EmptyOK ==
  cleanup => \A c \in Client : LET i == nsp[c] IN
    pc[c] \in Leaving \cup {"gone"} /\ i \notin plain /\ sockets[i] = {} => Attended(i)

(* Clients that connect one at a time find what is listed, and whoever is    *)
(* about to list a namespace finds nobody connected to another.              *)
ListOK ==
  ~raced /\ ~doubled =>
    /\ \A c \in Client : pc[c] = "connected" =>
         (nsp[c] = Listed(c) \/ name[c] \in twice) /\ c \in sockets[nsp[c]]
    /\ \A c \in Client : pc[c] = "add" => nsp[c] = Listed(c)
    /\ \A p \in Proc, c \in Client :
         pc[p] \in {"check", "create", "store", "ofCreate", "ofStore"} /\ pc[c] = "connected"
           => name[p] # name[c] \/ name[c] \in twice
    /\ \A c \in Connecting, p \in Connecting \cup Calling : c = p
    /\ \A c \in Removing, d \in Client :
         pc[d] = "connected" /\ name[d] = name[c] =>
           nsp[d] = nsp[c] \/ name[c] \in twice
    /\ \A k \in Closer : pc[k] \in Leaving => name[k] \in twice

Inv == StateOK /\ NamesOK /\ Apart /\ ReachOK /\ EmptyOK /\ ListOK

-----------------------------------------------------------------------------
(* The labels and types. *)
LEMMA StateStep ==
  ASSUME StateOK, NEW p \in Proc, Step(p) \/ Deny(p) \/ Reject(p)
  PROVE  StateOK'
<1> USE NameAssumption DEF Goto, options, server, history, Nsp, Proc, Remover
<1>1. CASE Connect(p)
  BY <1>1 DEF Connect, StateOK, TypeOK, HasNsp, Leaving, Listed
<1>2. CASE Deny(p)
  BY <1>2 DEF Deny, StateOK, TypeOK, HasNsp, Leaving
<1>3. CASE Allow(p)
  BY <1>3 DEF Allow, StateOK, TypeOK, HasNsp, Leaving, Listed
<1>4. CASE CreateChild(p)
  BY <1>4 DEF CreateChild, AddChild, Make, StateOK, TypeOK, HasNsp, Leaving
<1>5. CASE StoreChild(p)
  BY <1>5 DEF StoreChild, StoreNsp, StateOK, TypeOK, HasNsp, Leaving
<1>6. CASE Of(p)
  BY <1>6, SMTT(20) DEF Of, StateOK, TypeOK, HasNsp, Leaving, Listed
<1>7. CASE OfCreate(p)
  <2>1. made' = made + 1 /\ made' \in 0 .. MaxNsp /\ nsp' = [nsp EXCEPT ![p] = made + 1]
        /\ pc' = [pc EXCEPT ![p] = "ofStore"]
        /\ UNCHANGED <<options, nsps, closed, sockets, name, history>>
    BY <1>7 DEF OfCreate, AddChild, Make, StateOK, TypeOK
  <2>2. children' \subseteq 1 .. made' /\ plain' \subseteq 1 .. made'
        /\ plain' \cap children' = {}
    <3>1. \/ children' = children \cup {made + 1} /\ plain' = plain
          \/ children' = children /\ plain' = plain \cup {made + 1}
      BY <1>7 DEF OfCreate, AddChild
    <3>2. children \subseteq 1 .. made /\ plain \subseteq 1 .. made
          /\ plain \cap children = {} /\ made \in Nat
      BY DEF StateOK, TypeOK
    <3>3. 1 .. made \subseteq 1 .. made' /\ made + 1 \in 1 .. made' /\ made + 1 \notin 1 .. made
      BY <2>1, <3>2
    <3> QED
      BY <3>1, <3>2, <3>3
  <2>3. TypeOK'
    BY <2>1, <2>2 DEF StateOK, TypeOK
  <2>4. /\ \A u \in User : pc'[u] \in {"of", "ofCreate", "ofStore", "done"}
        /\ \A k \in Closer :
             pc'[k] \in {"again", "len", "deleteName", "deleteChild", "gone"}
    BY <1>7, <2>1 DEF OfCreate, StateOK, TypeOK
  <2>7. \A q \in Proc : pc'[q] = "again" => q \in Closer /\ nsp'[q] = None
    BY <1>7, <2>1 DEF OfCreate, StateOK, TypeOK
  <2>5. \A q \in Proc : nsp'[q] # None => nsp'[q] \in 1 .. made'
    BY <2>1 DEF StateOK, TypeOK
  <2>6. \A q \in Proc : pc'[q] \in HasNsp => nsp'[q] # None
    BY <2>1 DEF StateOK, TypeOK
  <2> QED
    BY <2>1, <2>3, <2>4, <2>5, <2>6, <2>7 DEF StateOK, TypeOK
<1>8. CASE OfStore(p)
  BY <1>8 DEF OfStore, StoreNsp, StateOK, TypeOK, HasNsp, Leaving
<1>9. CASE Reject(p)
  BY <1>9 DEF Reject, StateOK, TypeOK, HasNsp, Leaving
<1>10. CASE Track(p)
  <2>1. p \in Client /\ nsp[p] \in 1 .. made
    BY <1>10 DEF Track, StateOK, HasNsp
  <2> QED
    BY <1>10, <2>1 DEF Track, StateOK, TypeOK, HasNsp, Leaving
<1>11. CASE Remove(p)
  <2>1. PICK label \in {"len", "gone"} : pc' = [pc EXCEPT ![p] = label]
    BY <1>11 DEF Remove
  <2>2. /\ pc[p] = "connected" /\ sockets' = [sockets EXCEPT ![nsp[p]] = @ \ {p}]
        /\ raced' = (raced \/ Connecting # {})
        /\ UNCHANGED <<options, server, name, nsp, doubled, twice>>
    BY <1>11 DEF Remove
  <2>3. p \notin User \cup Closer /\ nsp[p] \in 1 .. made
    BY <2>2 DEF StateOK, HasNsp
  <2>4. TypeOK'
    BY <2>1, <2>2 DEF StateOK, TypeOK, server, options
  <2>5. \A i \in Nsp : sockets'[i] # {} => i \in 1 .. made'
    BY <2>2 DEF StateOK, TypeOK, server
  <2>6. \A q \in Proc : pc'[q] \in HasNsp => nsp'[q] # None
    BY <2>1, <2>2, <2>3 DEF StateOK, TypeOK
  <2>7. /\ \A u \in User : pc'[u] \in {"of", "ofCreate", "ofStore", "done"}
        /\ \A k \in Closer :
             pc'[k] \in {"again", "len", "deleteName", "deleteChild", "gone"}
        /\ \A q \in Proc : pc'[q] = "again" => q \in Closer /\ nsp'[q] = None
    BY <2>1, <2>2, <2>3 DEF StateOK, TypeOK
  <2> QED
    BY <2>2, <2>4, <2>5, <2>6, <2>7 DEF StateOK, server
<1>12. CASE CheckLen(p)
  <2>1. p \notin User /\ nsp[p] \in 1 .. made
    BY <1>12 DEF CheckLen, StateOK, HasNsp, Leaving
  <2>2. closed' \subseteq 1 .. made
    <3>1. closed' = closed \/ closed' = closed \cup {nsp[p]}
      BY <1>12 DEF CheckLen
    <3>2. closed \subseteq 1 .. made
      BY DEF StateOK, TypeOK
    <3> QED
      BY <2>1, <3>1, <3>2
  <2>3. PICK label \in {"deleteName", "gone"} : pc' = [pc EXCEPT ![p] = label]
    BY <1>12 DEF CheckLen
  <2>4. UNCHANGED <<options, nsps, children, made, plain, sockets, name, nsp, history>>
    BY <1>12 DEF CheckLen
  <2>5. TypeOK'
    BY <2>2, <2>3, <2>4 DEF StateOK, TypeOK
  <2> QED
    BY <1>12, <2>1, <2>3, <2>4, <2>5 DEF CheckLen, StateOK, TypeOK, HasNsp, Leaving
<1>13. CASE DeleteName(p)
  BY <1>13 DEF DeleteName, StateOK, TypeOK, HasNsp, Leaving
<1>14. CASE DeleteChild(p)
  BY <1>14 DEF DeleteChild, StateOK, TypeOK, HasNsp, Leaving
<1>15. CASE RemoveAgain(p)
  BY <1>15 DEF RemoveAgain, StateOK, TypeOK, HasNsp, Leaving
<1> QED
  BY <1>1, <1>2, <1>3, <1>4, <1>5, <1>6, <1>7, <1>8, <1>9, <1>10, <1>11, <1>12, <1>13,
     <1>14, <1>15 DEF Step

(* A namespace keeps its one name. *)
LEMMA NamesStep ==
  ASSUME StateOK, NamesOK, NEW p \in Proc, Step(p) \/ Deny(p) \/ Reject(p)
  PROVE  NamesOK'
<1> USE NameAssumption DEF Goto, options, server, history, Nsp, Proc, Remover
<1>1. CASE Connect(p)
  BY <1>1 DEF Connect, StateOK, TypeOK, NamesOK, Storing, HasNsp, Leaving, Listed
<1>2. CASE Deny(p)
  BY <1>2 DEF Deny, StateOK, TypeOK, NamesOK, Storing, HasNsp, Leaving
<1>3. CASE Allow(p)
  BY <1>3 DEF Allow, StateOK, TypeOK, NamesOK, Storing, HasNsp, Leaving, Listed
<1>4. CASE CreateChild(p)
  BY <1>4 DEF CreateChild, AddChild, Make, StateOK, TypeOK, NamesOK, Storing, HasNsp,
     Leaving
<1>5. CASE StoreChild(p)
  BY <1>5 DEF StoreChild, StoreNsp, StateOK, TypeOK, NamesOK, Storing, HasNsp, Leaving
<1>6. CASE Of(p)
  <2>1. UNCHANGED <<nsps, children, closed, plain, name>> /\ pc[p] = "of"
    BY <1>6 DEF Of
  <2>2. nsp' = [nsp EXCEPT ![p] = nsp'[p]] /\ (nsp'[p] = nsp[p] \/ nsp'[p] = nsps[name[p]])
    BY <1>6 DEF Of, Listed, StateOK, TypeOK
  <2>3. \A q \in Proc : q # p => pc'[q] = pc[q] /\ nsp'[q] = nsp[q]
    BY <1>6, <2>2 DEF Of, StateOK, TypeOK
  <2>4. pc'[p] \notin {"store", "ofStore", "deleteChild"}
    BY <1>6 DEF Of, StateOK, TypeOK
  <2>5. \A q \in Proc, n \in Name : nsp'[q] # None /\ nsp'[q] = nsps[n] => n = name[q]
    BY <2>2, <2>3 DEF NamesOK, StateOK, TypeOK
  <2>6. \A q, r \in Proc : nsp'[q] # None /\ nsp'[q] = nsp'[r] => name[q] = name[r]
    BY <2>2, <2>3, <2>5 DEF NamesOK, StateOK, TypeOK
  <2>7. ASSUME NEW r \in Proc, Storing(r)'
        PROVE  /\ \A q \in Proc : nsp'[q] = nsp'[r] => q = r
               /\ \A n \in Name : nsps[n] # nsp'[r]
               /\ nsp'[r] \in (children \ closed) \cup plain
    <3>1. r # p /\ Storing(r) /\ nsp'[r] = nsp[r]
      BY <2>3, <2>4, <2>7 DEF Storing
    <3>2. \A n \in Name : nsps[n] # nsp[r]
      BY <3>1 DEF NamesOK
    <3> QED
      BY <2>2, <2>3, <3>1, <3>2 DEF NamesOK, StateOK, TypeOK
  <2>8. \A c \in Remover : pc'[c] = "deleteChild" => \A n \in Name : nsps[n] # nsp'[c]
    BY <2>3, <2>4 DEF NamesOK
  <2> QED
    BY <2>1, <2>5, <2>6, <2>7, <2>8 DEF NamesOK
<1>7. CASE OfCreate(p)
  <2>1. /\ UNCHANGED <<nsps, closed, name>> /\ nsp' = [nsp EXCEPT ![p] = made + 1]
        /\ pc' = [pc EXCEPT ![p] = "ofStore"]
        /\ children \subseteq children' /\ plain \subseteq plain'
        /\ made + 1 \in children' \cup plain'
    BY <1>7 DEF OfCreate, AddChild, Make
  <2>2. /\ nsp'[p] = made + 1 /\ pc'[p] = "ofStore" /\ made + 1 # None
        /\ \A q \in Proc : q # p => nsp'[q] = nsp[q] /\ pc'[q] = pc[q]
    BY <2>1 DEF StateOK, TypeOK
  <2>3. /\ \A q \in Proc : nsp[q] # made + 1
        /\ \A n \in Name : nsps[n] # made + 1
        /\ made + 1 \notin closed
    BY DEF StateOK, TypeOK
  <2>4. \A q, r \in Proc : nsp'[q] # None /\ nsp'[q] = nsp'[r] => name[q] = name[r]
    BY <2>2, <2>3 DEF NamesOK
  <2>5. \A q \in Proc, n \in Name : nsp'[q] # None /\ nsp'[q] = nsps[n] => n = name[q]
    BY <2>2, <2>3 DEF NamesOK
  <2>6. ASSUME NEW r \in Proc, Storing(r)'
        PROVE  /\ \A q \in Proc : nsp'[q] = nsp'[r] => q = r
               /\ \A n \in Name : nsps[n] # nsp'[r]
               /\ nsp'[r] \in (children' \ closed) \cup plain'
    <3>1. CASE r = p
      BY <2>1, <2>2, <2>3, <3>1
    <3>2. CASE r # p
      <4>1. Storing(r) /\ nsp'[r] = nsp[r] /\ nsp[r] # made + 1
        BY <2>2, <2>3, <2>6, <3>2 DEF Storing
      <4> QED
        BY <2>1, <2>2, <4>1 DEF NamesOK
    <3> QED
      BY <3>1, <3>2
  <2>7. \A c \in Remover : pc'[c] = "deleteChild" => \A n \in Name : nsps[n] # nsp'[c]
    BY <2>2 DEF NamesOK
  <2> QED
    BY <2>1, <2>4, <2>5, <2>6, <2>7 DEF NamesOK
<1>8. CASE OfStore(p)
  BY <1>8 DEF OfStore, StoreNsp, StateOK, TypeOK, NamesOK, Storing, HasNsp, Leaving
<1>9. CASE Reject(p)
  BY <1>9 DEF Reject, StateOK, TypeOK, NamesOK, Storing, HasNsp, Leaving
<1>10. CASE Track(p)
  BY <1>10 DEF Track, StateOK, TypeOK, NamesOK, Storing, HasNsp, Leaving
<1>11. CASE Remove(p)
  BY <1>11 DEF Remove, StateOK, TypeOK, NamesOK, Storing, HasNsp, Leaving
<1>12. CASE CheckLen(p)
  BY <1>12 DEF CheckLen, StateOK, TypeOK, NamesOK, Storing, HasNsp, Leaving
<1>13. CASE DeleteName(p)
  BY <1>13 DEF DeleteName, StateOK, TypeOK, NamesOK, Storing, HasNsp, Leaving
<1>14. CASE DeleteChild(p)
  BY <1>14 DEF DeleteChild, StateOK, TypeOK, NamesOK, Storing, HasNsp, Leaving
<1>15. CASE RemoveAgain(p)
  <2>1. PICK c \in Client :
          /\ pc[p] = "again" /\ pc[c] \in {"len", "deleteName", "deleteChild", "gone"}
          /\ nsp' = [nsp EXCEPT ![p] = nsp[c]] /\ name' = [name EXCEPT ![p] = name[c]]
          /\ pc'[p] \in {"len", "gone"}
          /\ \A q \in Proc : q # p => pc'[q] = pc[q]
    BY <1>15 DEF RemoveAgain, StateOK, TypeOK
  <2>2. /\ nsp'[p] = nsp[c] /\ name'[p] = name[c] /\ nsp[c] # None /\ c # p
        /\ \A q \in Proc : q # p => nsp'[q] = nsp[q] /\ name'[q] = name[q]
        /\ UNCHANGED <<nsps, children, closed, plain>>
    BY <1>15, <2>1 DEF RemoveAgain, StateOK, TypeOK, HasNsp, Leaving
  <2>3. \A q, r \in Proc : nsp'[q] # None /\ nsp'[q] = nsp'[r] => name'[q] = name'[r]
    BY <2>2 DEF NamesOK
  <2>4. \A q \in Proc, n \in Name : nsp'[q] # None /\ nsp'[q] = nsps[n] => n = name'[q]
    BY <2>2 DEF NamesOK
  <2>5. ASSUME NEW r \in Proc, Storing(r)'
        PROVE  /\ \A q \in Proc : nsp'[q] = nsp'[r] => q = r
               /\ \A n \in Name : nsps[n] # nsp'[r]
               /\ nsp'[r] \in (children \ closed) \cup plain
    <3>1. r # p /\ Storing(r) /\ nsp'[r] = nsp[r] /\ r # c
      BY <2>1, <2>2, <2>5 DEF Storing
    <3>2. nsp[c] # nsp[r]
      BY <3>1 DEF NamesOK
    <3> QED
      BY <2>2, <3>1, <3>2 DEF NamesOK
  <2>6. \A d \in Remover : pc'[d] = "deleteChild" => \A n \in Name : nsps[n] # nsp'[d]
    BY <2>1, <2>2 DEF NamesOK
  <2>7. \A m, n \in Name : nsps[m] # None /\ nsps[m] = nsps[n] => m = n
    BY DEF NamesOK
  <2> QED
    BY <2>2, <2>3, <2>4, <2>5, <2>6, <2>7 DEF NamesOK
<1> QED
  BY <1>1, <1>2, <1>3, <1>4, <1>5, <1>6, <1>7, <1>8, <1>9, <1>10, <1>11, <1>12, <1>13,
     <1>14, <1>15 DEF Step

(* Connections and removals that overlap are recorded. *)
LEMMA ApartStep ==
  ASSUME StateOK, Apart, NEW p \in Proc, Step(p) \/ Deny(p) \/ Reject(p)
  PROVE  Apart'
<1> USE NameAssumption DEF Goto, options, server, history, Nsp, Proc, Remover
<1>1. CASE Connect(p)
  BY <1>1 DEF Connect, StateOK, TypeOK, Apart, Connecting, Removing, HasNsp, Leaving
<1>2. CASE Deny(p)
  BY <1>2 DEF Deny, StateOK, TypeOK, Apart, Connecting, Removing, HasNsp, Leaving
<1>3. CASE Allow(p)
  BY <1>3 DEF Allow, StateOK, TypeOK, Apart, Connecting, Removing, HasNsp, Leaving
<1>4. CASE CreateChild(p)
  BY <1>4 DEF CreateChild, AddChild, Make, StateOK, TypeOK, Apart, Connecting, Removing,
     HasNsp, Leaving
<1>5. CASE StoreChild(p)
  BY <1>5 DEF StoreChild, StoreNsp, StateOK, TypeOK, Apart, Connecting, Removing,
     HasNsp, Leaving
<1>6. CASE Of(p)
  BY <1>6 DEF Of, StateOK, TypeOK, Apart, Connecting, Removing, HasNsp, Leaving
<1>7. CASE OfCreate(p)
  BY <1>7 DEF OfCreate, AddChild, Make, StateOK, TypeOK, Apart, Connecting, Removing,
     HasNsp, Leaving
<1>8. CASE OfStore(p)
  BY <1>8 DEF OfStore, StoreNsp, StateOK, TypeOK, Apart, Connecting, Removing, HasNsp,
     Leaving
<1>9. CASE Reject(p)
  BY <1>9 DEF Reject, StateOK, TypeOK, Apart, Connecting, Removing, HasNsp, Leaving
<1>10. CASE Track(p)
  BY <1>10 DEF Track, StateOK, TypeOK, Apart, Connecting, Removing, HasNsp, Leaving
<1>11. CASE Remove(p)
  BY <1>11 DEF Remove, StateOK, TypeOK, Apart, Connecting, Removing, HasNsp, Leaving
<1>12. CASE CheckLen(p)
  BY <1>12 DEF CheckLen, StateOK, TypeOK, Apart, Connecting, Removing, HasNsp, Leaving
<1>13. CASE DeleteName(p)
  BY <1>13 DEF DeleteName, StateOK, TypeOK, Apart, Connecting, Removing, HasNsp, Leaving
<1>14. CASE DeleteChild(p)
  BY <1>14 DEF DeleteChild, StateOK, TypeOK, Apart, Connecting, Removing, HasNsp,
     Leaving
<1>15. CASE RemoveAgain(p)
  BY <1>15 DEF RemoveAgain, StateOK, TypeOK, Apart, Connecting, Removing, HasNsp, Leaving
<1> QED
  BY <1>1, <1>2, <1>3, <1>4, <1>5, <1>6, <1>7, <1>8, <1>9, <1>10, <1>11, <1>12, <1>13,
     <1>14, <1>15 DEF Step

(* What is listed stays good. *)
LEMMA ReachStep ==
  ASSUME StateOK, NamesOK, Apart, ReachOK, NEW p \in Proc, Step(p) \/ Deny(p) \/ Reject(p)
  PROVE  ReachOK'
<1> USE NameAssumption DEF Goto, options, server, history, Nsp, Proc, Remover
<1>1. CASE Connect(p)
  BY <1>1 DEF Connect, StateOK, TypeOK, NamesOK, Apart, ReachOK, Good, Storing,
     Connecting, Removing, HasNsp, Leaving, Listed
<1>2. CASE Deny(p)
  BY <1>2 DEF Deny, StateOK, TypeOK, NamesOK, Apart, ReachOK, Good, Storing, Connecting,
     Removing, HasNsp, Leaving
<1>3. CASE Allow(p)
  BY <1>3 DEF Allow, StateOK, TypeOK, NamesOK, Apart, ReachOK, Good, Storing,
     Connecting, Removing, HasNsp, Leaving, Listed
<1>4. CASE CreateChild(p)
  BY <1>4 DEF CreateChild, AddChild, Make, StateOK, TypeOK, NamesOK, Apart, ReachOK,
     Good, Storing, Connecting, Removing, HasNsp, Leaving
<1>5. CASE StoreChild(p)
  BY <1>5 DEF StoreChild, StoreNsp, StateOK, TypeOK, NamesOK, Apart, ReachOK, Good,
     Storing, Connecting, Removing, HasNsp, Leaving
<1>6. CASE Of(p)
  <2> SUFFICES ASSUME ~raced' PROVE ReachOK'
    BY DEF ReachOK
  <2>1. UNCHANGED <<nsps, children, closed, plain, sockets, raced>> /\ pc[p] = "of"
    BY <1>6 DEF Of
  <2>2. \A c \in Remover : pc'[c] \in {"deleteName", "deleteChild"} =>
          pc[c] = pc'[c] /\ nsp'[c] = nsp[c]
    BY <1>6, <2>1 DEF Of, StateOK, TypeOK
  <2>3. \A c \in Remover : pc[c] = "deleteName" => pc'[c] = "deleteName" /\ nsp'[c] = nsp[c]
    BY <1>6, <2>1 DEF Of, StateOK, TypeOK
  <2>4. ASSUME NEW c \in Client, pc'[c] = "add" PROVE nsp'[c] \in Good
    <3>1. CASE c = p
      <4>1. Removing = {}
        BY <2>1, <3>1 DEF Apart, Connecting
      <4>2. nsp'[c] = Listed(c) /\ Listed(c) # None
        BY <1>6, <2>4, <3>1 DEF Of, StateOK, TypeOK
      <4> QED
        BY <2>1, <4>1, <4>2 DEF ReachOK, Removing, Listed, StateOK, TypeOK
    <3>2. CASE c # p
      BY <1>6, <2>1, <2>4, <3>2 DEF Of, StateOK, TypeOK, ReachOK
    <3> QED
      BY <3>1, <3>2
  <2> QED
    BY <2>1, <2>2, <2>3, <2>4 DEF ReachOK, Good
<1>7. CASE OfCreate(p)
  <2> SUFFICES ASSUME ~raced' PROVE ReachOK'
    BY DEF ReachOK
  <2>1. UNCHANGED <<nsps, closed, sockets, raced>> /\ Good \subseteq Good'
    BY <1>7 DEF OfCreate, AddChild, Good
  <2>2. \A c \in Remover : pc[c] \in {"add", "deleteName", "deleteChild"} =>
          pc'[c] = pc[c] /\ nsp'[c] = nsp[c]
    BY <1>7 DEF OfCreate, AddChild, Make, StateOK, TypeOK
  <2>3. \A c \in Remover : pc'[c] \in {"add", "deleteName", "deleteChild"} => pc[c] = pc'[c]
    BY <1>7 DEF OfCreate, StateOK, TypeOK
  <2> QED
    BY <2>1, <2>2, <2>3 DEF ReachOK
<1>8. CASE OfStore(p)
  <2> SUFFICES ASSUME ~raced' PROVE ReachOK'
    BY DEF ReachOK
  <2>1. /\ UNCHANGED <<children, closed, plain, sockets, nsp, name, raced>>
        /\ pc[p] = "ofStore" /\ nsps' = [nsps EXCEPT ![name[p]] = nsp[p]]
        /\ pc'[p] \in {"done", "add"} /\ \A q \in Proc : q # p => pc'[q] = pc[q]
    BY <1>8 DEF OfStore, StoreNsp, StateOK, TypeOK
  <2>2. nsp[p] \in Good
    BY <2>1 DEF NamesOK, Storing, Good
  <2>3. \A n \in Name : nsps'[n] = nsps[n] \/ nsps'[n] = nsp[p]
    BY <2>1 DEF StateOK, TypeOK
  <2> QED
    BY <2>1, <2>2, <2>3 DEF ReachOK, Good
<1>9. CASE Reject(p)
  BY <1>9 DEF Reject, StateOK, TypeOK, NamesOK, Apart, ReachOK, Good, Storing,
     Connecting, Removing, HasNsp, Leaving
<1>10. CASE Track(p)
  <2> SUFFICES ASSUME ~raced' PROVE ReachOK'
    BY DEF ReachOK
  <2>1. /\ UNCHANGED <<nsps, children, closed, plain, nsp, name, raced>>
        /\ pc[p] = "add" /\ p \in Client /\ pc'[p] = "connected"
        /\ \A q \in Proc : q # p => pc'[q] = pc[q]
        /\ \A i \in Nsp : i # nsp[p] => sockets'[i] = sockets[i]
    BY <1>10 DEF Track, StateOK, TypeOK
  <2>2. nsp[p] \in Good
    BY <2>1 DEF ReachOK
  <2>3. \A c \in Remover : pc'[c] \notin {"deleteName", "deleteChild"}
    <3>1. Removing = {}
      BY <2>1 DEF Apart, Connecting
    <3> QED
      BY <2>1, <3>1 DEF Removing
  <2>4. \A n \in Name : nsps[n] # None => nsps[n] \in Good
    BY <2>1, <2>3 DEF ReachOK
  <2> QED
    BY <2>1, <2>2, <2>3, <2>4 DEF ReachOK, Good
<1>11. CASE Remove(p)
  <2> SUFFICES ASSUME ~raced' PROVE ReachOK'
    BY DEF ReachOK
  <2>1. /\ UNCHANGED <<nsps, children, closed, plain, nsp, name>> /\ ~raced
        /\ pc[p] = "connected" /\ pc'[p] \in {"len", "gone"}
        /\ \A q \in Proc : q # p => pc'[q] = pc[q]
        /\ \A i \in Nsp : sockets'[i] \subseteq sockets[i]
    BY <1>11 DEF Remove, StateOK, TypeOK
  <2>2. \A c \in Remover : pc[c] = "deleteName" => pc'[c] = "deleteName"
    BY <2>1
  <2>3. \A c \in Remover : pc'[c] \in {"deleteName", "deleteChild"} =>
          sockets'[nsp[c]] = {}
    <3> SUFFICES ASSUME NEW c \in Remover, pc'[c] \in {"deleteName", "deleteChild"}
                 PROVE  sockets'[nsp[c]] = {}
      OBVIOUS
    <3>1. pc[c] = pc'[c] /\ nsp[c] \in Nsp
      BY <2>1 DEF StateOK, TypeOK, HasNsp, Leaving
    <3> QED
      BY <2>1, <3>1 DEF ReachOK
  <2>4. \A c \in Client : pc'[c] = "add" => pc[c] = "add"
    BY <2>1
  <2> QED
    BY <2>1, <2>2, <2>3, <2>4 DEF ReachOK, Good
<1>12. CASE CheckLen(p)
  BY <1>12 DEF CheckLen, StateOK, TypeOK, NamesOK, Apart, ReachOK, Good, Storing,
     Connecting, Removing, HasNsp, Leaving
<1>13. CASE DeleteName(p)
  BY <1>13 DEF DeleteName, StateOK, TypeOK, NamesOK, Apart, ReachOK, Good, Storing,
     Connecting, Removing, HasNsp, Leaving
<1>14. CASE DeleteChild(p)
  <2> SUFFICES ASSUME ~raced' PROVE ReachOK'
    BY DEF ReachOK
  <2>1. UNCHANGED <<nsps, closed, plain, sockets, nsp, name, raced>> /\ pc[p] = "deleteChild"
        /\ children' = children \ {nsp[p]} /\ p \in Remover /\ nsp[p] # None
    BY <1>14 DEF DeleteChild, StateOK, HasNsp, Leaving
  <2>2. pc' = [pc EXCEPT ![p] = "gone"]
    BY <1>14 DEF DeleteChild
  <2>3. Connecting = {} /\ sockets[nsp[p]] = {}
    BY <2>1 DEF Apart, Removing, ReachOK
  <2>4. \A c \in Client : pc[c] # "add"
    BY <2>3 DEF Connecting
  <2>5. \A n \in Name : nsps[n] # nsp[p]
    BY <2>1 DEF NamesOK
  <2> QED
    BY <2>1, <2>2, <2>3, <2>4, <2>5 DEF ReachOK, Good, StateOK, TypeOK
<1>15. CASE RemoveAgain(p)
  BY <1>15 DEF RemoveAgain, StateOK, TypeOK, NamesOK, Apart, ReachOK, Good, Storing,
     Connecting, Removing, HasNsp, Leaving
<1> QED
  BY <1>1, <1>2, <1>3, <1>4, <1>5, <1>6, <1>7, <1>8, <1>9, <1>10, <1>11, <1>12, <1>13,
     <1>14, <1>15 DEF Step

(* An empty child stays attended. *)
LEMMA EmptyStep ==
  ASSUME StateOK, NamesOK, EmptyOK, NEW p \in Proc, Step(p) \/ Deny(p) \/ Reject(p)
  PROVE  EmptyOK'
<1> USE NameAssumption DEF Goto, options, server, history, Nsp, Proc, Remover
<1>1. CASE Connect(p)
  BY <1>1 DEF Connect, StateOK, TypeOK, NamesOK, EmptyOK, Attended, Forgotten, Storing,
     HasNsp, Leaving, Listed
<1>2. CASE Deny(p)
  BY <1>2 DEF Deny, StateOK, TypeOK, NamesOK, EmptyOK, Attended, Forgotten, Storing,
     HasNsp, Leaving
<1>3. CASE Allow(p)
  BY <1>3 DEF Allow, StateOK, TypeOK, NamesOK, EmptyOK, Attended, Forgotten, Storing,
     HasNsp, Leaving, Listed
<1>4. CASE CreateChild(p)
  <2> SUFFICES ASSUME cleanup', NEW c \in Client,
                      pc'[c] \in Leaving \cup {"gone"}, nsp'[c] \notin plain',
                      sockets'[nsp'[c]] = {}
               PROVE  Attended(nsp[c])'
    BY DEF EmptyOK
  <2>1. c # p /\ nsp'[c] = nsp[c] /\ nsp[c] \in 1 .. made
    BY <1>4 DEF CreateChild, AddChild, Make, StateOK, TypeOK, HasNsp, Leaving
  <2>2. Attended(nsp[c])
    BY <1>4, <2>1 DEF CreateChild, AddChild, StateOK, TypeOK, EmptyOK, Leaving
  <2> QED
    BY <1>4, <2>1, <2>2 DEF CreateChild, AddChild, Make, StateOK, TypeOK, Attended,
       Forgotten
<1>5. CASE StoreChild(p)
  BY <1>5 DEF StoreChild, StoreNsp, StateOK, TypeOK, NamesOK, EmptyOK, Attended,
     Forgotten, Storing, HasNsp, Leaving
<1>6. CASE Of(p)
  <2> SUFFICES ASSUME cleanup', NEW c \in Client,
                      pc'[c] \in Leaving \cup {"gone"}, nsp'[c] \notin plain',
                      sockets'[nsp'[c]] = {}
               PROVE  Attended(nsp[c])'
    BY DEF EmptyOK
  <2>1. c # p /\ nsp'[c] = nsp[c]
    BY <1>6 DEF Of, StateOK, TypeOK, Leaving
  <2>2. Attended(nsp[c])
    BY <1>6, <2>1 DEF Of, StateOK, TypeOK, EmptyOK, Leaving
  <2> QED
    BY <1>6, <2>1, <2>2 DEF Of, StateOK, TypeOK, Attended, Forgotten
<1>7. CASE OfCreate(p)
  <2> SUFFICES ASSUME cleanup', NEW c \in Client,
                      pc'[c] \in Leaving \cup {"gone"}, nsp'[c] \notin plain',
                      sockets'[nsp'[c]] = {}
               PROVE  Attended(nsp[c])'
    BY DEF EmptyOK
  <2>1. c # p /\ nsp'[c] = nsp[c] /\ nsp[c] \in 1 .. made
    <3>1. pc' = [pc EXCEPT ![p] = "ofStore"] /\ nsp' = [nsp EXCEPT ![p] = made + 1]
      BY <1>7 DEF OfCreate, AddChild, Make
    <3>2. c # p /\ nsp'[c] = nsp[c] /\ pc[c] \in HasNsp
      BY <3>1 DEF StateOK, TypeOK, HasNsp, Leaving
    <3> QED
      BY <3>2 DEF StateOK
  <2>2. UNCHANGED <<cleanup, nsps, sockets>> /\ plain \subseteq plain'
    BY <1>7 DEF OfCreate, AddChild
  <2>3. \A d \in Remover : pc[d] \in Leaving => pc'[d] = pc[d] /\ nsp'[d] = nsp[d]
    BY <1>7 DEF OfCreate, AddChild, Make, StateOK, TypeOK, Leaving
  <2>4. Attended(nsp[c])
    BY <1>7, <2>1, <2>2 DEF OfCreate, StateOK, TypeOK, EmptyOK, Leaving
  <2>5. nsp[c] \notin children => nsp[c] \notin children'
    <3>1. children' = children \/ children' = children \cup {made + 1}
      BY <1>7 DEF OfCreate, AddChild
    <3>2. nsp[c] # made + 1
      BY <2>1 DEF StateOK, TypeOK
    <3> QED
      BY <3>1, <3>2
  <2> QED
    BY <2>1, <2>2, <2>3, <2>4, <2>5 DEF Attended, Forgotten, Leaving
<1>8. CASE OfStore(p)
  <2> SUFFICES ASSUME cleanup', NEW c \in Client,
                      pc'[c] \in Leaving \cup {"gone"}, nsp'[c] \notin plain',
                      sockets'[nsp'[c]] = {}
               PROVE  Attended(nsp[c])'
    BY DEF EmptyOK
  <2>1. /\ UNCHANGED <<cleanup, children, plain, sockets, nsp>>
        /\ pc[p] = "ofStore" /\ nsps' = [nsps EXCEPT ![name[p]] = nsp[p]]
        /\ pc'[p] \in {"done", "add"} /\ \A q \in Proc : q # p => pc'[q] = pc[q]
    BY <1>8 DEF OfStore, StoreNsp, StateOK, TypeOK
  <2>2. c # p /\ Attended(nsp[c])
    BY <2>1 DEF EmptyOK, Leaving
  <2>3. Forgotten(nsp[c]) => Forgotten(nsp[c])'
    <3>1. nsp[p] # nsp[c]
      BY <2>1, <2>2 DEF NamesOK, Storing
    <3> QED
      BY <2>1, <3>1 DEF Forgotten, StateOK, TypeOK
  <2> QED
    BY <2>1, <2>2, <2>3 DEF Attended, Leaving
<1>9. CASE Reject(p)
  BY <1>9 DEF Reject, StateOK, TypeOK, NamesOK, EmptyOK, Attended, Forgotten, Storing,
     HasNsp, Leaving
<1>10. CASE Track(p)
  <2> SUFFICES ASSUME cleanup', NEW c \in Client,
                      pc'[c] \in Leaving \cup {"gone"}, nsp'[c] \notin plain',
                      sockets'[nsp'[c]] = {}
               PROVE  Attended(nsp[c])'
    BY DEF EmptyOK
  <2>1. /\ UNCHANGED <<cleanup, nsps, children, plain, nsp>> /\ pc[p] = "add"
        /\ pc'[p] = "connected" /\ \A q \in Proc : q # p => pc'[q] = pc[q]
    BY <1>10 DEF Track, StateOK, TypeOK
  <2>2. c # p /\ nsp[c] \in Nsp
    BY <2>1 DEF StateOK, TypeOK, HasNsp, Leaving
  <2>3. sockets[nsp[c]] = {}
    BY <1>10, <2>1, <2>2 DEF Track, StateOK, TypeOK
  <2>4. Attended(nsp[c])
    BY <2>1, <2>2, <2>3 DEF EmptyOK
  <2> QED
    BY <2>1, <2>4 DEF Attended, Forgotten
<1>11. CASE Remove(p)
  <2> SUFFICES ASSUME cleanup', NEW c \in Client,
                      pc'[c] \in Leaving \cup {"gone"}, nsp'[c] \notin plain',
                      sockets'[nsp'[c]] = {}
               PROVE  Attended(nsp[c])'
    BY DEF EmptyOK
  <2>1. UNCHANGED <<options, server, name, nsp>> /\ pc[p] = "connected" /\ p \in Client
    BY <1>11 DEF Remove, StateOK
  <2>2. CASE c = p
    BY <1>11, <2>1, <2>2 DEF Remove, StateOK, TypeOK, Attended, Leaving
  <2>3. CASE c # p /\ nsp[c] = nsp[p]
    BY <1>11, <2>1, <2>3 DEF Remove, StateOK, TypeOK, Attended, Leaving
  <2>4. CASE c # p /\ nsp[c] # nsp[p]
    <3>1. pc'[c] = pc[c] /\ sockets'[nsp[c]] = sockets[nsp[c]]
      BY <1>11, <2>1, <2>4 DEF Remove, StateOK, TypeOK, HasNsp, Leaving
    <3>2. Attended(nsp[c])
      BY <2>1, <3>1 DEF EmptyOK
    <3> QED
      BY <1>11, <2>1, <3>2 DEF Remove, StateOK, TypeOK, Attended, Forgotten
  <2> QED
    BY <2>2, <2>3, <2>4
<1>12. CASE CheckLen(p)
  BY <1>12 DEF CheckLen, StateOK, TypeOK, NamesOK, EmptyOK, Attended, Forgotten,
     Storing, HasNsp, Leaving
<1>13. CASE DeleteName(p)
  BY <1>13 DEF DeleteName, StateOK, TypeOK, NamesOK, EmptyOK, Attended, Forgotten,
     Storing, HasNsp, Leaving
<1>14. CASE DeleteChild(p)
  BY <1>14 DEF DeleteChild, StateOK, TypeOK, NamesOK, EmptyOK, Attended, Forgotten,
     Storing, HasNsp, Leaving
<1>15. CASE RemoveAgain(p)
  <2> SUFFICES ASSUME cleanup', NEW c \in Client,
                      pc'[c] \in Leaving \cup {"gone"}, nsp'[c] \notin plain',
                      sockets'[nsp'[c]] = {}
               PROVE  Attended(nsp[c])'
    BY DEF EmptyOK
  <2>1. /\ UNCHANGED <<cleanup, nsps, children, plain, sockets>>
        /\ pc[p] = "again" /\ p \in Closer
        /\ \A q \in Proc : q # p => pc'[q] = pc[q] /\ nsp'[q] = nsp[q]
    BY <1>15 DEF RemoveAgain, StateOK, TypeOK
  <2>2. c # p /\ Attended(nsp[c])
    BY <2>1 DEF EmptyOK
  <2> QED
    BY <2>1, <2>2 DEF Attended, Forgotten
<1> QED
  BY <1>1, <1>2, <1>3, <1>4, <1>5, <1>6, <1>7, <1>8, <1>9, <1>10, <1>11, <1>12, <1>13,
     <1>14, <1>15 DEF Step

(* Clients that connect one at a time keep finding what is listed. *)
LEMMA ListStep ==
  ASSUME StateOK, NamesOK, Apart, ReachOK, ListOK, NEW p \in Proc, Step(p) \/ Deny(p) \/ Reject(p)
  PROVE  ListOK'
<1> USE NameAssumption DEF Goto, options, server, history, Nsp, Proc, Remover
<1>1. CASE Connect(p)
  <2> SUFFICES ASSUME ~raced', ~doubled' PROVE ListOK'
    BY DEF ListOK
  <2>1. UNCHANGED <<nsps, sockets, name, nsp, twice>> /\ pc[p] = "start" /\ p \in Client
        /\ ~raced /\ ~doubled /\ Removing = {} /\ Connecting = {} /\ Calling = {}
    BY <1>1 DEF Connect
  <2>2. pc' = [pc EXCEPT ![p] = pc'[p]] /\ pc'[p] \in {"check", "of"}
        /\ (pc'[p] = "check" => nsps[name[p]] = None)
    BY <1>1 DEF Connect, Listed, StateOK, TypeOK
  <2>3. \A q \in Proc : q # p => pc'[q] = pc[q]
    BY <2>2 DEF StateOK, TypeOK
  <2>4. \A c \in Client : pc'[c] \in {"connected", "add"} => c # p /\ pc[c] = pc'[c]
    BY <2>2, <2>3
  <2>5. \A c \in Client : pc'[c] = "connected" =>
          (nsp[c] = nsps[name[c]] \/ name[c] \in twice) /\ nsp[c] # None
    BY <2>1, <2>4 DEF ListOK, Listed, StateOK, HasNsp
  <2>6. Connecting' \subseteq {p} /\ Calling' = {} /\ Removing' = {}
    BY <2>1, <2>2, <2>3 DEF Connecting, Calling, Removing
  <2>7. ASSUME NEW q \in Proc, NEW c \in Client, pc'[c] = "connected",
               pc'[q] \in {"check", "create", "store", "ofCreate", "ofStore"}
        PROVE  name[q] # name[c] \/ name[c] \in twice
    <3>1. q = p
      <4>1. q # p => q \in Connecting \cup Calling
        BY <2>3, <2>7 DEF Connecting, Calling, StateOK
      <4> QED
        BY <2>1, <4>1
    <3> QED
      BY <2>2, <2>5, <2>7, <3>1
  <2>8. \A c \in Client : pc'[c] = "connected" =>
          (nsp'[c] = Listed(c)' \/ name[c] \in twice) /\ c \in sockets'[nsp'[c]]
    BY <2>1, <2>4 DEF ListOK, Listed
  <2>9. \A c \in Client : pc'[c] = "add" => nsp'[c] = Listed(c)'
    BY <2>1, <2>4 DEF ListOK, Listed
  <2>10. \A k \in Closer : pc'[k] \in Leaving => name[k] \in twice
    BY <2>1, <2>2, <2>3 DEF ListOK, Leaving
  <2> QED
    BY <2>1, <2>6, <2>7, <2>8, <2>9, <2>10 DEF ListOK
<1>2. CASE Deny(p)
  BY <1>2 DEF Deny, StateOK, TypeOK, NamesOK, Apart, ReachOK, ListOK, Storing,
     Connecting, Removing, Calling, HasNsp, Leaving, Listed
<1>3. CASE Allow(p)
  BY <1>3 DEF Allow, StateOK, TypeOK, NamesOK, Apart, ReachOK, ListOK, Storing,
     Connecting, Removing, Calling, HasNsp, Leaving, Listed
<1>4. CASE CreateChild(p)
  BY <1>4 DEF CreateChild, AddChild, Make, StateOK, TypeOK, NamesOK, Apart, ReachOK,
     ListOK, Storing, Connecting, Removing, Calling, HasNsp, Leaving, Listed
<1>5. CASE StoreChild(p)
  BY <1>5 DEF StoreChild, StoreNsp, StateOK, TypeOK, NamesOK, Apart, ReachOK, ListOK,
     Storing, Connecting, Removing, Calling, HasNsp, Leaving, Listed
<1>6. CASE Of(p)
  <2> SUFFICES ASSUME ~raced', ~doubled' PROVE ListOK'
    BY DEF ListOK
  <2>1. UNCHANGED <<nsps, sockets, name, twice>> /\ pc[p] = "of" /\ ~raced /\ ~doubled
        /\ (p \in User => Connecting = {})
    BY <1>6 DEF Of
  <2>2. \A q \in Proc : q # p => pc'[q] = pc[q] /\ nsp'[q] = nsp[q]
    BY <1>6 DEF Of, StateOK, TypeOK
  <2>3. \/ pc'[p] = "ofCreate" /\ nsps[name[p]] = None
        \/ pc'[p] = "done" /\ p \in User
        \/ pc'[p] = "add" /\ p \in Client /\ nsp'[p] = nsps[name[p]]
    BY <1>6 DEF Of, Listed, StateOK, TypeOK
  <2>4. \A c \in Client : pc'[c] = "connected" => c # p /\ pc[c] = "connected" /\ nsp'[c] = nsp[c]
    BY <2>2, <2>3
  <2>5. \A c \in Client : pc'[c] = "connected" =>
          (nsp[c] = nsps[name[c]] \/ name[c] \in twice) /\ nsp[c] # None
          /\ c \in sockets[nsp[c]]
    BY <2>1, <2>4 DEF ListOK, Listed, StateOK, HasNsp
  <2>6. Removing' = Removing /\ p \notin Removing /\ Connecting' = Connecting
        /\ Calling' \subseteq Calling \cup ({p} \cap User)
    BY <2>1, <2>2, <2>3 DEF Removing, Connecting, Calling
  <2>7. \A c \in Connecting', q \in Connecting' \cup Calling' : c = q
    BY <2>1, <2>6 DEF ListOK
  <2>8. ASSUME NEW q \in Proc, NEW c \in Client, pc'[c] = "connected",
               pc'[q] \in {"check", "create", "store", "ofCreate", "ofStore"}
        PROVE  name[q] # name[c] \/ name[c] \in twice
    <3>1. CASE q = p
      BY <2>3, <2>5, <2>8, <3>1
    <3>2. CASE q # p
      BY <2>1, <2>2, <2>4, <2>8, <3>2 DEF ListOK
    <3> QED
      BY <3>1, <3>2
  <2>9. \A c \in Client : pc'[c] = "add" => nsp'[c] = nsps[name[c]]
    BY <2>1, <2>2, <2>3 DEF ListOK, Listed
  <2>10. \A c \in Removing', d \in Client :
           pc'[d] = "connected" /\ name[d] = name[c] =>
             nsp'[d] = nsp'[c] \/ name[c] \in twice
    <3> SUFFICES ASSUME NEW c \in Removing, NEW e \in Client, pc[e] = "connected",
                        name[e] = name[c], e # p
                 PROVE  nsp'[e] = nsp'[c] \/ name[c] \in twice
      BY <2>4, <2>6
    <3>1. nsp[e] = nsp[c] \/ name[c] \in twice
      BY <2>1 DEF ListOK
    <3>2. c # p /\ c \in Proc /\ e \in Proc
      BY <2>6 DEF Removing
    <3> QED
      BY <2>2, <3>1, <3>2
  <2>11. \A k \in Closer : pc'[k] \in Leaving => name[k] \in twice
    BY <2>1, <2>2, <2>3 DEF ListOK, Leaving
  <2> QED
    BY <2>1, <2>4, <2>5, <2>7, <2>8, <2>9, <2>10, <2>11 DEF ListOK, Listed
<1>7. CASE OfCreate(p)
  BY <1>7 DEF OfCreate, AddChild, Make, StateOK, TypeOK, NamesOK, Apart, ReachOK,
     ListOK, Storing, Connecting, Removing, Calling, HasNsp, Leaving, Listed
<1>8. CASE OfStore(p)
  BY <1>8 DEF OfStore, StoreNsp, StateOK, TypeOK, NamesOK, Apart, ReachOK, ListOK,
     Storing, Connecting, Removing, Calling, HasNsp, Leaving, Listed
<1>9. CASE Reject(p)
  BY <1>9 DEF Reject, StateOK, TypeOK, NamesOK, Apart, ReachOK, ListOK, Storing,
     Connecting, Removing, Calling, HasNsp, Leaving, Listed
<1>10. CASE Track(p)
  <2> SUFFICES ASSUME ~raced', ~doubled' PROVE ListOK'
    BY DEF ListOK
  <2>1. UNCHANGED <<nsps, name, nsp, raced, doubled, twice>> /\ pc[p] = "add"
        /\ p \in Client
    BY <1>10 DEF Track, StateOK
  <2>2. pc' = [pc EXCEPT ![p] = "connected"] /\ p \in Connecting
    BY <1>10, <2>1 DEF Track, Connecting
  <2>3. \A q \in Proc : q # p => pc'[q] = pc[q]
    BY <2>2 DEF StateOK, TypeOK
  <2>4. pc'[p] = "connected" /\ Removing = {} /\ Removing' = {}
    BY <2>1, <2>2, <2>3 DEF Apart, Removing, StateOK, TypeOK
  <2>5. \A i \in Nsp : sockets[i] \subseteq sockets'[i]
    BY <1>10 DEF Track, StateOK, TypeOK
  <2>6. nsp[p] = Listed(p) /\ nsp[p] \in Nsp /\ p \in sockets'[nsp[p]]
    BY <1>10, <2>1 DEF Track, ListOK, StateOK, TypeOK, HasNsp
  <2>7. \A c \in Client : pc'[c] = "connected" =>
          (nsp[c] = Listed(c) \/ name[c] \in twice) /\ c \in sockets'[nsp[c]]
    <3> SUFFICES ASSUME NEW c \in Client, pc'[c] = "connected", c # p
                 PROVE  (nsp[c] = Listed(c) \/ name[c] \in twice)
                        /\ c \in sockets'[nsp[c]]
      BY <2>6
    <3>1. pc[c] = "connected"
      BY <2>3
    <3>2. (nsp[c] = Listed(c) \/ name[c] \in twice) /\ c \in sockets[nsp[c]]
          /\ nsp[c] \in Nsp
      BY <2>1, <3>1 DEF ListOK, StateOK, TypeOK, HasNsp
    <3> QED
      BY <2>5, <3>2
  <2>8. Connecting' \subseteq Connecting /\ Calling' = Calling
    BY <2>1, <2>2, <2>3, <2>4 DEF Connecting, Calling, StateOK, TypeOK
  <2>9. ASSUME NEW q \in Proc, NEW c \in Client, pc'[c] = "connected",
               pc'[q] \in {"check", "create", "store", "ofCreate", "ofStore"}
        PROVE  name[q] # name[c] \/ name[c] \in twice
    <3>1. q # p /\ pc[q] = pc'[q]
      BY <2>3, <2>4, <2>9
    <3>2. q \in Connecting \cup Calling
      BY <2>9, <3>1 DEF Connecting, Calling, StateOK
    <3> QED
      BY <2>1, <2>2, <3>1, <3>2 DEF ListOK
  <2>10. \A c \in Client : pc'[c] = "add" => nsp[c] = Listed(c)
    BY <2>1, <2>3, <2>4 DEF ListOK
  <2>11. \A k \in Closer : pc'[k] \in Leaving => name[k] \in twice
    BY <2>1, <2>3, <2>4 DEF ListOK, Leaving
  <2> QED
    BY <2>1, <2>4, <2>7, <2>8, <2>9, <2>10, <2>11 DEF ListOK, Listed
<1>11. CASE Remove(p)
  BY <1>11 DEF Remove, StateOK, TypeOK, NamesOK, Apart, ReachOK, ListOK, Storing,
     Connecting, Removing, Calling, HasNsp, Leaving, Listed
<1>12. CASE CheckLen(p)
  BY <1>12 DEF CheckLen, StateOK, TypeOK, NamesOK, Apart, ReachOK, ListOK, Storing,
     Connecting, Removing, Calling, HasNsp, Leaving, Listed
<1>13. CASE DeleteName(p)
  <2> SUFFICES ASSUME ~raced', ~doubled' PROVE ListOK'
    BY DEF ListOK
  <2>1. /\ UNCHANGED <<sockets, name, nsp, raced, doubled, twice>>
        /\ pc[p] = "deleteName" /\ pc'[p] = "deleteChild" /\ p \in Remover
        /\ \A q \in Proc : q # p => pc'[q] = pc[q]
        /\ nsps' = [nsps EXCEPT ![name[p]] = None]
    BY <1>13 DEF DeleteName, StateOK, TypeOK
  <2>2. Connecting = {} /\ sockets[nsp[p]] = {} /\ p \in Removing
    BY <2>1 DEF Apart, Removing, ReachOK
  <2>3. Connecting' = {} /\ Calling' = Calling /\ Removing' = Removing
    BY <2>1, <2>2 DEF Connecting, Calling, Removing
  <2>4. \A c \in Client : pc'[c] # "add"
    BY <2>3 DEF Connecting
  <2>5. ASSUME NEW c \in Client, pc'[c] = "connected"
        PROVE  (nsp[c] = Listed(c)' \/ name[c] \in twice) /\ c \in sockets[nsp[c]]
    <3>1. pc[c] = "connected"
      BY <2>1, <2>5
    <3>2. (nsp[c] = Listed(c) \/ name[c] \in twice) /\ c \in sockets[nsp[c]]
      BY <2>1, <3>1 DEF ListOK
    <3>3. nsp[c] # nsp[p]
      BY <2>2, <3>2
    <3>4. name[c] = name[p] => name[c] \in twice
      BY <2>1, <2>2, <3>1, <3>3 DEF ListOK
    <3>5. name[c] # name[p] => Listed(c)' = Listed(c)
      BY <2>1 DEF Listed, StateOK, TypeOK
    <3> QED
      BY <3>2, <3>4, <3>5
  <2>6. ASSUME NEW q \in Proc, NEW c \in Client, pc'[c] = "connected",
               pc'[q] \in {"check", "create", "store", "ofCreate", "ofStore"}
        PROVE  name[q] # name[c] \/ name[c] \in twice
    <3>1. pc[c] = "connected" /\ pc[q] = pc'[q]
      BY <2>1, <2>6
    <3> QED
      BY <2>1, <2>6, <3>1 DEF ListOK
  <2>7. \A c \in Removing, e \in Client :
          pc'[e] = "connected" /\ name[e] = name[c] =>
            nsp[e] = nsp[c] \/ name[c] \in twice
    BY <2>1 DEF ListOK
  <2>8. \A k \in Closer : pc'[k] \in Leaving => name[k] \in twice
    BY <2>1 DEF ListOK, Leaving
  <2> QED
    BY <2>1, <2>3, <2>4, <2>5, <2>6, <2>7, <2>8 DEF ListOK
<1>14. CASE DeleteChild(p)
  BY <1>14 DEF DeleteChild, StateOK, TypeOK, NamesOK, Apart, ReachOK, ListOK, Storing,
     Connecting, Removing, Calling, HasNsp, Leaving, Listed
<1>15. CASE RemoveAgain(p)
  BY <1>15 DEF RemoveAgain, StateOK, TypeOK, NamesOK, Apart, ReachOK, ListOK, Storing,
     Connecting, Removing, Calling, HasNsp, Leaving, Listed
<1> QED
  BY <1>1, <1>2, <1>3, <1>4, <1>5, <1>6, <1>7, <1>8, <1>9, <1>10, <1>11, <1>12, <1>13,
     <1>14, <1>15 DEF Step

-----------------------------------------------------------------------------
LEMMA InitInv ==
  Init => Inv
<1> USE NameAssumption DEF Init, Proc, Nsp
<1>1. ASSUME Init PROVE TypeOK
  <2>1. made = 0 /\ made \in 0 .. MaxNsp /\ 1 .. made = {}
    BY <1>1
  <2>2. sockets \in [Nsp -> SUBSET Client] /\ nsps \in [Name -> Nsp \cup {None}]
    BY <1>1
  <2>3. pc \in [Proc -> {"start", "of", "again"}] /\ nsp \in [Proc -> Nsp \cup {None}]
    BY <1>1
  <2>4. pc \in [Proc -> {"start", "again", "check", "create", "store", "of", "ofCreate", "ofStore",
                "add", "connected", "len", "deleteName", "deleteChild", "gone", "done"}]
    BY <2>3
  <2> QED
    BY <1>1, <2>1, <2>2, <2>3, <2>4 DEF TypeOK
<1>2. Init => StateOK
  BY <1>1 DEF StateOK, HasNsp, Leaving
<1>3. Init => NamesOK
  BY DEF NamesOK, Storing, Remover
<1>4. Init => Apart
  BY DEF Apart, Removing
<1>5. Init => ReachOK
  BY DEF ReachOK, Remover
<1>6. Init => EmptyOK
  BY DEF EmptyOK, Leaving
<1>7. Init => ListOK
  BY DEF ListOK, Connecting, Removing, Leaving
<1> QED
  BY <1>2, <1>3, <1>4, <1>5, <1>6, <1>7 DEF Inv

LEMMA StepInv ==
  Inv /\ [Next]_vars => Inv'
<1> SUFFICES ASSUME Inv, [Next]_vars PROVE Inv'
  OBVIOUS
<1>1. CASE Next
  <2>1. PICK p \in Proc : Step(p) \/ Deny(p) \/ Reject(p)
    BY <1>1 DEF Next
  <2> QED
    BY <2>1, StateStep, NamesStep, ApartStep, ReachStep, EmptyStep, ListStep DEF Inv
<1>2. CASE UNCHANGED vars
  <2> USE <1>2 DEF vars, options, server, history
  <2>1. StateOK'
    BY DEF Inv, StateOK, TypeOK
  <2>2. NamesOK'
    BY DEF Inv, NamesOK, Storing
  <2>3. Apart'
    BY DEF Inv, Apart, Removing, Connecting
  <2>4. ReachOK'
    BY DEF Inv, ReachOK, Good
  <2>5. EmptyOK'
    BY DEF Inv, EmptyOK, Attended, Forgotten
  <2>6. ListOK'
    BY DEF Inv, ListOK, Listed, Removing, Connecting, Calling
  <2> QED
    BY <2>1, <2>2, <2>3, <2>4, <2>5, <2>6 DEF Inv
<1> QED
  BY <1>1, <1>2

(* Server.Of, _checkNamespace, CreateChild and Namespace._remove, in every      *)
(* interleaving, keep what is said of them above.                               *)
THEOREM Invariant ==
  Spec => []Inv
<1> QED
  BY InitInv, StepInv, PTL DEF Spec

(* Every variable keeps its type: no namespace is both a child and one of Of's  *)
(* own, and only what was made is listed, closed or tracks a socket.            *)
THEOREM TypeCorrect ==
  Spec => []TypeOK
<1>1. Inv => TypeOK
  BY DEF Inv, StateOK
<1> QED
  BY <1>1, Invariant, PTL

(* Of any number of clients, users and names: as long as nobody connects while  *)
(* another socket is being removed, a broadcast of the parent misses nobody.    *)
THEOREM ParentReaches ==
  Spec => []ParentReachesAll
<1>1. Inv => ParentReachesAll
  BY DEF Inv, ReachOK, Good, ParentReachesAll
<1> QED
  BY <1>1, Invariant, PTL

(* As long as connections overlap neither with each other nor with removals,    *)
(* the sockets of a name are in the namespace that Of answers for it.           *)
THEOREM ListedTracked ==
  Spec => []TrackedIsListed
<1>1. Inv => TrackedIsListed
  BY DEF Inv, ListOK, TrackedIsListed
<1> QED
  BY <1>1, Invariant, PTL

(* A child that its last socket has left is forgotten by its parent and by the  *)
(* server, in every interleaving.                                               *)
THEOREM EmptiedForgotten ==
  Spec => []EmptiedIsForgotten
<1>1. Inv => EmptiedIsForgotten
  BY DEF Inv, EmptyOK, Attended, Forgotten, Leaving, Remover, EmptiedIsForgotten,
         StateOK, Proc
<1> QED
  BY <1>1, Invariant, PTL
===============================================================================
