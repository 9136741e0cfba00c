------------------------------ MODULE Namespaces ------------------------------
(***************************************************************************)
(* The namespaces of a server (server.go, parent-namespace.go, client.go). *)
(* A client connects to a name; if the server has no namespace of that     *)
(* name, a parent namespace may make a child for it.  With the option      *)
(* CleanupEmptyChildNamespaces a child is taken away with its last socket. *)
(* Each client is served by goroutines of its own, the application calls   *)
(* Of from another.  A socket may be closed by several goroutines at once  *)
(* (Socket._onclose): one removes it from its namespace, and the others    *)
(* run the removal again, however late.                                    *)
(***************************************************************************)
EXTENDS Naturals, FiniteSets

CONSTANTS
  Client,   \* clients, each of which connects once
  User,     \* goroutines of the application, each of which calls Of once
  Closer,   \* further goroutines that close a client's socket
  Name,     \* names that match the parent
  MaxNsp,   \* bound on the namespaces made: two for a client and one for a user suffice
  None

Proc == Client \cup User \cup Closer

\* Namespace objects, numbered as they are made.
Nsp == 1 .. MaxNsp

ASSUME NameAssumption ==
  /\ Client \cap User = {} /\ Closer \cap (Client \cup User) = {}
  /\ MaxNsp \in Nat /\ None \notin Proc \cup Nat

VARIABLES
  regexp,   \* the parent was made with a regular expression, not a function
  cleanup,  \* the option CleanupEmptyChildNamespaces
  nsps,     \* server._nsps: name -> namespace, or None
  children, \* the children of the parent
  made,     \* how many namespaces there are
  plain,    \* those that Of made without a parent
  closed,   \* those whose adapter was closed
  sockets,  \* namespace -> the clients it tracks
  pc,       \* goroutine -> where it is
  name,     \* goroutine -> the name it asks for
  nsp,      \* goroutine -> the namespace it works with, or None
  raced,    \* history: a connection was made while a socket was removed
  doubled,  \* history: two connections were made at a time
  twice     \* history: names with a child from which a socket was removed twice

server == <<nsps, children, made, plain, closed>>
options == <<regexp, cleanup>>
history == <<raced, doubled, twice>>
vars == <<options, server, sockets, pc, name, nsp, history>>

TypeOK ==
  /\ regexp \in BOOLEAN /\ cleanup \in BOOLEAN
  /\ nsps \in [Name -> Nsp \cup {None}]
  /\ made \in 0 .. MaxNsp /\ children \subseteq 1 .. made
  /\ plain \subseteq 1 .. made /\ plain \cap children = {} /\ closed \subseteq 1 .. made
  /\ sockets \in [Nsp -> SUBSET Client]
  /\ pc \in [Proc -> {"start", "again", "check", "create", "store", "of", "ofCreate", "ofStore",
                      "add", "connected", "len", "deleteName", "deleteChild", "gone", "done"}]
  /\ name \in [Proc -> Name] /\ nsp \in [Proc -> Nsp \cup {None}]
  /\ raced \in BOOLEAN /\ doubled \in BOOLEAN /\ twice \subseteq Name

Init ==
  /\ regexp \in BOOLEAN /\ cleanup \in BOOLEAN
  /\ nsps = [n \in Name |-> None] /\ children = {} /\ made = 0 /\ plain = {} /\ closed = {}
  /\ sockets = [i \in Nsp |-> {}]
  /\ pc = [p \in Proc |-> IF p \in Client THEN "start"
                          ELSE IF p \in User THEN "of" ELSE "again"]
  /\ name \in [Proc -> Name] /\ nsp = [p \in Proc |-> None]
  /\ raced = FALSE /\ doubled = FALSE /\ twice = {}

Goto(p, label) == pc' = [pc EXCEPT ![p] = label]

Listed(p) == nsps[name[p]]

\* Those who are in the middle of connecting, and of being removed.
Connecting ==
  {p \in Client : pc[p] \in {"check", "create", "store", "of", "ofCreate", "ofStore", "add"}}
Removing == {p \in Client \cup Closer : pc[p] \in {"len", "deleteName", "deleteChild"}}
Calling == {p \in User : pc[p] \in {"ofCreate", "ofStore"}}

(***************************************************************************)
(* Connecting                                                              *)
(***************************************************************************)
\* Client.connect loads the namespace.
Connect(c) ==
  /\ pc[c] = "start" /\ c \in Client
  /\ Goto(c, IF Listed(c) # None THEN "of" ELSE "check")
  /\ raced' = (raced \/ Removing # {})
  /\ doubled' = (doubled \/ Connecting \cup Calling # {})
  /\ UNCHANGED <<options, server, sockets, name, nsp, twice>>

\* _checkNamespace asks the parent's match function, which may deny the name ...
Deny(c) ==
  /\ pc[c] = "check" /\ Goto(c, "done")
  /\ UNCHANGED <<options, server, sockets, name, nsp, history>>

\* ... or allow it, and the namespace may have been made meanwhile.
Allow(c) ==
  /\ pc[c] = "check"
  /\ Goto(c, IF Listed(c) # None THEN "of" ELSE "create")
  /\ UNCHANGED <<options, server, sockets, name, nsp, history>>

\* A new namespace for p.
Make(p) == made < MaxNsp /\ made' = made + 1 /\ nsp' = [nsp EXCEPT ![p] = made + 1]

\* CreateChild adds the child to the parent, and then to the server.
AddChild(p) ==
  /\ Make(p)
  /\ children' = children \cup {made + 1}
  /\ UNCHANGED <<options, nsps, plain, closed, sockets, name, history>>

\* A bug: the child is not added to the parent.
CreateChild_NotAdded(c) ==
  /\ pc[c] = "create" /\ Goto(c, "store")
  /\ Make(c)
  /\ UNCHANGED <<options, nsps, children, plain, closed, sockets, name, history>>

CreateChild(c) == pc[c] = "create" /\ Goto(c, "store") /\ AddChild(c)

StoreNsp(p) ==
  /\ nsps' = [nsps EXCEPT ![name[p]] = nsp[p]]
  /\ UNCHANGED <<options, children, made, plain, closed, sockets, name, nsp, history>>

StoreChild(c) == pc[c] = "store" /\ Goto(c, "of") /\ StoreNsp(c)

\* Of, called by doConnect or by the application, loads the namespace again.
Of(p) ==
  /\ pc[p] = "of"
  /\ IF Listed(p) # None
       THEN nsp' = [nsp EXCEPT ![p] = Listed(p)] /\ Goto(p, IF p \in User THEN "done" ELSE "add")
       ELSE UNCHANGED nsp /\ Goto(p, "ofCreate")
  /\ doubled' = (doubled \/ (p \in User /\ Connecting # {}))
  /\ UNCHANGED <<options, server, sockets, name, raced, twice>>

\* It is gone, or was never there: a parent with a regular expression makes a
\* child, else it becomes a namespace of its own.
OfCreate(p) ==
  /\ pc[p] = "ofCreate" /\ Goto(p, "ofStore")
  /\ IF regexp THEN AddChild(p)
     ELSE /\ Make(p)
          /\ plain' = plain \cup {made + 1}
          /\ UNCHANGED <<options, nsps, children, closed, sockets, name, history>>

OfStore(p) ==
  /\ pc[p] = "ofStore" /\ Goto(p, IF p \in User THEN "done" ELSE "add")
  /\ StoreNsp(p)

\* Namespace.Add: a middleware rejects the socket ...
Reject(c) ==
  /\ pc[c] = "add" /\ Goto(c, "done")
  /\ UNCHANGED <<options, server, sockets, name, nsp, history>>

\* ... or none does, and it is tracked.
Track(c) ==
  /\ pc[c] = "add" /\ Goto(c, "connected")
  /\ sockets' = [sockets EXCEPT ![nsp[c]] = @ \cup {c}]
  /\ UNCHANGED <<options, server, name, nsp, history>>

(***************************************************************************)
(* Being removed                                                           *)
(***************************************************************************)
Remove(c) ==
  /\ pc[c] = "connected"
  /\ sockets' = [sockets EXCEPT ![nsp[c]] = @ \ {c}]
  /\ Goto(c, IF cleanup /\ nsp[c] \notin plain THEN "len" ELSE "gone")
  /\ raced' = (raced \/ Connecting # {})
  /\ UNCHANGED <<options, server, name, nsp, doubled, twice>>

\* Another goroutine that found the socket connected removes it again.
RemoveAgain(k) ==
  /\ pc[k] = "again"
  /\ \E c \in Client :
       /\ pc[c] \in {"len", "deleteName", "deleteChild", "gone"}
       /\ nsp' = [nsp EXCEPT ![k] = nsp[c]] /\ name' = [name EXCEPT ![k] = name[c]]
       /\ Goto(k, IF cleanup /\ nsp[c] \notin plain THEN "len" ELSE "gone")
       /\ twice' = twice \cup {name[c]}
  /\ raced' = (raced \/ Connecting # {})
  /\ UNCHANGED <<options, server, sockets, doubled>>

\* A bug: the child goes with any of its sockets.
CheckLen_Not(c) ==
  /\ pc[c] = "len" /\ Goto(c, "deleteName")
  /\ closed' = closed \cup {nsp[c]}
  /\ UNCHANGED <<options, nsps, children, made, plain, sockets, name, nsp, history>>

\* A bug: the socket that goes is expected to be there still.
CheckLen_One(c) ==
  /\ pc[c] = "len"
  /\ IF Cardinality(sockets[nsp[c]]) = 1
       THEN Goto(c, "deleteName") /\ closed' = closed \cup {nsp[c]}
       ELSE Goto(c, "gone") /\ UNCHANGED closed
  /\ UNCHANGED <<options, nsps, children, made, plain, sockets, name, nsp, history>>

\* If no socket is left, the adapter is closed ...
CheckLen(c) ==
  /\ pc[c] = "len"
  /\ IF sockets[nsp[c]] = {}
       THEN Goto(c, "deleteName") /\ closed' = closed \cup {nsp[c]}
       ELSE Goto(c, "gone") /\ UNCHANGED closed
  /\ UNCHANGED <<options, nsps, children, made, plain, sockets, name, nsp, history>>

\* ... and the name taken from the server, whatever namespace it stands for ...
DeleteName(c) ==
  /\ pc[c] = "deleteName" /\ Goto(c, "deleteChild")
  /\ nsps' = [nsps EXCEPT ![name[c]] = None]
  /\ UNCHANGED <<options, children, made, plain, closed, sockets, name, nsp, history>>

\* ... and the child from its parent.
DeleteChild(c) ==
  /\ pc[c] = "deleteChild" /\ Goto(c, "gone")
  /\ children' = children \ {nsp[c]}
  /\ UNCHANGED <<options, nsps, made, plain, closed, sockets, name, nsp, history>>

Step(p) ==
  \/ Connect(p) \/ Allow(p) \/ CreateChild(p) \/ StoreChild(p)
  \/ Of(p) \/ OfCreate(p) \/ OfStore(p) \/ Track(p)
  \/ Remove(p) \/ RemoveAgain(p) \/ CheckLen(p) \/ DeleteName(p) \/ DeleteChild(p)

Next == \E p \in Proc : Step(p) \/ Deny(p) \/ Reject(p)

Spec == Init /\ [][Next]_vars

(***************************************************************************)
(* Properties                                                              *)
(***************************************************************************)
\* A broadcast of the parent goes to its children: every socket is in a child of
\* the parent that is open, or in a namespace that Of made without a parent, as
\* long as nobody connects while another socket is being removed.  Connections may
\* overlap, with each other and with Of, and make several children of one name.
ParentReachesAll ==
  ~raced => \A i \in Nsp : sockets[i] # {} => i \in (children \ closed) \cup plain

\* Of two goroutines that connect at a time one may unlist the other's namespace;
\* if that does not happen either, all the sockets of a name are in the one
\* namespace that Of answers for it, unless a socket of the name was removed twice:
\* the second removal may unlist a newer namespace than the one it is about.
TrackedIsListed ==
  ~raced /\ ~doubled =>
    \A c \in Client : pc[c] = "connected" =>
      (nsp[c] = Listed(c) \/ name[c] \in twice) /\ c \in sockets[nsp[c]]

\* A child that loses its last socket is forgotten by the parent and by the server,
\* once nobody is at work in it any more, whoever connects or leaves meanwhile.
\* (One that nobody entered stays: its only clients were rejected.)
EmptiedIsForgotten ==
  cleanup => \A c \in Client :
    LET i == nsp[c] IN
    (/\ pc[c] = "gone" /\ i \notin plain /\ sockets[i] = {}
     /\ \A p \in Proc : nsp[p] = i => pc[p] \in {"gone", "done"})
    => i \notin children /\ \A n \in Name : nsps[n] # i
===============================================================================
