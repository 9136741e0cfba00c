------------------------------ MODULE Selection ------------------------------
(***************************************************************************)
(* What adapter.apply (socket/adapter.go) promises of the sockets that it  *)
(* selects for its callback, while they come, move and go.                 *)
(***************************************************************************)
EXTENDS Naturals

CONSTANTS SocketId, All

VARIABLES
  walk,        \* the local variables of apply and its options
  got,         \* how often the callback ran for each socket
  kept, seen   \* memberships that held all through, and at any time of, apply

(* Without rooms, apply ranges over all sids. *)
Targets == IF walk.opts.rooms = {} THEN {All} ELSE walk.opts.rooms

(* The callback runs at most once for a socket, in however many of the rooms *)
(* it is or becomes a member while apply goes through them.                  *)
NotifiedOnce == \A id \in SocketId : got[id] <= 1

(* Whoever stayed a connected member of one of the rooms all through apply,  *)
(* and was in no excepted room meanwhile, is found.                          *)
Missed(id) ==
  /\ got[id] = 0
  /\ \E r \in Targets : <<id, r>> \in kept
  /\ \A x \in walk.opts.except : <<id, x>> \notin seen
StableMembersNotified == walk.pc = "done" => \A id \in SocketId : ~Missed(id)

(* Whoever stayed in an excepted room all through apply is left out.         *)
ExceptRespected ==
  \A id \in SocketId : got[id] > 0 =>
    \A x \in walk.opts.except : <<id, x>> \notin kept

(* Only sockets that were in one of the rooms during apply are found.        *)
OnlyMembersNotified ==
  \A id \in SocketId : got[id] > 0 => \E r \in Targets : <<id, r>> \in seen
=============================================================================
