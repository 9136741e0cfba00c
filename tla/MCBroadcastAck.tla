--------------------------- MODULE MCBroadcastAck ---------------------------
(* BroadcastAck for TLC: two servers, one client of another server. *)
EXTENDS BroadcastAck

CONSTANTS here, there, c1, c2

OneThere == [c \in Client |-> IF c = c1 THEN there ELSE here]
=============================================================================
