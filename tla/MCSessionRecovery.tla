--------------------------- MODULE MCSessionRecovery ---------------------------
(* SessionRecovery for TLC: broadcasts to the client's own room but not to those *)
(* who are in r1.                                                               *)
EXTENDS SessionRecovery

CONSTANTS own, r1

ButRoom == {[rooms |-> {own}, except |-> {r1}]}
===============================================================================
