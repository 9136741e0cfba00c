----------------------------- MODULE MCSocketAck -----------------------------
(* SocketAck for TLC. *)
EXTENDS SocketAck
=============================================================================
