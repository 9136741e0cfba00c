----------------------------- MODULE MCRedisFetch -----------------------------
(* RedisFetch for TLC: two other servers, one with two sockets.                *)
EXTENDS RedisFetch

CONSTANTS o1, o2, k1, k2

FoundAt == o1 :> <<k1, k2>> @@ o2 :> <<>>
===============================================================================
