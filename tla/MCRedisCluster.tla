--------------------------- MODULE MCRedisCluster ---------------------------
(* RedisCluster for TLC: two servers with a socket each.                      *)
EXTENDS RedisCluster

CONSTANTS s1, s2, k1, k2, r1, r2

HomeOf == k1 :> s1 @@ k2 :> s2

Option(to, but, flag) == [rooms |-> to, except |-> but, local |-> flag]

SomeCastOpts ==
  {Option({r1}, {r2}, FALSE), Option({}, {r1}, FALSE), Option({r1, r2}, {}, FALSE),
   Option({}, {}, TRUE)}

EmitToAll == {Option({}, {}, FALSE)}

SomeCallOpts ==
  {Option({r1}, {}, FALSE), Option({}, {r2}, FALSE), Option({}, {}, FALSE),
   Option({}, {}, TRUE)}

SomeCalls ==
  {[type |-> "join", rooms |-> {r1, r2}], [type |-> "leave", rooms |-> {r1}],
   [type |-> "disconnect", rooms |-> {}]}
=============================================================================
