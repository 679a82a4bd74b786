-------------------------- MODULE MCBlockedClients --------------------------
(* Instances of BlockedClients: three clients, two keys; the commands are  *)
(* chosen so that clients wait for the same keys in different orders.      *)
EXTENDS BlockedClients

CONSTANTS c1, c2, c3, k1, k2

BLPOP(keys, t) == [op |-> "BLPOP", keys |-> keys, timeout |-> t]
BLMOVE(src, dst, t) == [op |-> "BLMOVE", keys |-> <<src, dst>>, timeout |-> t]
XREADGROUP(keys, t) == [op |-> "XREADGROUP", keys |-> keys, timeout |-> t]
On(op, k) == [op |-> op, key |-> k]
EXEC(cmds) == [op |-> "EXEC", cmds |-> cmds]
UNBLOCK(x) == [op |-> "UNBLOCK", target |-> x]
PAUSE == [op |-> "PAUSE"]

MCCommands ==
    {BLPOP(<<k1, k2>>, TRUE), BLPOP(<<k2>>, FALSE), BLMOVE(k1, k2, FALSE),
     XREADGROUP(<<k1>>, TRUE),
     On("RPUSH", k1), On("XADD", k1), On("SET", k1),
     EXEC(<<On("DEL", k1), On("XGROUP", k1)>>),
     EXEC(<<On("RPUSH", k1), On("RPUSH", k1), PAUSE>>),
     UNBLOCK(c1)}
MCInitialData ==
    {[k \in Keys |-> None], [k \in Keys |-> IF k = k1 THEN [t |-> "stream", n |-> 0] ELSE None]}

StoreInitialData == {[k \in Keys |-> None]}

StoreCommands ==
    {BLPOP(<<k1>>, FALSE), On("SET", k1), On("SORT", k1), On("DEL", k1), On("RPUSH", k1)}
=============================================================================
