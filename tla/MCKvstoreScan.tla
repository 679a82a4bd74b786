--------------------------- MODULE MCKvstoreScan ----------------------------
(* An instance of KvstoreScan: two dicts; in the first, keys whose hashes  *)
(* collide in a small table and part in a larger one.                      *)
EXTENDS KvstoreScan, TLC

CONSTANTS k1, k2, k3, k4, k5

MCHash == k1 :> 0 @@ k2 :> 5 @@ k3 :> 2 @@ k4 :> 4 @@ k5 :> 1
MCSlot == k1 :> 0 @@ k2 :> 0 @@ k3 :> 0 @@ k4 :> 0 @@ k5 :> 1
=============================================================================
