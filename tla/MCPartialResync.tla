--------------------------- MODULE MCPartialResync ---------------------------
(* Three servers for TLC: a master, its replica, and a replica of that one. *)
EXTENDS PartialResync, TLC

CONSTANTS s1, s2, s3

MCServers   == {s1, s2, s3}
MCFirstHost == s1 :> NoOne @@ s2 :> s1 @@ s3 :> s2
=============================================================================
