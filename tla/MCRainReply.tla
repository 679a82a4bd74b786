---------------------------- MODULE MCRainReply ---------------------------
(* All replies of a bounded depth and length. *)
EXTENDS RainReply
=============================================================================
