--------------------------- MODULE MCAofFiles ---------------------------
(* Instances of AofFiles for TLC. *)
EXTENDS AofFiles
=========================================================================
