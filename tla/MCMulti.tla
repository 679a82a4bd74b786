------------------------------ MODULE MCMulti ------------------------------
(* Instances of Multi for TLC. *)
EXTENDS Multi, TLC

Symmetry == Permutations(Clients) \cup Permutations(Keys)
============================================================================
