-------------------------- MODULE MCExecutionUnit --------------------------
(* Instances of ExecutionUnit for TLC. The keys are interchangeable. *)
EXTENDS ExecutionUnit

Symmetry == Permutations(Keys)
=============================================================================
