-------------------------- MODULE MCManagedRuntime --------------------------
(* Instances of ManagedRuntime for TLC. *)
EXTENDS ManagedRuntime, TLC

CONSTANTS i1, i2

Symmetry == Permutations(Instances)
=============================================================================
