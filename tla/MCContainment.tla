---------------------------- MODULE MCContainment ----------------------------
(* Instances of Containment for TLC. *)
EXTENDS Containment, TLC

Symmetry == Permutations(Pids \ {Owner})
=============================================================================
