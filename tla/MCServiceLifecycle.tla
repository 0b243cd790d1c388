-------------------------- MODULE MCServiceLifecycle --------------------------
(* Instances of ServiceLifecycle for TLC. *)
EXTENDS ServiceLifecycle, TLC

Symmetry == Permutations(Daemons) \union Permutations(Launchers)
=============================================================================
