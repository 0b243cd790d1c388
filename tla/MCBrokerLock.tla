---------------------------- MODULE MCBrokerLock ----------------------------
(* Instances of BrokerLock for TLC. *)
EXTENDS BrokerLock, TLC

(* Processes are told apart only by their state. *)
Symmetry == Permutations(Procs)
=============================================================================
