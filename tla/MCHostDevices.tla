---------------------------- MODULE MCHostDevices ----------------------------
(* Instances of HostDevices for TLC. *)
EXTENDS HostDevices, TLC

Symmetry == Permutations(Aliases) \cup Permutations(Devices) \cup Permutations(Txns)
=============================================================================
