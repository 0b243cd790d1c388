----------------------------- MODULE MCHostSetup -----------------------------
(* Instances of HostSetup for TLC. *)
EXTENDS HostSetup
=============================================================================
