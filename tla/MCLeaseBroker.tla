---------------------------- MODULE MCLeaseBroker ----------------------------
(* Instances of LeaseBroker for TLC. *)
EXTENDS LeaseBroker, TLC

CONSTANTS a1, a2

EraseAndBuild == a1 :> "erase" @@ a2 :> "build"
BuildOnly     == a1 :> "build"
AllKinds      == {"acquire", "release", "contain", "register", "pin", "unpin",
                  "idle", "cleanup", "refresh"} \cup Lifecycle

Symmetry == Permutations(Leases) \cup Permutations(Owners) \cup Permutations(Projects)
=============================================================================
