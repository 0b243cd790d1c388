---------------------------- MODULE MCDetachedRun ----------------------------
(* Instances of DetachedRun for TLC. *)
EXTENDS DetachedRun, TLC

Symmetry == Permutations(Runs)

(* The bound of the instance with two runs, at least one of which is on    *)
(* Dir: two watchdogs look at once only when both runs are on Dir, and a   *)
(* status command, which then counts as one of two, only when no launcher  *)
(* has been killed and no verification is at work inside its launcher.     *)
Looking == {r \in Runs : observer[r].at \notin {"off", "error", "idle"}}
Verifying ==
  \E r \in Runs :
    launcher[r] \in {"remove", "wipe", "await", "inlineclaim", "inline", "written"}
Together == \A r \in Runs : home[r] = Dir
NoStatus == \A i \in Inspectors : At(i, "idle")

ObserversBound ==
  /\ \E r \in Runs : home[r] = Dir
  /\ Cardinality(Looking) <= 1 \/ (Together /\ NoStatus)
  /\ NoStatus \/ (Together /\ deaths = 0 /\ ~Verifying)
=============================================================================
