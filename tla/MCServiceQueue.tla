---------------------------- MODULE MCServiceQueue ----------------------------
(* A command, a snapshot request and the timer of a service that may be    *)
(* restarted with any of three runtimes, two of one version.               *)
EXTENDS ServiceQueue, TLC

CONSTANTS v1, v2, v3, one, two
TwoVersions == v1 :> one @@ v2 :> one @@ v3 :> two
=============================================================================
