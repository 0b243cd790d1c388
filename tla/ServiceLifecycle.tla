--------------------------- MODULE ServiceLifecycle ---------------------------
(***************************************************************************)
(* Start, stop and death of broker services that share one state           *)
(* directory: the startup lock, the probe of the socket that is there, the *)
(* removal of a stale one, the initial reconciliation, listening, the      *)
(* drain and the clean-up (client/service/brokerd.mjs), and the "simbroker *)
(* service start" and "stop" commands that spawn and stop services         *)
(* (client/bin/simbroker.mjs).                                             *)
(*                                                                         *)
(* The startup lock is taken and reclaimed in one step: the algorithm is   *)
(* the one of BrokerLock, whose guarantees are used here.  What a service  *)
(* does while it serves is ServiceQueue; here it is busy or not.  A socket *)
(* file is the service that bound it; so is the metadata file.             *)
(***************************************************************************)
EXTENDS Naturals, FiniteSets

CONSTANTS Daemons,      \* processes that may run startBrokerService, once each
          Launchers,    \* CLI processes, one command each
          None

ASSUME NoneAssumption == None \notin Daemons

VARIABLES
  lock,     \* holder of the startup lock, alive or not
  socket,   \* who bound the socket file, None when there is no file
  metadata, \* who wrote service.json
  pc,       \* [Daemons -> place in startBrokerService and shutdown]
  busy,     \* [Daemons -> a worker is running]
  outdated, \* [Daemons -> the runtime on disk has changed since it started]
  cli,      \* [Launchers -> place in startService and stopService]
  child,    \* [Launchers -> the service it spawned]
  late      \* Files are removed by name, without the lock, by a process that
            \* has found nobody listening or has itself stopped listening.
            \* FALSE in a behaviour where it does so before any other process
            \* moves, TRUE where it may do so any time later.

vars == <<lock, socket, metadata, pc, busy, outdated, cli, child, late>>

Starting == {"probe", "unlink", "reconcile", "listen", "announce"}
Removing == {"failed", "removeSocket"}
Places == {"off", "lock", "serving", "draining", "close", "exited", "dead"}
            \union Starting \union Removing
CliPlaces == {"idle", "start", "spawn", "wait", "stop", "stopping",
              "removeMetadata", "removeSocket", "done", "failed"}

TypeOK ==
  /\ {lock, socket, metadata} \subseteq Daemons \union {None}
  /\ pc \in [Daemons -> Places]
  /\ busy \in [Daemons -> BOOLEAN] /\ outdated \in [Daemons -> BOOLEAN]
  /\ \A d \in Daemons : busy[d] => pc[d] \in {"serving", "draining"}
  /\ cli \in [Launchers -> CliPlaces \X BOOLEAN]
  /\ child \in [Launchers -> Daemons \union {None}] /\ late \in BOOLEAN

Init ==
  /\ lock = None /\ socket = None /\ metadata = None
  /\ pc = [d \in Daemons |-> "off"]
  /\ busy = [d \in Daemons |-> FALSE] /\ outdated = [d \in Daemons |-> FALSE]
  /\ cli = [l \in Launchers |-> <<"idle", FALSE>>]
  /\ child = [l \in Launchers |-> None] /\ late \in BOOLEAN

-----------------------------------------------------------------------------
(* Helpers *)

Gone(d) == pc[d] \in {"exited", "dead"}
Listening(d) == pc[d] \in {"announce", "serving", "draining", "close"}
SomebodyListens == IF socket = None THEN FALSE ELSE Listening(socket)

(* Mutant: the startup lock keeps nobody out.                              *)
LockFree_Always == TRUE

LockFree == IF lock = None THEN TRUE ELSE Gone(lock)

(* What a probe of the socket finds.  A service answers while it serves,   *)
(* unless it is slow; its connections wait while its startup has not       *)
(* returned to the event loop, and are destroyed while it drains.          *)
ProbeResults ==
  IF ~SomebodyListens THEN {"stale"}
  ELSE CASE pc[socket] = "serving"  -> {"running", "timeout"}
         [] pc[socket] = "announce" -> {"timeout"}
         [] OTHER                   -> {"unavailable"}

Go(d, place) == pc' = [pc EXCEPT ![d] = place]
Unlock(d) == lock' = IF lock = d THEN None ELSE lock

-----------------------------------------------------------------------------
(* startBrokerService *)

(* acquireServiceStartLock: free, or its owner is no longer alive.         *)
AcquireStartLock(d) ==
  /\ pc[d] = "lock"
  /\ LockFree
  /\ lock' = d /\ Go(d, "probe")
  /\ UNCHANGED <<socket, metadata, busy, outdated, cli, child, late>>

(* service-start-timeout.                                                  *)
LockTimesOut(d) ==
  /\ pc[d] = "lock" /\ ~LockFree
  /\ Go(d, "exited")
  /\ UNCHANGED <<lock, socket, metadata, busy, outdated, cli, child, late>>

(* Mutant: a socket that does not answer in time is taken for stale.       *)
Replaceable_Slow(result) == result \in {"stale", "timeout"}

Replaceable(result) == result = "stale"

(* probeExistingService: only a refused connection or a missing file lets  *)
(* the startup go on; in every other case the lock is released and the     *)
(* process ends, with the files untouched.                                 *)
ProbeExisting(d) ==
  /\ pc[d] = "probe"
  /\ \E result \in ProbeResults :
       IF Replaceable(result)
       THEN Go(d, "unlink") /\ UNCHANGED lock
       ELSE Go(d, "exited") /\ Unlock(d)
  /\ UNCHANGED <<socket, metadata, busy, outdated, cli, child, late>>

RemoveStaleSocket(d) ==
  /\ pc[d] = "unlink"
  /\ socket' = None /\ Go(d, "reconcile")
  /\ UNCHANGED <<lock, metadata, busy, outdated, cli, child, late>>

(* The reconciliation and snapshot of "service-startup"; a failure         *)
(* releases the lock, then removes metadata and socket.                    *)
ReconcileAtStart(d) ==
  /\ pc[d] = "reconcile"
  /\ \/ Go(d, "listen") /\ UNCHANGED <<lock, socket, metadata>>
     \/ /\ Unlock(d)
        /\ IF late
           THEN Go(d, "failed") /\ UNCHANGED <<socket, metadata>>
           ELSE Go(d, "exited") /\ metadata' = None /\ socket' = None
  /\ UNCHANGED <<busy, outdated, cli, child, late>>

(* server.listen: EADDRINUSE when there is a file, whoever bound it.       *)
Listen(d) ==
  /\ pc[d] = "listen"
  /\ IF socket = None
     THEN socket' = d /\ Go(d, "announce") /\ UNCHANGED lock
     ELSE Unlock(d) /\ Go(d, "exited") /\ UNCHANGED socket
  /\ UNCHANGED <<metadata, busy, outdated, cli, child, late>>

(* The callback of listen: metadata, then the lock is released.            *)
Announce(d) ==
  /\ pc[d] = "announce"
  /\ metadata' = d /\ Unlock(d) /\ Go(d, "serving")
  /\ UNCHANGED <<socket, busy, outdated, cli, child, late>>

-----------------------------------------------------------------------------
(* Serving, shutdown and death *)

WorkStarts(d) ==
  /\ pc[d] = "serving" /\ ~busy[d] /\ ~outdated[d]
  /\ busy' = [busy EXCEPT ![d] = TRUE]
  /\ UNCHANGED <<lock, socket, metadata, pc, outdated, cli, child, late>>

WorkEnds(d) ==
  /\ busy[d]
  /\ busy' = [busy EXCEPT ![d] = FALSE]
  /\ UNCHANGED <<lock, socket, metadata, pc, outdated, cli, child, late>>

(* SIGINT or SIGTERM: kills before the handlers are installed, shuts a     *)
(* serving process down; in between it waits for the event loop.           *)
BeforeHandlers == {"lock", "probe", "unlink", "reconcile"}

Signal(d) ==
  /\ pc[d] \in BeforeHandlers \union {"serving"}
  /\ Go(d, IF pc[d] = "serving" THEN "draining" ELSE "dead")
  /\ UNCHANGED <<lock, socket, metadata, busy, outdated, cli, child, late>>

(* shutdown: once the workers have settled, metadata goes, connections are *)
(* destroyed, and server.close unlinks the socket path, whoever bound it.   *)
Drained(d) ==
  /\ pc[d] = "draining" /\ ~busy[d]
  /\ metadata' = None /\ Go(d, "close")
  /\ UNCHANGED <<lock, socket, busy, outdated, cli, child, late>>

CloseServer(d) ==
  /\ pc[d] = "close"
  /\ socket' = None
  /\ Go(d, IF late THEN "removeSocket" ELSE "exited")
  /\ UNCHANGED <<lock, metadata, busy, outdated, cli, child, late>>

(* Removals by name that follow later: the end of shutdown, and a startup  *)
(* that failed.                                                            *)
RemoveMetadata(d) ==
  /\ pc[d] = "failed"
  /\ metadata' = None /\ Go(d, "removeSocket")
  /\ UNCHANGED <<lock, socket, busy, outdated, cli, child, late>>

RemoveSocket(d) ==
  /\ pc[d] = "removeSocket"
  /\ socket' = None /\ Go(d, "exited")
  /\ UNCHANGED <<lock, metadata, busy, outdated, cli, child, late>>

(* uncaughtException and unhandledRejection: the process removes both      *)
(* files, releases the startup lock if it still holds it, and exits.       *)
Panic(d) ==
  /\ pc[d] \in {"announce", "serving", "draining"}
  /\ metadata' = None /\ socket' = None
  /\ Unlock(d) /\ Go(d, "exited")
  /\ busy' = [busy EXCEPT ![d] = FALSE]
  /\ UNCHANGED <<outdated, cli, child, late>>

(* Killed at any place: files and lock stay.                               *)
Crash(d) ==
  /\ pc[d] \notin {"off", "exited", "dead"}
  /\ Go(d, "dead") /\ busy' = [busy EXCEPT ![d] = FALSE]
  /\ UNCHANGED <<lock, socket, metadata, outdated, cli, child, late>>

(* The installed runtime is replaced: services that run become             *)
(* incompatible with it, and say so.                                       *)
Upgrade ==
  /\ \E d \in Daemons : pc[d] = "serving" /\ ~outdated[d]
  /\ outdated' = [d \in Daemons |-> outdated[d] \/ pc[d] \notin {"off", "exited", "dead"}]
  /\ UNCHANGED <<lock, socket, metadata, pc, busy, cli, child, late>>

-----------------------------------------------------------------------------
(* simbroker service start and stop: cli[l] = <<place, a start follows>> *)

At(l, place) == cli[l][1] = place
Move(l, place) == cli' = [cli EXCEPT ![l] = <<place, @[2]>>]

Begin(l) ==
  /\ At(l, "idle")
  /\ cli' \in {[cli EXCEPT ![l] = <<"start", TRUE>>], [cli EXCEPT ![l] = <<"stop", FALSE>>]}
  /\ UNCHANGED <<lock, socket, metadata, pc, busy, outdated, child, late>>

(* startService: keep a healthy service, replace an unhealthy one, spawn   *)
(* one when nobody answers; any other probe result is an error.            *)
StartProbe(l) ==
  /\ At(l, "start")
  /\ \E result \in ProbeResults :
       Move(l, CASE result = "stale"   -> "spawn"
                 [] result = "running" -> IF outdated[socket] THEN "stop" ELSE "done"
                 [] OTHER              -> "failed")
  /\ UNCHANGED <<lock, socket, metadata, pc, busy, outdated, child, late>>

Spawn(l) ==
  /\ At(l, "spawn")
  /\ \E d \in Daemons :
       /\ pc[d] = "off"
       /\ Go(d, "lock") /\ child' = [child EXCEPT ![l] = d]
  /\ Move(l, "wait")
  /\ UNCHANGED <<lock, socket, metadata, busy, outdated, late>>

(* waitForSpawnedService: any service that answers will do; the command    *)
(* fails when the child has ended and nobody answers, when a probe fails   *)
(* with another error, and after serviceStartupTimeoutMs, when it also     *)
(* signals the child.                                                      *)
WaitForService(l) ==
  /\ At(l, "wait")
  /\ \E result \in ProbeResults :
       \/ /\ result = "running"
          /\ Move(l, IF outdated[socket] THEN "failed" ELSE "done")
          /\ UNCHANGED pc
       \/ /\ result \in {"timeout", "unavailable"} \/ Gone(child[l])
          /\ result # "running"
          /\ Move(l, "failed") /\ UNCHANGED pc
       \/ /\ result = "stale" /\ pc[child[l]] \in BeforeHandlers
          /\ Move(l, "failed") /\ Go(child[l], "dead")
  /\ UNCHANGED <<lock, socket, metadata, busy, outdated, child, late>>

(* The end of stopService once nobody listens: metadata, then socket, by   *)
(* name and without a lock; startService goes on to spawn.                 *)
After(l) == IF cli[l][2] THEN "spawn" ELSE "done"

NobodyListens(l) ==
  IF late
  THEN Move(l, "removeMetadata") /\ UNCHANGED <<socket, metadata>>
  ELSE Move(l, After(l)) /\ metadata' = None /\ socket' = None

(* stopService: status first; a running service is asked to stop, which    *)
(* closes its admission.                                                   *)
StopRequest(l) ==
  /\ At(l, "stop")
  /\ \E result \in ProbeResults :
       \/ result = "stale" /\ NobodyListens(l) /\ UNCHANGED pc
       \/ /\ result = "running"
          /\ Go(socket, "draining") /\ Move(l, "stopping")
          /\ UNCHANGED <<socket, metadata>>
       \/ /\ result \in {"timeout", "unavailable"}
          /\ Move(l, "failed") /\ UNCHANGED <<pc, socket, metadata>>
  /\ UNCHANGED <<lock, busy, outdated, child, late>>

(* waitForServiceToStop: polls until nobody listens, or times out.         *)
WaitForStop(l) ==
  /\ At(l, "stopping")
  /\ \E result \in ProbeResults :
       \/ result = "stale" /\ NobodyListens(l)
       \/ result # "stale" /\ Move(l, "failed") /\ UNCHANGED <<socket, metadata>>
  /\ UNCHANGED <<lock, pc, busy, outdated, child, late>>

RemoveByCli(l) ==
  \/ /\ At(l, "removeMetadata")
     /\ metadata' = None /\ Move(l, "removeSocket")
     /\ UNCHANGED <<lock, socket, pc, busy, outdated, child, late>>
  \/ /\ At(l, "removeSocket")
     /\ socket' = None /\ Move(l, After(l))
     /\ UNCHANGED <<lock, metadata, pc, busy, outdated, child, late>>

-----------------------------------------------------------------------------
Startup(d) ==
  \/ AcquireStartLock(d) \/ LockTimesOut(d) \/ ProbeExisting(d)
  \/ RemoveStaleSocket(d) \/ ReconcileAtStart(d) \/ Listen(d) \/ Announce(d)

Shutdown(d) ==
  \/ Drained(d) \/ CloseServer(d) \/ RemoveMetadata(d) \/ RemoveSocket(d)

Command(l) ==
  \/ StartProbe(l) \/ Spawn(l) \/ WaitForService(l)
  \/ StopRequest(l) \/ WaitForStop(l) \/ RemoveByCli(l)

Next ==
  \/ \E d \in Daemons : Startup(d) \/ Shutdown(d) \/ WorkStarts(d) \/ WorkEnds(d)
                          \/ Signal(d) \/ Panic(d) \/ Crash(d)
  \/ \E l \in Launchers : Begin(l) \/ Command(l)
  \/ Upgrade

Spec == Init /\ [][Next]_vars

-----------------------------------------------------------------------------
(* Properties *)

(* README.md: "A local brokerd service is the single authority".  At most  *)
(* one process accepts or still executes commands, however many starts,    *)
(* stops and crashes overlap: a successor never begins to serve before its *)
(* predecessor has drained.                                                *)
SingleAuthority ==
  Cardinality({d \in Daemons : pc[d] \in {"serving", "draining"}}) <= 1

(* A service that serves can be found: the socket and the metadata of the  *)
(* state directory are its own.                                            *)
ServingIsReachable ==
  \A d \in Daemons : pc[d] = "serving" => socket = d /\ metadata = d

(* Both hold of the lock, the probe and the order of the clean-up, as long *)
(* as the removals by name are not late.                                   *)
AuthorityWhenPrompt == ~late => SingleAuthority /\ ServingIsReachable

(* The removal of a stale socket never hits a service that listens, also   *)
(* when its answer to the probe was late.                                  *)
StartupKeepsLiveSocket ==
  [][\A d \in Daemons :
       pc[d] = "unlink" /\ pc'[d] = "reconcile" => ~SomebodyListens]_vars
=============================================================================
