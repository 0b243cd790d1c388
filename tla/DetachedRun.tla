------------------------------ MODULE DetachedRun ------------------------------
(***************************************************************************)
(* Runs that outlive the command that started them                         *)
(* (agent-harness/src/lib/detached-run.ts): a launcher claims the status   *)
(* file ("artifact") and the result file, spawns the run, records it and   *)
(* starts a watchdog; the watchdog and any number of status commands       *)
(* (inspectDetachedRun, and its copy scripts/agent_detached_status.cjs)    *)
(* look at result and process, end the run at its deadline and write what  *)
(* they concluded.  A verification may also run inside the launcher        *)
(* (lib/verify.ts): it clears the directory of the result, and claims      *)
(* afterwards.                                                             *)
(*                                                                         *)
(* All runs share one result file; the phase and log files are claimed the *)
(* same way and are left out.  A claim and a lock are taken and reclaimed  *)
(* in one step; what happens under the artifact's write lock is one step,  *)
(* but for the launcher, which spawns while it holds the lock.  A process  *)
(* group is alive or dead, and recognised as the run's own.                *)
(***************************************************************************)
EXTENDS Naturals, FiniteSets

CONSTANTS Runs,        \* launches, one run each
          Inspectors,  \* status commands, each of which looks once
          Paths,       \* artifact paths
          Dir,         \* the one of them in the result's directory
          None,
          Reports,     \* outcomes that runs write
          Timeout,     \* ticks from startedAt to deadlineAt
          MaxTime,     \* bound on the clock
          MaxDeaths    \* bound on the launchers that are killed

ASSUME ReportsAssumption == Reports \subseteq {"passed", "failed", "unknown"}
ASSUME DirAssumption == Dir \in Paths
ASSUME ObserversAssumption == Runs \cap Inspectors = {}
ASSUME BoundsAssumption == Timeout \in Nat /\ MaxTime \in Nat /\ MaxDeaths \in Nat

Times == 0..MaxTime
Outcomes == {"passed", "failed", "unknown"}
Terminal == {"passed", "failed", "failed-to-start", "process-exited-without-result",
             "timeout"}

VARIABLES
  now,       \* the clock
  home,      \* [Runs -> the artifact path it is launched on]
  started,   \* [Runs -> startedAt]
  alive,     \* runs whose process group is alive
  baseline,  \* launches whose baseline is the result file as it is now
  launcher,  \* [Runs -> place in startDetachedRun or executeVerifyProfile]
  claim,     \* ownership of the result file: None or [run, owner]
  result,    \* the result file: None or [run, time, outcome]
  artifact,  \* [Paths -> None or the recorded run]
  observer,  \* [Runs \union Inspectors -> the watchdog of a run, or an inspector]
  deaths,    \* launchers killed so far
  lost,      \* lock files of launches that a verification has removed
  stray      \* history: runs whose claim was lost while they worked

files == <<claim, result, artifact>>
rest == <<deaths, lost, stray>>
vars == <<now, home, started, alive, baseline, launcher, files, observer, deaths, lost, stray>>

Results == [run : Runs, time : Times, outcome : Outcomes]
Claims == [run : Runs, owner : {"launcher", "run"}]

(* pid: FALSE for a launch that failed before, or without, a process.      *)
(* observed: lastObservedAt; seen: resultObservedWhileRunningAt is there;   *)
(* basis, history: the result that a verdict rests on.                     *)
Artifacts == [run : Runs, pid : BOOLEAN, status : Terminal \union {"running"},
              observed : Times \union {None}, seen : BOOLEAN,
              basis : Results \union {None}]

ASSUME NoneAssumption ==
  /\ None \notin Runs \union Paths
  /\ None \notin Times /\ None \notin Claims /\ None \notin Results /\ None \notin Artifacts

LauncherPlaces == {"idle", "claim", "spawn", "identify", "record", "unverified", "ended",
                   "watch", "note", "failing", "failed", "remove", "wipe", "await", "inlineclaim",
                   "inline", "written", "done", "crashed"}
ObserverPlaces == {"off", "error", "idle", "discover", "decide", "terminate", "quarantine", "write",
                   "release"}

(* What a phase file that cannot be read tells: it hides the result.  Any   *)
(* other phase file counts for nothing here.                               *)
Unreadable == [run |-> None, time |-> 0, outcome |-> "unreadable"]

(* An observer: the artifact it has read, when it looked, what it found    *)
(* and what it is going to write.                                          *)
Observers == [at : ObserverPlaces, path : Paths \union {None}, art : Artifacts \union {None},
              time : Times, found : Results \union {None, Unreadable},
              status : Terminal \union {"running"}, seen : BOOLEAN]
Asleep(place) == [at |-> place, path |-> None, art |-> None, time |-> 0,
                  found |-> None, status |-> "running", seen |-> FALSE]

TypeOK ==
  /\ now \in Times /\ home \in [Runs -> Paths] /\ started \in [Runs -> Times]
  /\ alive \subseteq Runs
  /\ baseline \subseteq Runs
  /\ launcher \in [Runs -> LauncherPlaces]
  /\ claim \in Claims \union {None} /\ result \in Results \union {None}
  /\ artifact \in [Paths -> Artifacts \union {None}]
  /\ observer \in [Runs \union Inspectors -> Observers]
  /\ deaths \in 0..MaxDeaths
  /\ lost \subseteq Runs \X {"launch", "write"} /\ stray \subseteq Runs

Init ==
  /\ now = 0 /\ home \in [Runs -> Paths] /\ started = [r \in Runs |-> 0]
  /\ alive = {} /\ baseline = {}
  /\ launcher = [r \in Runs |-> "idle"]
  /\ claim = None /\ result = None /\ artifact = [p \in Paths |-> None]
  /\ observer = [o \in Runs \union Inspectors |->
                   Asleep(IF o \in Runs THEN "off" ELSE "idle")]
  /\ deaths = 0 /\ lost = {} /\ stray = {}

-----------------------------------------------------------------------------
(* Helpers *)

Deadline(r) == started[r] + Timeout
Alive(r) == r \in alive

Working(r) == launcher[r] \notin {"idle", "done", "crashed"}

(* Mutant: a claim that was handed over is judged by the launcher, too.    *)
ClaimStands_ByLauncher == IF claim = None THEN FALSE ELSE Working(claim.run)

(* artifactWriteLockOwnerIsAlive: a claim stands while its launcher works  *)
(* or, once handed over, while the run is alive.                           *)
ClaimStands ==
  IF claim = None THEN FALSE
  ELSE IF claim.owner = "launcher" THEN Working(claim.run) ELSE Alive(claim.run)

(* claimDetachedRunPathOwnership: a claim that stands is respected, a stale *)
(* one is replaced.                                                        *)
ClaimBy(r, owner) == [run |-> r, owner |-> owner]
TakeClaim(r) == ~ClaimStands /\ claim' = ClaimBy(r, "launcher")

(* The launch lock is held to the end of a launch, or of the work inside    *)
(* the launcher; the write lock from the baseline to the record.           *)
Holds(r, lock) ==
  /\ <<r, lock>> \notin lost
  /\ launcher[r] \in
       IF lock = "write" THEN {"identify", "record", "unverified", "ended"}
       ELSE LauncherPlaces \ {"idle", "remove", "wipe", "await", "done", "crashed"}

Free(p, lock) == \A r \in Runs : home[r] = p => ~Holds(r, lock)
Writable(p) == Free(p, "write")

SameRun(a, b) == a.run = b.run /\ a.pid = b.pid

(* lastObservedAt, or the statusUpdatedAt of a record nobody has observed. *)
ObservedAt(a) == IF a.observed = None THEN started[a.run] ELSE a.observed

(* Mutant: an observer may write over a terminal status.                   *)
Preserved_NotFinal(p, a, replace) ==
  IF artifact[p] = None THEN ~replace
  ELSE \/ ~replace /\ ~SameRun(artifact[p], a)
       \/ /\ SameRun(artifact[p], a)
          /\ artifact[p].status \notin Terminal /\ a.status \notin Terminal
          /\ \/ ObservedAt(a) < ObservedAt(artifact[p])
             \/ a.observed # None /\ a.observed = artifact[p].observed

(* shouldPreserveCurrentDetachedRunArtifact: a terminal status is final, an *)
(* older observation does not replace a newer one, and only a launcher     *)
(* replaces another run's record or creates one.                           *)
Preserved(p, a, replace) ==
  IF artifact[p] = None THEN ~replace
  ELSE \/ ~replace /\ ~SameRun(artifact[p], a)
       \/ SameRun(artifact[p], a) /\ artifact[p].status \in Terminal
       \/ /\ SameRun(artifact[p], a)
          /\ artifact[p].status \notin Terminal /\ a.status \notin Terminal
          /\ \/ ObservedAt(a) < ObservedAt(artifact[p])
             \/ a.observed # None /\ a.observed = artifact[p].observed

(* When a run that is over was last observed, and whether alive, is read   *)
(* by nobody and is left out.                                              *)
Slim(a) == IF a.status \in Terminal THEN [a EXCEPT !.observed = None, !.seen = FALSE] ELSE a

WriteArtifact(p, a, replace) ==
  artifact' = IF Preserved(p, a, replace) THEN artifact ELSE [artifact EXCEPT ![p] = Slim(a)]

(* artifactWriteClaimBelongsToArtifact.                                    *)
OwnsClaim(r) == claim = ClaimBy(r, "run")

Keep(file) == result' = file /\ baseline' = IF file = result THEN baseline ELSE {}

ReleaseClaimOf(r) == claim' = IF OwnsClaim(r) THEN None ELSE claim

(* The claim is removed, whoever's it is.                                  *)
LoseClaim ==
  /\ claim' = None
  /\ stray' = IF ClaimStands THEN stray \union {claim.run} ELSE stray

(* removeOwnedDetachedRunPathClaim, for what was handed over as well.      *)
DropClaim(r) == claim' = IF claim \in {ClaimBy(r, "launcher"), ClaimBy(r, "run")} THEN None ELSE claim

(* transferStartupClaimOwnersToArtifact may fail for a claim.              *)
HandOver(r, handed) ==
  /\ handed => claim = ClaimBy(r, "launcher")
  /\ claim' = IF handed THEN ClaimBy(r, "run") ELSE claim

(* Mutant: a late result counts.                                           *)
Discovered_Late(r) ==
  IF result = None THEN None
  ELSE IF r \notin baseline /\ OwnsClaim(r) THEN result ELSE None

(* discoverResultStatusSnapshot: a result that differs from the baseline,  *)
(* was written before the deadline, and whose path the run has claimed.    *)
Discovered(r) ==
  IF result = None THEN None
  ELSE IF r \notin baseline /\ result.time < Deadline(r) /\ OwnsClaim(r)
       THEN result ELSE None

Says(found, outcomes) == IF found = None THEN FALSE ELSE found.outcome \in outcomes

(* What cannot be read is a failure; so is what only the phase tells.      *)
Verdict(found) ==
  IF found.outcome \in {"unknown", "unreadable"} THEN "failed" ELSE found.outcome

(* terminateDetachedProcess: the group is signalled, and signalled again    *)
(* after a grace period; then it is gone, or its end is not confirmed.     *)
Terminate(r, gone) ==
  IF gone THEN alive' = alive \ {r} ELSE Alive(r) /\ UNCHANGED alive

(* terminateSpawnedDetachedProcess: the same for the launcher's own child, *)
(* whose identity may be unknown.                                          *)
KillChild(r, gone) ==
  /\ Alive(r)
  /\ alive' = IF gone THEN alive \ {r} ELSE alive

Mind(o, change) == observer' = [observer EXCEPT ![o] = change]

(* What an observer that has concluded on a terminal status remembers.     *)
Concluded(o, place, status) ==
  [at |-> place, path |-> o.path, art |-> [o.art EXCEPT !.seen = FALSE], time |-> 0,
   found |-> IF o.found = Unreadable THEN None ELSE o.found, status |-> status, seen |-> FALSE]
At(o, place) == observer[o].at = place

-----------------------------------------------------------------------------
(* The run itself *)

WriteResult(r, outcome) ==
  /\ result' = [run |-> r, time |-> now, outcome |-> outcome] /\ baseline' = {}

Inline(r) == launcher[r] \in {"inline", "written"}

RunWrites(r) ==
  /\ Alive(r) /\ ~Inline(r)
  /\ \E outcome \in Reports : WriteResult(r, outcome)
  /\ UNCHANGED <<now, home, started, alive, launcher, claim, artifact, observer, rest>>

RunExits(r) ==
  /\ Alive(r) /\ ~Inline(r)
  /\ alive' = alive \ {r}
  /\ UNCHANGED <<now, home, started, baseline, launcher, files, observer, rest>>

-----------------------------------------------------------------------------
(* startDetachedRun *)

Go(r, place) == launcher' = [launcher EXCEPT ![r] = place]
EndLaunch(r) == Go(r, "done")

(* findActiveDetachedRun.                                                  *)
ActiveOn(p) ==
  IF artifact[p] = None THEN FALSE
  ELSE artifact[p].status \notin Terminal /\ artifact[p].pid /\ Alive(artifact[p].run)

(* withDetachedRunLaunchClaim: one launcher per artifact path, and none    *)
(* while the run on record is active.                                      *)
ClaimLaunch(r) ==
  /\ launcher[r] = "idle"
  /\ IF ~Free(home[r], "launch") \/ ActiveOn(home[r])
     THEN EndLaunch(r) /\ UNCHANGED started
     ELSE /\ Go(r, "claim")
          /\ started' = [started EXCEPT ![r] = now]
  /\ UNCHANGED <<now, home, alive, baseline, files, observer, rest>>

(* claimDetachedRunResultPath; the launcher of a detached verification     *)
(* removes the old result next (beforeSpawn).                              *)
ClaimResult(r) ==
  /\ launcher[r] = "claim"
  /\ \/ ClaimStands /\ Go(r, "failing") /\ UNCHANGED <<claim, result, baseline>>
     \/ /\ TakeClaim(r)
        /\ \E file \in {result, None} : Keep(file)
        /\ Go(r, "spawn")
  /\ UNCHANGED <<now, home, started, alive, artifact, observer, rest>>

(* Under the write lock: baseline, then spawn, either of which may fail.   *)
Spawn(r) ==
  /\ launcher[r] = "spawn" /\ Writable(home[r])
  /\ baseline' = IF result = None THEN baseline ELSE baseline \union {r}
  /\ \/ Go(r, "identify") /\ alive' = alive \union {r}
     \/ Go(r, "failing") /\ UNCHANGED alive
  /\ UNCHANGED <<now, home, started, files, observer, rest>>

(* The identity of the process, and the hand-over of the claims, which may  *)
(* fail.  A process whose identity cannot be had is over, or is ended (a   *)
(* claim handed over stays then), or its end could not be confirmed.       *)
Identify(r) ==
  /\ launcher[r] = "identify"
  /\ \E handed \in BOOLEAN :
       \/ /\ HandOver(r, handed) /\ UNCHANGED alive
          /\ \/ handed /\ Go(r, "record")
             \/ Go(r, "failing")
             \/ ~Alive(r) /\ Go(r, "ended")
       \/ /\ KillChild(r, TRUE) /\ Go(r, "failed")
          /\ IF handed THEN HandOver(r, TRUE) ELSE DropClaim(r)
       \/ KillChild(r, FALSE) /\ HandOver(r, TRUE) /\ Go(r, "unverified")
  /\ UNCHANGED <<now, home, started, baseline, result, artifact, observer, rest>>

Recorded(r, status, at) ==
  [run |-> r, pid |-> TRUE, status |-> status, observed |-> at, seen |-> FALSE,
   basis |-> None]

(* A run whose end could not be confirmed stays on record, unwatched.      *)
Record(r) ==
  /\ \/ /\ launcher[r] = "record" /\ Go(r, "watch")
        /\ WriteArtifact(home[r], Recorded(r, "running", None), TRUE)
     \/ /\ launcher[r] = "unverified" /\ EndLaunch(r)
        /\ WriteArtifact(home[r], Recorded(r, "running", now), TRUE)
  /\ UNCHANGED <<now, home, started, alive, baseline, claim, result, observer, rest>>

(* makeCompletedStartupArtifact, or the one of a run without result.       *)
StartupRecord(r, found) ==
  IF found = None THEN Recorded(r, "process-exited-without-result", None)
  ELSE [Recorded(r, Verdict(found), None) EXCEPT !.basis = found]

(* Over before it could be identified.                                     *)
RecordEnded(r) ==
  /\ launcher[r] = "ended"
  /\ WriteArtifact(home[r], StartupRecord(r, Discovered(r)), TRUE)
  /\ DropClaim(r) /\ EndLaunch(r)
  /\ UNCHANGED <<now, home, started, alive, baseline, result, observer, rest>>

StartWatchdog(r) ==
  /\ launcher[r] = "watch"
  /\ \/ /\ Go(r, "note")
        /\ observer' = [observer EXCEPT ![r] = Asleep("idle")]
     \/ /\ Go(r, "failing")
        /\ observer' = [observer EXCEPT ![r] = Asleep("error")]
  /\ UNCHANGED <<now, home, started, alive, baseline, files, rest>>

(* Once the run is ended, or the launcher is gone, that event changes       *)
(* nothing more.                                                           *)
NoError(r) == IF At(r, "error") THEN Asleep("off") ELSE observer[r]

(* recordDetachedWatchdogStartupFailure, when the event of the watchdog    *)
(* that could not be spawned arrives: the launcher is through by then.     *)
WatchdogError(r) ==
  /\ At(r, "error") /\ launcher[r] = "done" /\ Writable(home[r])
  /\ \E gone \in BOOLEAN :
       /\ Terminate(r, gone)
       /\ WriteArtifact(home[r],
            Recorded(r, IF gone THEN "failed-to-start" ELSE "running", now), FALSE)
  /\ Mind(r, Asleep("off"))
  /\ UNCHANGED <<now, home, started, baseline, launcher, claim, result, rest>>

(* The watchdog's pid is added to the record as written, not as it is now. *)
NoteWatchdog(r) ==
  /\ launcher[r] = "note" /\ Writable(home[r])
  /\ \/ WriteArtifact(home[r], Recorded(r, "running", None), FALSE) /\ EndLaunch(r)
     \/ Go(r, "failing") /\ UNCHANGED artifact
  /\ UNCHANGED <<now, home, started, alive, baseline, claim, result, observer, rest>>

(* The error path: what was spawned is ended; when that cannot be          *)
(* confirmed the run stays on record, with the claims that it was handed.  *)
Failing(r) ==
  /\ launcher[r] = "failing"
  /\ \/ /\ Terminate(r, TRUE) /\ DropClaim(r)
        /\ Go(r, "failed") /\ Mind(r, NoError(r)) /\ UNCHANGED <<artifact, stray>>
     \/ /\ Terminate(r, FALSE) /\ Writable(home[r])
        /\ \E handed \in BOOLEAN : HandOver(r, handed)
        /\ stray' = IF claim' = ClaimBy(r, "run") THEN stray ELSE stray \union {r}
        /\ WriteArtifact(home[r], Recorded(r, "running", now), TRUE)
        /\ EndLaunch(r) /\ UNCHANGED observer
  /\ UNCHANGED <<now, home, started, baseline, result, deaths, lost>>

RecordFailed(r) ==
  /\ launcher[r] = "failed" /\ Writable(home[r])
  /\ WriteArtifact(home[r], [run |-> r, pid |-> FALSE, status |-> "failed-to-start",
                             observed |-> None, seen |-> FALSE, basis |-> None], TRUE)
  /\ EndLaunch(r)
  /\ UNCHANGED <<now, home, started, alive, baseline, claim, result, observer, rest>>

-----------------------------------------------------------------------------
(* executeVerifyProfile, when the verification runs inside the launcher.   *)

(* clearObsoleteDetachedRunArtifact: none while the run on record is active. *)
InlineCheck(r) ==
  /\ launcher[r] = "idle" /\ home[r] = Dir
  /\ CASE artifact[Dir] = None -> Go(r, "wipe")
       [] ActiveOn(Dir)        -> EndLaunch(r)
       [] OTHER                -> Go(r, "remove")
  /\ UNCHANGED <<now, home, started, alive, baseline, files, observer, rest>>

(* removeDetachedRunArtifact does not ask again.  A record that is gone by  *)
(* now ends the verification, or there is none to remove.                  *)
InlineRemove(r) ==
  /\ launcher[r] = "remove" /\ Writable(Dir)
  /\ IF artifact[Dir] # None /\ artifact[Dir].pid /\ OwnsClaim(artifact[Dir].run)
     THEN LoseClaim ELSE UNCHANGED <<claim, stray>>
  /\ artifact' = [artifact EXCEPT ![Dir] = None]
  /\ Go(r, "wipe") \/ (artifact[Dir] = None /\ EndLaunch(r))
  /\ UNCHANGED <<now, home, started, alive, baseline, result, observer, deaths, lost>>

(* rmSync of the directory removes whatever is in it, file by file; it may  *)
(* fail on what appears meanwhile.                                         *)
InlineWipe(r) ==
  /\ launcher[r] = "wipe"
  /\ \/ /\ artifact[Dir] # None /\ artifact' = [artifact EXCEPT ![Dir] = None]
        /\ UNCHANGED <<launcher, claim, result, baseline, lost, stray>>
     \/ /\ result # None /\ Keep(None)
        /\ UNCHANGED <<launcher, claim, artifact, lost, stray>>
     \/ /\ claim # None /\ LoseClaim
        /\ UNCHANGED <<launcher, result, artifact, baseline, lost>>
     \/ /\ \E s \in Runs, lock \in {"launch", "write"} :
             home[s] = Dir /\ Holds(s, lock) /\ lost' = lost \union {<<s, lock>>}
        /\ UNCHANGED <<launcher, claim, result, artifact, baseline, stray>>
     \/ /\ \/ EndLaunch(r)
           \/ /\ artifact[Dir] = None /\ result = None /\ claim = None
              /\ Free(Dir, "launch") /\ Writable(Dir) /\ Go(r, "await")
        /\ UNCHANGED <<claim, result, artifact, baseline, lost, stray>>
  /\ UNCHANGED <<now, home, started, alive, observer, deaths>>

(* withDetachedRunLaunchClaim waits for the launch lock, for a while.      *)
InlineClaimLaunch(r) ==
  /\ launcher[r] = "await"
  /\ IF Free(Dir, "launch") THEN Go(r, "inlineclaim") ELSE EndLaunch(r)
  /\ UNCHANGED <<now, home, started, alive, baseline, files, observer, rest>>

(* withDetachedRunResultClaim.                                             *)
InlineClaimResult(r) ==
  /\ launcher[r] = "inlineclaim"
  /\ \/ /\ TakeClaim(r) /\ alive' = alive \union {r}
        /\ Go(r, "inline")
     \/ /\ ClaimStands /\ EndLaunch(r)
        /\ UNCHANGED <<alive, claim>>
  /\ UNCHANGED <<now, home, started, baseline, result, artifact, observer, rest>>

(* The commands, then the result.                                          *)
InlineWrites(r) ==
  /\ launcher[r] = "inline"
  /\ \E outcome \in Reports \ {"unknown"} : WriteResult(r, outcome)
  /\ Go(r, "written")
  /\ UNCHANGED <<now, home, started, alive, claim, artifact, observer, rest>>

InlineDone(r) ==
  /\ Inline(r)
  /\ alive' = alive \ {r} /\ EndLaunch(r)
  /\ claim' = IF claim = ClaimBy(r, "launcher") THEN None ELSE claim
  /\ UNCHANGED <<now, home, started, baseline, result, artifact, observer, rest>>

(* The launcher is killed; claims and locks stay.                          *)
LauncherDies(r) ==
  /\ Working(r)
  /\ deaths < MaxDeaths /\ deaths' = deaths + 1
  /\ Go(r, "crashed") /\ Mind(r, NoError(r))
  /\ IF Inline(r) THEN alive' = alive \ {r} /\ UNCHANGED stray
     ELSE /\ stray' = IF Alive(r) /\ ~OwnsClaim(r) THEN stray \union {r} ELSE stray
          /\ UNCHANGED alive
  /\ UNCHANGED <<now, home, started, baseline, files, lost>>

-----------------------------------------------------------------------------
(* Status commands, one look each: inspectDetachedRun *)

(* What is read; lastObservedAt is not looked at.                          *)
Copy(p) == [artifact[p] EXCEPT !.observed = None]

Discoveries(r) == {Discovered(r), Unreadable}

Inspect(i) ==
  /\ At(i, "idle")
  /\ \E p \in Paths :
       /\ artifact[p] # None
       /\ Mind(i, [Asleep("discover") EXCEPT !.path = p, !.art = Copy(p)])
  /\ UNCHANGED <<now, home, started, alive, baseline, launcher, files, rest>>

(* observedAt is taken after the artifact was read; then phase and result  *)
(* are looked for, the process only later.                                 *)
InspectDiscover(i) ==
  /\ At(i, "discover")
  /\ LET a == observer[i].art
     IN IF a.status \in Terminal
        THEN Mind(i, [observer[i] EXCEPT
               !.at = IF a.status = "timeout" THEN "quarantine" ELSE "write",
               !.status = a.status])
        ELSE \E found \in Discoveries(a.run) :
               Mind(i, [observer[i] EXCEPT !.at = "decide", !.time = now, !.found = found])
  /\ UNCHANGED <<now, home, started, alive, baseline, launcher, files, rest>>

(* A result that could not be parsed is read once more.                    *)
Settled(o) ==
  LET again == Discovered(observer[o].art.run)
  IN IF again # None /\ Says(observer[o].found, {"unknown"}) THEN again
     ELSE observer[o].found

(* Mutant: the process is not looked at once there is a result.            *)
InspectDecide_ResultWins(i) ==
  /\ At(i, "decide")
  /\ LET o == observer[i]
         r == o.art.run
         found == Settled(i)
     IN Mind(i, CASE found = None /\ o.time >= Deadline(r) -> [o EXCEPT !.at = "terminate"]
                  [] found = None /\ Alive(r) -> [o EXCEPT !.at = "write"]
                  [] found = None -> [o EXCEPT !.at = "write",
                                        !.status = "process-exited-without-result"]
                  [] OTHER -> Concluded([o EXCEPT !.found = found], "write", Verdict(found)))
  /\ UNCHANGED <<now, home, started, alive, baseline, launcher, files, rest>>

(* Nothing is over while the process is alive; past the deadline only a    *)
(* result whose run was gone in time is accepted.                          *)
InspectDecide(i) ==
  /\ At(i, "decide")
  /\ LET o == observer[i]
         r == o.art.run
         late == o.time >= Deadline(r)
         reported == Says(o.found, Outcomes)
         seen == o.art.seen \/ (reported /\ Alive(r))
         next == [o EXCEPT !.seen = seen, !.found = None]
     IN Mind(i,
          IF late /\ (~reported \/ Alive(r) \/ seen)
          THEN [next EXCEPT !.at = "terminate"]
          ELSE IF Alive(r) THEN [next EXCEPT !.at = "write"]
          ELSE IF o.found = None THEN Concluded(o, "write", "process-exited-without-result")
          ELSE Concluded([o EXCEPT !.found = Settled(i)], "write", Verdict(Settled(i))))
  /\ UNCHANGED <<now, home, started, alive, baseline, launcher, files, rest>>

(* terminateDetachedProcess: the group is signalled, and is gone, or its   *)
(* end cannot be confirmed.                                                *)
InspectTerminate(i) ==
  /\ At(i, "terminate")
  /\ LET r == observer[i].art.run
     IN \/ /\ Terminate(r, TRUE)
           /\ Mind(i, Concluded(observer[i], "quarantine", "timeout"))
        \/ Terminate(r, FALSE) /\ Mind(i, [observer[i] EXCEPT !.at = "write"])
  /\ UNCHANGED <<now, home, started, baseline, launcher, files, rest>>

(* Mutant: whose result it is, is not asked.                               *)
Quarantined_Unowned(p, a) ==
  IF artifact[p] = None \/ result = None THEN result
  ELSE IF SameRun(artifact[p], a) /\ result.time >= Deadline(a.run) THEN None ELSE result

(* The record is still the run's, the result came after its deadline, and  *)
(* the run still owns the path.                                            *)
Quarantinable(p, a) ==
  SameRun(artifact[p], a) /\ result.time >= Deadline(a.run) /\ OwnsClaim(a.run)

(* quarantineLateResultArtifacts: such a result is renamed, under the write *)
(* lock.                                                                   *)
Quarantined(p, a) ==
  IF artifact[p] = None \/ result = None THEN result
  ELSE IF Quarantinable(p, a) THEN None ELSE result

Quarantine(o, p) ==
  /\ At(o, "quarantine") /\ Writable(p)
  /\ Keep(Quarantined(p, observer[o].art))
  /\ Mind(o, [observer[o] EXCEPT !.at = "write"])
  /\ UNCHANGED <<now, home, started, alive, launcher, claim, artifact, rest>>

(* The record as the inspector read it, with what it concluded.  Claims of *)
(* a run that is over are removed next, of one whose record is gone too.   *)
InspectWrite(i) ==
  /\ At(i, "write") /\ Writable(observer[i].path)
  /\ LET o == observer[i]
         next == [o.art EXCEPT !.status = o.status, !.observed = o.time, !.seen = o.seen,
                         !.basis = IF o.found = None THEN @ ELSE o.found]
         written == IF artifact'[o.path] = None THEN next ELSE artifact'[o.path]
     IN /\ WriteArtifact(o.path, next, FALSE)
        /\ Mind(i, IF written.pid /\ written.status \in Terminal
                   THEN [Asleep("release") EXCEPT !.art = Recorded(written.run, "running", None)]
                   ELSE Asleep("off"))
  /\ UNCHANGED <<now, home, started, alive, baseline, launcher, claim, result, rest>>

InspectRelease(i) ==
  /\ At(i, "release")
  /\ ReleaseClaimOf(observer[i].art.run)
  /\ Mind(i, Asleep("off"))
  /\ UNCHANGED <<now, home, started, alive, baseline, launcher, result, artifact, rest>>

-----------------------------------------------------------------------------
(* The watchdog's script: inspectDeadline.  One that is killed takes no further step. *)

(* Its own copies of the search and of the ownership check.                *)
DogOwnsClaim(r) == claim # None /\ claim = [run |-> r, owner |-> "run"]
DogDiscovers(r) ==
  IF result = None THEN None
  ELSE IF r \notin baseline /\ result.time < Deadline(r) /\ DogOwnsClaim(r)
       THEN result ELSE None

(* observedAt, then the record; it ends when that is gone, another run's,   *)
(* or terminal.                                                            *)
DogWakes(r) ==
  /\ At(r, "idle")
  /\ LET a == artifact[home[r]]
     IN Mind(r, IF a = None THEN Asleep("off")
                ELSE IF ~a.pid \/ a.run # r \/ a.status \in Terminal THEN Asleep("off")
                ELSE [Asleep("discover") EXCEPT !.art = Copy(home[r]), !.time = now])
  /\ UNCHANGED <<now, home, started, alive, baseline, launcher, files, rest>>

DogLooks(r) ==
  /\ At(r, "discover")
  /\ Mind(r, [observer[r] EXCEPT !.at = "decide", !.found = DogDiscovers(r)])
  /\ UNCHANGED <<now, home, started, alive, baseline, launcher, files, rest>>

(* Mutant: the watchdog gives up on a run it cannot end.                   *)
DogTerminates_Once(r) ==
  /\ At(r, "terminate")
  /\ \/ /\ alive' = alive \ {r}
        /\ Mind(r, Concluded(observer[r], "quarantine", "timeout"))
     \/ Alive(r) /\ Mind(r, Asleep("off")) /\ UNCHANGED alive
  /\ UNCHANGED <<now, home, started, baseline, launcher, files, rest>>

(* A result that cannot be parsed counts once the process is gone; while    *)
(* it lives, the process is looked at again, as if there were none.        *)
DogDecides(r) ==
  /\ At(r, "decide")
  /\ LET o == observer[r]
         late == o.time >= Deadline(r)
         reported == Says(o.found, {"passed", "failed"})
         over == [o EXCEPT !.at = "write", !.found = None]
     IN Mind(r,
          IF Alive(r)
          THEN CASE late /\ (reported \/ o.found = None) ->
                      [o EXCEPT !.at = "terminate", !.found = None]
                 [] reported                   -> [over EXCEPT !.seen = TRUE]
                 [] ~reported /\ o.found # None -> [o EXCEPT !.found = None]
                 [] OTHER                      -> Asleep("idle")
          ELSE CASE late /\ (o.found = None \/ (reported /\ o.art.seen)) ->
                      [o EXCEPT !.at = "terminate", !.found = None]
                 [] o.found = None ->
                      Concluded(o, "write", "process-exited-without-result")
                 [] OTHER -> Concluded(o, "write", Verdict(o.found)))
  /\ UNCHANGED <<now, home, started, alive, baseline, launcher, files, rest>>

(* recordTimeout: it tries again a second later when it cannot confirm the *)
(* end.                                                                    *)
DogTerminates(r) ==
  /\ At(r, "terminate")
  /\ \/ /\ alive' = alive \ {r}
        /\ Mind(r, Concluded(observer[r], "quarantine", "timeout"))
     \/ Alive(r) /\ Mind(r, Asleep("idle")) /\ UNCHANGED alive
  /\ UNCHANGED <<now, home, started, baseline, launcher, files, rest>>

(* writeTerminalArtifact and writeRunningResultObservation: the record as  *)
(* it is now, unless it is another run's or terminal.                      *)
DogWrites(r) ==
  /\ At(r, "write") /\ Writable(home[r])
  /\ LET o == observer[r]
         a == artifact[home[r]]
         mine == IF a = None THEN FALSE ELSE a.pid /\ a.run = r /\ a.status \notin Terminal
     IN /\ artifact' = IF mine
                       THEN [artifact EXCEPT ![home[r]] =
                               Slim([a EXCEPT !.status = o.status, !.observed = o.time,
                                              !.seen = @ \/ o.seen, !.basis = o.found])]
                       ELSE artifact
        /\ Mind(r, Asleep(IF o.status = "running" /\ a # None THEN "idle" ELSE "off"))
  /\ UNCHANGED <<now, home, started, alive, baseline, launcher, claim, result, rest>>

-----------------------------------------------------------------------------
Tick ==
  /\ now < MaxTime /\ now' = now + 1
  /\ UNCHANGED <<home, started, alive, baseline, launcher, files, observer, rest>>

Launching(r) ==
  \/ ClaimLaunch(r) \/ ClaimResult(r) \/ Spawn(r) \/ Identify(r)
  \/ Record(r) \/ RecordEnded(r) \/ StartWatchdog(r) \/ WatchdogError(r) \/ NoteWatchdog(r)
  \/ Failing(r) \/ RecordFailed(r)
  \/ InlineCheck(r) \/ InlineRemove(r) \/ InlineWipe(r) \/ InlineClaimLaunch(r)
  \/ InlineClaimResult(r) \/ InlineWrites(r) \/ InlineDone(r)

Inspecting(i) ==
  \/ Inspect(i) \/ InspectDiscover(i) \/ InspectDecide(i) \/ InspectTerminate(i)
  \/ (observer[i].path # None /\ Quarantine(i, observer[i].path))
  \/ InspectWrite(i) \/ InspectRelease(i)

Watching(r) ==
  DogWakes(r) \/ DogLooks(r) \/ DogDecides(r) \/ DogTerminates(r) \/ Quarantine(r, home[r]) \/ DogWrites(r)

Next ==
  \/ \E r \in Runs : RunWrites(r) \/ RunExits(r) \/ Launching(r) \/ LauncherDies(r)
                       \/ Watching(r)
  \/ \E i \in Inspectors : Inspecting(i)
  \/ Tick

Spec == Init /\ [][Next]_vars

(* Launchers and watchdogs go on while they live, time passes, and a       *)
(* process that is killed again and again is gone in the end.  Nothing     *)
(* makes a run, a user or a status command act.                            *)
Fairness ==
  /\ WF_vars(Tick)
  /\ \A r \in Runs :
       /\ WF_vars(Launching(r)) /\ WF_vars(Watching(r))
       /\ SF_vars(DogTerminates(r) /\ r \notin alive')

FairSpec == Spec /\ Fairness

-----------------------------------------------------------------------------
(* Properties *)

(* A run that is reported over is over: no status command, watchdog or     *)
(* failed launch records a terminal status, a timeout included, while the  *)
(* process may still work and write.                                       *)
TerminalMeansOver ==
  \A p \in Paths :
    IF artifact[p] = None THEN TRUE
    ELSE artifact[p].status \in Terminal => ~Alive(artifact[p].run)

(* Observers that finish late never undo a conclusion or speak for another *)
(* run, and neither does a launcher that writes what it recorded earlier:  *)
(* a terminal record does not change at all, and a record is created, or   *)
(* replaced by another run's, by the launch of that run alone, and removed *)
(* by a verification inside its launcher alone.                            *)
LaunchWrites(p) ==
  \E r \in Runs :
    /\ home[r] = p /\ launcher[r] \in {"record", "unverified", "ended", "failing", "failed"}
    /\ artifact'[p] # None /\ artifact'[p].run = r

InlineRemoves(p) ==
  artifact'[p] = None /\ \E r \in Runs : home[r] = p /\ launcher[r] \in {"remove", "wipe"}

TerminalIsFinal ==
  [][\A p \in Paths :
       artifact'[p] # artifact[p] =>
         \/ LaunchWrites(p) /\ (artifact[p] = None \/ ~SameRun(artifact'[p], artifact[p]))
         \/ InlineRemoves(p)
         \/ /\ artifact[p] # None /\ artifact'[p] # None
            /\ SameRun(artifact'[p], artifact[p]) /\ artifact[p].status \notin Terminal]_vars

(* Two runs never work into the result file at once, launched on one       *)
(* artifact path or on two, detached or inside the launcher, but for those *)
(* in stray: a run whose launcher died before it handed the claim over, or *)
(* could neither hand it over nor end the run, and one whose claim a       *)
(* verification inside its launcher removed, which it does before it       *)
(* claims anything itself.                                                 *)
OneWriter ==
  \A r, s \in Runs : Alive(r) /\ Alive(s) => r = s \/ r \in stray \/ s \in stray

(* A reported verdict is the run's own and in time: the result of an       *)
(* earlier run at the path, a late one and one written by somebody else    *)
(* are not taken for it, be it passed or failed.  Only a result that a     *)
(* stray run (see OneWriter) wrote may be, and that in time too.           *)
VerdictIsOwn ==
  \A p \in Paths :
    IF artifact[p] = None THEN TRUE
    ELSE LET a == artifact[p]
         IN /\ a.status = "passed" => a.basis # None
            /\ a.basis # None => /\ a.basis.time < Deadline(a.run)
                                 /\ a.basis.run = a.run \/ a.basis.run \in stray

(* The quarantine of a timed-out run takes away that run's own late result *)
(* and no other, but for one of a stray run (see OneWriter) and one that   *)
(* the run found there when it was launched (a baseline, which counts for  *)
(* nobody).  What a verification inside its launcher removes is not judged. *)
ResultKept ==
  [][\A o \in Runs \union Inspectors :
       At(o, "quarantine") /\ ~At(o, "quarantine")' /\ result # None /\ result' = None =>
         LET r == observer[o].art.run
         IN \/ result.run = r /\ result.time >= Deadline(r)
            \/ result.run \in stray
            \/ r \in baseline]_vars

(* A run on record whose watchdog works ends on record: it is ended at its *)
(* deadline, however often that fails at first, and even if nobody ever    *)
(* asks for its status.  (The clock must get past the deadline.)           *)
Running(r) ==
  IF artifact[home[r]] = None THEN FALSE
  ELSE artifact[home[r]].run = r /\ artifact[home[r]].status = "running"

WatchedRunsEnd ==
  \A r \in Runs :
    Running(r) /\ observer[r].at \notin {"off", "error"} /\ Deadline(r) <= MaxTime ~> ~Running(r)
=============================================================================
