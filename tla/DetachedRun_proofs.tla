-------------------------- MODULE DetachedRun_proofs --------------------------
(***************************************************************************)
(* Proofs about DetachedRun: for any number of launches, status commands   *)
(* and artifact paths, any timeout, and any number of launchers killed.    *)
(* The argument: nothing speaks of a run before its launch spawns it, so   *)
(* what an observer has concluded of a run's death stays true; the run     *)
(* that is alive holds the claim on the result file, unless it is stray;   *)
(* hence only a stray run writes a result that the claim's holder could    *)
(* take for its own.                                                       *)
(***************************************************************************)
EXTENDS DetachedRun, TLAPS

(* A run whose process is not spawned yet, or whose work has not begun. *)
FreshPlaces == {"idle", "claim", "spawn", "remove", "wipe", "await", "inlineclaim"}
Fresh(r) == launcher[r] \in FreshPlaces

FreshOK == \A r \in Runs : Fresh(r) => ~Alive(r)

(* A verification clears the directory of its own artifact.                *)
InlineOK == \A r \in Runs : launcher[r] \in {"remove", "wipe"} => home[r] = Dir

(* Who holds the claim on the result file: the launcher, for a run that it *)
(* is about to spawn, has just spawned, or does the work of; then the run. *)
Needs(r) == launcher[r] \in {"spawn", "identify", "inline", "written"}
ClaimOK ==
  \A r \in Runs :
    /\ r \notin stray =>
         /\ Needs(r) => claim = ClaimBy(r, "launcher")
         /\ Alive(r) => \/ OwnsClaim(r)
                        \/ claim = ClaimBy(r, "launcher") /\ (Needs(r) \/ launcher[r] = "failing")
    /\ launcher[r] \in {"ended", "failed"} => ~Alive(r)
    /\ launcher[r] \in {"record", "watch", "note"} => claim # ClaimBy(r, "launcher")

(* A result that is no baseline is the run's that holds the claim, or will *)
(* be handed it, or was written by a stray run.                            *)
Mine(f, r) == f.run = r \/ f.run \in stray
Owner(r) ==
  \/ OwnsClaim(r)
  \/ /\ claim = ClaimBy(r, "launcher")
     /\ launcher[r] = "identify" \/ (launcher[r] = "failing" /\ Alive(r))

ResultOK ==
  \A r \in Runs : Owner(r) /\ result # None /\ r \notin baseline => Mine(result, r)

(* A verdict for r that rests on the result b, and a record, when the runs *)
(* al are alive, with launchers la started at st, and the runs sy stray:   *)
(* it tells of a run that was spawned.                                     *)
Fine(b, r, st, sy) == b \in Results /\ b.time < st[r] + Timeout /\ (b.run = r \/ b.run \in sy)
Sound(a, al, la, st, sy) ==
  /\ la[a.run] \notin FreshPlaces
  /\ a.status \in Terminal => a.run \notin al
  /\ a.status = "passed" => a.basis # None
  /\ a.basis # None => Fine(a.basis, a.run, st, sy)

Good(b, r) == Fine(b, r, started, stray)
RecordOK(a) == Sound(a, alive, launcher, started, stray)

ArtifactsOK == \A p \in Paths : artifact[p] # None => RecordOK(artifact[p])

Looking == {"discover", "decide", "terminate", "quarantine", "write", "release"}

(* What an observer has read, found and concluded. *)
ObserverOK(o) ==
  LET x == observer[o] IN
  /\ x.at \in Looking => x.art # None /\ (o \in Runs => x.art.run = o)
  /\ x.at \in Looking \ {"release"} => x.path # None \/ o \in Runs
  /\ x.art # None => RecordOK(x.art)
  /\ x.at \in {"discover", "decide", "terminate"} => x.status = "running"
  /\ x.at \in {"discover", "terminate"} => x.found = None
  /\ x.at \in {"decide", "quarantine", "write"} /\ x.found \in Results => Good(x.found, x.art.run)
  /\ o \in Runs => x.found \in Results \union {None}
  /\ x.at \in {"quarantine", "write"} => x.found \in Results \union {None}
  /\ x.at \in {"quarantine", "write"} /\ x.status \in Terminal => ~Alive(x.art.run)
  /\ x.at \in {"quarantine", "write"} /\ x.status = "passed" /\ x.found = None =>
       o \notin Runs /\ x.art.basis # None
  /\ x.at = "release" => ~Alive(x.art.run)

(* The inductive invariant. *)
IInv ==
  /\ TypeOK /\ FreshOK /\ InlineOK /\ ClaimOK /\ ResultOK /\ ArtifactsOK
  /\ \A o \in Runs \union Inspectors : ObserverOK(o)

-----------------------------------------------------------------------------
(* Types *)

(* Names that are used for nothing else. *)
LEMMA Names ==
  /\ None \notin Runs /\ None \notin Paths /\ None \notin Claims
  /\ None \notin Artifacts /\ None \notin Results /\ Unreadable \notin Results
<1>1. None \notin Runs /\ None \notin Artifacts /\ None \notin Results
      /\ None \notin Paths /\ None \notin Claims
  BY NoneAssumption
<1>2. Unreadable \notin Results
  BY <1>1 DEF Unreadable, Results
<1> QED BY <1>1, <1>2

(* A claim names one run and one owner. *)
LEMMA ClaimNames ==
  ASSUME NEW s \in Runs, NEW w \in {"launcher", "run"}
  PROVE  LET c == ClaimBy(s, w) IN c \in Claims /\ c # None /\ c.run = s /\ c.owner = w
<1>1. ClaimBy(s, w) \in Claims /\ ClaimBy(s, w).run = s /\ ClaimBy(s, w).owner = w
  BY DEF Claims, ClaimBy
<1> QED BY <1>1, Names

(* A sleeping observer. *)
LEMMA AsleepType ==
  ASSUME NEW place \in ObserverPlaces
  PROVE  /\ Asleep(place) \in Observers
         /\ Asleep(place).at = place /\ Asleep(place).art = None /\ Asleep(place).found = None
         /\ Asleep(place).path = None /\ Asleep(place).status = "running"
<1>1. 0 \in Times
  BY BoundsAssumption DEF Times
<1> QED BY <1>1 DEF Asleep, Observers

(* One that has concluded on a terminal status. *)
LEMMA ConcludedType ==
  ASSUME NEW x \in Observers, x.art \in Artifacts, NEW place \in ObserverPlaces, NEW status \in Terminal
  PROVE  LET c == Concluded(x, place, status) IN
         /\ c \in Observers
         /\ c.at = place /\ c.path = x.path /\ c.status = status
         /\ c.found = (IF x.found = Unreadable THEN None ELSE x.found)
         /\ c.found \in Results \union {None}
         /\ c.art \in Artifacts /\ c.art.run = x.art.run /\ c.art.status = x.art.status
         /\ c.art.basis = x.art.basis
<1> DEFINE art == [x.art EXCEPT !.seen = FALSE]
           found == IF x.found = Unreadable THEN None ELSE x.found
<1>1. /\ art \in Artifacts /\ art.run = x.art.run /\ art.status = x.art.status
      /\ art.basis = x.art.basis
  BY DEF Artifacts
<1>2. found \in Results \union {None} /\ 0 \in Times
  BY BoundsAssumption DEF Observers, Times
<1>3. Concluded(x, place, status) =
        [at |-> place, path |-> x.path, art |-> art, time |-> 0, found |-> found,
         status |-> status, seen |-> FALSE]
  BY DEF Concluded, found
<1> HIDE DEF art
<1>4. x.path \in Paths \union {None}
  BY DEF Observers
<1> QED BY <1>1, <1>2, <1>3, <1>4 DEF Observers, found

(* What is on record of a run that is over. *)
LEMMA SlimType ==
  ASSUME NEW a \in Artifacts
  PROVE  /\ Slim(a) \in Artifacts /\ Slim(a).run = a.run /\ Slim(a).pid = a.pid
         /\ Slim(a).status = a.status /\ Slim(a).basis = a.basis
BY DEF Slim, Artifacts

(* What writing a record comes to; an observer replaces no other run's, and *)
(* none that is terminal.                                                  *)
LEMMA WriteEffect ==
  ASSUME TypeOK, NEW p \in Paths, NEW a \in Artifacts, NEW replace \in BOOLEAN,
         WriteArtifact(p, a, replace)
  PROVE  /\ artifact' \in [Paths -> Artifacts \union {None}]
         /\ \A q \in Paths :
              \/ artifact'[q] = artifact[q]
              \/ /\ q = p /\ artifact'[q] \in Artifacts
                 /\ artifact'[q].run = a.run /\ artifact'[q].pid = a.pid
                 /\ artifact'[q].status = a.status /\ artifact'[q].basis = a.basis
                 /\ ~replace => artifact[q] # None /\ SameRun(artifact[q], a)
                 /\ artifact[q] # None /\ SameRun(artifact[q], a) => artifact[q].status \notin Terminal
<1>1. CASE Preserved(p, a, replace)
  BY <1>1 DEF WriteArtifact, TypeOK
<1>2. CASE ~Preserved(p, a, replace)
  <2>1. artifact' = [artifact EXCEPT ![p] = Slim(a)]
    BY <1>2 DEF WriteArtifact
  <2>2. /\ ~replace => artifact[p] # None /\ SameRun(artifact[p], a)
        /\ artifact[p] # None /\ SameRun(artifact[p], a) => artifact[p].status \notin Terminal
    BY <1>2 DEF Preserved
  <2> QED BY <2>1, <2>2, SlimType DEF TypeOK
<1> QED BY <1>1, <1>2

(* The record of a process that was started. *)
LEMMA RecordedType ==
  ASSUME NEW r \in Runs, NEW status \in Terminal \union {"running"}, NEW at \in Times \union {None}
  PROVE  /\ Recorded(r, status, at) \in Artifacts /\ Recorded(r, status, at).run = r
         /\ Recorded(r, status, at).pid = TRUE
         /\ Recorded(r, status, at).status = status /\ Recorded(r, status, at).basis = None
BY DEF Recorded, Artifacts

(* A result that is found is one. *)
LEMMA DiscoveredType ==
  ASSUME TypeOK, NEW r \in Runs
  PROVE  /\ Discovered(r) \in Results \union {None}
         /\ DogDiscovers(r) \in Results \union {None}
         /\ \A found \in {Discovered(r), DogDiscovers(r)} : found # None =>
              found = result /\ r \notin baseline /\ OwnsClaim(r) /\ found.time < Deadline(r)
BY DEF TypeOK, Discovered, DogDiscovers, DogOwnsClaim, OwnsClaim, ClaimBy

(* What verdict a result leads to. *)
LEMMA VerdictType ==
  ASSUME NEW found \in Results \union {Unreadable}
  PROVE  /\ Verdict(found) \in Terminal
         /\ Verdict(found) = "passed" => found \in Results
BY DEF Verdict, Unreadable, Results, Outcomes, Terminal

(* The record of a run that was over before it could be identified. *)
LEMMA StartupType ==
  ASSUME TypeOK, NEW r \in Runs
  PROVE  StartupRecord(r, Discovered(r)) \in Artifacts /\ StartupRecord(r, Discovered(r)).run = r
<1>1. Discovered(r) \in Results \union {None}
  BY DiscoveredType
<1>2. Discovered(r) # None => Verdict(Discovered(r)) \in Terminal
  BY <1>1, VerdictType
<1>3. \A status \in Terminal : Recorded(r, status, None) \in Artifacts /\ Recorded(r, status, None).run = r
  BY DEF Recorded, Artifacts
<1>4. "process-exited-without-result" \in Terminal
  BY DEF Terminal
<1> QED BY <1>1, <1>2, <1>3, <1>4 DEF StartupRecord, Artifacts

-----------------------------------------------------------------------------
(* What no step takes back *)

(* A run that was spawned was, one that is dead stays so, its deadline     *)
(* stands, and a run that is stray is.                                     *)
Steady ==
  /\ stray \subseteq stray'
  /\ \A r \in Runs : ~Fresh(r) => /\ ~Fresh(r)' /\ started'[r] = started[r]
                                  /\ ~Alive(r) => ~Alive(r)'

(* An observer's step launches and revives nothing. *)
LEMMA ObserversLaunch ==
  ASSUME \/ \E i \in Inspectors : Inspecting(i)
         \/ \E r \in Runs : Watching(r)
  PROVE  UNCHANGED <<now, home, started, launcher, deaths, lost, stray>> /\ alive' \subseteq alive
BY DEF Inspecting, Inspect, InspectDiscover, InspectDecide, InspectTerminate, Terminate,
       Quarantine, InspectWrite, InspectRelease, Watching, DogWakes, DogLooks, DogDecides,
       DogTerminates, DogWrites, rest

(* No step takes any of it back. *)
LEMMA SteadyStep ==
  ASSUME TypeOK, [Next]_vars
  PROVE  Steady
<1>1. ASSUME UNCHANGED <<started, launcher>>, stray \subseteq stray', alive' \subseteq alive
      PROVE  Steady
  BY <1>1 DEF Steady, Fresh, FreshPlaces, Alive
<1>2. CASE (\E i \in Inspectors : Inspecting(i)) \/ (\E r \in Runs : Watching(r))
  BY <1>1, <1>2, ObserversLaunch
<1>3. CASE Tick \/ UNCHANGED vars
  BY <1>1, <1>3 DEF Tick, rest, vars
<1>4. ASSUME NEW r \in Runs, RunWrites(r) \/ RunExits(r) \/ WatchdogError(r)
      PROVE  Steady
  BY <1>1, <1>4 DEF RunWrites, RunExits, WatchdogError, Terminate, rest
<1>5. ASSUME NEW r \in Runs, NEW place \in LauncherPlaces, Go(r, place), Fresh(r),
             alive' \subseteq alive \union {r}, stray \subseteq stray',
             \A s \in Runs \ {r} : started'[s] = started[s]
      PROVE  Steady
  BY <1>5 DEF Go, TypeOK, Steady, Fresh, Alive
<1>6. ASSUME NEW r \in Runs, NEW place \in LauncherPlaces \ FreshPlaces, Go(r, place),
             UNCHANGED started, alive' \subseteq alive, stray \subseteq stray'
      PROVE  Steady
  BY <1>6 DEF Go, TypeOK, Steady, Fresh, Alive
<1>7. ASSUME NEW r \in Runs, ClaimLaunch(r) \/ ClaimResult(r) \/ Spawn(r)
      PROVE  Steady
  <2>1. PICK place \in LauncherPlaces : Go(r, place)
    BY <1>7 DEF ClaimLaunch, ClaimResult, Spawn, EndLaunch, LauncherPlaces
  <2>2. /\ Fresh(r) /\ alive' \subseteq alive \union {r} /\ UNCHANGED stray
        /\ \A s \in Runs \ {r} : started'[s] = started[s]
    BY <1>7 DEF ClaimLaunch, ClaimResult, Spawn, Fresh, FreshPlaces, rest, TypeOK
  <2> QED BY <1>5, <2>1, <2>2
<1>8. ASSUME NEW r \in Runs, InlineCheck(r) \/ InlineRemove(r) \/ InlineClaimLaunch(r)
                              \/ InlineClaimResult(r)
      PROVE  Steady
  <2>1. PICK place \in LauncherPlaces : Go(r, place)
    BY <1>8 DEF InlineCheck, InlineRemove, InlineClaimLaunch, InlineClaimResult, EndLaunch,
                LauncherPlaces
  <2>2. /\ Fresh(r) /\ alive' \subseteq alive \union {r} /\ stray \subseteq stray' /\ UNCHANGED started
    BY <1>8 DEF InlineCheck, InlineRemove, InlineClaimLaunch, InlineClaimResult, Fresh,
                FreshPlaces, rest, LoseClaim
  <2> QED BY <1>5, <2>1, <2>2
<1>9. ASSUME NEW r \in Runs, InlineWipe(r)
      PROVE  Steady
  <2>1. UNCHANGED launcher \/ \E place \in {"done", "await"} : Go(r, place)
    BY <1>9 DEF InlineWipe, EndLaunch
  <2>2. Fresh(r) /\ alive' = alive /\ stray \subseteq stray' /\ UNCHANGED started
    BY <1>9 DEF InlineWipe, LoseClaim, Fresh, FreshPlaces
  <2> QED BY <1>1, <1>5, <2>1, <2>2 DEF LauncherPlaces
<1>10. ASSUME NEW r \in Runs,
              \/ Identify(r) \/ Record(r) \/ RecordEnded(r) \/ StartWatchdog(r) \/ NoteWatchdog(r)
              \/ Failing(r) \/ RecordFailed(r) \/ InlineWrites(r) \/ InlineDone(r) \/ LauncherDies(r)
       PROVE  Steady
  <2>1. alive' \subseteq alive /\ UNCHANGED started
    BY <1>10 DEF Identify, KillChild, Record, RecordEnded, StartWatchdog, NoteWatchdog, Failing,
                 Terminate, RecordFailed, InlineWrites, InlineDone, LauncherDies
  <2>2. stray \subseteq stray'
    BY <1>10 DEF Identify, Record, RecordEnded, StartWatchdog, NoteWatchdog, Failing, RecordFailed,
                 InlineWrites, InlineDone, LauncherDies, rest
  <2>3. PICK place \in LauncherPlaces \ FreshPlaces : Go(r, place)
    BY <1>10 DEF Identify, Record, RecordEnded, StartWatchdog, NoteWatchdog, Failing, RecordFailed,
                 InlineWrites, InlineDone, LauncherDies, EndLaunch, LauncherPlaces, FreshPlaces
  <2> QED BY <1>6, <2>1, <2>2, <2>3
<1> QED BY <1>2, <1>3, <1>4, <1>7, <1>8, <1>9, <1>10 DEF Next, Launching

(* What has been concluded of a run that was spawned stays true. *)
LEMMA FineStays ==
  ASSUME Steady, NEW r \in Runs, ~Fresh(r), NEW b, Good(b, r)
  PROVE  Fine(b, r, started', stray')
BY DEF Steady, Good, Fine

(* A record that was true stays true. *)
LEMMA SoundStays ==
  ASSUME Steady, NEW a, a.run \in Runs, RecordOK(a)
  PROVE  Sound(a, alive', launcher', started', stray')
<1>0. ~Fresh(a.run)
  BY DEF RecordOK, Sound, Fresh
<1>1. a.status \in Terminal => a.run \notin alive'
  BY <1>0 DEF Steady, RecordOK, Sound, Alive
<1>2. /\ a.status = "passed" => a.basis # None
      /\ a.basis # None => Fine(a.basis, a.run, started', stray')
  BY <1>0, FineStays DEF RecordOK, Sound, Good
<1> QED BY <1>0, <1>1, <1>2 DEF Sound, Steady, Fresh

(* So does what an observer knows that takes no step. *)
LEMMA ObserverStays ==
  ASSUME TypeOK, Steady, NEW o \in Runs \union Inspectors, ObserverOK(o), observer'[o] = observer[o]
  PROVE  ObserverOK(o)'
<1> DEFINE x == observer[o]
<1>1. x.art \in Artifacts \union {None} /\ x.found \in Results \union {None, Unreadable}
      /\ x.status \in Terminal \union {"running"}
  BY DEF TypeOK, Observers
<1>2. x.art # None => x.art.run \in Runs /\ ~Fresh(x.art.run)
  BY <1>1 DEF ObserverOK, RecordOK, Sound, Fresh, Artifacts
<1>3. ASSUME x.art # None, RecordOK(x.art)
      PROVE  Sound(x.art, alive', launcher', started', stray')
  BY <1>2, <1>3, SoundStays
<1>4. ASSUME x.art # None, NEW b, Good(b, x.art.run)
      PROVE  Fine(b, x.art.run, started', stray')
  BY <1>2, <1>4, FineStays
<1>5. ASSUME x.art # None, ~Alive(x.art.run)
      PROVE  x.art.run \notin alive'
  BY <1>2, <1>5 DEF Steady, Alive
<1>6. x.at \in Looking => x.art # None
  BY DEF ObserverOK
<1>7. /\ (x.art # None => Sound(x.art, alive', launcher', started', stray'))
      /\ (x.at \in {"decide", "quarantine", "write"} /\ x.found \in Results =>
            Fine(x.found, x.art.run, started', stray'))
  BY <1>3, <1>4, <1>6 DEF ObserverOK, Looking
<1>8. /\ (x.at \in {"quarantine", "write"} /\ x.status \in Terminal => x.art.run \notin alive')
      /\ (x.at = "release" => x.art.run \notin alive')
  BY <1>5, <1>6 DEF ObserverOK, Looking
<1> QED BY <1>7, <1>8 DEF ObserverOK, RecordOK, Good, Alive

(* An observer that sleeps knows nothing. *)
LEMMA AsleepOK ==
  ASSUME NEW o \in Runs \union Inspectors, NEW place \in {"off", "error", "idle"},
         observer'[o] = Asleep(place)
  PROVE  ObserverOK(o)'
BY AsleepType DEF ObserverOK, Looking, ObserverPlaces

-----------------------------------------------------------------------------
(* Types are kept: by the runs, the clock and the launchers, ... *)

(* A launcher that goes on, and the event of its watchdog. *)
LEMMA GoType ==
  ASSUME TypeOK, NEW r \in Runs, NEW place \in LauncherPlaces, Go(r, place)
  PROVE  /\ launcher' \in [Runs -> LauncherPlaces] /\ launcher'[r] = place
         /\ \A s \in Runs \ {r} : launcher'[s] = launcher[s]
BY DEF Go, TypeOK

(* The observer that takes a step, and the others. *)
LEMMA MindType ==
  ASSUME TypeOK, NEW o \in Runs \union Inspectors, NEW x \in Observers, Mind(o, x)
  PROVE  /\ observer' \in [Runs \union Inspectors -> Observers] /\ observer'[o] = x
         /\ \A q \in (Runs \union Inspectors) \ {o} : observer'[q] = observer[q]
BY DEF Mind, TypeOK

(* A watchdog whose failure nobody is told of any more. *)
LEMMA NoErrorType ==
  ASSUME TypeOK, NEW r \in Runs
  PROVE  NoError(r) \in Observers /\ (NoError(r) = observer[r] \/ NoError(r) = Asleep("off"))
BY AsleepType DEF NoError, TypeOK, ObserverPlaces

(* The result file and the baselines. *)
LEMMA KeepType ==
  ASSUME TypeOK, NEW file \in {result, None}, Keep(file)
  PROVE  /\ result' \in Results \union {None} /\ baseline' \subseteq Runs
         /\ result' = file /\ (result' # None => result' = result /\ baseline' = baseline)
BY DEF Keep, TypeOK

(* A new result is a baseline for nobody. *)
LEMMA WriteResultType ==
  ASSUME TypeOK, NEW r \in Runs, NEW outcome \in Reports, WriteResult(r, outcome)
  PROVE  result' \in Results /\ result'.run = r /\ baseline' = {}
BY ReportsAssumption DEF WriteResult, Results, Outcomes, TypeOK

(* A claim that is released was the run's own. *)
LEMMA ReleaseType ==
  ASSUME TypeOK, NEW r, ReleaseClaimOf(r)
  PROVE  claim' \in Claims \union {None} /\ (claim' = claim \/ (claim' = None /\ OwnsClaim(r)))
BY DEF ReleaseClaimOf, TypeOK

(* A claim that is removed, and whose it was. *)
LEMMA LoseType ==
  ASSUME TypeOK, LoseClaim
  PROVE  claim' = None /\ stray \subseteq stray' /\ stray' \subseteq Runs
<1>1. claim # None => claim.run \in Runs
  BY DEF TypeOK, Claims
<1> QED BY <1>1 DEF LoseClaim, ClaimStands, TypeOK

(* Every step of a launcher. *)
LEMMA LaunchType ==
  ASSUME TypeOK, NEW r \in Runs, Launching(r)
  PROVE  TypeOK'
<1>0. TypeOK' <=> /\ now' \in Times /\ home' \in [Runs -> Paths] /\ started' \in [Runs -> Times]
                 /\ alive' \subseteq Runs /\ baseline' \subseteq Runs
                 /\ launcher' \in [Runs -> LauncherPlaces]
                 /\ claim' \in Claims \union {None} /\ result' \in Results \union {None}
                 /\ artifact' \in [Paths -> Artifacts \union {None}]
                 /\ observer' \in [Runs \union Inspectors -> Observers]
                 /\ deaths' \in 0..MaxDeaths
                 /\ lost' \subseteq Runs \X {"launch", "write"} /\ stray' \subseteq Runs
  BY DEF TypeOK
<1>1. CASE ClaimLaunch(r) \/ ClaimResult(r) \/ Spawn(r) \/ Identify(r)
  <2>1. PICK place \in LauncherPlaces : Go(r, place)
    BY <1>1 DEF ClaimLaunch, ClaimResult, Spawn, Identify, EndLaunch, LauncherPlaces
  <2>2. /\ claim' \in Claims \union {None} /\ started' \in [Runs -> Times] /\ alive' \subseteq Runs
        /\ baseline' \subseteq Runs /\ result' \in Results \union {None}
    <3>1. CASE ClaimLaunch(r)
      BY <3>1 DEF ClaimLaunch, files, TypeOK
    <3>2. CASE ClaimResult(r)
      <4>1. claim' \in Claims \union {None} /\ UNCHANGED <<started, alive>>
        BY <3>2 DEF ClaimResult, TakeClaim, ClaimBy, Claims, TypeOK
      <4>2. UNCHANGED <<result, baseline>> \/ \E file \in {result, None} : Keep(file)
        BY <3>2 DEF ClaimResult
      <4> QED BY <4>1, <4>2, KeepType DEF TypeOK
    <3>3. CASE Spawn(r)
      BY <3>3 DEF Spawn, files, TypeOK
    <3>4. CASE Identify(r)
      <4>1. claim' \in {claim, None, ClaimBy(r, "run")}
        BY <3>4 DEF Identify, HandOver, DropClaim
      <4> QED BY <3>4, <4>1, ClaimNames DEF Identify, KillChild, TypeOK
    <3> QED BY <1>1, <3>1, <3>2, <3>3, <3>4
  <2>3. UNCHANGED <<now, home, artifact, observer, deaths, lost, stray>>
    BY <1>1 DEF ClaimLaunch, ClaimResult, Spawn, Identify, files, rest
  <2> QED BY <1>0, <2>1, <2>2, <2>3, GoType DEF TypeOK
<1>2. CASE Record(r) \/ NoteWatchdog(r) \/ RecordFailed(r)
  <2>1. PICK place \in LauncherPlaces : Go(r, place)
    BY <1>2 DEF Record, NoteWatchdog, RecordFailed, EndLaunch, LauncherPlaces
  <2>2. \/ UNCHANGED artifact
        \/ \E a \in Artifacts, replace \in BOOLEAN : WriteArtifact(home[r], a, replace)
    <3>1. Recorded(r, "running", None) \in Artifacts /\ Recorded(r, "running", now) \in Artifacts
      BY RecordedType DEF TypeOK
    <3>2. [run |-> r, pid |-> FALSE, status |-> "failed-to-start",
           observed |-> None, seen |-> FALSE, basis |-> None] \in Artifacts
      BY DEF Artifacts, Terminal
    <3> QED BY <1>2, <3>1, <3>2 DEF Record, NoteWatchdog, RecordFailed
  <2>3. artifact' \in [Paths -> Artifacts \union {None}]
    BY <2>2, WriteEffect DEF TypeOK
  <2>4. UNCHANGED <<now, home, started, alive, baseline, claim, result, observer, deaths, lost, stray>>
    BY <1>2 DEF Record, NoteWatchdog, RecordFailed, rest
  <2> QED BY <1>0, <2>1, <2>3, <2>4, GoType DEF TypeOK
<1>3. CASE RecordEnded(r)
  <2>1. "done" \in LauncherPlaces /\ Go(r, "done")
    BY <1>3 DEF RecordEnded, EndLaunch, LauncherPlaces
  <2>2. StartupRecord(r, Discovered(r)) \in Artifacts
    BY StartupType
  <2>3. artifact' \in [Paths -> Artifacts \union {None}]
    BY <1>3, <2>2, WriteEffect DEF TypeOK, RecordEnded
  <2>4. claim' \in Claims \union {None}
    BY <1>3 DEF RecordEnded, DropClaim, TypeOK
  <2> QED BY <1>0, <1>3, <2>1, <2>3, <2>4, GoType DEF RecordEnded, rest, TypeOK
<1>4. CASE StartWatchdog(r)
  <2>1. PICK place \in LauncherPlaces : Go(r, place)
    BY <1>4 DEF StartWatchdog, LauncherPlaces
  <2>2. \E where \in ObserverPlaces : Mind(r, Asleep(where))
    BY <1>4 DEF StartWatchdog, Mind, ObserverPlaces
  <2>3. observer' \in [Runs \union Inspectors -> Observers]
    BY <2>2, AsleepType, MindType
  <2> QED BY <1>0, <1>4, <2>1, <2>3, GoType DEF StartWatchdog, files, rest, TypeOK
<1>5. CASE WatchdogError(r)
  <2>1. PICK gone \in BOOLEAN : /\ Terminate(r, gone)
                               /\ WriteArtifact(home[r],
                                    Recorded(r, IF gone THEN "failed-to-start" ELSE "running", now), FALSE)
    BY <1>5 DEF WatchdogError
  <2>2. Recorded(r, IF gone THEN "failed-to-start" ELSE "running", now) \in Artifacts
    BY RecordedType DEF TypeOK, Terminal
  <2>3. artifact' \in [Paths -> Artifacts \union {None}]
    BY <2>1, <2>2, WriteEffect DEF TypeOK
  <2>4. alive' \subseteq Runs
    BY <2>1 DEF Terminate, TypeOK
  <2>5. observer' \in [Runs \union Inspectors -> Observers]
    BY <1>5, AsleepType, MindType DEF WatchdogError, ObserverPlaces
  <2> QED BY <1>0, <1>5, <2>3, <2>4, <2>5 DEF WatchdogError, rest, TypeOK
<1>6. CASE Failing(r)
  <2>1. PICK place \in LauncherPlaces : Go(r, place)
    BY <1>6 DEF Failing, EndLaunch, LauncherPlaces
  <2>2. alive' \subseteq Runs /\ claim' \in Claims \union {None} /\ stray' \subseteq Runs
    <3>1. claim' \in {claim, None, ClaimBy(r, "run")}
      BY <1>6 DEF Failing, HandOver, DropClaim
    <3>2. stray' \subseteq stray \union {r}
      BY <1>6 DEF Failing
    <3> QED BY <1>6, <3>1, <3>2, ClaimNames DEF Failing, Terminate, TypeOK
  <2>3. artifact' \in [Paths -> Artifacts \union {None}]
    <3>1. Recorded(r, "running", now) \in Artifacts
      BY RecordedType DEF TypeOK
    <3> QED BY <1>6, <3>1, WriteEffect DEF Failing, TypeOK
  <2>4. observer' \in [Runs \union Inspectors -> Observers]
    BY <1>6, NoErrorType, MindType DEF Failing, TypeOK
  <2> QED BY <1>0, <1>6, <2>1, <2>2, <2>3, <2>4, GoType DEF Failing, TypeOK
<1>7. CASE InlineCheck(r) \/ InlineClaimLaunch(r) \/ InlineClaimResult(r)
  <2>1. PICK place \in LauncherPlaces : Go(r, place)
    BY <1>7 DEF InlineCheck, InlineClaimLaunch, InlineClaimResult, EndLaunch, LauncherPlaces
  <2>2. claim' \in Claims \union {None} /\ alive' \subseteq Runs
    BY <1>7, ClaimNames
       DEF InlineCheck, InlineClaimLaunch, InlineClaimResult, TakeClaim, files, TypeOK
  <2>3. UNCHANGED <<now, home, started, baseline, result, artifact, observer, deaths, lost, stray>>
    BY <1>7 DEF InlineCheck, InlineClaimLaunch, InlineClaimResult, files, rest
  <2> QED BY <1>0, <2>1, <2>2, <2>3, GoType DEF TypeOK
<1>8. CASE InlineWrites(r) \/ InlineDone(r)
  <2>1. PICK place \in LauncherPlaces : Go(r, place)
    BY <1>8 DEF InlineWrites, InlineDone, EndLaunch, LauncherPlaces
  <2>2. claim' \in Claims \union {None} /\ alive' \subseteq Runs
    BY <1>8 DEF InlineWrites, InlineDone, TypeOK
  <2>3. baseline' \subseteq Runs /\ result' \in Results \union {None}
    <3>1. UNCHANGED <<baseline, result>> \/ \E outcome \in Reports : WriteResult(r, outcome)
      BY <1>8 DEF InlineWrites, InlineDone
    <3> QED BY <3>1, WriteResultType DEF TypeOK
  <2>4. UNCHANGED <<now, home, started, artifact, observer, deaths, lost, stray>>
    BY <1>8 DEF InlineWrites, InlineDone, rest
  <2> QED BY <1>0, <2>1, <2>2, <2>3, <2>4, GoType DEF TypeOK
<1>9. CASE InlineRemove(r)
  <2>1. PICK place \in LauncherPlaces : Go(r, place)
    BY <1>9 DEF InlineRemove, EndLaunch, LauncherPlaces
  <2>2. claim' \in Claims \union {None} /\ stray' \subseteq Runs
    BY <1>9, LoseType DEF InlineRemove, TypeOK
  <2>3. artifact' \in [Paths -> Artifacts \union {None}]
    BY <1>9 DEF InlineRemove, TypeOK
  <2>4. UNCHANGED <<now, home, started, alive, baseline, result, observer, deaths, lost>>
    BY <1>9 DEF InlineRemove
  <2> QED BY <1>0, <2>1, <2>2, <2>3, <2>4, GoType DEF TypeOK
<1>10. CASE InlineWipe(r)
  <2>1. launcher' \in [Runs -> LauncherPlaces]
    <3>1. UNCHANGED launcher \/ \E place \in {"done", "await"} : Go(r, place)
      BY <1>10 DEF InlineWipe, EndLaunch
    <3> QED BY <3>1, GoType DEF LauncherPlaces, TypeOK
  <2>2. claim' \in Claims \union {None} /\ stray' \subseteq Runs
    <3>1. UNCHANGED <<claim, stray>> \/ LoseClaim
      BY <1>10 DEF InlineWipe
    <3> QED BY <3>1, LoseType DEF TypeOK
  <2>3. artifact' \in [Paths -> Artifacts \union {None}]
    BY <1>10 DEF InlineWipe, TypeOK
  <2>4. baseline' \subseteq Runs /\ result' \in Results \union {None}
    <3>1. UNCHANGED <<baseline, result>> \/ Keep(None)
      BY <1>10 DEF InlineWipe
    <3> QED BY <3>1, KeepType DEF TypeOK
  <2>5. lost' \subseteq Runs \X {"launch", "write"}
    BY <1>10 DEF InlineWipe, TypeOK
  <2>6. UNCHANGED <<now, home, started, alive, observer, deaths>>
    BY <1>10 DEF InlineWipe
  <2> QED BY <1>0, <2>1, <2>2, <2>3, <2>4, <2>5, <2>6 DEF TypeOK
<1> QED BY <1>1, <1>2, <1>3, <1>4, <1>5, <1>6, <1>7, <1>8, <1>9, <1>10 DEF Launching

(* Every step of a run, of the clock, and the death of a launcher. *)
LEMMA RunType ==
  ASSUME TypeOK,
         \/ \E r \in Runs : RunWrites(r) \/ RunExits(r) \/ LauncherDies(r)
         \/ Tick \/ UNCHANGED vars
  PROVE  TypeOK'
<1>1. ASSUME NEW r \in Runs, RunWrites(r)
      PROVE  TypeOK'
  <2>1. result' \in Results /\ baseline' = {}
    BY <1>1, WriteResultType DEF RunWrites
  <2> QED BY <1>1, <2>1 DEF RunWrites, rest, TypeOK
<1>2. ASSUME NEW r \in Runs, LauncherDies(r)
      PROVE  TypeOK'
  <2>1. observer' \in [Runs \union Inspectors -> Observers]
    BY <1>2, NoErrorType, MindType DEF LauncherDies
  <2>2. launcher' \in [Runs -> LauncherPlaces]
    BY <1>2 DEF LauncherDies, Go, TypeOK, LauncherPlaces
  <2>3. alive' \subseteq Runs /\ deaths' \in 0..MaxDeaths /\ stray' \subseteq Runs
    BY <1>2, BoundsAssumption DEF LauncherDies, TypeOK
  <2> QED BY <1>2, <2>1, <2>2, <2>3 DEF LauncherDies, files, TypeOK
<1>3. ASSUME NEW r \in Runs, RunExits(r)
      PROVE  TypeOK'
  BY <1>3 DEF RunExits, files, rest, TypeOK
<1>4. CASE Tick
  <2>1. now' \in Times
    BY <1>4, BoundsAssumption DEF Tick, TypeOK, Times
  <2> QED BY <1>4, <2>1 DEF Tick, files, rest, TypeOK
<1>5. CASE UNCHANGED vars
  BY <1>5 DEF vars, files, rest, TypeOK
<1> QED BY <1>1, <1>2, <1>3, <1>4, <1>5

-----------------------------------------------------------------------------
(* What the observers learn *)

(* What an observer reads of a record. *)
LEMMA CopyType ==
  ASSUME TypeOK, NEW p \in Paths, artifact[p] # None
  PROVE  /\ artifact[p] \in Artifacts /\ Copy(p) \in Artifacts /\ Copy(p).run = artifact[p].run
         /\ Copy(p).pid = artifact[p].pid /\ Copy(p).status = artifact[p].status
         /\ Copy(p).basis = artifact[p].basis
<1>1. artifact[p] \in Artifacts
  BY DEF TypeOK
<1> QED BY <1>1 DEF Copy, Artifacts

(* A result that is found is the run's own, or a stray run wrote it. *)
LEMMA FoundGood ==
  ASSUME TypeOK, ResultOK, NEW r \in Runs, NEW found \in {Discovered(r), DogDiscovers(r)},
         found # None
  PROVE  found \in Results /\ Good(found, r)
<1>1. /\ found \in Results /\ found = result /\ r \notin baseline /\ OwnsClaim(r)
      /\ found.time < started[r] + Timeout
  BY DiscoveredType DEF Deadline
<1>2. found.run \in Runs /\ Mine(found, r)
  BY <1>1, Names DEF ResultOK, Owner, Results
<1> QED BY <1>1, <1>2 DEF Mine, Good, Fine

(* What the watchdog and the inspectors read. *)
LEMMA InspectOK ==
  ASSUME IInv, NEW i \in Inspectors, Inspect(i)
  PROVE  observer' \in [Runs \union Inspectors -> Observers] /\ ObserverOK(i)'
<1>1. PICK p \in Paths : /\ artifact[p] # None
                         /\ Mind(i, [Asleep("discover") EXCEPT !.path = p, !.art = Copy(p)])
  BY DEF Inspect
<1> DEFINE x == [Asleep("discover") EXCEPT !.path = p, !.art = Copy(p)]
<1>2. /\ artifact[p] \in Artifacts /\ Copy(p) \in Artifacts /\ Copy(p).run = artifact[p].run
      /\ Copy(p).status = artifact[p].status /\ Copy(p).basis = artifact[p].basis
  BY <1>1, CopyType DEF IInv
<1>3. RecordOK(artifact[p]) /\ UNCHANGED <<alive, launcher, started, stray>>
  BY <1>1 DEF IInv, ArtifactsOK, Inspect, rest
<1>4. Sound(Copy(p), alive', launcher', started', stray')
  BY <1>2, <1>3 DEF RecordOK, Sound
<1>5. /\ x \in Observers /\ x.at = "discover" /\ x.path = p /\ x.art = Copy(p) /\ x.found = None
      /\ x.status = "running"
  <2> DEFINE y == Asleep("discover")
  <2>1. y \in Observers /\ y.at = "discover" /\ y.found = None /\ y.status = "running"
    BY AsleepType DEF ObserverPlaces
  <2> HIDE DEF y
  <2>2. LET z == [y EXCEPT !.path = p, !.art = Copy(p)]
        IN /\ z \in Observers /\ z.at = "discover" /\ z.path = p /\ z.art = Copy(p) /\ z.found = None
           /\ z.status = "running"
    BY <1>2, <2>1 DEF Observers
  <2> QED BY <2>2 DEF y
<1>6. observer' \in [Runs \union Inspectors -> Observers] /\ observer'[i] = x
  BY <1>1, <1>5, MindType DEF IInv
<1>7. i \notin Runs /\ p # None /\ Copy(p) # None
  BY <1>2, Names, ObserversAssumption
<1> QED BY <1>4, <1>5, <1>6, <1>7, Names DEF ObserverOK, RecordOK, Looking

(* What it finds of the result is the run's own. *)
LEMMA InspectDiscoverOK ==
  ASSUME IInv, NEW i \in Inspectors, InspectDiscover(i)
  PROVE  observer' \in [Runs \union Inspectors -> Observers] /\ ObserverOK(i)'
<1> DEFINE o == observer[i]
           a == o.art
<1>1. /\ o \in Observers /\ o.at = "discover" /\ a \in Artifacts /\ RecordOK(a) /\ o.path # None
      /\ o.found = None /\ o.status = "running" /\ i \notin Runs
  BY ObserversAssumption DEF IInv, TypeOK, ObserverOK, InspectDiscover, At, Looking, Observers
<1>2. UNCHANGED <<alive, launcher, started, stray>>
  BY DEF InspectDiscover, rest
<1>3. CASE a.status \in Terminal
  <2> DEFINE place == IF a.status = "timeout" THEN "quarantine" ELSE "write"
             x == [o EXCEPT !.at = place, !.status = a.status]
  <2>1. /\ x \in Observers /\ x.at = place /\ x.path = o.path /\ x.art = a /\ x.found = None
        /\ x.status = a.status
    BY <1>1, <1>3 DEF Observers, ObserverPlaces
  <2>2. observer' \in [Runs \union Inspectors -> Observers] /\ observer'[i] = x
    BY <1>3, <2>1, MindType DEF InspectDiscover, IInv
  <2> QED BY <1>1, <1>2, <1>3, <2>1, <2>2, Names
          DEF ObserverOK, RecordOK, Sound, Good, Looking, Alive
<1>4. CASE a.status \notin Terminal
  <2>1. PICK found \in Discoveries(a.run) :
               Mind(i, [o EXCEPT !.at = "decide", !.time = now, !.found = found])
    BY <1>4 DEF InspectDiscover
  <2> DEFINE x == [o EXCEPT !.at = "decide", !.time = now, !.found = found]
  <2>2. a.run \in Runs
    BY <1>1 DEF Artifacts
  <2>3. found \in Results \union {None, Unreadable} /\ (found \in Results => Good(found, a.run))
    BY <2>1, <2>2, FoundGood, Names DEF Discoveries, IInv
  <2>4. /\ x \in Observers /\ x.at = "decide" /\ x.path = o.path /\ x.art = a /\ x.found = found
        /\ x.status = "running"
    BY <1>1, <2>3 DEF Observers, ObserverPlaces, IInv, TypeOK
  <2>5. observer' \in [Runs \union Inspectors -> Observers] /\ observer'[i] = x
    BY <2>1, <2>4, MindType DEF IInv
  <2> QED BY <1>1, <1>2, <2>3, <2>4, <2>5, Names
          DEF ObserverOK, RecordOK, Sound, Good, Looking
<1> QED BY <1>3, <1>4

(* It concludes on an end only of a run that is dead. *)
LEMMA InspectDecideOK ==
  ASSUME IInv, NEW i \in Inspectors, InspectDecide(i)
  PROVE  observer' \in [Runs \union Inspectors -> Observers] /\ ObserverOK(i)'
<1> DEFINE o == observer[i]
           r == o.art.run
           reported == Says(o.found, Outcomes)
           seen == o.art.seen \/ (reported /\ Alive(r))
           next == [o EXCEPT !.seen = seen, !.found = None]
<1>1. /\ o \in Observers /\ o.at = "decide" /\ o.art \in Artifacts /\ RecordOK(o.art)
      /\ o.path # None /\ o.status = "running" /\ i \notin Runs
      /\ (o.found \in Results => Good(o.found, r))
  BY ObserversAssumption DEF IInv, TypeOK, ObserverOK, InspectDecide, At, Looking, Observers
<1>2. UNCHANGED <<alive, launcher, started, stray>>
  BY DEF InspectDecide, rest
<1>3. r \in Runs
  BY <1>1 DEF Artifacts
<1>4. ASSUME NEW place \in {"terminate", "write"}, Mind(i, [next EXCEPT !.at = place])
      PROVE  observer' \in [Runs \union Inspectors -> Observers] /\ ObserverOK(i)'
  <2>1. seen \in BOOLEAN
    BY <1>1 DEF Artifacts, Alive
  <2> HIDE DEF seen
  <2> DEFINE x == [next EXCEPT !.at = place]
  <2>2. /\ x \in Observers /\ x.at = place /\ x.path = o.path /\ x.art = o.art /\ x.found = None
        /\ x.status = "running"
    BY <1>1, <2>1 DEF Observers, ObserverPlaces
  <2>3. observer' \in [Runs \union Inspectors -> Observers] /\ observer'[i] = x
    BY <1>4, <2>2, MindType DEF IInv
  <2> QED BY <1>1, <1>2, <2>2, <2>3, Names
          DEF ObserverOK, RecordOK, Sound, Looking, Terminal
<1>5. ASSUME NEW y \in Observers, y.art = o.art, y.path = o.path, ~Alive(r),
             NEW status \in Terminal, Mind(i, Concluded(y, "write", status)),
             y.found \in Results => Good(y.found, r), status = "passed" => y.found \in Results
      PROVE  observer' \in [Runs \union Inspectors -> Observers] /\ ObserverOK(i)'
  <2> DEFINE x == Concluded(y, "write", status)
  <2>1. /\ x \in Observers /\ x.at = "write" /\ x.path = o.path /\ x.status = status
        /\ x.found \in Results \union {None} /\ (y.found \in Results => x.found = y.found)
        /\ (x.found # None => x.found = y.found)
        /\ x.art \in Artifacts /\ x.art.run = r /\ x.art.status = o.art.status
        /\ x.art.basis = o.art.basis
    <3>1. y.art \in Artifacts /\ "write" \in ObserverPlaces
      BY <1>1, <1>5 DEF ObserverPlaces
    <3>2. /\ x \in Observers /\ x.at = "write" /\ x.path = y.path /\ x.status = status
          /\ x.found = (IF y.found = Unreadable THEN None ELSE y.found)
          /\ x.found \in Results \union {None}
          /\ x.art \in Artifacts /\ x.art.run = y.art.run /\ x.art.status = y.art.status
          /\ x.art.basis = y.art.basis
      BY <1>5, <3>1, ConcludedType
    <3> HIDE DEF x
    <3> QED BY <1>5, <3>2, Names
  <2> HIDE DEF x
  <2>2. observer' \in [Runs \union Inspectors -> Observers] /\ observer'[i] = x
    BY <1>5, <2>1, MindType DEF IInv, x
  <2> QED BY <1>1, <1>2, <1>5, <2>1, <2>2, Names
          DEF ObserverOK, RecordOK, Sound, Good, Looking, Alive
<1>6. Settled(i) \in Results \union {None, Unreadable}
      /\ (Settled(i) \in Results => Good(Settled(i), r))
      /\ (o.found # None => Settled(i) # None)
  <2>1. /\ o.found \in Results \union {None, Unreadable}
        /\ Discovered(r) # None => Discovered(r) \in Results /\ Good(Discovered(r), r)
    BY <1>1, <1>3, FoundGood DEF IInv, Observers
  <2> QED BY <1>1, <2>1 DEF Settled
<1>7. \/ \E place \in {"terminate", "write"} : Mind(i, [next EXCEPT !.at = place])
      \/ ~Alive(r) /\ Mind(i, Concluded(o, "write", "process-exited-without-result"))
      \/ /\ ~Alive(r) /\ o.found # None
         /\ Mind(i, Concluded([o EXCEPT !.found = Settled(i)], "write", Verdict(Settled(i))))
  BY DEF InspectDecide
<1>8. CASE ~Alive(r) /\ Mind(i, Concluded(o, "write", "process-exited-without-result"))
  <2>1. "process-exited-without-result" \in Terminal
    BY DEF Terminal
  <2> QED BY <1>1, <1>5, <1>8, <2>1
<1>9. CASE /\ ~Alive(r) /\ o.found # None
           /\ Mind(i, Concluded([o EXCEPT !.found = Settled(i)], "write", Verdict(Settled(i))))
  <2> DEFINE y == [o EXCEPT !.found = Settled(i)]
  <2>1. y \in Observers /\ y.art = o.art /\ y.path = o.path /\ y.found = Settled(i)
    BY <1>1, <1>6 DEF Observers
  <2>2. Settled(i) \in Results \union {Unreadable}
    BY <1>6, <1>9
  <2>3. Verdict(Settled(i)) \in Terminal /\ (Verdict(Settled(i)) = "passed" => Settled(i) \in Results)
    BY <2>2, VerdictType
  <2> HIDE DEF y
  <2>4. Mind(i, Concluded(y, "write", Verdict(Settled(i))))
    BY <1>9 DEF y
  <2> QED BY <1>5, <1>6, <1>9, <2>1, <2>3, <2>4
<1> HIDE DEF next, seen, reported
<1> QED BY <1>4, <1>7, <1>8, <1>9

(* Or it sees the run ended. *)
LEMMA InspectTerminateOK ==
  ASSUME IInv, NEW i \in Inspectors, InspectTerminate(i)
  PROVE  observer' \in [Runs \union Inspectors -> Observers] /\ ObserverOK(i)'
<1> DEFINE o == observer[i]
           r == o.art.run
<1>1. /\ o \in Observers /\ o.at = "terminate" /\ o.art \in Artifacts /\ RecordOK(o.art)
      /\ o.path # None /\ o.status = "running" /\ i \notin Runs /\ o.found = None
  BY ObserversAssumption, Names
     DEF IInv, TypeOK, ObserverOK, InspectTerminate, At, Looking, Observers, Terminate
<1>2. UNCHANGED <<launcher, started, stray>> /\ alive' \subseteq alive
  BY DEF InspectTerminate, Terminate, rest
<1>3. CASE Terminate(r, TRUE) /\ Mind(i, Concluded(o, "quarantine", "timeout"))
  <2> DEFINE x == Concluded(o, "quarantine", "timeout")
  <2>1. /\ x \in Observers /\ x.at = "quarantine" /\ x.path = o.path /\ x.status = "timeout"
        /\ x.found = None /\ x.art \in Artifacts /\ x.art.run = r /\ x.art.status = o.art.status
        /\ x.art.basis = o.art.basis
    BY <1>1, ConcludedType, Names DEF ObserverPlaces, Terminal
  <2> HIDE DEF x
  <2>2. observer' \in [Runs \union Inspectors -> Observers] /\ observer'[i] = x
    BY <1>3, <2>1, MindType DEF IInv, x
  <2>3. r \notin alive'
    BY <1>3 DEF Terminate
  <2> QED BY <1>1, <1>2, <2>1, <2>2, <2>3, Names
          DEF ObserverOK, RecordOK, Sound, Looking, Alive
<1>4. CASE Terminate(r, FALSE) /\ Mind(i, [o EXCEPT !.at = "write"])
  <2> DEFINE x == [o EXCEPT !.at = "write"]
  <2>1. /\ x \in Observers /\ x.at = "write" /\ x.path = o.path /\ x.art = o.art
        /\ x.found = o.found /\ x.status = "running"
    BY <1>1 DEF Observers, ObserverPlaces
  <2>2. observer' \in [Runs \union Inspectors -> Observers] /\ observer'[i] = x
    BY <1>4, <2>1, MindType DEF IInv
  <2> QED BY <1>1, <1>2, <2>1, <2>2, Names
          DEF ObserverOK, RecordOK, Sound, Looking, Terminal
<1> QED BY <1>3, <1>4 DEF InspectTerminate

(* Of a watchdog, too. *)
LEMMA QuarantineOK ==
  ASSUME IInv, NEW o \in Runs \union Inspectors, NEW p, Quarantine(o, p)
  PROVE  observer' \in [Runs \union Inspectors -> Observers] /\ ObserverOK(o)'
<1> DEFINE y == observer[o]
           x == [y EXCEPT !.at = "write"]
<1>1. y \in Observers /\ y.at = "quarantine" /\ ObserverOK(o) /\ y.art \in Artifacts
  BY DEF IInv, TypeOK, ObserverOK, Quarantine, At, Looking, Observers
<1>2. UNCHANGED <<alive, launcher, started, stray>>
  BY DEF Quarantine, rest
<1>3. /\ x \in Observers /\ x.at = "write" /\ x.path = y.path /\ x.art = y.art
      /\ x.found = y.found /\ x.status = y.status
  BY <1>1 DEF Observers, ObserverPlaces
<1>4. observer' \in [Runs \union Inspectors -> Observers] /\ observer'[o] = x
  BY <1>3, MindType DEF IInv, Quarantine
<1> QED BY <1>1, <1>2, <1>3, <1>4, Names
        DEF ObserverOK, RecordOK, Sound, Good, Looking, Alive

(* What an inspector writes, and what it does next. *)
LEMMA InspectWriteOK ==
  ASSUME IInv, NEW i \in Inspectors, InspectWrite(i)
  PROVE  /\ observer' \in [Runs \union Inspectors -> Observers] /\ ObserverOK(i)'
         /\ artifact' \in [Paths -> Artifacts \union {None}] /\ ArtifactsOK'
<1> DEFINE o == observer[i]
           p == o.path
           r == o.art.run
           basis == IF o.found = None THEN o.art.basis ELSE o.found
           next == [o.art EXCEPT !.status = o.status, !.observed = o.time, !.seen = o.seen,
                                 !.basis = IF o.found = None THEN @ ELSE o.found]
<1>0. o \in Observers /\ o.at = "write" /\ o.art \in Artifacts /\ RecordOK(o.art)
  BY Names DEF IInv, TypeOK, ObserverOK, InspectWrite, At, Looking, Observers
<1>1. /\ o \in Observers /\ o.at = "write" /\ o.art \in Artifacts /\ p \in Paths /\ r \in Runs
      /\ launcher[r] \notin FreshPlaces /\ o.found \in Results \union {None} /\ i \notin Runs
      /\ (o.status \in Terminal => ~Alive(r)) /\ (o.status = "passed" => basis # None)
      /\ (basis # None => Good(basis, r))
  BY <1>0, ObserversAssumption, Names
     DEF IInv, TypeOK, ObserverOK, InspectWrite, At, Looking, Observers, Artifacts, RecordOK, Sound,
         Good
<1>2. UNCHANGED <<alive, launcher, started, stray>>
  BY DEF InspectWrite, rest
<1>3. /\ next \in Artifacts /\ next.run = r /\ next.status = o.status /\ next.basis = basis
  <2>1. basis \in Results \union {None} /\ o.time \in Times /\ o.seen \in BOOLEAN
        /\ o.status \in Terminal \union {"running"}
    BY <1>1 DEF Observers, Artifacts
  <2>2. next = [o.art EXCEPT !.status = o.status, !.observed = o.time, !.seen = o.seen,
                             !.basis = basis]
    OBVIOUS
  <2> HIDE DEF basis, next
  <2> QED BY <1>1, <2>1, <2>2 DEF Artifacts
<1>4. WriteArtifact(p, next, FALSE)
  BY DEF InspectWrite
<1> HIDE DEF next, basis
<1>5. /\ artifact' \in [Paths -> Artifacts \union {None}]
      /\ \A q \in Paths :
           \/ artifact'[q] = artifact[q]
           \/ /\ artifact'[q] \in Artifacts /\ artifact'[q].run = r
              /\ artifact'[q].status = o.status /\ artifact'[q].basis = basis
  <2>1. TypeOK /\ FALSE \in BOOLEAN
    BY DEF IInv
  <2>2. /\ artifact' \in [Paths -> Artifacts \union {None}]
        /\ \A q \in Paths :
             \/ artifact'[q] = artifact[q]
             \/ /\ artifact'[q] \in Artifacts /\ artifact'[q].run = next.run
                /\ artifact'[q].status = next.status /\ artifact'[q].basis = next.basis
    <3>1. PICK a \in Artifacts, replace \in BOOLEAN : a = next /\ WriteArtifact(p, a, replace)
      BY <1>3, <1>4, <2>1
    <3> QED BY <1>1, <2>1, <3>1, WriteEffect
  <2> QED BY <1>3, <2>2
<1>6. ArtifactsOK'
  BY <1>1, <1>2, <1>5 DEF IInv, ArtifactsOK, RecordOK, Sound, Good, Alive
<1>7. CASE Mind(i, Asleep("off"))
  BY <1>7, AsleepType, AsleepOK, MindType, <1>5, <1>6 DEF IInv, ObserverPlaces
<1>8. ASSUME NEW written \in Artifacts, written = IF artifact'[p] = None THEN next ELSE artifact'[p],
             written.status \in Terminal,
             Mind(i, [Asleep("release") EXCEPT !.art = Recorded(written.run, "running", None)])
      PROVE  observer' \in [Runs \union Inspectors -> Observers] /\ ObserverOK(i)'
  <2>1. PICK s \in Runs : s = written.run
    BY <1>8 DEF Artifacts
  <2>2. s \notin alive' /\ launcher'[s] \notin FreshPlaces
    <3>1. CASE artifact'[p] = None
      BY <1>1, <1>2, <1>3, <1>8, <2>1, <3>1 DEF Alive
    <3>2. CASE artifact'[p] # None
      BY <1>1, <1>6, <1>8, <2>1, <3>2 DEF ArtifactsOK, RecordOK, Sound
    <3> QED BY <3>1, <3>2
  <2> DEFINE y == Asleep("release")
             a == Recorded(s, "running", None)
             x == [y EXCEPT !.art = a]
  <2>3. y \in Observers /\ y.at = "release" /\ y.found = None /\ y.status = "running"
    BY AsleepType DEF ObserverPlaces
  <2>4. a \in Artifacts /\ a.run = s /\ a.status = "running" /\ a.basis = None
    BY DEF Recorded, Artifacts
  <2>5. Mind(i, x)
    BY <1>8, <2>1
  <2> HIDE DEF y, a
  <2>6. x \in Observers /\ x.at = "release" /\ x.art = a /\ x.found = None /\ x.status = "running"
    BY <2>3, <2>4 DEF Observers
  <2> HIDE DEF x
  <2>7. observer' \in [Runs \union Inspectors -> Observers] /\ observer'[i] = x
    BY <2>5, <2>6, MindType DEF IInv
  <2> QED BY <1>1, <2>2, <2>4, <2>6, <2>7, Names
          DEF ObserverOK, RecordOK, Sound, Looking, Alive, Terminal
<1>9. PICK written \in Artifacts : written = IF artifact'[p] = None THEN next ELSE artifact'[p]
  BY <1>1, <1>3, <1>5
<1>10. \/ Mind(i, Asleep("off"))
       \/ /\ written.status \in Terminal
          /\ Mind(i, [Asleep("release") EXCEPT !.art = Recorded(written.run, "running", None)])
  BY <1>9 DEF InspectWrite, next
<1> QED BY <1>5, <1>6, <1>7, <1>8, <1>9, <1>10

(* After that it knows nothing more. *)
LEMMA InspectReleaseOK ==
  ASSUME IInv, NEW i \in Inspectors, InspectRelease(i)
  PROVE  observer' \in [Runs \union Inspectors -> Observers] /\ ObserverOK(i)'
BY AsleepType, AsleepOK, MindType DEF InspectRelease, IInv, ObserverPlaces

(* The same for a watchdog: what it reads, ... *)
LEMMA DogWakesOK ==
  ASSUME IInv, NEW r \in Runs, DogWakes(r)
  PROVE  observer' \in [Runs \union Inspectors -> Observers] /\ ObserverOK(r)'
<1> DEFINE p == home[r]
           a == artifact[p]
           y == Asleep("discover")
           c == Copy(p)
           x == [Asleep("discover") EXCEPT !.art = Copy(p), !.time = now]
<1>1. UNCHANGED <<alive, launcher, started, stray>> /\ p \in Paths
  BY DEF DogWakes, IInv, TypeOK, rest
<1>2. CASE Mind(r, Asleep("off"))
  BY <1>2, AsleepType, AsleepOK, MindType DEF IInv, ObserverPlaces
<1>3. CASE a # None /\ a.run = r /\ a.status \notin Terminal /\ Mind(r, x)
  <2>1. /\ a \in Artifacts /\ c \in Artifacts /\ c.run = r /\ c.status = a.status /\ c.basis = a.basis
    BY <1>1, <1>3, CopyType DEF IInv
  <2>2. y \in Observers /\ y.at = "discover" /\ y.status = "running" /\ y.found = None
    BY AsleepType DEF ObserverPlaces
  <2>3. now \in Times
    BY DEF IInv, TypeOK
  <2>4. RecordOK(a)
    BY <1>1, <1>3 DEF IInv, ArtifactsOK
  <2>5. x = [y EXCEPT !.art = c, !.time = now]
    OBVIOUS
  <2> HIDE DEF y, c, x
  <2>6. x \in Observers /\ x.at = "discover" /\ x.art = c /\ x.found = None /\ x.status = "running"
    BY <2>1, <2>2, <2>3, <2>5 DEF Observers
  <2>7. observer' \in [Runs \union Inspectors -> Observers] /\ observer'[r] = x
    BY <1>3, <2>6, MindType DEF IInv
  <2>8. Sound(c, alive', launcher', started', stray')
    BY <1>1, <1>3, <2>1, <2>4 DEF RecordOK, Sound
  <2> QED BY <1>1, <2>1, <2>6, <2>7, <2>8, Names DEF ObserverOK, RecordOK, Good, Looking
<1> QED BY <1>2, <1>3 DEF DogWakes

(* ... and what it finds of the result. *)
LEMMA DogLooksOK ==
  ASSUME IInv, NEW r \in Runs, DogLooks(r)
  PROVE  observer' \in [Runs \union Inspectors -> Observers] /\ ObserverOK(r)'
<1> DEFINE o == observer[r]
           found == DogDiscovers(r)
           x == [o EXCEPT !.at = "decide", !.found = found]
<1>1. /\ o \in Observers /\ o.at = "discover" /\ o.art \in Artifacts /\ RecordOK(o.art)
      /\ o.art.run = r /\ o.status = "running"
  BY Names DEF IInv, TypeOK, ObserverOK, DogLooks, At, Looking, Observers
<1>2. UNCHANGED <<alive, launcher, started, stray>>
  BY DEF DogLooks, rest
<1>3. found \in Results \union {None} /\ (found # None => Good(found, r))
  BY FoundGood, DiscoveredType DEF IInv
<1>4. Mind(r, x)
  BY DEF DogLooks
<1> HIDE DEF found
<1>5. x \in Observers /\ x.at = "decide" /\ x.art = o.art /\ x.found = found /\ x.status = "running"
  BY <1>1, <1>3 DEF Observers, ObserverPlaces
<1>6. observer' \in [Runs \union Inspectors -> Observers] /\ observer'[r] = x
  BY <1>4, <1>5, MindType DEF IInv
<1> QED BY <1>1, <1>2, <1>3, <1>5, <1>6, Names DEF ObserverOK, RecordOK, Sound, Good, Looking

(* It concludes on an end only of a run that is dead, too. *)
LEMMA DogDecidesOK ==
  ASSUME IInv, NEW r \in Runs, DogDecides(r)
  PROVE  observer' \in [Runs \union Inspectors -> Observers] /\ ObserverOK(r)'
<1> DEFINE o == observer[r]
           reported == Says(o.found, {"passed", "failed"})
           over == [o EXCEPT !.at = "write", !.found = None]
<1>1. /\ o \in Observers /\ o.at = "decide" /\ o.art \in Artifacts /\ RecordOK(o.art)
      /\ o.art.run = r /\ o.status = "running" /\ o.found \in Results \union {None}
      /\ (o.found # None => Good(o.found, r))
  BY Names DEF IInv, TypeOK, ObserverOK, DogDecides, At, Looking, Observers
<1>2. UNCHANGED <<alive, launcher, started, stray>>
  BY DEF DogDecides, rest
<1>3. ASSUME NEW x \in Observers, x.at \in {"decide", "terminate", "write"}, x.art = o.art, x.found = None,
             x.status = "running", Mind(r, x)
      PROVE  observer' \in [Runs \union Inspectors -> Observers] /\ ObserverOK(r)'
  <2>1. observer' \in [Runs \union Inspectors -> Observers] /\ observer'[r] = x
    BY <1>3, MindType DEF IInv
  <2> QED BY <1>1, <1>2, <1>3, <2>1, Names
          DEF ObserverOK, RecordOK, Sound, Looking, Terminal
<1>4. ASSUME NEW status \in Terminal, Mind(r, Concluded(o, "write", status)), ~Alive(r),
             status = "passed" => o.found # None
      PROVE  observer' \in [Runs \union Inspectors -> Observers] /\ ObserverOK(r)'
  <2> DEFINE x == Concluded(o, "write", status)
  <2>1. /\ x \in Observers /\ x.at = "write" /\ x.path = o.path /\ x.status = status
        /\ x.found = o.found
        /\ x.art \in Artifacts /\ x.art.run = o.art.run /\ x.art.status = o.art.status
        /\ x.art.basis = o.art.basis
    <3>1. "write" \in ObserverPlaces
      BY DEF ObserverPlaces
    <3> QED BY <1>1, <1>4, <3>1, ConcludedType, Names
  <2> HIDE DEF x
  <2>2. observer' \in [Runs \union Inspectors -> Observers] /\ observer'[r] = x
    BY <1>4, <2>1, MindType DEF IInv, x
  <2> QED BY <1>1, <1>2, <1>4, <2>1, <2>2, Names
          DEF ObserverOK, RecordOK, Sound, Good, Looking, Alive
<1>5. CASE Mind(r, [o EXCEPT !.at = "terminate", !.found = None])
  <2> DEFINE x == [o EXCEPT !.at = "terminate", !.found = None]
  <2>1. /\ x \in Observers /\ x.at = "terminate" /\ x.art = o.art /\ x.found = None
        /\ x.status = "running"
    BY <1>1 DEF Observers, ObserverPlaces
  <2> HIDE DEF x
  <2> QED BY <1>3, <1>5, <2>1 DEF x
<1>6. CASE Mind(r, [over EXCEPT !.seen = TRUE])
  <2> DEFINE x == [over EXCEPT !.seen = TRUE]
  <2>1. /\ x \in Observers /\ x.at = "write" /\ x.art = o.art /\ x.found = None
        /\ x.status = "running"
    BY <1>1 DEF Observers, ObserverPlaces
  <2> HIDE DEF x
  <2> QED BY <1>3, <1>6, <2>1 DEF x
<1>7. CASE Mind(r, Asleep("idle"))
  BY <1>7, AsleepType, AsleepOK, MindType DEF IInv, ObserverPlaces
<1>8. CASE ~Alive(r) /\ Mind(r, Concluded(o, "write", "process-exited-without-result"))
  <2>1. "process-exited-without-result" \in Terminal
    BY DEF Terminal
  <2> QED BY <1>4, <1>8, <2>1
<1>9. CASE ~Alive(r) /\ o.found # None /\ Mind(r, Concluded(o, "write", Verdict(o.found)))
  <2>1. Verdict(o.found) \in Terminal
    BY <1>1, <1>9, VerdictType
  <2> QED BY <1>4, <1>9, <2>1
<1>10. CASE Mind(r, [o EXCEPT !.found = None])
  <2> DEFINE x == [o EXCEPT !.found = None]
  <2>1. /\ x \in Observers /\ x.at = "decide" /\ x.art = o.art /\ x.found = None
        /\ x.status = "running"
    BY <1>1 DEF Observers
  <2> HIDE DEF x
  <2> QED BY <1>3, <1>10, <2>1 DEF x
<1> HIDE DEF over, reported
<1> QED BY <1>5, <1>6, <1>7, <1>8, <1>9, <1>10 DEF DogDecides, over, reported

(* Or it sees the run ended, or tries again. *)
LEMMA DogTerminatesOK ==
  ASSUME IInv, NEW r \in Runs, DogTerminates(r)
  PROVE  observer' \in [Runs \union Inspectors -> Observers] /\ ObserverOK(r)'
<1> DEFINE o == observer[r]
<1>1. /\ o \in Observers /\ o.at = "terminate" /\ o.art \in Artifacts /\ RecordOK(o.art)
      /\ o.art.run = r /\ o.status = "running" /\ o.found = None
  BY Names DEF IInv, TypeOK, ObserverOK, DogTerminates, At, Looking, Observers
<1>2. UNCHANGED <<launcher, started, stray>> /\ alive' \subseteq alive
  BY DEF DogTerminates, rest
<1>3. CASE alive' = alive \ {r} /\ Mind(r, Concluded(o, "quarantine", "timeout"))
  <2> DEFINE x == Concluded(o, "quarantine", "timeout")
  <2>1. /\ x \in Observers /\ x.at = "quarantine" /\ x.path = o.path /\ x.status = "timeout"
        /\ x.found = None /\ x.art \in Artifacts /\ x.art.run = r /\ x.art.status = o.art.status
        /\ x.art.basis = o.art.basis
    BY <1>1, ConcludedType, Names DEF ObserverPlaces, Terminal
  <2> HIDE DEF x
  <2>2. observer' \in [Runs \union Inspectors -> Observers] /\ observer'[r] = x
    BY <1>3, <2>1, MindType DEF IInv, x
  <2> QED BY <1>1, <1>2, <1>3, <2>1, <2>2, Names
          DEF ObserverOK, RecordOK, Sound, Looking, Alive
<1>4. CASE Mind(r, Asleep("idle"))
  BY <1>4, AsleepType, AsleepOK, MindType DEF IInv, ObserverPlaces
<1> QED BY <1>3, <1>4 DEF DogTerminates

(* A watchdog writes the record of its own run, in the run's own words. *)
LEMMA DogWritesOK ==
  ASSUME IInv, NEW r \in Runs, DogWrites(r)
  PROVE  /\ observer' \in [Runs \union Inspectors -> Observers] /\ ObserverOK(r)'
         /\ artifact' \in [Paths -> Artifacts \union {None}] /\ ArtifactsOK'
         /\ \A q \in Paths :
              \/ artifact'[q] = artifact[q]
              \/ /\ artifact[q] # None /\ artifact'[q] \in Artifacts
                 /\ SameRun(artifact'[q], artifact[q]) /\ artifact[q].status \notin Terminal
<1> DEFINE o == observer[r]
           p == home[r]
           a == artifact[p]
           mine == a # None /\ a.pid /\ a.run = r /\ a.status \notin Terminal
           next == [a EXCEPT !.status = o.status, !.observed = o.time, !.seen = @ \/ o.seen,
                             !.basis = o.found]
<1>0. o \in Observers /\ o.at = "write" /\ o.art \in Artifacts /\ RecordOK(o.art)
  BY Names DEF IInv, TypeOK, ObserverOK, DogWrites, At, Looking, Observers
<1>1. /\ o \in Observers /\ o.at = "write" /\ o.art \in Artifacts /\ o.art.run = r /\ p \in Paths
      /\ launcher[r] \notin FreshPlaces /\ o.found \in Results \union {None}
      /\ (o.status \in Terminal => ~Alive(r)) /\ (o.status = "passed" => o.found # None)
      /\ (o.found # None => Good(o.found, r))
  BY <1>0, Names DEF IInv, TypeOK, ObserverOK, DogWrites, At, Looking, Observers, RecordOK, Sound
<1>2. UNCHANGED <<alive, launcher, started, stray>>
  BY DEF DogWrites, rest
<1>3. Mind(r, Asleep("idle")) \/ Mind(r, Asleep("off"))
  BY DEF DogWrites
<1>4. observer' \in [Runs \union Inspectors -> Observers] /\ ObserverOK(r)'
  BY <1>3, AsleepType, AsleepOK, MindType DEF IInv, ObserverPlaces
<1>5. artifact' = artifact \/ (mine /\ artifact' = [artifact EXCEPT ![p] = Slim(next)])
  BY DEF DogWrites
<1>6. CASE artifact' = artifact
  BY <1>2, <1>4, <1>6 DEF IInv, TypeOK, ArtifactsOK, RecordOK, Sound, Good
<1>7. CASE mine /\ artifact' = [artifact EXCEPT ![p] = Slim(next)]
  <2>1. a \in Artifacts
    BY <1>1, <1>7 DEF IInv, TypeOK
  <2>2. /\ next \in Artifacts /\ next.run = r /\ next.pid = a.pid /\ next.status = o.status
        /\ next.basis = o.found
    <3> DEFINE seen == a.seen \/ o.seen
    <3>1. seen \in BOOLEAN /\ o.time \in Times /\ o.status \in Terminal \union {"running"}
      BY <1>1, <2>1 DEF Observers, Artifacts
    <3>2. next = [a EXCEPT !.status = o.status, !.observed = o.time, !.seen = seen,
                           !.basis = o.found]
      OBVIOUS
    <3>3. a.run = r
      BY <1>7
    <3> HIDE DEF seen, next, a
    <3> QED BY <1>1, <2>1, <3>1, <3>2, <3>3 DEF Artifacts
  <2> DEFINE b == Slim(next)
  <2>3. /\ b \in Artifacts /\ b.run = r /\ b.pid = a.pid /\ b.status = o.status
        /\ b.basis = o.found
    BY <2>2, SlimType
  <2>4. artifact' = [artifact EXCEPT ![p] = b]
    BY <1>7
  <2>5. a # None /\ a.run = r /\ a.status \notin Terminal
    BY <1>7
  <2> HIDE DEF b, next, mine
  <2>6. /\ artifact' \in [Paths -> Artifacts \union {None}] /\ artifact'[p] = b
        /\ \A q \in Paths \ {p} : artifact'[q] = artifact[q]
    BY <1>1, <2>3, <2>4 DEF IInv, TypeOK
  <2>7. ArtifactsOK'
    BY <1>1, <1>2, <2>3, <2>6 DEF IInv, ArtifactsOK, RecordOK, Sound, Good, Alive
  <2> QED BY <1>4, <2>3, <2>5, <2>6, <2>7 DEF SameRun
<1> QED BY <1>5, <1>6, <1>7

-----------------------------------------------------------------------------
(* The observers' steps *)

(* A record that no step touches stays true. *)
LEMMA RecordStays ==
  ASSUME TypeOK, Steady, ArtifactsOK, NEW p \in Paths, artifact'[p] = artifact[p], artifact'[p] # None
  PROVE  Sound(artifact'[p], alive', launcher', started', stray')
<1>1. artifact[p].run \in Runs /\ RecordOK(artifact[p])
  BY DEF TypeOK, Artifacts, ArtifactsOK
<1> QED BY <1>1, SoundStays

(* What an observer does to the files: it releases the claim of a run that *)
(* is dead, and takes a late result away.                                  *)
LEMMA ObserverFiles ==
  ASSUME IInv, \/ \E i \in Inspectors : Inspecting(i)
               \/ \E r \in Runs : Watching(r)
  PROVE  /\ claim' \in Claims \union {None}
         /\ claim' = claim \/ (claim' = None /\ \E r \in Runs : OwnsClaim(r) /\ ~Alive(r))
         /\ result' \in Results \union {None} /\ baseline' \subseteq Runs
         /\ result' # None => result' = result /\ baseline' = baseline
<1>1. claim' = claim \/ \E r \in Runs : ReleaseClaimOf(r) /\ ~Alive(r)
  <2>1. ASSUME NEW i \in Inspectors, InspectRelease(i)
        PROVE  \E r \in Runs : ReleaseClaimOf(r) /\ ~Alive(r)
    <3>1. observer[i].art \in Artifacts /\ ~Alive(observer[i].art.run)
      BY <2>1, Names DEF InspectRelease, At, IInv, TypeOK, ObserverOK, Looking, Observers
    <3> QED BY <2>1, <3>1 DEF InspectRelease, Artifacts
  <2> QED BY <2>1 DEF Inspecting, Inspect, InspectDiscover, InspectDecide, InspectTerminate, files,
                      Quarantine, InspectWrite, Watching, DogWakes, DogLooks, DogDecides, DogTerminates, DogWrites
<1>2. UNCHANGED <<result, baseline>> \/ \E file \in {result, None} : Keep(file)
  BY DEF Inspecting, Inspect, InspectDiscover, InspectDecide, InspectTerminate, files, Quarantine,
         Quarantined, InspectWrite, InspectRelease, Watching, DogWakes, DogLooks, DogDecides, DogTerminates, DogWrites
<1> QED BY <1>1, <1>2, KeepType, ReleaseType DEF IInv, TypeOK

(* The observer that acts, and what it writes. *)
LEMMA ActorOK ==
  ASSUME IInv, Steady, NEW o \in Runs \union Inspectors,
         \/ o \in Inspectors /\ Inspecting(o)
         \/ o \in Runs /\ Watching(o)
  PROVE  /\ observer' \in [Runs \union Inspectors -> Observers] /\ ObserverOK(o)'
         /\ \A q \in (Runs \union Inspectors) \ {o} : observer'[q] = observer[q]
         /\ artifact' \in [Paths -> Artifacts \union {None}] /\ ArtifactsOK'
<1>1. \A q \in (Runs \union Inspectors) \ {o} : observer'[q] = observer[q]
  BY DEF Inspecting, Inspect, InspectDiscover, InspectDecide, InspectTerminate, Quarantine,
         InspectWrite, InspectRelease, Watching, DogWakes, DogLooks, DogDecides, DogTerminates, DogWrites,
         Mind, IInv, TypeOK
<1>2. observer' \in [Runs \union Inspectors -> Observers] /\ ObserverOK(o)'
  BY InspectOK, InspectDiscoverOK, InspectDecideOK, InspectTerminateOK, QuarantineOK,
     InspectWriteOK, InspectReleaseOK, DogWakesOK, DogLooksOK, DogDecidesOK, DogTerminatesOK, DogWritesOK
     DEF Inspecting, Watching
<1>3. artifact' \in [Paths -> Artifacts \union {None}] /\ ArtifactsOK'
  <2>1. ASSUME UNCHANGED artifact
        PROVE  artifact' \in [Paths -> Artifacts \union {None}] /\ ArtifactsOK'
    BY <2>1, RecordStays DEF IInv, TypeOK, ArtifactsOK, RecordOK
  <2>2. CASE o \in Inspectors /\ InspectWrite(o)
    BY <2>2, InspectWriteOK
  <2>3. CASE o \in Runs /\ DogWrites(o)
    BY <2>3, DogWritesOK
  <2> QED BY <2>1, <2>2, <2>3 DEF Inspecting, Inspect, InspectDiscover, InspectDecide, files,
             InspectTerminate, Quarantine, InspectRelease, Watching, DogWakes, DogLooks, DogDecides, DogTerminates
<1> QED BY <1>1, <1>2, <1>3

(* No step of an observer breaks the invariant. *)
LEMMA ObserversStep ==
  ASSUME IInv, Steady,
         \/ \E i \in Inspectors : Inspecting(i)
         \/ \E r \in Runs : Watching(r)
  PROVE  IInv'
<1>1. UNCHANGED <<now, home, started, launcher, deaths, lost, stray>> /\ alive' \subseteq alive
  BY ObserversLaunch
<1>2. PICK o \in Runs \union Inspectors : \/ o \in Inspectors /\ Inspecting(o)
                                          \/ o \in Runs /\ Watching(o)
  OBVIOUS
<1>3. /\ observer' \in [Runs \union Inspectors -> Observers] /\ ObserverOK(o)'
      /\ \A q \in (Runs \union Inspectors) \ {o} : observer'[q] = observer[q]
      /\ artifact' \in [Paths -> Artifacts \union {None}] /\ ArtifactsOK'
  BY <1>2, ActorOK
<1>4. /\ claim' \in Claims \union {None}
      /\ claim' = claim \/ (claim' = None /\ \E r \in Runs : OwnsClaim(r) /\ ~Alive(r))
      /\ result' \in Results \union {None} /\ baseline' \subseteq Runs
      /\ result' # None => result' = result /\ baseline' = baseline
  BY ObserverFiles
<1>5. TypeOK'
  BY <1>1, <1>3, <1>4 DEF IInv, TypeOK
<1>6. \A q \in Runs \union Inspectors : ObserverOK(q)'
  BY <1>3, ObserverStays DEF IInv
<1>7. FreshOK' /\ InlineOK'
  BY <1>1 DEF IInv, FreshOK, InlineOK, Fresh, Alive
<1>8. /\ \A r \in Runs : OwnsClaim(r)' => OwnsClaim(r)
      /\ \A r \in Runs : OwnsClaim(r) /\ Alive(r) => OwnsClaim(r)'
      /\ \A r \in Runs : (claim = ClaimBy(r, "launcher")) <=> (claim' = ClaimBy(r, "launcher"))
  <2>1. CASE claim' = claim
    BY <2>1 DEF OwnsClaim
  <2>2. ASSUME NEW s \in Runs, claim' = None, OwnsClaim(s), ~Alive(s)
        PROVE  /\ \A r \in Runs : claim' # ClaimBy(r, "run") /\ claim' # ClaimBy(r, "launcher")
               /\ \A r \in Runs : claim # ClaimBy(r, "launcher") /\ (OwnsClaim(r) => r = s)
    <3>1. claim.run = s /\ claim.owner = "run"
      BY <2>2, ClaimNames DEF OwnsClaim
    <3>2. \A r \in Runs : ClaimBy(r, "launcher").owner = "launcher" /\ ClaimBy(r, "run").run = r
      BY ClaimNames
    <3> QED BY <2>2, <3>1, <3>2, ClaimNames DEF OwnsClaim
  <2> QED BY <1>4, <2>1, <2>2 DEF OwnsClaim
<1>9. ClaimOK'
  <2>1. ASSUME NEW r \in Runs
        PROVE  /\ r \notin stray' =>
                    /\ Needs(r)' => claim' = ClaimBy(r, "launcher")
                    /\ Alive(r)' => \/ OwnsClaim(r)'
                                    \/ /\ claim' = ClaimBy(r, "launcher")
                                       /\ Needs(r)' \/ launcher'[r] = "failing"
               /\ launcher'[r] \in {"ended", "failed"} => ~Alive(r)'
               /\ launcher'[r] \in {"record", "watch", "note"} => claim' # ClaimBy(r, "launcher")
    <3>1. /\ Needs(r)' = Needs(r) /\ launcher'[r] = launcher[r] /\ (Alive(r)' => Alive(r))
          /\ stray' = stray
      BY <1>1 DEF Needs, Alive
    <3> QED BY <1>8, <3>1 DEF IInv, ClaimOK
  <2> QED BY <2>1 DEF ClaimOK
<1>10. ResultOK'
  <2>1. ASSUME NEW r \in Runs, Owner(r)'
        PROVE  Owner(r)
    <3>1. launcher' = launcher /\ (Alive(r)' => Alive(r))
      BY <1>1 DEF Alive
    <3> QED BY <1>8, <2>1, <3>1 DEF Owner
  <2> QED BY <1>1, <1>4, <2>1 DEF IInv, ResultOK, Mine
<1> QED BY <1>3, <1>5, <1>6, <1>7, <1>8, <1>9, <1>10 DEF IInv

-----------------------------------------------------------------------------
(* The launchers' steps *)

(* What a launcher does to the observers: it starts and stops a watchdog,  *)
(* which knows nothing then.                                               *)
LEMMA LaunchObservers ==
  ASSUME IInv, Steady, NEW r \in Runs, Launching(r) \/ LauncherDies(r)
  PROVE  \A o \in Runs \union Inspectors : ObserverOK(o)'
<1>1. \/ UNCHANGED observer
      \/ \E place \in {"off", "error", "idle"} : Mind(r, Asleep(place))
  BY DEF Launching, LauncherDies, ClaimLaunch, ClaimResult, Spawn, Identify, Record, RecordEnded,
         StartWatchdog, WatchdogError, NoteWatchdog, Failing, RecordFailed, InlineCheck,
         InlineRemove, InlineWipe, InlineClaimLaunch, InlineClaimResult, InlineWrites,
         InlineDone, NoError, Mind, IInv, TypeOK
<1>2. CASE UNCHANGED observer
  BY <1>2, ObserverStays DEF IInv
<1>3. ASSUME NEW place \in {"off", "error", "idle"}, Mind(r, Asleep(place))
      PROVE  \A o \in Runs \union Inspectors : ObserverOK(o)'
  <2>1. Asleep(place) \in Observers
    BY AsleepType DEF ObserverPlaces
  <2>2. observer'[r] = Asleep(place) /\ \A q \in (Runs \union Inspectors) \ {r} : observer'[q] = observer[q]
    BY <1>3, <2>1, MindType DEF IInv
  <2> QED BY <2>2, AsleepOK, ObserverStays DEF IInv
<1> QED BY <1>1, <1>2, <1>3

(* What a launcher puts on record is true of its own run. *)
LEMMA Records ==
  ASSUME IInv, Steady, NEW r \in Runs, NEW a \in Artifacts, NEW replace \in BOOLEAN,
         WriteArtifact(home[r], a, replace), Sound(a, alive', launcher', started', stray')
  PROVE  ArtifactsOK'
<1>1. home[r] \in Paths
  BY DEF IInv, TypeOK
<1>2. \A q \in Paths :
        \/ artifact'[q] = artifact[q]
        \/ /\ artifact'[q] \in Artifacts /\ artifact'[q].run = a.run
           /\ artifact'[q].status = a.status /\ artifact'[q].basis = a.basis
  BY <1>1, WriteEffect DEF IInv
<1>3. ASSUME NEW q \in Paths, artifact'[q] # None
      PROVE  Sound(artifact'[q], alive', launcher', started', stray')
  BY <1>2, <1>3, RecordStays DEF IInv, Sound
<1> QED BY <1>3 DEF ArtifactsOK, RecordOK

(* Every record of a launcher is. *)
LEMMA LaunchRecords ==
  ASSUME IInv, Steady, NEW r \in Runs, Launching(r) \/ LauncherDies(r)
  PROVE  ArtifactsOK'
<1>1. ASSUME \A q \in Paths : artifact'[q] \in {artifact[q], None}
      PROVE  ArtifactsOK'
  BY <1>1, RecordStays DEF IInv, ArtifactsOK, RecordOK
<1>2. ASSUME NEW at \in Times \union {None}, NEW replace \in BOOLEAN, ~Fresh(r),
             WriteArtifact(home[r], Recorded(r, "running", at), replace)
      PROVE  ArtifactsOK'
  <2>1. PICK a \in Artifacts : /\ a = Recorded(r, "running", at)
                               /\ a.run = r /\ a.status = "running" /\ a.basis = None
    <3>1. "running" \in Terminal \union {"running"}
      OBVIOUS
    <3>2. /\ Recorded(r, "running", at) \in Artifacts /\ Recorded(r, "running", at).run = r
          /\ Recorded(r, "running", at).status = "running" /\ Recorded(r, "running", at).basis = None
      BY <3>1 DEF Recorded, Artifacts
    <3> QED BY <3>2
  <2>2. Sound(a, alive', launcher', started', stray')
    BY <1>2, <2>1 DEF Sound, Steady, Fresh, Terminal
  <2> QED BY <1>2, <2>1, <2>2, Records
<1>3. CASE Record(r) \/ NoteWatchdog(r) \/ Failing(r)
  <2>1. ~Fresh(r)
    BY <1>3 DEF Record, NoteWatchdog, Failing, Fresh, FreshPlaces
  <2>2. \/ UNCHANGED artifact
        \/ \E at \in Times \union {None}, replace \in BOOLEAN :
              WriteArtifact(home[r], Recorded(r, "running", at), replace)
    BY <1>3 DEF Record, NoteWatchdog, Failing, IInv, TypeOK
  <2> QED BY <1>1, <1>2, <2>1, <2>2
<1>4. CASE WatchdogError(r)
  <2>1. ~Fresh(r) /\ now \in Times
    BY <1>4 DEF WatchdogError, Fresh, FreshPlaces, IInv, TypeOK
  <2>2. CASE WriteArtifact(home[r], Recorded(r, "running", now), FALSE)
    BY <1>2, <2>1, <2>2
  <2>3. CASE r \notin alive' /\ WriteArtifact(home[r], Recorded(r, "failed-to-start", now), FALSE)
    <3>1. PICK a \in Artifacts : /\ a = Recorded(r, "failed-to-start", now)
                                 /\ a.run = r /\ a.status = "failed-to-start" /\ a.basis = None
      <4>1. "failed-to-start" \in Terminal \union {"running"} /\ now \in Times \union {None}
        BY <2>1 DEF Terminal
      <4>2. /\ Recorded(r, "failed-to-start", now) \in Artifacts
            /\ Recorded(r, "failed-to-start", now).run = r
            /\ Recorded(r, "failed-to-start", now).status = "failed-to-start"
            /\ Recorded(r, "failed-to-start", now).basis = None
        BY <4>1 DEF Recorded, Artifacts
      <4> QED BY <4>2
    <3>2. Sound(a, alive', launcher', started', stray')
      BY <2>1, <2>3, <3>1 DEF Sound, Steady, Fresh
    <3> QED BY <2>3, <3>1, <3>2, Records
  <2> QED BY <1>4, <2>2, <2>3 DEF WatchdogError, Terminate
<1>5. CASE RecordFailed(r)
  <2> DEFINE a == [run |-> r, pid |-> FALSE, status |-> "failed-to-start",
                   observed |-> None, seen |-> FALSE, basis |-> None]
  <2>1. a \in Artifacts /\ a.run = r /\ a.status = "failed-to-start" /\ a.basis = None
    BY DEF Artifacts, Terminal
  <2>2. ~Alive(r) /\ ~Fresh(r) /\ alive' = alive
    BY <1>5 DEF RecordFailed, Fresh, FreshPlaces, IInv, ClaimOK
  <2>3. WriteArtifact(home[r], a, TRUE)
    BY <1>5 DEF RecordFailed
  <2> HIDE DEF a
  <2>4. Sound(a, alive', launcher', started', stray')
    BY <2>1, <2>2 DEF Sound, Steady, Fresh, Alive
  <2> QED BY <2>1, <2>3, <2>4, Records
<1>6. CASE RecordEnded(r)
  <2>1. ~Alive(r) /\ ~Fresh(r) /\ alive' = alive
    BY <1>6 DEF RecordEnded, Fresh, FreshPlaces, IInv, ClaimOK
  <2> DEFINE found == Discovered(r)
  <2>2. found \in Results \union {None} /\ (found # None => Good(found, r))
    BY FoundGood DEF IInv
  <2>3. PICK a \in Artifacts : /\ a = StartupRecord(r, found) /\ a.run = r
                               /\ a.status = "passed" => found # None
                               /\ a.basis = found
    <3>1. CASE found = None
      <4>1. "process-exited-without-result" \in Terminal \union {"running"} /\ None \in Times \union {None}
        BY DEF Terminal
      <4> DEFINE y == Recorded(r, "process-exited-without-result", None)
      <4>2. /\ y \in Artifacts /\ y.run = r /\ y.status = "process-exited-without-result"
            /\ y.basis = None
        BY <4>1 DEF Recorded, Artifacts
      <4>3. StartupRecord(r, found) = y
        BY <3>1 DEF StartupRecord
      <4> HIDE DEF y
      <4> QED BY <3>1, <4>2, <4>3
    <3>2. CASE found # None
      <4>1. PICK verdict \in Terminal : verdict = Verdict(found)
        BY <2>2, <3>2, VerdictType
      <4> DEFINE y == Recorded(r, verdict, None)
      <4>2. y \in Artifacts /\ y.run = r /\ y.status = verdict
        BY DEF Recorded, Artifacts
      <4>3. StartupRecord(r, found) = [y EXCEPT !.basis = found]
        BY <3>2, <4>1 DEF StartupRecord
      <4> HIDE DEF y, found
      <4>4. LET z == [y EXCEPT !.basis = found]
            IN z \in Artifacts /\ z.run = r /\ z.status = verdict /\ z.basis = found
        BY <2>2, <4>2 DEF Artifacts
      <4>5. StartupRecord(r, found) \in Artifacts
        BY <4>3, <4>4
      <4> QED BY <3>2, <4>3, <4>4
    <3> QED BY <3>1, <3>2
  <2>4. WriteArtifact(home[r], a, TRUE)
    BY <1>6, <2>3 DEF RecordEnded
  <2> HIDE DEF found
  <2>5. a.basis # None => Fine(a.basis, r, started', stray')
    BY <2>1, <2>2, <2>3, FineStays
  <2>6. Sound(a, alive', launcher', started', stray')
    BY <2>1, <2>3, <2>5 DEF Sound, Steady, Fresh, Alive
  <2> QED BY <2>4, <2>6, Records
<1> QED BY <1>1, <1>3, <1>4, <1>5, <1>6
        DEF Launching, LauncherDies, ClaimLaunch, ClaimResult, Spawn, Identify, StartWatchdog,
            InlineCheck, InlineRemove, InlineWipe, InlineClaimLaunch, InlineClaimResult,
            InlineWrites, InlineDone, files, IInv, TypeOK

(* Nothing is alive before it was spawned. *)
LEMMA LaunchFresh ==
  ASSUME IInv, Steady, NEW r \in Runs, Launching(r) \/ LauncherDies(r)
  PROVE  FreshOK'
<1>1. \/ alive' \subseteq alive
      \/ alive' = alive \union {r} /\ Go(r, "identify")
      \/ alive' = alive \union {r} /\ Go(r, "inline")
  BY DEF Launching, LauncherDies, ClaimLaunch, ClaimResult, Spawn, Identify, KillChild, Record,
         RecordEnded, StartWatchdog, WatchdogError, NoteWatchdog, Failing, Terminate, RecordFailed,
         InlineCheck, InlineRemove, InlineWipe, InlineClaimLaunch, InlineClaimResult,
         InlineWrites, InlineDone
<1>2. \A s \in Runs : Fresh(s)' => Fresh(s)
  BY DEF Steady
<1> QED BY <1>1, <1>2 DEF FreshOK, Fresh, FreshPlaces, Alive, Go, IInv, TypeOK

(* A claim that somebody works under stands. *)
LEMMA Holder ==
  ASSUME IInv, NEW s \in Runs, s \notin stray, Needs(s) \/ Alive(s)
  PROVE  /\ ClaimStands /\ claim # None /\ claim.run = s
         /\ claim \in {ClaimBy(s, "launcher"), ClaimBy(s, "run")}
<1>1. \/ claim = ClaimBy(s, "launcher") /\ (Needs(s) \/ launcher[s] = "failing")
      \/ claim = ClaimBy(s, "run") /\ Alive(s)
  BY DEF IInv, ClaimOK, OwnsClaim
<1>2. CASE claim = ClaimBy(s, "launcher") /\ (Needs(s) \/ launcher[s] = "failing")
  <2>1. Working(s)
    BY <1>2 DEF Needs, Working
  <2> QED BY <1>2, <2>1, ClaimNames DEF ClaimStands
<1>3. CASE claim = ClaimBy(s, "run") /\ Alive(s)
  BY <1>3, ClaimNames DEF ClaimStands
<1> QED BY <1>1, <1>2, <1>3

(* What a launcher does to the claim: it goes by the rules with its own,   *)
(* replaces one that does not stand, or removes what it finds.             *)
LEMMA ClaimMoves ==
  ASSUME IInv, NEW r \in Runs, Launching(r) \/ LauncherDies(r)
  PROVE  /\ claim' \in {claim, None, ClaimBy(r, "launcher"), ClaimBy(r, "run")}
         /\ \/ claim' = claim
            \/ claim \in {ClaimBy(r, "launcher"), ClaimBy(r, "run")}
            \/ ~ClaimStands
            \/ LoseClaim
         /\ stray \subseteq stray'
         /\ alive \ {r} = alive' \ {r}
         /\ \A s \in Runs \ {r} : launcher'[s] = launcher[s]
<1>1. CASE ClaimLaunch(r) \/ ClaimResult(r) \/ Spawn(r) \/ Record(r) \/ StartWatchdog(r)
           \/ NoteWatchdog(r) \/ RecordFailed(r) \/ WatchdogError(r)
  BY <1>1 DEF ClaimLaunch, ClaimResult, TakeClaim, Spawn, Record, StartWatchdog, NoteWatchdog,
              RecordFailed, WatchdogError, Terminate, EndLaunch, Go, files, rest, IInv, TypeOK
<1>2. CASE Identify(r) \/ RecordEnded(r) \/ Failing(r)
  <2>1. /\ claim' \in {claim, None, ClaimBy(r, "launcher"), ClaimBy(r, "run")}
        /\ claim' = claim \/ claim \in {ClaimBy(r, "launcher"), ClaimBy(r, "run")}
    BY <1>2 DEF Identify, RecordEnded, Failing, HandOver, DropClaim
  <2>2. stray \subseteq stray' /\ alive \ {r} = alive' \ {r}
    BY <1>2 DEF Identify, RecordEnded, Failing, KillChild, Terminate, rest
  <2>3. \E place \in LauncherPlaces : Go(r, place)
    BY <1>2 DEF Identify, RecordEnded, Failing, EndLaunch, LauncherPlaces
  <2> QED BY <2>1, <2>2, <2>3, GoType DEF IInv
<1>3. CASE InlineCheck(r) \/ InlineClaimLaunch(r) \/ InlineClaimResult(r) \/ InlineWrites(r)
           \/ InlineDone(r)
  BY <1>3 DEF InlineCheck, InlineClaimLaunch, InlineClaimResult, TakeClaim, InlineWrites,
              InlineDone, EndLaunch, Go, files, rest, IInv, TypeOK
<1>4. CASE InlineRemove(r) \/ InlineWipe(r)
  <2>1. UNCHANGED <<claim, stray>> \/ LoseClaim
    BY <1>4 DEF InlineRemove, InlineWipe
  <2>2. alive' = alive /\ (UNCHANGED launcher \/ \E place \in LauncherPlaces : Go(r, place))
    BY <1>4 DEF InlineRemove, InlineWipe, EndLaunch, LauncherPlaces
  <2> QED BY <2>1, <2>2, LoseType, GoType DEF IInv
<1>5. CASE LauncherDies(r)
  BY <1>5 DEF LauncherDies, Go, files, IInv, TypeOK
<1> QED BY <1>1, <1>2, <1>3, <1>4, <1>5 DEF Launching

(* What is cleared is the directory of the launcher's own artifact. *)
LEMMA LaunchInline ==
  ASSUME IInv, NEW r \in Runs, Launching(r) \/ LauncherDies(r)
  PROVE  InlineOK'
<1>1. launcher'[r] \in {"remove", "wipe"} => home[r] = Dir
  BY DEF Launching, LauncherDies, ClaimLaunch, ClaimResult, Spawn, Identify, Record, RecordEnded,
         StartWatchdog, WatchdogError, NoteWatchdog, Failing, RecordFailed, InlineCheck,
         InlineRemove, InlineWipe, InlineClaimLaunch, InlineClaimResult, InlineWrites, InlineDone,
         EndLaunch, Go, IInv, TypeOK, InlineOK
<1>2. /\ \A s \in Runs \ {r} : launcher'[s] = launcher[s]
      /\ UNCHANGED home
  BY ClaimMoves
     DEF Launching, LauncherDies, ClaimLaunch, ClaimResult, Spawn, Identify, Record, RecordEnded,
         StartWatchdog, WatchdogError, NoteWatchdog, Failing, RecordFailed, InlineCheck,
         InlineRemove, InlineWipe, InlineClaimLaunch, InlineClaimResult, InlineWrites, InlineDone
<1> QED BY <1>1, <1>2 DEF IInv, InlineOK

(* Nobody else loses the claim by it, unless this is put down as such. *)
LEMMA OthersClaim ==
  ASSUME IInv, NEW r \in Runs, Launching(r) \/ LauncherDies(r),
         NEW s \in Runs \ {r}, s \notin stray', Needs(s) \/ Alive(s)
  PROVE  claim' = claim
<1>1. s \notin stray
  BY ClaimMoves
<1>2. ClaimStands /\ claim # None /\ claim.run = s
  BY <1>1, Holder
<1>3. claim \notin {ClaimBy(r, "launcher"), ClaimBy(r, "run")}
  BY <1>2, ClaimNames
<1>4. ~LoseClaim
  BY <1>2 DEF LoseClaim
<1> QED BY <1>2, <1>3, <1>4, ClaimMoves

(* What the launcher's own run has of the claim then. *)
LEMMA OwnClaim ==
  ASSUME IInv, NEW r \in Runs, Launching(r) \/ LauncherDies(r)
  PROVE  \/ r \notin alive' /\ launcher'[r] \notin {"spawn", "identify", "inline", "written"}
         \/ /\ launcher'[r] \notin {"ended", "failed"}
            /\ \/ r \in stray'
               \/ /\ claim' = ClaimBy(r, "launcher")
                  /\ launcher'[r] \in {"spawn", "identify", "inline", "written", "failing"}
               \/ /\ claim' = ClaimBy(r, "run")
                  /\ launcher'[r] \notin {"spawn", "identify", "inline", "written"}
<1>0. /\ launcher \in [Runs -> LauncherPlaces]
      /\ launcher[r] \in FreshPlaces => r \notin alive
      /\ launcher[r] \in {"ended", "failed"} => r \notin alive
      /\ r \notin stray =>
           /\ launcher[r] \in {"spawn", "identify", "inline", "written"} =>
                 claim = ClaimBy(r, "launcher")
           /\ r \in alive =>
                \/ claim = ClaimBy(r, "run")
                \/ /\ claim = ClaimBy(r, "launcher")
                   /\ launcher[r] \in {"spawn", "identify", "inline", "written", "failing"}
      /\ stray \subseteq stray'
  BY ClaimMoves DEF IInv, TypeOK, FreshOK, Fresh, ClaimOK, Needs, OwnsClaim, Alive
<1>1. CASE ClaimLaunch(r) \/ InlineCheck(r) \/ InlineRemove(r) \/ InlineClaimLaunch(r)
  <2>1. r \notin alive'
    BY <1>0, <1>1
       DEF ClaimLaunch, InlineCheck, InlineRemove, InlineClaimLaunch, FreshPlaces
  <2>2. PICK place \in {"claim", "wipe", "remove", "inlineclaim", "done"} : Go(r, place)
    BY <1>1 DEF ClaimLaunch, InlineCheck, InlineRemove, InlineClaimLaunch, EndLaunch
  <2> QED BY <1>0, <2>1, <2>2 DEF Go
<1>2. CASE InlineWipe(r)
  <2>1. r \notin alive' /\ launcher[r] = "wipe"
    BY <1>0, <1>2 DEF InlineWipe, FreshPlaces
  <2>2. UNCHANGED launcher \/ \E place \in {"await", "done"} : Go(r, place)
    BY <1>2 DEF InlineWipe, EndLaunch
  <2> QED BY <1>0, <2>1, <2>2 DEF Go
<1>3. CASE ClaimResult(r)
  <2>1. \/ Go(r, "failing")
        \/ Go(r, "spawn") /\ claim' = ClaimBy(r, "launcher")
    BY <1>3 DEF ClaimResult, TakeClaim
  <2>2. r \notin alive'
    BY <1>0, <1>3 DEF ClaimResult, FreshPlaces
  <2> QED BY <1>0, <2>1, <2>2 DEF Go
<1>4. CASE Spawn(r)
  <2>1. UNCHANGED <<claim, stray>> /\ launcher[r] = "spawn" /\ r \notin alive
    BY <1>0, <1>4 DEF Spawn, files, rest, FreshPlaces
  <2>2. Go(r, "identify") \/ (Go(r, "failing") /\ alive' = alive)
    BY <1>4 DEF Spawn
  <2> QED BY <1>0, <2>1, <2>2 DEF Go
<1>5. CASE Identify(r)
  <2>1. UNCHANGED stray /\ launcher[r] = "identify"
    BY <1>5 DEF Identify, rest
  <2>2. \/ r \notin alive' /\ Go(r, "failed")
        \/ r \notin alive' /\ Go(r, "ended")
        \/ claim' = ClaimBy(r, "run") /\ \E place \in {"record", "failing", "unverified"} : Go(r, place)
        \/ claim' = claim /\ Go(r, "failing")
    BY <1>5 DEF Identify, HandOver, KillChild, Alive
  <2> QED BY <1>0, <2>1, <2>2 DEF Go
<1>6. CASE Record(r) \/ NoteWatchdog(r) \/ RecordFailed(r) \/ StartWatchdog(r) \/ RecordEnded(r)
  <2>1. CASE RecordFailed(r) \/ RecordEnded(r)
    BY <1>0, <2>1 DEF RecordFailed, RecordEnded, EndLaunch, Go
  <2>2. CASE Record(r) \/ NoteWatchdog(r) \/ StartWatchdog(r)
    <3>1. UNCHANGED <<claim, alive, stray>> /\ launcher[r] \in {"record", "unverified", "note", "watch"}
      BY <2>2 DEF Record, NoteWatchdog, StartWatchdog, files, rest
    <3>2. PICK place \in {"watch", "done", "note", "failing"} : Go(r, place)
      BY <2>2 DEF Record, NoteWatchdog, StartWatchdog, EndLaunch
    <3> QED BY <1>0, <3>1, <3>2 DEF Go
  <2> QED BY <1>6, <2>1, <2>2
<1>7. CASE WatchdogError(r)
  <2>1. UNCHANGED <<claim, stray, launcher>> /\ launcher[r] = "done" /\ (r \in alive' => r \in alive)
    BY <1>7 DEF WatchdogError, Terminate, rest
  <2> QED BY <1>0, <2>1
<1>8. CASE Failing(r)
  <2>1. \/ r \notin alive' /\ Go(r, "failed")
        \/ /\ Go(r, "done") /\ (claim' = ClaimBy(r, "run") \/ r \in stray')
    BY <1>8 DEF Failing, Terminate, EndLaunch
  <2>2. "failed" \in LauncherPlaces /\ "done" \in LauncherPlaces
    BY DEF LauncherPlaces
  <2>3. (r \notin alive' /\ launcher'[r] = "failed")
        \/ (launcher'[r] = "done" /\ (claim' = ClaimBy(r, "run") \/ r \in stray'))
    BY <1>0, <2>1 DEF Go
  <2> QED BY <2>3
<1>9. CASE InlineClaimResult(r)
  <2>1. \/ Go(r, "inline") /\ claim' = ClaimBy(r, "launcher")
        \/ r \notin alive' /\ Go(r, "done")
    BY <1>0, <1>9 DEF InlineClaimResult, TakeClaim, EndLaunch, FreshPlaces
  <2> QED BY <1>0, <2>1 DEF Go
<1>10. CASE InlineWrites(r)
  <2>1. UNCHANGED <<claim, stray>> /\ launcher[r] = "inline" /\ Go(r, "written")
    BY <1>10 DEF InlineWrites, rest
  <2> QED BY <1>0, <2>1 DEF Go
<1>11. CASE InlineDone(r)
  BY <1>0, <1>11 DEF InlineDone, EndLaunch, Go
<1>12. CASE LauncherDies(r)
  <2>1. /\ UNCHANGED claim /\ Go(r, "crashed")
        /\ r \in alive' => r \in alive /\ (claim = ClaimBy(r, "run") \/ r \in stray')
    BY <1>12 DEF LauncherDies, Alive, OwnsClaim, files
  <2> QED BY <1>0, <2>1 DEF Go
<1> QED BY <1>1, <1>2, <1>3, <1>4, <1>5, <1>6, <1>7, <1>8, <1>9, <1>10, <1>11, <1>12 DEF Launching

(* A run on record was handed the claim. *)
LEMMA HandedOver ==
  ASSUME IInv, NEW r \in Runs, Launching(r) \/ LauncherDies(r),
         launcher'[r] \in {"record", "watch", "note"}
  PROVE  claim' # ClaimBy(r, "launcher")
<1>0. /\ launcher \in [Runs -> LauncherPlaces]
      /\ launcher[r] \in {"record", "watch", "note"} => claim # ClaimBy(r, "launcher")
  BY DEF IInv, TypeOK, ClaimOK
<1>1. CASE Identify(r)
  <2>1. claim' = ClaimBy(r, "run")
    BY <1>0, <1>1 DEF Identify, HandOver, Go
  <2> QED BY <2>1, ClaimNames
<1>2. CASE Record(r) \/ StartWatchdog(r)
  BY <1>0, <1>2 DEF Record, StartWatchdog, EndLaunch, Go, files
<1> QED BY <1>0, <1>1, <1>2
        DEF Launching, LauncherDies, ClaimLaunch, ClaimResult, Spawn, RecordEnded, WatchdogError,
            NoteWatchdog, Failing, RecordFailed, InlineCheck, InlineRemove, InlineWipe,
            InlineClaimLaunch, InlineClaimResult, InlineWrites, InlineDone, EndLaunch, Go

(* The claim is the run's that is spawned next, or works. *)
LEMMA LaunchClaim ==
  ASSUME IInv, NEW r \in Runs, Launching(r) \/ LauncherDies(r)
  PROVE  ClaimOK'
<1> SUFFICES ASSUME NEW s \in Runs
             PROVE  /\ s \notin stray' =>
                         /\ Needs(s)' => claim' = ClaimBy(s, "launcher")
                         /\ Alive(s)' => \/ OwnsClaim(s)'
                                         \/ /\ claim' = ClaimBy(s, "launcher")
                                            /\ Needs(s)' \/ launcher'[s] = "failing"
                    /\ launcher'[s] \in {"ended", "failed"} => ~Alive(s)'
                    /\ launcher'[s] \in {"record", "watch", "note"} => claim' # ClaimBy(s, "launcher")
  BY DEF ClaimOK
<1>1. CASE s = r
  BY <1>1, OwnClaim, HandedOver DEF Needs, Alive, OwnsClaim
<1>2. CASE s # r
  <2>1. launcher'[s] = launcher[s] /\ (s \in alive' <=> s \in alive) /\ stray \subseteq stray'
    BY <1>2, ClaimMoves
  <2>2. s \notin stray' /\ (Needs(s) \/ Alive(s)) => claim' = claim
    BY <1>2, OthersClaim
  <2>3. claim' = ClaimBy(s, "launcher") => claim = ClaimBy(s, "launcher")
    <3>1. ClaimBy(s, "launcher") \notin {None, ClaimBy(r, "launcher"), ClaimBy(r, "run")}
      BY <1>2, ClaimNames
    <3> QED BY <3>1, ClaimMoves
  <2> QED BY <2>1, <2>2, <2>3 DEF IInv, ClaimOK, Needs, Alive, OwnsClaim
<1> QED BY <1>1, <1>2

(* Whose result it would be is not changed by a launcher, but for the run  *)
(* that it has just spawned.                                               *)
LEMMA OwnerStays ==
  ASSUME IInv, NEW r \in Runs, Launching(r) \/ LauncherDies(r), NEW s \in Runs, Owner(s)'
  PROVE  Owner(s) \/ (s = r /\ Spawn(r))
<1>0. launcher \in [Runs -> LauncherPlaces] /\ alive \ {r} = alive' \ {r}
      /\ \A t \in Runs \ {r} : launcher'[t] = launcher[t]
  BY ClaimMoves DEF IInv, TypeOK
<1>1. claim' \in {claim, None, ClaimBy(r, "launcher"), ClaimBy(r, "run")}
  BY ClaimMoves
<1>2. claim' \in {ClaimBy(s, "launcher"), ClaimBy(s, "run")}
  BY DEF Owner, OwnsClaim
<1>3. CASE s # r
  <2>1. claim' = claim
    <3>1. claim' # None /\ claim'.run = s
      BY <1>2, ClaimNames
    <3>2. claim' \notin {ClaimBy(r, "launcher"), ClaimBy(r, "run")}
      BY <1>3, <3>1, ClaimNames
    <3> QED BY <1>1, <3>1, <3>2
  <2> QED BY <1>0, <1>3, <2>1 DEF Owner, OwnsClaim, Alive
<1>4. CASE s = r
  <2>0. ClaimBy(r, "launcher") # ClaimBy(r, "run") /\ None \notin {ClaimBy(r, "launcher"), ClaimBy(r, "run")}
    BY ClaimNames
  <2>1. CASE OwnsClaim(r)'
    <3>1. claim' # ClaimBy(r, "launcher") /\ claim' # None
      BY <2>0, <2>1 DEF OwnsClaim
    <3>2. claim' = claim \/ Identify(r) \/ Failing(r)
      BY <3>1 DEF Launching, LauncherDies, ClaimLaunch, ClaimResult, TakeClaim, Spawn,
           DropClaim, Record, RecordEnded, StartWatchdog, WatchdogError, NoteWatchdog,
           RecordFailed, InlineCheck, InlineRemove, InlineWipe, LoseClaim, InlineClaimLaunch,
           InlineClaimResult, InlineWrites, InlineDone, files
    <3>3. CASE Identify(r)
      <4>1. launcher[r] = "identify" /\ (claim = claim' \/ claim = ClaimBy(r, "launcher"))
        BY <3>1, <3>3 DEF Identify, HandOver, DropClaim
      <4> QED BY <1>4, <2>1, <4>1 DEF Owner, OwnsClaim
    <3>4. CASE Failing(r)
      <4>1. \/ claim = claim'
            \/ claim = ClaimBy(r, "launcher") /\ launcher[r] = "failing" /\ Alive(r)
        BY <3>1, <3>4 DEF Failing, Terminate, HandOver, DropClaim
      <4> QED BY <1>4, <2>1, <4>1 DEF Owner, OwnsClaim
    <3> QED BY <1>4, <2>1, <3>2, <3>3, <3>4 DEF Owner, OwnsClaim
  <2>2. CASE /\ claim' = ClaimBy(r, "launcher")
             /\ launcher'[r] = "identify" \/ (launcher'[r] = "failing" /\ Alive(r)')
    <3>1. CASE Identify(r)
      <4>1. launcher[r] = "identify" /\ claim = claim'
        BY <2>0, <2>2, <3>1 DEF Identify, HandOver, DropClaim
      <4> QED BY <1>4, <2>2, <4>1 DEF Owner
    <3>2. CASE StartWatchdog(r) \/ NoteWatchdog(r)
      <4>1. launcher[r] \in {"watch", "note"} /\ UNCHANGED claim
        BY <3>2 DEF StartWatchdog, NoteWatchdog, files
      <4> QED BY <2>2, <4>1 DEF IInv, ClaimOK
    <3>3. CASE ClaimResult(r)
      <4>1. launcher'[r] # "identify" /\ r \notin alive'
        BY <1>0, <3>3 DEF ClaimResult, Go, IInv, FreshOK, Fresh, FreshPlaces, Alive
      <4> QED BY <2>2, <4>1 DEF Alive
    <3>4. launcher'[r] \in {"identify", "failing"}
      BY <2>2
    <3> QED BY <1>0, <1>4, <3>1, <3>2, <3>3, <3>4
            DEF Launching, LauncherDies, ClaimLaunch, Record, RecordEnded, WatchdogError,
                Failing, RecordFailed, InlineCheck, InlineRemove, InlineWipe, InlineClaimLaunch,
                InlineClaimResult, InlineWrites, InlineDone, EndLaunch, Go
  <2> QED BY <1>4, <2>1, <2>2 DEF Owner
<1> QED BY <1>3, <1>4

(* What the result file holds is known to the claim's holder. *)
LEMMA LaunchResult ==
  ASSUME IInv, NEW r \in Runs, Launching(r) \/ LauncherDies(r)
  PROVE  ResultOK'
<1>0. stray \subseteq stray'
  BY ClaimMoves
<1>1. ASSUME result' # None => result' = result /\ baseline' = baseline, ~Spawn(r)
      PROVE  ResultOK'
  BY <1>0, <1>1, OwnerStays DEF IInv, ResultOK, Mine
<1>2. CASE Spawn(r)
  <2>1. result' = result /\ baseline \subseteq baseline' /\ (result = None \/ r \in baseline')
    BY <1>2 DEF Spawn, files
  <2> QED BY <1>0, <2>1, OwnerStays DEF IInv, ResultOK, Mine
<1>3. CASE InlineWrites(r)
  <2>1. result'.run = r /\ result' # None
    BY <1>3, WriteResultType, Names DEF InlineWrites, IInv
  <2>2. ASSUME NEW s \in Runs, Owner(s)', r \notin stray'
        PROVE  FALSE
    <3>1. claim = ClaimBy(r, "launcher") /\ claim' = claim /\ Go(r, "written") /\ launcher[r] = "inline"
      BY <1>0, <1>3, <2>2 DEF InlineWrites, IInv, ClaimOK, Needs
    <3>2. Owner(s)
      BY <1>3, <2>2, <3>1, OwnerStays DEF Spawn
    <3>3. claim # ClaimBy(s, "run") /\ (claim = ClaimBy(s, "launcher") => s = r)
      BY <3>1, ClaimNames
    <3> QED BY <3>1, <3>2, <3>3 DEF Owner, OwnsClaim
  <2> QED BY <2>1, <2>2 DEF ResultOK, Mine
<1>4. CASE ClaimResult(r) \/ InlineWipe(r)
  <2>1. UNCHANGED <<result, baseline>> \/ \E file \in {result, None} : Keep(file)
    BY <1>4 DEF ClaimResult, InlineWipe
  <2>2. ~Spawn(r)
    BY <1>4 DEF ClaimResult, InlineWipe, Spawn
  <2> QED BY <1>1, <2>1, <2>2, KeepType DEF IInv
<1>5. CASE ~Spawn(r) /\ UNCHANGED <<result, baseline>>
  BY <1>1, <1>5
<1> QED BY <1>2, <1>3, <1>4, <1>5
        DEF Launching, LauncherDies, ClaimLaunch, Identify, Record, RecordEnded, StartWatchdog,
            WatchdogError, NoteWatchdog, Failing, RecordFailed, InlineCheck, InlineRemove,
            InlineClaimLaunch, InlineClaimResult, InlineDone, files

(* A launcher's step, and its death, keep the invariant. *)
LEMMA LaunchStep ==
  ASSUME IInv, Steady, NEW r \in Runs, Launching(r) \/ LauncherDies(r)
  PROVE  IInv'
<1>1. TypeOK'
  BY LaunchType, RunType DEF IInv
<1> QED BY <1>1, LaunchFresh, LaunchInline, LaunchClaim, LaunchResult, LaunchRecords, LaunchObservers DEF IInv

-----------------------------------------------------------------------------
(* The runs, the clock, and every step *)

(* A run that writes holds the claim, or is stray. *)
LEMMA RunStep ==
  ASSUME IInv, Steady, \/ \E r \in Runs : RunWrites(r) \/ RunExits(r)
                       \/ Tick \/ UNCHANGED vars
  PROVE  IInv'
<1>1. TypeOK'
  BY RunType DEF IInv
<1>2. UNCHANGED <<started, home, launcher, claim, artifact, observer, stray>> /\ alive' \subseteq alive
  BY DEF RunWrites, RunExits, Tick, vars, files, rest
<1>3. FreshOK' /\ InlineOK' /\ ClaimOK'
  BY <1>2 DEF IInv, FreshOK, InlineOK, ClaimOK, Needs, Fresh, Alive, OwnsClaim
<1>4. ArtifactsOK'
  BY <1>2, RecordStays DEF IInv, ArtifactsOK, RecordOK
<1>5. \A o \in Runs \union Inspectors : ObserverOK(o)'
  BY <1>2, ObserverStays DEF IInv
<1>6. \A s \in Runs : Owner(s)' => Owner(s)
  BY <1>2 DEF Owner, OwnsClaim, Alive
<1>7. ResultOK'
  <2>1. CASE UNCHANGED <<result, baseline>>
    BY <1>2, <1>6, <2>1 DEF IInv, ResultOK, Mine
  <2>2. ASSUME NEW r \in Runs, RunWrites(r)
        PROVE  ResultOK'
    <3>1. result'.run = r
      BY <2>2, WriteResultType DEF RunWrites, IInv
    <3>2. ASSUME NEW s \in Runs, r \notin stray, Owner(s)
          PROVE  s = r
      <4>1. claim.run = r
        BY <2>2, <3>2, Holder DEF RunWrites
      <4> QED BY <3>2, <4>1, ClaimNames DEF Owner, OwnsClaim
    <3> QED BY <1>2, <1>6, <3>1, <3>2 DEF ResultOK, Mine
  <2> QED BY <2>1, <2>2 DEF RunExits, Tick, vars, files
<1> QED BY <1>1, <1>3, <1>4, <1>5, <1>7 DEF IInv

(* At first nothing was launched. *)
LEMMA InvInit == Init => IInv
<1> SUFFICES ASSUME Init PROVE IInv
  OBVIOUS
<1>1. 0 \in Times /\ 0 \in 0..MaxDeaths
  BY BoundsAssumption DEF Times
<1>2. \A o \in Runs \union Inspectors :
         /\ observer[o] \in Observers /\ observer[o].art = None /\ observer[o].found = None
         /\ observer[o].at \in {"off", "idle"} /\ observer[o].status = "running"
  <2>1. \A place \in {"off", "idle"} :
           /\ Asleep(place) \in Observers /\ Asleep(place).at = place /\ Asleep(place).art = None
           /\ Asleep(place).found = None /\ Asleep(place).status = "running"
    BY AsleepType DEF ObserverPlaces
  <2>2. \A o \in Runs \union Inspectors : observer[o] = Asleep("off") \/ observer[o] = Asleep("idle")
    BY DEF Init
  <2> QED BY <2>1, <2>2
<1>3. TypeOK
  <2>1. observer \in [Runs \union Inspectors -> Observers]
    BY <1>2 DEF Init
  <2> QED BY <1>1, <2>1 DEF Init, TypeOK, LauncherPlaces
<1>4. FreshOK /\ InlineOK /\ ClaimOK /\ ResultOK /\ ArtifactsOK
  BY DEF Init, FreshOK, InlineOK, ClaimOK, Needs, ResultOK, ArtifactsOK, Alive
<1>5. \A o \in Runs \union Inspectors : ObserverOK(o)
  BY <1>2 DEF ObserverOK, Looking
<1> QED BY <1>3, <1>4, <1>5 DEF IInv

(* Every step keeps the invariant. *)
LEMMA InvNext == IInv /\ [Next]_vars => IInv'
<1> SUFFICES ASSUME IInv, [Next]_vars PROVE IInv'
  OBVIOUS
<1>1. Steady
  BY SteadyStep DEF IInv
<1> QED BY <1>1, ObserversStep, LaunchStep, RunStep DEF Next

(* IInv is an invariant of every run of the system. *)
THEOREM Invariance == Spec => []IInv
BY InvInit, InvNext, PTL DEF Spec

-----------------------------------------------------------------------------
(* What follows *)

(* Every reachable state is well formed. *)
THEOREM TypeCorrect == Spec => []TypeOK
<1>1. IInv => TypeOK
  BY DEF IInv
<1> QED BY <1>1, Invariance, PTL

(* Nobody records a terminal status of a run that may still work: a status *)
(* command, a watchdog and a failed launch all conclude only on a process  *)
(* they have seen dead or ended, and what is dead stays so.                *)
THEOREM OverWhenTerminal == Spec => []TerminalMeansOver
<1>1. IInv => TerminalMeansOver
  BY DEF IInv, ArtifactsOK, RecordOK, Sound, TerminalMeansOver, Alive
<1> QED BY <1>1, Invariance, PTL

(* Two runs never work into the result file at once, on one artifact path  *)
(* or two, detached or inside their launchers: the one that works holds    *)
(* the claim on it.  Excepted is a run in stray: its launcher died before  *)
(* it handed the claim over, or could neither hand it over nor end the     *)
(* run, or a verification inside its launcher removed the claim.           *)
THEOREM SingleWriter == Spec => []OneWriter
<1>1. ASSUME IInv, NEW r \in Runs, NEW s \in Runs, Alive(r), Alive(s), r \notin stray, s \notin stray
      PROVE  r = s
  <2>1. claim.run = r /\ claim.run = s
    BY <1>1, Holder
  <2> QED BY <2>1
<1>2. IInv => OneWriter
  BY <1>1 DEF OneWriter
<1> QED BY <1>2, Invariance, PTL

(* A verdict of success rests on a result, and every result that a record  *)
(* rests on was there before the deadline of the run on record, and was    *)
(* written by that run itself, or by a stray one (see SingleWriter).       *)
THEOREM OwnVerdict == Spec => []VerdictIsOwn
<1>1. IInv => VerdictIsOwn
  BY DEF IInv, ArtifactsOK, RecordOK, Sound, Fine, VerdictIsOwn, Deadline
<1> QED BY <1>1, Invariance, PTL

(* What a step may do to a record: create it or replace another run's, in  *)
(* its own launch; remove it, in a verification; or go on with a run that  *)
(* is not over.                                                            *)
Goes(p) ==
  /\ artifact[p] # None /\ artifact'[p] # None
  /\ SameRun(artifact'[p], artifact[p]) /\ artifact[p].status \notin Terminal
Final(p) ==
  artifact'[p] # artifact[p] =>
    \/ LaunchWrites(p) /\ (artifact[p] = None \/ ~SameRun(artifact'[p], artifact[p]))
    \/ InlineRemoves(p)
    \/ Goes(p)

(* Writing without leave to replace goes on with what is on record. *)
LEMMA WriteFinal ==
  ASSUME TypeOK, NEW q \in Paths, NEW a \in Artifacts, WriteArtifact(q, a, FALSE), NEW p \in Paths
  PROVE  Final(p)
<1>1. PICK replace \in BOOLEAN : replace = FALSE /\ WriteArtifact(q, a, replace)
  OBVIOUS
<1>2. \/ artifact'[p] = artifact[p]
      \/ /\ p = q /\ artifact'[p] \in Artifacts
         /\ artifact'[p].run = a.run /\ artifact'[p].pid = a.pid
         /\ artifact[p] # None /\ SameRun(artifact[p], a) /\ artifact[p].status \notin Terminal
  BY <1>1, WriteEffect
<1> QED BY <1>2, Names DEF Final, Goes, SameRun

(* What is written is written where it belongs. *)
LEMMA WriteOne ==
  ASSUME TypeOK, NEW q \in Paths, NEW a \in Artifacts, NEW replace \in BOOLEAN,
         WriteArtifact(q, a, replace), NEW p \in Paths, artifact'[p] # artifact[p]
  PROVE  /\ p = q /\ artifact'[p] \in Artifacts
         /\ artifact'[p].run = a.run /\ artifact'[p].pid = a.pid
<1>1. artifact' = [artifact EXCEPT ![q] = Slim(a)]
  BY DEF WriteArtifact
<1> QED BY <1>1, SlimType DEF TypeOK

(* A launch replaces what is on record at its path by its own run.         *)
LEMMA LaunchFinal ==
  ASSUME TypeOK, NEW r \in Runs, NEW a \in Artifacts, a.run = r, WriteArtifact(home[r], a, TRUE),
         launcher[r] \in {"record", "unverified", "ended", "failing", "failed"}, NEW p \in Paths
  PROVE  Final(p)
<1>1. PICK replace \in BOOLEAN, q \in Paths :
         replace = TRUE /\ q = home[r] /\ WriteArtifact(q, a, replace)
  BY DEF TypeOK
<1>2. q = home[r]
  BY <1>1
<1>3. ASSUME artifact'[p] # artifact[p]
      PROVE  /\ p = q /\ artifact'[p] \in Artifacts
             /\ artifact'[p].run = a.run /\ artifact'[p].pid = a.pid
  BY <1>1, <1>3, WriteOne
<1>4. ASSUME artifact'[p] # artifact[p], artifact[p] # None, SameRun(artifact[p], a)
      PROVE  artifact[p].status \notin Terminal
  BY <1>1, <1>4, WriteEffect
<1>5. CASE artifact'[p] # artifact[p]
  <2>1. LaunchWrites(p)
    BY <1>2, <1>3, <1>5, Names DEF LaunchWrites
  <2>2. artifact[p] = None \/ ~SameRun(artifact'[p], artifact[p]) \/ Goes(p)
    BY <1>3, <1>4, <1>5, Names DEF Goes, SameRun
  <2> QED BY <2>1, <2>2 DEF Final
<1> QED BY <1>5 DEF Final

(* Observers that finish late never undo a conclusion or speak for another *)
(* run, nor does a launcher that writes what it recorded earlier; only the *)
(* launch of a run puts it on record in the place of another, and only a   *)
(* verification inside its launcher removes a record.                      *)
THEOREM FinalWhenTerminal == Spec => TerminalIsFinal
<1>1. ASSUME IInv, [Next]_vars, NEW p \in Paths
      PROVE  Final(p)
  <2>0. TypeOK
    BY <1>1 DEF IInv
  <2>1. CASE UNCHANGED artifact
    BY <2>1 DEF Final
  <2>2. ASSUME NEW i \in Inspectors, InspectWrite(i)
        PROVE  Final(p)
    <3> DEFINE o == observer[i]
               basis == IF o.found = None THEN o.art.basis ELSE o.found
               next == [o.art EXCEPT !.status = o.status, !.observed = o.time, !.seen = o.seen,
                                     !.basis = IF o.found = None THEN @ ELSE o.found]
    <3>1. /\ o \in Observers /\ o.art \in Artifacts /\ o.path \in Paths
          /\ o.found \in Results \union {None}
      BY <1>1, <2>2, ObserversAssumption, Names
         DEF IInv, TypeOK, ObserverOK, InspectWrite, At, Looking, Observers
    <3>2. next \in Artifacts
      BY <3>1 DEF Observers, Artifacts
    <3>3. WriteArtifact(o.path, next, FALSE)
      BY <2>2 DEF InspectWrite
    <3> HIDE DEF next
    <3> QED BY <2>0, <3>1, <3>2, <3>3, WriteFinal
  <2>3. ASSUME NEW r \in Runs, DogWrites(r)
        PROVE  Final(p)
    <3>1. \/ artifact'[p] = artifact[p]
          \/ /\ artifact[p] # None /\ artifact'[p] \in Artifacts
             /\ SameRun(artifact'[p], artifact[p]) /\ artifact[p].status \notin Terminal
      BY <1>1, <2>3, DogWritesOK
    <3> QED BY <3>1, Names DEF Final, Goes
  <2>4. ASSUME NEW r \in Runs, WatchdogError(r) \/ NoteWatchdog(r)
        PROVE  Final(p)
    <3>1. CASE UNCHANGED artifact
      BY <2>1, <3>1
    <3>2. ASSUME NEW a \in Artifacts, WriteArtifact(home[r], a, FALSE)
          PROVE  Final(p)
      <4>1. home[r] \in Paths
        BY <2>0 DEF TypeOK
      <4> QED BY <2>0, <3>2, <4>1, WriteFinal
    <3>3. \/ UNCHANGED artifact
          \/ \E status \in {"failed-to-start", "running"}, at \in {now, None} :
                WriteArtifact(home[r], Recorded(r, status, at), FALSE)
      BY <2>4 DEF WatchdogError, NoteWatchdog
    <3>4. \A status \in {"failed-to-start", "running"}, at \in {now, None} :
             Recorded(r, status, at) \in Artifacts
      BY <2>0 DEF Recorded, Artifacts, Terminal, TypeOK
    <3> QED BY <3>1, <3>2, <3>3, <3>4
  <2>5. ASSUME NEW r \in Runs, Record(r) \/ RecordEnded(r) \/ Failing(r) \/ RecordFailed(r)
        PROVE  Final(p)
    <3>1. launcher[r] \in {"record", "unverified", "ended", "failing", "failed"}
      BY <2>5 DEF Record, RecordEnded, Failing, RecordFailed
    <3>2. ASSUME NEW a \in Artifacts, a.run = r, WriteArtifact(home[r], a, TRUE)
          PROVE  Final(p)
      BY <2>0, <3>1, <3>2, LaunchFinal
    <3>3. CASE Record(r) \/ Failing(r)
      <4>1. UNCHANGED artifact \/ \E at \in {now, None} : WriteArtifact(home[r], Recorded(r, "running", at), TRUE)
        BY <3>3 DEF Record, Failing
      <4>2. \A at \in {now, None} :
               Recorded(r, "running", at) \in Artifacts /\ Recorded(r, "running", at).run = r
        BY <2>0 DEF Recorded, Artifacts, TypeOK
      <4> QED BY <2>1, <3>2, <4>1, <4>2
    <3>4. CASE RecordFailed(r)
      <4> DEFINE a == [run |-> r, pid |-> FALSE, status |-> "failed-to-start",
                       observed |-> None, seen |-> FALSE, basis |-> None]
      <4>1. a \in Artifacts /\ a.run = r
        BY DEF Artifacts, Terminal
      <4>2. WriteArtifact(home[r], a, TRUE)
        BY <3>4 DEF RecordFailed
      <4> HIDE DEF a
      <4> QED BY <3>2, <4>1, <4>2
    <3>5. CASE RecordEnded(r)
      <4> DEFINE a == StartupRecord(r, Discovered(r))
      <4>1. a \in Artifacts /\ a.run = r
        BY <2>0, StartupType
      <4>2. WriteArtifact(home[r], a, TRUE)
        BY <3>5 DEF RecordEnded
      <4> HIDE DEF a
      <4> QED BY <3>2, <4>1, <4>2
    <3> QED BY <2>5, <3>3, <3>4, <3>5
  <2>6. ASSUME NEW r \in Runs, InlineRemove(r) \/ InlineWipe(r)
        PROVE  Final(p)
    <3>1. launcher[r] \in {"remove", "wipe"} /\ home[r] = Dir
      BY <1>1, <2>6 DEF InlineRemove, InlineWipe, IInv, InlineOK
    <3>2. artifact' = artifact \/ artifact' = [artifact EXCEPT ![Dir] = None]
      BY <2>6 DEF InlineRemove, InlineWipe
    <3>3. artifact'[p] = artifact[p] \/ (p = Dir /\ artifact'[p] = None)
      BY <2>0, <3>2 DEF TypeOK
    <3> QED BY <3>1, <3>3 DEF Final, InlineRemoves
  <2> QED BY <1>1, <2>1, <2>2, <2>3, <2>4, <2>5, <2>6
          DEF Next, Launching, LauncherDies, ClaimLaunch, ClaimResult, Spawn, Identify,
              StartWatchdog, InlineCheck, InlineClaimLaunch, InlineClaimResult, InlineWrites,
              InlineDone, files, Inspecting, Inspect, InspectDiscover, InspectDecide,
              InspectTerminate, Quarantine, InspectRelease, Watching, DogWakes, DogLooks,
              DogDecides, DogTerminates, RunWrites, RunExits, Tick, vars
<1> DEFINE A == \A p \in Paths :
                  artifact'[p] # artifact[p] =>
                    \/ LaunchWrites(p) /\ (artifact[p] = None \/ ~SameRun(artifact'[p], artifact[p]))
                    \/ InlineRemoves(p)
                    \/ /\ artifact[p] # None /\ artifact'[p] # None
                       /\ SameRun(artifact'[p], artifact[p]) /\ artifact[p].status \notin Terminal
<1>2. ASSUME IInv, [Next]_vars
      PROVE  A
  BY <1>1, <1>2 DEF Final, Goes
<1> QED BY <1>2, Invariance, PTL DEF Spec, TerminalIsFinal

(* The quarantine takes away a late result of the run that timed out, and  *)
(* no other: the run owns the path, so it wrote what is there, unless that *)
(* is a stray run's, or was there already when the run was launched.       *)
THEOREM ResultsKept == Spec => ResultKept
<1> DEFINE A == \A o \in Runs \union Inspectors :
                  At(o, "quarantine") /\ ~At(o, "quarantine")' /\ result # None /\ result' = None =>
                    LET r == observer[o].art.run
                    IN \/ result.run = r /\ result.time >= Deadline(r)
                       \/ result.run \in stray
                       \/ r \in baseline
<1>1. ASSUME IInv, [Next]_vars
      PROVE  A
  <2> SUFFICES ASSUME NEW o \in Runs \union Inspectors, At(o, "quarantine"), ~At(o, "quarantine")',
                      result # None, result' = None
               PROVE  LET r == observer[o].art.run
                      IN \/ result.run = r /\ result.time >= Deadline(r)
                         \/ result.run \in stray
                         \/ r \in baseline
    OBVIOUS
  <2>1. ASSUME NEW q \in Runs \union Inspectors, NEW p, Quarantine(q, p)
        PROVE  LET r == observer[o].art.run
               IN \/ result.run = r /\ result.time >= Deadline(r)
                  \/ result.run \in stray
                  \/ r \in baseline
    <3>1. q = o
      BY <1>1, <2>1 DEF Quarantine, Mind, At, IInv, TypeOK
    <3>2. observer[o].art \in Artifacts
      BY <1>1, Names DEF At, IInv, TypeOK, ObserverOK, Looking, Observers
    <3>3. PICK r \in Runs : r = observer[o].art.run
      BY <3>2 DEF Artifacts
    <3>4. result.time >= Deadline(r) /\ OwnsClaim(r)
      BY <2>1, <3>1, <3>3 DEF Quarantine, Quarantined, Quarantinable, Keep
    <3> QED BY <1>1, <3>3, <3>4 DEF IInv, ResultOK, Owner, Mine
  <2>2. ASSUME NEW r \in Runs, ClaimResult(r) \/ InlineWipe(r)
        PROVE  FALSE
    BY <2>2 DEF ClaimResult, InlineWipe, At
  <2>3. ASSUME NEW r \in Runs, RunWrites(r) \/ InlineWrites(r)
        PROVE  FALSE
    BY <1>1, <2>3, WriteResultType, Names DEF RunWrites, InlineWrites, IInv
  <2> QED BY <1>1, <2>1, <2>2, <2>3
          DEF Next, Launching, LauncherDies, ClaimLaunch, Spawn, Identify, Record, RecordEnded,
              StartWatchdog, WatchdogError, NoteWatchdog, Failing, RecordFailed, InlineCheck,
              InlineRemove, InlineClaimLaunch, InlineClaimResult, InlineDone, files, Inspecting,
              Inspect, InspectDiscover, InspectDecide, InspectTerminate, InspectWrite,
              InspectRelease, Watching, DogWakes, DogLooks, DogDecides, DogTerminates, DogWrites,
              RunExits, Tick, vars
<1> QED BY <1>1, Invariance, PTL DEF Spec, ResultKept

=============================================================================
