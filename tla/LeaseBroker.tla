----------------------------- MODULE LeaseBroker -----------------------------
(***************************************************************************)
(* Leases, pins and the registry of broker-core/index.mjs, and the         *)
(* commands that change them.  Every command runs under the lease mutation *)
(* lock (module BrokerLock), so one command is in progress at a time; it   *)
(* first loads the state (loadBrokerState), which also drops the leases    *)
(* nobody can use any more, then works on its in-memory copy of the        *)
(* registry and writes it back.                                            *)
(*                                                                         *)
(* A lease file, the registry file and the device are three things that    *)
(* are not changed together: each persistent write and each simctl call is *)
(* a step of its own, between two of them the process may die, and the     *)
(* writes and calls the code guards with try/catch may fail.  Lease owners *)
(* die and devices disappear at any time.                                  *)
(*                                                                         *)
(* Abstracted: timestamps become "how long ago was the last release"       *)
(* (rest); the choice among free aliases, the order in which a directory   *)
(* is listed and disk-size or age thresholds are nondeterministic; the     *)
(* registry's copies of pinId and powerState are rebuilt by every load and *)
(* never decide anything that pin and power do not.                        *)
(***************************************************************************)
EXTENDS Naturals, FiniteSets

CONSTANTS
  Aliases, Leases,
  Owners,         \* lifetimes of lease owner processes
  Projects,       \* pairs of a project and one of its purposes
  None,
  Class,          \* "erase": resetPolicy erase-on-acquire, "build", "manual"
  ReclaimClasses, \* classes whose slot reclaim is enabled
  MaxUses,        \* maxLeasesSinceErase
  Kinds,          \* commands that are issued
  ResetLockBusy,  \* TRUE: the reset lock may time out
  MaxCrashes      \* bound: how often a command's process dies

ASSUME BrokerAssumption ==
  /\ None \notin Aliases \cup Leases \cup Owners \cup Projects
  /\ Class \in [Aliases -> {"erase", "build", "manual"}]
  /\ ReclaimClasses \subseteq {"build", "manual"}
  /\ MaxUses \in Nat \ {0}
  /\ ResetLockBusy \in BOOLEAN
  /\ MaxCrashes \in Nat

VARIABLES
  file,     \* leases/<id>.json: the lease record, or None
  reg,      \* registry.json: one entry per alias
  pin,      \* pins/: the project an alias is pinned for
  booted,   \* aliases whose device is booted
  clean,    \* aliases whose device was erased and not handed out since
  avail,    \* aliases whose device exists and is available
  alive,    \* owner processes that are alive
  cmd,      \* the command in progress
  pc,       \* its control point
  mem,      \* its in-memory registry
  todo,     \* leases its load has still to examine, aliases still to visit
  victim,   \* the lease whose file it is about to remove
  undo,     \* the registry it restores when that removal fails
  handed,   \* leases whose acquire has returned
  used,     \* handed-out leases that ended since the last erase
  ended,    \* how long ago the last of them ended
  crashes   \* number of crashes so far

disk    == <<file, reg, pin>>
device  == <<booted, clean, avail>>
history == <<handed, used, ended, crashes>>
local   == <<cmd, pc, mem, todo, victim, undo>>
vars    == <<disk, device, alive, local, history>>

Records == [alias : Aliases, project : Projects, owner : Owners, meta : BOOLEAN]
Rest    == {"never", "fresh", "over"}
Drift   == {"none", "simulator-missing", "repair-interrupted", "repair-failed",
            "slot-reclaim-failed", "idle-shutdown-failed",
            "boot-on-acquire-failed", "reset-on-acquire-failed"}
Entry   == [active : Leases \cup {None}, health : {"healthy", "repair-needed", "repairing"},
            drift : Drift, uses : 0..MaxUses, rest : Rest]
Registry == [Aliases -> Entry]

ASSUME RecordAssumption == None \notin Records

Lifecycle == {"boot", "shutdown", "erase", "repair"}
NoCmd == [kind |-> "none", lease |-> None, alias |-> None, project |-> None, owner |-> None]
Blank == [a \in Aliases |-> [active |-> None, health |-> "healthy", drift |-> "none",
                             uses |-> 0, rest |-> "never"]]

Files == {l \in Leases : file[l] # None}
LeasesOn(a) == {l \in Files : file[l].alias = a}
Least(m, n) == IF m < n THEN m ELSE n

Init ==
  /\ file = [l \in Leases |-> None] /\ reg = Blank /\ pin = [a \in Aliases |-> None]
  /\ booted = {} /\ clean = Aliases /\ avail = Aliases /\ alive = Owners
  /\ cmd = NoCmd /\ pc = "free" /\ mem = Blank /\ todo = {} /\ victim = None /\ undo = Blank
  /\ handed = {} /\ used = [a \in Aliases |-> 0]
  /\ ended = [a \in Aliases |-> "never"] /\ crashes = 0

-----------------------------------------------------------------------------
(* What the steps are made of. *)

(* A fault of markAliasLeaseReleased, for the run that shows what BudgetKept
   catches: no count. *)
Released_NoCount(e) == [e EXCEPT !.active = None, !.rest = "fresh"]

(* markAliasLeaseReleased.  At the threshold the count has said all it can. *)
Released(e) ==
  [e EXCEPT !.active = None, !.uses = Least(@ + 1, MaxUses), !.rest = "fresh"]

Broken(e, why) == [e EXCEPT !.health = "repair-needed", !.drift = why]
Healthy(e) == [e EXCEPT !.health = "healthy", !.drift = "none"]

Change(m, a, e) == [m EXCEPT ![a] = e]

(* writeRegistry: the in-memory registry becomes the one on disk. *)
Persist(m) == mem' = m /\ reg' = m

RemoveFile(l) ==
  LET a == file[l].alias IN
  /\ file' = [file EXCEPT ![l] = None]
  /\ handed' = handed \ {l}
  /\ used' = IF l \in handed THEN [used EXCEPT ![a] = Least(@ + 1, MaxUses + MaxCrashes)] ELSE used
  /\ ended' = IF l \in handed THEN [ended EXCEPT ![a] = "fresh"] ELSE ended
  /\ UNCHANGED crashes

(* simctl shutdown and erase. *)
Erase(a) ==
  /\ a \in avail
  /\ booted' = booted \ {a} /\ clean' = clean \cup {a} /\ UNCHANGED avail
  /\ used' = [used EXCEPT ![a] = 0] /\ UNCHANGED <<handed, ended, crashes>>

ForgetCommand ==
  cmd' = NoCmd /\ pc' = "free" /\ mem' = Blank /\ todo' = {} /\ victim' = None /\ undo' = Blank

(* A command that ends without another write. *)
Done == ForgetCommand /\ UNCHANGED <<disk, device, history>>

(* A command that ends by writing the registry. *)
DoneWriting(m) == ForgetCommand /\ reg' = m /\ UNCHANGED <<file, pin, device, history>>

Goto(l) == pc' = l /\ UNCHANGED <<cmd, victim, undo>>

-----------------------------------------------------------------------------
(* A command takes the lock.  skip: the leases its load leaves alone. *)

Start(c, skip) ==
  /\ pc = "free" /\ c.kind \in Kinds
  /\ cmd' = c /\ pc' = "load" /\ mem' = reg /\ todo' = Files \ skip
  /\ UNCHANGED <<disk, device, alive, victim, undo, history>>

(* The id is a new UUID: no file and no registry entry has it. *)
StartAcquire(l, p, o) ==
  /\ file[l] = None /\ \A a \in Aliases : reg[a].active # l
  /\ o \in alive
  /\ Start([NoCmd EXCEPT !.kind = "acquire", !.lease = l, !.project = p, !.owner = o], {})

(* loadLeaseByIdOrFile: the lease exists.  register may name a new owner. *)
StartLease(kind, l, o) ==
  /\ kind \in {"release", "contain", "register"}
  /\ file[l] # None
  /\ kind = "register" \/ o = None
  /\ Start([NoCmd EXCEPT !.kind = kind, !.lease = l, !.alias = file[l].alias, !.owner = o], {l})

(* l: the lease the requester holds or, for a repair, the one a human confirms
   for a forced override (expectedLeaseId). *)
StartLifecycle(kind, a, l) ==
  /\ kind \in Lifecycle
  /\ Start([NoCmd EXCEPT !.kind = kind, !.alias = a, !.lease = l], {})

StartPin(a, p) == Start([NoCmd EXCEPT !.kind = "pin", !.alias = a, !.project = p], {})
StartUnpin(a)  == Start([NoCmd EXCEPT !.kind = "unpin", !.alias = a], {})

(* brokerd's timer: reconcileIdleBroker.  refresh: host status, doctor, lease
   explain and idle status only load the state. *)
StartPlain(kind) == kind \in {"idle", "refresh"} /\ Start([NoCmd EXCEPT !.kind = kind], {})

-----------------------------------------------------------------------------
(* loadBrokerState, one lease file after the other, then the registry. *)

(* Fault: every lease on an alias that needs a repair counts as a leftover. *)
Leftover_AnyRepair(e, l) == e.health = "repair-needed"

(* isLeftoverAcquireRollbackLease, e: the registry's entry for the alias. *)
Leftover(e, l) ==
  /\ e.health = "repair-needed"
  /\ e.drift \in {"boot-on-acquire-failed", "reset-on-acquire-failed"}
  /\ e.active # l

(* Fault: the recorded pid belongs to some process, not to the owner. *)
OwnerLive_PidReused(l) == file[l].owner \in Owners

OwnerLive(l) == file[l].owner \in alive

Examined(l) == pc = "load" /\ l \in todo /\ todo' = todo \ {l} /\ UNCHANGED alive

LoadLeftover(l) ==
  /\ Examined(l) /\ Leftover(mem[file[l].alias], l)
  /\ RemoveFile(l)
  /\ Goto("load") /\ UNCHANGED <<reg, pin, device, mem>>

(* The owner is alive, or it is dead and its processes cannot all be ended
   (containment-incomplete). *)
LoadKeep(l) ==
  /\ Examined(l) /\ ~Leftover(mem[file[l].alias], l)
  /\ OwnerLive(l) \/ file[l].meta
  /\ Goto("load") /\ UNCHANGED <<disk, device, mem, history>>

(* No process was registered: the file goes now, the registry when the load
   ends. *)
LoadStale(l) ==
  /\ Examined(l) /\ ~Leftover(mem[file[l].alias], l) /\ ~OwnerLive(l) /\ ~file[l].meta
  /\ mem' = Change(mem, file[l].alias, Released(mem[file[l].alias]))
  /\ RemoveFile(l)
  /\ Goto("load") /\ UNCHANGED <<reg, pin, device>>

(* removeLeaseAfterContainment: the registry first, then the file. *)
LoadContain(l) ==
  /\ Examined(l) /\ ~Leftover(mem[file[l].alias], l) /\ ~OwnerLive(l) /\ file[l].meta
  /\ Persist(Change(mem, file[l].alias, Released(mem[file[l].alias])))
  /\ victim' = l /\ pc' = "loadUnlink"
  /\ UNCHANGED <<file, pin, device, cmd, undo, history>>

LoadUnlink ==
  /\ pc = "loadUnlink"
  /\ RemoveFile(victim)
  /\ pc' = "load" /\ victim' = None
  /\ UNCHANGED <<reg, pin, device, alive, cmd, mem, todo, undo>>

(* Fault: an available device makes its alias healthy. *)
Synced_Forgets(a, e) == IF a \in avail THEN Healthy(e) ELSE Broken(e, "simulator-missing")

(* syncRegistryWithSimctl: a failed reclaim stays on record whatever simctl
   says; a repair that was interrupted has to be done again. *)
Synced(a, e) ==
  IF a \notin avail
    THEN Broken(e, IF e.drift = "slot-reclaim-failed" THEN e.drift ELSE "simulator-missing")
  ELSE IF e.drift = "slot-reclaim-failed" THEN Broken(e, e.drift)
  ELSE IF e.health = "repairing"
    THEN Broken(e, IF e.drift = "none" THEN "repair-interrupted" ELSE e.drift)
  ELSE IF e.health = "healthy" THEN Healthy(e) ELSE e

(* Fault: the old registry is trusted. *)
Rebuilt_Trusts(a) == mem[a]

(* activeLeaseId comes from the lease files, never from the old registry. *)
Rebuilt(a) ==
  [mem[a] EXCEPT !.active = IF LeasesOn(a) = {} THEN None ELSE CHOOSE l \in LeasesOn(a) : TRUE]

LoadSync ==
  /\ pc = "load" /\ todo = {}
  /\ Persist([a \in Aliases |-> Synced(a, Rebuilt(a))])
  /\ todo' = IF cmd.kind = "idle" THEN Aliases ELSE {}
  /\ Goto(IF cmd.kind = "idle" THEN "reclaim" ELSE "work")
  /\ UNCHANGED <<file, pin, device, alive, history>>

Working(kind) == pc = "work" /\ cmd.kind = kind /\ UNCHANGED alive

Refresh == Working("refresh") /\ Done

-----------------------------------------------------------------------------
(* performSlotReclaim, for one alias of an acquire or a release, or for all
   aliases of an idle reconcile. *)

(* Fault: a pin does not count as held. *)
Reclaimable_Pinned(a) ==
  /\ LeasesOn(a) = {} /\ mem[a].active = None
  /\ mem[a].health = "healthy" /\ Class[a] \in ReclaimClasses

(* Not held and not waiting for a repair. *)
Reclaimable(a) ==
  /\ LeasesOn(a) = {} /\ mem[a].active = None /\ pin[a] = None
  /\ mem[a].health = "healthy"
  /\ Class[a] \in ReclaimClasses

Due(a) == Reclaimable(a) /\ mem[a].uses >= MaxUses

Visit(a) == pc = "reclaim" /\ a \in todo /\ todo' = todo \ {a} /\ UNCHANGED alive

(* Nothing to do, or the reset lock was busy. *)
ReclaimSkip(a) ==
  /\ Visit(a)
  /\ ~Due(a) \/ ResetLockBusy
  /\ Goto("reclaim") /\ UNCHANGED <<disk, device, mem, history>>

(* By lease count; or, at any count, by disk size or age. *)
ReclaimErase(a) ==
  /\ Visit(a) /\ Reclaimable(a)
  /\ mem' = Change(mem, a, [Healthy(mem[a]) EXCEPT !.uses = 0])
  /\ Erase(a)
  /\ Goto("reclaim") /\ UNCHANGED disk

(* simctl failed: the latch that only a repair opens. *)
ReclaimFails(a) ==
  /\ Visit(a) /\ Reclaimable(a)
  /\ mem' = Change(mem, a, Broken(mem[a], "slot-reclaim-failed"))
  /\ \E off \in SUBSET {a} : booted' = booted \ off
  /\ Goto("reclaim") /\ UNCHANGED <<disk, clean, avail, history>>

(* idleBaseCandidates: booted, in order, and held by none of these leases. *)
IdleBase(a, e, leases) ==
  /\ a \in booted /\ e.health = "healthy"
  /\ \A l \in leases : file[l].alias # a
  /\ pin[a] = None /\ Class[a] # "manual"

(* Fault: any release is long enough ago. *)
IdleCandidate_NoGrace(a) == IdleBase(a, mem[a], Files) /\ mem[a].rest # "never"

(* A device that nobody holds, whose last lease is long enough ago. *)
IdleCandidate(a) == IdleBase(a, mem[a], Files) /\ mem[a].rest = "over"

(* writeRegistry at the end; then on with the command.  An acquire whose alias
   could not be reclaimed fails, an idle reconcile shuts idle devices down. *)
ReclaimEnd ==
  /\ pc = "reclaim" /\ todo = {} /\ UNCHANGED alive
  /\ \/ /\ cmd.kind = "acquire" /\ mem[cmd.alias].drift = "slot-reclaim-failed"
        /\ DoneWriting(mem)
     \/ /\ cmd.kind = "acquire" /\ mem[cmd.alias].drift # "slot-reclaim-failed"
        /\ Persist(mem) /\ todo' = {}
        /\ Goto("record") /\ UNCHANGED <<file, pin, device, history>>
     \/ /\ cmd.kind \in {"release", "idle"}      \* idle: no policy is configured
        /\ DoneWriting(mem)
     \/ /\ cmd.kind = "idle"
        /\ Persist(mem) /\ todo' = {a \in Aliases : IdleCandidate(a)}
        /\ Goto("idle") /\ UNCHANGED <<file, pin, device, history>>

-----------------------------------------------------------------------------
(* performIdleShutdowns *)

IdleStep(a) == pc = "idle" /\ a \in todo /\ todo' = todo \ {a} /\ UNCHANGED alive

IdleShutdown(a) ==
  /\ IdleStep(a)
  /\ booted' = booted \ {a}
  /\ Goto("idle") /\ UNCHANGED <<disk, clean, avail, mem, history>>

IdleShutdownFails(a) ==
  /\ IdleStep(a)
  /\ Persist(Change(mem, a, Broken(mem[a], "idle-shutdown-failed")))
  /\ Goto("idle") /\ UNCHANGED <<file, pin, device, history>>

IdleEnd == pc = "idle" /\ todo = {} /\ DoneWriting(mem) /\ UNCHANGED alive

(* Fault: only leases whose owner is alive count. *)
Respected_LiveOnly == {l \in Files : file[l].owner \in alive}

(* readBrokerStateSnapshot: the leases that a load would keep, or would have to
   contain first. *)
Respected ==
  {l \in Files : /\ ~Leftover(reg[file[l].alias], l)
                 /\ OwnerLive(l) \/ file[l].meta}

(* cleanupIdleBroker with a current confirmation: no load, so lease files stay
   and the registry's leases are not rebuilt; no grace period. *)
StartCleanup ==
  /\ pc = "free" /\ "cleanup" \in Kinds
  /\ cmd' = [NoCmd EXCEPT !.kind = "cleanup"] /\ pc' = "idle"
  /\ mem' = [a \in Aliases |-> Synced(a, reg[a])]
  /\ todo' = {a \in Aliases : IdleBase(a, Synced(a, reg[a]), Respected)}
  /\ UNCHANGED <<disk, device, alive, victim, undo, history>>

-----------------------------------------------------------------------------
(* acquireLeaseBroker *)

(* Faults: a reason against the alias is forgotten. *)
Candidate_Leased(a) == mem[a].health = "healthy" /\ pin[a] \in {None, cmd.project}
Candidate_Broken(a) == LeasesOn(a) = {} /\ pin[a] \in {None, cmd.project}

(* buildCandidateAnalysis found no reason against the alias.  Capability,
   requirements and an alias named by the client narrow the choice further. *)
Candidate(a) ==
  /\ LeasesOn(a) = {} /\ mem[a].health = "healthy"
  /\ pin[a] \in {None, cmd.project}

AcquireSelect ==
  /\ Working("acquire")
  /\ \E a \in Aliases : /\ Candidate(a)
                        /\ cmd' = [cmd EXCEPT !.alias = a]
                        /\ todo' = {a}
  /\ pc' = "reclaim"
  /\ UNCHANGED <<disk, device, mem, victim, undo, history>>

(* no-matching-alias, or the artifact path is taken: nothing was changed. *)
AcquireRejected == Working("acquire") /\ Done

AcquireRecord ==
  /\ pc = "record" /\ UNCHANGED alive
  /\ \E m \in BOOLEAN :
       file' = [file EXCEPT ![cmd.lease] = [alias |-> cmd.alias, project |-> cmd.project,
                                            owner |-> cmd.owner, meta |-> m]]
  /\ Goto("activate") /\ UNCHANGED <<reg, pin, device, mem, todo, history>>

AcquireActivate ==
  /\ pc = "activate" /\ UNCHANGED alive
  /\ Persist(Change(mem, cmd.alias, [mem[cmd.alias] EXCEPT !.active = cmd.lease]))
  /\ Goto("reset") /\ UNCHANGED <<file, pin, device, todo, history>>

(* writeRegistry failed: the lease files are removed again. *)
AcquireActivateFails ==
  /\ pc = "activate" /\ UNCHANGED alive
  /\ RemoveFile(cmd.lease)
  /\ ForgetCommand /\ UNCHANGED <<reg, pin, device>>

(* maybeResetLeaseOnAcquire: erase, then writeRegistry. *)
AcquireNoReset ==
  /\ pc = "reset" /\ UNCHANGED alive /\ Class[cmd.alias] # "erase"
  /\ Goto("boot") /\ UNCHANGED <<disk, device, mem, todo, history>>

AcquireReset ==
  /\ pc = "reset" /\ UNCHANGED alive /\ Class[cmd.alias] = "erase"
  /\ Erase(cmd.alias)
  /\ mem' = Change(mem, cmd.alias, [Healthy(mem[cmd.alias]) EXCEPT !.uses = 0])
  /\ Goto("resetDone") /\ UNCHANGED <<disk, todo>>

AcquireResetDone ==
  /\ pc = "resetDone" /\ Persist(mem)
  /\ Goto("boot") /\ UNCHANGED <<file, pin, device, alive, todo, history>>

(* maybeBootLeaseOnAcquire: waitReady on a booted device, else boot and
   writeRegistry; then the lease is the client's. *)
AcquireBoot ==
  /\ pc = "boot" /\ UNCHANGED alive /\ cmd.alias \in avail
  /\ booted' = booted \cup {cmd.alias} /\ UNCHANGED <<clean, avail>>
  /\ IF cmd.alias \in booted
       THEN Goto("return") /\ UNCHANGED mem
       ELSE Goto("bootDone") /\ mem' = Change(mem, cmd.alias, Healthy(mem[cmd.alias]))
  /\ UNCHANGED <<disk, todo, history>>

AcquireBootDone ==
  /\ pc = "bootDone" /\ Persist(mem)
  /\ Goto("return") /\ UNCHANGED <<file, pin, device, alive, todo, history>>

AcquireReturn ==
  /\ pc = "return"
  /\ handed' = handed \cup {cmd.lease} /\ clean' = clean \ {cmd.alias}
  /\ ForgetCommand
  /\ UNCHANGED <<disk, booted, avail, alive, used, ended, crashes>>

(* A reset or boot that fails, or the registry write after it. *)
AcquireFails ==
  /\ pc \in {"reset", "resetDone", "boot", "bootDone"} /\ UNCHANGED alive
  /\ pc = "reset" => Class[cmd.alias] = "erase"
  /\ LET why == IF pc \in {"reset", "resetDone"} THEN "reset-on-acquire-failed"
                                                 ELSE "boot-on-acquire-failed"
     IN mem' = Change(mem, cmd.alias, [Broken(mem[cmd.alias], why) EXCEPT !.active = None])
  /\ \E off \in SUBSET {cmd.alias} : booted' = booted \ off
  /\ Goto("rollback") /\ UNCHANGED <<disk, clean, avail, todo, history>>

(* rollbackAcquireLease: the registry, then the files. *)
AcquireRollback ==
  /\ pc = "rollback" /\ Persist(mem)
  /\ Goto("rollbackUnlink") /\ UNCHANGED <<file, pin, device, alive, todo, history>>

AcquireRolledBack ==
  /\ pc = "rollbackUnlink" /\ UNCHANGED alive
  /\ RemoveFile(cmd.lease)
  /\ ForgetCommand /\ UNCHANGED <<reg, pin, device>>

(* rollbackAcquireLeaseFailureSafe: a write of the rollback itself fails; the
   command reports rollbackFailed and leaves the rest as it is. *)
AcquireRollbackFails ==
  pc \in {"rollback", "rollbackUnlink"} /\ Done /\ UNCHANGED alive

-----------------------------------------------------------------------------
(* releaseLeaseBroker, containLeaseBroker, registerLeaseProcessBroker *)

ReleaseLease ==
  /\ Working("release")
  /\ undo' = mem
  /\ Persist(Change(mem, cmd.alias, Released(mem[cmd.alias])))
  /\ pc' = "unlink"
  /\ UNCHANGED <<file, pin, device, cmd, todo, victim, history>>

ReleaseUnlink ==
  /\ pc = "unlink" /\ UNCHANGED alive
  /\ RemoveFile(cmd.lease)
  /\ todo' = {cmd.alias} /\ pc' = "reclaim" /\ undo' = Blank
  /\ UNCHANGED <<reg, pin, device, cmd, mem, victim>>

(* restoreLeaseRecordFiles and the registry as the load left it. *)
ReleaseRestore == pc = "unlink" /\ DoneWriting(undo) /\ UNCHANGED alive

Contain ==
  /\ Working("contain")
  /\ Persist(Change(mem, cmd.alias, Released(mem[cmd.alias])))
  /\ Goto("containUnlink") /\ UNCHANGED <<file, pin, device, todo, history>>

ContainUnlink ==
  /\ pc = "containUnlink" /\ UNCHANGED alive
  /\ RemoveFile(cmd.lease)
  /\ ForgetCommand /\ UNCHANGED <<reg, pin, device>>

(* Nothing to contain below the memory ceiling, processes that would not end, a
   pid that is not valid, a release whose first write failed and was undone. *)
LeaseCommandEnds ==
  (Working("release") \/ Working("contain") \/ Working("register")) /\ Done

Register ==
  /\ Working("register")
  /\ file' = [file EXCEPT ![cmd.lease].meta = TRUE,
                          ![cmd.lease].owner = IF cmd.owner = None THEN @ ELSE cmd.owner]
  /\ ForgetCommand /\ UNCHANGED <<reg, pin, device, history>>

-----------------------------------------------------------------------------
(* createPinBroker and clearPinBroker *)

(* Fault: the alias is not checked for another project's lease. *)
Pin_Leased ==
  /\ Working("pin")
  /\ mem[cmd.alias].health = "healthy"
  /\ pin[cmd.alias] = None
  /\ pin' = [pin EXCEPT ![cmd.alias] = cmd.project]
  /\ ForgetCommand /\ UNCHANGED <<file, reg, device, history>>

Pin ==
  /\ Working("pin")
  /\ mem[cmd.alias].health = "healthy"
  /\ pin[cmd.alias] = None
  /\ \A l \in LeasesOn(cmd.alias) : file[l].project = cmd.project
  /\ pin' = [pin EXCEPT ![cmd.alias] = cmd.project]
  /\ ForgetCommand /\ UNCHANGED <<file, reg, device, history>>

Unpin ==
  /\ Working("unpin")
  /\ pin' = [pin EXCEPT ![cmd.alias] = None]
  /\ ForgetCommand /\ UNCHANGED <<file, reg, device, history>>

(* The checks of createPinBroker fail, or a write does and is undone. *)
PinRejected == (Working("pin") \/ Working("unpin")) /\ Done

-----------------------------------------------------------------------------
(* runLifecycleActionBroker *)

(* The requester refers to no lease and nobody holds the alias, or it refers
   to the lease that does. *)
Granted == LeasesOn(cmd.alias) = {cmd.lease} \ {None}

(* A rejected command, and an adapter call that fails before it changes the
   device: nothing is written. *)
LifecycleRejected == pc = "work" /\ cmd.kind \in Lifecycle /\ Done /\ UNCHANGED alive

BootOrShutdown ==
  /\ pc = "work" /\ cmd.kind \in {"boot", "shutdown"} /\ UNCHANGED alive
  /\ Granted /\ mem[cmd.alias].health = "healthy" /\ cmd.alias \in avail
  /\ booted' = IF cmd.kind = "boot" THEN booted \cup {cmd.alias} ELSE booted \ {cmd.alias}
  /\ mem' = Change(mem, cmd.alias, Healthy(mem[cmd.alias]))
  /\ Goto("write") /\ UNCHANGED <<disk, clean, avail, todo, history>>

EraseDevice ==
  /\ Working("erase") /\ Granted
  /\ Erase(cmd.alias)
  /\ mem' = Change(mem, cmd.alias, [mem[cmd.alias] EXCEPT !.uses = 0])
  /\ Goto("write") /\ UNCHANGED <<disk, todo>>

(* simctl erase fails after simctl shutdown. *)
EraseFails ==
  /\ Working("erase") /\ Granted
  /\ booted' = booted \ {cmd.alias}
  /\ ForgetCommand /\ UNCHANGED <<disk, clean, avail, history>>

LifecycleWrite == pc = "write" /\ DoneWriting(mem) /\ UNCHANGED alive

(* validateForceOverride and revokeLeaseForOverride: a human repairs an alias
   that is leased and names the lease that is active. *)
Revoke ==
  /\ Working("repair") /\ LeasesOn(cmd.alias) = {cmd.lease}
  /\ Persist(Change(mem, cmd.alias, Released(mem[cmd.alias])))
  /\ Goto("revokeUnlink") /\ UNCHANGED <<file, pin, device, todo, history>>

RevokeUnlink ==
  /\ pc = "revokeUnlink" /\ UNCHANGED alive
  /\ RemoveFile(cmd.lease)
  /\ Goto("work") /\ UNCHANGED <<reg, pin, device, mem, todo>>

RepairStart ==
  /\ Working("repair") /\ LeasesOn(cmd.alias) \subseteq {cmd.lease}
  /\ Persist(Change(mem, cmd.alias, [mem[cmd.alias] EXCEPT !.health = "repairing"]))
  /\ Goto("repair") /\ UNCHANGED <<file, pin, device, todo, history>>

(* The device is kept, or another one takes its place, which is shut down. *)
RepairDevice ==
  /\ pc = "repair" /\ UNCHANGED alive
  /\ \/ cmd.alias \in avail /\ UNCHANGED <<device, history>>
     \/ /\ avail' = avail \cup {cmd.alias} /\ booted' = booted \ {cmd.alias}
        /\ clean' = clean \cup {cmd.alias}
        /\ used' = [used EXCEPT ![cmd.alias] = 0] /\ UNCHANGED <<handed, ended, crashes>>
  /\ mem' = Change(mem, cmd.alias, Healthy(mem[cmd.alias]))
  /\ Goto("write") /\ UNCHANGED <<disk, todo>>

RepairFails ==
  /\ pc = "repair"
  /\ DoneWriting(Change(mem, cmd.alias, Broken(mem[cmd.alias], "repair-failed")))
  /\ UNCHANGED alive

-----------------------------------------------------------------------------
(* The environment. *)

OwnerDies(o) ==
  /\ o \in alive
  /\ alive' = alive \ {o}
  /\ UNCHANGED <<disk, device, local, history>>

(* A new process: nothing refers to its lifetime. *)
OwnerStarts(o) ==
  /\ o \notin alive /\ cmd.owner # o /\ \A l \in Files : file[l].owner # o
  /\ alive' = alive \cup {o}
  /\ UNCHANGED <<disk, device, local, history>>

(* Somebody deletes the simulator, or its runtime. *)
DeviceLost(a) ==
  /\ a \in avail
  /\ avail' = avail \ {a} /\ booted' = booted \ {a}
  /\ UNCHANGED <<disk, clean, alive, local, history>>

(* The grace period of a release is over; commands are much shorter. *)
GraceEnds(a) ==
  /\ pc = "free"
  /\ reg[a].rest = "fresh" \/ ended[a] = "fresh"
  /\ reg' = [reg EXCEPT ![a].rest = IF @ = "fresh" THEN "over" ELSE @]
  /\ ended' = [ended EXCEPT ![a] = IF @ = "fresh" THEN "over" ELSE @]
  /\ UNCHANGED <<file, pin, device, alive, local, handed, used, crashes>>

(* The process of the command dies, or a write that nothing catches fails. *)
Crash ==
  /\ pc # "free" /\ crashes < MaxCrashes
  /\ crashes' = crashes + 1
  /\ ForgetCommand
  /\ UNCHANGED <<disk, device, alive, handed, used, ended>>

-----------------------------------------------------------------------------
Request ==
  \/ \E l \in Leases, p \in Projects, o \in Owners : StartAcquire(l, p, o)
  \/ \E k \in Kinds, l \in Leases, o \in alive \cup {None} : StartLease(k, l, o)
  \/ \E k \in Kinds, a \in Aliases, l \in Files \cup {None} : StartLifecycle(k, a, l)
  \/ \E a \in Aliases, p \in Projects : StartPin(a, p)
  \/ \E a \in Aliases : StartUnpin(a)
  \/ (\E k \in Kinds : StartPlain(k)) \/ StartCleanup

Load ==
  \/ \E l \in Leases : LoadLeftover(l) \/ LoadKeep(l) \/ LoadStale(l) \/ LoadContain(l)
  \/ LoadUnlink \/ LoadSync \/ Refresh

Idle ==
  \/ \E a \in Aliases : \/ ReclaimSkip(a) \/ ReclaimErase(a) \/ ReclaimFails(a)
                        \/ IdleShutdown(a) \/ IdleShutdownFails(a)
  \/ ReclaimEnd \/ IdleEnd

Acquire ==
  \/ AcquireSelect \/ AcquireRejected \/ AcquireRecord
  \/ AcquireActivate \/ AcquireActivateFails
  \/ AcquireNoReset \/ AcquireReset \/ AcquireResetDone
  \/ AcquireBoot \/ AcquireBootDone \/ AcquireReturn
  \/ AcquireFails \/ AcquireRollback \/ AcquireRolledBack \/ AcquireRollbackFails

EndLease ==
  \/ ReleaseLease \/ ReleaseUnlink \/ ReleaseRestore
  \/ Contain \/ ContainUnlink \/ Register \/ LeaseCommandEnds

PinCommand == Pin \/ Unpin \/ PinRejected

LifecycleStep ==
  \/ LifecycleRejected \/ BootOrShutdown \/ EraseDevice \/ EraseFails \/ LifecycleWrite
  \/ Revoke \/ RevokeUnlink \/ RepairStart \/ RepairDevice \/ RepairFails

Command == Load \/ Idle \/ Acquire \/ EndLease \/ PinCommand \/ LifecycleStep

Environment ==
  \/ \E o \in Owners : OwnerDies(o) \/ OwnerStarts(o)
  \/ \E a \in Aliases : DeviceLost(a) \/ GraceEnds(a)
  \/ Crash

Next == Request \/ Command \/ Environment

Spec == Init /\ [][Next]_vars

-----------------------------------------------------------------------------
(* Properties. *)

Control == {"free", "load", "loadUnlink", "work", "reclaim", "idle", "record",
            "activate", "reset", "resetDone", "boot", "bootDone", "return",
            "rollback", "rollbackUnlink", "unlink", "containUnlink",
            "revokeUnlink", "repair", "write"}

(* Types of the files, the devices, the command and the history. *)
TypeOK ==
  /\ file \in [Leases -> Records \cup {None}] /\ reg \in Registry
  /\ pin \in [Aliases -> Projects \cup {None}]
  /\ booted \subseteq Aliases /\ clean \subseteq Aliases /\ avail \subseteq Aliases
  /\ alive \subseteq Owners
  /\ cmd \in [kind : Kinds \cup {"none"}, lease : Leases \cup {None},
              alias : Aliases \cup {None}, project : Projects \cup {None},
              owner : Owners \cup {None}]
  /\ pc \in Control /\ mem \in Registry /\ undo \in Registry
  /\ todo \subseteq Leases \cup Aliases /\ victim \in Leases \cup {None}
  /\ handed \subseteq Leases /\ used \in [Aliases -> 0..(MaxUses + MaxCrashes)]
  /\ ended \in [Aliases -> Rest] /\ crashes \in 0..MaxCrashes

(* No two leases on one simulator: not while a rollback, a crash or a stale
   owner leaves a lease file behind, and not while the registry is wrong. *)
OneLeasePerAlias == \A l, m \in Files : file[l].alias = file[m].alias => l = m

(* A lease on a pinned alias belongs to the pin's project, in whichever order
   leases and pins come and go. *)
PinRespected ==
  \A l \in Files : pin[file[l].alias] \in {None, file[l].project}

(* The registry names exactly the lease that is on disk: after every load,
   whatever a crash left behind, and after every command that ran to its end,
   also one whose write failed.  A failed acquire may leave its lease file, and
   the registry then says so, unless a cleanup finds the device missing too. *)
Settled ==
  \/ pc = "free" /\ crashes = 0
  \/ pc \in {"work", "reclaim", "reset", "resetDone", "boot", "bootDone",
             "return", "rollback", "repair", "write"}
  \/ pc = "idle" /\ cmd.kind = "idle"

RegistryMatchesFiles ==
  Settled => \A a \in Aliases :
    \/ LeasesOn(a) = {reg[a].active} \ {None}
    \/ /\ reg[a].active = None /\ reg[a].health = "repair-needed"
       /\ reg[a].drift \in {"boot-on-acquire-failed", "reset-on-acquire-failed"}
                             \cup (IF "cleanup" \in Kinds THEN {"simulator-missing"} ELSE {})

(* A client that got a lease and lives keeps it until a command about that very
   lease ends it: no load, no reclaim and no other command does. *)
LiveLeaseKept ==
  [][\A l \in Files \ Files' :
       l \in handed /\ file[l].owner \in alive => l = cmd.lease]_vars

(* The broker shuts down or wipes a device under no lease that is in use but the
   command's own, and timer and cleanup leave pinned aliases alone.  A lease
   whose owner is dead is in use while its processes are registered. *)
DeviceProtected ==
  [][\A a \in avail' : a \in (booted \ booted') \cup (clean' \ clean) =>
       /\ \A l \in LeasesOn(a) \ {cmd.lease} : ~file[l].meta /\ file[l].owner \notin alive
       /\ cmd.kind \in {"idle", "cleanup"} => pin[a] = None]_vars

(* Out of repair-needed leads nothing but a repair: no load, boot, erase or
   reset makes an alias available again that a failure took out of use. *)
OnlyRepairHeals ==
  [][\A a \in Aliases : reg[a].health # "healthy" /\ reg'[a].health = "healthy" =>
       cmd.kind = "repair" /\ cmd.alias = a]_vars

(* No lease is handed out on an alias that is waiting for its repair. *)
HandoutHealthy ==
  [][\A l \in handed' \ handed : reg[file[l].alias].health = "healthy"]_vars

(* An alias whose class is reclaimed after MaxUses leases is erased in time: the
   uses a lease finds are fewer, but for one that each crash may forget. *)
BudgetKept ==
  [][\A l \in handed' \ handed :
       LET a == file[l].alias IN
       Class[a] \in ReclaimClasses /\ pin[a] = None => used[a] < MaxUses + crashes]_vars

(* The timer's shutdown waits until the grace period after the last lease is
   over. *)
IdleGrace ==
  [][\A a \in avail' : pc = "idle" /\ cmd.kind = "idle" /\ a \in booted \ booted' => ended[a] # "fresh"]_vars

(* The lease of a dead owner without registered processes goes away: some
   command's load finds it, at the latest that of brokerd's timer. *)
DeadLeaseReclaimed ==
  \A l \in Leases :
    file[l] # None /\ file[l].owner \notin alive /\ ~file[l].meta ~> file[l] = None

(* A command runs on until it ends, and the timer takes the lock when it is
   free.  No client, owner, device failure or crash is fair. *)
Fairness == WF_vars(Command) /\ WF_vars(StartPlain("idle"))

FairSpec == Spec /\ Fairness
=============================================================================
