# simulator-broker in TLA+

The broker hands out iOS simulators to processes on one Mac: it leases, pins,
boots, erases, repairs and retires them, and keeps its state in files that
several processes share. These modules model the broker, its service and the
parts of the agent harness that supervise runs, check them with TLC on small
instances, and prove with TLAPS, for every instance, all safety and action
properties that the runs check. Liveness is model-checked.

Paths below are relative to the repository's source tree; `index.mjs` is
`broker-core/index.mjs`.

## 1. The system

### Components

| Component | State it keeps | Operations | Module |
|---|---|---|---|
| Broker locks (`index.mjs` 4059-4465) | a lock directory with `owner.json`, `reclaiming.json` | acquire, release, reclaim of a dead owner's lock; three instances: lease mutation, capacity, reset | **BrokerLock** |
| Leases, pins, registry (`index.mjs`) | `leases/*.json`, `pins/*.json`, `registry.json` | acquire, release, contain, register-process, pin, unpin, boot, shutdown, erase, repair; `loadBrokerState` before each | **LeaseBroker** |
| Slot reclaim (`slot-reclaim.mjs`, `index.mjs` 2879-3048) | counters in the registry | erase a free alias after so many leases, or by size or age | in LeaseBroker |
| Idle shutdown (`index.mjs` 3136-3222, 5954-6181) | idle policy, release times | reconcile (every 30 s), cleanup | in LeaseBroker |
| Alias selection (`index.mjs` 3366-3452) | none | which free alias an acquire takes | eligibility in LeaseBroker, order not modelled |
| Capacity transactions (`index.mjs` 6972-7566) | a journal of transactions, host configuration | apply, roll back, recover | **HostDevices** |
| Repair and retirement (`index.mjs` 3791-3982, 8670-8959) | `host.json`, pending retirements | repair onto a new device, delete, retire, of an alias or a purpose | **HostDevices** |
| Init and setup (`index.mjs` 1600-2541, 5270-5364; `simbroker.mjs` 1180-1812; `setup-*.mjs`) | `host.json`, first registry, service, snapshot | preview, confirm, provision, roll back, start, verify | **HostSetup** |
| Process containment (`containment.mjs`) | process tables | find and end the processes of a lease | **Containment** |
| Broker service, its queue (`brokerd.mjs`) | socket, command queue, health | admit, queue, run, drain, stop; 30 s timer; snapshots | **ServiceQueue**, promise in **SerialWork** |
| Broker service, its life (`brokerd.mjs`, `simbroker.mjs` 430-700) | socket, metadata, startup lock | start, probe, take over, stop | **ServiceLifecycle** |
| Service client, dispatch | none | probe, send, give up, run in process | in ServiceQueue |
| Agent harness, detached run (`detached-run.ts`, `detached-watchdog.ts`, `agent_detached_status.cjs`) | status artifact, result file, claims | launch, supervise, conclude, quarantine | **DetachedRun** |
| Event log, simctl adapter, task sessions, macOS app, packaging | | | section 6 |

### How they interact

A command comes from the command line, directly or through the service, which runs
one worker after the other; the service's timer adds an idle reconcile every 30
seconds (*ServiceQueue*). At most one service listens on a state directory
(*ServiceLifecycle*). Several processes may still run commands at once, so every
command that changes state takes the *lease mutation lock*; capacity commands take
the *capacity lock* first; erasing a device also takes the *reset lock*
(*BrokerLock*). Under the lock a command calls `loadBrokerState`: it reads the
registry, drops leases whose acquire failed or whose owner died, asks simctl which
devices exist, writes the registry and goes on with that copy in memory
(*LeaseBroker*). Ending a lease with registered processes ends these first
(*Containment*). Capacity, repair, delete, init and setup make and delete the devices
themselves (*HostDevices*, *HostSetup*). The harness runs agents beside all this and
records what became of them (*DetachedRun*).

What a module needs of another one is an assumption there and a property here:
LeaseBroker, HostDevices and HostSetup run one command at a time
(`BrokerLock!MutualExclusion`, `BrokerLock!LockRecovered`); LeaseBroker's containment
succeeds or fails as a whole (`Containment!NothingLeft`); ServiceLifecycle's startup
lock is exclusive (the algorithm of BrokerLock) and its drain ends
(`ServiceQueue!StopCompletes`).

### What is hard

- The lock is made of files: every `mkdir`, `open`, `rename`, `unlink` can be
  interleaved with another process's, and the process can die after any of them.
- A lease is a file; that an alias is leased is also a field of the registry; the
  device is a third thing. They are written one after the other. A crash or a
  failed write between two of them leaves them apart, and the next load has to
  tell a live lease from the remains of a failed one.
- Owners die at any time and their pids come back; devices vanish.
- A command acts on a copy it loaded earlier, and slot reclaim changes registry
  and device between choosing an alias and recording the lease.
- Failures take an alias out of use; only a repair may bring it back, whatever
  loads, boots, cleanups and erases come in between.
- `simctl create` may make a device and report a failure, or the process may die
  before it has written the identifier down. Rollbacks and recoveries have to find
  such a device by name, and must not take the operator's for it.
- A plan is confirmed without a lock, and carried out under one.
- A client's deadline, the service's queue, the runtime on disk and a stop all
  decide about one command, at different moments.
- A run, its launcher, a watchdog and any number of status commands write one
  record about the run, each on what it saw some time ago.

`PROJECT.json` lists these hazards one by one, at their lines, with the properties
that are about them.

## 2. Modules

### BrokerLock

The protocol of `withLeaseMutationLock`, `withCapacityLock` and
`withResetLock`, which are three copies of one algorithm. The variables are the
files (`lockDir`, `owner`, `marker` with an identity each, so that a replaced
directory is a different one) and every process's control point and locals
(`seen`: the first snapshot; `now`: the owner read of the current one; `token`:
its marker). Each file-system call is an action:

| Actions | Code |
|---|---|
| `Mkdir`, `MkdirExists`, `WriteOwner`, `ReleaseCheck`, `Release` | the acquire loop and `removeLockIfOwned` |
| `ReadOwner`, `StatLock`, `Poll` | `readLockSnapshot` and the loop's decision |
| `MarkerOpen`, `MarkerOpenFails`, `MarkerWrite`, `MarkerBusy`, `MarkerClaim`, `MarkerRestore` | `acquireLockReclaimMarker` |
| `RereadOwner`, `Restat`, `RemoveStale`, `Unmark` | `reclaimStaleLock` |
| `Crash`, `Age`, `AgeMarker` | a process dies; time passes |

Time is two flags, "older than `timeoutMs`". Three constants choose the
environment: `MaxCrashes`; `Stalls`, whether a live process may pause for longer
than the timeout; `AtomicRemove`, whether a recursive removal is one step for
others (`FALSE` is what `fs.rmSync` does). A pid stands for one process lifetime,
as `lockOwnerProcessIsLive` compares start times. `MCBrokerLockClaim` starts from the
states that two crashes leave behind, and one of the contenders may die as well.

### LeaseBroker

All commands that change leases, pins and the registry, under the lock (so one
at a time). `file`, `reg`, `pin` are on disk; `booted`, `clean`, `avail` are the
devices; `cmd`, `pc`, `mem`, `todo`, `victim`, `undo` are the command in progress
with its in-memory registry; `handed`, `used`, `ended` record for the properties
what clients have seen. A step is at most one persistent write or one device
call, so `Crash` and the failing alternatives fall between any two.

| Actions | Code |
|---|---|
| `Start*` | the command takes the lock; reads that pick its lease |
| `LoadLeftover`, `LoadKeep`, `LoadStale`, `LoadContain`, `LoadUnlink`, `LoadSync` | `loadBrokerState`, `syncRegistryWithSimctl` |
| `ReclaimSkip`, `ReclaimErase`, `ReclaimFails`, `ReclaimEnd` | `performSlotReclaim` |
| `StartCleanup` | `cleanupIdleBroker`, which reads a snapshot instead of loading |
| `IdleShutdown`, `IdleShutdownFails`, `IdleEnd` | `performIdleShutdowns` |
| `AcquireSelect` ... `AcquireReturn` | `acquireLeaseBroker`, with reset and boot |
| `AcquireActivateFails`, `AcquireFails`, `AcquireRollback*`, `AcquireRolledBack` | its error paths |
| `ReleaseLease`, `ReleaseUnlink`, `ReleaseRestore` | `releaseLeaseBroker` and the restore of its files |
| `Contain*`, `Register` | `containLeaseBroker`, `registerLeaseProcessBroker` |
| `Pin`, `Unpin`, `PinRejected` | `createPinBroker`, `clearPinBroker` |
| `BootOrShutdown`, `EraseDevice`, `Revoke*`, `Repair*`, `LifecycleWrite` | `runLifecycleActionBroker`, human override included |
| `OwnerDies`, `OwnerStarts`, `DeviceLost`, `GraceEnds`, `Crash` | the environment |

Abstractions: release times are "never, within the grace period, over"; which
free alias an acquire prefers, the order of a directory listing, and the size
and age thresholds of slot reclaim are open choices; the registry's copies of
`pinId` and `powerState` are left out because every load rebuilds them from
`pin` and the devices. Lease counts stop at the threshold, where they have said
all they can. A `Projects` value stands for a project and one of its purposes:
pins and leases are compared by that pair. A cleanup's confirmation is current; a
stale one changes nothing.

### HostDevices

The devices the broker makes, and what remembers them. On disk: `host` (the device
each alias names) and `pending` (`pendingRetirements`), both in `host.json`, and
`txn`, the capacity journal. The devices: `alive`, `name`. The command: `pc`, `cur`,
`job` (its in-memory transaction, which the journal lags behind), `want`, `target`,
`made`, `old`, `todo`, `failed`. `maker`, `ender`, `before` and `blind` are history.

| Actions | Code |
|---|---|
| `StartApply`, `Recover*` | `reconcileCapacityBroker`, `recoverCapacityTransactions` |
| `PlanRefused`, `NothingMissing`, `Capture*`, `Create*`, `Note`, `Commit*`, `Committed`, `Finalize`, `RequireRecovery` | `applyCapacityPlan` |
| `Undo*`, `Undone` | `rollbackCapacityTransaction` |
| `StartRepair`, `Repair*`, `Repoint`, `Retire`, `Retired` | `repairHostAlias`, `ensureAliasSimulator`, `retirePendingHostSimulators` |
| `StartPurposeRepair`, `StartPurposeDelete` | the same for all aliases of a purpose, one after the other |
| `StartDelete`, `DeleteDevice`, `DeleteFails`, `Forget*` | `deleteAliasUnderHeldLocks`, `removeDeletedAliasRecords` |
| `Crash`, `OperatorMakes`, `OperatorDeletes` | the environment |

A device's name, type and runtime are one thing, the alias it was planned for: the
code compares exactly this triple. Whether a device is available decides what a repair
does with it and may change between two listings, so it is a choice; so is which
aliases a plan finds missing. Journal writes do not fail; a crash before one has the
same effect on disk.

### HostSetup

From an empty machine to a configured, served and shown host. On disk: `host`,
`pending`, whether a `registry` exists; the devices `alive`, `name`; `service` and
`shown` (the host the app snapshot was rendered from). Each setup has a stage (`at`),
the `plan` its user confirmed and the host its worker committed (`core`); the one that
holds the locks has the locals of `applySetupBroker` or `initBroker`.

| Actions | Code |
|---|---|
| `Confirm`, `ApplyStale`, `ApplyConfigured`, `Apply` | `runSetup`, `applySetup`, `applySetupBroker` under the locks |
| `StartInit` | `initBroker` |
| `Reuse`, `Create*`, `Rename*`, `Interrupted` | the devices of the plan |
| `Commit*`, `Retire`, `Retired`, `Loaded`, `LoadFails` | `host.json`, retirement, the first registry |
| `List`, `Undo`, `Undone` | `rollbackCreatedSimulators` |
| `StartService`, `Snapshot`, `Health`, `StageFails` | the stages after the worker |
| `Crash`, `ServiceDies`, `OtherCommand`, `UserMakes`, `UserDeletes` | the environment |

`Plan` is what `setupPlanFingerprint` covers. That the snapshot is fresh (the code
compares modification times) is modelled as "rendered from this host".

### ServiceQueue and SerialWork

`ServiceQueue` is one service and its clients: `queue`, `worker`, `idleActive`,
`snapshots`, `phase` and `health` are brokerd's; `status` and `body` are what each
client knows and sent; `installed` is the runtime on disk. Time is ticks: a command's
age is compared with its queue budget and the execution budget, which grows with what
is on disk (`workload`). A service refuses a command that expects another `Version`;
its workers compare the runtime file by file.

| Actions | Code |
|---|---|
| `Probe`, `Direct`, `Send`, `GiveUp`, `Interrupt` | `service-client.mjs`, `runServiceAwareRequest` |
| `Admit`, `BodyFails`, `TimerFires`, `SnapshotArrives` | the request handlers and the timer |
| `Launch`, `Begin`, `Finish`, `SnapshotEnds` | `runSerializedServiceWork`, `runObservedWorker`, the workers |
| `Stop`, `Drain`, `Close`, `Crash`, `Restart` | `shutdown`, death, a successor |
| `Reinstall`, `WorkloadChanges`, `Tick` | the environment |

`SerialWork` is the promise: items are taken in the order of admission, one at a time,
a one-off item is performed at most once. `ImplementsSerialWork` is the refinement
(`pending` is the queue, `current` the worker's item, `performed` the commands whose
operation has begun).

### ServiceLifecycle

Several services and start and stop commands on one state directory: `lock`, `socket`
and `metadata` name the process that made the file, `pc` and `cli` say where each
process is.

| Actions | Code |
|---|---|
| `AcquireStartLock`, `LockTimesOut`, `ProbeExisting`, `RemoveStaleSocket`, `ReconcileAtStart`, `Listen`, `Announce` | `startBrokerService` |
| `Signal`, `Drained`, `CloseServer`, `RemoveMetadata`, `RemoveSocket` | its shutdown |
| `Begin`, `StartProbe`, `Spawn`, `WaitForService`, `NobodyListens`, `StopRequest`, `WaitForStop`, `RemoveByCli` | `startService`, `stopService` |
| `Panic`, `Crash`, `WorkStarts`, `WorkEnds`, `Upgrade` | the environment |

`late` tells two kinds of behaviours apart: removals of files by name that happen at
once, and removals that may come any time after the check that allowed them.

### Containment

`proc` is the process table (parent, group, age, whether the process is the lease's,
what its command line names, zombies); `chosen`, `targets`, `spared` are the plan of
the containment in progress.

| Actions | Code |
|---|---|
| `Begin` | `discoverLeaseOwnedProcesses`, the choice of what to signal |
| `TermGroup`, `TermPid`, `Revalidate`, `KillPid` | the two rounds of signals and the sample between them |
| `Observe`, `Remove`, `Abandon` | the last sample, the removal of the lease, the end without it |
| `Fork`, `StartTest`, `Stranger`, `Exit`, `Reap`, `RegisterCommand` | the processes |

The requester and the process that executes the containment (`self`) are two: a service
contains for its client, a load that finds the owner gone for nobody. `present` is what
the last sample showed; between it and the signal, or the removal of the lease, processes
fork, exit and are reaped.

The order of signals within a round is open. A second registration of a command is
left out.

### DetachedRun

A run that outlives its launcher: `artifact` (the status record at a path), `result`,
`claim` (ownership of the result file) are files; `launcher` and `observer` are the
places of launchers, watchdogs and status commands.

| Actions | Code |
|---|---|
| `ClaimLaunch`, `ClaimResult`, `Spawn`, `Identify`, `Record*`, `StartWatchdog`, `WatchdogError`, `NoteWatchdog`, `NoError`, `Failing`, `RecordFailed` | `startDetachedRun` |
| `InlineCheck`, `InlineRemove`, `InlineWipe`, then `InlineClaimLaunch`, `InlineClaimResult`, `InlineWrites`, `InlineDone` | a verification inside the launcher: it looks for an active run, removes its record and clears the directory of the results, and takes its claims after that (`executeVerifyProfile`, `verify.ts:358-494`) |
| `RunWrites`, `RunExits` | the run |
| `Inspect*`, `Quarantine` | `inspectDetachedRun` and its copy in `agent_detached_status.cjs` |
| `Dog*` | the watchdog |
| `LauncherDies`, `Unreadable`, `Tick` | the environment |

`Dir` is the one of the artifact paths that lies in the directory of the results, which an
inline verification clears; `lost` are the lock files that went with it, so that their
holder goes on without them. `HandOver`, `DropClaim` and `LoseClaim` are what may happen to
the claim besides being taken and released. `stray` is a history variable: the runs whose
claim was lost while they worked, or was never handed over to them.

Locks and claims are taken and reclaimed in one step; a process group is recognised
exactly; of the phase file only whether it can be read is kept.

### Proofs, MC modules

For each component `X` a module `X_proofs` extends it and holds its inductive
invariant, theorems and proofs (section 4). The `MC*` modules give the constants
their values.

Definitions with an underscore (`Candidate_Broken`, ...) are faulty variants of
the definition below them. Nothing uses them; each shows that a property
is broken when the code is.

## 3. What is checked

### Runs

| Run | Instance | Shows |
|---|---|---|
| `lock_safe` | 3 processes, 1 crash, atomic removal, no stalls | `MutualExclusion`, `HolderKeepsLock` |
| `lock_live` | what 2 dead processes left and 2 contenders, one of which may die (`MaxCrashes = 3`) | `LockRecovered`, `ClaimFrees` |
| `lock_removal` | 3 processes, file-by-file removal | `MutualExclusion` is violated, see *Disagreement* |
| `lease_safe` | 1 alias, 2 leases, 1 owner, 2 projects, all commands, 1 crash | the lease properties below |
| `lease_live` | an erase-on-acquire and a build alias, 1 lease; acquire, owners that die, timer | `DeadLeaseReclaimed`, `IdleGrace` |
| `devices_safe` | 2 aliases, 3 devices, 2 transactions, 1 crash, every call may fail | `BaselineKept`, `ConfiguredKept`, `RollbackComplete`, `AccountedFor` |
| `host_setup` | 2 aliases, 5 devices, 2 setups or inits, 2 faults | `OthersKept`, `NothingLeftBehind`, `SetupConverges` |
| `service_queue` | 1 command, 1 snapshot request, 3 runtimes of 2 versions, the timer, any number of crashes | the service properties below |
| `service_lifecycle` | 3 services, 3 start or stop commands | `AuthorityWhenPrompt`, `StartupKeepsLiveSocket` |
| `contain_safe` | 3 pids, 2 processes started | `NoStrangerStruck`, `SelfAndOwnerSpared`, `NothingLeft` |
| `detached_safe` | 2 runs on one path or on two; 1 launcher killed, or 1 status command (`ObserversBound`) | `TerminalMeansOver`, `OneWriter`, `VerdictIsOwn`, `TerminalIsFinal`, `ResultKept` |
| `detached_live` | 1 run, its watchdog, 1 status command | `WatchedRunsEnd` |

Deadlock is checked in the runs of BrokerLock, LeaseBroker, HostDevices and
ServiceQueue. The others model a bounded number of commands, faults or processes, and
stop when these are used up.

**Leases** (`lease_safe`, `lease_live`). `OneLeasePerAlias`, `PinRespected`,
`RegistryMatchesFiles` (after every load and every command that ran to its end,
the registry names exactly the leases on disk, or says that a failed acquire left
one), `LiveLeaseKept` (a live client's lease ends only by a command about it),
`DeviceProtected` (no device is shut down or erased under a lease that another client
uses, nor under a pin by timer or cleanup), `OnlyRepairHeals` (health lost is regained
by a repair only), `HandoutHealthy` (no lease is handed out on an alias awaiting
repair), `BudgetKept` (a reclaimed alias is erased before it has been used more often
than allowed, one extra use per crash), `IdleGrace` (the timer waits for the grace
period), `DeadLeaseReclaimed` (a dead owner's lease is removed).

**Devices** (`devices_safe`). `ConfiguredKept` (no rollback or recovery deletes a
device that the host configuration names), `RollbackComplete` (a transaction recorded
as rolled back has left no device), `AccountedFor` (each device a transaction made is
configured, awaits retirement, or is led to by the journal), `BaselineKept` (a
transaction that has all its baselines deletes no device older than itself). A device
of the planned name that the operator makes *after* the baseline, while the
transaction's own create produced none, is still taken for the transaction's: the
repository's specification allows recovery to infer that, so the property does not
forbid it.

**Setup** (`host_setup`). `OthersKept` (a rollback deletes no device older than its
attempt, that of a setup only devices it made, and none that is configured, unless an
init's own write of `host.json` took effect and failed), `NothingLeftBehind` (a rolled back setup leaves
no device unless it reported a failure), `SetupConverges` (setup can be run again until
the host is ready, whatever was interrupted, unless a configured device is deleted, by
the user or by that init).

**Service** (`service_queue`, `service_lifecycle`). `FailureMeansUntouched` (a client
that is told of a failure, or whose own timeout ends, can take it that its command has
not run and will not, and may run it again), `DrainComplete` (an accepted stop answers
what was admitted before it closes), `RunsWhatWasProbed` (a command runs in a service
of the version probed, on exactly the runtime that service started with), `FailsClosed` (an unhealthy
service starts nothing and stays unhealthy), `ImplementsSerialWork`, `CommandsSettle`,
`StopCompletes`; `AuthorityWhenPrompt` (one service at most accepts or executes, and
the one that serves is reachable), `StartupKeepsLiveSocket`.

**Containment** (`contain_safe`). `NoStrangerStruck` (a sampled process that is not the
lease's gets no signal, not even when its pid was another's a moment ago),
`SelfAndOwnerSpared` (requester and owner get no signal, directly or through a group),
`NothingLeft` (when the lease goes, none of its processes that the last sample showed is
left but what is spared and what had been separated from the lease by then, `Astray`).

**Detached runs** (`detached_safe`, `detached_live`). `TerminalMeansOver` (a run
reported over cannot write any more), `OneWriter` (one run at a time works into the
result file, but for a stray one), `VerdictIsOwn` (a verdict rests on a result that is the
run's own or a stray run's, and in time), `TerminalIsFinal`
(a late observer, or a launcher with an old copy, undoes no conclusion and speaks for no
other run), `ResultKept` (a
quarantine takes away the late result of the run that timed out, and of others only a
stray run's or one that was there before the launch), `WatchedRunsEnd` (a watched run
does not stay on record as running).

### Bounds

- *Locks.* The single crash of `lock_safe` is essential: it is a condition of the theorem
  too, see *Limits*. Three processes give every role at once: one that holds or has died,
  one that reclaims, one that comes in between. Five directory and five token
  identities suffice because an identity is reused only when nothing on disk and
  no process remembers it; two more than there can be holders of a memory, so the
  bound never blocks a step (a blocked `mkdir` would show as a deadlock).
- *Leases.* Commands run one at a time and treat aliases independently, except
  for the loop of the idle reconcile (`lease_live` has two aliases). A second lease
  is what an exclusive alias, a rollback's remains or a stale file can be confused
  with. One crash can fall between any two steps; `BudgetKept` says what each
  further one costs. `MaxUses = 2` distinguishes "once" from "at the limit".
- *Devices.* Three devices are the transaction's own, one of the same name made by
  the operator (an ambiguous match) and a second addition's or a repair's. Two
  additions give a partial commit; a second transaction meets the first one's
  unfinished journal; one crash falls between any two steps, and failing calls, which
  are not bounded, interrupt recoveries again.
- *Setup.* Two aliases give a half-provisioned host, two commands a stale plan and a
  foreign commit. Two faults are a failure and a failing rollback, or a crash and a
  change of the devices before the next attempt. Five devices leave room for two
  attempts and the user.
- *Service.* The items of the queue that compete are a command, the timer and
  whatever came before; the timer comes back any number of times. Budgets of one and
  zero ticks with one tick of extra workload put every comparison on both sides of its
  limit. Three services are a predecessor, a successor and a late one.
- *Containment.* The owner and two processes give a group, its leader and a descendant;
  two starts let a pid be used again. Wider and deeper trees are covered by the proof.
- *Detached runs.* Two runs on one path are what a late observer can confuse; two
  runs on two paths meet at the result file only. The clock reaches the deadline and, in
  `detached_live`, goes past it. `ObserversBound` has two observers look at once only where
  both runs share the path: two watchdogs, or a watchdog and the status command, the latter
  in behaviours without a kill and while no verification works inside its launcher.
  Watchdogs decide by the same code and meet the rest. The theorems have no such bound.

### Fairness

`BrokerLock!Fairness`: a live process goes on, the lock is requested again and again
(the timer calls the idle reconcile every 30 s), and time passes.
`LeaseBroker!Fairness`: a command that has the lock runs on, and the timer's reconcile
is started when the lock is free. `ServiceQueue!Fairness`: the event loop runs what is
ready and a worker ends, because each of its calls has a timeout. `DetachedRun!Fairness`:
a watchdog that has been started goes on, its poll is periodic, and the clock runs.
`HostSetup!Fairness`: a worker that has the locks goes on, and the user runs setup
again, as the error tells him (`recoveryCommand`). All of it is weak fairness but for one
strong one: a watchdog that kills its run again and again sees it gone in the end
(`DogTerminates`; SIGKILL may be slow to be confirmed, but not for ever). Nothing is
assumed of clients, owners, devices, installers, crashes or failures.

### Disagreement with the repository's own statements

`lock_removal`: `fs.rmSync(lockDir, {recursive: true})` is not atomic. An owner
dies before it wrote `owner.json`; two contenders see the stale lock; the first
removes it, its marker before the directory. In between the second opens a
marker of its own in the half-removed directory and then removes the lock too.
One of them makes the next lock, and the other's removal, still under way,
deletes it: two processes work. `spec/global-simulator-broker.md:98` promises to
serialize them. `lock_safe` shows that with an atomic removal (a rename first) the
protocol holds under the same crash.

### Limits the modelling showed

Where a property has an exception, or an action reaches less far than one might
expect, the code behaves like this:

*Locks.* A process suspended for longer than the timeout between `mkdir` and
`owner.json` loses its lock and does not notice (`Stalls = TRUE`, `index.mjs:4178`).
Two deaths break the exclusion, even with an atomic removal and without stalls: the
reclaim marker is examined, then renamed (`:4231`), and the rename can take a fresh
marker of another reclaimer; both then believe the stale lock theirs to remove, and the
removal does not look again whether the marker is still its own (`:4215-4300`). The
second removal deletes the lock of whoever came in between, and two processes work.
This needs a dead owner and a dead reclaimer with an old marker, or two dead owners in
a row (`MaxCrashes = 2` and four processes; out of reach of a run that ends in minutes,
found with a directed search). A reclaimer dying between `open("wx")`
and the write of the marker leaves an empty marker on which every later `JSON.parse`
fails (`:4189`); the stale lock then stays (`MarkerStuck`, excepted from `LockRecovered`
and `ClaimFrees`; `lock_live` reaches it). `ClaimFrees` also allows two contenders to
rename each other's markers for ever, one unlucky schedule and one timeout per round.

*Leases.* `loadBrokerState` deletes a stale lease's file before it writes the release
time (`:5021`): a crash in between loses it, and the device may be shut down within the
grace period (`lease_live` has no crash). A cleanup does not load; when a failed
acquire left its lease file and the device has vanished since, it replaces the
recorded reason by `simulator-missing`, the next load takes the remains for the lease of
its owner, and they stay until that process dies (`RegistryMatchesFiles` allows it).
`register-process` on such a leftover brings it back in the same way (`:7901`). A crash
in a release counts one lease twice.

*Devices.* `applyCapacityPlan` adds an addition to the transaction before it lists the
devices for the addition's baseline (`:7395`); if that listing fails and the rollback's
works, an older device of the same name is deleted (`BaselineKept` excepts it). A
repair that dies between `simctl create` and `host.json` leaves a device that nothing
leads to (`:3933`; `AccountedFor` is about the devices of transactions). Recovery of an
unfinished transaction runs only inside an apply whose confirmation is current and
whose plan is not blocked (`:7520`).

*Setup.* A crash between create and rename leaves a device under its temporary name.
The rollback of a failed `init` deletes any device that appeared meanwhile under a
planned name, an operator's included (`:1505`; `OthersKept` says less of init). When its
write of `host.json` fails after the rename (`:368`), it deletes the devices that the
new configuration names (`:5350`, `CommitFailsLate`): the host is left with missing
devices, and every later setup is blocked. A setup tells the two cases apart.

*Service.* A service that was rebuilt under the same version is taken for the one that
was probed (`brokerd.mjs:508-554` compares versions and paths).
`simbroker service stop` and a failed start remove metadata and socket by
name and without the startup lock (`client/bin/simbroker.mjs:616-667`); when that comes
late, a successor serves unreachably (`AuthorityWhenPrompt` holds with `~late` only).
The drain's allowance for the running worker counts from its admission, not its start
(`brokerd.mjs:1211`). `command-dispatch.mjs:1433` reports a failure when the snapshot
after a successful command fails: `FailureMeansUntouched` is about the queue's
failures, before the operation.

*Containment.* A descendant whose parent has exited and whose command line says nothing
survives a containment that counts as complete (`spec/global-simulator-broker.md:1086`
asks for all of them; `Astray` excepts it, and likewise what lives below a command that was
registered without a group once its parent is no longer the owner). What a spared owner
starts after the last sample survives as well (`containment.mjs:1301`, `index.mjs:4932`).
When the leader of a registered group has
ended, processes that joined the group are taken for the command's
(`containment.mjs:642-661`, `Adopted`). The process that executes
a containment is kept out of the signals to pids but not out of the one to the command's
group, unless it is the requester too (`containment.mjs:1014-1028`): a stale reclaim, which
has no requester, or a service can end itself (`SelfAndOwnerSpared`).

*Detached runs.* Two things leave a run astray (`stray`), and after that two runs may
write. A launcher dies, or fails to hand over the claim and to end the run, after the spawn
(`detached-run.ts:5225`). Or a verification inside its launcher looks for an active run
(`verify.ts:358`), finds none, and removes the record, the result and the claims of one
that is launched right then (`verify.ts:367-387`): it takes its own claims only afterwards
(`:486-494`), so its refusal of an active run (`:359-363`) covers only what it saw.
Failing writes of the launcher's records (`Record`, `RecordEnded`) are left out, and an
observer's repeated looks at the process are one look per step. Result and process are looked at one after the other (`:5395`). A
failed launch without a process may replace a terminal record. A quarantine does not
compare with the baseline (`:4340-4382`).

## 4. What is proved

For every value of the constants that satisfies the named assumptions of the modules.
These ask of the constants only that names which have to be told apart are different,
that `None` is none of them and no record, that a lease has an owner, and that bounds,
flags, device classes and verdicts are of their kind.

| Module | Theorem | States that `Spec` implies |
|---|---|---|
| LeaseBroker_proofs | `TypeCorrect`, `LeaseExclusion`, `PinsRespected` | `[]TypeOK`, `[]OneLeasePerAlias`, `[]PinRespected` |
| | `RegistryAgrees` | `[]RegistryMatchesFiles` |
| | `LiveLeasesKept`, `DevicesProtected` | `LiveLeaseKept`, `DeviceProtected` |
| | `RepairsHeal`, `HandoutsHealthy` | `OnlyRepairHeals`, `HandoutHealthy` |
| | `BudgetsKept`, if `~ResetLockBusy` | `BudgetKept` |
| | `GraceKept`, if `MaxCrashes = 0` | `IdleGrace` |
| BrokerLock_proofs | `TypeCorrect` | `[]TypeOK` |
| | `Exclusion`, `HolderUndisturbed`, if `~Stalls` | `[](Mild => MutualExclusion)`, `[](Mild => HolderKeepsLock)` |
| HostDevices_proofs | `TypeCorrect`, `ConfiguredSafe` | `[]TypeOK`, `[]ConfiguredKept` |
| | `RollsBack`, `NothingForgotten`, `BaselineSafe` | `[]RollbackComplete`, `[]AccountedFor`, `[]BaselineKept` |
| HostSetup_proofs | `TypeCorrect` | `[]TypeOK` |
| | `OthersSpared`, `NothingLeft` | `OthersKept`, `NothingLeftBehind` |
| ServiceQueue_proofs | `TypeCorrect`, `Untouched`, `Drained` | `[]TypeOK`, `[]FailureMeansUntouched`, `[]DrainComplete` |
| | `RunsInProbedService`, `StaysClosed` | `RunsWhatWasProbed`, `FailsClosed` |
| | `QueueIsSerial` | `ImplementsSerialWork`, the refinement of SerialWork |
| ServiceLifecycle_proofs | `Authority`, `LiveSocketKept` | `[]AuthorityWhenPrompt`, `StartupKeepsLiveSocket` |
| Containment_proofs | `TypeCorrect`, `StrangersSpared` | `[]TypeOK`, `NoStrangerStruck` |
| | `ProtectedSpared`, `NothingIsLeft` | `SelfAndOwnerSpared`, `NothingLeft` |
| DetachedRun_proofs | `TypeCorrect`, `OverWhenTerminal`, `SingleWriter` | `[]TypeOK`, `[]TerminalMeansOver`, `[]OneWriter` |
| | `OwnVerdict`, `FinalWhenTerminal`, `ResultsKept` | `[]VerdictIsOwn`, `TerminalIsFinal`, `ResultKept` |

All proofs have one shape. An inductive invariant `IInv` (in LeaseBroker also `Accord`)
holds initially and is kept by every action, with a lemma for each group of actions; the
theorem follows from it, for an action property together with the step. TLC checked every
such invariant before it was proved.

**Leases.** `IInv` is `TypeOK`, the two invariants, `CommandOK` and `SelectionHolds`.
`OneLeasePerAlias` alone is not inductive: `AcquireRecord` writes a lease file without
looking at the others, on the strength of a choice made several steps earlier.
`SelectionHolds` says that the choice still stands, from `AcquireSelect` through slot
reclaim to the record; `CommandOK` ties a control point to the kind of command that can be
there, and to its arguments. `Accord` adds what the parts of the state know of each other:
`OwnLease` (a command keeps to its lease, whose file is the only one on its alias),
`EntriesOK` (a healthy entry has no drift), `HealthOK` (the in-memory registry is no
healthier than the one on disk, but for the alias under repair), `HandedOK` (the alias of a
lease in use has no failed acquire on record), `IdleOK` (what a timer's candidates were
chosen for) and `RegistryOK` (how far registry, memory and files differ at each control
point). `BudgetsKept` needs two more: `CountOK` (a crash in a load loses one count, as the
file goes before the registry is written) and `BudgetOK`; with a busy reset lock the code
skips the reclaim, hence the condition. `GraceKept` has `RestOK`, where release times are
right because no crash falls into a load (*Limits*).

**Locks.** `Mild` says that nobody has died, or that one process has and a removal is one
step. The first half holds for the removal as it is: `QuietOK` says that the lock is one
process's from `mkdir` to the end of the removal, that nobody has seen it without an owner
for too long and so nobody reclaims. For the second half: the one dead process accounts for the one stale lock there ever
is (`PathOK`); reclaimers are alive, so no marker is ever old, and each has its own
(`MarkerOK`, `ReclaimerOK`); a snapshot that showed the present directory as stale is still
right (`SnapshotOK`). A reclaimer that has lost its marker has lost it with the stale lock
and finds another one when it looks again. The conditions are not an artefact of the
proof: beyond the first death the code does not keep the promise, as `lock_removal`
(removal file by file) and *Limits* (a second death, a pause) show.

**Devices.** `Known` is the centre: a record of an open transaction, in memory or in the
journal, leads to each device the transaction has made, by its identifier or by being the
match for an addition that has none yet, and to none that is older. `RecoverOK`, `ApplyOK`
and `HostCommandOK` say it of what a command has in memory at each control point.

**Setup.** `ConfigOK` (what an attempt has made is younger than it, configured devices are
not, but for those of an init whose write came through, `Late`), `OwnOK` (what an
attempt takes for its own it has made) and `LeftOK` (what it has made it takes for its own:
by its list or by the temporary name) hold from the first device to the end of the
rollback. The user's devices never have a temporary name. For the types, `StageOK` says that
whoever waits for the locks or provisions by `setup` has a plan, and the lemma `Least`, by
well-foundedness of `<`, that the first device of a listing (`Reusable`) exists.

**Service.** `RequestsOK` says where each request is and that one whose client has given up
is older than the queue lets a command be; `WorkerOK` that the client of a running command
is patient as long as the worker may take. Both depend on the two budgets being taken of
one `body`. `QueueOK` and `PhaseOK` give the drain. In the refinement each action maps to
one of SerialWork or to a stutter. For the life of the service, `ProbeOK` says that what a
startup's probe found stays so until it listens, because it holds the startup lock
(`LockOK`); `PromptOK` restates the promise for files that are removed at once.

**Containment.** `RootedOK` (every process descends from one without parent) is stated
with closed sets instead of paths, as is `Below`, so that no induction is needed. `KinOK`
(parents, children and members of a group are the lease's together), `LeaderOK` (a pid that
names a group is in it or free) and `CommandOK` (what is as old as the registration and has
its pid or group is the lease's) show that the selection finds nothing but the lease's
processes (`OwnedKin`) and all that are not astray (`AllFound`). `GroupOK`, `TargetsOK` and
`LeftOK` carry this from the sample to the signal and to the removal of the lease.

**Detached runs.** Nothing speaks of a run before it is spawned (`FreshOK`), so what an
observer has concluded of a run's death stays true (`ObserverOK`, `ArtifactsOK`). A run that
is alive holds the claim unless it is stray (`ClaimOK`), so a claim has one holder
(`Holder`) and a step that moves it makes its former owner stray or ends it
(`ClaimMoves`, `OthersClaim`); only a stray run writes a result that could be taken for
another's (`ResultOK`).

**Only model-checked.** Liveness and what it rests on, fairness, are beyond the prover:
`LockRecovered`, `ClaimFrees`, `DeadLeaseReclaimed`, `SetupConverges`, `CommandsSettle`,
`StopCompletes`, `WatchedRunsEnd`.

## 5. Plan

All modules planned are written and their safety properties proved. What is left, in
order of importance:

1. **BrokerLock**: how much of the exclusion survives two deaths, for instance when the
   two dead processes never held the lock at once; a property for what a process that is
   slow for longer than the timeout may do.
2. **LeaseBroker**: the exact loss of release times in a load that is cut off, so that
   `IdleGrace` can be stated, checked and proved with crashes.
3. **The promises modules make to each other** (section 1): that the commands of
   LeaseBroker and HostDevices run one at a time is an assumption there and a theorem of
   BrokerLock; a composition would state it in one place.

## 6. What is not modelled, and why

- *simctl and the file system* below single calls are external. What a call may do
  (fail, take effect and fail, find a device gone) is part of the actions that make it.
- *Event log and streams*: append-only records, read for display and diagnosis; no
  lease, pin or device decision reads them.
- *Alias selection order* and *the capacity planner*: which of several admissible
  aliases or device types is preferred. Every property here holds for any choice.
- *Idle policy file*: enable and disable write one file; LeaseBroker lets every
  reconcile find it or not.
- *Task sessions and verification* of the harness: sequential bookkeeping of one
  process, beyond the detached run. The *artifact locks* of detached-run are taken and
  reclaimed in one step; their algorithm resembles BrokerLock's.
- *The second copy of a lease* at its artifact path, project registration, schema
  checks, formatting, argument parsing, output and log wording.
- *macOS app*: shows snapshots and sends commands through the service or the command
  line; it keeps no state that others rely on. *Packaging, scripts, examples*: no
  protocol.

## 7. Running

    tlc -workers 2 -config MCLeaseBroker_safe.cfg MCLeaseBroker
    for m in *_proofs.tla; do tlapm $m; done

Every run takes between a few seconds and three minutes, every proof module between a
few seconds and four minutes. `PROJECT.json` lists all runs,
the faulty variant each property catches, and for every definition the lines of the
source it models.
