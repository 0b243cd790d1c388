------------------------------- MODULE HostSetup -------------------------------
(***************************************************************************)
(* simbroker setup and host init: from an empty machine to a configured,   *)
(* served and shown host (applySetupBroker, initBroker and what they call  *)
(* in broker-core/index.mjs; runSetup and applySetup in                    *)
(* client/bin/simbroker.mjs).                                              *)
(*                                                                         *)
(* A setup previews a plan without a lock, the user confirms it, and a     *)
(* worker thread computes it again under the locks and carries it out:     *)
(* devices, host.json, registry.  Then the command starts the service and  *)
(* has it render the snapshot and examine the host.  Everything may stop   *)
(* half-way: the process dies, the user interrupts it, a call fails before *)
(* or after it took effect.  What is promised is that setup can be run     *)
(* again.                                                                  *)
(*                                                                         *)
(* Abstracted: a device's name, type and runtime are the alias it is for;  *)
(* while it is made it has a temporary name, which nothing else has.  The  *)
(* host id and the runtime stay the same; files are well-formed; there are *)
(* no leases and pins.  A device that is unavailable is a deleted one.     *)
(***************************************************************************)
EXTENDS Naturals, FiniteSets

CONSTANTS
  Aliases,    \* the starter aliases
  Devices,    \* device identifiers, numbers: the listing is sorted
  Setups,     \* command line processes
  None,
  MaxFaults   \* bound: faults, and interventions of the user

ASSUME SetupAssumption ==
  /\ Devices \subseteq Nat /\ None \notin Aliases \cup Devices \cup Setups
  /\ Aliases \cap Setups = {} /\ MaxFaults \in Nat

VARIABLES
  host,      \* host.json: the device of each alias, or None
  pending,   \* its pendingRetirements
  registry,  \* registry.json exists
  alive,     \* devices that exist
  name,      \* the alias a device is named for, or the setup that is making it
  service,   \* the service runs
  shown,     \* app-snapshot.json: the host it was rendered from, or None
  at,        \* how far each command is
  plan,      \* the plan its user confirmed
  core,      \* the host its worker committed or found
  holder,    \* the command that has the locks
  op,        \* "setup" or "init"
  pc,        \* its control point
  base,      \* devices that existed when it began (baselineDeviceIds)
  ids,       \* createdSimulatorIds; after a commit the devices it could not retire
  chosen,    \* the device of each alias so far
  target,    \* the alias whose device is being renamed
  todo,      \* devices it has still to delete
  made,      \* history: devices it made and did not delete
  leaky,     \* history: a listing or a deletion of its rollback failed
  faults     \* number of faults so far

disk   == <<host, pending, registry>>
device == <<alive, name>>
app    == <<service, shown>>
stages == <<at, plan, core>>
job    == <<op, base, ids, chosen, target, todo, made, leaky>>
vars   == <<disk, device, app, stages, holder, pc, job, faults>>

Nothing == [a \in Aliases |-> None]
Hosts == [Aliases -> Devices]
Plans == [configured : BOOLEAN, devices : [Aliases -> Devices \cup {None}]]
Configured == IF host = None THEN {} ELSE {host[a] : a \in Aliases}
Complete == host # None /\ \A a \in Aliases : host[a] \in alive

TypeOK ==
  /\ host \in Hosts \cup {None} /\ pending \subseteq Devices /\ registry \in BOOLEAN
  /\ alive \subseteq Devices /\ name \in [Devices -> Aliases \cup Setups \cup {None}]
  /\ service \in BOOLEAN /\ shown \in Hosts \cup {None}
  /\ at \in [Setups -> {"out", "confirmed", "provisioning", "service", "snapshot", "health"}]
  /\ plan \in [Setups -> Plans \cup {None}] /\ core \in [Setups -> Hosts \cup {None}]
  /\ holder \in Setups \cup {None} /\ op \in {"setup", "init"}
  /\ pc \in {"none", "devices", "rename", "retire", "load", "list", "undo"}
  /\ base \subseteq Devices /\ ids \subseteq Devices /\ target \in Aliases \cup {None}
  /\ chosen \in [Aliases -> Devices \cup {None}] /\ todo \subseteq Devices
  /\ made \subseteq alive /\ leaky \in BOOLEAN /\ faults \in 0..MaxFaults

Init ==
  /\ host = None /\ pending = {} /\ registry = FALSE
  /\ alive = {} /\ name = [d \in Devices |-> None]
  /\ service = FALSE /\ shown = None
  /\ at = [s \in Setups |-> "out"] /\ plan = [s \in Setups |-> None]
  /\ core = [s \in Setups |-> None]
  /\ holder = None /\ op = "setup" /\ pc = "none" /\ base = {} /\ ids = {}
  /\ chosen = Nothing /\ target = None /\ todo = {} /\ made = {} /\ leaky = FALSE
  /\ faults = 0

-----------------------------------------------------------------------------
(* What the steps are made of. *)

Fault == faults < MaxFaults /\ faults' = faults + 1
Fine == UNCHANGED faults

(* Identifiers that nothing refers to.  A new device gets the first or the  *)
(* last of them: it may be listed before the others or behind them.        *)
Unused ==
  LET Of(h) == IF h = None THEN {} ELSE {h[a] : a \in Aliases}
  IN  Devices \ (alive \cup Configured \cup pending \cup base \cup ids \cup todo \cup Of(chosen)
        \cup Of(shown) \cup UNION {Of(core[s]) : s \in Setups}
        \cup UNION {Of(plan[s].devices) : s \in {t \in Setups : plan[t] # None}})

New(d) ==
  /\ d \in Unused
  /\ (\A e \in Unused : d <= e) \/ (\A e \in Unused : d >= e)

Make(d, n) == New(d) /\ alive' = alive \cup {d} /\ name' = [name EXCEPT ![d] = n]
Delete(d) == alive' = alive \ {d} /\ name' = [name EXCEPT ![d] = None]

(* Of several devices that could be reused, the first of the listing. *)
Named(a) == {d \in alive : name[d] = a}
Reusable(a) ==
  IF Named(a) = {} THEN None ELSE CHOOSE d \in Named(a) : \A e \in Named(a) : d <= e

(* setupPlanFingerprint: what a confirmation is about. *)
Plan ==
  IF host = None THEN [configured |-> FALSE, devices |-> [a \in Aliases |-> Reusable(a)]]
  ELSE [configured |-> TRUE, devices |-> host]

(* Fault: a missing registry is always blocked. *)
Resumable_Never == FALSE

(* setupHostMatchesCommittedStarterPlan: only the registry is missing yet. *)
Resumable == pending = {} /\ \A a \in Aliases : name[host[a]] = a

(* A registry without a host is somebody's state: no new host over it. *)
BlockedNew == host = None /\ registry

(* setupExistingHostState *)
BlockedHost == host # None /\ (~Complete \/ (~registry /\ ~Resumable))

Blocked == BlockedNew \/ BlockedHost

(* setupSnapshotReady: the snapshot shows this host. *)
Shows(h) == shown = h

(* completeSetupPreview: nothing is left to do. *)
Ready == host # None /\ registry /\ Complete /\ service /\ Shows(host)

Stage(s, st) == at' = [at EXCEPT ![s] = st]

(* The locks are free again. *)
Unlock ==
  /\ holder' = None /\ op' = "setup" /\ pc' = "none" /\ base' = {} /\ ids' = {}
  /\ chosen' = Nothing /\ target' = None /\ todo' = {} /\ made' = {} /\ leaky' = FALSE

(* The command ends. *)
Out(s) ==
  /\ Stage(s, "out")
  /\ plan' = [plan EXCEPT ![s] = None] /\ core' = [core EXCEPT ![s] = None]

(* loadBrokerState: with a host configuration it writes the registry. *)
Load == registry' = (registry \/ host # None)

-----------------------------------------------------------------------------
(* runSetup: the preview and its confirmation.  A ready or a blocked host    *)
(* ends the command.                                                       *)

Confirm(s) ==
  /\ at[s] = "out" /\ ~Ready /\ ~Blocked
  /\ Stage(s, "confirmed") /\ plan' = [plan EXCEPT ![s] = Plan]
  /\ UNCHANGED <<disk, device, app, core, holder, pc, job>> /\ Fine

(* applySetupBroker gets the locks: the plan has changed meanwhile. *)
ApplyStale(s) ==
  /\ at[s] = "confirmed" /\ holder = None
  /\ plan[s] # Plan \/ Blocked
  /\ Out(s) /\ UNCHANGED <<disk, device, app, holder, pc, job>> /\ Fine

(* The host is configured: nothing but the registry is to do. *)
ApplyConfigured(s) ==
  /\ at[s] = "confirmed" /\ holder = None
  /\ plan[s] = Plan /\ ~Blocked /\ host # None
  /\ Load /\ core' = [core EXCEPT ![s] = host]
  /\ Stage(s, "service") /\ plan' = [plan EXCEPT ![s] = None]
  /\ UNCHANGED <<host, pending, device, app, holder, pc, job>> /\ Fine

Provision(s, kind) ==
  /\ holder' = s /\ op' = kind /\ pc' = "devices" /\ base' = alive
  /\ Stage(s, "provisioning")
  /\ UNCHANGED <<host, pending, device, app, plan, core, ids, chosen, target, todo, made, leaky>>

Apply(s) ==
  /\ at[s] = "confirmed" /\ holder = None
  /\ plan[s] = Plan /\ ~Blocked /\ host = None
  /\ Provision(s, "setup") /\ UNCHANGED registry /\ Fine

(* initBroker on an empty machine, or with force. *)
StartInit(s) ==
  /\ at[s] = "out" /\ holder = None
  /\ Provision(s, "init") /\ Load /\ Fault

-----------------------------------------------------------------------------
(* The devices of the plan (applySetupBroker), or those that are there now  *)
(* (ensureAliasSimulator for host init).                                   *)

At(p) == pc = p /\ holder' = holder
Missing(a) == chosen[a] = None /\ UNCHANGED <<disk, app, stages, op, base>>
Wanted(a) == IF op = "setup" THEN plan[holder].devices[a] ELSE Reusable(a)

Reuse(a) ==
  /\ At("devices") /\ Missing(a) /\ Wanted(a) # None
  /\ chosen' = [chosen EXCEPT ![a] = Wanted(a)]
  /\ UNCHANGED <<device, pc, ids, target, todo, made, leaky>> /\ Fine

(* A setup makes the device under a temporary name, an init under its own.  *)
Create(a, d) ==
  /\ At("devices") /\ Missing(a) /\ Wanted(a) = None
  /\ Make(d, IF op = "setup" THEN holder ELSE a)
  /\ ids' = ids \cup {d} /\ made' = made \cup {d}
  /\ chosen' = [chosen EXCEPT ![a] = d]
  /\ IF op = "setup" THEN pc' = "rename" /\ target' = a ELSE UNCHANGED <<pc, target>>
  /\ UNCHANGED <<todo, leaky>> /\ Fine

(* simctl create fails, although it may have made the device; a setup looks  *)
(* for it at once.                                                         *)
CreateFails(a) ==
  /\ At("devices") /\ Missing(a) /\ Wanted(a) = None
  /\ \/ UNCHANGED <<device, ids, made>>
     \/ \E d \in Devices :
          /\ Make(d, IF op = "setup" THEN holder ELSE a) /\ made' = made \cup {d}
          /\ IF op = "setup" THEN ids' \in {ids, ids \cup {d}} ELSE UNCHANGED ids
  /\ pc' = "list" /\ UNCHANGED <<chosen, target, todo, leaky>> /\ Fault

Renamed == name' = [name EXCEPT ![chosen[target]] = target]

Rename ==
  /\ At("rename") /\ chosen[target] \in alive
  /\ Renamed /\ pc' = "devices" /\ target' = None
  /\ UNCHANGED <<disk, alive, app, stages, op, base, ids, chosen, todo, made, leaky>> /\ Fine

RenameFails ==
  /\ At("rename")
  /\ \/ UNCHANGED name /\ (IF chosen[target] \in alive THEN Fault ELSE Fine)
     \/ chosen[target] \in alive /\ Renamed /\ Fault
  /\ pc' = "list" /\ target' = None
  /\ UNCHANGED <<disk, alive, app, stages, op, base, ids, chosen, todo, made, leaky>>

(* throwIfSetupCancelled, before a device and before the commit. *)
Interrupted ==
  /\ At("devices") /\ op = "setup" /\ pc' = "list"
  /\ UNCHANGED <<disk, device, app, stages, op, base, ids, chosen, target, todo, made, leaky>>
  /\ Fault

-----------------------------------------------------------------------------
(* host.json *)

All == \A a \in Aliases : chosen[a] # None
Replaced == (pending \cup Configured) \ {chosen[a] : a \in Aliases}

Commit ==
  /\ At("devices") /\ All
  /\ host' = chosen
  /\ IF op = "setup" THEN pc' = "load" /\ UNCHANGED <<pending, ids, todo>>
     ELSE /\ pc' = "retire" /\ pending' = Replaced /\ todo' = Replaced \cap alive /\ ids' = {}
  /\ UNCHANGED <<registry, device, app, stages, op, base, chosen, target, made, leaky>> /\ Fine

(* Before the rename: everything is undone, of an init what it knows of. *)
CommitFails ==
  /\ At("devices") /\ All
  /\ IF op = "setup" THEN pc' = "list" /\ UNCHANGED todo ELSE pc' = "undo" /\ todo' = ids
  /\ UNCHANGED <<disk, device, app, stages, op, base, ids, chosen, target, made, leaky>> /\ Fault

(* Fault: a failed write is undone, whatever has become of the file. *)
CommitFailsLate_Undone ==
  /\ At("devices") /\ All /\ op = "setup"
  /\ host' = chosen /\ pc' = "list"
  /\ UNCHANGED <<pending, registry, device, app, stages, op, base, ids, chosen, target, todo,
                 made, leaky>> /\ Fault

(* After the rename: the directory is not synchronised, or chmod fails.  The *)
(* devices are the host's by now; a setup knows that, an init undoes them.  *)
CommitFailsLate ==
  /\ pc = "devices" /\ All /\ host' = chosen
  /\ IF op = "setup" THEN Out(holder) /\ Unlock /\ UNCHANGED pending
     ELSE /\ pc' = "undo" /\ pending' = Replaced /\ todo' = ids
          /\ UNCHANGED <<stages, holder, op, base, ids, chosen, target, made, leaky>>
  /\ UNCHANGED <<registry, device, app>> /\ Fault

(* retirePendingHostSimulators, then host.json again.  A device that is not  *)
(* listed any more is forgotten.                                           *)
Retire(d) ==
  /\ At("retire") /\ d \in todo /\ todo' = todo \ {d}
  /\ \/ Delete(d) /\ UNCHANGED ids /\ made' = made \ {d} /\ Fine
     \/ UNCHANGED <<device, made>> /\ ids' = ids \cup {d} /\ (IF d \in alive THEN Fault ELSE Fine)
  /\ UNCHANGED <<disk, app, stages, op, pc, base, chosen, target, leaky>>

Retired ==
  /\ pc = "retire" /\ todo = {}
  /\ pending' = ids
  /\ IF ids = {} THEN holder' = holder /\ pc' = "load" /\ UNCHANGED <<stages, job>>
     ELSE Out(holder) /\ Unlock
  /\ UNCHANGED <<host, registry, device, app>> /\ Fine

(* loadBrokerState and the event; of a setup the service comes next. *)
Loaded ==
  /\ pc = "load"
  /\ Load
  /\ IF op = "init" THEN Out(holder)
     ELSE /\ core' = [core EXCEPT ![holder] = host]
          /\ Stage(holder, "service") /\ plan' = [plan EXCEPT ![holder] = None]
  /\ Unlock /\ UNCHANGED <<host, pending, device, app>> /\ Fine

LoadFails ==
  /\ pc = "load"
  /\ Load \/ UNCHANGED registry
  /\ Out(holder) /\ Unlock /\ UNCHANGED <<host, pending, device, app>> /\ Fault

-----------------------------------------------------------------------------
(* rollbackCreatedSimulators *)

(* Fault: only the devices whose creation has returned. *)
Attributed_Known == ids

(* Devices that were not there before and have one of the attempt's names.  *)
Attributed ==
  ids \cup {d \in alive \ base : IF op = "setup" THEN name[d] = holder ELSE name[d] \in Aliases}

List ==
  /\ At("list") /\ pc' = "undo"
  /\ \/ todo' = Attributed /\ UNCHANGED leaky /\ Fine
     \/ todo' = ids /\ leaky' = TRUE /\ Fault
  /\ UNCHANGED <<disk, device, app, stages, op, base, ids, chosen, target, made>>

Undo(d) ==
  /\ At("undo") /\ d \in todo /\ todo' = todo \ {d}
  /\ \/ Delete(d) /\ made' = made \ {d} /\ UNCHANGED leaky /\ Fine
     \/ d \in alive /\ UNCHANGED <<device, made>> /\ leaky' = TRUE /\ Fault
  /\ UNCHANGED <<disk, app, stages, op, pc, base, ids, chosen, target>>

Undone ==
  /\ pc = "undo" /\ todo = {}
  /\ Out(holder) /\ Unlock /\ UNCHANGED <<disk, device, app>> /\ Fine

-----------------------------------------------------------------------------
(* applySetup after the worker, without a lock *)

(* startService: a running service is kept; a new one loads the state first. *)
StartService(s) ==
  /\ at[s] = "service" /\ Stage(s, "snapshot")
  /\ service' = TRUE /\ IF service THEN UNCHANGED registry ELSE Load
  /\ UNCHANGED <<host, pending, device, shown, plan, core, holder, pc, job>> /\ Fine

(* The service runs a command and renders the snapshot. *)
Serves == service /\ holder = None /\ shown' = host /\ Load

(* assertSetupCommittedHostIdentity *)
Committed(s) == host = core[s]

(* The rendered host has to be the one that setup committed. *)
Snapshot(s) ==
  /\ at[s] = "snapshot" /\ Serves
  /\ IF Committed(s) THEN Stage(s, "health") /\ UNCHANGED <<plan, core>> ELSE Out(s)
  /\ UNCHANGED <<host, pending, device, service, holder, pc, job>> /\ Fine

(* doctor, and the snapshot after it: success, or not the same host, or a   *)
(* device that is missing.                                                 *)
Health(s) ==
  /\ at[s] = "health" /\ Serves /\ Out(s)
  /\ UNCHANGED <<host, pending, device, service, holder, pc, job>> /\ Fine

(* A stage fails, for instance because the service is gone, or the user     *)
(* interrupts it.                                                          *)
StageFails(s) ==
  /\ at[s] \in {"confirmed", "service", "snapshot", "health"}
  /\ Out(s)
  /\ IF at[s] \in {"snapshot", "health"} /\ ~service THEN Fine ELSE Fault
  /\ UNCHANGED <<disk, device, app, holder, pc, job>>

-----------------------------------------------------------------------------
(* The environment *)

Crash(s) ==
  /\ at[s] # "out" /\ Out(s) /\ Fault
  /\ IF holder = s THEN Unlock ELSE UNCHANGED <<holder, pc, job>>
  /\ UNCHANGED <<disk, device, app>>

ServiceDies ==
  /\ service /\ service' = FALSE /\ Fault
  /\ UNCHANGED <<disk, device, shown, stages, holder, pc, job>>

(* Another command of the service. *)
OtherCommand ==
  /\ Serves /\ host # None
  /\ UNCHANGED <<host, pending, device, service, stages, holder, pc, job>> /\ Fine

UserMakes(d, a) ==
  /\ Make(d, a) /\ Fault
  /\ UNCHANGED <<disk, app, stages, holder, pc, job>>

UserDeletes(d) ==
  /\ d \in alive /\ Delete(d) /\ made' = made \ {d} /\ Fault
  /\ UNCHANGED <<disk, app, stages, holder, pc, op, base, ids, chosen, target, todo, leaky>>

-----------------------------------------------------------------------------
Provisioning ==
  \/ \E a \in Aliases : Reuse(a) \/ (\E d \in Devices : Create(a, d))
  \/ Rename \/ (RenameFails /\ Fine) \/ Commit \/ Retired \/ Loaded \/ Undone
  \/ (\E d \in Devices : (Retire(d) \/ Undo(d)) /\ Fine) \/ (List /\ Fine)

Command(s) ==
  \/ Confirm(s) \/ ApplyStale(s) \/ ApplyConfigured(s) \/ Apply(s)
  \/ StartService(s) \/ Snapshot(s) \/ Health(s) \/ (StageFails(s) /\ Fine)

Faults ==
  \/ \E a \in Aliases : CreateFails(a)
  \/ (RenameFails /\ Fault) \/ Interrupted \/ CommitFails \/ CommitFailsLate \/ LoadFails
  \/ (\E d \in Devices : (Retire(d) \/ Undo(d)) /\ Fault) \/ (List /\ Fault)
  \/ \E s \in Setups : StartInit(s) \/ (StageFails(s) /\ Fault) \/ Crash(s)

Environment ==
  \/ ServiceDies \/ OtherCommand
  \/ \E d \in Devices : UserDeletes(d) \/ (\E a \in Aliases : UserMakes(d, a))

Next == Provisioning \/ (\E s \in Setups : Command(s)) \/ Faults \/ Environment

(* A worker that has the locks goes on, and so does a command; the user     *)
(* runs setup again, as the error tells him (recoveryCommand).             *)
Fairness == WF_vars(Provisioning) /\ \A s \in Setups : WF_vars(Command(s))

Spec == Init /\ [][Next]_vars /\ Fairness

-----------------------------------------------------------------------------
(* Properties *)

(* A rollback deletes no device that is older than its attempt; a setup     *)
(* nothing but devices that this attempt has made.  It deletes no device of *)
(* the host configuration either, but for a weakness of init: the devices   *)
(* it made itself go also when its write of host.json had taken effect      *)
(* before it failed, and the configuration names them.                     *)
OthersKept ==
  [][\A d \in alive \ alive' : pc = "undo" /\ todo' # todo =>
       /\ d \notin base
       /\ op = "setup" => d \in made \ Configured
       /\ d \in Configured => host = chosen /\ d \in ids]_vars

(* A setup that fails without a host configuration leaves no device behind, *)
(* unless its rollback reported a failure.                                 *)
NothingLeftBehind ==
  [][op = "setup" /\ pc = "undo" /\ pc' = "none" /\ ~leaky /\ todo = {} => made = {}]_vars

(* However a setup, an init or the service was interrupted, setup can be    *)
(* run again and the host gets ready, unless somebody deletes a device that *)
(* the host configuration names: a user, or the init described above.      *)
SetupConverges == <>[](Ready \/ (host # None /\ ~Complete))
=============================================================================
