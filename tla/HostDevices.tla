----------------------------- MODULE HostDevices -----------------------------
(***************************************************************************)
(* The devices the broker makes and deletes, and the host configuration    *)
(* that names them (broker-core/index.mjs): capacity transactions with     *)
(* their journal, rollback and recovery; repair of an alias onto another   *)
(* device; delete of an alias.  All of them hold the capacity lock and the *)
(* lease mutation lock (module BrokerLock), so one command is in progress  *)
(* at a time.                                                              *)
(*                                                                         *)
(* The journal, the host configuration and the devices are changed one     *)
(* after the other: each durable write and each simctl call is a step, the *)
(* process may die between two of them, a call may fail before or after it *)
(* took effect, and the operator makes and deletes devices with other      *)
(* tools at any time.  The broker tells its devices from the operator's by *)
(* the planned name (with device type and runtime) and by which devices of *)
(* that name existed before.                                               *)
(*                                                                         *)
(* Abstracted: a device's name, type and runtime are the alias they are    *)
(* planned for, and an alias is the kind of simulator a purpose requires;   *)
(* which kinds a project needs is a choice; whether a device is available, which decides what   *)
(* a repair does with it, is a choice; leases, pins, health and the        *)
(* registry, which decide whether an alias may be repaired or deleted at   *)
(* all and are part of what a plan's confirmation stands for, are module   *)
(* LeaseBroker.                                                            *)
(***************************************************************************)
EXTENDS Naturals

CONSTANTS
  Aliases,     \* aliases that capacity may add
  Devices,     \* device identifiers, each used at most once
  Txns,        \* capacity transactions
  None,
  MaxCrashes   \* bound: how often a command's process dies

ASSUME DevicesAssumption ==
  /\ None \notin Aliases \cup Devices \cup Txns
  /\ Aliases \cap Devices = {}
  /\ {"unborn", "gone", "other", "host"} \cap Txns = {}
  /\ MaxCrashes \in Nat

VARIABLES
  host,     \* host.json: the device each configured alias names, or None
  pending,  \* host.json pendingRetirements: devices to delete yet
  txn,      \* capacity-transactions/<id>.json
  alive,    \* devices that exist
  name,     \* the alias a device was made for
  pc,       \* control point of the command in progress
  cur,      \* the transaction it works on
  job,      \* its in-memory copy of that transaction
  want,     \* aliases it has still to create a device for
  target,   \* the alias it works on
  made,     \* the device that alias is about to name
  old,      \* the device a repair replaces
  todo,     \* devices it has still to delete
  failed,   \* devices it could not delete, aliases it could not identify
  maker,    \* history: who made a device that exists
  ender,    \* history: the transaction that deleted it, if one did
  before,   \* history: devices that existed when an open transaction began
  blind,    \* history: transactions with an addition that has no baseline
  crashes   \* number of crashes so far

disk    == <<host, pending, txn>>
device  == <<alive, name, maker, ender>>
local   == <<cur, job, want, target, made, old, todo, failed>>
history == <<before, blind, crashes>>
vars    == <<disk, device, pc, local, history>>

Status == {"none", "intent", "creating", "config_committed", "committed_recovery_required",
           "finalized", "failed", "rollback_incomplete", "rolled_back"}
Transactions == [status : Status, planned : SUBSET Aliases,
                 id : [Aliases -> Devices \cup {None}], pre : [Aliases -> SUBSET Devices]]

NoTxn == [status |-> "none", planned |-> {},
          id |-> [a \in Aliases |-> None], pre |-> [a \in Aliases |-> {}]]

Configured == {host[a] : a \in Aliases} \ {None}
Named(a) == {d \in alive : name[d] = a}

Init ==
  /\ host = [a \in Aliases |-> None] /\ pending = {} /\ txn = [t \in Txns |-> NoTxn]
  /\ alive = {} /\ name = [d \in Devices |-> None]
  /\ pc = "idle" /\ cur = None /\ job = NoTxn /\ want = {} /\ target = None
  /\ made = None /\ old = None /\ todo = {} /\ failed = {}
  /\ maker = [d \in Devices |-> "unborn"] /\ ender = [d \in Devices |-> None]
  /\ before = [t \in Txns |-> {}] /\ blind = {} /\ crashes = 0

-----------------------------------------------------------------------------
(* What the steps are made of. *)

(* simctl create and delete, the latter by a transaction or by something else
   (None). *)
Make(d, a, who) ==
  /\ maker[d] = "unborn"
  /\ alive' = alive \cup {d} /\ name' = [name EXCEPT ![d] = a]
  /\ maker' = [maker EXCEPT ![d] = who] /\ UNCHANGED ender

Delete(d, who) ==
  /\ alive' = alive \ {d} /\ name' = [name EXCEPT ![d] = None]
  /\ maker' = [maker EXCEPT ![d] = "gone"]
  /\ ender' = IF d \in alive THEN [ender EXCEPT ![d] = who] ELSE ender

(* The command ends: it returns, or an error leaves it. *)
End ==
  /\ pc' = "idle" /\ cur' = None /\ job' = NoTxn /\ want' = {} /\ target' = None
  /\ made' = None /\ old' = None /\ todo' = {} /\ failed' = {}

(* A command for all simulators of a purpose goes on with the next of them,
   also after one has failed. *)
Continue(place, f) ==
  IF want = {} THEN End
  ELSE \E a \in want :
         /\ pc' = place /\ target' = a /\ want' = want \ {a} /\ failed' = f
         /\ cur' = None /\ job' = NoTxn /\ made' = None /\ old' = None /\ todo' = {}

(* writeCapacityTransaction.  What else the record of a transaction that is
   over says, nobody reads. *)
Journal(t, j) == txn' = [txn EXCEPT ![t] = j] /\ UNCHANGED before
Close(t, s) ==
  /\ txn' = [txn EXCEPT ![t] = [NoTxn EXCEPT !.status = s]]
  /\ before' = [before EXCEPT ![t] = {}]

(* CAPACITY_TERMINAL_TRANSACTION_STATES. *)
Terminal == {"finalized", "rolled_back"}
Open(t) == txn[t].status \notin Terminal \cup {"none"}

(* matchingPlannedCapacityDevices less the baseline: the devices an addition
   without an identifier may have made.  A fault: no baseline. *)
Matches_Any(j, a) == Named(a)
Matches(j, a) == Named(a) \ j.pre[a]

Unresolved(j) == {a \in j.planned : j.id[a] = None}
Ambiguous(j) == {a \in Unresolved(j) : \E d, e \in Matches(j, a) : d # e}

(* resolvePlannedCapacityAdditions, and a fault: nothing is resolved. *)
Resolved_Not(j) == j
Resolved(j) ==
  [j EXCEPT !.id = [a \in Aliases |->
     IF a \in Unresolved(j) \ Ambiguous(j) /\ Matches(j, a) # {}
     THEN CHOOSE d \in Matches(j, a) : TRUE ELSE j.id[a]]]

(* The additions with an identifier. *)
Created(j) == {j.id[a] : a \in j.planned} \ {None}

(* The additions that the host configuration holds, and a fault: the journal is
   believed instead. *)
Present_Journal(j) == IF j.status = "config_committed" THEN j.planned ELSE {}
Present(j) == {a \in j.planned : j.id[a] # None /\ host[a] = j.id[a]}

-----------------------------------------------------------------------------
(* capacity reconcile --apply: first recoverCapacityTransactions. *)

StartApply ==
  /\ pc = "idle" /\ pc' = "recover"
  /\ UNCHANGED <<disk, device, local, history>>

(* resolvePlannedCapacityAdditions for a transaction that is not over. *)
RecoverResolve(t) ==
  /\ pc = "recover" /\ Open(t)
  /\ LET j == Resolved(txn[t]) IN
     IF Ambiguous(txn[t]) # {}
     THEN Journal(t, [j EXCEPT !.status = "rollback_incomplete"]) /\ End
     ELSE /\ Journal(t, j) /\ pc' = "decide" /\ cur' = t
          /\ UNCHANGED <<job, want, target, made, old, todo, failed>>
  /\ UNCHANGED <<host, pending, device, blind, crashes>>

(* Whether the host configuration names its devices tells whether it committed. *)
RecoverFinalize ==
  /\ pc = "decide" /\ txn[cur].planned # {} /\ Present(txn[cur]) = txn[cur].planned
  /\ Close(cur, "finalized")
  /\ pc' = "recover" /\ cur' = None
  /\ UNCHANGED <<host, pending, device, job, want, target, made, old, todo, failed, blind, crashes>>

RecoverFailed ==
  /\ pc = "decide" /\ Present(txn[cur]) \notin {{}, txn[cur].planned}
  /\ Journal(cur, [txn[cur] EXCEPT !.status = "failed"]) /\ End
  /\ UNCHANGED <<host, pending, device, blind, crashes>>

RecoverUndo ==
  /\ pc = "decide" /\ Present(txn[cur]) = {}
  /\ pc' = "recoverDelete" /\ todo' = Created(txn[cur])
  /\ UNCHANGED <<disk, device, cur, job, want, target, made, old, failed, history>>

RecoverDelete(d) ==
  /\ pc = "recoverDelete" /\ d \in todo
  /\ Delete(d, cur) /\ todo' = todo \ {d}
  /\ UNCHANGED <<disk, pc, cur, job, want, target, made, old, failed, history>>

(* The delete fails, or the inventory cannot confirm it. *)
RecoverDeleteFails(d) ==
  /\ pc = "recoverDelete" /\ d \in todo
  /\ Delete(d, cur) \/ UNCHANGED device
  /\ Journal(cur, [txn[cur] EXCEPT !.status = "rollback_incomplete"]) /\ End
  /\ UNCHANGED <<host, pending, blind, crashes>>

RecoverUndone ==
  /\ pc = "recoverDelete" /\ todo = {}
  /\ Close(cur, "rolled_back")
  /\ pc' = "recover" /\ cur' = None
  /\ UNCHANGED <<host, pending, device, job, want, target, made, old, todo, failed, blind, crashes>>

-----------------------------------------------------------------------------
(* applyCapacityPlan. *)

(* evaluatePurposeCapacity: a purpose lacks capacity when nothing configured
   meets its requirement; alone that a matching simulator is leased, pinned or in
   need of repair makes none. *)
Missing == {a \in Aliases : host[a] = None}

(* buildCapacityPlan: one device for each requirement the project's purposes
   share and nothing meets. *)
Plans == SUBSET Missing \ {{}}

Plan(t, S) ==
  /\ pc = "recover" /\ \A u \in Txns : ~Open(u)
  /\ txn[t].status = "none" /\ S \in Plans
  /\ job' = [NoTxn EXCEPT !.status = "intent"] /\ txn' = [txn EXCEPT ![t] = job']
  /\ pc' = "capture" /\ cur' = t /\ want' = S
  /\ before' = [before EXCEPT ![t] = alive]
  /\ UNCHANGED <<host, pending, device, target, made, old, todo, failed, blind, crashes>>

(* A plan that is not the confirmed one any more, because a lease, a pin, the
   health of an alias or the inventory has changed, or that a purpose blocks. *)
PlanRefused ==
  /\ pc = "recover" /\ \A u \in Txns : ~Open(u)
  /\ End /\ UNCHANGED <<disk, device, history>>

(* Nothing is missing: the record of a transaction nobody reads again. *)
NothingMissing(t) ==
  /\ pc = "recover" /\ \A u \in Txns : ~Open(u)
  /\ txn[t].status = "none"
  /\ txn' = [txn EXCEPT ![t].status = "finalized"] /\ End
  /\ UNCHANGED <<host, pending, device, history>>

(* capturePreCreateDeviceIds for the next addition, and the journal. *)
Capture(a) ==
  /\ pc = "capture" /\ a \in want
  /\ job' = [job EXCEPT !.status = "creating", !.planned = @ \cup {a}, !.pre[a] = Named(a)]
  /\ Journal(cur, job')
  /\ want' = want \ {a} /\ target' = a /\ pc' = "create"
  /\ UNCHANGED <<host, pending, device, cur, made, old, todo, failed, blind, crashes>>

(* The listing throws: the addition is in the list, but has no baseline. *)
CaptureFails(a) ==
  /\ pc = "capture" /\ a \in want
  /\ job' = [job EXCEPT !.status = "creating", !.planned = @ \cup {a}]
  /\ blind' = blind \cup {cur} /\ pc' = "undo"
  /\ UNCHANGED <<disk, device, cur, want, target, made, old, todo, failed, before, crashes>>

Create(d) ==
  /\ pc = "create" /\ Make(d, target, cur)
  /\ made' = d /\ pc' = "note"
  /\ UNCHANGED <<disk, cur, job, want, target, old, todo, failed, history>>

(* simctl create fails, without a device or after it made one. *)
CreateFails ==
  /\ pc = "create"
  /\ UNCHANGED device \/ \E d \in Devices : Make(d, target, cur)
  /\ pc' = "undo"
  /\ UNCHANGED <<disk, local, history>>

Note ==
  /\ pc = "note"
  /\ job' = [job EXCEPT !.id[target] = made] /\ Journal(cur, job')
  /\ target' = None /\ made' = None /\ pc' = "capture"
  /\ UNCHANGED <<host, pending, device, cur, want, old, todo, failed, blind, crashes>>

(* writeJsonAtomicDurable of the current configuration and the additions; the
   rename is the commit point. *)
Commit ==
  /\ pc = "capture" /\ want = {}
  /\ host' = [a \in Aliases |-> IF a \in job.planned THEN job.id[a] ELSE host[a]]
  /\ pc' = "committed"
  /\ UNCHANGED <<pending, txn, device, local, history>>

CommitFails ==
  /\ pc = "capture" /\ want = {} /\ pc' = "undo"
  /\ UNCHANGED <<disk, device, local, history>>

Committed ==
  /\ pc = "committed"
  /\ job' = [job EXCEPT !.status = "config_committed"] /\ Journal(cur, job')
  /\ pc' = "audit"
  /\ UNCHANGED <<host, pending, device, cur, want, target, made, old, todo, failed, blind, crashes>>

Finalize ==
  /\ pc = "audit"
  /\ Close(cur, "finalized") /\ End
  /\ UNCHANGED <<host, pending, device, blind, crashes>>

(* Syncing the directory or the audit after the commit fails. *)
RequireRecovery ==
  /\ pc \in {"committed", "audit"}
  /\ Journal(cur, [job EXCEPT !.status = "committed_recovery_required"]) /\ End
  /\ UNCHANGED <<host, pending, device, blind, crashes>>

(* rollbackCapacityTransaction. *)
Undo ==
  /\ pc = "undo"
  /\ job' = Resolved(job) /\ failed' = Ambiguous(job) /\ todo' = Created(job')
  /\ pc' = "undoDelete"
  /\ UNCHANGED <<disk, device, cur, want, target, made, old, history>>

(* The listing fails again: the error leaves the journal as it is. *)
UndoFails ==
  /\ pc = "undo" /\ Unresolved(job) # {} /\ End
  /\ UNCHANGED <<disk, device, history>>

UndoDelete(d) ==
  /\ pc = "undoDelete" /\ d \in todo /\ todo' = todo \ {d}
  /\ \/ Delete(d, cur) /\ failed' \in {failed, failed \cup {d}}
     \/ UNCHANGED device /\ failed' = failed \cup {d}
  /\ UNCHANGED <<disk, pc, cur, job, want, target, made, old, history>>

Undone ==
  /\ pc = "undoDelete" /\ todo = {}
  /\ IF failed = {} THEN Close(cur, "rolled_back")
     ELSE Journal(cur, [job EXCEPT !.status = "rollback_incomplete"])
  /\ End /\ UNCHANGED <<host, pending, device, blind, crashes>>

-----------------------------------------------------------------------------
(* Repair of an alias: repairHostAlias. *)

Start(S, place) ==
  /\ pc = "idle" /\ \A a \in S : host[a] # None
  /\ \E a \in S : target' = a /\ want' = S \ {a} /\ pc' = place
  /\ UNCHANGED <<disk, device, cur, job, made, old, todo, failed, history>>

StartRepair(a) == Start({a}, "repair")

(* repairPurposeSimulatorsBroker: the unhealthy ones of a purpose that are not
   held. *)
StartPurposeRepair(S) == Start(S, "repair")

(* ensureAliasSimulator: the current device will do, though its name may not. *)
RepairKeep ==
  /\ pc = "repair" /\ host[target] \in alive
  /\ name' = [name EXCEPT ![host[target]] = target]
  /\ made' = host[target] /\ pc' = "repoint"
  /\ UNCHANGED <<disk, alive, maker, ender, cur, job, want, target, old, todo, failed, history>>

Replaced == IF host[target] \in alive THEN host[target] ELSE None

(* Another device of that name will do. *)
RepairReuse(d) ==
  /\ pc = "repair" /\ d \in Named(target) \ {host[target]}
  /\ made' = d /\ old' = Replaced /\ pc' = "repoint"
  /\ UNCHANGED <<disk, device, cur, job, want, target, todo, failed, history>>

RepairCreate(d) ==
  /\ pc = "repair" /\ Make(d, target, "host")
  /\ made' = d /\ old' = Replaced /\ todo' = {d} /\ pc' = "repoint"
  /\ UNCHANGED <<disk, cur, job, want, target, failed, history>>

(* The configuration names the new device; the old one is to be retired.  A
   fault: it is not. *)
Repoint_Forget == host' = [host EXCEPT ![target] = made] /\ UNCHANGED pending
Repoint ==
  /\ host' = [host EXCEPT ![target] = made]
  /\ pending' = pending \cup ({old} \ {None})

RepairCommit ==
  /\ pc = "repoint" /\ Repoint
  /\ todo' = (pending' \cap alive) \ {host'[a] : a \in Aliases} /\ pc' = "retire"
  /\ UNCHANGED <<txn, device, cur, job, want, target, made, old, failed, history>>

(* The write fails after the rename, or before it: then a created device is
   deleted, if that works. *)
RepairCommitFails ==
  /\ pc = "repoint" /\ Continue("repair", {})
  /\ \/ Repoint /\ UNCHANGED device
     \/ UNCHANGED <<host, pending, device>>
     \/ \E d \in todo : Delete(d, None) /\ UNCHANGED <<host, pending>>
  /\ UNCHANGED <<txn, history>>

(* retirePendingHostSimulators. *)
Retire(d) ==
  /\ pc = "retire" /\ d \in todo /\ todo' = todo \ {d}
  /\ \/ Delete(d, None) /\ failed' \in {failed, failed \cup {d}}
     \/ UNCHANGED device /\ failed' = failed \cup {d}
  /\ UNCHANGED <<disk, pc, cur, job, want, target, made, old, history>>

Retired ==
  /\ pc = "retire" /\ todo = {}
  /\ pending' = failed /\ Continue("repair", {})
  /\ UNCHANGED <<host, txn, device, history>>

(* A listing, the create or the last write of the configuration fails. *)
RepairFails ==
  /\ pc \in {"repair", "retire"} /\ Continue("repair", {})
  /\ UNCHANGED <<disk, device, history>>

(* The create fails after it made the device. *)
RepairCreateFails ==
  /\ pc = "repair" /\ Continue("repair", {})
  /\ \E d \in Devices : Make(d, target, "host")
  /\ UNCHANGED <<disk, history>>

-----------------------------------------------------------------------------
(* Delete of an alias: deleteAliasUnderHeldLocks, for an alias no lease or pin
   holds. *)

StartDelete(a) == Start({a}, "delete")

(* deletePurposeSimulatorsBroker: those of a purpose whose drift asks for it and
   which are not held, by the state read at the beginning. *)
StartPurposeDelete(S) == Start(S, "delete")

(* A device that is absent already is no error. *)
DeleteDevice ==
  /\ pc = "delete" /\ Delete(host[target], None) /\ pc' = "forget"
  /\ UNCHANGED <<disk, local, history>>

DeleteFails ==
  /\ pc = "delete" /\ Continue("delete", failed)
  /\ Delete(host[target], None) \/ UNCHANGED device
  /\ UNCHANGED <<disk, history>>

(* removeDeletedAliasRecords: the configuration in memory has lost the alias
   before it is written; an alias whose write failed goes with the next one. *)
Dropped == host' = [a \in Aliases |-> IF a \in failed \cup {target} THEN None ELSE host[a]]

Forget ==
  /\ pc = "forget" /\ Dropped /\ Continue("delete", {})
  /\ UNCHANGED <<pending, txn, device, history>>

(* The write fails before the rename, or after it. *)
ForgetFails ==
  /\ pc = "forget"
  /\ UNCHANGED host \/ Dropped
  /\ Continue("delete", failed \cup {target})
  /\ UNCHANGED <<pending, txn, device, history>>

-----------------------------------------------------------------------------
(* recoverCapacityTransactions cannot read a record or list the devices. *)
RecoverGivesUp ==
  /\ pc = "recover" /\ (\E t \in Txns : Open(t)) /\ End
  /\ UNCHANGED <<disk, device, history>>

Crash ==
  /\ pc # "idle" /\ crashes < MaxCrashes
  /\ crashes' = crashes + 1 /\ End
  /\ UNCHANGED <<disk, device, before, blind>>

OperatorMakes(d, a) ==
  /\ Make(d, a, "other") /\ UNCHANGED <<disk, pc, local, history>>

OperatorDeletes(d) ==
  /\ d \in alive /\ Delete(d, None) /\ UNCHANGED <<disk, pc, local, history>>

Recover ==
  \/ StartApply \/ RecoverGivesUp \/ RecoverFinalize \/ RecoverFailed \/ RecoverUndo \/ RecoverUndone
  \/ \E t \in Txns : RecoverResolve(t)
  \/ \E d \in Devices : RecoverDelete(d) \/ RecoverDeleteFails(d)

Apply ==
  \/ \E t \in Txns : NothingMissing(t) \/ \E S \in SUBSET Aliases : Plan(t, S)
  \/ \E a \in Aliases : Capture(a) \/ CaptureFails(a)
  \/ \E d \in Devices : Create(d) \/ UndoDelete(d)
  \/ PlanRefused \/ CreateFails \/ Note \/ Commit \/ CommitFails \/ Committed \/ Finalize
  \/ RequireRecovery \/ Undo \/ UndoFails \/ Undone

Repair ==
  \/ \E a \in Aliases : StartRepair(a)
  \/ \E S \in SUBSET Aliases : StartPurposeRepair(S)
  \/ \E d \in Devices : RepairReuse(d) \/ RepairCreate(d) \/ Retire(d)
  \/ RepairKeep \/ RepairCommit \/ RepairCommitFails \/ RepairFails \/ RepairCreateFails \/ Retired

Remove ==
  \/ \E a \in Aliases : StartDelete(a)
  \/ \E S \in SUBSET Aliases : StartPurposeDelete(S)
  \/ DeleteDevice \/ DeleteFails \/ Forget \/ ForgetFails

Environment ==
  \/ Crash
  \/ \E d \in Devices : OperatorDeletes(d) \/ \E a \in Aliases : OperatorMakes(d, a)

Next == Recover \/ Apply \/ Repair \/ Remove \/ Environment

Spec == Init /\ [][Next]_vars

-----------------------------------------------------------------------------
(* Properties. *)

(* Every variable has its type. *)
TypeOK ==
  /\ host \in [Aliases -> Devices \cup {None}] /\ pending \subseteq Devices
  /\ txn \in [Txns -> Transactions] /\ job \in Transactions
  /\ alive \subseteq Devices /\ name \in [Devices -> Aliases \cup {None}]
  /\ pc \in {"idle", "recover", "decide", "recoverDelete", "capture", "create", "note",
             "committed", "audit", "undo", "undoDelete", "repair", "repoint", "retire",
             "delete", "forget"}
  /\ cur \in Txns \cup {None} /\ want \subseteq Aliases /\ target \in Aliases \cup {None}
  /\ made \in Devices \cup {None} /\ old \in Devices \cup {None}
  /\ todo \subseteq Devices /\ failed \subseteq Devices \cup Aliases
  /\ maker \in [Devices -> Txns \cup {"unborn", "gone", "other", "host"}]
  /\ ender \in [Devices -> Txns \cup {None}]
  /\ before \in [Txns -> SUBSET Devices] /\ blind \subseteq Txns /\ crashes \in 0..MaxCrashes

(* A transaction, in its rollback or its recovery, deletes no device that
   existed before it began, in whatever command and after whatever crash: one
   that merely has the planned name was the operator's, or the remains of
   something else (rollbackCapacityTransaction, recoverCapacityTransactions).
   A transaction in blind is excepted: the listing that was to be the baseline of
   an addition failed after the addition was noted, and the code takes the missing
   baseline for an empty one. *)
BaselineKept ==
  \A t \in Txns \ blind, d \in Devices : ender[d] = t => d \notin before[t]

(* No transaction deletes a device that the host configuration names, whatever
   happened between its commit and its recovery. *)
ConfiguredKept == \A d \in Devices : ender[d] \in Txns => d \notin Configured

(* When a transaction is recorded as rolled back, every device it made is gone,
   also the one whose identifier was lost with the process that created it. *)
RollbackComplete ==
  \A t \in Txns, d \in alive : txn[t].status = "rolled_back" => maker[d] # t

(* No device a transaction made is forgotten: the host configuration names it,
   or it awaits retirement, or the journal leads recovery to it. *)
AccountedFor ==
  \A d \in alive : maker[d] \in Txns =>
    \/ d \in Configured \cup pending
    \/ txn[maker[d]].status \notin {"none", "finalized", "rolled_back"}
=============================================================================
