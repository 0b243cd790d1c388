------------------------- MODULE LeaseBroker_proofs -------------------------
(***************************************************************************)
(* Proofs about LeaseBroker: for all sets of aliases, leases, owners and   *)
(* projects, all classes and thresholds and any number of crashes.         *)
(*                                                                         *)
(* Part one, from IInv: types, one lease per alias, pins.  Part two, from  *)
(* Accord: registry, lease files and health agree, and what no step of the *)
(* broker may do to a live lease, to a device in use and to an alias that  *)
(* waits for its repair.                                                   *)
(***************************************************************************)
EXTENDS LeaseBroker, TLAPS

(* The commands that load their lease before they load the state. *)
LeaseKinds == {"release", "contain", "register"}

AcquireControl == {"record", "activate", "reset", "resetDone", "boot", "bootDone",
                   "return", "rollback", "rollbackUnlink"}

(* What a command knows of its parameters and of the leases it examines. *)
CommandOK ==
  /\ pc \in AcquireControl => cmd.kind = "acquire"
  /\ pc = "unlink" => cmd.kind = "release"
  /\ pc \in {"revokeUnlink", "repair", "write"} => cmd.kind \in Lifecycle
  /\ pc \in {"load", "loadUnlink"} => todo \subseteq Files
  /\ pc = "loadUnlink" => victim \in Files \ todo
  /\ cmd.kind = "acquire" =>
       /\ cmd.lease \in Leases /\ cmd.project \in Projects /\ cmd.owner \in Owners
       /\ pc \in AcquireControl \cup {"reclaim"} => cmd.alias \in Aliases
  /\ cmd.kind \in LeaseKinds =>
       /\ cmd.lease \in Leases /\ cmd.alias \in Aliases
       /\ pc \in {"load", "loadUnlink", "work"} => file[cmd.lease] # None
       /\ pc \in {"load", "loadUnlink"} => cmd.lease \notin todo
       /\ pc = "loadUnlink" => cmd.lease # victim
  /\ cmd.kind \in Lifecycle \cup {"pin", "unpin"} => cmd.alias \in Aliases

(* The alias an acquire has selected stays free, and pinned for nobody else,
   until the lease is recorded. *)
SelectionHolds ==
  cmd.kind = "acquire" /\ pc \in {"reclaim", "record"} =>
    LeasesOn(cmd.alias) = {} /\ pin[cmd.alias] \in {None, cmd.project}

(* The inductive invariant. *)
IInv == TypeOK /\ CommandOK /\ OneLeasePerAlias /\ PinRespected /\ SelectionHolds

-----------------------------------------------------------------------------
(* The operators on registry entries keep their type. *)
LEMMA EntryTypes ==
  ASSUME NEW e \in Entry
  PROVE  /\ Released(e) \in Entry
         /\ Healthy(e) \in Entry
         /\ [e EXCEPT !.uses = 0] \in Entry
         /\ [e EXCEPT !.active = None] \in Entry
         /\ \A l \in Leases : [e EXCEPT !.active = l] \in Entry
         /\ [e EXCEPT !.health = "repairing"] \in Entry
         /\ \A why \in Drift : Broken(e, why) \in Entry
<1> USE BrokerAssumption DEF Entry
<1>1. Released(e) \in Entry
  <2>1. Least(e.uses + 1, MaxUses) \in 0..MaxUses
    BY DEF Least
  <2>2. "fresh" \in Rest
    BY DEF Rest
  <2> QED BY <2>1, <2>2 DEF Released
<1>2. /\ Healthy(e) \in Entry
      /\ [e EXCEPT !.active = None] \in Entry
      /\ \A l \in Leases : [e EXCEPT !.active = l] \in Entry
      /\ [e EXCEPT !.health = "repairing"] \in Entry
  BY DEF Healthy, Drift
<1>3. [e EXCEPT !.uses = 0] \in Entry
  OBVIOUS
<1>4. \A why \in Drift : Broken(e, why) \in Entry
  BY DEF Broken
<1> QED BY <1>1, <1>2, <1>3, <1>4

(* Writing an entry into a registry gives a registry. *)
LEMMA ChangeType ==
  ASSUME NEW m \in Registry, NEW a, NEW e \in Entry
  PROVE  Change(m, a, e) \in Registry
BY DEF Change, Registry

(* The registry initBroker writes. *)
LEMMA BlankType == Blank \in Registry
BY BrokerAssumption DEF Blank, Registry, Entry, Drift, Rest

(* The initial state satisfies the invariant. *)
LEMMA InitInv == Init => IInv
<1> SUFFICES ASSUME Init PROVE IInv
  OBVIOUS
<1> USE BrokerAssumption DEF Init
<1>1. TypeOK
  BY BlankType DEF TypeOK, NoCmd, Control, Rest
<1>2. CommandOK
  BY DEF CommandOK, NoCmd, LeaseKinds, Lifecycle, AcquireControl
<1>3. OneLeasePerAlias /\ PinRespected /\ SelectionHolds
  BY DEF OneLeasePerAlias, PinRespected, SelectionHolds, Files, NoCmd
<1> QED BY <1>1, <1>2, <1>3 DEF IInv

-----------------------------------------------------------------------------
(* Type correctness, action by action. *)

(* Removing a lease file keeps the files' and the history's types. *)
LEMMA RemoveFileType ==
  ASSUME TypeOK, NEW l, RemoveFile(l)
  PROVE  /\ file' \in [Leases -> Records \cup {None}]
         /\ handed' \subseteq Leases
         /\ used' \in [Aliases -> 0..(MaxUses + MaxCrashes)]
         /\ ended' \in [Aliases -> Rest]
         /\ crashes' \in 0..MaxCrashes
<1> DEFINE a == file[l].alias
<1>1. \A n \in 0..(MaxUses + MaxCrashes) :
        Least(n + 1, MaxUses + MaxCrashes) \in 0..(MaxUses + MaxCrashes)
  BY BrokerAssumption DEF Least
<1>2. used' \in [Aliases -> 0..(MaxUses + MaxCrashes)]
  BY <1>1 DEF RemoveFile, TypeOK
<1>3. ended' \in [Aliases -> Rest]
  BY DEF RemoveFile, TypeOK, Rest
<1> QED BY <1>2, <1>3 DEF RemoveFile, TypeOK

(* So does erasing a device. *)
LEMMA EraseType ==
  ASSUME TypeOK, NEW a \in Aliases, Erase(a)
  PROVE  /\ booted' \subseteq Aliases /\ clean' \subseteq Aliases /\ avail' \subseteq Aliases
         /\ handed' \subseteq Leases
         /\ used' \in [Aliases -> 0..(MaxUses + MaxCrashes)]
         /\ ended' \in [Aliases -> Rest]
         /\ crashes' \in 0..MaxCrashes
BY BrokerAssumption DEF Erase, TypeOK

(* The end of a command leaves well-typed locals. *)
LEMMA ForgetType ==
  ASSUME ForgetCommand
  PROVE  /\ cmd' \in [kind : Kinds \cup {"none"}, lease : Leases \cup {None},
                      alias : Aliases \cup {None}, project : Projects \cup {None},
                      owner : Owners \cup {None}]
         /\ pc' \in Control /\ mem' \in Registry /\ undo' \in Registry
         /\ todo' \subseteq Leases \cup Aliases /\ victim' \in Leases \cup {None}
BY BlankType DEF ForgetCommand, NoCmd, Control

(* syncRegistryWithSimctl turns entries into entries. *)
LEMMA SyncedType ==
  ASSUME NEW a \in Aliases, NEW e \in Entry
  PROVE  Synced(a, e) \in Entry
<1>1. /\ Healthy(e) \in Entry
      /\ e.drift \in Drift
      /\ \A why \in Drift : Broken(e, why) \in Entry
  BY EntryTypes DEF Entry
<1>2. {"none", "simulator-missing", "repair-interrupted", "slot-reclaim-failed"} \subseteq Drift
  BY DEF Drift
<1> QED BY <1>1, <1>2 DEF Synced

(* Starting a command keeps the types. *)
LEMMA TypeRequest == IInv /\ Request => TypeOK'
<1> SUFFICES ASSUME IInv, Request PROVE TypeOK'
  OBVIOUS
<1> USE DEF IInv, Start, disk, device, history
<1>1. ASSUME NEW l \in Leases, NEW q \in Projects, NEW o \in Owners, StartAcquire(l, q, o)
      PROVE  TypeOK'
  BY <1>1 DEF StartAcquire, TypeOK, NoCmd, Files, Control
<1>2. ASSUME NEW k \in Kinds, NEW l \in Leases, NEW o \in alive \cup {None}, StartLease(k, l, o)
      PROVE  TypeOK'
  BY <1>2 DEF StartLease, TypeOK, NoCmd, Files, Control, Records
<1>3. ASSUME NEW k \in Kinds, NEW a \in Aliases, NEW l \in Files \cup {None}, StartLifecycle(k, a, l)
      PROVE  TypeOK'
  BY <1>3 DEF StartLifecycle, TypeOK, NoCmd, Files, Control
<1>4. ASSUME NEW a \in Aliases, NEW q \in Projects, StartPin(a, q)
      PROVE  TypeOK'
  BY <1>4 DEF StartPin, TypeOK, NoCmd, Files, Control
<1>5. ASSUME NEW a \in Aliases, StartUnpin(a)
      PROVE  TypeOK'
  BY <1>5 DEF StartUnpin, TypeOK, NoCmd, Files, Control
<1>6. ASSUME NEW k \in Kinds, StartPlain(k)
      PROVE  TypeOK'
  BY <1>6 DEF StartPlain, TypeOK, NoCmd, Files, Control
<1>7. CASE StartCleanup
  <2>1. mem' \in Registry
    BY <1>7, SyncedType DEF StartCleanup, TypeOK, Registry
  <2>2. todo' \subseteq Aliases
    BY <1>7 DEF StartCleanup
  <2> QED BY <2>1, <2>2, <1>7 DEF StartCleanup, TypeOK, NoCmd, Control
<1> QED BY <1>1, <1>2, <1>3, <1>4, <1>5, <1>6, <1>7 DEF Request

(* The steps of a load keep the types. *)
LEMMA TypeLoad == IInv /\ Load => TypeOK'
<1> SUFFICES ASSUME IInv, Load PROVE TypeOK'
  OBVIOUS
<1> USE DEF IInv, disk, device, history, Goto
<1>0. ASSUME NEW l \in Leases, Examined(l) PROVE mem[file[l].alias] \in Entry
  BY <1>0 DEF Examined, CommandOK, TypeOK, Files, Records, Registry
<1>1. ASSUME NEW l \in Leases, LoadLeftover(l) PROVE TypeOK'
  BY <1>1, RemoveFileType DEF LoadLeftover, Examined, TypeOK, Control
<1>2. ASSUME NEW l \in Leases, LoadKeep(l) PROVE TypeOK'
  BY <1>2 DEF LoadKeep, Examined, TypeOK, Control
<1>3. ASSUME NEW l \in Leases, LoadStale(l) PROVE TypeOK'
  <2>1. mem' \in Registry
    BY <1>0, <1>3, EntryTypes, ChangeType DEF LoadStale, TypeOK
  <2> QED BY <2>1, <1>3, RemoveFileType DEF LoadStale, Examined, TypeOK, Control
<1>4. ASSUME NEW l \in Leases, LoadContain(l) PROVE TypeOK'
  <2>1. mem' \in Registry /\ reg' \in Registry
    BY <1>0, <1>4, EntryTypes, ChangeType DEF LoadContain, Persist, TypeOK
  <2> QED BY <2>1, <1>4 DEF LoadContain, Examined, TypeOK, Control
<1>5. CASE LoadUnlink
  BY <1>5, RemoveFileType DEF LoadUnlink, TypeOK, Control
<1>6. CASE LoadSync
  <2>1. ASSUME NEW a \in Aliases PROVE Rebuilt(a) \in Entry
    BY EntryTypes DEF Rebuilt, TypeOK, Registry, LeasesOn, Files
  <2>2. mem' \in Registry /\ reg' \in Registry
    BY <1>6, <2>1, SyncedType DEF LoadSync, Persist, Registry
  <2> QED BY <2>2, <1>6 DEF LoadSync, TypeOK, Control
<1>7. CASE Refresh
  BY <1>7, ForgetType DEF Refresh, Working, Done, TypeOK
<1> QED BY <1>1, <1>2, <1>3, <1>4, <1>5, <1>6, <1>7 DEF Load

(* Slot reclaim and idle shutdown keep the types. *)
LEMMA TypeIdle == IInv /\ Idle => TypeOK'
<1> SUFFICES ASSUME IInv, Idle PROVE TypeOK'
  OBVIOUS
<1> USE DEF IInv, disk, device, history, Goto
<1>0. ASSUME NEW a \in Aliases PROVE mem[a] \in Entry
  BY DEF TypeOK, Registry
<1>1. ASSUME NEW a \in Aliases, ReclaimSkip(a) PROVE TypeOK'
  BY <1>1 DEF ReclaimSkip, Visit, TypeOK, Control
<1>2. ASSUME NEW a \in Aliases, ReclaimErase(a) PROVE TypeOK'
  <2>1. mem' \in Registry
    BY <1>0, <1>2, EntryTypes, ChangeType DEF ReclaimErase, TypeOK
  <2> QED BY <2>1, <1>2, EraseType DEF ReclaimErase, Visit, TypeOK, Control
<1>3. ASSUME NEW a \in Aliases, ReclaimFails(a) PROVE TypeOK'
  <2>1. mem' \in Registry
    BY <1>0, <1>3, EntryTypes, ChangeType DEF ReclaimFails, TypeOK, Drift
  <2> QED BY <2>1, <1>3 DEF ReclaimFails, Visit, TypeOK, Control
<1>4. ASSUME NEW a \in Aliases, IdleShutdown(a) PROVE TypeOK'
  BY <1>4 DEF IdleShutdown, IdleStep, TypeOK, Control
<1>5. ASSUME NEW a \in Aliases, IdleShutdownFails(a) PROVE TypeOK'
  <2>1. mem' \in Registry /\ reg' \in Registry
    BY <1>0, <1>5, EntryTypes, ChangeType DEF IdleShutdownFails, Persist, TypeOK, Drift
  <2> QED BY <2>1, <1>5 DEF IdleShutdownFails, IdleStep, TypeOK, Control
<1>6. CASE ReclaimEnd
  BY <1>6, ForgetType DEF ReclaimEnd, DoneWriting, Persist, TypeOK, Control
<1>7. CASE IdleEnd
  BY <1>7, ForgetType DEF IdleEnd, DoneWriting, TypeOK
<1> QED BY <1>1, <1>2, <1>3, <1>4, <1>5, <1>6, <1>7 DEF Idle

(* The steps of an acquire keep the types. *)
LEMMA TypeAcquire == IInv /\ Acquire => TypeOK'
<1> SUFFICES ASSUME IInv, Acquire PROVE TypeOK'
  OBVIOUS
<1> USE DEF IInv, disk, device, history, Goto
<1>0. ASSUME pc \in AcquireControl PROVE cmd.alias \in Aliases /\ mem[cmd.alias] \in Entry
  BY <1>0 DEF CommandOK, TypeOK, Registry
<1>1. CASE AcquireSelect
  BY <1>1 DEF AcquireSelect, Working, TypeOK, Control
<1>2. CASE AcquireRejected
  BY <1>2, ForgetType DEF AcquireRejected, Working, Done, TypeOK
<1>3. CASE AcquireRecord
  BY <1>3 DEF AcquireRecord, CommandOK, AcquireControl, TypeOK, Control, Records
<1>4. CASE AcquireActivate
  <2>1. mem' \in Registry /\ reg' \in Registry
    BY <1>0, <1>4, EntryTypes, ChangeType DEF AcquireActivate, AcquireControl, CommandOK, Persist, TypeOK
  <2> QED BY <2>1, <1>4 DEF AcquireActivate, TypeOK, Control
<1>5. CASE AcquireActivateFails
  BY <1>5, ForgetType, RemoveFileType DEF AcquireActivateFails, TypeOK
<1>6. CASE AcquireNoReset
  BY <1>6 DEF AcquireNoReset, TypeOK, Control
<1>7. CASE AcquireReset
  <2>1. cmd.alias \in Aliases /\ mem' \in Registry
    BY <1>0, <1>7, EntryTypes, ChangeType DEF AcquireReset, AcquireControl, TypeOK
  <2> QED BY <2>1, <1>7, EraseType DEF AcquireReset, TypeOK, Control
<1>8. CASE AcquireResetDone
  BY <1>8 DEF AcquireResetDone, Persist, TypeOK, Control
<1>9. CASE AcquireBoot
  <2>1. mem' \in Registry
    <3>1. Change(mem, cmd.alias, Healthy(mem[cmd.alias])) \in Registry
      BY <1>0, <1>9, EntryTypes, ChangeType DEF AcquireBoot, AcquireControl, TypeOK
    <3>2. mem' \in {mem, Change(mem, cmd.alias, Healthy(mem[cmd.alias]))}
      BY <1>9 DEF AcquireBoot
    <3> QED BY <3>1, <3>2 DEF TypeOK
  <2> QED BY <2>1, <1>0, <1>9 DEF AcquireBoot, AcquireControl, TypeOK, Control
<1>10. CASE AcquireBootDone
  BY <1>10 DEF AcquireBootDone, Persist, TypeOK, Control
<1>11. CASE AcquireReturn
  BY <1>11, ForgetType DEF AcquireReturn, CommandOK, AcquireControl, TypeOK
<1>12. CASE AcquireFails
  <2>1. mem' \in Registry
    <3> DEFINE why == IF pc \in {"reset", "resetDone"} THEN "reset-on-acquire-failed"
                                                       ELSE "boot-on-acquire-failed"
    <3> DEFINE e == Broken(mem[cmd.alias], why)
    <3>1. why \in Drift
      BY DEF Drift
    <3>2. e \in Entry
      BY <3>1, <1>0, <1>12, EntryTypes DEF AcquireFails, AcquireControl
    <3>3. [e EXCEPT !.active = None] \in Entry
      BY <3>2, EntryTypes
    <3>4. mem' = Change(mem, cmd.alias, [e EXCEPT !.active = None])
      BY <1>12 DEF AcquireFails
    <3> QED BY <3>3, <3>4, ChangeType DEF TypeOK
  <2> QED BY <2>1, <1>12 DEF AcquireFails, TypeOK, Control
<1>13. CASE AcquireRollback
  BY <1>13 DEF AcquireRollback, Persist, TypeOK, Control
<1>14. CASE AcquireRolledBack
  BY <1>14, ForgetType, RemoveFileType DEF AcquireRolledBack, TypeOK
<1>15. CASE AcquireRollbackFails
  BY <1>15, ForgetType DEF AcquireRollbackFails, Done, TypeOK
<1> QED BY <1>1, <1>2, <1>3, <1>4, <1>5, <1>6, <1>7, <1>8, <1>9, <1>10, <1>11, <1>12,
           <1>13, <1>14, <1>15 DEF Acquire

(* The steps of release, contain and register keep the types. *)
LEMMA TypeEndLease == IInv /\ EndLease => TypeOK'
<1> SUFFICES ASSUME IInv, EndLease PROVE TypeOK'
  OBVIOUS
<1> USE DEF IInv, disk, device, history, Goto
<1>0. ASSUME cmd.kind \in LeaseKinds PROVE cmd.alias \in Aliases /\ mem[cmd.alias] \in Entry
  BY <1>0 DEF CommandOK, TypeOK, Registry
<1>1. CASE ReleaseLease
  <2>1. mem' \in Registry /\ reg' \in Registry
    BY <1>0, <1>1, EntryTypes, ChangeType DEF ReleaseLease, Working, LeaseKinds, Persist, TypeOK
  <2> QED BY <2>1, <1>1 DEF ReleaseLease, Working, TypeOK, Control
<1>2. CASE ReleaseUnlink
  <2>1. cmd.alias \in Aliases
    BY <1>0, <1>2 DEF ReleaseUnlink, CommandOK, LeaseKinds
  <2> QED BY <2>1, <1>2, BlankType, RemoveFileType DEF ReleaseUnlink, TypeOK, Control
<1>3. CASE ReleaseRestore
  BY <1>3, ForgetType DEF ReleaseRestore, DoneWriting, TypeOK
<1>4. CASE Contain
  <2>1. mem' \in Registry /\ reg' \in Registry
    BY <1>0, <1>4, EntryTypes, ChangeType DEF Contain, Working, LeaseKinds, Persist, TypeOK
  <2> QED BY <2>1, <1>4 DEF Contain, Working, TypeOK, Control
<1>5. CASE ContainUnlink
  BY <1>5, ForgetType, RemoveFileType DEF ContainUnlink, TypeOK
<1>6. CASE Register
  <2>1. cmd.lease \in Leases /\ file[cmd.lease] \in Records /\ cmd.owner \in Owners \cup {None}
    BY <1>6 DEF Register, Working, CommandOK, LeaseKinds, TypeOK
  <2>2. file' \in [Leases -> Records \cup {None}]
    BY <2>1, <1>6 DEF Register, TypeOK, Records
  <2> QED BY <2>2, <1>6, ForgetType DEF Register, Working, TypeOK
<1>7. CASE LeaseCommandEnds
  BY <1>7, ForgetType DEF LeaseCommandEnds, Working, Done, TypeOK
<1> QED BY <1>1, <1>2, <1>3, <1>4, <1>5, <1>6, <1>7 DEF EndLease

(* Pinning and unpinning keep the types. *)
LEMMA TypePin == IInv /\ PinCommand => TypeOK'
<1> SUFFICES ASSUME IInv, PinCommand PROVE TypeOK'
  OBVIOUS
<1> USE DEF IInv, disk, device, history
<1>1. CASE Pin
  BY <1>1, ForgetType DEF Pin, Working, TypeOK
<1>2. CASE Unpin
  BY <1>2, ForgetType DEF Unpin, Working, TypeOK
<1>3. CASE PinRejected
  BY <1>3, ForgetType DEF PinRejected, Working, Done, TypeOK
<1> QED BY <1>1, <1>2, <1>3 DEF PinCommand

(* Boot, shutdown, erase and repair keep the types. *)
LEMMA TypeLifecycle == IInv /\ LifecycleStep => TypeOK'
<1> SUFFICES ASSUME IInv, LifecycleStep PROVE TypeOK'
  OBVIOUS
<1> USE DEF IInv, disk, device, history, Goto
<1>0. ASSUME cmd.kind \in Lifecycle PROVE cmd.alias \in Aliases /\ mem[cmd.alias] \in Entry
  BY <1>0 DEF CommandOK, TypeOK, Registry
<1>1. CASE LifecycleRejected
  BY <1>1, ForgetType DEF LifecycleRejected, Done, TypeOK
<1>2. CASE BootOrShutdown
  <2>1. cmd.alias \in Aliases /\ mem' \in Registry
    BY <1>0, <1>2, EntryTypes, ChangeType DEF BootOrShutdown, Lifecycle, TypeOK
  <2> QED BY <2>1, <1>2 DEF BootOrShutdown, TypeOK, Control
<1>3. CASE EraseDevice
  <2>1. cmd.alias \in Aliases /\ mem' \in Registry
    BY <1>0, <1>3, EntryTypes, ChangeType DEF EraseDevice, Working, Lifecycle, TypeOK
  <2> QED BY <2>1, <1>3, EraseType DEF EraseDevice, Working, TypeOK, Control
<1>4. CASE EraseFails
  BY <1>4, ForgetType DEF EraseFails, Working, TypeOK
<1>5. CASE LifecycleWrite
  BY <1>5, ForgetType DEF LifecycleWrite, DoneWriting, TypeOK
<1>6. CASE Revoke
  <2>1. mem' \in Registry /\ reg' \in Registry
    BY <1>0, <1>6, EntryTypes, ChangeType DEF Revoke, Working, Lifecycle, Persist, TypeOK
  <2> QED BY <2>1, <1>6 DEF Revoke, Working, TypeOK, Control
<1>7. CASE RevokeUnlink
  BY <1>7, RemoveFileType DEF RevokeUnlink, TypeOK, Control
<1>8. CASE RepairStart
  <2>1. mem' \in Registry /\ reg' \in Registry
    BY <1>0, <1>8, EntryTypes, ChangeType DEF RepairStart, Working, Lifecycle, Persist, TypeOK
  <2> QED BY <2>1, <1>8 DEF RepairStart, Working, TypeOK, Control
<1>9. CASE RepairDevice
  <2>1. cmd.alias \in Aliases /\ mem' \in Registry
    BY <1>0, <1>9, EntryTypes, ChangeType DEF RepairDevice, CommandOK, TypeOK
  <2>2. used' \in [Aliases -> 0..(MaxUses + MaxCrashes)]
    BY <1>9, BrokerAssumption DEF RepairDevice, TypeOK
  <2> QED BY <2>1, <2>2, <1>9 DEF RepairDevice, TypeOK, Control
<1>10. CASE RepairFails
  <2>1. Change(mem, cmd.alias, Broken(mem[cmd.alias], "repair-failed")) \in Registry
    <3>1. "repair-failed" \in Drift
      BY DEF Drift
    <3> QED BY <3>1, <1>0, <1>10, EntryTypes, ChangeType DEF RepairFails, CommandOK, TypeOK
  <2> QED BY <2>1, <1>10, ForgetType DEF RepairFails, DoneWriting, TypeOK
<1> QED BY <1>1, <1>2, <1>3, <1>4, <1>5, <1>6, <1>7, <1>8, <1>9, <1>10 DEF LifecycleStep

(* The steps of the environment keep the types. *)
LEMMA TypeEnvironment == IInv /\ Environment => TypeOK'
<1> SUFFICES ASSUME IInv, Environment PROVE TypeOK'
  OBVIOUS
<1> USE DEF IInv, disk, device, history, local
<1>1. ASSUME NEW o \in Owners, OwnerDies(o) PROVE TypeOK'
  BY <1>1 DEF OwnerDies, TypeOK
<1>2. ASSUME NEW o \in Owners, OwnerStarts(o) PROVE TypeOK'
  BY <1>2 DEF OwnerStarts, TypeOK
<1>3. ASSUME NEW a \in Aliases, DeviceLost(a) PROVE TypeOK'
  BY <1>3 DEF DeviceLost, TypeOK
<1>4. ASSUME NEW a \in Aliases, GraceEnds(a) PROVE TypeOK'
  <2>1. ended' \in [Aliases -> Rest]
    BY <1>4 DEF GraceEnds, TypeOK, Rest
  <2>2. \A e \in Entry : [e EXCEPT !.rest = "over"] \in Entry /\ [e EXCEPT !.rest = e.rest] \in Entry
    BY DEF Entry, Rest
  <2>3. reg' \in Registry
    BY <1>4, <2>2 DEF GraceEnds, TypeOK, Registry
  <2> QED BY <2>1, <2>3, <1>4 DEF GraceEnds, TypeOK
<1>5. CASE Crash
  BY <1>5, ForgetType, BrokerAssumption DEF Crash, TypeOK
<1> QED BY <1>1, <1>2, <1>3, <1>4, <1>5 DEF Environment

-----------------------------------------------------------------------------
(* The commands' knowledge, action by action. *)

(* A command that has ended knows nothing. *)
LEMMA ForgetCommandOK == ForgetCommand => CommandOK'
BY DEF ForgetCommand, CommandOK, NoCmd, AcquireControl, LeaseKinds, Lifecycle

(* Every start of a command establishes what the command relies on. *)
LEMMA CommandRequest == IInv /\ Request => CommandOK'
<1> SUFFICES ASSUME IInv, Request PROVE CommandOK'
  OBVIOUS
<1> USE DEF IInv, Start, disk, NoCmd, AcquireControl, LeaseKinds, Lifecycle, Files
<1>1. ASSUME NEW l \in Leases, NEW q \in Projects, NEW o \in Owners, StartAcquire(l, q, o)
      PROVE  CommandOK'
  BY <1>1 DEF StartAcquire, CommandOK
<1>2. ASSUME NEW k \in Kinds, NEW l \in Leases, NEW o \in alive \cup {None}, StartLease(k, l, o)
      PROVE  CommandOK'
  <2>1. file[l].alias \in Aliases
    BY <1>2 DEF StartLease, TypeOK, Records
  <2> QED BY <2>1, <1>2 DEF StartLease, CommandOK
<1>3. ASSUME NEW k \in Kinds, NEW a \in Aliases, NEW l \in Files \cup {None}, StartLifecycle(k, a, l)
      PROVE  CommandOK'
  BY <1>3 DEF StartLifecycle, CommandOK
<1>4. ASSUME NEW a \in Aliases, NEW q \in Projects, StartPin(a, q)
      PROVE  CommandOK'
  BY <1>4 DEF StartPin, CommandOK
<1>5. ASSUME NEW a \in Aliases, StartUnpin(a)
      PROVE  CommandOK'
  BY <1>5 DEF StartUnpin, CommandOK
<1>6. ASSUME NEW k \in Kinds, StartPlain(k)
      PROVE  CommandOK'
  BY <1>6 DEF StartPlain, CommandOK
<1>7. CASE StartCleanup
  BY <1>7 DEF StartCleanup, CommandOK
<1> QED BY <1>1, <1>2, <1>3, <1>4, <1>5, <1>6, <1>7 DEF Request

(* A load removes only leases it still examines, never the command's own. *)
LEMMA CommandLoad == IInv /\ Load => CommandOK'
<1> SUFFICES ASSUME IInv, Load PROVE CommandOK'
  OBVIOUS
<1> USE DEF IInv, disk, Goto, RemoveFile, Files, CommandOK, AcquireControl, LeaseKinds, Lifecycle
<1>1. ASSUME NEW l \in Leases, LoadLeftover(l) PROVE CommandOK'
  BY <1>1 DEF LoadLeftover, Examined, TypeOK
<1>2. ASSUME NEW l \in Leases, LoadKeep(l) PROVE CommandOK'
  BY <1>2 DEF LoadKeep, Examined, TypeOK
<1>3. ASSUME NEW l \in Leases, LoadStale(l) PROVE CommandOK'
  BY <1>3 DEF LoadStale, Examined, TypeOK
<1>4. ASSUME NEW l \in Leases, LoadContain(l) PROVE CommandOK'
  BY <1>4 DEF LoadContain, Examined, TypeOK
<1>5. CASE LoadUnlink
  BY <1>5 DEF LoadUnlink, TypeOK
<1>6. CASE LoadSync
  BY <1>6 DEF LoadSync
<1>7. CASE Refresh
  BY <1>7, ForgetCommandOK DEF Refresh, Done
<1> QED BY <1>1, <1>2, <1>3, <1>4, <1>5, <1>6, <1>7 DEF Load

(* Slot reclaim and idle shutdown. *)
LEMMA CommandIdle == IInv /\ Idle => CommandOK'
<1> SUFFICES ASSUME IInv, Idle PROVE CommandOK'
  OBVIOUS
<1> USE DEF IInv, disk, Goto
<1>1. ASSUME NEW a \in Aliases,
             ReclaimSkip(a) \/ ReclaimErase(a) \/ ReclaimFails(a)
               \/ IdleShutdown(a) \/ IdleShutdownFails(a)
      PROVE  CommandOK'
  BY <1>1 DEF ReclaimSkip, ReclaimErase, ReclaimFails, IdleShutdown, IdleShutdownFails,
              Visit, IdleStep, CommandOK, AcquireControl, LeaseKinds, Lifecycle
<1>2. CASE ReclaimEnd
  BY <1>2, ForgetCommandOK
     DEF ReclaimEnd, DoneWriting, CommandOK, AcquireControl, LeaseKinds, Lifecycle
<1>3. CASE IdleEnd
  BY <1>3, ForgetCommandOK DEF IdleEnd, DoneWriting
<1> QED BY <1>1, <1>2, <1>3 DEF Idle

(* An acquire knows its lease, its project and, once selected, its alias. *)
LEMMA CommandAcquire == IInv /\ Acquire => CommandOK'
<1> SUFFICES ASSUME IInv, Acquire PROVE CommandOK'
  OBVIOUS
<1> USE DEF IInv, disk, Goto
<1>1. CASE AcquireSelect
  BY <1>1 DEF AcquireSelect, Working, TypeOK, CommandOK, AcquireControl, LeaseKinds, Lifecycle
<1>2. CASE \/ AcquireRecord \/ AcquireActivate \/ AcquireNoReset \/ AcquireReset
           \/ AcquireResetDone \/ AcquireBoot \/ AcquireBootDone \/ AcquireFails
           \/ AcquireRollback
  <2>1. pc \in AcquireControl /\ pc' \in AcquireControl \ {"record"} /\ cmd' = cmd
    BY <1>2 DEF AcquireRecord, AcquireActivate, AcquireNoReset, AcquireReset,
                AcquireResetDone, AcquireBoot, AcquireBootDone, AcquireFails,
                AcquireRollback, AcquireControl
  <2> QED BY <2>1 DEF CommandOK, AcquireControl, LeaseKinds, Lifecycle
<1>3. CASE \/ AcquireRejected \/ AcquireActivateFails \/ AcquireReturn
           \/ AcquireRolledBack \/ AcquireRollbackFails
  BY <1>3, ForgetCommandOK DEF AcquireRejected, AcquireActivateFails, AcquireReturn,
              AcquireRolledBack, AcquireRollbackFails, Done
<1> QED BY <1>1, <1>2, <1>3 DEF Acquire

(* Release, contain, register, pin, unpin and the lifecycle commands. *)
LEMMA CommandOthers == IInv /\ (EndLease \/ PinCommand \/ LifecycleStep) => CommandOK'
<1> SUFFICES ASSUME IInv, EndLease \/ PinCommand \/ LifecycleStep PROVE CommandOK'
  OBVIOUS
<1> USE DEF IInv, disk, Goto
<1>1. CASE \/ ReleaseRestore \/ ContainUnlink \/ Register \/ LeaseCommandEnds
           \/ Pin \/ Unpin \/ PinRejected
           \/ LifecycleRejected \/ EraseFails \/ LifecycleWrite \/ RepairFails
  BY <1>1, ForgetCommandOK
     DEF ReleaseRestore, ContainUnlink, Register, LeaseCommandEnds, Pin, Unpin, PinRejected,
         LifecycleRejected, EraseFails, LifecycleWrite, RepairFails, Done, DoneWriting
<1>2. CASE ReleaseLease \/ ReleaseUnlink \/ Contain
  BY <1>2 DEF ReleaseLease, ReleaseUnlink, Contain, Working,
              CommandOK, AcquireControl, LeaseKinds, Lifecycle
<1>3. CASE BootOrShutdown \/ EraseDevice \/ Revoke \/ RevokeUnlink \/ RepairStart \/ RepairDevice
  BY <1>3 DEF BootOrShutdown, EraseDevice, Revoke, RevokeUnlink, RepairStart, RepairDevice,
              Working, CommandOK, AcquireControl, LeaseKinds, Lifecycle
<1> QED BY <1>1, <1>2, <1>3 DEF EndLease, PinCommand, LifecycleStep

(* Owners, devices and time change nothing that a command relies on. *)
LEMMA CommandEnvironment == IInv /\ Environment => CommandOK'
<1> SUFFICES ASSUME IInv, Environment PROVE CommandOK'
  OBVIOUS
<1>1. CASE \/ \E o \in Owners : OwnerDies(o) \/ OwnerStarts(o)
           \/ \E a \in Aliases : DeviceLost(a) \/ GraceEnds(a)
  BY <1>1 DEF IInv, OwnerDies, OwnerStarts, DeviceLost, GraceEnds, CommandOK, Files, disk, local
<1>2. CASE Crash
  BY <1>2, ForgetCommandOK DEF Crash
<1> QED BY <1>1, <1>2 DEF Environment

-----------------------------------------------------------------------------
(* The leases and the pins. *)

(* Only these steps change a lease file or a pin. *)
LEMMA FileSteps ==
  ASSUME IInv, [Next]_vars
  PROVE  \/ UNCHANGED <<file, pin>>
         \/ (\E l : RemoveFile(l)) /\ UNCHANGED pin
         \/ AcquireRecord \/ Register \/ Pin \/ Unpin
<1> DEFINE Claim == \/ UNCHANGED <<file, pin>>
                    \/ (\E l : RemoveFile(l)) /\ UNCHANGED pin
                    \/ AcquireRecord \/ Register \/ Pin \/ Unpin
<1> SUFFICES Claim
  OBVIOUS
<1> USE DEF disk, Done, DoneWriting
<1>1. CASE Request
  BY <1>1 DEF Request, StartAcquire, StartLease, StartLifecycle, StartPin, StartUnpin,
              StartPlain, StartCleanup, Start
<1>2. CASE Load
  BY <1>2 DEF Load, LoadLeftover, LoadKeep, LoadStale, LoadContain, LoadUnlink, LoadSync, Refresh
<1>3. CASE Idle
  BY <1>3 DEF Idle, ReclaimSkip, ReclaimErase, ReclaimFails, IdleShutdown,
              IdleShutdownFails, ReclaimEnd, IdleEnd
<1>4. CASE Acquire
  BY <1>4 DEF Acquire, AcquireSelect, AcquireRejected, AcquireActivate,
              AcquireActivateFails, AcquireNoReset, AcquireReset, AcquireResetDone,
              AcquireBoot, AcquireBootDone, AcquireReturn, AcquireFails, AcquireRollback,
              AcquireRolledBack, AcquireRollbackFails
<1>5. CASE EndLease
  BY <1>5 DEF EndLease, ReleaseLease, ReleaseUnlink, ReleaseRestore, Contain, ContainUnlink,
              LeaseCommandEnds
<1>6. CASE PinCommand
  BY <1>6 DEF PinCommand, PinRejected
<1>7. CASE LifecycleStep
  BY <1>7 DEF LifecycleStep, LifecycleRejected, BootOrShutdown, EraseDevice, EraseFails,
              LifecycleWrite, Revoke, RevokeUnlink, RepairStart, RepairDevice, RepairFails
<1>8. CASE Environment
  BY <1>8 DEF Environment, OwnerDies, OwnerStarts, DeviceLost, GraceEnds, Crash
<1>9. CASE UNCHANGED vars
  BY <1>9 DEF vars
<1> QED BY <1>1, <1>2, <1>3, <1>4, <1>5, <1>6, <1>7, <1>8, <1>9 DEF Next, Command

(* Whatever a step does to the files, no alias gets a second lease and no lease
   sits on an alias that is pinned for another project. *)
LEMMA LeaseStep ==
  ASSUME IInv, [Next]_vars
  PROVE  OneLeasePerAlias' /\ PinRespected'
<1> USE DEF Files
<1>1. CASE UNCHANGED <<file, pin>>
  BY <1>1 DEF IInv, OneLeasePerAlias, PinRespected
<1>2. CASE (\E l : RemoveFile(l)) /\ UNCHANGED pin
  <2>1. PICK l : RemoveFile(l)
    BY <1>2
  <2>2. \A m \in Leases : file'[m] # None => file[m] # None /\ file'[m] = file[m]
    BY <2>1 DEF IInv, TypeOK, RemoveFile
  <2> QED BY <2>2, <1>2 DEF IInv, OneLeasePerAlias, PinRespected
<1>3. CASE AcquireRecord
  <2>1. /\ LeasesOn(cmd.alias) = {} /\ pin[cmd.alias] \in {None, cmd.project}
        /\ cmd.lease \in Leases
    BY <1>3 DEF IInv, SelectionHolds, CommandOK, AcquireRecord, AcquireControl
  <2>2. PICK m \in BOOLEAN :
          file' = [file EXCEPT ![cmd.lease] = [alias |-> cmd.alias, project |-> cmd.project,
                                               owner |-> cmd.owner, meta |-> m]]
    BY <1>3 DEF AcquireRecord
  <2>3. \A l \in Leases \ {cmd.lease} : file'[l] = file[l]
    BY <2>2 DEF IInv, TypeOK
  <2>4. file'[cmd.lease].alias = cmd.alias /\ file'[cmd.lease].project = cmd.project
    BY <2>1, <2>2 DEF IInv, TypeOK
  <2>5. \A l \in Leases : file[l] # None => file[l].alias # cmd.alias
    BY <2>1 DEF LeasesOn
  <2>6. pin' = pin
    BY <1>3 DEF AcquireRecord
  <2> QED BY <2>1, <2>3, <2>4, <2>5, <2>6 DEF IInv, OneLeasePerAlias, PinRespected
<1>4. CASE Register
  <2>1. cmd.lease \in Leases /\ file[cmd.lease] \in Records
    BY <1>4 DEF IInv, Register, Working, CommandOK, LeaseKinds, TypeOK
  <2>2. \A l \in Leases : file'[l] # None =>
          file[l] # None /\ file'[l].alias = file[l].alias /\ file'[l].project = file[l].project
    <3>1. \A l \in Leases \ {cmd.lease} : file'[l] = file[l]
      BY <1>4 DEF IInv, TypeOK, Register
    <3>2. PICK o : file' = [file EXCEPT ![cmd.lease] = [@ EXCEPT !.meta = TRUE, !.owner = o]]
      BY <2>1, <1>4 DEF IInv, TypeOK, Register, Records
    <3>3. file'[cmd.lease] = [file[cmd.lease] EXCEPT !.meta = TRUE, !.owner = o]
      BY <2>1, <3>2 DEF IInv, TypeOK
    <3>4. /\ file'[cmd.lease].alias = file[cmd.lease].alias
          /\ file'[cmd.lease].project = file[cmd.lease].project
      BY <2>1, <3>3 DEF Records
    <3>5. file[cmd.lease] # None
      BY <1>4 DEF IInv, Register, Working, CommandOK, LeaseKinds
    <3> QED BY <3>1, <3>4, <3>5
  <2>3. pin' = pin
    BY <1>4 DEF Register
  <2> QED BY <2>2, <2>3 DEF IInv, OneLeasePerAlias, PinRespected
<1>5. CASE Pin
  <2>1. /\ file' = file /\ pin' = [pin EXCEPT ![cmd.alias] = cmd.project]
        /\ \A l \in LeasesOn(cmd.alias) : file[l].project = cmd.project
    BY <1>5 DEF Pin
  <2> QED BY <2>1 DEF IInv, TypeOK, OneLeasePerAlias, PinRespected, LeasesOn, Records
<1>6. CASE Unpin
  <2>1. file' = file /\ pin' = [pin EXCEPT ![cmd.alias] = None]
    BY <1>6 DEF Unpin
  <2> QED BY <2>1 DEF IInv, TypeOK, OneLeasePerAlias, PinRespected, Records
<1> QED BY <1>1, <1>2, <1>3, <1>4, <1>5, <1>6, FileSteps

(* Nothing comes between the selection of an alias and the lease record. *)
LEMMA SelectionStep ==
  ASSUME IInv, [Next]_vars
  PROVE  SelectionHolds'
<1> DEFINE Selecting == cmd.kind = "acquire" /\ pc \in {"reclaim", "record"}
<1> SUFFICES ASSUME Selecting' PROVE SelectionHolds'
  BY DEF SelectionHolds
<1> USE DEF disk, device, history, local, Goto, Done, DoneWriting, ForgetCommand, NoCmd
<1>1. AcquireSelect \/ (Selecting /\ UNCHANGED <<file, pin, cmd>>)
  <2>1. CASE Request
    BY <2>1 DEF Request, StartAcquire, StartLease, StartLifecycle, StartPin, StartUnpin,
                StartPlain, StartCleanup, Start
  <2>2. CASE Load
    BY <2>2 DEF Load, LoadLeftover, LoadKeep, LoadStale, LoadContain, LoadUnlink, LoadSync, Refresh
  <2>3. CASE Idle
    BY <2>3 DEF Idle, ReclaimSkip, ReclaimErase, ReclaimFails, Visit, IdleStep, IdleShutdown,
                IdleShutdownFails, ReclaimEnd, IdleEnd
  <2>4. CASE Acquire
    BY <2>4 DEF Acquire, AcquireRejected, AcquireRecord, AcquireActivate,
                AcquireActivateFails, AcquireNoReset, AcquireReset, AcquireResetDone,
                AcquireBoot, AcquireBootDone, AcquireReturn, AcquireFails, AcquireRollback,
                AcquireRolledBack, AcquireRollbackFails
  <2>5. CASE EndLease
    BY <2>5 DEF EndLease, ReleaseLease, ReleaseUnlink, ReleaseRestore, Contain, ContainUnlink,
                Register, LeaseCommandEnds, IInv, CommandOK
  <2>6. CASE PinCommand
    BY <2>6 DEF PinCommand, Pin, Unpin, PinRejected
  <2>7. CASE LifecycleStep
    BY <2>7 DEF LifecycleStep, LifecycleRejected, BootOrShutdown, EraseDevice, EraseFails,
                LifecycleWrite, Revoke, RevokeUnlink, RepairStart, RepairDevice, RepairFails
  <2>8. CASE Environment
    BY <2>8 DEF Environment, OwnerDies, OwnerStarts, DeviceLost, GraceEnds, Crash
  <2>9. CASE UNCHANGED vars
    BY <2>9 DEF vars
  <2> QED BY <2>1, <2>2, <2>3, <2>4, <2>5, <2>6, <2>7, <2>8, <2>9 DEF Next, Command
<1>2. CASE AcquireSelect
  BY <1>2 DEF IInv, TypeOK, AcquireSelect, Candidate, SelectionHolds, LeasesOn, Files
<1>3. CASE Selecting /\ UNCHANGED <<file, pin, cmd>>
  BY <1>3 DEF IInv, SelectionHolds, LeasesOn, Files
<1> QED BY <1>1, <1>2, <1>3

-----------------------------------------------------------------------------
(* The invariant is inductive. *)
LEMMA NextInv == IInv /\ [Next]_vars => IInv'
<1> SUFFICES ASSUME IInv, [Next]_vars PROVE IInv'
  OBVIOUS
<1>1. CASE UNCHANGED vars
  BY <1>1 DEF IInv, vars, disk, device, history, local, TypeOK, CommandOK, OneLeasePerAlias,
              PinRespected, SelectionHolds, Files, LeasesOn
<1>2. CASE Next
  <2>1. TypeOK'
    BY <1>2, TypeRequest, TypeLoad, TypeIdle, TypeAcquire, TypeEndLease, TypePin,
       TypeLifecycle, TypeEnvironment DEF Next, Command
  <2>2. CommandOK'
    BY <1>2, CommandRequest, CommandLoad, CommandIdle, CommandAcquire, CommandOthers,
       CommandEnvironment DEF Next, Command
  <2> QED BY <2>1, <2>2, LeaseStep, SelectionStep DEF IInv
<1> QED BY <1>1, <1>2

(* It holds in every reachable state. *)
LEMMA Invariance == Spec => []IInv
BY InitInv, NextInv, PTL DEF Spec

(* The files, the registry and the in-memory state of a command have their types
   in every behaviour of the broker, however many crashes there are. *)
THEOREM TypeCorrect == Spec => []TypeOK
<1>1. IInv => TypeOK
  BY DEF IInv
<1> QED BY <1>1, Invariance, PTL

(* No two leases on one simulator, for every number of aliases, leases, clients
   and crashes: the acquire's selection, made before slot reclaim runs, still
   holds when the lease record is written. *)
THEOREM LeaseExclusion == Spec => []OneLeasePerAlias
<1>1. IInv => OneLeasePerAlias
  BY DEF IInv
<1> QED BY <1>1, Invariance, PTL

(* A pinned alias is leased by the pin's project only, in whichever order leases
   and pins come and go. *)
THEOREM PinsRespected == Spec => []PinRespected
<1>1. IInv => PinRespected
  BY DEF IInv
<1> QED BY <1>1, Invariance, PTL

-----------------------------------------------------------------------------
(* Part two *)

(* The causes of a repair that stand for a failed acquire. *)
Failed == {"boot-on-acquire-failed", "reset-on-acquire-failed"}

(* An acquire after the record of its lease, a lease's end between the     *)
(* registry and the file, an alias that must stay healthy.                 *)
Leasing == {"activate", "reset", "resetDone", "boot", "bootDone", "return",
            "rollback", "rollbackUnlink"}
Unlinking == {"unlink", "containUnlink", "revokeUnlink"}
Acquiring == {"record", "activate", "reset", "resetDone", "boot", "bootDone", "return"}

(* A lease file for the alias; that it is the only one. *)
On(l, a) == file[l] # None /\ file[l].alias = a
Only(a, m) == \A l \in Leases : On(l, a) <=> l = m

(* Which lease a command is about, and what kind of command it is. *)
OwnLease ==
  /\ \A l \in handed : file[l] # None
  /\ cmd.kind \in LeaseKinds /\ pc \in {"load", "loadUnlink", "work"} => On(cmd.lease, cmd.alias)
  /\ pc \in Leasing \cup Unlinking => cmd.lease \in Leases /\ Only(cmd.alias, cmd.lease)
  /\ pc = "repair" => \A l \in Leases : On(l, cmd.alias) => l = cmd.lease
  /\ cmd.kind = "acquire" => cmd.lease \notin handed
  /\ cmd.kind = "acquire" /\ pc \in {"load", "loadUnlink", "work", "reclaim", "record"} =>
       file[cmd.lease] = None
  /\ pc = "loadUnlink" => file[victim].owner \notin alive
  /\ pc = "containUnlink" => cmd.kind = "contain"
  /\ pc \in {"revokeUnlink", "repair"} => cmd.kind = "repair"
  /\ pc = "reclaim" => cmd.kind \in {"acquire", "release", "idle"}
  /\ pc = "idle" => cmd.kind \in {"idle", "cleanup"}
  /\ pc # "free" => cmd.kind # "none"

(* What is healthy was not left in disorder. *)
Calm(e) == e.health = "healthy" => e.drift = "none"
EntriesOK == \A a \in Aliases : Calm(reg[a]) /\ Calm(mem[a]) /\ Calm(undo[a])

(* What a command has in memory is no healthier than what is on disk, but  *)
(* for the alias that it repairs.                                          *)
HealthOK ==
  /\ pc # "free" => \A a \in Aliases : mem[a].health = "healthy" =>
       reg[a].health = "healthy" \/ (cmd.kind = "repair" /\ cmd.alias = a)
  /\ pc = "unlink" => \A a \in Aliases : undo[a].health = "healthy" => reg[a].health = "healthy"
  /\ pc \in Acquiring => mem[cmd.alias].health = "healthy"
  /\ pc = "reclaim" /\ cmd.kind = "acquire" =>
       mem[cmd.alias].health = "healthy" \/ mem[cmd.alias].drift = "slot-reclaim-failed"

-----------------------------------------------------------------------------
(* What the operators on entries, registries and files do. *)

(* The fields of an entry after each change. *)
LEMMA EntryFields ==
  ASSUME NEW e \in Entry
  PROVE  /\ Released(e).active = None /\ Released(e).health = e.health
         /\ Released(e).drift = e.drift /\ Released(e).rest = "fresh"
         /\ Released(e).uses = Least(e.uses + 1, MaxUses)
         /\ Healthy(e).active = e.active /\ Healthy(e).health = "healthy"
         /\ Healthy(e).drift = "none" /\ Healthy(e).rest = e.rest /\ Healthy(e).uses = e.uses
         /\ \A why : /\ Broken(e, why).active = e.active /\ Broken(e, why).drift = why
                     /\ Broken(e, why).health = "repair-needed"
                     /\ Broken(e, why).rest = e.rest /\ Broken(e, why).uses = e.uses
BY DEF Entry, Released, Healthy, Broken

(* Writing an entry changes this entry only. *)
LEMMA ChangeAt ==
  ASSUME NEW m \in Registry, NEW a \in Aliases, NEW e
  PROVE  /\ Change(m, a, e)[a] = e
         /\ \A b \in Aliases : b # a => Change(m, a, e)[b] = m[b]
BY DEF Change, Registry

(* syncRegistryWithSimctl makes nothing healthy, leaves the counters alone and
   keeps the cause of a failed acquire, or calls the device missing. *)
LEMMA SyncedFields ==
  ASSUME NEW a \in Aliases, NEW e \in Entry
  PROVE  /\ Synced(a, e).active = e.active
         /\ Synced(a, e).rest = e.rest /\ Synced(a, e).uses = e.uses
         /\ Calm(Synced(a, e))
         /\ Synced(a, e).health = "healthy" => e.health = "healthy"
         /\ Synced(a, e).drift \in {e.drift, "none", "simulator-missing", "repair-interrupted"}
         /\ e.health = "repair-needed" =>
              /\ Synced(a, e).health = "repair-needed"
              /\ Synced(a, e).drift \in {e.drift, "simulator-missing"}
BY EntryFields DEF Synced, Calm, Entry

(* The fields of a registry nobody has written to. *)
LEMMA BlankFields ==
  ASSUME NEW a \in Aliases
  PROVE  /\ Blank[a].active = None /\ Blank[a].health = "healthy" /\ Blank[a].drift = "none"
         /\ Blank[a].uses = 0 /\ Blank[a].rest = "never"
BY DEF Blank

(* Removing a file takes away one lease. *)
LEMMA RemoveEffect ==
  ASSUME TypeOK, NEW l \in Leases, RemoveFile(l)
  PROVE  /\ \A m \in Leases : m # l => file'[m] = file[m]
         /\ file'[l] = None
         /\ handed' = handed \ {l}
         /\ \A m \in Leases, a \in Aliases : On(m, a)' <=> On(m, a) /\ m # l
<1>1. /\ \A m \in Leases : m # l => file'[m] = file[m]
      /\ file'[l] = None /\ handed' = handed \ {l}
  BY DEF RemoveFile, TypeOK
<1> QED BY <1>1 DEF On


-----------------------------------------------------------------------------
(* Which lease a command is about. *)

(* A command that has ended is about none. *)
LEMMA OwnForget ==
  ASSUME ForgetCommand, \A l \in handed' : file'[l] # None
  PROVE  OwnLease'
BY DEF ForgetCommand, NoCmd, OwnLease, LeaseKinds, Leasing, Unlinking

(* Nothing a command relies on changes while files, command and place do not. *)
LEMMA OwnRequest == IInv /\ OwnLease /\ Request => OwnLease'
<1> SUFFICES ASSUME IInv, OwnLease, Request PROVE OwnLease'
  OBVIOUS
<1> USE DEF Start, disk, device, history, NoCmd, LeaseKinds, Lifecycle, Leasing, Unlinking, On
<1>1. ASSUME NEW l \in Leases, NEW q \in Projects, NEW o \in Owners, StartAcquire(l, q, o)
      PROVE  OwnLease'
  BY <1>1 DEF StartAcquire, OwnLease
<1>2. ASSUME NEW k \in Kinds, NEW l \in Leases, NEW o \in alive \cup {None}, StartLease(k, l, o)
      PROVE  OwnLease'
  BY <1>2 DEF StartLease, OwnLease
<1>3. ASSUME NEW k \in Kinds, NEW a \in Aliases, NEW l \in Files \cup {None}, StartLifecycle(k, a, l)
      PROVE  OwnLease'
  BY <1>3 DEF StartLifecycle, OwnLease
<1>4. ASSUME NEW a \in Aliases, NEW q \in Projects, StartPin(a, q)
      PROVE  OwnLease'
  BY <1>4 DEF StartPin, OwnLease
<1>5. ASSUME NEW a \in Aliases, StartUnpin(a)
      PROVE  OwnLease'
  BY <1>5 DEF StartUnpin, OwnLease
<1>6. ASSUME NEW k \in Kinds, StartPlain(k)
      PROVE  OwnLease'
  BY <1>6 DEF StartPlain, OwnLease
<1>7. CASE StartCleanup
  BY <1>7 DEF StartCleanup, OwnLease
<1> QED BY <1>1, <1>2, <1>3, <1>4, <1>5, <1>6, <1>7 DEF Request

(* A load leaves the command's own lease alone. *)
LEMMA OwnLoad == IInv /\ OwnLease /\ Load => OwnLease'
<1> SUFFICES ASSUME IInv, OwnLease, Load PROVE OwnLease'
  OBVIOUS
<1> USE DEF disk, device, history, Goto, Leasing, Unlinking
<1>0. TypeOK /\ CommandOK
  BY DEF IInv
<1>1. ASSUME NEW l \in Leases, LoadLeftover(l) \/ LoadStale(l) PROVE OwnLease'
  <2>1. RemoveFile(l) /\ pc = "load" /\ pc' = "load" /\ cmd' = cmd /\ l \in todo
    BY <1>1 DEF LoadLeftover, LoadStale, Examined
  <2>2. cmd.kind \in LeaseKinds => cmd.lease \in Leases /\ cmd.lease # l
    BY <2>1, <1>0 DEF CommandOK
  <2>3. \A m \in Leases : On(m, cmd.alias) /\ m # l => On(m, cmd.alias)'
    BY <2>1, <1>0, RemoveEffect DEF On
  <2>4. cmd.kind = "acquire" => file'[cmd.lease] = None
    <3>1. cmd.kind = "acquire" => cmd.lease \in Leases /\ file[cmd.lease] = None
      BY <2>1, <1>0 DEF CommandOK, OwnLease
    <3> QED BY <3>1, <2>1, <1>0, RemoveEffect
  <2>5. \A m \in handed' : m \in handed /\ file'[m] # None
    BY <2>1, <1>0, RemoveEffect DEF OwnLease, TypeOK
  <2> QED BY <2>1, <2>2, <2>3, <2>4, <2>5 DEF OwnLease
<1>2. ASSUME NEW l \in Leases, LoadKeep(l) \/ LoadContain(l) PROVE OwnLease'
  BY <1>2 DEF LoadKeep, LoadContain, Examined, OwnerLive, OwnLease, On
<1>3. CASE LoadUnlink
  <2>1. RemoveFile(victim) /\ pc = "loadUnlink" /\ pc' = "load" /\ cmd' = cmd /\ victim \in Leases
    BY <1>3, <1>0 DEF LoadUnlink, CommandOK, Files
  <2>2. cmd.kind \in LeaseKinds => cmd.lease \in Leases /\ cmd.lease # victim
    BY <2>1, <1>0 DEF CommandOK
  <2>3. \A m \in Leases : On(m, cmd.alias) /\ m # victim => On(m, cmd.alias)'
    BY <2>1, <1>0, RemoveEffect DEF On
  <2>4. cmd.kind = "acquire" => file'[cmd.lease] = None
    <3>1. cmd.kind = "acquire" => cmd.lease \in Leases /\ file[cmd.lease] = None
      BY <2>1, <1>0 DEF CommandOK, OwnLease
    <3> QED BY <3>1, <2>1, <1>0, RemoveEffect
  <2>5. \A m \in handed' : m \in handed /\ file'[m] # None
    BY <2>1, <1>0, RemoveEffect DEF OwnLease, TypeOK
  <2> QED BY <2>1, <2>2, <2>3, <2>4, <2>5 DEF OwnLease
<1>4. CASE LoadSync
  BY <1>4, BrokerAssumption, <1>0 DEF LoadSync, OwnLease, On, TypeOK
<1>5. CASE Refresh
  BY <1>5, OwnForget DEF Refresh, Done, OwnLease
<1> QED BY <1>1, <1>2, <1>3, <1>4, <1>5 DEF Load

(* Slot reclaim and idle shutdown touch no lease. *)
LEMMA OwnIdle == IInv /\ OwnLease /\ Idle => OwnLease'
<1> SUFFICES ASSUME IInv, OwnLease, Idle PROVE OwnLease'
  OBVIOUS
<1> USE DEF disk, device, history, Goto, Leasing, Unlinking
<1>1. ASSUME NEW a \in Aliases,
             ReclaimSkip(a) \/ ReclaimErase(a) \/ ReclaimFails(a)
               \/ IdleShutdown(a) \/ IdleShutdownFails(a)
      PROVE  OwnLease'
  BY <1>1 DEF ReclaimSkip, ReclaimErase, Erase, ReclaimFails, IdleShutdown, IdleShutdownFails,
              Visit, IdleStep, OwnLease
<1>2. CASE ReclaimEnd
  <2>1. handed' = handed /\ file' = file
    BY <1>2 DEF ReclaimEnd, DoneWriting
  <2>2. CASE ForgetCommand
    BY <2>1, <2>2, OwnForget DEF OwnLease
  <2>3. CASE ~ForgetCommand
    BY <2>1, <2>3, <1>2 DEF ReclaimEnd, DoneWriting, OwnLease
  <2> QED BY <2>2, <2>3
<1>3. CASE IdleEnd
  BY <1>3, OwnForget DEF IdleEnd, DoneWriting, OwnLease
<1> QED BY <1>1, <1>2, <1>3 DEF Idle

(* The alias of an acquire was free, so that its lease is the only one there. *)
LEMMA OwnAcquire == IInv /\ OwnLease /\ Acquire => OwnLease'
<1> SUFFICES ASSUME IInv, OwnLease, Acquire PROVE OwnLease'
  OBVIOUS
<1> USE DEF disk, device, history, Goto
<1>0. TypeOK /\ CommandOK /\ SelectionHolds
  BY DEF IInv
<1>1. CASE AcquireSelect
  BY <1>1 DEF AcquireSelect, Working, OwnLease, Leasing, Unlinking, LeaseKinds
<1>2. CASE AcquireRecord
  <2>1. /\ cmd.kind = "acquire" /\ cmd.lease \in Leases /\ cmd.alias \in Aliases
        /\ cmd' = cmd /\ pc' = "activate" /\ handed' = handed
    BY <1>2, <1>0 DEF AcquireRecord, CommandOK, AcquireControl
  <2>2. \A l \in Leases : ~On(l, cmd.alias)
    BY <1>2, <1>0, <2>1 DEF AcquireRecord, SelectionHolds, LeasesOn, Files, On
  <2>3. PICK m \in BOOLEAN :
          file' = [file EXCEPT ![cmd.lease] = [alias |-> cmd.alias, project |-> cmd.project,
                                               owner |-> cmd.owner, meta |-> m]]
    BY <1>2 DEF AcquireRecord
  <2>4. /\ \A l \in Leases : l # cmd.lease => file'[l] = file[l]
        /\ file'[cmd.lease].alias = cmd.alias
        /\ file'[cmd.lease] # None
    <3>1. [alias |-> cmd.alias, project |-> cmd.project, owner |-> cmd.owner, meta |-> m] \in Records
      BY <2>1, <1>0 DEF CommandOK, Records
    <3>2. file'[cmd.lease] = [alias |-> cmd.alias, project |-> cmd.project,
                              owner |-> cmd.owner, meta |-> m]
      BY <2>1, <2>3, <1>0 DEF TypeOK
    <3> QED BY <2>1, <2>3, <3>1, <3>2, <1>0, RecordAssumption DEF TypeOK
  <2>5. Only(cmd.alias, cmd.lease)'
    BY <2>1, <2>2, <2>4 DEF Only, On
  <2>6. \A l \in handed' : file'[l] # None
    BY <2>1, <2>4, <1>0 DEF OwnLease, TypeOK
  <2> QED BY <2>1, <2>5, <2>6 DEF OwnLease, LeaseKinds
<1>3. CASE \/ AcquireActivate \/ AcquireNoReset \/ AcquireReset
           \/ AcquireResetDone \/ AcquireBoot \/ AcquireBootDone \/ AcquireFails
           \/ AcquireRollback
  <2>1. /\ pc \in Leasing /\ pc' \in Leasing \ {"activate"} /\ cmd' = cmd /\ file' = file
        /\ handed' = handed
    BY <1>3 DEF AcquireActivate, AcquireNoReset, AcquireReset,
                AcquireResetDone, AcquireBoot, AcquireBootDone, AcquireFails,
                AcquireRollback, Leasing, Erase
  <2> QED BY <2>1 DEF OwnLease, Leasing, Unlinking, Only, On
<1>4. CASE AcquireActivateFails \/ AcquireRolledBack
  <2>1. RemoveFile(cmd.lease) /\ ForgetCommand /\ cmd.lease \in Leases
    BY <1>4, <1>0 DEF AcquireActivateFails, AcquireRolledBack, CommandOK, AcquireControl
  <2> QED BY <2>1, <1>0, RemoveEffect, OwnForget DEF OwnLease, TypeOK
<1>5. CASE AcquireReturn
  <2>1. file[cmd.lease] # None
    BY <1>5 DEF AcquireReturn, OwnLease, Leasing, Only, On
  <2> QED BY <2>1, <1>5, OwnForget DEF AcquireReturn, OwnLease
<1>6. CASE AcquireRejected \/ AcquireRollbackFails
  BY <1>6, OwnForget DEF AcquireRejected, AcquireRollbackFails, Done, OwnLease
<1> QED BY <1>1, <1>2, <1>3, <1>4, <1>5, <1>6 DEF Acquire

(* A lease that is about to end is the only one on its alias. *)
LEMMA OwnEndLease == IInv /\ OwnLease /\ EndLease => OwnLease'
<1> SUFFICES ASSUME IInv, OwnLease, EndLease PROVE OwnLease'
  OBVIOUS
<1> USE DEF disk, device, history, Goto
<1>0. TypeOK /\ CommandOK /\ OneLeasePerAlias
  BY DEF IInv
<1>1. CASE ReleaseLease \/ Contain
  <2>1. /\ pc = "work" /\ cmd.kind \in {"release", "contain"} /\ cmd' = cmd /\ file' = file
        /\ handed' = handed
        /\ pc' = IF cmd.kind = "release" THEN "unlink" ELSE "containUnlink"
    BY <1>1 DEF ReleaseLease, Contain, Working
  <2>2. cmd.lease \in Leases /\ On(cmd.lease, cmd.alias)
    BY <2>1, <1>0 DEF CommandOK, OwnLease, LeaseKinds
  <2>3. Only(cmd.alias, cmd.lease)
    BY <2>2, <1>0 DEF OneLeasePerAlias, Files, On, Only
  <2> QED BY <2>1, <2>2, <2>3 DEF OwnLease, Only, On, Leasing, Unlinking
<1>2. CASE ReleaseUnlink
  <2>1. RemoveFile(cmd.lease) /\ pc' = "reclaim" /\ cmd' = cmd /\ cmd.kind = "release"
        /\ cmd.lease \in Leases
    BY <1>2, <1>0 DEF ReleaseUnlink, CommandOK, LeaseKinds
  <2> QED BY <2>1, <1>0, RemoveEffect DEF OwnLease, Leasing, Unlinking, TypeOK
<1>3. CASE ContainUnlink
  <2>1. RemoveFile(cmd.lease) /\ ForgetCommand /\ cmd.lease \in Leases
    BY <1>3 DEF ContainUnlink, OwnLease, Unlinking
  <2> QED BY <2>1, <1>0, RemoveEffect, OwnForget DEF OwnLease, TypeOK
<1>4. CASE ReleaseRestore \/ LeaseCommandEnds
  BY <1>4, OwnForget DEF ReleaseRestore, LeaseCommandEnds, DoneWriting, Done, OwnLease
<1>5. CASE Register
  <2>1. cmd.lease \in Leases /\ file[cmd.lease] \in Records /\ ForgetCommand /\ handed' = handed
    BY <1>5, <1>0 DEF Register, Working, CommandOK, LeaseKinds, TypeOK
  <2>2. PICK o \in Owners :
          file' = [file EXCEPT ![cmd.lease] = [@ EXCEPT !.meta = TRUE, !.owner = o]]
    <3>1. file[cmd.lease].owner \in Owners /\ cmd.owner \in Owners \cup {None}
      BY <2>1, <1>0 DEF TypeOK, Records
    <3> QED BY <3>1, <2>1, <1>0, <1>5 DEF TypeOK, Register, Records
  <2>4. file'[cmd.lease] # None
    <3>1. file'[cmd.lease] = [file[cmd.lease] EXCEPT !.meta = TRUE, !.owner = o]
      BY <2>1, <2>2, <1>0 DEF TypeOK
    <3>2. file'[cmd.lease] \in Records
      BY <2>1, <3>1 DEF Records
    <3> QED BY <3>2, RecordAssumption
  <2> QED BY <2>1, <2>2, <2>4, <1>0, OwnForget DEF OwnLease, TypeOK
<1> QED BY <1>1, <1>2, <1>3, <1>4, <1>5 DEF EndLease


(* Pins change no lease; of the lifecycle commands only a revocation does. *)
LEMMA OwnOthers == IInv /\ OwnLease /\ (PinCommand \/ LifecycleStep) => OwnLease'
<1> SUFFICES ASSUME IInv, OwnLease, PinCommand \/ LifecycleStep PROVE OwnLease'
  OBVIOUS
<1> USE DEF disk, device, history, Goto
<1>0. TypeOK /\ CommandOK /\ OneLeasePerAlias
  BY DEF IInv
<1>1. CASE \/ Pin \/ Unpin \/ PinRejected
           \/ LifecycleRejected \/ EraseFails \/ LifecycleWrite \/ RepairFails
  BY <1>1, OwnForget
     DEF Pin, Unpin, PinRejected, LifecycleRejected, EraseFails, LifecycleWrite, RepairFails,
         Done, DoneWriting, OwnLease
<1>2. CASE BootOrShutdown \/ EraseDevice \/ RepairDevice
  BY <1>2 DEF BootOrShutdown, EraseDevice, RepairDevice, Erase, Working, OwnLease, Leasing,
              Unlinking, LeaseKinds
<1>3. CASE Revoke
  <2>1. /\ cmd.kind = "repair" /\ cmd' = cmd /\ file' = file /\ handed' = handed
        /\ pc' = "revokeUnlink" /\ LeasesOn(cmd.alias) = {cmd.lease}
    BY <1>3 DEF Revoke, Working
  <2>2. cmd.lease \in Leases /\ Only(cmd.alias, cmd.lease)
    BY <2>1 DEF LeasesOn, Files, On, Only
  <2> QED BY <2>1, <2>2 DEF OwnLease, Only, On, Leasing, Unlinking, LeaseKinds
<1>4. CASE RevokeUnlink
  <2>1. /\ RemoveFile(cmd.lease) /\ cmd.lease \in Leases /\ cmd' = cmd /\ pc' = "work"
        /\ cmd.kind = "repair"
    BY <1>4 DEF RevokeUnlink, OwnLease, Unlinking
  <2> QED BY <2>1, <1>0, RemoveEffect DEF OwnLease, Leasing, Unlinking, LeaseKinds, TypeOK
<1>5. CASE RepairStart
  BY <1>5 DEF RepairStart, Working, OwnLease, Leasing, Unlinking, LeaseKinds, LeasesOn, Files, On
<1> QED BY <1>1, <1>2, <1>3, <1>4, <1>5 DEF PinCommand, LifecycleStep

(* A dead owner's lifetime does not begin again. *)
LEMMA OwnEnvironment == IInv /\ OwnLease /\ Environment => OwnLease'
<1> SUFFICES ASSUME IInv, OwnLease, Environment PROVE OwnLease'
  OBVIOUS
<1> USE DEF disk, device, history, local
<1>1. ASSUME NEW o \in Owners, OwnerDies(o) \/ OwnerStarts(o) PROVE OwnLease'
  <2>1. pc = "loadUnlink" => victim \in Files
    BY DEF IInv, CommandOK
  <2> QED BY <1>1, <2>1 DEF OwnerDies, OwnerStarts, OwnLease, Only, On, Files
<1>2. ASSUME NEW a \in Aliases, DeviceLost(a) \/ GraceEnds(a) PROVE OwnLease'
  BY <1>2 DEF DeviceLost, GraceEnds, OwnLease, Only, On
<1>3. CASE Crash
  BY <1>3, OwnForget DEF Crash, OwnLease
<1> QED BY <1>1, <1>2, <1>3 DEF Environment

(* A command keeps to the lease it is about. *)
LEMMA OwnStep == IInv /\ OwnLease /\ [Next]_vars => OwnLease'
<1>1. ASSUME OwnLease, UNCHANGED vars PROVE OwnLease'
  BY <1>1 DEF vars, disk, device, history, local, OwnLease, Only, On
<1> QED BY <1>1, OwnRequest, OwnLoad, OwnIdle, OwnAcquire, OwnEndLease, OwnOthers,
           OwnEnvironment DEF Next, Command

-----------------------------------------------------------------------------
(* Healthy entries. *)

(* An ended command has the registry of nobody in memory. *)
LEMMA CalmForget ==
  ASSUME ForgetCommand, NEW a \in Aliases
  PROVE  Calm(mem'[a]) /\ Calm(undo'[a])
BY BlankFields DEF ForgetCommand, Calm

(* No step marks an entry healthy without clearing the cause of its repair. *)
LEMMA EntriesStep == IInv /\ EntriesOK /\ [Next]_vars => EntriesOK'
<1> SUFFICES ASSUME IInv, EntriesOK, [Next]_vars, NEW a \in Aliases
             PROVE  Calm(reg'[a]) /\ Calm(mem'[a]) /\ Calm(undo'[a])
  BY DEF EntriesOK
<1> USE DEF disk, device, history, local, Goto
<1>0. /\ TypeOK /\ CommandOK
      /\ \A b \in Aliases : /\ Calm(reg[b]) /\ Calm(mem[b]) /\ Calm(undo[b])
                            /\ reg[b] \in Entry /\ mem[b] \in Entry /\ undo[b] \in Entry
  BY DEF IInv, EntriesOK, TypeOK, Registry
<1>1. CASE Request
  <2>1. CASE StartCleanup
    BY <2>1, <1>0, SyncedFields DEF StartCleanup
  <2>2. CASE ~StartCleanup
    BY <1>1, <2>2, <1>0 DEF Request, StartAcquire, StartLease, StartLifecycle, StartPin,
                            StartUnpin, StartPlain, Start
  <2> QED BY <2>1, <2>2
<1>2. CASE Load
  <2>1. ASSUME NEW l \in Leases, LoadStale(l) \/ LoadContain(l) PROVE Calm(mem'[a]) /\ Calm(reg'[a])
    <3>1. file[l].alias \in Aliases
      BY <2>1, <1>0 DEF LoadStale, LoadContain, Examined, CommandOK, TypeOK, Files, Records
    <3>2. \A b \in Aliases : Change(mem, file[l].alias, Released(mem[file[l].alias]))[b] \in
            {mem[b], Released(mem[b])}
      BY <3>1, <1>0, ChangeAt DEF TypeOK
    <3>3. Calm(Change(mem, file[l].alias, Released(mem[file[l].alias]))[a])
      BY <3>2, <1>0, EntryFields DEF Calm
    <3> QED BY <2>1, <3>3, <1>0 DEF LoadStale, LoadContain, Persist
  <2>2. CASE LoadSync
    <3>1. Rebuilt(a) \in Entry
      BY <1>0, EntryTypes DEF Rebuilt, LeasesOn, Files
    <3>2. Calm(Synced(a, Rebuilt(a)))
      BY <3>1, SyncedFields
    <3> QED BY <2>2, <3>2, <1>0 DEF LoadSync, Persist
  <2>3. CASE Refresh
    BY <2>3, <1>0, CalmForget DEF Refresh, Done
  <2> QED BY <1>2, <1>0, <2>1, <2>2, <2>3 DEF Load, LoadLeftover, LoadKeep, LoadStale,
                                              LoadContain, LoadUnlink
<1>3. CASE Idle
  <2>1. ASSUME NEW b \in Aliases, ReclaimErase(b) \/ ReclaimFails(b) \/ IdleShutdownFails(b)
        PROVE  Calm(mem'[a]) /\ Calm(reg'[a])
    <3>1. mem'[a] = mem[a] \/ mem'[a].drift = "none" \/ mem'[a].health = "repair-needed"
      <4>1. Healthy(mem[b]) \in Entry /\ Healthy(mem[b]).drift = "none"
        BY <1>0, EntryTypes, EntryFields
      <4>2. [Healthy(mem[b]) EXCEPT !.uses = 0].drift = "none"
        BY <4>1 DEF Entry
      <4>3. /\ Broken(mem[b], "slot-reclaim-failed").health = "repair-needed"
            /\ Broken(mem[b], "idle-shutdown-failed").health = "repair-needed"
        BY <1>0, EntryFields
      <4>4. PICK e : /\ mem' = Change(mem, b, e)
                     /\ e.drift = "none" \/ e.health = "repair-needed"
        BY <2>1, <4>2, <4>3 DEF ReclaimErase, ReclaimFails, IdleShutdownFails, Persist
      <4> QED BY <4>4, <1>0, ChangeAt DEF TypeOK
    <3>2. Calm(mem'[a])
      BY <3>1, <1>0 DEF Calm
    <3> QED BY <3>2, <2>1, <1>0 DEF ReclaimErase, ReclaimFails, IdleShutdownFails, Persist
  <2>2. ASSUME NEW b \in Aliases, ReclaimSkip(b) \/ IdleShutdown(b)
        PROVE  Calm(mem'[a]) /\ Calm(reg'[a])
    BY <2>2, <1>0 DEF ReclaimSkip, IdleShutdown
  <2>3. CASE ReclaimEnd
    BY <2>3, <1>0, CalmForget DEF ReclaimEnd, DoneWriting, Persist
  <2>4. CASE IdleEnd
    BY <2>4, <1>0, CalmForget DEF IdleEnd, DoneWriting
  <2>5. ASSUME NEW b \in Aliases,
               \/ ReclaimErase(b) \/ ReclaimFails(b) \/ ReclaimSkip(b) \/ IdleShutdown(b)
               \/ IdleShutdownFails(b)
        PROVE  undo' = undo
    BY <2>5 DEF ReclaimErase, ReclaimFails, ReclaimSkip, IdleShutdown, IdleShutdownFails
  <2> QED BY <1>3, <1>0, <2>1, <2>2, <2>3, <2>4, <2>5 DEF Idle
<1>4. CASE Acquire
  <2>0. pc \in AcquireControl => cmd.alias \in Aliases
    BY <1>0 DEF CommandOK
  <2>1. CASE AcquireActivate
    <3>1. Calm([mem[cmd.alias] EXCEPT !.active = cmd.lease])
      BY <2>0, <2>1, <1>0 DEF AcquireActivate, AcquireControl, Calm, Entry
    <3> QED BY <3>1, <2>0, <2>1, <1>0, ChangeAt DEF AcquireActivate, AcquireControl, Persist, TypeOK
  <2>2. CASE AcquireReset \/ AcquireBoot
    <3>1. cmd.alias \in Aliases /\ reg' = reg /\ undo' = undo
      BY <2>0, <2>2 DEF AcquireReset, AcquireBoot, AcquireControl
    <3>2. Healthy(mem[cmd.alias]) \in Entry /\ Healthy(mem[cmd.alias]).drift = "none"
      BY <3>1, <1>0, EntryTypes, EntryFields
    <3>3. [Healthy(mem[cmd.alias]) EXCEPT !.uses = 0].drift = "none"
      BY <3>2 DEF Entry
    <3>4. mem' = mem \/ \E e : mem' = Change(mem, cmd.alias, e) /\ e.drift = "none"
      BY <2>2, <3>2, <3>3 DEF AcquireReset, AcquireBoot
    <3>5. mem'[a] = mem[a] \/ mem'[a].drift = "none"
      BY <3>1, <3>4, <1>0, ChangeAt DEF TypeOK
    <3> QED BY <3>1, <3>5, <1>0 DEF Calm
  <2>3. CASE AcquireFails
    <3>1. cmd.alias \in Aliases /\ reg' = reg /\ undo' = undo
      BY <2>0, <2>3 DEF AcquireFails, AcquireControl
    <3>2. \A why \in Drift : Calm([Broken(mem[cmd.alias], why) EXCEPT !.active = None])
      BY <3>1, <1>0, EntryTypes, EntryFields DEF Calm, Entry
    <3>3. PICK why \in Drift :
            mem' = Change(mem, cmd.alias, [Broken(mem[cmd.alias], why) EXCEPT !.active = None])
      BY <2>3 DEF AcquireFails, Drift
    <3> QED BY <3>1, <3>2, <3>3, <1>0, ChangeAt DEF TypeOK
  <2>4. CASE \/ AcquireRejected \/ AcquireActivateFails \/ AcquireReturn
             \/ AcquireRolledBack \/ AcquireRollbackFails
    BY <2>4, <1>0, CalmForget DEF AcquireRejected, AcquireActivateFails, AcquireReturn,
             AcquireRolledBack, AcquireRollbackFails, Done
  <2>5. CASE \/ AcquireSelect \/ AcquireRecord \/ AcquireNoReset \/ AcquireResetDone
             \/ AcquireBootDone \/ AcquireRollback
    BY <2>5, <1>0 DEF AcquireSelect, AcquireRecord, AcquireNoReset, AcquireResetDone,
             AcquireBootDone, AcquireRollback, Persist
  <2> QED BY <1>4, <2>1, <2>2, <2>3, <2>4, <2>5 DEF Acquire
<1>5. CASE EndLease
  <2>1. CASE ReleaseLease \/ Contain
    <3>1. cmd.alias \in Aliases
      BY <2>1, <1>0 DEF ReleaseLease, Contain, Working, CommandOK, LeaseKinds
    <3>2. Calm(Released(mem[cmd.alias]))
      BY <3>1, <1>0, EntryFields DEF Calm
    <3> QED BY <2>1, <3>1, <3>2, <1>0, ChangeAt DEF ReleaseLease, Contain, Persist, TypeOK
  <2>2. CASE ReleaseUnlink
    BY <2>2, <1>0, BlankFields DEF ReleaseUnlink, Calm
  <2>3. CASE ReleaseRestore \/ ContainUnlink \/ Register \/ LeaseCommandEnds
    BY <2>3, <1>0, CalmForget DEF ReleaseRestore, ContainUnlink, Register, LeaseCommandEnds,
             Done, DoneWriting
  <2> QED BY <1>5, <2>1, <2>2, <2>3 DEF EndLease
<1>6. CASE PinCommand
  BY <1>6, <1>0, CalmForget DEF PinCommand, Pin, Unpin, PinRejected, Done
<1>7. CASE LifecycleStep
  <2>0. cmd.kind \in Lifecycle => cmd.alias \in Aliases
    BY <1>0 DEF CommandOK
  <2>1. CASE BootOrShutdown \/ RepairDevice
    <3>1. cmd.alias \in Aliases /\ reg' = reg /\ undo' = undo
      BY <2>0, <2>1, <1>0 DEF BootOrShutdown, RepairDevice, Lifecycle, CommandOK
    <3>2. Calm(Healthy(mem[cmd.alias]))
      BY <3>1, <1>0, EntryFields DEF Calm
    <3> QED BY <2>1, <3>1, <3>2, <1>0, ChangeAt DEF BootOrShutdown, RepairDevice, TypeOK
  <2>2. CASE EraseDevice
    <3>1. cmd.alias \in Aliases /\ reg' = reg /\ undo' = undo
      BY <2>0, <2>2 DEF EraseDevice, Working, Lifecycle
    <3>2. Calm([mem[cmd.alias] EXCEPT !.uses = 0])
      BY <3>1, <1>0 DEF Calm, Entry
    <3> QED BY <2>2, <3>1, <3>2, <1>0, ChangeAt DEF EraseDevice, TypeOK
  <2>3. CASE Revoke \/ RepairStart
    <3>1. cmd.alias \in Aliases /\ undo' = undo
      BY <2>0, <2>3 DEF Revoke, RepairStart, Working, Lifecycle
    <3>2. Calm(Released(mem[cmd.alias])) /\ Calm([mem[cmd.alias] EXCEPT !.health = "repairing"])
      BY <3>1, <1>0, EntryFields DEF Calm, Entry
    <3> QED BY <2>3, <3>1, <3>2, <1>0, ChangeAt DEF Revoke, RepairStart, Persist, TypeOK
  <2>4. CASE RepairFails
    <3>1. cmd.alias \in Aliases
      BY <2>4, <1>0, <2>0 DEF RepairFails, CommandOK
    <3>2. Calm(Broken(mem[cmd.alias], "repair-failed"))
      BY <3>1, <1>0, EntryFields DEF Calm
    <3> QED BY <2>4, <3>1, <3>2, <1>0, ChangeAt, CalmForget DEF RepairFails, DoneWriting, TypeOK
  <2>5. CASE LifecycleRejected \/ EraseFails \/ LifecycleWrite
    BY <2>5, <1>0, CalmForget DEF LifecycleRejected, EraseFails, LifecycleWrite, Done, DoneWriting
  <2>6. CASE RevokeUnlink
    BY <2>6, <1>0 DEF RevokeUnlink
  <2> QED BY <1>7, <2>1, <2>2, <2>3, <2>4, <2>5, <2>6 DEF LifecycleStep
<1>8. CASE Environment
  <2>1. ASSUME NEW b \in Aliases, GraceEnds(b) PROVE Calm(reg'[a])
    <3>1. reg'[a].health = reg[a].health /\ reg'[a].drift = reg[a].drift
      BY <2>1, <1>0 DEF GraceEnds, TypeOK, Registry, Entry
    <3> QED BY <3>1, <1>0 DEF Calm
  <2> QED BY <1>8, <2>1, <1>0, CalmForget
          DEF Environment, OwnerDies, OwnerStarts, DeviceLost, GraceEnds, Crash
<1>9. CASE UNCHANGED vars
  BY <1>9, <1>0 DEF vars
<1> QED BY <1>1, <1>2, <1>3, <1>4, <1>5, <1>6, <1>7, <1>8, <1>9 DEF Next, Command


-----------------------------------------------------------------------------
(* What the writes of a command leave in its registry. *)

(* markAliasLeaseReleased: no lease, one use more; health and its cause stay. *)
LEMMA WriteReleased ==
  ASSUME TypeOK, NEW x \in Aliases, NEW m, m = Change(mem, x, Released(mem[x]))
  PROVE  /\ \A a \in Aliases : a # x => m[a] = mem[a]
         /\ m[x].active = None /\ m[x].health = mem[x].health /\ m[x].drift = mem[x].drift
         /\ m[x].rest = "fresh" /\ m[x].uses = Least(mem[x].uses + 1, MaxUses)
BY ChangeAt, EntryFields DEF TypeOK, Registry

(* A device that works makes its alias healthy. *)
LEMMA WriteHealthy ==
  ASSUME TypeOK, NEW x \in Aliases, NEW m, m = Change(mem, x, Healthy(mem[x]))
  PROVE  /\ \A a \in Aliases : a # x => m[a] = mem[a]
         /\ m[x].active = mem[x].active /\ m[x].health = "healthy" /\ m[x].drift = "none"
         /\ m[x].rest = mem[x].rest /\ m[x].uses = mem[x].uses
BY ChangeAt, EntryFields DEF TypeOK, Registry

(* An erased device starts to count again. *)
LEMMA WriteErased ==
  ASSUME TypeOK, NEW x \in Aliases, NEW m, m = Change(mem, x, [Healthy(mem[x]) EXCEPT !.uses = 0])
  PROVE  /\ \A a \in Aliases : a # x => m[a] = mem[a]
         /\ m[x].active = mem[x].active /\ m[x].health = "healthy" /\ m[x].drift = "none"
         /\ m[x].rest = mem[x].rest /\ m[x].uses = 0
<1> DEFINE h == Healthy(mem[x])
<1>1. mem \in Registry /\ mem[x] \in Entry
  BY DEF TypeOK, Registry
<1>2. /\ h \in Entry /\ h.active = mem[x].active /\ h.health = "healthy" /\ h.drift = "none"
      /\ h.rest = mem[x].rest
  BY <1>1, EntryTypes, EntryFields
<1>3. [h EXCEPT !.uses = 0] = [active |-> mem[x].active, health |-> "healthy", drift |-> "none",
                               uses |-> 0, rest |-> mem[x].rest]
  BY <1>2 DEF Entry
<1> QED BY <1>1, <1>3, ChangeAt

(* A failure takes the alias out of use and leaves its lease and counters alone. *)
LEMMA WriteBroken ==
  ASSUME TypeOK, NEW x \in Aliases, NEW why, NEW m, m = Change(mem, x, Broken(mem[x], why))
  PROVE  /\ \A a \in Aliases : a # x => m[a] = mem[a]
         /\ m[x].active = mem[x].active /\ m[x].health = "repair-needed" /\ m[x].drift = why
         /\ m[x].rest = mem[x].rest /\ m[x].uses = mem[x].uses
BY ChangeAt, EntryFields DEF TypeOK, Registry

(* A failed acquire also takes back its lease. *)
LEMMA WriteFailed ==
  ASSUME TypeOK, AcquireFails, cmd.alias \in Aliases
  PROVE  /\ \A a \in Aliases : a # cmd.alias => mem'[a] = mem[a]
         /\ mem'[cmd.alias].active = None /\ mem'[cmd.alias].health = "repair-needed"
         /\ mem'[cmd.alias].drift \in Failed
         /\ mem'[cmd.alias].rest = mem[cmd.alias].rest
         /\ mem'[cmd.alias].uses = mem[cmd.alias].uses
<1>1. mem \in Registry /\ mem[cmd.alias] \in Entry
  BY DEF TypeOK, Registry
<1>2. PICK why \in Failed :
        mem' = Change(mem, cmd.alias, [Broken(mem[cmd.alias], why) EXCEPT !.active = None])
  BY DEF AcquireFails, Failed
<1> DEFINE b == Broken(mem[cmd.alias], why)
<1>3. /\ b \in Entry /\ b.health = "repair-needed" /\ b.drift = why
      /\ b.rest = mem[cmd.alias].rest /\ b.uses = mem[cmd.alias].uses
  <2>1. why \in Drift
    BY DEF Failed, Drift
  <2>2. b \in Entry
    BY <2>1, <1>1, EntryTypes
  <2>3. /\ b.health = "repair-needed" /\ b.drift = why
        /\ b.rest = mem[cmd.alias].rest /\ b.uses = mem[cmd.alias].uses
    BY <1>1, EntryFields
  <2> QED BY <2>2, <2>3
<1>4. [b EXCEPT !.active = None] = [active |-> None, health |-> "repair-needed", drift |-> why,
                                    uses |-> mem[cmd.alias].uses, rest |-> mem[cmd.alias].rest]
  BY <1>3 DEF Entry
<1> QED BY <1>1, <1>2, <1>4, ChangeAt

(* The record of an acquired lease. *)
LEMMA WriteActive ==
  ASSUME TypeOK, NEW x \in Aliases, NEW l, NEW m, m = Change(mem, x, [mem[x] EXCEPT !.active = l])
  PROVE  /\ \A a \in Aliases : a # x => m[a] = mem[a]
         /\ m[x].active = l /\ m[x].health = mem[x].health /\ m[x].drift = mem[x].drift
         /\ m[x].rest = mem[x].rest /\ m[x].uses = mem[x].uses
<1>1. mem \in Registry /\ mem[x] \in Entry
  BY DEF TypeOK, Registry
<1>2. [mem[x] EXCEPT !.active = l] = [active |-> l, health |-> mem[x].health,
                                    drift |-> mem[x].drift, uses |-> mem[x].uses,
                                    rest |-> mem[x].rest]
  BY <1>1 DEF Entry
<1> QED BY <1>1, <1>2, ChangeAt

(* The start of a repair. *)
LEMMA WriteRepairing ==
  ASSUME TypeOK, NEW x \in Aliases, NEW m, m = Change(mem, x, [mem[x] EXCEPT !.health = "repairing"])
  PROVE  /\ \A a \in Aliases : a # x => m[a] = mem[a]
         /\ m[x].active = mem[x].active /\ m[x].health = "repairing" /\ m[x].drift = mem[x].drift
         /\ m[x].rest = mem[x].rest /\ m[x].uses = mem[x].uses
<1>1. mem \in Registry /\ mem[x] \in Entry
  BY DEF TypeOK, Registry
<1>2. [mem[x] EXCEPT !.health = "repairing"] = [active |-> mem[x].active, health |-> "repairing",
                                    drift |-> mem[x].drift, uses |-> mem[x].uses,
                                    rest |-> mem[x].rest]
  BY <1>1 DEF Entry
<1> QED BY <1>1, <1>2, ChangeAt

(* An erase on request. *)
LEMMA WriteUnused ==
  ASSUME TypeOK, NEW x \in Aliases, NEW m, m = Change(mem, x, [mem[x] EXCEPT !.uses = 0])
  PROVE  /\ \A a \in Aliases : a # x => m[a] = mem[a]
         /\ m[x].active = mem[x].active /\ m[x].health = mem[x].health /\ m[x].drift = mem[x].drift
         /\ m[x].rest = mem[x].rest /\ m[x].uses = 0
<1>1. mem \in Registry /\ mem[x] \in Entry
  BY DEF TypeOK, Registry
<1>2. [mem[x] EXCEPT !.uses = 0] = [active |-> mem[x].active, health |-> mem[x].health,
                                    drift |-> mem[x].drift, uses |-> 0,
                                    rest |-> mem[x].rest]
  BY <1>1 DEF Entry
<1> QED BY <1>1, <1>2, ChangeAt

(* What a load writes: the entries it has in memory, synchronised, with the lease
   that is on disk. *)
LEMMA WriteSynced ==
  ASSUME IInv, LoadSync, NEW a \in Aliases
  PROVE  /\ mem'[a] = reg'[a] /\ Only(a, mem'[a].active)
         /\ mem'[a].rest = mem[a].rest /\ mem'[a].uses = mem[a].uses
         /\ mem'[a].health = "healthy" => mem[a].health = "healthy"
         /\ Calm(mem'[a])
         /\ mem'[a].drift \in {mem[a].drift, "none", "simulator-missing", "repair-interrupted"}
<1> DEFINE m == IF LeasesOn(a) = {} THEN None ELSE CHOOSE l \in LeasesOn(a) : TRUE
           r == Rebuilt(a)
<1>0. TypeOK /\ OneLeasePerAlias /\ mem[a] \in Entry
  BY DEF IInv, TypeOK, Registry
<1>1. mem' = [b \in Aliases |-> Synced(b, Rebuilt(b))] /\ reg' = mem'
  BY DEF LoadSync, Persist
<1>2. Only(a, m) /\ m \in Leases \cup {None}
  <2>1. CASE LeasesOn(a) = {}
    BY <2>1, BrokerAssumption DEF LeasesOn, Files, Only, On
  <2>2. CASE LeasesOn(a) # {}
    <3>1. m \in LeasesOn(a)
      BY <2>2
    <3> HIDE DEF m
    <3> QED BY <3>1, <1>0 DEF LeasesOn, Files, Only, On, OneLeasePerAlias
  <2> QED BY <2>1, <2>2
<1>3. r = [mem[a] EXCEPT !.active = m]
  BY DEF Rebuilt
<1> HIDE DEF m
<1>4. /\ r \in Entry /\ r.active = m /\ r.rest = mem[a].rest /\ r.uses = mem[a].uses
      /\ r.health = mem[a].health /\ r.drift = mem[a].drift
  BY <1>0, <1>2, <1>3 DEF Entry
<1> HIDE DEF r
<1> QED BY <1>1, <1>2, <1>4, SyncedFields DEF r


-----------------------------------------------------------------------------
(* Health: what no step but a repair may turn back. *)

(* The alias a is not made healthy on disk, but by its repair. *)
Heals(a) == cmd.kind = "repair" /\ cmd.alias = a
NoHealing ==
  \A a \in Aliases : reg[a].health # "healthy" /\ reg'[a].health = "healthy" => Heals(a)

(* A command that has ended claims nothing of health. *)
LEMMA HealthForget == ForgetCommand => HealthOK'
BY DEF ForgetCommand, NoCmd, HealthOK, Acquiring

(* A command starts with the registry on disk. *)
LEMMA HealthRequest == IInv /\ HealthOK /\ Request => HealthOK' /\ NoHealing
<1> SUFFICES ASSUME IInv, HealthOK, Request PROVE HealthOK' /\ NoHealing
  OBVIOUS
<1> USE DEF disk, Acquiring
<1>1. reg' = reg /\ pc' \in {"load", "idle"}
  BY DEF Request, StartAcquire, StartLease, StartLifecycle, StartPin, StartUnpin, StartPlain,
         StartCleanup, Start
<1>2. \A a \in Aliases : mem'[a].health = "healthy" => reg[a].health = "healthy"
  <2>1. CASE StartCleanup
    BY <2>1, SyncedFields DEF StartCleanup, IInv, TypeOK, Registry
  <2>2. CASE ~StartCleanup
    BY <2>2 DEF Request, StartAcquire, StartLease, StartLifecycle, StartPin, StartUnpin,
                StartPlain, Start
  <2> QED BY <2>1, <2>2
<1> QED BY <1>1, <1>2 DEF HealthOK, NoHealing

(* No load makes an alias healthy. *)
LEMMA HealthLoad == IInv /\ OwnLease /\ HealthOK /\ Load => HealthOK' /\ NoHealing
<1> SUFFICES ASSUME IInv, OwnLease, HealthOK, Load PROVE HealthOK' /\ NoHealing
  OBVIOUS
<1> USE DEF disk, Goto, Acquiring, Heals
<1>0. TypeOK /\ CommandOK
  BY DEF IInv
<1>1. ASSUME NEW l \in Leases, LoadStale(l) \/ LoadContain(l) PROVE HealthOK' /\ NoHealing
  <2>1. file[l].alias \in Aliases
    BY <1>1, <1>0 DEF LoadStale, LoadContain, Examined, CommandOK, TypeOK, Files, Records
  <2>2. \A a \in Aliases : mem'[a].health = mem[a].health
    BY <1>1, <2>1, <1>0, WriteReleased DEF LoadStale, LoadContain, Persist
  <2> QED BY <1>1, <2>2 DEF LoadStale, LoadContain, Examined, Persist, HealthOK, NoHealing
<1>2. ASSUME NEW l \in Leases, LoadLeftover(l) \/ LoadKeep(l) PROVE HealthOK' /\ NoHealing
  BY <1>2 DEF LoadLeftover, LoadKeep, Examined, HealthOK, NoHealing
<1>3. CASE LoadUnlink
  BY <1>3 DEF LoadUnlink, HealthOK, NoHealing
<1>4. CASE LoadSync
  <2>1. ASSUME NEW a \in Aliases
        PROVE  mem'[a] = reg'[a] /\ (mem'[a].health = "healthy" => mem[a].health = "healthy")
    BY <1>4, WriteSynced
  <2>2. NoHealing
    BY <1>4, <2>1 DEF LoadSync, HealthOK, NoHealing
  <2>3. pc' # "unlink" /\ pc' \notin Acquiring /\ (pc' = "reclaim" => cmd'.kind # "acquire")
    BY <1>4 DEF LoadSync
  <2> QED BY <2>1, <2>2, <2>3 DEF HealthOK
<1>5. CASE Refresh
  BY <1>5, HealthForget DEF Refresh, Done, NoHealing
<1> QED BY <1>1, <1>2, <1>3, <1>4, <1>5 DEF Load

(* Slot reclaim and idle shutdown take aliases out of use and return none. *)
LEMMA HealthIdle == IInv /\ OwnLease /\ HealthOK /\ Idle => HealthOK' /\ NoHealing
<1> SUFFICES ASSUME IInv, OwnLease, HealthOK, Idle PROVE HealthOK' /\ NoHealing
  OBVIOUS
<1> USE DEF disk, Goto, Acquiring, Heals
<1>0. TypeOK /\ CommandOK
  BY DEF IInv
<1>1. ASSUME NEW b \in Aliases, ReclaimErase(b) PROVE HealthOK' /\ NoHealing
  <2>1. /\ pc = "reclaim" /\ pc' = "reclaim" /\ cmd' = cmd /\ reg' = reg
        /\ mem[b].health = "healthy"
    BY <1>1 DEF ReclaimErase, Visit, Reclaimable
  <2>2. /\ \A a \in Aliases : a # b => mem'[a] = mem[a]
        /\ mem'[b].health = "healthy"
    BY <1>1, <1>0, WriteErased DEF ReclaimErase
  <2>3. cmd.kind = "acquire" => cmd.alias \in Aliases
    BY <2>1, <1>0 DEF CommandOK
  <2> QED BY <2>1, <2>2, <2>3 DEF HealthOK, NoHealing
<1>2. ASSUME NEW b \in Aliases, ReclaimFails(b) PROVE HealthOK' /\ NoHealing
  <2>1. pc = "reclaim" /\ pc' = "reclaim" /\ cmd' = cmd /\ reg' = reg
    BY <1>2 DEF ReclaimFails, Visit
  <2>2. /\ \A a \in Aliases : a # b => mem'[a] = mem[a]
        /\ mem'[b].health = "repair-needed" /\ mem'[b].drift = "slot-reclaim-failed"
    BY <1>2, <1>0, WriteBroken DEF ReclaimFails
  <2>3. cmd.kind = "acquire" => cmd.alias \in Aliases
    BY <2>1, <1>0 DEF CommandOK
  <2> QED BY <2>1, <2>2, <2>3 DEF HealthOK, NoHealing
<1>3. ASSUME NEW b \in Aliases, IdleShutdownFails(b) PROVE HealthOK' /\ NoHealing
  <2>1. pc = "idle" /\ pc' = "idle" /\ cmd' = cmd /\ reg' = mem'
    BY <1>3 DEF IdleShutdownFails, IdleStep, Persist
  <2>2. /\ \A a \in Aliases : a # b => mem'[a] = mem[a]
        /\ mem'[b].health = "repair-needed"
    BY <1>3, <1>0, WriteBroken DEF IdleShutdownFails, Persist
  <2> QED BY <2>1, <2>2 DEF HealthOK, NoHealing
<1>4. ASSUME NEW b \in Aliases, ReclaimSkip(b) \/ IdleShutdown(b) PROVE HealthOK' /\ NoHealing
  BY <1>4 DEF ReclaimSkip, IdleShutdown, Visit, IdleStep, HealthOK, NoHealing
<1>5. CASE ReclaimEnd
  <2>1. NoHealing
    BY <1>5 DEF ReclaimEnd, DoneWriting, Persist, HealthOK, NoHealing
  <2>2. CASE ForgetCommand
    BY <2>1, <2>2, HealthForget
  <2>3. CASE ~ForgetCommand
    <3>1. mem' = mem /\ reg' = mem /\ cmd' = cmd /\ pc' \in {"record", "idle"}
      BY <1>5, <2>3 DEF ReclaimEnd, DoneWriting, Persist
    <3>2. pc' = "record" => mem[cmd.alias].health = "healthy"
      BY <1>5, <2>3 DEF ReclaimEnd, DoneWriting, HealthOK
    <3> QED BY <2>1, <3>1, <3>2 DEF HealthOK
  <2> QED BY <2>2, <2>3
<1>6. CASE IdleEnd
  BY <1>6, HealthForget DEF IdleEnd, DoneWriting, HealthOK, NoHealing, OwnLease
<1> QED BY <1>1, <1>2, <1>3, <1>4, <1>5, <1>6 DEF Idle

(* An acquire goes on while its alias is healthy, and no longer. *)
LEMMA HealthAcquire == IInv /\ OwnLease /\ HealthOK /\ Acquire => HealthOK' /\ NoHealing
<1> SUFFICES ASSUME IInv, OwnLease, HealthOK, Acquire PROVE HealthOK' /\ NoHealing
  OBVIOUS
<1> USE DEF disk, Goto, Heals
<1>0. TypeOK /\ CommandOK /\ (pc \in AcquireControl => cmd.kind = "acquire" /\ cmd.alias \in Aliases)
  BY DEF IInv, CommandOK
<1>1. CASE AcquireSelect
  BY <1>1 DEF AcquireSelect, Working, Candidate, HealthOK, NoHealing, Acquiring
<1>2. CASE AcquireRecord \/ AcquireNoReset
  BY <1>2 DEF AcquireRecord, AcquireNoReset, HealthOK, NoHealing, Acquiring
<1>3. CASE AcquireActivate
  <2>1. cmd.alias \in Aliases /\ cmd' = cmd /\ mem' = reg' /\ pc = "activate" /\ pc' = "reset"
    BY <1>3, <1>0 DEF AcquireActivate, AcquireControl, Persist
  <2>2. \A a \in Aliases : mem'[a].health = mem[a].health
    BY <1>3, <2>1, <1>0, WriteActive DEF AcquireActivate, Persist
  <2> QED BY <2>1, <2>2, <1>0 DEF HealthOK, NoHealing, Acquiring
<1>4. CASE AcquireReset \/ AcquireBoot
  <2>1. /\ cmd.alias \in Aliases /\ cmd' = cmd /\ reg' = reg /\ pc \in Acquiring
        /\ pc' \in Acquiring
    BY <1>4, <1>0 DEF AcquireReset, AcquireBoot, AcquireControl, Acquiring
  <2>2. \A a \in Aliases : mem'[a].health = mem[a].health
    BY <1>4, <2>1, <1>0, WriteErased, WriteHealthy DEF AcquireReset, AcquireBoot, HealthOK
  <2> QED BY <2>1, <2>2, <1>0 DEF HealthOK, NoHealing, Acquiring
<1>5. CASE AcquireResetDone \/ AcquireBootDone \/ AcquireRollback
  <2>1. /\ mem' = mem /\ reg' = mem /\ cmd' = cmd /\ pc # "free" /\ pc' \notin {"reclaim", "unlink"}
        /\ pc' \in Acquiring => pc \in Acquiring
    BY <1>5 DEF AcquireResetDone, AcquireBootDone, AcquireRollback, Persist, Acquiring
  <2> QED BY <2>1 DEF HealthOK, NoHealing
<1>6. CASE AcquireFails
  <2>1. /\ cmd.alias \in Aliases /\ cmd' = cmd /\ reg' = reg /\ pc \in Acquiring
        /\ pc' = "rollback"
    BY <1>6, <1>0 DEF AcquireFails, AcquireControl, Acquiring
  <2>2. /\ \A a \in Aliases : a # cmd.alias => mem'[a] = mem[a]
        /\ mem'[cmd.alias].health = "repair-needed"
    BY <1>6, <2>1, <1>0, WriteFailed
  <2> QED BY <2>1, <2>2 DEF HealthOK, NoHealing, Acquiring
<1>7. CASE \/ AcquireRejected \/ AcquireActivateFails \/ AcquireReturn
           \/ AcquireRolledBack \/ AcquireRollbackFails
  BY <1>7, HealthForget DEF AcquireRejected, AcquireActivateFails, AcquireReturn,
           AcquireRolledBack, AcquireRollbackFails, Done, NoHealing
<1> QED BY <1>1, <1>2, <1>3, <1>4, <1>5, <1>6, <1>7 DEF Acquire

(* The end of a lease says nothing of health. *)
LEMMA HealthEndLease == IInv /\ OwnLease /\ HealthOK /\ EndLease => HealthOK' /\ NoHealing
<1> SUFFICES ASSUME IInv, OwnLease, HealthOK, EndLease PROVE HealthOK' /\ NoHealing
  OBVIOUS
<1> USE DEF disk, Goto, Acquiring, Heals
<1>0. TypeOK /\ CommandOK
  BY DEF IInv
<1>1. CASE ReleaseLease \/ Contain
  <2>1. /\ cmd.kind \in {"release", "contain"} /\ cmd' = cmd /\ pc = "work"
        /\ pc' \in {"unlink", "containUnlink"} /\ mem' = reg'
        /\ pc' = "unlink" => undo' = mem
    BY <1>1 DEF ReleaseLease, Contain, Working, Persist
  <2>2. cmd.alias \in Aliases
    BY <2>1, <1>0 DEF CommandOK, LeaseKinds
  <2>3. \A a \in Aliases : mem'[a].health = mem[a].health
    BY <1>1, <2>2, <1>0, WriteReleased DEF ReleaseLease, Contain, Persist
  <2> QED BY <2>1, <2>3 DEF HealthOK, NoHealing
<1>2. CASE ReleaseUnlink
  <2>1. cmd.kind = "release"
    BY <1>2, <1>0 DEF ReleaseUnlink, CommandOK
  <2> QED BY <1>2, <2>1 DEF ReleaseUnlink, HealthOK, NoHealing
<1>3. CASE ReleaseRestore \/ ContainUnlink \/ Register \/ LeaseCommandEnds
  BY <1>3, HealthForget
     DEF ReleaseRestore, ContainUnlink, Register, LeaseCommandEnds, Done, DoneWriting,
         HealthOK, NoHealing
<1> QED BY <1>1, <1>2, <1>3 DEF EndLease

(* Of the lifecycle commands only a repair turns its alias healthy. *)
LEMMA HealthOthers ==
  IInv /\ OwnLease /\ HealthOK /\ (PinCommand \/ LifecycleStep) => HealthOK' /\ NoHealing
<1> SUFFICES ASSUME IInv, OwnLease, HealthOK, PinCommand \/ LifecycleStep PROVE HealthOK' /\ NoHealing
  OBVIOUS
<1> USE DEF disk, Goto, Acquiring, Heals
<1>0. TypeOK /\ CommandOK
  BY DEF IInv
<1>1. CASE Pin \/ Unpin \/ PinRejected \/ LifecycleRejected \/ EraseFails \/ LifecycleWrite
  <2>1. ForgetCommand /\ reg' \in {reg, mem} /\ (reg' = mem => pc # "free" \/ reg' = reg)
    BY <1>1 DEF Pin, Unpin, PinRejected, LifecycleRejected, EraseFails, LifecycleWrite, Working,
                Done, DoneWriting
  <2> QED BY <2>1, HealthForget DEF HealthOK, NoHealing
<1>2. CASE BootOrShutdown \/ RepairDevice \/ EraseDevice
  <2>1. /\ cmd' = cmd /\ reg' = reg /\ pc \in {"work", "repair"} /\ pc' = "write"
        /\ cmd.kind \in Lifecycle
    BY <1>2, <1>0 DEF BootOrShutdown, RepairDevice, EraseDevice, Working, Lifecycle, CommandOK
  <2>2. cmd.alias \in Aliases
    BY <2>1, <1>0 DEF CommandOK
  <2>3. \A a \in Aliases : mem'[a].health = "healthy" => mem[a].health = "healthy" \/ Heals(a)
    <3>1. CASE BootOrShutdown
      BY <3>1, <2>2, <1>0, WriteHealthy DEF BootOrShutdown
    <3>2. CASE EraseDevice
      BY <3>2, <2>2, <1>0, WriteUnused DEF EraseDevice
    <3>3. CASE RepairDevice
      BY <3>3, <2>2, <1>0, WriteHealthy DEF RepairDevice, OwnLease
    <3> QED BY <1>2, <3>1, <3>2, <3>3
  <2> QED BY <2>1, <2>3 DEF HealthOK, NoHealing
<1>3. CASE Revoke \/ RepairStart
  <2>1. /\ cmd' = cmd /\ reg' = mem' /\ pc = "work" /\ pc' \in {"revokeUnlink", "repair"}
        /\ cmd.kind = "repair"
    BY <1>3 DEF Revoke, RepairStart, Working, Persist
  <2>2. cmd.alias \in Aliases
    BY <2>1, <1>0 DEF CommandOK, Lifecycle
  <2>3. \A a \in Aliases : mem'[a].health = "healthy" => mem[a].health = "healthy"
    BY <1>3, <2>2, <1>0, WriteReleased, WriteRepairing DEF Revoke, RepairStart, Persist
  <2> QED BY <2>1, <2>3 DEF HealthOK, NoHealing
<1>4. CASE RevokeUnlink
  BY <1>4 DEF RevokeUnlink, HealthOK, NoHealing
<1>5. CASE RepairFails
  <2>1. /\ cmd.kind = "repair" /\ cmd.alias \in Aliases /\ pc # "free" /\ ForgetCommand
        /\ reg' = Change(mem, cmd.alias, Broken(mem[cmd.alias], "repair-failed"))
    BY <1>5, <1>0 DEF RepairFails, DoneWriting, OwnLease, CommandOK, Lifecycle
  <2>2. \A a \in Aliases : reg'[a].health = "healthy" => mem[a].health = "healthy"
    BY <2>1, <1>0, WriteBroken
  <2> QED BY <2>1, <2>2, HealthForget DEF HealthOK, NoHealing
<1> QED BY <1>1, <1>2, <1>3, <1>4, <1>5 DEF PinCommand, LifecycleStep

(* Time and deaths change no health. *)
LEMMA HealthEnvironment == IInv /\ HealthOK /\ Environment => HealthOK' /\ NoHealing
<1> SUFFICES ASSUME IInv, HealthOK, Environment PROVE HealthOK' /\ NoHealing
  OBVIOUS
<1> USE DEF disk, local
<1>1. ASSUME NEW o \in Owners, OwnerDies(o) \/ OwnerStarts(o) PROVE HealthOK' /\ NoHealing
  BY <1>1 DEF OwnerDies, OwnerStarts, HealthOK, NoHealing
<1>2. ASSUME NEW a \in Aliases, DeviceLost(a) PROVE HealthOK' /\ NoHealing
  BY <1>2 DEF DeviceLost, HealthOK, NoHealing
<1>3. ASSUME NEW a \in Aliases, GraceEnds(a) PROVE HealthOK' /\ NoHealing
  <2>1. \A b \in Aliases : reg'[b].health = reg[b].health
    BY <1>3 DEF GraceEnds, IInv, TypeOK, Registry, Entry
  <2> QED BY <1>3, <2>1 DEF GraceEnds, HealthOK, NoHealing, Acquiring
<1>4. CASE Crash
  BY <1>4, HealthForget DEF Crash, NoHealing
<1> QED BY <1>1, <1>2, <1>3, <1>4 DEF Environment

(* Health on disk is regained by a repair only, step by step. *)
LEMMA HealthStep == IInv /\ OwnLease /\ HealthOK /\ [Next]_vars => HealthOK' /\ NoHealing
<1>1. ASSUME HealthOK, UNCHANGED vars PROVE HealthOK' /\ NoHealing
  BY <1>1 DEF vars, disk, device, history, local, HealthOK, NoHealing
<1> QED BY <1>1, HealthRequest, HealthLoad, HealthIdle, HealthAcquire, HealthEndLease,
           HealthOthers, HealthEnvironment DEF Next, Command


-----------------------------------------------------------------------------
(* Leases that were handed out. *)

(* No failed acquire is held against the alias of a lease that was handed out. *)
HandedOK ==
  \A l \in handed : /\ reg[file[l].alias].drift \notin Failed
                    /\ mem[file[l].alias].drift \notin Failed
                    /\ undo[file[l].alias].drift \notin Failed

(* Where a lease file may go, where a lease is handed out. *)
Ends(l) == LoadLeftover(l) \/ LoadStale(l) \/ (LoadUnlink /\ l = victim) \/ l = cmd.lease

(* Which steps hand out a lease and which end one. *)
LEMMA LeaseSteps ==
  ASSUME IInv, [Next]_vars, NEW l \in Leases
  PROVE  /\ l \in handed' => l \in handed \/ (AcquireReturn /\ l = cmd.lease)
         /\ file[l] # None /\ file'[l] = None => Ends(l)
<1> DEFINE Claim == /\ l \in handed' => l \in handed \/ (AcquireReturn /\ l = cmd.lease)
                    /\ file[l] # None /\ file'[l] = None => Ends(l)
<1> SUFFICES Claim
  OBVIOUS
<1> USE DEF disk, device, history, Goto, Done, DoneWriting, Ends
<1>0. TypeOK /\ CommandOK
  BY DEF IInv
<1>1. CASE Request
  BY <1>1 DEF Request, StartAcquire, StartLease, StartLifecycle, StartPin, StartUnpin,
              StartPlain, StartCleanup, Start
<1>2. CASE Load
  <2>1. ASSUME NEW m \in Leases, LoadLeftover(m) \/ LoadStale(m) PROVE Claim
    BY <2>1, <1>0, RemoveEffect DEF LoadLeftover, LoadStale
  <2>2. ASSUME NEW m \in Leases, LoadKeep(m) \/ LoadContain(m) PROVE Claim
    BY <2>2 DEF LoadKeep, LoadContain
  <2>3. CASE LoadUnlink
    <3>1. victim \in Leases /\ RemoveFile(victim)
      BY <2>3, <1>0 DEF LoadUnlink, CommandOK, Files
    <3> QED BY <3>1, <2>3, <1>0, RemoveEffect
  <2>4. CASE LoadSync \/ Refresh
    BY <2>4 DEF LoadSync, Refresh
  <2> QED BY <1>2, <2>1, <2>2, <2>3, <2>4 DEF Load
<1>3. CASE Idle
  BY <1>3 DEF Idle, ReclaimSkip, ReclaimErase, Erase, ReclaimFails, IdleShutdown,
              IdleShutdownFails, ReclaimEnd, IdleEnd
<1>4. CASE \/ AcquireActivateFails \/ AcquireRolledBack \/ ReleaseUnlink \/ ContainUnlink
           \/ RevokeUnlink
  <2>1. RemoveFile(cmd.lease)
    BY <1>4 DEF AcquireActivateFails, AcquireRolledBack, ReleaseUnlink, ContainUnlink, RevokeUnlink
  <2> QED BY <2>1, <1>0 DEF RemoveFile, TypeOK
<1>5. CASE AcquireRecord \/ Register
  <2>1. file[l] # None /\ l # cmd.lease => file'[l] = file[l]
    BY <1>5, <1>0 DEF AcquireRecord, Register, TypeOK
  <2> QED BY <2>1, <1>5 DEF AcquireRecord, Register
<1>6. CASE AcquireReturn
  BY <1>6 DEF AcquireReturn
<1>7. CASE \/ AcquireSelect \/ AcquireRejected \/ AcquireActivate
           \/ AcquireNoReset \/ AcquireReset \/ AcquireResetDone
           \/ AcquireBoot \/ AcquireBootDone
           \/ AcquireFails \/ AcquireRollback \/ AcquireRollbackFails
  BY <1>7 DEF AcquireSelect, AcquireRejected, AcquireActivate, AcquireNoReset, AcquireReset,
              Erase, AcquireResetDone, AcquireBoot, AcquireBootDone, AcquireFails,
              AcquireRollback, AcquireRollbackFails
<1>8. CASE ReleaseLease \/ ReleaseRestore \/ Contain \/ LeaseCommandEnds \/ PinCommand
  BY <1>8 DEF ReleaseLease, ReleaseRestore, Contain, LeaseCommandEnds, PinCommand, Pin, Unpin,
              PinRejected
<1>9. CASE \/ LifecycleRejected \/ BootOrShutdown \/ EraseDevice \/ EraseFails
           \/ LifecycleWrite \/ Revoke \/ RepairStart \/ RepairDevice \/ RepairFails
  BY <1>9 DEF LifecycleRejected, BootOrShutdown, EraseDevice, Erase, EraseFails, LifecycleWrite,
              Revoke, RepairStart, RepairDevice, RepairFails
<1>10. CASE Environment
  BY <1>10 DEF Environment, OwnerDies, OwnerStarts, DeviceLost, GraceEnds, Crash
<1>11. CASE UNCHANGED vars
  BY <1>11 DEF vars
<1> QED BY <1>1, <1>2, <1>3, <1>4, <1>5, <1>6, <1>7, <1>8, <1>9, <1>10, <1>11
        DEF Next, Command, Acquire, EndLease, LifecycleStep

(* A lease that stays handed out stays on its alias. *)
LEMMA HandedStays ==
  ASSUME IInv, OwnLease, [Next]_vars, NEW l \in handed, l \in handed'
  PROVE  file'[l].alias = file[l].alias
<1>0. TypeOK /\ CommandOK /\ l \in Leases
  BY DEF IInv, TypeOK
<1>1. CASE UNCHANGED <<file, pin>>
  BY <1>1
<1>2. ASSUME NEW m, RemoveFile(m) PROVE file'[l].alias = file[l].alias
  BY <1>2, <1>0 DEF RemoveFile, TypeOK
<1>3. CASE AcquireRecord
  <2>1. l # cmd.lease
    BY <1>3, <1>0 DEF AcquireRecord, CommandOK, AcquireControl, OwnLease
  <2> QED BY <2>1, <1>3, <1>0 DEF AcquireRecord, TypeOK
<1>4. CASE Register
  <2>1. CASE l # cmd.lease
    BY <2>1, <1>4, <1>0 DEF Register, TypeOK
  <2>2. CASE l = cmd.lease
    <3>1. file[l] \in Records
      BY <1>0 DEF OwnLease, TypeOK
    <3>2. PICK o : file' = [file EXCEPT ![l] = [@ EXCEPT !.meta = TRUE, !.owner = o]]
      BY <2>2, <1>4, <3>1, <1>0 DEF Register, TypeOK, Records
    <3>3. file'[l] = [file[l] EXCEPT !.meta = TRUE, !.owner = o]
      BY <3>2, <1>0 DEF TypeOK
    <3> QED BY <3>1, <3>3 DEF Records
  <2> QED BY <2>1, <2>2
<1>5. CASE Pin \/ Unpin
  BY <1>5 DEF Pin, Unpin
<1> QED BY <1>1, <1>2, <1>3, <1>4, <1>5, FileSteps


(* A failed acquire is held against an alias. *)
Blamed(a) ==
  reg[a].drift \in Failed \/ mem[a].drift \in Failed \/ undo[a].drift \in Failed

(* Only a failed acquire blames its alias. *)
LEMMA BlameStep ==
  ASSUME IInv, [Next]_vars, NEW a \in Aliases, Blamed(a)'
  PROVE  Blamed(a) \/ (AcquireFails /\ a = cmd.alias)
<1> DEFINE Claim == Blamed(a) \/ (AcquireFails /\ a = cmd.alias)
<1> SUFFICES Claim
  OBVIOUS
<1> USE DEF disk, local, Goto, Done, DoneWriting, ForgetCommand, Blamed, Persist
<1>0. /\ TypeOK /\ CommandOK /\ mem[a] \in Entry /\ reg[a] \in Entry
      /\ "none" \notin Failed /\ "simulator-missing" \notin Failed
      /\ "repair-interrupted" \notin Failed /\ "slot-reclaim-failed" \notin Failed
      /\ "idle-shutdown-failed" \notin Failed /\ "repair-failed" \notin Failed
      /\ Blank[a].drift = "none"
  BY DEF IInv, TypeOK, Registry, Failed, Blank
<1>1. CASE Request
  <2>1. CASE StartCleanup
    BY <2>1, <1>0, SyncedFields DEF StartCleanup
  <2>2. CASE ~StartCleanup
    BY <1>1, <2>2 DEF Request, StartAcquire, StartLease, StartLifecycle, StartPin, StartUnpin,
                      StartPlain, Start
  <2> QED BY <2>1, <2>2
<1>2. CASE Load
  <2>1. ASSUME NEW l \in Leases, LoadStale(l) \/ LoadContain(l) PROVE Claim
    <3>1. file[l].alias \in Aliases
      BY <2>1, <1>0 DEF LoadStale, LoadContain, Examined, CommandOK, TypeOK, Files, Records
    <3>2. mem'[a].drift = mem[a].drift
      BY <2>1, <3>1, <1>0, WriteReleased DEF LoadStale, LoadContain
    <3> QED BY <2>1, <3>2 DEF LoadStale, LoadContain
  <2>2. ASSUME NEW l \in Leases, LoadLeftover(l) \/ LoadKeep(l) PROVE Claim
    BY <2>2 DEF LoadLeftover, LoadKeep
  <2>3. CASE LoadSync
    <3>1. mem'[a] = reg'[a] /\ (mem'[a].drift \in Failed => mem[a].drift \in Failed)
      BY <2>3, <1>0, WriteSynced
    <3>2. undo' = undo
      BY <2>3 DEF LoadSync
    <3> QED BY <3>1, <3>2
  <2>4. CASE LoadUnlink \/ Refresh
    BY <2>4, <1>0 DEF LoadUnlink, Refresh
  <2> QED BY <1>2, <2>1, <2>2, <2>3, <2>4 DEF Load
<1>3. CASE Idle
  <2>1. ASSUME NEW b \in Aliases, ReclaimErase(b) PROVE Claim
    <3>1. mem'[a] = mem[a] \/ mem'[a].drift = "none"
      BY <2>1, <1>0, WriteErased DEF ReclaimErase
    <3> QED BY <2>1, <3>1, <1>0 DEF ReclaimErase
  <2>2. ASSUME NEW b \in Aliases, ReclaimFails(b) \/ IdleShutdownFails(b) PROVE Claim
    <3>1. PICK why \in {"slot-reclaim-failed", "idle-shutdown-failed"} :
            mem' = Change(mem, b, Broken(mem[b], why))
      BY <2>2 DEF ReclaimFails, IdleShutdownFails
    <3>2. mem'[a] = mem[a] \/ mem'[a].drift = why
      BY <3>1, <1>0, WriteBroken
    <3> QED BY <2>2, <3>2, <1>0 DEF ReclaimFails, IdleShutdownFails
  <2>3. ASSUME NEW b \in Aliases, ReclaimSkip(b) \/ IdleShutdown(b) PROVE Claim
    BY <2>3 DEF ReclaimSkip, IdleShutdown
  <2>4. CASE ReclaimEnd \/ IdleEnd
    BY <2>4, <1>0 DEF ReclaimEnd, IdleEnd
  <2> QED BY <1>3, <2>1, <2>2, <2>3, <2>4 DEF Idle
<1>4. CASE Acquire
  <2>0. pc \in AcquireControl => cmd.alias \in Aliases
    BY <1>0 DEF CommandOK
  <2>1. CASE AcquireActivate
    <3>1. mem'[a].drift = mem[a].drift
      BY <2>0, <2>1, <1>0, WriteActive DEF AcquireActivate, AcquireControl
    <3> QED BY <2>1, <3>1 DEF AcquireActivate
  <2>2. CASE AcquireReset \/ AcquireBoot
    <3>1. mem'[a] = mem[a] \/ mem'[a].drift = "none"
      BY <2>0, <2>2, <1>0, WriteErased, WriteHealthy DEF AcquireReset, AcquireBoot, AcquireControl
    <3> QED BY <2>2, <3>1, <1>0 DEF AcquireReset, AcquireBoot
  <2>3. CASE AcquireFails
    <3>1. a # cmd.alias => mem'[a] = mem[a]
      BY <2>0, <2>3, <1>0, WriteFailed DEF AcquireFails, AcquireControl
    <3> QED BY <2>3, <3>1 DEF AcquireFails
  <2>4. CASE \/ AcquireRejected \/ AcquireActivateFails \/ AcquireReturn
             \/ AcquireRolledBack \/ AcquireRollbackFails
    BY <2>4, <1>0 DEF AcquireRejected, AcquireActivateFails, AcquireReturn,
             AcquireRolledBack, AcquireRollbackFails
  <2>5. CASE \/ AcquireSelect \/ AcquireRecord \/ AcquireNoReset \/ AcquireResetDone
             \/ AcquireBootDone \/ AcquireRollback
    BY <2>5, <1>0 DEF AcquireSelect, AcquireRecord, AcquireNoReset, AcquireResetDone,
             AcquireBootDone, AcquireRollback
  <2> QED BY <1>4, <2>1, <2>2, <2>3, <2>4, <2>5 DEF Acquire
<1>5. CASE EndLease
  <2>1. CASE ReleaseLease \/ Contain
    <3>1. cmd.alias \in Aliases
      BY <2>1, <1>0 DEF ReleaseLease, Contain, Working, CommandOK, LeaseKinds
    <3>2. mem'[a].drift = mem[a].drift
      BY <2>1, <3>1, <1>0, WriteReleased DEF ReleaseLease, Contain
    <3> QED BY <2>1, <3>2 DEF ReleaseLease, Contain
  <2>2. CASE ReleaseUnlink \/ ReleaseRestore \/ ContainUnlink \/ Register \/ LeaseCommandEnds
    BY <2>2, <1>0 DEF ReleaseUnlink, ReleaseRestore, ContainUnlink, Register, LeaseCommandEnds
  <2> QED BY <1>5, <2>1, <2>2 DEF EndLease
<1>6. CASE PinCommand
  BY <1>6, <1>0 DEF PinCommand, Pin, Unpin, PinRejected
<1>7. CASE LifecycleStep
  <2>0. cmd.kind \in Lifecycle => cmd.alias \in Aliases
    BY <1>0 DEF CommandOK
  <2>1. CASE BootOrShutdown \/ RepairDevice
    <3>1. cmd.alias \in Aliases /\ reg' = reg /\ undo' = undo
      BY <2>0, <2>1, <1>0 DEF BootOrShutdown, RepairDevice, Lifecycle, CommandOK
    <3>2. mem'[a] = mem[a] \/ mem'[a].drift = "none"
      BY <2>1, <3>1, <1>0, WriteHealthy DEF BootOrShutdown, RepairDevice
    <3> QED BY <3>1, <3>2, <1>0
  <2>2. CASE EraseDevice
    <3>1. cmd.alias \in Aliases /\ reg' = reg /\ undo' = undo
      BY <2>0, <2>2 DEF EraseDevice, Working, Lifecycle
    <3>2. mem'[a].drift = mem[a].drift
      BY <2>2, <3>1, <1>0, WriteUnused DEF EraseDevice
    <3> QED BY <3>1, <3>2
  <2>3. CASE Revoke \/ RepairStart
    <3>1. cmd.alias \in Aliases /\ undo' = undo /\ reg' = mem'
      BY <2>0, <2>3 DEF Revoke, RepairStart, Working, Lifecycle
    <3>2. mem'[a].drift = mem[a].drift
      BY <2>3, <3>1, <1>0, WriteReleased, WriteRepairing DEF Revoke, RepairStart
    <3> QED BY <3>1, <3>2
  <2>4. CASE RepairFails
    <3>1. /\ cmd.alias \in Aliases
          /\ reg' = Change(mem, cmd.alias, Broken(mem[cmd.alias], "repair-failed"))
          /\ mem' = Blank /\ undo' = Blank
      BY <2>4, <1>0, <2>0 DEF RepairFails, CommandOK
    <3>2. reg'[a] = mem[a] \/ reg'[a].drift = "repair-failed"
      BY <3>1, <1>0, WriteBroken
    <3> QED BY <3>1, <3>2, <1>0
  <2>5. CASE LifecycleRejected \/ EraseFails \/ LifecycleWrite \/ RevokeUnlink
    BY <2>5, <1>0 DEF LifecycleRejected, EraseFails, LifecycleWrite, RevokeUnlink
  <2> QED BY <1>7, <2>1, <2>2, <2>3, <2>4, <2>5 DEF LifecycleStep
<1>8. CASE Environment
  <2>1. ASSUME NEW b \in Aliases, GraceEnds(b) PROVE Claim
    <3>1. reg'[a].drift = reg[a].drift
      BY <2>1, <1>0 DEF GraceEnds, TypeOK, Registry, Entry
    <3> QED BY <2>1, <3>1 DEF GraceEnds
  <2>2. ASSUME NEW o \in Owners, OwnerDies(o) \/ OwnerStarts(o) PROVE Claim
    BY <2>2 DEF OwnerDies, OwnerStarts
  <2>3. ASSUME NEW b \in Aliases, DeviceLost(b) PROVE Claim
    BY <2>3 DEF DeviceLost
  <2>4. CASE Crash
    BY <2>4, <1>0 DEF Crash
  <2> QED BY <1>8, <2>1, <2>2, <2>3, <2>4 DEF Environment
<1>9. CASE UNCHANGED vars
  BY <1>9 DEF vars
<1> QED BY <1>1, <1>2, <1>3, <1>4, <1>5, <1>6, <1>7, <1>8, <1>9 DEF Next, Command

(* A lease is handed out on an alias that is healthy, in memory and on disk. *)
LEMMA ReturnedHealthy ==
  ASSUME IInv, OwnLease, HealthOK, AcquireReturn
  PROVE  /\ cmd.lease \in Leases /\ file[cmd.lease] # None /\ file[cmd.lease].alias = cmd.alias
         /\ cmd.alias \in Aliases /\ mem[cmd.alias].health = "healthy"
         /\ reg[cmd.alias].health = "healthy"
<1>1. /\ pc = "return" /\ cmd.kind = "acquire" /\ cmd.lease \in Leases /\ cmd.alias \in Aliases
  BY DEF IInv, CommandOK, AcquireControl, AcquireReturn
<1>2. Only(cmd.alias, cmd.lease)
  BY <1>1 DEF OwnLease, Leasing
<1>3. mem[cmd.alias].health = "healthy" /\ reg[cmd.alias].health = "healthy"
  BY <1>1 DEF HealthOK, Acquiring
<1> QED BY <1>1, <1>2, <1>3 DEF Only, On

(* A handed-out lease is never on an alias that a failed acquire took out of use. *)
LEMMA HandedStep ==
  IInv /\ OwnLease /\ EntriesOK /\ HealthOK /\ HandedOK /\ [Next]_vars => HandedOK'
<1> SUFFICES ASSUME IInv, OwnLease, EntriesOK, HealthOK, HandedOK, [Next]_vars,
                    NEW l \in handed', NEW a, a = file'[l].alias
             PROVE  ~Blamed(a)'
  BY DEF HandedOK, Blamed
<1>0. TypeOK /\ TypeOK' /\ OwnLease' /\ l \in Leases /\ a \in Aliases
  <2>1. TypeOK' /\ OwnLease'
    BY NextInv, OwnStep DEF IInv
  <2> QED BY <2>1 DEF IInv, TypeOK, OwnLease, Records
<1>1. CASE l \in handed
  <2>1. a = file[l].alias
    BY <1>1, HandedStays
  <2>2. ~Blamed(a)
    BY <1>1, <2>1 DEF HandedOK, Blamed
  <2>3. ~(AcquireFails /\ a = cmd.alias)
    <3>1. SUFFICES ASSUME AcquireFails, a = cmd.alias PROVE FALSE
      OBVIOUS
    <3>2. Only(cmd.alias, cmd.lease) /\ cmd.kind = "acquire"
      BY <3>1 DEF AcquireFails, OwnLease, Leasing, IInv, CommandOK, AcquireControl
    <3>3. l = cmd.lease
      BY <2>1, <3>1, <3>2, <1>0, <1>1 DEF Only, On, OwnLease
    <3> QED BY <3>2, <3>3, <1>1 DEF OwnLease
  <2> QED BY <1>0, <2>2, <2>3, BlameStep
<1>2. CASE l \notin handed
  <2>1. AcquireReturn /\ l = cmd.lease
    BY <1>0, <1>2, LeaseSteps
  <2>2. cmd.alias \in Aliases /\ a = cmd.alias /\ reg' = reg /\ mem' = Blank /\ undo' = Blank
    BY <2>1, ReturnedHealthy DEF AcquireReturn, ForgetCommand, disk
  <2>3. reg[cmd.alias].drift = "none"
    BY <2>1, ReturnedHealthy DEF EntriesOK, Calm
  <2> QED BY <2>2, <2>3, BlankFields DEF Blamed, Failed
<1> QED BY <1>1, <1>2


-----------------------------------------------------------------------------
(* Devices in use. *)

(* What the timer and a cleanup shut down: nobody's, and pinned by nobody. *)
IdleOK ==
  pc = "idle" =>
    /\ todo \subseteq Aliases
    /\ \A a \in todo : mem[a].health = "healthy" /\ pin[a] = None
    /\ \A l \in Leases : file[l] # None /\ file[l].alias \in todo =>
         ~file[l].meta /\ file[l].owner \notin alive

(* The steps among which idle devices are shut down. *)
LEMMA IdlePlaces ==
  ASSUME IInv, [Next]_vars, pc' = "idle"
  PROVE  \/ StartCleanup \/ ReclaimEnd
         \/ \E a \in Aliases : IdleShutdown(a) \/ IdleShutdownFails(a)
         \/ /\ pc = "idle" /\ UNCHANGED <<todo, mem, pin, file>>
            /\ UNCHANGED alive \/ \E o \in Owners : OwnerDies(o) \/ OwnerStarts(o)
<1> DEFINE Claim == \/ StartCleanup \/ ReclaimEnd
                    \/ \E a \in Aliases : IdleShutdown(a) \/ IdleShutdownFails(a)
                    \/ /\ pc = "idle" /\ UNCHANGED <<todo, mem, pin, file>>
                       /\ UNCHANGED alive \/ \E o \in Owners : OwnerDies(o) \/ OwnerStarts(o)
<1> SUFFICES Claim
  OBVIOUS
<1> USE DEF disk, device, history, local, Goto, Done, DoneWriting, ForgetCommand
<1>1. CASE Request
  BY <1>1 DEF Request, StartAcquire, StartLease, StartLifecycle, StartPin, StartUnpin,
              StartPlain, Start
<1>2. CASE Load
  BY <1>2 DEF Load, LoadLeftover, LoadKeep, LoadStale, LoadContain, LoadUnlink, LoadSync, Refresh
<1>3. CASE Idle
  BY <1>3 DEF Idle, ReclaimSkip, ReclaimErase, ReclaimFails, IdleEnd
<1>4. CASE Acquire
  BY <1>4 DEF Acquire, AcquireSelect, AcquireRejected, AcquireRecord, AcquireActivate,
              AcquireActivateFails, AcquireNoReset, AcquireReset, AcquireResetDone,
              AcquireBoot, AcquireBootDone, AcquireReturn, AcquireFails, AcquireRollback,
              AcquireRolledBack, AcquireRollbackFails
<1>5. CASE EndLease
  BY <1>5 DEF EndLease, ReleaseLease, ReleaseUnlink, ReleaseRestore, Contain, ContainUnlink,
              Register, LeaseCommandEnds
<1>6. CASE PinCommand
  BY <1>6 DEF PinCommand, Pin, Unpin, PinRejected
<1>7. CASE LifecycleStep
  BY <1>7 DEF LifecycleStep, LifecycleRejected, BootOrShutdown, EraseDevice, EraseFails,
              LifecycleWrite, Revoke, RevokeUnlink, RepairStart, RepairDevice, RepairFails
<1>8. CASE Environment
  BY <1>8 DEF Environment, OwnerDies, OwnerStarts, DeviceLost, GraceEnds, Crash
<1>9. CASE UNCHANGED vars
  BY <1>9 DEF vars
<1> QED BY <1>1, <1>2, <1>3, <1>4, <1>5, <1>6, <1>7, <1>8, <1>9 DEF Next, Command

(* What was chosen for a shutdown is nobody's until its turn comes. *)
LEMMA IdleInv == IInv /\ IdleOK /\ [Next]_vars => IdleOK'
<1> SUFFICES ASSUME IInv, IdleOK, [Next]_vars, pc' = "idle" PROVE IdleOK'
  BY DEF IdleOK
<1> USE DEF disk, Goto
<1>0. TypeOK /\ reg \in Registry
  BY DEF IInv, TypeOK
<1>1. CASE StartCleanup
  <2>1. /\ mem' = [a \in Aliases |-> Synced(a, reg[a])] /\ UNCHANGED <<file, pin, alive>>
        /\ todo' = {a \in Aliases : IdleBase(a, Synced(a, reg[a]), Respected)}
    BY <1>1 DEF StartCleanup
  <2>2. \A a \in todo' : mem'[a].health = "healthy" /\ pin[a] = None /\ reg[a].health = "healthy"
    BY <2>1, <1>0, SyncedFields DEF IdleBase, Registry
  <2>3. ASSUME NEW l \in Leases, file[l] # None, file[l].alias \in todo'
        PROVE  ~file[l].meta /\ file[l].owner \notin alive
    <3>1. l \notin Respected
      BY <2>1, <2>3 DEF IdleBase
    <3> QED BY <2>2, <2>3, <3>1 DEF Respected, Files, Leftover, OwnerLive
  <2> QED BY <2>1, <2>2, <2>3 DEF IdleOK
<1>2. CASE ReclaimEnd
  <2>1. /\ mem' = mem /\ UNCHANGED <<file, pin, alive>>
        /\ todo' = {a \in Aliases : IdleCandidate(a)}
    BY <1>2 DEF ReclaimEnd, DoneWriting, ForgetCommand, Persist
  <2> QED BY <2>1 DEF IdleOK, IdleCandidate, IdleBase, Files
<1>3. ASSUME NEW b \in Aliases, IdleShutdown(b) \/ IdleShutdownFails(b) PROVE IdleOK'
  <2>1. /\ pc = "idle" /\ todo' = todo \ {b} /\ UNCHANGED <<file, pin, alive>>
    BY <1>3 DEF IdleShutdown, IdleShutdownFails, IdleStep
  <2>2. \A a \in Aliases : a # b => mem'[a] = mem[a]
    BY <1>3, <1>0, WriteBroken DEF IdleShutdown, IdleShutdownFails, Persist
  <2> QED BY <2>1, <2>2 DEF IdleOK
<1>4. CASE pc = "idle" /\ UNCHANGED <<todo, mem, pin, file>> /\ UNCHANGED alive
  BY <1>4 DEF IdleOK
<1>5. CASE /\ pc = "idle" /\ UNCHANGED <<todo, mem, pin, file>>
           /\ \E o \in Owners : OwnerDies(o) \/ OwnerStarts(o)
  BY <1>5 DEF IdleOK, OwnerDies, OwnerStarts, Files
<1> QED BY <1>1, <1>2, <1>3, <1>4, <1>5, IdlePlaces

(* The device of an alias is shut down or wiped. *)
Disturbed(a) == a \in avail' /\ a \in (booted \ booted') \cup (clean' \ clean)

(* Nobody but the command itself uses the alias. *)
Unused(a) ==
  /\ \A l \in LeasesOn(a) \ {cmd.lease} : ~file[l].meta /\ file[l].owner \notin alive
  /\ cmd.kind \in {"idle", "cleanup"} => pin[a] = None

(* Slot reclaim and idle shutdown disturb only devices that nobody uses; an acquire
   and the lifecycle commands only that of their own alias. *)
LEMMA DeviceStep ==
  ASSUME IInv, OwnLease, IdleOK, [Next]_vars, NEW a, Disturbed(a)
  PROVE  Unused(a)
<1> USE DEF disk, device, history, local, Goto, Done, DoneWriting, Disturbed
<1>0. TypeOK /\ CommandOK /\ a \in Aliases
  <2>1. TypeOK'
    BY NextInv DEF IInv
  <2> QED BY <2>1 DEF IInv, TypeOK
<1>1. CASE Request
  BY <1>1 DEF Request, StartAcquire, StartLease, StartLifecycle, StartPin, StartUnpin,
              StartPlain, StartCleanup, Start
<1>2. CASE Load
  BY <1>2 DEF Load, LoadLeftover, LoadKeep, LoadStale, LoadContain, LoadUnlink, LoadSync, Refresh
<1>3. CASE Idle
  <2>1. ASSUME NEW b \in Aliases, ReclaimErase(b) \/ ReclaimFails(b) PROVE Unused(a)
    <3>1. a = b
      BY <2>1 DEF ReclaimErase, ReclaimFails, Erase
    <3>2. LeasesOn(b) = {} /\ pin[b] = None
      BY <2>1 DEF ReclaimErase, ReclaimFails, Reclaimable
    <3> QED BY <3>1, <3>2 DEF Unused
  <2>2. ASSUME NEW b \in Aliases, IdleShutdown(b) PROVE Unused(a)
    <3>1. a = b /\ pc = "idle" /\ b \in todo
      BY <2>2 DEF IdleShutdown, IdleStep
    <3> QED BY <3>1 DEF IdleOK, Unused, LeasesOn, Files
  <2>3. CASE \/ ReclaimEnd \/ IdleEnd
             \/ \E b \in Aliases : ReclaimSkip(b) \/ IdleShutdownFails(b)
    BY <2>3 DEF ReclaimEnd, IdleEnd, ReclaimSkip, IdleShutdownFails
  <2> QED BY <1>3, <2>1, <2>2, <2>3 DEF Idle
<1>4. CASE Acquire
  <2>1. CASE AcquireReset \/ AcquireFails
    <3>1. a = cmd.alias
      BY <2>1 DEF AcquireReset, AcquireFails, Erase
    <3>2. pc \in Leasing /\ cmd.kind = "acquire"
      BY <2>1, <1>0 DEF AcquireReset, AcquireFails, Leasing, CommandOK, AcquireControl
    <3> QED BY <3>1, <3>2 DEF OwnLease, Only, On, Unused, LeasesOn, Files
  <2>2. CASE ~(AcquireReset \/ AcquireFails)
    BY <2>2, <1>4 DEF Acquire, AcquireSelect, AcquireRejected, AcquireRecord, AcquireActivate,
              AcquireActivateFails, AcquireNoReset, AcquireResetDone,
              AcquireBoot, AcquireBootDone, AcquireReturn, AcquireRollback,
              AcquireRolledBack, AcquireRollbackFails
  <2> QED BY <2>1, <2>2
<1>5. CASE EndLease
  BY <1>5 DEF EndLease, ReleaseLease, ReleaseUnlink, ReleaseRestore, Contain, ContainUnlink,
              Register, LeaseCommandEnds
<1>6. CASE PinCommand
  BY <1>6 DEF PinCommand, Pin, Unpin, PinRejected
<1>7. CASE LifecycleStep
  <2>1. CASE BootOrShutdown \/ EraseDevice \/ EraseFails
    <3>1. /\ a = cmd.alias /\ cmd.kind \notin {"idle", "cleanup"}
          /\ LeasesOn(cmd.alias) = {cmd.lease} \ {None}
      BY <2>1 DEF BootOrShutdown, EraseDevice, EraseFails, Erase, Working, Granted
    <3> QED BY <3>1 DEF Unused
  <2>2. CASE RepairDevice
    <3>1. a = cmd.alias /\ cmd.kind = "repair"
      BY <2>2 DEF RepairDevice, OwnLease
    <3> QED BY <2>2, <3>1 DEF RepairDevice, OwnLease, On, Unused, LeasesOn, Files
  <2>3. CASE ~(BootOrShutdown \/ EraseDevice \/ EraseFails \/ RepairDevice)
    BY <2>3, <1>7 DEF LifecycleStep, LifecycleRejected, LifecycleWrite, Revoke, RevokeUnlink,
              RepairStart, RepairFails
  <2> QED BY <2>1, <2>2, <2>3
<1>8. CASE Environment
  BY <1>8 DEF Environment, OwnerDies, OwnerStarts, DeviceLost, GraceEnds, Crash
<1>9. CASE UNCHANGED vars
  BY <1>9 DEF vars
<1> QED BY <1>1, <1>2, <1>3, <1>4, <1>5, <1>6, <1>7, <1>8, <1>9 DEF Next, Command


-----------------------------------------------------------------------------
(* The registry and the lease files. *)

(* An entry names the lease on disk, or blames a failed acquire. *)
Named(a, e) == Only(a, e.active)
Blames(e) ==
  /\ e.active = None /\ e.health = "repair-needed"
  /\ e.drift \in Failed \/ ("cleanup" \in Kinds /\ e.drift = "simulator-missing")

InStep == {"work", "reclaim", "record", "reset", "resetDone", "boot", "bootDone",
           "return", "repair", "write"}

(* How far registry, memory and files have come apart at each place of a command. *)
RegOK(a) ==
  /\ pc = "free" /\ crashes = 0 => Named(a, reg[a]) \/ Blames(reg[a])
  /\ pc = "idle" /\ cmd.kind = "cleanup" /\ crashes = 0 => Named(a, mem[a]) \/ Blames(mem[a])
  /\ pc \in InStep \/ (pc = "idle" /\ cmd.kind = "idle") =>
       Named(a, reg[a]) /\ Named(a, mem[a])
  /\ pc = "rollback" => Named(a, reg[a])
  /\ pc \in {"rollback", "rollbackUnlink"} /\ a = cmd.alias => Blames(mem[a])
  /\ pc \in {"activate", "rollback", "rollbackUnlink"} \cup Unlinking =>
       /\ a = cmd.alias => mem[a].active = None
       /\ a # cmd.alias => Named(a, mem[a])
  /\ pc \in {"record", "activate", "rollbackUnlink"} \cup Unlinking => reg[a] = mem[a]
  /\ pc = "unlink" => Named(a, undo[a])
RegistryOK == \A a \in Aliases : RegOK(a)

(* A command that does not end where the registry and the files differ. *)
LEMMA RegForget ==
  ASSUME IInv, ForgetCommand, NEW a \in Aliases, crashes' = crashes \/ crashes' # 0,
         crashes' = 0 => Named(a, reg[a])' \/ Blames(reg'[a])
  PROVE  RegOK(a)'
BY DEF ForgetCommand, NoCmd, RegOK, InStep, Unlinking, Blames

(* A command starts without a claim; a cleanup trusts the registry. *)
LEMMA RegRequest == IInv /\ RegistryOK /\ Request => RegistryOK'
<1> SUFFICES ASSUME IInv, RegistryOK, Request, NEW a \in Aliases PROVE RegOK(a)'
  BY DEF RegistryOK
<1> USE DEF disk, history, InStep, Unlinking
<1>1. CASE StartCleanup
  <2>1. /\ mem'[a] = Synced(a, reg[a]) /\ UNCHANGED <<file, reg, crashes>> /\ pc = "free"
        /\ pc' = "idle" /\ cmd'.kind = "cleanup" /\ "cleanup" \in Kinds
    BY <1>1 DEF StartCleanup, NoCmd
  <2>2. reg[a] \in Entry
    BY DEF IInv, TypeOK, Registry
  <2>3. /\ mem'[a].active = reg[a].active
        /\ Blames(reg[a]) => Blames(mem'[a])
    BY <2>1, <2>2, SyncedFields DEF Blames
  <2>4. crashes = 0 => Named(a, reg[a]) \/ Blames(reg[a])
    BY <2>1 DEF RegistryOK, RegOK
  <2>5. Named(a, reg[a]) => Named(a, mem[a])'
    BY <2>1, <2>3 DEF Named, Only, On
  <2> QED BY <2>1, <2>3, <2>4, <2>5 DEF RegOK, Blames
<1>2. CASE ~StartCleanup
  <2>1. pc' = "load"
    BY <1>2 DEF Request, StartAcquire, StartLease, StartLifecycle, StartPin, StartUnpin,
                StartPlain, Start
  <2> QED BY <2>1 DEF RegOK
<1> QED BY <1>1, <1>2

(* Once loaded, every entry names the lease on disk. *)
LEMMA RegLoad == IInv /\ RegistryOK /\ Load => RegistryOK'
<1> SUFFICES ASSUME IInv, RegistryOK, Load, NEW a \in Aliases PROVE RegOK(a)'
  BY DEF RegistryOK
<1> USE DEF disk, history, Goto, InStep, Unlinking
<1>1. CASE LoadSync
  <2>1. mem'[a] = reg'[a] /\ Only(a, mem'[a].active) /\ file' = file /\ pc' \in {"work", "reclaim"}
    BY <1>1, WriteSynced DEF LoadSync
  <2> QED BY <2>1 DEF RegOK, Named, Only, On
<1>2. CASE Refresh
  <2>1. Named(a, reg[a]) /\ ForgetCommand /\ UNCHANGED <<file, reg, crashes>>
    BY <1>2 DEF Refresh, Working, Done, RegistryOK, RegOK
  <2> QED BY <2>1, RegForget DEF Named, Only, On
<1>3. CASE ~(LoadSync \/ Refresh)
  <2>1. pc' \in {"load", "loadUnlink"}
    BY <1>3 DEF Load, LoadLeftover, LoadKeep, LoadStale, LoadContain, LoadUnlink, Examined
  <2> QED BY <2>1 DEF RegOK
<1> QED BY <1>1, <1>2, <1>3

(* Slot reclaim and idle shutdown change no lease and forget no blame. *)
LEMMA RegIdle == IInv /\ OwnLease /\ IdleOK /\ RegistryOK /\ Idle => RegistryOK'
<1> SUFFICES ASSUME IInv, OwnLease, IdleOK, RegistryOK, Idle, NEW a \in Aliases PROVE RegOK(a)'
  BY DEF RegistryOK
<1> USE DEF disk, history, Goto, InStep, Unlinking
<1>0. TypeOK /\ RegOK(a)
  BY DEF IInv, RegistryOK
<1>1. ASSUME NEW b \in Aliases, ReclaimSkip(b) \/ ReclaimErase(b) \/ ReclaimFails(b)
      PROVE  RegOK(a)'
  <2>1. pc = "reclaim" /\ pc' = "reclaim" /\ UNCHANGED <<file, reg, crashes, cmd>>
    BY <1>1 DEF ReclaimSkip, ReclaimErase, ReclaimFails, Visit, Erase
  <2>2. mem'[a].active = mem[a].active
    <3>1. CASE ReclaimSkip(b)
      BY <3>1 DEF ReclaimSkip
    <3>2. CASE ReclaimErase(b)
      <4>1. mem'[b].active = mem[b].active /\ (a # b => mem'[a] = mem[a])
        BY <3>2, <1>0, WriteErased DEF ReclaimErase
      <4> QED BY <4>1
    <3>3. CASE ReclaimFails(b)
      <4>1. PICK why \in {"slot-reclaim-failed"} : mem' = Change(mem, b, Broken(mem[b], why))
        BY <3>3 DEF ReclaimFails
      <4>2. mem'[b].active = mem[b].active
        BY <4>1, <1>0, WriteBroken
      <4>3. a # b => mem'[a] = mem[a]
        BY <4>1, <1>0, WriteBroken
      <4> QED BY <4>2, <4>3
    <3> QED BY <1>1, <3>1, <3>2, <3>3
  <2> QED BY <1>0, <2>1, <2>2 DEF RegOK, Named, Only, On
<1>2. ASSUME NEW b \in Aliases, IdleShutdown(b) PROVE RegOK(a)'
  <2>1. pc = "idle" /\ pc' = "idle" /\ UNCHANGED <<file, reg, crashes, cmd, mem>>
    BY <1>2 DEF IdleShutdown, IdleStep
  <2> QED BY <1>0, <2>1 DEF RegOK, Named, Blames, Only, On
<1>3. ASSUME NEW b \in Aliases, IdleShutdownFails(b) PROVE RegOK(a)'
  <2>1. /\ pc = "idle" /\ pc' = "idle" /\ UNCHANGED <<file, crashes, cmd>>
        /\ reg' = mem' /\ mem[b].health = "healthy" /\ cmd.kind \in {"idle", "cleanup"}
    BY <1>3 DEF IdleShutdownFails, IdleStep, Persist, IdleOK, OwnLease
  <2>2. a # b => mem'[a] = mem[a]
    BY <1>3, <1>0, WriteBroken DEF IdleShutdownFails, Persist
  <2>3. mem'[b].active = mem[b].active
    BY <1>3, <1>0, WriteBroken DEF IdleShutdownFails, Persist
  <2>4. CASE a = b
    <3>1. cmd.kind = "idle" \/ crashes = 0 => Named(a, mem[a])
      BY <1>0, <2>1, <2>4 DEF RegOK, Blames
    <3> QED BY <2>1, <2>3, <2>4, <3>1 DEF RegOK, Named, Only, On
  <2>5. CASE a # b
    BY <1>0, <2>1, <2>2, <2>5 DEF RegOK, Named, Blames, Only, On
  <2> QED BY <2>4, <2>5
<1>4. CASE ReclaimEnd
  <2>1. /\ pc = "reclaim" /\ UNCHANGED <<file, crashes>> /\ reg' = mem
        /\ ForgetCommand \/ (/\ mem' = mem /\ cmd' = cmd /\ pc' \in {"record", "idle"}
                             /\ pc' = "idle" => cmd.kind = "idle")
    BY <1>4 DEF ReclaimEnd, DoneWriting, Persist
  <2>2. Named(a, mem[a])
    BY <1>0, <2>1 DEF RegOK
  <2>3. CASE ForgetCommand
    BY <2>1, <2>2, <2>3, RegForget DEF Named, Only, On
  <2>4. CASE ~ForgetCommand
    BY <2>1, <2>2, <2>4 DEF RegOK, Named, Only, On
  <2> QED BY <2>3, <2>4
<1>5. CASE IdleEnd
  <2>1. pc = "idle" /\ UNCHANGED <<file, crashes>> /\ reg' = mem /\ ForgetCommand
    BY <1>5 DEF IdleEnd, DoneWriting
  <2>2. crashes = 0 => Named(a, mem[a]) \/ Blames(mem[a])
    BY <1>0, <2>1 DEF RegOK, OwnLease
  <2> QED BY <2>1, <2>2, RegForget DEF Named, Only, On
<1> QED BY <1>1, <1>2, <1>3, <1>4, <1>5 DEF Idle


(* When the command's lease goes, its alias has none and the others have theirs. *)
LEMMA LeaseGone ==
  ASSUME TypeOK, cmd.lease \in Leases, Only(cmd.alias, cmd.lease), RemoveFile(cmd.lease),
         NEW a \in Aliases, NEW l \in Leases
  PROVE  On(l, a)' <=> a # cmd.alias /\ On(l, a)
<1>1. On(l, a)' <=> On(l, a) /\ l # cmd.lease
  BY RemoveEffect
<1>2. On(cmd.lease, cmd.alias)
  BY DEF Only
<1>3. l = cmd.lease => (On(l, a) => a = cmd.alias)
  BY <1>2 DEF On
<1>4. a = cmd.alias => (On(l, a) <=> l = cmd.lease)
  BY DEF Only
<1> QED BY <1>1, <1>3, <1>4

(* From the record of a lease to its entry, and back when the acquire fails. *)
LEMMA RegAcquire == IInv /\ OwnLease /\ RegistryOK /\ Acquire => RegistryOK'
<1> SUFFICES ASSUME IInv, OwnLease, RegistryOK, Acquire, NEW a \in Aliases PROVE RegOK(a)'
  BY DEF RegistryOK
<1> USE DEF disk, history, Goto, InStep, Unlinking
<1>0. /\ TypeOK /\ RegOK(a) /\ mem[a].active \in Leases \cup {None}
      /\ pc \in AcquireControl => cmd.kind = "acquire" /\ cmd.alias \in Aliases /\ cmd.lease \in Leases
      /\ pc \in Leasing => Only(cmd.alias, cmd.lease)
  BY DEF IInv, CommandOK, RegistryOK, TypeOK, Registry, Entry, OwnLease
<1>1. CASE AcquireSelect
  BY <1>0, <1>1 DEF AcquireSelect, Working, RegOK, Named, Only, On
<1>2. CASE AcquireRejected \/ AcquireReturn
  <2>1. Named(a, reg[a]) /\ ForgetCommand /\ UNCHANGED <<file, reg, crashes>>
    BY <1>0, <1>2 DEF AcquireRejected, AcquireReturn, Working, Done, RegOK
  <2> QED BY <2>1, RegForget DEF Named, Only, On
<1>3. CASE AcquireRecord
  <2>1. /\ pc = "record" /\ pc' = "activate" /\ UNCHANGED <<reg, mem, cmd, crashes>>
        /\ cmd.kind = "acquire" /\ cmd.lease \in Leases
    BY <1>0, <1>3 DEF AcquireRecord, AcquireControl
  <2>2. /\ \A l \in Leases : ~On(l, cmd.alias)
        /\ file[cmd.lease] = None
    BY <2>1 DEF IInv, SelectionHolds, LeasesOn, Files, On, OwnLease
  <2>3. \A l \in Leases : l # cmd.lease => file'[l] = file[l]
    BY <1>3, <1>0 DEF AcquireRecord, TypeOK
  <2>4. file'[cmd.lease].alias = cmd.alias
    BY <2>1, <1>3, <1>0 DEF AcquireRecord, TypeOK
  <2>5. a = cmd.alias => mem[a].active = None
    BY <2>1, <2>2, <1>0 DEF RegOK, Named, Only
  <2>6. a # cmd.alias => \A l \in Leases : On(l, a)' <=> On(l, a)
    BY <2>2, <2>3, <2>4 DEF On
  <2>7. a # cmd.alias => Named(a, mem[a])'
    BY <2>1, <2>6, <1>0 DEF RegOK, Named, Only, On
  <2> QED BY <2>1, <2>5, <2>7, <1>0 DEF RegOK
<1>4. CASE AcquireActivate
  <2>1. /\ pc = "activate" /\ pc' = "reset" /\ UNCHANGED <<file, cmd, crashes>> /\ reg' = mem'
        /\ cmd.alias \in Aliases /\ Only(cmd.alias, cmd.lease)
    BY <1>0, <1>4 DEF AcquireActivate, AcquireControl, Leasing, Persist
  <2>2. /\ a # cmd.alias => mem'[a] = mem[a]
        /\ a = cmd.alias => mem'[a].active = cmd.lease
    BY <2>1, <1>0, <1>4, WriteActive DEF AcquireActivate, Persist
  <2> QED BY <2>1, <2>2, <1>0 DEF RegOK, Named, Only, On
<1>5. CASE AcquireActivateFails \/ AcquireRolledBack
  <2>1. /\ pc \in {"activate", "rollbackUnlink"} /\ RemoveFile(cmd.lease) /\ ForgetCommand
        /\ UNCHANGED <<reg, crashes>> /\ cmd.lease \in Leases /\ Only(cmd.alias, cmd.lease)
    BY <1>0, <1>5 DEF AcquireActivateFails, AcquireRolledBack, AcquireControl, Leasing, RemoveFile
  <2>2. \A l \in Leases : On(l, a)' <=> a # cmd.alias /\ On(l, a)
    BY <2>1, <1>0, LeaseGone
  <2>3. /\ reg[a] = mem[a] /\ (a = cmd.alias => mem[a].active = None)
        /\ a # cmd.alias => Named(a, mem[a])
    BY <2>1, <1>0 DEF RegOK
  <2>4. Named(a, reg[a])'
    BY <2>1, <2>2, <2>3, BrokerAssumption DEF Named, Only, On
  <2> QED BY <2>1, <2>4, RegForget
<1>6. CASE AcquireNoReset \/ AcquireReset \/ AcquireBoot \/ AcquireResetDone \/ AcquireBootDone
  <2>1. /\ pc \in {"reset", "resetDone", "boot", "bootDone"}
        /\ pc' \in {"resetDone", "boot", "bootDone", "return"}
        /\ UNCHANGED <<file, cmd, crashes>> /\ cmd.alias \in Aliases /\ reg' \in {reg, mem}
    BY <1>0, <1>6 DEF AcquireNoReset, AcquireReset, AcquireBoot, AcquireResetDone,
                      AcquireBootDone, AcquireControl, Persist, Erase
  <2>2. mem'[a].active = mem[a].active
    BY <2>1, <1>0, <1>6, WriteErased, WriteHealthy
       DEF AcquireNoReset, AcquireReset, AcquireBoot, AcquireResetDone, AcquireBootDone, Persist
  <2> QED BY <2>1, <2>2, <1>0 DEF RegOK, Named, Only, On
<1>7. CASE AcquireFails
  <2>1. /\ pc \in {"reset", "resetDone", "boot", "bootDone"} /\ pc' = "rollback"
        /\ UNCHANGED <<file, reg, cmd, crashes>> /\ cmd.alias \in Aliases
    BY <1>0, <1>7 DEF AcquireFails, AcquireControl
  <2>2. /\ a # cmd.alias => mem'[a] = mem[a]
        /\ a = cmd.alias => Blames(mem'[a])
    BY <2>1, <1>0, <1>7, WriteFailed DEF Blames
  <2> QED BY <2>1, <2>2, <1>0 DEF RegOK, Named, Blames, Only, On
<1>8. CASE AcquireRollback
  <2>1. /\ pc = "rollback" /\ pc' = "rollbackUnlink" /\ UNCHANGED <<file, mem, cmd, crashes>>
        /\ reg' = mem
    BY <1>8 DEF AcquireRollback, Persist
  <2> QED BY <2>1, <1>0 DEF RegOK, Named, Blames, Only, On
<1>9. CASE AcquireRollbackFails
  <2>1. /\ pc \in {"rollback", "rollbackUnlink"} /\ ForgetCommand
        /\ UNCHANGED <<file, reg, crashes>>
    BY <1>9 DEF AcquireRollbackFails, Done
  <2>2. Named(a, reg[a]) \/ Blames(reg[a])
    BY <2>1, <1>0 DEF RegOK
  <2> QED BY <2>1, <2>2, RegForget DEF Named, Only, On
<1> QED BY <1>1, <1>2, <1>3, <1>4, <1>5, <1>6, <1>7, <1>8, <1>9 DEF Acquire

(* The registry first, then the file: in between the entry names no lease. *)
LEMMA RegEndLease == IInv /\ OwnLease /\ RegistryOK /\ EndLease => RegistryOK'
<1> SUFFICES ASSUME IInv, OwnLease, RegistryOK, EndLease, NEW a \in Aliases PROVE RegOK(a)'
  BY DEF RegistryOK
<1> USE DEF disk, history, Goto, InStep, Unlinking
<1>0. TypeOK /\ CommandOK /\ RegOK(a)
  BY DEF IInv, RegistryOK
<1>1. CASE ReleaseLease \/ Contain
  <2>1. /\ pc = "work" /\ pc' \in {"unlink", "containUnlink"} /\ UNCHANGED <<file, cmd, crashes>>
        /\ reg' = mem' /\ cmd.alias \in Aliases
        /\ pc' = "unlink" => undo' = mem
    BY <1>0, <1>1 DEF ReleaseLease, Contain, Working, CommandOK, LeaseKinds, Persist
  <2>2. /\ a # cmd.alias => mem'[a] = mem[a]
        /\ a = cmd.alias => mem'[a].active = None
    BY <2>1, <1>0, <1>1, WriteReleased DEF ReleaseLease, Contain, Persist
  <2> QED BY <2>1, <2>2, <1>0 DEF RegOK, Named, Only, On
<1>2. CASE ReleaseUnlink \/ ContainUnlink
  <2>1. /\ pc \in {"unlink", "containUnlink"} /\ RemoveFile(cmd.lease)
        /\ UNCHANGED <<reg, crashes>> /\ cmd.lease \in Leases /\ Only(cmd.alias, cmd.lease)
        /\ ForgetCommand \/ (pc' = "reclaim" /\ UNCHANGED <<mem, cmd>>)
    BY <1>2 DEF ReleaseUnlink, ContainUnlink, RemoveFile, OwnLease
  <2>2. \A l \in Leases : On(l, a)' <=> a # cmd.alias /\ On(l, a)
    BY <2>1, <1>0, LeaseGone
  <2>3. /\ reg[a] = mem[a] /\ (a = cmd.alias => mem[a].active = None)
        /\ a # cmd.alias => Named(a, mem[a])
    BY <2>1, <1>0 DEF RegOK
  <2>4. Named(a, reg[a])'
    BY <2>1, <2>2, <2>3, BrokerAssumption DEF Named, Only, On
  <2>5. CASE ForgetCommand
    BY <2>1, <2>4, <2>5, RegForget
  <2>6. CASE pc' = "reclaim" /\ UNCHANGED <<mem, cmd>>
    BY <2>1, <2>3, <2>4, <2>6 DEF RegOK, Named
  <2> QED BY <2>1, <2>5, <2>6
<1>3. CASE ReleaseRestore
  <2>1. pc = "unlink" /\ ForgetCommand /\ UNCHANGED <<file, crashes>> /\ reg' = undo
    BY <1>3 DEF ReleaseRestore, DoneWriting
  <2>2. Named(a, undo[a])
    BY <2>1, <1>0 DEF RegOK
  <2> QED BY <2>1, <2>2, RegForget DEF Named, Only, On
<1>4. CASE Register \/ LeaseCommandEnds
  <2>1. pc = "work" /\ ForgetCommand /\ UNCHANGED <<reg, crashes>>
    BY <1>4 DEF Register, LeaseCommandEnds, Working, Done
  <2>2. \A l \in Leases : On(l, a)' <=> On(l, a)
    <3>1. CASE LeaseCommandEnds
      BY <3>1 DEF LeaseCommandEnds, Done, On
    <3>2. CASE Register
      <4>1. /\ cmd.kind = "register" /\ cmd.lease \in Leases /\ file[cmd.lease] \in Records
            /\ cmd.owner \in Owners \cup {None}
        BY <3>2, <1>0 DEF Register, Working, CommandOK, LeaseKinds, TypeOK
      <4>2. PICK o \in Owners :
              file' = [file EXCEPT ![cmd.lease] = [@ EXCEPT !.meta = TRUE, !.owner = o]]
        <5>1. file[cmd.lease].owner \in Owners
          BY <4>1 DEF Records
        <5> QED BY <5>1, <4>1, <3>2, <1>0 DEF Register, TypeOK, Records
      <4>3. file'[cmd.lease] = [file[cmd.lease] EXCEPT !.meta = TRUE, !.owner = o]
        BY <4>1, <4>2, <1>0 DEF TypeOK
      <4>4. file'[cmd.lease] \in Records /\ file'[cmd.lease].alias = file[cmd.lease].alias
        BY <4>1, <4>3 DEF Records
      <4>5. \A l \in Leases : l # cmd.lease => file'[l] = file[l]
        BY <4>2, <1>0 DEF TypeOK
      <4> QED BY <4>1, <4>4, <4>5, RecordAssumption DEF On
    <3> QED BY <1>4, <3>1, <3>2
  <2>3. Named(a, reg[a])
    BY <2>1, <1>0 DEF RegOK
  <2>4. Named(a, reg[a])'
    BY <2>1, <2>2, <2>3 DEF Named, Only, On
  <2> QED BY <2>1, <2>4, RegForget
<1> QED BY <1>1, <1>2, <1>3, <1>4 DEF EndLease

(* Pins leave the registry alone; a revocation ends a lease like a release. *)
LEMMA RegOthers ==
  IInv /\ OwnLease /\ RegistryOK /\ (PinCommand \/ LifecycleStep) => RegistryOK'
<1> SUFFICES ASSUME IInv, OwnLease, RegistryOK, PinCommand \/ LifecycleStep, NEW a \in Aliases
             PROVE  RegOK(a)'
  BY DEF RegistryOK
<1> USE DEF disk, history, Goto, InStep, Unlinking
<1>0. /\ TypeOK /\ CommandOK /\ RegOK(a)
      /\ cmd.kind \in Lifecycle => cmd.alias \in Aliases
  BY DEF IInv, RegistryOK, CommandOK
<1>1. CASE Pin \/ Unpin \/ PinRejected \/ LifecycleRejected \/ EraseFails \/ LifecycleWrite
  <2>1. /\ pc \in {"work", "write"} /\ ForgetCommand /\ UNCHANGED <<file, crashes>>
        /\ reg' \in {reg, mem}
    BY <1>1 DEF Pin, Unpin, PinRejected, LifecycleRejected, EraseFails, LifecycleWrite, Working,
                Done, DoneWriting
  <2>2. Named(a, reg[a]) /\ Named(a, mem[a])
    BY <2>1, <1>0 DEF RegOK
  <2> QED BY <2>1, <2>2, RegForget DEF Named, Only, On
<1>2. CASE BootOrShutdown \/ RepairDevice \/ EraseDevice \/ RepairStart
  <2>1. /\ pc \in {"work", "repair"} /\ pc' \in {"write", "repair"}
        /\ UNCHANGED <<file, crashes, cmd>> /\ reg' \in {reg, mem'} /\ cmd.alias \in Aliases
    BY <1>0, <1>2 DEF BootOrShutdown, RepairDevice, EraseDevice, Erase, RepairStart, Working,
                      Lifecycle, CommandOK, Persist
  <2>2. mem'[a].active = mem[a].active
    <3>1. CASE BootOrShutdown \/ RepairDevice
      BY <3>1, <2>1, <1>0, WriteHealthy DEF BootOrShutdown, RepairDevice
    <3>2. CASE EraseDevice
      BY <3>2, <2>1, <1>0, WriteUnused DEF EraseDevice
    <3>3. CASE RepairStart
      BY <3>3, <2>1, <1>0, WriteRepairing DEF RepairStart, Persist
    <3> QED BY <1>2, <3>1, <3>2, <3>3
  <2> QED BY <2>1, <2>2, <1>0 DEF RegOK, Named, Only, On
<1>3. CASE Revoke
  <2>1. /\ pc = "work" /\ pc' = "revokeUnlink" /\ UNCHANGED <<file, crashes, cmd>>
        /\ reg' = mem' /\ cmd.alias \in Aliases
    BY <1>0, <1>3 DEF Revoke, Working, Lifecycle, Persist
  <2>2. /\ a # cmd.alias => mem'[a] = mem[a]
        /\ a = cmd.alias => mem'[a].active = None
    BY <2>1, <1>0, <1>3, WriteReleased DEF Revoke, Persist
  <2> QED BY <2>1, <2>2, <1>0 DEF RegOK, Named, Only, On
<1>4. CASE RevokeUnlink
  <2>1. /\ pc = "revokeUnlink" /\ pc' = "work" /\ RemoveFile(cmd.lease)
        /\ UNCHANGED <<reg, mem, cmd, crashes>>
        /\ cmd.lease \in Leases /\ Only(cmd.alias, cmd.lease)
    BY <1>4 DEF RevokeUnlink, RemoveFile, OwnLease
  <2>2. \A l \in Leases : On(l, a)' <=> a # cmd.alias /\ On(l, a)
    BY <2>1, <1>0, LeaseGone
  <2>3. /\ reg[a] = mem[a] /\ (a = cmd.alias => mem[a].active = None)
        /\ a # cmd.alias => Named(a, mem[a])
    BY <2>1, <1>0 DEF RegOK
  <2>4. Named(a, reg[a])'
    BY <2>1, <2>2, <2>3, BrokerAssumption DEF Named, Only, On
  <2> QED BY <2>1, <2>3, <2>4 DEF RegOK, Named
<1>5. CASE RepairFails
  <2>1. /\ pc = "repair" /\ ForgetCommand /\ UNCHANGED <<file, crashes>> /\ cmd.alias \in Aliases
        /\ reg' = Change(mem, cmd.alias, Broken(mem[cmd.alias], "repair-failed"))
    BY <1>0, <1>5 DEF RepairFails, DoneWriting, CommandOK
  <2>2. reg'[a].active = mem[a].active
    <3>1. reg'[cmd.alias].active = mem[cmd.alias].active
      BY <2>1, <1>0, WriteBroken
    <3>2. a # cmd.alias => reg'[a] = mem[a]
      BY <2>1, <1>0, ChangeAt DEF TypeOK
    <3> QED BY <3>1, <3>2
  <2>3. Named(a, mem[a])
    BY <2>1, <1>0 DEF RegOK
  <2>4. Named(a, reg[a])'
    BY <2>1, <2>2, <2>3 DEF Named, Only, On
  <2> QED BY <2>1, <2>4, RegForget
<1> QED BY <1>1, <1>2, <1>3, <1>4, <1>5 DEF PinCommand, LifecycleStep

(* Time changes no lease, and after a crash nothing is claimed. *)
LEMMA RegEnvironment == IInv /\ RegistryOK /\ Environment => RegistryOK'
<1> SUFFICES ASSUME IInv, RegistryOK, Environment, NEW a \in Aliases PROVE RegOK(a)'
  BY DEF RegistryOK
<1> USE DEF disk, local, history, InStep, Unlinking
<1>0. TypeOK /\ RegOK(a)
  BY DEF IInv, RegistryOK
<1>1. CASE \/ \E o \in Owners : OwnerDies(o) \/ OwnerStarts(o)
           \/ \E b \in Aliases : DeviceLost(b)
  BY <1>0, <1>1 DEF OwnerDies, OwnerStarts, DeviceLost, RegOK, Named, Blames, Only, On
<1>2. ASSUME NEW b \in Aliases, GraceEnds(b) PROVE RegOK(a)'
  <2>1. /\ reg'[a].active = reg[a].active /\ reg'[a].health = reg[a].health
        /\ reg'[a].drift = reg[a].drift
    BY <1>2, <1>0 DEF GraceEnds, TypeOK, Registry, Entry
  <2> QED BY <1>0, <1>2, <2>1 DEF GraceEnds, RegOK, Named, Blames, Only, On
<1>3. CASE Crash
  <2>1. ForgetCommand /\ crashes' # 0
    BY <1>0, <1>3, BrokerAssumption DEF Crash, TypeOK
  <2> QED BY <2>1, RegForget
<1> QED BY <1>1, <1>2, <1>3 DEF Environment

(* Registry and lease files agree where a command has come to rest. *)
LEMMA RegStep == IInv /\ OwnLease /\ IdleOK /\ RegistryOK /\ [Next]_vars => RegistryOK'
<1>1. ASSUME RegistryOK, UNCHANGED vars PROVE RegistryOK'
  BY <1>1 DEF vars, disk, device, history, local, RegistryOK, RegOK, Named, Blames, Only, On
<1> QED BY <1>1, RegRequest, RegLoad, RegIdle, RegAcquire, RegEndLease, RegOthers,
           RegEnvironment DEF Next, Command


-----------------------------------------------------------------------------
(* The theorems. *)

(* Together these hold in every reachable state. *)
Accord == IInv /\ OwnLease /\ EntriesOK /\ HealthOK /\ HandedOK /\ IdleOK /\ RegistryOK

(* They hold when the broker starts for the first time ... *)
LEMMA AccordInit == Init => Accord
<1> SUFFICES ASSUME Init PROVE Accord
  OBVIOUS
<1>1. IInv
  BY InitInv
<1>2. /\ pc = "free" /\ cmd = NoCmd /\ handed = {} /\ file = [l \in Leases |-> None]
      /\ reg = Blank /\ mem = Blank /\ undo = Blank
  BY DEF Init
<1>3. OwnLease /\ HealthOK /\ HandedOK /\ IdleOK
  BY <1>2 DEF OwnLease, HealthOK, HandedOK, IdleOK, NoCmd, LeaseKinds, Leasing, Unlinking, Acquiring
<1>4. EntriesOK
  BY <1>2, BlankFields DEF EntriesOK, Calm
<1>5. ASSUME NEW a \in Aliases PROVE RegOK(a)
  <2>1. reg[a].active = None
    BY <1>2, BlankFields
  <2>2. Named(a, reg[a])
    BY <1>2, <2>1, BrokerAssumption DEF Named, Only, On
  <2> QED BY <1>2, <2>2 DEF RegOK, InStep, Unlinking
<1> QED BY <1>1, <1>3, <1>4, <1>5 DEF Accord, RegistryOK

(* ... and every step keeps them. *)
LEMMA AccordNext == Accord /\ [Next]_vars => Accord'
BY NextInv, OwnStep, EntriesStep, HealthStep, HandedStep, IdleInv, RegStep DEF Accord

(* So they always hold. *)
LEMMA AccordHolds == Spec => []Accord
BY AccordInit, AccordNext, PTL DEF Spec

(* After every load and after every command that ran to its end, also one whose
   write failed, the registry names exactly the lease that is on disk, or says
   that an acquire failed there. *)
THEOREM RegistryAgrees == Spec => []RegistryMatchesFiles
<1>1. Accord => RegistryMatchesFiles
  <2> SUFFICES ASSUME Accord, Settled, NEW a \in Aliases
               PROVE  \/ LeasesOn(a) = {reg[a].active} \ {None}
                      \/ /\ reg[a].active = None /\ reg[a].health = "repair-needed"
                         /\ reg[a].drift \in Failed \cup
                              (IF "cleanup" \in Kinds THEN {"simulator-missing"} ELSE {})
    BY DEF RegistryMatchesFiles, Failed
  <2>1. RegOK(a) /\ reg[a].active \in Leases \cup {None}
    BY DEF Accord, IInv, RegistryOK, TypeOK, Registry, Entry
  <2>2. Named(a, reg[a]) \/ (pc = "free" /\ crashes = 0 /\ Blames(reg[a]))
    BY <2>1 DEF Settled, RegOK, InStep
  <2>3. Named(a, reg[a]) => LeasesOn(a) = {reg[a].active} \ {None}
    BY <2>1, BrokerAssumption DEF Named, Only, On, LeasesOn, Files
  <2> QED BY <2>2, <2>3 DEF Blames
<1> QED BY <1>1, AccordHolds, PTL

(* An alias that a failure took out of use comes back by its own repair only: no
   load, boot, erase, reset or restored registry makes it available again. *)
THEOREM RepairsHeal == Spec => OnlyRepairHeals
<1> DEFINE A == \A a \in Aliases : reg[a].health # "healthy" /\ reg'[a].health = "healthy" =>
                  cmd.kind = "repair" /\ cmd.alias = a
<1>1. Accord /\ [Next]_vars => [A]_vars
  BY HealthStep DEF Accord, NoHealing, Heals
<1> QED BY <1>1, AccordHolds, PTL DEF Spec, OnlyRepairHeals

(* No lease is handed out on an alias that waits for its repair, although health
   is checked before slot reclaim, reset and boot. *)
THEOREM HandoutsHealthy == Spec => HandoutHealthy
<1> DEFINE A == \A l \in handed' \ handed : reg[file[l].alias].health = "healthy"
<1>1. Accord /\ [Next]_vars => [A]_vars
  <2> SUFFICES ASSUME Accord, [Next]_vars, NEW l \in handed' \ handed
               PROVE  reg[file[l].alias].health = "healthy"
    OBVIOUS
  <2>1. l \in Leases
    BY NextInv DEF Accord, IInv, TypeOK
  <2>2. AcquireReturn /\ l = cmd.lease
    BY <2>1, LeaseSteps DEF Accord
  <2> QED BY <2>2, ReturnedHealthy DEF Accord
<1> QED BY <1>1, AccordHolds, PTL DEF Spec, HandoutHealthy

(* A client that got a lease and lives keeps it until a command about that very
   lease ends it: a load takes away leases of the dead and of failed acquires. *)
THEOREM LiveLeasesKept == Spec => LiveLeaseKept
<1> DEFINE A == \A l \in Files \ Files' :
                  l \in handed /\ file[l].owner \in alive => l = cmd.lease
<1>1. Accord /\ [Next]_vars => [A]_vars
  <2> SUFFICES ASSUME Accord, [Next]_vars, NEW l \in Files \ Files', l \in handed,
                      file[l].owner \in alive
               PROVE  l = cmd.lease
    OBVIOUS
  <2>1. l \in Leases /\ file[l] # None /\ file'[l] = None
    BY DEF Files
  <2>2. Ends(l)
    BY <2>1, LeaseSteps DEF Accord
  <2>3. ~LoadLeftover(l)
    BY DEF Accord, HandedOK, LoadLeftover, Leftover, Failed
  <2>4. ~LoadStale(l)
    BY DEF LoadStale, OwnerLive
  <2>5. ~(LoadUnlink /\ l = victim)
    BY DEF LoadUnlink, Accord, OwnLease
  <2> QED BY <2>2, <2>3, <2>4, <2>5 DEF Ends
<1> QED BY <1>1, AccordHolds, PTL DEF Spec, LiveLeaseKept

(* No step shuts down or wipes a device under a lease that is in use, but the
   command's own, and timer and cleanup leave pinned aliases alone. *)
THEOREM DevicesProtected == Spec => DeviceProtected
<1> DEFINE A == \A a \in avail' : a \in (booted \ booted') \cup (clean' \ clean) =>
                  /\ \A l \in LeasesOn(a) \ {cmd.lease} : ~file[l].meta /\ file[l].owner \notin alive
                  /\ cmd.kind \in {"idle", "cleanup"} => pin[a] = None
<1>1. Accord /\ [Next]_vars => [A]_vars
  BY DeviceStep DEF Accord, Disturbed, Unused
<1> QED BY <1>1, AccordHolds, PTL DEF Spec, DeviceProtected


-----------------------------------------------------------------------------
(* The count of leases since the last erase. *)

(* Below the threshold an entry counts all leases that have ended, but for the
   given number. *)
Counts(e, n, slack) == e.uses < MaxUses => n <= e.uses + slack

Loading == {"load", "loadUnlink"}

(* A lease that was handed out and is counted before its file is removed. *)
Pending(a) ==
  IF \/ pc = "loadUnlink" /\ file[victim].alias = a /\ victim \in handed
     \/ pc \in Unlinking /\ cmd.alias = a /\ cmd.lease \in handed
  THEN 1 ELSE 0

(* Each crash may lose one count: that of a lease whose file the load has removed
   before it writes the registry. *)
CountAt(a) ==
  /\ pc # "free" => Counts(mem[a], used[a] + Pending(a), crashes)
  /\ pc = "unlink" => Counts(undo[a], used[a], crashes)
  /\ pc \in Loading => Counts(reg[a], used[a], crashes + 1)
  /\ pc \notin Loading \/ (\E l \in Leases : On(l, a)) => Counts(reg[a], used[a], crashes)
CountOK == \A a \in Aliases : CountAt(a)

(* The counters are numbers. *)
LEMMA CountTypes ==
  ASSUME TypeOK, NEW a \in Aliases
  PROVE  /\ mem[a].uses \in 0..MaxUses /\ reg[a].uses \in 0..MaxUses /\ undo[a].uses \in 0..MaxUses
         /\ used[a] \in Nat /\ crashes \in Nat /\ MaxUses \in Nat /\ MaxUses # 0
         /\ Pending(a) \in {0, 1}
<1>1. MaxUses \in Nat /\ MaxUses # 0 /\ MaxCrashes \in Nat
  BY BrokerAssumption
<1>2. mem[a] \in Entry /\ reg[a] \in Entry /\ undo[a] \in Entry
  BY DEF TypeOK, Registry
<1>3. used[a] \in 0..(MaxUses + MaxCrashes) /\ crashes \in 0..MaxCrashes
  BY DEF TypeOK
<1> QED BY <1>1, <1>2, <1>3 DEF Entry, Pending

(* The end of a lease is one more use, if the lease was handed out. *)
LEMMA RemoveUsed ==
  ASSUME TypeOK, NEW l \in Leases, file[l] # None, RemoveFile(l), NEW a \in Aliases
  PROVE  /\ used'[a] \in Nat /\ crashes' = crashes
         /\ used'[a] <= used[a] + 1
         /\ a # file[l].alias \/ l \notin handed => used'[a] = used[a] /\ ended'[a] = ended[a]
         /\ a = file[l].alias /\ l \in handed => ended'[a] = "fresh"
<1>1. file[l].alias \in Aliases /\ used[a] \in Nat /\ MaxUses + MaxCrashes \in Nat
  BY BrokerAssumption, CountTypes DEF TypeOK, Records
<1> QED BY <1>1 DEF RemoveFile, TypeOK, Least

(* A release that is counted makes up for one lease more. *)
LEMMA CountReleased ==
  ASSUME TypeOK, NEW a \in Aliases, NEW e \in Entry, NEW s \in Nat, Counts(e, used[a], s)
  PROVE  Counts(Released(e), used[a] + 1, s)
<1>1. e.uses \in 0..MaxUses /\ Released(e).uses = Least(e.uses + 1, MaxUses)
  BY EntryFields DEF Entry
<1> QED BY <1>1, CountTypes DEF Counts, Least

(* A command ends without another release. *)
LEMMA CountEnd ==
  ASSUME TypeOK, NEW a \in Aliases, CountAt(a), pc \notin Loading \cup {"free"}, ForgetCommand,
         used'[a] = used[a], crashes' = crashes, reg'[a].uses \in {reg[a].uses, mem[a].uses}
  PROVE  CountAt(a)'
BY CountTypes DEF ForgetCommand, CountAt, Counts, Loading

(* A step inside a command that ends no lease, or that wipes the device. *)
LEMMA CountQuiet ==
  ASSUME TypeOK, TypeOK', NEW a \in Aliases, CountAt(a),
         pc \notin Loading \cup Unlinking \cup {"free"}, pc' \notin Loading \cup Unlinking \cup {"free"},
         crashes' = crashes,
         \/ /\ used'[a] = used[a] /\ mem'[a].uses = mem[a].uses
            /\ reg'[a].uses \in {reg[a].uses, mem[a].uses}
         \/ used'[a] = 0
  PROVE  CountAt(a)'
<1>1. Pending(a) = 0 /\ Pending(a)' = 0
  BY DEF Pending, Loading
<1>2. /\ mem'[a].uses \in Nat /\ reg'[a].uses \in Nat
      /\ mem[a].uses \in Nat /\ reg[a].uses \in Nat /\ used[a] \in Nat /\ crashes \in Nat
  <2>1. /\ mem'[a] \in Entry /\ reg'[a] \in Entry
    BY DEF TypeOK, Registry
  <2> QED BY <2>1, CountTypes, BrokerAssumption DEF Entry
<1>3. pc' # "unlink"
  BY DEF Unlinking
<1> QED BY <1>1, <1>2, <1>3 DEF CountAt, Counts

(* A command starts with the counts on disk. *)
LEMMA CountRequest == IInv /\ CountOK /\ Request => CountOK'
<1> SUFFICES ASSUME IInv, CountOK, Request, NEW a \in Aliases PROVE CountAt(a)'
  BY DEF CountOK
<1> USE DEF disk, history, Loading, Unlinking
<1>0. /\ TypeOK /\ pc = "free" /\ UNCHANGED <<file, reg, used, crashes, undo>>
      /\ Counts(reg[a], used[a], crashes)
  <2>1. TypeOK /\ pc = "free" /\ UNCHANGED <<file, reg, used, crashes, undo>>
    BY DEF IInv, Request, StartAcquire, StartLease, StartLifecycle, StartPin, StartUnpin,
           StartPlain, StartCleanup, Start
  <2> QED BY <2>1 DEF CountOK, CountAt
<1>1. mem'[a].uses = reg[a].uses
  <2>1. CASE StartCleanup
    BY <2>1, <1>0, SyncedFields DEF StartCleanup, TypeOK, Registry
  <2>2. CASE ~StartCleanup
    BY <2>2 DEF Request, StartAcquire, StartLease, StartLifecycle, StartPin, StartUnpin,
                StartPlain, Start
  <2> QED BY <2>1, <2>2
<1>2. pc' \in {"load", "idle"}
  BY DEF Request, StartAcquire, StartLease, StartLifecycle, StartPin, StartUnpin,
         StartPlain, StartCleanup, Start
<1>3. Pending(a)' = 0
  BY <1>2 DEF Pending
<1> QED BY <1>0, <1>1, <1>2, <1>3, CountTypes DEF CountAt, Counts

(* A load counts the stale leases: in memory at once, on disk before it removes the
   file or when it ends. *)
LEMMA CountLoad == IInv /\ OwnLease /\ HandedOK /\ CountOK /\ Load => CountOK'
<1> SUFFICES ASSUME IInv, OwnLease, HandedOK, CountOK, Load, NEW a \in Aliases PROVE CountAt(a)'
  BY DEF CountOK
<1> USE DEF disk, history, Goto, Loading
<1>0. TypeOK /\ TypeOK' /\ CommandOK /\ CountAt(a) /\ OneLeasePerAlias /\ mem[a] \in Entry
  <2>1. TypeOK'
    BY NextInv DEF IInv, Next, Command
  <2> QED BY <2>1 DEF IInv, CountOK, TypeOK, Registry
<1>1. ASSUME NEW l \in Leases, LoadLeftover(l) PROVE CountAt(a)'
  <2>1. /\ RemoveFile(l) /\ file[l] # None /\ pc = "load" /\ pc' = "load" /\ UNCHANGED <<mem, reg>>
        /\ l \notin handed
    BY <1>1, <1>0 DEF LoadLeftover, Examined, CommandOK, Files, Leftover, HandedOK, Failed
  <2>2. used'[a] = used[a] /\ crashes' = crashes
    BY <2>1, <1>0, RemoveUsed
  <2>3. \A m \in Leases : On(m, a)' => On(m, a)
    BY <2>1, <1>0, RemoveEffect
  <2>4. Pending(a) = 0 /\ Pending(a)' = 0
    BY <2>1 DEF Pending, Unlinking
  <2> QED BY <1>0, <2>1, <2>2, <2>3, <2>4 DEF CountAt
<1>2. ASSUME NEW l \in Leases, LoadKeep(l) PROVE CountAt(a)'
  BY <1>0, <1>2 DEF LoadKeep, Examined, CountAt, Pending, Unlinking, On
<1>3. ASSUME NEW l \in Leases, LoadStale(l) PROVE CountAt(a)'
  <2>1. /\ RemoveFile(l) /\ file[l] # None /\ pc = "load" /\ pc' = "load" /\ reg' = reg
        /\ file[l].alias \in Aliases
        /\ mem' = Change(mem, file[l].alias, Released(mem[file[l].alias]))
    BY <1>3, <1>0 DEF LoadStale, Examined, CommandOK, Files, TypeOK, Records
  <2>2. Pending(a) = 0 /\ Pending(a)' = 0
    BY <2>1 DEF Pending, Unlinking
  <2>3. \A m \in Leases : On(m, a)' <=> On(m, a) /\ m # l
    BY <2>1, <1>0, RemoveEffect
  <2>4. CASE a = file[l].alias
    <3>1. mem'[a] = Released(mem[a])
      BY <2>1, <2>4, <1>0, ChangeAt DEF TypeOK
    <3>2. Counts(mem[a], used[a], crashes) /\ Counts(reg[a], used[a], crashes)
      BY <2>1, <2>2, <2>4, <1>0, CountTypes DEF CountAt, On
    <3>3. Counts(mem'[a], used[a] + 1, crashes)
      BY <3>1, <3>2, <1>0, CountReleased, CountTypes
    <3>4. used'[a] \in Nat /\ used'[a] <= used[a] + 1 /\ crashes' = crashes
      BY <2>1, <1>0, RemoveUsed
    <3>5. \A m \in Leases : ~On(m, a)'
      BY <2>1, <2>3, <2>4, <1>0 DEF OneLeasePerAlias, Files, On
    <3>6. Counts(mem'[a], used'[a], crashes) /\ Counts(reg[a], used'[a], crashes + 1)
      <4>1. mem'[a].uses \in Nat
        BY <1>0, BrokerAssumption DEF TypeOK, Registry, Entry
      <4> QED BY <3>2, <3>3, <3>4, <4>1, <1>0, CountTypes DEF Counts
    <3> QED BY <2>1, <2>2, <3>4, <3>5, <3>6 DEF CountAt
  <2>5. CASE a # file[l].alias
    <3>1. mem'[a] = mem[a] /\ used'[a] = used[a] /\ crashes' = crashes
      BY <2>1, <2>5, <1>0, RemoveUsed, WriteReleased
    <3> QED BY <1>0, <2>1, <2>2, <2>3, <3>1 DEF CountAt
  <2> QED BY <2>4, <2>5
<1>4. ASSUME NEW l \in Leases, LoadContain(l) PROVE CountAt(a)'
  <2>1. /\ file[l] # None /\ pc = "load" /\ pc' = "loadUnlink" /\ reg' = mem' /\ victim' = l
        /\ file[l].alias \in Aliases /\ UNCHANGED <<file, used, handed, crashes, cmd>>
        /\ mem' = Change(mem, file[l].alias, Released(mem[file[l].alias]))
    BY <1>4, <1>0 DEF LoadContain, Examined, CommandOK, Files, TypeOK, Records, Persist
  <2>2. Pending(a) = 0 /\ Counts(mem[a], used[a], crashes)
    <3>1. Pending(a) = 0
      BY <2>1 DEF Pending, Unlinking
    <3> QED BY <3>1, <2>1, <1>0, CountTypes DEF CountAt
  <2>3. mem'[a].uses \in Nat
    BY <1>0, BrokerAssumption DEF TypeOK, Registry, Entry
  <2>4. CASE a = file[l].alias
    <3>1. mem'[a] = Released(mem[a])
      BY <2>1, <2>4, <1>0, ChangeAt DEF TypeOK
    <3>2. Counts(mem'[a], used[a] + 1, crashes)
      BY <3>1, <2>2, <1>0, CountReleased, CountTypes
    <3>3. Pending(a)' \in {0, 1}
      BY DEF Pending
    <3> QED BY <2>1, <2>3, <3>2, <3>3, <1>0, CountTypes DEF CountAt, Counts
  <2>5. CASE a # file[l].alias
    <3>1. mem'[a] = mem[a]
      BY <2>1, <2>5, <1>0, WriteReleased
    <3>2. Pending(a)' = 0
      BY <2>1, <2>5 DEF Pending, Unlinking
    <3> QED BY <2>1, <2>2, <2>3, <3>1, <3>2, <1>0, CountTypes DEF CountAt, Counts
  <2> QED BY <2>4, <2>5
<1>5. CASE LoadUnlink
  <2>1. /\ RemoveFile(victim) /\ victim \in Leases /\ file[victim] # None
        /\ pc = "loadUnlink" /\ pc' = "load" /\ UNCHANGED <<mem, reg>>
    BY <1>5, <1>0 DEF LoadUnlink, CommandOK, Files
  <2>2. /\ used'[a] \in Nat /\ used'[a] <= used[a] + 1 /\ crashes' = crashes
        /\ a # file[victim].alias \/ victim \notin handed => used'[a] = used[a]
    BY <2>1, <1>0, RemoveUsed
  <2>3. \A m \in Leases : On(m, a)' <=> On(m, a) /\ m # victim
    BY <2>1, <1>0, RemoveEffect
  <2>4. Pending(a)' = 0 /\ (Pending(a) = 0 => used'[a] = used[a])
    BY <2>1, <2>2 DEF Pending, Unlinking
  <2>5. Counts(mem[a], used'[a], crashes)
    BY <2>1, <2>2, <2>4, <1>0, CountTypes DEF CountAt, Counts
  <2>6. CASE a = file[victim].alias
    <3>1. On(victim, a) /\ Counts(reg[a], used[a], crashes)
      BY <2>1, <2>6, <1>0 DEF CountAt, On
    <3>2. \A m \in Leases : ~On(m, a)'
      BY <2>1, <2>3, <2>6, <1>0 DEF OneLeasePerAlias, Files, On
    <3>3. Counts(reg[a], used'[a], crashes + 1)
      BY <3>1, <2>2, <1>0, CountTypes DEF Counts
    <3> QED BY <2>1, <2>2, <2>4, <2>5, <3>2, <3>3, <1>0, CountTypes DEF CountAt
  <2>7. CASE a # file[victim].alias
    <3>1. used'[a] = used[a]
      BY <2>2, <2>7
    <3> QED BY <3>1, <2>1, <2>2, <2>3, <2>4, <2>5, <1>0, CountTypes DEF CountAt
  <2> QED BY <2>6, <2>7
<1>6. CASE LoadSync
  <2>1. /\ mem'[a].uses = mem[a].uses /\ reg'[a] = mem'[a] /\ pc = "load"
        /\ pc' \in {"work", "reclaim"} /\ UNCHANGED <<used, crashes>>
    BY <1>6, WriteSynced DEF LoadSync
  <2>2. Pending(a) = 0 /\ Pending(a)' = 0
    BY <2>1 DEF Pending, Unlinking
  <2> QED BY <2>1, <2>2, <1>0, CountTypes DEF CountAt, Counts
<1>7. CASE Refresh
  <2>1. pc = "work" /\ ForgetCommand /\ UNCHANGED <<used, crashes, reg>>
    BY <1>7 DEF Refresh, Working, Done
  <2> QED BY <2>1, <1>0, CountEnd
<1> QED BY <1>1, <1>2, <1>3, <1>4, <1>5, <1>6, <1>7 DEF Load


(* Slot reclaim wipes devices and starts their counts again. *)
LEMMA CountIdle == IInv /\ CountOK /\ Idle => CountOK'
<1> SUFFICES ASSUME IInv, CountOK, Idle, NEW a \in Aliases PROVE CountAt(a)'
  BY DEF CountOK
<1> USE DEF disk, history, Goto, Loading, Unlinking
<1>0. TypeOK /\ TypeOK' /\ CountAt(a)
  <2>1. TypeOK'
    BY NextInv DEF IInv, Next, Command
  <2> QED BY <2>1 DEF IInv, CountOK
<1>1. ASSUME NEW b \in Aliases, ReclaimSkip(b) \/ IdleShutdown(b) PROVE CountAt(a)'
  BY <1>0, <1>1, CountQuiet DEF ReclaimSkip, IdleShutdown, Visit, IdleStep
<1>2. ASSUME NEW b \in Aliases, ReclaimErase(b) PROVE CountAt(a)'
  <2>1. /\ pc = "reclaim" /\ pc' = "reclaim" /\ reg' = reg /\ crashes' = crashes
        /\ used' = [used EXCEPT ![b] = 0]
    BY <1>2 DEF ReclaimErase, Visit, Erase
  <2>2. a # b => mem'[a] = mem[a]
    BY <1>0, <1>2, WriteErased DEF ReclaimErase
  <2>3. IF a = b THEN used'[a] = 0 ELSE used'[a] = used[a]
    BY <2>1, <1>0 DEF TypeOK
  <2> QED BY <2>1, <2>2, <2>3, <1>0, CountQuiet
<1>3. ASSUME NEW b \in Aliases, ReclaimFails(b) \/ IdleShutdownFails(b) PROVE CountAt(a)'
  <2>1. /\ pc \in {"reclaim", "idle"} /\ pc' = pc /\ reg' \in {reg, mem'}
        /\ UNCHANGED <<used, crashes>>
    BY <1>3 DEF ReclaimFails, IdleShutdownFails, Visit, IdleStep, Persist
  <2>2. PICK why \in {"slot-reclaim-failed", "idle-shutdown-failed"} :
          mem' = Change(mem, b, Broken(mem[b], why))
    BY <1>3 DEF ReclaimFails, IdleShutdownFails, Persist
  <2>3. mem'[a].uses = mem[a].uses
    BY <2>2, <1>0, WriteBroken
  <2> QED BY <2>1, <2>3, <1>0, CountQuiet
<1>4. CASE ReclaimEnd
  <2>1. /\ pc = "reclaim" /\ reg' = mem /\ UNCHANGED <<used, crashes>>
        /\ ForgetCommand \/ (mem' = mem /\ pc' \in {"record", "idle"})
    BY <1>4 DEF ReclaimEnd, DoneWriting, Persist
  <2> QED BY <2>1, <1>0, CountQuiet, CountEnd
<1>5. CASE IdleEnd
  <2>1. pc = "idle" /\ reg' = mem /\ UNCHANGED <<used, crashes>> /\ ForgetCommand
    BY <1>5 DEF IdleEnd, DoneWriting
  <2> QED BY <2>1, <1>0, CountEnd
<1> QED BY <1>1, <1>2, <1>3, <1>4, <1>5 DEF Idle

(* An acquire ends no lease that was handed out. *)
LEMMA CountAcquire == IInv /\ OwnLease /\ CountOK /\ Acquire => CountOK'
<1> SUFFICES ASSUME IInv, OwnLease, CountOK, Acquire, NEW a \in Aliases PROVE CountAt(a)'
  BY DEF CountOK
<1> USE DEF disk, history, Goto, Loading, Unlinking
<1>0. /\ TypeOK /\ TypeOK' /\ CountAt(a)
      /\ pc \in AcquireControl => cmd.kind = "acquire" /\ cmd.alias \in Aliases /\ cmd.lease \in Leases
  <2>1. TypeOK'
    BY NextInv DEF IInv, Next, Command
  <2> QED BY <2>1 DEF IInv, CountOK, CommandOK
<1>1. CASE AcquireSelect \/ AcquireRecord \/ AcquireNoReset
  <2>1. /\ pc \in {"work", "record", "reset"} /\ pc' \in {"reclaim", "activate", "boot"}
        /\ UNCHANGED <<reg, mem, used, crashes>>
    BY <1>1 DEF AcquireSelect, Working, AcquireRecord, AcquireNoReset
  <2> QED BY <2>1, <1>0, CountQuiet
<1>2. CASE AcquireResetDone \/ AcquireBootDone \/ AcquireRollback
  <2>1. /\ pc \in {"resetDone", "bootDone", "rollback"}
        /\ pc' \in {"boot", "return", "rollbackUnlink"}
        /\ mem' = mem /\ reg' = mem /\ UNCHANGED <<used, crashes>>
    BY <1>2 DEF AcquireResetDone, AcquireBootDone, AcquireRollback, Persist
  <2> QED BY <2>1, <1>0, CountQuiet
<1>3. CASE AcquireActivate
  <2>1. /\ pc = "activate" /\ pc' = "reset" /\ reg' = mem' /\ UNCHANGED <<used, crashes>>
        /\ cmd.alias \in Aliases
    BY <1>0, <1>3 DEF AcquireActivate, Persist, AcquireControl
  <2>2. mem'[a].uses = mem[a].uses
    BY <2>1, <1>0, <1>3, WriteActive DEF AcquireActivate, Persist
  <2> QED BY <2>1, <2>2, <1>0, CountQuiet
<1>4. CASE AcquireReset
  <2>1. /\ pc = "reset" /\ pc' = "resetDone" /\ reg' = reg /\ crashes' = crashes
        /\ cmd.alias \in Aliases /\ used' = [used EXCEPT ![cmd.alias] = 0]
    BY <1>0, <1>4 DEF AcquireReset, Erase, AcquireControl
  <2>2. a # cmd.alias => mem'[a] = mem[a]
    BY <2>1, <1>0, <1>4, WriteErased DEF AcquireReset
  <2>3. IF a = cmd.alias THEN used'[a] = 0 ELSE used'[a] = used[a]
    BY <2>1, <1>0 DEF TypeOK
  <2> QED BY <2>1, <2>2, <2>3, <1>0, CountQuiet
<1>5. CASE AcquireBoot \/ AcquireFails
  <2>1. /\ pc \in {"reset", "resetDone", "boot", "bootDone"}
        /\ pc' \in {"return", "bootDone", "rollback"} /\ reg' = reg
        /\ UNCHANGED <<used, crashes>> /\ cmd.alias \in Aliases
    BY <1>0, <1>5 DEF AcquireBoot, AcquireFails, AcquireControl
  <2>2. mem'[a].uses = mem[a].uses
    BY <2>1, <1>0, <1>5, WriteHealthy, WriteFailed DEF AcquireBoot
  <2> QED BY <2>1, <2>2, <1>0, CountQuiet
<1>6. CASE AcquireRejected \/ AcquireReturn \/ AcquireRollbackFails
  <2>1. /\ pc \in {"work", "return", "rollback", "rollbackUnlink"} /\ ForgetCommand
        /\ UNCHANGED <<reg, used, crashes>>
    BY <1>6 DEF AcquireRejected, AcquireReturn, AcquireRollbackFails, Working, Done
  <2> QED BY <2>1, <1>0, CountEnd
<1>7. CASE AcquireActivateFails \/ AcquireRolledBack
  <2>1. /\ pc \in {"activate", "rollbackUnlink"} /\ RemoveFile(cmd.lease) /\ ForgetCommand
        /\ reg' = reg /\ cmd.lease \in Leases /\ file[cmd.lease] # None /\ cmd.lease \notin handed
    BY <1>0, <1>7 DEF AcquireActivateFails, AcquireRolledBack, AcquireControl, OwnLease, Leasing,
                      Only, On
  <2>2. used'[a] = used[a] /\ crashes' = crashes
    BY <2>1, <1>0, RemoveUsed
  <2> QED BY <2>1, <2>2, <1>0, CountEnd
<1> QED BY <1>1, <1>2, <1>3, <1>4, <1>5, <1>6, <1>7 DEF Acquire

(* A lease is counted before its file is removed. *)
LEMMA CountReleasing ==
  ASSUME IInv, CountOK, NEW a \in Aliases, TypeOK', pc \notin Loading \cup Unlinking \cup {"free"},
         pc' \in Unlinking, cmd.alias \in Aliases, UNCHANGED <<file, handed, used, crashes, cmd>>,
         Persist(Change(mem, cmd.alias, Released(mem[cmd.alias]))),
         pc' = "unlink" => undo' = mem
  PROVE  CountAt(a)'
<1>0. TypeOK /\ CountAt(a) /\ mem[a] \in Entry
  BY DEF IInv, CountOK, TypeOK, Registry
<1>1. Pending(a) = 0 /\ Counts(mem[a], used[a], crashes)
  <2>1. Pending(a) = 0
    BY DEF Pending, Loading
  <2> QED BY <2>1, <1>0, CountTypes DEF CountAt
<1>2. reg' = mem' /\ mem'[a].uses \in Nat /\ pc' \notin Loading
  BY <1>0, BrokerAssumption DEF TypeOK, Registry, Entry, Persist, Unlinking, Loading
<1>3. CASE a = cmd.alias
  <2>1. mem'[a] = Released(mem[a])
    BY <1>3, <1>0, ChangeAt DEF TypeOK, Persist
  <2>2. Counts(mem'[a], used[a] + 1, crashes)
    BY <2>1, <1>1, <1>0, CountReleased, CountTypes
  <2>3. Pending(a)' \in {0, 1}
    BY DEF Pending
  <2> QED BY <2>2, <2>3, <1>0, <1>1, <1>2, CountTypes DEF CountAt, Counts
<1>4. CASE a # cmd.alias
  <2>1. mem'[a] = mem[a]
    BY <1>4, <1>0, WriteReleased DEF Persist
  <2>2. Pending(a)' = 0
    BY <1>4 DEF Pending, Unlinking
  <2> QED BY <2>1, <2>2, <1>0, <1>1, <1>2, CountTypes DEF CountAt, Counts
<1> QED BY <1>3, <1>4

(* With the file the lease is gone and no longer pending. *)
LEMMA CountGone ==
  ASSUME IInv, OwnLease, RegistryOK, CountOK, NEW a \in Aliases, pc \in Unlinking,
         RemoveFile(cmd.lease), UNCHANGED reg,
         ForgetCommand \/ (pc' \in {"reclaim", "work"} /\ UNCHANGED mem)
  PROVE  CountAt(a)'
<1>0. /\ TypeOK /\ CountAt(a) /\ cmd.lease \in Leases /\ reg[a] = mem[a]
      /\ On(cmd.lease, cmd.alias) /\ pc \notin Loading \cup {"free"}
  BY DEF IInv, CountOK, OwnLease, Only, RegistryOK, RegOK, Unlinking, Loading
<1>1. /\ used'[a] \in Nat /\ used'[a] <= used[a] + 1 /\ crashes' = crashes
      /\ a # cmd.alias \/ cmd.lease \notin handed => used'[a] = used[a]
  BY <1>0, RemoveUsed DEF On
<1>2. Counts(mem[a], used'[a], crashes) /\ Counts(reg[a], used'[a], crashes)
  <2>1. a = cmd.alias /\ cmd.lease \in handed => Pending(a) = 1
    BY DEF Pending
  <2> QED BY <2>1, <1>0, <1>1, CountTypes DEF CountAt, Counts
<1>3. ~ForgetCommand => Pending(a)' = 0
  BY DEF Pending, Unlinking
<1> QED BY <1>1, <1>2, <1>3, CountTypes, <1>0 DEF CountAt, ForgetCommand, Loading

(* Release and containment. *)
LEMMA CountEndLease == IInv /\ OwnLease /\ RegistryOK /\ CountOK /\ EndLease => CountOK'
<1> SUFFICES ASSUME IInv, OwnLease, RegistryOK, CountOK, EndLease, NEW a \in Aliases
             PROVE  CountAt(a)'
  BY DEF CountOK
<1> USE DEF disk, history, Goto, Loading, Unlinking
<1>0. TypeOK /\ TypeOK' /\ CountAt(a) /\ CommandOK
  <2>1. TypeOK'
    BY NextInv DEF IInv, Next, Command
  <2> QED BY <2>1 DEF IInv, CountOK
<1>1. CASE ReleaseLease \/ Contain
  <2>1. cmd.alias \in Aliases
    BY <1>0, <1>1 DEF ReleaseLease, Contain, Working, CommandOK, LeaseKinds
  <2> QED BY <2>1, <1>0, <1>1, CountReleasing DEF ReleaseLease, Contain, Working
<1>2. CASE ReleaseUnlink \/ ContainUnlink
  BY <1>2, CountGone DEF ReleaseUnlink, ContainUnlink
<1>3. CASE ReleaseRestore
  BY <1>0, <1>3 DEF ReleaseRestore, DoneWriting, ForgetCommand, CountAt
<1>4. CASE Register \/ LeaseCommandEnds
  <2>1. pc = "work" /\ ForgetCommand /\ UNCHANGED <<reg, used, crashes>>
    BY <1>4 DEF Register, LeaseCommandEnds, Working, Done
  <2> QED BY <2>1, <1>0, CountEnd
<1> QED BY <1>1, <1>2, <1>3, <1>4 DEF EndLease

(* A device that is erased or replaced has not been used yet. *)
LEMMA CountOthers ==
  IInv /\ OwnLease /\ RegistryOK /\ CountOK /\ (PinCommand \/ LifecycleStep) => CountOK'
<1> SUFFICES ASSUME IInv, OwnLease, RegistryOK, CountOK, PinCommand \/ LifecycleStep,
                    NEW a \in Aliases
             PROVE  CountAt(a)'
  BY DEF CountOK
<1> USE DEF disk, history, Goto, Loading, Unlinking
<1>0. /\ TypeOK /\ TypeOK' /\ CountAt(a)
      /\ cmd.kind \in Lifecycle \/ pc = "repair" => cmd.alias \in Aliases
  <2>1. TypeOK'
    BY NextInv DEF IInv, Next, Command
  <2> QED BY <2>1 DEF IInv, CountOK, CommandOK
<1>1. CASE Pin \/ Unpin \/ PinRejected \/ LifecycleRejected \/ EraseFails \/ LifecycleWrite
  <2>1. /\ pc \in {"work", "write"} /\ ForgetCommand /\ UNCHANGED <<used, crashes>>
        /\ reg' \in {reg, mem}
    BY <1>1 DEF Pin, Unpin, PinRejected, LifecycleRejected, EraseFails, LifecycleWrite, Working,
                Done, DoneWriting
  <2> QED BY <2>1, <1>0, CountEnd
<1>2. CASE BootOrShutdown \/ RepairDevice
  <2>1. /\ pc \in {"work", "repair"} /\ pc' = "write" /\ UNCHANGED <<crashes, reg>>
        /\ cmd.alias \in Aliases
        /\ used' = used \/ used' = [used EXCEPT ![cmd.alias] = 0]
    BY <1>0, <1>2 DEF BootOrShutdown, RepairDevice, Lifecycle
  <2>2. mem'[a].uses = mem[a].uses
    BY <2>1, <1>0, <1>2, WriteHealthy DEF BootOrShutdown, RepairDevice
  <2>3. used'[a] = used[a] \/ used'[a] = 0
    BY <2>1, <1>0 DEF TypeOK
  <2> QED BY <2>1, <2>2, <2>3, <1>0, CountQuiet
<1>3. CASE EraseDevice
  <2>1. /\ pc = "work" /\ pc' = "write" /\ UNCHANGED <<crashes, reg>>
        /\ cmd.alias \in Aliases /\ used' = [used EXCEPT ![cmd.alias] = 0]
    BY <1>0, <1>3 DEF EraseDevice, Erase, Working, Lifecycle
  <2>2. a # cmd.alias => mem'[a] = mem[a]
    BY <2>1, <1>0, <1>3, WriteUnused DEF EraseDevice
  <2>3. IF a = cmd.alias THEN used'[a] = 0 ELSE used'[a] = used[a]
    BY <2>1, <1>0 DEF TypeOK
  <2> QED BY <2>1, <2>2, <2>3, <1>0, CountQuiet
<1>4. CASE RepairStart
  <2>1. /\ pc = "work" /\ pc' = "repair" /\ UNCHANGED <<crashes, used>> /\ reg' = mem'
        /\ cmd.alias \in Aliases
    BY <1>0, <1>4 DEF RepairStart, Working, Lifecycle, Persist
  <2>2. mem'[a].uses = mem[a].uses
    BY <2>1, <1>0, <1>4, WriteRepairing DEF RepairStart, Persist
  <2> QED BY <2>1, <2>2, <1>0, CountQuiet
<1>5. CASE Revoke
  <2>1. cmd.alias \in Aliases
    BY <1>0, <1>5 DEF Revoke, Working, Lifecycle
  <2> QED BY <2>1, <1>0, <1>5, CountReleasing DEF Revoke, Working
<1>6. CASE RevokeUnlink
  BY <1>6, CountGone DEF RevokeUnlink
<1>7. CASE RepairFails
  <2>1. /\ pc = "repair" /\ ForgetCommand /\ UNCHANGED <<used, crashes>> /\ cmd.alias \in Aliases
        /\ reg' = Change(mem, cmd.alias, Broken(mem[cmd.alias], "repair-failed"))
    BY <1>0, <1>7 DEF RepairFails, DoneWriting
  <2>2. reg'[a].uses = mem[a].uses
    <3>1. reg'[cmd.alias].uses = mem[cmd.alias].uses
      BY <2>1, <1>0, WriteBroken
    <3>2. a # cmd.alias => reg'[a] = mem[a]
      BY <2>1, <1>0, ChangeAt DEF TypeOK
    <3> QED BY <3>1, <3>2
  <2> QED BY <2>1, <2>2, <1>0, CountEnd
<1> QED BY <1>1, <1>2, <1>3, <1>4, <1>5, <1>6, <1>7 DEF PinCommand, LifecycleStep

(* A crash may lose the count of the load it ends. *)
LEMMA CountEnvironment == IInv /\ CountOK /\ Environment => CountOK'
<1> SUFFICES ASSUME IInv, CountOK, Environment, NEW a \in Aliases PROVE CountAt(a)'
  BY DEF CountOK
<1> USE DEF disk, local, history, Loading
<1>0. TypeOK /\ CountAt(a)
  BY DEF IInv, CountOK
<1>1. CASE \/ \E o \in Owners : OwnerDies(o) \/ OwnerStarts(o)
           \/ \E b \in Aliases : DeviceLost(b)
  BY <1>0, <1>1 DEF OwnerDies, OwnerStarts, DeviceLost, CountAt, Pending, On
<1>2. ASSUME NEW b \in Aliases, GraceEnds(b) PROVE CountAt(a)'
  <2>1. reg'[a].uses = reg[a].uses
    BY <1>2, <1>0 DEF GraceEnds, TypeOK, Registry, Entry
  <2> QED BY <1>0, <1>2, <2>1 DEF GraceEnds, CountAt, Counts
<1>3. CASE Crash
  <2>1. ForgetCommand /\ crashes' = crashes + 1 /\ UNCHANGED <<reg, used>> /\ pc # "free"
    BY <1>3 DEF Crash
  <2>2. Counts(reg[a], used[a], crashes + 1)
    BY <2>1, <1>0, CountTypes DEF CountAt, Counts
  <2> QED BY <2>1, <2>2 DEF ForgetCommand, CountAt
<1> QED BY <1>1, <1>2, <1>3 DEF Environment

(* No release goes uncounted, but for one that each crash may lose. *)
LEMMA CountStep ==
  IInv /\ OwnLease /\ HandedOK /\ RegistryOK /\ CountOK /\ [Next]_vars => CountOK'
<1>1. ASSUME CountOK, UNCHANGED vars PROVE CountOK'
  BY <1>1 DEF vars, disk, device, history, local, CountOK, CountAt, Counts, Pending, On
<1> QED BY <1>1, CountRequest, CountLoad, CountIdle, CountAcquire, CountEndLease, CountOthers,
           CountEnvironment DEF Next, Command


-----------------------------------------------------------------------------
(* The budget of an acquire. *)

(* Slot reclaim counts the leases of the alias. *)
Counted(a) == Class[a] \in ReclaimClasses /\ pin[a] = None

(* Once slot reclaim has visited the alias of an acquire, the alias is below its
   threshold, or the acquire will fail. *)
BudgetOK ==
  /\ pc = "reclaim" /\ cmd.kind = "acquire" /\ cmd.alias \notin todo /\ Counted(cmd.alias) =>
       mem[cmd.alias].uses < MaxUses \/ mem[cmd.alias].drift = "slot-reclaim-failed"
  /\ pc \in Acquiring /\ Counted(cmd.alias) => mem[cmd.alias].uses < MaxUses

(* The reclaim of an acquire. *)
LEMMA BudgetIdle ==
  ~ResetLockBusy /\ IInv /\ HealthOK /\ RegistryOK /\ BudgetOK /\ Idle => BudgetOK'
<1> SUFFICES ASSUME ~ResetLockBusy, IInv, HealthOK, RegistryOK, BudgetOK, Idle
             PROVE  BudgetOK'
  OBVIOUS
<1> USE DEF disk, history, Goto, Acquiring
<1>0. /\ TypeOK /\ MaxUses \in Nat /\ MaxUses # 0
      /\ pc \in {"reclaim", "record"} /\ cmd.kind = "acquire" =>
           /\ cmd.alias \in Aliases /\ LeasesOn(cmd.alias) = {}
           /\ mem[cmd.alias].uses \in Nat
  <2>1. pc = "reclaim" /\ cmd.kind = "acquire" => cmd.alias \in Aliases
    BY DEF IInv, CommandOK
  <2>2. pc = "record" /\ cmd.kind = "acquire" => cmd.alias \in Aliases
    BY DEF IInv, CommandOK, AcquireControl
  <2>3. TypeOK /\ SelectionHolds
    BY DEF IInv
  <2> QED BY <2>1, <2>2, <2>3, CountTypes, BrokerAssumption DEF SelectionHolds
<1>1. ASSUME NEW b \in Aliases, ReclaimSkip(b) PROVE BudgetOK'
  <2>1. /\ pc = "reclaim" /\ pc' = "reclaim" /\ todo' = todo \ {b} /\ UNCHANGED <<mem, cmd, pin>>
        /\ ~Due(b)
    BY <1>1 DEF ReclaimSkip, Visit
  <2>2. CASE cmd.kind = "acquire" /\ cmd.alias = b /\ Counted(b)
    <3>1. mem[b].active = None
      <4>1. Named(b, mem[b]) /\ LeasesOn(b) = {}
        BY <2>1, <2>2, <1>0 DEF RegistryOK, RegOK, InStep
      <4>2. mem[b].active \in Leases \cup {None}
        BY <1>0 DEF TypeOK, Registry, Entry
      <4> QED BY <4>1, <4>2 DEF Named, Only, On, LeasesOn, Files
    <3>2. mem[b].health = "healthy" \/ mem[b].drift = "slot-reclaim-failed"
      BY <2>1, <2>2 DEF HealthOK
    <3>3. mem[b].uses < MaxUses \/ mem[b].drift = "slot-reclaim-failed"
      BY <2>1, <2>2, <3>1, <3>2, <1>0 DEF Due, Reclaimable, Counted
    <3> QED BY <2>1, <2>2, <3>3 DEF BudgetOK
  <2>3. CASE ~(cmd.kind = "acquire" /\ cmd.alias = b /\ Counted(b))
    BY <2>1, <2>3 DEF BudgetOK, Counted
  <2> QED BY <2>2, <2>3
<1>2. ASSUME NEW b \in Aliases, ReclaimErase(b) \/ ReclaimFails(b) PROVE BudgetOK'
  <2>1. pc = "reclaim" /\ pc' = "reclaim" /\ todo' = todo \ {b} /\ UNCHANGED <<cmd, pin>>
    BY <1>2 DEF ReclaimErase, ReclaimFails, Visit
  <2>2. \A a \in Aliases : a # b => mem'[a] = mem[a]
    <3>1. CASE ReclaimErase(b)
      BY <1>0, <3>1, WriteErased DEF ReclaimErase
    <3>2. CASE ReclaimFails(b)
      BY <1>0, <3>2, ChangeAt DEF ReclaimFails, TypeOK
    <3> QED BY <1>2, <3>1, <3>2
  <2>3. mem'[b].uses = 0 \/ mem'[b].drift = "slot-reclaim-failed"
    BY <1>0, <1>2, WriteErased, WriteBroken DEF ReclaimErase, ReclaimFails
  <2> QED BY <2>1, <2>2, <2>3, <1>0 DEF BudgetOK, Counted
<1>3. CASE ReclaimEnd
  BY <1>3 DEF ReclaimEnd, DoneWriting, ForgetCommand, Persist, BudgetOK, Counted
<1>4. CASE IdleEnd \/ \E b \in Aliases : IdleShutdown(b) \/ IdleShutdownFails(b)
  BY <1>4 DEF IdleEnd, DoneWriting, ForgetCommand, IdleShutdown, IdleShutdownFails, IdleStep, BudgetOK
<1> QED BY <1>1, <1>2, <1>3, <1>4 DEF Idle

(* From the selection to the return. *)
LEMMA BudgetAcquire == IInv /\ BudgetOK /\ Acquire => BudgetOK'
<1> SUFFICES ASSUME IInv, BudgetOK, Acquire PROVE BudgetOK'
  OBVIOUS
<1> USE DEF disk, history, Goto, Acquiring
<1>0. /\ TypeOK /\ MaxUses \in Nat /\ MaxUses # 0
      /\ pc \in AcquireControl => cmd.alias \in Aliases
  BY BrokerAssumption DEF IInv, CommandOK
<1>1. CASE AcquireSelect
  BY <1>1 DEF AcquireSelect, BudgetOK
<1>2. CASE AcquireRecord \/ AcquireNoReset \/ AcquireResetDone \/ AcquireBootDone
  BY <1>2 DEF AcquireRecord, AcquireNoReset, AcquireResetDone, AcquireBootDone, Persist,
              BudgetOK, Counted
<1>3. CASE AcquireActivate
  <2>1. /\ pc = "activate" /\ pc' = "reset" /\ UNCHANGED <<cmd, pin>>
        /\ mem'[cmd.alias].uses = mem[cmd.alias].uses
    BY <1>0, <1>3, WriteActive DEF AcquireActivate, Persist, AcquireControl
  <2> QED BY <2>1 DEF BudgetOK, Counted
<1>4. CASE AcquireReset
  <2>1. pc' = "resetDone" /\ cmd' = cmd /\ mem'[cmd.alias].uses = 0
    BY <1>0, <1>4, WriteErased DEF AcquireReset, AcquireControl
  <2> QED BY <2>1, <1>0 DEF BudgetOK
<1>5. CASE AcquireBoot
  <2>1. /\ pc = "boot" /\ pc' \in {"return", "bootDone"} /\ UNCHANGED <<cmd, pin>>
        /\ mem'[cmd.alias].uses = mem[cmd.alias].uses
    BY <1>0, <1>5, WriteHealthy DEF AcquireBoot, AcquireControl
  <2> QED BY <2>1 DEF BudgetOK, Counted
<1>6. CASE \/ AcquireRejected \/ AcquireActivateFails \/ AcquireReturn \/ AcquireFails
           \/ AcquireRollback \/ AcquireRolledBack \/ AcquireRollbackFails
  BY <1>6 DEF AcquireRejected, AcquireActivateFails, AcquireReturn, AcquireFails, AcquireRollback,
              AcquireRolledBack, AcquireRollbackFails, Done, ForgetCommand, BudgetOK
<1> QED BY <1>1, <1>2, <1>3, <1>4, <1>5, <1>6 DEF Acquire

(* Every other step leaves the budget of an acquire alone. *)
LEMMA BudgetStep ==
  ~ResetLockBusy /\ IInv /\ HealthOK /\ RegistryOK /\ BudgetOK /\ [Next]_vars => BudgetOK'
<1> SUFFICES ASSUME ~ResetLockBusy, IInv, HealthOK, RegistryOK, BudgetOK, [Next]_vars
             PROVE  BudgetOK'
  OBVIOUS
<1> USE DEF disk, device, history, local, Goto, Acquiring, Done, DoneWriting, ForgetCommand, BudgetOK
<1>1. CASE Request
  BY <1>1 DEF Request, StartAcquire, StartLease, StartLifecycle, StartPin, StartUnpin, StartPlain,
              StartCleanup, Start
<1>2. CASE Load
  BY <1>2 DEF Load, LoadLeftover, LoadKeep, LoadStale, LoadContain, Examined, LoadUnlink, LoadSync,
              Refresh
<1>3. CASE EndLease
  <2>1. pc = "unlink" => cmd.kind = "release"
    BY DEF IInv, CommandOK
  <2> QED BY <1>3, <2>1 DEF EndLease, ReleaseLease, ReleaseUnlink, ReleaseRestore, Contain,
             ContainUnlink, Register, LeaseCommandEnds
<1>4. CASE PinCommand \/ LifecycleStep
  BY <1>4 DEF PinCommand, Pin, Unpin, PinRejected,
              LifecycleStep, LifecycleRejected, BootOrShutdown, EraseDevice, EraseFails,
              LifecycleWrite, Revoke, RevokeUnlink, RepairStart, RepairDevice, RepairFails
<1>5. CASE Environment
  <2>1. CASE Crash
    BY <2>1 DEF Crash
  <2>2. CASE ~Crash
    BY <1>5, <2>2 DEF Environment, OwnerDies, OwnerStarts, DeviceLost, GraceEnds, Counted
  <2> QED BY <2>1, <2>2
<1>6. CASE UNCHANGED vars
  BY <1>6 DEF vars, Counted
<1> QED BY <1>1, <1>2, <1>3, <1>4, <1>5, <1>6, BudgetIdle, BudgetAcquire DEF Next, Command

(* An alias whose class is reclaimed after MaxUses leases is erased in time, if the
   reset lock can always be taken: the uses a lease finds are fewer than MaxUses,
   but for one that each crash may lose. *)
THEOREM BudgetsKept == ASSUME ~ResetLockBusy PROVE Spec => BudgetKept
<1> DEFINE I == Accord /\ CountOK /\ BudgetOK
           A == \A l \in handed' \ handed :
                  LET a == file[l].alias IN
                  Class[a] \in ReclaimClasses /\ pin[a] = None => used[a] < MaxUses + crashes
<1>1. Init => I
  <2> SUFFICES ASSUME Init PROVE CountOK /\ BudgetOK
    BY AccordInit
  <2>1. \A a \in Aliases : used[a] = 0 /\ reg[a].uses = 0
    BY BlankFields DEF Init
  <2>2. pc = "free" /\ crashes = 0
    BY DEF Init
  <2>3. CountOK
    BY <2>1, <2>2 DEF CountOK, CountAt, Counts, Loading
  <2>4. BudgetOK
    BY <2>2 DEF BudgetOK, Acquiring
  <2> QED BY <2>3, <2>4
<1>2. I /\ [Next]_vars => I'
  BY AccordNext, CountStep, BudgetStep DEF Accord
<1>3. I /\ [Next]_vars => [A]_vars
  <2> SUFFICES ASSUME I, [Next]_vars, NEW l \in handed' \ handed,
                      Counted(file[l].alias)
               PROVE  used[file[l].alias] < MaxUses + crashes
    BY DEF Counted
  <2>1. TypeOK /\ l \in Leases
    BY NextInv DEF Accord, IInv, TypeOK
  <2>2. AcquireReturn /\ l = cmd.lease
    BY <2>1, LeaseSteps DEF Accord
  <2>3. file[l].alias = cmd.alias /\ cmd.alias \in Aliases
    BY <2>2, ReturnedHealthy DEF Accord
  <2>4. pc = "return"
    BY <2>2 DEF AcquireReturn
  <2>5. mem[cmd.alias].uses < MaxUses
    BY <2>3, <2>4 DEF BudgetOK, Acquiring
  <2>6. Counts(mem[cmd.alias], used[cmd.alias] + Pending(cmd.alias), crashes)
    BY <2>3, <2>4 DEF CountOK, CountAt
  <2> QED BY <2>1, <2>3, <2>5, <2>6, CountTypes DEF Counts
<1> QED BY <1>1, <1>2, <1>3, PTL DEF Spec, BudgetKept


-----------------------------------------------------------------------------
(* The grace period of idle devices. *)

(* An entry says no earlier than the last lease's end that it is long ago. *)
Rested(e, a) == e.rest = "over" => ended[a] # "fresh"

(* No crash comes between the file of a lease and the entry that says when it
   ended. *)
RestAt(a) ==
  /\ pc \notin {"free", "load"} => reg[a].rest = mem[a].rest
  /\ pc # "free" => Rested(mem[a], a)
  /\ pc = "free" => Rested(reg[a], a)
  /\ pc = "unlink" => Rested(undo[a], a)
  /\ pc = "idle" /\ cmd.kind = "idle" /\ a \in todo => ended[a] # "fresh"
  /\ pc = "loadUnlink" /\ file[victim].alias = a => mem[a].rest = "fresh"
  /\ pc \in Unlinking /\ cmd.alias = a => mem[a].rest = "fresh"
RestOK == \A a \in Aliases : RestAt(a)

(* A command ends without another release. *)
LEMMA RestEnd ==
  ASSUME NEW a \in Aliases, RestAt(a), pc \notin {"free", "load"}, ForgetCommand,
         ended' = ended, reg'[a].rest \in {reg[a].rest, mem[a].rest}
  PROVE  RestAt(a)'
BY DEF ForgetCommand, RestAt, Rested, Unlinking

(* A step inside a command that ends no lease. *)
LEMMA RestQuiet ==
  ASSUME NEW a \in Aliases, RestAt(a),
         pc \notin {"free", "load", "loadUnlink"} \cup Unlinking,
         pc' \notin {"free", "load", "loadUnlink", "idle"} \cup Unlinking,
         ended' = ended, mem'[a].rest = mem[a].rest, reg'[a].rest \in {reg[a].rest, mem[a].rest}
  PROVE  RestAt(a)'
BY DEF RestAt, Rested, Unlinking

(* A command starts with what the registry says. *)
LEMMA RestRequest == IInv /\ RestOK /\ Request => RestOK'
<1> SUFFICES ASSUME IInv, RestOK, Request, NEW a \in Aliases PROVE RestAt(a)'
  BY DEF RestOK
<1> USE DEF disk, history, Unlinking
<1>0. TypeOK /\ pc = "free" /\ UNCHANGED <<reg, ended>> /\ Rested(reg[a], a)
  <2>1. TypeOK /\ pc = "free" /\ UNCHANGED <<reg, ended>>
    BY DEF IInv, Request, StartAcquire, StartLease, StartLifecycle, StartPin, StartUnpin,
           StartPlain, StartCleanup, Start
  <2> QED BY <2>1 DEF RestOK, RestAt
<1>1. CASE StartCleanup
  <2>1. mem'[a].rest = reg[a].rest
    BY <1>0, <1>1, SyncedFields DEF StartCleanup, TypeOK, Registry
  <2>2. pc' = "idle" /\ cmd'.kind = "cleanup"
    BY <1>1 DEF StartCleanup, NoCmd
  <2> QED BY <1>0, <2>1, <2>2 DEF RestAt, Rested
<1>2. CASE ~StartCleanup
  <2>1. mem' = reg /\ pc' = "load"
    BY <1>2 DEF Request, StartAcquire, StartLease, StartLifecycle, StartPin, StartUnpin,
                StartPlain, Start
  <2> QED BY <1>0, <2>1 DEF RestAt, Rested
<1> QED BY <1>1, <1>2

(* A load notes when a stale lease ended, before or as its file goes. *)
LEMMA RestLoad == IInv /\ HandedOK /\ RestOK /\ Load => RestOK'
<1> SUFFICES ASSUME IInv, HandedOK, RestOK, Load, NEW a \in Aliases PROVE RestAt(a)'
  BY DEF RestOK
<1> USE DEF disk, history, Goto, Unlinking
<1>0. TypeOK /\ CommandOK /\ RestAt(a) /\ mem[a] \in Entry
  BY DEF IInv, RestOK, TypeOK, Registry
<1>1. ASSUME NEW l \in Leases, LoadLeftover(l) PROVE RestAt(a)'
  <2>1. /\ RemoveFile(l) /\ file[l] # None /\ pc = "load" /\ pc' = "load" /\ UNCHANGED <<mem, reg>>
        /\ l \notin handed
    BY <1>1, <1>0 DEF LoadLeftover, Examined, CommandOK, Files, Leftover, HandedOK, Failed
  <2>2. ended'[a] = ended[a]
    BY <2>1, <1>0, RemoveUsed
  <2> QED BY <1>0, <2>1, <2>2 DEF RestAt, Rested
<1>2. ASSUME NEW l \in Leases, LoadKeep(l) PROVE RestAt(a)'
  BY <1>0, <1>2 DEF LoadKeep, Examined, RestAt, Rested
<1>3. ASSUME NEW l \in Leases, LoadStale(l) PROVE RestAt(a)'
  <2>1. /\ RemoveFile(l) /\ file[l] # None /\ pc = "load" /\ pc' = "load"
        /\ file[l].alias \in Aliases
        /\ mem' = Change(mem, file[l].alias, Released(mem[file[l].alias]))
    BY <1>3, <1>0 DEF LoadStale, Examined, CommandOK, Files, TypeOK, Records
  <2>2. IF a = file[l].alias THEN mem'[a].rest = "fresh"
                             ELSE mem'[a] = mem[a] /\ ended'[a] = ended[a]
    BY <2>1, <1>0, WriteReleased, RemoveUsed
  <2> QED BY <1>0, <2>1, <2>2 DEF RestAt, Rested
<1>4. ASSUME NEW l \in Leases, LoadContain(l) PROVE RestAt(a)'
  <2>1. /\ pc = "load" /\ pc' = "loadUnlink" /\ reg' = mem' /\ victim' = l
        /\ file[l].alias \in Aliases /\ UNCHANGED <<file, ended, cmd>>
        /\ mem' = Change(mem, file[l].alias, Released(mem[file[l].alias]))
    BY <1>4, <1>0 DEF LoadContain, Examined, CommandOK, Files, TypeOK, Records, Persist
  <2>2. IF a = file[l].alias THEN mem'[a].rest = "fresh" ELSE mem'[a] = mem[a]
    BY <2>1, <1>0, WriteReleased
  <2> QED BY <1>0, <2>1, <2>2 DEF RestAt, Rested
<1>5. CASE LoadUnlink
  <2>1. /\ RemoveFile(victim) /\ victim \in Leases /\ file[victim] # None
        /\ pc = "loadUnlink" /\ pc' = "load" /\ UNCHANGED <<mem, reg>>
    BY <1>5, <1>0 DEF LoadUnlink, CommandOK, Files
  <2>2. a # file[victim].alias => ended'[a] = ended[a]
    BY <2>1, <1>0, RemoveUsed
  <2> QED BY <1>0, <2>1, <2>2 DEF RestAt, Rested
<1>6. CASE LoadSync
  <2>1. /\ mem'[a].rest = mem[a].rest /\ reg'[a] = mem'[a] /\ pc = "load"
        /\ pc' \in {"work", "reclaim"} /\ ended' = ended
    BY <1>6, WriteSynced DEF LoadSync
  <2> QED BY <2>1, <1>0 DEF RestAt, Rested
<1>7. CASE Refresh
  <2>1. pc = "work" /\ ForgetCommand /\ UNCHANGED <<ended, reg>>
    BY <1>7 DEF Refresh, Working, Done
  <2> QED BY <2>1, <1>0, RestEnd
<1> QED BY <1>1, <1>2, <1>3, <1>4, <1>5, <1>6, <1>7 DEF Load

(* The timer chooses devices whose last lease ended long ago. *)
LEMMA RestIdle == IInv /\ RestOK /\ Idle => RestOK'
<1> SUFFICES ASSUME IInv, RestOK, Idle, NEW a \in Aliases PROVE RestAt(a)'
  BY DEF RestOK
<1> USE DEF disk, history, Goto, Unlinking
<1>0. TypeOK /\ RestAt(a)
  BY DEF IInv, RestOK
<1>1. ASSUME NEW b \in Aliases, ReclaimSkip(b) \/ ReclaimErase(b) \/ ReclaimFails(b)
      PROVE  RestAt(a)'
  <2>1. /\ pc = "reclaim" /\ pc' = "reclaim" /\ UNCHANGED <<reg, ended>>
    BY <1>1 DEF ReclaimSkip, ReclaimErase, ReclaimFails, Visit, Erase
  <2>2. mem'[a].rest = mem[a].rest
    BY <1>0, <1>1, WriteErased, WriteBroken DEF ReclaimSkip, ReclaimErase, ReclaimFails
  <2> QED BY <2>1, <2>2, <1>0, RestQuiet
<1>2. ASSUME NEW b \in Aliases, IdleShutdown(b) PROVE RestAt(a)'
  BY <1>0, <1>2 DEF IdleShutdown, IdleStep, RestAt, Rested
<1>3. ASSUME NEW b \in Aliases, IdleShutdownFails(b) PROVE RestAt(a)'
  <2>1. /\ pc = "idle" /\ pc' = "idle" /\ todo' = todo \ {b} /\ reg' = mem'
        /\ UNCHANGED <<cmd, ended>>
    BY <1>3 DEF IdleShutdownFails, IdleStep, Persist
  <2>2. mem'[a].rest = mem[a].rest
    BY <1>0, <1>3, WriteBroken DEF IdleShutdownFails, Persist
  <2> QED BY <1>0, <2>1, <2>2 DEF RestAt, Rested
<1>4. CASE ReclaimEnd
  <2>1. /\ pc = "reclaim" /\ reg' = mem /\ ended' = ended
        /\ \/ ForgetCommand
           \/ mem' = mem /\ pc' = "record"
           \/ mem' = mem /\ pc' = "idle" /\ todo' = {b \in Aliases : IdleCandidate(b)}
    BY <1>4 DEF ReclaimEnd, DoneWriting, Persist
  <2> QED BY <2>1, <1>0, RestEnd DEF RestAt, Rested, IdleCandidate
<1>5. CASE IdleEnd
  <2>1. pc = "idle" /\ reg' = mem /\ ended' = ended /\ ForgetCommand
    BY <1>5 DEF IdleEnd, DoneWriting
  <2> QED BY <2>1, <1>0, RestEnd
<1> QED BY <1>1, <1>2, <1>3, <1>4, <1>5 DEF Idle

(* An acquire ends no lease that was handed out. *)
LEMMA RestAcquire == IInv /\ OwnLease /\ RestOK /\ Acquire => RestOK'
<1> SUFFICES ASSUME IInv, OwnLease, RestOK, Acquire, NEW a \in Aliases PROVE RestAt(a)'
  BY DEF RestOK
<1> USE DEF disk, history, Goto, Unlinking
<1>0. /\ TypeOK /\ RestAt(a)
      /\ pc \in AcquireControl => cmd.kind = "acquire" /\ cmd.alias \in Aliases /\ cmd.lease \in Leases
  BY DEF IInv, RestOK, CommandOK
<1>1. CASE \/ AcquireSelect \/ AcquireRecord \/ AcquireNoReset
           \/ AcquireResetDone \/ AcquireBootDone \/ AcquireRollback
  <2>1. /\ pc \in {"work", "record", "reset", "resetDone", "bootDone", "rollback"}
        /\ pc' \in {"reclaim", "activate", "boot", "return", "rollbackUnlink"}
        /\ reg' \in {reg, mem} /\ UNCHANGED <<mem, ended>>
    BY <1>1 DEF AcquireSelect, Working, AcquireRecord, AcquireNoReset, AcquireResetDone,
                AcquireBootDone, AcquireRollback, Persist
  <2> QED BY <2>1, <1>0, RestQuiet
<1>2. CASE AcquireActivate \/ AcquireReset \/ AcquireBoot \/ AcquireFails
  <2>1. /\ pc \in {"activate", "reset", "resetDone", "boot", "bootDone"}
        /\ pc' \in {"reset", "resetDone", "return", "bootDone", "rollback"}
        /\ reg' \in {reg, mem'} /\ ended' = ended /\ cmd.alias \in Aliases
    BY <1>0, <1>2 DEF AcquireActivate, AcquireReset, AcquireBoot, AcquireFails, Persist, Erase,
                      AcquireControl
  <2>2. mem'[a].rest = mem[a].rest
    <3>1. CASE AcquireActivate
      BY <2>1, <3>1, <1>0, WriteActive DEF AcquireActivate, Persist
    <3>2. CASE AcquireReset
      BY <2>1, <3>2, <1>0, WriteErased DEF AcquireReset
    <3>3. CASE AcquireBoot
      BY <2>1, <3>3, <1>0, WriteHealthy DEF AcquireBoot
    <3>4. CASE AcquireFails
      BY <2>1, <3>4, <1>0, WriteFailed
    <3> QED BY <1>2, <3>1, <3>2, <3>3, <3>4
  <2> QED BY <2>1, <2>2, <1>0, RestQuiet
<1>3. CASE AcquireRejected \/ AcquireReturn \/ AcquireRollbackFails
  <2>1. /\ pc \in {"work", "return", "rollback", "rollbackUnlink"} /\ ForgetCommand
        /\ UNCHANGED <<reg, ended>>
    BY <1>3 DEF AcquireRejected, AcquireReturn, AcquireRollbackFails, Working, Done
  <2> QED BY <2>1, <1>0, RestEnd
<1>4. CASE AcquireActivateFails \/ AcquireRolledBack
  <2>1. /\ pc \in {"activate", "rollbackUnlink"} /\ RemoveFile(cmd.lease) /\ ForgetCommand
        /\ reg' = reg /\ cmd.lease \notin handed
    BY <1>0, <1>4 DEF AcquireActivateFails, AcquireRolledBack, AcquireControl, OwnLease
  <2>2. ended' = ended
    BY <2>1 DEF RemoveFile
  <2> QED BY <2>1, <2>2, <1>0, RestEnd
<1> QED BY <1>1, <1>2, <1>3, <1>4 DEF Acquire

(* The end of a lease is noted before its file is removed. *)
LEMMA RestReleasing ==
  ASSUME TypeOK, NEW a \in Aliases, RestAt(a), pc \notin {"free", "load"},
         pc' \in Unlinking, cmd.alias \in Aliases, UNCHANGED <<ended, cmd>>,
         Persist(Change(mem, cmd.alias, Released(mem[cmd.alias]))),
         pc' = "unlink" => undo' = mem
  PROVE  RestAt(a)'
<1>1. IF a = cmd.alias THEN mem'[a].rest = "fresh" ELSE mem'[a] = mem[a]
  BY WriteReleased DEF Persist
<1>2. reg' = mem' /\ pc' \notin {"free", "load", "loadUnlink", "idle"}
  BY DEF Persist, Unlinking
<1> QED BY <1>1, <1>2 DEF RestAt, Rested

(* Its file goes. *)
LEMMA RestGone ==
  ASSUME IInv, OwnLease, NEW a \in Aliases, RestAt(a), pc \in Unlinking,
         RemoveFile(cmd.lease), UNCHANGED reg,
         ForgetCommand \/ (pc' \in {"reclaim", "work"} /\ UNCHANGED mem)
  PROVE  RestAt(a)'
<1>0. TypeOK /\ cmd.lease \in Leases /\ On(cmd.lease, cmd.alias)
  BY DEF IInv, OwnLease, Only
<1>1. a # cmd.alias => ended'[a] = ended[a]
  BY <1>0, RemoveUsed DEF On
<1>2. a = cmd.alias => mem[a].rest = "fresh"
  BY DEF RestAt
<1>3. reg[a].rest = mem[a].rest /\ Rested(mem[a], a)
  BY DEF RestAt, Unlinking
<1> QED BY <1>1, <1>2, <1>3 DEF RestAt, Rested, ForgetCommand, Unlinking

(* Release, containment, pins and the lifecycle commands. *)
LEMMA RestOthers ==
  IInv /\ OwnLease /\ RestOK /\ (EndLease \/ PinCommand \/ LifecycleStep) => RestOK'
<1> SUFFICES ASSUME IInv, OwnLease, RestOK, EndLease \/ PinCommand \/ LifecycleStep,
                    NEW a \in Aliases
             PROVE  RestAt(a)'
  BY DEF RestOK
<1> USE DEF disk, history, Goto, Unlinking
<1>0. /\ TypeOK /\ RestAt(a)
      /\ cmd.kind \in Lifecycle \cup LeaseKinds \/ pc = "repair" => cmd.alias \in Aliases
  BY DEF IInv, RestOK, CommandOK
<1>1. CASE ReleaseLease \/ Contain \/ Revoke
  <2>1. cmd.alias \in Aliases
    BY <1>0, <1>1 DEF ReleaseLease, Contain, Revoke, Working, Lifecycle, LeaseKinds
  <2> QED BY <2>1, <1>0, <1>1, RestReleasing DEF ReleaseLease, Contain, Revoke, Working
<1>2. CASE ReleaseUnlink \/ ContainUnlink \/ RevokeUnlink
  BY <1>0, <1>2, RestGone DEF ReleaseUnlink, ContainUnlink, RevokeUnlink
<1>3. CASE ReleaseRestore
  BY <1>0, <1>3 DEF ReleaseRestore, DoneWriting, ForgetCommand, RestAt, Rested
<1>4. CASE \/ Register \/ LeaseCommandEnds \/ Pin \/ Unpin \/ PinRejected
           \/ LifecycleRejected \/ EraseFails \/ LifecycleWrite
  <2>1. /\ pc \in {"work", "write"} /\ ForgetCommand /\ ended' = ended /\ reg' \in {reg, mem}
    BY <1>4 DEF Register, LeaseCommandEnds, Pin, Unpin, PinRejected, LifecycleRejected,
                EraseFails, LifecycleWrite, Working, Done, DoneWriting
  <2> QED BY <2>1, <1>0, RestEnd
<1>5. CASE BootOrShutdown \/ RepairDevice \/ EraseDevice \/ RepairStart
  <2>1. /\ pc \in {"work", "repair"} /\ pc' \in {"write", "repair"} /\ reg' \in {reg, mem'}
        /\ ended' = ended /\ cmd.alias \in Aliases
    BY <1>0, <1>5 DEF BootOrShutdown, RepairDevice, EraseDevice, RepairStart, Working, Lifecycle,
                      Persist, Erase
  <2>2. mem'[a].rest = mem[a].rest
    <3>1. CASE BootOrShutdown \/ RepairDevice
      BY <3>1, <2>1, <1>0, WriteHealthy DEF BootOrShutdown, RepairDevice
    <3>2. CASE EraseDevice
      BY <3>2, <2>1, <1>0, WriteUnused DEF EraseDevice
    <3>3. CASE RepairStart
      BY <3>3, <2>1, <1>0, WriteRepairing DEF RepairStart, Persist
    <3> QED BY <1>5, <3>1, <3>2, <3>3
  <2> QED BY <2>1, <2>2, <1>0, RestQuiet
<1>6. CASE RepairFails
  <2>1. /\ pc = "repair" /\ ForgetCommand /\ ended' = ended /\ cmd.alias \in Aliases
        /\ reg' = Change(mem, cmd.alias, Broken(mem[cmd.alias], "repair-failed"))
    BY <1>0, <1>6 DEF RepairFails, DoneWriting
  <2>2. reg'[a].rest = mem[a].rest
    <3>1. reg'[cmd.alias].rest = mem[cmd.alias].rest
      BY <2>1, <1>0, WriteBroken
    <3>2. a # cmd.alias => reg'[a] = mem[a]
      BY <2>1, <1>0, ChangeAt DEF TypeOK
    <3> QED BY <3>1, <3>2
  <2> QED BY <2>1, <2>2, <1>0, RestEnd
<1> QED BY <1>1, <1>2, <1>3, <1>4, <1>5, <1>6 DEF EndLease, PinCommand, LifecycleStep

(* A grace period ends for the entry and for the lease alike. *)
LEMMA RestEnvironment == MaxCrashes = 0 /\ IInv /\ RestOK /\ Environment => RestOK'
<1> SUFFICES ASSUME MaxCrashes = 0, IInv, RestOK, Environment, NEW a \in Aliases PROVE RestAt(a)'
  BY DEF RestOK
<1> USE DEF disk, local, history
<1>0. TypeOK /\ RestAt(a)
  BY DEF IInv, RestOK
<1>1. CASE \/ \E o \in Owners : OwnerDies(o) \/ OwnerStarts(o)
           \/ \E b \in Aliases : DeviceLost(b)
  BY <1>0, <1>1 DEF OwnerDies, OwnerStarts, DeviceLost, RestAt, Rested
<1>2. ASSUME NEW b \in Aliases, GraceEnds(b) PROVE RestAt(a)'
  <2>1. /\ reg[a] \in Entry /\ pc = "free" /\ pc' = "free"
        /\ a # b => reg'[a] = reg[a] /\ ended'[a] = ended[a]
        /\ a = b => ended'[a] # "fresh"
    BY <1>2, <1>0 DEF GraceEnds, TypeOK, Registry
  <2> QED BY <1>0, <2>1 DEF RestAt, Rested, Unlinking
<1>3. ~Crash
  BY <1>0 DEF Crash, TypeOK
<1> QED BY <1>1, <1>2, <1>3 DEF Environment

(* What the registry calls long ago is long ago, unless a command dies. *)
LEMMA RestStep ==
  MaxCrashes = 0 /\ IInv /\ OwnLease /\ HandedOK /\ RestOK /\ [Next]_vars => RestOK'
<1>1. ASSUME RestOK, UNCHANGED vars PROVE RestOK'
  BY <1>1 DEF vars, disk, device, history, local, RestOK, RestAt, Rested
<1> QED BY <1>1, RestRequest, RestLoad, RestIdle, RestAcquire, RestOthers, RestEnvironment
        DEF Next, Command

(* The timer's shutdowns. *)
LEMMA TimerStep ==
  ASSUME [Next]_vars, pc = "idle", NEW a, a \in booted, a \notin booted', a \in avail'
  PROVE  a \in todo
<1> USE DEF disk, device, history, local, Goto, Done, DoneWriting
<1>1. CASE Request \/ Load
  BY <1>1 DEF Request, StartAcquire, StartLease, StartLifecycle, StartPin, StartUnpin,
              StartPlain, StartCleanup, Start, Load, LoadLeftover, LoadKeep, LoadStale,
              LoadContain, Examined, LoadUnlink, LoadSync, Refresh, Working
<1>2. CASE Idle
  BY <1>2 DEF Idle, ReclaimSkip, ReclaimErase, ReclaimFails, Visit, IdleShutdown, IdleStep,
              IdleShutdownFails, ReclaimEnd, IdleEnd
<1>3. CASE Acquire
  BY <1>3 DEF Acquire, AcquireSelect, AcquireRejected, AcquireRecord, AcquireActivate,
              AcquireActivateFails, AcquireNoReset, AcquireReset, AcquireResetDone,
              AcquireBoot, AcquireBootDone, AcquireReturn, AcquireFails, AcquireRollback,
              AcquireRolledBack, AcquireRollbackFails, Working
<1>4. CASE EndLease \/ PinCommand \/ LifecycleStep
  BY <1>4 DEF EndLease, ReleaseLease, ReleaseUnlink, ReleaseRestore, Contain, ContainUnlink,
              Register, LeaseCommandEnds, PinCommand, Pin, Unpin, PinRejected,
              LifecycleStep, LifecycleRejected, BootOrShutdown, EraseDevice, EraseFails,
              LifecycleWrite, Revoke, RevokeUnlink, RepairStart, RepairDevice, RepairFails, Working
<1>5. CASE Environment
  BY <1>5 DEF Environment, OwnerDies, OwnerStarts, DeviceLost, GraceEnds, Crash
<1>6. CASE UNCHANGED vars
  BY <1>6 DEF vars
<1> QED BY <1>1, <1>2, <1>3, <1>4, <1>5, <1>6 DEF Next, Command

(* Where no command dies, the timer's shutdown waits until the grace period after
   the last lease is over. *)
THEOREM GraceKept == ASSUME MaxCrashes = 0 PROVE Spec => IdleGrace
<1> DEFINE I == Accord /\ RestOK
           A == \A a \in avail' : pc = "idle" /\ cmd.kind = "idle" /\ a \in booted \ booted' =>
                  ended[a] # "fresh"
<1>1. Init => I
  <2> SUFFICES ASSUME Init PROVE RestOK
    BY AccordInit
  <2>1. \A a \in Aliases : ended[a] # "fresh"
    BY DEF Init
  <2> QED BY <2>1 DEF Init, RestOK, RestAt, Rested, Unlinking
<1>2. I /\ [Next]_vars => I'
  BY AccordNext, RestStep DEF Accord
<1>3. I /\ [Next]_vars => [A]_vars
  <2> SUFFICES ASSUME I, [Next]_vars, NEW a \in avail', pc = "idle", cmd.kind = "idle",
                      a \in booted \ booted'
               PROVE  ended[a] # "fresh"
    OBVIOUS
  <2>1. a \in todo
    BY TimerStep
  <2>2. a \in Aliases
    BY DEF Accord, IInv, TypeOK
  <2> QED BY <2>1, <2>2 DEF RestOK, RestAt
<1> QED BY <1>1, <1>2, <1>3, PTL DEF Spec, IdleGrace

=============================================================================
