---------------------------- MODULE HostSetup_proofs ----------------------------
(***************************************************************************)
(* Proofs about HostSetup, for any aliases, devices, commands and number   *)
(* of faults: what the rollback of a setup or an init deletes, what the    *)
(* rollback of a setup leaves, and the types.                              *)
(***************************************************************************)
EXTENDS HostSetup, WellFoundedInduction, TLAPS

(* Where a command makes devices or undoes them. *)
Rolling == {"devices", "rename", "list", "undo"}

(* The locks and what goes with them. *)
HolderOK ==
  /\ pc # "none" => holder \in Setups
  /\ holder = None => ids = {} /\ todo = {} /\ made = {}
  /\ pc = "rename" => target \in Aliases

(* The devices, and those the attempt made. *)
DeviceOK ==
  /\ alive \subseteq Devices /\ made \subseteq alive
  /\ name \in [Devices -> Aliases \cup Setups \cup {None}]
  /\ DOMAIN chosen = Aliases

(* An init undoes a write of host.json that has taken effect. *)
Late == op # "setup" /\ pc = "undo" /\ host = chosen /\ todo \subseteq ids

(* What the attempt made or has to delete is younger than the attempt, and the devices
   of the host configuration are not, unless the attempt has replaced it. *)
ConfigOK ==
  pc \in Rolling =>
    /\ op = "setup" => host = None
    /\ (ids \cup todo) \cap base = {}
    /\ Late \/ (Configured \cap alive \subseteq base /\ Configured \cap (ids \cup todo) = {})

(* What a setup takes for its own it has made. *)
OwnOK ==
  pc \in Rolling /\ op = "setup" =>
    /\ (ids \cup todo) \cap alive \subseteq made
    /\ \A d \in alive \ base : name[d] = holder => d \in made

(* What a setup has made it takes for its own. *)
LeftOK ==
  op = "setup" =>
    /\ pc \in {"devices", "rename", "list"} => made \subseteq Attributed
    /\ pc = "rename" => chosen[target] \in ids
    /\ pc = "undo" /\ ~leaky => made \subseteq todo

(* The inductive invariant. *)
IInv == HolderOK /\ DeviceOK /\ ConfigOK /\ OwnOK /\ LeftOK

-----------------------------------------------------------------------------
(* A first attempt has not begun. *)
LEMMA InitInv == Init => IInv
BY SetupAssumption
   DEF Init, IInv, HolderOK, DeviceOK, ConfigOK, Late, OwnOK, LeftOK, Rolling, Nothing

(* A new device has no history: nothing refers to its identifier. *)
LEMMA NewDevice ==
  ASSUME NEW d \in Devices, NEW n, Make(d, n)
  PROVE  /\ d \notin alive \cup base \cup ids \cup todo \cup Configured
         /\ alive' = alive \cup {d} /\ name' = [name EXCEPT ![d] = n]
BY DEF Make, New, Unused

(* The locks are free: no attempt is under way. *)
LEMMA UnlockInv ==
  ASSUME DeviceOK, Unlock, UNCHANGED device
  PROVE  IInv'
BY SetupAssumption
   DEF Unlock, device, IInv, HolderOK, DeviceOK, ConfigOK, Late, OwnOK, LeftOK, Rolling, Nothing

(* An attempt begins with the devices that are there. *)
LEMMA BeginInv ==
  ASSUME IInv, NEW s \in Setups, holder = None, Provision(s, op'), op' = "setup" => host = None
  PROVE  IInv'
<1> USE DEF Provision, device
<1>1. /\ ids = {} /\ todo = {} /\ made = {} /\ DeviceOK
  BY DEF IInv, HolderOK
<1>2. /\ holder' = s /\ pc' = "devices" /\ base' = alive
      /\ UNCHANGED <<host, alive, name, ids, chosen, target, todo, made>>
  OBVIOUS
<1>3. HolderOK' /\ DeviceOK'
  BY <1>1, <1>2, SetupAssumption DEF HolderOK, DeviceOK
<1>4. ConfigOK'
  BY <1>1, <1>2 DEF ConfigOK, Late, Configured
<1>5. OwnOK' /\ LeftOK'
  BY <1>1, <1>2 DEF OwnOK, LeftOK
<1> QED BY <1>3, <1>4, <1>5 DEF IInv

(* The steps around an attempt: of other commands, of the service, and those that
   end it. *)
Calm == UNCHANGED <<host, alive, name, holder, pc, op, base, ids, chosen, target, todo, made, leaky>>

(* A step that is none of an attempt's own and makes or deletes no device leaves the
   attempt alone, begins it or ends it. *)
LEMMA Steps ==
  ASSUME [Next]_vars
  PROVE  \/ Calm
         \/ Unlock /\ UNCHANGED device
         \/ \E s \in Setups : Apply(s) \/ StartInit(s)
         \/ \E a \in Aliases : Reuse(a) \/ CreateFails(a) \/ \E d \in Devices : Create(a, d)
         \/ Rename \/ RenameFails \/ Interrupted \/ Commit \/ CommitFails \/ CommitFailsLate
         \/ List \/ Retired
         \/ \E d \in Devices : Retire(d) \/ Undo(d) \/ UserDeletes(d)
         \/ \E d \in Devices, a \in Aliases : UserMakes(d, a)
<1> USE DEF Calm, device, job, disk, app, stages, Fine, Fault
<1>1. ASSUME NEW s \in Setups, Command(s), ~Apply(s) PROVE Calm
  BY <1>1 DEF Command, Confirm, ApplyStale, ApplyConfigured, StartService, Snapshot, Health,
              StageFails, Serves
<1>2. CASE ServiceDies \/ OtherCommand \/ UNCHANGED vars
  BY <1>2 DEF ServiceDies, OtherCommand, Serves, vars
<1>3. CASE Loaded \/ Undone \/ LoadFails
  BY <1>3 DEF Loaded, Undone, LoadFails
<1>4. ASSUME NEW s \in Setups, StageFails(s) PROVE Calm
  BY <1>4 DEF StageFails
<1>5. ASSUME NEW s \in Setups, Crash(s) PROVE Calm \/ (Unlock /\ UNCHANGED device)
  BY <1>5 DEF Crash
<1> QED BY <1>1, <1>2, <1>3, <1>4, <1>5 DEF Next, Provisioning, Faults, Environment, Command


-----------------------------------------------------------------------------
(* The invariant is kept: one lemma for each group of steps. *)

(* Steps around an attempt. *)
LEMMA CalmInv == ASSUME IInv, Calm PROVE IInv'
BY DEF Calm, IInv, HolderOK, DeviceOK, ConfigOK, Late, OwnOK, LeftOK, Rolling, Configured, Attributed

(* The attempt takes a device that is there. *)
LEMMA ReuseInv == ASSUME IInv, NEW a \in Aliases, Reuse(a) PROVE IInv'
<1> USE DEF Reuse, At, Missing, device, IInv
<1>1. /\ pc = "devices" /\ DOMAIN chosen' = DOMAIN chosen
      /\ UNCHANGED <<host, alive, name, holder, pc, op, base, ids, target, todo, made, leaky>>
  BY DEF disk
<1>2. HolderOK' /\ DeviceOK'
  BY <1>1 DEF HolderOK, DeviceOK
<1>3. ConfigOK' /\ OwnOK' /\ LeftOK'
  BY <1>1 DEF ConfigOK, Late, OwnOK, LeftOK, Rolling, Configured, Attributed
<1> QED BY <1>2, <1>3

(* The attempt makes a device: it is new, and the attempt's. *)
LEMMA CreateInv == ASSUME IInv, NEW a \in Aliases, NEW d \in Devices, Create(a, d) PROVE IInv'
<1> USE DEF Create, At, Missing, IInv
<1> DEFINE n == IF op = "setup" THEN holder ELSE a
<1>1. /\ d \notin alive \cup base \cup ids \cup todo \cup Configured
      /\ alive' = alive \cup {d} /\ name' = [name EXCEPT ![d] = n]
  BY NewDevice
<1>2. /\ pc = "devices" /\ DOMAIN chosen' = DOMAIN chosen /\ holder \in Setups
      /\ ids' = ids \cup {d} /\ made' = made \cup {d}
      /\ UNCHANGED <<host, holder, op, base, todo, leaky>>
  BY DEF disk, HolderOK
<1>3. \/ op = "setup" /\ pc' = "rename" /\ target' = a /\ chosen'[a] = d
      \/ op # "setup" /\ pc' = "devices" /\ target' = target
  BY DEF DeviceOK
<1>4. HolderOK' /\ DeviceOK'
  BY <1>1, <1>2, <1>3, SetupAssumption DEF HolderOK, DeviceOK
<1>5. ConfigOK' /\ OwnOK'
  BY <1>1, <1>2, <1>3 DEF ConfigOK, Late, OwnOK, DeviceOK, Rolling, Configured
<1>6. LeftOK'
  BY <1>1, <1>2, <1>3 DEF LeftOK, DeviceOK, Attributed
<1> QED BY <1>4, <1>5, <1>6

(* A call that failed may have made a device: it has the attempt's name. *)
LEMMA CreateFailsInv == ASSUME IInv, NEW a \in Aliases, CreateFails(a) PROVE IInv'
<1> USE DEF CreateFails, At, Missing, IInv
<1>1. /\ pc = "devices" /\ pc' = "list" /\ holder \in Setups
      /\ UNCHANGED <<host, holder, op, base, chosen, target, todo, leaky>>
  BY DEF disk, HolderOK
<1>2. CASE UNCHANGED <<device, ids, made>>
  <2>1. UNCHANGED <<alive, name, ids, made>>
    BY <1>2 DEF device
  <2>2. HolderOK' /\ DeviceOK'
    BY <1>1, <2>1 DEF HolderOK, DeviceOK
  <2>3. ConfigOK' /\ OwnOK' /\ LeftOK'
    BY <1>1, <2>1 DEF ConfigOK, Late, OwnOK, LeftOK, Rolling, Configured, Attributed
  <2> QED BY <2>2, <2>3
<1>3. CASE ~UNCHANGED <<device, ids, made>>
  <2> DEFINE n == IF op = "setup" THEN holder ELSE a
  <2>1. PICK d \in Devices : /\ Make(d, n) /\ made' = made \cup {d}
                             /\ ids' = ids \/ (op = "setup" /\ ids' = ids \cup {d})
    BY <1>3
  <2>2. /\ d \notin alive \cup base \cup ids \cup todo \cup Configured
        /\ alive' = alive \cup {d} /\ name' = [name EXCEPT ![d] = n]
    BY <2>1, NewDevice
  <2>3. HolderOK' /\ DeviceOK'
    BY <1>1, <2>1, <2>2, SetupAssumption DEF HolderOK, DeviceOK
  <2>4. ConfigOK' /\ OwnOK'
    BY <1>1, <2>1, <2>2 DEF ConfigOK, Late, OwnOK, DeviceOK, Rolling, Configured
  <2>5. LeftOK'
    BY <1>1, <2>1, <2>2 DEF LeftOK, DeviceOK, Attributed
  <2> QED BY <2>3, <2>4, <2>5
<1> QED BY <1>2, <1>3

(* The device under its final name is still among those whose creation returned. *)
LEMMA RenameInv == ASSUME IInv, Rename \/ RenameFails PROVE IInv'
<1> USE DEF Rename, RenameFails, At, IInv
<1>1. /\ pc = "rename" /\ pc' \in {"devices", "list"} /\ holder \in Setups /\ target \in Aliases
      /\ UNCHANGED <<host, alive, holder, op, base, ids, chosen, todo, made, leaky>>
      /\ name' = name \/ name' = [name EXCEPT ![chosen[target]] = target]
  BY DEF disk, HolderOK, Renamed
<1>2. HolderOK' /\ DeviceOK'
  BY <1>1, SetupAssumption DEF HolderOK, DeviceOK
<1>3. ConfigOK'
  BY <1>1 DEF ConfigOK, Late, Rolling, Configured
<1>4. \A d \in Devices : name'[d] = name[d] \/ (d = chosen[target] /\ name'[d] = target /\ target # holder)
  BY <1>1, SetupAssumption DEF DeviceOK
<1>5. OwnOK'
  BY <1>1, <1>4 DEF OwnOK, DeviceOK, Rolling
<1>6. LeftOK'
  BY <1>1, <1>4 DEF LeftOK, DeviceOK, Attributed
<1> QED BY <1>2, <1>3, <1>5, <1>6

(* An attempt is interrupted, commits, or does not get that far. *)
LEMMA DecideInv == ASSUME IInv, Interrupted \/ Commit \/ CommitFails PROVE IInv'
<1> USE DEF At, device, disk, IInv, Late
<1>1. /\ pc = "devices" /\ holder \in Setups
      /\ UNCHANGED <<alive, name, holder, op, base, target, made, leaky>>
      /\ chosen' = chosen
  BY DEF Interrupted, Commit, CommitFails, HolderOK
<1>2. CASE Interrupted \/ (CommitFails /\ op = "setup")
  <2>1. pc' = "list" /\ UNCHANGED <<host, ids, todo>>
    BY <1>2 DEF Interrupted, CommitFails
  <2>2. HolderOK' /\ DeviceOK'
    BY <1>1, <2>1 DEF HolderOK, DeviceOK
  <2> QED BY <1>1, <2>1, <2>2 DEF ConfigOK, Late, OwnOK, LeftOK, Rolling, Configured, Attributed
<1>3. CASE CommitFails /\ op # "setup"
  <2>1. pc' = "undo" /\ todo' = ids /\ UNCHANGED <<host, ids>>
    BY <1>3 DEF CommitFails
  <2>2. HolderOK' /\ DeviceOK'
    BY <1>1, <2>1 DEF HolderOK, DeviceOK
  <2> QED BY <1>1, <1>3, <2>1, <2>2 DEF ConfigOK, Late, OwnOK, LeftOK, Rolling, Configured
<1>4. CASE Commit
  <2>1. pc' \in {"load", "retire"}
    BY <1>4 DEF Commit
  <2>2. HolderOK' /\ DeviceOK'
    BY <1>1, <2>1, SetupAssumption DEF HolderOK, DeviceOK
  <2> QED BY <1>1, <2>1, <2>2 DEF ConfigOK, Late, OwnOK, LeftOK, Rolling
<1> QED BY <1>2, <1>3, <1>4

(* A write of host.json that fails after it took effect. *)
LEMMA LateInv == ASSUME IInv, CommitFailsLate PROVE IInv'
<1>1. CASE op = "setup"
  BY <1>1, UnlockInv DEF CommitFailsLate, IInv
<1>2. CASE op # "setup"
  <2>1. /\ pc = "devices" /\ pc' = "undo" /\ host' = chosen /\ todo' = ids
        /\ UNCHANGED <<alive, name, holder, op, base, ids, chosen, target, made, leaky>>
    BY <1>2 DEF CommitFailsLate, device
  <2>2. HolderOK' /\ DeviceOK'
    BY <2>1, SetupAssumption DEF IInv, HolderOK, DeviceOK
  <2>3. ConfigOK'
    BY <1>2, <2>1 DEF IInv, ConfigOK, Late, Rolling
  <2>4. OwnOK' /\ LeftOK'
    BY <1>2, <2>1 DEF OwnOK, LeftOK
  <2> QED BY <2>2, <2>3, <2>4 DEF IInv
<1> QED BY <1>1, <1>2

(* The rollback lists what it is going to delete. *)
LEMMA ListInv == ASSUME IInv, List PROVE IInv'
<1> USE DEF List, At, device, disk, IInv
<1>1. /\ pc = "list" /\ pc' = "undo" /\ holder \in Setups
      /\ UNCHANGED <<host, alive, name, holder, op, base, ids, chosen, target, made>>
      /\ (todo' = Attributed /\ leaky' = leaky) \/ (todo' = ids /\ leaky')
  BY DEF HolderOK
<1>2. HolderOK' /\ DeviceOK'
  BY <1>1, SetupAssumption DEF HolderOK, DeviceOK
<1>3. ConfigOK'
  BY <1>1 DEF ConfigOK, Late, Rolling, Configured, Attributed
<1>4. OwnOK'
  BY <1>1 DEF OwnOK, Rolling, Attributed
<1>5. LeftOK'
  BY <1>1 DEF LeftOK
<1> QED BY <1>2, <1>3, <1>4, <1>5

(* A device that is to be deleted goes, or not. *)
LEMMA UndoInv == ASSUME IInv, NEW d \in Devices, Undo(d) PROVE IInv'
<1> USE DEF Undo, At, Delete, device, disk, IInv
<1>1. /\ pc = "undo" /\ pc' = "undo" /\ holder \in Setups /\ todo' = todo \ {d}
      /\ UNCHANGED <<host, holder, op, base, ids, chosen, target>>
      /\ \/ alive' = alive \ {d} /\ name' = [name EXCEPT ![d] = None] /\ made' = made \ {d}
            /\ leaky' = leaky
         \/ UNCHANGED <<alive, name, made>> /\ leaky'
  BY DEF HolderOK
<1>2. HolderOK' /\ DeviceOK'
  BY <1>1, SetupAssumption DEF HolderOK, DeviceOK
<1>3. ConfigOK'
  BY <1>1 DEF ConfigOK, Late, Rolling, Configured
<1>4. OwnOK'
  BY <1>1, SetupAssumption DEF OwnOK, DeviceOK, Rolling
<1>5. LeftOK'
  BY <1>1 DEF LeftOK
<1> QED BY <1>2, <1>3, <1>4, <1>5

(* The devices that a committed init has replaced. *)
LEMMA RetireInv == ASSUME IInv, Retired \/ \E d \in Devices : Retire(d) PROVE IInv'
<1> USE DEF IInv
<1>1. CASE Retired
  <2>1. CASE ids = {}
    BY <1>1, <2>1 DEF Retired, device, stages, job, HolderOK, DeviceOK, ConfigOK, Late, OwnOK, LeftOK,
                      Rolling
  <2>2. CASE ids # {}
    BY <1>1, <2>2, UnlockInv DEF Retired
  <2> QED BY <2>1, <2>2
<1>2. ASSUME NEW d \in Devices, Retire(d) PROVE IInv'
  <2>1. /\ pc = "retire" /\ pc' = "retire" /\ holder' = holder /\ holder \in Setups
        /\ target' = target /\ chosen' = chosen
    BY <1>2 DEF Retire, At, HolderOK
  <2>2. \/ alive' = alive \ {d} /\ name' = [name EXCEPT ![d] = None] /\ made' = made \ {d}
        \/ UNCHANGED <<alive, name, made>>
    BY <1>2 DEF Retire, Delete, device
  <2>3. HolderOK' /\ DeviceOK'
    BY <2>1, <2>2, SetupAssumption DEF HolderOK, DeviceOK
  <2> QED BY <2>1, <2>3 DEF ConfigOK, Late, OwnOK, LeftOK, Rolling
<1> QED BY <1>1, <1>2

(* The user's devices are older, or have names that no attempt gives. *)
LEMMA UserInv ==
  ASSUME IInv, NEW d \in Devices, UserDeletes(d) \/ \E a \in Aliases : UserMakes(d, a)
  PROVE  IInv'
<1> USE DEF job, disk, IInv
<1>1. CASE UserDeletes(d)
  <2>1. /\ alive' = alive \ {d} /\ name' = [name EXCEPT ![d] = None] /\ made' = made \ {d}
        /\ UNCHANGED <<host, holder, pc, op, base, ids, chosen, target, todo, leaky>>
    BY <1>1 DEF UserDeletes, Delete
  <2>2. HolderOK' /\ DeviceOK'
    BY <2>1, SetupAssumption DEF HolderOK, DeviceOK
  <2>3. ConfigOK'
    BY <2>1 DEF ConfigOK, Late, Rolling, Configured
  <2>4. OwnOK'
    BY <2>1 DEF OwnOK, DeviceOK, Rolling
  <2>5. LeftOK'
    BY <2>1 DEF LeftOK, DeviceOK, Attributed
  <2> QED BY <2>2, <2>3, <2>4, <2>5
<1>2. ASSUME NEW a \in Aliases, UserMakes(d, a) PROVE IInv'
  <2>1. UNCHANGED <<host, holder, pc, op, base, ids, chosen, target, todo, made, leaky>>
    BY <1>2 DEF UserMakes
  <2>2. /\ d \notin alive \cup base \cup ids \cup todo \cup Configured
        /\ alive' = alive \cup {d} /\ name' = [name EXCEPT ![d] = a]
    BY <1>2, NewDevice DEF UserMakes
  <2>3. HolderOK' /\ DeviceOK'
    BY <2>1, <2>2, SetupAssumption DEF HolderOK, DeviceOK
  <2>4. ConfigOK'
    BY <2>1, <2>2 DEF ConfigOK, Late, Rolling, Configured
  <2>5. OwnOK'
    BY <2>1, <2>2, SetupAssumption DEF OwnOK, DeviceOK, HolderOK, Rolling
  <2>6. LeftOK'
    BY <2>1, <2>2 DEF LeftOK, DeviceOK, Attributed
  <2> QED BY <2>3, <2>4, <2>5, <2>6
<1> QED BY <1>1, <1>2

(* Every step keeps the invariant. *)
LEMMA NextInv == ASSUME IInv, [Next]_vars PROVE IInv'
<1>1. ASSUME NEW s \in Setups, Apply(s) \/ StartInit(s) PROVE IInv'
  BY <1>1, BeginInv DEF Apply, StartInit, Provision
<1>2. CASE Unlock /\ UNCHANGED device
  BY <1>2, UnlockInv DEF IInv
<1> QED BY <1>1, <1>2, Steps, CalmInv, ReuseInv, CreateInv, CreateFailsInv, RenameInv, DecideInv,
           LateInv, ListInv, UndoInv, RetireInv, UserInv

(* The invariant holds in every behaviour. *)
THEOREM Invariance == Spec => []IInv
BY InitInv, NextInv, PTL DEF Spec

-----------------------------------------------------------------------------
(* What the rollback of a failed setup or init deletes (rollbackCreatedSimulators) is
   younger than the attempt, of a setup only what it has made, and no device of the host
   configuration, unless an init's own write of it had taken effect. *)
THEOREM OthersSpared == Spec => OthersKept
<1> DEFINE Spared(d) == /\ d \notin base
                        /\ op = "setup" => d \in made \ Configured
                        /\ d \in Configured => host = chosen /\ d \in ids
           Kept == \A d \in alive \ alive' : pc = "undo" /\ todo' # todo => Spared(d)
<1>1. ASSUME IInv, [Next]_vars PROVE [Kept]_vars
  <2> SUFFICES ASSUME NEW d \in alive \ alive', pc = "undo", todo' # todo
               PROVE  Spared(d)
    OBVIOUS
  <2>1. CASE \E e \in Devices : Undo(e)
    <3>1. d \in todo
      BY <2>1 DEF Undo, Delete, device
    <3> QED BY <3>1, <1>1 DEF IInv, ConfigOK, Late, OwnOK, Rolling
  <2>2. CASE ~\E e \in Devices : Undo(e)
    <3>1. ~Calm /\ ~UNCHANGED device
      BY DEF Calm, device
    <3>2. ~\E e \in Devices : UserDeletes(e) \/ \E a \in Aliases : UserMakes(e, a)
      BY DEF UserDeletes, UserMakes, job
    <3> QED BY <1>1, <2>2, <3>1, <3>2, Steps
            DEF Apply, StartInit, Provision, Reuse, CreateFails, Create, Rename, RenameFails,
                Interrupted, Commit, CommitFails, CommitFailsLate, List, Retired, Retire, At
  <2> QED BY <2>1, <2>2
<1> QED BY <1>1, Invariance, PTL DEF Spec, OthersKept

(* When the rollback of a failed setup is through and has reported no failure, none of
   the devices that the attempt made is there any more. *)
THEOREM NothingLeft == Spec => NothingLeftBehind
<1> DEFINE Clean == op = "setup" /\ pc = "undo" /\ pc' = "none" /\ ~leaky /\ todo = {} => made = {}
<1>1. ASSUME IInv PROVE [Clean]_vars
  BY <1>1 DEF IInv, LeftOK
<1> QED BY <1>1, Invariance, PTL DEF Spec, NothingLeftBehind

-----------------------------------------------------------------------------
(* Types *)

(* Whoever has the locks is provisioning, and who waits for the locks or provisions by
   setup has a plan. *)
StageOK ==
  /\ holder # None => pc # "none" /\ at[holder] = "provisioning"
  /\ holder # None /\ op = "setup" => plan[holder] \in Plans
  /\ \A s \in Setups : at[s] = "confirmed" => plan[s] \in Plans

(* A set of numbers that is not empty has a least one. *)
LEMMA Least == ASSUME NEW S \in SUBSET Nat, S # {} PROVE \E d \in S : \A e \in S : d <= e
<1> DEFINE R == OpToRel(<, Nat)
<1>1. IsWellFoundedOn(R, Nat)
  BY NatLessThanWellFounded
<1>2. \E d \in S : \A e \in S : <<e, d>> \notin R
  BY <1>1, WFMin
<1>3. \A d, e \in Nat : d < e => <<d, e>> \in R
  BY DEF OpToRel
<1> HIDE DEF R
<1>4. PICK d \in S : \A e \in S : <<e, d>> \notin R
  BY <1>2
<1>5. ASSUME NEW e \in S PROVE d <= e
  <2>1. ~ (e < d) /\ d \in Nat /\ e \in Nat
    BY <1>3, <1>4
  <2> QED BY <2>1
<1> QED BY <1>5

(* What is reused is a device that is there. *)
LEMMA ReusableType == ASSUME TypeOK, NEW a \in Aliases PROVE Reusable(a) \in alive \cup {None}
<1>1. CASE Named(a) = {}
  BY <1>1 DEF Reusable
<1>2. CASE Named(a) # {}
  <2>1. Named(a) \in SUBSET Nat
    BY SetupAssumption DEF Named, TypeOK
  <2>2. \E d \in Named(a) : \A e \in Named(a) : d <= e
    BY <1>2, <2>1, Least
  <2>3. (CHOOSE d \in Named(a) : \A e \in Named(a) : d <= e) \in Named(a)
    BY <2>2
  <2> QED BY <1>2, <2>3 DEF Reusable, Named
<1> QED BY <1>1, <1>2

(* The plan that is confirmed is one. *)
LEMMA PlanType == ASSUME TypeOK PROVE Plan \in Plans
<1>1. CASE host = None
  <2>1. [a \in Aliases |-> Reusable(a)] \in [Aliases -> Devices \cup {None}]
    BY ReusableType DEF TypeOK
  <2> QED BY <1>1, <2>1 DEF Plan, Plans
<1>2. CASE host # None
  <2>1. host \in [Aliases -> Devices \cup {None}]
    BY <1>2 DEF TypeOK, Hosts
  <2> QED BY <1>2, <2>1 DEF Plan, Plans
<1> QED BY <1>1, <1>2

(* A command has ended. *)
LEMMA OutType ==
  ASSUME TypeOK, NEW s \in Setups, Out(s)
  PROVE  /\ at' = [at EXCEPT ![s] = "out"]
         /\ plan' \in [Setups -> Plans \cup {None}] /\ core' \in [Setups -> Hosts \cup {None}]
         /\ at' \in [Setups -> {"out", "confirmed", "provisioning", "service", "snapshot", "health"}]
         /\ \A t \in Setups : t # s => at'[t] = at[t] /\ plan'[t] = plan[t]
         /\ at'[s] = "out"
BY DEF Out, Stage, TypeOK

(* The invariant with the types. *)
Typed == TypeOK /\ StageOK

(* Nothing has begun. *)
LEMMA InitTyped == Init => Typed
<1> SUFFICES ASSUME Init PROVE Typed
  OBVIOUS
<1>1. StageOK
  BY DEF Init, StageOK
<1>2. /\ name \in [Devices -> Aliases \cup Setups \cup {None}]
      /\ at \in [Setups -> {"out", "confirmed", "provisioning", "service", "snapshot", "health"}]
      /\ plan \in [Setups -> Plans \cup {None}] /\ core \in [Setups -> Hosts \cup {None}]
      /\ chosen \in [Aliases -> Devices \cup {None}]
  BY DEF Init, Nothing
<1>3. /\ pending \subseteq Devices /\ alive \subseteq Devices /\ base \subseteq Devices
      /\ ids \subseteq Devices /\ todo \subseteq Devices /\ made \subseteq alive
  BY DEF Init
<1>4. /\ host \in Hosts \cup {None} /\ registry \in BOOLEAN /\ service \in BOOLEAN
      /\ shown \in Hosts \cup {None} /\ holder \in Setups \cup {None} /\ leaky \in BOOLEAN
      /\ op \in {"setup", "init"} /\ target \in Aliases \cup {None}
      /\ pc \in {"none", "devices", "rename", "retire", "load", "list", "undo"}
  BY DEF Init
<1>5. faults \in 0..MaxFaults
  <2>1. faults = 0
    BY DEF Init
  <2> QED BY <2>1, SetupAssumption
<1> QED BY <1>1, <1>2, <1>3, <1>4, <1>5 DEF Typed, TypeOK

(* The end of an attempt. *)
LEMMA UnlockTyped ==
  ASSUME Typed, Unlock, UNCHANGED device, NEW s \in Setups,
         holder \in {s, None},
         host' \in Hosts \cup {None}, pending' \subseteq Devices, registry' \in BOOLEAN,
         service' \in BOOLEAN, shown' \in Hosts \cup {None}, faults' \in 0..MaxFaults,
         at' \in [Setups -> {"out", "confirmed", "provisioning", "service", "snapshot", "health"}],
         plan' \in [Setups -> Plans \cup {None}], core' \in [Setups -> Hosts \cup {None}],
         \A t \in Setups : t # s => at'[t] = at[t] /\ plan'[t] = plan[t],
         at'[s] # "confirmed"
  PROVE  Typed'
<1>1. StageOK'
  BY DEF Typed, Unlock, StageOK
<1>2. TypeOK'
  <2>1. Nothing \in [Aliases -> Devices \cup {None}]
    BY DEF Nothing
  <2> QED BY <2>1, SetupAssumption DEF Typed, TypeOK, Unlock, device
<1> QED BY <1>1, <1>2 DEF Typed

(* A command that has no locks, or gets them. *)
LEMMA CommandTyped ==
  ASSUME Typed, NEW s \in Setups, Command(s) \/ StartInit(s) \/ StageFails(s)
  PROVE  Typed'
<1> USE DEF Fine, Fault, disk, device, app, job
<1>0. /\ holder \in Setups \cup {None} /\ faults \in 0..MaxFaults /\ MaxFaults \in Nat /\ Plan \in Plans
      /\ (holder # None => at[holder] = "provisioning")
  BY SetupAssumption, PlanType DEF Typed, TypeOK, StageOK
<1>1. CASE Confirm(s)
  <2>1. /\ at' = [at EXCEPT ![s] = "confirmed"] /\ plan' = [plan EXCEPT ![s] = Plan]
        /\ at[s] = "out" /\ s # holder
    BY <1>0, <1>1, SetupAssumption DEF Confirm, Stage
  <2>2. TypeOK'
    BY <1>0, <1>1, <2>1 DEF Confirm, Typed, TypeOK
  <2>3. StageOK'
    BY <1>0, <1>1, <2>1 DEF Confirm, Typed, StageOK, TypeOK
  <2> QED BY <2>2, <2>3 DEF Typed
<1>2. CASE ApplyStale(s) \/ StageFails(s)
  <2>1. Out(s) /\ s # holder /\ UNCHANGED <<disk, device, app, holder, pc, job>> /\ faults' \in 0..MaxFaults
    BY <1>0, <1>2, SetupAssumption DEF ApplyStale, StageFails
  <2>2. TypeOK'
    BY <2>1, OutType DEF Typed, TypeOK
  <2>3. StageOK'
    BY <1>0, <2>1, OutType DEF Typed, StageOK
  <2> QED BY <2>2, <2>3 DEF Typed
<1>3. CASE ApplyConfigured(s)
  <2>1. /\ at' = [at EXCEPT ![s] = "service"] /\ plan' = [plan EXCEPT ![s] = None]
        /\ core' = [core EXCEPT ![s] = host] /\ host \in Hosts /\ holder = None
        /\ registry' \in BOOLEAN /\ at[s] = "confirmed"
    BY <1>3 DEF ApplyConfigured, Stage, Typed, TypeOK, Load
  <2>2. TypeOK'
    BY <1>0, <1>3, <2>1 DEF ApplyConfigured, Typed, TypeOK
  <2>3. StageOK'
    BY <1>0, <1>3, <2>1 DEF ApplyConfigured, Typed, StageOK, TypeOK
  <2> QED BY <2>2, <2>3 DEF Typed
<1>4. CASE Apply(s) \/ StartInit(s)
  <2>1. /\ at' = [at EXCEPT ![s] = "provisioning"] /\ holder = None /\ holder' = s
        /\ pc' = "devices" /\ base' = alive /\ registry' \in BOOLEAN /\ faults' \in 0..MaxFaults
        /\ op' \in {"setup", "init"}
        /\ UNCHANGED <<host, pending, device, app, plan, core, ids, chosen, target, todo, made, leaky>>
    <3>1. CASE Apply(s)
      BY <1>0, <3>1 DEF Apply, Provision, Stage, Typed, TypeOK
    <3>2. CASE StartInit(s)
      BY <1>0, <3>2 DEF StartInit, Provision, Stage, Load
    <3> QED BY <1>4, <3>1, <3>2
  <2>2. TypeOK'
    BY <2>1 DEF Typed, TypeOK
  <2>3. op' = "setup" => plan[s] \in Plans
    BY <1>4 DEF Apply, StartInit, Provision, Typed, StageOK
  <2>4. StageOK'
    BY <2>1, <2>3, SetupAssumption DEF Typed, StageOK, TypeOK
  <2> QED BY <2>2, <2>4 DEF Typed
<1>5. CASE StartService(s)
  <2>1. /\ at' = [at EXCEPT ![s] = "snapshot"] /\ at[s] = "service" /\ s # holder
        /\ registry' \in BOOLEAN
    BY <1>0, <1>5, SetupAssumption DEF StartService, Stage, Load, Typed, TypeOK
  <2>2. TypeOK'
    BY <1>5, <2>1 DEF StartService, Typed, TypeOK
  <2>3. StageOK'
    BY <1>0, <1>5, <2>1 DEF StartService, Typed, StageOK, TypeOK
  <2> QED BY <2>2, <2>3 DEF Typed
<1>6. CASE Snapshot(s) \/ Health(s)
  <2>1. /\ holder = None /\ shown' = host /\ registry' \in BOOLEAN
        /\ UNCHANGED <<host, pending, device, service, holder, pc, job, faults>>
    BY <1>6 DEF Snapshot, Health, Serves, Load, Typed, TypeOK
  <2>2. CASE Out(s)
    <3>1. TypeOK'
      BY <2>1, <2>2, OutType DEF Typed, TypeOK
    <3>2. StageOK'
      BY <2>1, <2>2, OutType DEF Typed, StageOK
    <3> QED BY <3>1, <3>2 DEF Typed
  <2>3. CASE at' = [at EXCEPT ![s] = "health"] /\ UNCHANGED <<plan, core>>
    <3>1. TypeOK'
      BY <2>1, <2>3 DEF Typed, TypeOK
    <3>2. StageOK'
      BY <2>1, <2>3 DEF Typed, StageOK, TypeOK
    <3> QED BY <3>1, <3>2 DEF Typed
  <2> QED BY <1>6, <2>2, <2>3 DEF Snapshot, Health, Stage
<1> QED BY <1>1, <1>2, <1>3, <1>4, <1>5, <1>6 DEF Command

(* A step of an attempt that goes on: its stage and its plan stay. *)
LEMMA OnTyped ==
  ASSUME Typed, UNCHANGED <<stages, op>>, holder' = holder, pc # "none",
         host' \in Hosts \cup {None}, pending' \subseteq Devices, registry' = registry,
         alive' \subseteq Devices, name' \in [Devices -> Aliases \cup Setups \cup {None}],
         service' = service, shown' = shown,
         pc' \in {"devices", "rename", "retire", "load", "list", "undo"},
         base' = base, ids' \subseteq Devices, target' \in Aliases \cup {None},
         chosen' \in [Aliases -> Devices \cup {None}], todo' \subseteq Devices,
         made' \subseteq alive', leaky' \in BOOLEAN, faults' \in 0..MaxFaults
  PROVE  Typed'
<1>1. TypeOK'
  BY DEF Typed, TypeOK, stages
<1>2. StageOK'
  BY DEF Typed, StageOK, stages
<1> QED BY <1>1, <1>2 DEF Typed

(* The devices of an attempt. *)
LEMMA AttemptTyped ==
  ASSUME IInv, Typed,
         \/ \E a \in Aliases : Reuse(a) \/ CreateFails(a) \/ \E d \in Devices : Create(a, d)
         \/ Rename \/ RenameFails \/ Interrupted \/ CommitFails \/ List
         \/ \E d \in Devices : Retire(d) \/ Undo(d)
  PROVE  Typed'
<1> USE DEF Fine, Fault, disk, device, app, At
<1>0. /\ host \in Hosts \cup {None} /\ pending \subseteq Devices /\ alive \subseteq Devices
      /\ name \in [Devices -> Aliases \cup Setups \cup {None}]
      /\ ids \subseteq Devices /\ target \in Aliases \cup {None} /\ todo \subseteq Devices
      /\ chosen \in [Aliases -> Devices \cup {None}] /\ made \subseteq alive /\ leaky \in BOOLEAN
      /\ faults \in 0..MaxFaults /\ MaxFaults \in Nat /\ op \in {"setup", "init"}
      /\ plan \in [Setups -> Plans \cup {None}]
      /\ pc # "none" => holder \in Setups /\ (op = "setup" => plan[holder] \in Plans)
  BY SetupAssumption DEF Typed, TypeOK, StageOK, IInv, HolderOK
<1>1. ASSUME NEW a \in Aliases, Reuse(a) PROVE Typed'
  <2>1. Wanted(a) \in Devices \cup {None}
    BY <1>0, <1>1, ReusableType DEF Reuse, Wanted, Plans, Typed
  <2>2. chosen' \in [Aliases -> Devices \cup {None}]
    BY <1>0, <1>1, <2>1 DEF Reuse
  <2> QED BY <1>0, <1>1, <2>2, OnTyped DEF Reuse, Missing
<1>2. ASSUME NEW a \in Aliases, NEW d \in Devices, Create(a, d) PROVE Typed'
  <2>1. /\ alive' = alive \cup {d}
        /\ name' = [name EXCEPT ![d] = IF op = "setup" THEN holder ELSE a]
        /\ pc = "devices" /\ chosen' = [chosen EXCEPT ![a] = d]
        /\ pc' \in {"devices", "rename"} /\ target' \in Aliases \cup {None}
    BY <1>0, <1>2 DEF Create, Make
  <2>2. name' \in [Devices -> Aliases \cup Setups \cup {None}]
        /\ chosen' \in [Aliases -> Devices \cup {None}]
    BY <1>0, <2>1
  <2> QED BY <1>0, <1>2, <2>1, <2>2, OnTyped DEF Create, Missing
<1>3. ASSUME NEW a \in Aliases, CreateFails(a) PROVE Typed'
  <2>1. CASE UNCHANGED <<device, ids, made>>
    BY <1>0, <1>3, <2>1, OnTyped DEF CreateFails, Missing
  <2>2. ASSUME NEW d \in Devices, Make(d, IF op = "setup" THEN holder ELSE a),
               made' = made \cup {d}, ids' \in {ids, ids \cup {d}}
        PROVE  Typed'
    <3>1. /\ alive' = alive \cup {d} /\ pc = "devices"
          /\ name' = [name EXCEPT ![d] = IF op = "setup" THEN holder ELSE a]
      BY <1>3, <2>2 DEF CreateFails, Make
    <3>2. name' \in [Devices -> Aliases \cup Setups \cup {None}]
      BY <1>0, <3>1
    <3> QED BY <1>0, <1>3, <2>2, <3>1, <3>2, OnTyped DEF CreateFails, Missing
  <2> QED BY <1>3, <2>1, <2>2 DEF CreateFails
<1>4. CASE Rename \/ RenameFails
  <2>1. name' \in [Devices -> Aliases \cup Setups \cup {None}]
    BY <1>0, <1>4 DEF Rename, RenameFails, Renamed
  <2> QED BY <1>0, <1>4, <2>1, OnTyped DEF Rename, RenameFails
<1>5. CASE Interrupted \/ CommitFails
  BY <1>0, <1>5, OnTyped DEF Interrupted, CommitFails
<1>6. CASE List
  <2>1. /\ pc = "list" /\ pc' = "undo" /\ holder' = holder
        /\ UNCHANGED <<host, pending, registry, alive, name, service, shown, stages, op, base, ids,
                       chosen, target, made>>
    BY <1>6 DEF List
  <2>2. todo' \subseteq Devices
    BY <1>0, <1>6 DEF List, Attributed
  <2>3. leaky' \in BOOLEAN /\ faults' \in 0..MaxFaults
    <3>1. CASE UNCHANGED leaky /\ Fine
      BY <1>0, <3>1
    <3>2. CASE leaky' = TRUE /\ Fault
      BY <1>0, <3>2
    <3> QED BY <1>6, <3>1, <3>2 DEF List
  <2> QED BY <1>0, <2>1, <2>2, <2>3, OnTyped
<1>7. ASSUME NEW d \in Devices, Retire(d) \/ Undo(d) PROVE Typed'
  <2>1. /\ alive' \subseteq Devices /\ name' \in [Devices -> Aliases \cup Setups \cup {None}]
        /\ made' \subseteq alive'
    BY <1>0, <1>7 DEF Retire, Undo, Delete
  <2>2. CASE Retire(d)
    <3>1. ids' \subseteq Devices /\ todo' \subseteq Devices /\ faults' \in 0..MaxFaults
      BY <1>0, <2>2 DEF Retire
    <3>2. /\ pc = "retire" /\ holder' = holder
          /\ UNCHANGED <<disk, app, stages, op, pc, base, chosen, target, leaky>>
      BY <2>2 DEF Retire
    <3> QED BY <1>0, <2>1, <3>1, <3>2, OnTyped
  <2>3. CASE Undo(d)
    <3>1. /\ pc = "undo" /\ holder' = holder /\ todo' \subseteq Devices
          /\ UNCHANGED <<disk, app, stages, op, pc, base, ids, chosen, target>>
      BY <1>0, <2>3 DEF Undo
    <3>2. leaky' \in BOOLEAN /\ faults' \in 0..MaxFaults
      <4>1. CASE UNCHANGED leaky /\ Fine
        BY <1>0, <4>1
      <4>2. CASE leaky' = TRUE /\ Fault
        BY <1>0, <4>2
      <4> QED BY <2>3, <4>1, <4>2 DEF Undo
    <3> QED BY <1>0, <2>1, <3>1, <3>2, OnTyped
  <2> QED BY <1>7, <2>2, <2>3
<1> QED BY <1>1, <1>2, <1>3, <1>4, <1>5, <1>6, <1>7

(* The host configuration, and what ends an attempt. *)
LEMMA EndTyped ==
  ASSUME IInv, Typed, Commit \/ Retired \/ CommitFailsLate \/ Loaded \/ LoadFails \/ Undone
  PROVE  Typed'
<1> USE DEF Fine, Fault, disk, device, app, At
<1>0. /\ TypeOK /\ holder \in Setups /\ pc # "none" /\ MaxFaults \in Nat /\ faults \in 0..MaxFaults
      /\ chosen \in [Aliases -> Devices \cup {None}] /\ host \in Hosts \cup {None}
      /\ pending \subseteq Devices /\ registry \in BOOLEAN /\ service \in BOOLEAN
      /\ shown \in Hosts \cup {None} /\ ids \subseteq Devices
  BY SetupAssumption DEF Typed, TypeOK, IInv, HolderOK, Commit, Retired, CommitFailsLate, Loaded,
                         LoadFails, Undone
<1>1. (\A a \in Aliases : chosen[a] # None) => chosen \in Hosts
  BY <1>0 DEF Hosts
<1>2. CASE Commit
  <2>1. host' \in Hosts
    BY <1>1, <1>2 DEF Commit, All
  <2>2. CASE op = "setup"
    BY <1>0, <1>2, <2>1, <2>2, OnTyped DEF Commit, TypeOK
  <2>3. CASE op # "setup"
    <3>1. Replaced \subseteq Devices
      BY <1>0, SetupAssumption DEF Replaced, Configured, Hosts
    <3> QED BY <1>0, <1>2, <2>1, <2>3, <3>1, OnTyped DEF Commit, TypeOK
  <2> QED BY <2>2, <2>3
<1>3. CASE Retired /\ ids = {}
  BY <1>0, <1>3, OnTyped DEF Retired, job, stages, TypeOK
<1>4. CASE (Retired /\ ids # {}) \/ (CommitFailsLate /\ op = "setup") \/ LoadFails \/ Undone
  <2>1. /\ Out(holder) /\ Unlock /\ UNCHANGED <<device, app>>
        /\ faults' \in 0..MaxFaults
    BY <1>0, <1>4 DEF Retired, CommitFailsLate, LoadFails, Undone
  <2>2. host' \in Hosts \cup {None} /\ pending' \subseteq Devices
    BY <1>0, <1>1, <1>4 DEF Retired, CommitFailsLate, LoadFails, Undone, All
  <2>3. registry' \in BOOLEAN
    BY <1>0, <1>4 DEF Retired, CommitFailsLate, LoadFails, Undone, Load
  <2> QED BY <1>0, <2>1, <2>2, <2>3, OutType, UnlockTyped
<1>5. CASE Loaded
  <2>1. /\ Unlock /\ UNCHANGED <<host, pending, device, app, faults>> /\ registry' \in BOOLEAN
    BY <1>5 DEF Loaded, Load
  <2>2. CASE op = "init"
    BY <1>0, <1>5, <2>1, <2>2, OutType, UnlockTyped DEF Loaded
  <2>3. CASE op # "init"
    <3>1. /\ core' = [core EXCEPT ![holder] = host] /\ at' = [at EXCEPT ![holder] = "service"]
          /\ plan' = [plan EXCEPT ![holder] = None]
      BY <1>5, <2>3 DEF Loaded, Stage
    <3>2. /\ at' \in [Setups -> {"out", "confirmed", "provisioning", "service", "snapshot", "health"}]
          /\ plan' \in [Setups -> Plans \cup {None}] /\ core' \in [Setups -> Hosts \cup {None}]
          /\ \A t \in Setups : t # holder => at'[t] = at[t] /\ plan'[t] = plan[t]
          /\ at'[holder] # "confirmed"
      BY <1>0, <3>1 DEF TypeOK
    <3> QED BY <1>0, <2>1, <3>2, UnlockTyped
  <2> QED BY <2>2, <2>3
<1>6. CASE CommitFailsLate /\ op # "setup"
  <2>1. host' \in Hosts
    BY <1>1, <1>6 DEF CommitFailsLate, All
  <2>2. Replaced \subseteq Devices
    BY <1>0, SetupAssumption DEF Replaced, Configured, Hosts
  <2> QED BY <1>0, <1>6, <2>1, <2>2, OnTyped DEF CommitFailsLate, TypeOK
<1> QED BY <1>2, <1>3, <1>4, <1>5, <1>6

(* The environment. *)
LEMMA EnvironmentTyped ==
  ASSUME IInv, Typed, Environment \/ \E s \in Setups : Crash(s)
  PROVE  Typed'
<1> USE DEF Fine, Fault, disk, device, app, job, stages
<1>0. /\ MaxFaults \in Nat /\ faults \in 0..MaxFaults /\ host \in Hosts \cup {None}
      /\ alive \subseteq Devices /\ name \in [Devices -> Aliases \cup Setups \cup {None}]
      /\ holder \in Setups \cup {None} /\ made \subseteq alive
      /\ registry \in BOOLEAN /\ service \in BOOLEAN /\ shown \in Hosts \cup {None}
  BY SetupAssumption DEF Typed, TypeOK
<1>1. CASE ServiceDies \/ OtherCommand
  <2>1. /\ UNCHANGED <<host, pending, device, at, plan, core, holder, pc, job>>
        /\ service' \in BOOLEAN /\ shown' \in Hosts \cup {None} /\ faults' \in 0..MaxFaults
        /\ registry' \in BOOLEAN
    <3>1. CASE ServiceDies
      <4>1. service' \in BOOLEAN /\ registry' \in BOOLEAN
        BY <1>0, <3>1 DEF ServiceDies
      <4>2. shown' \in Hosts \cup {None} /\ faults' \in 0..MaxFaults
        BY <1>0, <3>1 DEF ServiceDies
      <4>3. UNCHANGED <<host, pending, device, at, plan, core, holder, pc, job>>
        BY <3>1 DEF ServiceDies
      <4> QED BY <4>1, <4>2, <4>3
    <3>2. CASE OtherCommand
      <4>1. registry' \in BOOLEAN
        BY <3>2 DEF OtherCommand, Serves, Load
      <4> QED BY <1>0, <3>2, <4>1 DEF OtherCommand, Serves
    <3> QED BY <1>1, <3>1, <3>2
  <2>2. TypeOK'
    BY <2>1 DEF Typed, TypeOK
  <2> QED BY <2>1, <2>2 DEF Typed, StageOK
<1>2. ASSUME NEW d \in Devices, UserDeletes(d) \/ \E a \in Aliases : UserMakes(d, a) PROVE Typed'
  <2>1. /\ alive' \subseteq Devices /\ name' \in [Devices -> Aliases \cup Setups \cup {None}]
        /\ made' \subseteq alive' /\ faults' \in 0..MaxFaults
        /\ UNCHANGED <<disk, app, stages, holder, pc, op, base, ids, chosen, target, todo, leaky>>
    BY <1>0, <1>2 DEF UserDeletes, UserMakes, Make, Delete
  <2>2. TypeOK'
    BY <2>1 DEF Typed, TypeOK
  <2> QED BY <2>1, <2>2 DEF Typed, StageOK
<1>3. ASSUME NEW s \in Setups, Crash(s) PROVE Typed'
  <2>1. /\ Out(s) /\ UNCHANGED <<disk, device, app>> /\ faults' \in 0..MaxFaults
    BY <1>0, <1>3 DEF Crash
  <2>2. CASE holder = s
    BY <1>3, <2>1, <2>2, OutType, UnlockTyped DEF Crash, Typed, TypeOK
  <2>3. CASE holder # s
    <3>1. UNCHANGED <<holder, pc, job>>
      BY <1>3, <2>3 DEF Crash
    <3>2. TypeOK'
      BY <2>1, <3>1, OutType DEF Typed, TypeOK
    <3>3. StageOK'
      BY <1>0, <2>1, <2>3, <3>1, OutType DEF Typed, StageOK
    <3> QED BY <3>2, <3>3 DEF Typed
  <2> QED BY <2>2, <2>3
<1> QED BY <1>1, <1>2, <1>3 DEF Environment

(* The variables of setup have their types: a plan that is carried out is one, a host that
   is committed names a device for each alias. *)
THEOREM TypeCorrect == Spec => []TypeOK
<1>1. ASSUME IInv, Typed, [Next]_vars PROVE Typed'
  <2>1. CASE UNCHANGED vars
    BY <1>1, <2>1 DEF Typed, TypeOK, StageOK, vars, disk, device, app, stages, job
  <2>2. CASE Provisioning
    BY <1>1, <2>2, AttemptTyped, EndTyped DEF Provisioning
  <2>3. CASE Faults
    <3>1. CASE (\E a \in Aliases : CreateFails(a)) \/ RenameFails \/ Interrupted \/ CommitFails \/ List
      BY <1>1, <3>1, AttemptTyped
    <3>2. CASE \E d \in Devices : Retire(d) \/ Undo(d)
      BY <1>1, <3>2, AttemptTyped
    <3>3. CASE CommitFailsLate \/ LoadFails
      BY <1>1, <3>3, EndTyped
    <3>4. ASSUME NEW s \in Setups, StartInit(s) \/ StageFails(s) PROVE Typed'
      BY <1>1, <3>4, CommandTyped
    <3>5. CASE \E s \in Setups : Crash(s)
      BY <1>1, <3>5, EnvironmentTyped
    <3> QED BY <2>3, <3>1, <3>2, <3>3, <3>4, <3>5 DEF Faults
  <2>4. CASE \E s \in Setups : Command(s)
    BY <1>1, <2>4, CommandTyped
  <2>5. CASE Environment
    BY <1>1, <2>5, EnvironmentTyped
  <2> QED BY <1>1, <2>1, <2>2, <2>3, <2>4, <2>5 DEF Next
<1>2. Typed => TypeOK
  BY DEF Typed
<1> QED BY <1>1, <1>2, InitTyped, Invariance, PTL DEF Spec

=============================================================================
