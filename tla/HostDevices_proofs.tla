-------------------------- MODULE HostDevices_proofs --------------------------
(***************************************************************************)
(* Proofs about HostDevices: for any aliases, devices, transactions and    *)
(* any number of crashes.  The invariant says what the record of an open   *)
(* transaction, on disk or in memory, knows about the devices: each device *)
(* the transaction made and that still exists is named by the record or is *)
(* a match for an addition without an identifier, and nothing the record   *)
(* names is older than the transaction.                                    *)
(***************************************************************************)
EXTENDS HostDevices, TLAPS

Born(d) == maker[d] # "unborn"

(* A device is made once, and deleted once. *)
DeviceOK ==
  \A d \in Devices :
    /\ d \in alive => maker[d] \notin {"unborn", "gone"} /\ ender[d] = None
    /\ d \notin alive => maker[d] \in {"unborn", "gone"}
    /\ maker[d] = "unborn" => ender[d] = None

(* An alias names a device that was made for it. *)
HostOK ==
  /\ \A a \in Aliases : host[a] # None =>
       Born(host[a]) /\ (host[a] \in alive => name[host[a]] = a)
  /\ \A d \in pending : Born(d)

(* What a record j knows of the devices al with their names nm: own are     *)
(* those its transaction made, base those that are older.                  *)
Known(j, h, al, nm, own, base, born) ==
  /\ \A a \in Aliases : j.pre[a] \subseteq born /\ (j.id[a] # None => a \in j.planned)
  /\ \A a \in j.planned :
       IF j.id[a] = None
       THEN h[a] = None /\ \A d \in base \cap al : nm[d] = a => d \in j.pre[a]
       ELSE /\ j.id[a] \in born \ base
            /\ j.id[a] \in al => nm[j.id[a]] = a
  /\ \A d \in own :
       /\ nm[d] \in j.planned
       /\ j.id[nm[d]] = d \/ (j.id[nm[d]] = None /\ d \notin j.pre[nm[d]])

Base(t) == IF t \in blind THEN {} ELSE before[t]
Own(t) == {d \in alive : maker[d] = t}
Bred == {d \in Devices : Born(d)}

RecordOK(t, j) == Known(j, host, alive, name, Own(t), Base(t), Bred)

(* A transaction that has not begun has done nothing, one that is over      *)
(* holds nothing, and one at most is open.                                 *)
TxnOK ==
  /\ \A t \in Txns :
       /\ txn[t].status = "none" =>
            txn[t] = NoTxn /\ \A d \in Devices : maker[d] # t /\ ender[d] # t
       /\ ~Open(t) => before[t] = {}
       /\ \A d \in before[t] : Born(d)
       /\ Open(t) => RecordOK(t, txn[t])
  /\ \A t, u \in Txns : Open(t) /\ Open(u) => t = u

(* Everything that the transaction made and that exists is in S. *)
Collected(t, S) == \A d \in alive : maker[d] = t => d \in S

Applying == {"capture", "create", "note", "committed", "audit", "undo", "undoDelete"}

(* What the command in progress has in memory: recovery ... *)
RecoverOK ==
  /\ pc \in {"decide", "recoverDelete"} => cur \in Txns /\ Open(cur)
  /\ pc = "decide" => Collected(cur, Created(txn[cur]))
  /\ pc = "recoverDelete" =>
       Present(txn[cur]) = {} /\ todo \subseteq Created(txn[cur]) /\ Collected(cur, todo)

(* ... the apply of a plan ... *)
ApplyOK ==
  /\ pc \in Applying => cur \in Txns /\ Open(cur) /\ RecordOK(cur, job)
                        /\ job.status \notin Terminal \cup {"none"}
  /\ pc \in {"capture", "create", "note"} =>
       /\ job = txn[cur]
       /\ \A a \in job.planned : job.id[a] # None => ender[job.id[a]] = None
       /\ \A a \in want : host[a] = None /\ a \notin job.planned
  /\ pc = "capture" => Unresolved(job) = {}
  /\ pc \in {"create", "note"} => Unresolved(job) = {target}
  /\ pc = "create" => \A d \in alive : maker[d] = cur => name[d] # target
  /\ pc = "note" =>
       /\ made # None /\ Born(made) /\ ender[made] = None /\ made \notin before[cur]
       /\ made \in alive => name[made] = target
       /\ \A d \in alive : maker[d] = cur /\ name[d] = target => d = made
  /\ pc \in Applying \ {"committed", "audit"} => \A a \in job.planned : host[a] = None
  /\ pc \in {"committed", "audit"} =>
       job.id = txn[cur].id /\ job.planned = txn[cur].planned
       /\ \A a \in job.planned : job.id[a] # None /\ host[a] = job.id[a]
  /\ pc = "undoDelete" =>
       todo \subseteq Created(job) /\ (failed = {} => Collected(cur, todo))

(* ... and repair and delete. *)
HostCommandOK ==
  /\ old # None => Born(old)
  /\ pc \in {"idle", "recover", "decide", "recoverDelete", "repair", "repoint"} => failed = {}
  /\ pc \in {"repair", "repoint", "retire", "delete", "forget"} =>
       /\ target # None
       /\ \A a \in want : host[a] # None /\ a # target
  /\ pc \in {"repair", "repoint", "delete"} => host[target] # None
  /\ pc = "repoint" =>
       /\ made # None /\ Born(made) /\ ender[made] \notin Txns
       /\ made \in alive => name[made] = target
       /\ host[target] \in alive => old = host[target] \/ made = host[target]
  /\ pc = "retire" =>
       /\ failed \subseteq Devices /\ \A d \in todo \cup failed : Born(d)
       /\ \A d \in pending \cap alive : d \in todo \cup failed \cup Configured
  /\ pc \in {"delete", "forget"} =>
       /\ failed \subseteq Aliases /\ failed \cap want = {} /\ target \notin failed
       /\ \A a \in failed : host[a] \notin alive
  /\ pc = "forget" => host[target] \notin alive

(* The inductive invariant: what holds of the devices and the disk, and of  *)
(* the command in progress.                                                *)
DataOK ==
  /\ DeviceOK /\ HostOK /\ TxnOK
  /\ BaselineKept /\ ConfiguredKept /\ RollbackComplete /\ AccountedFor
CommandOK == RecoverOK /\ ApplyOK /\ HostCommandOK
IInv == TypeOK /\ DataOK /\ CommandOK

-----------------------------------------------------------------------------
(* Types *)

(* Names that are used for nothing else. *)
LEMMA Names ==
  /\ None \notin Aliases /\ None \notin Devices /\ None \notin Txns
  /\ {"unborn", "gone", "other", "host"} \cap Txns = {}
BY DevicesAssumption

(* The empty record is one. *)
LEMMA NoTxnType == NoTxn \in Transactions
BY DEF NoTxn, Transactions, Status

(* A record whose status changes is a record. *)
LEMMA StatusType ==
  ASSUME NEW j \in Transactions, NEW s \in Status
  PROVE  /\ [j EXCEPT !.status = s] \in Transactions
         /\ [j EXCEPT !.status = s].planned = j.planned
         /\ [j EXCEPT !.status = s].id = j.id
         /\ [j EXCEPT !.status = s].pre = j.pre
         /\ [j EXCEPT !.status = s].status = s
BY DEF Transactions

(* What resolving an addition finds is one of its matches. *)
LEMMA ResolvedFinds ==
  ASSUME TypeOK, NEW j \in Transactions
  PROVE  /\ Resolved(j) \in Transactions
         /\ Resolved(j).planned = j.planned /\ Resolved(j).pre = j.pre
         /\ Resolved(j).status = j.status
         /\ \A a \in Aliases :
              IF a \in Unresolved(j) \ Ambiguous(j) /\ Matches(j, a) # {}
              THEN Resolved(j).id[a] \in Matches(j, a)
              ELSE Resolved(j).id[a] = j.id[a]
<1> DEFINE id == [a \in Aliases |->
              IF a \in Unresolved(j) \ Ambiguous(j) /\ Matches(j, a) # {}
              THEN CHOOSE d \in Matches(j, a) : TRUE ELSE j.id[a]]
<1>1. Resolved(j) = [j EXCEPT !.id = id]
  BY DEF Resolved
<1>2. \A a \in Aliases : Matches(j, a) # {} => (CHOOSE d \in Matches(j, a) : TRUE) \in Matches(j, a)
  OBVIOUS
<1>3. \A a \in Aliases : Matches(j, a) \subseteq Devices
  BY DEF Matches, Named, TypeOK
<1>4. id \in [Aliases -> Devices \cup {None}]
  BY <1>2, <1>3 DEF Transactions
<1> HIDE DEF id
<1>5. /\ [j EXCEPT !.id = id] \in Transactions
      /\ [j EXCEPT !.id = id].planned = j.planned /\ [j EXCEPT !.id = id].pre = j.pre
      /\ [j EXCEPT !.id = id].status = j.status /\ [j EXCEPT !.id = id].id = id
  BY <1>4 DEF Transactions
<1> QED BY <1>1, <1>2, <1>5 DEF id

(* Making and deleting a device keep the types. *)
LEMMA DeviceType ==
  ASSUME TypeOK, NEW d \in Devices,
         \/ \E a \in Aliases, who \in Txns \cup {"other", "host"} : Make(d, a, who)
         \/ \E who \in Txns \cup {None} : Delete(d, who)
  PROVE  /\ alive' \subseteq Devices /\ name' \in [Devices -> Aliases \cup {None}]
         /\ maker' \in [Devices -> Txns \cup {"unborn", "gone", "other", "host"}]
         /\ ender' \in [Devices -> Txns \cup {None}]
BY DEF TypeOK, Make, Delete

(* Writing a record keeps the types. *)
LEMMA JournalType ==
  ASSUME TypeOK, NEW t \in Txns,
         \/ \E j \in Transactions : Journal(t, j)
         \/ \E s \in Status : Close(t, s)
  PROVE  txn' \in [Txns -> Transactions] /\ before' \in [Txns -> SUBSET Devices]
<1>1. CASE \E j \in Transactions : Journal(t, j)
  BY <1>1 DEF TypeOK, Journal
<1>2. CASE \E s \in Status : Close(t, s)
  BY <1>2, NoTxnType, StatusType DEF TypeOK, Close
<1> QED BY <1>1, <1>2

Control == {"idle", "recover", "decide", "recoverDelete", "capture", "create", "note",
            "committed", "audit", "undo", "undoDelete", "repair", "repoint", "retire",
            "delete", "forget"}

(* The types of what a command has in memory. *)
LocalType ==
  /\ pc \in Control /\ job \in Transactions
  /\ cur \in Txns \cup {None} /\ want \subseteq Aliases /\ target \in Aliases \cup {None}
  /\ made \in Devices \cup {None} /\ old \in Devices \cup {None}
  /\ todo \subseteq Devices /\ failed \subseteq Devices \cup Aliases

(* The types of what is left when it ends. *)
RestType ==
  /\ host \in [Aliases -> Devices \cup {None}] /\ pending \subseteq Devices
  /\ txn \in [Txns -> Transactions]
  /\ alive \subseteq Devices /\ name \in [Devices -> Aliases \cup {None}]
  /\ maker \in [Devices -> Txns \cup {"unborn", "gone", "other", "host"}]
  /\ ender \in [Devices -> Txns \cup {None}]
  /\ before \in [Txns -> SUBSET Devices] /\ blind \subseteq Txns /\ crashes \in 0..MaxCrashes

(* They make up the type invariant. *)
LEMMA TypeParts == TypeOK <=> LocalType /\ RestType
BY DEF TypeOK, LocalType, RestType, Control

(* What noting an addition, or a device's identifier, does to a record.    *)
LEMMA NotedType ==
  ASSUME NEW j \in Transactions, NEW a \in Aliases, NEW S \in SUBSET Devices, NEW k,
         \/ k = [j EXCEPT !.status = "creating", !.planned = @ \cup {a}, !.pre[a] = S]
         \/ k = [j EXCEPT !.status = "creating", !.planned = @ \cup {a}] /\ S = j.pre[a]
  PROVE  /\ k \in Transactions /\ k.status = "creating"
         /\ k.planned = j.planned \cup {a} /\ k.id = j.id /\ k.pre = [j.pre EXCEPT ![a] = S]
<1> DEFINE pre == [j.pre EXCEPT ![a] = S]
<1>1. pre \in [Aliases -> SUBSET Devices]
  BY DEF Transactions
<1>2. k = [status |-> "creating", planned |-> j.planned \cup {a}, id |-> j.id, pre |-> pre]
  BY DEF Transactions
<1> QED BY <1>1, <1>2 DEF Transactions, Status

(* What noting an identifier does. *)
LEMMA IdType ==
  ASSUME NEW j \in Transactions, NEW a \in Aliases, NEW d \in Devices,
         NEW k, k = [j EXCEPT !.id[a] = d]
  PROVE  /\ k \in Transactions /\ k.status = j.status
         /\ k.planned = j.planned /\ k.pre = j.pre /\ k.id = [j.id EXCEPT ![a] = d]
<1> DEFINE id == [j.id EXCEPT ![a] = d]
<1>1. id \in [Aliases -> Devices \cup {None}]
  BY DEF Transactions
<1>2. k = [status |-> j.status, planned |-> j.planned, id |-> id, pre |-> j.pre]
  BY DEF Transactions
<1> QED BY <1>1, <1>2 DEF Transactions

(* A command that ends, or goes on with the next alias, is well typed.     *)
LEMMA EndType == End => LocalType'
BY NoTxnType DEF End, LocalType, Control

(* So is one that goes on with the next alias. *)
LEMMA ContinueType ==
  ASSUME TypeOK, NEW place \in {"repair", "delete"}, NEW f \in SUBSET Aliases,
         Continue(place, f)
  PROVE  LocalType'
BY EndType, NoTxnType DEF Continue, LocalType, TypeOK, Control

(* Every step keeps the types: recovery, ... *)
LEMMA RecoverType ==
  ASSUME TypeOK, RecoverOK, Recover
  PROVE  LocalType' /\ RestType'
<1> USE TypeParts
<1>1. CASE StartApply \/ RecoverGivesUp \/ RecoverUndo
  <2>1. LocalType'
    <3>1. CASE StartApply
      BY <3>1 DEF StartApply, LocalType, local, Control
    <3>2. CASE RecoverGivesUp
      BY <3>2, EndType DEF RecoverGivesUp
    <3>3. CASE RecoverUndo
      <4>1. txn[cur] \in Transactions
        BY <3>3 DEF RecoverUndo, RecoverOK, RestType
      <4>2. Created(txn[cur]) \subseteq Devices
        BY <4>1 DEF Created, Transactions
      <4> QED BY <3>3, <4>2 DEF RecoverUndo, LocalType, Control
    <3> QED BY <1>1, <3>1, <3>2, <3>3
  <2>2. RestType'
    BY <1>1 DEF StartApply, RecoverGivesUp, RecoverUndo, RestType, disk, device, history
  <2> QED BY <2>1, <2>2
<1>2. ASSUME NEW t \in Txns, RecoverResolve(t)
      PROVE  LocalType' /\ RestType'
  <2> DEFINE j == Resolved(txn[t])
  <2>1. j \in Transactions /\ [j EXCEPT !.status = "rollback_incomplete"] \in Transactions
    <3>1. txn[t] \in Transactions
      BY DEF TypeOK
    <3> QED BY <3>1, ResolvedFinds, StatusType DEF Status
  <2>2. LocalType'
    BY <1>2, EndType DEF RecoverResolve, LocalType, Control
  <2>3. \E k \in Transactions : Journal(t, k)
    BY <1>2, <2>1 DEF RecoverResolve
  <2>4. RestType'
    BY <1>2, <2>3, JournalType DEF RecoverResolve, RestType, device
  <2> QED BY <2>2, <2>4
<1>3. CASE RecoverFinalize \/ RecoverUndone
  <2>1. cur \in Txns /\ \E s \in Status : Close(cur, s)
    BY <1>3 DEF RecoverFinalize, RecoverUndone, RecoverOK, Status
  <2>2. RestType'
    BY <1>3, <2>1, JournalType DEF RecoverFinalize, RecoverUndone, RestType, device
  <2>3. LocalType'
    BY <1>3 DEF RecoverFinalize, RecoverUndone, LocalType, Control
  <2> QED BY <2>2, <2>3
<1>4. CASE RecoverFailed \/ \E d \in Devices : RecoverDeleteFails(d)
  <2>1. cur \in Txns /\ txn[cur] \in Transactions
    BY <1>4 DEF RecoverFailed, RecoverDeleteFails, RecoverOK, RestType
  <2>2. \E j \in Transactions : Journal(cur, j)
    BY <1>4, <2>1, StatusType DEF RecoverFailed, RecoverDeleteFails, Status
  <2>3. /\ alive' \subseteq Devices /\ name' \in [Devices -> Aliases \cup {None}]
        /\ maker' \in [Devices -> Txns \cup {"unborn", "gone", "other", "host"}]
        /\ ender' \in [Devices -> Txns \cup {None}]
    <3>1. CASE UNCHANGED device
      BY <3>1 DEF device, RestType
    <3>2. CASE \E d \in Devices : Delete(d, cur)
      BY <2>1, <3>2, DeviceType
    <3> QED BY <1>4, <3>1, <3>2 DEF RecoverFailed, RecoverDeleteFails
  <2>4. RestType'
    BY <1>4, <2>1, <2>2, <2>3, JournalType DEF RecoverFailed, RecoverDeleteFails, RestType
  <2> QED BY <1>4, <2>4, EndType DEF RecoverFailed, RecoverDeleteFails
<1>5. ASSUME NEW d \in Devices, RecoverDelete(d)
      PROVE  LocalType' /\ RestType'
  <2>1. cur \in Txns
    BY <1>5 DEF RecoverDelete, RecoverOK
  <2>2. RestType'
    BY <1>5, <2>1, DeviceType DEF RecoverDelete, RestType, disk, history
  <2>3. LocalType'
    BY <1>5 DEF RecoverDelete, LocalType
  <2> QED BY <2>2, <2>3
<1> QED BY <1>1, <1>2, <1>3, <1>4, <1>5 DEF Recover

(* ... the apply of a plan, ... *)
LEMMA ApplyType ==
  ASSUME TypeOK, ApplyOK, Apply
  PROVE  LocalType' /\ RestType'
<1> USE TypeParts
<1>0. pc \in Applying => cur \in Txns
  BY DEF ApplyOK
<1>1. ASSUME NEW t \in Txns, NothingMissing(t)
      PROVE  LocalType' /\ RestType'
  <2>1. txn' \in [Txns -> Transactions]
    <3>1. [txn[t] EXCEPT !.status = "finalized"] \in Transactions
      BY StatusType DEF RestType, Status
    <3> QED BY <1>1, <3>1 DEF NothingMissing, RestType
  <2>2. RestType'
    BY <1>1, <2>1 DEF NothingMissing, RestType, device, history
  <2> QED BY <1>1, <2>2, EndType DEF NothingMissing
<1>2. ASSUME NEW t \in Txns, NEW S \in SUBSET Aliases, Plan(t, S)
      PROVE  LocalType' /\ RestType'
  <2>1. job' \in Transactions
    BY <1>2, NoTxnType, StatusType DEF Plan, Status
  <2>2. LocalType'
    BY <1>2, <2>1 DEF Plan, LocalType, Control
  <2>3. RestType'
    BY <1>2, <2>1 DEF Plan, RestType, device
  <2> QED BY <2>2, <2>3
<1>3. ASSUME NEW a \in Aliases, Capture(a) \/ CaptureFails(a)
      PROVE  LocalType' /\ RestType'
  <2>1. Named(a) \subseteq Devices
    BY DEF Named, RestType
  <2>2. job' \in Transactions
    <3>1. job \in Transactions /\ job.pre[a] \in SUBSET Devices
      BY DEF LocalType, Transactions
    <3>2. CASE Capture(a)
      <4>1. job' = [job EXCEPT !.status = "creating", !.planned = @ \cup {a}, !.pre[a] = Named(a)]
        BY <3>2 DEF Capture
      <4>2. Named(a) \in SUBSET Devices
        BY <2>1
      <4> QED BY <3>1, <4>1, <4>2, NotedType
    <3>3. CASE CaptureFails(a)
      <4>1. job' = [job EXCEPT !.status = "creating", !.planned = @ \cup {a}]
        BY <3>3 DEF CaptureFails
      <4> QED BY <3>1, <4>1, NotedType
    <3> QED BY <1>3, <3>2, <3>3
  <2>3. LocalType'
    BY <1>3, <2>2 DEF Capture, CaptureFails, LocalType, Control
  <2>4. CASE Capture(a)
    <3>1. cur \in Txns /\ Journal(cur, job')
      BY <1>0, <2>4 DEF Capture, Applying
    <3>2. txn' \in [Txns -> Transactions] /\ before' = before
      BY <2>2, <3>1 DEF Journal, RestType
    <3> QED BY <2>3, <2>4, <3>2 DEF Capture, RestType, device
  <2>5. CASE CaptureFails(a)
    <3>1. cur \in Txns
      BY <1>0, <2>5 DEF CaptureFails, Applying
    <3> QED BY <2>3, <2>5, <3>1 DEF CaptureFails, RestType, device, disk
  <2> QED BY <1>3, <2>4, <2>5
<1>4. ASSUME NEW d \in Devices, Create(d) \/ UndoDelete(d)
      PROVE  LocalType' /\ RestType'
  <2>1. LocalType'
    BY <1>4 DEF Create, UndoDelete, LocalType, Control
  <2>2. cur \in Txns /\ (pc = "create" => target \in Aliases)
    BY <1>0, <1>4 DEF Create, UndoDelete, Applying, ApplyOK, Unresolved, LocalType, Transactions
  <2>3. CASE UNCHANGED device
    BY <1>4, <2>1, <2>3 DEF Create, UndoDelete, RestType, device, disk, history
  <2>4. CASE Make(d, target, cur) \/ Delete(d, cur)
    <3>1. CASE Create(d)
      BY <2>1, <2>2, <3>1, DeviceType DEF Create, RestType, disk, history
    <3>2. CASE UndoDelete(d) /\ Delete(d, cur)
      BY <2>1, <2>2, <3>2, DeviceType DEF UndoDelete, RestType, disk, history
    <3> QED BY <1>4, <2>3, <2>4, <3>1, <3>2 DEF UndoDelete
  <2> QED BY <1>4, <2>3, <2>4 DEF Create, UndoDelete
<1>5. CASE CreateFails
  <2>1. cur \in Txns /\ target \in Aliases
    BY <1>0, <1>5 DEF CreateFails, Applying, ApplyOK, Unresolved, LocalType, Transactions
  <2>2. LocalType'
    BY <1>5 DEF CreateFails, LocalType, Control, local
  <2>3. CASE UNCHANGED device
    BY <1>5, <2>2, <2>3 DEF CreateFails, RestType, device, disk, history
  <2>4. CASE \E d \in Devices : Make(d, target, cur)
    BY <1>5, <2>1, <2>2, <2>4, DeviceType DEF CreateFails, RestType, disk, history
  <2> QED BY <1>5, <2>3, <2>4 DEF CreateFails
<1>6. CASE Note \/ Committed \/ RequireRecovery
  <2>1. cur \in Txns
    BY <1>0, <1>6 DEF Note, Committed, RequireRecovery, Applying
  <2>2. Note \/ Committed => job' \in Transactions
    BY DEF Note, Committed, LocalType, Transactions, Status, ApplyOK
  <2>3. [job EXCEPT !.status = "committed_recovery_required"] \in Transactions
    BY StatusType DEF LocalType, Status
  <2>4. \E j \in Transactions : Journal(cur, j)
    BY <1>6, <2>2, <2>3 DEF Note, Committed, RequireRecovery
  <2>5. RestType'
    BY <1>6, <2>1, <2>4, JournalType DEF Note, Committed, RequireRecovery, RestType, device
  <2>6. LocalType'
    BY <1>6, <2>2, EndType DEF Note, Committed, RequireRecovery, LocalType, Control
  <2> QED BY <2>5, <2>6
<1>7. CASE Commit
  <2>1. host' \in [Aliases -> Devices \cup {None}]
    BY <1>7 DEF Commit, RestType, LocalType, Transactions
  <2> QED BY <1>7, <2>1 DEF Commit, RestType, LocalType, Control, device, local, history
<1>8. CASE PlanRefused \/ CommitFails \/ UndoFails
  BY <1>8, EndType DEF PlanRefused, CommitFails, UndoFails, RestType, LocalType, Control,
                       disk, device, local, history
<1>9. CASE Undo
  <2>1. job' \in Transactions
    BY <1>9, ResolvedFinds DEF Undo, LocalType
  <2>2. Created(job') \subseteq Devices /\ Ambiguous(job) \subseteq Aliases
    BY <2>1 DEF Created, Transactions, Ambiguous, Unresolved, LocalType
  <2> QED BY <1>9, <2>1, <2>2 DEF Undo, RestType, LocalType, Control, disk, device, history
<1>10. CASE Finalize \/ Undone
  <2>1. cur \in Txns
    BY <1>0, <1>10 DEF Finalize, Undone, Applying
  <2>2. [job EXCEPT !.status = "rollback_incomplete"] \in Transactions
    BY StatusType DEF LocalType, Status
  <2>3. (\E j \in Transactions : Journal(cur, j)) \/ \E s \in Status : Close(cur, s)
    BY <1>10, <2>2 DEF Finalize, Undone, Status
  <2>4. RestType'
    BY <1>10, <2>1, <2>3, JournalType DEF Finalize, Undone, RestType, device
  <2> QED BY <1>10, <2>4, EndType DEF Finalize, Undone
<1> QED
  BY <1>1, <1>2, <1>3, <1>4, <1>5, <1>6, <1>7, <1>8, <1>9, <1>10 DEF Apply

(* ... repair, ... *)
LEMMA RepairType ==
  ASSUME TypeOK, HostCommandOK, Repair
  PROVE  LocalType' /\ RestType'
<1> USE TypeParts
<1>0. {} \in SUBSET Aliases /\ "repair" \in {"repair", "delete"}
  OBVIOUS
<1>1. CASE (\E a \in Aliases : StartRepair(a)) \/ \E S \in SUBSET Aliases : StartPurposeRepair(S)
  <2>1. PICK S \in SUBSET Aliases : Start(S, "repair")
    BY <1>1 DEF StartRepair, StartPurposeRepair
  <2> QED BY <2>1 DEF Start, LocalType, RestType, Control, disk, device, history
<1>2. ASSUME NEW d \in Devices, RepairReuse(d)
      PROVE  LocalType' /\ RestType'
  BY <1>2 DEF RepairReuse, Replaced, LocalType, RestType, Control, disk, device, history
<1>3. ASSUME NEW d \in Devices, RepairCreate(d)
      PROVE  LocalType' /\ RestType'
  <2>1. Make(d, target, "host") /\ target \in Aliases
    BY <1>3 DEF RepairCreate, HostCommandOK, LocalType
  <2>2. RestType'
    BY <1>3, <2>1, DeviceType DEF RepairCreate, RestType, disk, history
  <2>3. LocalType'
    BY <1>3 DEF RepairCreate, Replaced, LocalType, RestType, Control
  <2> QED BY <2>2, <2>3
<1>4. ASSUME NEW d \in Devices, Retire(d)
      PROVE  LocalType' /\ RestType'
  <2>1. LocalType'
    BY <1>4 DEF Retire, LocalType
  <2>2. CASE UNCHANGED device
    BY <1>4, <2>1, <2>2 DEF Retire, RestType, disk, device, history
  <2>3. CASE Delete(d, None)
    BY <1>4, <2>1, <2>3, DeviceType DEF Retire, RestType, disk, history
  <2> QED BY <1>4, <2>2, <2>3 DEF Retire
<1>5. CASE RepairKeep
  <2>1. target \in Aliases /\ host[target] \in Devices \cup {None}
    BY <1>5 DEF RepairKeep, HostCommandOK, LocalType, RestType
  <2> QED BY <1>5, <2>1 DEF RepairKeep, LocalType, RestType, Control, disk, history
<1>6. CASE RepairCommit
  <2>1. host' \in [Aliases -> Devices \cup {None}] /\ pending' \subseteq Devices
    BY <1>6 DEF RepairCommit, Repoint, LocalType, RestType
  <2> QED BY <1>6, <2>1 DEF RepairCommit, LocalType, RestType, Control, device, history
<1>7. CASE RepairCommitFails
  <2>1. LocalType'
    BY <1>0, <1>7, ContinueType DEF RepairCommitFails
  <2>2. host' \in [Aliases -> Devices \cup {None}] /\ pending' \subseteq Devices
    BY <1>7 DEF RepairCommitFails, Repoint, LocalType, RestType
  <2>3. CASE UNCHANGED device
    BY <1>7, <2>1, <2>2, <2>3 DEF RepairCommitFails, RestType, device, history
  <2>4. CASE \E d \in todo : Delete(d, None)
    <3>1. PICK d \in Devices : Delete(d, None)
      BY <2>4 DEF LocalType
    <3> QED BY <1>7, <2>1, <2>2, <3>1, DeviceType DEF RepairCommitFails, RestType, history
  <2> QED BY <1>7, <2>3, <2>4 DEF RepairCommitFails
<1>8. CASE RepairFails
  BY <1>0, <1>8, ContinueType DEF RepairFails, RestType, disk, device, history
<1>9. CASE RepairCreateFails
  <2>1. LocalType'
    BY <1>0, <1>9, ContinueType DEF RepairCreateFails
  <2>2. PICK d \in Devices : Make(d, target, "host")
    BY <1>9 DEF RepairCreateFails
  <2>3. target \in Aliases
    BY <1>9 DEF RepairCreateFails, HostCommandOK, LocalType
  <2> QED BY <1>9, <2>1, <2>2, <2>3, DeviceType DEF RepairCreateFails, RestType, disk, history
<1>10. CASE Retired
  <2>1. LocalType'
    BY <1>0, <1>10, ContinueType DEF Retired
  <2> QED BY <1>10, <2>1 DEF Retired, HostCommandOK, RestType, device, history
<1> QED
  BY <1>1, <1>2, <1>3, <1>4, <1>5, <1>6, <1>7, <1>8, <1>9, <1>10 DEF Repair

(* ... delete, ... *)
LEMMA RemoveType ==
  ASSUME TypeOK, HostCommandOK, Remove
  PROVE  LocalType' /\ RestType'
<1> USE TypeParts
<1>0. {} \in SUBSET Aliases /\ "delete" \in {"repair", "delete"}
  OBVIOUS
<1>1. CASE (\E a \in Aliases : StartDelete(a)) \/ \E S \in SUBSET Aliases : StartPurposeDelete(S)
  <2>1. PICK S \in SUBSET Aliases : Start(S, "delete")
    BY <1>1 DEF StartDelete, StartPurposeDelete
  <2> QED BY <2>1 DEF Start, LocalType, RestType, Control, disk, device, history
<1>2. CASE DeleteDevice \/ DeleteFails
  <2>1. host[target] \in Devices
    BY <1>2 DEF DeleteDevice, DeleteFails, HostCommandOK, LocalType, RestType
  <2>2. LocalType'
    <3>1. CASE DeleteDevice
      BY <3>1 DEF DeleteDevice, LocalType, Control, local
    <3>2. CASE DeleteFails
      <4>1. failed \in SUBSET Aliases /\ Continue("delete", failed)
        BY <3>2 DEF DeleteFails, HostCommandOK
      <4> QED BY <1>0, <4>1, ContinueType
    <3> QED BY <1>2, <3>1, <3>2
  <2>3. CASE UNCHANGED device
    BY <1>2, <2>2, <2>3 DEF DeleteDevice, DeleteFails, RestType, disk, device, history
  <2>4. CASE Delete(host[target], None)
    BY <1>2, <2>1, <2>2, <2>4, DeviceType DEF DeleteDevice, DeleteFails, RestType, disk, history
  <2> QED BY <1>2, <2>3, <2>4 DEF DeleteDevice, DeleteFails
<1>3. CASE Forget \/ ForgetFails
  <2>1. failed \cup {target} \in SUBSET Aliases
    BY <1>3 DEF Forget, ForgetFails, HostCommandOK, LocalType
  <2>2. LocalType'
    BY <1>0, <1>3, <2>1, ContinueType DEF Forget, ForgetFails
  <2>3. host' \in [Aliases -> Devices \cup {None}]
    BY <1>3 DEF Forget, ForgetFails, Dropped, RestType
  <2> QED BY <1>3, <2>2, <2>3 DEF Forget, ForgetFails, RestType, device, history
<1> QED BY <1>1, <1>2, <1>3 DEF Remove

(* ... crashes and what the operator does. *)
LEMMA EnvironmentType ==
  ASSUME TypeOK, Environment
  PROVE  LocalType' /\ RestType'
<1> USE TypeParts
<1>1. CASE Crash
  <2>1. crashes' \in 0..MaxCrashes
    BY <1>1, DevicesAssumption DEF Crash, RestType
  <2> QED BY <1>1, <2>1, EndType DEF Crash, RestType, disk, device
<1>2. ASSUME NEW d \in Devices, OperatorDeletes(d) \/ \E a \in Aliases : OperatorMakes(d, a)
      PROVE  LocalType' /\ RestType'
  <2>1. /\ alive' \subseteq Devices /\ name' \in [Devices -> Aliases \cup {None}]
        /\ maker' \in [Devices -> Txns \cup {"unborn", "gone", "other", "host"}]
        /\ ender' \in [Devices -> Txns \cup {None}]
    BY <1>2, DeviceType DEF OperatorDeletes, OperatorMakes
  <2> QED BY <1>2, <2>1 DEF OperatorDeletes, OperatorMakes, LocalType, RestType, disk, local, history
<1> QED BY <1>1, <1>2 DEF Environment

(* A step that changes nothing. *)
LEMMA StutterType ==
  ASSUME TypeOK, UNCHANGED vars
  PROVE  LocalType' /\ RestType'
BY TypeParts DEF LocalType, RestType, vars, disk, device, local, history

-----------------------------------------------------------------------------
(* What a record knows, as the devices change *)

(* A record goes on to know its devices while devices vanish, while others are *)
(* made that the transaction does not make, and while the record keeps its    *)
(* additions and no unresolved one becomes configured.                        *)
LEMMA KnownFrame ==
  ASSUME NEW j, NEW h, NEW al, NEW nm, NEW own, NEW base, NEW born,
         NEW j2, NEW h2, NEW al2, NEW nm2, NEW own2, NEW base2, NEW born2,
         Known(j, h, al, nm, own, base, born),
         j2.planned = j.planned, j2.id = j.id, j2.pre = j.pre,
         \A a \in j.planned : j.id[a] = None => h2[a] = None,
         own2 \subseteq own, own2 \subseteq al2, own \subseteq born,
         base2 \subseteq base, base \subseteq born, born \subseteq born2,
         \A d \in al2 : d \in born => d \in al /\ nm2[d] = nm[d]
  PROVE  Known(j2, h2, al2, nm2, own2, base2, born2)
BY DEF Known

(* What the steps leave of the devices: a device that existed and still does   *)
(* is as it was, one that is new is nobody's, and at most the transaction t    *)
(* deletes.                                                                *)
Thinned(t) ==
  /\ \A d \in Devices : Born(d) => Born(d)'
  /\ \A d \in alive' : Born(d) => d \in alive /\ name'[d] = name[d] /\ maker'[d] = maker[d]
  /\ \A d \in alive' : ~Born(d) => maker'[d] \in {"other", "host"}
  /\ \A d \in Devices \ alive' : maker'[d] \in {"unborn", "gone"}
  /\ \A d \in Devices : ender'[d] = ender[d] \/ (ender'[d] = t /\ d \in alive /\ d \notin alive')

(* A delete, or a device made by the operator or for an alias. *)
LEMMA ThinnedSteps ==
  ASSUME TypeOK, DeviceOK, NEW d \in Devices, NEW t \in Txns \cup {None},
         \/ Delete(d, t)
         \/ \E a \in Aliases : Make(d, a, "other") \/ Make(d, a, "host")
  PROVE  Thinned(t)
BY DEF Thinned, Delete, Make, TypeOK, DeviceOK, Born

(* So does a step that leaves the devices alone. *)
LEMMA ThinnedStutter ==
  ASSUME TypeOK, DeviceOK, NEW t, UNCHANGED device
  PROVE  Thinned(t)
BY DEF Thinned, TypeOK, DeviceOK, Born, device

(* Deleting a device of its own. *)
LEMMA DeleteEnds ==
  ASSUME TypeOK, NEW d \in Devices, NEW t, Delete(d, t)
  PROVE  d \notin alive' /\ \A e \in Devices : ender'[e] # ender[e] => e = d /\ d \in alive
BY DEF Delete, TypeOK

(* The records keep what they know. *)
LEMMA ThinnedRecord ==
  ASSUME TypeOK, TypeOK', DeviceOK, NEW t, Thinned(t), UNCHANGED <<host, before, blind>>,
         NEW u \in Txns, \A d \in before[u] : Born(d), NEW j, NEW k, RecordOK(u, j),
         k.planned = j.planned, k.id = j.id, k.pre = j.pre
  PROVE  Known(k, host', alive', name', Own(u)', Base(u)', Bred')
<1>1. Known(j, host, alive, name, Own(u), Base(u), Bred)
  BY DEF RecordOK
<1>2. \A a \in j.planned : j.id[a] = None => host'[a] = None
  BY <1>1 DEF Known
<1>3. Own(u)' \subseteq Own(u) /\ Own(u)' \subseteq alive' /\ Own(u) \subseteq Bred
  BY DevicesAssumption DEF Own, Thinned, Bred, TypeOK, Born
<1>4. Base(u)' \subseteq Base(u) /\ Base(u) \subseteq Bred /\ Bred \subseteq Bred'
  BY DEF Base, Bred, Thinned, TypeOK
<1>5. \A d \in alive' : d \in Bred => d \in alive /\ name'[d] = name[d]
  BY DEF Bred, Thinned
<1> QED
  BY <1>1, <1>2, <1>3, <1>4, <1>5, KnownFrame

(* Nothing the configuration, the baselines and the journal say of the devices is *)
(* lost by such a step, if what a transaction deletes is no older than it and    *)
(* not configured.                                                           *)
LEMMA ThinnedData ==
  ASSUME TypeOK, TypeOK', DataOK, NEW t \in Txns \cup {None}, Thinned(t),
         UNCHANGED <<host, pending, before, blind>>,
         \A u \in Txns :
            \/ txn'[u] = txn[u]
            \/ /\ Open(u) /\ Open(u)' /\ txn'[u].planned = txn[u].planned
               /\ txn'[u].id = txn[u].id /\ txn'[u].pre = txn[u].pre,
         t # None => Open(t) /\ \A d \in Devices :
            ender'[d] # ender[d] => d \notin Base(t) /\ d \notin Configured
  PROVE  DataOK'
<1> USE DevicesAssumption, Names DEF DataOK
<1>0. \A u \in Txns : Open(u)' <=> Open(u)
  BY DEF Open
<1>1. DeviceOK'
  BY DEF DeviceOK, Thinned, Born, TypeOK
<1>2. HostOK'
  BY DEF HostOK, Thinned, TypeOK
<1>3. TxnOK'
  <2>1. ASSUME NEW u \in Txns, txn'[u].status = "none"
        PROVE  txn'[u] = NoTxn /\ \A d \in Devices : maker'[d] # u /\ ender'[d] # u
    <3>1. txn'[u] = txn[u]
      BY <2>1 DEF Open
    <3>2. \A d \in Devices : maker[d] # u /\ ender[d] # u
      BY <2>1, <3>1 DEF TxnOK
    <3>3. t # u
      BY <2>1, <3>1 DEF Open
    <3> QED BY <2>1, <3>1, <3>2, <3>3 DEF Thinned, TypeOK, TxnOK
  <2>2. ASSUME NEW u \in Txns
        PROVE  (~Open(u)' => before'[u] = {}) /\ \A d \in before'[u] : Born(d)'
    BY <1>0 DEF TxnOK, Thinned, TypeOK
  <2>3. ASSUME NEW u \in Txns, Open(u)'
        PROVE  Known(txn'[u], host', alive', name', Own(u)', Base(u)', Bred')
    <3>1. RecordOK(u, txn[u]) /\ \A d \in before[u] : Born(d)
      BY <1>0, <2>3 DEF TxnOK
    <3>2. txn'[u].planned = txn[u].planned /\ txn'[u].id = txn[u].id /\ txn'[u].pre = txn[u].pre
      OBVIOUS
    <3> QED BY <3>1, <3>2, ThinnedRecord
  <2>4. \A u, v \in Txns : Open(u)' /\ Open(v)' => u = v
    BY <1>0 DEF TxnOK
  <2> QED BY <2>1, <2>2, <2>3, <2>4 DEF TxnOK, RecordOK
<1>4. BaselineKept'
  BY DEF BaselineKept, Thinned, Base, TypeOK
<1>5. ConfiguredKept'
  BY DEF ConfiguredKept, Thinned, Configured, TypeOK
<1>6. RollbackComplete'
  BY <1>0 DEF RollbackComplete, Thinned, TypeOK, Open, Terminal
<1>7. AccountedFor'
  <2>1. ASSUME NEW d \in alive', maker'[d] \in Txns
        PROVE  \/ d \in Configured \cup pending
               \/ Open(maker[d]) /\ maker'[d] = maker[d]
    <3>1. d \in alive /\ maker'[d] = maker[d]
      BY <2>1 DEF Thinned
    <3> QED BY <2>1, <3>1 DEF AccountedFor, Open, Terminal
  <2> QED BY <1>0, <2>1 DEF AccountedFor, Configured, Open, Terminal
<1> QED BY <1>1, <1>2, <1>3, <1>4, <1>5, <1>6, <1>7

(* A device that a transaction makes for an addition without identifier. *)
LEMMA MakeOwn ==
  ASSUME TypeOK, TypeOK', DataOK, UNCHANGED <<disk, before, blind>>, NEW t \in Txns,
         NEW d \in Devices, NEW a \in Aliases, Make(d, a, t), Open(t),
         a \in txn[t].planned, txn[t].id[a] = None
  PROVE  DataOK' /\ RecordOK(t, txn[t])'
<1> USE DevicesAssumption, Names DEF DataOK, disk
<1>0. /\ ~Born(d) /\ d \notin alive /\ alive' = alive \cup {d} /\ ender' = ender
      /\ name'[d] = a /\ maker'[d] = t
      /\ \A e \in Devices \ {d} : name'[e] = name[e] /\ maker'[e] = maker[e]
      /\ \A e \in Devices : Born(e) => Born(e)' /\ e # d
  BY DEF Make, Born, TypeOK, DeviceOK
<1>1. DeviceOK'
  BY <1>0 DEF DeviceOK, TypeOK, Born
<1>2. HostOK'
  BY <1>0 DEF HostOK, TypeOK
<1>3. Known(txn'[t], host', alive', name', Own(t)', Base(t)', Bred')
  <2>1. Known(txn[t], host, alive, name, Own(t), Base(t), Bred)
    BY DEF TxnOK, RecordOK
  <2>2. Bred \subseteq Bred' /\ d \notin Bred /\ Own(t) \subseteq Bred /\ Own(t)' \subseteq Own(t) \cup {d}
    BY <1>0 DEF Bred, Own, TypeOK, DeviceOK, Born
  <2>3. Base(t)' = Base(t) /\ Base(t) \subseteq Bred
    BY DEF Base, TxnOK, Bred, TypeOK
  <2>4. \A e \in Bred : name'[e] = name[e] /\ (e \in alive' => e \in alive)
    BY <1>0 DEF Bred
  <2> HIDE DEF disk
  <2>5. txn'[t] = txn[t] /\ host' = host
    BY DEF disk
  <2> QED BY <1>0, <2>1, <2>2, <2>3, <2>4, <2>5 DEF Known
<1>4. \A u \in Txns : Open(u)' <=> Open(u)
  BY DEF Open
<1>5. TxnOK'
  <2>1. ASSUME NEW u \in Txns
        PROVE  /\ txn'[u].status = "none" =>
                    txn'[u] = NoTxn /\ \A e \in Devices : maker'[e] # u /\ ender'[e] # u
               /\ ~Open(u)' => before'[u] = {}
               /\ \A e \in before'[u] : Born(e)'
    BY <1>0, <1>4 DEF TxnOK, Open, TypeOK
  <2>2. \A u, v \in Txns : Open(u)' /\ Open(v)' => u = v
    BY <1>4 DEF TxnOK
  <2>3. ASSUME NEW u \in Txns, Open(u)'
        PROVE  Known(txn'[u], host', alive', name', Own(u)', Base(u)', Bred')
    BY <1>3, <1>4, <2>3 DEF TxnOK
  <2> QED BY <2>1, <2>2, <2>3 DEF TxnOK, RecordOK
<1>6. BaselineKept' /\ ConfiguredKept'
  BY <1>0 DEF BaselineKept, ConfiguredKept, Configured
<1>7. RollbackComplete' /\ AccountedFor'
  BY <1>0 DEF RollbackComplete, AccountedFor, Configured, TypeOK, Open, Terminal
<1> QED BY <1>1, <1>2, <1>3, <1>5, <1>6, <1>7 DEF RecordOK

(* The record of an open transaction is written anew. *)
LEMMA JournalData ==
  ASSUME TypeOK, TypeOK', DataOK, UNCHANGED <<host, pending, device, blind>>, NEW t \in Txns, NEW j,
         Journal(t, j), Open(t), j.status \notin Terminal \cup {"none"}, RecordOK(t, j)
  PROVE  /\ DataOK' /\ Open(t)' /\ txn'[t] = j
         /\ Known(j, host', alive', name', Own(t)', Base(t)', Bred')
<1> USE DEF DataOK
<1>1. txn'[t] = j /\ before' = before /\ \A u \in Txns \ {t} : txn'[u] = txn[u]
  BY DEF Journal, TypeOK
<1>2. \A u \in Txns : Open(u)' <=> Open(u)
  BY <1>1 DEF Open
<1>3. \A u \in Txns : Own(u)' = Own(u) /\ Base(u)' = Base(u) /\ Bred' = Bred
  BY <1>1 DEF Own, Base, Bred, Born, device
<1>4. Known(j, host', alive', name', Own(t)', Base(t)', Bred')
  BY <1>3 DEF RecordOK, device
<1>5. DeviceOK' /\ HostOK'
  BY DEF DeviceOK, HostOK, Born, device
<1>6. TxnOK'
  <2>1. ASSUME NEW u \in Txns
        PROVE  /\ txn'[u].status = "none" =>
                    txn'[u] = NoTxn /\ \A e \in Devices : maker'[e] # u /\ ender'[e] # u
               /\ ~Open(u)' => before'[u] = {}
               /\ \A e \in before'[u] : Born(e)'
    BY <1>1, <1>2 DEF TxnOK, device, Born
  <2>2. ASSUME NEW u \in Txns, Open(u)'
        PROVE  Known(txn'[u], host', alive', name', Own(u)', Base(u)', Bred')
    <3>1. RecordOK(u, txn'[u])
      BY <1>1, <1>2, <2>2 DEF TxnOK
    <3> QED BY <1>3, <3>1 DEF RecordOK, device
  <2>3. \A u, v \in Txns : Open(u)' /\ Open(v)' => u = v
    BY <1>2 DEF TxnOK
  <2> QED BY <2>1, <2>2, <2>3 DEF TxnOK, RecordOK
<1>7. BaselineKept' /\ ConfiguredKept'
  BY <1>1 DEF BaselineKept, ConfiguredKept, Configured, device
<1>8. RollbackComplete' /\ AccountedFor'
  BY <1>1 DEF RollbackComplete, AccountedFor, Configured, device, Terminal, Open
<1>9. Open(t)'
  BY <1>2
<1> QED BY <1>1, <1>4, <1>5, <1>6, <1>7, <1>8, <1>9

(* A transaction is over when the configuration names what it made, or when    *)
(* nothing it made exists.                                                   *)
LEMMA CloseData ==
  ASSUME TypeOK, TypeOK', DataOK, UNCHANGED <<host, pending, device, blind>>, NEW t \in Txns, NEW s,
         Close(t, s), Open(t),
         \/ s = "finalized" /\ \A d \in alive : maker[d] = t => d \in Configured
         \/ s = "rolled_back" /\ \A d \in alive : maker[d] # t
  PROVE  DataOK'
<1> USE DEF DataOK
<1>1. /\ txn'[t].status = s /\ before'[t] = {}
      /\ \A u \in Txns \ {t} : txn'[u] = txn[u] /\ before'[u] = before[u]
  BY NoTxnType, StatusType DEF Close, TypeOK, NoTxn
<1>2. \A u \in Txns : Open(u)' <=> Open(u) /\ u # t
  BY <1>1 DEF Open, Terminal
<1>3. DeviceOK' /\ HostOK'
  BY DEF DeviceOK, HostOK, Born, device
<1>4. TxnOK'
  <2>1. ASSUME NEW u \in Txns
        PROVE  /\ txn'[u].status = "none" =>
                    txn'[u] = NoTxn /\ \A e \in Devices : maker'[e] # u /\ ender'[e] # u
               /\ ~Open(u)' => before'[u] = {}
               /\ \A e \in before'[u] : Born(e)'
    BY <1>1, <1>2 DEF TxnOK, device, Born
  <2>2. ASSUME NEW u \in Txns, Open(u)'
        PROVE  Known(txn'[u], host', alive', name', Own(u)', Base(u)', Bred')
    BY <1>2, <2>2 DEF TxnOK
  <2>3. \A u, v \in Txns : Open(u)' /\ Open(v)' => u = v
    BY <1>2 DEF TxnOK
  <2> QED BY <2>1, <2>2, <2>3 DEF TxnOK, RecordOK
<1>5. BaselineKept' /\ ConfiguredKept'
  BY <1>1 DEF BaselineKept, ConfiguredKept, Configured, device
<1>6. RollbackComplete' /\ AccountedFor'
  BY <1>1 DEF RollbackComplete, AccountedFor, Configured, device, Terminal, Open
<1> QED BY <1>3, <1>4, <1>5, <1>6

(* The configuration changes. *)
LEMMA HostData ==
  ASSUME TypeOK, TypeOK', DataOK, UNCHANGED <<txn, device, before, blind>>,
         \A a \in Aliases : host'[a] # None => Born(host'[a]) /\ ender[host'[a]] \notin Txns
                                           /\ (host'[a] \in alive => name[host'[a]] = a),
         \A d \in pending' : Born(d),
         \A t \in Txns : Open(t) => \A a \in txn[t].planned : txn[t].id[a] = None => host'[a] = None,
         \A d \in alive : d \in Configured \cup pending => d \in Configured' \cup pending'
  PROVE  DataOK'
<1> USE Names DEF DataOK
<1>1. DeviceOK' /\ HostOK'
  BY DEF DeviceOK, HostOK, Born, device
<1>2. \A u \in Txns : Open(u)' <=> Open(u)
  BY DEF Open
<1>3. TxnOK'
  <2>1. ASSUME NEW u \in Txns
        PROVE  /\ txn'[u].status = "none" =>
                    txn'[u] = NoTxn /\ \A e \in Devices : maker'[e] # u /\ ender'[e] # u
               /\ ~Open(u)' => before'[u] = {}
               /\ \A e \in before'[u] : Born(e)'
    BY <1>2 DEF TxnOK, device, Born
  <2>2. ASSUME NEW u \in Txns, Open(u)'
        PROVE  Known(txn'[u], host', alive', name', Own(u)', Base(u)', Bred')
    <3>1. Own(u)' = Own(u) /\ Base(u)' = Base(u) /\ Bred' = Bred
      BY DEF Own, Base, Bred, Born, device
    <3>2. RecordOK(u, txn[u]) /\ \A a \in txn[u].planned : txn[u].id[a] = None => host'[a] = None
      BY <1>2, <2>2 DEF TxnOK
    <3> QED BY <3>1, <3>2 DEF RecordOK, Known, device
  <2>3. \A u, v \in Txns : Open(u)' /\ Open(v)' => u = v
    BY <1>2 DEF TxnOK
  <2> QED BY <2>1, <2>2, <2>3 DEF TxnOK, RecordOK
<1>4. BaselineKept'
  BY DEF BaselineKept, device
<1>5. ConfiguredKept'
  BY DEF ConfiguredKept, Configured, device
<1>6. RollbackComplete' /\ AccountedFor'
  BY DEF RollbackComplete, AccountedFor, Configured, device
<1> QED BY <1>1, <1>3, <1>4, <1>5, <1>6

(* Nothing of it changes; an addition that has lost its baseline matters less. *)
LEMMA SameData ==
  ASSUME TypeOK, TypeOK', DataOK, UNCHANGED <<disk, device, before>>, blind \subseteq blind'
  PROVE  DataOK'
<1> USE DEF DataOK, disk, device
<1>1. DeviceOK' /\ HostOK' /\ BaselineKept' /\ ConfiguredKept' /\ RollbackComplete' /\ AccountedFor'
  BY DEF DeviceOK, HostOK, Born, BaselineKept, ConfiguredKept, Configured, RollbackComplete, AccountedFor
<1>2. \A u \in Txns : Open(u)' <=> Open(u)
  BY DEF Open
<1>3. TxnOK'
  <2>1. ASSUME NEW u \in Txns
        PROVE  /\ txn'[u].status = "none" =>
                    txn'[u] = NoTxn /\ \A e \in Devices : maker'[e] # u /\ ender'[e] # u
               /\ ~Open(u)' => before'[u] = {}
               /\ \A e \in before'[u] : Born(e)'
    BY <1>2 DEF TxnOK, Born
  <2>2. ASSUME NEW u \in Txns, Open(u)'
        PROVE  Known(txn'[u], host', alive', name', Own(u)', Base(u)', Bred')
    <3>1. Own(u)' = Own(u) /\ Base(u)' \subseteq Base(u) /\ Bred' = Bred
      BY DEF Own, Base, Bred, Born
    <3>2. RecordOK(u, txn[u])
      BY <1>2, <2>2 DEF TxnOK
    <3> QED BY <3>1, <3>2 DEF RecordOK, Known
  <2>3. \A u, v \in Txns : Open(u)' /\ Open(v)' => u = v
    BY <1>2 DEF TxnOK
  <2> QED BY <2>1, <2>2, <2>3 DEF TxnOK, RecordOK
<1> QED BY <1>1, <1>3

-----------------------------------------------------------------------------
(* What a record knows, as it is written anew *)

(* Its status is not about devices. *)
LEMMA StatusKnown ==
  ASSUME NEW t \in Txns, NEW j \in Transactions, NEW s \in Status, RecordOK(t, j)
  PROVE  RecordOK(t, [j EXCEPT !.status = s])
BY StatusType DEF RecordOK, Known

(* Resolving the additions keeps it, and leaves no device of the transaction out *)
(* unless an addition is ambiguous.                                            *)
LEMMA ResolvedKnown ==
  ASSUME TypeOK, DeviceOK, NEW t \in Txns, NEW j \in Transactions, RecordOK(t, j)
  PROVE  /\ RecordOK(t, Resolved(j))
         /\ Ambiguous(j) = {} => Collected(t, Created(Resolved(j)))
<1> DEFINE r == Resolved(j)
<1>1. /\ r.planned = j.planned /\ r.pre = j.pre
      /\ \A a \in Aliases :
           IF a \in Unresolved(j) \ Ambiguous(j) /\ Matches(j, a) # {}
           THEN r.id[a] \in Matches(j, a)
           ELSE r.id[a] = j.id[a]
  BY ResolvedFinds
<1> HIDE DEF r
<1>2. Known(j, host, alive, name, Own(t), Base(t), Bred)
  BY DEF RecordOK
<1>3. \A a \in Aliases : Matches(j, a) = {d \in alive : name[d] = a /\ d \notin j.pre[a]}
  BY DEF Matches, Named
<1>4. \A a \in Unresolved(j) \ Ambiguous(j) : \A d, e \in Matches(j, a) : d = e
  BY DEF Ambiguous
<1>5. \A a \in Aliases : a \in Unresolved(j) <=> a \in j.planned /\ j.id[a] = None
  BY DEF Unresolved, Transactions
<1>6. /\ \A d \in alive : d \in Bred /\ d # None
      /\ \A d \in Own(t) : d \in alive
      /\ j.planned \subseteq Aliases
  BY Names DEF Bred, Born, DeviceOK, TypeOK, Own, Transactions
<1>7. ASSUME NEW a \in Aliases
      PROVE  r.pre[a] \subseteq Bred /\ (r.id[a] # None => a \in r.planned)
  BY <1>1, <1>2, <1>5, <1>7 DEF Known
<1>8. ASSUME NEW a \in j.planned
      PROVE  IF r.id[a] = None
             THEN host[a] = None /\ \A d \in Base(t) \cap alive : name[d] = a => d \in r.pre[a]
             ELSE r.id[a] \in Bred \ Base(t) /\ (r.id[a] \in alive => name[r.id[a]] = a)
  <2>1. CASE a \in Unresolved(j) \ Ambiguous(j) /\ Matches(j, a) # {}
    <3>1. r.id[a] \in alive /\ name[r.id[a]] = a /\ r.id[a] \notin j.pre[a]
      BY <1>1, <1>3, <1>6, <2>1
    <3>2. r.id[a] \notin Base(t)
      BY <1>2, <1>5, <1>6, <2>1, <3>1 DEF Known
    <3> QED BY <1>6, <3>1, <3>2
  <2>2. CASE ~(a \in Unresolved(j) \ Ambiguous(j) /\ Matches(j, a) # {})
    BY <1>1, <1>2, <1>6, <2>2 DEF Known
  <2> QED BY <2>1, <2>2
<1>9. ASSUME NEW d \in Own(t)
      PROVE  /\ name[d] \in r.planned
             /\ r.id[name[d]] = d \/ (r.id[name[d]] = None /\ d \notin r.pre[name[d]])
             /\ Ambiguous(j) = {} => r.id[name[d]] = d
  <2> DEFINE a == name[d]
  <2>1. a \in j.planned /\ a \in Aliases /\ d \in alive
        /\ (j.id[a] = d \/ (j.id[a] = None /\ d \notin j.pre[a]))
    BY <1>2, <1>6 DEF Known
  <2>2. CASE j.id[a] = d
    BY <1>1, <1>5, <1>6, <2>1, <2>2
  <2>3. CASE j.id[a] = None /\ d \notin j.pre[a]
    <3>1. a \in Unresolved(j) /\ d \in Matches(j, a)
      BY <1>3, <1>5, <2>1, <2>3
    <3>2. CASE a \in Ambiguous(j)
      BY <1>1, <2>1, <2>3, <3>2
    <3>3. CASE a \notin Ambiguous(j)
      BY <1>1, <1>4, <2>1, <3>1, <3>3
    <3> QED BY <3>2, <3>3
  <2> QED BY <2>1, <2>2, <2>3
<1>10. RecordOK(t, r)
  BY <1>1, <1>7, <1>8, <1>9 DEF RecordOK, Known
<1>11. Ambiguous(j) = {} => Collected(t, Created(r))
  BY <1>1, <1>6, <1>9 DEF Collected, Created, Own
<1> QED BY <1>10, <1>11 DEF r

(* A device that a record names is not older than its transaction, and not       *)
(* configured unless it is so for the record's own addition.                   *)
LEMMA CreatedIsOwn ==
  ASSUME TypeOK, HostOK, NEW t \in Txns, NEW j \in Transactions, RecordOK(t, j),
         \A a \in j.planned : j.id[a] # None => host[a] # j.id[a],
         NEW d \in Created(j)
  PROVE  d \in Devices /\ d \notin Base(t) /\ (d \in alive => d \notin Configured)
<1>1. PICK a \in j.planned : d = j.id[a] /\ d # None
  BY DEF Created
<1>2. d \in Devices /\ d \notin Base(t) /\ (d \in alive => name[d] = a)
  BY <1>1 DEF RecordOK, Known, Bred
<1>3. ASSUME d \in alive, NEW b \in Aliases, host[b] = d
      PROVE  FALSE
  <2>1. name[d] = b
    BY <1>1, <1>3 DEF HostOK
  <2> QED BY <1>1, <1>2, <1>3, <2>1
<1> QED BY <1>2, <1>3 DEF Configured

-----------------------------------------------------------------------------
(* The command in progress *)

(* One that ends knows nothing. *)
LEMMA EndCommand == End => CommandOK'
BY DEF End, CommandOK, RecoverOK, ApplyOK, HostCommandOK, Applying

(* One that goes on with the next alias knows what it knew at the beginning. *)
LEMMA ContinueCommand ==
  ASSUME TypeOK, NEW place \in {"repair", "delete"}, NEW f \in SUBSET Aliases, Continue(place, f),
         \A a \in want : host'[a] # None,
         place = "repair" => f = {},
         f \cap want = {}, \A a \in f : host'[a] \notin alive'
  PROVE  CommandOK'
<1>1. CASE want = {}
  BY <1>1, EndCommand DEF Continue
<1>2. CASE want # {}
  <2>1. PICK a \in want : /\ pc' = place /\ target' = a /\ want' = want \ {a} /\ failed' = f
                          /\ old' = None
    BY <1>2 DEF Continue
  <2>2. a # None
    BY Names DEF TypeOK
  <2>3. RecoverOK' /\ ApplyOK'
    BY <2>1 DEF RecoverOK, ApplyOK, Applying
  <2>4. HostCommandOK'
    BY <2>1, <2>2 DEF HostCommandOK
  <2> QED BY <2>3, <2>4 DEF CommandOK
<1> QED BY <1>1, <1>2

(* What a command knows stays true when somebody else makes or deletes a device. *)
LEMMA ThinnedCommand ==
  ASSUME TypeOK, TypeOK', DataOK, CommandOK, Thinned(None), UNCHANGED <<disk, pc, local, before, blind>>
  PROVE  CommandOK'
<1> USE Names DEF CommandOK, DataOK, disk, local
<1>0. \A d \in Devices : ender'[d] = ender[d]
  BY DEF Thinned, DeviceOK
<1>1. \A u \in Txns : Open(u)' <=> Open(u)
  BY DEF Open
<1>2. \A u \in Txns : \A S : Collected(u, S) => Collected(u, S)'
  BY DevicesAssumption DEF Collected, Thinned, TypeOK
<1>3. RecoverOK'
  BY <1>1, <1>2 DEF RecoverOK, Created, Present
<1>4. ASSUME pc \in Applying
      PROVE  cur \in Txns /\ Open(cur)' /\ RecordOK(cur, job)'
  <2>1. cur \in Txns /\ Open(cur) /\ RecordOK(cur, job) /\ \A d \in before[cur] : Born(d)
    BY <1>4 DEF ApplyOK, TxnOK
  <2>2. Known(job, host', alive', name', Own(cur)', Base(cur)', Bred')
    BY <2>1, ThinnedRecord
  <2> QED BY <1>1, <2>1, <2>2 DEF RecordOK
<1>5. ASSUME NEW d \in Devices
      PROVE  (Born(d) => Born(d)') /\ (d \in alive' /\ Born(d) => d \in alive /\ name'[d] = name[d])
  BY DEF Thinned
<1>6. ApplyOK'
  <2>1. pc \in {"capture", "create", "note"} =>
       /\ job = txn[cur]
       /\ \A a \in job.planned : job.id[a] # None => ender'[job.id[a]] = None
       /\ \A a \in want : host[a] = None /\ a \notin job.planned
    BY <1>0 DEF ApplyOK, TypeOK, Transactions
  <2>2. pc = "create" => \A d \in alive' : maker'[d] = cur => name'[d] # target
    BY <1>4, DevicesAssumption DEF ApplyOK, Thinned, TypeOK, Applying
  <2>3. pc = "note" =>
       /\ made # None /\ Born(made)' /\ ender'[made] = None /\ made \notin before[cur]
       /\ made \in alive' => name'[made] = target
       /\ \A d \in alive' : maker'[d] = cur /\ name'[d] = target => d = made
    BY <1>0, <1>4, <1>5, DevicesAssumption DEF ApplyOK, Thinned, TypeOK, Applying
  <2>4. pc = "undoDelete" =>
       todo \subseteq Created(job) /\ (failed = {} => Collected(cur, todo)')
    BY <1>2, <1>4 DEF ApplyOK, Applying
  <2> QED BY <1>4, <2>1, <2>2, <2>3, <2>4 DEF ApplyOK, Unresolved, Created
<1>7. HostCommandOK'
  <2>1. pc \in {"repair", "repoint", "retire", "delete", "forget"} => target \in Aliases
    BY DEF HostCommandOK, TypeOK
  <2>2. \A a \in Aliases : host[a] \in alive' => host[a] \in alive
    BY <1>5 DEF HostOK, TypeOK
  <2>3. \A d \in pending : d \in alive' => d \in alive
    BY <1>5 DEF HostOK, TypeOK
  <2>4. (old # None => Born(old)') /\ (pc = "retire" => \A d \in todo \cup failed : Born(d)')
    BY <1>5 DEF HostCommandOK, TypeOK
  <2>5. pc = "repoint" =>
       /\ made # None /\ Born(made)' /\ ender'[made] \notin Txns
       /\ made \in alive' => name'[made] = target
    BY <1>0, <1>5 DEF HostCommandOK, TypeOK
  <2>6. pc \in {"delete", "forget"} => \A a \in failed : host[a] \notin alive'
    BY <2>2 DEF HostCommandOK
  <2> QED BY <2>1, <2>2, <2>3, <2>4, <2>5, <2>6 DEF HostCommandOK, Configured
<1> QED BY <1>3, <1>6, <1>7

-----------------------------------------------------------------------------
(* The invariant is kept, step by step: recovery, ... *)

(* A step of a recovery keeps what holds of the data and of the commands. *)
LEMMA RecoverKeeps ==
  ASSUME IInv, TypeOK', Recover
  PROVE  DataOK' /\ CommandOK'
<1> USE DEF IInv
<1>0. TypeOK /\ DataOK /\ DeviceOK /\ HostOK /\ TxnOK /\ RecoverOK /\ HostCommandOK
  BY DEF DataOK, CommandOK
<1>1. CASE StartApply
  <2>1. DataOK'
    BY <1>0, <1>1, SameData DEF StartApply, history
  <2>2. CommandOK'
    BY <1>0, <1>1 DEF StartApply, local, CommandOK, RecoverOK, ApplyOK, HostCommandOK, Applying, Born, device
  <2> QED BY <2>1, <2>2
<1>2. CASE RecoverGivesUp
  BY <1>0, <1>2, SameData, EndCommand DEF RecoverGivesUp, history
<1>3. ASSUME NEW t \in Txns, RecoverResolve(t)
      PROVE  DataOK' /\ CommandOK'
  <2> DEFINE j == Resolved(txn[t])
  <2>1. txn[t] \in Transactions /\ Open(t) /\ RecordOK(t, txn[t])
    BY <1>0, <1>3 DEF RecoverResolve, TypeOK, TxnOK
  <2>2. /\ j \in Transactions /\ j.status = txn[t].status /\ RecordOK(t, j)
        /\ Ambiguous(txn[t]) = {} => Collected(t, Created(j))
    BY <1>0, <2>1, ResolvedFinds, ResolvedKnown
  <2> HIDE DEF j
  <2>3. CASE Ambiguous(txn[t]) # {}
    <3> DEFINE k == [j EXCEPT !.status = "rollback_incomplete"]
    <3>1. RecordOK(t, k) /\ k.status = "rollback_incomplete"
      BY <2>2, StatusKnown, StatusType DEF Status
    <3>2. Journal(t, k) /\ End /\ UNCHANGED <<host, pending, device, blind>>
      BY <1>3, <2>3 DEF RecoverResolve, j
    <3> HIDE DEF k
    <3>3. DataOK'
      BY <1>0, <2>1, <3>1, <3>2, JournalData DEF Terminal
    <3> QED BY <3>2, <3>3, EndCommand
  <2>4. CASE Ambiguous(txn[t]) = {}
    <3>1. Journal(t, j) /\ UNCHANGED <<host, pending, device, blind>>
      BY <1>3, <2>4 DEF RecoverResolve, j
    <3>2. DataOK' /\ Open(t)' /\ txn'[t] = j
      BY <1>0, <2>1, <2>2, <3>1, JournalData DEF Open
    <3>3. pc = "recover" /\ pc' = "decide" /\ cur' = t /\ UNCHANGED <<old, failed>>
      BY <1>3, <2>4 DEF RecoverResolve
    <3>4. RecoverOK'
      BY <2>2, <2>4, <3>1, <3>2, <3>3 DEF RecoverOK, Collected, device, Created
    <3>5. ApplyOK' /\ HostCommandOK'
      BY <1>0, <3>1, <3>3 DEF ApplyOK, HostCommandOK, Applying, Born, device
    <3> QED BY <3>2, <3>4, <3>5 DEF CommandOK
  <2> QED BY <2>3, <2>4
<1>4. CASE RecoverFinalize \/ RecoverUndone
  <2>1. cur \in Txns /\ Open(cur) /\ UNCHANGED <<host, pending, device, blind>>
    BY <1>0, <1>4 DEF RecoverFinalize, RecoverUndone, RecoverOK
  <2>2. CommandOK'
    BY <1>0, <1>4 DEF RecoverFinalize, RecoverUndone, CommandOK, RecoverOK, ApplyOK, HostCommandOK,
                      Applying, Born, device
  <2>3. DataOK'
    <3>1. CASE RecoverFinalize
      <4>1. Close(cur, "finalized")
        BY <3>1 DEF RecoverFinalize
      <4>2. \A d \in alive : maker[d] = cur => d \in Configured
        <5>1. Collected(cur, Created(txn[cur])) /\ Present(txn[cur]) = txn[cur].planned
          BY <1>0, <3>1 DEF RecoverFinalize, RecoverOK
        <5>2. txn[cur].planned \subseteq Aliases
          BY <2>1 DEF TypeOK, Transactions
        <5>3. Created(txn[cur]) \subseteq Configured
          BY <5>1, <5>2 DEF Created, Present, Configured
        <5> QED BY <5>1, <5>3 DEF Collected
      <4> QED BY <1>0, <2>1, <4>1, <4>2, CloseData
    <3>2. CASE RecoverUndone
      <4>1. Close(cur, "rolled_back") /\ \A d \in alive : maker[d] # cur
        BY <1>0, <3>2 DEF RecoverUndone, RecoverOK, Collected
      <4> QED BY <1>0, <2>1, <4>1, CloseData
    <3> QED BY <1>4, <3>1, <3>2
  <2> QED BY <2>2, <2>3
<1>5. CASE RecoverFailed
  <2> DEFINE k == [txn[cur] EXCEPT !.status = "failed"]
  <2>1. cur \in Txns /\ Open(cur) /\ txn[cur] \in Transactions /\ RecordOK(cur, txn[cur])
    BY <1>0, <1>5 DEF RecoverFailed, RecoverOK, TypeOK, TxnOK
  <2>2. RecordOK(cur, k) /\ k.status = "failed"
    BY <2>1, StatusKnown, StatusType DEF Status
  <2>3. Journal(cur, k) /\ End /\ UNCHANGED <<host, pending, device, blind>>
    BY <1>5 DEF RecoverFailed
  <2> HIDE DEF k
  <2>4. DataOK'
    BY <1>0, <2>1, <2>2, <2>3, JournalData DEF Terminal
  <2> QED BY <2>3, <2>4, EndCommand
<1>6. CASE RecoverUndo
  <2>1. DataOK'
    BY <1>0, <1>6, SameData DEF RecoverUndo, history
  <2>2. RecoverOK'
    BY <1>0, <1>6 DEF RecoverUndo, RecoverOK, disk, device, Open, Present, Created, Collected
  <2>3. ApplyOK' /\ HostCommandOK'
    BY <1>0, <1>6 DEF RecoverUndo, ApplyOK, HostCommandOK, Applying, Born, device
  <2> QED BY <2>1, <2>2, <2>3 DEF CommandOK
<1>7. ASSUME NEW d \in Devices, RecoverDelete(d) \/ RecoverDeleteFails(d)
      PROVE  DataOK' /\ CommandOK'
  <2>1. cur \in Txns /\ Open(cur) /\ txn[cur] \in Transactions /\ RecordOK(cur, txn[cur])
        /\ Present(txn[cur]) = {} /\ d \in Created(txn[cur]) /\ Collected(cur, todo)
    BY <1>0, <1>7 DEF RecoverDelete, RecoverDeleteFails, RecoverOK, TypeOK, TxnOK
  <2>2. \A a \in txn[cur].planned : txn[cur].id[a] # None => host[a] # txn[cur].id[a]
    BY <2>1 DEF Present
  <2>3. d \notin Base(cur) /\ (d \in alive => d \notin Configured)
    BY <1>0, <2>1, <2>2, CreatedIsOwn
  <2>4. Delete(d, cur) \/ UNCHANGED device
    BY <1>7 DEF RecoverDelete, RecoverDeleteFails
  <2>5. Thinned(cur)
    BY <1>0, <2>1, <2>4, ThinnedSteps, ThinnedStutter
  <2>6. \A e \in Devices : ender'[e] # ender[e] => e \notin Base(cur) /\ e \notin Configured
    BY <1>0, <2>3, <2>4, DeleteEnds DEF device
  <2>7. UNCHANGED <<host, pending, before, blind>>
    BY <1>7 DEF RecoverDelete, RecoverDeleteFails, disk, history, Journal
  <2>8. CASE RecoverDelete(d)
    <3>1. UNCHANGED txn
      BY <2>8 DEF RecoverDelete, disk
    <3>2. DataOK'
      BY <1>0, <2>1, <2>5, <2>6, <2>7, <3>1, ThinnedData
    <3>3. RecoverOK'
      <4>1. d \notin alive'
        BY <2>8, DeleteEnds DEF RecoverDelete
      <4>2. \A e \in alive' : maker'[e] = cur => e \in alive /\ maker[e] = cur
        BY <2>1, <2>5, DevicesAssumption DEF Thinned
      <4> QED BY <1>0, <2>1, <2>7, <2>8, <3>1, <4>1, <4>2
              DEF RecoverDelete, RecoverOK, Open, Present, Created, Collected
    <3>4. HostCommandOK' /\ ApplyOK'
      BY <1>0, <2>5, <2>8 DEF RecoverDelete, ApplyOK, HostCommandOK, Applying, Thinned, TypeOK
    <3> QED BY <3>2, <3>3, <3>4 DEF CommandOK
  <2>9. CASE RecoverDeleteFails(d)
    <3> DEFINE k == [txn[cur] EXCEPT !.status = "rollback_incomplete"]
    <3>1. k.planned = txn[cur].planned /\ k.id = txn[cur].id /\ k.pre = txn[cur].pre
          /\ k.status = "rollback_incomplete"
      BY <2>1, StatusType DEF Status
    <3>2. Journal(cur, k) /\ End
      BY <2>9 DEF RecoverDeleteFails
    <3> HIDE DEF k
    <3>3. txn'[cur] = k /\ \A u \in Txns \ {cur} : txn'[u] = txn[u]
      BY <2>1, <3>2 DEF Journal, TypeOK
    <3>4. \A u \in Txns :
            \/ txn'[u] = txn[u]
            \/ /\ Open(u) /\ Open(u)' /\ txn'[u].planned = txn[u].planned
               /\ txn'[u].id = txn[u].id /\ txn'[u].pre = txn[u].pre
      <4> TAKE u \in Txns
      <4>1. CASE u # cur
        BY <3>3, <4>1
      <4>2. CASE u = cur
        <5>1. Open(u)'
          BY <3>1, <3>3, <4>2 DEF Open, Terminal
        <5> QED BY <2>1, <3>1, <3>3, <4>2, <5>1
      <4> QED BY <4>1, <4>2
    <3>5. DataOK'
      BY <1>0, <2>1, <2>5, <2>6, <2>7, <3>4, ThinnedData
    <3> QED BY <3>2, <3>5, EndCommand
  <2> QED BY <1>7, <2>8, <2>9
<1> QED BY <1>1, <1>2, <1>3, <1>4, <1>5, <1>6, <1>7 DEF Recover

(* ... the record of a plan, ... *)
LEMMA ApplyBegins ==
  ASSUME IInv, TypeOK', NEW t \in Txns,
         NothingMissing(t) \/ \E S \in SUBSET Aliases : Plan(t, S)
  PROVE  DataOK' /\ CommandOK'
<1> USE Names DEF IInv
<1>0. TypeOK /\ DataOK /\ DeviceOK /\ HostOK /\ TxnOK /\ HostCommandOK
  BY DEF DataOK, CommandOK
<1>1. /\ \A u \in Txns : ~Open(u) /\ before[u] = {}
      /\ txn[t] = NoTxn /\ \A d \in Devices : maker[d] # t /\ ender[d] # t
  BY <1>0 DEF NothingMissing, Plan, TxnOK
<1>2. \A d \in alive : d \in Devices /\ Born(d)
  BY <1>0 DEF DeviceOK, TypeOK, Born
<1>3. CASE NothingMissing(t)
  <2>1. /\ \A u \in Txns \ {t} : txn'[u] = txn[u]
        /\ txn'[t].status = "finalized" /\ UNCHANGED <<host, pending, device, before, blind>>
    BY <1>1, <1>3, NoTxnType, StatusType DEF NothingMissing, history, TypeOK, Status
  <2>2. \A u \in Txns : ~Open(u)'
    BY <1>1, <2>1 DEF Open, Terminal
  <2>3. DeviceOK' /\ HostOK'
    BY <1>0, <2>1 DEF DeviceOK, HostOK, Born, device
  <2>4. TxnOK'
    <3>1. ASSUME NEW u \in Txns, txn'[u].status = "none"
          PROVE  txn'[u] = NoTxn /\ \A d \in Devices : maker'[d] # u /\ ender'[d] # u
      BY <1>0, <2>1, <3>1 DEF TxnOK, device
    <3> QED BY <1>1, <2>1, <2>2, <3>1 DEF TxnOK
  <2>5. BaselineKept' /\ ConfiguredKept' /\ RollbackComplete' /\ AccountedFor'
    BY <1>0, <1>1, <2>1, <1>2 DEF DataOK, BaselineKept, ConfiguredKept, Configured, RollbackComplete,
                             AccountedFor, device
  <2>6. CommandOK'
    BY <1>3, EndCommand DEF NothingMissing
  <2> QED BY <2>3, <2>4, <2>5, <2>6 DEF DataOK
<1>4. ASSUME NEW S \in SUBSET Aliases, Plan(t, S)
      PROVE  DataOK' /\ CommandOK'
  <2>1. /\ \A u \in Txns \ {t} : txn'[u] = txn[u] /\ before'[u] = before[u]
        /\ txn'[t] = job' /\ before'[t] = alive
        /\ UNCHANGED <<host, pending, device, old, failed, blind>>
    BY <1>4 DEF Plan, TypeOK
  <2>2. job'.status = "intent" /\ job'.planned = {} /\ (\A a \in Aliases : job'.id[a] = None /\ job'.pre[a] = {})
    <3>1. NoTxn.planned = {} /\ \A a \in Aliases : NoTxn.id[a] = None /\ NoTxn.pre[a] = {}
      BY DEF NoTxn
    <3>2. job' = [NoTxn EXCEPT !.status = "intent"] /\ "intent" \in Status
      BY <1>4 DEF Plan, Status
    <3> QED BY <3>1, <3>2, NoTxnType, StatusType
  <2>3. Open(t)' /\ \A u \in Txns \ {t} : ~Open(u)'
    BY <1>1, <2>1, <2>2 DEF Open, Terminal
  <2>4. RecordOK(t, job)'
    <3>1. Own(t)' = {}
      BY <1>1, <2>1, <1>2 DEF Own, device
    <3> QED BY <2>2, <3>1 DEF RecordOK, Known
  <2>5. DeviceOK' /\ HostOK'
    BY <1>0, <2>1 DEF DeviceOK, HostOK, Born, device
  <2>6. TxnOK'
    <3>1. ASSUME NEW u \in Txns
          PROVE  /\ txn'[u].status = "none" =>
                      txn'[u] = NoTxn /\ \A d \in Devices : maker'[d] # u /\ ender'[d] # u
                 /\ ~Open(u)' => before'[u] = {}
                 /\ \A d \in before'[u] : Born(d)'
                 /\ Open(u)' => RecordOK(u, txn[u])'
      BY <1>0, <1>1, <1>2, <2>1, <2>2, <2>3, <2>4 DEF TxnOK, device, Born
    <3>2. \A u, v \in Txns : Open(u)' /\ Open(v)' => u = v
      BY <2>3
    <3> QED BY <3>1, <3>2 DEF TxnOK
  <2>7. BaselineKept' /\ ConfiguredKept' /\ RollbackComplete' /\ AccountedFor'
    BY <1>0, <1>1, <2>1, <2>2, <1>2 DEF DataOK, BaselineKept, ConfiguredKept, Configured, RollbackComplete,
                                   AccountedFor, device
  <2>8. pc = "recover" /\ pc' = "capture" /\ cur' = t /\ want' = S /\ \A a \in S : host[a] = None
    BY <1>4 DEF Plan, Plans, Missing
  <2>9. ApplyOK'
    BY <2>1, <2>2, <2>3, <2>4, <2>8 DEF ApplyOK, Applying, Terminal, Unresolved
  <2>10. RecoverOK' /\ HostCommandOK'
    BY <1>0, <2>1, <2>8 DEF RecoverOK, HostCommandOK, Born, device
  <2> QED BY <2>5, <2>6, <2>7, <2>9, <2>10 DEF DataOK, CommandOK
<1> QED BY <1>3, <1>4

(* What an addition that is noted without an identifier makes of the record. *)
LEMMA NotedKnown ==
  ASSUME TypeOK, DeviceOK, NEW t \in Txns, NEW j \in Transactions, RecordOK(t, j),
         NEW a \in Aliases, host[a] = None, a \notin j.planned,
         NEW k, k.planned = j.planned \cup {a}, k.id = j.id,
         \/ k.pre = [j.pre EXCEPT ![a] = Named(a)]
         \/ k.pre = j.pre /\ t \in blind
  PROVE  RecordOK(t, k)
<1>1. Known(j, host, alive, name, Own(t), Base(t), Bred) /\ j.id[a] = None
  BY DEF RecordOK, Known
<1>2. \A b \in Aliases \ {a} : k.pre[b] = j.pre[b]
  BY DEF Transactions
<1>3. CASE k.pre = [j.pre EXCEPT ![a] = Named(a)]
  <2>1. k.pre[a] = {d \in alive : name[d] = a}
    BY <1>3 DEF Transactions, Named
  <2>2. k.pre[a] \subseteq Bred
    BY <2>1 DEF Bred, Born, TypeOK, DeviceOK
  <2> QED BY <1>1, <1>2, <2>1, <2>2 DEF RecordOK, Known, Transactions
<1>4. CASE k.pre = j.pre /\ t \in blind
  <2>1. Base(t) = {}
    BY <1>4 DEF Base
  <2> QED BY <1>1, <1>4, <2>1 DEF RecordOK, Known
<1> QED BY <1>3, <1>4

(* ... an addition and its baseline, ... *)
LEMMA CaptureKeeps ==
  ASSUME IInv, TypeOK', NEW a \in Aliases, Capture(a) \/ CaptureFails(a)
  PROVE  DataOK' /\ CommandOK'
<1> USE Names DEF IInv
<1>0. TypeOK /\ DataOK /\ DeviceOK /\ HostOK /\ TxnOK /\ ApplyOK /\ HostCommandOK /\ job \in Transactions
  BY DEF DataOK, CommandOK, TypeOK
<1>1. /\ pc = "capture" /\ a \in want /\ cur \in Txns /\ Open(cur) /\ RecordOK(cur, job) /\ job = txn[cur]
      /\ host[a] = None /\ a \notin job.planned /\ Unresolved(job) = {}
      /\ \A b \in job.planned : host[b] = None /\ (job.id[b] # None => ender[job.id[b]] = None)
      /\ \A b \in want : host[b] = None /\ b \notin job.planned
  BY <1>0 DEF Capture, CaptureFails, ApplyOK, Applying
<1>2. job.id[a] = None /\ \A d \in Own(cur) : name[d] \in job.planned
  BY <1>1 DEF RecordOK, Known
<1>3. CASE Capture(a)
  <2>1. /\ job'.status = "creating" /\ job'.planned = job.planned \cup {a} /\ job'.id = job.id
        /\ job'.pre = [job.pre EXCEPT ![a] = Named(a)]
    <3>1. Named(a) \in SUBSET Devices
      BY <1>0 DEF Named, TypeOK
    <3>2. job' = [job EXCEPT !.status = "creating", !.planned = @ \cup {a}, !.pre[a] = Named(a)]
      BY <1>3 DEF Capture
    <3> DEFINE pre == [job.pre EXCEPT ![a] = Named(a)]
    <3>3. job' = [status |-> "creating", planned |-> job.planned \cup {a}, id |-> job.id, pre |-> pre]
      BY <1>0, <3>2 DEF Transactions
    <3> QED BY <3>3
  <2>2. RecordOK(cur, job')
    BY <1>0, <1>1, <2>1, NotedKnown
  <2>3. Journal(cur, job') /\ UNCHANGED <<host, pending, device, blind, cur, old, failed>>
        /\ want' = want \ {a} /\ target' = a /\ pc' = "create"
    BY <1>3 DEF Capture
  <2>4. DataOK' /\ Open(cur)' /\ txn'[cur] = job' /\ RecordOK(cur, job)'
    <3>1. PICK t \in Txns : t = cur
      BY <1>1
    <3>2. Journal(t, job') /\ RecordOK(t, job') /\ Open(t) /\ job'.status \notin Terminal \cup {"none"}
      BY <1>1, <2>1, <2>2, <2>3, <3>1 DEF Terminal
    <3>3. /\ DataOK' /\ Open(t)' /\ txn'[t] = job'
          /\ Known(job', host', alive', name', Own(t)', Base(t)', Bred')
      BY <1>0, <2>3, <3>2, JournalData
    <3> QED BY <2>3, <3>1, <3>3 DEF Open, RecordOK, Own, Base
  <2>5. \A d \in alive : maker[d] = cur => name[d] # a
    BY <1>1, <1>2 DEF Own
  <2>6. Unresolved(job') = {a}
    BY <1>1, <1>2, <2>1 DEF Unresolved
  <2>7. ApplyOK'
    <3>1. pc' = "create" /\ cur' = cur /\ job'.status = "creating" /\ job' = txn'[cur'] /\ Unresolved(job)' = {target'}
      BY <2>1, <2>3, <2>4, <2>6 DEF Unresolved
    <3>2. Open(cur)' /\ RecordOK(cur, job)'
      BY <2>4
    <3>3. /\ \A b \in job'.planned : host'[b] = None /\ (job'.id[b] # None => ender'[job'.id[b]] = None)
          /\ \A b \in want' : host'[b] = None /\ b \notin job'.planned
          /\ \A d \in alive' : maker'[d] = cur' => name'[d] # target'
      BY <1>1, <1>2, <2>1, <2>3, <2>5 DEF device
    <3> QED BY <1>1, <3>1, <3>2, <3>3 DEF ApplyOK, Applying, Terminal
  <2>8. RecoverOK' /\ HostCommandOK'
    BY <1>0, <2>3 DEF RecoverOK, HostCommandOK, Born, device
  <2> QED BY <2>4, <2>7, <2>8 DEF CommandOK
<1>4. CASE CaptureFails(a)
  <2>1. /\ job'.status = "creating" /\ job'.planned = job.planned \cup {a} /\ job'.id = job.id
        /\ job'.pre = job.pre
    BY <1>0, <1>4 DEF CaptureFails, Transactions
  <2>2. /\ UNCHANGED <<disk, device, before, cur, old, failed>> /\ blind' = blind \cup {cur} /\ pc' = "undo"
    BY <1>4 DEF CaptureFails
  <2>3. DataOK'
    BY <1>0, <2>2, SameData
  <2>4. RecordOK(cur, job)'
    <3>1. Own(cur)' = Own(cur) /\ Base(cur)' = {} /\ Bred' = Bred /\ cur' = cur
      BY <2>2 DEF Own, Base, Bred, Born, device
    <3>2. Known(job, host, alive, name, Own(cur), Base(cur), Bred)
      BY <1>1 DEF RecordOK
    <3>3. Known(job', host, alive, name, Own(cur), {}, Bred)
      BY <1>1, <1>2, <2>1, <3>2 DEF Known
    <3> QED BY <2>2, <3>1, <3>3 DEF RecordOK, device, disk, Own, Base
  <2>5. ApplyOK'
    <3>1. Open(cur)' /\ cur' \in Txns
      BY <1>1, <2>2 DEF Open, disk
    <3>2. \A b \in job'.planned : host'[b] = None
      BY <1>1, <2>1, <2>2 DEF disk
    <3> QED BY <2>1, <2>2, <2>4, <3>1, <3>2 DEF ApplyOK, Applying, Terminal
  <2>6. RecoverOK' /\ HostCommandOK'
    BY <1>0, <2>2 DEF RecoverOK, HostCommandOK, Born, device
  <2> QED BY <2>3, <2>5, <2>6 DEF CommandOK
<1> QED BY <1>3, <1>4

(* ... its device, ... *)
LEMMA CreateKeeps ==
  ASSUME IInv, TypeOK', (\E d \in Devices : Create(d)) \/ CreateFails
  PROVE  DataOK' /\ CommandOK'
<1> USE Names DEF IInv
<1>0. TypeOK /\ DataOK /\ DeviceOK /\ HostOK /\ TxnOK /\ ApplyOK /\ HostCommandOK /\ job \in Transactions
  BY DEF DataOK, CommandOK, TypeOK
<1>1. PICK t \in Txns : t = cur
  BY <1>0 DEF Create, CreateFails, ApplyOK, Applying
<1>2. /\ pc = "create" /\ Open(t) /\ RecordOK(t, job) /\ job = txn[t]
      /\ job.status \notin Terminal \cup {"none"}
      /\ Unresolved(job) = {target} /\ target \in job.planned /\ target \in Aliases /\ job.id[target] = None
      /\ \A b \in job.planned : host[b] = None /\ (job.id[b] # None => ender[job.id[b]] = None)
      /\ \A b \in want : host[b] = None /\ b \notin job.planned
      /\ \A d \in alive : maker[d] = t => name[d] # target
  BY <1>0, <1>1 DEF Create, CreateFails, ApplyOK, Applying, Unresolved, Transactions
<1>3. UNCHANGED <<disk, before, blind, cur, job, want, target, old, failed>>
  BY DEF Create, CreateFails, local, history
<1>4. ASSUME NEW d \in Devices, Make(d, target, t)
      PROVE  /\ DataOK' /\ RecordOK(t, txn[t])' /\ Open(t)'
             /\ d \notin before[t] /\ ender[d] = None /\ ender' = ender /\ Born(d)' /\ name'[d] = target
             /\ \A e \in alive' : e # d => e \in alive /\ maker'[e] = maker[e] /\ name'[e] = name[e]
             /\ \A e \in Devices : Born(e) => Born(e)'
  <2>1. DataOK' /\ RecordOK(t, txn[t])'
    BY <1>0, <1>2, <1>3, <1>4, MakeOwn
  <2>2. /\ ~Born(d) /\ alive' = alive \cup {d} /\ ender' = ender /\ name'[d] = target /\ maker'[d] = t
        /\ \A e \in Devices \ {d} : name'[e] = name[e] /\ maker'[e] = maker[e]
    BY <1>0, <1>4 DEF Make, Born, TypeOK
  <2>3. d \notin before[t] /\ ender[d] = None
    BY <1>0, <2>2 DEF TxnOK, DeviceOK, Born
  <2> QED BY <1>0, <1>2, <1>3, <2>1, <2>2, <2>3, DevicesAssumption DEF Open, disk, Born, TypeOK
<1>5. ASSUME NEW d \in Devices, Create(d)
      PROVE  DataOK' /\ CommandOK'
  <2>1. Make(d, target, t) /\ made' = d /\ pc' = "note"
    BY <1>1, <1>5 DEF Create
  <2>2. /\ DataOK' /\ RecordOK(t, txn[t])' /\ Open(t)'
        /\ d \notin before[t] /\ ender[d] = None /\ ender' = ender /\ Born(d)' /\ name'[d] = target
        /\ \A e \in alive' : e # d => e \in alive /\ maker'[e] = maker[e] /\ name'[e] = name[e]
        /\ \A e \in Devices : Born(e) => Born(e)'
    BY <1>4, <2>1
  <2>3. Open(cur)' /\ RecordOK(cur, job)' /\ job' = txn'[cur']
    BY <1>1, <1>2, <1>3, <2>2 DEF RecordOK, Own, Base, Open, disk
  <2>4. d # None /\ d \notin before'[cur'] /\ ender'[d] = None
    BY <1>1, <1>3, <2>2
  <2>5. \A e \in alive' : maker'[e] = cur' /\ name'[e] = target' => e = d
    BY <1>1, <1>2, <1>3, <2>2
  <2>6. Unresolved(job)' = {target'}
    BY <1>2, <1>3 DEF Unresolved
  <2>7. /\ \A b \in job'.planned : host'[b] = None /\ (job'.id[b] # None => ender'[job'.id[b]] = None)
        /\ \A b \in want' : host'[b] = None /\ b \notin job'.planned
        /\ job'.status \notin Terminal \cup {"none"} /\ cur' \in Txns
    BY <1>1, <1>2, <1>3, <2>2 DEF disk
  <2>8. ApplyOK'
    BY <1>3, <2>1, <2>2, <2>3, <2>4, <2>5, <2>6, <2>7 DEF ApplyOK, Applying
  <2>9. RecoverOK' /\ HostCommandOK'
    BY <1>0, <1>3, <2>1, <2>2 DEF RecoverOK, HostCommandOK, TypeOK
  <2> QED BY <2>2, <2>8, <2>9 DEF CommandOK
<1>6. CASE CreateFails
  <2>1. pc' = "undo" /\ UNCHANGED blind /\ (UNCHANGED device \/ \E d \in Devices : Make(d, target, t))
    BY <1>1, <1>6 DEF CreateFails, history
  <2>2. DataOK' /\ RecordOK(t, txn[t])' /\ Open(t)' /\ \A e \in Devices : Born(e) => Born(e)'
    <3>1. CASE UNCHANGED device
      <4>1. DataOK'
        BY <1>0, <1>3, <2>1, <3>1, SameData
      <4> QED BY <1>2, <1>3, <3>1, <4>1 DEF RecordOK, Own, Base, Bred, Born, disk, device, Open
    <3>2. CASE \E d \in Devices : Make(d, target, t)
      BY <1>4, <3>2
    <3> QED BY <2>1, <3>1, <3>2
  <2>3. Open(cur)' /\ RecordOK(cur, job)' /\ job' = txn'[cur']
    BY <1>1, <1>2, <1>3, <2>2 DEF RecordOK, Own, Base, Open, disk
  <2>4. /\ \A b \in job'.planned : host'[b] = None
        /\ job'.status \notin Terminal \cup {"none"} /\ cur' \in Txns
    BY <1>1, <1>2, <1>3 DEF disk
  <2>5. ApplyOK'
    BY <2>1, <2>3, <2>4 DEF ApplyOK, Applying
  <2>6. RecoverOK' /\ HostCommandOK'
    BY <1>0, <1>3, <2>1, <2>2 DEF RecoverOK, HostCommandOK, TypeOK
  <2> QED BY <2>2, <2>5, <2>6 DEF CommandOK
<1> QED BY <1>5, <1>6

(* ... the identifier that goes into the record, ... *)
LEMMA NoteKeeps ==
  ASSUME IInv, TypeOK', Note
  PROVE  DataOK' /\ CommandOK'
<1> USE Names DEF IInv
<1>0. TypeOK /\ DataOK /\ DeviceOK /\ HostOK /\ TxnOK /\ ApplyOK /\ HostCommandOK /\ job \in Transactions
  BY DEF DataOK, CommandOK, TypeOK
<1>1. PICK t \in Txns : t = cur
  BY <1>0 DEF Note, ApplyOK, Applying
<1>2. /\ Open(t) /\ RecordOK(t, job)
      /\ job.status \notin Terminal \cup {"none"}
      /\ Unresolved(job) = {target} /\ target \in job.planned /\ target \in Aliases /\ job.id[target] = None
      /\ \A b \in job.planned : host[b] = None /\ (job.id[b] # None => ender[job.id[b]] = None)
      /\ \A b \in want : host[b] = None /\ b \notin job.planned
      /\ made \in Devices /\ Born(made) /\ ender[made] = None /\ made \notin before[t]
      /\ made \in alive => name[made] = target
      /\ \A d \in alive : maker[d] = t /\ name[d] = target => d = made
  BY <1>0, <1>1 DEF Note, ApplyOK, Applying, Unresolved, Transactions, TypeOK
<1>3. UNCHANGED <<host, pending, device, blind, cur, want, old, failed>> /\ Journal(t, job') /\ pc' = "capture"
  BY <1>1 DEF Note
<1>4. /\ job'.status = job.status /\ job'.planned = job.planned /\ job'.pre = job.pre
      /\ job'.id[target] = made /\ \A b \in Aliases \ {target} : job'.id[b] = job.id[b]
  BY <1>0, <1>2, IdType DEF Note, Transactions
<1>5. RecordOK(t, job')
  <2>1. Known(job, host, alive, name, Own(t), Base(t), Bred) /\ job.planned \subseteq Aliases
    BY <1>0, <1>2 DEF RecordOK, Transactions
  <2>2. made \in Bred \ Base(t) /\ \A d \in Own(t) : name[d] = target => d = made
    BY <1>2 DEF Bred, Base, Own
  <2> QED BY <1>2, <1>4, <2>1, <2>2 DEF RecordOK, Known
<1>6. /\ DataOK' /\ Open(t)' /\ txn'[t] = job'
      /\ Known(job', host', alive', name', Own(t)', Base(t)', Bred')
  BY <1>0, <1>2, <1>3, <1>4, <1>5, JournalData
<1>7. Open(cur)' /\ RecordOK(cur, job)' /\ job' = txn'[cur'] /\ cur' \in Txns
  BY <1>1, <1>3, <1>6 DEF Open, RecordOK, Own, Base
<1>8. Unresolved(job)' = {}
  BY <1>0, <1>2, <1>4 DEF Unresolved, Transactions
<1>9. /\ \A b \in job'.planned : host'[b] = None /\ (job'.id[b] # None => ender'[job'.id[b]] = None)
      /\ \A b \in want' : host'[b] = None /\ b \notin job'.planned
      /\ job'.status \notin Terminal \cup {"none"}
  BY <1>0, <1>2, <1>3, <1>4 DEF device, Transactions
<1>10. ApplyOK'
  BY <1>3, <1>7, <1>8, <1>9 DEF ApplyOK, Applying
<1>11. RecoverOK' /\ HostCommandOK'
  BY <1>0, <1>3 DEF RecoverOK, HostCommandOK, Born, device
<1> QED BY <1>6, <1>10, <1>11 DEF CommandOK

(* ... the commit, ... *)
LEMMA CommitKeeps ==
  ASSUME IInv, TypeOK', Commit \/ CommitFails
  PROVE  DataOK' /\ CommandOK'
<1> USE Names DEF IInv
<1>0. TypeOK /\ DataOK /\ DeviceOK /\ HostOK /\ TxnOK /\ ApplyOK /\ HostCommandOK /\ job \in Transactions
  BY DEF DataOK, CommandOK, TypeOK
<1>1. PICK t \in Txns : t = cur
  BY <1>0 DEF Commit, CommitFails, ApplyOK, Applying
<1>2. /\ pc = "capture" /\ Open(t) /\ RecordOK(t, job) /\ job = txn[t]
      /\ job.status \notin Terminal \cup {"none"}
      /\ \A b \in job.planned : b \in Aliases /\ job.id[b] \in Devices /\ host[b] = None /\ ender[job.id[b]] = None
  BY <1>0, <1>1 DEF Commit, CommitFails, ApplyOK, Applying, Unresolved, Transactions
<1>3. UNCHANGED <<pending, txn, device, before, blind, cur, job, old, failed>>
  BY DEF Commit, CommitFails, local, history, disk
<1>4. CASE Commit
  <2>1. /\ pc' = "committed"
        /\ \A a \in Aliases : host'[a] = IF a \in job.planned THEN job.id[a] ELSE host[a]
    BY <1>4 DEF Commit
  <2>2. \A b \in job.planned : Born(job.id[b]) /\ (job.id[b] \in alive => name[job.id[b]] = b)
    BY <1>2 DEF RecordOK, Known, Bred
  <2>3. \A a \in Aliases : host'[a] # None => Born(host'[a]) /\ ender[host'[a]] \notin Txns
                                           /\ (host'[a] \in alive => name[host'[a]] = a)
    BY <1>0, <1>2, <2>1, <2>2 DEF HostOK, DataOK, ConfiguredKept, Configured, TypeOK
  <2>4. \A u \in Txns : Open(u) => \A a \in txn[u].planned : txn[u].id[a] = None => host'[a] = None
    BY <1>0, <1>2 DEF TxnOK
  <2>5. Configured \subseteq Configured'
    BY <1>2, <2>1 DEF Configured
  <2>6. DataOK'
    BY <1>0, <1>3, <2>3, <2>4, <2>5, HostData DEF HostOK
  <2>7. Open(cur)' /\ cur' \in Txns /\ job' = txn'[cur']
    BY <1>1, <1>2, <1>3 DEF Open
  <2>8. RecordOK(cur, job)'
    <3>1. Own(cur)' = Own(t) /\ Base(cur)' = Base(t) /\ Bred' = Bred
      BY <1>1, <1>3 DEF Own, Base, Bred, Born, device
    <3>2. Known(job, host', alive, name, Own(t), Base(t), Bred)
      BY <1>2, <2>1 DEF RecordOK, Known
    <3> QED BY <1>3, <3>1, <3>2 DEF RecordOK, device
  <2>9. ApplyOK'
    <3>1. \A a \in job'.planned : job'.id[a] # None /\ host'[a] = job'.id[a]
      BY <1>2, <1>3, <2>1
    <3>2. job'.status \notin Terminal \cup {"none"}
      BY <1>2, <1>3
    <3> QED BY <2>1, <2>7, <2>8, <3>1, <3>2 DEF ApplyOK, Applying
  <2>10. RecoverOK' /\ HostCommandOK'
    BY <1>0, <1>3, <2>1 DEF RecoverOK, HostCommandOK, Born, device
  <2> QED BY <2>6, <2>9, <2>10 DEF CommandOK
<1>5. CASE CommitFails
  <2>1. pc' = "undo" /\ UNCHANGED <<disk, host>>
    BY <1>5 DEF CommitFails, disk
  <2>2. DataOK'
    BY <1>0, <1>3, <2>1, SameData
  <2>3. Open(cur)' /\ cur' \in Txns /\ RecordOK(cur, job)'
    BY <1>1, <1>2, <1>3, <2>1 DEF Open, RecordOK, Own, Base, Bred, Born, device
  <2>4. ApplyOK'
    BY <1>2, <1>3, <2>1, <2>3 DEF ApplyOK, Applying
  <2>5. RecoverOK' /\ HostCommandOK'
    BY <1>0, <1>3, <2>1 DEF RecoverOK, HostCommandOK, Born, device
  <2> QED BY <2>2, <2>4, <2>5 DEF CommandOK
<1> QED BY <1>4, <1>5

(* ... what follows the commit, ... *)
LEMMA CommittedKeeps ==
  ASSUME IInv, TypeOK', Committed \/ Finalize \/ RequireRecovery
  PROVE  DataOK' /\ CommandOK'
<1> USE Names DEF IInv
<1>0. TypeOK /\ DataOK /\ DeviceOK /\ HostOK /\ TxnOK /\ ApplyOK /\ HostCommandOK /\ job \in Transactions
  BY DEF DataOK, CommandOK, TypeOK
<1>1. PICK t \in Txns : t = cur
  BY <1>0 DEF Committed, Finalize, RequireRecovery, ApplyOK, Applying
<1>2. /\ pc \in {"committed", "audit"} /\ Open(t) /\ RecordOK(t, job)
      /\ job.id = txn[t].id /\ job.planned = txn[t].planned
      /\ \A a \in job.planned : job.id[a] # None /\ host[a] = job.id[a]
  BY <1>0, <1>1 DEF Committed, Finalize, RequireRecovery, ApplyOK, Applying
<1>3. UNCHANGED <<host, pending, device, blind>>
  BY DEF Committed, Finalize, RequireRecovery
<1>4. CASE Committed
  <2>1. job' = [job EXCEPT !.status = "config_committed"] /\ Journal(t, job')
        /\ pc' = "audit" /\ UNCHANGED <<cur, old, failed>>
    BY <1>1, <1>4 DEF Committed
  <2>2. job'.status = "config_committed" /\ job'.planned = job.planned /\ job'.id = job.id
        /\ RecordOK(t, job')
    BY <1>0, <1>2, <2>1, StatusType, StatusKnown DEF Status
  <2>3. /\ DataOK' /\ Open(t)' /\ txn'[t] = job'
        /\ Known(job', host', alive', name', Own(t)', Base(t)', Bred')
    BY <1>0, <1>2, <1>3, <2>1, <2>2, JournalData DEF Terminal
  <2>4. Open(cur)' /\ RecordOK(cur, job)' /\ cur' \in Txns /\ job' = txn'[cur']
    BY <1>1, <2>1, <2>3 DEF Open, RecordOK, Own, Base
  <2>5. ApplyOK'
    <3>1. \A a \in job'.planned : job'.id[a] # None /\ host'[a] = job'.id[a]
      BY <1>2, <1>3, <2>2
    <3>2. job'.status \notin Terminal \cup {"none"}
      BY <2>2 DEF Terminal
    <3> QED BY <2>1, <2>4, <3>1, <3>2 DEF ApplyOK, Applying
  <2>6. RecoverOK' /\ HostCommandOK'
    BY <1>0, <1>3, <2>1 DEF RecoverOK, HostCommandOK, Born, device
  <2> QED BY <2>3, <2>5, <2>6 DEF CommandOK
<1>5. CASE Finalize
  <2>1. Close(t, "finalized") /\ End
    BY <1>1, <1>5 DEF Finalize
  <2>2. \A d \in alive : maker[d] = t => d \in Configured
    <3>1. Known(job, host, alive, name, Own(t), Base(t), Bred) /\ job.planned \subseteq Aliases
      BY <1>0, <1>2 DEF RecordOK, Transactions
    <3>2. \A d \in Own(t) : name[d] \in Aliases /\ host[name[d]] = d /\ d # None
      BY <1>0, <1>2, <3>1 DEF Known, Own, TypeOK
    <3> QED BY <3>2 DEF Own, Configured
  <2>3. DataOK'
    BY <1>0, <1>2, <1>3, <2>1, <2>2, CloseData
  <2> QED BY <2>1, <2>3, EndCommand
<1>6. CASE RequireRecovery
  <2> DEFINE k == [job EXCEPT !.status = "committed_recovery_required"]
  <2>1. Journal(t, k) /\ End
    BY <1>1, <1>6 DEF RequireRecovery
  <2>2. RecordOK(t, k) /\ k.status = "committed_recovery_required"
    BY <1>0, <1>2, StatusType, StatusKnown DEF Status
  <2> HIDE DEF k
  <2>3. DataOK'
    BY <1>0, <1>2, <1>3, <2>1, <2>2, JournalData DEF Terminal
  <2> QED BY <2>1, <2>3, EndCommand
<1> QED BY <1>4, <1>5, <1>6

(* ... the rollback, ... *)
LEMMA UndoKeeps ==
  ASSUME IInv, TypeOK', Undo \/ Undone \/ \E d \in Devices : UndoDelete(d)
  PROVE  DataOK' /\ CommandOK'
<1> USE Names DEF IInv
<1>0. TypeOK /\ DataOK /\ DeviceOK /\ HostOK /\ TxnOK /\ ApplyOK /\ HostCommandOK /\ job \in Transactions
  BY DEF DataOK, CommandOK, TypeOK
<1>1. PICK t \in Txns : t = cur
  BY <1>0 DEF Undo, Undone, UndoDelete, ApplyOK, Applying
<1>2. /\ pc \in {"undo", "undoDelete"} /\ Open(t) /\ RecordOK(t, job)
      /\ job.status \notin Terminal \cup {"none"}
      /\ \A b \in job.planned : host[b] = None
  BY <1>0, <1>1 DEF Undo, Undone, UndoDelete, ApplyOK, Applying
<1>3. CASE Undo
  <2>1. /\ job' = Resolved(job) /\ failed' = Ambiguous(job) /\ todo' = Created(job') /\ pc' = "undoDelete"
        /\ UNCHANGED <<disk, device, before, blind, cur, old>>
    BY <1>3 DEF Undo, history
  <2>2. /\ job'.planned = job.planned /\ job'.status = job.status /\ RecordOK(t, job')
        /\ Ambiguous(job) = {} => Collected(t, Created(job'))
    BY <1>0, <1>2, <2>1, ResolvedFinds, ResolvedKnown
  <2>3. DataOK'
    BY <1>0, <2>1, SameData
  <2>4. Open(cur)' /\ cur' \in Txns /\ RecordOK(cur, job)'
    BY <1>1, <1>2, <2>1, <2>2 DEF Open, RecordOK, Own, Base, Bred, Born, device, disk
  <2>5. failed' = {} => Collected(cur, todo)'
    BY <1>1, <2>1, <2>2 DEF Collected, device
  <2>6. /\ \A b \in job'.planned : host'[b] = None
        /\ job'.status \notin Terminal \cup {"none"} /\ todo' \subseteq Created(job)'
    BY <1>2, <2>1, <2>2 DEF disk, Created
  <2>7. ApplyOK'
    BY <2>1, <2>4, <2>5, <2>6 DEF ApplyOK, Applying
  <2>8. RecoverOK' /\ HostCommandOK'
    BY <1>0, <2>1 DEF RecoverOK, HostCommandOK, Born, device
  <2> QED BY <2>3, <2>7, <2>8 DEF CommandOK
<1>4. ASSUME NEW d \in Devices, UndoDelete(d)
      PROVE  DataOK' /\ CommandOK'
  <2>1. /\ pc = "undoDelete" /\ d \in todo /\ todo' = todo \ {d}
        /\ UNCHANGED <<disk, before, blind, pc, cur, job, old>>
        /\ Delete(d, t) \/ UNCHANGED device
        /\ failed' = {} => failed = {} /\ Delete(d, t)
    BY <1>1, <1>4 DEF UndoDelete, history
  <2>2. todo \subseteq Created(job) /\ (failed = {} => Collected(t, todo))
    BY <1>0, <1>1, <2>1 DEF ApplyOK
  <2>3. d \notin Base(t) /\ (d \in alive => d \notin Configured)
    BY <1>0, <1>2, <2>1, <2>2, CreatedIsOwn
  <2>4. Thinned(t)
    BY <1>0, <2>1, ThinnedSteps, ThinnedStutter
  <2>5. \A e \in Devices : ender'[e] # ender[e] => e \notin Base(t) /\ e \notin Configured
    BY <1>0, <2>1, <2>3, DeleteEnds DEF device
  <2>6. UNCHANGED <<host, pending, txn, before, blind>>
    BY <2>1 DEF disk
  <2>7. DataOK'
    BY <1>0, <1>2, <2>4, <2>5, <2>6, ThinnedData
  <2>8. Known(job, host', alive', name', Own(t)', Base(t)', Bred')
    <3>1. \A e \in before[t] : Born(e)
      BY <1>0 DEF TxnOK
    <3> QED BY <1>0, <1>2, <2>4, <2>6, <3>1, ThinnedRecord
  <2>9. Open(cur)' /\ cur' \in Txns /\ RecordOK(cur, job)'
    BY <1>1, <1>2, <2>1, <2>6, <2>8 DEF Open, RecordOK, Own, Base
  <2>10. failed' = {} => Collected(cur, todo)'
    <3>1. ASSUME failed' = {}, NEW e \in alive', maker'[e] = t
          PROVE  e \in todo'
      <4>1. e \in alive /\ maker[e] = t
        BY <2>4, <3>1, DevicesAssumption DEF Thinned
      <4>2. e # d
        BY <1>0, <2>1, <3>1, DeleteEnds
      <4> QED BY <2>1, <2>2, <3>1, <4>1, <4>2 DEF Collected
    <3> QED BY <1>1, <2>1, <3>1 DEF Collected
  <2>11. ApplyOK'
    <3>1. /\ \A b \in job'.planned : host'[b] = None
          /\ job'.status \notin Terminal \cup {"none"} /\ todo' \subseteq Created(job)'
      BY <1>2, <2>1, <2>2 DEF disk, Created
    <3> QED BY <2>1, <2>9, <2>10, <3>1 DEF ApplyOK, Applying
  <2>12. RecoverOK' /\ HostCommandOK'
    BY <1>0, <2>1, <2>4 DEF RecoverOK, HostCommandOK, Thinned, TypeOK
  <2> QED BY <2>7, <2>11, <2>12 DEF CommandOK
<1>5. CASE Undone
  <2>1. End /\ UNCHANGED <<host, pending, device, blind>>
    BY <1>5 DEF Undone
  <2>2. CASE failed = {}
    <3>1. Close(t, "rolled_back") /\ \A d \in alive : maker[d] # t
      BY <1>0, <1>1, <1>5, <2>2 DEF Undone, ApplyOK, Collected
    <3>2. DataOK'
      BY <1>0, <1>2, <2>1, <3>1, CloseData
    <3> QED BY <2>1, <3>2, EndCommand
  <2>3. CASE failed # {}
    <3> DEFINE k == [job EXCEPT !.status = "rollback_incomplete"]
    <3>1. Journal(t, k)
      BY <1>1, <1>5, <2>3 DEF Undone
    <3>2. RecordOK(t, k) /\ k.status = "rollback_incomplete"
      BY <1>0, <1>2, StatusType, StatusKnown DEF Status
    <3> HIDE DEF k
    <3>3. DataOK'
      BY <1>0, <1>2, <2>1, <3>1, <3>2, JournalData DEF Terminal
    <3> QED BY <2>1, <3>3, EndCommand
  <2> QED BY <2>2, <2>3
<1> QED BY <1>3, <1>4, <1>5

(* ... all of them, ... *)
LEMMA ApplyKeeps ==
  ASSUME IInv, TypeOK', Apply
  PROVE  DataOK' /\ CommandOK'
<1>1. CASE PlanRefused \/ UndoFails
  <2>1. End /\ UNCHANGED <<disk, device, before, blind>>
    BY <1>1 DEF PlanRefused, UndoFails, history
  <2>2. DataOK'
    BY <2>1, SameData DEF IInv
  <2> QED BY <2>1, <2>2, EndCommand
<1>2. CASE \E a \in Aliases : Capture(a) \/ CaptureFails(a)
  BY <1>2, CaptureKeeps
<1>3. CASE \E t \in Txns : NothingMissing(t) \/ \E S \in SUBSET Aliases : Plan(t, S)
  BY <1>3, ApplyBegins
<1>4. CASE (\E d \in Devices : Create(d)) \/ CreateFails
  BY <1>4, CreateKeeps
<1>5. CASE Undo \/ Undone \/ \E d \in Devices : UndoDelete(d)
  BY <1>5, UndoKeeps
<1> QED
  BY <1>1, <1>2, <1>3, <1>4, <1>5, NoteKeeps, CommitKeeps, CommittedKeeps DEF Apply

(* ... repair, ... *)
LEMMA RepairKeeps ==
  ASSUME IInv, TypeOK', Repair
  PROVE  DataOK' /\ CommandOK'
<1> USE Names DEF IInv
<1>0. TypeOK /\ DataOK /\ DeviceOK /\ HostOK /\ TxnOK /\ HostCommandOK /\ {} \in SUBSET Aliases
  BY DEF DataOK, CommandOK
<1>1. CASE (\E a \in Aliases : StartRepair(a)) \/ \E S \in SUBSET Aliases : StartPurposeRepair(S)
  <2>1. PICK S \in SUBSET Aliases : Start(S, "repair")
    BY <1>1 DEF StartRepair, StartPurposeRepair
  <2>2. DataOK'
    BY <1>0, <2>1, SameData DEF Start, history
  <2>3. CommandOK'
    BY <1>0, <2>1 DEF Start, CommandOK, RecoverOK, ApplyOK, HostCommandOK, Applying, Born, disk, device
  <2> QED BY <2>2, <2>3
<1>2. CASE RepairKeep
  <2>1. /\ target \in Aliases /\ host[target] \in alive /\ Born(host[target]) /\ name[host[target]] = target
        /\ ender[host[target]] \notin Txns
    BY <1>0, <1>2 DEF RepairKeep, HostCommandOK, HostOK, DataOK, ConfiguredKept, Configured, TypeOK
  <2>2. UNCHANGED <<disk, device, before, blind>>
    <3>1. name' = name
      BY <1>0, <1>2, <2>1 DEF RepairKeep, TypeOK
    <3> QED BY <1>2, <3>1 DEF RepairKeep, device, history
  <2>3. DataOK'
    BY <1>0, <2>2, SameData
  <2>4. pc = "repair" /\ pc' = "repoint" /\ made' = host[target] /\ UNCHANGED <<want, target, old, failed>>
    BY <1>2 DEF RepairKeep
  <2>5. CommandOK'
    BY <1>0, <2>1, <2>2, <2>4
       DEF CommandOK, RecoverOK, ApplyOK, HostCommandOK, Applying, Born, disk, device
  <2> QED BY <2>3, <2>5
<1>3. ASSUME NEW d \in Devices, RepairReuse(d) \/ RepairCreate(d)
      PROVE  DataOK' /\ CommandOK'
  <2>1. /\ UNCHANGED <<disk, before, blind, want, target, failed>> /\ target \in Aliases
        /\ pc = "repair" /\ pc' = "repoint" /\ made' = d /\ old' = Replaced
    BY <1>0, <1>3 DEF RepairReuse, RepairCreate, history, HostCommandOK, TypeOK
  <2>2. Thinned(None)
    BY <1>0, <1>3, <2>1, ThinnedSteps, ThinnedStutter DEF RepairReuse, RepairCreate
  <2>3. DataOK'
    BY <1>0, <2>1, <2>2, ThinnedData DEF disk
  <2>4. Born(d)' /\ ender'[d] = None /\ name'[d] = target
    BY <1>0, <1>3, <2>1 DEF RepairReuse, RepairCreate, Named, Make, Born, DeviceOK, TypeOK, device
  <2>5. host[target] \in alive' => host[target] \in alive
    BY <1>0, <2>1, <2>2 DEF Thinned, HostOK, TypeOK
  <2>6. old' # None => Born(old)'
    BY <1>0, <2>1, <2>2 DEF Thinned, HostOK, Replaced, TypeOK
  <2>7. HostCommandOK'
    BY <1>0, <2>1, <2>4, <2>5, <2>6 DEF HostCommandOK, Replaced, disk
  <2>8. RecoverOK' /\ ApplyOK'
    BY <2>1 DEF RecoverOK, ApplyOK, Applying
  <2> QED BY <2>3, <2>7, <2>8 DEF CommandOK
<1>4. ASSUME Repoint, pc = "repoint", UNCHANGED <<txn, device, before, blind>>
      PROVE  DataOK'
  <2>1. /\ target \in Aliases /\ made \in Devices /\ Born(made) /\ ender[made] \notin Txns
        /\ made \in alive => name[made] = target
        /\ host[target] \in alive => old = host[target] \/ made = host[target]
        /\ host[target] # None /\ (old # None => Born(old))
    BY <1>0, <1>4 DEF HostCommandOK, TypeOK
  <2>2. host'[target] = made /\ \A a \in Aliases \ {target} : host'[a] = host[a]
    BY <1>0, <1>4, <2>1 DEF Repoint, TypeOK
  <2>3. \A a \in Aliases : host'[a] # None => Born(host'[a]) /\ ender[host'[a]] \notin Txns
                                           /\ (host'[a] \in alive => name[host'[a]] = a)
    BY <1>0, <2>1, <2>2 DEF HostOK, DataOK, ConfiguredKept, Configured, TypeOK
  <2>4. \A d \in pending' : Born(d)
    BY <1>0, <1>4, <2>1 DEF Repoint, HostOK
  <2>5. \A t \in Txns : Open(t) => \A a \in txn[t].planned : txn[t].id[a] = None => host'[a] = None
    <3> TAKE t \in Txns
    <3> HAVE Open(t)
    <3> TAKE a \in txn[t].planned
    <3> HAVE txn[t].id[a] = None
    <3>1. host[a] = None /\ a \in Aliases
      BY <1>0 DEF TxnOK, RecordOK, Known, TypeOK, Transactions
    <3> QED BY <2>1, <2>2, <3>1
  <2>6. \A d \in alive : d \in Configured \cup pending => d \in Configured' \cup pending'
    <3> TAKE d \in alive
    <3> HAVE d \in Configured \cup pending
    <3>1. d \in Devices /\ d # None
      BY <1>0 DEF TypeOK
    <3>2. CASE d \in pending
      BY <1>4, <3>2 DEF Repoint
    <3>3. CASE d \in Configured
      <4>1. PICK a \in Aliases : host[a] = d
        BY <3>3 DEF Configured
      <4>2. CASE a # target
        BY <2>2, <3>1, <4>1, <4>2 DEF Configured
      <4>3. CASE a = target
        BY <1>4, <2>1, <2>2, <3>1, <4>1, <4>3 DEF Configured, Repoint
      <4> QED BY <4>2, <4>3
    <3> QED BY <3>2, <3>3
  <2> QED BY <1>0, <1>4, <2>3, <2>4, <2>5, <2>6, HostData
<1>5. CASE RepairCommit
  <2>1. /\ pc = "repoint" /\ Repoint /\ UNCHANGED <<txn, device, before, blind, want, target, old, failed>>
        /\ pc' = "retire" /\ todo' = (pending' \cap alive) \ {host'[a] : a \in Aliases}
    BY <1>5 DEF RepairCommit, history
  <2>2. DataOK'
    BY <1>4, <2>1
  <2>3. failed' = {} /\ target \in Aliases
    BY <1>0, <2>1 DEF HostCommandOK, TypeOK
  <2>4. \A d \in todo' : Born(d)'
    BY <1>0, <2>1 DEF DeviceOK, Born, device, TypeOK
  <2>5. \A d \in pending' \cap alive' : d \in todo' \cup Configured'
    BY <1>0, <2>1 DEF Configured, device, TypeOK
  <2>6. \A a \in want' : host'[a] # None /\ a # target'
    BY <1>0, <2>1, <2>3 DEF HostCommandOK, Repoint, TypeOK
  <2>7. HostCommandOK'
    BY <1>0, <2>1, <2>3, <2>4, <2>5, <2>6 DEF HostCommandOK, Born, device
  <2>8. RecoverOK' /\ ApplyOK'
    BY <2>1 DEF RecoverOK, ApplyOK, Applying
  <2> QED BY <2>2, <2>7, <2>8 DEF CommandOK
<1>6. CASE RepairCommitFails
  <2>1. /\ pc = "repoint" /\ Continue("repair", {}) /\ UNCHANGED <<txn, before, blind>>
        /\ \/ Repoint /\ UNCHANGED device
           \/ UNCHANGED <<host, pending, device>>
           \/ \E d \in todo : Delete(d, None) /\ UNCHANGED <<host, pending>>
    BY <1>6 DEF RepairCommitFails, history
  <2>2. DataOK'
    <3>1. CASE Repoint /\ UNCHANGED device
      BY <1>4, <2>1, <3>1
    <3>2. CASE UNCHANGED <<host, pending, device>>
      BY <1>0, <2>1, <3>2, SameData DEF disk
    <3>3. CASE \E d \in todo : Delete(d, None) /\ UNCHANGED <<host, pending>>
      <4>1. Thinned(None)
        BY <1>0, <3>3, ThinnedSteps DEF TypeOK
      <4> QED BY <1>0, <2>1, <3>3, <4>1, ThinnedData
    <3> QED BY <2>1, <3>1, <3>2, <3>3
  <2>3. \A a \in want : host'[a] # None
    BY <1>0, <2>1 DEF HostCommandOK, Repoint, TypeOK
  <2>4. CommandOK'
    BY <1>0, <2>1, <2>3, ContinueCommand
  <2> QED BY <2>2, <2>4
<1>7. ASSUME NEW d \in Devices, Retire(d)
      PROVE  DataOK' /\ CommandOK'
  <2>1. /\ pc = "retire" /\ d \in todo /\ todo' = todo \ {d}
        /\ \/ Delete(d, None) /\ failed' \in {failed, failed \cup {d}}
           \/ UNCHANGED device /\ failed' = failed \cup {d}
        /\ UNCHANGED <<disk, before, blind, pc, want, target, old>>
    BY <1>7 DEF Retire, history
  <2>2. Thinned(None)
    BY <1>0, <2>1, ThinnedSteps, ThinnedStutter
  <2>3. DataOK'
    BY <1>0, <2>1, <2>2, ThinnedData DEF disk
  <2>4. /\ failed \subseteq Devices /\ \A e \in todo \cup failed : Born(e)
        /\ \A e \in pending \cap alive : e \in todo \cup failed \cup Configured
    BY <1>0, <2>1 DEF HostCommandOK
  <2>5. \A e \in todo' \cup failed' : e \in Devices /\ Born(e)'
    BY <1>0, <2>1, <2>2, <2>4 DEF Thinned, TypeOK
  <2>6. \A e \in pending' \cap alive' : e \in todo' \cup failed' \cup Configured'
    <3> TAKE e \in pending' \cap alive'
    <3>1. e \in pending \cap alive
      BY <1>0, <2>1, <2>2 DEF Thinned, HostOK, disk
    <3>2. e = d => d \in failed'
      BY <1>0, <2>1, DeleteEnds
    <3> QED BY <2>1, <2>4, <3>1, <3>2 DEF Configured, disk
  <2>7. HostCommandOK'
    BY <1>0, <2>1, <2>2, <2>5, <2>6 DEF HostCommandOK, Thinned, disk, TypeOK
  <2>8. RecoverOK' /\ ApplyOK'
    BY <2>1 DEF RecoverOK, ApplyOK, Applying
  <2> QED BY <2>3, <2>7, <2>8 DEF CommandOK
<1>8. CASE Retired
  <2>1. /\ pc = "retire" /\ todo = {} /\ pending' = failed /\ Continue("repair", {})
        /\ UNCHANGED <<host, txn, device, before, blind>>
    BY <1>8 DEF Retired, history
  <2>2. \A d \in pending' : Born(d)
    BY <1>0, <2>1 DEF HostCommandOK
  <2>3. \A d \in alive : d \in Configured \cup pending => d \in Configured' \cup pending'
    BY <1>0, <2>1 DEF HostCommandOK, Configured
  <2>4. /\ \A a \in Aliases : host'[a] # None => Born(host'[a]) /\ ender[host'[a]] \notin Txns
                                           /\ (host'[a] \in alive => name[host'[a]] = a)
        /\ \A t \in Txns : Open(t) => \A a \in txn[t].planned : txn[t].id[a] = None => host'[a] = None
    BY <1>0, <2>1 DEF HostOK, DataOK, ConfiguredKept, Configured, TypeOK, TxnOK, RecordOK, Known
  <2>5. DataOK'
    BY <1>0, <2>1, <2>2, <2>3, <2>4, HostData
  <2>6. \A a \in want : host'[a] # None
    BY <1>0, <2>1 DEF HostCommandOK
  <2>7. CommandOK'
    BY <1>0, <2>1, <2>6, ContinueCommand
  <2> QED BY <2>5, <2>7
<1>9. CASE RepairFails \/ RepairCreateFails
  <2>1. /\ pc \in {"repair", "retire"} /\ Continue("repair", {}) /\ UNCHANGED <<disk, before, blind>>
        /\ \/ UNCHANGED device
           \/ pc = "repair" /\ \E d \in Devices : Make(d, target, "host")
    BY <1>9 DEF RepairFails, RepairCreateFails, history
  <2>2. Thinned(None)
    BY <1>0, <2>1, ThinnedSteps, ThinnedStutter DEF HostCommandOK, TypeOK
  <2>3. DataOK'
    BY <1>0, <2>1, <2>2, ThinnedData DEF disk
  <2>4. \A a \in want : host'[a] # None
    BY <1>0, <2>1 DEF HostCommandOK, disk
  <2>5. CommandOK'
    BY <1>0, <2>1, <2>4, ContinueCommand
  <2> QED BY <2>3, <2>5
<1> QED BY <1>1, <1>2, <1>3, <1>5, <1>6, <1>7, <1>8, <1>9 DEF Repair

(* ... delete, ... *)
LEMMA RemoveKeeps ==
  ASSUME IInv, TypeOK', Remove
  PROVE  DataOK' /\ CommandOK'
<1> USE Names DEF IInv
<1>0. TypeOK /\ DataOK /\ DeviceOK /\ HostOK /\ TxnOK /\ HostCommandOK /\ {} \in SUBSET Aliases
  BY DEF DataOK, CommandOK
<1>1. CASE (\E a \in Aliases : StartDelete(a)) \/ \E S \in SUBSET Aliases : StartPurposeDelete(S)
  <2>1. PICK S \in SUBSET Aliases : Start(S, "delete")
    BY <1>1 DEF StartDelete, StartPurposeDelete
  <2>2. DataOK'
    BY <1>0, <2>1, SameData DEF Start, history
  <2>3. CommandOK'
    BY <1>0, <2>1 DEF Start, CommandOK, RecoverOK, ApplyOK, HostCommandOK, Applying, Born, disk, device
  <2> QED BY <2>2, <2>3
<1>2. CASE DeleteDevice \/ DeleteFails
  <2>1. /\ pc = "delete" /\ host[target] \in Devices /\ target \in Aliases /\ target \notin failed
        /\ UNCHANGED <<disk, before, blind>>
        /\ Delete(host[target], None) \/ UNCHANGED device
        /\ failed \subseteq Aliases /\ failed \cap want = {} /\ \A a \in failed : host[a] \notin alive
        /\ \A a \in want : host[a] # None /\ a # target
    BY <1>0, <1>2 DEF DeleteDevice, DeleteFails, HostCommandOK, TypeOK, history
  <2>2. Thinned(None)
    BY <1>0, <2>1, ThinnedSteps, ThinnedStutter
  <2>3. DataOK'
    BY <1>0, <2>1, <2>2, ThinnedData DEF disk
  <2>4. \A a \in failed : host'[a] \notin alive'
    BY <1>0, <2>1, <2>2 DEF Thinned, HostOK, TypeOK, disk
  <2>5. CASE DeleteDevice
    <3>1. pc' = "forget" /\ UNCHANGED <<want, target, old, failed>> /\ host'[target] \notin alive'
      BY <1>0, <2>1, <2>5, DeleteEnds DEF DeleteDevice, local, disk
    <3>2. HostCommandOK'
      BY <1>0, <2>1, <2>2, <2>4, <3>1 DEF HostCommandOK, Thinned, TypeOK, disk
    <3>3. RecoverOK' /\ ApplyOK'
      BY <3>1 DEF RecoverOK, ApplyOK, Applying
    <3> QED BY <2>3, <3>2, <3>3 DEF CommandOK
  <2>6. CASE DeleteFails
    <3>1. Continue("delete", failed) /\ \A a \in want : host'[a] # None
      BY <2>1, <2>6 DEF DeleteFails, disk
    <3>2. CommandOK'
      BY <1>0, <2>1, <2>4, <3>1, ContinueCommand
    <3> QED BY <2>3, <3>2
  <2> QED BY <1>2, <2>5, <2>6
<1>3. CASE Forget \/ ForgetFails
  <2>1. /\ pc = "forget" /\ target \in Aliases /\ target \notin failed /\ host[target] \notin alive
        /\ UNCHANGED <<pending, txn, device, before, blind>>
        /\ UNCHANGED host \/ Dropped
        /\ failed \subseteq Aliases /\ failed \cap want = {} /\ \A a \in failed : host[a] \notin alive
        /\ \A a \in want : host[a] # None /\ a # target
    BY <1>0, <1>3 DEF Forget, ForgetFails, HostCommandOK, TypeOK, history
  <2>2. \A a \in Aliases : host'[a] = host[a] \/ (host'[a] = None /\ a \in failed \cup {target})
    BY <2>1 DEF Dropped
  <2>3. /\ \A a \in Aliases : host'[a] # None => Born(host'[a]) /\ ender[host'[a]] \notin Txns
                                           /\ (host'[a] \in alive => name[host'[a]] = a)
        /\ \A d \in pending' : Born(d)
    BY <1>0, <2>1, <2>2 DEF HostOK, DataOK, ConfiguredKept, Configured, TypeOK
  <2>4. \A t \in Txns : Open(t) => \A a \in txn[t].planned : txn[t].id[a] = None => host'[a] = None
    <3> TAKE t \in Txns
    <3> HAVE Open(t)
    <3> TAKE a \in txn[t].planned
    <3> HAVE txn[t].id[a] = None
    <3>1. host[a] = None /\ a \in Aliases
      BY <1>0 DEF TxnOK, RecordOK, Known, TypeOK, Transactions
    <3> QED BY <2>2, <3>1
  <2>5. \A d \in alive : d \in Configured \cup pending => d \in Configured' \cup pending'
    BY <2>1, <2>2 DEF Configured
  <2>6. DataOK'
    BY <1>0, <2>1, <2>3, <2>4, <2>5, HostData
  <2>7. \A a \in want : host'[a] # None
    BY <1>0, <2>1, <2>2 DEF TypeOK
  <2>8. \A a \in failed \cup {target} : host'[a] \notin alive'
    BY <1>0, <2>1, <2>2 DEF TypeOK, device
  <2>9. CommandOK'
    <3>1. PICK f \in {{}, failed \cup {target}} : Continue("delete", f)
      BY <1>3 DEF Forget, ForgetFails
    <3>2. f \in SUBSET Aliases /\ f \cap want = {} /\ \A a \in f : host'[a] \notin alive'
      BY <2>1, <2>8
    <3> QED BY <1>0, <2>7, <3>1, <3>2, ContinueCommand
  <2> QED BY <2>6, <2>9
<1> QED BY <1>1, <1>2, <1>3 DEF Remove

(* ... a crash, and what the operator does. *)
LEMMA EnvironmentKeeps ==
  ASSUME IInv, TypeOK', Environment
  PROVE  DataOK' /\ CommandOK'
<1> USE Names DEF IInv
<1>0. TypeOK /\ DataOK /\ DeviceOK /\ CommandOK
  BY DEF DataOK
<1>1. CASE Crash
  BY <1>0, <1>1, SameData, EndCommand DEF Crash
<1>2. ASSUME NEW d \in Devices, OperatorDeletes(d) \/ \E a \in Aliases : OperatorMakes(d, a)
      PROVE  DataOK' /\ CommandOK'
  <2>1. UNCHANGED <<disk, pc, local, before, blind>>
    BY <1>2 DEF OperatorDeletes, OperatorMakes, history
  <2>2. Thinned(None)
    BY <1>0, <1>2, ThinnedSteps DEF OperatorDeletes, OperatorMakes
  <2>3. DataOK'
    BY <1>0, <2>1, <2>2, ThinnedData DEF disk
  <2> QED BY <1>0, <2>1, <2>2, <2>3, ThinnedCommand
<1> QED BY <1>1, <1>2 DEF Environment

-----------------------------------------------------------------------------
(* The theorems *)

(* The invariant holds initially ... *)
LEMMA InvInit == Init => IInv
<1> SUFFICES ASSUME Init PROVE IInv
  OBVIOUS
<1> USE Names, NoTxnType DEF Init
<1>1. TypeOK
  BY DevicesAssumption DEF TypeOK
<1>2. \A t \in Txns : ~Open(t) /\ txn[t] = NoTxn
  BY DEF Open, NoTxn
<1>3. DeviceOK /\ HostOK /\ TxnOK
  BY <1>2 DEF DeviceOK, HostOK, TxnOK
<1>4. BaselineKept /\ ConfiguredKept /\ RollbackComplete /\ AccountedFor
  BY DEF BaselineKept, ConfiguredKept, RollbackComplete, AccountedFor
<1>5. CommandOK
  BY DEF CommandOK, RecoverOK, ApplyOK, HostCommandOK, Applying
<1> QED BY <1>1, <1>3, <1>4, <1>5 DEF IInv, DataOK

(* ... and in every step. *)
LEMMA InvNext == IInv /\ [Next]_vars => IInv'
<1> SUFFICES ASSUME IInv, [Next]_vars PROVE IInv'
  OBVIOUS
<1>1. TypeOK'
  <2>1. TypeOK /\ RecoverOK /\ ApplyOK /\ HostCommandOK
    BY DEF IInv, CommandOK
  <2>2. LocalType' /\ RestType'
    BY <2>1, RecoverType, ApplyType, RepairType, RemoveType, EnvironmentType, StutterType DEF Next
  <2> QED BY <2>2 DEF TypeOK, LocalType, RestType, Control
<1>2. CASE UNCHANGED vars
  <2>1. UNCHANGED <<disk, device, pc, local, before, blind>>
    BY <1>2 DEF vars, history
  <2>2. Thinned(None)
    BY <2>1, ThinnedStutter DEF IInv, DataOK
  <2>3. DataOK'
    BY <1>1, <2>1, SameData DEF IInv
  <2> QED BY <1>1, <2>1, <2>2, <2>3, ThinnedCommand DEF IInv
<1> QED
  BY <1>1, <1>2, RecoverKeeps, ApplyKeeps, RepairKeeps, RemoveKeeps, EnvironmentKeeps DEF Next, IInv

(* The invariant is one of the specification. *)
LEMMA Invariance == Spec => []IInv
BY InvInit, InvNext, PTL DEF Spec

(* Every variable keeps its type. *)
THEOREM TypeCorrect == Spec => []TypeOK
<1>1. IInv => TypeOK
  BY DEF IInv
<1> QED BY <1>1, Invariance, PTL

(* A transaction deletes no device that is older than it, in its rollback or its *)
(* recovery, after any crashes and whatever the operator does meanwhile        *)
(* (rollbackCapacityTransaction, recoverCapacityTransactions).                *)
THEOREM BaselineSafe == Spec => []BaselineKept
<1>1. IInv => BaselineKept
  BY DEF IInv, DataOK
<1> QED BY <1>1, Invariance, PTL

(* No transaction deletes a device that the host configuration names, also when  *)
(* the process died between the commit and the journal.                        *)
THEOREM ConfiguredSafe == Spec => []ConfiguredKept
<1>1. IInv => ConfiguredKept
  BY DEF IInv, DataOK
<1> QED BY <1>1, Invariance, PTL

(* A transaction recorded as rolled back has left no device. *)
THEOREM RollsBack == Spec => []RollbackComplete
<1>1. IInv => RollbackComplete
  BY DEF IInv, DataOK
<1> QED BY <1>1, Invariance, PTL

(* Every device that a transaction made is configured, awaits retirement, or is   *)
(* what an open record leads to.                                              *)
THEOREM NothingForgotten == Spec => []AccountedFor
<1>1. IInv => AccountedFor
  BY DEF IInv, DataOK
<1> QED BY <1>1, Invariance, PTL

=============================================================================
