----------------------------- MODULE BrokerLock -----------------------------
(***************************************************************************)
(* The directory lock of broker-core/index.mjs.  The lease mutation lock,  *)
(* the capacity lock and the reset lock are three copies of this protocol  *)
(* over three paths:                                                       *)
(*                                                                         *)
(*   - mkdir(lockDir) decides who gets the lock, and the winner then       *)
(*     writes lockDir/owner.json with its pid;                             *)
(*   - a contender takes a snapshot of the lock; when the owner is dead,   *)
(*     or there is no owner and the directory is older than timeoutMs, it  *)
(*     creates lockDir/reclaiming.json, takes a second snapshot and        *)
(*     removes the directory;                                              *)
(*   - a reclaim marker older than timeoutMs is claimed by renaming it;    *)
(*   - the holder removes the directory when its work is done.             *)
(*                                                                         *)
(* Every file-system call that another process can observe is a step of    *)
(* its own.  Time is abstracted to two flags: the modification time of the *)
(* lock directory, and of the marker, is more than timeoutMs ago.  A pid   *)
(* stands for one process lifetime (lockOwnerProcessIsLive compares the    *)
(* recorded start with the process table), so a dead pid never comes back. *)
(***************************************************************************)
EXTENDS Naturals, FiniteSets

CONSTANTS
  Procs,         \* process lifetimes that use the lock
  Dirs,          \* identities (device, inode, birth time) of lock directories
  Tokens,        \* identities and tokens of reclaim markers
  None,          \* no directory, no owner, no marker
  MaxCrashes,    \* bound: how many processes die
  Stalls,        \* TRUE: a live process may pause longer than timeoutMs anywhere
  AtomicRemove   \* TRUE: rmSync(lockDir) is one step for the other processes

ASSUME LockAssumption ==
  /\ Dirs \subseteq Nat /\ Tokens \subseteq Nat
  /\ None \notin Procs \cup Nat
  /\ MaxCrashes \in Nat
  /\ Stalls \in BOOLEAN
  /\ AtomicRemove \in BOOLEAN

VARIABLES
  lockDir,      \* identity of the directory at the lock path
  owner,        \* pid in lockDir/owner.json
  aged,         \* the directory's modification time is older than timeoutMs
  marker,       \* token of lockDir/reclaiming.json
  markerFull,   \* its JSON has been written (open and write are two calls)
  markerAged,   \* its modification time is older than timeoutMs
  pc,           \* control point of each process
  seen,         \* the first snapshot: readLockSnapshot before the marker
  now,          \* the owner read of the snapshot being taken
  token         \* the marker a process owns, or has seen and means to claim

files == <<lockDir, owner, aged, marker, markerFull, markerAged>>
vars  == <<files, pc, seen, now, token>>

Reclaiming == {"markWrite", "reread", "restat", "unmark", "rmStale"}

Control == {"idle", "try", "made", "held", "release", "snap", "stat", "poll",
            "mark", "busy", "claim", "verify", "markAgain", "dead"} \cup Reclaiming

NoRead == [has |-> FALSE, stale |-> FALSE]

Dead == {p \in Procs : pc[p] = "dead"}

(* lockOwnerProcessIsLive, over the owner readLockSnapshot has just read. *)
OwnerRead == [has |-> owner # None, stale |-> owner \in Dead]

Init ==
  /\ lockDir = None /\ owner = None /\ aged = FALSE
  /\ marker = None /\ markerFull = FALSE /\ markerAged = FALSE
  /\ pc = [p \in Procs |-> "idle"]
  /\ seen = [p \in Procs |-> [dir |-> None, has |-> FALSE, old |-> FALSE]]
  /\ now = [p \in Procs |-> NoRead]
  /\ token = [p \in Procs |-> None]

Goto(p, l) == pc' = [pc EXCEPT ![p] = l]

(* A new identity: one that nothing on disk has and no process remembers, the
   least one so that equal histories give equal states. *)
FreshDir(d) == d # lockDir /\ \A q \in Procs : seen[q].dir # d
NewDir(d) == FreshDir(d) /\ \A e \in Dirs : e < d => ~FreshDir(e)
FreshToken(t) == t # marker /\ \A q \in Procs : token[q] # t
NewToken(t) == FreshToken(t) /\ \A u \in Tokens : u < t => ~FreshToken(u)

-----------------------------------------------------------------------------
(* Acquiring and releasing. *)

Request(p) ==
  /\ pc[p] = "idle"
  /\ Goto(p, "try")
  /\ UNCHANGED <<files, seen, now, token>>

(* fs.mkdirSync(lockDir) succeeds. *)
Mkdir(p) ==
  /\ pc[p] = "try"
  /\ lockDir = None
  /\ \E d \in Dirs : NewDir(d) /\ lockDir' = d
  /\ owner' = None /\ aged' = FALSE
  /\ Goto(p, "made")
  /\ UNCHANGED <<marker, markerFull, markerAged, seen, now, token>>

(* fs.mkdirSync(lockDir) fails with EEXIST. *)
MkdirExists(p) ==
  /\ pc[p] = "try"
  /\ lockDir # None
  /\ Goto(p, "snap")
  /\ UNCHANGED <<files, seen, now, token>>

(* writeJsonAtomicRestricted(owner.json): its ensureDir creates the directory
   again when somebody removed it in the meantime. *)
WriteOwner(p) ==
  /\ pc[p] = "made"
  /\ IF lockDir = None
       THEN \E d \in Dirs : NewDir(d) /\ lockDir' = d
       ELSE UNCHANGED lockDir
  /\ owner' = p /\ aged' = FALSE
  /\ Goto(p, "held")
  /\ UNCHANGED <<marker, markerFull, markerAged, seen, now, token>>

(* removeLockIfOwned after work(): leave a lock that names another pid. *)
ReleaseCheck(p) ==
  /\ pc[p] = "held"
  /\ Goto(p, IF owner \in {None, p} THEN "release" ELSE "idle")
  /\ UNCHANGED <<files, seen, now, token>>

(* fs.rmSync(lockDir, { recursive: true }): one step, or one file at a time in
   any order and the directory last. *)
RemoveLockDir(p, from, to) ==
  /\ pc[p] = from
  /\ \/ /\ AtomicRemove \/ (owner = None /\ marker = None)
        /\ lockDir' = None /\ owner' = None /\ aged' = FALSE
        /\ marker' = None /\ markerFull' = FALSE /\ markerAged' = FALSE
        /\ Goto(p, to)
     \/ /\ ~AtomicRemove /\ owner # None
        /\ owner' = None /\ aged' = FALSE
        /\ UNCHANGED <<lockDir, marker, markerFull, markerAged, pc>>
     \/ /\ ~AtomicRemove /\ marker # None
        /\ marker' = None /\ markerFull' = FALSE /\ markerAged' = FALSE
        /\ aged' = FALSE
        /\ UNCHANGED <<lockDir, owner, pc>>
  /\ UNCHANGED <<seen, now, token>>

Release(p) == RemoveLockDir(p, "release", "idle")

-----------------------------------------------------------------------------
(* The contender's snapshot and its decision. *)

ReadOwner(p) ==
  /\ pc[p] = "snap"
  /\ now' = [now EXCEPT ![p] = OwnerRead]
  /\ Goto(p, "stat")
  /\ UNCHANGED <<files, seen, token>>

(* Fault: a lock without an owner is never abandoned. *)
StatLock_NeverAbandoned(p) ==
  /\ pc[p] = "stat"
  /\ seen' = [seen EXCEPT ![p] = [dir |-> lockDir, has |-> now[p].has, old |-> aged]]
  /\ Goto(p, IF lockDir = None THEN "try" ELSE IF now[p].stale THEN "mark" ELSE "poll")
  /\ UNCHANGED <<files, now, token>>

(* The rest of readLockSnapshot: modification time and identity.  released:
   try again; stale or abandoned: reclaim; otherwise wait. *)
StatLock(p) ==
  /\ pc[p] = "stat"
  /\ seen' = [seen EXCEPT ![p] = [dir |-> lockDir, has |-> now[p].has, old |-> aged]]
  /\ Goto(p, IF lockDir = None THEN "try"
             ELSE IF now[p].stale \/ (~now[p].has /\ aged) THEN "mark" ELSE "poll")
  /\ UNCHANGED <<files, now, token>>

(* sleepSync(pollMs) and try again, or give up: the wait exceeded timeoutMs,
   it was cancelled, or the caller asked not to wait. *)
Poll(p) ==
  /\ pc[p] = "poll"
  /\ \E l \in {"try", "idle"} : Goto(p, l)
  /\ UNCHANGED <<files, seen, now, token>>

-----------------------------------------------------------------------------
(* acquireLockReclaimMarker. *)

(* fs.openSync(reclaiming.json, "wx"), the first time and after a claim. *)
MarkerOpen(p) ==
  /\ pc[p] \in {"mark", "markAgain"}
  /\ lockDir # None /\ marker = None
  /\ \E t \in Tokens : /\ NewToken(t)
                       /\ marker' = t
                       /\ token' = [token EXCEPT ![p] = t]
  /\ markerFull' = FALSE /\ markerAged' = FALSE /\ aged' = FALSE
  /\ Goto(p, "markWrite")
  /\ UNCHANGED <<lockDir, owner, seen, now>>

(* ENOENT: the lock is gone.  EEXIST: another reclaimer; the first time its
   marker is examined, after a claim the attempt ends. *)
MarkerOpenFails(p) ==
  /\ pc[p] \in {"mark", "markAgain"}
  /\ lockDir = None \/ marker # None
  /\ Goto(p, IF lockDir # None /\ pc[p] = "mark" THEN "busy" ELSE "poll")
  /\ UNCHANGED <<files, seen, now, token>>

(* The JSON is written and the marker chmod-ed; chmod fails with ENOENT when
   the path is gone, and the attempt ends. *)
MarkerWrite(p) ==
  /\ pc[p] = "markWrite"
  /\ markerFull' = (markerFull \/ (marker # None /\ marker = token[p]))
  /\ Goto(p, IF marker = None THEN "poll" ELSE "reread")
  /\ UNCHANGED <<lockDir, owner, aged, marker, markerAged, seen, now, token>>

(* Fault: an old marker is left to its dead reclaimer. *)
MarkerBusy_NoClaim(p) ==
  /\ pc[p] = "busy"
  /\ token' = [token EXCEPT ![p] = marker]
  /\ Goto(p, IF marker # None /\ ~markerFull THEN "idle" ELSE "poll")
  /\ UNCHANGED <<files, seen, now>>

(* Another reclaimer's marker: timestamp, identity and JSON.  An empty file is
   no JSON: readJsonIfExists rethrows the SyntaxError and the command fails. *)
MarkerBusy(p) ==
  /\ pc[p] = "busy"
  /\ token' = [token EXCEPT ![p] = marker]
  /\ Goto(p, IF marker = None THEN "poll"
             ELSE IF ~markerFull THEN "idle"
             ELSE IF markerAged THEN "claim" ELSE "poll")
  /\ UNCHANGED <<files, seen, now>>

(* fs.renameSync(reclaiming.json, claimed path).  The claimed file is the one
   that was examined: claim it.  It is another one: go and put it back, unless
   it is still empty when it is read, which fails the command. *)
MarkerClaim(p) ==
  /\ pc[p] = "claim"
  /\ \/ /\ marker = None
        /\ Goto(p, "poll")
        /\ UNCHANGED <<files, seen, token>>
     \/ /\ marker = token[p] /\ marker # None
        /\ Goto(p, "markAgain")
        /\ marker' = None /\ markerFull' = FALSE /\ markerAged' = FALSE /\ aged' = FALSE
        /\ UNCHANGED <<lockDir, owner, seen, token>>
     \/ /\ marker \notin {None, token[p]}
        /\ \E l \in {"verify"} \cup (IF markerFull THEN {} ELSE {"idle"}) : Goto(p, l)
        /\ token' = [token EXCEPT ![p] = marker]
        /\ seen' = [seen EXCEPT ![p].dir = lockDir]
        /\ marker' = None /\ markerFull' = FALSE /\ markerAged' = FALSE /\ aged' = FALSE
        /\ UNCHANGED <<lockDir, owner>>
  /\ UNCHANGED now

(* restoreClaimedLockReclaimMarker: link it back unless the path is taken or
   the lock directory, and the claimed file with it, is gone. *)
MarkerRestore(p) ==
  /\ pc[p] = "verify"
  /\ Goto(p, "poll")
  /\ IF lockDir = seen[p].dir /\ marker = None
       THEN /\ marker' = token[p] /\ markerFull' = TRUE /\ aged' = FALSE
            /\ UNCHANGED <<lockDir, owner, markerAged>>
       ELSE UNCHANGED files
  /\ UNCHANGED <<seen, now, token>>

-----------------------------------------------------------------------------
(* reclaimStaleLock with the marker: second snapshot, then remove or undo. *)

RereadOwner(p) ==
  /\ pc[p] = "reread"
  /\ now' = [now EXCEPT ![p] = OwnerRead]
  /\ Goto(p, "restat")
  /\ UNCHANGED <<files, seen, token>>

(* Fault: the directory may have been replaced since the first snapshot. *)
StillAbandoned_AnyDir(p) == ~now[p].has /\ ~seen[p].has /\ seen[p].old

(* stillAbandonedWithoutOwner: creating the marker renewed the directory's
   modification time, so the first snapshot's age counts for the same dir. *)
StillAbandoned(p) ==
  /\ ~now[p].has /\ ~seen[p].has
  /\ lockDir = seen[p].dir /\ seen[p].old

(* Fault: the second snapshot only looks whether the lock is still there. *)
Restat_TrustsFirst(p) ==
  /\ pc[p] = "restat"
  /\ Goto(p, IF lockDir = None THEN "try" ELSE "rmStale")
  /\ UNCHANGED <<files, seen, now, token>>

Restat(p) ==
  /\ pc[p] = "restat"
  /\ Goto(p, IF lockDir = None THEN "try"
             ELSE IF now[p].stale \/ (~now[p].has /\ aged) \/ StillAbandoned(p)
             THEN "rmStale" ELSE "unmark")
  /\ UNCHANGED <<files, seen, now, token>>

RemoveStale(p) == RemoveLockDir(p, "rmStale", "try")

(* removeLockReclaimMarkerIfOwned: an empty marker of another reclaimer fails
   the command here too. *)
Unmark(p) ==
  /\ pc[p] = "unmark"
  /\ IF marker # None /\ marker = token[p]
       THEN /\ marker' = None /\ markerFull' = FALSE /\ markerAged' = FALSE
            /\ aged' = FALSE
       ELSE UNCHANGED <<marker, markerFull, markerAged, aged>>
  /\ Goto(p, IF marker \notin {None, token[p]} /\ ~markerFull THEN "idle" ELSE "poll")
  /\ UNCHANGED <<lockDir, owner, seen, now, token>>

-----------------------------------------------------------------------------
(* The environment. *)

(* A process dies wherever it is; its files stay. *)
Crash(p) ==
  /\ pc[p] # "dead"
  /\ Cardinality(Dead) < MaxCrashes
  /\ Goto(p, "dead")
  /\ UNCHANGED <<files, seen, now, token>>

(* p is not in the middle of a burst of calls that began before the directory's
   last change: it has no owner.json still to write, no removal to finish and no
   owner read that the change has made out of date. *)
Settled(p) ==
  /\ pc[p] \notin {"made", "release", "rmStale"}
  /\ pc[p] \in {"stat", "restat"} => now[p].has = (owner # None)

(* timeoutMs passes without a change to the directory.  Without stalls every
   burst of calls that began before the change is over by then. *)
Age ==
  /\ lockDir # None /\ ~aged
  /\ Stalls \/ \A p \in Procs : Settled(p)
  /\ aged' = TRUE
  /\ UNCHANGED <<lockDir, owner, marker, markerFull, markerAged, pc, seen, now, token>>

(* timeoutMs passes since the marker was written. *)
AgeMarker ==
  /\ marker # None /\ ~markerAged
  /\ Stalls \/ \A p \in Procs : pc[p] \in Reclaiming => token[p] # marker
  /\ markerAged' = TRUE
  /\ UNCHANGED <<lockDir, owner, aged, marker, markerFull, pc, seen, now, token>>

Step(p) ==
  \/ Mkdir(p) \/ MkdirExists(p) \/ WriteOwner(p) \/ ReleaseCheck(p) \/ Release(p)
  \/ ReadOwner(p) \/ StatLock(p) \/ Poll(p)
  \/ MarkerOpen(p) \/ MarkerOpenFails(p) \/ MarkerWrite(p) \/ MarkerBusy(p)
  \/ MarkerClaim(p) \/ MarkerRestore(p)
  \/ RereadOwner(p) \/ Restat(p) \/ RemoveStale(p) \/ Unmark(p)

Next ==
  \/ \E p \in Procs : Request(p) \/ Step(p) \/ Crash(p)
  \/ Age \/ AgeMarker

Spec == Init /\ [][Next]_vars

-----------------------------------------------------------------------------
(* Properties. *)

(* Types of the files and of every process's locals. *)
TypeOK ==
  /\ lockDir \in Dirs \cup {None} /\ owner \in Procs \cup {None} /\ aged \in BOOLEAN
  /\ marker \in Tokens \cup {None} /\ markerFull \in BOOLEAN /\ markerAged \in BOOLEAN
  /\ pc \in [Procs -> Control]
  /\ seen \in [Procs -> [dir : Dirs \cup {None}, has : BOOLEAN, old : BOOLEAN]]
  /\ now \in [Procs -> [has : BOOLEAN, stale : BOOLEAN]]
  /\ token \in [Procs -> Tokens \cup {None}]

(* Two processes never run their work() under the same lock, whatever mixture
   of releases, crashes and stale-lock reclaims led there. *)
MutualExclusion ==
  \A p, q \in Procs : pc[p] = "held" /\ pc[q] = "held" => p = q

(* The lock directory of a process that is working stays in place and names
   that process: no reclaimer deletes or replaces it. *)
HolderKeepsLock ==
  \A p \in Procs : pc[p] = "held" => lockDir # None /\ owner = p

(* Whoever died holding the lock, the lock path is free again and again. *)
LockComesFree == []<>(lockDir = None)

(* A reclaimer died between opening its marker and writing it: readJsonIfExists
   throws on the empty file, for every contender and for ever. *)
MarkerStuck == <>[](marker # None /\ ~markerFull)

(* So it is after any crash that left no reclaim marker - of a holder, of a process
   that had not yet written owner.json, of one that was removing - and when one that
   recovers the lock dies as well, unless its marker is an empty file. *)
LockRecovered == marker = None => LockComesFree \/ MarkerStuck

(* The same of contenders for an old marker, unless they go on for ever renaming
   each other's: a contender that puts a marker back has undone another's claim. *)
ClaimFrees == LockComesFree \/ MarkerStuck \/ []<>(\E p \in Procs : pc[p] = "verify")

(* A live process keeps running, brokerd's timer requests the lock again and
   again, and time passes.  Nothing makes a process crash. *)
Fairness ==
  /\ \A p \in Procs : WF_vars(Step(p)) /\ WF_vars(Request(p))
  /\ WF_vars(Age) /\ WF_vars(AgeMarker)

FairSpec == Spec /\ Fairness

=============================================================================
