-------------------------- MODULE BrokerLock_proofs --------------------------
(***************************************************************************)
(* Proofs about BrokerLock, for any number of processes, none of which     *)
(* pauses beyond timeoutMs in the middle of a few calls.  As long as       *)
(* nobody has died the lock is exclusive, however its directory is         *)
(* removed: no contender finds a stale lock.  If the removal is one step   *)
(* it stays so until a second process dies: the one death accounts for the *)
(* one stale lock there ever is, so that every reclaimer is alive and no   *)
(* marker is ever old enough to be taken away.  TLC shows what a removal   *)
(* in several steps does after a death (MCBrokerLock_removal.cfg);         *)
(* README.md says what two deaths do.                                      *)
(***************************************************************************)
EXTENDS BrokerLock, TLAPS

(* The removal is one step, and nobody pauses for too long. *)
Benign == AtomicRemove /\ ~Stalls

(* A lock that is left behind: its owner is dead, or nobody is about to     *)
(* write owner.json.                                                       *)
Stale ==
  /\ lockDir # None
  /\ owner \in Dead \/ (owner = None /\ \A p \in Procs : pc[p] # "made")

(* One death at most. *)
DeathOK == \A p, q \in Dead : p = q

(* Nobody has died; or one process, and the removal is one step. *)
Mild == Dead = {} \/ (AtomicRemove /\ DeathOK)

(* The lock path belongs to the process that made or holds it.             *)
PathOK ==
  /\ lockDir = None => owner = None /\ marker = None
  /\ lockDir # None /\ owner = None => Dead # {} \/ \E p \in Procs : pc[p] = "made"
  /\ owner # None => pc[owner] \in {"held", "release", "dead"}
  /\ \A p \in Procs :
       /\ pc[p] = "made" => lockDir # None /\ owner = None /\ ~aged
       /\ pc[p] \in {"held", "release"} => owner = p
  /\ \A p, q \in Procs : pc[p] = "made" /\ pc[q] = "made" => p = q

(* What a snapshot showed is still so where it matters. *)
SnapshotOK(p) ==
  /\ now[p].stale => Dead # {}
  /\ pc[p] \in {"stat", "restat"} /\ ~now[p].has /\ aged => owner = None
  /\ /\ seen[p].old /\ ~seen[p].has
     /\ seen[p].dir = lockDir /\ lockDir # None
     => owner = None /\ \A q \in Procs : pc[q] # "made"

(* Reclaimers are alive, each with a marker of its own; one that has lost   *)
(* its marker has lost it with the stale lock.                              *)
ReclaimerOK(p) ==
  /\ pc[p] \notin {"claim", "verify", "markAgain"}
  /\ pc[p] \in {"mark", "busy"} \cup Reclaiming => Dead # {}
  /\ pc[p] \in Reclaiming =>
       token[p] # None /\ \A q \in Procs : pc[q] \in Reclaiming /\ token[q] = token[p] => q = p
  /\ pc[p] \in {"markWrite", "reread", "restat"} /\ marker # token[p] => ~Stale
  /\ pc[p] = "restat" /\ now[p].stale => marker = token[p] /\ owner \in Dead
  /\ pc[p] = "rmStale" => marker = token[p] /\ Stale

MarkerOK ==
  /\ ~markerAged
  /\ marker # None => \E p \in Procs : pc[p] \in Reclaiming /\ token[p] = marker

(* The inductive invariant. *)
IInv ==
  /\ TypeOK /\ DeathOK /\ PathOK /\ MarkerOK
  /\ \A p \in Procs : SnapshotOK(p) /\ ReclaimerOK(p)

-----------------------------------------------------------------------------
(* What one call does. *)

(* No name of a process or of a file is None. *)
LEMMA Names == None \notin Procs /\ None \notin Dirs /\ None \notin Tokens
BY LockAssumption

(* Every step keeps the types. *)
LEMMA TypeInv ==
  ASSUME TypeOK, [Next]_vars
  PROVE  TypeOK'
<1> USE DEF TypeOK, Control, Reclaiming, NoRead, OwnerRead, Goto, files
<1>1. ASSUME NEW p \in Procs,
             \/ Mkdir(p) \/ MkdirExists(p) \/ WriteOwner(p) \/ ReleaseCheck(p)
             \/ Release(p) \/ RemoveStale(p) \/ Request(p)
      PROVE  TypeOK'
  BY <1>1 DEF Mkdir, MkdirExists, WriteOwner, ReleaseCheck, Release, RemoveStale,
              RemoveLockDir, Request
<1>2. ASSUME NEW p \in Procs,
             \/ ReadOwner(p) \/ StatLock(p) \/ Poll(p) \/ MarkerOpenFails(p)
             \/ MarkerWrite(p) \/ MarkerBusy(p) \/ RereadOwner(p) \/ Restat(p)
             \/ Unmark(p) \/ Crash(p)
      PROVE  TypeOK'
  <2>1. CASE ReadOwner(p)
    BY <2>1 DEF ReadOwner
  <2>2. CASE StatLock(p)
    BY <2>2 DEF StatLock
  <2>3. CASE Poll(p) \/ MarkerOpenFails(p) \/ MarkerWrite(p) \/ MarkerBusy(p)
    BY <2>3 DEF Poll, MarkerOpenFails, MarkerWrite, MarkerBusy
  <2>4. CASE RereadOwner(p)
    BY <2>4 DEF RereadOwner
  <2>5. CASE Restat(p) \/ Unmark(p) \/ Crash(p)
    BY <2>5 DEF Restat, Unmark, Crash
  <2> QED BY <1>2, <2>1, <2>2, <2>3, <2>4, <2>5
<1>3. ASSUME NEW p \in Procs, MarkerOpen(p) \/ MarkerRestore(p)
      PROVE  TypeOK'
  BY <1>3 DEF MarkerOpen, MarkerRestore
<1>4. ASSUME NEW p \in Procs, MarkerClaim(p)
      PROVE  TypeOK'
  <2>1. seen' \in [Procs -> [dir : Dirs \cup {None}, has : BOOLEAN, old : BOOLEAN]]
    BY <1>4 DEF MarkerClaim
  <2>2. pc' \in [Procs -> Control] /\ token' \in [Procs -> Tokens \cup {None}]
    BY <1>4 DEF MarkerClaim
  <2> QED BY <1>4, <2>1, <2>2 DEF MarkerClaim
<1>5. CASE Age \/ AgeMarker \/ UNCHANGED vars
  BY <1>5 DEF Age, AgeMarker, vars
<1> QED BY <1>1, <1>2, <1>3, <1>4, <1>5 DEF Next, Step

-----------------------------------------------------------------------------
(* Deaths *)

(* If one process at most is dead after a death, nobody was before. *)
LEMMA FirstDeath ==
  ASSUME TypeOK, DeathOK', NEW p \in Procs, Crash(p)
  PROVE  Dead = {} /\ Dead' = {p}
<1>1. \A q \in Procs : pc'[q] = IF q = p THEN "dead" ELSE pc[q]
  BY DEF Crash, Goto, TypeOK
<1>2. Dead' = Dead \cup {p} /\ p \notin Dead
  BY <1>1 DEF Dead, Crash
<1> QED BY <1>2 DEF DeathOK

(* A step that does not end at "dead" kills nobody and revives nobody. *)
LEMMA Alive ==
  ASSUME TypeOK, NEW p \in Procs, NEW l \in Control, Goto(p, l),
         l # "dead", pc[p] # "dead"
  PROVE  Dead' = Dead
BY DEF TypeOK, Goto, Dead

(* Only a crash changes who is dead. *)
LEMMA SameDead ==
  ASSUME TypeOK, [Next]_vars, \A p \in Procs : ~ Crash(p)
  PROVE  Dead' = Dead
<1>1. ASSUME NEW p \in Procs, Request(p) \/ Step(p)
      PROVE  Dead' = Dead
  <2>1. /\ pc[p] # "dead"
        /\ \/ \E l \in Control \ {"dead"} : Goto(p, l)
           \/ UNCHANGED pc
    BY <1>1 DEF Request, Step, Mkdir, MkdirExists, WriteOwner, ReleaseCheck, Release,
         RemoveLockDir, ReadOwner, StatLock, Poll, MarkerOpen, MarkerOpenFails,
         MarkerWrite, MarkerBusy, MarkerClaim, MarkerRestore, RereadOwner, Restat,
         RemoveStale, Unmark, Control, Reclaiming
  <2> QED BY <2>1, Alive DEF Dead
<1>2. CASE Age \/ AgeMarker \/ UNCHANGED vars
  BY <1>2 DEF Age, AgeMarker, vars, Dead
<1> QED BY <1>1, <1>2 DEF Next

(* The dead stay dead. *)
LEMMA DeathMono == ASSUME TypeOK, [Next]_vars PROVE Dead \subseteq Dead'
<1>1. CASE \E p \in Procs : Crash(p)
  BY <1>1 DEF Crash, Goto, TypeOK, Dead
<1>2. CASE \A p \in Procs : ~ Crash(p)
  BY <1>2, SameDead
<1> QED BY <1>1, <1>2

(* What reading owner.json tells. *)
LEMMA ReadTells ==
  ASSUME NEW r, r = OwnerRead
  PROVE  (r.stale => owner \in Dead) /\ (~r.has => owner = None)
<1>1. OwnerRead.stale = (owner \in Dead) /\ OwnerRead.has = (owner # None)
  BY Zenon DEF OwnerRead
<1> QED BY <1>1

-----------------------------------------------------------------------------
(* The steps of one process, by what they do to the lock path. *)

(* It only looks: the files stay as they are. *)
Looks(p) ==
  \/ Request(p) \/ MkdirExists(p) \/ ReadOwner(p) \/ StatLock(p) \/ Poll(p)
  \/ MarkerOpenFails(p) \/ MarkerBusy(p) \/ RereadOwner(p) \/ Restat(p)

(* It takes or gives back the lock. *)
Works(p) == Mkdir(p) \/ WriteOwner(p) \/ ReleaseCheck(p) \/ Release(p)

(* It writes or removes the marker. *)
Marks(p) == MarkerOpen(p) \/ MarkerWrite(p) \/ Unmark(p)

(* A look leaves the working processes where they are. *)
LEMMA LookKeeps ==
  ASSUME TypeOK, NEW p \in Procs, Looks(p)
  PROVE  /\ UNCHANGED files
         /\ \A q \in Procs \ {p} : /\ pc'[q] = pc[q] /\ now'[q] = now[q]
                                  /\ seen'[q] = seen[q] /\ token'[q] = token[q]
         /\ pc[p] = "busy" \/ token'[p] = token[p]
         /\ pc[p] \notin {"made", "held", "release", "dead"} \cup (Reclaiming \ {"reread", "restat"})
         /\ pc'[p] \notin {"made", "held", "release", "dead", "markWrite", "reread"}
BY DEF TypeOK, Control, Reclaiming, Looks, Goto, Request, MkdirExists, ReadOwner, StatLock,
       Poll, MarkerOpenFails, MarkerBusy, RereadOwner, Restat

(* The marker's writer stays a reclaimer or ends without the marker. *)
LEMMA MarkKeeps ==
  ASSUME TypeOK, NEW p \in Procs, Marks(p)
  PROVE  /\ UNCHANGED <<lockDir, owner, seen, now>>
         /\ aged' = TRUE => aged = TRUE
         /\ \A q \in Procs \ {p} : pc'[q] = pc[q] /\ token'[q] = token[q]
         /\ pc[p] \in {"mark", "markAgain", "markWrite", "unmark"}
         /\ pc'[p] \in {"markWrite", "reread", "poll", "idle"}
         /\ lockDir = None => marker = marker' \/ marker' = None
BY DEF TypeOK, Control, Reclaiming, Marks, Goto, MarkerOpen, MarkerWrite, Unmark

(* While all is benign, what happens is one of these, a removal of a stale  *)
(* lock, a death or the passing of timeoutMs.                              *)
LEMMA BenignSteps ==
  ASSUME Benign, IInv, [Next]_vars
  PROVE  \/ \E p \in Procs : Looks(p) \/ Works(p) \/ Marks(p) \/ RemoveStale(p) \/ Crash(p)
         \/ Age \/ UNCHANGED vars
<1>1. ASSUME NEW p \in Procs
      PROVE  ~ MarkerClaim(p) /\ ~ MarkerRestore(p)
  BY DEF IInv, ReclaimerOK, MarkerClaim, MarkerRestore
<1>2. ~ AgeMarker
  BY DEF IInv, MarkerOK, AgeMarker, Benign
<1> QED BY <1>1, <1>2 DEF Next, Step, Looks, Works, Marks

-----------------------------------------------------------------------------
(* Every step keeps the lock path with the process that made or holds it.  *)
LEMMA PathInv ==
  ASSUME Benign, IInv, DeathOK', [Next]_vars
  PROVE  PathOK'
<1> USE Names DEF IInv
<1>0. TypeOK'
  BY TypeInv
<1>1. ASSUME NEW p \in Procs, Looks(p)
      PROVE  PathOK'
  <2>1. Dead' = Dead
    BY <1>1, LookKeeps DEF Dead
  <2> QED BY <1>1, <2>1, LookKeeps DEF PathOK, files, TypeOK
<1>2. ASSUME NEW p \in Procs, Mkdir(p)
      PROVE  PathOK'
  <2>1. Dead' = Dead /\ \A q \in Procs : pc'[q] = IF q = p THEN "made" ELSE pc[q]
    BY <1>2 DEF Dead, Mkdir, Goto, TypeOK
  <2>2. lockDir' # None /\ owner' = None /\ aged' = FALSE
    BY <1>2 DEF Mkdir
  <2>3. lockDir = None /\ pc[p] = "try"
    BY <1>2 DEF Mkdir
  <2> QED BY <2>1, <2>2, <2>3 DEF PathOK
<1>3. ASSUME NEW p \in Procs, WriteOwner(p)
      PROVE  PathOK'
  <2>1. Dead' = Dead /\ \A q \in Procs : pc'[q] = IF q = p THEN "held" ELSE pc[q]
    BY <1>3 DEF Dead, WriteOwner, Goto, TypeOK
  <2>2. lockDir' # None /\ owner' = p /\ owner = None
    BY <1>3 DEF WriteOwner, PathOK
  <2>3. \A q \in Procs : pc[q] = "made" => q = p
    BY <1>3 DEF PathOK, WriteOwner
  <2>4. \A q \in Procs : pc[q] \notin {"held", "release"}
    BY <2>2 DEF PathOK
  <2> QED BY <2>1, <2>2, <2>3, <2>4 DEF PathOK
<1>4. ASSUME NEW p \in Procs, ReleaseCheck(p)
      PROVE  PathOK'
  <2>1. owner = p
    BY <1>4 DEF ReleaseCheck, PathOK
  <2>2. Dead' = Dead /\ \A q \in Procs : pc'[q] = IF q = p THEN "release" ELSE pc[q]
    BY <1>4, <2>1 DEF Dead, ReleaseCheck, Goto, TypeOK
  <2> QED BY <1>4, <2>1, <2>2 DEF PathOK, ReleaseCheck, files
<1>5. ASSUME NEW p \in Procs, Release(p) \/ RemoveStale(p)
      PROVE  PathOK'
  <2>1. /\ lockDir' = None /\ owner' = None /\ marker' = None
        /\ pc[p] \in {"release", "rmStale"}
        /\ \A q \in Procs : pc'[q] = IF q = p THEN pc'[p] ELSE pc[q]
        /\ pc'[p] \in {"idle", "try"}
    <3>1. AtomicRemove
      BY DEF Benign
    <3>2. CASE Release(p)
      BY <3>1, <3>2 DEF Release, RemoveLockDir, Goto, TypeOK
    <3>3. CASE RemoveStale(p)
      BY <3>1, <3>3 DEF RemoveStale, RemoveLockDir, Goto, TypeOK
    <3> QED BY <1>5, <3>2, <3>3
  <2>2. \A q \in Procs \ {p} : pc[q] \notin {"made", "held", "release"}
    <3>1. CASE pc[p] = "release"
      BY <3>1 DEF PathOK
    <3>2. CASE pc[p] = "rmStale"
      BY <3>2 DEF PathOK, ReclaimerOK, Stale, Dead
    <3> QED BY <2>1, <3>1, <3>2
  <2> QED BY <2>1, <2>2 DEF PathOK
<1>6. ASSUME NEW p \in Procs, Marks(p)
      PROVE  PathOK'
  <2>1. Dead' = Dead
    BY <1>6, MarkKeeps DEF Dead
  <2>2. lockDir = None => marker' = None
    BY <1>6, MarkKeeps DEF PathOK
  <2>3. /\ UNCHANGED <<lockDir, owner>>
        /\ aged' = TRUE => aged = TRUE
        /\ \A q \in Procs \ {p} : pc'[q] = pc[q]
        /\ pc[p] \in {"mark", "markAgain", "markWrite", "unmark"}
        /\ pc'[p] \in {"markWrite", "reread", "poll", "idle"}
    BY <1>6, MarkKeeps
  <2>4. aged \in BOOLEAN /\ aged' \in BOOLEAN
    BY <1>0 DEF TypeOK
  <2>5. \A q \in Procs, l \in {"made", "held", "release", "dead"} : pc'[q] = l <=> pc[q] = l
    BY <2>3
  <2>6. owner \in Procs \cup {None}
    BY DEF TypeOK
  <2> QED BY <2>1, <2>2, <2>3, <2>4, <2>5, <2>6 DEF PathOK
<1>7. ASSUME NEW p \in Procs, Crash(p)
      PROVE  PathOK'
  <2>1. \A q \in Procs : pc'[q] = IF q = p THEN "dead" ELSE pc[q]
    BY <1>7 DEF Crash, Goto, TypeOK
  <2>2. Dead' # {}
    BY <1>7, FirstDeath
  <2> QED BY <1>7, <2>1, <2>2 DEF PathOK, Crash, files, TypeOK
<1>8. CASE Age
  <2>1. \A p \in Procs : pc[p] # "made"
    BY <1>8 DEF Age, Benign, Settled
  <2> QED BY <1>8, <2>1 DEF PathOK, Age, Dead
<1>9. CASE UNCHANGED vars
  BY <1>9 DEF PathOK, Dead, vars, files
<1> QED BY <1>1, <1>2, <1>3, <1>4, <1>5, <1>6, <1>7, <1>8, <1>9, BenignSteps DEF Works

(* A removal leaves nothing at the lock path. *)
LEMMA Removal ==
  ASSUME Benign, TypeOK, NEW p \in Procs, Release(p) \/ RemoveStale(p)
  PROVE  /\ pc[p] \in {"release", "rmStale"} /\ pc'[p] \in {"idle", "try"}
         /\ \A q \in Procs \ {p} : pc'[q] = pc[q]
         /\ lockDir' = None /\ owner' = None /\ aged' = FALSE
         /\ marker' = None /\ markerAged' = FALSE
         /\ UNCHANGED <<seen, now, token>>
<1>1. CASE Release(p)
  BY <1>1 DEF Benign, Release, RemoveLockDir, Goto, TypeOK
<1>2. CASE RemoveStale(p)
  BY <1>2 DEF Benign, RemoveStale, RemoveLockDir, Goto, TypeOK
<1> QED BY <1>1, <1>2

(* Every step keeps what a snapshot showed. *)
LEMMA SnapshotInv ==
  ASSUME Benign, IInv, DeathOK', [Next]_vars, NEW q \in Procs
  PROVE  SnapshotOK(q)'
<1> USE Names DEF IInv
<1>0. TypeOK /\ TypeOK' /\ PathOK /\ SnapshotOK(q)
  BY TypeInv
<1>1. ASSUME NEW p \in Procs, Looks(p)
      PROVE  SnapshotOK(q)'
  <2>1. Dead' = Dead /\ UNCHANGED files /\ \A r \in Procs : pc'[r] = "made" <=> pc[r] = "made"
    BY <1>1, LookKeeps DEF Dead
  <2>2. CASE q # p
    BY <1>0, <1>1, <2>1, <2>2, LookKeeps DEF SnapshotOK, files
  <2>3. CASE q = p /\ (ReadOwner(p) \/ RereadOwner(p))
    <3>1. now'[p] = OwnerRead /\ UNCHANGED seen
      BY <2>3 DEF ReadOwner, RereadOwner, TypeOK
    <3>2. /\ now'[p].stale => Dead # {}
          /\ ~now'[p].has => owner = None
      BY <3>1, ReadTells
    <3> QED BY <1>0, <2>1, <2>3, <3>1, <3>2 DEF SnapshotOK, files
  <2>4. CASE q = p /\ StatLock(p)
    <3>1. /\ seen'[p] = [dir |-> lockDir, has |-> now[p].has, old |-> aged]
          /\ UNCHANGED now /\ pc[p] = "stat" /\ pc'[p] \notin {"stat", "restat"}
      BY <2>4 DEF StatLock, TypeOK, Goto
    <3>2. aged => lockDir = None \/ \A r \in Procs : pc[r] # "made"
      BY DEF PathOK
    <3> QED BY <1>0, <2>1, <2>4, <3>1, <3>2 DEF SnapshotOK, files
  <2>5. CASE /\ q = p
             /\ \/ Request(p) \/ MkdirExists(p) \/ Poll(p)
                \/ MarkerOpenFails(p) \/ MarkerBusy(p) \/ Restat(p)
    <3>1. UNCHANGED <<seen, now>> /\ pc'[p] \notin {"stat", "restat"}
      BY <2>5 DEF Request, MkdirExists, Poll, MarkerOpenFails, MarkerBusy, Restat,
                  TypeOK, Goto
    <3> QED BY <1>0, <2>1, <2>5, <3>1 DEF SnapshotOK, files
  <2> QED BY <1>1, <2>2, <2>3, <2>4, <2>5 DEF Looks
<1>2. ASSUME NEW p \in Procs, Mkdir(p)
      PROVE  SnapshotOK(q)'
  <2>1. aged' = FALSE /\ UNCHANGED <<seen, now>> /\ seen[q].dir # lockDir'
    BY <1>2 DEF Mkdir, NewDir, FreshDir
  <2>2. Dead' = Dead
    BY <1>2 DEF Mkdir, Goto, Dead, TypeOK
  <2> QED BY <1>0, <2>1, <2>2 DEF SnapshotOK
<1>3. ASSUME NEW p \in Procs, WriteOwner(p)
      PROVE  SnapshotOK(q)'
  <2>1. aged' = FALSE /\ UNCHANGED <<lockDir, seen, now>> /\ owner = None /\ pc[p] = "made"
    BY <1>3 DEF WriteOwner, PathOK
  <2>2. Dead' = Dead
    BY <1>3 DEF WriteOwner, Goto, Dead, TypeOK
  <2> QED BY <1>0, <2>1, <2>2 DEF SnapshotOK
<1>4. ASSUME NEW p \in Procs, ReleaseCheck(p)
      PROVE  SnapshotOK(q)'
  <2>1. UNCHANGED <<lockDir, owner, aged, seen, now>>
        /\ \A r \in Procs : pc'[r] = IF r = p THEN pc'[p] ELSE pc[r]
    BY <1>4 DEF ReleaseCheck, files, Goto, TypeOK
  <2>2. pc[p] = "held" /\ pc'[p] \in {"release", "idle"}
    BY <1>4 DEF ReleaseCheck, Goto, TypeOK
  <2>3. Dead' = Dead
    BY <2>1, <2>2 DEF Dead
  <2> QED BY <1>0, <2>1, <2>2, <2>3 DEF SnapshotOK
<1>5. ASSUME NEW p \in Procs, Release(p) \/ RemoveStale(p)
      PROVE  SnapshotOK(q)'
  <2>1. Dead' = Dead
    BY <1>5, Removal DEF Dead
  <2> QED BY <1>0, <1>5, <2>1, Removal DEF SnapshotOK
<1>6. ASSUME NEW p \in Procs, Marks(p)
      PROVE  SnapshotOK(q)'
  <2>1. Dead' = Dead /\ \A r \in Procs : pc'[r] = "made" <=> pc[r] = "made"
    BY <1>6, MarkKeeps DEF Dead
  <2>2. UNCHANGED <<lockDir, owner, seen, now>> /\ aged \in BOOLEAN /\ aged' \in BOOLEAN
        /\ (aged' => aged)
        /\ (pc'[q] \in {"stat", "restat"} => pc'[q] = pc[q])
    BY <1>0, <1>6, MarkKeeps DEF TypeOK
  <2> QED BY <1>0, <2>1, <2>2 DEF SnapshotOK
<1>7. ASSUME NEW p \in Procs, Crash(p)
      PROVE  SnapshotOK(q)'
  <2>1. Dead' # {}
    BY <1>7, FirstDeath
  <2> QED BY <1>0, <1>7, <2>1 DEF SnapshotOK, Crash, files, Goto, TypeOK
<1>8. CASE Age
  <2>1. pc[q] \in {"stat", "restat"} /\ ~now[q].has => owner = None
    BY <1>0, <1>8 DEF Age, Settled, Benign, TypeOK
  <2> QED BY <1>0, <1>8, <2>1 DEF SnapshotOK, Age, Dead
<1>9. CASE UNCHANGED vars
  BY <1>0, <1>9 DEF SnapshotOK, Dead, vars, files
<1> QED BY <1>1, <1>2, <1>3, <1>4, <1>5, <1>6, <1>7, <1>8, <1>9, BenignSteps DEF Works

(* Every step keeps the marker young, with a reclaimer that is alive. *)
LEMMA MarkerInv ==
  ASSUME Benign, IInv, DeathOK', [Next]_vars
  PROVE  MarkerOK'
<1> USE Names DEF IInv
<1>1. ASSUME NEW p \in Procs, Looks(p)
      PROVE  MarkerOK'
  <2>1. marker' = marker /\ markerAged' = markerAged
    BY <1>1, LookKeeps DEF files
  <2>2. marker = None \/ ~ (Restat(p) /\ pc'[p] \notin Reclaiming)
    BY DEF PathOK, Restat, Goto, TypeOK, Reclaiming
  <2>3. pc[p] \in {"reread", "restat"} => RereadOwner(p) \/ Restat(p)
    BY <1>1 DEF Looks, Request, MkdirExists, ReadOwner, StatLock, Poll, MarkerOpenFails,
                MarkerBusy
  <2>4. RereadOwner(p) => pc'[p] \in Reclaiming
    BY DEF RereadOwner, Goto, TypeOK, Reclaiming
  <2>5. ASSUME NEW r \in Procs, pc[r] \in Reclaiming, token[r] = marker, marker # None
        PROVE  pc'[r] \in Reclaiming /\ token'[r] = marker
    BY <1>1, <2>2, <2>3, <2>4, <2>5, LookKeeps DEF Reclaiming
  <2> QED BY <2>1, <2>5 DEF MarkerOK
<1>2. ASSUME NEW p \in Procs, Mkdir(p) \/ WriteOwner(p) \/ ReleaseCheck(p)
      PROVE  MarkerOK'
  <2>1. /\ UNCHANGED <<marker, markerAged, token>> /\ pc[p] \notin Reclaiming
        /\ \A r \in Procs \ {p} : pc'[r] = pc[r]
    BY <1>2 DEF Mkdir, WriteOwner, ReleaseCheck, files, Goto, TypeOK, Reclaiming
  <2> QED BY <2>1 DEF MarkerOK
<1>3. ASSUME NEW p \in Procs, Release(p) \/ RemoveStale(p)
      PROVE  MarkerOK'
  BY <1>3, Removal DEF MarkerOK
<1>4. ASSUME NEW p \in Procs, MarkerOpen(p)
      PROVE  MarkerOK'
  <2>1. markerAged' = FALSE /\ pc'[p] = "markWrite" /\ token'[p] = marker'
    BY <1>4 DEF MarkerOpen, Goto, TypeOK
  <2> QED BY <2>1 DEF MarkerOK, Reclaiming
<1>5. ASSUME NEW p \in Procs, MarkerWrite(p) \/ Unmark(p)
      PROVE  MarkerOK'
  <2>1. /\ UNCHANGED token /\ \A r \in Procs \ {p} : pc'[r] = pc[r]
        /\ markerAged' => markerAged
    BY <1>5 DEF MarkerWrite, Unmark, Goto, TypeOK
  <2>2. marker' # None =>
          /\ marker' = marker
          /\ token[p] = marker => pc'[p] = "reread"
    BY <1>5 DEF MarkerWrite, Unmark, Goto, TypeOK
  <2> QED BY <2>1, <2>2 DEF MarkerOK, Reclaiming
<1>6. ASSUME NEW p \in Procs, Crash(p)
      PROVE  MarkerOK'
  <2>1. pc[p] \notin Reclaiming
    BY <1>6, FirstDeath DEF ReclaimerOK
  <2> QED BY <1>6, <2>1 DEF MarkerOK, Crash, files, Goto, TypeOK
<1>7. CASE Age \/ UNCHANGED vars
  BY <1>7 DEF MarkerOK, Age, vars, files
<1> QED BY <1>1, <1>2, <1>3, <1>4, <1>5, <1>6, <1>7, BenignSteps DEF Works, Marks

-----------------------------------------------------------------------------
(* A working process is proof that the lock is not left behind. *)
LEMMA WorkIsLive ==
  ASSUME IInv, NEW p \in Procs, Mkdir(p) \/ WriteOwner(p) \/ ReleaseCheck(p) \/ Release(p)
  PROVE  ~ Stale
<1>1. CASE Mkdir(p)
  BY <1>1 DEF Mkdir, Stale
<1>2. CASE WriteOwner(p)
  BY <1>2, Names DEF WriteOwner, IInv, PathOK, Stale, Dead
<1>3. CASE ReleaseCheck(p) \/ Release(p)
  BY <1>3, Names DEF ReleaseCheck, Release, RemoveLockDir, IInv, PathOK, Stale, Dead
<1> QED BY <1>1, <1>2, <1>3

(* Nothing but a death makes a lock that is in use a stale one. *)
LEMMA StaysLive ==
  ASSUME Benign, IInv, [Next]_vars, ~Stale, \A p \in Procs : ~ Crash(p)
  PROVE  ~Stale'
<1> USE Names DEF IInv
<1>1. Dead' = Dead
  BY SameDead
<1>2. ASSUME NEW p \in Procs, Looks(p)
      PROVE  ~Stale'
  <2>1. UNCHANGED <<lockDir, owner>> /\ \A r \in Procs : pc'[r] = "made" <=> pc[r] = "made"
    BY <1>2, LookKeeps DEF files
  <2> QED BY <1>1, <2>1 DEF Stale
<1>3. ASSUME NEW p \in Procs, Marks(p)
      PROVE  ~Stale'
  <2>1. UNCHANGED <<lockDir, owner>> /\ \A r \in Procs : pc'[r] = "made" <=> pc[r] = "made"
    BY <1>3, MarkKeeps
  <2> QED BY <1>1, <2>1 DEF Stale
<1>4. ASSUME NEW p \in Procs, Mkdir(p)
      PROVE  ~Stale'
  BY <1>1, <1>4 DEF Mkdir, Stale, Goto, TypeOK, Dead
<1>5. ASSUME NEW p \in Procs, WriteOwner(p)
      PROVE  ~Stale'
  BY <1>1, <1>5 DEF WriteOwner, Stale, Goto, TypeOK, Dead
<1>6. ASSUME NEW p \in Procs, ReleaseCheck(p)
      PROVE  ~Stale'
  BY <1>1, <1>6 DEF ReleaseCheck, Stale, PathOK, files, Dead
<1>7. ASSUME NEW p \in Procs, Release(p) \/ RemoveStale(p)
      PROVE  ~Stale'
  BY <1>7, Removal DEF Stale
<1>8. CASE Age \/ UNCHANGED vars
  BY <1>1, <1>8 DEF Age, vars, files, Stale
<1> QED BY <1>2, <1>3, <1>4, <1>5, <1>6, <1>7, <1>8, BenignSteps DEF Works

(* What leads a contender to take the lock for a stale one: there is one, *)
(* and somebody has died.                                                  *)
LEMMA Abandoned ==
  ASSUME IInv, NEW p \in Procs, pc[p] \in {"stat", "restat"}, lockDir # None,
         (~now[p].has /\ aged) \/ (pc[p] = "restat" /\ StillAbandoned(p))
  PROVE  Stale /\ Dead # {}
<1>1. owner = None /\ \A r \in Procs : pc[r] # "made"
  BY DEF IInv, SnapshotOK, PathOK, StillAbandoned
<1> QED BY <1>1 DEF Stale, IInv, PathOK

(* Every step keeps a reclaimer alive, and its marker with it. *)
LEMMA ReclaimerInv ==
  ASSUME Benign, IInv, DeathOK', [Next]_vars, NEW q \in Procs
  PROVE  ReclaimerOK(q)'
<1> USE Names DEF IInv
<1>0. TypeOK /\ TypeOK' /\ PathOK /\ ReclaimerOK(q) /\ SnapshotOK(q)
  BY TypeInv
<1>1. ASSUME NEW p \in Procs, Looks(p)
      PROVE  ReclaimerOK(q)'
  <2>1. Dead' = Dead /\ UNCHANGED files
    BY <1>1, LookKeeps DEF Dead
  <2>2. Stale' <=> Stale
    BY <1>1, <2>1, LookKeeps DEF Stale, files
  <2>3. pc[p] \in {"reread", "restat"} => RereadOwner(p) \/ Restat(p)
    BY <1>1 DEF Looks, Request, MkdirExists, ReadOwner, StatLock, Poll, MarkerOpenFails,
                MarkerBusy
  <2>4. \A r \in Procs : pc'[r] \in Reclaiming => pc[r] \in Reclaiming /\ token'[r] = token[r]
    <3>1. pc'[p] \in Reclaiming => pc[p] \in Reclaiming
      BY <1>1 DEF Looks, Goto, TypeOK, Reclaiming, Request, MkdirExists, ReadOwner, StatLock,
                  Poll, MarkerOpenFails, MarkerBusy, RereadOwner, Restat
    <3> QED BY <1>1, <3>1, LookKeeps DEF Reclaiming
  <2>5. CASE q # p
    BY <1>0, <1>1, <2>1, <2>2, <2>4, <2>5, LookKeeps DEF ReclaimerOK, files
  <2>6. CASE q = p /\ RereadOwner(p)
    <3>1. pc[p] = "reread" /\ pc'[p] = "restat" /\ token' = token /\ now'[p] = OwnerRead
      BY <2>6 DEF RereadOwner, Goto, TypeOK
    <3>2. now'[p].stale => owner \in Dead
      BY <3>1, ReadTells
    <3>3. owner \in Dead => Stale
      BY DEF PathOK, Stale, Dead
    <3> QED BY <1>0, <2>1, <2>2, <2>4, <2>6, <3>1, <3>2, <3>3 DEF ReclaimerOK, files, Reclaiming
  <2>7. CASE q = p /\ Restat(p)
    <3>1. pc[p] = "restat" /\ token' = token /\ pc'[p] \in {"try", "rmStale", "unmark"}
      BY <2>7 DEF Restat, Goto, TypeOK
    <3>2. pc'[p] = "rmStale" => Stale
      <4>1. SUFFICES ASSUME pc'[p] = "rmStale" PROVE Stale
        OBVIOUS
      <4>2. lockDir # None /\ (now[p].stale \/ (~now[p].has /\ aged) \/ StillAbandoned(p))
        BY <2>7, <4>1 DEF Restat, Goto, TypeOK
      <4>3. now[p].stale => Stale
        BY <1>0, <2>7, <3>1, <4>2 DEF ReclaimerOK, Stale
      <4> QED BY <3>1, <4>2, <4>3, Abandoned
    <3> QED BY <1>0, <2>1, <2>2, <2>4, <2>7, <3>1, <3>2 DEF ReclaimerOK, files, Reclaiming
  <2>8. CASE q = p /\ StatLock(p)
    <3>1. pc[p] = "stat" /\ pc'[p] \in {"try", "mark", "poll"}
      BY <2>8 DEF StatLock, Goto, TypeOK
    <3>2. pc'[p] = "mark" => Dead # {}
      <4>1. SUFFICES ASSUME pc'[p] = "mark" PROVE Dead # {}
        OBVIOUS
      <4>2. lockDir # None /\ (now[p].stale \/ (~now[p].has /\ aged))
        BY <2>8, <4>1 DEF StatLock, Goto, TypeOK
      <4> QED BY <1>0, <2>8, <3>1, <4>2, Abandoned DEF SnapshotOK
    <3> QED BY <2>1, <2>8, <3>1, <3>2 DEF ReclaimerOK, Reclaiming
  <2>9. CASE q = p /\ MarkerBusy(p)
    <3>1. pc'[p] \in {"poll", "idle"}
      BY <2>9 DEF MarkerBusy, MarkerOK, Goto, TypeOK
    <3> QED BY <2>9, <3>1 DEF ReclaimerOK, Reclaiming
  <2>10. CASE /\ q = p
              /\ Request(p) \/ MkdirExists(p) \/ ReadOwner(p) \/ Poll(p) \/ MarkerOpenFails(p)
    <3>1. pc'[p] \in {"try", "snap", "stat", "idle", "poll"}
          \/ (pc[p] = "mark" /\ pc'[p] = "busy")
      BY <2>10 DEF Request, MkdirExists, ReadOwner, Poll, MarkerOpenFails, Goto, TypeOK
    <3> QED BY <1>0, <2>1, <2>10, <3>1 DEF ReclaimerOK, Reclaiming
  <2> QED BY <1>1, <2>5, <2>6, <2>7, <2>8, <2>9, <2>10 DEF Looks
<1>2. ASSUME NEW p \in Procs, Mkdir(p) \/ WriteOwner(p) \/ ReleaseCheck(p)
      PROVE  ReclaimerOK(q)'
  <2>1. /\ UNCHANGED <<marker, token, now>>
        /\ pc[p] \notin Reclaiming \cup {"dead"}
        /\ pc'[p] \in {"made", "held", "release", "idle"}
        /\ \A r \in Procs \ {p} : pc'[r] = pc[r]
    BY <1>2 DEF Mkdir, WriteOwner, ReleaseCheck, files, Goto, TypeOK, Reclaiming
  <2>2. ~Stale /\ ~Stale'
    <3>1. \A r \in Procs : ~ Crash(r)
      BY <2>1 DEF Crash, Goto, TypeOK
    <3> QED BY <1>2, <3>1, WorkIsLive, StaysLive
  <2>3. Dead' = Dead
    BY <2>1 DEF Dead
  <2>4. owner \in Dead => Stale
    BY DEF PathOK, Stale, Dead
  <2> QED BY <1>0, <2>1, <2>2, <2>3, <2>4 DEF ReclaimerOK, Reclaiming
<1>3. ASSUME NEW p \in Procs, Release(p) \/ RemoveStale(p)
      PROVE  ReclaimerOK(q)'
  <2>1. Dead' = Dead /\ ~Stale' /\ pc'[p] \notin Reclaiming
    BY <1>3, Removal DEF Dead, Stale, Reclaiming
  <2>2. owner \in Dead => Stale
    BY DEF PathOK, Stale, Dead
  <2>3. q # p => pc[q] # "rmStale" /\ ~ (pc[q] = "restat" /\ now[q].stale)
    <3>1. CASE Release(p)
      BY <1>0, <2>2, <3>1, WorkIsLive DEF ReclaimerOK
    <3>2. CASE RemoveStale(p)
      <4>1. pc[p] = "rmStale" /\ ReclaimerOK(p)
        BY <3>2 DEF RemoveStale, RemoveLockDir
      <4> QED BY <1>0, <4>1 DEF ReclaimerOK, Reclaiming
    <3> QED BY <1>3, <3>1, <3>2
  <2> QED BY <1>0, <1>3, <2>1, <2>3, Removal DEF ReclaimerOK, Reclaiming
<1>4. ASSUME NEW p \in Procs, MarkerOpen(p)
      PROVE  ReclaimerOK(q)'
  <2>1. /\ marker = None /\ marker' \in Tokens /\ token'[p] = marker'
        /\ \A r \in Procs : token[r] # marker'
        /\ \A r \in Procs \ {p} : token'[r] = token[r] /\ pc'[r] = pc[r]
        /\ pc[p] \in {"mark", "markAgain"} /\ pc'[p] = "markWrite" /\ now' = now
    BY <1>4 DEF MarkerOpen, NewToken, FreshToken, Goto, TypeOK
  <2>2. Dead' = Dead
    BY <2>1 DEF Dead
  <2>3. Stale => Stale'
    BY <1>4, <2>1, <2>2 DEF MarkerOpen, Stale
  <2>4. ~Stale => ~Stale'
    <3>1. \A r \in Procs : ~ Crash(r)
      BY <2>1 DEF Crash, Goto, TypeOK
    <3> QED BY <3>1, StaysLive
  <2>5. CASE q = p
    BY <1>0, <2>1, <2>2, <2>5 DEF ReclaimerOK, Reclaiming
  <2>6. CASE q # p
    BY <1>0, <2>1, <2>2, <2>4, <2>6 DEF ReclaimerOK, Reclaiming
  <2> QED BY <2>5, <2>6
<1>5. ASSUME NEW p \in Procs, MarkerWrite(p) \/ Unmark(p)
      PROVE  ReclaimerOK(q)'
  <2>1. /\ UNCHANGED <<token, now, lockDir, owner>> /\ pc[p] \in {"markWrite", "unmark"}
        /\ pc'[p] \in {"reread", "poll", "idle"} /\ (pc'[p] = "reread" => pc[p] = "markWrite")
        /\ marker' = marker \/ (marker' = None /\ marker = token[p])
        /\ \A r \in Procs \ {p} : pc'[r] = pc[r]
        /\ pc[p] = "markWrite" => marker' = marker
    BY <1>5 DEF MarkerWrite, Unmark, Goto, TypeOK
  <2>2. Dead' = Dead /\ (Stale <=> Stale')
    <3>1. Dead' = Dead
      BY <2>1 DEF Dead
    <3> QED BY <2>1, <3>1 DEF Stale
  <2>3. CASE q = p
    BY <1>0, <2>1, <2>2, <2>3 DEF ReclaimerOK, Reclaiming
  <2>4. CASE q # p
    <3>1. pc[q] \in Reclaiming /\ marker = token[q] => marker' = marker
      BY <1>0, <2>1, <2>4 DEF ReclaimerOK, Reclaiming
    <3> QED BY <1>0, <2>1, <2>2, <2>4, <3>1 DEF ReclaimerOK, Reclaiming
  <2> QED BY <2>3, <2>4
<1>6. ASSUME NEW p \in Procs, Crash(p)
      PROVE  ReclaimerOK(q)'
  <2>1. Dead = {} /\ pc'[q] \in {pc[q], "dead"}
    BY <1>6, FirstDeath DEF Crash, Goto, TypeOK
  <2> QED BY <1>0, <2>1 DEF ReclaimerOK, Reclaiming
<1>7. CASE Age \/ UNCHANGED vars
  <2>1. UNCHANGED <<lockDir, owner, marker, pc, now, token>>
    BY <1>7 DEF Age, vars, files
  <2> QED BY <1>0, <2>1 DEF ReclaimerOK, Stale, Dead
<1> QED BY <1>1, <1>2, <1>3, <1>4, <1>5, <1>6, <1>7, BenignSteps DEF Works, Marks

-----------------------------------------------------------------------------
(* The invariant holds at first. *)
LEMMA InitInv == Init => IInv
<1> SUFFICES ASSUME Init PROVE IInv
  OBVIOUS
<1>1. TypeOK
  BY DEF Init, TypeOK, Control, NoRead
<1>2. DeathOK /\ PathOK /\ MarkerOK
  BY DEF Init, DeathOK, PathOK, MarkerOK, Dead
<1>3. ASSUME NEW p \in Procs PROVE SnapshotOK(p) /\ ReclaimerOK(p)
  BY <1>3 DEF Init, SnapshotOK, ReclaimerOK, NoRead, Reclaiming
<1> QED BY <1>1, <1>2, <1>3 DEF IInv

(* Every step but a second death keeps it. *)
LEMMA NextInv == Benign /\ IInv /\ DeathOK' /\ [Next]_vars => IInv'
BY TypeInv, PathInv, MarkerInv, SnapshotInv, ReclaimerInv DEF IInv

(* It holds until the second death. *)
LEMMA Invariance ==
  ASSUME Benign
  PROVE  Spec => [](DeathOK => IInv)
<1>1. TypeOK /\ (DeathOK => IInv) /\ [Next]_vars => TypeOK' /\ (DeathOK => IInv)'
  <2> SUFFICES ASSUME TypeOK, DeathOK => IInv, [Next]_vars, DeathOK' PROVE IInv'
    BY TypeInv
  <2>1. DeathOK
    BY DeathMono DEF DeathOK
  <2> QED BY <2>1, NextInv
<1>2. Init => TypeOK /\ (DeathOK => IInv)
  BY InitInv DEF IInv
<1> QED BY <1>1, <1>2, PTL DEF Spec

-----------------------------------------------------------------------------
(* Before the first death *)

(* The lock belongs to one process from mkdir to the removal of the directory, whether
   that is one step or several, and nobody has seen it without an owner for too long. *)
QuietOK ==
  Dead = {} =>
    /\ marker = None
    /\ lockDir = None => owner = None
    /\ lockDir # None => \E p \in Procs : pc[p] \in {"made", "held", "release"}
    /\ \A p, q \in Procs :
         pc[p] \in {"made", "held", "release"} /\ pc[q] \in {"made", "held", "release"} => p = q
    /\ \A p \in Procs :
         /\ pc[p] \notin {"mark", "busy", "claim", "verify", "markAgain"} \cup Reclaiming
         /\ ~now[p].stale
         /\ pc[p] = "stat" /\ ~now[p].has => ~aged
         /\ pc[p] \in {"made", "held", "release"} => lockDir # None
         /\ pc[p] = "made" => owner = None
         /\ pc[p] = "held" => owner = p
         /\ pc[p] = "release" => owner \in {None, p}
    /\ owner = None => ~aged

(* Every step keeps that, until somebody dies. *)
LEMMA QuietInv == ASSUME ~Stalls, TypeOK, QuietOK, [Next]_vars PROVE QuietOK'
<1> SUFFICES ASSUME Dead' = {} PROVE QuietOK'
  BY DEF QuietOK
<1> USE Names
<1>1. Dead = {} /\ TypeOK'
  BY DeathMono, TypeInv
<1>2. \A p \in Procs : ~ Crash(p)
  BY <1>1 DEF Crash, Goto, TypeOK, Dead
<1>3. /\ marker = None /\ (lockDir = None => owner = None) /\ (owner = None => ~aged)
      /\ lockDir # None => \E p \in Procs : pc[p] \in {"made", "held", "release"}
      /\ \A p, q \in Procs :
           pc[p] \in {"made", "held", "release"} /\ pc[q] \in {"made", "held", "release"} => p = q
      /\ \A p \in Procs :
           /\ pc[p] \notin {"mark", "busy", "claim", "verify", "markAgain"} \cup Reclaiming
           /\ ~now[p].stale
           /\ pc[p] = "stat" /\ ~now[p].has => ~aged
           /\ pc[p] \in {"made", "held", "release"} => lockDir # None
           /\ pc[p] = "made" => owner = None
           /\ pc[p] = "held" => owner = p
           /\ pc[p] = "release" => owner \in {None, p}
  BY <1>1 DEF QuietOK
<1>4. ASSUME NEW p \in Procs, Looks(p) PROVE QuietOK'
  <2>1. /\ UNCHANGED files
        /\ \A q \in Procs \ {p} : pc'[q] = pc[q] /\ now'[q] = now[q]
        /\ pc[p] \notin {"made", "held", "release"} /\ pc'[p] \notin {"made", "held", "release"}
    BY <1>4, LookKeeps
  <2>2. Request(p) \/ MkdirExists(p) \/ ReadOwner(p) \/ StatLock(p) \/ Poll(p)
    BY <1>3, <1>4 DEF Looks, MarkerOpenFails, MarkerBusy, RereadOwner, Restat, Reclaiming
  <2>3. /\ ~now'[p].stale
        /\ pc'[p] = "stat" /\ ~now'[p].has => ~aged
        /\ pc'[p] \notin {"mark", "busy", "claim", "verify", "markAgain"} \cup Reclaiming
    <3>1. CASE ReadOwner(p)
      <4>1. now'[p] = OwnerRead /\ pc'[p] = "stat"
        BY <3>1 DEF ReadOwner, Goto, TypeOK
      <4>2. ~now'[p].stale
        BY <1>1, <4>1, ReadTells
      <4>3. ~now'[p].has => owner = None
        BY <4>1, ReadTells
      <4> QED BY <1>3, <4>1, <4>2, <4>3 DEF Reclaiming
    <3>2. CASE StatLock(p)
      <4>1. now' = now /\ pc[p] = "stat" /\ pc'[p] \in {"try", "mark", "poll"}
        BY <3>2 DEF StatLock, Goto, TypeOK
      <4>2. pc'[p] # "mark"
        BY <1>3, <3>2 DEF StatLock, Goto, TypeOK
      <4> QED BY <1>3, <4>1, <4>2 DEF Reclaiming
    <3>3. CASE Request(p) \/ MkdirExists(p) \/ Poll(p)
      <4>1. now' = now /\ pc'[p] \in {"try", "snap", "idle"}
        BY <3>3 DEF Request, MkdirExists, Poll, Goto, TypeOK
      <4> QED BY <1>3, <4>1 DEF Reclaiming
    <3> QED BY <2>2, <3>1, <3>2, <3>3
  <2> QED BY <1>3, <2>1, <2>3 DEF QuietOK, files
<1>5. ASSUME NEW p \in Procs, Mkdir(p) PROVE QuietOK'
  <2>1. /\ UNCHANGED <<marker, now>> /\ lockDir' # None /\ owner' = None /\ ~aged'
        /\ lockDir = None /\ \A q \in Procs : pc'[q] = IF q = p THEN "made" ELSE pc[q]
    BY <1>5 DEF Mkdir, Goto, TypeOK
  <2> QED BY <1>3, <2>1 DEF QuietOK, Reclaiming
<1>6. ASSUME NEW p \in Procs, WriteOwner(p) PROVE QuietOK'
  <2>1. /\ UNCHANGED <<marker, now>> /\ lockDir' # None /\ owner' = p /\ ~aged' /\ pc[p] = "made"
        /\ \A q \in Procs : pc'[q] = IF q = p THEN "held" ELSE pc[q]
    BY <1>6 DEF WriteOwner, Goto, TypeOK
  <2> QED BY <1>3, <2>1 DEF QuietOK, Reclaiming
<1>7. ASSUME NEW p \in Procs, ReleaseCheck(p) PROVE QuietOK'
  <2>1. /\ UNCHANGED <<files, now>> /\ pc[p] = "held"
        /\ \A q \in Procs : pc'[q] = IF q = p THEN "release" ELSE pc[q]
    BY <1>3, <1>7 DEF ReleaseCheck, Goto, TypeOK
  <2> QED BY <1>3, <2>1 DEF QuietOK, Reclaiming, files
<1>8. ASSUME NEW p \in Procs, Release(p) PROVE QuietOK'
  <2>1. pc[p] = "release" /\ now' = now /\ marker' = None
    BY <1>3, <1>8 DEF Release, RemoveLockDir
  <2>2. CASE /\ lockDir' = None /\ owner' = None /\ aged' = FALSE
             /\ \A q \in Procs : pc'[q] = IF q = p THEN "idle" ELSE pc[q]
    BY <1>3, <2>1, <2>2 DEF QuietOK, Reclaiming
  <2>3. CASE owner' = None /\ aged' = FALSE /\ UNCHANGED <<lockDir, pc>>
    BY <1>3, <2>1, <2>3 DEF QuietOK
  <2> QED BY <1>3, <1>8, <2>2, <2>3 DEF Release, RemoveLockDir, Goto, TypeOK
<1>9. CASE Age
  <2>1. /\ UNCHANGED <<lockDir, owner, marker, pc, now>> /\ lockDir # None
        /\ \A p \in Procs : Settled(p)
    BY <1>9 DEF Age
  <2>2. owner # None
    BY <1>3, <2>1 DEF Settled
  <2>3. \A p \in Procs : pc[p] = "stat" => now[p].has
    BY <2>1, <2>2 DEF Settled, TypeOK
  <2> QED BY <1>3, <2>1, <2>2, <2>3 DEF QuietOK
<1>10. CASE AgeMarker
  BY <1>3, <1>10 DEF AgeMarker
<1>11. CASE UNCHANGED vars
  BY <1>3, <1>11 DEF QuietOK, vars, files
<1>12. ASSUME NEW p \in Procs,
              \/ MarkerOpen(p) \/ MarkerWrite(p) \/ MarkerClaim(p) \/ MarkerRestore(p)
              \/ RemoveStale(p) \/ Unmark(p)
       PROVE  FALSE
  BY <1>3, <1>12 DEF MarkerOpen, MarkerWrite, MarkerClaim, MarkerRestore, RemoveStale,
                     RemoveLockDir, Unmark, Reclaiming
<1> QED BY <1>2, <1>4, <1>5, <1>6, <1>7, <1>8, <1>9, <1>10, <1>11, <1>12 DEF Next, Step, Looks

(* It holds in every behaviour without too long a pause. *)
LEMMA Quiet ==
  ASSUME ~Stalls
  PROVE  Spec => [](TypeOK /\ QuietOK)
<1>1. Init => TypeOK /\ QuietOK
  <2> SUFFICES ASSUME Init PROVE TypeOK /\ QuietOK
    OBVIOUS
  <2>1. TypeOK
    BY InitInv DEF IInv
  <2> QED BY <2>1 DEF Init, QuietOK, NoRead, Reclaiming
<1>2. TypeOK /\ QuietOK /\ [Next]_vars => TypeOK' /\ QuietOK'
  BY TypeInv, QuietInv
<1> QED BY <1>1, <1>2, PTL DEF Spec

-----------------------------------------------------------------------------
(* What is true of every behaviour. *)

(* Files and locals have their types, with any removal, any pauses and any  *)
(* number of deaths.                                                       *)
THEOREM TypeCorrect == Spec => []TypeOK
<1>1. Init => TypeOK
  BY InitInv DEF IInv
<1> QED BY <1>1, TypeInv, PTL DEF Spec

(* Two processes never work under the same lock (withLeaseMutationLock), while nobody has died, or
   one process and rmSync is one step. *)
THEOREM Exclusion ==
  ASSUME ~Stalls
  PROVE  Spec => [](Mild => MutualExclusion)
<1>1. CASE AtomicRemove
  <2>1. (DeathOK => IInv) => (Mild => MutualExclusion)
    BY DEF IInv, PathOK, MutualExclusion, Mild, DeathOK
  <2>2. Spec => [](DeathOK => IInv)
    BY <1>1, Invariance DEF Benign
  <2> QED BY <2>1, <2>2, PTL
<1>2. CASE ~AtomicRemove
  <2>1. TypeOK /\ QuietOK => (Mild => MutualExclusion)
    BY <1>2 DEF QuietOK, MutualExclusion, Mild
  <2> QED BY <2>1, Quiet, PTL
<1> QED BY <1>1, <1>2

(* Nobody removes or replaces the lock of a process that is working (reclaimStaleLock),
   while nobody has died, or one process and rmSync is one step. *)
THEOREM HolderUndisturbed ==
  ASSUME ~Stalls
  PROVE  Spec => [](Mild => HolderKeepsLock)
<1>1. CASE AtomicRemove
  <2>1. (DeathOK => IInv) => (Mild => HolderKeepsLock)
    BY Names DEF IInv, PathOK, HolderKeepsLock, Mild, DeathOK
  <2>2. Spec => [](DeathOK => IInv)
    BY <1>1, Invariance DEF Benign
  <2> QED BY <2>1, <2>2, PTL
<1>2. CASE ~AtomicRemove
  <2>1. TypeOK /\ QuietOK => (Mild => HolderKeepsLock)
    BY <1>2 DEF QuietOK, HolderKeepsLock, Mild
  <2> QED BY <2>1, Quiet, PTL
<1> QED BY <1>1, <1>2

=============================================================================
