--------------------------- MODULE Containment_proofs ---------------------------
(***************************************************************************)
(* Proofs about Containment, for any process ids and number of starts:     *)
(* whom a containment signals, and what it leaves.                         *)
(***************************************************************************)
EXTENDS Containment, TLAPS

(* Parents live; a defunct process waits for its own. *)
ParentOK ==
  \A p \in Listed :
    /\ proc[p].parent \in Live \union {None}
    /\ proc[p].defunct => proc[p].parent # None

Parentless == {p \in Listed : proc[p].parent = None}

(* Every process descends from one that has no parent. *)
RootedOK ==
  \A set \in SUBSET Pids : Parentless \subseteq set /\ Closed(set) => Listed \subseteq set

(* A process belongs to the lease if its parent does, or another of its group, and
   what names the simulator does. *)
KinOK ==
  /\ \A p \in Listed : proc[p].parent # None => proc[p].kin = proc[proc[p].parent].kin
  /\ \A p, q \in Listed : proc[p].group = proc[q].group => proc[p].kin = proc[q].kin
  /\ \A p \in Listed : proc[p].names # "nothing" => proc[p].kin

(* A pid that names a group is in it, or is free. *)
LeaderOK == \A p, q \in Listed : proc[p].group = q => proc[q].group = q

(* Only the owner is older than the lease. *)
OwnerOK == Owner \in Listed /\ proc[Owner].age = 0 => proc[Owner].group = Owner /\ proc[Owner].kin

TableOK == ParentOK /\ RootedOK /\ KinOK /\ LeaderOK /\ OwnerOK

(* What is as old as the registered command, and has its pid or group, is the lease's;
   the command is not the owner, and in the group it was registered with. *)
CommandOK ==
  command # None =>
    /\ command.pid # Owner
    /\ \A p \in Listed :
         proc[p].age < 2 /\ (p = command.pid \/ proc[p].group = command.group) => proc[p].kin
    /\ command.pid \in Listed /\ proc[command.pid].age < 2 /\ command.group # None =>
         proc[command.pid].group = command.group

(* The one that contains and the one that asked for it are not among the targets, and
   the owner only by choice. *)
SparedOK ==
  /\ self # None => self \in Live /\ self \in present /\ self \notin chosen
  /\ requester \notin chosen
  /\ Owner \in chosen /\ Owner \in Live /\ proc[Owner].age = 0 => killOwner

(* A group is signalled that is neither the owner's nor the requester's. *)
GroupOK ==
  place = "group" =>
    /\ command # None /\ command.group # Owner
    /\ requester \notin Group(CommandGroup) \intersect present
    /\ \A p \in Group(CommandGroup) \intersect present : proc[p].kin \/ Adopted(p)

(* A target that was there at the sample is the lease's. *)
TargetsOK ==
  /\ place = "idle" => targets = {}
  /\ \A p \in targets \intersect Listed \intersect present : proc[p].kin \/ Adopted(p)

(* After a complete cleanup nothing of the lease is left but what is excepted. *)
LeftOK ==
  place = "unlink" =>
    /\ targets = {}
    /\ \A p \in Live \intersect present : proc[p].kin => p \in spared \union astray

(* The inductive invariant. *)
IInv == TypeOK /\ TableOK /\ CommandOK /\ SparedOK /\ GroupOK /\ TargetsOK /\ LeftOK


-----------------------------------------------------------------------------
(* Descendants *)

(* The roots are among them, their children are, and nothing more than a set needs
   that has both. *)
LEMMA BelowSet ==
  ASSUME NEW roots \in SUBSET Pids
  PROVE  /\ roots \subseteq Below(roots) /\ Below(roots) \subseteq Pids /\ Closed(Below(roots))
         /\ \A set \in SUBSET Pids : roots \subseteq set /\ Closed(set) => Below(roots) \subseteq set
<1>1. Closed(Below(roots))
  <2> SUFFICES ASSUME NEW p \in Listed, proc[p].parent \in Below(roots),
                      NEW set \in SUBSET Pids, roots \subseteq set, Closed(set)
               PROVE  p \in set
    BY DEF Closed, Below, Listed
  <2>1. proc[p].parent \in set
    BY DEF Below
  <2> QED BY <2>1 DEF Closed
<1>2. roots \subseteq Below(roots)
  BY DEF Below
<1> QED BY <1>1, <1>2 DEF Below

(* What descends from the lease's processes is the lease's. *)
LEMMA KinBelow ==
  ASSUME TableOK, NEW roots \in SUBSET Pids, \A p \in roots \intersect Listed : proc[p].kin
  PROVE  \A p \in Below(roots) \intersect Listed : proc[p].kin
<1> DEFINE S == {p \in Pids : p \in Listed => proc[p].kin}
<1>1. Closed(S)
  <2> SUFFICES ASSUME NEW p \in Listed, proc[p].parent \in S PROVE p \in S
    BY DEF Closed
  <2>1. proc[p].parent \in Listed /\ proc[p].parent # None
    BY OwnerAssumption DEF TableOK, ParentOK, Live
  <2> QED BY <2>1 DEF TableOK, KinOK, Listed
<1>2. roots \subseteq S
  OBVIOUS
<1> QED BY <1>1, <1>2, BelowSet

-----------------------------------------------------------------------------
(* What a sample shows *)

(* A process that a live owner's lease names is the lease's. *)
LEMMA OwnerKin == ASSUME IInv, OwnerValid PROVE proc[Owner].kin /\ proc[Owner].group = Owner
BY DEF IInv, TableOK, OwnerOK, OwnerValid, Live

(* The owner's group, if the lease knows one, is named by the owner. *)
LEMMA OwnerGroupName == ASSUME IInv, OwnerGroup # None PROVE OwnerGroup = Owner
BY OwnerKin DEF OwnerGroup, IInv, TypeOK

(* The group that is claimed is the command's, or has lost its leader. *)
LEMMA ClaimedKin ==
  ASSUME IInv, GroupClaimed
  PROVE  \A p \in Group(CommandGroup) : proc[p].kin \/ Adopted(p)
<1> SUFFICES ASSUME NEW p \in Group(CommandGroup), CommandGroup \in Live PROVE proc[p].kin
  BY DEF Adopted, Group
<1>1. /\ command # None /\ CommandGroup = command.group /\ CommandGroup \in Listed
      /\ p \in Listed /\ proc[p].group = command.group
  BY DEF CommandGroup, GroupClaimed, Group, Live
<1>2. CASE CommandValid
  <2>1. /\ command.pid \in Listed /\ proc[command.pid].age < 2
        /\ proc[command.pid].group = command.group
    BY <1>1, <1>2, OwnerAssumption DEF CommandValid, Live, Listed
  <2>2. proc[command.pid].kin
    BY <1>1, <2>1 DEF IInv, CommandOK
  <2> QED BY <1>1, <2>1, <2>2 DEF IInv, TableOK, KinOK
<1>3. CASE ~CommandValid
  <2>1. GroupMatches
    BY <1>3 DEF GroupClaimed
  <2>2. proc[command.group].group = command.group
    BY <1>1 DEF IInv, TableOK, LeaderOK
  <2>3. ~proc[command.group].defunct /\ command.group \in Group(command.group)
    BY <1>1, <2>2 DEF Live, Group
  <2>4. proc[command.group].age < 2
    BY <1>1, <2>1, <2>3 DEF GroupMatches
  <2>5. proc[command.group].kin
    BY <1>1, <2>2, <2>4 DEF IInv, CommandOK
  <2> QED BY <1>1, <2>2, <2>5 DEF IInv, TableOK, KinOK
<1> QED BY <1>2, <1>3

(* The roots of the selection are pids, and the lease's. *)
LEMMA RootsKin ==
  ASSUME IInv
  PROVE  /\ Roots \in SUBSET Pids /\ OwnerGroupRoots \in SUBSET Pids /\ Tests \in SUBSET Pids
         /\ \A p \in Roots \union OwnerGroupRoots \union Tests : p \in Listed /\ proc[p].kin
<1>1. \A p \in Roots : p \in Listed /\ proc[p].kin
  <2> SUFFICES ASSUME NEW p \in Roots PROVE p \in Listed /\ proc[p].kin
    OBVIOUS
  <2>1. CASE p = Owner /\ OwnerValid
    BY <2>1, OwnerKin DEF OwnerValid, Live
  <2>2. CASE CommandValid /\ p = command.pid
    <3>1. command # None /\ p \in Listed /\ proc[p].age < 2
      BY <2>2 DEF CommandValid, Live
    <3> QED BY <2>2, <3>1 DEF IInv, CommandOK
  <2> QED BY <2>1, <2>2 DEF Roots
<1>2. \A p \in OwnerGroupRoots \union Tests : p \in Listed /\ proc[p].kin
  BY DEF OwnerGroupRoots, Tests, Group, IInv, TableOK, KinOK
<1> QED BY <1>1, <1>2 DEF Listed

(* What is selected is the lease's (discoverLeaseOwnedProcesses), but for a group that
   has lost its leader. *)
LEMMA OwnedKin ==
  ASSUME IInv
  PROVE  /\ Owned \in SUBSET Pids
         /\ \A p \in Owned \intersect Listed : proc[p].kin \/ Adopted(p)
<1>1. /\ Below(Roots) \subseteq Pids /\ Below(OwnerGroupRoots) \subseteq Pids
      /\ Below(Tests) \subseteq Pids
  BY RootsKin, BelowSet
<1>2. \A p \in (Below(Roots) \union Below(OwnerGroupRoots) \union Below(Tests)) \intersect Listed :
        proc[p].kin
  BY RootsKin, KinBelow DEF IInv
<1>3. \A p \in Roots : p \in Pids /\ proc[p].kin
  BY RootsKin
<1> QED BY <1>1, <1>2, <1>3, ClaimedKin DEF Owned, Descendants, Group, Listed


-----------------------------------------------------------------------------
(* The process table *)

(* A step that starts no process: what stays is as before, but for its end and for the
   end of its parent. *)
Shrinks ==
  \A p \in Listed' :
    /\ p \in Listed /\ proc'[p].group = proc[p].group /\ proc'[p].age = proc[p].age
    /\ proc'[p].kin = proc[p].kin /\ proc'[p].names = proc[p].names
    /\ proc'[p].parent \in {proc[p].parent, None}
    /\ proc[p].defunct => proc'[p].defunct

(* What becomes of the others when a process is gone. *)
LEMMA GoneOthers ==
  ASSUME TypeOK, ParentOK, NEW p \in Pids, NEW q \in Pids, q # p
  PROVE  /\ Gone(proc, p)[q] \in Processes \union {None}
         /\ proc[q] = None => Gone(proc, p)[q] = None
         /\ Gone(proc, p)[q] = None => q \notin Live
         /\ Gone(proc, p)[q] # None =>
              /\ q \in Listed /\ Gone(proc, p)[q].group = proc[q].group
              /\ Gone(proc, p)[q].age = proc[q].age /\ Gone(proc, p)[q].kin = proc[q].kin
              /\ Gone(proc, p)[q].names = proc[q].names
              /\ Gone(proc, p)[q].parent = (IF proc[q].parent = p THEN None ELSE proc[q].parent)
              /\ Gone(proc, p)[q].defunct = proc[q].defunct
              /\ proc[q].parent = p => ~proc[q].defunct
<1>1. proc[q] \in Processes \union {None}
  BY DEF TypeOK
<1>2. Gone(proc, p)[q] =
        IF proc[q] = None THEN None ELSE IF proc[q].parent # p THEN proc[q]
        ELSE IF proc[q].defunct THEN None ELSE [proc[q] EXCEPT !.parent = None]
  BY DEF Gone
<1>3. CASE proc[q] = None
  BY <1>2, <1>3 DEF Live, Listed
<1>4. CASE proc[q] # None /\ proc[q].parent # p
  BY <1>1, <1>2, <1>4 DEF Listed
<1>5. CASE proc[q] # None /\ proc[q].parent = p /\ proc[q].defunct
  BY <1>2, <1>5 DEF Live
<1>6. CASE proc[q] # None /\ proc[q].parent = p /\ ~proc[q].defunct
  <2>1. proc[q] \in Processes /\ Gone(proc, p)[q] = [proc[q] EXCEPT !.parent = None]
    BY <1>1, <1>2, <1>6
  <2>2. /\ Gone(proc, p)[q] \in Processes /\ Gone(proc, p)[q].group = proc[q].group
        /\ Gone(proc, p)[q].age = proc[q].age /\ Gone(proc, p)[q].kin = proc[q].kin
        /\ Gone(proc, p)[q].names = proc[q].names /\ Gone(proc, p)[q].parent = None
        /\ Gone(proc, p)[q].defunct = proc[q].defunct
    BY <2>1 DEF Processes
  <2> QED BY <1>6, <2>2, ProcessAssumption DEF Listed
<1> QED BY <1>3, <1>4, <1>5, <1>6

(* No process is its own parent. *)
LEMMA NoLoop == ASSUME TableOK, NEW p \in Listed PROVE proc[p].parent # p
<1> SUFFICES ASSUME proc[p].parent = p PROVE FALSE
  OBVIOUS
<1> DEFINE S == Pids \ {p}
<1>1. p # None
  BY OwnerAssumption DEF Listed
<1>2. Parentless \subseteq S /\ Closed(S)
  BY <1>1 DEF Parentless, Closed, Listed
<1> QED BY <1>2 DEF TableOK, RootedOK

(* A process ends: it is gone, or waits for its parent. *)
LEMMA EndsShrink ==
  ASSUME TypeOK, TableOK, NEW p \in Live, proc' \in Ends(p)
  PROVE  /\ Shrinks /\ ParentOK' /\ proc' \in [Pids -> Processes \union {None}]
         /\ Live' = Live \ {p}
<1>1. p \in Pids /\ p \in Listed /\ proc[p] \in Processes /\ ~proc[p].defunct /\ ParentOK
  BY DEF Live, Listed, TypeOK, TableOK
<1>2. /\ DOMAIN proc' = Pids /\ proc' = [q \in Pids |-> proc'[q]]
      /\ \A q \in Pids : q # p => proc'[q] = Gone(proc, p)[q]
  BY DEF Ends, Gone, Defunct
<1>3. \/ proc'[p] = None
      \/ proc'[p] = [proc[p] EXCEPT !.defunct = TRUE] /\ proc[p].parent # None
  <2>1. CASE proc' = Gone(proc, p)
    BY <1>1, <2>1 DEF Gone
  <2>2. CASE proc' = Defunct(proc, p) /\ proc[p].parent # None
    <3>1. proc'[p] = [proc[p] EXCEPT !.defunct = TRUE]
      BY <1>1, <2>2 DEF Defunct
    <3> QED BY <2>2, <3>1
  <2> QED BY <2>1, <2>2 DEF Ends
<1>4. \/ proc'[p] = None
      \/ /\ proc'[p] \in Processes /\ proc'[p].group = proc[p].group
         /\ proc'[p].age = proc[p].age /\ proc'[p].kin = proc[p].kin
         /\ proc'[p].names = proc[p].names /\ proc'[p].parent = proc[p].parent
         /\ proc'[p].defunct /\ proc[p].parent # None
  BY <1>1, <1>3 DEF Processes
<1>5. proc' \in [Pids -> Processes \union {None}]
  <2>1. \A q \in Pids : proc'[q] \in Processes \union {None}
    BY <1>1, <1>2, <1>4, GoneOthers
  <2> QED BY <1>2, <2>1
<1>6. Shrinks
  BY <1>1, <1>2, <1>4, GoneOthers DEF Shrinks, Listed
<1>7. Live' = Live \ {p}
  <2>1. p \notin Live'
    BY <1>4 DEF Live, Listed
  <2>2. ASSUME NEW q \in Pids, q # p PROVE q \in Live <=> q \in Live'
    BY <1>1, <1>2, <2>2, GoneOthers DEF Live, Listed
  <2> QED BY <2>1, <2>2 DEF Live, Listed
<1>8. ParentOK'
  <2> SUFFICES ASSUME NEW q \in Listed'
               PROVE  /\ proc'[q].parent \in Live' \union {None}
                      /\ proc'[q].defunct => proc'[q].parent # None
    BY DEF ParentOK
  <2>1. q \in Listed /\ proc[q].parent \in Live \union {None}
    BY <1>1, <1>6 DEF Shrinks, ParentOK
  <2>2. CASE q = p
    <3>1. proc'[p].parent = proc[p].parent /\ proc[p].parent # None
      BY <1>4, <2>2 DEF Listed
    <3>2. proc[p].parent # p
      BY <1>1, NoLoop
    <3> QED BY <1>7, <2>1, <2>2, <3>1, <3>2
  <2>3. CASE q # p
    <3>1. /\ proc'[q].parent = (IF proc[q].parent = p THEN None ELSE proc[q].parent)
          /\ proc'[q].defunct = proc[q].defunct /\ (proc[q].parent = p => ~proc[q].defunct)
      <4>1. q \in Pids /\ proc'[q] = Gone(proc, p)[q] /\ proc'[q] # None
        BY <1>2, <2>3 DEF Listed
      <4> QED BY <1>1, <2>3, <4>1, GoneOthers
    <3> QED BY <1>1, <1>7, <2>1, <3>1 DEF ParentOK
  <2> QED BY <2>2, <2>3
<1> QED BY <1>5, <1>6, <1>7, <1>8


(* A defunct process is collected. *)
LEMMA ReapShrink ==
  ASSUME TypeOK, TableOK, NEW p \in Listed \ Live, proc' = Gone(proc, p)
  PROVE  /\ Shrinks /\ ParentOK' /\ proc' \in [Pids -> Processes \union {None}] /\ Live' = Live
<1>1. p \in Pids /\ ParentOK /\ DOMAIN proc' = Pids /\ proc' = [q \in Pids |-> proc'[q]]
      /\ proc'[p] = None
  BY DEF Listed, TableOK, Gone
<1>2. \A q \in Pids : proc'[q] \in Processes \union {None}
  BY <1>1, GoneOthers
<1>3. Shrinks
  BY <1>1, GoneOthers DEF Shrinks, Listed
<1>4. Live' = Live
  <2>1. ASSUME NEW q \in Pids, q # p PROVE q \in Live <=> q \in Live'
    BY <1>1, <2>1, GoneOthers DEF Live, Listed
  <2> QED BY <1>1, <2>1 DEF Live, Listed
<1>5. ParentOK'
  <2> SUFFICES ASSUME NEW q \in Listed'
               PROVE  /\ proc'[q].parent \in Live' \union {None}
                      /\ proc'[q].defunct => proc'[q].parent # None
    BY DEF ParentOK
  <2>1. q \in Listed /\ proc[q].parent \in Live \union {None} /\ proc[q].parent # p
    BY <1>1, <1>3, OwnerAssumption DEF Shrinks, ParentOK, Listed
  <2>2. q # p /\ q \in Pids /\ Gone(proc, p)[q] # None
    BY <1>1 DEF Listed
  <2>3. proc'[q].parent = proc[q].parent /\ proc'[q].defunct = proc[q].defunct
    BY <1>1, <2>1, <2>2, GoneOthers
  <2> QED BY <1>1, <1>4, <2>1, <2>3 DEF ParentOK
<1> QED BY <1>1, <1>2, <1>3, <1>4, <1>5

(* The table is in order when processes end: their children are without parents then,
   and those that are gone had none. *)
LEMMA ShrinkTable == ASSUME TableOK, Shrinks, ParentOK' PROVE TableOK'
<1> USE DEF Shrinks
<1>1. RootedOK'
  <2> SUFFICES ASSUME NEW set \in SUBSET Pids, Parentless' \subseteq set, Closed(set)'
               PROVE  Listed' \subseteq set
    BY DEF RootedOK
  <2> DEFINE S == set \union (Listed \ Listed')
  <2>1. Parentless \subseteq S
    BY DEF Parentless
  <2>2. Closed(S)
    <3> SUFFICES ASSUME NEW p \in Listed', proc[p].parent \in S PROVE p \in set
      BY DEF Closed
    <3>1. CASE proc'[p].parent = None
      BY <3>1 DEF Parentless
    <3>2. CASE proc'[p].parent # None
      <4>1. proc'[p].parent = proc[p].parent /\ proc[p].parent \in Listed'
        BY <3>2 DEF ParentOK, Live
      <4> QED BY <4>1 DEF Closed
    <3> QED BY <3>1, <3>2
  <2>3. S \in SUBSET Pids
    BY DEF Listed
  <2> QED BY <2>1, <2>2, <2>3 DEF TableOK, RootedOK
<1>2. KinOK'
  <2>1. ASSUME NEW p \in Listed', proc'[p].parent # None
        PROVE  proc'[p].kin = proc'[proc'[p].parent].kin
    <3>1. proc'[p].parent = proc[p].parent /\ proc[p].parent \in Listed'
      BY <2>1 DEF ParentOK, Live
    <3> QED BY <2>1, <3>1 DEF TableOK, KinOK
  <2> QED BY <2>1 DEF TableOK, KinOK
<1>3. LeaderOK' /\ OwnerOK'
  BY DEF TableOK, LeaderOK, OwnerOK
<1> QED BY <1>1, <1>2, <1>3 DEF TableOK

(* The pid of a new process was free, and named no group. *)
LEMMA StartTable ==
  ASSUME TypeOK, TableOK, NEW q \in Pids, Free(q), NEW parent \in Live \union {None},
         NEW group \in Pids, NEW kin \in BOOLEAN, NEW names \in {"nothing", "simulator", "test"},
         names # "nothing" => kin,
         group = q \/ (parent # None /\ group = proc[parent].group),
         parent # None => kin = proc[parent].kin,
         Start(q, parent, group, kin, names)
  PROVE  /\ TableOK' /\ proc' \in [Pids -> Processes \union {None}]
         /\ Listed' = Listed \union {q} /\ Live' = Live \union {q} /\ q \notin Listed
         /\ \A p \in Listed : p # q /\ proc'[p] = proc[p] /\ proc[p].group # q
         /\ proc'[q].age = Age /\ proc'[q].group = group
<1> DEFINE new == [parent |-> parent, group |-> group, age |-> Age, kin |-> kin,
                   names |-> names, defunct |-> FALSE]
<1>1. /\ new \in Processes /\ new # None /\ new.parent = parent /\ new.group = group
      /\ new.age = Age /\ new.kin = kin /\ new.names = names /\ ~new.defunct /\ Age # 0
  <2>1. parent \in Pids \union {None} /\ Age \in 0..2 /\ Age # 0
    BY DEF Age, Live, Listed
  <2>2. new \in Processes
    BY <2>1 DEF Processes
  <2> QED BY <2>1, <2>2, ProcessAssumption
<1>2. proc' = [proc EXCEPT ![q] = new]
  BY DEF Start
<1> HIDE DEF new
<1>3. q \notin Listed /\ \A p \in Listed : proc[p].group # q
  BY DEF Free, Listed, Group
<1>4. proc' \in [Pids -> Processes \union {None}]
  BY <1>1, <1>2 DEF TypeOK
<1>5. /\ Listed' = Listed \union {q} /\ proc'[q] = new
      /\ \A p \in Listed : p # q /\ proc'[p] = proc[p]
  BY <1>1, <1>2, <1>3 DEF TypeOK, Listed
<1>6. Live' = Live \union {q}
  BY <1>1, <1>5 DEF Live
<1>7. ParentOK'
  BY <1>1, <1>5, <1>6 DEF TableOK, ParentOK
<1>8. RootedOK'
  <2> SUFFICES ASSUME NEW set \in SUBSET Pids, Parentless' \subseteq set, Closed(set)'
               PROVE  Listed' \subseteq set
    BY DEF RootedOK
  <2>1. Parentless \subseteq set /\ Closed(set)
    BY <1>5 DEF Parentless, Closed
  <2>2. Listed \subseteq set
    BY <2>1 DEF TableOK, RootedOK
  <2>3. q \in set
    <3>1. CASE parent = None
      BY <1>1, <1>5, <3>1 DEF Parentless
    <3>2. CASE parent # None
      BY <1>1, <1>5, <2>2, <3>2 DEF Closed, Live
    <3> QED BY <3>1, <3>2
  <2> QED BY <1>5, <2>2, <2>3
<1>9. KinOK'
  <2>1. \A p \in Listed : proc[p].parent # None => proc[p].parent \in Listed
    BY DEF TableOK, ParentOK, Live
  <2>2. parent # None => parent \in Listed
    BY DEF Live
  <2>3. \A p \in Listed : proc[p].group = group => proc[p].kin = kin
    BY <1>3, <2>2 DEF TableOK, KinOK
  <2> QED BY <1>1, <1>5, <2>1, <2>2, <2>3 DEF TableOK, KinOK
<1>10. LeaderOK'
  <2>1. \A p \in Listed : p = group => proc[p].group = group
    BY <1>3 DEF TableOK, LeaderOK, Live
  <2> QED BY <1>1, <1>3, <1>5, <2>1 DEF TableOK, LeaderOK
<1>11. OwnerOK'
  BY <1>1, <1>5 DEF TableOK, OwnerOK
<1> QED BY <1>1, <1>3, <1>4, <1>5, <1>6, <1>7, <1>8, <1>9, <1>10, <1>11 DEF TableOK


-----------------------------------------------------------------------------
(* The invariant is kept: one lemma for each group of steps. *)

(* Only the owner is there. *)
LEMMA InitInv == Init => IInv
<1> SUFFICES ASSUME Init PROVE IInv
  OBVIOUS
<1> DEFINE owner == [parent |-> None, group |-> Owner, age |-> 0, kin |-> TRUE,
                     names |-> "nothing", defunct |-> FALSE]
<1>1. owner \in Processes /\ owner # None
  <2>1. owner \in Processes
    BY OwnerAssumption DEF Processes
  <2> QED BY <2>1, ProcessAssumption
<1>2. /\ proc = [p \in Pids |-> IF p = Owner THEN owner ELSE None]
      /\ owner.parent = None /\ owner.group = Owner /\ owner.kin /\ owner.names = "nothing"
      /\ ~owner.defunct
  BY DEF Init
<1> HIDE DEF owner
<1>3. Listed = {Owner} /\ proc[Owner] = owner
  BY <1>1, <1>2, OwnerAssumption DEF Listed
<1>4. TableOK
  <2>1. ParentOK /\ KinOK /\ LeaderOK /\ OwnerOK
    BY <1>2, <1>3 DEF ParentOK, KinOK, LeaderOK, OwnerOK
  <2>2. RootedOK
    BY <1>2, <1>3 DEF RootedOK, Parentless
  <2> QED BY <2>1, <2>2 DEF TableOK
<1>5. TypeOK
  <2>1. proc \in [Pids -> Processes \union {None}]
    BY <1>1, <1>2
  <2>2. /\ ownerPgid \in {None, Owner} /\ command = None /\ place = "idle"
        /\ requester = None /\ self = None /\ killOwner = FALSE /\ chosen = {} /\ spared = {}
        /\ targets = {} /\ failed = FALSE /\ lease = TRUE /\ present = {} /\ astray = {}
        /\ starts = 0
    BY DEF Init
  <2>3. /\ targets \subseteq chosen /\ chosen \subseteq Pids /\ spared \subseteq Pids
        /\ chosen \intersect spared = {} /\ present \subseteq Pids /\ astray \subseteq Pids
    BY <2>2
  <2>4. place \in {"idle", "group", "pids", "kill", "unlink"} /\ starts \in 0..MaxStarts
    BY <2>2, BoundAssumption
  <2>5. killOwner \in BOOLEAN /\ failed \in BOOLEAN /\ lease \in BOOLEAN
    BY <2>2
  <2>6. self \in Pids \union {None} /\ requester \in Pids \union {None} /\ ownerPgid \in {None, Owner}
        /\ command \in [pid : Pids, group : Pids \union {None}] \union {None}
    BY <2>2
  <2> QED BY <2>1, <2>3, <2>4, <2>5, <2>6 DEF TypeOK
<1>6. CommandOK /\ SparedOK /\ GroupOK /\ TargetsOK /\ LeftOK
  BY DEF Init, CommandOK, SparedOK, GroupOK, TargetsOK, LeftOK
<1> QED BY <1>4, <1>5, <1>6 DEF IInv

(* Nothing changes for a command, or for whom a signal may reach, when processes end. *)
LEMMA ShrinkKeeps ==
  ASSUME IInv, Shrinks, Live' \subseteq Live, command' = command
  PROVE  /\ CommandOK'
         /\ \A g : Group(g)' \subseteq Group(g)
         /\ \A p \in Listed' : proc[p].kin \/ Adopted(p) => proc'[p].kin \/ Adopted(p)'
<1>1. CommandOK'
  BY DEF IInv, CommandOK, Shrinks
<1>2. CommandGroup' = CommandGroup
  BY DEF CommandGroup
<1>3. \A p \in Listed' : proc[p].kin \/ Adopted(p) => proc'[p].kin \/ Adopted(p)'
  BY <1>2 DEF Adopted, Shrinks
<1> QED BY <1>1, <1>3 DEF Group, Shrinks

(* Processes end, targets are signalled. *)
LEMMA EndInv ==
  ASSUME IInv, Shrinks, TableOK', proc' \in [Pids -> Processes \union {None}], Live' \subseteq Live,
         self # None => self \in Live',
         place' = place \/ (place = "group" /\ place' = "pids"),
         targets' \subseteq targets, failed' \in BOOLEAN,
         UNCHANGED <<ownerPgid, command, requester, self, killOwner, chosen, spared, lease, present,
                     astray, starts>>
  PROVE  IInv'
<1>1. TypeOK'
  BY DEF IInv, TypeOK
<1>2. /\ CommandOK' /\ CommandGroup' = CommandGroup
      /\ Group(CommandGroup)' \subseteq Group(CommandGroup)
      /\ \A p \in Listed' : proc[p].kin \/ Adopted(p) => proc'[p].kin \/ Adopted(p)'
  BY ShrinkKeeps DEF CommandGroup
<1>3. SparedOK'
  BY DEF IInv, SparedOK, Shrinks, Live
<1>4. GroupOK'
  BY <1>2 DEF IInv, GroupOK, Group
<1>5. TargetsOK'
  BY <1>2 DEF IInv, TargetsOK, Shrinks
<1>6. LeftOK'
  BY DEF IInv, LeftOK, Shrinks, Live
<1> QED BY <1>1, <1>2, <1>3, <1>4, <1>5, <1>6 DEF IInv

(* A process is started: it was not there at the sample. *)
LEMMA StartInv ==
  ASSUME IInv, NEW q \in Pids, Free(q), NEW parent \in Live \union {None},
         NEW group \in Pids, NEW kin \in BOOLEAN, NEW names \in {"nothing", "simulator", "test"},
         names # "nothing" => kin,
         group = q \/ (parent # None /\ group = proc[parent].group),
         parent # None => kin = proc[parent].kin,
         Start(q, parent, group, kin, names)
  PROVE  IInv'
<1> USE DEF IInv
<1>1. /\ TableOK' /\ proc' \in [Pids -> Processes \union {None}]
      /\ Listed' = Listed \union {q} /\ Live' = Live \union {q} /\ q \notin Listed
      /\ \A p \in Listed : p # q /\ proc'[p] = proc[p] /\ proc[p].group # q
      /\ proc'[q].age = Age /\ proc'[q].group = group
  BY StartTable
<1>2. /\ UNCHANGED <<ownerPgid, command, place, requester, self, killOwner, chosen, spared, targets,
                     failed, lease, astray>>
      /\ starts' = starts + 1 /\ present' = present \ {q}
  BY DEF Start, run
<1>3. TypeOK'
  BY <1>1, <1>2, BoundAssumption DEF TypeOK, Free
<1>4. CommandOK'
  BY <1>1, <1>2 DEF CommandOK, Age
<1>5. SparedOK'
  BY <1>1, <1>2 DEF SparedOK, Live, Age
<1>6. CommandGroup' = CommandGroup
  BY <1>2 DEF CommandGroup
<1>7. \A p \in Listed : proc[p].kin \/ Adopted(p) => proc'[p].kin \/ Adopted(p)'
  BY <1>1, <1>6 DEF Adopted
<1>8. GroupOK'
  <2> SUFFICES ASSUME place = "group" PROVE GroupOK'
    BY <1>2 DEF GroupOK
  <2>1. command' # None /\ command'.group # Owner
    BY <1>2 DEF GroupOK
  <2>2. requester' \notin Group(CommandGroup)' \intersect present'
    BY <1>1, <1>2, <1>6 DEF GroupOK, Group
  <2>3. \A p \in Group(CommandGroup)' \intersect present' : proc'[p].kin \/ Adopted(p)'
    BY <1>1, <1>2, <1>6, <1>7 DEF GroupOK, Group
  <2> QED BY <2>1, <2>2, <2>3 DEF GroupOK
<1>9. TargetsOK'
  BY <1>1, <1>2, <1>7 DEF TargetsOK
<1>10. LeftOK'
  BY <1>1, <1>2 DEF LeftOK, Live
<1> QED BY <1>1, <1>3, <1>4, <1>5, <1>8, <1>9, <1>10


(* The registered command is the lease's, and so is its group. *)
LEMMA RegisterInv == ASSUME IInv, NEW p \in Pids, RegisterCommand(p) PROVE IInv'
<1> USE DEF RegisterCommand, run, IInv
<1>1. PICK group \in {None, proc[p].group} : command' = [pid |-> p, group |-> group]
  OBVIOUS
<1>2. /\ p \in Listed /\ proc[p].kin /\ proc[p].group \in Pids
      /\ command'.pid = p /\ command'.group = group
  BY <1>1, OwnerAssumption DEF Live, Listed, TypeOK, Processes
<1>3. TypeOK'
  BY <1>1, <1>2 DEF TypeOK
<1>4. TableOK'
  BY DEF TableOK, ParentOK, RootedOK, Parentless, Closed, KinOK, LeaderOK, OwnerOK, Listed, Live
<1>5. CommandOK'
  <2> SUFFICES ASSUME NEW q \in Listed, q = p \/ proc[q].group = group PROVE proc[q].kin
    BY <1>1, <1>2 DEF CommandOK, Listed
  <2>1. CASE q = p
    BY <1>2, <2>1
  <2>2. CASE proc[q].group = group
    <3>1. proc[q].group \in Pids
      BY DEF Listed, TypeOK, Processes
    <3>2. proc[q].group = proc[p].group
      BY <1>1, <2>2, <3>1, OwnerAssumption
    <3> QED BY <1>2, <3>2 DEF TableOK, KinOK
  <2> QED BY <2>1, <2>2
<1>6. SparedOK' /\ GroupOK' /\ TargetsOK' /\ LeftOK'
  BY DEF SparedOK, GroupOK, TargetsOK, LeftOK, Live, Listed
<1> QED BY <1>3, <1>4, <1>5, <1>6

(* Nothing of the table depends on the containment. *)
LEMMA TableSame == ASSUME IInv, proc' = proc, command' = command PROVE TableOK' /\ CommandOK'
BY DEF IInv, TableOK, ParentOK, RootedOK, Parentless, Closed, KinOK, LeaderOK, OwnerOK, Listed,
       Live, CommandOK

(* The selection: the lease's processes without the requester and, unless it is to be
   ended, the owner. *)
LEMMA BeginInv ==
  ASSUME IInv, NEW s \in Live \union {None}, NEW r \in Live \union {None}, Begin(s, r)
  PROVE  IInv'
<1> USE DEF Begin, IInv
<1>1. /\ UNCHANGED <<proc, ownerPgid, command, lease, starts>> /\ self' = s
      /\ requester' = r /\ astray' = astray
      /\ targets' = chosen' /\ failed' = FALSE /\ present' = Listed /\ place' \in {"group", "pids"}
      /\ spared' = Owned \intersect ({s, r} \union {p \in {Owner} : OwnerValid /\ ~killOwner'})
      /\ chosen' = Owned \ spared' /\ killOwner' \in BOOLEAN
  OBVIOUS
<1>2. Owned \in SUBSET Pids /\ \A p \in Owned \intersect Listed : proc[p].kin \/ Adopted(p)
  BY OwnedKin
<1>3. /\ Listed' = Listed /\ Live' = Live /\ CommandGroup' = CommandGroup
      /\ Group(CommandGroup)' = Group(CommandGroup)
      /\ \A p \in Listed : (proc'[p].kin \/ Adopted(p)') <=> (proc[p].kin \/ Adopted(p))
  BY <1>1 DEF Listed, Live, CommandGroup, Group, Adopted
<1>4. TableOK' /\ CommandOK'
  BY <1>1, TableSame
<1>5. TypeOK'
  BY <1>1, <1>2 DEF TypeOK, Live, Listed
<1>6. SparedOK'
  <2>1. /\ self' # None => self' \in Live' /\ self' \in present' /\ self' \notin chosen'
        /\ requester' \notin chosen'
    BY <1>1, <1>3 DEF Live
  <2>2. Owner \in Live /\ proc[Owner].age = 0 => OwnerValid
    BY DEF OwnerValid, TypeOK, TableOK, OwnerOK, Live
  <2>3. Owner \in chosen' /\ Owner \in Live' /\ proc'[Owner].age = 0 => killOwner'
    BY <1>1, <1>3, <2>2
  <2> QED BY <2>1, <2>3 DEF SparedOK
<1>7. GroupOK'
  <2> SUFFICES ASSUME place' = "group" PROVE GroupOK'
    BY DEF GroupOK
  <2>1. GroupOwned(r)
    OBVIOUS
  <2>2. /\ CommandGroup # None /\ OwnerGroup # None /\ CommandGroup # OwnerGroup
        /\ Group(CommandGroup) \intersect Owned # {}
        /\ r \notin Group(CommandGroup)
    BY <2>1 DEF GroupOwned
  <2>3. command # None /\ command.group # Owner
    BY <2>2, OwnerGroupName DEF CommandGroup
  <2>4. \A p \in Group(CommandGroup) : proc[p].kin \/ Adopted(p)
    <3>1. PICK q \in Group(CommandGroup) : q \in Owned
      BY <2>2
    <3>2. q \in Listed /\ (proc[q].kin \/ Adopted(q))
      BY <1>2, <3>1 DEF Group
    <3>3. CASE proc[q].kin
      BY <3>2, <3>3 DEF Group, TableOK, KinOK
    <3>4. CASE Adopted(q)
      BY <3>4 DEF Group, Adopted
    <3> QED BY <3>2, <3>3, <3>4
  <2> QED BY <1>1, <1>3, <2>2, <2>3, <2>4 DEF GroupOK, Group
<1>8. TargetsOK'
  BY <1>1, <1>2, <1>3 DEF TargetsOK
<1>9. LeftOK'
  BY <1>1 DEF LeftOK
<1> QED BY <1>4, <1>5, <1>6, <1>7, <1>8, <1>9

(* The second sample: what still belongs to the lease. *)
LEMMA RevalidateInv == ASSUME IInv, Revalidate PROVE IInv'
<1> USE DEF Revalidate, IInv
<1>1. \A p \in Owned \intersect Listed : proc[p].kin \/ Adopted(p)
  BY OwnedKin
<1>2. Listed' = Listed /\ Live' = Live
      /\ \A p \in Listed : (proc'[p].kin \/ Adopted(p)') <=> (proc[p].kin \/ Adopted(p))
  BY DEF Listed, Live, CommandGroup, Adopted
<1>3. TableOK' /\ CommandOK'
  BY TableSame
<1>4. TypeOK'
  BY DEF TypeOK, Listed
<1>5. SparedOK' /\ GroupOK' /\ TargetsOK' /\ LeftOK'
  BY <1>1, <1>2 DEF SparedOK, GroupOK, TargetsOK, LeftOK, Live
<1> QED BY <1>3, <1>4, <1>5

(* When no selected process is left, whatever lives of the lease is spared, or had been
   separated from it. *)
LEMMA AllFound ==
  ASSUME IInv, Remaining = {}, NEW p \in Live
  PROVE  p \in spared \union Astray
<1> SUFFICES ASSUME p \in Below(Known) \union Led PROVE p \in Owned
  BY DEF Remaining, Astray
<1> DEFINE S == Below(Roots) \union Below(OwnerGroupRoots) \union Below(Tests)
<1>1. /\ Roots \in SUBSET Pids /\ OwnerGroupRoots \in SUBSET Pids /\ Tests \in SUBSET Pids
      /\ Known \in SUBSET Pids
  BY RootsKin DEF Known, Live, Listed
<1>2. /\ Roots \union OwnerGroupRoots \union Tests \subseteq S /\ S \in SUBSET Pids
      /\ Closed(Below(Roots)) /\ Closed(Below(OwnerGroupRoots)) /\ Closed(Below(Tests))
  BY <1>1, BelowSet
<1>3. Known \subseteq S
  <2> SUFFICES ASSUME NEW q \in Known PROVE q \in Roots \union OwnerGroupRoots \union Tests
    BY <1>2
  <2>1. q \in Live /\ q \in Listed
    BY DEF Known, Live
  <2>2. CASE q = Owner /\ proc[q].age = 0
    <3>1. OwnerValid
      BY <2>1, <2>2 DEF OwnerValid, IInv, TypeOK, TableOK, OwnerOK
    <3> QED BY <2>2, <3>1 DEF Roots
  <2>3. CASE IsCommand(q)
    <3>1. /\ command # None /\ q = command.pid /\ proc[q].age < 2
          /\ command.group # None \/ ~OwnerValid
      BY <2>3 DEF IsCommand
    <3>2. command.group # None => proc[q].group = command.group
      BY <2>1, <3>1 DEF IInv, CommandOK
    <3>3. CommandValid
      BY <2>1, <3>1, <3>2 DEF CommandValid
    <3> QED BY <2>1, <3>1, <3>3 DEF Roots
  <2>4. CASE proc[q].names = "test"
    BY <2>1, <2>4 DEF Tests
  <2>5. CASE proc[q].names # "nothing" /\ proc[q].group = ownerPgid
    <3>1. proc[q].group # None
      BY <2>1, OwnerAssumption DEF Listed, IInv, TypeOK, Processes
    <3>2. OwnerGroup = ownerPgid /\ OwnerGroup # None
      BY <2>5, <3>1 DEF OwnerGroup
    <3> QED BY <2>1, <2>5, <3>2 DEF OwnerGroupRoots, Group
  <2> QED BY <2>2, <2>3, <2>4, <2>5 DEF Known
<1>4. CASE p \in Below(Known)
  <2>1. Closed(S)
    BY <1>2 DEF Closed
  <2>2. p \in S
    BY <1>1, <1>2, <1>3, <1>4, <2>1, BelowSet
  <2> QED BY <2>2 DEF Owned, Descendants
<1>5. CASE p \in Led
  <2>1. /\ command # None /\ command.pid = command.group /\ p \in Group(command.group)
        /\ ~(command.pid \in Listed /\ proc[command.pid].age = 2)
    BY <1>5 DEF Led
  <2>2. command.group \in Pids /\ command.group # None /\ command.group # Owner
    BY <2>1, OwnerAssumption DEF IInv, TypeOK, CommandOK
  <2>3. CommandGroup = command.group /\ CommandGroup # OwnerGroup
    BY <2>1, <2>2, OwnerGroupName DEF CommandGroup
  <2>4. GroupMatches
    <3>1. CASE command.group \notin Group(command.group)
      BY <2>1, <2>2, <2>3, <3>1 DEF GroupMatches
    <3>2. CASE command.group \in Group(command.group) /\ proc[command.group].defunct
      BY <2>1, <2>2, <2>3, <3>2 DEF GroupMatches
    <3>3. CASE command.group \in Group(command.group) /\ ~proc[command.group].defunct
      <4>1. command.group \in Listed /\ proc[command.group] \in Processes
        BY <3>3 DEF Group, Listed, IInv, TypeOK
      <4>2. proc[command.group].age \in 0..2 /\ proc[command.group].age # 2
        BY <2>1, <4>1 DEF Processes
      <4>3. proc[command.group].age < 2
        BY <4>2
      <4> QED BY <2>1, <2>2, <2>3, <3>3, <4>3 DEF GroupMatches
    <3> QED BY <3>1, <3>2, <3>3
  <2>5. GroupClaimed
    BY <2>1, <2>2, <2>3, <2>4 DEF GroupClaimed
  <2> QED BY <2>1, <2>3, <2>5 DEF Owned
<1> QED BY <1>4, <1>5

(* The last sample: the cleanup is complete. *)
LEMMA CompleteInv == ASSUME IInv, Observe, ~(failed \/ Remaining # {}) PROVE IInv'
<1> USE DEF IInv
<1>1. /\ UNCHANGED <<proc, ownerPgid, command, requester, self, killOwner, chosen, spared, targets,
                     failed, lease, starts>>
      /\ place = "kill" /\ targets = {} /\ Remaining = {}
      /\ place' = "unlink" /\ present' = Listed /\ astray' = Astray
  BY DEF Observe
<1>2. Listed' = Listed /\ Live' = Live
  BY <1>1 DEF Listed, Live
<1>3. TableOK' /\ CommandOK'
  BY <1>1, TableSame
<1>4. TypeOK'
  BY <1>1 DEF TypeOK, Astray, Live, Listed
<1>5. SparedOK' /\ GroupOK' /\ TargetsOK'
  BY <1>1, <1>2 DEF SparedOK, GroupOK, TargetsOK, Live
<1>6. LeftOK'
  BY <1>1, <1>2, AllFound DEF LeftOK
<1> QED BY <1>3, <1>4, <1>5, <1>6

(* The containment is over. *)
LEMMA IdleInv ==
  ASSUME IInv, Idle, TableOK', CommandOK', proc' \in [Pids -> Processes \union {None}],
         lease' \in BOOLEAN, UNCHANGED <<ownerPgid, command, starts>>
  PROVE  IInv'
<1>1. TypeOK'
  BY DEF Idle, IInv, TypeOK
<1>2. SparedOK' /\ GroupOK' /\ TargetsOK' /\ LeftOK'
  BY DEF Idle, SparedOK, GroupOK, TargetsOK, LeftOK
<1> QED BY <1>1, <1>2 DEF IInv

(* Every step keeps the invariant. *)
LEMMA NextInv == ASSUME IInv, [Next]_vars PROVE IInv'
<1> USE DEF run, IInv
<1>1. ASSUME proc' = proc, command' = command
      PROVE  Shrinks /\ TableOK' /\ proc' \in [Pids -> Processes \union {None}] /\ Live' = Live
             /\ (self # None => self \in Live')
  BY <1>1, TableSame DEF Shrinks, TypeOK, Live, Listed, SparedOK
<1>2. ASSUME NEW p \in Live, proc' \in Ends(p)
      PROVE  Shrinks /\ TableOK' /\ proc' \in [Pids -> Processes \union {None}] /\ Live' = Live \ {p}
  BY <1>2, EndsShrink, ShrinkTable
<1>3. ASSUME NEW p \in Pids, NEW q \in Pids, Fork(p, q) PROVE IInv'
  <2>1. PICK group \in {proc[p].group, q}, names \in {"nothing", "simulator", "test"} :
          (names # "nothing" => proc[p].kin) /\ Start(q, p, group, proc[p].kin, names)
    BY <1>3 DEF Fork
  <2>2. p \in Live /\ Free(q) /\ proc[p].group \in Pids /\ proc[p].kin \in BOOLEAN /\ p # None
    BY <1>3, OwnerAssumption DEF Fork, Live, Listed, TypeOK, Processes
  <2> QED BY <2>1, <2>2, StartInv
<1>4. ASSUME NEW q \in Pids, StartTest(q) \/ Stranger(q) PROVE IInv'
  BY <1>4, StartInv DEF StartTest, Stranger
<1>5. ASSUME NEW p \in Pids, Exit(p) PROVE IInv'
  BY <1>2, <1>5, EndInv DEF Exit, TypeOK, SparedOK
<1>6. ASSUME NEW p \in Pids, Reap(p) PROVE IInv'
  BY <1>6, ReapShrink, ShrinkTable, EndInv DEF Reap, TypeOK, SparedOK
<1>7. ASSUME NEW p \in Pids, RegisterCommand(p) PROVE IInv'
  BY <1>7, RegisterInv
<1>8. CASE TermGroup \/ \E p \in Pids : TermPid(p)
  <2>1. /\ UNCHANGED <<proc, ownerPgid, command, requester, self, killOwner, chosen, spared, lease,
                       present, astray, starts>>
        /\ place' = place \/ (place = "group" /\ place' = "pids")
        /\ targets' \subseteq targets /\ failed' \in BOOLEAN
    BY <1>8 DEF TermGroup, TermPid, TypeOK
  <2> QED BY <1>1, <2>1, EndInv
<1>9. ASSUME NEW p \in Pids, KillPid(p) PROVE IInv'
  <2>1. /\ UNCHANGED <<ownerPgid, command, place, requester, self, killOwner, chosen, spared, lease,
                       present, astray, starts>>
        /\ targets' \subseteq targets /\ failed' \in BOOLEAN
        /\ proc' = proc \/ (p \in Live /\ proc' \in Ends(p))
    BY <1>9 DEF KillPid, TypeOK
  <2>2. self # p
    BY <1>9, OwnerAssumption DEF KillPid, SparedOK, TypeOK
  <2> QED BY <1>1, <1>2, <2>1, <2>2, EndInv DEF SparedOK
<1>10. CASE \E s, r \in Live \union {None} : Begin(s, r)
  BY <1>10, BeginInv
<1>11. CASE Revalidate
  BY <1>11, RevalidateInv
<1>12. CASE Observe
  <2>1. CASE failed \/ Remaining # {}
    <3>1. Idle /\ UNCHANGED <<proc, ownerPgid, command, lease, starts>>
      BY <1>12, <2>1 DEF Observe
    <3> QED BY <1>1, <3>1, TableSame, IdleInv DEF TypeOK
  <2>2. CASE ~(failed \/ Remaining # {})
    BY <1>12, <2>2, CompleteInv
  <2> QED BY <2>1, <2>2
<1>13. CASE Remove
  BY <1>13, <1>1, TableSame, IdleInv DEF Remove
<1>14. CASE Abandon
  <2>1. Idle /\ UNCHANGED <<ownerPgid, command, lease, starts>>
    BY <1>14 DEF Abandon
  <2>2. CASE proc' = proc
    BY <2>1, <2>2, <1>1, TableSame, IdleInv DEF TypeOK
  <2>3. CASE self # None /\ proc' \in Ends(self)
    <3>1. self \in Live
      BY <2>3 DEF SparedOK
    <3>2. CommandOK'
      BY <1>2, <2>1, <2>3, <3>1, ShrinkKeeps
    <3> QED BY <1>2, <2>1, <2>3, <3>1, <3>2, IdleInv DEF TypeOK
  <2> QED BY <1>14, <2>2, <2>3 DEF Abandon
<1>15. CASE UNCHANGED vars
  <2>1. UNCHANGED <<proc, ownerPgid, command, place, requester, self, killOwner, chosen, spared,
                    targets, failed, lease, present, astray, starts>>
    BY <1>15 DEF vars
  <2> QED BY <1>1, <2>1, EndInv DEF TypeOK
<1> QED BY <1>3, <1>4, <1>5, <1>6, <1>7, <1>8, <1>9, <1>10, <1>11, <1>12, <1>13, <1>14,
           <1>15 DEF Next

(* The invariant holds in every behaviour. *)
THEOREM Invariance == Spec => []IInv
BY InitInv, NextInv, PTL DEF Spec


-----------------------------------------------------------------------------
(* What follows *)

(* The variables of the containment have their types (containment.mjs). *)
THEOREM TypeCorrect == Spec => []TypeOK
BY Invariance, PTL DEF IInv

(* No process that a containment has sampled and that is not the lease's gets a signal
   (terminateOwnedProcesses), but for the members of a group that the command has left
   without a leader. *)
THEOREM StrangersSpared == Spec => NoStrangerStruck
<1>1. ASSUME IInv PROVE \A p \in Struck \intersect present : proc[p].kin \/ Adopted(p)
  BY <1>1 DEF IInv, GroupOK, TargetsOK, Struck
<1> QED BY <1>1, Invariance, PTL DEF Spec, NoStrangerStruck

(* A containment signals neither its requester nor, with the one exception of a group that
   is not the requester's, the process that executes it (terminateOwnedProcesses), and the
   lease's living owner only with killOwner. *)
THEOREM ProtectedSpared == Spec => SelfAndOwnerSpared
<1> DEFINE Spared == /\ requester \notin Struck \intersect present
                     /\ self \in Struck => place = "group" /\ self # requester
                     /\ Owner \in Struck /\ proc[Owner].age = 0 /\ ~proc[Owner].defunct => killOwner
<1>1. ASSUME IInv PROVE Spared
  <2>1. CASE place = "group" /\ place' = "pids"
    <3>1. Struck = Group(CommandGroup) /\ CommandGroup = command.group /\ command.group # Owner
      BY <1>1, <2>1 DEF Struck, IInv, GroupOK, CommandGroup
    <3>2. requester \notin Struck \intersect present
      BY <1>1, <2>1, <3>1 DEF IInv, GroupOK
    <3>3. self \in Struck => self # requester
      <4>1. self \in Struck => self # None
        BY <3>1, OwnerAssumption DEF Group, Listed
      <4> QED BY <1>1, <3>2, <4>1 DEF IInv, SparedOK
    <3>4. ~(Owner \in Struck /\ proc[Owner].age = 0)
      BY <1>1, <3>1 DEF IInv, TableOK, OwnerOK, Group
    <3> QED BY <2>1, <3>2, <3>3, <3>4
  <2>2. CASE ~(place = "group" /\ place' = "pids")
    <3>1. Struck \subseteq chosen \intersect Listed
      BY <1>1, <2>2 DEF Struck, IInv, TypeOK
    <3>2. self \notin Struck /\ requester \notin Struck
      BY <1>1, <3>1, OwnerAssumption DEF IInv, SparedOK, Listed
    <3> QED BY <1>1, <3>1, <3>2 DEF IInv, SparedOK, Live
  <2> QED BY <2>1, <2>2
<1> QED BY <1>1, Invariance, PTL DEF Spec, SelfAndOwnerSpared

(* When the lease goes (containLeaseRecord), nothing of it that was there at the last
   sample lives on but what is spared, or had been separated from the lease by then. *)
THEOREM NothingIsLeft == Spec => NothingLeft
<1> DEFINE Ended == lease /\ ~lease' =>
                      \A p \in Live \intersect present : proc[p].kin => p \in spared \union astray
<1>1. ASSUME IInv, [Next]_vars PROVE Ended
  <2> SUFFICES ASSUME lease, ~lease' PROVE Ended
    OBVIOUS
  <2>1. Remove
    BY <1>1 DEF Next, vars, Fork, StartTest, Stranger, Start, Exit, Reap, RegisterCommand, TermPid,
                KillPid, Begin, TermGroup, Revalidate, Observe, Abandon
  <2> QED BY <1>1, <2>1 DEF Remove, IInv, LeftOK
<1> QED BY <1>1, Invariance, PTL DEF Spec, NothingLeft

=============================================================================
