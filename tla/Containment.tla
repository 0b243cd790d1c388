------------------------------ MODULE Containment ------------------------------
(***************************************************************************)
(* The processes of one lease and how they are ended                       *)
(* (broker-core/containment.mjs, containLeaseRecord in index.mjs).  The    *)
(* process table is sampled, the processes that belong to the lease are    *)
(* told from the others, SIGTERM goes to the command's group and to each   *)
(* of them, the table is sampled again, SIGKILL goes to those that still   *)
(* belong to the lease, and the table is watched until they are gone; the  *)
(* lease is removed only then.  Meanwhile processes fork, exit, and take   *)
(* the pids of others.                                                     *)
(*                                                                         *)
(* A process group is named by the pid of its leader.  A process started   *)
(* within 15 s of a registration counts as the registered one: pids are    *)
(* taken not to be reused so soon.  What a command line says is reduced to *)
(* whether it names the leased simulator, and one of its process names.    *)
(***************************************************************************)
EXTENDS Naturals

CONSTANTS Pids,      \* process ids
          Owner,     \* the pid of the lease's owner
          None,
          MaxStarts  \* bound on the processes that are started

ASSUME OwnerAssumption == Owner \in Pids /\ None \notin Pids
ASSUME BoundAssumption == MaxStarts \in Nat

VARIABLES
  proc,      \* the process table: [Pids -> None or a process]
  ownerPgid, \* lease.runtime.ownerPgid
  command,   \* lease.runtime.commandPid and commandPgid, or None
  place,     \* where the containment is: SIGTERM to the group, to pids, SIGKILL,
             \* removal of the lease
  requester, \* requesterPid: the client, or None: there is none, or not in the table
  self,      \* the pid of the containing process, or None: it is not in the table
  killOwner, \* the option
  chosen,    \* the pids to be signalled
  spared,    \* selected pids that are left out: the owner, the requester, self
  targets,   \* chosen pids not signalled yet in this round
  failed,    \* a signal could not be sent
  lease,     \* the lease file is there
  present,   \* history: pids whose process was there at the last sample
  astray,    \* history: what was separated from the lease at the last sample
  starts     \* processes started so far

run == <<place, requester, self, killOwner, chosen, spared, targets, failed>>
vars == <<proc, ownerPgid, command, run, lease, present, astray, starts>>

(* age 0: older than the lease; 1: than the command's registration; 2:     *)
(* younger.  kin: started by the lease, or for it in its simulator.        *)
Processes == [parent : Pids \union {None}, group : Pids, age : 0..2, kin : BOOLEAN,
              names : {"nothing", "simulator", "test"}, defunct : BOOLEAN]

ASSUME ProcessAssumption == None \notin Processes

TypeOK ==
  /\ proc \in [Pids -> Processes \union {None}]
  /\ ownerPgid \in {None, Owner}
  /\ command \in [pid : Pids, group : Pids \union {None}] \union {None}
  /\ place \in {"idle", "group", "pids", "kill", "unlink"} /\ killOwner \in BOOLEAN
  /\ requester \in Pids \union {None} /\ self \in Pids \union {None}
  /\ targets \subseteq chosen /\ chosen \subseteq Pids
  /\ spared \subseteq Pids /\ chosen \intersect spared = {}
  /\ failed \in BOOLEAN /\ lease \in BOOLEAN
  /\ present \subseteq Pids /\ astray \subseteq Pids /\ starts \in 0..MaxStarts

Init ==
  /\ proc = [p \in Pids |->
       IF p = Owner THEN [parent |-> None, group |-> Owner, age |-> 0, kin |-> TRUE,
                          names |-> "nothing", defunct |-> FALSE]
       ELSE None]
  /\ ownerPgid \in {None, Owner} /\ command = None
  /\ place = "idle" /\ requester = None /\ self = None /\ killOwner = FALSE
  /\ chosen = {} /\ spared = {} /\ targets = {} /\ failed = FALSE
  /\ lease = TRUE /\ present = {} /\ astray = {} /\ starts = 0

-----------------------------------------------------------------------------
(* Which processes belong to the lease: discoverLeaseOwnedProcesses *)

Listed == {p \in Pids : proc[p] # None}
Live == {p \in Listed : ~proc[p].defunct}
Group(g) == {p \in Listed : proc[p].group = g}

(* What has its parents has the children too. *)
Closed(set) == \A p \in Listed : proc[p].parent \in set => p \in set

(* collectDescendantPids: the roots and what descends from them.           *)
Below(roots) ==
  {p \in Pids : \A set \in SUBSET Pids : roots \subseteq set /\ Closed(set) => p \in set}

(* ownerPidMatchesLease.                                                   *)
OwnerValid ==
  /\ Owner \in Live
  /\ ownerPgid # None => proc[Owner].group = ownerPgid
  /\ proc[Owner].age = 0

OwnerGroup ==
  IF ownerPgid # None THEN ownerPgid ELSE IF OwnerValid THEN proc[Owner].group ELSE None

CommandGroup == IF command = None THEN None ELSE command.group

(* commandPidMatchesLease.                                                 *)
CommandValid ==
  IF command = None THEN FALSE
  ELSE /\ command.pid \in Live
       /\ proc[command.pid].age < 2
       /\ command.group # None => proc[command.pid].group = command.group
       /\ command.group = None /\ OwnerValid => proc[command.pid].parent = Owner

(* commandProcessGroupStillMatchesLease: a group whose leader is gone is   *)
(* taken for the command's.                                                *)
GroupMatches ==
  LET g == CommandGroup
  IN IF g = None \/ Group(g) = {} THEN FALSE
     ELSE IF g \notin Group(g) THEN TRUE
     ELSE IF proc[g].defunct THEN Group(g) \intersect Live # {}
     ELSE proc[g].age < 2

(* claimCommandProcessGroup.                                               *)
GroupClaimed ==
  IF CommandGroup = None THEN FALSE
  ELSE IF CommandValid
       THEN IF OwnerGroup = None THEN command.pid = command.group ELSE command.group # OwnerGroup
       ELSE GroupMatches /\ command.group # OwnerGroup

Roots == {p \in {Owner} : OwnerValid} \union {p \in Listed : CommandValid /\ p = command.pid}

(* ownerProcessGroupLeasePids: of the owner's group only what names the    *)
(* simulator.                                                              *)
OwnerGroupRoots ==
  IF OwnerGroup = None THEN {} ELSE {p \in Group(OwnerGroup) : proc[p].names # "nothing"}

Tests == {p \in Listed : proc[p].names = "test"}

Descendants ==
  (Below(Roots) \ Roots) \union (Below(OwnerGroupRoots) \ Group(OwnerGroup))
    \union (Below(Tests) \ Tests)

Owned ==
  Roots \union Descendants \union Below(OwnerGroupRoots) \union Below(Tests)
    \union (IF GroupClaimed THEN Group(CommandGroup) ELSE {})

-----------------------------------------------------------------------------
(* The processes *)

(* Their exit: the parent may still have to collect it; children are given *)
(* to init, which collects at once.                                        *)
Gone(table, p) ==
  [q \in Pids |->
     IF q = p THEN None
     ELSE IF table[q] = None THEN None
     ELSE IF table[q].parent # p THEN table[q]
     ELSE IF table[q].defunct THEN None
     ELSE [table[q] EXCEPT !.parent = None]]

Defunct(table, p) ==
  [q \in Pids |-> IF q = p THEN [table[p] EXCEPT !.defunct = TRUE] ELSE Gone(table, p)[q]]

Ends(p) ==
  {Gone(proc, p)} \union (IF proc[p].parent = None THEN {} ELSE {Defunct(proc, p)})

Free(q) == lease /\ proc[q] = None /\ Group(q) = {} /\ starts < MaxStarts
Age == IF command = None THEN 1 ELSE 2

Start(q, parent, group, kin, names) ==
  /\ proc' = [proc EXCEPT ![q] = [parent |-> parent, group |-> group, age |-> Age,
                                  kin |-> kin, names |-> names, defunct |-> FALSE]]
  /\ starts' = starts + 1
  /\ present' = present \ {q}
  /\ UNCHANGED <<ownerPgid, command, run, lease, astray>>

Fork(p, q) ==
  /\ p \in Live /\ p # self /\ Free(q)
  /\ \E group \in {proc[p].group, q}, names \in {"nothing", "simulator", "test"} :
       /\ names # "nothing" => proc[p].kin
       /\ Start(q, p, group, proc[p].kin, names)

(* A test host is started by the simulator, not by the command.            *)
StartTest(q) == Free(q) /\ Start(q, None, q, TRUE, "test")

Stranger(q) == Free(q) /\ Start(q, None, q, FALSE, "nothing")

Exit(p) ==
  /\ lease /\ p \in Live /\ p # self
  /\ proc' \in Ends(p)
  /\ UNCHANGED <<ownerPgid, command, run, lease, present, astray, starts>>

Reap(p) ==
  /\ lease /\ p \in Listed \ Live
  /\ proc' = Gone(proc, p)
  /\ UNCHANGED <<ownerPgid, command, run, lease, present, astray, starts>>

(* registerLeaseProcessBroker, under the lease lock like a containment.    *)
RegisterCommand(p) ==
  /\ lease /\ place = "idle" /\ command = None
  /\ p \in Live \ {Owner} /\ proc[p].kin
  /\ \E group \in {None, proc[p].group} : command' = [pid |-> p, group |-> group]
  /\ UNCHANGED <<proc, ownerPgid, run, lease, present, astray, starts>>

-----------------------------------------------------------------------------
(* The containment *)

(* Mutant: whose request it is does not matter.                            *)
GroupOwned_AnyRequester(r) ==
  IF CommandGroup = None \/ OwnerGroup = None THEN FALSE
  ELSE CommandGroup # OwnerGroup /\ Group(CommandGroup) \intersect Owned # {}

(* commandGroupOwned, in terminateOwnedProcesses.                          *)
GroupOwned(r) ==
  IF CommandGroup = None \/ OwnerGroup = None THEN FALSE
  ELSE /\ CommandGroup # OwnerGroup
       /\ Group(CommandGroup) \intersect Owned # {}
       /\ r \notin Group(CommandGroup)

(* containLeaseBroker: the requester is the client, the containing process *)
(* the client too or a service.  A load that finds the owner gone does the *)
(* same without a requester.                                               *)
Begin(s, r) ==
  /\ lease /\ place = "idle"
  /\ self' = s /\ requester' = r /\ killOwner' \in BOOLEAN
  /\ spared' = Owned \intersect ({s, r} \union {p \in {Owner} : OwnerValid /\ ~killOwner'})
  /\ chosen' = Owned \ spared'
  /\ targets' = chosen' /\ failed' = FALSE
  /\ place' = IF GroupOwned(r) THEN "group" ELSE "pids"
  /\ present' = Listed
  /\ UNCHANGED <<proc, ownerPgid, command, lease, astray, starts>>

(* SIGTERM; who minds it exits later, who does not lives on.  A signal may *)
(* fail; that the process is gone is no failure.                           *)
TermGroup ==
  /\ place = "group" /\ place' = "pids"
  /\ failed' = failed \/ (Group(CommandGroup) # {} /\ failed' = TRUE)
  /\ UNCHANGED <<proc, ownerPgid, command, requester, self, killOwner, chosen, spared,
                 targets, lease, present, astray, starts>>

TermPid(p) ==
  /\ place = "pids" /\ p \in targets
  /\ targets' = targets \ {p}
  /\ failed' = failed \/ (p \in Listed /\ failed' = TRUE)
  /\ UNCHANGED <<proc, ownerPgid, command, place, requester, self, killOwner, chosen,
                 spared, lease, present, astray, starts>>

(* Mutant: what was selected is killed.                                    *)
Revalidate_Not ==
  /\ place = "pids" /\ targets = {}
  /\ place' = "kill" /\ targets' = chosen
  /\ present' = Listed
  /\ UNCHANGED <<proc, ownerPgid, command, requester, self, killOwner, chosen, spared,
                 failed, lease, astray, starts>>

(* After the grace period the table is sampled again.                      *)
Revalidate ==
  /\ place = "pids" /\ targets = {}
  /\ place' = "kill" /\ targets' = chosen \intersect Owned
  /\ present' = Listed
  /\ UNCHANGED <<proc, ownerPgid, command, requester, self, killOwner, chosen, spared,
                 failed, lease, astray, starts>>

KillPid(p) ==
  /\ place = "kill" /\ p \in targets
  /\ targets' = targets \ {p}
  /\ \/ /\ IF p \in Live THEN proc' \in Ends(p) ELSE UNCHANGED proc
        /\ UNCHANGED failed
     \/ p \in Listed /\ failed' = TRUE /\ UNCHANGED proc
  /\ UNCHANGED <<ownerPgid, command, place, requester, self, killOwner, chosen, spared,
                 lease, present, astray, starts>>

Idle ==
  /\ place' = "idle" /\ requester' = None /\ self' = None /\ killOwner' = FALSE
  /\ chosen' = {} /\ spared' = {} /\ targets' = {} /\ failed' = FALSE
  /\ present' = {} /\ astray' = {}

(* Mutant: what was not selected does not matter.                          *)
Remaining_Chosen == chosen \intersect Owned \intersect Live

(* observeAfterCleanup, once the killed processes are gone or the wait is  *)
(* over.                                                                   *)
Remaining == (Owned \intersect Live) \ spared

(* What an ideal sampler would miss: all but the owner, the command, its   *)
(* test hosts, what names the simulator in the owner's group, what lives   *)
(* below these, and the group that the command leads.                      *)
IsCommand(p) ==
  IF command = None THEN FALSE
  ELSE p = command.pid /\ proc[p].age < 2 /\ (command.group # None \/ ~OwnerValid)

Known ==
  {p \in Live : \/ p = Owner /\ proc[p].age = 0
                \/ IsCommand(p) \/ proc[p].names = "test"
                \/ proc[p].names # "nothing" /\ proc[p].group = ownerPgid}

Led ==
  IF command = None THEN {}
  ELSE IF command.pid # command.group \/ (command.pid \in Listed /\ proc[command.pid].age = 2) THEN {}
  ELSE Group(command.group)

Astray == Live \ (Below(Known) \union Led)

(* The lease is to go only with a complete cleanup.                        *)
Observe ==
  /\ place = "kill" /\ targets = {}
  /\ IF failed \/ Remaining # {} THEN Idle
     ELSE /\ place' = "unlink" /\ present' = Listed /\ astray' = Astray
          /\ UNCHANGED <<requester, self, killOwner, chosen, spared, targets, failed>>
  /\ UNCHANGED <<proc, ownerPgid, command, lease, starts>>

(* removeLeaseAfterContainment, when the evidence and the registry are     *)
(* written.                                                                *)
Remove ==
  /\ place = "unlink" /\ lease' = FALSE
  /\ Idle
  /\ UNCHANGED <<proc, ownerPgid, command, starts>>

(* The containing process dies, or an error ends the containment.          *)
Abandon ==
  /\ place # "idle"
  /\ UNCHANGED proc \/ (self # None /\ proc' \in Ends(self))
  /\ Idle
  /\ UNCHANGED <<ownerPgid, command, lease, starts>>

-----------------------------------------------------------------------------
Next ==
  \/ \E p, q \in Pids : Fork(p, q)
  \/ \E p \in Pids : \/ StartTest(p) \/ Stranger(p) \/ Exit(p) \/ Reap(p)
                      \/ RegisterCommand(p) \/ TermPid(p) \/ KillPid(p)
  \/ \E s, r \in Live \union {None} : Begin(s, r)
  \/ TermGroup \/ Revalidate \/ Observe \/ Remove \/ Abandon

Spec == Init /\ [][Next]_vars

-----------------------------------------------------------------------------
(* Properties *)

(* A group that the command left and strangers took over is the command's  *)
(* for the broker once its leader has ended.                               *)
Adopted(p) == proc[p].group = CommandGroup /\ CommandGroup \notin Live

(* Whom a step sends a signal (if the sending does not fail).              *)
Struck ==
  IF place = "group" /\ place' = "pids" THEN Group(CommandGroup)
  ELSE IF place = place' THEN (targets \ targets') \intersect Listed ELSE {}

(* A process that the broker had sampled and that is not the lease's gets  *)
(* no signal, whichever of the lease's pids it has by then.  (The pid of a *)
(* sampled process may change hands between the sample and the signal.)    *)
NoStrangerStruck ==
  [][\A p \in Struck \intersect present : proc[p].kin \/ Adopted(p)]_vars

(* A containment never ends the process that requested it, nor the one     *)
(* that executes it (which a group takes with it if it is not the          *)
(* requester), and the lease's owner only when told to.                    *)
SelfAndOwnerSpared ==
  [][/\ requester \notin Struck \intersect present
     /\ self \in Struck => place = "group" /\ self # requester
     /\ Owner \in Struck /\ proc[Owner].age = 0 /\ ~proc[Owner].defunct => killOwner]_vars

(* When the lease goes, nothing of it that was there at the last sample    *)
(* lives on, even if it was started during the containment, but for what   *)
(* is spared and what had been separated from the lease.  (What a spared   *)
(* or separated process starts after that sample is not seen.)             *)
NothingLeft ==
  [][lease /\ ~lease' =>
       \A p \in Live \intersect present : proc[p].kin => p \in spared \union astray]_vars
=============================================================================
