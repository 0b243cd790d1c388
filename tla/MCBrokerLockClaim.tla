-------------------------- MODULE MCBrokerLockClaim --------------------------
(***************************************************************************)
(* BrokerLock from the states that crashes leave behind: the lock of a     *)
(* dead owner, the directory of a process that died before it wrote        *)
(* owner.json, and the lock of a dead owner with the marker of a reclaimer *)
(* that died before it removed the lock.  The starts of longer runs; the   *)
(* processes that contend are alive at first, and may die as well.         *)
(***************************************************************************)
EXTENDS BrokerLock, TLC

CONSTANTS DeadOwner, DeadReclaimer

LeftoverInit ==
  /\ lockDir = 1 /\ owner \in {DeadOwner, None} /\ aged \in BOOLEAN
  /\ marker \in {1, None}
  /\ markerFull = (marker = 1) /\ markerAged = (marker = 1)
  /\ marker = 1 => owner = DeadOwner /\ aged
  /\ pc = [p \in Procs |-> IF p \in {DeadOwner, DeadReclaimer} THEN "dead" ELSE "idle"]
  /\ seen = [p \in Procs |-> [dir |-> None, has |-> FALSE, old |-> FALSE]]
  /\ now = [p \in Procs |-> NoRead]
  /\ token = [p \in Procs |-> None]

FairLeftoverSpec == LeftoverInit /\ [][Next]_vars /\ Fairness
=============================================================================
