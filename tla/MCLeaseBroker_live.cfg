SPECIFICATION FairSpec
CONSTANTS
  a1 = a1
  a2 = a2
  Aliases = {a1, a2}
  Leases = {l1}
  Owners = {o1}
  Projects = {p1}
  None = None
  Class <- EraseAndBuild
  ReclaimClasses = {"build"}
  MaxUses = 1
  Kinds = {"acquire", "idle"}
  ResetLockBusy = FALSE
  MaxCrashes = 0
PROPERTIES DeadLeaseReclaimed IdleGrace
