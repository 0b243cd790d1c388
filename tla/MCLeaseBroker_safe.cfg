SPECIFICATION Spec
CONSTANTS
  a1 = a1
  a2 = a2
  Aliases = {a1}
  Leases = {l1, l2}
  Owners = {o1}
  Projects = {p1, p2}
  None = None
  Class <- BuildOnly
  ReclaimClasses = {"build"}
  MaxUses = 2
  Kinds <- AllKinds
  ResetLockBusy = FALSE
  MaxCrashes = 1
SYMMETRY Symmetry
INVARIANTS OneLeasePerAlias PinRespected RegistryMatchesFiles
PROPERTIES LiveLeaseKept DeviceProtected OnlyRepairHeals HandoutHealthy BudgetKept
