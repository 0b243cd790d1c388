SPECIFICATION Spec
CONSTANTS
  Procs = {p1, p2, p3}
  Dirs = {1, 2, 3, 4, 5}
  Tokens = {1, 2, 3, 4, 5}
  None = None
  MaxCrashes = 1
  Stalls = FALSE
  AtomicRemove = FALSE
SYMMETRY Symmetry
INVARIANT MutualExclusion
