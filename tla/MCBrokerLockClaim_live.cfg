SPECIFICATION FairLeftoverSpec
CONSTANTS
  Procs = {o, r, p1, p2}
  DeadOwner = o
  DeadReclaimer = r
  Dirs = {1, 2, 3, 4, 5}
  Tokens = {1, 2, 3, 4, 5}
  None = None
  MaxCrashes = 3
  Stalls = FALSE
  AtomicRemove = TRUE
PROPERTIES LockRecovered ClaimFrees
