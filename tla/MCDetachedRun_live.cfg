SPECIFICATION FairSpec
CONSTANTS
  Runs = {r1}
  Inspectors = {i1}
  Paths = {p1}
  Dir = p1
  None = None
  Reports = {"passed", "unknown"}
  Timeout = 1
  MaxTime = 2
  MaxDeaths = 1
PROPERTIES WatchedRunsEnd
CHECK_DEADLOCK FALSE
