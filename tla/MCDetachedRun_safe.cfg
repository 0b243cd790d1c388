SPECIFICATION Spec
CONSTANTS
  Runs = {r1, r2}
  Inspectors = {i1}
  Paths = {p1, p2}
  Dir = p1
  None = None
  Reports = {"passed"}
  Timeout = 1
  MaxTime = 1
  MaxDeaths = 1
SYMMETRY Symmetry
CONSTRAINT ObserversBound
INVARIANTS TerminalMeansOver OneWriter 
PROPERTIES TerminalIsFinal ResultKept
CHECK_DEADLOCK FALSE
