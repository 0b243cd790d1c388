SPECIFICATION Spec
CONSTANTS
  Pids = {o, p1, p2}
  Owner = o
  None = None
  MaxStarts = 2
SYMMETRY Symmetry
PROPERTIES NoStrangerStruck SelfAndOwnerSpared NothingLeft
CHECK_DEADLOCK FALSE
