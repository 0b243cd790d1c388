SPECIFICATION Spec
CONSTANTS
  Aliases = {a1, a2}
  Devices = {1, 2, 3, 4, 5}
  Setups = {s1, s2}
  None = None
  MaxFaults = 2
PROPERTIES OthersKept NothingLeftBehind SetupConverges
CHECK_DEADLOCK FALSE
