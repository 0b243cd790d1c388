SPECIFICATION Spec
CONSTANTS
  Daemons = {d1, d2, d3}
  Launchers = {l1, l2, l3}
  None = None
SYMMETRY Symmetry
INVARIANT AuthorityWhenPrompt
PROPERTY StartupKeepsLiveSocket
CHECK_DEADLOCK FALSE
