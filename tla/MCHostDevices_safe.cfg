SPECIFICATION Spec
CONSTANTS
  Aliases = {a1, a2}
  Devices = {d1, d2, d3}
  Txns = {t1, t2}
  None = None
  MaxCrashes = 1
SYMMETRY Symmetry
INVARIANTS BaselineKept ConfiguredKept RollbackComplete AccountedFor
