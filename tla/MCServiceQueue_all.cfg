SPECIFICATION FairSpec
CONSTANTS
  Commands = {c1}
  Snapshots = {s1}
  v1 = v1
  v2 = v2
  v3 = v3
  one = one
  two = two
  Runtimes = {v1, v2, v3}
  Version <- TwoVersions
  NoVersion = NoVersion
  Timer = Timer
  Nothing = Nothing
  QueueBudget = 1
  BaseBudget = 0
  MaxWorkload = 1
INVARIANTS FailureMeansUntouched DrainComplete
PROPERTIES RunsWhatWasProbed FailsClosed ImplementsSerialWork CommandsSettle StopCompletes
