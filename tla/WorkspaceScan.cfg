SPECIFICATION Spec
CONSTANTS
  Files <- MCFiles
  Spare <- MCSpare
  Links <- MCLinks
  Volatile <- MCVolatile
  Deletable <- MCDeletable
  d1 = d1  d2 = d2
  Deleters = {d1, d2}
  Cases <- MCCases
SYMMETRY Symmetry
INVARIANTS TypeOK ManifestComplete ManifestSound FailureExplained
PROPERTY PruneStopsAtRoot
CHECK_DEADLOCK FALSE
