SPECIFICATION Spec
CONSTANTS
  r1 = r1
  r2 = r2
  a = a
  b = b
  Cluster <- MCSmallCluster
  Record <- MCRecord
  Name <- MCName
  Hole = Hole
  None = None
  InitialMaps = {}
  Quantum = 2
  MaxSize = 2
  MaxSeq = 2
  MaxCrashes = 1
  MaxFaults = 0
INVARIANT UncleanShutdownFlagged
SYMMETRY MCSymmetry
CHECK_DEADLOCK TRUE
