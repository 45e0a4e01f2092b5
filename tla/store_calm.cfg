SPECIFICATION FairSpec
CONSTANTS
  r1 = r1
  r2 = r2
  a = a
  b = b
  Cluster <- MCCluster
  Record <- MCRecord
  Name <- MCName
  Hole = Hole
  None = None
  InitialMaps = {}
  Quantum = 2
  MaxSize = 2
  MaxSeq = 2
  MaxCrashes = 0
  MaxFaults = 0
INVARIANTS
  TypeOK
  ConsistentAtRest
  CleanFlagTruthful
PROPERTIES
  RefusalChangesNothing
  UsesClusterSpace
  CallsReturn
CHECK_DEADLOCK TRUE
