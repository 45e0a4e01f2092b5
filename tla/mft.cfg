SPECIFICATION Spec
CONSTANTS
  Cluster <- MCCluster
  PerCluster = 1
  FirstUser = 1
  ByteBits = 2
  ByteAlign = 1
  ClusterBytes = 1
  GrowClusters = 3
  RoomSet = {2, 3, 4}
  Formats <- MCFormats
  MaxFaults = 1
  None = None
INVARIANTS
  TypeOK
  CopiesAgree
  OwnedIsMarked
  ExtentsSound
  GrowthServes
  NothingLeaks
PROPERTIES
  TableIsClean
  ImplementsSpace
  AllocReturns
