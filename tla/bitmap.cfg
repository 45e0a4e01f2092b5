CONSTANTS
  ByteBits = 2
  WordBytes = 2
  Bytes = 3
  Retreat = 2
  MaxNeed = 4
  MaxFaults = 1
  NoMirror = NoMirror
SPECIFICATION Spec
INVARIANTS
  TypeOK
  FreeSpaceAgrees
  SearchIsBest
PROPERTY
  ImplementsSpace
