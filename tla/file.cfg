SPECIFICATION Spec
CONSTANTS
  Cluster = {c1, c2, c3}
  PerCluster = 2
  Chunk = 1
  Room = 1
  Quantum = 2
  Handle = {h1, h2}
  Zero = Zero
  Data = Data
  Junk = Junk
  None = None
  Files <- MCFiles
  MaxUnits = 3
  MaxWrite = 2
  MaxFaults = 1
INVARIANTS TypeOK ReadsContent SlackReturned DoesAsAsked
PROPERTIES ImplementsFile
CHECK_DEADLOCK TRUE
SYMMETRY MCSymmetry
