SPECIFICATION Spec
CONSTANTS
  root = root
  n1 = n1
  n2 = n2
  n3 = n3
  a = a
  b = b
  c = c
  Node <- MCNode
  Root = root
  Name <- MCName
  Asked <- MCAsked
  Trees <- MCTrees
  MaxTroubles = 1
  MaxAfter = 1
  MaxHops = 2
  None = None
INVARIANTS FailureLeavesConsistent
