SPECIFICATION Spec
CONSTANTS
  Key <- Keys
  Size <- Mixed
  RootRoom = 2
  BlockRoom = 4
  Margin = 1
  Clusters = 6
  Asks = {1, 2, 4, 8}
  Limits = {0, 6}
  MaxAfter = 1
  None = None
INVARIANTS TypeOK InCollationOrder BlocksAgree ScanAgreesWithLookup EmptyIsSmall
PROPERTIES ImplementsNameSet ChangesAsAsked 
CHECK_DEADLOCK FALSE
