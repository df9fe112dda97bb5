SPECIFICATION ScriptSpec
CONSTANTS
  c1 = c1
  c2 = c2
  c3 = c3
  HEIGHT = 2
  LeafValues = {}
  EmptyLeaf = EmptyLeaf
  AllZero = AllZero
  Clients <- MCClients
  MAX_HISTORICAL_ROOTS = 2
  LIMIT = 3
  MaxHistory = 5
  Scripts = {"s1"}
  Notes <- MCNotes
INVARIANTS
  ProvableWithinWindow
  ReportsAreTrue
PROPERTY
  SpentNotesAreInTheTree
CHECK_DEADLOCK FALSE
