SPECIFICATION Spec
CONSTANTS
  HEIGHT = 3
  LeafValues = {a, b, AllZero}
  EmptyLeaf = EmptyLeaf
  AllZero = AllZero
INVARIANTS
  RootMatchesRebuild
  PathsProveTheirLeafOnly
CHECK_DEADLOCK FALSE
