SPECIFICATION TreeSpec
CONSTANTS
  Nodes = {n1, n2, n3, n4}
  Null = Null
  Keys = {"k"}
  NoKey = NoKey
  Lower <- MCLower
  MaxArray = 2
  CircularLimit = 1
  LeakyKey = TRUE
SYMMETRY Symmetry
INVARIANTS
  
  ListsAreWhole
  EveryItemHasAPlace
PROPERTY ImplementsForest
CHECK_DEADLOCK FALSE
