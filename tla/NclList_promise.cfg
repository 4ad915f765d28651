CONSTANTS
  l1 = l1
  l2 = l2
  x1 = x1
  x2 = x2
  c1 = c1
  c2 = c2
  c3 = c3
  c4 = c4
  NULL = NULL
  Types <- BothTypes
  List <- OneList
  Var <- TwoVars
  Cell <- ThreeCells
  MaxLength = 2
  MaxRefs = 2
SPECIFICATION FairSpec
PROPERTIES OperationsEnd KeepsPromise
CHECK_DEADLOCK FALSE
