CONSTANTS
  l1 = l1
  l2 = l2
  x1 = x1
  x2 = x2
  c1 = c1
  c2 = c2
  c3 = c3
  c4 = c4
  NULL = NULL
  Types <- FifoOnly
  List <- TwoLists
  Var <- TwoVars
  Cell <- FourCells
  MaxLength = 2
  MaxRefs = 1
SPECIFICATION Spec
SYMMETRY Interchangeable
INVARIANTS TypeOK WellLinked Watched NoLeak AllHandedOut
CHECK_DEADLOCK FALSE
