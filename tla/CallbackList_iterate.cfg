CONSTANTS
  n1 = n1
  n2 = n2
  n3 = n3
  NULL = NULL
  Node <- ThreeNodes
  Selector <- Selectors
  HashMult = 1
  HasTask = TRUE
  Walks = {"iterate"}
SPECIFICATION Spec
INVARIANTS DataOwned
PROPERTY KeepsPromise
