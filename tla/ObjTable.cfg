CONSTANTS
  o1 = o1
  o2 = o2
  o3 = o3
  NULL = NULL
  Obj <- ThreeObjects
  TableSize = 2
  RecycleStart = 2
  MaxId = 8
  IntMax = 10
SPECIFICATION Spec
INVARIANTS TypeOK Findable NoInternalError StaleIdsFindNothing
PROPERTY IsMap
CHECK_DEADLOCK FALSE
