CONSTANTS
  p = p
  q = q
  i = i
  j = j
  main = main
  Main = main
  Fn = {p, q, i, j}
  Intrinsic = {i, j}
  Function = {p, i}
  Encl <- Nested
  Depth <- Levels
  Nargs <- Arguments
  Offsets <- Frame
  StackSize = 12
  MaxCells = 40
  MaxContexts = 4
  MaxTemps = 2
SPECIFICATION Spec
INVARIANTS TypeOK Aligned LexicalLinks ScopesFollowCalls
PROPERTY ErrorsEnd
