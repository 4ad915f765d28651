CONSTANTS
  a = a
  b = b
  NoSym = NoSym
  Name = {a, b}
  SymId = {1, 2, 3, 4}
  Bucket = {1}
  Hash <- OneChain
  MaxSyms = 3
  MaxDepth = 2
  MaxBranches = 2
SPECIFICATION Spec
INVARIANTS TypeOK WellLinked SlotsDistinct ScopesMatchStatements
PROPERTY KeepsPromise
SYMMETRY Interchangeable
