CONSTANTS
  a = a
  b = b
  NoSym = NoSym
  Name = {a, b}
  SymId = {1, 2, 3}
  Bucket = {1}
  Hash <- OneChain
  MaxSyms = 3
  MaxDepth = 2
  MaxBranches = 1
SPECIFICATION Spec
INVARIANT NoFreedSymbolUsed
