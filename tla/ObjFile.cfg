SPECIFICATION Spec
CONSTANTS
  Files = {f1, f2}
  Items <- MCItems
  Progs <- MCProgs
  MaxObjs = 2
  MaxSyms = 2
  MaxRels = 2
  NULL = NULL
INVARIANTS
  TypeOK
  AcceptedIsWhole
  BuffersOwned
