SPECIFICATION Spec
CONSTANTS
  None = None
  X = "x"
  Names = {"x", "_start", "main"}
  Start = "_start"
  Main = "main"
  MaxSyms = 3
  MaxRels = 2
  Entries <- AskedFor
  Inputs <- Pairs
INVARIANT ReferencesReachMeant
