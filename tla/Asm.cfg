SPECIFICATION Spec
CONSTANTS
  Names = {a, b, c}
  MaxStatements = 5
  MaxLabels = 2
  MaxPatches = 2
  MaxRels = 2
  MaxEqus = 2
SYMMETRY Symmetry
INVARIANTS
  TypeOK
  TablesAgree
  ReferencesKept
  SymbolsAsDefined
PROPERTY IndicesStay
