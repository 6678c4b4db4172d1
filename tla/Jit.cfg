SPECIFICATION Spec
CONSTANTS
  CodeLen = 4
  MaxBlocks = 3
  ArenaCap = 3
  Programs <- SomePrograms
INVARIANTS
  TypeOK
  OneTrampolineEach
  ComputesAsInterpreted
CHECK_DEADLOCK FALSE
