SPECIFICATION StackSpec
CONSTANTS
  CodeLen = 5
  Entry = 0
  ShadowDepth = 4
  Programs <- SomePrograms
  StackWords = 6
  FrameWords = 2
  LocalWords = {0, 1}
  BlockBytes = {1, 16}
INVARIANTS
  TypeOK
  HoldsCalls
  RecordsChained
  CallersWordsKept
  StackSuffices
PROPERTIES
  ImplementsFrames
  LeaveUndoesEnter
