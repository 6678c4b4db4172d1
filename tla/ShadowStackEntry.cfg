SPECIFICATION Spec
CONSTANTS
  CodeLen = 3
  Entry = 1
  ShadowDepth = 4
  Programs <- AllPrograms
PROPERTY ImplementsFrames
