SPECIFICATION Spec
CONSTANTS
  Lines <- MCLines
  NoLine = NoLine
  Capacity = 1
  VsyncLines = 1
  TopBlankLines = 1
  Rows = 2
  RasterLines = 4
  MaxPulls = 2
  PreFlashFrames = 1
  Blocks = 1
  MaxLate = 1
  LastFrame = 4
  MaxFlashes = 1
INVARIANTS RasterOK NewestFirst
PROPERTIES
  PushReturns
  RasterOrder
  EveryFrameShown
