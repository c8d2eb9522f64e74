CONSTANTS
  Clock = 7
  Rate = 2
  Wrap = 32
  FrameSteps <- MCFrame
  LongStep = 20
  Loudest = 3
  LowSize = 4
  PeriodMax = 7
  MinPeriod = 2
  LowAddress = 8
  BitsOfByte = 2
  LevelMax = 7
  SlowestDmc = 5
  Calls <- MCCalls
  Programs <- MCPrograms
  MaxCycles = 41
  MaxWrites = 3
SPECIFICATION Spec
PROPERTY WrapsHarmlessly
CHECK_DEADLOCK FALSE
