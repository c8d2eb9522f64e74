CONSTANTS
  Numerator = 17
  Denominator = 3
  ClockTick = 2
  ShellTicks = {0, 7}
  StepTicks = {1, 2}
  PresentTicks = {1, 3}
  LateTicks = {0, 1}
  Horizon = 32
  Clock = 7
  Rate = 2
  Wrap = 1000
  FrameSteps <- MCFrame
  LongStep = 20
  Loudest = 3
  LowSize = 4
  PeriodMax = 7
  MinPeriod = 2
  LowAddress = 8
  BitsOfByte = 2
  LevelMax = 7
  SlowestDmc = 5
  Calls <- MCCalls
  Programs <- MCPrograms
  MaxCycles = 41
  MaxWrites = 3
  TileWidth = 2
  TileHeight = 2
  Columns = 4
  TableTiles = 2
  MaxScanlineSprites = 2
  Height = 3
  NameTables <- MCNameTables
  Attributes <- MCAttributes
  Cartridges <- MCCartridges
  Oams <- MCOams
  Scenes <- MCScenes
  Changes <- MCChanges
  Patterns <- MCPatterns
  MaxChanges = 2
  MaxLines = 4
  Builds <- MCBuilds
  PcmCapacity = 4
  RingSize = 8
  Chunk = 3
  BlockSamples = 2
  FrameSamples <- MCFrameSamples
  MaxSample = 14
  Windows <- MCWindows
  MaxFrames = 4
  FrontPorch = 3
  SyncWidth = 2
  BackPorch = 3
  ActiveLines = 6
  Scale = 2
  Buses <- MCBuses
  FrameWidth = 4
  FrameHeight = 3
  PanelWidth = 6
  PanelHeight = 4
  ViewX = 1
  ViewY = 1
  Pictures <- MCPictures
  Colour <- MCColour
  Bars <- MCBars
  BarRects <- MCBarRects
  Setup <- MCSetup
  DmaThreshold = 3
  FifoDepth = 2
  MaxPictures = 4
SPECIFICATION StageSpec
INVARIANTS NoDrift NeverAhead ChannelsOK HeardInOrder ShownAsDrawn
PROPERTIES SamplesOnTime BatchIsCycles SameLine FramesArrive
CHECK_DEADLOCK FALSE
