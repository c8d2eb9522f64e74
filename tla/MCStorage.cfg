CONSTANTS
  Roms <- MCRoms
  Dirs <- MCDirs
  DirOf <- MCDirOf
  Games <- MCGames
  Backends <- Both
  Slots <- MCSlots
  Cap = 2
  Tries = 2
  MaxTime = 1
  MaxFaults <- OneFault
  Kinds <- MCKinds
  Lbas <- MCLbas
  Values <- MCValues
  Cmd0Tries = 2
  MaxLosses = 2
  MaxCalls = 4
  Users <- MCUsers
  Cards <- MCCards
  RegionSize = 24
  PageSize = 2
  SectorSize = 4
  BlockSize = 8
  MaxRoms = 3
  AllOnes = 99
  MaxJobs = 3
  Images <- MCImages
  Platforms <- MCPlatforms
  PrgCopyMax = 3
  RowCacheMax = 1
  MaxLoads = 2
  Volumes <- MCVolumes
  SectorBytes = 4
  FatPer = 4
  HeaderBytes = 2
  ListMax = 3
  NesChunks <- MCNesChunks
  RomsName <- MCRomsName
  MaxUnreadable = 2
  MaxRequests = 2
SPECIFICATION StorageSpec
INVARIANTS  CallsAreSafe ImagesAreOwn PointersLive RomsAsOnCard
 
CHECK_DEADLOCK FALSE
