CONSTANTS
  Roms <- MCRoms
  Dirs <- MCDirs
  DirOf <- MCDirOf
  Games <- SomeGames
  Backends <- SdOnly
  Slots <- TwoSlots
  Cap = 2
  Tries = 3
  MaxTime = 0
  MaxFaults <- NoFaults
  VisibleRows = 2
  HoldDelay = 3
  HoldRate = 1
  Setups <- CopiesOnly
  Supported <- MCRoms
  NotRom = "none"
  PartsOf <- MCPartsOf
  Savs <- MCSavs
  SavOf <- MCSavOf
SPECIFICATION ShellSpec
INVARIANT NamedAsShown
