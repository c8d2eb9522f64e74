CONSTANTS
  a = a
  b = b
  LastCluster = 7
  SlotsPer = 2
  Size = 2
  FileNames <- MCFiles
  DirNames <- MCDirs
  MaxMishaps = 1
SYMMETRY Interchangeable
SPECIFICATION Spec
INVARIANTS VolumeOK DoneIsDone
PROPERTY OnlyTheNamed
CHECK_DEADLOCK FALSE
