SPECIFICATION Spec
CONSTANTS
  Period = 40
  DotsPerLine = 30
  DrawnDots = 20
  Height = 3
  VBlankLine = 4
  LastLine = 5
  Roms <- McRoms
  MaxFrames = 2
  MaxReads = 10
  MaxRestores = 1
INVARIANTS ConsoleOK ClockExact LinesInOrder ScrollFollows
PROPERTIES IrqOnItsLine InterruptTransparent PadReadsInOrder RestoreExact
CHECK_DEADLOCK FALSE
