SPECIFICATION Spec
CONSTANTS
  DevNum = 2
  Movable = {2}
  Moves = 2
  Files <- MCFiles
  Good <- MCGood
  Zero <- MCZero
  Folder <- MCFolder
  Contents <- MCContents
  NoFile = NoFile
  RingRoom = 1
CHECK_DEADLOCK FALSE
INVARIANTS
  TypeOK
  NumberMatches
  BpIsLast
  NeverSilent
PROPERTIES
  StaysOnDevice
  DropsOnlyBad
  SkipsOnlyBad
  LoopEnds
