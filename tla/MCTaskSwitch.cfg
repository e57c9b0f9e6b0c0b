SPECIFICATION Spec
CONSTANTS
  Max = 4
  List <- MCList
  BT = 0
  MUSIC = 1
  IDLE = 3
  TypeNext = TypeNext
  TypeLast = TypeLast
  Unactive = Unactive
  Beyond = Beyond
  Crash = Crash
  Keys = {"CHANGE", "OFF"}
  Lines = {"CM01", "CM02", "CM08"}
  QueueMax = 2
INVARIANTS
  TypeOK
  MaskOnlyInBt
  TargetKnown
  BackgroundMatches
PROPERTIES
  CallStaysInBt
  ComesBack
  MaskEnds
