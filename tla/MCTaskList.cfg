SPECIFICATION Spec
CONSTANTS
  Max = 4
  List <- MCList
  BT = 0
  MUSIC = 1
  IDLE = 3
  TypeNext = TypeNext
  TypeLast = TypeLast
  Unactive = Unactive
  Beyond = Beyond
  Crash = Crash
  Keys = {"CHANGE"}
  Lines = {}
  QueueMax = 2
INVARIANT
  StaysInList
