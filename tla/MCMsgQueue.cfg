SPECIFICATION Spec
CONSTANTS
  Events <- MCEvents
  OneSecond = 29
  HalfSecond = 31
  Ids = {10, 23}
  CleanAll = 4094
  Params <- MCParams
  MaxArgs = 1
  Lens <- MCLens
  Capacity = 4
  HalfPeriod = 2
  Undef <- MCUndef
INVARIANTS
  TypeOK
  Framed
PROPERTIES
  ImplementsBus
  WakesUp
  LowestServed

