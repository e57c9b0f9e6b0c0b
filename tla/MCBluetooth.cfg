SPECIFICATION Spec
CONSTANTS
  Phones = {p, q, r}
  NoPhone = none
  Returns = 2
  Max = 3
  CallMax = 2
  Low = 1
  Default = 2
  PhoneMax = 1
  MusicMax = 1
  NoVol = unset
  Events = 2
INVARIANTS
  TypeOK
  InReach
  ScansFit
  HeardAsSet
  AfterCall
PROPERTIES
  RetriesEnd
  SavedAtLast
CHECK_DEADLOCK FALSE
