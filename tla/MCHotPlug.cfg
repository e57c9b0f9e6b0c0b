SPECIFICATION Spec
CONSTANTS
  sd1 = sd1
  usb = usb
  Devices = {sd1, usb}
  Movable = {usb}
  None = None
  No <- MCNo
  QueueMax = 3
  KeyRoom = 1
INVARIANTS
  TypeOK
  TableFollows
  NotForgotten
  SuccInMusic
PROPERTIES
  PausedLeaves
  GivesUp
