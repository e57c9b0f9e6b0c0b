SPECIFICATION Spec
CONSTANTS
  Keys = {0, 8, 9}
  NoKey = 255
  Click = 0
  Double = 9
  Base = 4
  Short = 7
  Long = 75
  Hold = 15
  Gap = 15
  Wait = 35
  Width = 256
INVARIANT
  PressedKey
