SPECIFICATION Spec
CONSTANTS
  Size = 5
  Bytes = {cr, lf, a, high}
  CR = cr
  Ignored = {lf}
  Negative = {high}
  NoByte = NoByte
INVARIANTS
  TypeOK
  CountedIsThere
  LineFits
PROPERTIES
  ImplementsFifo
CHECK_DEADLOCK FALSE
