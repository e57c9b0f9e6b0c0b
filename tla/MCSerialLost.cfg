SPECIFICATION Spec
CONSTANTS
  Size = 5
  Bytes = {cr, lf, a, high}
  CR = cr
  Ignored = {lf}
  Negative = {}
  NoByte = NoByte
INVARIANTS
  LineSignalled
CHECK_DEADLOCK FALSE
