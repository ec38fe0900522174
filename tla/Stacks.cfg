\* Three threads exchange items, which may be pushed again at any time.  It
\* stops when the operation counter is at its bound.
CONSTANTS
  Threads = {t, u, v}
  Items = {a, b}
  MaxPops = 3
  None = None
SPECIFICATION FairSpec
CHECK_DEADLOCK FALSE
PROPERTIES ImplementsUnlessMisled Returns
