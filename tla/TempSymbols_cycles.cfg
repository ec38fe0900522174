\* Two symbols and an expression that may refer to each other in any way.  The other
\* threads go on during a pass.  Counts are kept up to Many.
CONSTANTS
  x = x
  y = y
  Order <- MCOrder
  Exprs = {e}
  Undefined = Undefined
SPECIFICATION GCSpec
INVARIANTS OnlyUnusedUnlessMisled
PROPERTIES NothingLeftUnlessMisled
