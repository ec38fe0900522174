\* A call with three items and two tasks; the code for the first item makes
\* another call.  All ends with the outer call.
CONSTANTS
  outer = outer
  inner = inner
  j = j
  k = k
  l = l
  Calls = {outer, inner}
  Top = outer
  Root = root
  Tasks = {j, k, l}
  CallOf <- MCCallOf
  Items <- MCItems
  Count <- MCCount
  Nested <- MCNested
  Endless <- MCEndless
  Aborts = TRUE
  None = None
SPECIFICATION FairSpec
CHECK_DEADLOCK FALSE
INVARIANTS Accounted ReturnCaught
PROPERTIES Returns
