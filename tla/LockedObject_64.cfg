\* Two threads that read and exchange, one that writes.
CONSTANTS
  PMATH_BITSIZE = 64
  Readers = {r1, r2}
  Exchangers = {r1, r2}
  Writers = {w1}
  Objects = {o1, o2, o3, o4}
  None = None
  Invalid = Invalid
SPECIFICATION FairSpec
INVARIANTS RefsBalanced KeptUnlessOverlap
PROPERTIES LockReleased
