\* Three threads that read, write and exchange in any order.
CONSTANTS
  PMATH_BITSIZE = 32
  Readers = {t1, t2, t3}
  Exchangers = {t1, t2, t3}
  Writers = {t1, t2, t3}
  Objects = {o1, o2, o3}
  None = None
  Invalid = Invalid
SPECIFICATION FairSpec
INVARIANTS NoTornValue RefsBalanced
PROPERTIES ImplementsRegister
