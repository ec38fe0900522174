\* A parent with two children beside an unrelated thread, two locks.
CONSTANTS
  p = p  q = q  c = c  e = e
  Threads = {p, q, c, e}
  Ancestors <- Family
  Locks = {A, B}
  Objs = {x, y}
  None = None
  Fallback = Fallback
  MaxDepth = 2
SPECIFICATION FairSpec
CHECK_DEADLOCK FALSE
INVARIANTS MutualExclusion PopRemovesOwnNode MutexExists RefcountExact NoDeadlock
PROPERTIES ImplementsLock Drains
