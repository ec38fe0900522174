\* Two threads and two items; an item that one thread has popped is pushed again
\* before the other, which has seen it at the top, swaps.
CONSTANTS
  Threads = {t, u}
  Items = {a, b}
  MaxPops = 3
  None = None
SPECIFICATION FairSpec
CHECK_DEADLOCK FALSE
PROPERTY ImplementsStack
