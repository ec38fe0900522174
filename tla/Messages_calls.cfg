\* Two calls with a time-out that the receiver may evaluate inside each other,
\* and a message the other way whose evaluation may sleep.  A message may
\* sleep for ever.
CONSTANTS
  a = a  b = b  k1 = k1  k2 = k2  k3 = k3
  Threads = {a, b}
  Msgs = {k1, k2, k3}
  From <- Across
  To <- AcrossTo
  Calls = {k1, k3}
  Timed = {k1, k3}
  Sleepers = {k2}
  None = None
SPECIFICATION FairSpec
CHECK_DEADLOCK FALSE
INVARIANTS ReasonsExact MessageWakes AbortStaysInside RequestsKept
PROPERTIES CallsReturn
