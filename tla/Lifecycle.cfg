\* One or two threads of the program, the timer and a daemon that may end by
\* itself.  A failed pmath_init may wait for ever.
CONSTANTS
  Users = {u, v}
  Daemons = {timer, d}
  Timer = timer
  Killable = {timer, d}
  Ephemeral = {d}
  MayFail = TRUE
  None = None
SPECIFICATION FairSpec
CHECK_DEADLOCK FALSE
INVARIANTS OneManager NoUseAfterDestroy
PROPERTIES InitReturns ShutsDown DaemonsKilled
