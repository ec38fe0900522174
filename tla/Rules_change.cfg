\* Two threads that define rules for f(1) and f(~x) with and without conditions,
\* remove them and apply them; the list gets three entries.
CONSTANTS
  Threads = {t, u}
  f1 = f1
  fx = fx
  Consts = {f1}
  Generals = {fx}
  Rank <- MCRank
  Bodies = {b, c}
  MaxRules = 3
  None = None
SPECIFICATION Spec
SYMMETRY Alike
INVARIANTS InOrder NeverMissed
PROPERTIES Kept Recorded
