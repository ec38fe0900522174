\* Two objects that read a symbol, and three threads that evaluate them, change the
\* symbol and block it, in any order and inside each other, three uses and blocks at a time.
CONSTANTS
  Users = {t, u, v}
  Symbols = {a}
  Ids = {i, j}
  Nil = Nil
  Load = 3
SPECIFICATION DynamicSpec
SYMMETRY Alike
CONSTRAINT Bounded
INVARIANTS WatchedUnlessCrossed InformedUnlessCrossed
