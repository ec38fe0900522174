\* One client, two workers; the body of a task creates another one, which the
\* client may get from a variable.  Two threads that wait for one task do not
\* all return, so that the system may stop.
CONSTANTS
  a = a  b = b  i = i  j = j
  Clients = {a}
  Workers = {w1, w2}
  Tasks = {i, j}
  Creator <- Nested
  Users <- Shared
  Keepers = {i}
  MaxPosts = 1
  MaxDepth = 3
SPECIFICATION FairSpec
CHECK_DEADLOCK FALSE
INVARIANTS NoneForgotten RefsExact
PROPERTIES ImplementsTaskOnce Completes
