------------------------------ MODULE MCTaskPool ------------------------------
(* TaskPool for TLC: one or two clients and workers, one or two tasks.     *)
EXTENDS TaskPool, TLC

CONSTANTS a, b, i, j

\* Client a creates i; j is created by the body of i, as by a parallel builtin
\* inside of a task.
Nested == [x \in Tasks |-> IF x = j THEN i ELSE a]

\* Clients may find j in the variable in which the body of i has left it.
Shared == [x \in Tasks |-> IF x = j THEN Clients ELSE {}]

\* All clients use the task that client a creates.
Common == [x \in Tasks |-> Clients]
=============================================================================
