---------------------------- MODULE MCThreadLocks ----------------------------
(* ThreadLocks for TLC: a family of three threads and an unrelated one.    *)
EXTENDS ThreadLocks, TLC

CONSTANTS p, q, c, e

\* p forks c and e; q is an unrelated thread.
Family == [t \in Threads |-> IF t \in {c, e} THEN {t, p} ELSE {t}]
=============================================================================
