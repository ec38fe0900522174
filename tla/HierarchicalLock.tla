-------------------------- MODULE HierarchicalLock --------------------------
(***************************************************************************)
(* What pmath_thread_call_locked promises: the callbacks that run under    *)
(* one lock at the same time all belong to one thread and its ancestors.   *)
(* A thread may enter a lock that only it and its ancestors are inside of, *)
(* and leaves it only after every descendant has left.                     *)
(***************************************************************************)
CONSTANTS Threads,
          Locks,
          Ancestors   \* Ancestors[t]: t and the threads that wait for it

VARIABLE inside       \* inside[l]: the threads executing a callback under l

Init == inside = [l \in Locks |-> {}]

Enter(t, l) ==
  /\ inside[l] \subseteq Ancestors[t]
  /\ inside' = [inside EXCEPT ![l] = @ \cup {t}]

Leave(t, l) ==
  /\ \A u \in inside[l] : t \in Ancestors[u] => u = t
  /\ inside' = [inside EXCEPT ![l] = @ \ {t}]

Next == \E t \in Threads, l \in Locks : Enter(t, l) \/ Leave(t, l)

Spec == Init /\ [][Next]_inside
=============================================================================
