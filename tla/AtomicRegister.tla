--------------------------- MODULE AtomicRegister ---------------------------
(***************************************************************************)
(* What pmath_locked_t promises its callers: a register that holds one     *)
(* pMath object and that threads read, overwrite and exchange as if each   *)
(* operation took effect at one instant between its call and its return.   *)
(*                                                                         *)
(*   read    _pmath_object_atomic_read                                     *)
(*   write   _pmath_object_atomic_write                                    *)
(*   update  _pmath_object_atomic_read_start, and later _read_end with a   *)
(*           replacement for the object that was taken out                 *)
(***************************************************************************)
CONSTANTS Threads,   \* the threads that use the register
          Objects,   \* the pMath objects it may hold
          None       \* no object (an operation without argument or result)

VARIABLES reg,       \* the object in the register
          op         \* op[t]: the operation thread t has called

areg == <<reg, op>>

Kinds  == {"read", "write", "update"}
Idle   == [phase |-> "idle", kind |-> "read", arg |-> None, got |-> None]

Init ==
  /\ reg \in Objects
  /\ op = [t \in Threads |-> Idle]

Call(t) ==
  /\ op[t].phase = "idle"
  /\ \E k \in Kinds, a \in Objects \cup {None} :
       /\ (a = None) <=> (k = "read")
       /\ op' = [op EXCEPT ![t] = [phase |-> "called", kind |-> k, arg |-> a, got |-> None]]
  /\ UNCHANGED reg

\* The instant at which the operation happens: it returns the object it
\* replaces, unless it is a plain write.
TakeEffect(t) ==
  /\ op[t].phase = "called"
  /\ reg' = IF op[t].kind = "read" THEN reg ELSE op[t].arg
  /\ op' = [op EXCEPT ![t] = [phase |-> "done", kind |-> op[t].kind, arg |-> None,
                               got   |-> IF op[t].kind = "write" THEN None ELSE reg]]

Return(t) ==
  /\ op[t].phase = "done"
  /\ op' = [op EXCEPT ![t] = Idle]
  /\ UNCHANGED reg

Next == \E t \in Threads : Call(t) \/ TakeEffect(t) \/ Return(t)

Spec == Init /\ [][Next]_areg
=============================================================================
