----------------------------- MODULE AtomicStack -----------------------------
(***************************************************************************)
(* What stacks.h promises: "a stack abstraction that provides threadsafe   *)
(* push and pop operations".  Each operation takes effect at one instant   *)
(* between its call and its return; an item is pushed only by a thread     *)
(* that has it, and is then on the stack until one thread pops it.         *)
(***************************************************************************)
EXTENDS Sequences

CONSTANTS Threads,   \* the threads that use the stack
          Items,     \* what can be pushed
          None       \* no item

VARIABLES content,   \* the items on the stack, from the top down
          op         \* op[t]: the operation thread t has called

astack == <<content, op>>

Idle == [phase |-> "idle", item |-> None]
Done(i) == [phase |-> "done", item |-> i]

OnStack(i) == \E n \in DOMAIN content : content[n] = i

Init ==
  /\ content = <<>>
  /\ op = [t \in Threads |-> Idle]

CallPush(t, i) ==
  /\ op[t].phase = "idle"
  /\ ~OnStack(i)
  /\ \A w \in Threads : op[w].item # i
  /\ op' = [op EXCEPT ![t] = [phase |-> "push", item |-> i]]
  /\ UNCHANGED content

CallPop(t) ==
  /\ op[t].phase = "idle"
  /\ op' = [op EXCEPT ![t] = [phase |-> "pop", item |-> None]]
  /\ UNCHANGED content

Push(t) ==
  /\ op[t].phase = "push"
  /\ content' = <<op[t].item>> \o content
  /\ op' = [op EXCEPT ![t] = Done(None)]

PopItem(t) ==
  /\ op[t].phase = "pop"
  /\ content # <<>>
  /\ content' = Tail(content)
  /\ op' = [op EXCEPT ![t] = Done(Head(content))]

\* pmath_stack_pop returns PMATH_NULL "if it is empty".
PopNothing(t) ==
  /\ op[t].phase = "pop"
  /\ content = <<>>
  /\ op' = [op EXCEPT ![t] = Done(None)]
  /\ UNCHANGED content

Return(t) ==
  /\ op[t].phase = "done"
  /\ op' = [op EXCEPT ![t] = Idle]
  /\ UNCHANGED content

Next ==
  \E t \in Threads :
    \/ \E i \in Items : CallPush(t, i)
    \/ CallPop(t) \/ Push(t) \/ PopItem(t) \/ PopNothing(t) \/ Return(t)

Spec == Init /\ [][Next]_astack
=============================================================================
