------------------------------- MODULE Stacks -------------------------------
(***************************************************************************)
(* pmath_stack_push and pmath_stack_pop (stacks.c) on one stack, with      *)
(* compare-and-set where the processor can swap two words at once          *)
(* (have_cas2) and with a spinlock elsewhere.                              *)
(*                                                                         *)
(* An item is a structure whose first word links it to the item below.     *)
(* While it is not on the stack this word belongs to whoever has the item, *)
(* who may have written to it or freed it: lockfree_pop, which may still   *)
(* read it then, finds anything.                                           *)
(*                                                                         *)
(* lockfree_pop reads the top first and the operation counter after it.    *)
(* An item that was taken out between the two reads and is pushed again    *)
(* looks untouched, whatever was read from its link meanwhile.  The        *)
(* history variables late and misled record when this happens.             *)
(***************************************************************************)
EXTENDS Integers, Sequences, FiniteSets

CONSTANTS Threads,
          Items,    \* addresses that can be pushed
          MaxPops,  \* bound of the operation counter
          None      \* PMATH_NULL

ASSUME StackAssumption ==
  /\ None \notin Items
  /\ MaxPops \in Nat

VARIABLES lockfree, \* have_cas2
          top,      \* the item at the top
          counter,  \* operation_counter_or_spinlock
          next,     \* next[i]: the first word of item i
          pc,       \* where each thread is
          item,     \* item[t]: the item t pushes, or the one it found at the top
          oc,       \* oc[t]: the operation counter as t read it
          below,    \* below[t]: the link of item[t] as t read it
          stack,    \* the items on the stack, by the operations that took effect
          late,     \* the threads that read the link of an item that was gone
          misled    \* whether one of them has taken its item all the same

vars == <<lockfree, top, counter, next, pc, item, oc, below, stack, late, misled>>

OnStack(i) == \E n \in DOMAIN stack : stack[n] = i
Popping    == {t \in Threads : pc[t] \in {"pop", "counter", "next", "swap"}}

Init ==
  /\ lockfree \in BOOLEAN
  /\ top = None
  /\ counter = 0
  /\ next = [i \in Items |-> None]
  /\ pc = [t \in Threads |-> "idle"]
  /\ item = [t \in Threads |-> None]
  /\ oc = [t \in Threads |-> 0]
  /\ below = [t \in Threads |-> None]
  /\ stack = <<>>
  /\ late = {}
  /\ misled = FALSE

Go(t, from, to) == pc[t] = from /\ pc' = [pc EXCEPT ![t] = to]

-----------------------------------------------------------------------------
(* Calls.                                                                  *)

\* The caller has i: it is not on the stack, and nobody else pushes it or has
\* just popped it.
CallPush(t, i) ==
  /\ Go(t, "idle", "push")
  /\ ~OnStack(i)
  /\ \A w \in Threads : item[w] = i => w \in Popping
  /\ item' = [item EXCEPT ![t] = i]
  /\ UNCHANGED <<lockfree, top, counter, next, oc, below, stack, late, misled>>

CallPop(t) ==
  /\ Go(t, "idle", "pop")
  /\ lockfree => counter + Cardinality(Popping) < MaxPops
  /\ UNCHANGED <<lockfree, top, counter, next, item, oc, below, stack, late, misled>>

Return(t) ==
  /\ Go(t, "done", "idle")
  /\ item' = [item EXCEPT ![t] = None]
  /\ UNCHANGED <<lockfree, top, counter, next, oc, below, stack, late, misled>>

-----------------------------------------------------------------------------
(* lockfree_push and lockfree_pop.                                         *)

Link(t) ==
  /\ lockfree
  /\ Go(t, "push", "cas")
  /\ next' = [next EXCEPT ![item[t]] = top]
  /\ UNCHANGED <<lockfree, top, counter, item, oc, below, stack, late, misled>>

Cas(t) ==
  /\ Go(t, "cas", "done")
  /\ top = next[item[t]]
  /\ top' = item[t]
  /\ stack' = <<item[t]>> \o stack
  /\ item' = [item EXCEPT ![t] = None]
  /\ UNCHANGED <<lockfree, counter, next, oc, below, late, misled>>

CasFails(t) ==
  /\ Go(t, "cas", "push")
  /\ top # next[item[t]]
  /\ UNCHANGED <<lockfree, top, counter, next, item, oc, below, stack, late, misled>>

\* The counter that is read with an empty stack is not used.
ReadTop(t) ==
  /\ lockfree
  /\ Go(t, "pop", IF top = None THEN "done" ELSE "counter")
  /\ item' = [item EXCEPT ![t] = top]
  /\ UNCHANGED <<lockfree, top, counter, next, oc, below, stack, late, misled>>

ReadCounter(t) ==
  /\ Go(t, "counter", "next")
  /\ oc' = [oc EXCEPT ![t] = counter]
  /\ UNCHANGED <<lockfree, top, counter, next, item, below, stack, late, misled>>

\* The link of i is on its way onto the stack, or there.
IsLink(i) == OnStack(i) \/ \E w \in Threads : pc[w] \in {"cas", "store"} /\ item[w] = i

ReadNext(t) ==
  /\ Go(t, "next", "swap")
  /\ \E i \in Items \cup {None} :
       /\ IsLink(item[t]) => i = next[item[t]]
       /\ below' = [below EXCEPT ![t] = i]
  /\ late' = IF OnStack(item[t]) THEN late ELSE late \cup {t}
  /\ UNCHANGED <<lockfree, top, counter, next, item, oc, stack, misled>>

\* What is left when the item at the top is taken away.
Below(s) == IF s = <<>> THEN s ELSE Tail(s)

Untouched(t) == top = item[t] /\ counter = oc[t]

\* Mutant: does not count the operation.
SwapUncounted(t) ==
  /\ Go(t, "swap", "done")
  /\ Untouched(t)
  /\ top' = below[t]
  /\ stack' = Below(stack)
  /\ oc' = [oc EXCEPT ![t] = 0]
  /\ below' = [below EXCEPT ![t] = None]
  /\ late' = late \ {t}
  /\ misled' = (misled \/ t \in late)
  /\ UNCHANGED <<lockfree, counter, next, item>>

Swap(t) ==
  /\ Go(t, "swap", "done")
  /\ Untouched(t)
  /\ top' = below[t]
  /\ counter' = counter + 1
  /\ stack' = Below(stack)
  /\ oc' = [oc EXCEPT ![t] = 0]
  /\ below' = [below EXCEPT ![t] = None]
  /\ late' = late \ {t}
  /\ misled' = (misled \/ t \in late)
  /\ UNCHANGED <<lockfree, next, item>>

SwapFails(t) ==
  /\ Go(t, "swap", "pop")
  /\ ~Untouched(t)
  /\ item' = [item EXCEPT ![t] = None]
  /\ oc' = [oc EXCEPT ![t] = 0]
  /\ below' = [below EXCEPT ![t] = None]
  /\ late' = late \ {t}
  /\ UNCHANGED <<lockfree, top, counter, next, stack, misled>>

-----------------------------------------------------------------------------
(* locking_push and locking_pop.                                           *)

Lock(t) ==
  /\ ~lockfree
  /\ counter = 0
  /\ \/ Go(t, "push", "link")
     \/ Go(t, "pop", "unlink")
  /\ counter' = 1
  /\ UNCHANGED <<lockfree, top, next, item, oc, below, stack, late, misled>>

\* Reads the top ...
PushLink(t) ==
  /\ Go(t, "link", "store")
  /\ next' = [next EXCEPT ![item[t]] = top]
  /\ UNCHANGED <<lockfree, top, counter, item, oc, below, stack, late, misled>>

\* ... and replaces it.
PushStore(t) ==
  /\ Go(t, "store", "unlock")
  /\ top' = item[t]
  /\ stack' = <<item[t]>> \o stack
  /\ item' = [item EXCEPT ![t] = None]
  /\ UNCHANGED <<lockfree, counter, next, oc, below, late, misled>>

PopLook(t) ==
  /\ Go(t, "unlink", IF top = None THEN "unlock" ELSE "take")
  /\ item' = [item EXCEPT ![t] = top]
  /\ UNCHANGED <<lockfree, top, counter, next, oc, below, stack, late, misled>>

PopTake(t) ==
  /\ Go(t, "take", "unlock")
  /\ top' = next[item[t]]
  /\ stack' = Below(stack)
  /\ UNCHANGED <<lockfree, counter, next, item, oc, below, late, misled>>

\* Mutant: the lock is not released when the stack was empty.
UnlockSometimes(t) ==
  /\ Go(t, "unlock", "done")
  /\ counter' = IF item[t] = None THEN 1 ELSE 0
  /\ UNCHANGED <<lockfree, top, next, item, oc, below, stack, late, misled>>

Unlock(t) ==
  /\ Go(t, "unlock", "done")
  /\ counter' = 0
  /\ UNCHANGED <<lockfree, top, next, item, oc, below, stack, late, misled>>

-----------------------------------------------------------------------------
Calls(t) == CallPop(t) \/ \E i \in Items : CallPush(t, i)

Step(t) ==
  \/ Link(t) \/ Cas(t) \/ CasFails(t)
  \/ ReadTop(t) \/ ReadCounter(t) \/ ReadNext(t) \/ Swap(t) \/ SwapFails(t)
  \/ Lock(t) \/ PushLink(t) \/ PushStore(t) \/ PopLook(t) \/ PopTake(t) \/ Unlock(t)
  \/ Return(t)

Next == \E t \in Threads : Calls(t) \/ Step(t)

Spec == Init /\ [][Next]_vars

\* A thread inside an operation keeps running; nobody has to call one.
FairSpec == Spec /\ \A t \in Threads : WF_vars(Step(t))

-----------------------------------------------------------------------------
TypeOK ==
  /\ lockfree \in BOOLEAN
  /\ top \in Items \cup {None}
  /\ counter \in Nat
  /\ next \in [Items -> Items \cup {None}]
  /\ pc \in [Threads ->
       {"idle", "push", "cas", "pop", "counter", "next", "swap", "link", "store",
        "unlink", "take", "unlock", "done"}]
  /\ item \in [Threads -> Items \cup {None}]
  /\ oc \in [Threads -> Nat]
  /\ below \in [Threads -> Items \cup {None}]
  /\ stack \in Seq(Items)
  /\ late \in SUBSET Threads
  /\ misled \in BOOLEAN

\* The links lead through exactly the items that were pushed and not popped,
\* in order: no item is lost, none is in the list twice, and none is in it
\* that somebody has popped (pmath_stack_push, pmath_stack_pop).
Linked ==
  /\ top = IF stack = <<>> THEN None ELSE stack[1]
  /\ \A n \in DOMAIN stack :
       next[stack[n]] = IF n = Len(stack) THEN None ELSE stack[n + 1]
  /\ \A m, n \in DOMAIN stack : stack[m] = stack[n] => m = n

\* Once nobody calls any more, every operation returns: neither an attempt
\* that fails nor the spinlock keeps a thread for ever.
Returns ==
  <>[][\A t \in Threads : ~Calls(t)]_vars => <>[](\A t \in Threads : pc[t] = "idle")

\* What the abstract stack knows of thread t's operation.
StackOp(t) ==
  IF pc[t] \in {"pop", "counter", "next", "swap", "unlink", "take"}
  THEN [phase |-> "pop", item |-> None]
  ELSE [phase |-> IF pc[t] = "idle" THEN "idle"
                  ELSE IF pc[t] \in {"push", "cas", "link", "store"} THEN "push" ELSE "done",
        item |-> item[t]]

StackOps == [t \in Threads |-> StackOp(t)]

Atomic == INSTANCE AtomicStack WITH content <- stack, op <- StackOps

\* stacks.h, line 10: the stack "provides threadsafe push and pop operations".
\* Each of them takes effect at one instant: a push when it stores the new top,
\* a pop when it does or when it sees that there is none.  It does not hold:
\* lockfree_pop may take an item by a link that it read while the item was gone.
ImplementsStack == Atomic!Spec

\* As long as no pop has taken its item by such a link, every step of
\* pmath_stack_push and pmath_stack_pop is one of a stack, whenever items are
\* pushed again and whatever is written to their links meanwhile.
ImplementsUnlessMisled ==
  Atomic!Init /\ [][misled' \/ Atomic!Next]_(Atomic!astack)
=============================================================================
