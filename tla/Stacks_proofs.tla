---------------------------- MODULE Stacks_proofs ----------------------------
(***************************************************************************)
(* For any number of threads and items, pmath_stack_push and               *)
(* pmath_stack_pop implement an atomic stack, with the operation counter   *)
(* and with the spinlock, until a pop takes its item by a link that it     *)
(* read while the item was gone.                                           *)
(*                                                                         *)
(* The thread that swaps top and counter compares both with what it read   *)
(* one after the other.  If its item was on the stack when it read the     *)
(* link, an equal counter says that nothing was popped since: the item is  *)
(* still there, nobody could write its link, and what was read from it is  *)
(* still true.                                                             *)
(***************************************************************************)
EXTENDS Stacks, SequenceTheorems, TLAPS

PushPlaces == {"push", "cas", "link", "store"}
PopPlaces  == {"pop", "counter", "next", "swap"}
FreePlaces == {"cas", "counter", "next", "swap"}
LockPlaces == {"link", "store", "unlink", "take", "unlock"}

\* Where a thread has an item.
ItemInv ==
  \A t \in Threads :
    /\ pc[t] \in {"idle", "pop", "unlink"} => item[t] = None
    /\ pc[t] \in PushPlaces \cup {"counter", "next", "swap", "take"} => item[t] # None

\* A thread that pushes an item or has popped it is the only one that has it,
\* but for those whose pop has seen it at the top.
Has(t) == item[t] # None /\ pc[t] \notin PopPlaces \cup {"take"}
OwnInv ==
  \A t \in Threads : Has(t) =>
    /\ ~OnStack(item[t])
    /\ \A w \in Threads : item[w] = item[t] => w = t \/ pc[w] \in PopPlaces

\* Either the operation counter or the spinlock is used.
PathInv ==
  \A t \in Threads : pc[t] \notin (IF lockfree THEN LockPlaces ELSE FreePlaces)

\* The spinlock: one thread at a time has it, and what it has read is true.
LockInv ==
  \A t \in Threads :
    /\ pc[t] \in LockPlaces =>
         counter = 1 /\ \A w \in Threads : pc[w] \in LockPlaces => w = t
    /\ pc[t] = "store" => next[item[t]] = top
    /\ pc[t] = "take" => item[t] = top

\* As long as the counter is what it was, an item that was on the stack when its
\* link was read still is, and the link is what was read.
SeenInv ==
  \A w \in Threads :
    /\ pc[w] \in {"next", "swap"} => oc[w] <= counter
    /\ w \in late => pc[w] = "swap"
    /\ pc[w] = "swap" /\ w \notin late /\ oc[w] = counter =>
         OnStack(item[w]) /\ below[w] = next[item[w]]

\* The stack as it is until a pop is misled.
Sound == TypeOK /\ Linked /\ ItemInv /\ OwnInv /\ PathInv /\ LockInv /\ SeenInv

IInv == TypeOK /\ ItemInv /\ (~misled => Sound)

-----------------------------------------------------------------------------
(* What happens to the sequence of items.                                  *)

\* A sequence with one more item in front.
LEMMA PushOnto ==
  ASSUME NEW s \in Seq(Items), NEW i \in Items
  PROVE  /\ <<i>> \o s \in Seq(Items)
         /\ Len(<<i>> \o s) = Len(s) + 1
         /\ (<<i>> \o s)[1] = i
         /\ \A n \in 1..Len(s) : (<<i>> \o s)[n + 1] = s[n]
         /\ \A n \in 2..(Len(s) + 1) : (<<i>> \o s)[n] = s[n - 1]
         /\ DOMAIN s = 1..Len(s) /\ DOMAIN (<<i>> \o s) = 1..(Len(s) + 1)
         /\ <<i>> \o s # <<>>
<1>1. <<i>> \in Seq(Items) /\ Len(<<i>>) = 1 /\ <<i>>[1] = i
  OBVIOUS
<1>2. <<i>> \o s \in Seq(Items) /\ Len(<<i>> \o s) = 1 + Len(s)
      /\ \A n \in 1..(1 + Len(s)) : (<<i>> \o s)[n] = IF n <= 1 THEN <<i>>[n] ELSE s[n - 1]
  BY <1>1, ConcatProperties
<1>3. Len(s) \in Nat /\ DOMAIN s = 1..Len(s)
  BY LenProperties
<1>4. DOMAIN (<<i>> \o s) = 1..(Len(s) + 1)
  BY <1>2, <1>3, LenProperties
<1>5. <<i>> \o s # <<>>
  BY <1>2, <1>3
<1> QED BY <1>1, <1>2, <1>3, <1>4, <1>5

\* A sequence without its first item.
LEMMA PopFrom ==
  ASSUME NEW s \in Seq(Items), s # <<>>
  PROVE  /\ Tail(s) \in Seq(Items)
         /\ Len(s) \in Nat /\ Len(s) > 0
         /\ Len(Tail(s)) = Len(s) - 1
         /\ \A n \in 1..(Len(s) - 1) : Tail(s)[n] = s[n + 1]
         /\ DOMAIN s = 1..Len(s) /\ DOMAIN Tail(s) = 1..(Len(s) - 1)
         /\ Head(s) = s[1]
BY HeadTailProperties, LenProperties, EmptySeq

\* The links after an item has been put on top.
LEMMA LinkedPush ==
  ASSUME TypeOK, Linked, NEW i \in Items, ~OnStack(i), next[i] = top,
         top' = i, next' = next, stack' = <<i>> \o stack
  PROVE  Linked' /\ stack' \in Seq(Items) /\ \A j : OnStack(j)' <=> j = i \/ OnStack(j)
<1>1. stack \in Seq(Items) /\ Len(stack) \in Nat
  BY DEF TypeOK
<1>2. /\ Len(stack') = Len(stack) + 1
      /\ stack'[1] = i
      /\ \A n \in 1..Len(stack) : stack'[n + 1] = stack[n]
      /\ \A n \in 2..(Len(stack) + 1) : stack'[n] = stack[n - 1]
      /\ DOMAIN stack = 1..Len(stack) /\ DOMAIN stack' = 1..(Len(stack) + 1)
      /\ stack' # <<>> /\ stack' \in Seq(Items)
  BY <1>1, PushOnto
<1>3. ASSUME NEW j PROVE OnStack(j)' <=> j = i \/ OnStack(j)
  <2>1. 1 \in DOMAIN stack' /\ \A n \in DOMAIN stack : n + 1 \in DOMAIN stack'
    BY <1>1, <1>2
  <2>2. j = i \/ OnStack(j) => OnStack(j)'
    BY <1>2, <2>1 DEF OnStack
  <2>3. \A n \in DOMAIN stack' : n # 1 => n - 1 \in DOMAIN stack /\ stack'[n] = stack[n - 1]
    BY <1>1, <1>2
  <2>4. OnStack(j)' => j = i \/ OnStack(j)
    BY <1>2, <2>3 DEF OnStack
  <2> QED BY <2>2, <2>4
<1>4. top' = IF stack' = <<>> THEN None ELSE stack'[1]
  BY <1>2
<1>5. ASSUME NEW n \in DOMAIN stack'
      PROVE  next'[stack'[n]] = IF n = Len(stack') THEN None ELSE stack'[n + 1]
  <2>1. CASE n = 1
    <3>1. CASE stack = <<>>
      BY <1>2, <2>1, <3>1 DEF Linked
    <3>2. CASE stack # <<>>
      <4>1. Len(stack) > 0
        BY <1>1, <3>2, EmptySeq
      <4> QED BY <1>1, <1>2, <2>1, <3>2, <4>1 DEF Linked
    <3> QED BY <3>1, <3>2
  <2>2. CASE n # 1
    <3>1. n - 1 \in DOMAIN stack /\ n \in 2..(Len(stack) + 1)
      BY <1>1, <1>2, <2>2
    <3>2. next[stack[n - 1]] = IF n - 1 = Len(stack) THEN None ELSE stack[n]
      BY <3>1, <1>1, <1>2 DEF Linked
    <3>3. n # Len(stack') => n \in 1..Len(stack)
      BY <1>1, <1>2, <3>1
    <3> QED BY <1>1, <1>2, <3>1, <3>2, <3>3
  <2> QED BY <2>1, <2>2
<1>6. ASSUME NEW m \in DOMAIN stack', NEW n \in DOMAIN stack', stack'[m] = stack'[n]
      PROVE  m = n
  <2>1. m # 1 => m - 1 \in DOMAIN stack /\ stack'[m] = stack[m - 1]
    BY <1>1, <1>2
  <2>2. n # 1 => n - 1 \in DOMAIN stack /\ stack'[n] = stack[n - 1]
    BY <1>1, <1>2
  <2>3. \A k \in DOMAIN stack : stack[k] # i
    BY DEF OnStack
  <2>4. m # 1 /\ n # 1 => m - 1 = n - 1
    BY <1>6, <2>1, <2>2 DEF Linked
  <2> QED BY <1>1, <1>2, <1>6, <2>1, <2>2, <2>3, <2>4
<1> QED BY <1>2, <1>3, <1>4, <1>5, <1>6 DEF Linked

\* The links after the item at the top has been taken away.
LEMMA LinkedPop ==
  ASSUME TypeOK, Linked, NEW i \in Items, top = i,
         top' = next[i], next' = next, stack' = Below(stack)
  PROVE  /\ Linked' /\ stack' \in Seq(Items)
         /\ stack # <<>> /\ Head(stack) = i /\ OnStack(i)
         /\ \A j : OnStack(j)' <=> j # i /\ OnStack(j)
<1>1. stack # <<>> /\ stack \in Seq(Items) /\ stack[1] = i
  BY StackAssumption DEF Linked, TypeOK
<1>2. /\ stack' \in Seq(Items) /\ Len(stack) \in Nat /\ Len(stack) > 0
      /\ Len(stack') = Len(stack) - 1
      /\ \A n \in 1..(Len(stack) - 1) : stack'[n] = stack[n + 1]
      /\ DOMAIN stack = 1..Len(stack) /\ DOMAIN stack' = 1..(Len(stack) - 1)
      /\ Head(stack) = i
  BY <1>1, PopFrom DEF Below
<1>3. 1 \in DOMAIN stack /\ OnStack(i)
  BY <1>1, <1>2 DEF OnStack
<1>4. \A n \in DOMAIN stack : n # 1 => n - 1 \in DOMAIN stack' /\ stack[n] = stack'[n - 1]
  BY <1>2
<1>5. \A n \in DOMAIN stack' : n + 1 \in DOMAIN stack /\ n + 1 # 1 /\ stack'[n] = stack[n + 1]
  BY <1>2
<1>6. ASSUME NEW j PROVE OnStack(j)' <=> j # i /\ OnStack(j)
  <2>1. OnStack(j)' => j # i /\ OnStack(j)
    BY <1>1, <1>3, <1>5 DEF OnStack, Linked
  <2>2. j # i /\ OnStack(j) => OnStack(j)'
    BY <1>1, <1>4 DEF OnStack
  <2> QED BY <2>1, <2>2
<1>7. next[i] = IF 1 = Len(stack) THEN None ELSE stack[2]
  <2>1. next[stack[1]] = IF 1 = Len(stack) THEN None ELSE stack[1 + 1]
    BY <1>3 DEF Linked
  <2> QED BY <1>1, <2>1
<1>8. top' = IF stack' = <<>> THEN None ELSE stack'[1]
  <2>1. stack' = <<>> <=> Len(stack) = 1
    BY <1>2, EmptySeq
  <2> QED BY <1>2, <1>7, <2>1
<1>9. ASSUME NEW n \in DOMAIN stack'
      PROVE  next'[stack'[n]] = IF n = Len(stack') THEN None ELSE stack'[n + 1]
  <2>1. next[stack[n + 1]] = IF n + 1 = Len(stack) THEN None ELSE stack[n + 2]
    BY <1>2, <1>5 DEF Linked
  <2>2. n # Len(stack') => n + 1 \in DOMAIN stack'
    BY <1>2
  <2> QED BY <1>2, <1>5, <2>1, <2>2
<1>10. ASSUME NEW m \in DOMAIN stack', NEW n \in DOMAIN stack', stack'[m] = stack'[n]
       PROVE  m = n
  <2>1. m + 1 = n + 1
    BY <1>5, <1>10 DEF Linked
  <2> QED BY <1>2, <2>1
<1> QED BY <1>1, <1>2, <1>3, <1>6, <1>8, <1>9, <1>10 DEF Linked

\* The links of items that are not on the stack do not matter.
LEMMA LinkedElse ==
  ASSUME TypeOK, Linked, NEW i \in Items, ~OnStack(i), NEW x,
         next' = [next EXCEPT ![i] = x], UNCHANGED <<top, stack>>
  PROVE  Linked' /\ \A j : OnStack(j)' <=> OnStack(j)
BY DEF Linked, OnStack, TypeOK

\* Steps that change neither the top nor a link.
LEMMA LinkedSame ==
  ASSUME Linked, UNCHANGED <<top, next, stack>>
  PROVE  Linked' /\ \A j : OnStack(j)' <=> OnStack(j)
BY DEF Linked, OnStack

-----------------------------------------------------------------------------
(* What each step does to the stack.                                       *)

\* The steps that change neither top nor what is on the stack.
Rests(t) ==
  \/ CallPop(t) \/ Return(t) \/ CasFails(t) \/ ReadTop(t) \/ ReadCounter(t)
  \/ ReadNext(t) \/ SwapFails(t) \/ Lock(t) \/ PopLook(t) \/ Unlock(t)
  \/ \E i \in Items : CallPush(t, i)
Links(t)  == Link(t) \/ PushLink(t)
Pushes(t) == Cas(t) \/ PushStore(t)
Pops(t)   == Swap(t) \/ PopTake(t)

\* A step changes nothing of the stack, or only the link of an item that is not on
\* it, or it pushes or pops.
LEMMA StepKinds == Next => \E t \in Threads : Rests(t) \/ Links(t) \/ Pushes(t) \/ Pops(t)
BY DEF Next, Calls, Step, Rests, Links, Pushes, Pops

\* A successful swap of push, or the store under the lock, puts an item that was
\* not on the stack on top of it.
LEMMA PushStep ==
  ASSUME Sound, NEW t \in Threads, Pushes(t)
  PROVE  /\ Linked' /\ stack' \in Seq(Items)
         /\ item[t] \in Items /\ ~OnStack(item[t])
         /\ \A j : OnStack(j)' <=> j = item[t] \/ OnStack(j)
<1>1. item[t] \in Items
  BY DEF Sound, TypeOK, ItemInv, PushPlaces, Pushes, Cas, PushStore, Go
<1>2. ~OnStack(item[t])
  BY <1>1, StackAssumption DEF Sound, OwnInv, Has, PopPlaces, Pushes, Cas, PushStore, Go
<1>3. next[item[t]] = top
  BY DEF Sound, LockInv, Pushes, Cas, PushStore, Go
<1>4. top' = item[t] /\ next' = next /\ stack' = <<item[t]>> \o stack
  BY DEF Pushes, Cas, PushStore
<1> QED BY <1>1, <1>2, <1>3, <1>4, LinkedPush DEF Sound

\* A successful swap of pop, or the one under the lock, takes the item at the top:
\* what it has read from the link is what is below.
LEMMA PopStep ==
  ASSUME Sound, ~misled', NEW t \in Threads, Pops(t)
  PROVE  /\ Linked' /\ stack' \in Seq(Items)
         /\ stack # <<>> /\ Head(stack) = item[t]
         /\ item[t] \in Items /\ OnStack(item[t])
         /\ \A j : OnStack(j)' <=> j # item[t] /\ OnStack(j)
<1>1. item[t] \in Items
  BY DEF Sound, TypeOK, ItemInv, Pops, Swap, PopTake, Go
<1>2. top = item[t]
  BY DEF Sound, LockInv, Pops, Swap, PopTake, Go, Untouched
<1>3. OnStack(item[t])
  <2>1. stack # <<>> /\ stack[1] = item[t]
    BY <1>1, <1>2, StackAssumption DEF Sound, Linked
  <2>2. 1 \in DOMAIN stack
    BY <2>1, PopFrom DEF Sound, TypeOK
  <2> QED BY <2>1, <2>2 DEF OnStack
<1>4. top' = next[item[t]]
  <2>1. CASE Swap(t)
    BY <1>3, <2>1 DEF Sound, SeenInv, Swap, Go, Untouched
  <2>2. CASE PopTake(t)
    BY <2>2 DEF PopTake
  <2> QED BY <2>1, <2>2 DEF Pops
<1>5. next' = next /\ stack' = Below(stack)
  BY DEF Pops, Swap, PopTake
<1> QED BY <1>1, <1>2, <1>3, <1>4, <1>5, LinkedPop DEF Sound

\* The link that push writes belongs to an item that is not on the stack.
LEMMA LinkStep ==
  ASSUME Sound, NEW t \in Threads, Links(t)
  PROVE  /\ Linked' /\ stack' = stack
         /\ item[t] \in Items /\ ~OnStack(item[t])
         /\ \A j : OnStack(j)' <=> OnStack(j)
<1>1. item[t] \in Items
  BY DEF Sound, TypeOK, ItemInv, PushPlaces, Links, Link, PushLink, Go
<1>2. ~OnStack(item[t])
  BY <1>1, StackAssumption DEF Sound, OwnInv, Has, PopPlaces, Links, Link, PushLink, Go
<1>3. next' = [next EXCEPT ![item[t]] = top] /\ UNCHANGED <<top, stack>>
  BY DEF Links, Link, PushLink
<1> QED BY <1>1, <1>2, <1>3, LinkedElse DEF Sound

\* All other steps leave top and links alone.
LEMMA RestStep ==
  ASSUME Sound, NEW t \in Threads, Rests(t)
  PROVE  /\ UNCHANGED <<top, next, stack>> /\ Linked'
         /\ \A j : OnStack(j)' <=> OnStack(j)
<1>1. UNCHANGED <<top, next, stack>>
  BY DEF Rests, CallPop, Return, CasFails, ReadTop, ReadCounter, ReadNext, SwapFails,
         Lock, PopLook, Unlock, CallPush
<1> QED BY <1>1, LinkedSame DEF Sound

-----------------------------------------------------------------------------
(* What each step does to the rest of the invariant.                       *)

\* Each step keeps the types.
LEMMA TypeStep ==
  ASSUME TypeOK, ItemInv, NEW t \in Threads, Rests(t) \/ Links(t) \/ Pushes(t) \/ Pops(t)
  PROVE  TypeOK'
<1>0. pc[t] \in PushPlaces \cup {"swap", "take"} => item[t] \in Items
  BY DEF TypeOK, ItemInv
<1>1. TypeOK
  OBVIOUS
<1>2. stack' \in Seq(Items)
  <2>1. stack \in Seq(Items)
    BY DEF TypeOK
  <2>2. CASE Rests(t) \/ Links(t)
    BY <2>1, <2>2 DEF Rests, CallPop, Return, CasFails, ReadTop, ReadCounter, ReadNext,
       SwapFails, Lock, PopLook, Unlock, CallPush, Links, Link, PushLink
  <2>3. CASE Pushes(t)
    <3>1. item[t] \in Items /\ stack' = <<item[t]>> \o stack
      BY <1>0, <2>3 DEF Pushes, Cas, PushStore, Go, PushPlaces
    <3> QED BY <2>1, <3>1, PushOnto
  <2>4. CASE Pops(t)
    BY <2>1, <2>4, PopFrom DEF Pops, Swap, PopTake, Below
  <2> QED BY <2>2, <2>3, <2>4
<1>3. CASE Rests(t)
  <2>1. CASE CallPop(t)
    BY <1>1, <1>2, <2>1 DEF TypeOK, Go, CallPop
  <2>2. CASE Return(t)
    BY <1>1, <1>2, <2>2 DEF TypeOK, Go, Return
  <2>3. CASE CasFails(t)
    BY <1>1, <1>2, <2>3 DEF TypeOK, Go, CasFails
  <2>4. CASE ReadTop(t)
    BY <1>1, <1>2, <2>4 DEF TypeOK, Go, ReadTop
  <2>5. CASE ReadCounter(t)
    BY <1>1, <1>2, <2>5 DEF TypeOK, Go, ReadCounter
  <2>6. CASE ReadNext(t)
    BY <1>1, <1>2, <2>6 DEF TypeOK, Go, ReadNext
  <2>7. CASE SwapFails(t)
    BY <1>1, <1>2, <2>7 DEF TypeOK, Go, SwapFails
  <2>8. CASE Lock(t)
    BY <1>1, <1>2, <2>8 DEF TypeOK, Go, Lock
  <2>9. CASE PopLook(t)
    BY <1>1, <1>2, <2>9 DEF TypeOK, Go, PopLook
  <2>10. CASE Unlock(t)
    BY <1>1, <1>2, <2>10 DEF TypeOK, Go, Unlock
  <2>11. ASSUME NEW i \in Items, CallPush(t, i) PROVE TypeOK'
    BY <1>1, <1>2, <2>11 DEF TypeOK, Go, CallPush
  <2> QED BY <1>3, <2>1, <2>2, <2>3, <2>4, <2>5, <2>6, <2>7, <2>8, <2>9, <2>10, <2>11 DEF Rests
<1>4. CASE Links(t)
  <2>1. CASE Link(t)
    BY <1>0, <1>1, <1>2, <1>4, <2>1 DEF TypeOK, Go, PushPlaces, Link
  <2>2. CASE PushLink(t)
    BY <1>0, <1>1, <1>2, <1>4, <2>2 DEF TypeOK, Go, PushPlaces, PushLink
  <2> QED BY <1>4, <2>1, <2>2 DEF Links
<1>5. CASE Pushes(t)
  <2>1. CASE Cas(t)
    BY <1>0, <1>1, <1>2, <1>5, <2>1 DEF TypeOK, Go, PushPlaces, Cas
  <2>2. CASE PushStore(t)
    BY <1>0, <1>1, <1>2, <1>5, <2>2 DEF TypeOK, Go, PushPlaces, PushStore
  <2> QED BY <1>5, <2>1, <2>2 DEF Pushes
<1>6. CASE Pops(t)
  <2>1. CASE Swap(t)
    BY <1>0, <1>1, <1>2, <1>6, <2>1 DEF TypeOK, Go, PushPlaces, Swap
  <2>2. CASE PopTake(t)
    BY <1>0, <1>1, <1>2, <1>6, <2>2 DEF TypeOK, Go, PushPlaces, PopTake
  <2> QED BY <1>6, <2>1, <2>2 DEF Pops
<1> QED BY <1>3, <1>4, <1>5, <1>6

\* Each step keeps ItemInv.
LEMMA ItemStep ==
  ASSUME TypeOK, ItemInv, NEW t \in Threads, Rests(t) \/ Links(t) \/ Pushes(t) \/ Pops(t)
  PROVE  ItemInv'
<1>1. TypeOK /\ ItemInv
  OBVIOUS
<1>2. CASE Rests(t)
  <2>1. CASE CallPop(t)
    BY <1>1, <2>1 DEF TypeOK, ItemInv, PushPlaces, Go, CallPop
  <2>2. CASE Return(t)
    BY <1>1, <2>2 DEF TypeOK, ItemInv, PushPlaces, Go, Return
  <2>3. CASE CasFails(t)
    BY <1>1, <2>3 DEF TypeOK, ItemInv, PushPlaces, Go, CasFails
  <2>4. CASE ReadTop(t)
    BY <1>1, <2>4 DEF TypeOK, ItemInv, PushPlaces, Go, ReadTop
  <2>5. CASE ReadCounter(t)
    BY <1>1, <2>5 DEF TypeOK, ItemInv, PushPlaces, Go, ReadCounter
  <2>6. CASE ReadNext(t)
    BY <1>1, <2>6 DEF TypeOK, ItemInv, PushPlaces, Go, ReadNext
  <2>7. CASE SwapFails(t)
    BY <1>1, <2>7 DEF TypeOK, ItemInv, PushPlaces, Go, SwapFails
  <2>8. CASE Lock(t)
    BY <1>1, <2>8 DEF TypeOK, ItemInv, PushPlaces, Go, Lock
  <2>9. CASE PopLook(t)
    BY <1>1, <2>9 DEF TypeOK, ItemInv, PushPlaces, Go, PopLook
  <2>10. CASE Unlock(t)
    BY <1>1, <2>10 DEF TypeOK, ItemInv, PushPlaces, Go, Unlock
  <2>11. ASSUME NEW i \in Items, CallPush(t, i) PROVE ItemInv'
    BY <1>1, <2>11, StackAssumption DEF TypeOK, ItemInv, PushPlaces, Go, CallPush
  <2> QED BY <1>2, <2>1, <2>2, <2>3, <2>4, <2>5, <2>6, <2>7, <2>8, <2>9, <2>10, <2>11, StackAssumption DEF Rests
<1>3. CASE Links(t)
  BY <1>1, <1>3 DEF TypeOK, ItemInv, PushPlaces, Go, Links, Link, PushLink
<1>4. CASE Pushes(t)
  <2>1. CASE Cas(t)
    BY <1>1, <2>1 DEF TypeOK, ItemInv, PushPlaces, Go, Cas
  <2>2. CASE PushStore(t)
    BY <1>1, <2>2 DEF TypeOK, ItemInv, PushPlaces, Go, PushStore
  <2> QED BY <1>4, <2>1, <2>2 DEF Pushes
<1>5. CASE Pops(t)
  BY <1>1, <1>5 DEF TypeOK, ItemInv, PushPlaces, Go, Pops, Swap, PopTake
<1> QED BY <1>2, <1>3, <1>4, <1>5

\* No step takes a thread to the other variant of the algorithm.
LEMMA PathStep ==
  ASSUME Sound, NEW t \in Threads, Rests(t) \/ Links(t) \/ Pushes(t) \/ Pops(t)
  PROVE  PathInv'
<1>1. TypeOK /\ PathInv
  BY DEF Sound
<1>2. lockfree' = lockfree
  BY DEF Rests, CallPop, Return, CasFails, ReadTop, ReadCounter, ReadNext, SwapFails, Lock,
         PopLook, Unlock, CallPush, Links, Link, PushLink, Pushes, Cas, PushStore, Pops,
         Swap, PopTake
<1>3. CASE Rests(t)
  BY <1>1, <1>2, <1>3 DEF TypeOK, PathInv, FreePlaces, LockPlaces, Go, Rests, CallPop,
     Return, CasFails, ReadTop, ReadCounter, ReadNext, SwapFails, Lock, PopLook, Unlock,
     CallPush
<1>4. CASE Links(t)
  BY <1>1, <1>2, <1>4 DEF TypeOK, PathInv, FreePlaces, LockPlaces, Go, Links, Link, PushLink
<1>5. CASE Pushes(t)
  BY <1>1, <1>2, <1>5 DEF TypeOK, PathInv, FreePlaces, LockPlaces, Go, Pushes, Cas, PushStore
<1>6. CASE Pops(t)
  BY <1>1, <1>2, <1>6 DEF TypeOK, PathInv, FreePlaces, LockPlaces, Go, Pops, Swap, PopTake
<1> QED BY <1>3, <1>4, <1>5, <1>6

\* Each step keeps the spinlock of the variant without compare-and-swap.
LEMMA LockStep ==
  ASSUME Sound, NEW t \in Threads, Rests(t) \/ Links(t) \/ Pushes(t) \/ Pops(t)
  PROVE  LockInv'
<1>1. TypeOK /\ PathInv /\ LockInv /\ ItemInv
  BY DEF Sound
<1>2. CASE lockfree
  <2>1. PathInv' /\ lockfree'
    BY <1>2, PathStep DEF Rests, CallPop, Return, CasFails, ReadTop, ReadCounter, ReadNext,
       SwapFails, Lock, PopLook, Unlock, CallPush, Links, Link, PushLink, Pushes, Cas,
       PushStore, Pops, Swap, PopTake
  <2> QED BY <2>1 DEF PathInv, LockInv, LockPlaces
<1>3. CASE ~lockfree /\ Rests(t)
  BY <1>1, <1>3 DEF TypeOK, PathInv, LockInv, FreePlaces, LockPlaces, Go, Rests,
     CallPop, Return, CasFails, ReadTop, ReadCounter, ReadNext, SwapFails, Lock, PopLook,
     Unlock, CallPush
<1>4. CASE ~lockfree /\ Links(t)
  <2>1. PushLink(t) /\ item[t] \in Items
    BY <1>4, LinkStep DEF Links, Link
  <2>2. next'[item[t]] = top' /\ counter' = counter /\ item' = item
    BY <1>1, <2>1 DEF TypeOK, PushLink
  <2>3. pc[t] = "link" /\ pc'[t] = "store" /\ \A w \in Threads \ {t} : pc'[w] = pc[w]
    BY <1>1, <2>1 DEF TypeOK, PushLink, Go
  <2> QED BY <1>1, <2>2, <2>3 DEF LockInv, LockPlaces
<1>5. CASE ~lockfree /\ Pushes(t)
  <2>1. PushStore(t)
    BY <1>1, <1>5 DEF PathInv, FreePlaces, Go, Pushes, Cas
  <2>2. pc[t] = "store" /\ pc'[t] = "unlock" /\ \A w \in Threads \ {t} : pc'[w] = pc[w]
    BY <1>1, <2>1 DEF TypeOK, PushStore, Go
  <2>3. counter' = counter /\ next' = next /\ \A w \in Threads \ {t} : item'[w] = item[w]
    BY <1>1, <2>1 DEF TypeOK, PushStore
  <2> QED BY <1>1, <2>2, <2>3 DEF LockInv, LockPlaces
<1>6. CASE ~lockfree /\ Pops(t)
  BY <1>1, <1>6 DEF TypeOK, PathInv, LockInv, FreePlaces, LockPlaces, Go, Pops, Swap, PopTake
<1> QED BY <1>2, <1>3, <1>4, <1>5, <1>6

\* The item at the top is on the stack.
LEMMA TopIsOn ==
  ASSUME TypeOK, Linked, top # None
  PROVE  OnStack(top)
<1>1. stack # <<>> /\ stack \in Seq(Items) /\ stack[1] = top
  BY DEF Linked, TypeOK
<1>2. 1 \in DOMAIN stack
  BY <1>1, PopFrom
<1> QED BY <1>1, <1>2 DEF OnStack

\* Each step keeps the ownership of items that are not on the stack.
LEMMA OwnStep ==
  ASSUME Sound, ~misled', NEW t \in Threads, Rests(t) \/ Links(t) \/ Pushes(t) \/ Pops(t)
  PROVE  OwnInv'
<1>1. TypeOK /\ ItemInv /\ OwnInv /\ PathInv /\ LockInv
  BY DEF Sound
<1>2. top # None => OnStack(top)
  BY TopIsOn DEF Sound
<1>3. CASE Rests(t)
  <2>0. \A j : OnStack(j)' <=> OnStack(j)
    BY <1>3, RestStep
  <2>1. CASE CallPop(t)
    BY <1>1, <1>2, <2>0, <2>1 DEF TypeOK, OwnInv, ItemInv, PathInv, LockInv, Has,
       PushPlaces, PopPlaces, FreePlaces, LockPlaces, Go, CallPop
  <2>2. CASE Return(t)
    BY <1>1, <1>2, <2>0, <2>2 DEF TypeOK, OwnInv, ItemInv, PathInv, LockInv, Has,
       PushPlaces, PopPlaces, FreePlaces, LockPlaces, Go, Return
  <2>3. CASE CasFails(t)
    BY <1>1, <1>2, <2>0, <2>3 DEF TypeOK, OwnInv, ItemInv, PathInv, LockInv, Has,
       PushPlaces, PopPlaces, FreePlaces, LockPlaces, Go, CasFails
  <2>4. CASE ReadTop(t)
    BY <1>1, <1>2, <2>0, <2>4 DEF TypeOK, OwnInv, ItemInv, PathInv, LockInv, Has,
       PushPlaces, PopPlaces, FreePlaces, LockPlaces, Go, ReadTop
  <2>5. CASE ReadCounter(t)
    BY <1>1, <1>2, <2>0, <2>5 DEF TypeOK, OwnInv, ItemInv, PathInv, LockInv, Has,
       PushPlaces, PopPlaces, FreePlaces, LockPlaces, Go, ReadCounter
  <2>6. CASE ReadNext(t)
    BY <1>1, <1>2, <2>0, <2>6 DEF TypeOK, OwnInv, ItemInv, PathInv, LockInv, Has,
       PushPlaces, PopPlaces, FreePlaces, LockPlaces, Go, ReadNext
  <2>7. CASE SwapFails(t)
    BY <1>1, <1>2, <2>0, <2>7 DEF TypeOK, OwnInv, ItemInv, PathInv, LockInv, Has,
       PushPlaces, PopPlaces, FreePlaces, LockPlaces, Go, SwapFails
  <2>8. CASE Lock(t)
    BY <1>1, <1>2, <2>0, <2>8 DEF TypeOK, OwnInv, ItemInv, PathInv, LockInv, Has,
       PushPlaces, PopPlaces, FreePlaces, LockPlaces, Go, Lock
  <2>9. CASE PopLook(t)
    BY <1>1, <1>2, <2>0, <2>9 DEF TypeOK, OwnInv, ItemInv, PathInv, LockInv, Has,
       PushPlaces, PopPlaces, FreePlaces, LockPlaces, Go, PopLook
  <2>10. CASE Unlock(t)
    BY <1>1, <1>2, <2>0, <2>10 DEF TypeOK, OwnInv, ItemInv, PathInv, LockInv, Has,
       PushPlaces, PopPlaces, FreePlaces, LockPlaces, Go, Unlock
  <2>11. ASSUME NEW i \in Items, CallPush(t, i) PROVE OwnInv'
    BY <1>1, <1>2, <2>0, <2>11 DEF TypeOK, OwnInv, ItemInv, PathInv, LockInv, Has,
       PushPlaces, PopPlaces, FreePlaces, LockPlaces, Go, CallPush, Popping
  <2> QED BY <1>3, <2>1, <2>2, <2>3, <2>4, <2>5, <2>6, <2>7, <2>8, <2>9, <2>10, <2>11 DEF Rests
<1>4. CASE Links(t)
  <2>1. CASE Link(t)
    BY <1>1, <1>2, <1>4, LinkStep, <2>1 DEF TypeOK, OwnInv, ItemInv, PathInv, LockInv, Has,
       PushPlaces, PopPlaces, FreePlaces, LockPlaces, Go, Link
  <2>2. CASE PushLink(t)
    BY <1>1, <1>2, <1>4, LinkStep, <2>2 DEF TypeOK, OwnInv, ItemInv, PathInv, LockInv, Has,
       PushPlaces, PopPlaces, FreePlaces, LockPlaces, Go, PushLink
  <2> QED BY <1>4, <2>1, <2>2 DEF Links
<1>5. CASE Pushes(t)
  <2>1. CASE Cas(t)
    <3>1. Has(t) /\ item' = [item EXCEPT ![t] = None] /\ pc' = [pc EXCEPT ![t] = "done"]
      BY <1>1, <2>1 DEF ItemInv, PushPlaces, PopPlaces, Has, Go, Cas
    <3>2. ~Has(t)'
      BY <1>1, <3>1 DEF TypeOK, Has
    <3>3. ASSUME NEW u \in Threads, Has(u)'
          PROVE  /\ ~OnStack(item[u])'
                 /\ \A w \in Threads : item'[w] = item'[u] => w = u \/ pc'[w] \in PopPlaces
      <4>1. u # t /\ item'[u] = item[u] /\ pc'[u] = pc[u] /\ Has(u)
        BY <1>1, <3>1, <3>2, <3>3 DEF TypeOK, Has
      <4>2. item[u] # item[t]
        BY <1>1, <3>1, <4>1 DEF OwnInv, Has
      <4>3. ~OnStack(item[u])'
        BY <1>1, <1>5, <4>1, <4>2, PushStep DEF OwnInv
      <4>4. \A w \in Threads : item'[w] = item'[u] => w # t
        BY <1>1, <3>1, <4>1 DEF TypeOK, Has
      <4>5. \A w \in Threads \ {t} : item'[w] = item[w] /\ pc'[w] = pc[w]
        BY <1>1, <3>1 DEF TypeOK
      <4> QED BY <1>1, <4>1, <4>3, <4>4, <4>5 DEF OwnInv
    <3> QED BY <3>3 DEF OwnInv
  <2>2. CASE PushStore(t)
    BY <1>1, <1>2, <1>5, PushStep, <2>2 DEF TypeOK, OwnInv, ItemInv, PathInv, LockInv, Has,
       PushPlaces, PopPlaces, FreePlaces, LockPlaces, Go, PushStore
  <2> QED BY <1>5, <2>1, <2>2 DEF Pushes
<1>6. CASE Pops(t)
  <2>1. CASE Swap(t)
    BY <1>1, <1>2, <1>6, PopStep, <2>1 DEF TypeOK, OwnInv, ItemInv, PathInv, LockInv, Has,
       PushPlaces, PopPlaces, FreePlaces, LockPlaces, Go, Swap, Untouched
  <2>2. CASE PopTake(t)
    BY <1>1, <1>2, <1>6, PopStep, <2>2 DEF TypeOK, OwnInv, ItemInv, PathInv, LockInv, Has,
       PushPlaces, PopPlaces, FreePlaces, LockPlaces, Go, PopTake
  <2> QED BY <1>6, <2>1, <2>2 DEF Pops
<1> QED BY <1>3, <1>4, <1>5, <1>6

\* Each step keeps SeenInv: a pop raises the counter with which it takes an item.
LEMMA SeenStep ==
  ASSUME Sound, ~misled', NEW t \in Threads, Rests(t) \/ Links(t) \/ Pushes(t) \/ Pops(t)
  PROVE  SeenInv'
<1>1. TypeOK /\ ItemInv /\ OwnInv /\ PathInv /\ SeenInv
  BY DEF Sound
<1>2. top # None => OnStack(top)
  BY TopIsOn DEF Sound
<1>3. CASE Rests(t)
  <2>0. \A j : OnStack(j)' <=> OnStack(j)
    BY <1>3, RestStep
  <2>1. CASE CallPop(t)
    BY <1>1, <1>2, <2>0, <2>1 DEF TypeOK, ItemInv, OwnInv, PathInv, SeenInv, Has,
       PushPlaces, PopPlaces, FreePlaces, LockPlaces, Go, CallPop
  <2>2. CASE Return(t)
    BY <1>1, <1>2, <2>0, <2>2 DEF TypeOK, ItemInv, OwnInv, PathInv, SeenInv, Has,
       PushPlaces, PopPlaces, FreePlaces, LockPlaces, Go, Return
  <2>3. CASE CasFails(t)
    BY <1>1, <1>2, <2>0, <2>3 DEF TypeOK, ItemInv, OwnInv, PathInv, SeenInv, Has,
       PushPlaces, PopPlaces, FreePlaces, LockPlaces, Go, CasFails
  <2>4. CASE ReadTop(t)
    BY <1>1, <1>2, <2>0, <2>4 DEF TypeOK, ItemInv, OwnInv, PathInv, SeenInv, Has,
       PushPlaces, PopPlaces, FreePlaces, LockPlaces, Go, ReadTop
  <2>5. CASE ReadCounter(t)
    BY <1>1, <1>2, <2>0, <2>5 DEF TypeOK, ItemInv, OwnInv, PathInv, SeenInv, Has,
       PushPlaces, PopPlaces, FreePlaces, LockPlaces, Go, ReadCounter
  <2>6. CASE ReadNext(t)
    BY <1>1, <1>2, <2>0, <2>6 DEF TypeOK, ItemInv, OwnInv, PathInv, SeenInv, Has,
       PushPlaces, PopPlaces, FreePlaces, LockPlaces, Go, ReadNext, IsLink
  <2>7. CASE SwapFails(t)
    BY <1>1, <1>2, <2>0, <2>7 DEF TypeOK, ItemInv, OwnInv, PathInv, SeenInv, Has,
       PushPlaces, PopPlaces, FreePlaces, LockPlaces, Go, SwapFails
  <2>8. CASE Lock(t)
    BY <1>1, <1>2, <2>0, <2>8 DEF TypeOK, ItemInv, OwnInv, PathInv, SeenInv, Has,
       PushPlaces, PopPlaces, FreePlaces, LockPlaces, Go, Lock
  <2>9. CASE PopLook(t)
    BY <1>1, <1>2, <2>0, <2>9 DEF TypeOK, ItemInv, OwnInv, PathInv, SeenInv, Has,
       PushPlaces, PopPlaces, FreePlaces, LockPlaces, Go, PopLook
  <2>10. CASE Unlock(t)
    BY <1>1, <1>2, <2>0, <2>10 DEF TypeOK, ItemInv, OwnInv, PathInv, SeenInv, Has,
       PushPlaces, PopPlaces, FreePlaces, LockPlaces, Go, Unlock
  <2>11. ASSUME NEW i \in Items, CallPush(t, i) PROVE SeenInv'
    BY <1>1, <1>2, <2>0, <2>11 DEF TypeOK, ItemInv, OwnInv, PathInv, SeenInv, Has,
       PushPlaces, PopPlaces, FreePlaces, LockPlaces, Go, CallPush
  <2> QED BY <1>3, <2>1, <2>2, <2>3, <2>4, <2>5, <2>6, <2>7, <2>8, <2>9, <2>10, <2>11 DEF Rests
<1>4. CASE Links(t)
  <2>1. CASE Link(t)
    BY <1>1, <1>2, <1>4, LinkStep, <2>1 DEF TypeOK, ItemInv, OwnInv, PathInv, SeenInv, Has,
       PushPlaces, PopPlaces, FreePlaces, LockPlaces, Go, Link
  <2>2. CASE PushLink(t)
    BY <1>1, <1>2, <1>4, LinkStep, <2>2 DEF TypeOK, ItemInv, OwnInv, PathInv, SeenInv, Has,
       PushPlaces, PopPlaces, FreePlaces, LockPlaces, Go, PushLink
  <2> QED BY <1>4, <2>1, <2>2 DEF Links
<1>5. CASE Pushes(t)
  <2>1. CASE Cas(t)
    BY <1>1, <1>2, <1>5, PushStep, <2>1 DEF TypeOK, ItemInv, OwnInv, PathInv, SeenInv, Has,
       PushPlaces, PopPlaces, FreePlaces, LockPlaces, Go, Cas
  <2>2. CASE PushStore(t)
    BY <1>1, <1>2, <1>5, PushStep, <2>2 DEF TypeOK, ItemInv, OwnInv, PathInv, SeenInv, Has,
       PushPlaces, PopPlaces, FreePlaces, LockPlaces, Go, PushStore
  <2> QED BY <1>5, <2>1, <2>2 DEF Pushes
<1>6. CASE Pops(t)
  <2>1. CASE Swap(t)
    BY <1>1, <1>2, <1>6, PopStep, <2>1 DEF TypeOK, ItemInv, OwnInv, PathInv, SeenInv, Has,
       PushPlaces, PopPlaces, FreePlaces, LockPlaces, Go, Swap
  <2>2. CASE PopTake(t)
    BY <1>1, <1>2, <1>6, PopStep, <2>2 DEF TypeOK, ItemInv, OwnInv, PathInv, SeenInv, Has,
       PushPlaces, PopPlaces, FreePlaces, LockPlaces, Go, PopTake
  <2> QED BY <1>6, <2>1, <2>2 DEF Pops
<1> QED BY <1>3, <1>4, <1>5, <1>6

-----------------------------------------------------------------------------
\* The invariant holds for an empty stack.
LEMMA InitIInv == Init => IInv
<1> SUFFICES ASSUME Init PROVE IInv
  OBVIOUS
<1>1. <<>> \in Seq(Items) /\ DOMAIN <<>> = {} /\ Len(<<>>) = 0
  BY EmptySeq
<1>2. TypeOK
  BY <1>1 DEF Init, TypeOK
<1>3. Linked
  BY <1>1 DEF Init, Linked
<1>4. ItemInv /\ OwnInv /\ PathInv
  BY DEF Init, ItemInv, OwnInv, PathInv, Has, PushPlaces, FreePlaces, LockPlaces
<1>5. LockInv /\ SeenInv
  BY DEF Init, LockInv, SeenInv, LockPlaces
<1> QED BY <1>2, <1>3, <1>4, <1>5 DEF IInv, Sound

\* Once a pop was misled, this is remembered.
LEMMA MisledStays == TypeOK /\ [Next]_vars /\ misled => misled'
BY DEF TypeOK, Next, vars, Calls, Step, CallPush, CallPop, Return, Link, Cas, CasFails,
       ReadTop, ReadCounter, ReadNext, Swap, SwapFails, Lock, PushLink, PushStore, PopLook,
       PopTake, Unlock

\* Every step keeps the invariant.
LEMMA StepKeepsIInv == IInv /\ [Next]_vars => IInv'
<1> SUFFICES ASSUME IInv, [Next]_vars PROVE IInv'
  OBVIOUS
<1>1. TypeOK /\ ItemInv /\ (~misled' => Sound)
  BY MisledStays DEF IInv
<1>2. ASSUME NEW t \in Threads, Rests(t) \/ Links(t) \/ Pushes(t) \/ Pops(t) PROVE IInv'
  <2>1. TypeOK' /\ ItemInv'
    BY <1>1, <1>2, TypeStep, ItemStep
  <2>2. ASSUME ~misled' PROVE Sound'
    <3>1. Linked'
      BY <1>1, <1>2, <2>2, RestStep, LinkStep, PushStep, PopStep
    <3> QED BY <1>1, <1>2, <2>1, <2>2, <3>1, PathStep, LockStep, OwnStep, SeenStep DEF Sound
  <2> QED BY <2>1, <2>2 DEF IInv
<1>3. CASE UNCHANGED vars
  BY <1>3 DEF vars, IInv, Sound, TypeOK, Linked, ItemInv, OwnInv, PathInv, LockInv, SeenInv,
     Has, OnStack
<1> QED BY <1>2, <1>3, StepKinds

\* The invariant of stacks.c holds.
THEOREM AlwaysIInv == Spec => []IInv
<1>1. IInv /\ [Next]_vars => IInv'
  BY StepKeepsIInv
<1> QED BY <1>1, InitIInv, PTL DEF Spec

\* Every variable of a stack and of the threads that use it stays in its
\* domain (struct _pmath_stack_t and the variables of stacks.c).
THEOREM AlwaysTypeOK == Spec => []TypeOK
<1>1. IInv => TypeOK
  BY DEF IInv
<1> QED BY <1>1, AlwaysIInv, PTL

\* The links lead through the items that were pushed and not popped, whatever
\* threads do to the links of items they have popped and whenever they push them
\* again, until a pop takes its item by a link that it read while the item was
\* gone (lockfree_pop).
THEOREM AlwaysLinked == Spec => [](~misled => Linked)
<1>1. IInv => (~misled => Linked)
  BY DEF IInv, Sound
<1> QED BY <1>1, AlwaysIInv, PTL

-----------------------------------------------------------------------------
(* Each step is one of the abstract stack, or none.                        *)

\* A step of one thread changes the operation of that thread only.
LEMMA OnlyOwnOp ==
  ASSUME NEW t \in Threads, NEW v, StackOp(t)' = v,
         \A w \in Threads \ {t} : StackOp(w)' = StackOp(w)
  PROVE  StackOps' = [StackOps EXCEPT ![t] = v]
BY DEF StackOps

\* The threads that do not move have the same operation.
LEMMA OthersOp ==
  ASSUME NEW t \in Threads,
         \A w \in Threads \ {t} : pc'[w] = pc[w] /\ item'[w] = item[w]
  PROVE  \A w \in Threads \ {t} : StackOp(w)' = StackOp(w)
BY DEF StackOp

\* A step that changes no operation and not the stack is not seen.
LEMMA NoOp ==
  ASSUME \A w \in Threads : StackOp(w)' = StackOp(w), stack' = stack
  PROVE  UNCHANGED Atomic!astack
BY DEF StackOps, Atomic!astack

\* Pushing: what is on top now was the item of the operation.
LEMMA PushImplements ==
  ASSUME Sound, NEW t \in Threads, Pushes(t)
  PROVE  Atomic!Push(t)
<1>1. TypeOK
  BY DEF Sound
<1>2. \A w \in Threads \ {t} : pc'[w] = pc[w] /\ item'[w] = item[w]
  BY <1>1 DEF TypeOK, Pushes, Cas, PushStore, Go
<1>3. StackOp(t) = [phase |-> "push", item |-> item[t]]
  BY <1>1 DEF StackOp, Pushes, Cas, PushStore, Go
<1>4. StackOp(t)' = [phase |-> "done", item |-> None]
  BY <1>1 DEF TypeOK, StackOp, Pushes, Cas, PushStore, Go
<1>5. StackOps' = [StackOps EXCEPT ![t] = [phase |-> "done", item |-> None]]
  BY <1>2, <1>4, OthersOp, OnlyOwnOp
<1>6. stack' = <<item[t]>> \o stack
  BY DEF Pushes, Cas, PushStore
<1>7. StackOps[t] = StackOp(t)
  BY DEF StackOps
<1> QED BY <1>3, <1>5, <1>6, <1>7 DEF Atomic!Push, Atomic!Done

\* Popping: what the thread takes away is the head of the stack.
LEMMA PopImplements ==
  ASSUME Sound, ~misled', NEW t \in Threads, Pops(t)
  PROVE  Atomic!PopItem(t)
<1>1. TypeOK
  BY DEF Sound
<1>2. \A w \in Threads \ {t} : pc'[w] = pc[w] /\ item'[w] = item[w]
  BY <1>1 DEF TypeOK, Pops, Swap, PopTake, Go
<1>3. StackOp(t) = [phase |-> "pop", item |-> None]
  BY <1>1 DEF StackOp, Pops, Swap, PopTake, Go
<1>4. StackOp(t)' = [phase |-> "done", item |-> item[t]]
  BY <1>1 DEF TypeOK, StackOp, Pops, Swap, PopTake, Go
<1>5. StackOps' = [StackOps EXCEPT ![t] = [phase |-> "done", item |-> item[t]]]
  BY <1>2, <1>4, OthersOp, OnlyOwnOp
<1>6. stack' = Tail(stack) /\ stack # <<>> /\ Head(stack) = item[t]
  BY PopStep DEF Pops, Swap, PopTake, Below
<1>7. StackOps[t] = StackOp(t)
  BY DEF StackOps
<1>8. Head(stack) = item[t]
  BY <1>6
<1>9. StackOps' = [StackOps EXCEPT ![t] = Atomic!Done(Head(stack))]
  BY <1>5, <1>8, Zenon DEF Atomic!Done
<1>10. StackOps[t].phase = "pop"
  BY <1>3, <1>7
<1> QED BY <1>6, <1>9, <1>10, Zenon DEF Atomic!PopItem

\* A pop that has read the top returns nothing if there was nothing, and has
\* done nothing else so far.
LEMMA LookImplements ==
  ASSUME Sound, NEW t \in Threads, ReadTop(t) \/ PopLook(t)
  PROVE  Atomic!PopNothing(t) \/ UNCHANGED Atomic!astack
<1>1. TypeOK /\ stack' = stack
  BY DEF Sound, ReadTop, PopLook
<1>2. \A w \in Threads \ {t} : pc'[w] = pc[w] /\ item'[w] = item[w]
  BY <1>1 DEF TypeOK, ReadTop, PopLook, Go
<1>3. StackOp(t) = [phase |-> "pop", item |-> None]
  BY <1>1 DEF StackOp, ReadTop, PopLook, Go
<1>4. CASE top = None
  <2>1. stack = <<>>
    <3> SUFFICES ASSUME stack # <<>> PROVE FALSE
      OBVIOUS
    <3>1. stack[1] = None /\ 1 \in DOMAIN stack
      BY <1>1, <1>4, PopFrom DEF Sound, Linked, TypeOK
    <3>2. stack[1] \in Items
      BY <1>1, <3>1, PopFrom, ElementOfSeq DEF TypeOK
    <3> QED BY <3>1, <3>2, StackAssumption
  <2>2. StackOp(t)' = [phase |-> "done", item |-> None]
    BY <1>1, <1>4 DEF TypeOK, StackOp, ReadTop, PopLook, Go
  <2>3. StackOps' = [StackOps EXCEPT ![t] = [phase |-> "done", item |-> None]]
    BY <1>2, <2>2, OthersOp, OnlyOwnOp
  <2>4. StackOps[t] = StackOp(t)
    BY DEF StackOps
  <2> QED BY <1>1, <1>3, <2>1, <2>3, <2>4 DEF Atomic!PopNothing, Atomic!Done
<1>5. CASE top # None
  <2>1. StackOp(t)' = [phase |-> "pop", item |-> None]
    BY <1>1, <1>5 DEF TypeOK, StackOp, ReadTop, PopLook, Go
  <2> QED BY <1>1, <1>2, <1>3, <2>1, OthersOp, NoOp
<1> QED BY <1>4, <1>5

\* Calls and returns are those of the abstract stack.
LEMMA CallImplements ==
  ASSUME Sound, NEW t \in Threads, NEW i \in Items, CallPush(t, i)
  PROVE  Atomic!CallPush(t, i)
<1>1. TypeOK /\ ItemInv
  BY DEF Sound
<1>2. \A w \in Threads \ {t} : pc'[w] = pc[w] /\ item'[w] = item[w]
  BY <1>1 DEF TypeOK, CallPush, Go
<1>3. StackOp(t).phase = "idle"
  BY <1>1 DEF StackOp, CallPush, Go
<1>4. StackOp(t)' = [phase |-> "push", item |-> i]
  BY <1>1 DEF TypeOK, StackOp, CallPush, Go
<1>5. StackOps' = [StackOps EXCEPT ![t] = [phase |-> "push", item |-> i]]
  BY <1>2, <1>4, OthersOp, OnlyOwnOp
<1>6. ASSUME NEW w \in Threads PROVE StackOps[w].item # i
  <2>1. item[w] = i => pc[w] \in {"counter", "next", "swap"}
    BY <1>1, StackAssumption DEF CallPush, Popping, ItemInv
  <2>2. StackOp(w).item # i
    BY <2>1, StackAssumption DEF StackOp
  <2> QED BY <2>2 DEF StackOps
<1>7. ~Atomic!OnStack(i) /\ stack' = stack
  BY DEF CallPush, OnStack, Atomic!OnStack
<1>8. StackOps[t] = StackOp(t)
  BY DEF StackOps
<1> QED BY <1>3, <1>5, <1>6, <1>7, <1>8 DEF Atomic!CallPush

\* A pop begins.
LEMMA CallPopImplements ==
  ASSUME Sound, NEW t \in Threads, CallPop(t)
  PROVE  Atomic!CallPop(t)
<1>1. TypeOK /\ stack' = stack
  BY DEF Sound, CallPop
<1>2. \A w \in Threads \ {t} : pc'[w] = pc[w] /\ item'[w] = item[w]
  BY <1>1 DEF TypeOK, CallPop, Go
<1>3. StackOp(t).phase = "idle"
  BY <1>1 DEF StackOp, CallPop, Go
<1>4. StackOp(t)' = [phase |-> "pop", item |-> None]
  BY <1>1 DEF TypeOK, StackOp, CallPop, Go
<1>5. StackOps' = [StackOps EXCEPT ![t] = [phase |-> "pop", item |-> None]]
  BY <1>2, <1>4, OthersOp, OnlyOwnOp
<1>6. StackOps[t] = StackOp(t)
  BY DEF StackOps
<1> QED BY <1>1, <1>3, <1>5, <1>6 DEF Atomic!CallPop

\* An operation returns.
LEMMA ReturnImplements ==
  ASSUME Sound, NEW t \in Threads, Return(t)
  PROVE  Atomic!Return(t)
<1>1. TypeOK /\ stack' = stack
  BY DEF Sound, Return
<1>2. \A w \in Threads \ {t} : pc'[w] = pc[w] /\ item'[w] = item[w]
  BY <1>1 DEF TypeOK, Return, Go
<1>3. StackOp(t).phase = "done"
  BY <1>1 DEF StackOp, Return, Go
<1>4. StackOp(t)' = [phase |-> "idle", item |-> None]
  BY <1>1 DEF TypeOK, StackOp, Return, Go
<1>5. StackOps' = [StackOps EXCEPT ![t] = [phase |-> "idle", item |-> None]]
  BY <1>2, <1>4, OthersOp, OnlyOwnOp
<1>6. StackOps[t] = StackOp(t)
  BY DEF StackOps
<1> QED BY <1>1, <1>3, <1>5, <1>6 DEF Atomic!Return, Atomic!Idle

\* The rest is not seen from outside.
Hidden(t) ==
  \/ Links(t) \/ CasFails(t) \/ ReadCounter(t) \/ ReadNext(t) \/ SwapFails(t)
  \/ Lock(t) \/ Unlock(t)

\* Reads, failed swaps and the lock are not seen.
LEMMA HiddenImplements ==
  ASSUME Sound, NEW t \in Threads, Hidden(t)
  PROVE  UNCHANGED Atomic!astack
<1>1. TypeOK /\ stack' = stack
  BY DEF Sound, Hidden, Links, Link, PushLink, CasFails, ReadCounter, ReadNext, SwapFails,
         Lock, Unlock
<1>2. \A w \in Threads \ {t} : pc'[w] = pc[w] /\ item'[w] = item[w]
  BY <1>1 DEF TypeOK, Go, Hidden, Links, Link, PushLink, CasFails, ReadCounter, ReadNext,
              SwapFails, Lock, Unlock
<1>3. StackOp(t)' = StackOp(t)
  <2>1. CASE Links(t)
    BY <1>1, <2>1 DEF TypeOK, Go, StackOp, Links, Link, PushLink
  <2>2. CASE CasFails(t) \/ ReadCounter(t) \/ ReadNext(t)
    BY <1>1, <2>2 DEF TypeOK, Go, StackOp, CasFails, ReadCounter, ReadNext
  <2>3. CASE SwapFails(t)
    BY <1>1, <2>3 DEF TypeOK, Go, StackOp, SwapFails
  <2>4. CASE Lock(t) \/ Unlock(t)
    BY <1>1, <2>4 DEF TypeOK, Go, StackOp, Lock, Unlock
  <2> QED BY <2>1, <2>2, <2>3, <2>4 DEF Hidden
<1> QED BY <1>1, <1>2, <1>3, OthersOp, NoOp

\* Every step is one of the abstract stack, or is not seen, or a pop is misled.
LEMMA StepImplements == IInv /\ [Next]_vars => [misled' \/ Atomic!Next]_(Atomic!astack)
<1> SUFFICES ASSUME IInv, [Next]_vars, ~misled' PROVE Atomic!Next \/ UNCHANGED Atomic!astack
  OBVIOUS
<1>1. Sound
  BY MisledStays DEF IInv
<1>2. CASE UNCHANGED vars
  BY <1>2 DEF vars, Atomic!astack, StackOps, StackOp
<1>3. ASSUME NEW t \in Threads, Calls(t) \/ Step(t)
      PROVE  Atomic!Next \/ UNCHANGED Atomic!astack
  <2>1. CASE Calls(t)
    BY <1>1, <2>1, CallImplements, CallPopImplements DEF Calls, Atomic!Next
  <2>2. CASE Pushes(t) \/ Pops(t)
    BY <1>1, <2>2, PushImplements, PopImplements DEF Atomic!Next
  <2>3. CASE ReadTop(t) \/ PopLook(t)
    BY <1>1, <2>3, LookImplements DEF Atomic!Next
  <2>4. CASE Return(t)
    BY <1>1, <2>4, ReturnImplements DEF Atomic!Next
  <2>5. CASE Hidden(t)
    BY <1>1, <2>5, HiddenImplements
  <2> QED BY <1>3, <2>1, <2>2, <2>3, <2>4, <2>5 DEF Step, Hidden, Links, Pushes, Pops
<1> QED BY <1>2, <1>3 DEF Next

\* pmath_stack_push and pmath_stack_pop, with and without a lock, are a stack
\* whose operations take effect at one instant, until a pop is misled.
THEOREM Implementation == Spec => ImplementsUnlessMisled
<1>1. Init => Atomic!Init
  BY DEF Init, Atomic!Init, Atomic!Idle, StackOps, StackOp
<1>2. IInv /\ [Next]_vars => [misled' \/ Atomic!Next]_(Atomic!astack)
  BY StepImplements
<1> QED BY <1>1, <1>2, AlwaysIInv, PTL DEF Spec, ImplementsUnlessMisled
=============================================================================
