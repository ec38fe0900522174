----------------------------- MODULE ThreadLocks -----------------------------
(***************************************************************************)
(* pmath_thread_call_locked (threadlocks.c): reentrant locks that a thread *)
(* shares with the child threads it waits for.                             *)
(*                                                                         *)
(* A lock is a pointer, NULL while nobody uses it and otherwise pointing   *)
(* to a reference-counted object that is recycled when the last call ends. *)
(* The object lists the threads that have the lock, innermost first; each  *)
(* of them owns a mutex for which its descendants compete, and the fall-   *)
(* back mutex is for the threads that descend from no owner.               *)
(*                                                                         *)
(* Threads form a forest.  A thread that has forked children waits for all *)
(* of them, as the parallel builtins do, and takes no step meanwhile.      *)
(*                                                                         *)
(* Every critical section of a spinlock (the lock pointer, spin_lock) is   *)
(* one step; everything that other threads can observe between two of them *)
(* (waiting_lock, the mutexes) is a step of its own.  When there is no     *)
(* memory for a lock object the call returns at once, a stuttering step.   *)
(***************************************************************************)
EXTENDS Naturals, Sequences, FiniteSets

CONSTANTS Threads,
          Ancestors,   \* Ancestors[t]: t, its parent, its parent's parent...
          Locks,       \* the pmath_threadlock_t variables of the program
          Objs,        \* addresses of struct _pmath_threadlock_t
          None,        \* NULL
          Fallback,    \* names the fallback mutex of an object
          MaxDepth     \* bound: how deep calls nest in one thread

ASSUME ForestAssumption ==
  /\ Ancestors \in [Threads -> SUBSET Threads]
  /\ \A t \in Threads : t \in Ancestors[t]
  /\ \A t \in Threads : \A p \in Ancestors[t] : Ancestors[p] \subseteq Ancestors[t]
  /\ \A t, u \in Threads : t \in Ancestors[u] /\ u \in Ancestors[t] => t = u
  /\ \A t \in Threads : \A p, q \in Ancestors[t] : p \in Ancestors[q] \/ q \in Ancestors[p]

ASSUME NamesAssumption ==
  /\ None \notin Threads \cup Objs
  /\ Fallback \notin Threads \cup {None}

ASSUME BoundAssumption ==
  /\ IsFiniteSet(Threads)
  /\ MaxDepth \in Nat

VARIABLES live,      \* threads that exist
          pc,        \* where each thread is
          calls,     \* calls[t]: its unfinished calls, innermost last
          bound,     \* bound[l]: the object lock variable l points to
          refs,      \* refcount of each object
          owners,    \* owners[o]: the threads in the owner list, head first
          held,      \* held[o][a]: the thread that has mutex a of object o
          waiting,   \* waiting_lock of each thread
          at         \* the object a thread looks at in its search for a cycle

vars == <<live, pc, calls, bound, refs, owners, held, waiting, at>>

Mutexes == Threads \cup {Fallback}
Depth(t) == Len(calls[t])
Top(t) == calls[t][Depth(t)]

Descends(t, p) == p # t /\ p \in Ancestors[t]
Children(p) == {c \in Threads : Descends(c, p) /\ \A q \in Threads : Descends(c, q) => q \in Ancestors[p]}

\* Mutant: a thread goes on while its children run.
RunsBesideChildren(t) == t \in live

\* A thread waits while a child exists.
Runs(t) == t \in live /\ \A c \in live : ~Descends(c, t)

Init ==
  /\ live = {t \in Threads : Ancestors[t] = {t}}
  /\ pc = [t \in Threads |-> "client"]
  /\ calls = [t \in Threads |-> <<>>]
  /\ bound = [l \in Locks |-> None]
  /\ refs = [o \in Objs |-> 0]
  /\ owners = [o \in Objs |-> <<>>]
  /\ held = [o \in Objs |-> [a \in Mutexes |-> None]]
  /\ waiting = [t \in Threads |-> None]
  /\ at = [t \in Threads |-> None]

-----------------------------------------------------------------------------
(* The callers.                                                            *)

\* A parallel builtin starts tasks whose threads are children of its own,
\* and goes on after all of them have finished.
Fork(p) ==
  /\ pc[p] = "client"
  /\ Runs(p)
  /\ \E C \in SUBSET Children(p) : C # {} /\ live' = live \cup C
  /\ UNCHANGED <<pc, calls, bound, refs, owners, held, waiting, at>>

Finish(c) ==
  /\ pc[c] = "client"
  /\ Runs(c)
  /\ calls[c] = <<>>
  /\ Ancestors[c] # {c}
  /\ live' = live \ {c}
  /\ UNCHANGED <<pc, calls, bound, refs, owners, held, waiting, at>>

\* Mutant: finds an object behind the variable and does not count the call.
CallWithoutRef(t, l) ==
  /\ pc[t] = "client"
  /\ Runs(t)
  /\ Depth(t) < MaxDepth
  /\ \E o \in Objs :
       /\ \/ bound[l] = o
          \/ bound[l] = None /\ \A k \in Locks : bound[k] # o
       /\ bound' = [bound EXCEPT ![l] = o]
       /\ refs' = [refs EXCEPT ![o] = 1]
       /\ calls' = [calls EXCEPT ![t] = Append(@, [lock |-> l, obj |-> o, mutex |-> None])]
  /\ pc' = [pc EXCEPT ![t] = "choose"]
  /\ UNCHANGED <<live, owners, held, waiting, at>>

\* _pmath_atomic_global_need: take a reference to the object of lock l, or
\* make l point to an object that no lock uses.
Call(t, l) ==
  /\ pc[t] = "client"
  /\ Runs(t)
  /\ Depth(t) < MaxDepth
  /\ \E o \in Objs :
       /\ \/ bound[l] = o
          \/ bound[l] = None /\ \A k \in Locks : bound[k] # o
       /\ bound' = [bound EXCEPT ![l] = o]
       /\ refs' = [refs EXCEPT ![o] = IF bound[l] = o THEN @ + 1 ELSE 1]
       /\ calls' = [calls EXCEPT ![t] = Append(@, [lock |-> l, obj |-> o, mutex |-> None])]
  /\ pc' = [pc EXCEPT ![t] = "choose"]
  /\ UNCHANGED <<live, owners, held, waiting, at>>

\* The callback returns.  A reentrant call has nothing to undo.
Return(t) ==
  /\ pc[t] = "client"
  /\ Runs(t)
  /\ calls[t] # <<>>
  /\ pc' = [pc EXCEPT ![t] = IF Top(t).mutex = None THEN "done" ELSE "pop"]
  /\ UNCHANGED <<live, calls, bound, refs, owners, held, waiting, at>>

-----------------------------------------------------------------------------
(* pmath_thread_call_locked between need and the callback.                 *)

\* The mutex t competes for: that of the innermost owner among its
\* ancestors, or the fallback mutex.
IsChoice(t, o, a) ==
  \/ /\ a = Fallback
     /\ \A i \in DOMAIN owners[o] : owners[o][i] \notin Ancestors[t]
  \/ \E i \in DOMAIN owners[o] :
       /\ a = owners[o][i]
       /\ a \in Ancestors[t]
       /\ \A j \in 1..(i - 1) : owners[o][j] \notin Ancestors[t]

Reentrant(t, o) == owners[o] # <<>> /\ Head(owners[o]) = t

Choose(t) ==
  /\ pc[t] = "choose"
  /\ \/ /\ Reentrant(t, Top(t).obj)
        /\ pc' = [pc EXCEPT ![t] = "client"]
        /\ UNCHANGED calls
     \/ /\ ~Reentrant(t, Top(t).obj)
        /\ \E a \in Mutexes :
             /\ IsChoice(t, Top(t).obj, a)
             /\ calls' = [calls EXCEPT ![t][Depth(t)].mutex = a]
        /\ pc' = [pc EXCEPT ![t] = "wait"]
  /\ UNCHANGED <<live, bound, refs, owners, held, waiting, at>>

SetWaiting(t) ==
  /\ pc[t] = "wait"
  /\ waiting' = [waiting EXCEPT ![t] = Top(t).obj]
  /\ pc' = [pc EXCEPT ![t] = "try"]
  /\ UNCHANGED <<live, calls, bound, refs, owners, held, at>>

IsFree(t) == held[Top(t).obj][Top(t).mutex] = None
Take(t)   == held' = [held EXCEPT ![Top(t).obj][Top(t).mutex] = t]
Untake(t) == held' = [held EXCEPT ![Top(t).obj][Top(t).mutex] = None]

\* Mutant: ignores the result of the try-lock.
TryLockIgnored(t) ==
  /\ pc[t] = "try"
  /\ Take(t)
  /\ pc' = [pc EXCEPT ![t] = "got"]
  /\ UNCHANGED <<live, calls, bound, refs, owners, waiting, at>>

TryLock(t) ==
  /\ pc[t] = "try"
  /\ \/ /\ IsFree(t)
        /\ Take(t)
        /\ pc' = [pc EXCEPT ![t] = "got"]
        /\ UNCHANGED at
     \/ /\ ~IsFree(t)
        /\ at' = [at EXCEPT ![t] = Top(t).obj]
        /\ pc' = [pc EXCEPT ![t] = "walk"]
        /\ UNCHANGED held
  /\ UNCHANGED <<live, calls, bound, refs, owners, waiting>>

\* One iteration of the search: the object's innermost owner is me.
Alarm(t) ==
  /\ pc[t] = "walk"
  /\ Reentrant(t, at[t])
  /\ waiting' = [waiting EXCEPT ![t] = None]
  /\ at' = [at EXCEPT ![t] = None]
  /\ pc' = [pc EXCEPT ![t] = "done"]
  /\ UNCHANGED <<live, calls, bound, refs, owners, held>>

\* Mutant: looks at the owner of the first lock only.
WalkOneStep(t) ==
  /\ pc[t] = "walk"
  /\ at' = [at EXCEPT ![t] = None]
  /\ pc' = [pc EXCEPT ![t] = "block"]
  /\ UNCHANGED <<live, calls, bound, refs, owners, held, waiting>>

\* One iteration of the search: there is no owner, or the innermost one
\* waits for no lock, or the search goes on with the lock it waits for.
Walk(t) ==
  /\ pc[t] = "walk"
  /\ ~Reentrant(t, at[t])
  /\ at' = [at EXCEPT ![t] = IF owners[at[t]] = <<>> THEN None ELSE waiting[Head(owners[at[t]])]]
  /\ pc' = [pc EXCEPT ![t] = IF at'[t] = None THEN "block" ELSE "walk"]
  /\ UNCHANGED <<live, calls, bound, refs, owners, held, waiting>>

\* Mutant: does not wait for the mutex.
LockMutexAtOnce(t) ==
  /\ pc[t] = "block"
  /\ Take(t)
  /\ pc' = [pc EXCEPT ![t] = "got"]
  /\ UNCHANGED <<live, calls, bound, refs, owners, waiting, at>>

LockMutex(t) ==
  /\ pc[t] = "block"
  /\ IsFree(t)
  /\ Take(t)
  /\ pc' = [pc EXCEPT ![t] = "got"]
  /\ UNCHANGED <<live, calls, bound, refs, owners, waiting, at>>

ClearWaiting(t) ==
  /\ pc[t] = "got"
  /\ waiting' = [waiting EXCEPT ![t] = None]
  /\ pc' = [pc EXCEPT ![t] = "push"]
  /\ UNCHANGED <<live, calls, bound, refs, owners, held, at>>

\* t becomes the innermost owner, with a new mutex for its descendants, and
\* executes the callback.
Push(t) ==
  /\ pc[t] = "push"
  /\ owners' = [owners EXCEPT ![Top(t).obj] = <<t>> \o @]
  /\ held' = [held EXCEPT ![Top(t).obj][t] = None]
  /\ pc' = [pc EXCEPT ![t] = "client"]
  /\ UNCHANGED <<live, calls, bound, refs, waiting, at>>

\* No memory for the list node: give up without executing the callback.
PushFails(t) ==
  /\ pc[t] = "push"
  /\ Untake(t)
  /\ pc' = [pc EXCEPT ![t] = "done"]
  /\ UNCHANGED <<live, calls, bound, refs, owners, waiting, at>>

-----------------------------------------------------------------------------
(* pmath_thread_call_locked after the callback.                            *)

Pop(t) ==
  /\ pc[t] = "pop"
  /\ owners' = [owners EXCEPT ![Top(t).obj] = Tail(@)]
  /\ pc' = [pc EXCEPT ![t] = "unlock"]
  /\ UNCHANGED <<live, calls, bound, refs, held, waiting, at>>

\* Mutant: leaves the mutex locked.
UnlockNothing(t) ==
  /\ pc[t] = "unlock"
  /\ pc' = [pc EXCEPT ![t] = "done"]
  /\ UNCHANGED <<live, calls, bound, refs, owners, held, waiting, at>>

UnlockMutex(t) ==
  /\ pc[t] = "unlock"
  /\ Untake(t)
  /\ pc' = [pc EXCEPT ![t] = "done"]
  /\ UNCHANGED <<live, calls, bound, refs, owners, waiting, at>>

\* _pmath_atomic_global_done: the last reference unbinds the object, which
\* may then be recycled for any lock.
Done(t) ==
  /\ pc[t] = "done"
  /\ bound[Top(t).lock] = Top(t).obj
  /\ refs' = [refs EXCEPT ![Top(t).obj] = @ - 1]
  /\ bound' = [bound EXCEPT ![Top(t).lock] = IF refs[Top(t).obj] = 1 THEN None ELSE @]
  /\ calls' = [calls EXCEPT ![t] = SubSeq(@, 1, Len(@) - 1)]
  /\ pc' = [pc EXCEPT ![t] = "client"]
  /\ UNCHANGED <<live, owners, held, waiting, at>>

Enter(t) ==
  \/ Choose(t) \/ SetWaiting(t) \/ TryLock(t) \/ Alarm(t) \/ Walk(t)
  \/ LockMutex(t) \/ ClearWaiting(t) \/ Push(t)
Leave(t) == Pop(t) \/ UnlockMutex(t) \/ Done(t)

Next ==
  \E t \in Threads :
    \/ Fork(t) \/ Finish(t) \/ Return(t)
    \/ \E l \in Locks : Call(t, l)
    \/ Enter(t) \/ PushFails(t) \/ Leave(t)

Spec == Init /\ [][Next]_vars

\* The operating system runs every runnable thread, and callbacks and tasks
\* end.  Nothing makes a thread take a lock, start tasks or run out of memory.
FairSpec ==
  Spec /\ \A t \in Threads : WF_vars(Enter(t) \/ Leave(t) \/ Return(t) \/ Finish(t))

-----------------------------------------------------------------------------
CallRecords == [lock : Locks, obj : Objs, mutex : Mutexes \cup {None}]

TypeOK ==
  /\ live \subseteq Threads
  /\ pc \in [Threads -> {"client", "choose", "wait", "try", "walk", "block", "got",
                         "push", "pop", "unlock", "done"}]
  /\ calls \in [Threads -> Seq(CallRecords)]
  /\ \A t \in Threads : pc[t] # "client" => calls[t] # <<>>
  /\ bound \in [Locks -> Objs \cup {None}]
  /\ refs \in [Objs -> Nat]
  /\ owners \in [Objs -> Seq(Threads)]
  /\ held \in [Objs -> [Mutexes -> Threads \cup {None}]]
  /\ waiting \in [Threads -> Objs \cup {None}]
  /\ at \in [Threads -> Objs \cup {None}]
  /\ \A t \in Threads : pc[t] = "walk" => at[t] # None

\* The threads that execute a callback under lock l.
Inside(l) ==
  {t \in Threads : \E i \in DOMAIN calls[t] :
     calls[t][i].lock = l /\ (i < Depth(t) \/ pc[t] = "client")}

\* Callbacks under one lock variable run at the same time only in a thread
\* and its ancestors, although the object behind the variable is recycled.
MutualExclusion ==
  \A l \in Locks : \A t, u \in Inside(l) : t \in Ancestors[u] \/ u \in Ancestors[t]

\* A thread enters a lock only when its ancestors alone are inside, and
\* leaves it only when none of its descendants is.
Hierarchical == INSTANCE HierarchicalLock WITH inside <- [l \in Locks |-> Inside(l)]
ImplementsLock == Hierarchical!Spec

\* The owner list is a chain of descendants, and each owner has the mutex of
\* the next owner (the outermost the fallback mutex), so that the list can
\* only change at its head.
OwnerChain ==
  \A o \in Objs : \A i \in DOMAIN owners[o] :
    LET last == i = Len(owners[o])
    IN  /\ ~last => Descends(owners[o][i], owners[o][i + 1])
        /\ held[o][IF last THEN Fallback ELSE owners[o][i + 1]] = owners[o][i]

\* The list node a thread removes is its own, and no thread has the mutex
\* that is destroyed with it (assertions in threadlocks.c after the callback).
PopRemovesOwnNode ==
  \A t \in Threads : pc[t] = "pop" => Reentrant(t, Top(t).obj) /\ held[Top(t).obj][t] = None

\* The mutex that a thread is about to lock, waits for or will unlock belongs
\* to a list node that still exists: it was chosen under spin_lock, but is
\* used after spin_lock was released.
MutexExists ==
  \A t \in Threads :
    pc[t] \in {"wait", "try", "walk", "block", "got", "push", "pop", "unlock"}
    /\ Top(t).mutex # Fallback
      => \E i \in DOMAIN owners[Top(t).obj] : owners[Top(t).obj][i] = Top(t).mutex

\* The reference count is the number of unfinished calls, all of them for the
\* one lock variable that points to the object, and an object that goes back
\* to the pool has no owner and no locked mutex (assertions in unref_threadlock).
CallsOf(o) == {c \in Threads \X (1..MaxDepth) :
                 c[2] <= Depth(c[1]) /\ calls[c[1]][c[2]].obj = o}
RefcountExact ==
  \A o \in Objs :
    /\ refs[o] = Cardinality(CallsOf(o))
    /\ \A c \in CallsOf(o) : bound[calls[c[1]][c[2]].lock] = o
    /\ refs[o] = 0 => owners[o] = <<>> /\ \A a \in Mutexes : held[o][a] = None

\* The thread that t has to wait for when it is about to block.
Holder(t) == held[Top(t).obj][Top(t).mutex]

\* No thread of S can go on before another thread of S does.
Deadlocked(S) ==
  \A t \in S : \/ pc[t] = "block" /\ Holder(t) \in S
               \/ \E c \in S \cap live : Descends(c, t)

\* "pMath cares about avoiding deadlocks behind the scenes" (threads.h): no set
\* of threads without kinship waits for itself after the search for cycles.  (A
\* parent that waits for its children is not seen by that search.)
NoDeadlock ==
  \A S \in SUBSET live :
    S # {} /\ (\A a, b \in S : a # b => ~Descends(a, b)) => ~Deadlocked(S)

\* When no more locks are taken and no more tasks started, all calls end, each
\* of them after it had its lock or because it was aborted, unless kin wait for
\* each other.
Drains ==
  <>[][\A t \in Threads : ~Fork(t) /\ \A l \in Locks : ~Call(t, l)]_vars
    => <>[](\/ \A t \in Threads : calls[t] = <<>>
            \/ \E S \in SUBSET live : S # {} /\ Deadlocked(S))
=============================================================================
