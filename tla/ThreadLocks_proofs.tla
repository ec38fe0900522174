-------------------------- MODULE ThreadLocks_proofs --------------------------
(***************************************************************************)
(* Proofs about ThreadLocks for any forest of threads, any set of locks    *)
(* and any nesting depth.                                                  *)
(***************************************************************************)
EXTENDS ThreadLocks, SequenceTheorems, FiniteSetTheorems, TLAPS

-----------------------------------------------------------------------------
(* The inductive invariant.                                                *)

\* The fields of call i of thread t.
Obj(t, i)   == calls[t][i].obj
Mutex(t, i) == calls[t][i].mutex

\* Call i of t executes its callback.
InCallback(t, i) == i \in 1..Depth(t) /\ (i < Depth(t) \/ pc[t] = "client")

\* Call i of t has its node in the owner list.
OwnsNode(t, i) ==
  /\ i \in 1..Depth(t)
  /\ Mutex(t, i) # None
  /\ i < Depth(t) \/ pc[t] \in {"client", "pop"}

\* Call i of t has locked its mutex.
OwnsMutex(t, i) ==
  /\ i \in 1..Depth(t)
  /\ Mutex(t, i) # None
  /\ i < Depth(t) \/ pc[t] \in {"got", "push", "client", "pop", "unlock"}

InList(t, o) == \E i \in 1..Len(owners[o]) : owners[o][i] = t

\* Only threads that exist call; the ancestors of a thread exist and wait in
\* client code.
LiveInv ==
  /\ \A t \in live : Ancestors[t] \subseteq live
  /\ \A t \in Threads : t \notin live => calls[t] = <<>> /\ pc[t] = "client"
  /\ \A t \in live, p \in Threads : Descends(t, p) => pc[p] = "client"

\* A call chooses its mutex once.
TopInv ==
  \A t \in Threads :
    /\ pc[t] = "choose" => Top(t).mutex = None
    /\ pc[t] \notin {"client", "choose", "done"} => Top(t).mutex # None

\* Every unfinished call refers to the object its lock is bound to.
BoundInv ==
  \A t \in Threads : \A i \in 1..Depth(t) : bound[calls[t][i].lock] = Obj(t, i)

\* The reference count of an object is the number of its unfinished calls.
RefInv ==
  /\ \A t \in Threads : Depth(t) <= MaxDepth
  /\ \A o \in Objs : refs[o] = Cardinality(CallsOf(o))

\* A thread competes at most once for each object...
UniqueInv ==
  \A t \in Threads : \A i, j \in 1..Depth(t) :
    Obj(t, i) = Obj(t, j) /\ Mutex(t, i) # None /\ Mutex(t, j) # None => i = j

\* ... because inside of a reentrant call it is an owner already.
ReentrantInv ==
  \A t \in Threads : \A j \in 1..Depth(t) :
    InCallback(t, j) /\ Mutex(t, j) = None
      => \E i \in 1..(j - 1) : Obj(t, i) = Obj(t, j) /\ Mutex(t, i) # None

\* The owner list names the threads that have a node in it.
NodeInv ==
  \A o \in Objs, t \in Threads :
    InList(t, o) <=> \E i \in 1..Depth(t) : OwnsNode(t, i) /\ Obj(t, i) = o

\* A mutex is held by the thread whose call has locked it.
MutexInv ==
  \A o \in Objs, a \in Mutexes, t \in Threads :
    held[o][a] = t
      <=> \E i \in 1..Depth(t) : OwnsMutex(t, i) /\ Obj(t, i) = o /\ Mutex(t, i) = a

\* The owner whose mutex was chosen stays in the list.
ChoiceInv ==
  \A t \in Threads : \A i \in 1..Depth(t) :
    Mutex(t, i) \in Threads => Descends(t, Mutex(t, i)) /\ InList(Mutex(t, i), Obj(t, i))

\* Each owner descends from all owners after it and has the mutex of the next.
ChainInv ==
  \A o \in Objs :
    /\ \A i, j \in 1..Len(owners[o]) : i < j => Descends(owners[o][i], owners[o][j])
    /\ \A i \in 1..Len(owners[o]) :
         held[o][IF i = Len(owners[o]) THEN Fallback ELSE owners[o][i + 1]] = owners[o][i]

IInv ==
  /\ TypeOK /\ TopInv
  /\ LiveInv
  /\ BoundInv /\ RefInv
  /\ UniqueInv /\ ReentrantInv
  /\ NodeInv /\ MutexInv /\ ChoiceInv /\ ChainInv

-----------------------------------------------------------------------------
(* The forest, and what each step does to the calls and the owner lists.   *)

\* Descent is a strict order, and the ancestors of a thread are a chain.
LEMMA Forest ==
  /\ \A t, u, p \in Threads : Descends(t, u) /\ Descends(u, p) => Descends(t, p)
  /\ \A t, p \in Threads : Descends(t, p) => ~Descends(p, t) /\ t # p
  /\ \A t, p, q \in Threads :
       p \in Ancestors[t] /\ q \in Ancestors[t] => p \in Ancestors[q] \/ q \in Ancestors[p]
BY ForestAssumption DEF Descends

\* The top call is the last one.
LEMMA TopType ==
  ASSUME TypeOK, NEW t \in Threads, calls[t] # <<>>
  PROVE  /\ Depth(t) \in Nat \ {0}
         /\ Depth(t) \in 1..Depth(t)
         /\ Top(t) \in CallRecords
         /\ Top(t) = calls[t][Depth(t)]
         /\ Obj(t, Depth(t)) = Top(t).obj
         /\ Mutex(t, Depth(t)) = Top(t).mutex
<1>1. Depth(t) \in Nat \ {0}
  BY EmptySeq DEF TypeOK, Depth
<1>2. calls[t][Depth(t)] \in CallRecords
  BY <1>1, ElementOfSeq DEF TypeOK, Depth
<1> QED
  BY <1>1, <1>2 DEF Top, Obj, Mutex

\* Every call is a record of the right type.
LEMMA CallType ==
  ASSUME TypeOK, NEW t \in Threads
  PROVE  /\ Depth(t) \in Nat
         /\ \A i \in 1..Depth(t) :
              calls[t][i] \in CallRecords /\ Obj(t, i) \in Objs /\ Mutex(t, i) \in Mutexes \cup {None}
<1>1. calls[t] \in Seq(CallRecords)
  BY DEF TypeOK
<1>2. Depth(t) \in Nat
  BY <1>1, LenProperties DEF Depth
<1>3. ASSUME NEW i \in 1..Depth(t)
      PROVE  calls[t][i] \in CallRecords
  BY <1>1, ElementOfSeq DEF Depth
<1> QED
  BY <1>2, <1>3 DEF CallRecords, Obj, Mutex

\* Every owner is a thread.
LEMMA OwnerType ==
  ASSUME TypeOK, NEW o \in Objs
  PROVE  /\ Len(owners[o]) \in Nat
         /\ owners[o] # <<>> <=> Len(owners[o]) > 0
         /\ \A i \in 1..Len(owners[o]) : owners[o][i] \in Threads
         /\ DOMAIN owners[o] = 1..Len(owners[o])
         /\ owners[o] # <<>> => Head(owners[o]) = owners[o][1]
<1>1. owners[o] \in Seq(Threads)
  BY DEF TypeOK
<1>2. Len(owners[o]) \in Nat /\ DOMAIN owners[o] = 1..Len(owners[o])
  BY <1>1, LenProperties
<1>3. owners[o] # <<>> <=> Len(owners[o]) > 0
  BY <1>1, <1>2, EmptySeq
<1>4. \A i \in 1..Len(owners[o]) : owners[o][i] \in Threads
  BY <1>1, ElementOfSeq
<1>5. owners[o] # <<>> => Head(owners[o]) = owners[o][1]
  BY <1>1
<1> QED
  BY <1>2, <1>3, <1>4, <1>5

\* A call starts above the others, without a mutex.
LEMMA CallEffect ==
  ASSUME TypeOK, NEW t \in Threads, NEW l \in Locks, Call(t, l)
  PROVE  /\ calls' \in [Threads -> Seq(CallRecords)]
         /\ \A u \in Threads : u # t => calls'[u] = calls[u]
         /\ Len(calls'[t]) = Depth(t) + 1
         /\ \A i \in 1..Depth(t) : calls'[t][i] = calls[t][i]
         /\ \E o \in Objs :
              /\ calls'[t][Depth(t) + 1] = [lock |-> l, obj |-> o, mutex |-> None]
              /\ bound[l] = o \/ (bound[l] = None /\ \A k \in Locks : bound[k] # o)
              /\ bound' = [bound EXCEPT ![l] = o]
              /\ refs' = [refs EXCEPT ![o] = IF bound[l] = o THEN @ + 1 ELSE 1]
<1>1. PICK o \in Objs :
        /\ bound[l] = o \/ (bound[l] = None /\ \A k \in Locks : bound[k] # o)
        /\ bound' = [bound EXCEPT ![l] = o]
        /\ refs' = [refs EXCEPT ![o] = IF bound[l] = o THEN @ + 1 ELSE 1]
        /\ calls' = [calls EXCEPT ![t] = Append(@, [lock |-> l, obj |-> o, mutex |-> None])]
  BY DEF Call
<1> DEFINE r == [lock |-> l, obj |-> o, mutex |-> None]
<1>2. calls[t] \in Seq(CallRecords) /\ r \in CallRecords
  BY DEF TypeOK, CallRecords
<1> HIDE DEF r
<1>3. /\ Append(calls[t], r) \in Seq(CallRecords)
      /\ Len(Append(calls[t], r)) = Depth(t) + 1
      /\ \A i \in 1..Depth(t) : Append(calls[t], r)[i] = calls[t][i]
      /\ Append(calls[t], r)[Depth(t) + 1] = r
  BY <1>2, AppendProperties DEF Depth
<1>4. calls' = [calls EXCEPT ![t] = Append(calls[t], r)]
  BY <1>1 DEF r
<1>5. calls'[t] = Append(calls[t], r) /\ \A u \in Threads : u # t => calls'[u] = calls[u]
  BY <1>4 DEF TypeOK
<1>6. calls' \in [Threads -> Seq(CallRecords)]
  BY <1>3, <1>4 DEF TypeOK
<1> QED
  BY <1>1, <1>3, <1>5, <1>6 DEF r

\* Choosing a mutex changes nothing else of the calls.
LEMMA ChooseEffect ==
  ASSUME TypeOK, NEW t \in Threads, Choose(t), ~Reentrant(t, Top(t).obj)
  PROVE  \E a \in Mutexes :
           /\ IsChoice(t, Top(t).obj, a)
           /\ calls' \in [Threads -> Seq(CallRecords)]
           /\ \A u \in Threads : u # t => calls'[u] = calls[u]
           /\ Len(calls'[t]) = Depth(t)
           /\ \A i \in 1..Depth(t) : i # Depth(t) => calls'[t][i] = calls[t][i]
           /\ calls'[t][Depth(t)] = [Top(t) EXCEPT !.mutex = a]
<1>1. PICK a \in Mutexes : /\ IsChoice(t, Top(t).obj, a)
                           /\ calls' = [calls EXCEPT ![t][Depth(t)].mutex = a]
  BY DEF Choose
<1> DEFINE r == [Top(t) EXCEPT !.mutex = a]
           s == [calls[t] EXCEPT ![Depth(t)] = r]
<1>2. calls[t] # <<>>
  BY DEF Choose, TypeOK
<1>3. calls[t] \in Seq(CallRecords) /\ r \in CallRecords /\ Depth(t) \in 1..Len(calls[t])
  BY <1>2, TopType DEF TypeOK, CallRecords, Depth
<1>4. calls' = [calls EXCEPT ![t] = s]
  BY <1>1 DEF Top
<1> HIDE DEF r
<1>5. /\ s \in Seq(CallRecords)
      /\ Len(s) = Depth(t)
      /\ \A i \in 1..Depth(t) : s[i] = IF i = Depth(t) THEN r ELSE calls[t][i]
  BY <1>3, ExceptSeq DEF Depth
<1> HIDE DEF s
<1>6. calls'[t] = s /\ \A u \in Threads : u # t => calls'[u] = calls[u]
  BY <1>4 DEF TypeOK
<1>7. calls' \in [Threads -> Seq(CallRecords)]
  BY <1>4, <1>5 DEF TypeOK
<1>8. Depth(t) \in 1..Depth(t)
  BY <1>3 DEF Depth
<1> WITNESS a \in Mutexes
<1> QED
  BY <1>1, <1>5, <1>6, <1>7, <1>8 DEF r

\* Done removes the top call.
LEMMA DoneEffect ==
  ASSUME TypeOK, NEW t \in Threads, Done(t)
  PROVE  /\ calls' \in [Threads -> Seq(CallRecords)]
         /\ \A u \in Threads : u # t => calls'[u] = calls[u]
         /\ Len(calls'[t]) = Depth(t) - 1
         /\ \A i \in 1..(Depth(t) - 1) : calls'[t][i] = calls[t][i]
<1> DEFINE s == SubSeq(calls[t], 1, Depth(t) - 1)
<1>1. calls[t] # <<>>
  BY DEF Done, TypeOK
<1>2. Depth(t) \in Nat \ {0} /\ \A i \in 1..Depth(t) : calls[t][i] \in CallRecords
  BY <1>1, TopType, CallType
<1>3. \A i \in 1..(Depth(t) - 1) : calls[t][i] \in CallRecords
  BY <1>2
<1>4. 1 \in Int /\ Depth(t) - 1 \in Int
  BY <1>2
<1>5. /\ s \in Seq(CallRecords)
      /\ Len(s) = IF 1 <= Depth(t) - 1 THEN Depth(t) - 1 - 1 + 1 ELSE 0
      /\ \A i \in 1..(Depth(t) - 1 - 1 + 1) : s[i] = calls[t][1 + i - 1]
  BY <1>3, <1>4, SubSeqProperties
<1> HIDE DEF s
<1>6. Len(s) = Depth(t) - 1 /\ \A i \in 1..(Depth(t) - 1) : s[i] = calls[t][i]
  BY <1>2, <1>5
<1>7. calls' = [calls EXCEPT ![t] = s]
  BY DEF Done, s, Depth
<1>8. calls'[t] = s /\ \A u \in Threads : u # t => calls'[u] = calls[u]
  BY <1>7 DEF TypeOK
<1>9. calls' \in [Threads -> Seq(CallRecords)]
  BY <1>5, <1>7 DEF TypeOK
<1> QED
  BY <1>6, <1>8, <1>9

\* Push prepends t to one owner list.
LEMMA PushEffect ==
  ASSUME TypeOK, NEW t \in Threads, Push(t)
  PROVE  LET o == Top(t).obj IN
         /\ o \in Objs
         /\ owners' \in [Objs -> Seq(Threads)]
         /\ \A x \in Objs : x # o => owners'[x] = owners[x]
         /\ Len(owners'[o]) = Len(owners[o]) + 1
         /\ owners'[o][1] = t
         /\ \A i \in 1..Len(owners[o]) : owners'[o][i + 1] = owners[o][i]
<1> DEFINE o == Top(t).obj
<1>1. o \in Objs
  BY TopType DEF TypeOK, CallRecords, Push
<1> HIDE DEF o
<1>2. owners[o] \in Seq(Threads) /\ <<t>> \in Seq(Threads) /\ Len(<<t>>) = 1
  BY <1>1 DEF TypeOK
<1>3. /\ <<t>> \o owners[o] \in Seq(Threads)
      /\ Len(<<t>> \o owners[o]) = 1 + Len(owners[o])
      /\ \A i \in 1..(1 + Len(owners[o])) :
           (<<t>> \o owners[o])[i] = IF i <= 1 THEN <<t>>[i] ELSE owners[o][i - 1]
  BY <1>2, ConcatProperties
<1>4. owners' = [owners EXCEPT ![o] = <<t>> \o owners[o]]
  BY DEF Push, o
<1> DEFINE s == <<t>> \o owners[o]
<1> HIDE DEF s
<1>5. /\ owners' \in [Objs -> Seq(Threads)]
      /\ owners'[o] = s
      /\ \A x \in Objs : x # o => owners'[x] = owners[x]
  BY <1>1, <1>3, <1>4 DEF TypeOK, s
<1>6. Len(owners[o]) \in Nat
  BY <1>1, OwnerType
<1>7. Len(s) = Len(owners[o]) + 1 /\ s[1] = t
  BY <1>3, <1>6 DEF s
<1>8. \A i \in 1..Len(owners[o]) : s[i + 1] = owners[o][i]
  BY <1>3, <1>6 DEF s
<1> QED
  BY <1>1, <1>5, <1>7, <1>8 DEF o

\* Pop removes the head of one owner list.
LEMMA PopEffect ==
  ASSUME TypeOK, NEW t \in Threads, Pop(t), owners[Top(t).obj] # <<>>
  PROVE  LET o == Top(t).obj IN
         /\ o \in Objs
         /\ owners' \in [Objs -> Seq(Threads)]
         /\ \A x \in Objs : x # o => owners'[x] = owners[x]
         /\ Len(owners'[o]) = Len(owners[o]) - 1
         /\ \A i \in 1..Len(owners'[o]) : owners'[o][i] = owners[o][i + 1]
<1> DEFINE o == Top(t).obj
<1>1. o \in Objs
  BY TopType DEF TypeOK, CallRecords, Pop
<1> HIDE DEF o
<1>2. owners[o] \in Seq(Threads) /\ owners[o] # <<>>
  BY <1>1 DEF TypeOK, o
<1>3. /\ Tail(owners[o]) \in Seq(Threads)
      /\ Len(Tail(owners[o])) = Len(owners[o]) - 1
      /\ \A i \in 1..Len(Tail(owners[o])) : Tail(owners[o])[i] = owners[o][i + 1]
  BY <1>2, HeadTailProperties
<1>4. owners' = [owners EXCEPT ![o] = Tail(owners[o])]
  BY DEF Pop, o
<1> DEFINE s == Tail(owners[o])
<1> HIDE DEF s
<1>5. /\ owners' \in [Objs -> Seq(Threads)]
      /\ owners'[o] = s
      /\ \A x \in Objs : x # o => owners'[x] = owners[x]
  BY <1>1, <1>3, <1>4 DEF TypeOK, s
<1> QED
  BY <1>1, <1>3, <1>5 DEF o, s

-----------------------------------------------------------------------------
(* Types.                                                                  *)

\* A try-lock, whether it succeeds or starts the search, keeps the types.
LEMMA TypeTryLock ==
  ASSUME TypeOK, NEW t \in Threads, TryLock(t)
  PROVE  TypeOK'
<1>1. calls[t] # <<>> /\ pc[t] = "try"
  BY DEF TypeOK, TryLock
<1>2. Top(t) \in CallRecords
  BY <1>1, TopType
<1>3. Top(t).obj \in Objs /\ Top(t).mutex \in Mutexes \cup {None}
  BY <1>2 DEF CallRecords
<1>4. CASE /\ at' = [at EXCEPT ![t] = Top(t).obj]
           /\ pc' = [pc EXCEPT ![t] = "walk"]
           /\ UNCHANGED held
  BY <1>1, <1>3, <1>4, NamesAssumption DEF TypeOK, TryLock, CallRecords
<1>5. CASE Take(t) /\ UNCHANGED at /\ pc' = [pc EXCEPT ![t] = "got"]
  <2>1. held' \in [Objs -> [Mutexes -> Threads \cup {None}]]
    BY <1>3, <1>5 DEF TypeOK, Take
  <2> QED
    BY <1>1, <1>5, <2>1 DEF TypeOK, TryLock, CallRecords
<1> QED
  BY <1>4, <1>5 DEF TryLock

\* The steps that leave the calls and the owner lists alone keep the types.
LEMMA TypePlainSteps ==
  ASSUME TypeOK, NEW t \in Threads,
         \/ Fork(t) \/ Finish(t) \/ Return(t) \/ SetWaiting(t) \/ TryLock(t) \/ Alarm(t)
         \/ Walk(t) \/ LockMutex(t) \/ ClearWaiting(t) \/ PushFails(t) \/ UnlockMutex(t)
  PROVE  TypeOK'
<1> USE NamesAssumption
<1>1. CASE Fork(t) \/ Finish(t)
  BY <1>1 DEF TypeOK, Fork, Finish, Children, CallRecords
<1>2. CASE Return(t)
  BY <1>2 DEF TypeOK, Return, CallRecords
<1>3. ASSUME pc[t] # "client"
      PROVE  calls[t] # <<>> /\ Top(t).obj \in Objs /\ Top(t).mutex \in Mutexes \cup {None}
  BY <1>3, TopType DEF TypeOK, CallRecords
<1>4. CASE SetWaiting(t)
  BY <1>3, <1>4 DEF TypeOK, SetWaiting, CallRecords
<1>5. CASE TryLock(t)
  BY <1>5, TypeTryLock
<1>6. CASE Alarm(t)
  BY <1>6 DEF TypeOK, Alarm, CallRecords
<1>7. CASE Walk(t)
  <2>1. at[t] \in Objs
    BY <1>7 DEF TypeOK, Walk
  <2>2. owners[at[t]] # <<>> => Head(owners[at[t]]) \in Threads
    BY <2>1 DEF TypeOK
  <2>3. at' \in [Threads -> Objs \cup {None}]
    BY <1>7, <2>1, <2>2 DEF TypeOK, Walk
  <2>4. \A u \in Threads : pc'[u] = "walk" => at'[u] # None
    BY <1>7 DEF TypeOK, Walk
  <2>5. pc' \in [Threads -> {"client", "choose", "wait", "try", "walk", "block", "got",
                             "push", "pop", "unlock", "done"}]
    BY <1>7 DEF TypeOK, Walk
  <2>6. \A u \in Threads : pc'[u] # "client" => calls'[u] # <<>>
    BY <1>7 DEF TypeOK, Walk
  <2> QED
    BY <1>7, <2>3, <2>4, <2>5, <2>6 DEF TypeOK, Walk, CallRecords
<1>8. CASE LockMutex(t)
  BY <1>3, <1>8 DEF TypeOK, LockMutex, Take, CallRecords
<1>9. CASE ClearWaiting(t)
  BY <1>9 DEF TypeOK, ClearWaiting, CallRecords
<1>10. CASE PushFails(t)
  BY <1>3, <1>10 DEF TypeOK, PushFails, Untake, CallRecords
<1>11. CASE UnlockMutex(t)
  BY <1>3, <1>11 DEF TypeOK, UnlockMutex, Untake, CallRecords
<1> QED
  BY <1>1, <1>2, <1>4, <1>5, <1>6, <1>7, <1>8, <1>9, <1>10, <1>11

\* A new call keeps the types.
LEMMA TypeCall ==
  ASSUME TypeOK, NEW t \in Threads, NEW l \in Locks, Call(t, l)
  PROVE  TypeOK'
<1>1. /\ calls' \in [Threads -> Seq(CallRecords)]
      /\ \A u \in Threads : u # t => calls'[u] = calls[u]
      /\ Len(calls'[t]) = Depth(t) + 1
      /\ Depth(t) \in Nat
  BY CallEffect, CallType
<1>2. calls'[t] # <<>>
  BY <1>1, EmptySeq
<1>3. PICK o \in Objs : /\ bound' = [bound EXCEPT ![l] = o]
                        /\ refs' = [refs EXCEPT ![o] = IF bound[l] = o THEN @ + 1 ELSE 1]
  BY DEF Call
<1>4. bound' \in [Locks -> Objs \cup {None}] /\ refs' \in [Objs -> Nat]
  BY <1>3 DEF TypeOK
<1> QED
  BY <1>1, <1>2, <1>4 DEF TypeOK, Call, CallRecords

\* The choice of a mutex keeps the types.
LEMMA TypeChoose ==
  ASSUME TypeOK, NEW t \in Threads, Choose(t)
  PROVE  TypeOK'
<1>1. CASE Reentrant(t, Top(t).obj)
  BY <1>1 DEF TypeOK, Choose, CallRecords
<1>2. CASE ~Reentrant(t, Top(t).obj)
  <2>1. /\ calls' \in [Threads -> Seq(CallRecords)]
        /\ \A u \in Threads : u # t => calls'[u] = calls[u]
        /\ Len(calls'[t]) = Depth(t)
    BY <1>2, ChooseEffect
  <2>2. Depth(t) \in Nat \ {0}
    BY TopType DEF TypeOK, Choose
  <2>3. calls'[t] # <<>>
    BY <2>1, <2>2, EmptySeq
  <2> QED
    BY <1>2, <2>1, <2>3 DEF TypeOK, Choose, CallRecords
<1> QED
  BY <1>1, <1>2

\* A new node in an owner list keeps the types.
LEMMA TypePush ==
  ASSUME TypeOK, NEW t \in Threads, Push(t)
  PROVE  TypeOK'
<1>1. owners' \in [Objs -> Seq(Threads)]
  BY PushEffect
<1>2. Top(t).obj \in Objs
  BY PushEffect
<1>3. held' \in [Objs -> [Mutexes -> Threads \cup {None}]]
  BY <1>2 DEF TypeOK, Push, Mutexes
<1> QED
  BY <1>1, <1>3 DEF TypeOK, Push, CallRecords

\* Removing a node from an owner list that has one keeps the types.
LEMMA TypePop ==
  ASSUME TypeOK, NEW t \in Threads, Pop(t), owners[Top(t).obj] # <<>>
  PROVE  TypeOK'
<1>1. owners' \in [Objs -> Seq(Threads)]
  BY PopEffect
<1> QED
  BY <1>1 DEF TypeOK, Pop, CallRecords

\* A call that ends is counted, so the count does not go below zero.
LEMMA TypeDone ==
  ASSUME TypeOK, NEW t \in Threads, Done(t), refs[Top(t).obj] # 0
  PROVE  TypeOK'
<1>1. /\ calls' \in [Threads -> Seq(CallRecords)]
      /\ \A u \in Threads : u # t => calls'[u] = calls[u]
  BY DoneEffect
<1>2. calls[t] # <<>>
  BY DEF Done, TypeOK
<1>3. Top(t) \in CallRecords
  BY <1>2, TopType
<1>4. Top(t).obj \in Objs /\ Top(t).lock \in Locks
  BY <1>3 DEF CallRecords
<1>5. refs' \in [Objs -> Nat] /\ bound' \in [Locks -> Objs \cup {None}]
  BY <1>4 DEF TypeOK, Done
<1> QED
  BY <1>1, <1>5 DEF TypeOK, Done, CallRecords

-----------------------------------------------------------------------------
(* Consequences of the invariant.                                          *)

\* While a thread takes a step, it has no descendants that exist, and so
\* none that call.
LEMMA Quiet ==
  ASSUME TypeOK, LiveInv, NEW t \in Threads, pc[t] # "client" \/ Runs(t)
  PROVE  /\ t \in live
         /\ \A u \in Threads : Descends(u, t) => u \notin live /\ calls[u] = <<>> /\ Depth(u) = 0
<1>1. t \in live
  BY DEF LiveInv, Runs
<1>2. ASSUME NEW u \in Threads, Descends(u, t)
      PROVE  u \notin live
  BY <1>2 DEF LiveInv, Runs
<1>3. ASSUME NEW u \in Threads, Descends(u, t)
      PROVE  calls[u] = <<>> /\ Depth(u) = 0
  BY <1>2, <1>3, EmptySeq DEF LiveInv, Depth
<1> QED
  BY <1>1, <1>2, <1>3

\* An owner that takes a step is the innermost one.
LEMMA Innermost ==
  ASSUME IInv, NEW t \in Threads, pc[t] # "client" \/ Runs(t),
         NEW o \in Objs, InList(t, o)
  PROVE  owners[o] # <<>> /\ owners[o][1] = t /\ Reentrant(t, o)
<1> USE DEF IInv
<1>1. PICK k \in 1..Len(owners[o]) : owners[o][k] = t
  BY DEF InList
<1>2. Len(owners[o]) \in Nat /\ owners[o] # <<>> /\ Head(owners[o]) = owners[o][1]
  BY <1>1, OwnerType
<1>3. ASSUME k # 1 PROVE FALSE
  <2> DEFINE u == owners[o][1]
  <2>1. u \in Threads /\ 1 \in 1..Len(owners[o])
    BY <1>2, OwnerType
  <2>2. Descends(u, t)
    BY <1>1, <1>2, <1>3, <2>1 DEF ChainInv
  <2>3. Depth(u) = 0
    BY <2>1, <2>2, Quiet
  <2>4. InList(u, o)
    BY <2>1 DEF InList
  <2> HIDE DEF u
  <2>5. PICK i \in 1..Depth(u) : OwnsNode(u, i)
    BY <2>1, <2>4 DEF NodeInv
  <2> QED
    BY <2>3, <2>5
<1> QED
  BY <1>1, <1>2, <1>3 DEF Reentrant

\* A call that has its mutex but not its node is the only one of its thread
\* that competes for the object.
LEMMA NotInList ==
  ASSUME IInv, NEW t \in Threads, calls[t] # <<>>, Top(t).mutex # None,
         pc[t] \notin {"client", "pop"}
  PROVE  ~InList(t, Top(t).obj)
<1> USE DEF IInv
<1> DEFINE o == Top(t).obj
<1>1. /\ Depth(t) \in 1..Depth(t)
      /\ o \in Objs
      /\ Obj(t, Depth(t)) = o
      /\ Mutex(t, Depth(t)) # None
  BY TopType DEF CallRecords
<1>2. ASSUME InList(t, o) PROVE FALSE
  <2>1. PICK i \in 1..Depth(t) : OwnsNode(t, i) /\ Obj(t, i) = o
    BY <1>1, <1>2 DEF NodeInv
  <2>2. Mutex(t, i) # None /\ i < Depth(t)
    BY <2>1 DEF OwnsNode
  <2>3. i = Depth(t)
    BY <1>1, <2>1, <2>2 DEF UniqueInv
  <2>4. Depth(t) \in Nat
    BY CallType
  <2> QED
    BY <2>2, <2>3, <2>4
<1> QED
  BY <1>2

\* The mutex of the top call is what the chain of owners has not taken: it
\* is the fallback mutex of an empty list or the mutex of the head.
LEMMA PushFits ==
  ASSUME IInv, NEW t \in Threads, pc[t] = "push"
  PROVE  LET o == Top(t).obj IN
         /\ held[o][Top(t).mutex] = t
         /\ ~InList(t, o)
         /\ Top(t).mutex = IF owners[o] = <<>> THEN Fallback ELSE owners[o][1]
         /\ \A j \in 1..Len(owners[o]) : Descends(t, owners[o][j])
<1> USE DEF IInv
<1> DEFINE o == Top(t).obj
           a == Top(t).mutex
<1>1. calls[t] # <<>> /\ a # None
  BY DEF TypeOK, TopInv
<1>2. /\ Depth(t) \in 1..Depth(t)
      /\ o \in Objs /\ a \in Mutexes
      /\ Obj(t, Depth(t)) = o /\ Mutex(t, Depth(t)) = a
  BY <1>1, TopType DEF CallRecords
<1>3. ~InList(t, o)
  BY <1>1, NotInList
<1> HIDE DEF o, a
<1>4. held[o][a] = t
  BY <1>1, <1>2 DEF MutexInv, OwnsMutex
<1>5. /\ Len(owners[o]) \in Nat
      /\ owners[o] # <<>> <=> Len(owners[o]) > 0
      /\ \A i \in 1..Len(owners[o]) : owners[o][i] \in Threads
  BY <1>2, OwnerType
<1>6. ASSUME NEW i \in 1..Len(owners[o]),
             a = IF i = Len(owners[o]) THEN Fallback ELSE owners[o][i + 1]
      PROVE  FALSE
  <2>1. held[o][a] = owners[o][i]
    BY <1>2, <1>6 DEF ChainInv
  <2> QED
    BY <1>3, <1>4, <2>1 DEF InList
<1>7. CASE a = Fallback
  <2>1. owners[o] = <<>>
    BY <1>5, <1>6, <1>7
  <2>2. Len(owners[o]) = 0
    BY <1>5, <2>1
  <2> QED
    BY <1>3, <1>4, <1>7, <2>1, <2>2 DEF o, a
<1>8. CASE a \in Threads
  <2>1. Descends(t, a) /\ InList(a, o)
    BY <1>2, <1>8 DEF ChoiceInv
  <2>2. PICK k \in 1..Len(owners[o]) : owners[o][k] = a
    BY <2>1 DEF InList
  <2>3. k = 1
    <3>1. ASSUME k # 1 PROVE FALSE
      <4>1. k - 1 \in 1..Len(owners[o]) /\ k - 1 # Len(owners[o]) /\ (k - 1) + 1 = k
        BY <1>5, <3>1
      <4> QED
        BY <1>6, <2>2, <4>1
    <3> QED
      BY <3>1
  <2>4. owners[o] # <<>> /\ owners[o][1] = a /\ 1 \in 1..Len(owners[o])
    BY <1>5, <2>2, <2>3
  <2>5. ASSUME NEW j \in 1..Len(owners[o])
        PROVE  Descends(t, owners[o][j])
    <3>1. CASE j = 1
      BY <2>1, <2>4, <3>1
    <3>2. CASE j # 1
      <4>1. 1 < j
        BY <1>5, <3>2
      <4>2. Descends(a, owners[o][j])
        BY <1>2, <2>4, <4>1 DEF ChainInv
      <4> QED
        BY <1>5, <1>8, <2>1, <4>2, Forest
    <3> QED
      BY <3>1, <3>2
  <2> QED
    BY <1>3, <1>4, <2>4, <2>5 DEF o, a
<1> QED
  BY <1>2, <1>7, <1>8 DEF Mutexes

-----------------------------------------------------------------------------
(* Each step preserves the invariant.                                      *)

\* The invariant holds before the first call.
LEMMA InitIInv ==
  ASSUME Init PROVE IInv
<1> USE NamesAssumption, ForestAssumption DEF Init
<1>1. /\ \A t \in Threads : calls[t] = <<>> /\ Depth(t) = 0
      /\ \A o \in Objs : owners[o] = <<>> /\ Len(owners[o]) = 0
  BY EmptySeq DEF Depth
<1>2. TypeOK
  BY EmptySeq DEF TypeOK
<1>3. LiveInv
  BY <1>1 DEF LiveInv, Descends
<1>4. TopInv
  BY DEF TopInv
<1>5. BoundInv /\ UniqueInv /\ ReentrantInv /\ ChoiceInv
  BY <1>1 DEF BoundInv, UniqueInv, ReentrantInv, ChoiceInv
<1>6. NodeInv
  BY <1>1 DEF NodeInv, InList
<1>7. MutexInv
  BY <1>1 DEF MutexInv, Mutexes
<1>8. ChainInv
  BY <1>1 DEF ChainInv
<1>9. RefInv
  <2>1. \A o \in Objs : CallsOf(o) = {}
    BY <1>1, BoundAssumption DEF CallsOf
  <2>2. \A o \in Objs : refs[o] = Cardinality(CallsOf(o))
    BY <2>1, FS_EmptySet
  <2>3. \A t \in Threads : Depth(t) <= MaxDepth
    BY <1>1, BoundAssumption
  <2> QED
    BY <2>2, <2>3 DEF RefInv
<1> QED
  BY <1>2, <1>3, <1>4, <1>5, <1>6, <1>7, <1>8, <1>9 DEF IInv

\* Where a call has locked its mutex and does not execute its callback.
Locked == {"got", "push", "pop", "unlock"}

\* Steps of a call that is entering or leaving and that change no call, no
\* list and no count keep what does not depend on the mutexes.
LEMMA FrameStep ==
  ASSUME IInv, NEW t \in Threads, NEW x,
         UNCHANGED <<live, calls, bound, refs, owners>>,
         pc' = [pc EXCEPT ![t] = x],
         pc[t] \notin {"client", "choose"}, x \notin {"client", "choose"},
         pc[t] = "done" => x = "done",
         x = "pop" <=> pc[t] = "pop"
  PROVE  /\ LiveInv' /\ TopInv' /\ BoundInv' /\ RefInv' /\ UniqueInv' /\ ReentrantInv'
         /\ NodeInv' /\ ChoiceInv'
         /\ \A u \in Threads : \A i \in 1..Depth(u) : u # t \/ i # Depth(u) =>
              (OwnsMutex(u, i)' <=> OwnsMutex(u, i))
         /\ \A i \in 1..Depth(t) : i = Depth(t) =>
              (OwnsMutex(t, i)' <=> (Mutex(t, i) # None /\ x \in Locked))
<1> USE DEF IInv
<1>1. /\ pc'[t] = x
      /\ \A u \in Threads : u # t => pc'[u] = pc[u]
  BY DEF TypeOK
<1>2. LiveInv'
  BY <1>1, Quiet DEF LiveInv, Depth
<1>3. TopInv'
  BY <1>1 DEF TopInv, Top, Depth
<1>4. BoundInv' /\ UniqueInv' /\ ChoiceInv' /\ RefInv'
  <2>1. BoundInv' /\ UniqueInv'
    BY DEF BoundInv, UniqueInv, Obj, Mutex, Depth
  <2>2. ChoiceInv'
    BY DEF ChoiceInv, InList, Obj, Mutex, Depth
  <2>3. \A o \in Objs : CallsOf(o)' = CallsOf(o)
    BY DEF CallsOf, Depth
  <2>4. RefInv'
    BY <2>3 DEF RefInv, Depth
  <2> QED
    BY <2>1, <2>2, <2>4
<1>5. ReentrantInv'
  BY <1>1 DEF ReentrantInv, InCallback, Obj, Mutex, Depth
<1>6. \A u \in Threads : \A i \in 1..Depth(u) : OwnsNode(u, i)' <=> OwnsNode(u, i)
  BY <1>1 DEF OwnsNode, Mutex, Depth
<1>7. NodeInv'
  BY <1>6 DEF NodeInv, InList, Obj, Depth
<1>8. \A u \in Threads : \A i \in 1..Depth(u) : u # t \/ i # Depth(u) =>
        (OwnsMutex(u, i)' <=> OwnsMutex(u, i))
  <2>1. \A u \in Threads : Depth(u) \in Nat
    BY CallType
  <2> QED
    BY <1>1, <2>1 DEF OwnsMutex, Mutex, Depth
<1>9. \A i \in 1..Depth(t) : i = Depth(t) =>
        (OwnsMutex(t, i)' <=> (Mutex(t, i) # None /\ x \in Locked))
  <2>1. Depth(t) \in Nat
    BY CallType
  <2> QED
    BY <1>1, <2>1 DEF OwnsMutex, Mutex, Depth, Locked
<1> QED
  BY <1>2, <1>3, <1>4, <1>5, <1>7, <1>8, <1>9

\* A call that neither locks nor unlocks its mutex.
LEMMA SilentSteps ==
  ASSUME IInv, NEW t \in Threads,
         \/ SetWaiting(t) \/ Alarm(t) \/ Walk(t) \/ ClearWaiting(t)
         \/ TryLock(t) /\ UNCHANGED held
  PROVE  IInv'
<1> USE DEF IInv
<1>0. PICK x : x = pc'[t]
  OBVIOUS
<1>1. /\ pc' = [pc EXCEPT ![t] = x]
      /\ x \notin {"client", "choose", "pop"}
      /\ pc[t] \notin {"client", "choose", "done", "pop"}
      /\ x \in Locked <=> pc[t] \in Locked
  <2>1. CASE SetWaiting(t)
    BY <1>0, <2>1 DEF SetWaiting, Locked, TypeOK
  <2>2. CASE Alarm(t)
    BY <1>0, <2>2 DEF Alarm, Locked, TypeOK
  <2>3. CASE Walk(t)
    <3> DEFINE y == IF at'[t] = None THEN "block" ELSE "walk"
    <3>1. pc' = [pc EXCEPT ![t] = y] /\ y \in {"block", "walk"} /\ pc[t] = "walk"
      BY <2>3 DEF Walk
    <3> HIDE DEF y
    <3> QED
      BY <1>0, <3>1 DEF Locked, TypeOK
  <2>4. CASE ClearWaiting(t)
    BY <1>0, <2>4 DEF ClearWaiting, Locked, TypeOK
  <2>5. CASE TryLock(t) /\ UNCHANGED held
    <3>1. pc' = [pc EXCEPT ![t] = "walk"] /\ pc[t] = "try"
      <4>1. CASE IsFree(t) /\ Take(t)
        <5>1. calls[t] # <<>> /\ Top(t).mutex # None
          BY <2>5 DEF TypeOK, TopInv, TryLock
        <5>2. Top(t).obj \in Objs /\ Top(t).mutex \in Mutexes
          BY <5>1, TopType DEF CallRecords
        <5>3. held'[Top(t).obj][Top(t).mutex] = t
          BY <4>1, <5>2 DEF Take, TypeOK
        <5> QED
          BY <2>5, <4>1, <5>3, NamesAssumption DEF IsFree
      <4> QED
        BY <2>5, <4>1 DEF TryLock
    <3> QED
      BY <1>0, <3>1 DEF Locked, TypeOK
  <2> QED
    BY <2>1, <2>2, <2>3, <2>4, <2>5
<1>2. UNCHANGED <<live, calls, bound, refs, owners, held>>
  BY DEF SetWaiting, Alarm, Walk, ClearWaiting, TryLock
<1>3. TypeOK'
  BY TypePlainSteps
<1>4. /\ LiveInv' /\ TopInv' /\ BoundInv' /\ RefInv' /\ UniqueInv' /\ ReentrantInv'
      /\ NodeInv' /\ ChoiceInv'
      /\ \A u \in Threads : \A i \in 1..Depth(u) : u # t \/ i # Depth(u) =>
           (OwnsMutex(u, i)' <=> OwnsMutex(u, i))
      /\ \A i \in 1..Depth(t) : i = Depth(t) =>
           (OwnsMutex(t, i)' <=> (Mutex(t, i) # None /\ x \in Locked))
  BY <1>1, <1>2, FrameStep
<1>5. \A i \in 1..Depth(t) : i = Depth(t) =>
        (OwnsMutex(t, i) <=> (Mutex(t, i) # None /\ pc[t] \in Locked))
  <2>1. Depth(t) \in Nat
    BY CallType
  <2> QED
    BY <1>1, <2>1 DEF OwnsMutex, Locked
<1>6. \A u \in Threads : \A i \in 1..Depth(u) : OwnsMutex(u, i)' <=> OwnsMutex(u, i)
  BY <1>1, <1>4, <1>5
<1>7. MutexInv'
  BY <1>2, <1>6 DEF MutexInv, Obj, Mutex, Depth
<1>8. ChainInv'
  BY <1>2 DEF ChainInv
<1> QED
  BY <1>3, <1>4, <1>7, <1>8

\* A call locks its mutex.
LEMMA TakeSteps ==
  ASSUME IInv, NEW t \in Threads,
         LockMutex(t) \/ (TryLock(t) /\ Take(t))
  PROVE  IInv'
<1> USE DEF IInv
<1> DEFINE o == Top(t).obj
           a == Top(t).mutex
<1>1. /\ pc[t] \in {"try", "block"}
      /\ IsFree(t) /\ Take(t)
      /\ pc' = [pc EXCEPT ![t] = "got"]
      /\ UNCHANGED <<live, calls, bound, refs, owners>>
  <2>1. CASE LockMutex(t)
    BY <2>1 DEF LockMutex
  <2>2. CASE TryLock(t) /\ Take(t)
    <3>1. CASE IsFree(t)
      BY <2>2, <3>1 DEF TryLock
    <3>2. CASE ~IsFree(t)
      <4>1. UNCHANGED held
        BY <2>2, <3>2 DEF TryLock
      <4>2. Top(t).obj \in Objs /\ Top(t).mutex \in Mutexes
        BY <2>2, TopType DEF TypeOK, TopInv, CallRecords, TryLock
      <4>3. held[o][a] = t
        BY <2>2, <4>1, <4>2 DEF Take, TypeOK
      <4>4. PICK i \in 1..Depth(t) : OwnsMutex(t, i) /\ Obj(t, i) = o /\ Mutex(t, i) = a
        BY <4>2, <4>3 DEF MutexInv
      <4>5. /\ Depth(t) \in 1..Depth(t) /\ a # None
            /\ Obj(t, Depth(t)) = o /\ Mutex(t, Depth(t)) = a
        BY <2>2, TopType DEF TypeOK, TopInv, TryLock
      <4>6. i = Depth(t)
        BY <4>4, <4>5 DEF UniqueInv
      <4>7. Depth(t) \in Nat
        BY CallType
      <4> QED
        BY <2>2, <4>4, <4>6, <4>7 DEF OwnsMutex, TryLock
    <3> QED
      BY <3>1, <3>2
  <2> QED
    BY <2>1, <2>2
<1>2. /\ o \in Objs /\ a \in Mutexes /\ a # None
      /\ Depth(t) \in 1..Depth(t)
      /\ Obj(t, Depth(t)) = o /\ Mutex(t, Depth(t)) = a
  BY <1>1, TopType DEF TypeOK, TopInv, CallRecords
<1>3. /\ held[o][a] = None
      /\ held'[o][a] = t
      /\ \A x \in Objs, b \in Mutexes : x # o \/ b # a => held'[x][b] = held[x][b]
  BY <1>1, <1>2 DEF TypeOK, IsFree, Take
<1> HIDE DEF o, a
<1>4. TypeOK'
  BY TypePlainSteps
<1>5. /\ LiveInv' /\ TopInv' /\ BoundInv' /\ RefInv' /\ UniqueInv' /\ ReentrantInv'
      /\ NodeInv' /\ ChoiceInv'
      /\ \A u \in Threads : \A i \in 1..Depth(u) : u # t \/ i # Depth(u) =>
           (OwnsMutex(u, i)' <=> OwnsMutex(u, i))
      /\ \A i \in 1..Depth(t) : i = Depth(t) =>
           (OwnsMutex(t, i)' <=> (Mutex(t, i) # None /\ "got" \in Locked))
  BY <1>1, FrameStep
<1>6. \A i \in 1..Depth(t) : i = Depth(t) => OwnsMutex(t, i)'
  BY <1>2, <1>5 DEF Locked
<1>7. MutexInv'
  <2> SUFFICES ASSUME NEW x \in Objs, NEW b \in Mutexes, NEW u \in Threads
               PROVE  held'[x][b] = u
                        <=> \E i \in 1..Depth(u) : OwnsMutex(u, i)' /\ Obj(u, i) = x /\ Mutex(u, i) = b
    BY <1>1 DEF MutexInv, Obj, Mutex, Depth
  <2>1. CASE x = o /\ b = a
    <3>1. held[o][a] # u
      BY <1>3, NamesAssumption
    <3>2. \A i \in 1..Depth(u) : ~(OwnsMutex(u, i) /\ Obj(u, i) = o /\ Mutex(u, i) = a)
      BY <1>2, <3>1 DEF MutexInv
    <3>3. CASE u = t
      BY <1>2, <1>3, <1>6, <2>1, <3>3
    <3>4. CASE u # t
      BY <1>3, <1>5, <2>1, <3>2, <3>4
    <3> QED
      BY <3>3, <3>4
  <2>2. CASE x # o \/ b # a
    <3>1. held'[x][b] = held[x][b]
      BY <1>3, <2>2
    <3>2. \A i \in 1..Depth(u) : Obj(u, i) = x /\ Mutex(u, i) = b => (OwnsMutex(u, i)' <=> OwnsMutex(u, i))
      BY <1>2, <1>5, <2>2
    <3> QED
      BY <3>1, <3>2 DEF MutexInv
  <2> QED
    BY <2>1, <2>2
<1>8. ChainInv'
  <2> SUFFICES ASSUME NEW x \in Objs, NEW i \in 1..Len(owners[x])
               PROVE  held'[x][IF i = Len(owners[x]) THEN Fallback ELSE owners[x][i + 1]] = owners[x][i]
    BY <1>1 DEF ChainInv
  <2> DEFINE b == IF i = Len(owners[x]) THEN Fallback ELSE owners[x][i + 1]
  <2>1. /\ Len(owners[x]) \in Nat
        /\ \A j \in 1..Len(owners[x]) : owners[x][j] \in Threads
    BY OwnerType
  <2>2. b \in Mutexes /\ owners[x][i] \in Threads
    BY <2>1 DEF Mutexes
  <2>3. held[x][b] = owners[x][i]
    BY DEF ChainInv
  <2>4. x # o \/ b # a
    BY <1>3, <2>2, <2>3, NamesAssumption
  <2> QED
    BY <1>3, <2>2, <2>3, <2>4
<1> QED
  BY <1>4, <1>5, <1>7, <1>8

\* A call unlocks its mutex, which no owner in the list has.
LEMMA UntakeSteps ==
  ASSUME IInv, NEW t \in Threads, PushFails(t) \/ UnlockMutex(t)
  PROVE  IInv'
<1> USE DEF IInv
<1> DEFINE o == Top(t).obj
           a == Top(t).mutex
<1>1. /\ pc[t] \in {"push", "unlock"}
      /\ Untake(t)
      /\ pc' = [pc EXCEPT ![t] = "done"]
      /\ UNCHANGED <<live, calls, bound, refs, owners>>
  BY DEF PushFails, UnlockMutex
<1>2. /\ o \in Objs /\ a \in Mutexes /\ a # None
      /\ Depth(t) \in 1..Depth(t) /\ calls[t] # <<>>
      /\ Obj(t, Depth(t)) = o /\ Mutex(t, Depth(t)) = a
  BY <1>1, TopType DEF TypeOK, TopInv, CallRecords
<1>3. /\ held'[o][a] = None
      /\ \A x \in Objs, b \in Mutexes : x # o \/ b # a => held'[x][b] = held[x][b]
  BY <1>1, <1>2 DEF TypeOK, Untake
<1>4. ~InList(t, o)
  BY <1>1, <1>2, NotInList
<1> HIDE DEF o, a
<1>5. TypeOK'
  BY TypePlainSteps
<1>6. /\ LiveInv' /\ TopInv' /\ BoundInv' /\ RefInv' /\ UniqueInv' /\ ReentrantInv'
      /\ NodeInv' /\ ChoiceInv'
      /\ \A u \in Threads : \A i \in 1..Depth(u) : u # t \/ i # Depth(u) =>
           (OwnsMutex(u, i)' <=> OwnsMutex(u, i))
      /\ \A i \in 1..Depth(t) : i = Depth(t) =>
           (OwnsMutex(t, i)' <=> (Mutex(t, i) # None /\ "done" \in Locked))
  BY <1>1, FrameStep
<1>7. \A i \in 1..Depth(t) : i = Depth(t) => ~(OwnsMutex(t, i)')
  BY <1>6 DEF Locked
<1>8. held[o][a] = t
  BY <1>1, <1>2 DEF MutexInv, OwnsMutex
<1>9. MutexInv'
  <2> SUFFICES ASSUME NEW x \in Objs, NEW b \in Mutexes, NEW u \in Threads
               PROVE  held'[x][b] = u
                        <=> \E i \in 1..Depth(u) : OwnsMutex(u, i)' /\ Obj(u, i) = x /\ Mutex(u, i) = b
    BY <1>1 DEF MutexInv, Obj, Mutex, Depth
  <2>1. CASE x = o /\ b = a
    <3>1. held'[x][b] # u
      BY <1>3, <2>1, NamesAssumption
    <3>2. ASSUME NEW i \in 1..Depth(u), OwnsMutex(u, i)', Obj(u, i) = o, Mutex(u, i) = a
          PROVE  FALSE
      <4>1. u # t \/ i # Depth(u)
        BY <1>7, <3>2
      <4>2. OwnsMutex(u, i)
        BY <1>6, <3>2, <4>1
      <4>3. u = t
        BY <1>2, <1>8, <3>2, <4>2 DEF MutexInv
      <4>4. i = Depth(t)
        BY <1>2, <3>2, <4>3 DEF UniqueInv
      <4> QED
        BY <4>1, <4>3, <4>4
    <3> QED
      BY <2>1, <3>1, <3>2
  <2>2. CASE x # o \/ b # a
    <3>1. held'[x][b] = held[x][b]
      BY <1>3, <2>2
    <3>2. \A i \in 1..Depth(u) : Obj(u, i) = x /\ Mutex(u, i) = b => (OwnsMutex(u, i)' <=> OwnsMutex(u, i))
      BY <1>2, <1>6, <2>2
    <3> QED
      BY <3>1, <3>2 DEF MutexInv
  <2> QED
    BY <2>1, <2>2
<1>10. ChainInv'
  <2> SUFFICES ASSUME NEW x \in Objs, NEW i \in 1..Len(owners[x])
               PROVE  held'[x][IF i = Len(owners[x]) THEN Fallback ELSE owners[x][i + 1]] = owners[x][i]
    BY <1>1 DEF ChainInv
  <2> DEFINE b == IF i = Len(owners[x]) THEN Fallback ELSE owners[x][i + 1]
  <2>1. /\ Len(owners[x]) \in Nat
        /\ \A j \in 1..Len(owners[x]) : owners[x][j] \in Threads
    BY OwnerType
  <2>2. b \in Mutexes
    BY <2>1 DEF Mutexes
  <2>3. held[x][b] = owners[x][i]
    BY DEF ChainInv
  <2>4. x = o => owners[x][i] # t
    BY <1>4 DEF InList
  <2>5. x # o \/ b # a
    BY <1>8, <2>3, <2>4
  <2> QED
    BY <1>3, <2>2, <2>3, <2>5
<1> QED
  BY <1>5, <1>6, <1>9, <1>10

\* Threads start and end.
LEMMA ForkFinish ==
  ASSUME IInv, NEW t \in Threads, Fork(t) \/ Finish(t)
  PROVE  IInv'
<1> USE DEF IInv
<1>1. UNCHANGED <<pc, calls, bound, refs, owners, held>>
  BY DEF Fork, Finish
<1>2. TypeOK'
  BY TypePlainSteps
<1>3. ASSUME Fork(t) PROVE LiveInv'
  <2>1. PICK C \in SUBSET Children(t) : live' = live \cup C
    BY <1>3 DEF Fork
  <2>2. t \in live /\ pc[t] = "client"
    BY <1>3 DEF Fork, Runs
  <2>3. \A c \in C : c \in Threads /\ \A q \in Threads : Descends(c, q) => q \in Ancestors[t]
    BY <2>1 DEF Children
  <2>4. \A q \in Ancestors[t] : q \in live /\ pc[q] = "client"
    BY <2>2, ForestAssumption DEF LiveInv, Descends
  <2>5. ASSUME NEW c \in C
        PROVE  Ancestors[c] \subseteq live'
    BY <2>1, <2>3, <2>4, ForestAssumption DEF Descends
  <2>6. LiveInv'
    BY <1>1, <2>1, <2>3, <2>4, <2>5 DEF LiveInv
  <2> QED
    BY <2>6
<1>4. ASSUME Finish(t) PROVE LiveInv'
  <2>1. live' = live \ {t} /\ calls[t] = <<>> /\ pc[t] = "client"
    BY <1>4 DEF Finish
  <2>2. \A u \in live : ~Descends(u, t)
    BY <1>4 DEF Finish, Runs
  <2>3. \A u \in live' : Ancestors[u] \subseteq live'
    BY <2>1, <2>2 DEF LiveInv, Descends
  <2> QED
    BY <1>1, <2>1, <2>3 DEF LiveInv
<1>5. TopInv' /\ BoundInv' /\ UniqueInv' /\ ReentrantInv'
  BY <1>1 DEF TopInv, BoundInv, UniqueInv, ReentrantInv, InCallback, Top, Obj, Mutex, Depth
<1>6. NodeInv' /\ MutexInv'
  BY <1>1 DEF NodeInv, MutexInv, OwnsNode, OwnsMutex, InList, Obj, Mutex, Depth
<1>7. ChoiceInv' /\ ChainInv'
  BY <1>1 DEF ChoiceInv, ChainInv, InList, Obj, Mutex, Depth
<1>8. RefInv'
  <2>1. \A o \in Objs : CallsOf(o)' = CallsOf(o)
    BY <1>1 DEF CallsOf, Depth
  <2> QED
    BY <1>1, <2>1 DEF RefInv, Depth
<1> QED
  BY <1>2, <1>3, <1>4, <1>5, <1>6, <1>7, <1>8

\* The callback returns.
LEMMA ReturnStep ==
  ASSUME IInv, NEW t \in Threads, Return(t)
  PROVE  IInv'
<1> USE DEF IInv
<1>1. /\ UNCHANGED <<live, calls, bound, refs, owners, held>>
      /\ pc[t] = "client" /\ Runs(t) /\ calls[t] # <<>>
      /\ pc' = [pc EXCEPT ![t] = IF Top(t).mutex = None THEN "done" ELSE "pop"]
  BY DEF Return
<1>2. /\ pc'[t] = IF Top(t).mutex = None THEN "done" ELSE "pop"
      /\ \A u \in Threads : u # t => pc'[u] = pc[u]
  BY <1>1 DEF TypeOK
<1>3. /\ Depth(t) \in Nat \ {0} /\ Mutex(t, Depth(t)) = Top(t).mutex
      /\ \A u \in Threads : Depth(u) \in Nat
  BY <1>1, TopType, CallType
<1>4. TypeOK'
  BY TypePlainSteps
<1>5. LiveInv'
  <2>1. t \in live /\ \A u \in Threads : Descends(u, t) => u \notin live
    BY <1>1, Quiet
  <2>2. \A u \in Threads : u \notin live => calls'[u] = <<>> /\ pc'[u] = "client"
    BY <1>1, <1>2, <2>1 DEF LiveInv
  <2>3. \A u \in live, p \in Threads : Descends(u, p) => pc'[p] = "client"
    BY <1>2, <2>1, ForestAssumption DEF LiveInv, TypeOK
  <2> QED
    BY <1>1, <2>2, <2>3 DEF LiveInv
<1>6. TopInv'
  BY <1>1, <1>2 DEF TopInv, Top, Depth
<1>7. BoundInv' /\ UniqueInv' /\ ChoiceInv' /\ ChainInv'
  BY <1>1 DEF BoundInv, UniqueInv, ChoiceInv, ChainInv, InList, Obj, Mutex, Depth
<1>8. ReentrantInv'
  BY <1>1, <1>2 DEF ReentrantInv, InCallback, Obj, Mutex, Depth
<1>9. \A u \in Threads : \A i \in 1..Depth(u) :
        (OwnsNode(u, i)' <=> OwnsNode(u, i)) /\ (OwnsMutex(u, i)' <=> OwnsMutex(u, i))
  <2> SUFFICES ASSUME NEW u \in Threads, NEW i \in 1..Depth(u)
               PROVE  (OwnsNode(u, i)' <=> OwnsNode(u, i)) /\ (OwnsMutex(u, i)' <=> OwnsMutex(u, i))
    OBVIOUS
  <2>1. CASE u # t \/ i # Depth(t)
    BY <1>1, <1>2, <1>3, <2>1 DEF OwnsNode, OwnsMutex, Mutex, Depth
  <2>2. CASE u = t /\ i = Depth(t)
    BY <1>1, <1>2, <1>3, <2>2 DEF OwnsNode, OwnsMutex, Mutex, Depth
  <2> QED
    BY <2>1, <2>2
<1>10. NodeInv' /\ MutexInv'
  BY <1>1, <1>9 DEF NodeInv, MutexInv, InList, Obj, Mutex, Depth
<1>11. RefInv'
  <2>1. \A o \in Objs : CallsOf(o)' = CallsOf(o)
    BY <1>1 DEF CallsOf, Depth
  <2> QED
    BY <1>1, <2>1 DEF RefInv, Depth
<1> QED
  BY <1>4, <1>5, <1>6, <1>7, <1>8, <1>10, <1>11

\* All threads with all positions of their stacks of calls.
Pairs == Threads \X (1..MaxDepth)

\* The calls that refer to an object, as a set of pairs.
LEMMA CallsOfElements ==
  ASSUME NEW o \in Objs
  PROVE  /\ CallsOf(o) \subseteq Pairs
         /\ IsFiniteSet(CallsOf(o))
         /\ \A c \in Pairs : c \in CallsOf(o) <=> (c[2] <= Depth(c[1]) /\ Obj(c[1], c[2]) = o)
<1>1. CallsOf(o) \subseteq Pairs
  BY DEF CallsOf, Pairs
<1>2. IsFiniteSet(1..MaxDepth)
  BY BoundAssumption, FS_Interval
<1>3. IsFiniteSet(Pairs)
  BY <1>2, BoundAssumption, FS_Product DEF Pairs
<1>4. IsFiniteSet(CallsOf(o))
  BY <1>1, <1>3, FS_Subset
<1>5. \A c \in Pairs : c \in CallsOf(o) <=> (c[2] <= Depth(c[1]) /\ Obj(c[1], c[2]) = o)
  BY DEF CallsOf, Pairs, Obj
<1> QED
  BY <1>1, <1>4, <1>5

\* A pair in the set of all calls has a thread and a position.
LEMMA PairParts ==
  ASSUME NEW c \in Pairs
  PROVE  \E u \in Threads : \E i \in 1..MaxDepth : c[1] = u /\ c[2] = i /\ c = <<u, i>>
BY DEF Pairs

\* A call starts.
LEMMA CallStep ==
  ASSUME IInv, NEW t \in Threads, NEW l \in Locks, Call(t, l)
  PROVE  IInv'
<1> USE DEF IInv
<1> DEFINE D == Depth(t)
<1>1. /\ UNCHANGED <<live, owners, held>>
      /\ pc[t] = "client" /\ Runs(t) /\ Depth(t) < MaxDepth
      /\ pc'[t] = "choose"
      /\ \A u \in Threads : u # t => pc'[u] = pc[u]
  BY DEF Call, TypeOK
<1>2. /\ \A u \in Threads : u # t => calls'[u] = calls[u]
      /\ Len(calls'[t]) = D + 1
      /\ \A i \in 1..D : calls'[t][i] = calls[t][i]
  BY CallEffect
<1>3. PICK o \in Objs :
        /\ calls'[t][D + 1] = [lock |-> l, obj |-> o, mutex |-> None]
        /\ bound[l] = o \/ (bound[l] = None /\ \A k \in Locks : bound[k] # o)
        /\ bound' = [bound EXCEPT ![l] = o]
        /\ refs' = [refs EXCEPT ![o] = IF bound[l] = o THEN @ + 1 ELSE 1]
  BY CallEffect
<1>4. D \in Nat /\ \A u \in Threads : Depth(u) \in Nat
  BY CallType
<1>5. TypeOK'
  BY TypeCall
<1> HIDE DEF D
<1>6. /\ Depth(t)' = D + 1 /\ Depth(t) = D
      /\ \A u \in Threads : u # t => Depth(u)' = Depth(u)
  BY <1>2 DEF Depth, D
<1>7. /\ \A u \in Threads : \A i \in 1..Depth(u) : calls'[u][i] = calls[u][i]
      /\ \A u \in Threads : \A i \in 1..Depth(u) : Obj(u, i)' = Obj(u, i) /\ Mutex(u, i)' = Mutex(u, i)
      /\ \A i : i = D + 1 => Obj(t, i)' = o /\ Mutex(t, i)' = None
  BY <1>2, <1>3, <1>6 DEF Obj, Mutex
<1>8. \A u \in Threads, i \in Nat :
        i \in 1..Depth(u)' <=> (i \in 1..Depth(u) \/ (u = t /\ i = D + 1))
  BY <1>4, <1>6
<1>9. \A u \in Threads : \A i \in 1..Depth(u) :
        /\ OwnsNode(u, i)' <=> OwnsNode(u, i)
        /\ OwnsMutex(u, i)' <=> OwnsMutex(u, i)
        /\ InCallback(u, i)' <=> InCallback(u, i)
  <2> SUFFICES ASSUME NEW u \in Threads, NEW i \in 1..Depth(u)
               PROVE  /\ OwnsNode(u, i)' <=> OwnsNode(u, i)
                      /\ OwnsMutex(u, i)' <=> OwnsMutex(u, i)
                      /\ InCallback(u, i)' <=> InCallback(u, i)
    OBVIOUS
  <2>1. CASE u = t
    BY <1>1, <1>4, <1>6, <1>7, <2>1 DEF OwnsNode, OwnsMutex, InCallback
  <2>2. CASE u # t
    BY <1>1, <1>4, <1>6, <1>7, <2>2 DEF OwnsNode, OwnsMutex, InCallback
  <2> QED
    BY <2>1, <2>2
<1>10. \A i : i = D + 1 => ~(OwnsNode(t, i)') /\ ~(OwnsMutex(t, i)') /\ ~(InCallback(t, i)')
  BY <1>1, <1>4, <1>6, <1>7 DEF OwnsNode, OwnsMutex, InCallback
<1>11. LiveInv'
  <2>1. t \in live /\ \A u \in Threads : Descends(u, t) => u \notin live
    BY <1>1, Quiet
  <2>2. \A u \in Threads : u \notin live => calls'[u] = <<>> /\ pc'[u] = "client"
    BY <1>1, <1>2, <2>1 DEF LiveInv
  <2>3. \A u \in live, p \in Threads : Descends(u, p) => pc'[p] = "client"
    BY <1>1, <2>1 DEF LiveInv, TypeOK
  <2> QED
    BY <1>1, <2>2, <2>3 DEF LiveInv
<1>12. TopInv'
  BY <1>1, <1>2, <1>3, <1>6 DEF TopInv, Top, Depth
<1>13. BoundInv'
  <2>1. \A u \in Threads : \A i \in 1..Depth(u) : calls[u][i].lock \in Locks /\ Obj(u, i) # None
    BY CallType, NamesAssumption DEF CallRecords
  <2>2. \A u \in Threads : \A i \in 1..Depth(u) : bound'[calls[u][i].lock] = Obj(u, i)
    BY <1>3, <2>1 DEF BoundInv, TypeOK
  <2>3. bound'[l] = o
    BY <1>3 DEF TypeOK
  <2> QED
    BY <1>3, <1>4, <1>6, <1>7, <1>8, <2>2, <2>3 DEF BoundInv
<1>14. RefInv'
  <2>1. \A u \in Threads : Depth(u)' <= MaxDepth
    BY <1>1, <1>4, <1>6, BoundAssumption DEF RefInv
  <2> DEFINE new == <<t, D + 1>>
  <2>2. D + 1 \in 1..MaxDepth /\ new \in Pairs
    BY <1>1, <1>4, BoundAssumption DEF D, Pairs
  <2>3. ASSUME NEW x \in Objs, NEW c \in Pairs
        PROVE  c \in CallsOf(x)' <=> (c \in CallsOf(x) \/ (x = o /\ c = new))
    <3>1. PICK u \in Threads : \E i \in 1..MaxDepth : c[1] = u /\ c[2] = i /\ c = <<u, i>>
      BY PairParts
    <3>2. PICK i \in 1..MaxDepth : c[1] = u /\ c[2] = i /\ c = <<u, i>>
      BY <3>1
    <3>3. c \in CallsOf(x) <=> (i <= Depth(u) /\ Obj(u, i) = x)
      BY <3>2, CallsOfElements
    <3>4. c \in CallsOf(x)' <=> (i <= Depth(u)' /\ Obj(u, i)' = x)
      BY <3>2 DEF CallsOf, Pairs, Obj
    <3>5. c = new <=> (u = t /\ i = D + 1)
      BY <3>2
    <3>6. (i <= Depth(u)' /\ Obj(u, i)' = x)
            <=> ((i <= Depth(u) /\ Obj(u, i) = x) \/ (x = o /\ u = t /\ i = D + 1))
      <4>1. CASE u = t /\ i = D + 1
        BY <1>4, <1>6, <1>7, <4>1
      <4>2. CASE ~(u = t /\ i = D + 1)
        <5>1. i <= Depth(u)' <=> i <= Depth(u)
          BY <1>4, <1>6, <4>2
        <5>2. i <= Depth(u) => Obj(u, i)' = Obj(u, i)
          BY <1>4, <1>7
        <5> QED
          BY <4>2, <5>1, <5>2
      <4> QED
        BY <4>1, <4>2
    <3> HIDE DEF new
    <3> QED
      BY <3>3, <3>4, <3>5, <3>6, Zenon
  <2>4. new \notin CallsOf(o)
    <3>1. new[1] = t /\ new[2] = D + 1
      OBVIOUS
    <3>2. ~(D + 1 <= Depth(t))
      BY <1>4, <1>6
    <3> HIDE DEF new
    <3>3. new \in CallsOf(o) <=> (new[2] <= Depth(new[1]) /\ Obj(new[1], new[2]) = o)
      BY <2>2, CallsOfElements
    <3> QED
      BY <3>1, <3>2, <3>3
  <2> HIDE DEF new
  <2>5. \A x \in Objs : CallsOf(x) \subseteq Pairs /\ CallsOf(x)' \subseteq Pairs
    BY DEF CallsOf, Pairs
  <2>6. CallsOf(o)' = CallsOf(o) \cup {new} /\ \A x \in Objs : x # o => CallsOf(x)' = CallsOf(x)
    BY <2>2, <2>3, <2>5
  <2>8. Cardinality(CallsOf(o)') = Cardinality(CallsOf(o)) + 1
    BY <2>4, <2>6, CallsOfElements, FS_AddElement
  <2>9. bound[l] # o => Cardinality(CallsOf(o)) = 0
    <3>1. ASSUME bound[l] # o, NEW c \in CallsOf(o)
          PROVE  FALSE
      <4>1. c \in Pairs
        BY CallsOfElements
      <4>2. c[2] <= Depth(c[1]) /\ Obj(c[1], c[2]) = o
        BY <4>1, CallsOfElements
      <4>3. PICK u \in Threads : \E i \in 1..MaxDepth : i <= Depth(u) /\ Obj(u, i) = o
        BY <4>1, <4>2, PairParts
      <4>4. PICK i \in 1..MaxDepth : i <= Depth(u) /\ Obj(u, i) = o
        BY <4>3
      <4>5. i \in 1..Depth(u)
        BY <1>4, <4>4
      <4>6. calls[u][i].lock \in Locks
        BY <4>5, CallType DEF CallRecords
      <4> QED
        BY <1>3, <3>1, <4>4, <4>5, <4>6 DEF BoundInv
    <3>2. bound[l] # o => CallsOf(o) = {}
      BY <3>1
    <3> QED
      BY <3>2, FS_EmptySet
  <2>10. \A x \in Objs : refs'[x] = Cardinality(CallsOf(x)')
    <3>1. \A x \in Objs : x # o => refs'[x] = refs[x]
      BY <1>3 DEF TypeOK
    <3>2. refs'[o] = IF bound[l] = o THEN refs[o] + 1 ELSE 1
      BY <1>3 DEF TypeOK
    <3>3. refs[o] = Cardinality(CallsOf(o))
      BY DEF RefInv
    <3>4. refs'[o] = Cardinality(CallsOf(o)')
      BY <2>8, <2>9, <3>2, <3>3
    <3> QED
      BY <2>6, <3>1, <3>4 DEF RefInv
  <2> QED
    BY <2>1, <2>10 DEF RefInv
<1>15. UniqueInv'
  BY <1>4, <1>6, <1>7, <1>8 DEF UniqueInv
<1>16. ReentrantInv'
  <2> SUFFICES ASSUME NEW u \in Threads, NEW j \in 1..Depth(u)', InCallback(u, j)', Mutex(u, j)' = None
               PROVE  \E i \in 1..(j - 1) : Obj(u, i)' = Obj(u, j)' /\ Mutex(u, i)' # None
    BY DEF ReentrantInv
  <2>1. j \in 1..Depth(u)
    BY <1>4, <1>8, <1>10
  <2>2. PICK i \in 1..(j - 1) : Obj(u, i) = Obj(u, j) /\ Mutex(u, i) # None
    BY <1>7, <1>9, <2>1 DEF ReentrantInv
  <2>3. i \in 1..Depth(u)
    BY <1>4, <2>1, <2>2
  <2> QED
    BY <1>7, <2>1, <2>2, <2>3
<1>17. NodeInv'
  <2> SUFFICES ASSUME NEW x \in Objs, NEW u \in Threads
               PROVE  InList(u, x) <=> \E i \in 1..Depth(u)' : OwnsNode(u, i)' /\ Obj(u, i)' = x
    BY <1>1 DEF NodeInv, InList
  <2>1. (\E i \in 1..Depth(u)' : OwnsNode(u, i)' /\ Obj(u, i)' = x)
          <=> \E i \in 1..Depth(u) : OwnsNode(u, i) /\ Obj(u, i) = x
    BY <1>7, <1>8, <1>9, <1>10
  <2> QED
    BY <2>1 DEF NodeInv
<1>18. MutexInv'
  <2> SUFFICES ASSUME NEW x \in Objs, NEW a \in Mutexes, NEW u \in Threads
               PROVE  held[x][a] = u
                        <=> \E i \in 1..Depth(u)' : OwnsMutex(u, i)' /\ Obj(u, i)' = x /\ Mutex(u, i)' = a
    BY <1>1 DEF MutexInv
  <2>1. (\E i \in 1..Depth(u)' : OwnsMutex(u, i)' /\ Obj(u, i)' = x /\ Mutex(u, i)' = a)
          <=> \E i \in 1..Depth(u) : OwnsMutex(u, i) /\ Obj(u, i) = x /\ Mutex(u, i) = a
    BY <1>7, <1>8, <1>9, <1>10
  <2> QED
    BY <2>1 DEF MutexInv
<1>19. ChoiceInv'
  BY <1>1, <1>4, <1>7, <1>8, NamesAssumption DEF ChoiceInv, InList
<1>20. ChainInv'
  BY <1>1 DEF ChainInv
<1> QED
  BY <1>5, <1>11, <1>12, <1>13, <1>14, <1>15, <1>16, <1>17, <1>18, <1>19, <1>20

\* A call chooses its mutex, or finds its thread in the list already.
LEMMA ReentrantStep ==
  ASSUME IInv, NEW t \in Threads, Choose(t), Reentrant(t, Top(t).obj)
  PROVE  IInv'
<1> USE DEF IInv
<1> DEFINE D == Depth(t)
           o == Top(t).obj
<1>1. /\ UNCHANGED <<live, calls, bound, refs, owners, held>>
      /\ pc[t] = "choose"
      /\ pc' = [pc EXCEPT ![t] = "client"]
  BY DEF Choose
<1>2. /\ pc'[t] = "client" /\ calls[t] # <<>>
      /\ \A u \in Threads : u # t => pc'[u] = pc[u]
  BY <1>1 DEF TypeOK
<1>3. /\ D \in Nat \ {0} /\ Mutex(t, D) = None /\ Obj(t, D) = o /\ o \in Objs
      /\ \A u \in Threads : Depth(u) \in Nat
  BY <1>1, <1>2, TopType, CallType DEF TopInv, CallRecords
<1>4. TypeOK'
  BY TypeChoose
<1>5. LiveInv'
  BY <1>1, <1>2 DEF LiveInv, TypeOK
<1>6. TopInv'
  BY <1>1, <1>2 DEF TopInv, Top, Depth
<1>7. BoundInv' /\ UniqueInv' /\ ChoiceInv' /\ ChainInv'
  BY <1>1 DEF BoundInv, UniqueInv, ChoiceInv, ChainInv, InList, Obj, Mutex, Depth
<1>8. ReentrantInv'
  <2> SUFFICES ASSUME NEW u \in Threads, NEW j \in 1..Depth(u), InCallback(u, j)', Mutex(u, j) = None
               PROVE  \E i \in 1..(j - 1) : Obj(u, i) = Obj(u, j) /\ Mutex(u, i) # None
    BY <1>1 DEF ReentrantInv, Obj, Mutex, Depth
  <2>1. CASE InCallback(u, j)
    BY <2>1 DEF ReentrantInv
  <2>2. CASE ~InCallback(u, j)
    <3>1. u = t /\ j = D
      BY <1>1, <1>2, <1>3, <2>2 DEF InCallback, Depth
    <3>2. InList(t, o)
      BY <1>3, OwnerType DEF Reentrant, InList
    <3>3. PICK i \in 1..Depth(t) : OwnsNode(t, i) /\ Obj(t, i) = o
      BY <1>3, <3>2 DEF NodeInv
    <3>4. Mutex(t, i) # None
      BY <3>3 DEF OwnsNode
    <3>5. i \in 1..(D - 1)
      BY <1>3, <3>3, <3>4
    <3> QED
      BY <1>3, <3>1, <3>3, <3>4, <3>5
  <2> QED
    BY <2>1, <2>2
<1>9. \A u \in Threads : \A i \in 1..Depth(u) :
        (OwnsNode(u, i)' <=> OwnsNode(u, i)) /\ (OwnsMutex(u, i)' <=> OwnsMutex(u, i))
  <2> SUFFICES ASSUME NEW u \in Threads, NEW i \in 1..Depth(u)
               PROVE  (OwnsNode(u, i)' <=> OwnsNode(u, i)) /\ (OwnsMutex(u, i)' <=> OwnsMutex(u, i))
    OBVIOUS
  <2>1. CASE u # t \/ i # Depth(t)
    BY <1>1, <1>2, <1>3, <2>1 DEF OwnsNode, OwnsMutex, Mutex, Depth
  <2>2. CASE u = t /\ i = Depth(t)
    BY <1>1, <1>2, <1>3, <2>2 DEF OwnsNode, OwnsMutex, Mutex, Depth
  <2> QED
    BY <2>1, <2>2
<1>10. NodeInv' /\ MutexInv'
  BY <1>1, <1>9 DEF NodeInv, MutexInv, InList, Obj, Mutex, Depth
<1>11. RefInv'
  <2>1. \A x \in Objs : CallsOf(x)' = CallsOf(x)
    BY <1>1 DEF CallsOf, Depth
  <2> QED
    BY <1>1, <2>1 DEF RefInv, Depth
<1> QED
  BY <1>4, <1>5, <1>6, <1>7, <1>8, <1>10, <1>11

\* The other outcome of the choice: the call is not reentrant and competes.
LEMMA ChooseStep ==
  ASSUME IInv, NEW t \in Threads, Choose(t), ~Reentrant(t, Top(t).obj)
  PROVE  IInv'
<1> USE DEF IInv
<1> DEFINE D == Depth(t)
           o == Top(t).obj
<1>1. /\ UNCHANGED <<live, bound, refs, owners, held>>
      /\ pc[t] = "choose"
      /\ pc' = [pc EXCEPT ![t] = "wait"]
  BY DEF Choose
<1>2. /\ pc'[t] = "wait" /\ calls[t] # <<>>
      /\ \A u \in Threads : u # t => pc'[u] = pc[u]
  BY <1>1 DEF TypeOK
<1>3. /\ D \in Nat \ {0} /\ Mutex(t, D) = None /\ Obj(t, D) = o /\ o \in Objs
      /\ Top(t) \in CallRecords /\ Top(t) = calls[t][D]
      /\ \A u \in Threads : Depth(u) \in Nat
  BY <1>1, <1>2, TopType, CallType DEF TopInv, CallRecords
<1>4. PICK a \in Mutexes :
        /\ IsChoice(t, o, a)
        /\ \A u \in Threads : u # t => calls'[u] = calls[u]
        /\ Len(calls'[t]) = D
        /\ \A i \in 1..D : i # D => calls'[t][i] = calls[t][i]
        /\ calls'[t][D] = [Top(t) EXCEPT !.mutex = a]
  BY ChooseEffect
<1>5. TypeOK'
  BY TypeChoose
<1>6. ~InList(t, o)
  <2>1. InList(t, o) => Reentrant(t, o)
    BY <1>1, <1>3, Innermost
  <2> QED
    BY <2>1
<1>7. \A i \in 1..D : Obj(t, i) = o => Mutex(t, i) = None
  <2> SUFFICES ASSUME NEW i \in 1..D, Obj(t, i) = o, Mutex(t, i) # None
               PROVE  FALSE
    OBVIOUS
  <2>1. OwnsNode(t, i)
    BY <1>3 DEF OwnsNode
  <2> QED
    BY <1>3, <1>6, <2>1 DEF NodeInv
<1>8. calls'[t][D].lock = calls[t][D].lock /\ calls'[t][D].obj = o /\ calls'[t][D].mutex = a
  BY <1>3, <1>4 DEF CallRecords
<1> HIDE DEF D, o
<1>9. \A u \in Threads : Depth(u)' = Depth(u)
  BY <1>4 DEF Depth, D
<1>10. /\ \A u \in Threads : \A i \in 1..Depth(u) :
            /\ Obj(u, i)' = Obj(u, i) /\ calls'[u][i].lock = calls[u][i].lock
            /\ u # t \/ i # D => Mutex(u, i)' = Mutex(u, i)
       /\ \A i : i = D => Mutex(t, i)' = a
  BY <1>3, <1>4, <1>8 DEF Obj, Mutex, D
<1>11. a # None
  BY NamesAssumption DEF Mutexes
<1>12. LiveInv'
  BY <1>1, <1>2, <1>4, Quiet DEF LiveInv, TypeOK
<1>13. TopInv'
  BY <1>2, <1>4, <1>8, <1>11 DEF TopInv, Top, Depth, D
<1>14. BoundInv'
  BY <1>1, <1>9, <1>10 DEF BoundInv
<1>15. RefInv'
  <2>1. \A x \in Objs : CallsOf(x)' = CallsOf(x)
    <3>1. \A x \in Objs : \A c \in Pairs : c \in CallsOf(x)' <=> c \in CallsOf(x)
      <4> SUFFICES ASSUME NEW x \in Objs, NEW c \in Pairs
                   PROVE  c \in CallsOf(x)' <=> c \in CallsOf(x)
        OBVIOUS
      <4>1. PICK u \in Threads : \E i \in 1..MaxDepth : c[1] = u /\ c[2] = i /\ c = <<u, i>>
        BY PairParts
      <4>2. PICK i \in 1..MaxDepth : c[1] = u /\ c[2] = i /\ c = <<u, i>>
        BY <4>1
      <4>3. c \in CallsOf(x) <=> (i <= Depth(u) /\ Obj(u, i) = x)
        BY <4>2, CallsOfElements
      <4>4. c \in CallsOf(x)' <=> (i <= Depth(u)' /\ Obj(u, i)' = x)
        BY <4>2 DEF CallsOf, Pairs, Obj
      <4>5. i <= Depth(u) => Obj(u, i)' = Obj(u, i)
        BY <1>3, <1>10
      <4> QED
        BY <1>9, <4>3, <4>4, <4>5
    <3>2. \A x \in Objs : CallsOf(x) \subseteq Pairs /\ CallsOf(x)' \subseteq Pairs
      BY DEF CallsOf, Pairs
    <3> QED
      BY <3>1, <3>2
  <2> QED
    BY <1>1, <1>9, <2>1 DEF RefInv
<1>16. UniqueInv'
  <2> SUFFICES ASSUME NEW u \in Threads, NEW i \in 1..Depth(u), NEW j \in 1..Depth(u),
                      Obj(u, i) = Obj(u, j), Mutex(u, i)' # None, Mutex(u, j)' # None
               PROVE  i = j
    BY <1>9, <1>10 DEF UniqueInv
  <2>1. CASE u = t /\ (i = D \/ j = D)
    BY <1>3, <1>7, <1>10, <2>1 DEF D
  <2>2. CASE ~(u = t /\ (i = D \/ j = D))
    BY <1>10, <2>2 DEF UniqueInv
  <2> QED
    BY <2>1, <2>2
<1>17. \A u \in Threads : \A i \in 1..Depth(u) :
        /\ OwnsNode(u, i)' <=> OwnsNode(u, i)
        /\ OwnsMutex(u, i)' <=> OwnsMutex(u, i)
        /\ InCallback(u, i)' <=> InCallback(u, i)
  <2> SUFFICES ASSUME NEW u \in Threads, NEW i \in 1..Depth(u)
               PROVE  /\ OwnsNode(u, i)' <=> OwnsNode(u, i)
                      /\ OwnsMutex(u, i)' <=> OwnsMutex(u, i)
                      /\ InCallback(u, i)' <=> InCallback(u, i)
    OBVIOUS
  <2>1. CASE u = t /\ i = D
    BY <1>1, <1>2, <1>3, <1>9, <2>1 DEF OwnsNode, OwnsMutex, InCallback, D
  <2>2. CASE u # t \/ i # D
    BY <1>1, <1>2, <1>3, <1>9, <1>10, <2>2 DEF OwnsNode, OwnsMutex, InCallback, D
  <2> QED
    BY <2>1, <2>2
<1>18. ReentrantInv'
  <2> SUFFICES ASSUME NEW u \in Threads, NEW j \in 1..Depth(u), InCallback(u, j), Mutex(u, j)' = None
               PROVE  \E i \in 1..(j - 1) : Obj(u, i)' = Obj(u, j)' /\ Mutex(u, i)' # None
    BY <1>9, <1>17 DEF ReentrantInv
  <2>1. u # t \/ j # D
    BY <1>10, <1>11
  <2>2. PICK i \in 1..(j - 1) : Obj(u, i) = Obj(u, j) /\ Mutex(u, i) # None
    BY <1>10, <2>1 DEF ReentrantInv
  <2>3. i \in 1..Depth(u) /\ (u # t \/ i # D)
    BY <1>3, <2>2 DEF D
  <2> QED
    BY <1>10, <2>2, <2>3
<1>19. NodeInv'
  BY <1>1, <1>9, <1>10, <1>17 DEF NodeInv, InList
<1>20. MutexInv'
  <2>1. \A u \in Threads : \A i \in 1..Depth(u) : OwnsMutex(u, i) => u # t \/ i # D
    BY <1>1, <1>3 DEF OwnsMutex, D
  <2> SUFFICES ASSUME NEW x \in Objs, NEW b \in Mutexes, NEW u \in Threads
               PROVE  held[x][b] = u
                        <=> \E i \in 1..Depth(u) : OwnsMutex(u, i) /\ Obj(u, i) = x /\ Mutex(u, i)' = b
    BY <1>1, <1>9, <1>10, <1>17 DEF MutexInv
  <2>2. \A i \in 1..Depth(u) : OwnsMutex(u, i) => Mutex(u, i)' = Mutex(u, i)
    BY <1>10, <2>1
  <2> QED
    BY <2>2 DEF MutexInv
<1>21. ChoiceInv'
  <2> SUFFICES ASSUME NEW u \in Threads, NEW i \in 1..Depth(u), Mutex(u, i)' \in Threads
               PROVE  Descends(u, Mutex(u, i)') /\ InList(Mutex(u, i)', Obj(u, i))
    BY <1>1, <1>9, <1>10 DEF ChoiceInv, InList
  <2>1. CASE u = t /\ i = D
    <3>1. a \in Threads /\ Mutex(u, i)' = a /\ Obj(u, i) = o
      BY <1>3, <1>10, <2>1 DEF o, D
    <3>2. PICK k \in DOMAIN owners[o] : a = owners[o][k] /\ a \in Ancestors[t]
      BY <1>4, <3>1, NamesAssumption DEF IsChoice, o
    <3>3. InList(a, o)
      BY <1>3, <3>2, OwnerType DEF InList, o
    <3>4. a # t
      BY <1>6, <3>3
    <3> QED
      BY <2>1, <3>1, <3>2, <3>3, <3>4 DEF Descends
  <2>2. CASE u # t \/ i # D
    BY <1>10, <2>2 DEF ChoiceInv
  <2> QED
    BY <2>1, <2>2
<1>22. ChainInv'
  BY <1>1 DEF ChainInv
<1> QED
  BY <1>5, <1>12, <1>13, <1>14, <1>15, <1>16, <1>18, <1>19, <1>20, <1>21, <1>22

\* A call becomes the innermost owner.
LEMMA PushStep ==
  ASSUME IInv, NEW t \in Threads, Push(t)
  PROVE  IInv'
<1> USE DEF IInv
<1> DEFINE D == Depth(t)
           o == Top(t).obj
           a == Top(t).mutex
<1>1. /\ UNCHANGED <<live, calls, bound, refs>>
      /\ pc[t] = "push" /\ calls[t] # <<>>
      /\ pc'[t] = "client"
      /\ \A u \in Threads : u # t => pc'[u] = pc[u]
  BY DEF Push, TypeOK
<1>2. /\ D \in Nat \ {0} /\ D \in 1..D /\ Mutex(t, D) = a /\ Obj(t, D) = o /\ o \in Objs
      /\ a \in Mutexes /\ a # None
      /\ \A u \in Threads : Depth(u) \in Nat
  BY <1>1, TopType, CallType DEF TopInv, CallRecords
<1>3. /\ held[o][a] = t
      /\ ~InList(t, o)
      /\ a = IF owners[o] = <<>> THEN Fallback ELSE owners[o][1]
      /\ \A j \in 1..Len(owners[o]) : Descends(t, owners[o][j])
  BY <1>1, PushFits
<1>4. /\ \A x \in Objs : x # o => owners'[x] = owners[x]
      /\ Len(owners'[o]) = Len(owners[o]) + 1
      /\ owners'[o][1] = t
      /\ \A i \in 1..Len(owners[o]) : owners'[o][i + 1] = owners[o][i]
  BY PushEffect
<1>5. /\ held'[o][t] = None
      /\ \A x \in Objs, b \in Mutexes : x # o \/ b # t => held'[x][b] = held[x][b]
  BY <1>2 DEF Push, TypeOK, Mutexes
<1>6. TypeOK'
  BY TypePush
<1> HIDE DEF D, o, a
<1>7. /\ \A x \in Objs : Len(owners[x]) \in Nat
      /\ \A x \in Objs : \A i \in 1..Len(owners[x]) : owners[x][i] \in Threads
      /\ owners[o] # <<>> <=> Len(owners[o]) > 0
  BY <1>2, OwnerType
<1>8. \A x \in Objs, u \in Threads : InList(u, x)' <=> (InList(u, x) \/ (u = t /\ x = o))
  <2> SUFFICES ASSUME NEW x \in Objs, NEW u \in Threads
               PROVE  InList(u, x)' <=> (InList(u, x) \/ (u = t /\ x = o))
    OBVIOUS
  <2>1. CASE x # o
    BY <1>4, <2>1 DEF InList
  <2>2. CASE x = o
    <3>1. ASSUME InList(u, x)' PROVE InList(u, o) \/ u = t
      <4>1. PICK i \in 1..(Len(owners[o]) + 1) : owners'[o][i] = u
        BY <1>4, <2>2, <3>1 DEF InList
      <4>2. i = 1 \/ i - 1 \in 1..Len(owners[o])
        BY <1>2, <1>7
      <4>3. i - 1 \in 1..Len(owners[o]) => owners'[o][(i - 1) + 1] = owners[o][i - 1]
        BY <1>4
      <4>4. (i - 1) + 1 = i
        OBVIOUS
      <4> QED
        BY <1>4, <4>1, <4>2, <4>3, <4>4 DEF InList
    <3>2. ASSUME InList(u, o) PROVE InList(u, x)'
      <4>1. PICK i \in 1..Len(owners[o]) : owners[o][i] = u
        BY <3>2 DEF InList
      <4>2. i + 1 \in 1..Len(owners'[o]) /\ owners'[o][i + 1] = u
        BY <1>2, <1>4, <1>7, <4>1
      <4> QED
        BY <2>2, <4>2 DEF InList
    <3>3. InList(t, x)'
      BY <1>2, <1>4, <1>7, <2>2 DEF InList
    <3> QED
      BY <2>2, <3>1, <3>2, <3>3
  <2> QED
    BY <2>1, <2>2
<1>9. \A u \in Threads : \A i \in 1..Depth(u) :
        /\ OwnsNode(u, i)' <=> (OwnsNode(u, i) \/ (u = t /\ i = D))
        /\ OwnsMutex(u, i)' <=> OwnsMutex(u, i)
  <2> SUFFICES ASSUME NEW u \in Threads, NEW i \in 1..Depth(u)
               PROVE  /\ OwnsNode(u, i)' <=> (OwnsNode(u, i) \/ (u = t /\ i = D))
                      /\ OwnsMutex(u, i)' <=> OwnsMutex(u, i)
    OBVIOUS
  <2>1. CASE u = t /\ i = D
    BY <1>1, <1>2, <2>1 DEF OwnsNode, OwnsMutex, Mutex, Depth, D
  <2>2. CASE ~(u = t /\ i = D)
    BY <1>1, <1>2, <2>2 DEF OwnsNode, OwnsMutex, Mutex, Depth, D
  <2> QED
    BY <2>1, <2>2
<1>10. LiveInv'
  BY <1>1 DEF LiveInv, TypeOK
<1>11. TopInv'
  BY <1>1 DEF TopInv, Top, Depth
<1>12. BoundInv' /\ UniqueInv'
  BY <1>1 DEF BoundInv, UniqueInv, Obj, Mutex, Depth
<1>13. RefInv'
  <2>1. \A x \in Objs : CallsOf(x)' = CallsOf(x)
    BY <1>1 DEF CallsOf, Depth
  <2> QED
    BY <1>1, <2>1 DEF RefInv, Depth
<1>14. ReentrantInv'
  <2>1. \A u \in Threads : \A i \in 1..Depth(u) : InCallback(u, i)' => InCallback(u, i) \/ (u = t /\ i = D)
    BY <1>1, <1>2 DEF InCallback, Depth, D
  <2> QED
    BY <1>1, <1>2, <2>1 DEF ReentrantInv, Obj, Mutex, Depth
<1>15. NodeInv'
  <2> SUFFICES ASSUME NEW x \in Objs, NEW u \in Threads
               PROVE  InList(u, x)' <=> \E i \in 1..Depth(u) : OwnsNode(u, i)' /\ Obj(u, i) = x
    BY <1>1 DEF NodeInv, Obj, Depth
  <2>1. (\E i \in 1..Depth(u) : OwnsNode(u, i)' /\ Obj(u, i) = x)
          <=> ((\E i \in 1..Depth(u) : OwnsNode(u, i) /\ Obj(u, i) = x) \/ (u = t /\ x = o))
    BY <1>2, <1>9 DEF D
  <2> QED
    BY <1>8, <2>1 DEF NodeInv
<1>16. MutexInv'
  <2> SUFFICES ASSUME NEW x \in Objs, NEW b \in Mutexes, NEW u \in Threads
               PROVE  held'[x][b] = u
                        <=> \E i \in 1..Depth(u) : OwnsMutex(u, i) /\ Obj(u, i) = x /\ Mutex(u, i) = b
    BY <1>1, <1>9 DEF MutexInv, Obj, Mutex, Depth
  <2>1. CASE x = o /\ b = t
    <3>1. held'[x][b] # u
      BY <1>5, <2>1, NamesAssumption
    <3>2. \A i \in 1..Depth(u) : ~(Obj(u, i) = o /\ Mutex(u, i) = t)
      BY <1>3 DEF ChoiceInv
    <3> QED
      BY <2>1, <3>1, <3>2
  <2>2. CASE ~(x = o /\ b = t)
    BY <1>5, <2>2 DEF MutexInv
  <2> QED
    BY <2>1, <2>2
<1>17. ChoiceInv'
  <2>1. \A u \in Threads : \A i \in 1..Depth(u) : Obj(u, i) \in Objs
    BY CallType
  <2> QED
    BY <1>1, <1>8, <2>1 DEF ChoiceInv, Obj, Mutex, Depth
<1>18. ChainInv'
  <2> SUFFICES ASSUME NEW x \in Objs
               PROVE  /\ \A i, j \in 1..Len(owners'[x]) : i < j => Descends(owners'[x][i], owners'[x][j])
                      /\ \A i \in 1..Len(owners'[x]) :
                           held'[x][IF i = Len(owners'[x]) THEN Fallback ELSE owners'[x][i + 1]] = owners'[x][i]
    BY DEF ChainInv
  <2>1. CASE x # o
    <3>1. owners'[x] = owners[x]
      BY <1>4, <2>1
    <3>2. \A b \in Mutexes : held'[x][b] = held[x][b]
      BY <1>5, <2>1
    <3>3. \A i \in 1..Len(owners[x]) :
            (IF i = Len(owners[x]) THEN Fallback ELSE owners[x][i + 1]) \in Mutexes
      BY <1>7 DEF Mutexes
    <3> QED
      BY <3>1, <3>2, <3>3 DEF ChainInv
  <2>2. CASE x = o
    <3> DEFINE n == Len(owners[o])
               s == owners'[o]
    <3>1. n \in Nat /\ Len(s) = n + 1 /\ s[1] = t /\ \A i \in 1..n : s[i + 1] = owners[o][i]
      BY <1>2, <1>4, <1>7
    <3> HIDE DEF s, n
    <3>2. \A j \in 1..Len(s) : j # 1 => j - 1 \in 1..n /\ s[j] = owners[o][j - 1]
      <4> SUFFICES ASSUME NEW j \in 1..Len(s), j # 1
                   PROVE  j - 1 \in 1..n /\ s[j] = owners[o][j - 1]
        OBVIOUS
      <4>1. j - 1 \in 1..n /\ (j - 1) + 1 = j
        BY <3>1
      <4> QED
        BY <3>1, <4>1
    <3>3. ASSUME NEW i \in 1..Len(s), NEW j \in 1..Len(s), i < j
          PROVE  Descends(s[i], s[j])
      <4>1. j # 1
        BY <3>1, <3>3
      <4>2. CASE i = 1
        BY <1>3, <3>1, <3>2, <4>1, <4>2 DEF n
      <4>3. CASE i # 1
        <5>1. i - 1 < j - 1
          BY <3>1, <3>3
        <5> QED
          BY <1>2, <3>2, <4>1, <4>3, <5>1 DEF ChainInv, n
      <4> QED
        BY <4>2, <4>3
    <3>4. ASSUME NEW i \in 1..Len(s)
          PROVE  held'[o][IF i = Len(s) THEN Fallback ELSE s[i + 1]] = s[i]
      <4>1. CASE i = 1
        <5>1. a = IF i = Len(s) THEN Fallback ELSE s[i + 1]
          <6>1. CASE n = 0
            BY <1>3, <1>7, <3>1, <4>1, <6>1 DEF n
          <6>2. CASE n # 0
            <7>1. 1 \in 1..n /\ i # Len(s) /\ owners[o] # <<>>
              BY <1>7, <3>1, <4>1, <6>2 DEF n
            <7> QED
              BY <1>3, <3>1, <4>1, <7>1
          <6> QED
            BY <6>1, <6>2
        <5>2. a # t
          <6>1. a = Fallback \/ (a = owners[o][1] /\ 1 \in 1..Len(owners[o]))
            BY <1>2, <1>3, <1>7
          <6> QED
            BY <1>3, <6>1, NamesAssumption DEF InList
        <5> QED
          BY <1>2, <1>3, <1>5, <3>1, <4>1, <5>1, <5>2
      <4>2. CASE i # 1
        <5> DEFINE b == IF i - 1 = n THEN Fallback ELSE owners[o][i]
        <5>1. i - 1 \in 1..n /\ s[i] = owners[o][i - 1] /\ (i - 1) + 1 = i
          BY <3>2, <4>2
        <5>2. b = IF i = Len(s) THEN Fallback ELSE s[i + 1]
          BY <3>1, <5>1
        <5>3. held[o][b] = s[i]
          BY <1>2, <5>1 DEF ChainInv, n
        <5>4. b \in Mutexes /\ b # t
          <6>1. i - 1 # n => i \in 1..n
            BY <3>1, <5>1
          <6> QED
            BY <1>2, <1>3, <1>7, <6>1, NamesAssumption DEF InList, Mutexes, n
        <5> HIDE DEF b
        <5> QED
          BY <1>2, <1>5, <5>2, <5>3, <5>4
      <4> QED
        BY <4>1, <4>2
    <3> QED
      BY <2>2, <3>3, <3>4 DEF s
  <2> QED
    BY <2>1, <2>2
<1> QED
  BY <1>6, <1>10, <1>11, <1>12, <1>13, <1>14, <1>15, <1>16, <1>17, <1>18

\* A call that leaves finds its own node at the head of the list, and nobody
\* has or wants the mutex in it.
LEMMA PopFits ==
  ASSUME IInv, NEW t \in Threads, pc[t] = "pop"
  PROVE  LET o == Top(t).obj IN
         /\ o \in Objs
         /\ Reentrant(t, o)
         /\ owners[o] # <<>>
         /\ \A i \in 1..Len(owners[o]) : owners[o][i] = t <=> i = 1
         /\ \A u \in Threads : \A i \in 1..Depth(u) : Mutex(u, i) # t
<1> USE DEF IInv
<1> DEFINE o == Top(t).obj
<1>1. calls[t] # <<>> /\ Top(t).mutex # None
  BY DEF TypeOK, TopInv
<1>2. /\ Depth(t) \in 1..Depth(t) /\ o \in Objs
      /\ Obj(t, Depth(t)) = o /\ Mutex(t, Depth(t)) # None
  BY <1>1, TopType DEF CallRecords
<1>3. InList(t, o)
  BY <1>2 DEF NodeInv, OwnsNode
<1> HIDE DEF o
<1>4. owners[o] # <<>> /\ owners[o][1] = t /\ Reentrant(t, o)
  BY <1>2, <1>3, Innermost
<1>5. ASSUME NEW i \in 1..Len(owners[o]), owners[o][i] = t, i # 1
      PROVE  FALSE
  <2>1. Len(owners[o]) \in Nat
    BY <1>2, OwnerType
  <2>2. 1 \in 1..Len(owners[o]) /\ 1 < i
    BY <1>5, <2>1
  <2>3. Descends(t, t)
    BY <1>2, <1>4, <1>5, <2>2 DEF ChainInv
  <2> QED
    BY <2>3 DEF Descends
<1>6. ASSUME NEW u \in Threads, NEW i \in 1..Depth(u), Mutex(u, i) = t
      PROVE  FALSE
  <2>1. Descends(u, t)
    BY <1>6 DEF ChoiceInv
  <2>2. Depth(u) = 0
    BY <2>1, Quiet
  <2> QED
    BY <2>2
<1> QED
  BY <1>2, <1>4, <1>5, <1>6 DEF o

\* A call removes its node from the owner list.
LEMMA PopStep ==
  ASSUME IInv, NEW t \in Threads, Pop(t)
  PROVE  IInv'
<1> USE DEF IInv
<1> DEFINE D == Depth(t)
           o == Top(t).obj
<1>1. /\ UNCHANGED <<live, calls, bound, refs, held>>
      /\ pc[t] = "pop" /\ calls[t] # <<>>
      /\ pc'[t] = "unlock"
      /\ \A u \in Threads : u # t => pc'[u] = pc[u]
  BY DEF Pop, TypeOK
<1>2. /\ D \in Nat \ {0} /\ D \in 1..D /\ Mutex(t, D) # None /\ Obj(t, D) = o
      /\ \A u \in Threads : Depth(u) \in Nat
  BY <1>1, TopType, CallType DEF TopInv, CallRecords
<1>3. /\ o \in Objs
      /\ owners[o] # <<>>
      /\ \A i \in 1..Len(owners[o]) : owners[o][i] = t <=> i = 1
      /\ \A u \in Threads : \A i \in 1..Depth(u) : Mutex(u, i) # t
  BY <1>1, PopFits
<1>4. /\ \A x \in Objs : x # o => owners'[x] = owners[x]
      /\ Len(owners'[o]) = Len(owners[o]) - 1
      /\ \A i \in 1..Len(owners'[o]) : owners'[o][i] = owners[o][i + 1]
  BY <1>3, PopEffect
<1>5. TypeOK'
  BY <1>3, TypePop
<1> HIDE DEF D, o
<1>6. /\ \A x \in Objs : Len(owners[x]) \in Nat
      /\ \A x \in Objs : \A i \in 1..Len(owners[x]) : owners[x][i] \in Threads
      /\ Len(owners[o]) > 0
  BY <1>3, OwnerType
<1>7. \A x \in Objs, u \in Threads : InList(u, x)' <=> (InList(u, x) /\ ~(u = t /\ x = o))
  <2> SUFFICES ASSUME NEW x \in Objs, NEW u \in Threads
               PROVE  InList(u, x)' <=> (InList(u, x) /\ ~(u = t /\ x = o))
    OBVIOUS
  <2>1. CASE x # o
    BY <1>4, <2>1 DEF InList
  <2>2. CASE x = o
    <3>1. ASSUME InList(u, x)' PROVE InList(u, x) /\ u # t
      <4>1. PICK i \in 1..(Len(owners[o]) - 1) : owners[o][i + 1] = u
        BY <1>4, <2>2, <3>1 DEF InList
      <4>2. i + 1 \in 1..Len(owners[o]) /\ i + 1 # 1
        BY <1>3, <1>6
      <4> QED
        BY <1>3, <2>2, <4>1, <4>2 DEF InList
    <3>2. ASSUME InList(u, x), u # t PROVE InList(u, x)'
      <4>1. PICK i \in 1..Len(owners[o]) : owners[o][i] = u
        BY <2>2, <3>2 DEF InList
      <4>2. i # 1
        BY <1>3, <3>2, <4>1
      <4>3. i - 1 \in 1..Len(owners'[o]) /\ (i - 1) + 1 = i
        BY <1>3, <1>4, <1>6, <4>2
      <4>4. owners'[o][i - 1] = u
        BY <1>4, <4>1, <4>3
      <4> QED
        BY <2>2, <4>3, <4>4 DEF InList
    <3> QED
      BY <2>2, <3>1, <3>2
  <2> QED
    BY <2>1, <2>2
<1>8. \A u \in Threads : \A i \in 1..Depth(u) :
        /\ OwnsNode(u, i)' <=> (OwnsNode(u, i) /\ ~(u = t /\ i = D))
        /\ OwnsMutex(u, i)' <=> OwnsMutex(u, i)
  <2> SUFFICES ASSUME NEW u \in Threads, NEW i \in 1..Depth(u)
               PROVE  /\ OwnsNode(u, i)' <=> (OwnsNode(u, i) /\ ~(u = t /\ i = D))
                      /\ OwnsMutex(u, i)' <=> OwnsMutex(u, i)
    OBVIOUS
  <2>1. CASE u = t /\ i = D
    BY <1>1, <1>2, <2>1 DEF OwnsNode, OwnsMutex, Mutex, Depth, D
  <2>2. CASE ~(u = t /\ i = D)
    BY <1>1, <1>2, <2>2 DEF OwnsNode, OwnsMutex, Mutex, Depth, D
  <2> QED
    BY <2>1, <2>2
<1>9. LiveInv'
  BY <1>1, Quiet DEF LiveInv, TypeOK
<1>10. TopInv'
  BY <1>1 DEF TopInv, Top, Depth
<1>11. BoundInv' /\ UniqueInv'
  BY <1>1 DEF BoundInv, UniqueInv, Obj, Mutex, Depth
<1>12. RefInv'
  <2>1. \A x \in Objs : CallsOf(x)' = CallsOf(x)
    BY <1>1 DEF CallsOf, Depth
  <2> QED
    BY <1>1, <2>1 DEF RefInv, Depth
<1>13. ReentrantInv'
  BY <1>1 DEF ReentrantInv, InCallback, Obj, Mutex, Depth
<1>14. NodeInv'
  <2> SUFFICES ASSUME NEW x \in Objs, NEW u \in Threads
               PROVE  InList(u, x)' <=> \E i \in 1..Depth(u) : OwnsNode(u, i)' /\ Obj(u, i) = x
    BY <1>1 DEF NodeInv, Obj, Depth
  <2>1. CASE u = t /\ x = o
    <3>1. \A i \in 1..Depth(t) : OwnsNode(t, i) /\ Obj(t, i) = o => i = D
      BY <1>2 DEF UniqueInv, OwnsNode, D
    <3> QED
      BY <1>7, <1>8, <2>1, <3>1
  <2>2. CASE ~(u = t /\ x = o)
    <3>1. \A i \in 1..Depth(u) : Obj(u, i) = x => (OwnsNode(u, i)' <=> OwnsNode(u, i))
      BY <1>2, <1>8, <2>2
    <3> QED
      BY <1>7, <2>2, <3>1 DEF NodeInv
  <2> QED
    BY <2>1, <2>2
<1>15. MutexInv'
  BY <1>1, <1>8 DEF MutexInv, Obj, Mutex, Depth
<1>16. ChoiceInv'
  <2>1. \A u \in Threads : \A i \in 1..Depth(u) : Obj(u, i) \in Objs
    BY CallType
  <2> QED
    BY <1>1, <1>3, <1>7, <2>1 DEF ChoiceInv, Obj, Mutex, Depth
<1>17. ChainInv'
  <2> SUFFICES ASSUME NEW x \in Objs
               PROVE  /\ \A i, j \in 1..Len(owners'[x]) : i < j => Descends(owners'[x][i], owners'[x][j])
                      /\ \A i \in 1..Len(owners'[x]) :
                           held[x][IF i = Len(owners'[x]) THEN Fallback ELSE owners'[x][i + 1]] = owners'[x][i]
    BY <1>1 DEF ChainInv
  <2>1. CASE x # o
    BY <1>4, <2>1 DEF ChainInv
  <2>2. CASE x = o
    <3> DEFINE n == Len(owners[o])
               s == owners'[o]
    <3>1. n \in Nat /\ n > 0 /\ Len(s) = n - 1 /\ \A i \in 1..Len(s) : s[i] = owners[o][i + 1]
      BY <1>3, <1>4, <1>6
    <3> HIDE DEF s, n
    <3>2. \A i \in 1..Len(s) : i + 1 \in 1..n
      BY <3>1
    <3>3. ASSUME NEW i \in 1..Len(s), NEW j \in 1..Len(s), i < j
          PROVE  Descends(s[i], s[j])
      <4>1. i + 1 < j + 1
        BY <3>1, <3>3
      <4> QED
        BY <1>3, <3>1, <3>2, <4>1 DEF ChainInv, n
    <3>4. ASSUME NEW i \in 1..Len(s)
          PROVE  held[o][IF i = Len(s) THEN Fallback ELSE s[i + 1]] = s[i]
      <4>1. held[o][IF i + 1 = n THEN Fallback ELSE owners[o][(i + 1) + 1]] = owners[o][i + 1]
        BY <1>3, <3>2 DEF ChainInv, n
      <4>2. i = Len(s) <=> i + 1 = n
        BY <3>1
      <4>3. i # Len(s) => i + 1 \in 1..Len(s)
        BY <3>1
      <4> QED
        BY <3>1, <4>1, <4>2, <4>3
    <3> QED
      BY <2>2, <3>3, <3>4 DEF s
  <2> QED
    BY <2>1, <2>2
<1> QED
  BY <1>5, <1>9, <1>10, <1>11, <1>12, <1>13, <1>14, <1>15, <1>16, <1>17

\* A call ends, and the last one for an object releases it.
LEMMA DoneStep ==
  ASSUME IInv, NEW t \in Threads, Done(t)
  PROVE  IInv'
<1> USE DEF IInv
<1> DEFINE D == Depth(t)
           o == Top(t).obj
           l == Top(t).lock
           top == <<t, D>>
<1>1. /\ UNCHANGED <<live, owners, held>>
      /\ pc[t] = "done" /\ calls[t] # <<>>
      /\ pc'[t] = "client"
      /\ \A u \in Threads : u # t => pc'[u] = pc[u]
  BY DEF Done, TypeOK
<1>2. /\ D \in Nat \ {0} /\ D \in 1..D /\ Obj(t, D) = o /\ o \in Objs
      /\ l \in Locks /\ calls[t][D].lock = l
      /\ \A u \in Threads : Depth(u) \in Nat
  BY <1>1, TopType, CallType DEF CallRecords
<1>3. /\ \A u \in Threads : u # t => calls'[u] = calls[u]
      /\ Len(calls'[t]) = D - 1
      /\ \A i \in 1..(D - 1) : calls'[t][i] = calls[t][i]
  BY DoneEffect
<1>4. /\ refs' = [refs EXCEPT ![o] = @ - 1]
      /\ bound' = [bound EXCEPT ![l] = IF refs[o] = 1 THEN None ELSE @]
  BY DEF Done
<1>5. /\ refs'[o] = refs[o] - 1
      /\ \A x \in Objs : x # o => refs'[x] = refs[x]
      /\ bound'[l] = IF refs[o] = 1 THEN None ELSE bound[l]
      /\ \A k \in Locks : k # l => bound'[k] = bound[k]
  BY <1>2, <1>4 DEF TypeOK
<1>6. top \in Pairs /\ top[1] = t /\ top[2] = D
  BY <1>2, BoundAssumption DEF RefInv, Pairs
<1>7. top \in CallsOf(o) <=> (top[2] <= Depth(top[1]) /\ Obj(top[1], top[2]) = o)
  <2> HIDE DEF top
  <2> QED
    BY <1>2, <1>6, CallsOfElements
<1>8. top \in CallsOf(o)
  BY <1>2, <1>6, <1>7
<1> HIDE DEF D, o, l, top
<1>9. refs[o] = Cardinality(CallsOf(o)) /\ IsFiniteSet(CallsOf(o)) /\ refs[o] \in Nat
  BY <1>2, CallsOfElements DEF RefInv, TypeOK
<1>10. refs[o] # 0
  BY <1>8, <1>9, FS_EmptySet
<1>11. TypeOK'
  BY <1>10, TypeDone DEF o
<1>12. /\ Depth(t)' = D - 1 /\ Depth(t) = D
       /\ \A u \in Threads : u # t => Depth(u)' = Depth(u)
  BY <1>3 DEF Depth, D
<1>13. \A u \in Threads, i \in Nat : i \in 1..Depth(u)' <=> (i \in 1..Depth(u) /\ ~(u = t /\ i = D))
  BY <1>2, <1>12
<1>14. \A u \in Threads : \A i \in 1..Depth(u)' :
         /\ i \in 1..Depth(u) /\ i \in Nat
         /\ calls'[u][i] = calls[u][i]
         /\ Obj(u, i)' = Obj(u, i) /\ Mutex(u, i)' = Mutex(u, i)
  <2> SUFFICES ASSUME NEW u \in Threads, NEW i \in 1..Depth(u)'
               PROVE  i \in 1..Depth(u) /\ i \in Nat /\ calls'[u][i] = calls[u][i]
    BY DEF Obj, Mutex
  <2>1. CASE u = t
    BY <1>2, <1>3, <1>12, <2>1
  <2>2. CASE u # t
    BY <1>2, <1>3, <1>12, <2>2
  <2> QED
    BY <2>1, <2>2
<1>15. \A u \in Threads : \A i \in 1..Depth(u)' :
         /\ OwnsNode(u, i)' <=> OwnsNode(u, i)
         /\ OwnsMutex(u, i)' <=> OwnsMutex(u, i)
         /\ InCallback(u, i)' <=> InCallback(u, i)
  <2> SUFFICES ASSUME NEW u \in Threads, NEW i \in 1..Depth(u)'
               PROVE  /\ OwnsNode(u, i)' <=> OwnsNode(u, i)
                      /\ OwnsMutex(u, i)' <=> OwnsMutex(u, i)
                      /\ InCallback(u, i)' <=> InCallback(u, i)
    OBVIOUS
  <2>1. CASE u = t
    BY <1>1, <1>2, <1>12, <1>14, <2>1 DEF OwnsNode, OwnsMutex, InCallback
  <2>2. CASE u # t
    BY <1>1, <1>2, <1>12, <1>14, <2>2 DEF OwnsNode, OwnsMutex, InCallback
  <2> QED
    BY <2>1, <2>2
<1>16. ~OwnsNode(t, D) /\ ~OwnsMutex(t, D)
  BY <1>1, <1>2, <1>12 DEF OwnsNode, OwnsMutex
<1>17. LiveInv'
  <2>1. t \in live
    BY <1>1, Quiet
  <2> QED
    BY <1>1, <1>3, <2>1 DEF LiveInv, TypeOK
<1>18. TopInv'
  BY <1>1, <1>3 DEF TopInv, Top, Depth
<1>19. BoundInv'
  <2> SUFFICES ASSUME NEW u \in Threads, NEW i \in 1..Depth(u)'
               PROVE  bound'[calls[u][i].lock] = Obj(u, i)
    BY <1>14 DEF BoundInv
  <2>1. i \in 1..Depth(u) /\ ~(u = t /\ i = D)
    BY <1>13, <1>14
  <2>2. bound[calls[u][i].lock] = Obj(u, i) /\ calls[u][i].lock \in Locks
    BY <2>1, CallType DEF BoundInv, CallRecords
  <2>3. ASSUME calls[u][i].lock = l, refs[o] = 1 PROVE FALSE
    <3>1. Obj(u, i) = o
      BY <1>2, <1>12, <2>2, <2>3 DEF BoundInv
    <3> DEFINE c == <<u, i>>
    <3>2. c \in Pairs /\ c[1] = u /\ c[2] = i
      BY <1>2, <2>1, BoundAssumption DEF RefInv, Pairs
    <3>3. c # top
      BY <2>1 DEF top
    <3> HIDE DEF c
    <3>4. c \in CallsOf(o) <=> (c[2] <= Depth(c[1]) /\ Obj(c[1], c[2]) = o)
      BY <1>2, <3>2, CallsOfElements
    <3>5. c \in CallsOf(o)
      BY <1>2, <2>1, <3>1, <3>2, <3>4
    <3>6. PICK x : CallsOf(o) = {x}
      BY <1>9, <2>3, FS_Singleton
    <3> QED
      BY <1>8, <3>3, <3>5, <3>6
  <2> QED
    BY <1>5, <2>2, <2>3
<1>20. RefInv'
  <2>1. \A u \in Threads : Depth(u)' <= MaxDepth
    BY <1>2, <1>12, BoundAssumption DEF RefInv
  <2>2. ASSUME NEW x \in Objs, NEW c \in Pairs
        PROVE  c \in CallsOf(x)' <=> (c \in CallsOf(x) /\ c # top)
    <3>1. PICK u \in Threads : \E i \in 1..MaxDepth : c[1] = u /\ c[2] = i /\ c = <<u, i>>
      BY PairParts
    <3>2. PICK i \in 1..MaxDepth : c[1] = u /\ c[2] = i /\ c = <<u, i>>
      BY <3>1
    <3>3. c \in CallsOf(x) <=> (i <= Depth(u) /\ Obj(u, i) = x)
      BY <3>2, CallsOfElements
    <3>4. c \in CallsOf(x)' <=> (i <= Depth(u)' /\ Obj(u, i)' = x)
      BY <3>2 DEF CallsOf, Pairs, Obj
    <3>5. c = top <=> (u = t /\ i = D)
      BY <3>2 DEF top
    <3>6. i <= Depth(u)' <=> (i <= Depth(u) /\ ~(u = t /\ i = D))
      BY <1>2, <1>12
    <3>7. i <= Depth(u)' => Obj(u, i)' = Obj(u, i)
      BY <1>2, <1>12, <1>14
    <3> QED
      BY <3>3, <3>4, <3>5, <3>6, <3>7, Zenon
  <2>3. \A x \in Objs : CallsOf(x) \subseteq Pairs /\ CallsOf(x)' \subseteq Pairs
    BY DEF CallsOf, Pairs
  <2>4. \A x \in Objs : x # o => top \notin CallsOf(x)
    <3> SUFFICES ASSUME NEW x \in Objs, x # o, top \in CallsOf(x) PROVE FALSE
      OBVIOUS
    <3>1. top \in CallsOf(x) <=> (top[2] <= Depth(top[1]) /\ Obj(top[1], top[2]) = x)
      BY <1>6, CallsOfElements
    <3> QED
      BY <1>2, <1>6, <3>1 DEF D, o
  <2>5. \A x \in Objs : x # o => CallsOf(x)' = CallsOf(x)
    BY <2>2, <2>3, <2>4
  <2>6. \A x \in Objs : x = o => CallsOf(x)' = CallsOf(x) \ {top}
    BY <2>2, <2>3
  <2>7. Cardinality(CallsOf(o) \ {top}) = Cardinality(CallsOf(o)) - 1
    BY <1>8, <1>9, FS_RemoveElement
  <2>8. \A x \in Objs : refs'[x] = Cardinality(CallsOf(x)')
    <3> SUFFICES ASSUME NEW x \in Objs PROVE refs'[x] = Cardinality(CallsOf(x)')
      OBVIOUS
    <3>1. CASE x = o
      BY <1>5, <1>9, <2>6, <2>7, <3>1
    <3>2. CASE x # o
      BY <1>5, <2>5, <3>2 DEF RefInv
    <3> QED
      BY <3>1, <3>2
  <2> QED
    BY <2>1, <2>8 DEF RefInv
<1>21. UniqueInv'
  BY <1>14 DEF UniqueInv
<1>22. ReentrantInv'
  <2> SUFFICES ASSUME NEW u \in Threads, NEW j \in 1..Depth(u)', InCallback(u, j)', Mutex(u, j)' = None
               PROVE  \E i \in 1..(j - 1) : Obj(u, i)' = Obj(u, j)' /\ Mutex(u, i)' # None
    BY DEF ReentrantInv
  <2>1. PICK i \in 1..(j - 1) : Obj(u, i) = Obj(u, j) /\ Mutex(u, i) # None
    BY <1>14, <1>15 DEF ReentrantInv
  <2>2. i \in 1..Depth(u)'
    BY <1>2, <1>12, <2>1
  <2> QED
    BY <1>14, <2>1, <2>2
<1>23. NodeInv'
  <2> SUFFICES ASSUME NEW x \in Objs, NEW u \in Threads
               PROVE  InList(u, x) <=> \E i \in 1..Depth(u)' : OwnsNode(u, i)' /\ Obj(u, i)' = x
    BY <1>1 DEF NodeInv, InList
  <2>1. (\E i \in 1..Depth(u)' : OwnsNode(u, i)' /\ Obj(u, i)' = x)
          <=> \E i \in 1..Depth(u) : OwnsNode(u, i) /\ Obj(u, i) = x
    BY <1>2, <1>13, <1>14, <1>15, <1>16
  <2> QED
    BY <2>1 DEF NodeInv
<1>24. MutexInv'
  <2> SUFFICES ASSUME NEW x \in Objs, NEW a \in Mutexes, NEW u \in Threads
               PROVE  held[x][a] = u
                        <=> \E i \in 1..Depth(u)' : OwnsMutex(u, i)' /\ Obj(u, i)' = x /\ Mutex(u, i)' = a
    BY <1>1 DEF MutexInv
  <2>1. (\E i \in 1..Depth(u)' : OwnsMutex(u, i)' /\ Obj(u, i)' = x /\ Mutex(u, i)' = a)
          <=> \E i \in 1..Depth(u) : OwnsMutex(u, i) /\ Obj(u, i) = x /\ Mutex(u, i) = a
    BY <1>2, <1>13, <1>14, <1>15, <1>16
  <2> QED
    BY <2>1 DEF MutexInv
<1>25. ChoiceInv'
  BY <1>1, <1>14 DEF ChoiceInv, InList
<1>26. ChainInv'
  BY <1>1 DEF ChainInv
<1> QED
  BY <1>11, <1>17, <1>18, <1>19, <1>20, <1>21, <1>22, <1>23, <1>24, <1>25, <1>26

-----------------------------------------------------------------------------
(* The theorems.                                                           *)

\* A step that changes no variable keeps the invariant.
LEMMA Unchanged ==
  ASSUME IInv, UNCHANGED vars
  PROVE  IInv'
<1> USE DEF IInv, vars
<1>1. TypeOK'
  BY DEF TypeOK, CallRecords
<1>2. LiveInv' /\ TopInv'
  BY DEF LiveInv, TopInv, Top, Depth
<1>3. BoundInv' /\ UniqueInv' /\ ReentrantInv'
  BY DEF BoundInv, UniqueInv, ReentrantInv, InCallback, Obj, Mutex, Depth
<1>4. NodeInv' /\ MutexInv' /\ ChoiceInv' /\ ChainInv'
  <2>1. NodeInv'
    BY DEF NodeInv, OwnsNode, InList, Obj, Mutex, Depth
  <2>2. MutexInv'
    BY DEF MutexInv, OwnsMutex, Obj, Mutex, Depth
  <2>3. ChoiceInv' /\ ChainInv'
    BY DEF ChoiceInv, ChainInv, InList, Obj, Mutex, Depth
  <2> QED
    BY <2>1, <2>2, <2>3
<1>5. RefInv'
  <2>1. \A o \in Objs : CallsOf(o)' = CallsOf(o)
    BY DEF CallsOf, Depth
  <2> QED
    BY <2>1 DEF RefInv, Depth
<1> QED
  BY <1>1, <1>2, <1>3, <1>4, <1>5

\* Every step of every thread keeps the invariant.
THEOREM StepKeepsIInv == IInv /\ [Next]_vars => IInv'
<1> SUFFICES ASSUME IInv, [Next]_vars PROVE IInv'
  OBVIOUS
<1>1. CASE UNCHANGED vars
  BY <1>1, Unchanged
<1>2. ASSUME NEW t \in Threads, Fork(t) \/ Finish(t) PROVE IInv'
  BY <1>2, ForkFinish
<1>3. ASSUME NEW t \in Threads, Return(t) PROVE IInv'
  BY <1>3, ReturnStep
<1>4. ASSUME NEW t \in Threads, NEW l \in Locks, Call(t, l) PROVE IInv'
  BY <1>4, CallStep
<1>5. ASSUME NEW t \in Threads, Choose(t) PROVE IInv'
  BY <1>5, ReentrantStep, ChooseStep
<1>6. ASSUME NEW t \in Threads, SetWaiting(t) \/ Alarm(t) \/ Walk(t) \/ ClearWaiting(t) PROVE IInv'
  BY <1>6, SilentSteps
<1>7. ASSUME NEW t \in Threads, TryLock(t) PROVE IInv'
  <2>1. Take(t) \/ UNCHANGED held
    BY <1>7 DEF TryLock
  <2> QED
    BY <1>7, <2>1, SilentSteps, TakeSteps
<1>8. ASSUME NEW t \in Threads, LockMutex(t) PROVE IInv'
  BY <1>8, TakeSteps
<1>9. ASSUME NEW t \in Threads, Push(t) PROVE IInv'
  BY <1>9, PushStep
<1>10. ASSUME NEW t \in Threads, PushFails(t) \/ UnlockMutex(t) PROVE IInv'
  BY <1>10, UntakeSteps
<1>11. ASSUME NEW t \in Threads, Pop(t) PROVE IInv'
  BY <1>11, PopStep
<1>12. ASSUME NEW t \in Threads, Done(t) PROVE IInv'
  BY <1>12, DoneStep
<1> QED
  BY <1>1, <1>2, <1>3, <1>4, <1>5, <1>6, <1>7, <1>8, <1>9, <1>10, <1>11, <1>12
     DEF Next, Enter, Leave

\* The strengthened invariant holds in every reachable state.
THEOREM AlwaysIInv == Spec => []IInv
<1>1. Init => IInv
  BY InitIInv
<1> QED
  BY <1>1, StepKeepsIInv, PTL DEF Spec

\* Every variable has its type (pmath_thread_call_locked never decrements a
\* count below zero and never takes a node from an empty list).
THEOREM AlwaysTypeOK == Spec => []TypeOK
<1>1. IInv => TypeOK
  BY DEF IInv
<1> QED
  BY <1>1, AlwaysIInv, PTL

\* A thread inside of a lock is an owner of the lock's object.
LEMMA InsideIsOwner ==
  ASSUME IInv, NEW l \in Locks, NEW t \in Inside(l)
  PROVE  t \in Threads /\ bound[l] \in Objs /\ InList(t, bound[l])
<1> USE DEF IInv
<1>1. PICK i \in 1..Depth(t) : calls[t][i].lock = l /\ (i < Depth(t) \/ pc[t] = "client")
  <2>1. t \in Threads
    BY DEF Inside
  <2>2. DOMAIN calls[t] = 1..Depth(t)
    BY <2>1, LenProperties DEF TypeOK, Depth
  <2> QED
    BY <2>2 DEF Inside
<1>2. t \in Threads /\ Depth(t) \in Nat
  BY CallType DEF Inside
<1>3. bound[l] = Obj(t, i) /\ Obj(t, i) \in Objs
  BY <1>1, <1>2, CallType DEF BoundInv
<1>4. PICK k \in 1..i : Obj(t, k) = Obj(t, i) /\ Mutex(t, k) # None
  <2>1. CASE Mutex(t, i) # None
    BY <1>1, <1>2, <2>1
  <2>2. CASE Mutex(t, i) = None
    <3>1. InCallback(t, i)
      BY <1>1 DEF InCallback
    <3>2. PICK k \in 1..(i - 1) : Obj(t, k) = Obj(t, i) /\ Mutex(t, k) # None
      BY <1>2, <2>2, <3>1 DEF ReentrantInv
    <3>3. k \in 1..i
      BY <1>1, <1>2
    <3> QED
      BY <3>2, <3>3
  <2> QED
    BY <2>1, <2>2
<1>5. k \in 1..Depth(t) /\ OwnsNode(t, k)
  BY <1>1, <1>2, <1>4 DEF OwnsNode
<1> QED
  BY <1>2, <1>3, <1>4, <1>5 DEF NodeInv

\* Two owners of an object are a thread and its ancestor.
LEMMA OwnersRelated ==
  ASSUME IInv, NEW o \in Objs, NEW t \in Threads, NEW u \in Threads, InList(t, o), InList(u, o)
  PROVE  t \in Ancestors[u] \/ u \in Ancestors[t]
<1>1. PICK i \in 1..Len(owners[o]) : owners[o][i] = t
  BY DEF InList
<1>2. PICK j \in 1..Len(owners[o]) : owners[o][j] = u
  BY DEF InList
<1>3. Len(owners[o]) \in Nat
  BY OwnerType DEF IInv
<1>4. i < j \/ j < i \/ i = j
  BY <1>3
<1>5. CASE i < j
  BY <1>1, <1>2, <1>5 DEF IInv, ChainInv, Descends
<1>6. CASE j < i
  BY <1>1, <1>2, <1>6 DEF IInv, ChainInv, Descends
<1>7. CASE i = j
  BY <1>1, <1>2, <1>7, ForestAssumption
<1> QED
  BY <1>4, <1>5, <1>6, <1>7

\* Callbacks under one lock run at the same time only in a thread and its
\* ancestors: the mutual exclusion that pmath_thread_call_locked is for.
THEOREM AlwaysMutualExclusion == Spec => []MutualExclusion
<1>1. IInv => MutualExclusion
  BY InsideIsOwner, OwnersRelated DEF MutualExclusion
<1> QED
  BY <1>1, AlwaysIInv, PTL

\* The owner list of an object is a chain of descendants, each with the mutex
\* of the next.
THEOREM AlwaysOwnerChain == Spec => []OwnerChain
<1>1. ASSUME IInv PROVE OwnerChain
  <2> USE <1>1 DEF IInv
  <2> SUFFICES ASSUME NEW o \in Objs, NEW i \in 1..Len(owners[o])
               PROVE  /\ i # Len(owners[o]) => Descends(owners[o][i], owners[o][i + 1])
                      /\ held[o][IF i = Len(owners[o]) THEN Fallback ELSE owners[o][i + 1]] = owners[o][i]
    BY OwnerType DEF OwnerChain
  <2>1. Len(owners[o]) \in Nat
    BY OwnerType
  <2>2. i # Len(owners[o]) => i + 1 \in 1..Len(owners[o]) /\ i < i + 1
    BY <2>1
  <2> QED
    BY <2>2 DEF ChainInv
<1> QED
  BY <1>1, AlwaysIInv, PTL

\* The node that is removed after the callback is the thread's own, and its
\* mutex is not locked (the assertions after the callback hold).
THEOREM AlwaysPopRemovesOwnNode == Spec => []PopRemovesOwnNode
<1>1. ASSUME IInv PROVE PopRemovesOwnNode
  <2> USE <1>1 DEF IInv
  <2> SUFFICES ASSUME NEW t \in Threads, pc[t] = "pop"
               PROVE  Reentrant(t, Top(t).obj) /\ held[Top(t).obj][t] = None
    BY DEF PopRemovesOwnNode
  <2> DEFINE o == Top(t).obj
  <2>1. o \in Objs /\ Reentrant(t, o) /\ \A u \in Threads : \A i \in 1..Depth(u) : Mutex(u, i) # t
    BY PopFits
  <2> HIDE DEF o
  <2>2. held[o][t] \in Threads \cup {None} /\ t \in Mutexes
    BY <2>1 DEF TypeOK, Mutexes
  <2>3. held[o][t] \notin Threads
    BY <2>1, <2>2 DEF MutexInv
  <2> QED
    BY <2>1, <2>2, <2>3 DEF o
<1> QED
  BY <1>1, AlwaysIInv, PTL

\* The mutex that a thread is about to use belongs to a list node that still
\* exists, although spin_lock was released after the choice.
THEOREM AlwaysMutexExists == Spec => []MutexExists
<1>1. ASSUME IInv PROVE MutexExists
  <2> USE <1>1 DEF IInv
  <2> SUFFICES ASSUME NEW t \in Threads,
                      pc[t] \in {"wait", "try", "walk", "block", "got", "push", "pop", "unlock"},
                      Top(t).mutex # Fallback
               PROVE  \E i \in DOMAIN owners[Top(t).obj] : owners[Top(t).obj][i] = Top(t).mutex
    BY DEF MutexExists
  <2>1. calls[t] # <<>> /\ Top(t).mutex # None
    BY DEF TypeOK, TopInv
  <2>2. /\ Depth(t) \in 1..Depth(t) /\ Top(t).obj \in Objs /\ Top(t).mutex \in Threads
        /\ Obj(t, Depth(t)) = Top(t).obj /\ Mutex(t, Depth(t)) = Top(t).mutex
    BY <2>1, TopType DEF CallRecords, Mutexes
  <2>3. InList(Top(t).mutex, Top(t).obj)
    BY <2>2 DEF ChoiceInv
  <2> QED
    BY <2>2, <2>3, OwnerType DEF InList
<1> QED
  BY <1>1, AlwaysIInv, PTL

\* An object counts its unfinished calls, all under the lock that points to
\* it, and is clean when it goes back to the pool.
THEOREM AlwaysRefcountExact == Spec => []RefcountExact
<1>1. ASSUME IInv PROVE RefcountExact
  <2> USE <1>1 DEF IInv
  <2> SUFFICES ASSUME NEW o \in Objs
               PROVE  /\ refs[o] = Cardinality(CallsOf(o))
                      /\ \A c \in CallsOf(o) : bound[calls[c[1]][c[2]].lock] = o
                      /\ refs[o] = 0 => owners[o] = <<>> /\ \A a \in Mutexes : held[o][a] = None
    BY DEF RefcountExact
  <2>1. refs[o] = Cardinality(CallsOf(o)) /\ IsFiniteSet(CallsOf(o))
    BY CallsOfElements DEF RefInv
  <2>2. ASSUME NEW c \in CallsOf(o)
        PROVE  bound[calls[c[1]][c[2]].lock] = o
    <3>1. c \in Pairs
      BY CallsOfElements
    <3>2. PICK u \in Threads : \E i \in 1..MaxDepth : c[1] = u /\ c[2] = i /\ c = <<u, i>>
      BY <3>1, PairParts
    <3>3. PICK i \in 1..MaxDepth : c[1] = u /\ c[2] = i /\ c = <<u, i>>
      BY <3>2
    <3>4. i <= Depth(u) /\ Obj(u, i) = o /\ Depth(u) \in Nat
      BY <3>1, <3>3, CallsOfElements, CallType
    <3> QED
      BY <3>3, <3>4 DEF BoundInv
  <2>3. ASSUME refs[o] = 0, NEW u \in Threads, NEW i \in 1..Depth(u), Obj(u, i) = o
        PROVE  FALSE
    <3>1. CallsOf(o) = {}
      BY <2>1, <2>3, FS_EmptySet
    <3>2. i \in 1..MaxDepth /\ i <= Depth(u)
      BY CallType, BoundAssumption DEF RefInv
    <3> DEFINE c == <<u, i>>
    <3>3. c \in Pairs /\ c[1] = u /\ c[2] = i
      BY <3>2 DEF Pairs
    <3> HIDE DEF c
    <3>4. c \in CallsOf(o) <=> (c[2] <= Depth(c[1]) /\ Obj(c[1], c[2]) = o)
      BY <3>3, CallsOfElements
    <3> QED
      BY <2>3, <3>1, <3>2, <3>3, <3>4
  <2>4. refs[o] = 0 => owners[o] = <<>>
    <3>1. ASSUME refs[o] = 0, owners[o] # <<>> PROVE FALSE
      <4>1. 1 \in 1..Len(owners[o]) /\ owners[o][1] \in Threads
        BY <3>1, OwnerType
      <4>2. InList(owners[o][1], o)
        BY <4>1 DEF InList
      <4>3. \E i \in 1..Depth(owners[o][1]) : Obj(owners[o][1], i) = o
        BY <4>1, <4>2 DEF NodeInv
      <4> QED
        BY <2>3, <3>1, <4>1, <4>3
    <3> QED
      BY <3>1
  <2>5. refs[o] = 0 => \A a \in Mutexes : held[o][a] = None
    <3>1. ASSUME refs[o] = 0, NEW a \in Mutexes, held[o][a] # None PROVE FALSE
      <4>1. held[o][a] \in Threads
        BY <3>1 DEF TypeOK
      <4>2. \E i \in 1..Depth(held[o][a]) : Obj(held[o][a], i) = o
        BY <4>1 DEF MutexInv
      <4> QED
        BY <2>3, <3>1, <4>1, <4>2
    <3> QED
      BY <3>1
  <2> QED
    BY <2>1, <2>2, <2>4, <2>5
<1> QED
  BY <1>1, AlwaysIInv, PTL

-----------------------------------------------------------------------------
(* The calls implement the abstract lock of HierarchicalLock.              *)

\* Who is inside, in terms of the depth.
LEMMA InsideType ==
  ASSUME TypeOK, NEW l \in Locks
  PROVE  /\ Inside(l) \subseteq Threads
         /\ \A t \in Threads : t \in Inside(l) <=>
              \E i \in 1..Depth(t) : calls[t][i].lock = l /\ (i < Depth(t) \/ pc[t] = "client")
<1>1. \A t \in Threads : DOMAIN calls[t] = 1..Depth(t)
  BY LenProperties DEF TypeOK, Depth
<1> QED
  BY <1>1 DEF Inside

\* A thread that begins to execute a callback is below all others inside.
LEMMA MayEnter ==
  ASSUME IInv, NEW t \in Threads,
         pc[t] = "push" \/ (pc[t] = "choose" /\ Reentrant(t, Top(t).obj))
  PROVE  Top(t).lock \in Locks /\ Inside(Top(t).lock) \subseteq Ancestors[t]
<1> USE DEF IInv
<1> DEFINE l == Top(t).lock
           o == Top(t).obj
<1>1. calls[t] # <<>>
  BY DEF TypeOK
<1>2. Depth(t) \in 1..Depth(t) /\ calls[t][Depth(t)].lock = l /\ Obj(t, Depth(t)) = o
      /\ l \in Locks /\ o \in Objs
  BY <1>1, TopType DEF CallRecords
<1>3. bound[l] = o
  BY <1>2 DEF BoundInv
<1>4. ASSUME NEW u \in Inside(l) PROVE u \in Ancestors[t]
  <2>1. u \in Threads /\ InList(u, o)
    BY <1>2, <1>3, InsideIsOwner
  <2>2. PICK j \in 1..Len(owners[o]) : owners[o][j] = u
    BY <2>1 DEF InList
  <2>3. CASE pc[t] = "push"
    BY <2>2, <2>3, PushFits DEF Descends
  <2>4. CASE pc[t] = "choose" /\ Reentrant(t, o)
    <3>1. owners[o][1] = t /\ Len(owners[o]) \in Nat
      BY <1>2, <2>4, OwnerType DEF Reentrant
    <3>2. CASE j = 1
      BY <2>2, <3>1, <3>2, ForestAssumption
    <3>3. CASE j # 1
      <4>1. 1 < j /\ 1 \in 1..Len(owners[o])
        BY <3>1, <3>3
      <4> QED
        BY <1>2, <2>2, <3>1, <4>1 DEF ChainInv, Descends
    <3> QED
      BY <3>2, <3>3
  <2> QED
    BY <2>3, <2>4
<1> QED
  BY <1>2, <1>4

\* Steps that do not begin or end a callback.
LEMMA OutsideSteps ==
  ASSUME IInv, IInv', NEW t \in Threads,
         UNCHANGED calls,
         pc[t] # "client", pc'[t] # "client", \A u \in Threads : u # t => pc'[u] = pc[u]
  PROVE  \A l \in Locks : Inside(l)' = Inside(l)
<1> SUFFICES ASSUME NEW l \in Locks, NEW u \in Threads
             PROVE  u \in Inside(l)' <=> u \in Inside(l)
  BY DEF Inside
<1> QED
  BY DEF Inside, Depth

\* A thread that calls stays inside of the locks it is inside of.
LEMMA CallOutside ==
  ASSUME IInv, NEW t \in Threads, NEW k \in Locks, Call(t, k)
  PROVE  \A l \in Locks : Inside(l)' = Inside(l)
<1> USE DEF IInv
<1> SUFFICES ASSUME NEW l \in Locks, NEW u \in Threads
             PROVE  u \in Inside(l)' <=> u \in Inside(l)
  BY DEF Inside
<1>1. pc[t] = "client" /\ pc'[t] = "choose" /\ \A x \in Threads : x # t => pc'[x] = pc[x]
  BY DEF Call, TypeOK
<1>2. /\ calls' \in [Threads -> Seq(CallRecords)]
      /\ \A x \in Threads : x # t => calls'[x] = calls[x]
      /\ Len(calls'[t]) = Depth(t) + 1
      /\ \A i \in 1..Depth(t) : calls'[t][i] = calls[t][i]
  BY CallEffect
<1>3. Depth(u) \in Nat /\ DOMAIN calls[u] = 1..Depth(u)
  BY CallType, LenProperties DEF TypeOK, Depth
<1>4. DOMAIN calls'[t] = 1..(Depth(t) + 1)
  BY <1>2, LenProperties
<1>5. CASE u # t
  BY <1>1, <1>2, <1>5 DEF Inside, Depth
<1>6. CASE u = t
  <2>1. u \in Inside(l)' <=> \E i \in 1..(Depth(t) + 1) : calls'[t][i].lock = l /\ i < Depth(t) + 1
    BY <1>1, <1>2, <1>4, <1>6 DEF Inside, Depth
  <2>2. u \in Inside(l) <=> \E i \in 1..Depth(t) : calls[t][i].lock = l
    BY <1>1, <1>3, <1>6 DEF Inside
  <2>3. \A i \in 1..(Depth(t) + 1) : i < Depth(t) + 1 <=> i \in 1..Depth(t)
    BY <1>3, <1>6
  <2>4. 1..Depth(t) \subseteq 1..(Depth(t) + 1)
    BY <1>3, <1>6
  <2> QED
    BY <1>2, <2>1, <2>2, <2>3, <2>4
<1> QED
  BY <1>5, <1>6

\* A call that ends was not executing its callback any more.
LEMMA DoneOutside ==
  ASSUME IInv, NEW t \in Threads, Done(t)
  PROVE  \A l \in Locks : Inside(l)' = Inside(l)
<1> USE DEF IInv
<1> SUFFICES ASSUME NEW l \in Locks, NEW u \in Threads
             PROVE  u \in Inside(l)' <=> u \in Inside(l)
  BY DEF Inside
<1>1. pc[t] = "done" /\ pc'[t] = "client" /\ \A x \in Threads : x # t => pc'[x] = pc[x]
  BY DEF Done, TypeOK
<1>2. /\ calls' \in [Threads -> Seq(CallRecords)]
      /\ \A x \in Threads : x # t => calls'[x] = calls[x]
      /\ Len(calls'[t]) = Depth(t) - 1
      /\ \A i \in 1..(Depth(t) - 1) : calls'[t][i] = calls[t][i]
  BY DoneEffect
<1>3. Depth(u) \in Nat /\ DOMAIN calls[u] = 1..Depth(u)
  BY CallType, LenProperties DEF TypeOK, Depth
<1>4. DOMAIN calls'[t] = 1..(Depth(t) - 1)
  BY <1>2, LenProperties
<1>5. CASE u # t
  BY <1>1, <1>2, <1>5 DEF Inside, Depth
<1>6. CASE u = t
  <2>1. u \in Inside(l)' <=> \E i \in 1..(Depth(t) - 1) : calls'[t][i].lock = l
    BY <1>1, <1>4, <1>6 DEF Inside
  <2>2. u \in Inside(l) <=> \E i \in 1..Depth(t) : calls[t][i].lock = l /\ i < Depth(t)
    BY <1>1, <1>3, <1>6 DEF Inside
  <2>3. \A i \in 1..Depth(t) : i < Depth(t) <=> i \in 1..(Depth(t) - 1)
    BY <1>3, <1>6
  <2>4. 1..(Depth(t) - 1) \subseteq 1..Depth(t)
    BY <1>3, <1>6
  <2> QED
    BY <1>2, <2>1, <2>2, <2>3, <2>4
<1> QED
  BY <1>5, <1>6

\* The thread enters: the call at the top begins its callback.
LEMMA EnterInside ==
  ASSUME IInv, NEW t \in Threads, UNCHANGED calls, calls[t] # <<>>,
         pc[t] # "client", pc'[t] = "client", \A u \in Threads : u # t => pc'[u] = pc[u]
  PROVE  \A l \in Locks : Inside(l)' = IF l = Top(t).lock THEN Inside(l) \cup {t} ELSE Inside(l)
<1> USE DEF IInv
<1> SUFFICES ASSUME NEW l \in Locks, NEW u \in Threads
             PROVE  u \in Inside(l)' <=> (u \in Inside(l) \/ (u = t /\ l = Top(t).lock))
  BY DEF Inside
<1>1. /\ Depth(t) \in 1..Depth(t) /\ DOMAIN calls[t] = 1..Depth(t) /\ Depth(t) \in Nat
      /\ Top(t) = calls[t][Depth(t)]
  BY TopType, LenProperties DEF TypeOK, Depth
<1>2. CASE u # t
  BY <1>2 DEF Inside, Depth
<1>3. CASE u = t
  <2>1. u \in Inside(l)' <=> \E i \in 1..Depth(t) : calls[t][i].lock = l
    BY <1>1, <1>3 DEF Inside, Depth
  <2>2. u \in Inside(l) <=> \E i \in 1..Depth(t) : calls[t][i].lock = l /\ i < Depth(t)
    BY <1>1, <1>3 DEF Inside
  <2>3. \A i \in 1..Depth(t) : i < Depth(t) \/ i = Depth(t)
    BY <1>1
  <2> QED
    BY <1>1, <1>3, <2>1, <2>2, <2>3
<1> QED
  BY <1>2, <1>3

\* The thread leaves: the callback of the call at the top has returned.
LEMMA LeaveInside ==
  ASSUME IInv, NEW t \in Threads, Return(t)
  PROVE  /\ Top(t).lock \in Locks
         /\ \A l \in Locks : l # Top(t).lock => Inside(l)' = Inside(l)
         /\ \A l \in Locks : Inside(l)' = Inside(l) \/ Inside(l)' = Inside(l) \ {t}
         /\ \A l \in Locks : \A u \in Inside(l) : t \in Ancestors[u] => u = t
<1> USE DEF IInv
<1>1. /\ UNCHANGED calls /\ calls[t] # <<>>
      /\ pc[t] = "client" /\ pc'[t] # "client" /\ \A u \in Threads : u # t => pc'[u] = pc[u]
  BY DEF Return, TypeOK
<1>2. /\ Depth(t) \in 1..Depth(t) /\ DOMAIN calls[t] = 1..Depth(t) /\ Depth(t) \in Nat
      /\ Top(t) = calls[t][Depth(t)]
      /\ Top(t).lock \in Locks
  BY <1>1, TopType, LenProperties DEF TypeOK, Depth, CallRecords
<1>3. ASSUME NEW l \in Locks, NEW u \in Threads, u # t
      PROVE  u \in Inside(l)' <=> u \in Inside(l)
  BY <1>1, <1>3 DEF Inside, Depth
<1>4. ASSUME NEW l \in Locks
      PROVE  /\ t \in Inside(l)' => t \in Inside(l)
             /\ t \in Inside(l) /\ l # Top(t).lock => t \in Inside(l)'
  <2>1. t \in Inside(l)' <=> \E i \in 1..Depth(t) : calls[t][i].lock = l /\ i < Depth(t)
    BY <1>1, <1>2 DEF Inside, Depth
  <2>2. t \in Inside(l) <=> \E i \in 1..Depth(t) : calls[t][i].lock = l
    BY <1>1, <1>2 DEF Inside
  <2>3. \A i \in 1..Depth(t) : i < Depth(t) \/ i = Depth(t)
    BY <1>2
  <2> QED
    BY <1>2, <2>1, <2>2, <2>3
<1>5. \A l \in Locks : Inside(l) \subseteq Threads /\ Inside(l)' \subseteq Threads
  BY DEF Inside
<1>6. ASSUME NEW l \in Locks, NEW u \in Inside(l), t \in Ancestors[u], u # t
      PROVE  FALSE
  <2>1. u \in Threads /\ Descends(u, t)
    BY <1>5, <1>6 DEF Descends
  <2>2. Depth(u) = 0
    BY <2>1, Quiet DEF Return
  <2>3. \E i \in 1..Depth(u) : TRUE
    BY <2>1, InsideType
  <2> QED
    BY <2>2, <2>3
<1>7. ASSUME NEW l \in Locks, l # Top(t).lock
      PROVE  Inside(l)' = Inside(l)
  BY <1>3, <1>4, <1>5, <1>7
<1>8. ASSUME NEW l \in Locks
      PROVE  Inside(l)' = Inside(l) \/ Inside(l)' = Inside(l) \ {t}
  BY <1>3, <1>4, <1>5
<1> QED
  BY <1>2, <1>6, <1>7, <1>8

AbstractInside == [l \in Locks |-> Inside(l)]

\* Every step is a step of the abstract lock or leaves it alone.
LEMMA StepImplements ==
  ASSUME IInv, IInv', [Next]_vars
  PROVE  [Hierarchical!Next]_AbstractInside
<1> USE DEF IInv
<1>1. ASSUME \A l \in Locks : Inside(l)' = Inside(l)
      PROVE  [Hierarchical!Next]_AbstractInside
  BY <1>1 DEF AbstractInside
<1>2. ASSUME NEW t \in Threads,
             UNCHANGED calls,
             pc[t] \in {"choose", "push"} /\ pc'[t] = "client" /\ \A u \in Threads : u # t => pc'[u] = pc[u],
             pc[t] = "choose" => Reentrant(t, Top(t).obj)
      PROVE  [Hierarchical!Next]_AbstractInside
  <2> DEFINE k == Top(t).lock
  <2>1. k \in Locks /\ Inside(k) \subseteq Ancestors[t]
    BY <1>2, MayEnter
  <2>2. calls[t] # <<>>
    BY <1>2 DEF TypeOK
  <2>3. \A l \in Locks : Inside(l)' = IF l = k THEN Inside(l) \cup {t} ELSE Inside(l)
    BY <1>2, <2>2, EnterInside
  <2> HIDE DEF k
  <2>4. AbstractInside' = [AbstractInside EXCEPT ![k] = @ \cup {t}] /\ AbstractInside[k] = Inside(k)
    BY <2>1, <2>3 DEF AbstractInside
  <2>5. Hierarchical!Enter(t, k)
    BY <2>1, <2>4 DEF Hierarchical!Enter, AbstractInside
  <2> QED
    BY <2>1, <2>5 DEF Hierarchical!Next
<1>3. ASSUME NEW t \in Threads, Return(t)
      PROVE  [Hierarchical!Next]_AbstractInside
  <2>1. /\ Top(t).lock \in Locks
        /\ \A l \in Locks : l # Top(t).lock => Inside(l)' = Inside(l)
        /\ \A l \in Locks : Inside(l)' = Inside(l) \/ Inside(l)' = Inside(l) \ {t}
        /\ \A l \in Locks : \A u \in Inside(l) : t \in Ancestors[u] => u = t
    BY <1>3, LeaveInside
  <2>2. PICK x \in Locks : x = Top(t).lock
    BY <2>1
  <2>3. /\ \A l \in Locks : l # x => Inside(l)' = Inside(l)
        /\ Inside(x)' = Inside(x) \/ Inside(x)' = Inside(x) \ {t}
        /\ \A u \in Inside(x) : t \in Ancestors[u] => u = t
    BY <2>1, <2>2
  <2>4. CASE Inside(x)' = Inside(x)
    BY <1>1, <2>3, <2>4
  <2>5. CASE Inside(x)' = Inside(x) \ {t}
    <3>1. AbstractInside' = [AbstractInside EXCEPT ![x] = @ \ {t}] /\ AbstractInside[x] = Inside(x)
      BY <2>3, <2>5 DEF AbstractInside
    <3>2. Hierarchical!Leave(t, x)
      BY <2>3, <3>1 DEF Hierarchical!Leave, AbstractInside
    <3> QED
      BY <3>2 DEF Hierarchical!Next
  <2> QED
    BY <2>3, <2>4, <2>5
<1>4. CASE UNCHANGED vars
  BY <1>1, <1>4 DEF vars, Inside, Depth
<1>5. ASSUME NEW t \in Threads, Fork(t) \/ Finish(t)
      PROVE  \A l \in Locks : Inside(l)' = Inside(l)
  BY <1>5 DEF Fork, Finish, Inside, Depth
<1>6. ASSUME NEW t \in Threads,
             \/ SetWaiting(t) \/ TryLock(t) \/ Alarm(t) \/ Walk(t) \/ LockMutex(t)
             \/ ClearWaiting(t) \/ PushFails(t) \/ Pop(t) \/ UnlockMutex(t)
      PROVE  \A l \in Locks : Inside(l)' = Inside(l)
  <2>1. /\ UNCHANGED calls /\ pc[t] # "client" /\ pc'[t] # "client"
        /\ \A u \in Threads : u # t => pc'[u] = pc[u]
    <3>1. CASE SetWaiting(t) \/ Alarm(t) \/ LockMutex(t) \/ ClearWaiting(t)
      BY <3>1 DEF SetWaiting, Alarm, LockMutex, ClearWaiting, TypeOK
    <3>2. CASE PushFails(t) \/ Pop(t) \/ UnlockMutex(t)
      BY <3>2 DEF PushFails, Pop, UnlockMutex, TypeOK
    <3>3. CASE TryLock(t)
      BY <3>3 DEF TryLock, TypeOK
    <3>4. CASE Walk(t)
      BY <3>4 DEF Walk, TypeOK
    <3> QED
      BY <1>6, <3>1, <3>2, <3>3, <3>4
  <2> QED
    BY <2>1, OutsideSteps
<1>7. ASSUME NEW t \in Threads, Choose(t)
      PROVE  [Hierarchical!Next]_AbstractInside
  <2>1. CASE Reentrant(t, Top(t).obj)
    <3>1. /\ UNCHANGED calls /\ pc[t] = "choose" /\ pc'[t] = "client"
          /\ \A u \in Threads : u # t => pc'[u] = pc[u]
      BY <1>7, <2>1 DEF Choose, TypeOK
    <3> QED
      BY <1>2, <2>1, <3>1
  <2>2. CASE ~Reentrant(t, Top(t).obj)
    <3>1. /\ pc[t] # "client" /\ pc'[t] # "client" /\ \A u \in Threads : u # t => pc'[u] = pc[u]
      BY <1>7, <2>2 DEF Choose, TypeOK
    <3>2. /\ \A u \in Threads : u # t => calls'[u] = calls[u]
          /\ Len(calls'[t]) = Depth(t)
          /\ \A i \in 1..Depth(t) : i # Depth(t) => calls'[t][i] = calls[t][i]
          /\ calls' \in [Threads -> Seq(CallRecords)]
      BY <1>7, <2>2, ChooseEffect
    <3>3. \A l \in Locks : Inside(l)' = Inside(l)
      <4> SUFFICES ASSUME NEW l \in Locks, NEW u \in Threads
                   PROVE  u \in Inside(l)' <=> u \in Inside(l)
        BY DEF Inside
      <4>1. CASE u # t
        BY <3>1, <3>2, <4>1 DEF Inside, Depth
      <4>2. CASE u = t
        <5>1. DOMAIN calls'[t] = 1..Depth(t) /\ DOMAIN calls[t] = 1..Depth(t) /\ Depth(t) \in Nat
          BY <3>2, LenProperties, CallType DEF TypeOK, Depth
        <5>2. u \in Inside(l)' <=> \E i \in 1..Depth(t) : calls'[t][i].lock = l /\ i < Depth(t)
          BY <3>1, <3>2, <4>2, <5>1 DEF Inside, Depth
        <5>3. u \in Inside(l) <=> \E i \in 1..Depth(t) : calls[t][i].lock = l /\ i < Depth(t)
          BY <3>1, <4>2, <5>1 DEF Inside
        <5> QED
          BY <3>2, <5>1, <5>2, <5>3
      <4> QED
        BY <4>1, <4>2
    <3> QED
      BY <1>1, <3>3
  <2> QED
    BY <2>1, <2>2
<1>8. ASSUME NEW t \in Threads, Push(t)
      PROVE  [Hierarchical!Next]_AbstractInside
  <2>1. /\ UNCHANGED calls /\ pc[t] = "push" /\ pc'[t] = "client"
        /\ \A u \in Threads : u # t => pc'[u] = pc[u]
    BY <1>8 DEF Push, TypeOK
  <2> QED
    BY <1>2, <2>1
<1>9. ASSUME NEW t \in Threads, NEW l \in Locks, Call(t, l)
      PROVE  [Hierarchical!Next]_AbstractInside
  BY <1>1, <1>9, CallOutside
<1>10. ASSUME NEW t \in Threads, Done(t)
       PROVE  [Hierarchical!Next]_AbstractInside
  BY <1>1, <1>10, DoneOutside
<1> QED
  BY <1>1, <1>3, <1>4, <1>5, <1>6, <1>7, <1>8, <1>9, <1>10 DEF Next, Enter, Leave

\* pmath_thread_call_locked implements the lock that admits a thread below
\* its ancestors only and lets it leave after all of its descendants.
THEOREM Implementation == Spec => ImplementsLock
<1>1. Init => Hierarchical!Init
  <2> SUFFICES ASSUME Init PROVE \A l \in Locks : Inside(l) = {}
    BY DEF Hierarchical!Init
  <2>1. \A t \in Threads : DOMAIN calls[t] = {}
    BY DEF Init
  <2> QED
    BY <2>1 DEF Inside
<1>2. IInv /\ IInv' /\ [Next]_vars => [Hierarchical!Next]_AbstractInside
  BY StepImplements
<1> QED
  BY <1>1, <1>2, AlwaysIInv, PTL DEF Spec, ImplementsLock, Hierarchical!Spec, AbstractInside

-----------------------------------------------------------------------------
(* Deadlocks.                                                              *)

\* Threads that compete for a mutex, from the announcement in waiting_lock on.
Seeking == {"try", "walk", "block"}

\* A thread that competes has announced the object.
Announced == \A t \in Threads : pc[t] \in Seeking => waiting[t] = Top(t).obj

\* Each thread of S competes for an object whose innermost owner is in S.
Ring(S) ==
  \A t \in S : pc[t] \in Seeking /\ \E h \in S : Reentrant(h, Top(t).obj)

\* t has its search in front of it, or is among the objects that S competes for.
Searching(t, S) == pc[t] = "try" \/ (pc[t] = "walk" /\ \E s \in S : at[t] = Top(s).obj)

\* In every ring of threads that wait for each other some thread still searches:
\* the search cannot leave the ring, so that only an alarm ends it.
RingsSeen ==
  \A S \in SUBSET Threads : S # {} /\ Ring(S) => \E t \in S : Searching(t, S)

\* What a step of t leaves alone.
OthersStay(t) ==
  \A u \in Threads \ {t} :
    /\ pc'[u] = pc[u] /\ calls'[u] = calls[u]
    /\ waiting'[u] = waiting[u] /\ at'[u] = at[u]

\* Every step is a step of one thread.
LEMMA StepOfOne ==
  ASSUME IInv, NEW t \in Threads,
         \/ Fork(t) \/ Finish(t) \/ Return(t) \/ \E l \in Locks : Call(t, l)
         \/ Enter(t) \/ PushFails(t) \/ Leave(t)
  PROVE  OthersStay(t)
<1> USE DEF IInv, TypeOK, OthersStay
<1>1. CASE Fork(t) \/ Finish(t) \/ Return(t)
  BY <1>1 DEF Fork, Finish, Return
<1>2. ASSUME NEW l \in Locks, Call(t, l) PROVE OthersStay(t)
  <2>1. \A u \in Threads : u # t => calls'[u] = calls[u]
    BY <1>2, CallEffect
  <2> QED
    BY <1>2, <2>1 DEF Call
<1>3. CASE Choose(t)
  <2>1. \A u \in Threads : u # t => calls'[u] = calls[u]
    BY <1>3, ChooseEffect DEF Choose
  <2> QED
    BY <1>3, <2>1 DEF Choose
<1>4. CASE SetWaiting(t) \/ TryLock(t) \/ Alarm(t) \/ Walk(t) \/ LockMutex(t) \/ ClearWaiting(t)
  BY <1>4 DEF SetWaiting, TryLock, Alarm, Walk, LockMutex, ClearWaiting
<1>5. CASE Push(t) \/ PushFails(t) \/ Pop(t) \/ UnlockMutex(t)
  BY <1>5 DEF Push, PushFails, Pop, UnlockMutex
<1>6. CASE Done(t)
  <2>1. \A u \in Threads : u # t => calls'[u] = calls[u]
    BY <1>6, DoneEffect
  <2> QED
    BY <1>6, <2>1 DEF Done
<1> QED
  BY <1>1, <1>2, <1>3, <1>4, <1>5, <1>6 DEF Enter, Leave

\* The innermost owner of each object that has changed owners is not competing.
OwnersBusy ==
  \A o \in Objs : \/ owners'[o] = owners[o]
                  \/ \A h \in Threads : Reentrant(h, o)' => pc'[h] \notin Seeking

\* A step of a thread that does not compete after it closes no ring.
LEMMA NoNewRing ==
  ASSUME IInv, RingsSeen, Announced, NEW t \in Threads, OthersStay(t), OwnersBusy,
         pc'[t] \notin Seeking
  PROVE  Announced' /\ RingsSeen'
<1> USE DEF IInv
<1>1. Announced'
  BY DEF Announced, OthersStay, Top, Depth
<1>2. ASSUME NEW S \in SUBSET Threads, S # {}, Ring(S)'
      PROVE  \E u \in S : Searching(u, S)'
  <2>1. t \notin S
    BY <1>2 DEF Ring
  <2>2. \A u \in S : pc'[u] = pc[u] /\ Top(u)' = Top(u) /\ at'[u] = at[u] /\ calls[u] = calls'[u]
    BY <2>1 DEF OthersStay, Top, Depth
  <2>3. ASSUME NEW u \in S
        PROVE  pc[u] \in Seeking /\ \E h \in S : Reentrant(h, Top(u).obj)
    <3>1. pc'[u] \in Seeking /\ pc[u] \in Seeking
      BY <1>2, <2>2 DEF Ring
    <3>2. PICK h \in S : Reentrant(h, Top(u).obj)'
      BY <1>2, <2>2 DEF Ring
    <3>3. pc'[h] \in Seeking
      BY <1>2 DEF Ring
    <3>4. Top(u).obj \in Objs
      <4>1. calls[u] # <<>>
        BY <3>1 DEF TypeOK, Seeking
      <4> QED
        BY <4>1, TopType DEF CallRecords
    <3>5. owners'[Top(u).obj] = owners[Top(u).obj]
      <4>1. Reentrant(h, Top(u).obj)' <=>
              owners'[Top(u).obj] # <<>> /\ Head(owners'[Top(u).obj]) = h
        BY <2>2 DEF Reentrant
      <4>2. ASSUME NEW o \in Objs, o = Top(u).obj
            PROVE  Reentrant(h, o)'
        BY <3>2, <4>1, <4>2 DEF Reentrant
      <4> QED
        BY <3>3, <3>4, <4>2 DEF OwnersBusy
    <3>6. Reentrant(h, Top(u).obj)
      BY <2>2, <3>2, <3>5 DEF Reentrant
    <3> QED
      BY <3>1, <3>6
  <2>4. Ring(S)
    BY <2>3 DEF Ring
  <2>5. PICK u \in S : Searching(u, S)
    BY <1>2, <2>4 DEF RingsSeen
  <2> QED
    BY <2>2, <2>5 DEF Searching
<1>3. RingsSeen'
  BY <1>2 DEF RingsSeen
<1> QED
  BY <1>1, <1>3

\* A step of a competing thread, or one that begins to compete, keeps the rings
\* it does not belong to.
LEMMA SeekerStep ==
  ASSUME IInv, RingsSeen, Announced, NEW t \in Threads, OthersStay(t),
         UNCHANGED <<calls, owners>>,
         waiting'[t] = Top(t).obj,
         \A S \in SUBSET Threads :
           t \in S /\ Ring(S)' =>
             \/ Searching(t, S)'
             \/ pc[t] \in Seeking /\ ~Searching(t, S)
  PROVE  Announced' /\ RingsSeen'
<1>1. \A u \in Threads : Top(u)' = Top(u)
  BY DEF Top, Depth
<1>2. Announced'
  BY <1>1 DEF Announced, OthersStay
<1>3. ASSUME NEW S \in SUBSET Threads, S # {}, Ring(S)'
      PROVE  \E u \in S : Searching(u, S)'
  <2>1. \A u \in Threads \ {t} : pc'[u] = pc[u] /\ at'[u] = at[u]
    BY DEF OthersStay
  <2>2. CASE t \in S /\ Searching(t, S)'
    BY <2>2
  <2>3. CASE ~(t \in S /\ Searching(t, S)')
    <3>1. t \in S => pc[t] \in Seeking /\ ~Searching(t, S)
      BY <1>3, <2>3
    <3>2. ASSUME NEW u \in S
          PROVE  pc[u] \in Seeking /\ \E h \in S : Reentrant(h, Top(u).obj)
      <4>1. pc[u] \in Seeking
        BY <1>3, <2>1, <3>1 DEF Ring
      <4>2. PICK h \in S : Reentrant(h, Top(u).obj)'
        BY <1>1, <1>3 DEF Ring
      <4>3. Reentrant(h, Top(u).obj)
        BY <1>1, <4>2 DEF Reentrant
      <4> QED
        BY <4>1, <4>3
    <3>3. Ring(S)
      BY <3>2 DEF Ring
    <3>4. PICK u \in S : Searching(u, S)
      BY <1>3, <3>3 DEF RingsSeen
    <3>5. u # t /\ pc'[u] = pc[u] /\ at'[u] = at[u]
      BY <2>1, <3>1, <3>4
    <3>6. \A s \in S : Top(s)' = Top(s)
      BY <1>1
    <3> QED
      BY <3>4, <3>5, <3>6 DEF Searching
  <2> QED
    BY <2>2, <2>3
<1>4. RingsSeen'
  BY <1>3 DEF RingsSeen
<1> QED
  BY <1>2, <1>4

\* The search goes from one object that a ring competes for to the next.
LEMMA WalkStays ==
  ASSUME IInv, Announced, NEW t \in Threads, Walk(t),
         NEW S \in SUBSET Threads, t \in S, Ring(S), Searching(t, S)
  PROVE  Searching(t, S)'
<1> USE DEF IInv
<1>1. PICK s \in S : at[t] = Top(s).obj
  BY DEF Searching, Walk
<1>2. PICK h \in S : Reentrant(h, at[t])
  BY <1>1 DEF Ring
<1>3. pc[h] \in Seeking /\ calls[h] # <<>>
  BY DEF Ring, Seeking, TypeOK
<1>4. waiting[h] = Top(h).obj /\ Top(h).obj # None
  BY <1>3, TopType, NamesAssumption DEF Announced, CallRecords
<1>5. at'[t] = Top(h).obj /\ pc'[t] = "walk"
  BY <1>2, <1>4 DEF Walk, Reentrant, TypeOK
<1>6. Top(h)' = Top(h)
  BY DEF Walk, Top, Depth
<1> QED
  BY <1>5, <1>6 DEF Searching

\* The first thread of a list is its head, after a step too.
LEMMA NewHead ==
  ASSUME TypeOK', NEW o \in Objs, NEW h, Reentrant(h, o)'
  PROVE  owners'[o] \in Seq(Threads) /\ owners'[o] # <<>> /\ owners'[o][1] = h
<1>1. owners'[o] \in Seq(Threads)
  BY DEF TypeOK
<1>2. owners'[o] # <<>> /\ Head(owners'[o]) = h
  BY DEF Reentrant
<1> QED
  BY <1>1, <1>2

\* The owner that a node leaves at the head of the list waits for the thread
\* that has removed the node, a child of its own.
LEMMA HeirWaits ==
  ASSUME IInv, IInv', NEW t \in Threads, Pop(t), NEW o \in Objs, owners'[o] # owners[o],
         NEW h \in Threads, Reentrant(h, o)'
  PROVE  pc[h] = "client"
<1> USE DEF IInv
<1>1. owners[o] # <<>> /\ o = Top(t).obj /\ Reentrant(t, o)
  <2>1. Reentrant(t, Top(t).obj) /\ owners[Top(t).obj] # <<>>
    BY PopFits DEF Pop
  <2>2. o = Top(t).obj
    BY DEF Pop, TypeOK
  <2> QED
    BY <2>1, <2>2
<1>2. /\ Len(owners'[o]) = Len(owners[o]) - 1
      /\ \A i \in 1..Len(owners'[o]) : owners'[o][i] = owners[o][i + 1]
  BY <1>1, PopEffect
<1>3. owners'[o] \in Seq(Threads) /\ owners'[o] # <<>> /\ owners'[o][1] = h
  BY NewHead
<1>4. Len(owners'[o]) \in Nat /\ Len(owners'[o]) > 0
  BY <1>3, EmptySeq, LenProperties
<1>5. owners[o][1] = t /\ Len(owners[o]) \in Nat
  BY <1>1, OwnerType DEF Reentrant
<1>6. h = owners[o][2] /\ 2 \in 1..Len(owners[o]) /\ 1 \in 1..Len(owners[o])
  <2>1. 1 \in 1..Len(owners'[o]) /\ 1 + 1 = 2
    BY <1>4
  <2>2. owners'[o][1] = owners[o][1 + 1]
    BY <1>2, <2>1
  <2> QED
    BY <1>2, <1>3, <1>4, <1>5, <2>1, <2>2
<1>7. Descends(t, h)
  BY <1>5, <1>6 DEF ChainInv
<1>8. t \in live
  BY Quiet DEF Pop
<1> QED
  BY <1>7, <1>8 DEF LiveInv

\* Every step keeps what the search for cycles sees.
LEMMA StepKeepsRings ==
  IInv /\ IInv' /\ Announced /\ RingsSeen /\ [Next]_vars => Announced' /\ RingsSeen'
<1> SUFFICES ASSUME IInv, IInv', Announced, RingsSeen, [Next]_vars
             PROVE  Announced' /\ RingsSeen'
  OBVIOUS
<1> USE DEF IInv
<1>1. CASE UNCHANGED vars
  <2>1. \A t \in Threads : Top(t)' = Top(t)
    BY <1>1 DEF vars, Top, Depth
  <2>2. Announced'
    BY <1>1, <2>1 DEF vars, Announced
  <2>3. ASSUME NEW S \in SUBSET Threads
        PROVE  (Ring(S)' <=> Ring(S)) /\ \A t \in S : Searching(t, S)' <=> Searching(t, S)
    BY <1>1, <2>1 DEF vars, Ring, Searching, Reentrant
  <2> QED
    BY <2>2, <2>3 DEF RingsSeen
<1>2. ASSUME NEW t \in Threads,
             \/ Fork(t) \/ Finish(t) \/ Return(t) \/ \E l \in Locks : Call(t, l)
             \/ Choose(t) \/ Alarm(t) \/ LockMutex(t) \/ ClearWaiting(t)
             \/ PushFails(t) \/ UnlockMutex(t) \/ Done(t)
             \/ (TryLock(t) /\ IsFree(t))
      PROVE  Announced' /\ RingsSeen'
  <2>1. OthersStay(t)
    BY <1>2, StepOfOne DEF Enter, Leave
  <2>2. pc'[t] \notin Seeking
    BY <1>2 DEF Fork, Finish, Return, Call, Choose, Alarm, LockMutex, ClearWaiting, PushFails,
                UnlockMutex, Done, TryLock, Seeking, TypeOK
  <2>3. OwnersBusy
    BY <1>2 DEF Fork, Finish, Return, Call, Choose, Alarm, LockMutex, ClearWaiting, PushFails,
                UnlockMutex, Done, TryLock, OwnersBusy
  <2> QED
    BY <2>1, <2>2, <2>3, NoNewRing
<1>3. ASSUME NEW t \in Threads, Push(t)
      PROVE  Announced' /\ RingsSeen'
  <2>1. OthersStay(t) /\ pc'[t] = "client"
    BY <1>3, StepOfOne DEF Enter, Push, TypeOK
  <2>2. OwnersBusy
    <3>1. ASSUME NEW o \in Objs, owners'[o] # owners[o], NEW h \in Threads, Reentrant(h, o)'
          PROVE  h = t
      <4>1. o = Top(t).obj
        BY <1>3, <3>1 DEF Push, TypeOK
      <4>2. owners'[o][1] = t
        BY <1>3, <4>1, PushEffect
      <4> QED
        BY <3>1, <4>2, NewHead
    <3> QED
      BY <2>1, <3>1 DEF OwnersBusy, Seeking
  <2> QED
    BY <2>1, <2>2, NoNewRing DEF Seeking
<1>4. ASSUME NEW t \in Threads, Pop(t)
      PROVE  Announced' /\ RingsSeen'
  <2>1. OthersStay(t) /\ pc'[t] = "unlock" /\ pc[t] = "pop"
    BY <1>4, StepOfOne DEF Leave, Pop, TypeOK
  <2>2. OwnersBusy
    <3>1. ASSUME NEW o \in Objs, owners'[o] # owners[o], NEW h \in Threads, Reentrant(h, o)'
          PROVE  pc[h] = "client"
      BY <1>4, <3>1, HeirWaits
    <3> QED
      BY <2>1, <3>1 DEF OwnersBusy, Seeking, OthersStay
  <2> QED
    BY <2>1, <2>2, NoNewRing DEF Seeking
<1>5. ASSUME NEW t \in Threads, SetWaiting(t) \/ (TryLock(t) /\ ~IsFree(t)) \/ Walk(t)
      PROVE  Announced' /\ RingsSeen'
  <2>1. OthersStay(t) /\ UNCHANGED <<calls, owners>> /\ Top(t)' = Top(t)
    BY <1>5, StepOfOne DEF Enter, SetWaiting, TryLock, Walk, Top, Depth
  <2>2. waiting'[t] = Top(t).obj
    BY <1>5 DEF SetWaiting, TryLock, Walk, Announced, Seeking, TypeOK
  <2>3. ASSUME NEW S \in SUBSET Threads, t \in S, Ring(S)'
        PROVE  Searching(t, S)' \/ (pc[t] \in Seeking /\ ~Searching(t, S))
    <3>1. CASE SetWaiting(t)
      BY <3>1 DEF SetWaiting, Searching, TypeOK
    <3>2. CASE TryLock(t) /\ ~IsFree(t)
      BY <2>1, <2>3, <3>2 DEF TryLock, Searching, TypeOK
    <3>3. CASE Walk(t) /\ Searching(t, S)
      <4>1. \A u \in S : Top(u)' = Top(u) /\ (u # t => pc'[u] = pc[u])
        BY <2>1 DEF Top, Depth, OthersStay
      <4>2. pc[t] \in Seeking
        BY <3>3 DEF Walk, Seeking
      <4>3. ASSUME NEW u \in S
            PROVE  pc[u] \in Seeking /\ \E h \in S : Reentrant(h, Top(u).obj)
        BY <2>1, <2>3, <4>1, <4>2 DEF Ring, Reentrant
      <4>4. Ring(S)
        BY <4>3 DEF Ring
      <4> QED
        BY <2>3, <3>3, <4>4, WalkStays
    <3>4. CASE Walk(t) /\ ~Searching(t, S)
      BY <3>4 DEF Walk, Seeking
    <3> QED
      BY <1>5, <3>1, <3>2, <3>3, <3>4
  <2> QED
    BY <2>1, <2>2, <2>3, SeekerStep
<1> QED
  BY <1>1, <1>2, <1>3, <1>4, <1>5 DEF Next, Enter, Leave

\* A thread that is about to block waits for the innermost owner of the object,
\* when the holder of the mutex itself is about to block.
LEMMA HolderIsInnermost ==
  ASSUME IInv, NEW t \in Threads, pc[t] = "block", Holder(t) \in Threads,
         pc[Holder(t)] = "block"
  PROVE  Reentrant(Holder(t), Top(t).obj)
<1> USE DEF IInv
<1> DEFINE h == Holder(t)
           o == Top(t).obj
<1>1. o \in Objs /\ Top(t).mutex \in Mutexes
  BY TopType DEF TypeOK, CallRecords, TopInv
<1>2. PICK i \in 1..Depth(h) : OwnsMutex(h, i) /\ Obj(h, i) = o
  BY <1>1 DEF MutexInv, Holder
<1>3. OwnsNode(h, i)
  BY <1>2 DEF OwnsMutex, OwnsNode
<1>4. InList(h, o)
  BY <1>1, <1>2, <1>3 DEF NodeInv
<1> QED
  BY <1>1, <1>4, Innermost

\* No threads without kinship wait for each other in a circle after all of them
\* have searched for cycles (_pmath_thread_call_locked's promise to avoid
\* deadlocks), whatever the forest, the locks and the nesting.
THEOREM AlwaysNoDeadlock == Spec => []NoDeadlock
<1>1. Init => Announced /\ RingsSeen
  BY DEF Init, Announced, RingsSeen, Ring, Seeking
<1>2. IInv /\ RingsSeen => NoDeadlock
  <2> SUFFICES ASSUME IInv, RingsSeen,
                      NEW S \in SUBSET live, S # {},
                      \A a, b \in S : a # b => ~Descends(a, b),
                      Deadlocked(S)
               PROVE  FALSE
    BY DEF NoDeadlock
  <2>1. S \in SUBSET Threads
    BY DEF IInv, TypeOK
  <2>2. \A t \in S : pc[t] = "block" /\ Holder(t) \in S
    BY DEF Deadlocked, Descends
  <2>3. \A t \in S : Reentrant(Holder(t), Top(t).obj)
    BY <2>1, <2>2, HolderIsInnermost
  <2>4. Ring(S)
    BY <2>2, <2>3 DEF Ring, Seeking
  <2> QED
    BY <2>1, <2>2, <2>4 DEF RingsSeen, Searching
<1> QED
  BY <1>1, <1>2, AlwaysIInv, StepKeepsRings, PTL DEF Spec
=============================================================================
