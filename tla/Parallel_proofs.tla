--------------------------- MODULE Parallel_proofs ---------------------------
(***************************************************************************)
(* Proofs about Parallel for any number of calls, tasks and items and any  *)
(* nesting: what a call has not done when its tasks are over has an excuse *)
(* that the calling thread can see, the exception that ends a call is seen *)
(* by that call only, and the counter of exceptions is exact.              *)
(***************************************************************************)
EXTENDS Parallel, FiniteSetTheorems, TLAPS

-----------------------------------------------------------------------------
(* The inductive invariant.                                                *)

Begun(c)  == stage[c] # "none"
Active(c) == stage[c] \in {"starting", "running"}

\* The calling thread of c waits for the tasks.
Live(c) == Active(c) /\ pc[caller[c]] = "waiting"

\* Calls and threads: the caller of a call that has not returned waits for it and
\* for no other, and tasks exist only as long as their caller waits.
ShapeOf(c) ==
  /\ stage[c] = "none" => caller[c] = None /\ index[c] = 0
  /\ stage[c] = "none" => \A k \in TasksOf(c) : pc[k] = "none"
  /\ Begun(c) => caller[c] \in Threads
  /\ Begun(c) => caller[c] = Root \/ Begun(CallOf[caller[c]])
  /\ Active(c) => pc[caller[c]] \in {"waiting", "rethrow"}
  /\ Active(c) /\ pc[caller[c]] = "rethrow" => \A k \in TasksOf(c) : pc[k] = "over"
  /\ stage[c] = "returned" => \A k \in TasksOf(c) : pc[k] = "over"
  /\ \A d \in Calls : Active(c) /\ Active(d) /\ caller[c] = caller[d] => c = d

Shape == \A c \in Calls : ShapeOf(c)

\* Where a task has no exception of its own, and where it is about to pass one on.
Clear   == {"none", "idle", "free", "over", "pass item", "pass", "rethrow"}
Passing == {"pass item", "pass"}

\* Who can have which exception.
ExceptionOf(t) ==
  /\ exc[t] = "return" => Uses(t) /\ pc[t] # "rethrow"
  /\ held[t] # "return"
  /\ held[t] # None <=> pc[t] \in Passing \cup {"rethrow"}
  /\ t \in Tasks =>
       /\ pc[t] \in Passing => held[t] = "error"
       /\ pc[t] \in Clear => exc[t] = None
       /\ exc[t] = "abort" \/ held[t] = "abort" => aborted[CallOf[t]]

Exceptions == \A t \in Threads : ExceptionOf(t)

\* Task k will pass an exception on to its caller.
PassesOn(k) == exc[k] = "error" \/ held[k] = "error"

\* Why items of call c may be left undone.
Excused(c) ==
  \/ aborted[c]
  \/ \E a \in Chain(caller[c]) : exc[a] # None
  \/ \E k \in TasksOf(c) : PassesOn(k)

\* A task that has taken an item is before the end of its code at one of Before,
\* and has left the loop at one of After.
Before == {"test", "item", "clean item", "pass item", "waiting", "rethrow"}
After  == {"clean", "pass", "free", "over"}

\* Items are taken by one task each, and results are of different items that were
\* done.
TakenBy(k) ==
  LET c == CallOf[k]
  IN  /\ idx[k] <= index[c]
      /\ pc[k] \in Before \cup {"ended", "count"} => idx[k] # 0
      /\ pc[k] = "count" => kind[c] = "try" /\ idx[k] \in done[c]
      /\ pc[k] = "ended" => idx[k] \in done[c] \/ (outcome[k] = "cut" /\ Aborting(k))
      /\ pc[k] = "throw" => kind[c] # "map" /\ (kind[c] = "try" => found[c] >= Count[c])

TakenOf(c) ==
  /\ \A k \in TasksOf(c) : TakenBy(k)
  /\ \A j, k \in TasksOf(c) : idx[j] = idx[k] /\ j # k => idx[j] = 0

ResultsOf(c) ==
  /\ Len(results[c]) = IF found[c] < Count[c] THEN found[c] ELSE Count[c]
  /\ \A m, n \in DOMAIN results[c] : results[c][m] = results[c][n] => m = n
  /\ \A n \in DOMAIN results[c] : results[c][n] \in done[c] /\ results[c][n] <= index[c]
  /\ \A k \in TasksOf(c) : pc[k] \in Before \cup {"ended", "count"} =>
       \A n \in DOMAIN results[c] : results[c][n] # idx[k]

\* What is not done is under way or has an excuse.
DueOf(c) ==
  Live(c) =>
    /\ \A i \in 1..Items[c] :
         \/ i > index[c]
         \/ i \in done[c]
         \/ Excused(c)
         \/ \E k \in TasksOf(c) : idx[k] = i /\ pc[k] \in Before
    /\ \A k \in TasksOf(c) : pc[k] \in After => index[c] >= Items[c] \/ Excused(c)
    /\ kind[c] = "try" /\ exc[caller[c]] = "return" => found[c] >= Count[c]

IInv ==
  /\ TypeOK
  /\ Shape
  /\ Exceptions
  /\ ReasonsExact
  /\ \A c \in Calls : TakenOf(c)
  /\ \A c \in Calls : ResultsOf(c)
  /\ \A c \in Calls : DueOf(c)

-----------------------------------------------------------------------------
(* Threads and their ancestors.                                            *)

\* The threads whose ancestors exist.
Known == {t \in Threads : t = Root \/ Begun(CallOf[t])}

\* Constants and the types of what calls and threads are made of.
LEMMA Basics ==
  ASSUME TypeOK
  PROVE  /\ IsFiniteSet(Threads) /\ Root \in Threads /\ Tasks \subseteq Threads /\ Root \notin Tasks
         /\ \A t \in Threads : t \in Tasks \/ t = Root
         /\ \A k \in Tasks : CallOf[k] \in Calls
         /\ None \notin Threads /\ None \notin {"return", "error", "abort"}
<1>1. Tasks \cup {Root} = Threads
      BY DEF Threads
<1>2. IsFiniteSet(Tasks \cup {Root})
      BY ParallelAssumption, FS_AddElement
<1> QED BY <1>1, <1>2, ParallelAssumption

Places == {"none", "idle", "test", "item", "ended", "count", "next", "throw", "clean item",
           "pass item", "clean", "pass", "free", "over", "waiting", "rethrow"}

LEMMA Types ==
  ASSUME TypeOK
  PROVE  /\ pc \in [Threads -> Places]
         /\ index \in [Calls -> Nat] /\ found \in [Calls -> Nat] /\ idx \in [Tasks -> Nat]
         /\ Items \in [Calls -> Nat] /\ Count \in [Calls -> Nat]
<1>1. Items \in [Calls -> Nat] /\ Count \in [Calls -> Nat]
      BY ParallelAssumption
<1>2. pc \in [Threads -> Places]
      BY DEF TypeOK, Places
<1> QED BY <1>1, <1>2 DEF TypeOK

\* A set of threads that has t, and with each thread its parent, has the chain of t.
LEMMA ChainIn ==
  ASSUME NEW t \in Threads, NEW S \in SUBSET Threads, t \in S, \A s \in S : Parent(s) \in S
  PROVE  Chain(t) \subseteq S
BY DEF Chain

LEMMA ChainSelf ==
  ASSUME NEW t \in Threads
  PROVE  t \in Chain(t) /\ Chain(t) \subseteq Threads
BY DEF Chain

\* The parent of a thread that is there is there.
LEMMA ParentKnown ==
  ASSUME TypeOK, Shape, NEW t \in Known
  PROVE  Parent(t) \in Known
<1>1. CASE t = Root
      BY <1>1 DEF Parent, Known
<1>2. CASE t # Root
  <2>1. t \in Tasks /\ CallOf[t] \in Calls /\ Begun(CallOf[t])
        BY <1>2, Basics DEF Known
  <2>2. caller[CallOf[t]] \in Threads
           /\ (caller[CallOf[t]] = Root \/ Begun(CallOf[caller[CallOf[t]]]))
        BY <2>1 DEF Shape, ShapeOf
  <2> QED BY <1>2, <2>2 DEF Parent, Known
<1> QED BY <1>1, <1>2

\* A chain goes up through threads that are there.
LEMMA ChainClosed ==
  ASSUME TypeOK, Shape, NEW t \in Known
  PROVE  /\ Chain(t) \subseteq Known
         /\ \A s \in Chain(t) : Parent(s) \in Chain(t)
<1>1. t \in Threads /\ Known \in SUBSET Threads /\ \A s \in Known : Parent(s) \in Known
      BY ParentKnown DEF Known
<1>2. Chain(t) \subseteq Known
      BY <1>1, ChainIn
<1>3. ASSUME NEW s \in Chain(t) PROVE Parent(s) \in Chain(t)
  <2>1. Parent(s) \in Threads
        BY <1>1, <1>2
  <2> QED BY <2>1 DEF Chain
<1> QED BY <1>2, <1>3

\* The chain of a thread is the thread and the chain of its parent.
LEMMA ChainStep ==
  ASSUME TypeOK, Shape, NEW t \in Known
  PROVE  Chain(t) \subseteq {t} \cup Chain(Parent(t))
<1>1. Parent(t) \in Known /\ Parent(t) \in Threads /\ t \in Threads
      BY ParentKnown DEF Known
<1> DEFINE S == {t} \cup Chain(Parent(t))
<1>2. S \in SUBSET Threads /\ t \in S
      BY <1>1, ChainSelf
<1>3. \A s \in S : Parent(s) \in S
      BY <1>1, ChainSelf, ChainClosed
<1> HIDE DEF S
<1>4. Chain(t) \subseteq S
      BY <1>1, <1>2, <1>3, ChainIn
<1> QED BY <1>4 DEF S

\* Each other thread of a chain is the parent of a task in it.
LEMMA ChainChild ==
  ASSUME TypeOK, Shape, NEW t \in Known, NEW a \in Chain(t), a # t
  PROVE  \E k \in Tasks : k \in Chain(t) /\ caller[CallOf[k]] = a
<1>1. t \in Threads /\ t \in Chain(t) /\ Chain(t) \subseteq Threads
      BY ChainSelf DEF Known
<1> DEFINE S == Chain(t) \ {a}
<1>2. S \in SUBSET Threads /\ t \in S /\ ~(Chain(t) \subseteq S)
      BY <1>1
<1>3. PICK s \in S : Parent(s) \notin S
      BY <1>1, <1>2, ChainIn
<1>4. s \in Chain(t) /\ s # a /\ Parent(s) = a
      BY <1>3, ChainClosed
<1>5. s # Root /\ s \in Tasks
      BY <1>1, <1>4, Basics DEF Parent
<1> QED BY <1>4, <1>5 DEF Parent

\* A task that is there and not over has a caller that waits for it.
LEMMA CallerWaits ==
  ASSUME TypeOK, Shape, NEW k \in Tasks, pc[k] \notin {"none", "over"}
  PROVE  Live(CallOf[k]) /\ k \in TasksOf(CallOf[k]) /\ k \in Known /\ CallOf[k] \in Calls
<1>1. CallOf[k] \in Calls /\ k \in TasksOf(CallOf[k])
      BY Basics DEF TasksOf
<1>2. stage[CallOf[k]] \notin {"none", "returned"}
      BY <1>1 DEF Shape, ShapeOf
<1>3. Active(CallOf[k])
      BY <1>1, <1>2 DEF TypeOK, Active
<1>4. pc[caller[CallOf[k]]] = "waiting"
      BY <1>1, <1>3 DEF Shape, ShapeOf
<1> QED BY <1>1, <1>2, <1>3, <1>4, Basics DEF Live, Known, Begun

\* The caller of a call that is live waits, and so do its ancestors.
LEMMA WaitingAbove ==
  ASSUME TypeOK, Shape, NEW c \in Calls, Live(c)
  PROVE  /\ caller[c] \in Known
         /\ \A a \in Chain(caller[c]) : a \in Known /\ pc[a] = "waiting"
<1> DEFINE S == {a \in Known : pc[a] = "waiting"}
<1>1. caller[c] \in S
      BY DEF Shape, ShapeOf, Live, Active, Begun, Known
<1>2. S \in SUBSET Threads /\ caller[c] \in Threads
      BY <1>1 DEF Known
<1>3. ASSUME NEW s \in S PROVE Parent(s) \in S
  <2>1. CASE s = Root
        BY <2>1 DEF Parent
  <2>2. CASE s # Root
    <3>1. s \in Tasks /\ pc[s] = "waiting"
          BY <1>2, <2>2, Basics
    <3>2. Live(CallOf[s])
          BY <3>1, CallerWaits
    <3> QED BY <2>2, <3>2, ParentKnown DEF Live, Parent
  <2> QED BY <2>1, <2>2
<1> HIDE DEF S
<1>4. Chain(caller[c]) \subseteq S
      BY <1>1, <1>2, <1>3, ChainIn
<1> QED BY <1>1, <1>4 DEF S

-----------------------------------------------------------------------------
(* Exceptions and their counter.                                           *)

Throwable == {"return", "error", "abort"}

LEMMA ThrowEffect ==
  ASSUME TypeOK, ReasonsExact, NEW t \in Threads, NEW e \in Throwable, Throw(t, e)
  PROVE  /\ exc' \in [Threads -> {None} \cup Throwable] /\ reasons' \in Nat /\ ReasonsExact'
         /\ exc'[t] = IF exc[t] = None THEN e ELSE exc[t]
         /\ \A s \in Threads \ {t} : exc'[s] = exc[s]
<1>0. exc \in [Threads -> {None} \cup Throwable] /\ reasons \in Nat /\ IsFiniteSet(Threads) /\ None \notin Throwable
      BY Basics DEF TypeOK, Throwable
<1>1. /\ exc' \in [Threads -> {None} \cup Throwable]
      /\ exc'[t] = IF exc[t] = None THEN e ELSE exc[t]
      /\ \A s \in Threads \ {t} : exc'[s] = exc[s]
      BY <1>0 DEF Throw
<1> DEFINE T  == {s \in Threads : exc[s] # None}
           T1 == {s \in Threads : exc'[s] # None}
<1>2. reasons = Cardinality(T) /\ IsFiniteSet(T)
      BY <1>0, FS_Subset DEF ReasonsExact
<1>3. T1 = T \cup {t} /\ (t \in T <=> exc[t] # None)
      BY <1>0, <1>1
<1>4. reasons' = reasons + (IF exc[t] = None THEN 1 ELSE 0)
      BY DEF Throw
<1>5. Cardinality(T1) = IF t \in T THEN Cardinality(T) ELSE Cardinality(T) + 1
      BY <1>2, <1>3, FS_AddElement
<1>6. reasons' = Cardinality(T1) /\ reasons' \in Nat
      BY <1>0, <1>2, <1>3, <1>4, <1>5
<1> QED BY <1>1, <1>6 DEF ReasonsExact

LEMMA CatchEffect ==
  ASSUME TypeOK, ReasonsExact, NEW t \in Threads, Catch(t)
  PROVE  /\ exc' \in [Threads -> {None} \cup Throwable] /\ reasons' \in Nat /\ ReasonsExact'
         /\ exc'[t] = None
         /\ \A s \in Threads \ {t} : exc'[s] = exc[s]
<1>0. exc \in [Threads -> {None} \cup Throwable] /\ reasons \in Nat /\ IsFiniteSet(Threads) /\ None \notin Throwable
      BY Basics DEF TypeOK, Throwable
<1>1. /\ exc' \in [Threads -> {None} \cup Throwable]
      /\ exc'[t] = None
      /\ \A s \in Threads \ {t} : exc'[s] = exc[s]
      BY <1>0 DEF Catch
<1> DEFINE T  == {s \in Threads : exc[s] # None}
           T1 == {s \in Threads : exc'[s] # None}
<1>2. reasons = Cardinality(T) /\ IsFiniteSet(T)
      BY <1>0, FS_Subset DEF ReasonsExact
<1>3. T1 = T \ {t} /\ (t \in T <=> exc[t] # None)
      BY <1>0, <1>1
<1>4. reasons' = reasons - (IF exc[t] = None THEN 0 ELSE 1)
      BY DEF Catch
<1>5. Cardinality(T1) = IF t \in T THEN Cardinality(T) - 1 ELSE Cardinality(T)
      BY <1>2, <1>3, FS_RemoveElement
<1>6. Cardinality(T1) \in Nat
      BY <1>2, <1>3, FS_Subset, FS_CardinalityType
<1>7. reasons' = Cardinality(T1) /\ reasons' \in Nat
      BY <1>0, <1>2, <1>3, <1>4, <1>5, <1>6
<1> QED BY <1>1, <1>7 DEF ReasonsExact

\* Whoever has an exception is counted.
LEMMA Counts ==
  ASSUME TypeOK, ReasonsExact, NEW t \in Threads, exc[t] # None
  PROVE  reasons # 0
<1>1. IsFiniteSet({s \in Threads : exc[s] # None}) /\ t \in {s \in Threads : exc[s] # None}
      BY Basics, FS_Subset
<1> QED BY <1>1, FS_EmptySet DEF ReasonsExact

-----------------------------------------------------------------------------
(* What the steps of a task and of a caller change.                        *)

\* Where a task takes steps of its own.
Own == {"idle", "test", "item", "ended", "count", "next", "throw", "clean item", "pass item",
        "clean", "pass", "free"}

LEMMA TaskStep ==
  ASSUME TypeOK, NEW k \in Tasks, Step(k) \/ Throws(k)
  PROVE  /\ kind' = kind /\ protected' = protected /\ stage' = stage /\ caller' = caller
         /\ pc[k] \in Own /\ pc'[k] \in (Own \ {"idle"}) \cup {"over"}
         /\ pc'[k] = "over" => pc[k] = "free"
         /\ \A t \in Threads \ {k} : pc'[t] = pc[t]
         /\ \A c \in Calls \ {CallOf[k]} :
              /\ index'[c] = index[c] /\ found'[c] = found[c] /\ results'[c] = results[c]
              /\ done'[c] = done[c] /\ aborted'[c] = aborted[c]
         /\ \A j \in Tasks \ {k} : idx'[j] = idx[j] /\ outcome'[j] = outcome[j]
<1>0. k \in Threads /\ CallOf[k] \in Calls
      BY Basics
<1>1. CASE Take(k)
      BY <1>0, <1>1 DEF Take, Go, TypeOK, Own, callvars
<1>2. CASE Test(k)
      BY <1>0, <1>2 DEF Test, Go, TypeOK, Own, callvars, data
<1>3. CASE BodyEnds(k)
      BY <1>0, <1>3 DEF BodyEnds, Go, TypeOK, Own, callvars
<1>4. CASE BodyStops(k)
      BY <1>0, <1>4 DEF BodyStops, Go, TypeOK, Own, callvars, data
<1>5. CASE Ended(k)
      BY <1>0, <1>5 DEF Ended, Go, TypeOK, Own, callvars, data
<1>6. CASE Counted(k)
      BY <1>0, <1>6 DEF Counted, Go, TypeOK, Own, callvars
<1>7. CASE NextItem(k)
      BY <1>0, <1>7 DEF NextItem, Go, TypeOK, Own, callvars
<1>8. CASE ThrowReturn(k)
      BY <1>0, <1>8 DEF ThrowReturn, Go, TypeOK, Own, callvars, data
<1>9. CASE Clean(k)
  <2>1. \E item \in BOOLEAN : Go(k, IF item THEN "clean item" ELSE "clean",
                                 IF exc[k] \in {None, "abort"} THEN (IF item THEN "item" ELSE "free")
                                 ELSE IF item THEN "pass item" ELSE "pass")
        BY <1>9 DEF Clean
  <2>2. /\ pc[k] \in Own /\ pc'[k] \in (Own \ {"idle"}) \cup {"over"} /\ pc'[k] # "over"
        /\ \A t \in Threads \ {k} : pc'[t] = pc[t]
        BY <1>0, <2>1, Types DEF Go, Own
  <2>3. UNCHANGED <<kind, protected, stage, caller, index, found, results, done, aborted, idx, outcome>>
        BY <1>9 DEF Clean, callvars, data
  <2> QED BY <2>2, <2>3
<1>10. CASE Pass(k)
      BY <1>0, <1>10 DEF Pass, Go, TypeOK, Own, callvars, data
<1>11. CASE Free(k)
      BY <1>0, <1>11 DEF Free, Go, TypeOK, Own, callvars, data
<1>12. CASE Throws(k)
  <2>1. PICK e : BodyThrows(k, e)
        BY <1>12 DEF Throws
  <2>2. pc[k] = "item" /\ pc' = pc
           /\ UNCHANGED <<kind, protected, stage, caller, index, found, results, done, idx, outcome>>
        BY <2>1 DEF BodyThrows, callvars
  <2>3. \A c \in Calls \ {CallOf[k]} : aborted'[c] = aborted[c]
        BY <2>1 DEF BodyThrows, TypeOK
  <2> QED BY <2>2, <2>3 DEF Own
<1> QED BY <1>1, <1>2, <1>3, <1>4, <1>5, <1>6, <1>7, <1>8, <1>9, <1>10, <1>11, <1>12 DEF Step

\* The threads whose exceptions a call of Throw can change.
LEMMA CallerIsThread ==
  ASSUME TypeOK, Shape, NEW c \in Calls, Active(c)
  PROVE  caller[c] \in Threads /\ pc[caller[c]] \in {"waiting", "rethrow"}
BY DEF Shape, ShapeOf, Active, Begun

LEMMA ParentOf ==
  ASSUME TypeOK, Shape, NEW k \in Tasks, pc[k] \in Own
  PROVE  /\ Parent(k) = caller[CallOf[k]] /\ Parent(k) \in Threads /\ Parent(k) # k
         /\ pc[Parent(k)] = "waiting" /\ Live(CallOf[k]) /\ CallOf[k] \in Calls
<1>1. Parent(k) = caller[CallOf[k]]
      BY Basics DEF Parent
<1>2. Live(CallOf[k]) /\ CallOf[k] \in Calls
      BY CallerWaits DEF Own
<1> QED BY <1>1, <1>2, CallerIsThread DEF Live, Own

LEMMA GoType ==
  ASSUME TypeOK, NEW t \in Threads, NEW from, NEW to \in Places, Go(t, from, to)
  PROVE  pc' \in [Threads -> Places]
BY DEF Go, TypeOK, Places

\* Each step keeps the types, and the counter of exceptions exact.
LEMMA StepTypeOK == IInv /\ [Next]_vars => TypeOK' /\ ReasonsExact'
<1> SUFFICES ASSUME IInv, [Next]_vars PROVE TypeOK' /\ ReasonsExact'
    OBVIOUS
<1>0. TypeOK /\ Shape /\ Exceptions /\ ReasonsExact
      BY DEF IInv
<1>a. /\ \A k \in Tasks : k \in Threads /\ CallOf[k] \in Calls
      /\ {None} \cup Throwable = {None, "return", "error", "abort"}
      BY <1>0, Basics DEF Throwable
<1>b. UNCHANGED <<exc, reasons>> => ReasonsExact'
      BY <1>0 DEF ReasonsExact
<1>1. ASSUME NEW k \in Tasks, Take(k) PROVE TypeOK' /\ ReasonsExact'
  <2>1. pc' \in [Threads -> Places]
    <3> DEFINE to == IF kind[CallOf[k]] = "try" THEN "test"
                     ELSE IF index[CallOf[k]] < Items[CallOf[k]] THEN "item" ELSE "free"
    <3>1. to \in Places
          BY DEF Places
    <3>2. Go(k, "idle", to)
          BY <1>1 DEF Take
    <3> QED BY <1>0, <1>a, <3>1, <3>2, GoType
  <2>2. index[CallOf[k]] \in Nat /\ index[CallOf[k]] + 1 \in Nat
    <3>1. index[CallOf[k]] \in Nat
          BY <1>0, <1>a DEF TypeOK
    <3> QED BY <3>1
  <2>3. index' \in [Calls -> Nat] /\ idx' \in [Tasks -> Nat]
        BY <1>0, <1>a, <1>1, <2>2 DEF Take, TypeOK
  <2> QED BY <1>0, <1>b, <1>1, <2>1, <2>3 DEF Take, TypeOK, Places, callvars, excvars
<1>2. ASSUME NEW k \in Tasks, Test(k) PROVE TypeOK' /\ ReasonsExact'
      BY <1>0, <1>a, <1>b, <1>2 DEF Test, Go, TypeOK, callvars, data, excvars
<1>3. ASSUME NEW k \in Tasks, BodyEnds(k) PROVE TypeOK' /\ ReasonsExact'
  <2>1. \A o \in Outcomes(CallOf[k]) : o \in {"none", "value", "failed", "return", "cut"}
        BY <1>0, <1>a DEF Outcomes, TypeOK
  <2>2. outcome' \in [Tasks -> {"none", "value", "failed", "return", "cut"}]
        BY <1>0, <1>3, <2>1 DEF BodyEnds, TypeOK
  <2>3. done' \in [Calls -> SUBSET Nat]
    <3>1. done \in [Calls -> SUBSET Nat] /\ idx[k] \in Nat /\ done[CallOf[k]] \in SUBSET Nat
          BY <1>0, <1>a DEF TypeOK
    <3>2. done[CallOf[k]] \cup {idx[k]} \in SUBSET Nat
          BY <3>1
    <3>3. done' = [done EXCEPT ![CallOf[k]] = done[CallOf[k]] \cup {idx[k]}]
          BY <1>3 DEF BodyEnds
    <3> QED BY <3>1, <3>2, <3>3
  <2> QED BY <1>0, <1>a, <1>b, <1>3, <2>2, <2>3 DEF BodyEnds, Go, TypeOK, callvars, excvars
<1>4. ASSUME NEW k \in Tasks, BodyStops(k) PROVE TypeOK' /\ ReasonsExact'
      BY <1>0, <1>a, <1>b, <1>4 DEF BodyStops, Go, TypeOK, callvars, data, excvars
<1>5. ASSUME NEW k \in Tasks, Ended(k) PROVE TypeOK' /\ ReasonsExact'
      BY <1>0, <1>a, <1>b, <1>5 DEF Ended, Go, TypeOK, callvars, data, excvars
<1>6. ASSUME NEW k \in Tasks, Counted(k) PROVE TypeOK' /\ ReasonsExact'
  <2>1. PICK s \in Seq(Nat) : s = results[CallOf[k]]
        BY <1>0, <1>a DEF TypeOK
  <2>2. PICK i \in Nat : i = idx[k]
        BY <1>0 DEF TypeOK
  <2>3. Append(s, i) \in Seq(Nat)
        OBVIOUS
  <2>4. results' \in [Calls -> Seq(Nat)]
    <3>1. results' = [results EXCEPT ![CallOf[k]] = IF found[CallOf[k]] >= Count[CallOf[k]] THEN s ELSE Append(s, i)]
          BY <1>6, <2>1, <2>2 DEF Counted
    <3>2. results \in [Calls -> Seq(Nat)]
          BY <1>0 DEF TypeOK
    <3> QED BY <1>a, <2>3, <3>1, <3>2
  <2>5. pc' \in [Threads -> Places]
    <3>1. Go(k, "count", "throw") \/ Go(k, "count", "next")
          BY <1>6 DEF Counted
    <3> QED BY <1>0, <1>a, <3>1, GoType DEF Places
  <2>6. found' \in [Calls -> Nat]
    <3>1. found \in [Calls -> Nat] /\ found[CallOf[k]] \in Nat
          BY <1>0, <1>a DEF TypeOK
    <3>2. found[CallOf[k]] + 1 \in Nat /\ found' = [found EXCEPT ![CallOf[k]] = found[CallOf[k]] + 1]
          BY <1>6, <3>1 DEF Counted
    <3> QED BY <3>1, <3>2
  <2> QED BY <1>0, <1>b, <1>6, <2>4, <2>5, <2>6 DEF Counted, TypeOK, Places, callvars, excvars
<1>7. ASSUME NEW k \in Tasks, NextItem(k) PROVE TypeOK' /\ ReasonsExact'
  <2>1. pc' \in [Threads -> Places]
        BY <1>0, <1>a, <1>7, GoType DEF NextItem, Places
  <2>2. index[CallOf[k]] \in Nat /\ index[CallOf[k]] + 1 \in Nat
    <3>1. index[CallOf[k]] \in Nat
          BY <1>0, <1>a DEF TypeOK
    <3> QED BY <3>1
  <2>3. index' \in [Calls -> Nat] /\ idx' \in [Tasks -> Nat]
        BY <1>0, <1>a, <1>7, <2>2 DEF NextItem, TypeOK
  <2>4. outcome' \in [Tasks -> {"none", "value", "failed", "return", "cut"}]
        BY <1>0, <1>7 DEF NextItem, TypeOK
  <2> QED BY <1>0, <1>b, <1>7, <2>1, <2>3, <2>4 DEF NextItem, TypeOK, Places, callvars, excvars
<1>8. ASSUME NEW k \in Tasks, ThrowReturn(k) PROVE TypeOK' /\ ReasonsExact'
  <2>1. Parent(k) \in Threads /\ "return" \in Throwable
        BY <1>0, <1>8, ParentOf DEF ThrowReturn, Go, Own, Throwable
  <2>2. exc' \in [Threads -> {None} \cup Throwable] /\ reasons' \in Nat /\ ReasonsExact'
        BY <1>0, <1>8, <2>1, ThrowEffect DEF ThrowReturn
  <2> QED BY <1>0, <1>a, <1>8, <2>2 DEF ThrowReturn, Go, TypeOK, callvars, data
<1>9. ASSUME NEW k \in Tasks, Clean(k) PROVE TypeOK' /\ ReasonsExact'
  <2>1. exc' \in [Threads -> {None} \cup Throwable] /\ reasons' \in Nat /\ ReasonsExact'
        BY <1>0, <1>a, <1>9, CatchEffect DEF Clean
  <2>2. pc' \in [Threads -> Places]
    <3>1. PICK f, to \in Places : Go(k, f, to)
          BY <1>9 DEF Clean, Places
    <3> QED BY <1>0, <1>a, <3>1, GoType
  <2>3. held' = [held EXCEPT ![k] = IF exc[k] = "abort" THEN None ELSE exc[k]]
        BY <1>9 DEF Clean
  <2>4. held' \in [Threads -> {None} \cup Throwable]
        BY <1>0, <1>a, <2>3 DEF TypeOK
  <2>5. UNCHANGED <<kind, protected, stage, caller, index, found, results, done, aborted, idx, outcome>>
        BY <1>9 DEF Clean, callvars, data
  <2>6. pc' \in [Threads -> {"none", "idle", "test", "item", "ended", "count", "next", "throw", "clean item",
                              "pass item", "clean", "pass", "free", "over", "waiting", "rethrow"}]
        BY <2>2 DEF Places
  <2> QED BY <1>0, <1>a, <2>1, <2>4, <2>5, <2>6 DEF TypeOK
<1>10. ASSUME NEW k \in Tasks, Pass(k) PROVE TypeOK' /\ ReasonsExact'
  <2>1. Parent(k) \in Threads /\ held[k] \in Throwable
        BY <1>0, <1>a, <1>10, ParentOf DEF Pass, Go, Own, Throwable, Exceptions, ExceptionOf, Passing
  <2>2. exc' \in [Threads -> {None} \cup Throwable] /\ reasons' \in Nat /\ ReasonsExact'
        BY <1>0, <1>10, <2>1, ThrowEffect DEF Pass
  <2> QED BY <1>0, <1>a, <1>10, <2>2 DEF Pass, Go, TypeOK, callvars, data
<1>11. ASSUME NEW k \in Tasks, Free(k) PROVE TypeOK' /\ ReasonsExact'
  <2>1. exc' \in [Threads -> {None} \cup Throwable] /\ reasons' \in Nat /\ ReasonsExact'
        BY <1>0, <1>a, <1>11, CatchEffect DEF Free
  <2> QED BY <1>0, <1>a, <1>11, <2>1 DEF Free, Go, TypeOK, callvars, data
<1>12. ASSUME NEW k \in Tasks, Throws(k) PROVE TypeOK' /\ ReasonsExact'
  <2>1. PICK e \in {"error", "abort"} : BodyThrows(k, e)
        BY <1>12 DEF Throws
  <2>2. exc' \in [Threads -> {None} \cup Throwable] /\ reasons' \in Nat /\ ReasonsExact'
        BY <1>0, <1>a, <2>1, ThrowEffect DEF BodyThrows, Throwable
  <2> QED BY <1>0, <1>a, <2>1, <2>2 DEF BodyThrows, TypeOK, callvars
<1>13. ASSUME NEW k \in Tasks, NEW c \in Calls \ {Top}, Call(k, c) PROVE TypeOK' /\ ReasonsExact'
      BY <1>0, <1>a, <1>b, <1>13 DEF Call, Go, TypeOK, data, excvars
<1>14. ASSUME NEW c \in Calls, NEW k \in Tasks, NewTask(c, k) PROVE TypeOK' /\ ReasonsExact'
      BY <1>0, <1>a, <1>b, <1>14 DEF NewTask, Go, TypeOK, data, excvars
<1>15. ASSUME NEW c \in Calls, ReturnMap(c) PROVE TypeOK' /\ ReasonsExact'
      BY <1>0, <1>a, <1>b, <1>15 DEF ReturnMap, End, Go, TypeOK, data, excvars
<1>16. ASSUME NEW c \in Calls, CatchReturn(c) PROVE TypeOK' /\ ReasonsExact'
  <2>1. caller[c] \in Threads
        BY <1>0, <1>16, CallerIsThread DEF CatchReturn, AllOver, Active
  <2>2. exc' \in [Threads -> {None} \cup Throwable] /\ reasons' \in Nat /\ ReasonsExact'
        BY <1>0, <1>16, <2>1, CatchEffect DEF CatchReturn
  <2>3. held' \in [Threads -> {None} \cup Throwable] /\ stage' \in [Calls -> {"none", "starting", "running", "returned"}]
    <3>1. CASE exc[caller[c]] \in {None, "return"}
      <4>1. stage' = [stage EXCEPT ![c] = "returned"] /\ held' = held
            BY <1>16, <3>1 DEF CatchReturn, End
      <4> QED BY <1>0, <1>a, <4>1 DEF TypeOK
    <3>2. CASE exc[caller[c]] \notin {None, "return"}
      <4>1. held' = [held EXCEPT ![caller[c]] = exc[caller[c]]] /\ stage' = stage
            BY <1>16, <3>2 DEF CatchReturn
      <4> QED BY <1>0, <1>a, <2>1, <4>1 DEF TypeOK
    <3> QED BY <3>1, <3>2
  <2> QED BY <1>0, <1>a, <1>16, <2>2, <2>3 DEF CatchReturn, Go, TypeOK, data
<1>17. ASSUME NEW c \in Calls, Rethrow(c) PROVE TypeOK' /\ ReasonsExact'
  <2>1. caller[c] \in Threads /\ pc[caller[c]] = "rethrow"
        BY <1>0, <1>17, CallerIsThread DEF Rethrow, Go, Active
  <2>2. held[caller[c]] \in Throwable
        BY <1>0, <1>a, <2>1 DEF TypeOK, Exceptions, ExceptionOf
  <2>3. exc' \in [Threads -> {None} \cup Throwable] /\ reasons' \in Nat /\ ReasonsExact'
        BY <1>0, <1>17, <2>1, <2>2, ThrowEffect DEF Rethrow
  <2> QED BY <1>0, <1>a, <1>17, <2>3 DEF Rethrow, End, Go, TypeOK, data
<1>18. ASSUME Interrupt PROVE TypeOK' /\ ReasonsExact'
  <2>1. Root \in Threads /\ "abort" \in Throwable
        BY <1>0, Basics DEF Throwable
  <2>2. exc' \in [Threads -> {None} \cup Throwable] /\ reasons' \in Nat /\ ReasonsExact'
        BY <1>0, <1>18, <2>1, ThrowEffect DEF Interrupt
  <2> QED BY <1>0, <1>a, <1>18, <2>2 DEF Interrupt, TypeOK, callvars, data
<1>19. CASE UNCHANGED vars
      BY <1>0, <1>b, <1>19 DEF vars, TypeOK
<1> QED BY <1>1, <1>2, <1>3, <1>4, <1>5, <1>6, <1>7, <1>8, <1>9, <1>10, <1>11, <1>12, <1>13, <1>14,
           <1>15, <1>16, <1>17, <1>18, <1>19 DEF Next, Step, Returning

LEMMA StepTypes ==
  ASSUME IInv, [Next]_vars
  PROVE  index' \in [Calls -> Nat] /\ found' \in [Calls -> Nat]
<1>1. TypeOK'
      BY StepTypeOK
<1> QED BY <1>1 DEF TypeOK

-----------------------------------------------------------------------------
(* Calls and their callers.                                                *)

\* What the steps of a caller change.
LEMMA CallEffect ==
  ASSUME TypeOK, Shape, NEW k \in Tasks, NEW c \in Calls \ {Top}, Call(k, c)
  PROVE  /\ stage[c] = "none" /\ stage'[c] \in {"starting", "running"} /\ caller'[c] = k
         /\ \A d \in Calls \ {c} : stage'[d] = stage[d] /\ caller'[d] = caller[d]
         /\ pc[k] = "item" /\ pc'[k] = "waiting" /\ \A t \in Threads \ {k} : pc'[t] = pc[t]
         /\ Live(CallOf[k]) /\ CallOf[k] \in Calls \ {c} /\ k \in Threads
         /\ UNCHANGED <<kind, protected, index, found, results, done, aborted, idx, outcome, exc, held, reasons>>
<1>0. k \in Threads
      BY Basics
<1>1. stage[c] = "none" /\ stage'[c] \in {"starting", "running"} /\ caller'[c] = k
      BY DEF Call, TypeOK
<1>2. \A d \in Calls \ {c} : stage'[d] = stage[d] /\ caller'[d] = caller[d]
      BY DEF Call, TypeOK
<1>3. pc[k] = "item" /\ pc'[k] = "waiting" /\ \A t \in Threads \ {k} : pc'[t] = pc[t]
      BY <1>0 DEF Call, Go, TypeOK
<1>4. Live(CallOf[k]) /\ CallOf[k] \in Calls
      BY <1>3, CallerWaits
<1>5. CallOf[k] # c
      BY <1>1, <1>4 DEF Live, Active
<1> QED BY <1>0, <1>1, <1>2, <1>3, <1>4, <1>5 DEF Call, data, excvars

LEMMA NewTaskEffect ==
  ASSUME TypeOK, Shape, NEW c \in Calls, NEW k \in Tasks, NewTask(c, k)
  PROVE  /\ stage[c] = "starting" /\ stage'[c] \in {"starting", "running"} /\ caller' = caller
         /\ \A d \in Calls \ {c} : stage'[d] = stage[d]
         /\ CallOf[k] = c /\ pc[k] = "none" /\ pc'[k] = "idle" /\ \A t \in Threads \ {k} : pc'[t] = pc[t]
         /\ pc[caller[c]] = "waiting" /\ caller[c] \in Threads
         /\ UNCHANGED <<kind, protected, index, found, results, done, aborted, idx, outcome, exc, held, reasons>>
<1>0. k \in Threads
      BY Basics
<1>1. stage[c] = "starting" /\ stage'[c] \in {"starting", "running"} /\ caller' = caller
      BY DEF NewTask, TypeOK
<1>2. \A d \in Calls \ {c} : stage'[d] = stage[d]
      BY DEF NewTask, TypeOK
<1>3. CallOf[k] = c /\ pc[k] = "none" /\ pc'[k] = "idle" /\ \A t \in Threads \ {k} : pc'[t] = pc[t]
      BY <1>0 DEF NewTask, Go, TypeOK
<1>4. k \in TasksOf(c) /\ Active(c)
      BY <1>1, <1>3 DEF TasksOf, Active
<1>5. pc[caller[c]] = "waiting"
      BY <1>3, <1>4 DEF Shape, ShapeOf
<1>6. caller[c] \in Threads
      BY <1>4, CallerIsThread
<1> QED BY <1>0, <1>1, <1>2, <1>3, <1>5, <1>6 DEF NewTask, data, excvars

\* A call returns: by ReturnMap, CatchReturn or Rethrow.
Ends(c) ==
  /\ Active(c) /\ stage'[c] = "returned" /\ caller' = caller
  /\ \A d \in Calls \ {c} : stage'[d] = stage[d]
  /\ caller[c] \in Threads /\ pc'[caller[c]] = "item"
  /\ \A t \in Threads \ {caller[c]} : pc'[t] = pc[t]
  /\ \A k \in TasksOf(c) : pc[k] = "over"
  /\ UNCHANGED <<kind, protected, index, found, results, done, aborted, idx, outcome>>

\* The caller has caught an exception that is not the call's.
Holds(c) ==
  /\ Active(c) /\ UNCHANGED <<stage, caller>>
  /\ caller[c] \in Threads /\ pc[caller[c]] = "waiting" /\ pc'[caller[c]] = "rethrow"
  /\ \A t \in Threads \ {caller[c]} : pc'[t] = pc[t]
  /\ \A k \in TasksOf(c) : pc[k] = "over"
  /\ UNCHANGED <<kind, protected, index, found, results, done, aborted, idx, outcome>>

LEMMA ReturnMapEffect ==
  ASSUME TypeOK, Shape, NEW c \in Calls, ReturnMap(c)
  PROVE  /\ Ends(c) /\ kind[c] = "map" /\ pc[caller[c]] = "waiting"
         /\ UNCHANGED <<exc, held, reasons>>
<1>1. Active(c) /\ \A k \in TasksOf(c) : pc[k] = "over"
      BY DEF ReturnMap, AllOver, Active
<1>2. caller[c] \in Threads
      BY <1>1, CallerIsThread
<1>3. stage'[c] = "returned" /\ (\A d \in Calls \ {c} : stage'[d] = stage[d]) /\ caller' = caller
      BY DEF ReturnMap, End, TypeOK
<1>4. /\ pc[caller[c]] = "waiting" /\ pc'[caller[c]] = "item"
      /\ \A t \in Threads \ {caller[c]} : pc'[t] = pc[t]
      BY <1>2 DEF ReturnMap, Go, TypeOK
<1> QED BY <1>1, <1>2, <1>3, <1>4 DEF ReturnMap, Ends, data, excvars

LEMMA CatchReturnEffect ==
  ASSUME TypeOK, Shape, NEW c \in Calls, CatchReturn(c)
  PROVE  /\ kind[c] # "map" /\ caller[c] \in Threads /\ pc[caller[c]] = "waiting" /\ Catch(caller[c])
         /\ IF exc[caller[c]] \in {None, "return"}
            THEN Ends(c) /\ held' = held
            ELSE Holds(c) /\ held' = [held EXCEPT ![caller[c]] = exc[caller[c]]]
<1>1. Active(c) /\ \A k \in TasksOf(c) : pc[k] = "over"
      BY DEF CatchReturn, AllOver, Active
<1>2. caller[c] \in Threads
      BY <1>1, CallerIsThread
<1>3. kind[c] # "map" /\ Catch(caller[c]) /\ caller' = caller
      BY DEF CatchReturn
<1>4. pc[caller[c]] = "waiting" /\ \A t \in Threads \ {caller[c]} : pc'[t] = pc[t]
      BY <1>2 DEF CatchReturn, Go, TypeOK
<1>5. UNCHANGED <<kind, protected, index, found, results, done, aborted, idx, outcome>>
      BY DEF CatchReturn, data
<1>6. CASE exc[caller[c]] \in {None, "return"}
  <2>1. held' = held /\ stage' = [stage EXCEPT ![c] = "returned"]
        BY <1>6 DEF CatchReturn, End
  <2>2. stage'[c] = "returned" /\ \A d \in Calls \ {c} : stage'[d] = stage[d]
        BY <2>1 DEF TypeOK
  <2>3. pc'[caller[c]] = "item"
        BY <1>2, <1>6 DEF CatchReturn, Go, TypeOK
  <2> QED BY <1>1, <1>2, <1>3, <1>4, <1>5, <1>6, <2>1, <2>2, <2>3 DEF Ends
<1>7. CASE exc[caller[c]] \notin {None, "return"}
  <2>1. held' = [held EXCEPT ![caller[c]] = exc[caller[c]]] /\ stage' = stage
        BY <1>7 DEF CatchReturn
  <2>2. pc'[caller[c]] = "rethrow"
        BY <1>2, <1>7 DEF CatchReturn, Go, TypeOK
  <2> QED BY <1>1, <1>2, <1>3, <1>4, <1>5, <1>7, <2>1, <2>2 DEF Holds
<1> QED BY <1>6, <1>7

LEMMA RethrowEffect ==
  ASSUME TypeOK, Shape, NEW c \in Calls, Rethrow(c)
  PROVE  /\ Ends(c) /\ pc[caller[c]] = "rethrow"
         /\ Throw(caller[c], held[caller[c]])
         /\ held' = [held EXCEPT ![caller[c]] = None]
<1>1. Active(c) /\ pc[caller[c]] = "rethrow"
      BY DEF Rethrow, Active, Go
<1>2. caller[c] \in Threads /\ \A k \in TasksOf(c) : pc[k] = "over"
      BY <1>1, CallerIsThread DEF Shape, ShapeOf
<1>3. stage'[c] = "returned" /\ (\A d \in Calls \ {c} : stage'[d] = stage[d]) /\ caller' = caller
      BY DEF Rethrow, End, TypeOK
<1>4. pc'[caller[c]] = "item" /\ \A t \in Threads \ {caller[c]} : pc'[t] = pc[t]
      BY <1>2, Types DEF Rethrow, Go
<1> QED BY <1>1, <1>2, <1>3, <1>4 DEF Rethrow, Ends, data

\* A step is one of these.
LEMMA StepCases ==
  ASSUME TypeOK, Shape, [Next]_vars
  PROVE  \/ \E k \in Tasks : Step(k) \/ Throws(k)
         \/ \E k \in Tasks, c \in Calls \ {Top} : Call(k, c)
         \/ \E c \in Calls, k \in Tasks : NewTask(c, k)
         \/ \E c \in Calls : ReturnMap(c) \/ CatchReturn(c) \/ Rethrow(c)
         \/ UNCHANGED <<kind, protected, stage, caller, index, found, results, done, aborted, pc,
                        idx, outcome, held>> /\ (Interrupt \/ UNCHANGED <<exc, reasons>>)
BY DEF Next, Returning, Interrupt, callvars, data, vars

LEMMA StepShape == TypeOK /\ Shape /\ [Next]_vars => Shape'
<1> SUFFICES ASSUME TypeOK, Shape, [Next]_vars, NEW c \in Calls PROVE ShapeOf(c)'
    BY DEF Shape
<1>0. \A k \in TasksOf(c) : k \in Tasks /\ k \in Threads /\ CallOf[k] = c
      BY Basics DEF TasksOf
<1>a. ShapeOf(c) /\ Root \notin Tasks /\ Root \in Threads
      BY Basics DEF Shape
<1>b. \A d \in Calls : Active(d) => caller[d] \in Threads /\ pc[caller[d]] \in {"waiting", "rethrow"}
      BY CallerIsThread
<1>c. \A d \in Calls : Begun(d) => caller[d] \in Threads /\ (caller[d] = Root \/ Begun(CallOf[caller[d]]))
      BY DEF Shape, ShapeOf
<1>d. \A d, e \in Calls : Active(d) /\ Active(e) /\ caller[d] = caller[e] => d = e
      BY DEF Shape, ShapeOf
<1>1. ASSUME NEW k \in Tasks, Step(k) \/ Throws(k) PROVE ShapeOf(c)'
  <2>1. /\ stage' = stage /\ caller' = caller /\ pc[k] \in Own /\ k \in Threads
        /\ \A t \in Threads \ {k} : pc'[t] = pc[t]
        /\ c # CallOf[k] => index'[c] = index[c]
        BY <1>1, TaskStep, Basics
  <2>2. Live(CallOf[k])
        BY <2>1, CallerWaits DEF Own
  <2>3. c = CallOf[k] => Live(c)
        BY <2>2
  <2>4. c # CallOf[k] => \A j \in TasksOf(c) : pc'[j] = pc[j]
        BY <1>0, <2>1
  <2>5. \A d \in Calls : Active(d) => pc'[caller[d]] = pc[caller[d]]
        BY <1>b, <2>1 DEF Own
  <2> QED BY <1>a, <1>b, <2>1, <2>3, <2>4, <2>5 DEF ShapeOf, Begun, Active, Live
<1>2. ASSUME NEW k \in Tasks, NEW e \in Calls \ {Top}, Call(k, e) PROVE ShapeOf(c)'
  <2>1. /\ stage[e] = "none" /\ stage'[e] \in {"starting", "running"} /\ caller'[e] = k
        /\ \A d \in Calls \ {e} : stage'[d] = stage[d] /\ caller'[d] = caller[d]
        /\ pc[k] = "item" /\ pc'[k] = "waiting" /\ \A t \in Threads \ {k} : pc'[t] = pc[t]
        /\ Live(CallOf[k]) /\ CallOf[k] \in Calls \ {e} /\ k \in Threads
        /\ index' = index
        BY <1>2, CallEffect
  <2>2. \A d \in Calls : Begun(d) => Begun(d)'
        BY <2>1 DEF Begun
  <2>3. \A d \in Calls : Active(d) => caller[d] # k /\ d # e
        BY <1>b, <2>1 DEF Active
  <2>4. CASE c = e
    <3>1. \A d \in Calls : Active(d)' /\ caller'[d] = k => d = e
          BY <2>1, <2>3 DEF Active
    <3>2. Begun(CallOf[k])'
          BY <2>1, <2>2 DEF Live, Active, Begun
    <3> QED BY <2>1, <2>4, <3>1, <3>2 DEF ShapeOf, Begun, Active
  <2>5. CASE c # e
    <3>1. stage'[c] = stage[c] /\ caller'[c] = caller[c]
          BY <2>1, <2>5
    <3>2. \A j \in TasksOf(c) : pc[j] \in {"none", "over"} => pc'[j] = pc[j]
          BY <1>0, <2>1
    <3>3. Active(c) => pc'[caller[c]] = pc[caller[c]]
          BY <1>b, <2>1, <2>3
    <3>4. Begun(c) => caller[c] \in Threads /\ (caller[c] = Root \/ Begun(CallOf[caller[c]])')
      <4>1. \A d \in Calls : stage[d] # "none" => stage'[d] # "none"
            BY <2>2 DEF Begun
      <4> QED BY <1>c, <3>1, <4>1, Basics DEF Begun
    <3>5. \A d \in Calls : Active(c)' /\ Active(d)' /\ caller'[c] = caller'[d] => c = d
          BY <1>d, <2>1, <2>3, <3>1 DEF Active
    <3> QED BY <1>a, <2>1, <3>1, <3>2, <3>3, <3>4, <3>5 DEF ShapeOf, Begun, Active
  <2> QED BY <2>4, <2>5
<1>3. ASSUME NEW e \in Calls, NEW k \in Tasks, NewTask(e, k) PROVE ShapeOf(c)'
  <2>1. /\ stage[e] = "starting" /\ stage'[e] \in {"starting", "running"} /\ caller' = caller
        /\ \A d \in Calls \ {e} : stage'[d] = stage[d]
        /\ CallOf[k] = e /\ pc[k] = "none" /\ pc'[k] = "idle" /\ \A t \in Threads \ {k} : pc'[t] = pc[t]
        /\ pc[caller[e]] = "waiting" /\ index' = index /\ k \in Threads
        BY <1>3, NewTaskEffect, Basics
  <2>2. \A d \in Calls : (Begun(d)' <=> Begun(d)) /\ (Active(d)' <=> Active(d))
        BY <2>1 DEF Begun, Active
  <2>3. \A d \in Calls : Active(d) => pc'[caller[d]] = pc[caller[d]]
        BY <1>b, <2>1
  <2>4. c # e => \A j \in TasksOf(c) : pc'[j] = pc[j]
        BY <1>0, <2>1
  <2>5. Begun(c)' => caller'[c] = Root \/ Begun(CallOf[caller[c]])'
        BY <1>c, <2>1, <2>2, Basics
  <2>6. stage'[c] = "none" \/ stage'[c] = "returned" => stage[c] = stage'[c] /\ c # e
        BY <2>1
  <2>7. Active(c)' /\ pc'[caller'[c]] = "rethrow" => c # e
        BY <2>1, <2>2, <2>3
  <2> QED BY <1>a, <1>b, <1>d, <2>1, <2>2, <2>3, <2>4, <2>5, <2>6, <2>7 DEF ShapeOf
<1>4. ASSUME NEW e \in Calls, Ends(e) PROVE ShapeOf(c)'
  <2>1. /\ Active(e) /\ stage'[e] = "returned" /\ caller' = caller
        /\ \A d \in Calls \ {e} : stage'[d] = stage[d]
        /\ caller[e] \in Threads /\ pc'[caller[e]] = "item"
        /\ \A t \in Threads \ {caller[e]} : pc'[t] = pc[t]
        /\ \A k \in TasksOf(e) : pc[k] = "over"
        /\ index' = index
        BY <1>4 DEF Ends
  <2>2. pc[caller[e]] \in {"waiting", "rethrow"}
        BY <1>b, <2>1
  <2>3. \A d \in Calls : (Begun(d)' <=> Begun(d)) /\ (Active(d)' => Active(d) /\ d # e)
        BY <2>1 DEF Begun, Active
  <2>4. \A d \in Calls : Active(d)' => pc'[caller[d]] = pc[caller[d]]
        BY <1>b, <1>d, <2>1, <2>3
  <2>5. \A j \in TasksOf(c) : pc[j] \in {"none", "over"} => pc'[j] = pc[j]
        BY <1>0, <2>1, <2>2
  <2>6. Begun(c)' => caller'[c] \in Threads /\ (caller'[c] = Root \/ Begun(CallOf[caller[c]])')
        BY <1>c, <2>1, <2>3, Basics
  <2>7. stage'[c] = "none" => stage[c] = "none"
        BY <2>1
  <2>8. stage'[c] = "returned" => \A j \in TasksOf(c) : pc[j] = "over"
        BY <1>a, <2>1 DEF ShapeOf
  <2> QED BY <1>a, <1>b, <1>d, <2>1, <2>3, <2>4, <2>5, <2>6, <2>7, <2>8 DEF ShapeOf
<1>5. ASSUME NEW e \in Calls, Holds(e) PROVE ShapeOf(c)'
  <2>1. /\ Active(e) /\ stage' = stage /\ caller' = caller
        /\ caller[e] \in Threads /\ pc[caller[e]] = "waiting" /\ pc'[caller[e]] = "rethrow"
        /\ \A t \in Threads \ {caller[e]} : pc'[t] = pc[t]
        /\ \A k \in TasksOf(e) : pc[k] = "over"
        /\ index' = index
        BY <1>5 DEF Holds
  <2>2. \A d \in Calls : (Begun(d)' <=> Begun(d)) /\ (Active(d)' <=> Active(d))
        BY <2>1 DEF Begun, Active
  <2>3. \A d \in Calls \ {e} : Active(d) => pc'[caller[d]] = pc[caller[d]]
        BY <1>b, <1>d, <2>1
  <2>4. \A j \in TasksOf(c) : pc[j] \in {"none", "over"} => pc'[j] = pc[j]
        BY <1>0, <2>1
  <2>5. Begun(c)' => caller'[c] \in Threads /\ (caller'[c] = Root \/ Begun(CallOf[caller[c]])')
        BY <1>c, <2>1, <2>2, Basics
  <2>6. Active(c)' => pc'[caller'[c]] \in {"waiting", "rethrow"}
        BY <1>b, <2>1, <2>2, <2>3
  <2>7. Active(c)' /\ pc'[caller'[c]] = "rethrow" => \A j \in TasksOf(c) : pc[j] = "over"
        BY <1>a, <2>1, <2>2, <2>3 DEF ShapeOf
  <2> QED BY <1>a, <1>d, <2>1, <2>2, <2>4, <2>5, <2>6, <2>7 DEF ShapeOf
<1>6. ASSUME UNCHANGED <<stage, caller, index, pc>> PROVE ShapeOf(c)'
      BY <1>a, <1>6 DEF ShapeOf, Begun, Active
<1>7. ASSUME NEW e \in Calls, ReturnMap(e) \/ CatchReturn(e) \/ Rethrow(e) PROVE Ends(e) \/ Holds(e)
      BY <1>7, ReturnMapEffect, CatchReturnEffect, RethrowEffect
<1> QED BY <1>1, <1>2, <1>3, <1>4, <1>5, <1>6, <1>7, StepCases

-----------------------------------------------------------------------------
(* What grows, and what stays.                                             *)

LEMMA TaskGrows ==
  ASSUME TypeOK, NEW k \in Tasks, Step(k) \/ Throws(k), NEW c \in Calls, c = CallOf[k]
  PROVE  done[c] \subseteq done'[c] /\ found'[c] >= found[c] /\ index'[c] >= index[c]
         /\ (aborted[c] => aborted'[c])
<1>0. PICK f \in Nat, i \in Nat : f = found[c] /\ i = index[c]
      BY DEF TypeOK
<1>a. f >= f /\ i >= i /\ f + 1 >= f /\ i + 1 >= i
      OBVIOUS
<1>1. CASE Take(k) \/ NextItem(k)
  <2>1. index'[c] = i + 1 /\ UNCHANGED <<done, found, aborted>>
        BY <1>0, <1>1 DEF Take, NextItem, TypeOK
  <2> QED BY <1>0, <1>a, <2>1
<1>2. CASE Counted(k)
  <2>1. found'[c] = f + 1 /\ UNCHANGED <<done, index, aborted>>
        BY <1>0, <1>2 DEF Counted, TypeOK
  <2> QED BY <1>0, <1>a, <2>1
<1>3. CASE BodyEnds(k)
  <2>1. done'[c] = done[c] \cup {idx[k]} /\ UNCHANGED <<found, index, aborted>>
        BY <1>3 DEF BodyEnds, TypeOK
  <2> QED BY <1>0, <1>a, <2>1
<1>4. CASE Throws(k)
  <2>1. PICK e : BodyThrows(k, e)
        BY <1>4 DEF Throws
  <2>2. aborted'[c] = (aborted[c] \/ e = "abort") /\ UNCHANGED <<done, found, index>>
        BY <2>1 DEF BodyThrows, TypeOK
  <2> QED BY <1>0, <1>a, <2>2
<1>5. CASE \/ Test(k) \/ BodyStops(k) \/ Ended(k) \/ ThrowReturn(k) \/ Clean(k) \/ Pass(k) \/ Free(k)
  <2>1. UNCHANGED <<done, found, index, aborted>>
        BY <1>5 DEF Test, BodyStops, Ended, ThrowReturn, Clean, Pass, Free, data
  <2> QED BY <1>0, <1>a, <2>1
<1> QED BY <1>1, <1>2, <1>3, <1>4, <1>5 DEF Step

\* What is done stays done, and the counters of a call grow.
LEMMA StepGrows ==
  ASSUME TypeOK, Shape, [Next]_vars, NEW c \in Calls
  PROVE  done[c] \subseteq done'[c] /\ found'[c] >= found[c] /\ index'[c] >= index[c]
         /\ (aborted[c] => aborted'[c]) /\ kind' = kind /\ protected' = protected
<1>0. PICK f \in Nat, i \in Nat : f = found[c] /\ i = index[c]
      BY DEF TypeOK
<1>a. f >= f /\ i >= i
      OBVIOUS
<1>1. ASSUME NEW k \in Tasks, Step(k) \/ Throws(k)
      PROVE  done[c] \subseteq done'[c] /\ found'[c] >= found[c] /\ index'[c] >= index[c]
             /\ (aborted[c] => aborted'[c])
  <2>1. CASE c = CallOf[k]
        BY <1>1, <2>1, TaskGrows
  <2>2. CASE c # CallOf[k]
        BY <1>0, <1>a, <1>1, <2>2, TaskStep
  <2> QED BY <2>1, <2>2
<1>2. ASSUME NEW k \in Tasks, Step(k) \/ Throws(k) PROVE kind' = kind /\ protected' = protected
      BY <1>2, TaskStep
<1>3. (~\E k \in Tasks : Step(k) \/ Throws(k))
         => UNCHANGED <<kind, protected, done, found, index, aborted>>
      BY StepCases, CallEffect, NewTaskEffect, ReturnMapEffect, CatchReturnEffect, RethrowEffect DEF Ends, Holds
<1> QED BY <1>0, <1>a, <1>1, <1>2, <1>3

\* A call keeps its caller, and a new call is made at its beginning.
LEMMA StepCallers ==
  ASSUME TypeOK, Shape, [Next]_vars, NEW c \in Calls
  PROVE  /\ Begun(c) => stage'[c] # "none" /\ caller'[c] = caller[c]
         /\ \/ Begun(c)
            \/ UNCHANGED <<stage[c], caller[c]>>
            \/ \E k \in Tasks : c # Top /\ Call(k, c)
<1>1. ASSUME NEW k \in Tasks, NEW d \in Calls \ {Top}, Call(k, d)
      PROVE  /\ Begun(c) => stage'[c] # "none" /\ caller'[c] = caller[c]
             /\ c # d => UNCHANGED <<stage[c], caller[c]>>
      BY <1>1, CallEffect DEF Begun
<1>2. ASSUME NEW k \in Tasks, NEW d \in Calls, NewTask(d, k)
      PROVE  /\ Begun(c) => stage'[c] # "none" /\ caller'[c] = caller[c]
             /\ Begun(c) \/ UNCHANGED <<stage[c], caller[c]>>
      BY <1>2, NewTaskEffect DEF Begun
<1>3. ASSUME NEW d \in Calls, Ends(d) \/ Holds(d)
      PROVE  /\ Begun(c) => stage'[c] # "none" /\ caller'[c] = caller[c]
             /\ Begun(c) \/ UNCHANGED <<stage[c], caller[c]>>
      BY <1>3 DEF Ends, Holds, Begun, Active
<1>4. ASSUME NEW d \in Calls, ReturnMap(d) \/ CatchReturn(d) \/ Rethrow(d) PROVE Ends(d) \/ Holds(d)
      BY <1>4, ReturnMapEffect, CatchReturnEffect, RethrowEffect
<1>5. ASSUME NEW k \in Tasks, Step(k) \/ Throws(k) PROVE stage' = stage /\ caller' = caller
      BY <1>5, TaskStep
<1> QED BY <1>1, <1>2, <1>3, <1>4, <1>5, StepCases DEF Begun

LEMMA ParentStays ==
  ASSUME TypeOK, Shape, [Next]_vars, NEW s \in Known
  PROVE  Parent(s)' = Parent(s)
<1>1. CASE s = Root
      BY <1>1 DEF Parent
<1>2. CASE s # Root
  <2>1. s \in Tasks /\ CallOf[s] \in Calls /\ Begun(CallOf[s])
        BY <1>2, Basics DEF Known
  <2>2. caller'[CallOf[s]] = caller[CallOf[s]]
        BY <2>1, StepCallers
  <2> QED BY <1>2, <2>2 DEF Parent
<1> QED BY <1>1, <1>2

\* The ancestors of a thread do not change.
LEMMA ChainSame ==
  ASSUME TypeOK, Shape, [Next]_vars, NEW t \in Known
  PROVE  Chain(t)' = Chain(t)
<1>0. t \in Threads /\ Known \subseteq Threads
      BY DEF Known
<1>1. ASSUME NEW S \in SUBSET Threads, t \in S, \A s \in S : Parent(s)' \in S
      PROVE  Chain(t) \subseteq S
  <2> DEFINE T == S \cap Known
  <2>1. T \in SUBSET Threads /\ t \in T
        BY <1>1
  <2>2. \A s \in T : Parent(s) \in T
        BY <1>1, ParentStays, ParentKnown
  <2> HIDE DEF T
  <2>3. Chain(t) \subseteq T
        BY <1>0, <2>1, <2>2, ChainIn
  <2> QED BY <2>3 DEF T
<1>2. PICK C \in SUBSET Threads : C = Chain(t)
      BY <1>0, ChainSelf
<1>3. t \in C /\ \A s \in C : Parent(s)' \in C
  <2>1. t \in C /\ C \subseteq Known /\ \A s \in C : Parent(s) \in C
        BY <1>0, <1>2, ChainSelf, ChainClosed
  <2> QED BY <2>1, ParentStays
<1>4. Chain(t)' = {a \in Threads : \A S \in SUBSET Threads :
                       t \in S /\ (\A s \in S : Parent(s)' \in S) => a \in S}
      BY DEF Chain
<1>5. Chain(t)' \subseteq C
      BY <1>3, <1>4
<1>6. C \subseteq Chain(t)'
      BY <1>1, <1>2, <1>4
<1> QED BY <1>2, <1>5, <1>6

LEMMA CallerChain ==
  ASSUME TypeOK, Shape, [Next]_vars, NEW c \in Calls, Begun(c)
  PROVE  Chain(caller[c])' = Chain(caller[c])
<1>1. caller[c] \in Known
      BY DEF Shape, ShapeOf, Known
<1>2. PICK t \in Threads : t = caller[c]
      BY <1>1 DEF Known
<1>3. t \in Known /\ caller'[c] = t
      BY <1>1, <1>2, StepCallers
<1>4. Chain(t)' = Chain(t)
      BY <1>3, ChainSame
<1>5. Chain(caller[c])' = Chain(t)'
      BY <1>3 DEF Chain, Parent
<1> QED BY <1>2, <1>4, <1>5

\* A call is live from its beginning until its tasks are over.
LEMMA LiveBefore ==
  ASSUME TypeOK, Shape, [Next]_vars, NEW c \in Calls, Live(c)'
  PROVE  Live(c) \/ \E k \in Tasks : c # Top /\ Call(k, c)
<1> SUFFICES ASSUME ~\E k \in Tasks : c # Top /\ Call(k, c), ~Live(c) PROVE FALSE
    OBVIOUS
<1>0. stage'[c] \in {"starting", "running"} /\ pc'[caller'[c]] = "waiting"
      BY DEF Live, Active
<1>1. Begun(c) /\ caller'[c] = caller[c]
      BY <1>0, StepCallers DEF Begun
<1>2. ASSUME NEW d \in Calls, Ends(d) \/ Holds(d) PROVE FALSE
  <2>1. Active(c)
        BY <1>0, <1>2 DEF Ends, Holds, Active
  <2>2. caller[c] \in Threads /\ pc[caller[c]] = "rethrow"
        BY <2>1, CallerIsThread DEF Live
  <2>3. pc'[caller[c]] # "waiting"
        BY <1>2, <2>2 DEF Ends, Holds
  <2> QED BY <1>0, <1>1, <2>3
<1>3. ASSUME NEW d \in Calls, ReturnMap(d) \/ CatchReturn(d) \/ Rethrow(d) PROVE Ends(d) \/ Holds(d)
      BY <1>3, ReturnMapEffect, CatchReturnEffect, RethrowEffect
<1>4. ASSUME NEW k \in Tasks, Step(k) \/ Throws(k) PROVE FALSE
  <2>1. stage' = stage /\ k \in Threads /\ (pc'[k] \in (Own \ {"idle"}) \cup {"over"})
        /\ \A t \in Threads \ {k} : pc'[t] = pc[t]
        BY <1>4, TaskStep, Basics
  <2>2. Active(c)
        BY <1>0, <2>1 DEF Active
  <2>3. caller[c] \in Threads /\ pc[caller[c]] = "rethrow"
        BY <2>2, CallerIsThread DEF Live
  <2> QED BY <1>0, <1>1, <2>1, <2>3 DEF Own
<1>5. ASSUME NEW k \in Tasks, NEW d \in Calls \ {Top}, Call(k, d) PROVE FALSE
  <2>1. c # d
        BY <1>5
  <2>2. stage'[c] = stage[c] /\ pc[k] = "item" /\ \A t \in Threads \ {k} : pc'[t] = pc[t]
        BY <1>5, <2>1, CallEffect
  <2>3. caller[c] \in Threads /\ pc[caller[c]] = "rethrow"
        BY <1>0, <2>2, CallerIsThread DEF Live, Active
  <2> QED BY <1>0, <1>1, <2>2, <2>3
<1>6. ASSUME NEW k \in Tasks, NEW d \in Calls, NewTask(d, k) PROVE FALSE
  <2>1. pc[caller[d]] = "waiting" /\ stage[d] = "starting" /\ pc[k] = "none"
           /\ (\A t \in Threads \ {k} : pc'[t] = pc[t]) /\ \A e \in Calls \ {d} : stage'[e] = stage[e]
        BY <1>6, NewTaskEffect
  <2>2. Active(c)
        BY <1>0, <2>1 DEF Active
  <2>3. caller[c] \in Threads /\ pc[caller[c]] = "rethrow"
        BY <2>2, CallerIsThread DEF Live
  <2> QED BY <1>0, <1>1, <2>1, <2>3
<1>7. ASSUME UNCHANGED <<stage, caller, pc>> PROVE FALSE
      BY <1>0, <1>7 DEF Live, Active
<1> QED BY <1>2, <1>3, <1>4, <1>5, <1>6, <1>7, StepCases

LEMMA LiveStays ==
  ASSUME TypeOK, Shape, [Next]_vars, NEW c \in Calls, Live(c), NEW k \in TasksOf(c), pc[k] # "over"
  PROVE  Live(c)'
<1>0. Begun(c) /\ Active(c) /\ caller[c] \in Threads /\ pc[caller[c]] = "waiting" /\ caller'[c] = caller[c]
      BY CallerIsThread, StepCallers DEF Live, Active, Begun
<1>1. ASSUME NEW d \in Calls, Ends(d) \/ Holds(d) PROVE Live(c)'
  <2>1. d # c
        BY <1>1 DEF Ends, Holds
  <2>2. Active(d) /\ caller[d] # caller[c]
        BY <1>0, <1>1, <2>1 DEF Ends, Holds, Shape, ShapeOf
  <2>3. stage'[c] = stage[c] /\ pc'[caller[c]] = pc[caller[c]]
        BY <1>0, <1>1, <2>1, <2>2 DEF Ends, Holds
  <2> QED BY <1>0, <2>3 DEF Live, Active
<1>2. ASSUME NEW d \in Calls, ReturnMap(d) \/ CatchReturn(d) \/ Rethrow(d) PROVE Ends(d) \/ Holds(d)
      BY <1>2, ReturnMapEffect, CatchReturnEffect, RethrowEffect
<1>3. ASSUME NEW j \in Tasks, Step(j) \/ Throws(j) PROVE Live(c)'
  <2>1. stage' = stage /\ pc[j] \in Own /\ \A t \in Threads \ {j} : pc'[t] = pc[t]
        BY <1>3, TaskStep
  <2> QED BY <1>0, <2>1 DEF Own, Live, Active
<1>4. ASSUME NEW j \in Tasks, NEW d \in Calls \ {Top}, Call(j, d) PROVE Live(c)'
  <2>1. stage[d] = "none" /\ (\A e \in Calls \ {d} : stage'[e] = stage[e])
           /\ pc[j] = "item" /\ \A t \in Threads \ {j} : pc'[t] = pc[t]
        BY <1>4, CallEffect
  <2> QED BY <1>0, <2>1 DEF Live, Active
<1>5. ASSUME NEW j \in Tasks, NEW d \in Calls, NewTask(d, j) PROVE Live(c)'
  <2>1. stage'[d] \in {"starting", "running"} /\ (\A e \in Calls \ {d} : stage'[e] = stage[e])
           /\ pc[j] = "none" /\ \A t \in Threads \ {j} : pc'[t] = pc[t]
        BY <1>5, NewTaskEffect
  <2> QED BY <1>0, <2>1 DEF Live, Active
<1>6. ASSUME UNCHANGED <<stage, caller, pc>> PROVE Live(c)'
      BY <1>0, <1>6 DEF Live, Active
<1> QED BY <1>1, <1>2, <1>3, <1>4, <1>5, <1>6, StepCases

-----------------------------------------------------------------------------
(* Who has an exception.                                                   *)

LEMMA PassThrows ==
  ASSUME TypeOK, Shape, Exceptions, NEW k \in Tasks, Pass(k)
  PROVE  /\ Parent(k) = caller[CallOf[k]] /\ Parent(k) \in Threads \ {k} /\ pc[Parent(k)] = "waiting"
         /\ held[k] = "error" /\ exc[k] = None /\ Throw(Parent(k), "error")
         /\ held' = [held EXCEPT ![k] = None]
         /\ pc[k] \in Passing /\ pc'[k] \in {"item", "free"}
<1>1. pc[k] \in Passing /\ Throw(Parent(k), held[k]) /\ held' = [held EXCEPT ![k] = None]
      BY DEF Pass, Go, Passing
<1>2. held[k] = "error" /\ exc[k] = None
      BY <1>1, Basics DEF Exceptions, ExceptionOf, Passing, Clear
<1>3. Parent(k) = caller[CallOf[k]] /\ Parent(k) \in Threads \ {k} /\ pc[Parent(k)] = "waiting"
      BY <1>1, ParentOf DEF Passing, Own
<1>4. pc'[k] \in {"item", "free"}
      BY Basics DEF Pass, Go, TypeOK
<1> QED BY <1>1, <1>2, <1>3, <1>4

LEMMA RethrowThrows ==
  ASSUME TypeOK, Shape, Exceptions, NEW c \in Calls, Rethrow(c)
  PROVE  held[caller[c]] \in {"error", "abort"}
<1>1. caller[c] \in Threads /\ pc[caller[c]] = "rethrow"
      BY RethrowEffect DEF Ends
<1> QED BY <1>1 DEF Exceptions, ExceptionOf, TypeOK

LEMMA ThrowReturnThrows ==
  ASSUME TypeOK, Shape, NEW k \in Tasks, ThrowReturn(k)
  PROVE  /\ Parent(k) = caller[CallOf[k]] /\ Parent(k) \in Threads \ {k} /\ pc[Parent(k)] = "waiting"
         /\ Live(CallOf[k]) /\ Throw(Parent(k), "return") /\ pc[k] = "throw" /\ pc'[k] = "clean"
         /\ held' = held
<1>1. pc[k] = "throw" /\ pc'[k] = "clean"
      BY Basics DEF ThrowReturn, Go, TypeOK
<1> QED BY <1>1, ParentOf DEF ThrowReturn, Own

\* An exception is kept until its thread cleans up or catches it.
LEMMA ExcLost ==
  ASSUME TypeOK, Shape, Exceptions, ReasonsExact, [Next]_vars,
         NEW a \in Threads, exc[a] # None, exc'[a] = None
  PROVE  \/ a \in Tasks /\ (Clean(a) \/ Free(a))
         \/ \E d \in Calls : CatchReturn(d) /\ caller[d] = a
<1>1. ASSUME NEW t \in Threads, NEW e \in Throwable, Throw(t, e) PROVE FALSE
      BY <1>1, ThrowEffect
<1>2. ASSUME NEW t \in Threads, Catch(t) PROVE t = a
      BY <1>2, CatchEffect
<1>3. Root \in Threads /\ Tasks \subseteq Threads /\ {"error", "abort", "return"} \subseteq Throwable
      BY Basics DEF Throwable
<1>4. ASSUME NEW k \in Tasks, Throws(k) PROVE FALSE
  <2>1. PICK e \in {"error", "abort"} : BodyThrows(k, e)
        BY <1>4 DEF Throws
  <2> QED BY <1>1, <1>3, <2>1 DEF BodyThrows
<1>5. ASSUME NEW k \in Tasks, Step(k) PROVE Clean(k) \/ Free(k)
  <2>1. CASE ThrowReturn(k)
        BY <1>1, <1>3, <2>1, ThrowReturnThrows
  <2>2. CASE Pass(k)
        BY <1>1, <1>3, <2>2, PassThrows
  <2>3. CASE \/ Take(k) \/ Test(k) \/ BodyEnds(k) \/ BodyStops(k) \/ Ended(k) \/ Counted(k) \/ NextItem(k)
    <3>1. exc' = exc
          BY <2>3 DEF Take, Test, BodyEnds, BodyStops, Ended, Counted, NextItem, excvars
    <3> QED BY <3>1
  <2> QED BY <1>5, <2>1, <2>2, <2>3 DEF Step
<1>6. ASSUME NEW k \in Tasks, Clean(k) \/ Free(k) PROVE k = a
      BY <1>2, <1>3, <1>6 DEF Clean, Free
<1>7. ASSUME NEW d \in Calls, CatchReturn(d) PROVE caller[d] = a
      BY <1>2, <1>7, CatchReturnEffect
<1>8. ASSUME NEW d \in Calls, Rethrow(d) PROVE FALSE
  <2>1. caller[d] \in Threads /\ Throw(caller[d], held[caller[d]]) /\ held[caller[d]] \in {"error", "abort"}
        BY <1>8, RethrowEffect, RethrowThrows DEF Ends
  <2> QED BY <1>1, <1>3, <2>1
<1>9. ASSUME Interrupt PROVE FALSE
      BY <1>1, <1>3, <1>9 DEF Interrupt
<1>10. exc' # exc
      OBVIOUS
<1>11. ASSUME NEW k \in Tasks, NEW c \in Calls \ {Top}, Call(k, c) PROVE FALSE
      BY <1>10, <1>11, CallEffect
<1>12. ASSUME NEW k \in Tasks, NEW c \in Calls, NewTask(c, k) PROVE FALSE
      BY <1>10, <1>12, NewTaskEffect
<1>13. ASSUME NEW c \in Calls, ReturnMap(c) PROVE FALSE
      BY <1>10, <1>13, ReturnMapEffect
<1> QED BY <1>4, <1>5, <1>6, <1>7, <1>8, <1>9, <1>10, <1>11, <1>12, <1>13, StepCases

\* While a call is live, none of its callers loses an exception.
LEMMA ChainExcStays ==
  ASSUME TypeOK, Shape, Exceptions, ReasonsExact, [Next]_vars, NEW c \in Calls, Live(c), Live(c)',
         NEW a \in Chain(caller[c]), exc[a] # None
  PROVE  exc'[a] # None
<1> SUFFICES ASSUME exc'[a] = None PROVE FALSE
    OBVIOUS
<1>0. a \in Known /\ a \in Threads /\ pc[a] = "waiting" /\ caller[c] \in Known /\ Active(c)
      BY WaitingAbove DEF Live, Known
<1>1. PICK d \in Calls : CatchReturn(d) /\ caller[d] = a
  <2>1. ~(Clean(a) \/ Free(a))
        BY <1>0 DEF Clean, Free, Go
  <2> QED BY <1>0, <2>1, ExcLost
<1>2. Active(d) /\ pc'[a] # "waiting" /\ \A k \in TasksOf(d) : pc[k] = "over"
      BY <1>1, CatchReturnEffect DEF Ends, Holds
<1>3. d # c
  <2>1. caller'[c] = caller[c]
        BY <1>0, StepCallers DEF Begun, Active
  <2> QED BY <1>1, <1>2, <2>1 DEF Live
<1>4. a # caller[c]
      BY <1>0, <1>1, <1>2, <1>3 DEF Shape, ShapeOf
<1>5. PICK k \in Tasks : k \in Chain(caller[c]) /\ caller[CallOf[k]] = a
      BY <1>0, <1>4, ChainChild
<1>6. pc[k] = "waiting"
      BY <1>5, WaitingAbove
<1>7. Active(CallOf[k]) /\ CallOf[k] \in Calls /\ k \in TasksOf(CallOf[k])
      BY <1>6, CallerWaits DEF Live
<1>8. CallOf[k] = d
      BY <1>1, <1>2, <1>5, <1>7 DEF Shape, ShapeOf
<1> QED BY <1>2, <1>6, <1>7, <1>8

\* What task k would pass on, it does not lose without passing it on.
LEMMA PassesOnStays ==
  ASSUME TypeOK, Shape, Exceptions, ReasonsExact, [Next]_vars, NEW k \in Tasks, PassesOn(k)
  PROVE  PassesOn(k)' \/ exc'[caller[CallOf[k]]] # None
<1>0. k \in Threads /\ CallOf[k] \in Calls /\ None # "error"
      BY Basics
<1>e. exc \in [Threads -> {None, "return", "error", "abort"}] /\ held \in [Threads -> {None, "return", "error", "abort"}]
      BY DEF TypeOK
<1>1. CASE exc[k] = "error"
  <2> SUFFICES ASSUME exc'[k] # "error" PROVE held'[k] = "error"
      BY DEF PassesOn
  <2>1. ASSUME NEW t \in Threads, NEW e \in Throwable, Throw(t, e) PROVE FALSE
        BY <1>0, <1>1, <2>1, ThrowEffect
  <2>2. ASSUME NEW t \in Threads, Catch(t) PROVE t = k
        BY <1>0, <1>1, <2>2, CatchEffect
  <2>3. Root \in Threads /\ Tasks \subseteq Threads /\ {"error", "abort", "return"} \subseteq Throwable
        BY Basics DEF Throwable
  <2>4. ASSUME NEW j \in Tasks, Throws(j) PROVE FALSE
    <3>1. PICK e \in {"error", "abort"} : BodyThrows(j, e)
          BY <2>4 DEF Throws
    <3> QED BY <2>1, <2>3, <3>1 DEF BodyThrows
  <2>5. ASSUME NEW j \in Tasks, Step(j) PROVE held'[k] = "error"
    <3>1. CASE ThrowReturn(j)
          BY <2>1, <2>3, <3>1, ThrowReturnThrows
    <3>2. CASE Pass(j)
          BY <2>1, <2>3, <3>2, PassThrows
    <3>3. CASE \/ Take(j) \/ Test(j) \/ BodyEnds(j) \/ BodyStops(j) \/ Ended(j) \/ Counted(j) \/ NextItem(j)
      <4>1. exc' = exc
            BY <3>3 DEF Take, Test, BodyEnds, BodyStops, Ended, Counted, NextItem, excvars
      <4> QED BY <1>1, <4>1
    <3>4. CASE Clean(j)
      <4>1. j = k
            BY <2>2, <2>3, <3>4 DEF Clean
      <4>2. held' = [held EXCEPT ![k] = IF exc[k] = "abort" THEN None ELSE exc[k]]
            BY <3>4, <4>1 DEF Clean
      <4> QED BY <1>0, <1>1, <1>e, <4>2
    <3>5. CASE Free(j)
      <4>1. j = k /\ pc[j] = "free"
            BY <2>2, <2>3, <3>5 DEF Free, Go
      <4> QED BY <1>0, <1>1, <4>1 DEF Exceptions, ExceptionOf, Clear
    <3> QED BY <2>5, <3>1, <3>2, <3>3, <3>4, <3>5 DEF Step
  <2>6. ASSUME NEW d \in Calls, CatchReturn(d) PROVE held'[k] = "error"
    <3>1. caller[d] = k
          BY <2>2, <2>6, CatchReturnEffect
    <3>2. held' = [held EXCEPT ![k] = exc[k]]
          BY <1>0, <1>1, <2>6, <3>1, CatchReturnEffect
    <3> QED BY <1>0, <1>1, <1>e, <3>2
  <2>7. ASSUME NEW d \in Calls, Rethrow(d) PROVE FALSE
    <3>1. caller[d] \in Threads /\ Throw(caller[d], held[caller[d]]) /\ held[caller[d]] \in {"error", "abort"}
          BY <2>7, RethrowEffect, RethrowThrows DEF Ends
    <3> QED BY <2>1, <2>3, <3>1
  <2>8. ASSUME Interrupt PROVE FALSE
        BY <2>1, <2>3, <2>8 DEF Interrupt
  <2>9. exc' # exc
        BY <1>1
  <2>10. ASSUME NEW j \in Tasks, NEW c \in Calls \ {Top}, Call(j, c) PROVE FALSE
        BY <2>9, <2>10, CallEffect
  <2>11. ASSUME NEW j \in Tasks, NEW c \in Calls, NewTask(c, j) PROVE FALSE
        BY <2>9, <2>11, NewTaskEffect
  <2>12. ASSUME NEW c \in Calls, ReturnMap(c) PROVE FALSE
        BY <2>9, <2>12, ReturnMapEffect
  <2> QED BY <2>4, <2>5, <2>6, <2>7, <2>8, <2>9, <2>10, <2>11, <2>12, StepCases
<1>2. CASE held[k] = "error"
  <2>0. pc[k] \in Passing \cup {"rethrow"} /\ exc[k] = None
        BY <1>0, <1>2 DEF Exceptions, ExceptionOf, Passing, Clear
  <2> SUFFICES ASSUME held'[k] # "error", exc'[k] # "error" PROVE exc'[caller[CallOf[k]]] # None
      BY DEF PassesOn
  <2>1. ASSUME held' = held PROVE FALSE
        BY <1>2, <2>1
  <2>2. ASSUME NEW j \in Tasks, Step(j) \/ Throws(j) PROVE exc'[caller[CallOf[k]]] # None
    <3>1. CASE Clean(j)
      <4>1. pc[j] \in {"clean item", "clean"} /\ held' = [held EXCEPT ![j] = IF exc[j] = "abort" THEN None ELSE exc[j]]
            BY <3>1 DEF Clean, Go
      <4>2. j # k
            BY <2>0, <4>1 DEF Passing
      <4> QED BY <1>0, <1>e, <2>1, <4>1, <4>2, <1>2
    <3>2. CASE Pass(j)
      <4>1. /\ Parent(j) = caller[CallOf[j]] /\ Parent(j) \in Threads
            /\ Throw(Parent(j), "error") /\ held' = [held EXCEPT ![j] = None]
            BY <3>2, PassThrows
      <4>2. j = k
            BY <1>0, <1>2, <1>e, <4>1
      <4>3. exc'[Parent(j)] # None
            BY <4>1, ThrowEffect, Basics DEF Throwable
      <4> QED BY <4>1, <4>2, <4>3
    <3>3. CASE ~Clean(j) /\ ~Pass(j)
      <4>1. held' = held
            BY <2>2, <3>3 DEF Step, Throws, BodyThrows, Take, Test, BodyEnds, BodyStops, Ended, Counted,
                              NextItem, ThrowReturn, Free, excvars
      <4> QED BY <2>1, <4>1
    <3> QED BY <3>1, <3>2, <3>3
  <2>3. ASSUME NEW d \in Calls, CatchReturn(d) PROVE FALSE
    <3>1. caller[d] # k /\ caller[d] \in Threads
          BY <2>0, <2>3, CatchReturnEffect DEF Passing
    <3> QED BY <1>0, <1>2, <1>e, <2>1, <2>3, <3>1, CatchReturnEffect
  <2>4. ASSUME NEW d \in Calls, Rethrow(d) PROVE FALSE
    <3>1. /\ caller[d] \in Threads /\ Throw(caller[d], held[caller[d]])
          /\ held[caller[d]] \in {"error", "abort"} /\ held' = [held EXCEPT ![caller[d]] = None]
          BY <2>4, RethrowEffect, RethrowThrows DEF Ends
    <3>2. caller[d] = k
          BY <1>0, <1>2, <1>e, <3>1
    <3>3. Throw(k, "error") /\ "error" \in Throwable
          BY <1>2, <3>1, <3>2 DEF Throwable
    <3> QED BY <1>0, <2>0, <3>3, ThrowEffect
  <2>5. ASSUME NEW j \in Tasks, NEW c \in Calls \ {Top}, Call(j, c) PROVE FALSE
        BY <2>1, <2>5, CallEffect
  <2>6. ASSUME NEW j \in Tasks, NEW c \in Calls, NewTask(c, j) PROVE FALSE
        BY <2>1, <2>6, NewTaskEffect
  <2>7. ASSUME NEW c \in Calls, ReturnMap(c) PROVE FALSE
        BY <2>1, <2>7, ReturnMapEffect
  <2> QED BY <2>1, <2>2, <2>3, <2>4, <2>5, <2>6, <2>7, StepCases
<1> QED BY <1>1, <1>2 DEF PassesOn

\* The excuse of a live call lasts.
LEMMA ExcusedStays ==
  ASSUME TypeOK, Shape, Exceptions, ReasonsExact, [Next]_vars, NEW c \in Calls, Live(c), Live(c)', Excused(c)
  PROVE  Excused(c)'
<1>1. caller'[c] = caller[c] /\ Chain(caller[c])' = Chain(caller[c]) /\ caller[c] \in Threads
      BY StepCallers, CallerChain, CallerIsThread DEF Live, Active, Begun
<1>2. CASE aborted[c]
      BY <1>2, StepGrows DEF Excused
<1>3. CASE \E a \in Chain(caller[c]) : exc[a] # None
  <2>1. PICK a \in Chain(caller[c]) : exc[a] # None
        BY <1>3
  <2>2. exc'[a] # None
        BY <2>1, ChainExcStays
  <2> QED BY <1>1, <2>2 DEF Excused
<1>4. CASE \E k \in TasksOf(c) : PassesOn(k)
  <2>1. PICK k \in TasksOf(c) : PassesOn(k)
        BY <1>4
  <2>2. k \in Tasks /\ CallOf[k] = c
        BY DEF TasksOf
  <2>3. PassesOn(k)' \/ exc'[caller[c]] # None
        BY <2>1, <2>2, PassesOnStays
  <2>4. caller[c] \in Chain(caller[c])
        BY <1>1, ChainSelf
  <2> QED BY <1>1, <2>3, <2>4 DEF Excused
<1> QED BY <1>2, <1>3, <1>4 DEF Excused

\* A thread that does not wait has no Internal`ParallelReturn.
LEMMA NoReturn ==
  ASSUME TypeOK, Shape, Exceptions, NEW t \in Threads, pc[t] # "waiting"
  PROVE  exc[t] # "return"
<1> SUFFICES ASSUME exc[t] = "return" PROVE FALSE
    OBVIOUS
<1>1. Uses(t) /\ pc[t] # "rethrow"
      BY DEF Exceptions, ExceptionOf
<1>2. PICK d \in Calls : caller[d] = t /\ Active(d)
      BY <1>1 DEF Uses, Active
<1> QED BY <1>1, <1>2, CallerIsThread

\* A task that evaluates stops only for what is an excuse of its call.
LEMMA AbortingExcused ==
  ASSUME TypeOK, Shape, Exceptions, NEW k \in Tasks, pc[k] \in Own, Aborting(k)
  PROVE  Excused(CallOf[k])
<1>1. /\ Parent(k) = caller[CallOf[k]] /\ CallOf[k] \in Calls
      /\ k \in Known /\ k \in TasksOf(CallOf[k]) /\ k \in Threads
      BY ParentOf, CallerWaits, Basics DEF Own
<1>2. PICK a \in Chain(k) : exc[a] # None
      BY DEF Aborting, Pending
<1>3. CASE a \in Chain(Parent(k))
      BY <1>1, <1>2, <1>3 DEF Excused
<1>4. CASE a = k
  <2>1. exc[k] # "return"
        BY <1>1, NoReturn DEF Own
  <2>2. exc[k] \in {"error", "abort"}
        BY <1>1, <1>2, <1>4, <2>1 DEF TypeOK
  <2>3. exc[k] = "abort" => aborted[CallOf[k]]
        BY <1>1 DEF Exceptions, ExceptionOf
  <2> QED BY <1>1, <2>2, <2>3 DEF Excused, PassesOn
<1> QED BY <1>1, <1>2, <1>3, <1>4, ChainStep

\* While others take steps, a task still has to stop.
LEMMA AbortingStays ==
  ASSUME TypeOK, Shape, Exceptions, ReasonsExact, [Next]_vars, ReasonsExact', NEW k \in Tasks,
         pc[k] \in Own, pc[k] \notin {"clean item", "clean", "free"}, Aborting(k)
  PROVE  Aborting(k)'
<1>1. /\ Live(CallOf[k]) /\ CallOf[k] \in Calls /\ k \in TasksOf(CallOf[k]) /\ k \in Known
      /\ Parent(k) = caller[CallOf[k]] /\ k \in Threads
      BY ParentOf, CallerWaits, Basics DEF Own
<1>2. Live(CallOf[k])'
      BY <1>1, LiveStays DEF Own
<1>3. PICK a \in Chain(k) : exc[a] # None
      BY DEF Aborting, Pending
<1>4. a \in Threads
      BY <1>1, ChainSelf
<1>5. exc'[a] # None
  <2>1. CASE a = k
    <3> SUFFICES ASSUME exc'[k] = None PROVE FALSE
        BY <2>1
    <3>1. ~Clean(k) /\ ~Free(k)
          BY DEF Clean, Free, Go
    <3>2. PICK d \in Calls : CatchReturn(d) /\ caller[d] = k
          BY <1>1, <1>3, <2>1, <3>1, ExcLost
    <3> QED BY <3>2, CatchReturnEffect DEF Own
  <2>2. CASE a # k
    <3>1. a \in Chain(caller[CallOf[k]])
          BY <1>1, <2>2, ChainStep
    <3> QED BY <1>1, <1>2, <1>3, <3>1, ChainExcStays
  <2> QED BY <2>1, <2>2
<1>6. Chain(k)' = Chain(k)
      BY <1>1, ChainSame
<1>7. Pending(k)'
      BY <1>3, <1>5, <1>6 DEF Pending
<1>8. reasons' # 0
  <2>1. PICK T \in SUBSET Threads : T = {s \in Threads : exc'[s] # None}
        OBVIOUS
  <2>2. IsFiniteSet(T) /\ T # {}
        BY <1>4, <1>5, <2>1, Basics, FS_Subset
  <2>3. Cardinality(T) # 0
        BY <2>2, FS_EmptySet
  <2> QED BY <2>1, <2>3 DEF ReasonsExact
<1>9. protected' = protected
      BY <1>1, StepGrows
<1> QED BY <1>7, <1>8, <1>9 DEF Aborting

\* Who uses Internal`ParallelReturn does so as long as it waits.
LEMMA UsesStays ==
  ASSUME TypeOK, Shape, [Next]_vars, NEW t \in Threads, Uses(t), pc'[t] # "item"
  PROVE  Uses(t)'
<1>1. PICK d \in Calls : caller[d] = t /\ kind[d] # "map" /\ Active(d)
      BY DEF Uses, Active
<1>2. kind'[d] # "map" /\ caller'[d] = t
      BY <1>1, StepGrows, StepCallers DEF Active, Begun
<1>3. ASSUME NEW e \in Calls, Ends(e) \/ Holds(e) PROVE Active(d)'
  <2>1. Holds(e) \/ e # d
        BY <1>1, <1>3 DEF Ends
  <2>2. stage'[d] = stage[d]
        BY <1>3, <2>1 DEF Ends, Holds
  <2> QED BY <1>1, <2>2 DEF Active
<1>4. ASSUME NEW e \in Calls, ReturnMap(e) \/ CatchReturn(e) \/ Rethrow(e) PROVE Ends(e) \/ Holds(e)
      BY <1>4, ReturnMapEffect, CatchReturnEffect, RethrowEffect
<1>5. ASSUME NEW k \in Tasks, Step(k) \/ Throws(k) PROVE Active(d)'
      BY <1>1, <1>5, TaskStep DEF Active
<1>6. ASSUME NEW k \in Tasks, NEW c \in Calls \ {Top}, Call(k, c) PROVE Active(d)'
      BY <1>1, <1>6, CallEffect DEF Active
<1>7. ASSUME NEW c \in Calls, NEW k \in Tasks, NewTask(c, k) PROVE Active(d)'
      BY <1>1, <1>7, NewTaskEffect DEF Active
<1>8. ASSUME stage' = stage PROVE Active(d)'
      BY <1>1, <1>8 DEF Active
<1>9. Active(d)'
      BY <1>3, <1>4, <1>5, <1>6, <1>7, <1>8, StepCases
<1> QED BY <1>2, <1>9 DEF Uses, Active

\* A thread whose exceptions and place stay.
LEMMA SameThread ==
  ASSUME TypeOK, Shape, Exceptions, [Next]_vars, NEW t \in Threads,
         pc'[t] = pc[t], exc'[t] = exc[t], held'[t] = held[t]
  PROVE  ExceptionOf(t)'
<1>1. ExceptionOf(t)
      BY DEF Exceptions
<1>2. exc[t] = "return" => Uses(t)'
  <2>1. exc[t] = "return" => Uses(t) /\ pc[t] = "waiting"
        BY <1>1, NoReturn DEF ExceptionOf
  <2> QED BY <2>1, UsesStays
<1>3. t \in Tasks => (aborted[CallOf[t]] => aborted'[CallOf[t]])
      BY StepGrows, Basics
<1> QED BY <1>1, <1>2, <1>3 DEF ExceptionOf

\* A thread that waits and has been thrown an exception.
LEMMA ThrownTo ==
  ASSUME TypeOK, Shape, Exceptions, ReasonsExact, [Next]_vars, NEW t \in Threads, NEW e \in {"return", "error"},
         Throw(t, e), pc[t] = "waiting", pc'[t] = pc[t], held'[t] = held[t], e = "return" => Uses(t)
  PROVE  ExceptionOf(t)'
<1>1. ExceptionOf(t)
      BY DEF Exceptions
<1>2. exc'[t] = IF exc[t] = None THEN e ELSE exc[t]
      BY ThrowEffect DEF Throwable
<1>3. exc'[t] = "return" => Uses(t)'
  <2>1. exc'[t] = "return" => Uses(t)
        BY <1>1, <1>2 DEF ExceptionOf
  <2> QED BY <2>1, UsesStays
<1>4. t \in Tasks => (aborted[CallOf[t]] => aborted'[CallOf[t]])
      BY StepGrows, Basics
<1>5. pc'[t] \notin Clear /\ pc'[t] \notin Passing
      BY DEF Clear, Passing
<1> QED BY <1>1, <1>2, <1>3, <1>4, <1>5 DEF ExceptionOf

LEMMA StepExceptions == IInv /\ [Next]_vars => Exceptions'
<1> SUFFICES ASSUME IInv, [Next]_vars, NEW t \in Threads PROVE ExceptionOf(t)'
    BY DEF Exceptions
<1>0. TypeOK /\ Shape /\ Exceptions /\ ReasonsExact /\ \A c \in Calls : TakenOf(c)
      BY DEF IInv
<1>a. ExceptionOf(t) /\ Root \notin Tasks /\ Root \in Threads /\ Tasks \subseteq Threads
         /\ \A k \in Tasks : CallOf[k] \in Calls
      BY <1>0, Basics DEF Exceptions
<1>b. None \notin {"return", "error", "abort"}
      BY <1>0, Basics
<1>c. t \in Tasks => (aborted[CallOf[t]] => aborted'[CallOf[t]])
      BY <1>0, <1>a, StepGrows
<1>d. pc[t] # "waiting" => exc[t] # "return"
      BY <1>0, NoReturn
<1>e. pc'[t] = pc[t] /\ exc'[t] = exc[t] /\ held'[t] = held[t] => ExceptionOf(t)'
      BY <1>0, SameThread
<1>f. held \in [Threads -> {None, "return", "error", "abort"}] /\ exc[t] \in {None, "return", "error", "abort"}
      BY <1>0 DEF TypeOK
\* Steps that move one thread and no exception.
<1>1. ASSUME NEW k \in Threads, pc[k] \notin Passing \cup {"waiting", "rethrow"}, pc'[k] \notin Passing \cup {"rethrow"},
             pc'[k] \in Clear => pc[k] \in Clear,
             \A s \in Threads \ {k} : pc'[s] = pc[s], UNCHANGED <<exc, held>>
      PROVE  ExceptionOf(t)'
  <2>1. CASE t # k
        BY <1>e, <1>1, <2>1
  <2>2. CASE t = k
    <3>1. exc[t] # "return" /\ held[t] = None
          BY <1>a, <1>d, <1>1, <2>2 DEF ExceptionOf
    <3>2. exc'[t] # "return" /\ held'[t] = None /\ exc'[t] = exc[t]
          BY <1>1, <3>1
    <3> QED BY <1>a, <1>b, <1>c, <1>1, <2>2, <3>2 DEF ExceptionOf
  <2> QED BY <2>1, <2>2
<1>2. ASSUME NEW k \in Tasks, \/ Take(k) \/ Test(k) \/ BodyEnds(k) \/ BodyStops(k) \/ Ended(k)
                              \/ Counted(k) \/ NextItem(k)
      PROVE  ExceptionOf(t)'
  <2>1. UNCHANGED <<exc, held>>
        BY <1>2 DEF Take, Test, BodyEnds, BodyStops, Ended, Counted, NextItem, excvars
  <2>2. k \in Threads /\ \A s \in Threads \ {k} : pc'[s] = pc[s]
        BY <1>0, <1>a, <1>2, TaskStep DEF Step
  <2>3. /\ pc[k] \notin Passing \cup {"waiting", "rethrow"} /\ pc'[k] \notin Passing \cup {"rethrow"}
        /\ pc'[k] \in Clear => pc[k] \in Clear
    <3>1. CASE Take(k)
      <4>1. pc[k] = "idle" /\ pc'[k] \in {"test", "item", "free"}
            BY <1>0, <2>2, <3>1 DEF Take, Go, TypeOK
      <4> QED BY <4>1 DEF Passing, Clear
    <3>2. CASE Test(k)
      <4>1. pc[k] = "test" /\ pc'[k] \in {"clean", "item", "clean item"}
            BY <1>0, <2>2, <3>2 DEF Test, Go, TypeOK
      <4> QED BY <4>1 DEF Passing, Clear
    <3>3. CASE BodyEnds(k) \/ BodyStops(k)
      <4>1. pc[k] = "item" /\ pc'[k] = "ended"
            BY <1>0, <2>2, <3>3 DEF BodyEnds, BodyStops, Go, TypeOK
      <4> QED BY <4>1 DEF Passing, Clear
    <3>4. CASE Ended(k)
      <4>1. pc[k] = "ended" /\ pc'[k] \in {"throw", "count", "next"}
            BY <1>0, <2>2, <3>4 DEF Ended, Go, TypeOK
      <4> QED BY <4>1 DEF Passing, Clear
    <3>5. CASE Counted(k)
      <4>1. pc[k] = "count" /\ pc'[k] \in {"throw", "next"}
            BY <1>0, <2>2, <3>5 DEF Counted, Go, TypeOK
      <4> QED BY <4>1 DEF Passing, Clear
    <3>6. CASE NextItem(k)
      <4>1. pc[k] = "next" /\ pc'[k] = "test"
            BY <1>0, <2>2, <3>6 DEF NextItem, Go, TypeOK
      <4> QED BY <4>1 DEF Passing, Clear
    <3> QED BY <1>2, <3>1, <3>2, <3>3, <3>4, <3>5, <3>6
  <2> QED BY <1>1, <2>1, <2>2, <2>3
<1>3. ASSUME NEW k \in Tasks, ThrowReturn(k) PROVE ExceptionOf(t)'
  <2>1. /\ Parent(k) = caller[CallOf[k]] /\ Parent(k) \in Threads \ {k} /\ pc[Parent(k)] = "waiting"
        /\ Live(CallOf[k]) /\ Throw(Parent(k), "return") /\ pc[k] = "throw" /\ pc'[k] = "clean" /\ held' = held
        BY <1>0, <1>3, ThrowReturnThrows
  <2>2. \A s \in Threads \ {k} : pc'[s] = pc[s]
        BY <1>0, <1>3, TaskStep DEF Step
  <2>3. CASE t = k
    <3>1. exc'[t] = exc[t]
          BY <1>0, <1>a, <2>1, <2>3, ThrowEffect DEF Throwable
    <3>2. exc[t] # "return" /\ held[t] = None
          BY <1>a, <1>d, <2>1, <2>3 DEF ExceptionOf, Passing
    <3> QED BY <1>a, <1>b, <1>c, <2>1, <2>3, <3>1, <3>2 DEF ExceptionOf, Passing, Clear
  <2>4. CASE t = Parent(k)
    <3>1. k \in TasksOf(CallOf[k]) /\ TakenOf(CallOf[k])
          BY <1>0, <1>a DEF TasksOf
    <3>2. kind[CallOf[k]] # "map"
          BY <2>1, <3>1 DEF TakenOf, TakenBy
    <3>3. Uses(t)
          BY <1>a, <2>1, <2>4, <3>2 DEF Uses, Live, Active
    <3> QED BY <1>0, <2>1, <2>2, <2>4, <3>3, ThrownTo
  <2>5. CASE t # k /\ t # Parent(k)
    <3>1. exc'[t] = exc[t]
          BY <1>0, <2>1, <2>5, ThrowEffect DEF Throwable
    <3> QED BY <1>e, <2>1, <2>2, <2>5, <3>1
  <2> QED BY <2>3, <2>4, <2>5
<1>4. ASSUME NEW k \in Tasks, Clean(k) PROVE ExceptionOf(t)'
  <2>1. /\ Catch(k) /\ held' = [held EXCEPT ![k] = IF exc[k] = "abort" THEN None ELSE exc[k]]
        /\ pc[k] \in {"clean item", "clean"}
        BY <1>4 DEF Clean, Go
  <2>2. IF exc[k] \in {None, "abort"} THEN pc'[k] \in {"item", "free"} ELSE pc'[k] \in Passing
    <3>1. PICK item \in BOOLEAN :
             Go(k, IF item THEN "clean item" ELSE "clean",
                   IF exc[k] \in {None, "abort"} THEN (IF item THEN "item" ELSE "free")
                   ELSE IF item THEN "pass item" ELSE "pass")
          BY <1>4 DEF Clean
    <3> QED BY <1>0, <1>a, <3>1 DEF Go, TypeOK, Passing
  <2>3. \A s \in Threads \ {k} : pc'[s] = pc[s]
        BY <1>0, <1>4, TaskStep DEF Step
  <2>4. k \in Threads /\ exc'[k] = None /\ \A s \in Threads \ {k} : exc'[s] = exc[s]
        BY <1>0, <1>a, <2>1, CatchEffect
  <2>5. CASE t # k
        BY <1>e, <1>f, <2>1, <2>3, <2>4, <2>5
  <2>6. CASE t = k
    <3>1. held'[t] = IF exc[t] = "abort" THEN None ELSE exc[t]
          BY <1>f, <2>1, <2>6
    <3>2. exc[t] # "return"
          BY <1>d, <2>1, <2>6
    <3>3. exc[t] \in {None, "abort"} => held'[t] = None /\ pc'[t] \notin Passing \cup {"rethrow"}
          BY <2>2, <2>6, <3>1 DEF Passing
    <3>4. exc[t] = "error" => held'[t] = "error" /\ pc'[t] \in Passing
          BY <1>b, <2>2, <2>6, <3>1
    <3> QED BY <1>b, <1>f, <2>4, <2>6, <3>2, <3>3, <3>4 DEF ExceptionOf
  <2> QED BY <2>5, <2>6
<1>5. ASSUME NEW k \in Tasks, Pass(k) PROVE ExceptionOf(t)'
  <2>1. /\ Parent(k) \in Threads \ {k} /\ pc[Parent(k)] = "waiting" /\ exc[k] = None
        /\ Throw(Parent(k), "error") /\ held' = [held EXCEPT ![k] = None] /\ pc'[k] \in {"item", "free"}
        BY <1>0, <1>5, PassThrows
  <2>2. \A s \in Threads \ {k} : pc'[s] = pc[s]
        BY <1>0, <1>5, TaskStep DEF Step
  <2>3. \A s \in Threads \ {Parent(k)} : exc'[s] = exc[s]
        BY <1>0, <2>1, ThrowEffect DEF Throwable
  <2>4. CASE t = k
    <3>1. exc'[t] = None /\ held'[t] = None
          BY <1>f, <2>1, <2>3, <2>4
    <3> QED BY <1>b, <2>1, <2>4, <3>1 DEF ExceptionOf, Passing
  <2>5. CASE t = Parent(k)
    <3>1. pc'[t] = pc[t] /\ held'[t] = held[t]
          BY <1>f, <2>1, <2>2, <2>5
    <3> QED BY <1>0, <2>1, <2>5, <3>1, ThrownTo
  <2>6. CASE t # k /\ t # Parent(k)
        BY <1>e, <1>f, <2>1, <2>2, <2>3, <2>6
  <2> QED BY <2>4, <2>5, <2>6
<1>6. ASSUME NEW k \in Tasks, Free(k) PROVE ExceptionOf(t)'
  <2>1. pc[k] = "free" /\ pc'[k] = "over" /\ Catch(k) /\ held' = held /\ k \in Threads
        BY <1>0, <1>a, <1>6 DEF Free, Go, TypeOK
  <2>2. \A s \in Threads \ {k} : pc'[s] = pc[s]
        BY <1>0, <1>6, TaskStep DEF Step
  <2>3. exc'[k] = None /\ \A s \in Threads \ {k} : exc'[s] = exc[s]
        BY <1>0, <2>1, CatchEffect
  <2>4. CASE t = k
    <3>1. held'[t] = None
          BY <1>a, <2>1, <2>4 DEF ExceptionOf, Passing
    <3> QED BY <1>b, <2>1, <2>3, <2>4, <3>1 DEF ExceptionOf, Passing
  <2>5. CASE t # k
        BY <1>e, <2>1, <2>2, <2>3, <2>5
  <2> QED BY <2>4, <2>5
<1>7. ASSUME NEW k \in Tasks, Throws(k) PROVE ExceptionOf(t)'
  <2>1. PICK e \in {"error", "abort"} : BodyThrows(k, e)
        BY <1>7 DEF Throws
  <2>2. pc[k] = "item" /\ exc[k] = None /\ Throw(k, e) /\ UNCHANGED <<pc, held>> /\ k \in Threads
        BY <1>a, <2>1 DEF BodyThrows
  <2>3. exc'[k] = e /\ \A s \in Threads \ {k} : exc'[s] = exc[s]
        BY <1>0, <2>2, ThrowEffect DEF Throwable
  <2>4. CASE t = k
    <3>1. e = "abort" => aborted'[CallOf[k]]
          BY <1>0, <1>a, <2>1 DEF BodyThrows, TypeOK
    <3> QED BY <1>a, <1>b, <1>c, <2>2, <2>3, <2>4, <3>1 DEF ExceptionOf, Passing, Clear
  <2>5. CASE t # k
        BY <1>e, <2>2, <2>3, <2>5
  <2> QED BY <2>4, <2>5
<1>8. ASSUME NEW k \in Tasks, NEW c \in Calls \ {Top}, Call(k, c) PROVE ExceptionOf(t)'
  <2>1. pc[k] = "item" /\ pc'[k] = "waiting" /\ (\A s \in Threads \ {k} : pc'[s] = pc[s]) /\ UNCHANGED <<exc, held>>
        BY <1>0, <1>8, CallEffect
  <2> QED BY <1>1, <1>a, <2>1 DEF Passing, Clear
<1>9. ASSUME NEW c \in Calls, NEW k \in Tasks, NewTask(c, k) PROVE ExceptionOf(t)'
  <2>1. pc[k] = "none" /\ pc'[k] = "idle" /\ (\A s \in Threads \ {k} : pc'[s] = pc[s]) /\ UNCHANGED <<exc, held>>
        BY <1>0, <1>9, NewTaskEffect
  <2> QED BY <1>1, <1>a, <2>1 DEF Passing, Clear
<1>10. ASSUME NEW c \in Calls, ReturnMap(c) PROVE ExceptionOf(t)'
  <2>1. Ends(c) /\ kind[c] = "map" /\ pc[caller[c]] = "waiting" /\ UNCHANGED <<exc, held>>
        BY <1>0, <1>10, ReturnMapEffect
  <2>2. /\ Active(c) /\ caller[c] \in Threads /\ pc'[caller[c]] = "item"
        /\ \A s \in Threads \ {caller[c]} : pc'[s] = pc[s]
        BY <2>1 DEF Ends
  <2>3. CASE t # caller[c]
        BY <1>e, <2>1, <2>2, <2>3
  <2>4. CASE t = caller[c]
    <3>1. ~Uses(t)
          BY <1>0, <2>1, <2>2, <2>4 DEF Uses, Active, Shape, ShapeOf
    <3>2. exc[t] # "return" /\ held[t] = None
          BY <1>a, <2>1, <2>4, <3>1 DEF ExceptionOf, Passing
    <3> QED BY <1>a, <1>b, <1>c, <2>1, <2>2, <2>4, <3>2 DEF ExceptionOf, Passing, Clear
  <2> QED BY <2>3, <2>4
<1>11. ASSUME NEW c \in Calls, CatchReturn(c) PROVE ExceptionOf(t)'
  <2>1. /\ caller[c] \in Threads /\ pc[caller[c]] = "waiting" /\ Catch(caller[c])
        /\ IF exc[caller[c]] \in {None, "return"}
           THEN Ends(c) /\ held' = held
           ELSE Holds(c) /\ held' = [held EXCEPT ![caller[c]] = exc[caller[c]]]
        BY <1>0, <1>11, CatchReturnEffect
  <2>2. exc'[caller[c]] = None /\ \A s \in Threads \ {caller[c]} : exc'[s] = exc[s]
        BY <1>0, <2>1, CatchEffect
  <2>3. CASE t # caller[c]
    <3>1. pc'[t] = pc[t] /\ held'[t] = held[t]
          BY <1>f, <2>1, <2>3 DEF Ends, Holds
    <3> QED BY <1>e, <2>2, <2>3, <3>1
  <2>4. CASE t = caller[c] /\ exc[t] \in {None, "return"}
    <3>1. pc'[t] = "item" /\ held'[t] = None
          BY <1>a, <2>1, <2>4 DEF Ends, ExceptionOf, Passing
    <3> QED BY <1>b, <2>2, <2>4, <3>1 DEF ExceptionOf, Passing
  <2>5. CASE t = caller[c] /\ exc[t] \notin {None, "return"}
    <3>1. pc'[t] = "rethrow" /\ held'[t] = exc[t]
          BY <1>f, <2>1, <2>5 DEF Holds
    <3>2. t \in Tasks /\ exc[t] = "abort" => aborted'[CallOf[t]]
          BY <1>a, <1>c DEF ExceptionOf
    <3> QED BY <1>b, <2>2, <2>5, <3>1, <3>2 DEF ExceptionOf, Passing
  <2> QED BY <2>3, <2>4, <2>5
<1>12. ASSUME NEW c \in Calls, Rethrow(c) PROVE ExceptionOf(t)'
  <2>1. /\ Ends(c) /\ pc[caller[c]] = "rethrow" /\ Throw(caller[c], held[caller[c]])
        /\ held' = [held EXCEPT ![caller[c]] = None] /\ held[caller[c]] \in {"error", "abort"}
        BY <1>0, <1>12, RethrowEffect, RethrowThrows
  <2>2. /\ caller[c] \in Threads /\ pc'[caller[c]] = "item"
        /\ \A s \in Threads \ {caller[c]} : pc'[s] = pc[s]
        BY <2>1 DEF Ends
  <2>3. PICK e \in {"error", "abort"} : e = held[caller[c]]
        BY <2>1
  <2>4. /\ exc'[caller[c]] = IF exc[caller[c]] = None THEN e ELSE exc[caller[c]]
        /\ \A s \in Threads \ {caller[c]} : exc'[s] = exc[s]
        BY <1>0, <2>1, <2>2, <2>3, ThrowEffect DEF Throwable
  <2>5. CASE t # caller[c]
        BY <1>e, <1>f, <2>1, <2>2, <2>4, <2>5
  <2>6. CASE t = caller[c]
    <3>1. held'[t] = None
          BY <1>f, <2>1, <2>6
    <3>2. exc'[t] # "return"
          BY <1>d, <2>1, <2>4, <2>6
    <3>3. t \in Tasks /\ exc'[t] = "abort" => aborted'[CallOf[t]]
          BY <1>a, <1>c, <2>3, <2>4, <2>6 DEF ExceptionOf
    <3> QED BY <1>b, <2>2, <2>6, <3>1, <3>2, <3>3 DEF ExceptionOf, Passing, Clear
  <2> QED BY <2>5, <2>6
<1>13. ASSUME Interrupt PROVE ExceptionOf(t)'
  <2>1. Throw(Root, "abort") /\ exc[Root] = None /\ UNCHANGED <<pc, held>>
        BY <1>13 DEF Interrupt
  <2>2. exc'[Root] = "abort" /\ \A s \in Threads \ {Root} : exc'[s] = exc[s]
        BY <1>0, <1>a, <2>1, ThrowEffect DEF Throwable
  <2>3. CASE t # Root
        BY <1>e, <2>1, <2>2, <2>3
  <2>4. CASE t = Root
        BY <1>a, <2>1, <2>2, <2>4 DEF ExceptionOf
  <2> QED BY <2>3, <2>4
<1>14. ASSUME UNCHANGED <<pc, exc, held>> PROVE ExceptionOf(t)'
      BY <1>e, <1>14
<1> QED BY <1>0, <1>2, <1>3, <1>4, <1>5, <1>6, <1>7, <1>8, <1>9, <1>10, <1>11, <1>12, <1>13, <1>14, StepCases DEF Step

-----------------------------------------------------------------------------
(* Items and results.                                                      *)

\* An item that a task has taken stays with it until it is done or excused, and a
\* task ends its loop only when there are no items or with an excuse.
LEMMA TaskItem ==
  ASSUME IInv, [Next]_vars, NEW k \in Tasks, Step(k) \/ Throws(k), NEW c \in Calls, c = CallOf[k]
  PROVE  /\ \/ index'[c] = index[c] /\ (idx'[k] = idx[k] \/ (pc'[k] = "over" /\ idx'[k] = 0))
            \/ /\ index'[c] = index[c] + 1 /\ idx'[k] = index[c] + 1
               /\ pc'[k] \in Before \/ (pc'[k] = "free" /\ index[c] >= Items[c])
               /\ pc[k] \in {"idle", "next"}
         /\ pc[k] \in Before =>
              /\ idx'[k] = idx[k]
              /\ pc'[k] \in Before \/ idx[k] \in done'[c] \/ Excused(c)' \/ idx[k] > Items[c]
         /\ pc'[k] \in After => pc[k] \in After \/ index'[c] >= Items[c] \/ Excused(c)'
         /\ pc'[k] \in Before \cup {"ended", "count"} =>
              pc[k] \in Before \cup {"ended"} \/ idx'[k] = index[c] + 1
<1> DEFINE Goal ==
         /\ \/ index'[c] = index[c] /\ (idx'[k] = idx[k] \/ (pc'[k] = "over" /\ idx'[k] = 0))
            \/ /\ index'[c] = index[c] + 1 /\ idx'[k] = index[c] + 1
               /\ pc'[k] \in Before \/ (pc'[k] = "free" /\ index[c] >= Items[c])
               /\ pc[k] \in {"idle", "next"}
         /\ pc[k] \in Before =>
              /\ idx'[k] = idx[k]
              /\ pc'[k] \in Before \/ idx[k] \in done'[c] \/ Excused(c)' \/ idx[k] > Items[c]
         /\ pc'[k] \in After => pc[k] \in After \/ index'[c] >= Items[c] \/ Excused(c)'
         /\ pc'[k] \in Before \cup {"ended", "count"} =>
              pc[k] \in Before \cup {"ended"} \/ idx'[k] = index[c] + 1
<1>0. TypeOK /\ Shape /\ Exceptions /\ ReasonsExact /\ TakenOf(c)
      BY DEF IInv
<1>a. k \in Threads /\ k \in TasksOf(c)
      BY <1>0, Basics DEF TasksOf
<1>b. Live(c) /\ Live(c)' /\ pc[k] \in Own /\ Parent(k) = caller[c] /\ caller[c] \in Threads
  <2>1. pc[k] \in Own
        BY <1>0, TaskStep
  <2>2. Live(c) /\ Parent(k) = caller[c] /\ caller[c] \in Threads
        BY <1>0, <2>1, ParentOf
  <2> QED BY <1>0, <1>a, <2>1, <2>2, LiveStays DEF Own
<1>c. Excused(c) => Excused(c)'
      BY <1>0, <1>b, ExcusedStays
<1>d. Aborting(k) => Excused(c)'
      BY <1>0, <1>b, <1>c, AbortingExcused
<1>e. PICK i \in Nat, n \in Nat, m \in Nat : i = idx[k] /\ n = index[c] /\ m = Items[c]
      BY <1>0, ParallelAssumption DEF TypeOK
<1>f. i <= n
      BY <1>0, <1>a, <1>e DEF TakenOf, TakenBy
<1>1. CASE Take(k)
  <2>1. index'[c] = n + 1 /\ idx'[k] = n + 1 /\ pc[k] = "idle"
           /\ (pc'[k] \in {"test", "item"} \/ (pc'[k] = "free" /\ ~(n < m)))
        BY <1>0, <1>a, <1>1, <1>e DEF Take, Go, TypeOK
  <2>2. ~(n < m) => n >= m /\ n + 1 >= m
        OBVIOUS
  <2> QED BY <1>e, <2>1, <2>2 DEF Before, After
<1>2. CASE NextItem(k)
  <2>1. index'[c] = n + 1 /\ idx'[k] = n + 1 /\ pc[k] = "next" /\ pc'[k] = "test"
        BY <1>0, <1>a, <1>2, <1>e DEF NextItem, Go, TypeOK
  <2> QED BY <1>e, <2>1 DEF Before, After
<1>3. CASE Test(k)
  <2>1. index' = index /\ idx' = idx /\ pc[k] = "test"
           /\ (pc'[k] \in {"item", "clean item"} \/ (pc'[k] = "clean" /\ (i > m \/ Aborting(k))))
        BY <1>0, <1>a, <1>3, <1>e DEF Test, Go, TypeOK, data
  <2>2. i > m => n >= m
        BY <1>f
  <2> QED BY <1>d, <1>e, <2>1, <2>2 DEF Before, After
<1>4. CASE BodyEnds(k)
  <2>1. index' = index /\ idx' = idx /\ pc[k] = "item" /\ pc'[k] = "ended" /\ idx[k] \in done'[c]
        BY <1>0, <1>a, <1>4 DEF BodyEnds, Go, TypeOK
  <2> QED BY <2>1 DEF Before, After
<1>5. CASE BodyStops(k)
  <2>1. index' = index /\ idx' = idx /\ pc[k] = "item" /\ pc'[k] = "ended" /\ Aborting(k)
        BY <1>0, <1>a, <1>5 DEF BodyStops, Go, TypeOK, data
  <2> QED BY <1>d, <2>1 DEF Before, After
<1>6. CASE Ended(k)
  <2>1. index' = index /\ idx' = idx /\ pc[k] = "ended" /\ pc'[k] \in {"throw", "count", "next"}
        BY <1>0, <1>a, <1>6 DEF Ended, Go, TypeOK, data
  <2> QED BY <2>1 DEF Before, After
<1>7. CASE Counted(k)
  <2>1. index' = index /\ idx' = idx /\ pc[k] = "count" /\ pc'[k] \in {"throw", "next"}
        BY <1>0, <1>a, <1>7 DEF Counted, Go, TypeOK
  <2> QED BY <2>1 DEF Before, After
<1>8. CASE ThrowReturn(k)
  <2>1. index' = index /\ idx' = idx /\ pc[k] = "throw" /\ pc'[k] = "clean" /\ Throw(caller[c], "return")
        BY <1>0, <1>a, <1>b, <1>8, ThrowReturnThrows DEF ThrowReturn, data
  <2>2. exc'[caller[c]] # None
        BY <1>0, <1>b, <2>1, ThrowEffect, Basics DEF Throwable
  <2>3. caller[c] \in Chain(caller[c])' /\ caller'[c] = caller[c]
        BY <1>0, <1>b, CallerChain, ChainSelf, StepCallers DEF Live, Active, Begun
  <2>4. Excused(c)'
        BY <2>2, <2>3 DEF Excused
  <2> QED BY <2>1, <2>4 DEF Before, After
<1>9. CASE Clean(k)
  <2>1. index' = index /\ idx' = idx
           /\ \/ pc[k] = "clean item" /\ pc'[k] \in {"item", "pass item"}
              \/ pc[k] = "clean" /\ pc'[k] \in {"free", "pass"}
    <3>1. PICK item \in BOOLEAN :
             Go(k, IF item THEN "clean item" ELSE "clean",
                   IF exc[k] \in {None, "abort"} THEN (IF item THEN "item" ELSE "free")
                   ELSE IF item THEN "pass item" ELSE "pass")
          BY <1>9 DEF Clean
    <3>2. \/ pc[k] = "clean item" /\ pc'[k] \in {"item", "pass item"}
          \/ pc[k] = "clean" /\ pc'[k] \in {"free", "pass"}
          BY <1>0, <1>a, <3>1 DEF Go, TypeOK
    <3> QED BY <1>9, <3>2 DEF Clean, data
  <2> QED BY <2>1 DEF Before, After
<1>10. CASE Pass(k)
  <2>1. index' = index /\ idx' = idx
           /\ \/ pc[k] = "pass item" /\ pc'[k] = "item"
              \/ pc[k] = "pass" /\ pc'[k] = "free"
        BY <1>0, <1>a, <1>10 DEF Pass, Go, TypeOK, data
  <2> QED BY <2>1 DEF Before, After
<1>11. CASE Free(k)
  <2>1. index' = index /\ idx'[k] = 0 /\ pc[k] = "free" /\ pc'[k] = "over"
        BY <1>0, <1>a, <1>11 DEF Free, Go, TypeOK, data
  <2> QED BY <2>1 DEF Before, After
<1>12. CASE Throws(k)
  <2>1. index' = index /\ idx' = idx /\ pc[k] = "item" /\ pc'[k] = "item"
        BY <1>12 DEF Throws, BodyThrows
  <2> QED BY <2>1 DEF Before, After
<1>13. Goal
      BY <1>1, <1>2, <1>3, <1>4, <1>5, <1>6, <1>7, <1>8, <1>9, <1>10, <1>11, <1>12 DEF Step
<1> QED BY <1>13

\* Other steps move tasks from item to item, or from their beginning.
LEMMA OtherMoves ==
  ASSUME TypeOK, Shape, [Next]_vars, ~\E j \in Tasks : Step(j) \/ Throws(j)
  PROVE  /\ UNCHANGED <<index, found, results, done, aborted, idx, outcome, kind, protected>>
         /\ \A k \in Tasks : pc'[k] = pc[k] \/ {pc[k], pc'[k]} \subseteq Before \/ (pc[k] = "none" /\ pc'[k] = "idle")
<1>0. Tasks \subseteq Threads
      BY Basics
<1>1. ASSUME NEW j \in Tasks, NEW c \in Calls \ {Top}, Call(j, c)
      PROVE  /\ UNCHANGED <<index, found, results, done, aborted, idx, outcome, kind, protected>>
             /\ \A k \in Tasks : pc'[k] = pc[k] \/ {pc[k], pc'[k]} \subseteq Before
  <2>1. /\ UNCHANGED <<index, found, results, done, aborted, idx, outcome, kind, protected>>
        /\ pc[j] = "item" /\ pc'[j] = "waiting" /\ \A t \in Threads \ {j} : pc'[t] = pc[t]
        BY <1>1, CallEffect
  <2> QED BY <1>0, <2>1 DEF Before
<1>2. ASSUME NEW c \in Calls, NEW j \in Tasks, NewTask(c, j)
      PROVE  /\ UNCHANGED <<index, found, results, done, aborted, idx, outcome, kind, protected>>
             /\ \A k \in Tasks : pc'[k] = pc[k] \/ (pc[k] = "none" /\ pc'[k] = "idle")
      BY <1>0, <1>2, NewTaskEffect
<1>3. ASSUME NEW c \in Calls, Ends(c) \/ Holds(c)
      PROVE  /\ UNCHANGED <<index, found, results, done, aborted, idx, outcome, kind, protected>>
             /\ \A k \in Tasks : pc'[k] = pc[k] \/ {pc[k], pc'[k]} \subseteq Before
  <2>1. pc[caller[c]] \in Before /\ caller[c] \in Threads
        BY <1>3, CallerIsThread DEF Ends, Holds, Before
  <2>2. pc'[caller[c]] \in Before /\ \A t \in Threads \ {caller[c]} : pc'[t] = pc[t]
        BY <1>3 DEF Ends, Holds, Before
  <2> QED BY <1>0, <1>3, <2>1, <2>2 DEF Ends, Holds
<1>4. ASSUME NEW c \in Calls, ReturnMap(c) \/ CatchReturn(c) \/ Rethrow(c) PROVE Ends(c) \/ Holds(c)
      BY <1>4, ReturnMapEffect, CatchReturnEffect, RethrowEffect
<1> QED BY <1>1, <1>2, <1>3, <1>4, StepCases

LEMMA TakenSame ==
  ASSUME IInv, [Next]_vars, NEW k \in Tasks, idx'[k] = idx[k], outcome'[k] = outcome[k],
         pc'[k] = pc[k] \/ {pc[k], pc'[k]} \subseteq Before \/ (pc[k] = "none" /\ pc'[k] = "idle")
  PROVE  TakenBy(k)'
<1> DEFINE c == CallOf[k]
<1>0. TypeOK /\ Shape /\ Exceptions /\ ReasonsExact /\ c \in Calls /\ k \in TasksOf(c) /\ TakenBy(k)
  <2>1. TypeOK /\ Shape /\ Exceptions /\ ReasonsExact /\ \A d \in Calls : TakenOf(d)
        BY DEF IInv
  <2>2. c \in Calls /\ k \in TasksOf(c)
        BY <2>1, Basics DEF TasksOf
  <2> QED BY <2>1, <2>2 DEF TakenOf
<1>1. done[c] \subseteq done'[c] /\ found'[c] >= found[c] /\ index'[c] >= index[c] /\ kind' = kind
      BY <1>0, StepGrows
<1>2. PICK i \in Nat, n \in Nat, f \in Nat, m \in Nat : i = idx[k] /\ n = index[c] /\ f = found[c] /\ m = Count[c]
      BY <1>0, Types
<1>3. ReasonsExact' /\ TypeOK'
      BY StepTypeOK
<1>4. PICK n1 \in Nat, f1 \in Nat : n1 = index'[c] /\ f1 = found'[c]
      BY <1>0, StepTypes
<1>5. idx'[k] <= index'[c]
  <2>1. i <= n /\ n1 >= n
        BY <1>0, <1>1, <1>2, <1>4 DEF TakenBy
  <2>2. i <= n1
        BY <2>1
  <2> QED BY <1>2, <1>4, <2>2
<1>6. pc'[k] \in Before \cup {"ended", "count"} => pc[k] \in Before \cup {"ended", "count"}
      BY DEF Before
<1>7. pc'[k] \in {"count", "ended", "throw"} => pc'[k] = pc[k]
      BY DEF Before
<1>8. pc[k] = "ended" /\ Aborting(k) => Aborting(k)'
      BY <1>0, <1>3, AbortingStays DEF Own
<1>9. found[c] >= Count[c] => found'[c] >= Count[c]
  <2>1. f >= m => f1 >= m
        BY <1>1, <1>2, <1>4
  <2> QED BY <1>2, <1>4, <2>1
<1>10. pc'[k] = "ended" => idx'[k] \in done'[c] \/ (outcome'[k] = "cut" /\ Aborting(k)')
      BY <1>0, <1>1, <1>7, <1>8 DEF TakenBy
<1>11. pc'[k] = "throw" => kind'[c] # "map" /\ (kind'[c] = "try" => found'[c] >= Count[c])
      BY <1>0, <1>1, <1>7, <1>9 DEF TakenBy
<1>12. pc'[k] = "count" => kind'[c] = "try" /\ idx'[k] \in done'[c]
      BY <1>0, <1>1, <1>7 DEF TakenBy
<1>13. pc'[k] \in Before \cup {"ended", "count"} => idx'[k] # 0
      BY <1>0, <1>6 DEF TakenBy
<1> QED BY <1>5, <1>10, <1>11, <1>12, <1>13 DEF TakenBy

LEMMA TakenStep ==
  ASSUME IInv, [Next]_vars, NEW k \in Tasks, Step(k) \/ Throws(k)
  PROVE  TakenBy(k)'
<1> DEFINE c == CallOf[k]
<1>0. TypeOK /\ Shape /\ Exceptions /\ ReasonsExact /\ c \in Calls /\ k \in TasksOf(c) /\ TakenBy(k) /\ k \in Threads
  <2>1. TypeOK /\ Shape /\ Exceptions /\ ReasonsExact /\ \A d \in Calls : TakenOf(d)
        BY DEF IInv
  <2>2. c \in Calls /\ k \in TasksOf(c) /\ k \in Threads
        BY <2>1, Basics DEF TasksOf
  <2> QED BY <2>1, <2>2 DEF TakenOf
<1> HIDE DEF c
<1>1. done[c] \subseteq done'[c] /\ found'[c] >= found[c] /\ kind' = kind /\ pc[k] \in Own
      BY <1>0, StepGrows, TaskStep
<1>2. PICK i \in Nat, n \in Nat : i = idx[k] /\ n = index[c]
      BY <1>0 DEF TypeOK
<1>3. ReasonsExact' /\ TypeOK'
      BY StepTypeOK
<1>4. i <= n /\ (pc[k] \in Before \cup {"ended", "count"} => i # 0)
      BY <1>0, <1>2 DEF TakenBy, c
<1>5. /\ \/ index'[c] = index[c] /\ (idx'[k] = idx[k] \/ (pc'[k] = "over" /\ idx'[k] = 0))
         \/ /\ index'[c] = index[c] + 1 /\ idx'[k] = index[c] + 1
            /\ pc[k] \in {"idle", "next"}
      /\ pc[k] \in Before => idx'[k] = idx[k]
      /\ pc'[k] \in Before \cup {"ended", "count"} => pc[k] \in Before \cup {"ended"} \/ idx'[k] = index[c] + 1
      BY <1>0, TaskItem DEF c
<1>6. idx'[k] <= index'[c]
  <2>1. i <= n /\ 0 <= n /\ n + 1 <= n + 1
        BY <1>4
  <2> QED BY <1>2, <1>5, <2>1
<1>7. pc'[k] \in Before \cup {"ended", "count"} => idx'[k] # 0
  <2>1. n + 1 # 0
        OBVIOUS
  <2>2. pc'[k] \in Before \cup {"ended", "count"} => pc'[k] # "over"
        BY DEF Before
  <2> QED BY <1>2, <1>4, <1>5, <2>1, <2>2
<1>8. pc'[k] = "count" => kind'[c] = "try" /\ idx'[k] \in done'[c]
  <2> SUFFICES ASSUME pc'[k] = "count" PROVE kind'[c] = "try" /\ idx'[k] \in done'[c]
      OBVIOUS
  <2>1. Ended(k)
    <3>1. ~Throws(k)
          BY <1>0 DEF Throws, BodyThrows
    <3>2. ~Take(k)
          BY <1>0, Types DEF Take, Go
    <3>3. ~Test(k)
          BY <1>0, Types DEF Test, Go
    <3>4. ~BodyEnds(k)
          BY <1>0, Types DEF BodyEnds, Go
    <3>5. ~BodyStops(k)
          BY <1>0, Types DEF BodyStops, Go
    <3>6. ~Counted(k)
          BY <1>0, Types DEF Counted, Go
    <3>7. ~NextItem(k)
          BY <1>0, Types DEF NextItem, Go
    <3>8. ~ThrowReturn(k)
          BY <1>0, Types DEF ThrowReturn, Go
    <3>9. ~Clean(k)
          BY <1>0, Types DEF Clean, Go
    <3>10. ~Pass(k)
          BY <1>0, Types DEF Pass, Go
    <3>11. ~Free(k)
          BY <1>0, Types DEF Free, Go
    <3> QED BY <1>0, <3>1, <3>2, <3>3, <3>4, <3>5, <3>6, <3>7, <3>8, <3>9, <3>10,
             <3>11 DEF Step
  <2>2. pc[k] = "ended" /\ kind[c] = "try" /\ ~Aborting(k) /\ UNCHANGED <<idx, done>>
        BY <1>0, <2>1 DEF Ended, Go, TypeOK, data, c
  <2> QED BY <1>0, <1>1, <2>2 DEF TakenBy, c
<1>9. pc'[k] = "ended" => idx'[k] \in done'[c] \/ (outcome'[k] = "cut" /\ Aborting(k)')
  <2> SUFFICES ASSUME pc'[k] = "ended" PROVE idx'[k] \in done'[c] \/ (outcome'[k] = "cut" /\ Aborting(k)')
      OBVIOUS
  <2>1. BodyEnds(k) \/ BodyStops(k)
    <3>1. ~Throws(k)
          BY <1>0 DEF Throws, BodyThrows
    <3>2. ~Take(k)
          BY <1>0, Types DEF Take, Go
    <3>3. ~Test(k)
          BY <1>0, Types DEF Test, Go
    <3>4. ~Ended(k)
          BY <1>0, Types DEF Ended, Go
    <3>5. ~Counted(k)
          BY <1>0, Types DEF Counted, Go
    <3>6. ~NextItem(k)
          BY <1>0, Types DEF NextItem, Go
    <3>7. ~ThrowReturn(k)
          BY <1>0, Types DEF ThrowReturn, Go
    <3>8. ~Clean(k)
          BY <1>0, Types DEF Clean, Go
    <3>9. ~Pass(k)
          BY <1>0, Types DEF Pass, Go
    <3>10. ~Free(k)
          BY <1>0, Types DEF Free, Go
    <3> QED BY <1>0, <3>1, <3>2, <3>3, <3>4, <3>5, <3>6, <3>7, <3>8, <3>9, <3>10 DEF Step
  <2>2. CASE BodyEnds(k)
        BY <1>0, <2>2 DEF BodyEnds, TypeOK, c
  <2>3. CASE BodyStops(k)
    <3>1. pc[k] = "item" /\ Aborting(k) /\ outcome'[k] = "cut"
          BY <1>0, <2>3 DEF BodyStops, Go, TypeOK
    <3>2. Aborting(k)'
          BY <1>0, <1>3, <3>1, AbortingStays DEF Own
    <3> QED BY <3>1, <3>2
  <2> QED BY <2>1, <2>2, <2>3
<1>10. pc'[k] = "throw" => kind'[c] # "map" /\ (kind'[c] = "try" => found'[c] >= Count[c])
  <2> SUFFICES ASSUME pc'[k] = "throw" PROVE kind'[c] # "map" /\ (kind'[c] = "try" => found'[c] >= Count[c])
      OBVIOUS
  <2>1. Ended(k) \/ Counted(k)
    <3>1. ~Throws(k)
          BY <1>0 DEF Throws, BodyThrows
    <3>2. ~Take(k)
          BY <1>0, Types DEF Take, Go
    <3>3. ~Test(k)
          BY <1>0, Types DEF Test, Go
    <3>4. ~BodyEnds(k)
          BY <1>0, Types DEF BodyEnds, Go
    <3>5. ~BodyStops(k)
          BY <1>0, Types DEF BodyStops, Go
    <3>6. ~NextItem(k)
          BY <1>0, Types DEF NextItem, Go
    <3>7. ~ThrowReturn(k)
          BY <1>0, Types DEF ThrowReturn, Go
    <3>8. ~Clean(k)
          BY <1>0, Types DEF Clean, Go
    <3>9. ~Pass(k)
          BY <1>0, Types DEF Pass, Go
    <3>10. ~Free(k)
          BY <1>0, Types DEF Free, Go
    <3> QED BY <1>0, <3>1, <3>2, <3>3, <3>4, <3>5, <3>6, <3>7, <3>8, <3>9, <3>10 DEF Step
  <2>2. CASE Ended(k)
    <3>1. kind[c] = "scan"
          BY <1>0, <2>2 DEF Ended, Go, TypeOK, c
    <3> QED BY <1>1, <3>1
  <2>3. CASE Counted(k)
    <3>1. PICK f \in Nat, m \in Nat : f = found[c] /\ m = Count[c]
          BY <1>0, ParallelAssumption DEF TypeOK
    <3>2. f >= m /\ pc[k] = "count" /\ found'[c] = f + 1
          BY <1>0, <2>3, <3>1 DEF Counted, Go, TypeOK, c
    <3>3. f + 1 >= m
          BY <3>2
    <3>4. kind[c] = "try"
          BY <1>0, <3>2 DEF TakenBy, c
    <3> QED BY <1>1, <3>1, <3>2, <3>3, <3>4
  <2> QED BY <2>1, <2>2, <2>3
<1> QED BY <1>6, <1>7, <1>8, <1>9, <1>10 DEF TakenBy, c

LEMMA StepTaken == IInv /\ [Next]_vars => \A c \in Calls : TakenOf(c)'
<1> SUFFICES ASSUME IInv, [Next]_vars, NEW c \in Calls PROVE TakenOf(c)'
    OBVIOUS
<1>0. TypeOK /\ Shape /\ TakenOf(c) /\ \A k \in TasksOf(c) : k \in Tasks /\ CallOf[k] = c
      BY DEF IInv, TasksOf
<1>1. ASSUME NEW k \in TasksOf(c) PROVE TakenBy(k)'
  <2>1. CASE Step(k) \/ Throws(k)
        BY <1>0, <2>1, TakenStep
  <2>2. CASE \E j \in Tasks \ {k} : Step(j) \/ Throws(j)
    <3>1. PICK j \in Tasks \ {k} : Step(j) \/ Throws(j)
          BY <2>2
    <3>2. k \in Threads \ {j} /\ k \in Tasks \ {j}
          BY <1>0, Basics
    <3>3. idx'[k] = idx[k] /\ outcome'[k] = outcome[k] /\ pc'[k] = pc[k]
          BY <1>0, <3>1, <3>2, TaskStep
    <3> QED BY <3>2, <3>3, TakenSame
  <2>3. CASE ~\E j \in Tasks : Step(j) \/ Throws(j)
    <3>1. idx' = idx /\ outcome' = outcome
             /\ (pc'[k] = pc[k] \/ {pc[k], pc'[k]} \subseteq Before \/ (pc[k] = "none" /\ pc'[k] = "idle"))
          BY <1>0, <2>3, OtherMoves
    <3> QED BY <1>0, <3>1, TakenSame
  <2> QED BY <1>0, <2>1, <2>2, <2>3
<1>2. ASSUME NEW j \in TasksOf(c), NEW k \in TasksOf(c), idx'[j] = idx'[k], j # k PROVE idx'[j] = 0
  <2>0. idx[j] = idx[k] => idx[j] = 0
        BY <1>0, <1>2 DEF TakenOf
  <2>1. ASSUME NEW s \in Tasks, Step(s) \/ Throws(s), NEW o \in TasksOf(c), o # s, s \in TasksOf(c),
               idx'[o] = idx'[s], idx[o] = idx[s] => idx[o] = 0
        PROVE  idx'[o] = 0
    <3>1. idx'[o] = idx[o]
          BY <1>0, <2>1, TaskStep
    <3>2. idx'[s] = idx[s] \/ idx'[s] = 0 \/ idx'[s] = index[c] + 1
          BY <1>0, <2>1, TaskItem
    <3>3. PICK i \in Nat, n \in Nat : i = idx[o] /\ n = index[c] /\ i <= n
      <4>1. idx[o] <= index[c]
            BY <1>0, <2>1 DEF TakenOf, TakenBy
      <4>2. idx[o] \in Nat /\ index[c] \in Nat
            BY <1>0, <2>1 DEF TypeOK
      <4> QED BY <4>1, <4>2
    <3>4. i # n + 1
          BY <3>3
    <3> QED BY <2>1, <3>1, <3>2, <3>3, <3>4
  <2>2. ASSUME idx'[j] = idx[j], idx'[k] = idx[k] PROVE idx'[j] = 0
        BY <1>2, <2>0, <2>2
  <2>3. CASE Step(j) \/ Throws(j)
    <3>1. idx[k] = idx[j] => idx[k] = 0
          BY <2>0
    <3>2. idx'[k] = 0
          BY <1>0, <1>2, <2>1, <2>3, <3>1
    <3> QED BY <1>2, <3>2
  <2>4. CASE Step(k) \/ Throws(k)
        BY <1>0, <1>2, <2>0, <2>1, <2>4
  <2>5. CASE \E s \in Tasks \ {j, k} : Step(s) \/ Throws(s)
        BY <1>0, <2>2, <2>5, TaskStep
  <2>6. CASE ~\E s \in Tasks : Step(s) \/ Throws(s)
        BY <1>0, <2>2, <2>6, OtherMoves
  <2> QED BY <1>0, <2>3, <2>4, <2>5, <2>6
<1> QED BY <1>1, <1>2 DEF TakenOf

\* A step that stores no result.
LEMMA ResultsSame ==
  ASSUME IInv, [Next]_vars, NEW c \in Calls, results'[c] = results[c], found'[c] = found[c],
         \A k \in TasksOf(c) : pc'[k] \in Before \cup {"ended", "count"} =>
           \/ pc[k] \in Before \cup {"ended", "count"} /\ idx'[k] = idx[k]
           \/ idx'[k] = index[c] + 1
  PROVE  ResultsOf(c)'
<1>0. TypeOK /\ Shape /\ ResultsOf(c)
      BY DEF IInv
<1>1. done[c] \subseteq done'[c] /\ index'[c] >= index[c]
      BY <1>0, StepGrows
<1>2. TypeOK'
      BY StepTypeOK
<1>3. PICK r \in Seq(Nat), n \in Nat, n1 \in Nat : r = results[c] /\ n = index[c] /\ n1 = index'[c]
  <2>1. results[c] \in Seq(Nat)
        BY <1>0 DEF TypeOK
  <2> QED BY <1>0, <2>1, Types, StepTypes
<1>4. \A m \in DOMAIN r : r[m] \in done[c] /\ r[m] <= n /\ r[m] \in Nat
      BY <1>0, <1>3 DEF ResultsOf
<1>5. \A m \in DOMAIN r : r[m] \in done'[c] /\ r[m] <= n1 /\ r[m] # n + 1
  <2>1. \A i \in Nat : i <= n => i <= n1 /\ i # n + 1
        BY <1>1, <1>3
  <2> QED BY <1>1, <1>4, <2>1
<1>6. ASSUME NEW k \in TasksOf(c), pc'[k] \in Before \cup {"ended", "count"}, NEW m \in DOMAIN r
      PROVE  r[m] # idx'[k]
  <2>1. CASE pc[k] \in Before \cup {"ended", "count"} /\ idx'[k] = idx[k]
        BY <1>0, <1>3, <2>1 DEF ResultsOf
  <2>2. CASE idx'[k] = index[c] + 1
        BY <1>3, <1>5, <2>2
  <2> QED BY <1>6, <2>1, <2>2
<1> QED BY <1>0, <1>3, <1>5, <1>6 DEF ResultsOf

\* parallel_try stores the result of an item, if it needs one more.
LEMMA ResultsCounted ==
  ASSUME IInv, [Next]_vars, NEW k \in Tasks, Counted(k), NEW c \in Calls, c = CallOf[k]
  PROVE  ResultsOf(c)'
<1>0. TypeOK /\ Shape /\ ResultsOf(c) /\ TakenOf(c) /\ k \in TasksOf(c) /\ TakenBy(k)
      BY DEF IInv, TasksOf, TakenOf
<1>1. /\ pc[k] = "count" /\ pc'[k] \in {"throw", "next"} /\ index' = index /\ idx' = idx /\ done' = done
      /\ \A j \in TasksOf(c) \ {k} : pc'[j] = pc[j]
      BY <1>0, Basics DEF Counted, Go, TypeOK, TasksOf
<1>2. PICK r \in Seq(Nat), f \in Nat, m \in Nat, i \in Nat, n \in Nat :
         r = results[c] /\ f = found[c] /\ m = Count[c] /\ i = idx[k] /\ n = index[c]
      BY <1>0, ParallelAssumption DEF TypeOK
<1>3. found'[c] = f + 1 /\ results'[c] = IF f >= m THEN r ELSE Append(r, i)
      BY <1>0, <1>2 DEF Counted, TypeOK
<1>4. /\ Len(r) = IF f < m THEN f ELSE m
      /\ \A p, q \in DOMAIN r : r[p] = r[q] => p = q
      /\ \A p \in DOMAIN r : r[p] \in done[c] /\ r[p] <= n /\ r[p] # i
      BY <1>0, <1>1, <1>2 DEF ResultsOf
<1>5. i \in done[c] /\ i <= n /\ i # 0
      BY <1>0, <1>1, <1>2 DEF TakenBy
<1>6. \A j \in TasksOf(c) : pc'[j] \in Before \cup {"ended", "count"} =>
         idx[j] # i /\ \A p \in DOMAIN r : r[p] # idx[j]
  <2>1. ASSUME NEW j \in TasksOf(c), pc'[j] \in Before \cup {"ended", "count"}
        PROVE  idx[j] # i /\ \A p \in DOMAIN r : r[p] # idx[j]
    <3>1. j # k
          BY <1>1, <2>1 DEF Before
    <3>2. pc[j] \in Before \cup {"ended", "count"}
          BY <1>1, <2>1, <3>1
    <3>3. idx[j] # i
          BY <1>0, <1>2, <1>5, <3>1 DEF TakenOf
    <3> QED BY <1>0, <1>2, <3>2, <3>3 DEF ResultsOf
  <2> QED BY <2>1
<1>7. CASE f >= m
  <2>1. Len(r) = (IF f + 1 < m THEN f + 1 ELSE m) /\ results'[c] = r
        BY <1>3, <1>4, <1>7
  <2> QED BY <1>1, <1>2, <1>3, <1>4, <1>6, <2>1 DEF ResultsOf
<1>8. CASE ~(f >= m)
  <2> DEFINE s == Append(r, i)
  <2>1. results'[c] = s /\ Len(s) = f + 1 /\ DOMAIN s = 1..(f + 1) /\ DOMAIN r = 1..f /\ Len(r) = f
        BY <1>3, <1>4, <1>8
  <2>2. s[f + 1] = i /\ \A p \in 1..f : s[p] = r[p]
        BY <2>1
  <2>3. \A p \in DOMAIN s : p \in 1..f \/ p = f + 1
        BY <2>1
  <2> HIDE DEF s
  <2>4. Len(s) = IF f + 1 < m THEN f + 1 ELSE m
    <3>1. f + 1 = m \/ f + 1 < m
          BY <1>8
    <3> QED BY <2>1, <3>1
  <2>5. \A p, q \in DOMAIN s : s[p] = s[q] => p = q
        BY <1>4, <2>1, <2>2, <2>3
  <2>6. \A p \in DOMAIN s : s[p] \in done[c] /\ s[p] <= n
        BY <1>4, <1>5, <2>1, <2>2, <2>3
  <2>7. \A j \in TasksOf(c) : pc'[j] \in Before \cup {"ended", "count"} => \A p \in DOMAIN s : s[p] # idx[j]
        BY <1>6, <2>1, <2>2, <2>3
  <2>8. \A j \in TasksOf(c) : idx'[j] = idx[j]
        BY <1>1
  <2>9. Len(s) = IF found'[c] < Count[c] THEN found'[c] ELSE Count[c]
        BY <1>2, <1>3, <2>4
  <2>10. \A p \in DOMAIN s : s[p] \in done'[c] /\ s[p] <= index'[c]
        BY <1>1, <1>2, <2>6
  <2>11. \A j \in TasksOf(c) : pc'[j] \in Before \cup {"ended", "count"} => \A p \in DOMAIN s : s[p] # idx'[j]
        BY <2>7, <2>8
  <2>12. s = results'[c]
        BY <2>1
  <2> QED BY <2>5, <2>9, <2>10, <2>11, <2>12 DEF ResultsOf
<1> QED BY <1>7, <1>8

LEMMA StepResults == IInv /\ [Next]_vars => \A c \in Calls : ResultsOf(c)'
<1> SUFFICES ASSUME IInv, [Next]_vars, NEW c \in Calls PROVE ResultsOf(c)'
    OBVIOUS
<1>0. TypeOK /\ Shape /\ \A k \in TasksOf(c) : k \in Tasks /\ k \in Threads /\ CallOf[k] = c
  <2>1. TypeOK /\ Shape
        BY DEF IInv
  <2> QED BY <2>1, Basics DEF TasksOf
<1>1. CASE ~\E k \in Tasks : Step(k) \/ Throws(k)
  <2>1. UNCHANGED <<found, results, idx>>
           /\ \A k \in Tasks : pc'[k] = pc[k] \/ {pc[k], pc'[k]} \subseteq Before \/ (pc[k] = "none" /\ pc'[k] = "idle")
        BY <1>0, <1>1, OtherMoves
  <2>2. \A k \in TasksOf(c) : pc'[k] \in Before \cup {"ended", "count"} => pc[k] \in Before \cup {"ended", "count"}
        BY <1>0, <2>1 DEF Before
  <2> QED BY <2>1, <2>2, ResultsSame
<1>2. ASSUME NEW k \in Tasks, Step(k) \/ Throws(k), CallOf[k] # c PROVE ResultsOf(c)'
  <2>1. results'[c] = results[c] /\ found'[c] = found[c] /\ \A j \in TasksOf(c) : pc'[j] = pc[j] /\ idx'[j] = idx[j]
        BY <1>0, <1>2, TaskStep
  <2> QED BY <2>1, ResultsSame
<1>3. ASSUME NEW k \in Tasks, Step(k) \/ Throws(k), CallOf[k] = c PROVE ResultsOf(c)'
  <2>1. CASE Counted(k)
        BY <1>3, <2>1, ResultsCounted
  <2>2. CASE ~Counted(k)
    <3>1. results' = results /\ found' = found
          BY <1>3, <2>2 DEF Step, Throws, BodyThrows, Take, Test, BodyEnds, BodyStops, Ended, NextItem,
                            ThrowReturn, Clean, Pass, Free, data
    <3>2. pc'[k] \in Before \cup {"ended", "count"} =>
             \/ pc[k] \in Before \cup {"ended", "count"} /\ idx'[k] = idx[k]
             \/ idx'[k] = index[c] + 1
          BY <1>3, TaskItem DEF Before
    <3>3. \A j \in TasksOf(c) \ {k} : pc'[j] = pc[j] /\ idx'[j] = idx[j]
          BY <1>0, <1>3, TaskStep
    <3> QED BY <3>1, <3>2, <3>3, ResultsSame
  <2> QED BY <2>1, <2>2
<1> QED BY <1>1, <1>2, <1>3

-----------------------------------------------------------------------------
(* What a call has not done.                                               *)

\* parallel_try throws Internal`ParallelReturn into a caller only when it has all
\* results.
LEMMA ReturnDue ==
  ASSUME IInv, [Next]_vars, NEW c \in Calls, Live(c), kind[c] = "try", exc'[caller[c]] = "return"
  PROVE  found'[c] >= Count[c]
<1>0. TypeOK /\ Shape /\ Exceptions /\ ReasonsExact /\ DueOf(c) /\ \A d \in Calls : TakenOf(d)
      BY DEF IInv
<1>1. found[c] >= Count[c] => found'[c] >= Count[c]
  <2>1. PICK f \in Nat, f1 \in Nat, m \in Nat : f = found[c] /\ f1 = found'[c] /\ m = Count[c]
        BY <1>0, Types, StepTypes
  <2>2. f1 >= f
        BY <1>0, <2>1, StepGrows
  <2>3. f >= m => f1 >= m
        BY <2>2
  <2> QED BY <2>1, <2>3
<1>2. CASE exc[caller[c]] = "return"
      BY <1>0, <1>1, <1>2 DEF DueOf
<1>3. CASE exc[caller[c]] # "return"
  <2>0. caller[c] \in Threads /\ pc[caller[c]] = "waiting" /\ Active(c)
        BY <1>0, CallerIsThread DEF Live
  <2>1. ASSUME NEW t \in Threads, NEW e \in {"error", "abort"}, Throw(t, e) PROVE FALSE
        BY <1>0, <1>3, <2>0, <2>1, ThrowEffect DEF Throwable
  <2>2. ASSUME NEW t \in Threads, Catch(t) PROVE FALSE
        BY <1>0, <1>3, <2>0, <2>2, CatchEffect, Basics
  <2>3. Root \in Threads /\ Tasks \subseteq Threads
        BY <1>0, Basics
  <2>4. exc' # exc
        BY <1>3
  <2>5. ASSUME NEW k \in Tasks, Throws(k) PROVE FALSE
    <3>1. PICK e \in {"error", "abort"} : BodyThrows(k, e)
          BY <2>5 DEF Throws
    <3> QED BY <2>1, <2>3, <3>1 DEF BodyThrows
  <2>6. ASSUME NEW k \in Tasks, Step(k) PROVE ThrowReturn(k)
    <3>1. ~Pass(k)
          BY <1>0, <2>1, PassThrows
    <3>2. ~Clean(k) /\ ~Free(k)
          BY <2>2, <2>3 DEF Clean, Free
    <3>3. CASE \/ Take(k) \/ Test(k) \/ BodyEnds(k) \/ BodyStops(k) \/ Ended(k) \/ Counted(k) \/ NextItem(k)
          BY <2>4, <3>3 DEF Take, Test, BodyEnds, BodyStops, Ended, Counted, NextItem, excvars
    <3> QED BY <2>6, <3>1, <3>2, <3>3 DEF Step
  <2>7. ASSUME NEW k \in Tasks, ThrowReturn(k) PROVE found'[c] >= Count[c]
    <3>1. /\ Parent(k) = caller[CallOf[k]] /\ Parent(k) \in Threads /\ Live(CallOf[k])
          /\ Throw(Parent(k), "return") /\ pc[k] = "throw"
          BY <1>0, <2>7, ThrowReturnThrows
    <3>2. Parent(k) = caller[c]
          BY <1>0, <1>3, <2>0, <3>1, ThrowEffect DEF Throwable
    <3>3. CallOf[k] \in Calls /\ k \in TasksOf(CallOf[k])
          BY <1>0, Basics DEF TasksOf
    <3>4. CallOf[k] = c
          BY <1>0, <2>0, <3>1, <3>2, <3>3 DEF Shape, ShapeOf, Live
    <3>5. found[c] >= Count[c]
          BY <1>0, <3>1, <3>3, <3>4 DEF TakenOf, TakenBy
    <3> QED BY <1>1, <3>5
  <2>8. ASSUME NEW d \in Calls, CatchReturn(d) PROVE FALSE
        BY <1>0, <2>2, <2>8, CatchReturnEffect
  <2>9. ASSUME NEW d \in Calls, Rethrow(d) PROVE FALSE
    <3>1. caller[d] \in Threads /\ Throw(caller[d], held[caller[d]]) /\ held[caller[d]] \in {"error", "abort"}
          BY <1>0, <2>9, RethrowEffect, RethrowThrows DEF Ends
    <3> QED BY <2>1, <3>1
  <2>10. ~Interrupt
        BY <2>1, <2>3 DEF Interrupt
  <2>11. ASSUME NEW k \in Tasks, NEW d \in Calls \ {Top}, Call(k, d) PROVE FALSE
        BY <1>0, <2>4, <2>11, CallEffect
  <2>12. ASSUME NEW k \in Tasks, NEW d \in Calls, NewTask(d, k) PROVE FALSE
        BY <1>0, <2>4, <2>12, NewTaskEffect
  <2>13. ASSUME NEW d \in Calls, ReturnMap(d) PROVE FALSE
        BY <1>0, <2>4, <2>13, ReturnMapEffect
  <2> QED BY <1>0, <2>4, <2>5, <2>6, <2>7, <2>8, <2>9, <2>10, <2>11, <2>12, <2>13, StepCases
<1> QED BY <1>2, <1>3

\* What is left is still under way, or excused.
LEMMA DueStays ==
  ASSUME IInv, [Next]_vars, NEW c \in Calls, Live(c), Live(c)',
         index'[c] = index[c] \/ index'[c] = index[c] + 1,
         index'[c] = index[c] + 1 =>
           \/ \E k \in TasksOf(c) : idx'[k] = index[c] + 1 /\ pc'[k] \in Before
           \/ index[c] >= Items[c],
         \A k \in TasksOf(c) : pc[k] \in Before =>
           /\ idx'[k] = idx[k]
           /\ pc'[k] \in Before \/ idx[k] \in done'[c] \/ Excused(c)' \/ idx[k] > Items[c],
         \A k \in TasksOf(c) : pc'[k] \in After => pc[k] \in After \/ index'[c] >= Items[c] \/ Excused(c)'
  PROVE  DueOf(c)'
<1>0. TypeOK /\ Shape /\ Exceptions /\ ReasonsExact /\ DueOf(c) /\ caller'[c] = caller[c]
  <2>1. TypeOK /\ Shape /\ Exceptions /\ ReasonsExact /\ DueOf(c)
        BY DEF IInv
  <2> QED BY <2>1, StepCallers DEF Live, Active, Begun
<1>1. done[c] \subseteq done'[c] /\ kind' = kind
      BY <1>0, StepGrows
<1>2. Excused(c) => Excused(c)'
      BY <1>0, ExcusedStays
<1>3. PICK n \in Nat, n1 \in Nat, m \in Nat : n = index[c] /\ n1 = index'[c] /\ m = Items[c]
      BY <1>0, Types, StepTypes
<1>4. ASSUME NEW i \in 1..m
      PROVE  \/ i > n1
             \/ i \in done'[c]
             \/ Excused(c)'
             \/ \E k \in TasksOf(c) : idx'[k] = i /\ pc'[k] \in Before
  <2>0. i \in Nat /\ i <= m
        OBVIOUS
  <2>1. CASE i > n
    <3> SUFFICES ASSUME ~(i > n1) PROVE \E k \in TasksOf(c) : idx'[k] = i /\ pc'[k] \in Before
        OBVIOUS
    <3>1. n1 = n + 1 /\ i = n + 1 /\ ~(n >= m)
          BY <1>3, <2>0, <2>1
    <3> QED BY <1>3, <3>1
  <2>2. CASE i \in done[c] \/ Excused(c)
        BY <1>1, <1>2, <2>2
  <2>3. CASE \E k \in TasksOf(c) : idx[k] = i /\ pc[k] \in Before
    <3>1. PICK k \in TasksOf(c) : idx[k] = i /\ pc[k] \in Before
          BY <2>3
    <3>2. ~(i > m)
          BY <2>0
    <3> QED BY <1>3, <3>1, <3>2
  <2> QED BY <1>0, <1>3, <2>1, <2>2, <2>3 DEF DueOf
<1>5. ASSUME NEW k \in TasksOf(c), pc'[k] \in After PROVE index'[c] >= Items[c] \/ Excused(c)'
  <2>1. n >= m => n1 >= m
        BY <1>3
  <2> QED BY <1>0, <1>2, <1>3, <1>5, <2>1 DEF DueOf
<1>6. kind[c] = "try" /\ exc'[caller[c]] = "return" => found'[c] >= Count[c]
      BY ReturnDue
<1> QED BY <1>0, <1>1, <1>3, <1>4, <1>5, <1>6 DEF DueOf

LEMMA StepDue == IInv /\ [Next]_vars => \A c \in Calls : DueOf(c)'
<1> SUFFICES ASSUME IInv, [Next]_vars, NEW c \in Calls, Live(c)' PROVE DueOf(c)'
    BY DEF DueOf
<1>0. TypeOK /\ Shape /\ Exceptions /\ \A k \in TasksOf(c) : k \in Tasks /\ k \in Threads /\ CallOf[k] = c
  <2>1. TypeOK /\ Shape /\ Exceptions
        BY DEF IInv
  <2> QED BY <2>1, Basics DEF TasksOf
<1>a. index[c] # index[c] + 1
  <2>1. index[c] \in Nat
        BY <1>0 DEF TypeOK
  <2> QED BY <2>1
\* A call that begins has taken no item.
<1>1. ASSUME NEW k \in Tasks, c # Top, Call(k, c) PROVE DueOf(c)'
  <2>1. /\ stage[c] = "none" /\ caller'[c] = k /\ pc[k] = "item" /\ (\A t \in Threads \ {k} : pc'[t] = pc[t])
        /\ CallOf[k] # c /\ k \in Threads /\ UNCHANGED <<index, exc>>
        BY <1>0, <1>1, CallEffect
  <2>2. index'[c] = 0 /\ \A j \in TasksOf(c) : pc'[j] = "none"
        BY <1>0, <2>1 DEF Shape, ShapeOf
  <2>3. exc'[caller'[c]] # "return"
        BY <1>0, <2>1, NoReturn
  <2>4. \A i \in 1..Items[c] : i > index'[c]
    <3>1. Items[c] \in Nat
          BY ParallelAssumption
    <3> QED BY <2>2, <3>1
  <2>5. \A j \in TasksOf(c) : pc'[j] \notin After
        BY <2>2 DEF After
  <2> QED BY <2>3, <2>4, <2>5 DEF DueOf
<1>2. CASE Live(c)
  <2>1. CASE ~\E k \in Tasks : Step(k) \/ Throws(k)
    <3>1. UNCHANGED <<index, idx>>
             /\ \A k \in Tasks : pc'[k] = pc[k] \/ {pc[k], pc'[k]} \subseteq Before \/ (pc[k] = "none" /\ pc'[k] = "idle")
          BY <1>0, <2>1, OtherMoves
    <3>2. \A k \in TasksOf(c) : (pc[k] \in Before => pc'[k] \in Before) /\ (pc'[k] \in After => pc[k] \in After)
          BY <1>0, <3>1 DEF Before, After
    <3>3. index[c] # index[c] + 1
          BY <1>a
    <3> QED BY <1>2, <3>1, <3>2, <3>3, DueStays
  <2>2. ASSUME NEW k \in Tasks, Step(k) \/ Throws(k), CallOf[k] # c PROVE DueOf(c)'
    <3>1. index'[c] = index[c] /\ \A j \in TasksOf(c) : pc'[j] = pc[j] /\ idx'[j] = idx[j]
          BY <1>0, <2>2, TaskStep
    <3>2. index[c] # index[c] + 1
          BY <1>a
    <3> QED BY <1>2, <3>1, <3>2, DueStays
  <2>3. ASSUME NEW k \in Tasks, Step(k) \/ Throws(k), CallOf[k] = c PROVE DueOf(c)'
    <3>1. /\ \/ index'[c] = index[c]
             \/ /\ index'[c] = index[c] + 1 /\ idx'[k] = index[c] + 1
                /\ pc'[k] \in Before \/ index[c] >= Items[c]
          /\ pc[k] \in Before =>
               /\ idx'[k] = idx[k]
               /\ pc'[k] \in Before \/ idx[k] \in done'[c] \/ Excused(c)' \/ idx[k] > Items[c]
          /\ pc'[k] \in After => pc[k] \in After \/ index'[c] >= Items[c] \/ Excused(c)'
          BY <2>3, TaskItem
    <3>2. \A j \in TasksOf(c) \ {k} : pc'[j] = pc[j] /\ idx'[j] = idx[j]
          BY <1>0, <2>3, TaskStep
    <3>3. k \in TasksOf(c) /\ index[c] # index[c] + 1
          BY <1>a, <2>3 DEF TasksOf
    <3>4. index'[c] = index[c] \/ index'[c] = index[c] + 1
          BY <3>1
    <3>5. index'[c] = index[c] + 1 =>
             \/ \E j \in TasksOf(c) : idx'[j] = index[c] + 1 /\ pc'[j] \in Before
             \/ index[c] >= Items[c]
          BY <3>1, <3>3
    <3>6. \A j \in TasksOf(c) : pc[j] \in Before =>
             /\ idx'[j] = idx[j]
             /\ pc'[j] \in Before \/ idx[j] \in done'[c] \/ Excused(c)' \/ idx[j] > Items[c]
          BY <3>1, <3>2
    <3>7. \A j \in TasksOf(c) : pc'[j] \in After => pc[j] \in After \/ index'[c] >= Items[c] \/ Excused(c)'
          BY <3>1, <3>2
    <3> QED BY <1>2, <3>4, <3>5, <3>6, <3>7, DueStays
  <2> QED BY <2>1, <2>2, <2>3
<1> QED BY <1>0, <1>1, <1>2, LiveBefore

-----------------------------------------------------------------------------
(* The theorems.                                                           *)

LEMMA InitIInv == Init => IInv
<1> SUFFICES ASSUME Init PROVE IInv
    OBVIOUS
<1>1. TypeOK
  <2>1. <<>> \in Seq(Nat)
        OBVIOUS
  <2>2. results \in [Calls -> Seq(Nat)]
        BY <2>1 DEF Init
  <2>3. Root \in Threads /\ Top \in Calls
        BY ParallelAssumption DEF Threads
  <2> QED BY <2>2, <2>3 DEF Init, TypeOK
<1>2. Shape
  <2> SUFFICES ASSUME NEW c \in Calls PROVE ShapeOf(c)
      BY DEF Shape
  <2>1. \A k \in TasksOf(c) : k \in Tasks /\ k \in Threads /\ CallOf[k] = c /\ k # Root
        BY <1>1, Basics DEF TasksOf
  <2>2. stage[c] = (IF c = Top THEN "running" ELSE "none") /\ caller[c] = (IF c = Top THEN Root ELSE None)
           /\ index[c] = 0 /\ pc[Root] = "waiting" /\ Root \in Threads
        BY <1>1, Basics DEF Init
  <2>3. c # Top => \A k \in TasksOf(c) : pc[k] = "none"
        BY <2>1 DEF Init
  <2>4. \A d \in Calls : Active(d) => d = Top
        BY DEF Active, Init
  <2> QED BY <2>2, <2>3, <2>4 DEF ShapeOf, Begun, Active
<1>3. \A t \in Threads : exc[t] = None /\ held[t] = None /\ pc[t] \in {"waiting", "idle", "none"} /\ (t \in Tasks => pc[t] # "waiting")
      BY <1>1, Basics DEF Init
<1>4. Exceptions
      BY <1>1, <1>3, Basics DEF Exceptions, ExceptionOf, Passing
<1>5. ReasonsExact
  <2>1. {t \in Threads : exc[t] # None} = {}
        BY <1>3
  <2> QED BY <2>1, FS_EmptySet DEF ReasonsExact, Init
<1>6. ASSUME NEW c \in Calls PROVE TakenOf(c) /\ ResultsOf(c) /\ DueOf(c)
  <2>1. \A k \in TasksOf(c) : k \in Tasks /\ CallOf[k] = c /\ idx[k] = 0 /\ pc[k] \in {"idle", "none"}
        BY <1>1, <1>3, Basics DEF Init, TasksOf
  <2>2. index[c] = 0 /\ found[c] = 0 /\ results[c] = <<>>
        BY DEF Init
  <2>3. TakenOf(c)
    <3>1. ASSUME NEW k \in TasksOf(c) PROVE TakenBy(k)
      <4>1. CallOf[k] = c /\ idx[k] = 0 /\ index[c] = 0 /\ pc[k] \in {"idle", "none"}
            BY <2>1, <2>2
      <4>2. idx[k] <= index[c]
            BY <4>1
      <4> QED BY <4>1, <4>2 DEF TakenBy, Before
    <3> QED BY <2>1, <3>1 DEF TakenOf
  <2>4. ResultsOf(c)
    <3>1. Count[c] \in Nat
          BY ParallelAssumption
    <3>2. DOMAIN results[c] = {} /\ Len(results[c]) = 0
          BY <2>2
    <3>3. 0 = IF 0 < Count[c] THEN 0 ELSE Count[c]
          BY <3>1
    <3> QED BY <2>2, <3>2, <3>3 DEF ResultsOf
  <2>5. DueOf(c)
    <3>1. \A i \in 1..Items[c] : i > index[c]
      <4>1. Items[c] \in Nat
            BY ParallelAssumption
      <4> QED BY <2>2, <4>1
    <3>2. \A k \in TasksOf(c) : pc[k] \notin After
          BY <2>1 DEF After
    <3>3. Live(c) => exc[caller[c]] # "return"
          BY <1>1, <1>2, <1>3, CallerIsThread, Basics DEF Live
    <3> QED BY <3>1, <3>2, <3>3 DEF DueOf
  <2> QED BY <2>3, <2>4, <2>5
<1> QED BY <1>1, <1>2, <1>4, <1>5, <1>6 DEF IInv

LEMMA StepIInv == IInv /\ [Next]_vars => IInv'
<1> SUFFICES ASSUME IInv, [Next]_vars PROVE IInv'
    OBVIOUS
<1>1. TypeOK' /\ ReasonsExact'
      BY StepTypeOK
<1>2. Shape'
      BY StepShape DEF IInv
<1> QED BY <1>1, <1>2, StepExceptions, StepTaken, StepResults, StepDue DEF IInv

\* The invariant is inductive: Init and every step of a task, of a calling thread
\* and of the environment keep it.
THEOREM AlwaysIInv == Spec => []IInv
BY InitIInv, StepIInv, PTL DEF Spec

\* Each variable has its type.
THEOREM AlwaysTypeOK == Spec => []TypeOK
<1>1. IInv => TypeOK
      BY DEF IInv
<1> QED BY <1>1, AlwaysIInv, PTL

\* _pmath_abort_reasons is the number of threads that have an exception.
THEOREM AlwaysReasonsExact == Spec => []ReasonsExact
<1>1. IInv => ReasonsExact
      BY DEF IInv
<1> QED BY <1>1, AlwaysIInv, PTL

\* Internal`ParallelReturn reaches only threads that make a call which catches it,
\* and is never thrown again: neither a task nor an outer call ends because of it.
THEOREM AlwaysReturnCaught == Spec => []ReturnCaught
<1>1. IInv => ReturnCaught
      BY DEF IInv, Exceptions, ExceptionOf, ReturnCaught
<1> QED BY <1>1, AlwaysIInv, PTL

\* A call whose tasks are over has done what it promises, unless the calling thread
\* can see an exception: no item gets lost between two tasks, none is counted
\* twice, and ParallelTry has as many results as it can have.
THEOREM AlwaysAccounted == Spec => []Accounted
<1>1. ASSUME IInv PROVE Accounted
  <2> SUFFICES ASSUME NEW c \in Calls, AllOver(c), pc[caller[c]] = "waiting", Calm(c), ~aborted[c]
               PROVE  IF kind[c] = "try"
                      THEN /\ Len(results[c]) = IF found[c] < Count[c] THEN found[c] ELSE Count[c]
                           /\ \A m, n \in DOMAIN results[c] : results[c][m] = results[c][n] => m = n
                           /\ \A n \in DOMAIN results[c] : results[c][n] \in done[c]
                           /\ found[c] < Count[c] => AllDone(c)
                      ELSE AllDone(c) \/ exc[caller[c]] = "return"
      BY DEF Accounted
  <2>0. TypeOK /\ Exceptions /\ ResultsOf(c) /\ DueOf(c) /\ Live(c)
        BY <1>1 DEF IInv, AllOver, Live, Active
  <2>1. \A k \in TasksOf(c) : k \in Threads /\ k \in Tasks /\ pc[k] = "over"
        BY <2>0, Basics DEF AllOver, TasksOf
  <2>2. \A k \in TasksOf(c) : ~PassesOn(k)
    <3>1. \A k \in TasksOf(c) : exc[k] = None /\ held[k] = None
          BY <2>0, <2>1 DEF Exceptions, ExceptionOf, Clear, Passing
    <3> QED BY <2>0, <3>1, Basics DEF PassesOn
  <2>3. Excused(c) => exc[caller[c]] = "return"
        BY <2>2 DEF Excused, Calm
  <2>4. Excused(c) \/ AllDone(c)
    <3> SUFFICES ASSUME ~Excused(c), NEW i \in 1..Items[c] PROVE i \in done[c]
        BY DEF AllDone
    <3>0. PICK m \in Nat, n \in Nat : m = Items[c] /\ n = index[c]
          BY <2>0, Types
    <3>1. Items[c] > 0 /\ i \in Nat /\ i <= m
          BY <3>0
    <3>2. PICK k \in Tasks : CallOf[k] = c
          BY <3>1, ParallelAssumption
    <3>3. k \in TasksOf(c) /\ pc[k] \in After
          BY <2>1, <3>2 DEF TasksOf, After
    <3>4. n >= m
          BY <2>0, <3>0, <3>3 DEF DueOf
    <3>5. ~(i > n)
          BY <3>1, <3>4
    <3>6. \A j \in TasksOf(c) : pc[j] \notin Before
          BY <2>1 DEF Before
    <3> QED BY <2>0, <3>0, <3>5, <3>6 DEF DueOf
  <2>5. kind[c] = "try" /\ found[c] < Count[c] => exc[caller[c]] # "return"
    <3>1. found[c] \in Nat /\ Count[c] \in Nat
          BY <2>0, Types
    <3>2. kind[c] = "try" /\ exc[caller[c]] = "return" => found[c] >= Count[c]
          BY <2>0 DEF DueOf
    <3>3. found[c] < Count[c] => ~(found[c] >= Count[c])
          BY <3>1
    <3> QED BY <3>2, <3>3
  <2> QED BY <2>0, <2>3, <2>4, <2>5 DEF ResultsOf
<1> QED BY <1>1, AlwaysIInv, PTL

=============================================================================
