------------------------------ MODULE Parallel ------------------------------
(***************************************************************************)
(* ParallelMap, ParallelMapIndexed, ParallelScan and ParallelTry           *)
(* (pmath-builtins/parallel) and the exceptions they end with              *)
(* (change_exception, _pmath_thread_clean in threads.c).                   *)
(*                                                                         *)
(* A call creates tasks, each with a thread object of its own that is a    *)
(* child of the calling thread.  The tasks take items from a common        *)
(* counter until there are none or until the task's thread or one of its   *)
(* ancestors has an exception.  A task that knows the result of the whole  *)
(* call throws it into the calling thread, which ends the other tasks; one *)
(* that ends with an exception of its own passes it on.  The calling       *)
(* thread waits for all its tasks before it goes on, since their common    *)
(* data is on its stack.                                                   *)
(*                                                                         *)
(* The code that is applied to an item is the environment: it may return a *)
(* value, fail, throw, abort, run until it is aborted, or make another     *)
(* call.  exception_handler_lock makes each change of an exception a step. *)
(***************************************************************************)
EXTENDS Integers, FiniteSets, Sequences

CONSTANTS Calls,      \* calls of one of the builtins
          Top,        \* the one that the root thread makes
          Root,       \* the root thread
          Tasks,      \* tasks, and the thread objects they create
          CallOf,     \* CallOf[k]: the call that creates task k
          Items,      \* Items[c]: number of items of call c
          Count,      \* Count[c]: number of results that ParallelTry returns
          Nested,     \* Nested[c]: <<d, i>>, where item i of call d makes call c
          Endless,    \* pairs <<c, i>>: item i of call c runs until it is aborted
          Aborts,     \* whether code calls Abort() and other threads Abort(task)
          None

Threads == {Root} \cup Tasks

\* There are as many tasks as processors, but not more than items.
ASSUME ParallelAssumption ==
  /\ Top \in Calls
  /\ IsFiniteSet(Tasks)
  /\ Root \notin Tasks
  /\ None \notin Threads \cup {"return", "error", "abort"}
  /\ CallOf \in [Tasks -> Calls]
  /\ Items \in [Calls -> Nat]
  /\ \A c \in Calls : Items[c] > 0 => \E k \in Tasks : CallOf[k] = c
  /\ Count \in [Calls -> Nat]
  /\ Nested \in [Calls \ {Top} -> Calls \X Nat]
  /\ Endless \subseteq Calls \X Nat
  /\ Aborts \in BOOLEAN

VARIABLES kind,       \* kind[c]: "map", "scan" or "try"
          protected,  \* the root thread ignores exceptions (second part of Finally)
          stage,      \* stage[c]: how far call c is
          caller,     \* caller[c]: the thread that makes call c
          index,      \* index[c]: number of items that were taken
          found,      \* found[c]: result_index
          results,    \* results[c]: the items whose results are stored, in order
          done,       \* done[c]: the items whose code came to its end
          aborted,    \* aborted[c]: a task of c was aborted from inside
          pc,         \* where each thread is
          idx,        \* idx[k]: the item that task k has taken
          outcome,    \* outcome[k]: what its code returned
          exc,        \* exc[t]: thread->exception
          held,       \* held[t]: an exception that t has caught and not yet thrown again
          reasons     \* _pmath_abort_reasons

vars == <<kind, protected, stage, caller, index, found, results, done, aborted,
          pc, idx, outcome, exc, held, reasons>>
callvars == <<kind, protected, stage, caller>>
data     == <<index, found, results, done, aborted>>
excvars  == <<exc, held, reasons>>

TasksOf(c) == {k \in Tasks : CallOf[k] = c}

Init ==
  /\ kind \in [Calls -> {"map", "scan", "try"}]
  /\ protected \in BOOLEAN
  /\ stage = [c \in Calls |-> IF c = Top THEN "running" ELSE "none"]
  /\ caller = [c \in Calls |-> IF c = Top THEN Root ELSE None]
  /\ index = [c \in Calls |-> 0]
  /\ found = [c \in Calls |-> 0]
  /\ results = [c \in Calls |-> <<>>]
  /\ done = [c \in Calls |-> {}]
  /\ aborted = [c \in Calls |-> FALSE]
  /\ pc = [t \in Threads |-> IF t = Root THEN "waiting"
                             ELSE IF CallOf[t] = Top THEN "idle" ELSE "none"]
  /\ idx = [k \in Tasks |-> 0]
  /\ outcome = [k \in Tasks |-> "none"]
  /\ exc = [t \in Threads |-> None]
  /\ held = [t \in Threads |-> None]
  /\ reasons = 0

Go(t, from, to) == pc[t] = from /\ pc' = [pc EXCEPT ![t] = to]

-----------------------------------------------------------------------------
(* Threads and exceptions.                                                 *)

\* The parent of a thread; the root stands for itself.
Parent(t) == IF t = Root THEN Root ELSE caller[CallOf[t]]

\* A thread and its ancestors: the least set that has t and with each thread its
\* parent.
Chain(t) ==
  LET upward == {S \in SUBSET Threads : t \in S /\ \A s \in S : Parent(s) \in S}
  IN  {a \in Threads : \A S \in upward : a \in S}

Pending(t) == \E a \in Chain(t) : exc[a] # None

\* Mutant: does not look at the ancestors.
AbortingSelf(t) == reasons # 0 /\ ~protected /\ exc[t] # None

\* pmath_thread_aborting.
Aborting(t) == reasons # 0 /\ ~protected /\ Pending(t)

\* _pmath_thread_throw: an exception that t already has is kept.
Throw(t, e) ==
  /\ exc' = [exc EXCEPT ![t] = IF @ = None THEN e ELSE @]
  /\ reasons' = reasons + (IF exc[t] = None THEN 1 ELSE 0)

\* _pmath_thread_catch.
Catch(t) ==
  /\ exc' = [exc EXCEPT ![t] = None]
  /\ reasons' = reasons - (IF exc[t] = None THEN 0 ELSE 1)

-----------------------------------------------------------------------------
(* The tasks (parallel_map, parallel_scan, parallel_try).                  *)

\* A worker, or the waiting thread itself, executes the task: it creates a
\* thread object and takes an item.  Only parallel_try tests for exceptions
\* before its first item.
Take(k) ==
  LET c == CallOf[k]
  IN  /\ Go(k, "idle", IF kind[c] = "try" THEN "test"
                       ELSE IF index[c] < Items[c] THEN "item" ELSE "free")
      /\ index' = [index EXCEPT ![c] = @ + 1]
      /\ idx' = [idx EXCEPT ![k] = index[c] + 1]
      /\ UNCHANGED <<callvars, found, results, done, aborted, outcome, excvars>>

Test(k) ==
  LET c == CallOf[k]
  IN  /\ Go(k, "test", IF idx[k] > Items[c] \/ Aborting(k) THEN "clean"
                       ELSE IF kind[c] = "try" THEN "item" ELSE "clean item")
      /\ UNCHANGED <<callvars, data, idx, outcome, excvars>>

\* The code for the item throws into its own thread: an error, or Abort().
BodyThrows(k, e) ==
  LET c == CallOf[k]
  IN  /\ pc[k] = "item"
      /\ exc[k] = None
      /\ Throw(k, e)
      /\ aborted' = [aborted EXCEPT ![c] = @ \/ e = "abort"]
      /\ UNCHANGED <<callvars, index, found, results, done, pc, idx, outcome, held>>

Outcomes(c) ==
  CASE kind[c] = "map"  -> {"value"}
    [] kind[c] = "scan" -> {"value", "return"}
    [] kind[c] = "try"  -> {"value", "failed"}

\* It comes to its end ...
BodyEnds(k) ==
  LET c == CallOf[k]
  IN  /\ Go(k, "item", "ended")
      /\ <<c, idx[k]>> \notin Endless
      /\ exc[k] # None => protected
      /\ \E o \in Outcomes(c) : outcome' = [outcome EXCEPT ![k] = o]
      /\ done' = [done EXCEPT ![c] = @ \cup {idx[k]}]
      /\ UNCHANGED <<callvars, index, found, results, aborted, idx, excvars>>

\* ... or evaluation stops because of an exception.
BodyStops(k) ==
  /\ Go(k, "item", "ended")
  /\ Aborting(k)
  /\ outcome' = [outcome EXCEPT ![k] = "cut"]
  /\ UNCHANGED <<callvars, data, idx, excvars>>

\* The result of an item is known.  parallel_try does not count it if there
\* is an exception.
Ended(k) ==
  LET c == CallOf[k]
  IN  /\ Go(k, "ended", IF kind[c] = "scan" /\ outcome[k] = "return" THEN "throw"
                        ELSE IF kind[c] = "try" /\ outcome[k] # "failed" /\ ~Aborting(k)
                        THEN "count" ELSE "next")
      /\ UNCHANGED <<callvars, data, idx, outcome, excvars>>

\* Mutant: takes one result too many.
CountTooMuch(k) ==
  LET c == CallOf[k]
  IN  /\ Go(k, "count", IF found[c] > Count[c] THEN "throw" ELSE "next")
      /\ found' = [found EXCEPT ![c] = @ + 1]
      /\ results' = [results EXCEPT ![c] = IF found[c] > Count[c] THEN @ ELSE Append(@, idx[k])]
      /\ UNCHANGED <<callvars, index, done, aborted, idx, outcome, excvars>>

Counted(k) ==
  LET c == CallOf[k]
  IN  /\ Go(k, "count", IF found[c] >= Count[c] THEN "throw" ELSE "next")
      /\ found' = [found EXCEPT ![c] = @ + 1]
      /\ results' = [results EXCEPT ![c] = IF found[c] >= Count[c] THEN @ ELSE Append(@, idx[k])]
      /\ UNCHANGED <<callvars, index, done, aborted, idx, outcome, excvars>>

NextItem(k) ==
  LET c == CallOf[k]
  IN  /\ Go(k, "next", "test")
      /\ index' = [index EXCEPT ![c] = @ + 1]
      /\ idx' = [idx EXCEPT ![k] = index[c] + 1]
      /\ outcome' = [outcome EXCEPT ![k] = "none"]
      /\ UNCHANGED <<callvars, found, results, done, aborted, excvars>>

\* Mutant: the exception is thrown into the task's own thread.
ThrowReturnHere(k) ==
  /\ Go(k, "throw", "clean")
  /\ Throw(k, "return")
  /\ UNCHANGED <<callvars, data, idx, outcome, held>>

\* No other result is needed: Internal`ParallelReturn for the calling thread.
ThrowReturn(k) ==
  /\ Go(k, "throw", "clean")
  /\ Throw(Parent(k), "return")
  /\ UNCHANGED <<callvars, data, idx, outcome, held>>

\* _pmath_thread_clean: before the next item, and at the end.  An exception
\* of the task is passed on, but not that of Abort().
Clean(k) ==
  \E item \in BOOLEAN :
    /\ Go(k, IF item THEN "clean item" ELSE "clean",
             IF exc[k] \in {None, "abort"} THEN (IF item THEN "item" ELSE "free")
             ELSE IF item THEN "pass item" ELSE "pass")
    /\ Catch(k)
    /\ held' = [held EXCEPT ![k] = IF exc[k] = "abort" THEN None ELSE exc[k]]
    /\ UNCHANGED <<callvars, data, idx, outcome>>

Pass(k) ==
  /\ \/ Go(k, "pass item", "item")
     \/ Go(k, "pass", "free")
  /\ Throw(Parent(k), held[k])
  /\ held' = [held EXCEPT ![k] = None]
  /\ UNCHANGED <<callvars, data, idx, outcome>>

\* _pmath_thread_free.
Free(k) ==
  /\ Go(k, "free", "over")
  /\ Catch(k)
  /\ idx' = [idx EXCEPT ![k] = 0]
  /\ outcome' = [outcome EXCEPT ![k] = "none"]
  /\ UNCHANGED <<callvars, data, held>>

-----------------------------------------------------------------------------
(* The calling thread (builtin_parallelmap, _parallelscan, _paralleltry).  *)

\* The code for an item makes another call.
Call(k, c) ==
  /\ stage[c] = "none"
  /\ Go(k, "item", "waiting")
  /\ Nested[c] = <<CallOf[k], idx[k]>>
  /\ ~Aborting(k)
  /\ stage' = [stage EXCEPT ![c] = IF TasksOf(c) = {} THEN "running" ELSE "starting"]
  /\ caller' = [caller EXCEPT ![c] = k]
  /\ UNCHANGED <<kind, protected, data, idx, outcome, excvars>>

\* _pmath_task_new_with_thread, for each task.
NewTask(c, k) ==
  /\ stage[c] = "starting"
  /\ Go(k, "none", "idle")
  /\ CallOf[k] = c
  /\ stage' = [stage EXCEPT ![c] =
                 IF \A j \in TasksOf(c) \ {k} : pc[j] # "none" THEN "running" ELSE @]
  /\ UNCHANGED <<kind, protected, caller, data, idx, outcome, excvars>>

\* pmath_task_wait has returned for each task.
AllOver(c) == stage[c] = "running" /\ \A k \in TasksOf(c) : pc[k] = "over"

End(c) == stage' = [stage EXCEPT ![c] = "returned"]

\* ParallelMap leaves exceptions to its caller.
ReturnMap(c) ==
  LET t == caller[c]
  IN  /\ kind[c] = "map"
      /\ AllOver(c)
      /\ Go(t, "waiting", "item")
      /\ End(c)
      /\ UNCHANGED <<kind, protected, caller, data, idx, outcome, excvars>>

\* The others catch what their tasks have thrown ...
CatchReturn(c) ==
  LET t == caller[c]
  IN  /\ kind[c] # "map"
      /\ AllOver(c)
      /\ Go(t, "waiting", IF exc[t] \in {None, "return"} THEN "item" ELSE "rethrow")
      /\ Catch(t)
      /\ IF exc[t] \in {None, "return"}
         THEN End(c) /\ UNCHANGED held
         ELSE held' = [held EXCEPT ![t] = exc[t]] /\ UNCHANGED stage
      /\ UNCHANGED <<kind, protected, caller, data, idx, outcome>>

\* ... and throw it again if it is not their own.
Rethrow(c) ==
  LET t == caller[c]
  IN  /\ stage[c] = "running"
      /\ Go(t, "rethrow", "item")
      /\ Throw(t, held[t])
      /\ held' = [held EXCEPT ![t] = None]
      /\ End(c)
      /\ UNCHANGED <<kind, protected, caller, data, idx, outcome>>

\* Another thread calls Abort(task) with the task that is the root's.
Interrupt ==
  /\ Aborts
  /\ exc[Root] = None
  /\ pc[Root] # "item"
  /\ Throw(Root, "abort")
  /\ UNCHANGED <<callvars, data, pc, idx, outcome, held>>

-----------------------------------------------------------------------------
Throws(k) == \E e \in {"error"} \cup (IF Aborts THEN {"abort"} ELSE {}) : BodyThrows(k, e)

Step(k) ==
  \/ Take(k) \/ Test(k) \/ BodyEnds(k) \/ BodyStops(k) \/ Ended(k) \/ Counted(k)
  \/ NextItem(k) \/ ThrowReturn(k) \/ Clean(k) \/ Pass(k) \/ Free(k)

Returning(c) ==
  \/ ReturnMap(c) \/ CatchReturn(c) \/ Rethrow(c)
  \/ \E k \in Tasks : NewTask(c, k)

Next ==
  \/ \E k \in Tasks : Step(k) \/ Throws(k)
  \/ \E k \in Tasks, c \in Calls \ {Top} : Call(k, c)
  \/ \E c \in Calls : Returning(c)
  \/ Interrupt

Spec == Init /\ [][Next]_vars

\* Tasks are executed, by a worker or by whoever waits for them, and code that
\* does not run for ever comes to its end.
FairSpec ==
  /\ Spec
  /\ \A k \in Tasks : WF_vars(Step(k))
  /\ \A c \in Calls : WF_vars(Returning(c))

-----------------------------------------------------------------------------
TypeOK ==
  /\ kind \in [Calls -> {"map", "scan", "try"}]
  /\ protected \in BOOLEAN
  /\ stage \in [Calls -> {"none", "starting", "running", "returned"}]
  /\ caller \in [Calls -> Threads \cup {None}]
  /\ index \in [Calls -> Nat]
  /\ found \in [Calls -> Nat]
  /\ results \in [Calls -> Seq(Nat)]
  /\ done \in [Calls -> SUBSET Nat]
  /\ aborted \in [Calls -> BOOLEAN]
  /\ pc \in [Threads ->
       {"none", "idle", "test", "item", "ended", "count", "next", "throw", "clean item",
        "pass item", "clean", "pass", "free", "over", "waiting", "rethrow"}]
  /\ idx \in [Tasks -> Nat]
  /\ outcome \in [Tasks -> {"none", "value", "failed", "return", "cut"}]
  /\ exc \in [Threads -> {None, "return", "error", "abort"}]
  /\ held \in [Threads -> {None, "return", "error", "abort"}]
  /\ reasons \in Nat

AllDone(c) == 1..Items[c] \subseteq done[c]

\* When all tasks of a call are over and have left no exception but the result,
\* the call has done what it promises: ParallelMap has applied the function to
\* every item, ParallelScan too unless one returned; ParallelTry has results of
\* different items whose code came to its end, as many as it was asked for
\* unless it has tried every item.  (A task whose code calls Abort() is the
\* exception: it ends silently, and one more item with it.)
Calm(c) == \A a \in Chain(caller[c]) :
  exc[a] = None \/ (a = caller[c] /\ exc[a] = "return")

Accounted ==
  \A c \in Calls : AllOver(c) /\ pc[caller[c]] = "waiting" /\ Calm(c) /\ ~aborted[c] =>
    IF kind[c] = "try"
    THEN /\ Len(results[c]) = IF found[c] < Count[c] THEN found[c] ELSE Count[c]
         /\ \A m, n \in DOMAIN results[c] : results[c][m] = results[c][n] => m = n
         /\ \A n \in DOMAIN results[c] : results[c][n] \in done[c]
         /\ found[c] < Count[c] => AllDone(c)
    ELSE AllDone(c) \/ exc[caller[c]] = "return"

\* Internal`ParallelReturn is seen by nobody but the call it is meant for.
Uses(t) == \E c \in Calls :
  caller[c] = t /\ kind[c] # "map" /\ stage[c] \in {"starting", "running"}
ReturnCaught == \A t \in Threads :
  (exc[t] = "return" => Uses(t)) /\ held[t] # "return"

\* The counter that makes threads look for exceptions is exact: it is zero only
\* when there is none (pmath_aborting).
ReasonsExact == reasons = Cardinality({t \in Threads : exc[t] # None})

\* A call ends, unless code that runs for ever is not aborted.
Stuck(k) ==
  pc[k] = "item" /\ <<CallOf[k], idx[k]>> \in Endless /\ (protected \/ ~Pending(k))
Returns ==
  <>[](\A k \in Tasks : ~Stuck(k)) => <>(stage[Top] = "returned")

\* "evaluates f(arg_i) in parallel, returning the first result received"
\* (usage.pmath): ParallelTry ends when it has its results.
TryReturns ==
  kind[Top] = "try" /\ found[Top] >= Count[Top] ~> stage[Top] = "returned"

=============================================================================
