------------------------------- MODULE TaskPool -------------------------------
(***************************************************************************)
(* Tasks and the worker threads that execute them (threadpool.c).          *)
(*                                                                         *)
(* A new task is pushed on the stack of idle tasks, with a reference of    *)
(* the stack's own, and announced through a semaphore.  A worker that pops *)
(* it and a thread that waits for it race for its status word: whoever     *)
(* swaps TASK_RUNNING in first executes the body, in its own stack, and    *)
(* posts the task's "done" semaphore; whoever finds TASK_RUNNING there     *)
(* waits for that semaphore (a worker drops the task instead).             *)
(*                                                                         *)
(* The bodies are code that creates tasks, waits for them, aborts and      *)
(* releases them in any order, as far as Creator and Users let it: that of *)
(* Clients, threads other than the workers, and that of the tasks.         *)
(* Creation without memory returns NULL and changes nothing.               *)
(***************************************************************************)
EXTENDS Naturals, Sequences, FiniteSets

CONSTANTS Clients,
          Workers,
          Tasks,     \* addresses of struct _pmath_task_t
          Creator,   \* Creator[k]: whose code creates task k
          Users,     \* Users[k]: whose code may get a reference to k from another
          Keepers,   \* tasks that may end with their references in variables
          MaxPosts,  \* bound: posts of "done" that nobody has waited for
          MaxDepth   \* bound: operations of a thread inside of each other

Threads == Clients \cup Workers
Bodies  == Clients \cup Tasks

ASSUME ThreadsAssumption ==
  /\ IsFiniteSet(Threads)
  /\ IsFiniteSet(Tasks)
  /\ Clients \cap Workers = {}
  /\ Clients \cap Tasks = {}
  /\ Creator \in [Tasks -> Bodies]
  /\ Users \in [Tasks -> SUBSET Bodies]
  /\ Keepers \subseteq Tasks
  /\ MaxPosts \in Nat
  /\ MaxDepth \in Nat \ {0}

VARIABLES status,    \* status of each task; "none": not allocated
          refs,      \* its refcount
          done,      \* its semaphore
          holders,   \* whose code has a reference to it
          idle,      \* idle_tasks, a stack, top first
          haveIdle,  \* the semaphore have_idle_tasks
          frames,    \* frames[t]: operations t is executing, innermost last
          loop,      \* where each worker is in its loop
          gone,      \* clients that have called pmath_done
          shutdown   \* how far the last of them has stopped the workers

vars == <<status, refs, done, holders, idle, haveIdle, frames, loop, gone, shutdown>>

Init ==
  /\ status = [k \in Tasks |-> "none"]
  /\ refs = [k \in Tasks |-> 0]
  /\ done = [k \in Tasks |-> 0]
  /\ holders = [k \in Tasks |-> {}]
  /\ idle = <<>>
  /\ haveIdle = 0
  /\ frames = [t \in Threads |-> <<>>]
  /\ loop = [w \in Workers |-> "check"]
  /\ gone = {}
  /\ shutdown = "no"

Top(t) == frames[t][Len(frames[t])]
At(t, where) == frames[t] # <<>> /\ Top(t).at = where

Goto(t, where) == frames' = [frames EXCEPT ![t][Len(frames[t])].at = where]
Begin(t, k, o, where) ==
  /\ Len(frames[t]) < MaxDepth
  /\ frames' = [frames EXCEPT ![t] = Append(@, [task |-> k, op |-> o, at |-> where])]
End(t) == frames' = [frames EXCEPT ![t] = SubSeq(@, 1, Len(@) - 1)]

\* The code of b is what t executes now.
Executes(t, b) ==
  \/ t \in Clients \ gone /\ frames[t] = <<>> /\ b = t
  \/ At(t, "body") /\ b = Top(t).task

-----------------------------------------------------------------------------
(* Calls from the bodies.                                                  *)

\* pmath_task_new up to the push; Announce posts have_idle_tasks.
New(t, k) ==
  /\ status[k] = "none"
  /\ Executes(t, Creator[k])
  /\ status' = [status EXCEPT ![k] = "idle"]
  /\ refs' = [refs EXCEPT ![k] = 2]
  /\ holders' = [holders EXCEPT ![k] = {Creator[k]}]
  /\ idle' = <<k>> \o idle
  /\ Begin(t, k, "new", "announce")
  /\ UNCHANGED <<done, haveIdle, loop, gone, shutdown>>

\* Mutant: does not post have_idle_tasks.
AnnounceNothing(t) ==
  /\ At(t, "announce")
  /\ End(t)
  /\ UNCHANGED <<status, refs, done, holders, idle, haveIdle, loop, gone, shutdown>>

Announce(t) ==
  /\ At(t, "announce")
  /\ haveIdle' = haveIdle + 1
  /\ End(t)
  /\ UNCHANGED <<status, refs, done, holders, idle, loop, gone, shutdown>>

\* pmath_task_ref, for a body that finds the task in a variable.
Ref(t, k) ==
  /\ holders[k] # {}
  /\ \E b \in Users[k] \ holders[k] :
       /\ Executes(t, b)
       /\ holders' = [holders EXCEPT ![k] = @ \cup {b}]
  /\ refs' = [refs EXCEPT ![k] = @ + 1]
  /\ UNCHANGED <<status, done, idle, haveIdle, frames, loop, gone, shutdown>>

\* pmath_task_unref: the last reference frees the task.
Release(k) ==
  /\ refs' = [refs EXCEPT ![k] = @ - 1]
  /\ status' = [status EXCEPT ![k] = IF refs[k] = 1 THEN "none" ELSE @]
  /\ done' = [done EXCEPT ![k] = IF refs[k] = 1 THEN 0 ELSE @]

Unref(t, k) ==
  /\ \E b \in holders[k] :
       /\ Executes(t, b)
       /\ holders' = [holders EXCEPT ![k] = @ \ {b}]
  /\ Release(k)
  /\ UNCHANGED <<idle, haveIdle, frames, loop, gone, shutdown>>

\* pmath_task_wait and pmath_task_abort.
Call(t, k, o) ==
  /\ \E b \in holders[k] : Executes(t, b)
  /\ done[k] < MaxPosts
  /\ Begin(t, k, o, "swap")
  /\ UNCHANGED <<status, refs, done, holders, idle, haveIdle, loop, gone, shutdown>>

\* The body of a task ends.  Only keepers leave references in variables.
BodyEnds(t) ==
  /\ At(t, "body")
  /\ Top(t).task \in Keepers \/ \A k \in Tasks : Top(t).task \notin holders[k]
  /\ Goto(t, "finish")
  /\ UNCHANGED <<status, refs, done, holders, idle, haveIdle, loop, gone, shutdown>>

\* A variable that has kept a reference gets another value.
Kept(k) == {b \in holders[k] \cap Keepers : ~\E t \in Threads : \E n \in DOMAIN frames[t] :
                                             frames[t][n].task = b /\ frames[t][n].at = "body"}
Forget(k) ==
  /\ \E b \in Kept(k) : holders' = [holders EXCEPT ![k] = @ \ {b}]
  /\ Release(k)
  /\ shutdown \in {"no", "stop"}
  /\ UNCHANGED <<idle, haveIdle, frames, loop, gone, shutdown>>

-----------------------------------------------------------------------------
(* pmath_task_wait, pmath_task_abort and the handling of a popped task.    *)

\* Swap TASK_RUNNING in.
Swap(t) ==
  /\ At(t, "swap")
  /\ LET k == Top(t).task
         o == Top(t).op
     IN  /\ status' = [status EXCEPT ![k] = "running"]
         /\ Goto(t, CASE status[k] = "running" -> IF o = "work" THEN "unref" ELSE "sleep"
                      [] status[k] = "idle"    -> IF o = "abort" THEN "finish" ELSE "body"
                      [] OTHER                 -> "finish")
  /\ UNCHANGED <<refs, done, holders, idle, haveIdle, loop, gone, shutdown>>

Finish(t) ==
  /\ At(t, "finish")
  /\ status' = [status EXCEPT ![Top(t).task] = "done"]
  /\ Goto(t, "post")
  /\ UNCHANGED <<refs, done, holders, idle, haveIdle, loop, gone, shutdown>>

\* Mutant: a worker does not post the semaphore of its task.
PostByCallers(t) ==
  /\ At(t, "post")
  /\ IF Top(t).op = "work"
     THEN Goto(t, "unref") /\ UNCHANGED done
     ELSE End(t) /\ done' = [done EXCEPT ![Top(t).task] = @ + 1]
  /\ UNCHANGED <<status, refs, holders, idle, haveIdle, loop, gone, shutdown>>

Post(t) ==
  /\ At(t, "post")
  /\ done' = [done EXCEPT ![Top(t).task] = @ + 1]
  /\ IF Top(t).op = "work" THEN Goto(t, "unref") ELSE End(t)
  /\ UNCHANGED <<status, refs, holders, idle, haveIdle, loop, gone, shutdown>>

\* Mutant: takes an interrupted sem_wait for the end of the task.
AwakeInterrupted(t) ==
  /\ At(t, "sleep")
  /\ End(t)
  /\ UNCHANGED <<status, refs, done, holders, idle, haveIdle, loop, gone, shutdown>>

\* sem_wait on "done" returns.
Awake(t) ==
  /\ At(t, "sleep")
  /\ done[Top(t).task] > 0
  /\ done' = [done EXCEPT ![Top(t).task] = @ - 1]
  /\ End(t)
  /\ UNCHANGED <<status, refs, holders, idle, haveIdle, loop, gone, shutdown>>

-----------------------------------------------------------------------------
(* worker_thread_proc.                                                     *)

Check(w) ==
  /\ loop[w] = "check"
  /\ loop' = [loop EXCEPT ![w] = IF shutdown = "no" THEN "pop" ELSE "exited"]
  /\ UNCHANGED <<status, refs, done, holders, idle, haveIdle, frames, gone, shutdown>>

Pop(w) ==
  /\ loop[w] = "pop"
  /\ \/ /\ idle # <<>>
        /\ idle' = Tail(idle)
        /\ Begin(w, Head(idle), "work", "swap")
     \/ /\ idle = <<>>
        /\ UNCHANGED <<idle, frames>>
  /\ loop' = [loop EXCEPT ![w] = "wait"]
  /\ UNCHANGED <<status, refs, done, holders, haveIdle, gone, shutdown>>

\* Mutant: a worker does not release the task it has popped.
DropNothing(w) ==
  /\ At(w, "unref")
  /\ End(w)
  /\ UNCHANGED <<status, refs, done, holders, idle, haveIdle, loop, gone, shutdown>>

\* The worker releases the reference of the stack.
Drop(w) ==
  /\ At(w, "unref")
  /\ Release(Top(w).task)
  /\ End(w)
  /\ UNCHANGED <<holders, idle, haveIdle, loop, gone, shutdown>>

\* sem_wait on have_idle_tasks returns.
TakeAnnouncement(w) ==
  /\ loop[w] = "wait"
  /\ frames[w] = <<>>
  /\ haveIdle > 0
  /\ haveIdle' = haveIdle - 1
  /\ loop' = [loop EXCEPT ![w] = "check"]
  /\ UNCHANGED <<status, refs, done, holders, idle, frames, gone, shutdown>>

-----------------------------------------------------------------------------
(* pmath_done.                                                             *)

Leave(c) ==
  /\ Executes(c, c)
  /\ \A k \in Tasks : c \notin holders[k]
  /\ gone' = gone \cup {c}
  /\ UNCHANGED <<status, refs, done, holders, idle, haveIdle, frames, loop, shutdown>>

\* The last client kills the daemons, one of which sets stop_threadpool ...
Stop ==
  /\ gone = Clients
  /\ shutdown = "no"
  /\ shutdown' = "stop"
  /\ UNCHANGED <<status, refs, done, holders, idle, haveIdle, frames, loop, gone>>

\* ... clears the variables (_pmath_symbols_almost_done, by Forget) and calls
\* _pmath_threadpool_done: one post for each worker, ...
PostAll ==
  /\ shutdown = "stop"
  /\ \A k \in Tasks : Kept(k) = {}
  /\ haveIdle' = haveIdle + Cardinality(Workers)
  /\ shutdown' = "join"
  /\ UNCHANGED <<status, refs, done, holders, idle, frames, loop, gone>>

\* ... wait until all have finished, ...
Join ==
  /\ shutdown = "join"
  /\ \A w \in Workers : loop[w] = "exited"
  /\ shutdown' = "drain"
  /\ UNCHANGED <<status, refs, done, holders, idle, haveIdle, frames, loop, gone>>

\* ... and drop the tasks they left behind.
Drain ==
  /\ shutdown = "drain"
  /\ \/ /\ idle # <<>>
        /\ Release(Head(idle))
        /\ idle' = Tail(idle)
        /\ UNCHANGED shutdown
     \/ /\ idle = <<>>
        /\ shutdown' = "over"
        /\ UNCHANGED <<status, refs, done, idle>>
  /\ UNCHANGED <<holders, haveIdle, frames, loop, gone>>

\* The library is not used again.
Over == shutdown = "over" /\ UNCHANGED vars

-----------------------------------------------------------------------------
Calls(t) ==
  \E k \in Tasks : New(t, k) \/ Ref(t, k) \/ \E o \in {"wait", "abort"} : Call(t, k, o)

Proceeds(t) ==
  \/ Announce(t) \/ Swap(t) \/ Finish(t) \/ Post(t) \/ Awake(t)
  \/ BodyEnds(t)
  \/ \E k \in Tasks : Unref(t, k)

Works(w) == Check(w) \/ Pop(w) \/ Drop(w) \/ TakeAnnouncement(w)
Ends     == PostAll \/ Join \/ Drain \/ \E k \in Tasks : shutdown = "stop" /\ Forget(k)

Next ==
  \/ \E t \in Threads : Calls(t) \/ Proceeds(t)
  \/ \E w \in Workers : Works(w)
  \/ \E c \in Clients : Leave(c)
  \/ \E k \in Tasks : Forget(k)
  \/ Stop \/ Ends \/ Over

Spec == Init /\ [][Next]_vars

\* The operating system runs every runnable thread, and code that calls
\* nothing more releases its references and ends.
FairSpec ==
  /\ Spec
  /\ \A t \in Threads : WF_vars(Proceeds(t))
  /\ \A w \in Workers : WF_vars(Works(w))
  /\ WF_vars(Ends)

-----------------------------------------------------------------------------
Statuses == {"none", "idle", "running", "done"}
Frames ==
  [task : Tasks, op : {"new", "wait", "abort", "work"},
   at : {"announce", "swap", "body", "finish", "post", "sleep", "unref"}]

TypeOK ==
  /\ status \in [Tasks -> Statuses]
  /\ refs \in [Tasks -> Nat]
  /\ done \in [Tasks -> Nat]
  /\ holders \in [Tasks -> SUBSET Bodies]
  /\ idle \in Seq(Tasks)
  /\ haveIdle \in Nat
  /\ frames \in [Threads -> Seq(Frames)]
  /\ loop \in [Workers -> {"check", "pop", "wait", "exited"}]
  /\ gone \subseteq Clients
  /\ shutdown \in {"no", "stop", "join", "drain", "over"}

\* The frames in which threads work on task k: the thread and the level.
Levels == 1 .. MaxDepth
Work(k, places) ==
  {f \in Threads \X Levels :
     /\ f[2] <= Len(frames[f[1]])
     /\ frames[f[1]][f[2]].task = k
     /\ frames[f[1]][f[2]].at \in places}

\* A task is running exactly while one thread executes its body or is about
\* to mark it as done: no two threads execute it, and no thread overwrites
\* the status of a task that another one has taken.
OneRunner ==
  \A k \in Tasks :
    Cardinality(Work(k, {"body", "finish"})) = IF status[k] = "running" THEN 1 ELSE 0

\* The reference count is the number of references of bodies, of the stack
\* and of the worker that popped the task; a task that is used exists.
RefsExact ==
  \A k \in Tasks :
    /\ refs[k] = Cardinality(holders[k])
                   + Cardinality({i \in DOMAIN idle : idle[i] = k})
                   + Cardinality({w \in Workers : \E i \in DOMAIN frames[w] :
                                    frames[w][i].task = k /\ frames[w][i].op = "work"})
    /\ refs[k] = 0 <=> status[k] = "none"
    /\ Work(k, {"swap", "body", "finish", "post", "sleep", "unref"}) # {} => refs[k] > 0

\* Every task on the stack is announced, or somebody is about to announce it,
\* or some worker is about to look: none is forgotten while workers sleep.
NoneForgotten ==
  shutdown = "no" =>
    Len(idle) <= haveIdle
                   + Cardinality({t \in Threads : At(t, "announce")})
                   + Cardinality({w \in Workers : loop[w] \in {"check", "pop"}})

\* Tasks are executed at most once, and waiting means that the body has ended.
Abstract ==
  INSTANCE TaskOnce WITH
    phase <- [k \in Tasks |->
                CASE status[k] = "none" -> "none"
                  [] status[k] = "idle" -> "pending"
                  [] OTHER -> IF Work(k, {"body"}) # {} THEN "started" ELSE "over"],
    calls <- {[thread |-> f[1], level |-> f[2],
               task |-> frames[f[1]][f[2]].task, op |-> frames[f[1]][f[2]].op] :
                f \in {g \in Threads \X Levels :
                         /\ g[2] <= Len(frames[g[1]])
                         /\ frames[g[1]][g[2]].op \in {"wait", "abort"}}}

ImplementsTaskOnce == Abstract!Spec

NoMoreCalls == <>[][\A t \in Threads : ~Calls(t)]_vars

\* Two threads wait for the end of one task (see WaitReturns).
WaitTwice == \E k \in Tasks : Cardinality(Work(k, {"sleep"})) > 1

\* When no more tasks are created and waited for, every operation ends and
\* every task has been executed, aborted or, at shutdown, dropped; pmath_done
\* returns.  It is enough that no two threads wait for the same task.
Completes ==
  NoMoreCalls /\ []~WaitTwice
    => <>[](/\ \A t \in Threads : frames[t] = <<>>
            /\ \/ shutdown = "over"
               \/ shutdown = "no" /\ \A k \in Tasks : status[k] \in {"none", "done"})

\* "Wait(task) waits for an asynchronous task to complete and returns its
\* result" (usage.pmath): nobody waits forever for a task that has ended.
WaitReturns ==
  \A t \in Threads : At(t, "sleep") /\ status[Top(t).task] = "done" ~> ~At(t, "sleep")
=============================================================================
