------------------------------- MODULE TaskOnce -------------------------------
(***************************************************************************)
(* What tasks promise (threadpool.h): the body of a task is executed at    *)
(* most once, by one thread; pmath_task_wait returns after the body has    *)
(* ended, pmath_task_abort after it has ended or is certain not to start;  *)
(* and a task exists while somebody waits for it.                          *)
(***************************************************************************)
EXTENDS Naturals

CONSTANTS Threads,
          Tasks,
          Levels    \* how deep the calls of a thread can be inside of each other

VARIABLES phase,    \* "none", "pending", "started" or "over"
          calls     \* the unfinished calls

avars == <<phase, calls>>

Calls == [thread : Threads, level : Levels, task : Tasks, op : {"wait", "abort"}]

\* The thread of c has called nothing else since.
Innermost(c) == c \in calls /\ \A d \in calls : d.thread = c.thread => d.level <= c.level

Init ==
  /\ phase = [k \in Tasks |-> "none"]
  /\ calls = {}

Move(k, from, to) ==
  /\ phase[k] \in from
  /\ phase' = [phase EXCEPT ![k] = to]
  /\ UNCHANGED calls

Create(k)   == Move(k, {"none"}, "pending")
Start(k)    == Move(k, {"pending"}, "started")
Complete(k) == Move(k, {"started"}, "over")

\* An aborting thread finds that the body has not started.
Cancel(c) ==
  /\ Innermost(c)
  /\ c.op = "abort"
  /\ Move(c.task, {"pending"}, "over")

\* Nobody refers to the task any more; a pending one only at shutdown.
Free(k) ==
  /\ \A c \in calls : c.task # k
  /\ Move(k, {"pending", "over"}, "none")

Call(c) ==
  /\ phase[c.task] # "none"
  /\ \A d \in calls : d.thread = c.thread => d.level < c.level
  /\ calls' = calls \cup {c}
  /\ UNCHANGED phase

Return(c) ==
  /\ Innermost(c)
  /\ phase[c.task] = "over"
  /\ calls' = calls \ {c}
  /\ UNCHANGED phase

Next ==
  \/ \E k \in Tasks : Create(k) \/ Start(k) \/ Complete(k) \/ Free(k)
  \/ \E c \in Calls : Call(c) \/ Return(c) \/ Cancel(c)

Spec == Init /\ [][Next]_avars
=============================================================================
