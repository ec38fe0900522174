------------------------------ MODULE Lifecycle ------------------------------
(***************************************************************************)
(* pmath_init and pmath_done (pmath.c), which every thread that uses the   *)
(* library calls, and the daemon threads (threadpool.c), which call them   *)
(* as well.                                                                *)
(*                                                                         *)
(* The thread that raises pmath_count from 0 initializes the library,      *)
(* which starts the worker threads and one daemon, the timer.  A thread    *)
(* that calls pmath_done and finds that only daemons remain kills them;    *)
(* the one that lowers the count to 0 destroys the library.  The timer's   *)
(* kill function is what makes the workers stop, for whom the destroying   *)
(* thread waits.                                                           *)
(*                                                                         *)
(* Every access to _pmath_status, to one of the counters and every         *)
(* critical section of daemon_spin is a step.  Failing allocations in      *)
(* threads that are not the first are left out.                            *)
(***************************************************************************)
EXTENDS Integers, FiniteSets

CONSTANTS Users,      \* threads of the program
          Daemons,    \* threads that pmath_thread_fork_daemon creates
          Timer,      \* the daemon that the library itself creates
          Killable,   \* daemons with a kill function
          Ephemeral,  \* daemons whose callback may return without being killed
          MayFail,    \* whether initialization may fail
          None

Threads == Users \cup Daemons

ASSUME ThreadsAssumption ==
  /\ IsFiniteSet(Threads)
  /\ Users \cap Daemons = {}
  /\ None \notin Threads
  /\ Timer \in Daemons \cap Killable
  /\ Killable \subseteq Daemons
  /\ Ephemeral \subseteq Daemons \ {Timer}
  /\ MayFail \in BOOLEAN

VARIABLES orderly,  \* one user at a time, and daemons end when they are killed;
                    \* otherwise no initialization fails
          status,   \* _pmath_status
          count,    \* pmath_count
          daemons,  \* _pmath_threadpool_deamon_count
          ring,     \* all_daemons
          told,     \* daemons whose kill function was called (alive = FALSE)
          stop,     \* stop_threadpool
          pc,       \* where each thread is
          child,    \* child[u]: the daemon that u is creating
          seen      \* seen[t]: pmath_count as t read it in pmath_done

vars == <<orderly, status, count, daemons, ring, told, stop, pc, child, seen>>

Init ==
  /\ orderly \in BOOLEAN
  /\ status = "none"
  /\ count = 0
  /\ daemons = 0
  /\ ring = {}
  /\ told = {}
  /\ stop = FALSE
  /\ pc = [t \in Threads |-> "out"]
  /\ child = [t \in Threads |-> None]
  /\ seen = [t \in Threads |-> 0]

Go(t, from, to) == pc[t] = from /\ pc' = [pc EXCEPT ![t] = to]

-----------------------------------------------------------------------------
(* pmath_init.                                                             *)

\* A user calls pmath_init, or a new daemon does in daemon_init.
Enter(t) ==
  /\ orderly /\ t \in Users => \A u \in Users : pc[u] = "out"
  /\ Go(t, IF t \in Users THEN "out" ELSE "born", IF count = 0 THEN "first" ELSE "second")
  /\ count' = count + 1
  /\ UNCHANGED <<orderly, status, daemons, ring, told, stop, child, seen>>

\* Mutant: does not wait for the end of an earlier use.
BeginAtOnce(t) ==
  /\ Go(t, "first", "starting")
  /\ status' = "initializing"
  /\ UNCHANGED <<orderly, count, daemons, ring, told, stop, child, seen>>

\* The first thread waits for the end of an earlier use of the library.
Begin(t) ==
  /\ Go(t, "first", "starting")
  /\ status = "none"
  /\ status' = "initializing"
  /\ UNCHANGED <<orderly, count, daemons, ring, told, stop, child, seen>>

\* pmath_thread_fork_daemon returns after daemon_init.
Fork(u, d) ==
  /\ pc[d] = "out"
  /\ pc' = [pc EXCEPT ![u] = "forking", ![d] = "born"]
  /\ child' = [child EXCEPT ![u] = d]
  /\ told' = told \ {d}
  /\ UNCHANGED <<orderly, status, count, seen>>

Forked(u) ==
  /\ Go(u, "forking", IF child[u] = Timer THEN "started" ELSE "in")
  /\ pc[child[u]] \notin {"born", "second", "register", "link"}
  /\ child' = [child EXCEPT ![u] = None]
  /\ UNCHANGED <<orderly, status, count, daemons, ring, told, stop, seen>>

\* _pmath_threadpool_init.
StartPool(t) ==
  /\ pc[t] = "starting"
  /\ Fork(t, Timer)
  /\ stop' = FALSE
  /\ daemons' = 0
  /\ ring' = {}

\* maininit.pmath is loaded when the status is "running" already.
Started(t) ==
  /\ Go(t, "started", "maininit")
  /\ status' = "running"
  /\ UNCHANGED <<orderly, count, daemons, ring, told, stop, child, seen>>

Loaded(t) ==
  /\ Go(t, "maininit", "in")
  /\ UNCHANGED <<orderly, status, count, daemons, ring, told, stop, child, seen>>

\* A part of the library cannot be initialized: before the thread pool, ...
FailEarly(t) ==
  /\ MayFail
  /\ Go(t, "starting", "undo early")
  /\ UNCHANGED <<orderly, status, count, daemons, ring, told, stop, child, seen>>

\* ... after it, ...
FailLate(t) ==
  /\ MayFail
  /\ Go(t, "started", "undo")
  /\ UNCHANGED <<orderly, status, count, daemons, ring, told, stop, child, seen>>

\* ... or the user interrupts maininit.pmath.
Interrupt(t) ==
  /\ MayFail
  /\ Go(t, "maininit", "undo")
  /\ status' = "destroying"
  /\ UNCHANGED <<orderly, count, daemons, ring, told, stop, child, seen>>

\* What was initialized is undone.  Once there is a thread pool,
\* _pmath_threadpool_done waits for the workers, which look at stop: it was set
\* only if another thread killed the timer meanwhile.
Undo(t) ==
  /\ pc[t] \in {"undo early", "undo"}
  /\ pc[t] = "undo" => stop
  /\ pc' = [pc EXCEPT ![t] = "give up"]
  /\ status' = "none"
  /\ UNCHANGED <<orderly, count, daemons, ring, told, stop, child, seen>>

GiveUp(t) ==
  /\ Go(t, "give up", "out")
  /\ count' = count - 1
  /\ UNCHANGED <<orderly, status, daemons, ring, told, stop, child, seen>>

\* Mutant: waits until the status is "running".
JoinRunning(t) ==
  /\ Go(t, "second", IF t \in Users THEN "in" ELSE "register")
  /\ status = "running"
  /\ UNCHANGED <<orderly, status, count, daemons, ring, told, stop, child, seen>>

\* All other threads.
Join(t) ==
  /\ Go(t, "second", IF t \in Users THEN "in" ELSE "register")
  /\ status \in {"running", "initializing"}
  /\ UNCHANGED <<orderly, status, count, daemons, ring, told, stop, child, seen>>

-----------------------------------------------------------------------------
(* Daemons.                                                                *)

Register(d) ==
  /\ Go(d, "register", "link")
  /\ daemons' = daemons + 1
  /\ UNCHANGED <<orderly, status, count, ring, told, stop, child, seen>>

Link(d) ==
  /\ Go(d, "link", "work")
  /\ ring' = ring \cup {d}
  /\ UNCHANGED <<orderly, status, count, daemons, told, stop, child, seen>>

\* The callback has returned: no kill function is called after this.
Unlink(d) ==
  /\ d \in told \cup (IF orderly THEN {} ELSE Ephemeral)
  /\ Go(d, "work", "done")
  /\ ring' = ring \ {d}
  /\ UNCHANGED <<orderly, status, count, daemons, told, stop, child, seen>>

Unregister(d) ==
  /\ Go(d, "unregister", "out")
  /\ daemons' = daemons - 1
  /\ UNCHANGED <<orderly, status, count, ring, told, stop, child, seen>>

-----------------------------------------------------------------------------
(* pmath_done.                                                             *)

Leave(u) ==
  /\ Go(u, "in", "done")
  /\ UNCHANGED <<orderly, status, count, daemons, ring, told, stop, child, seen>>

\* A daemon skips the check of the counters.
ReadCount(t) ==
  /\ Go(t, "done", IF t \in Users THEN "compare" ELSE "release")
  /\ status = "running"
  /\ seen' = [seen EXCEPT ![t] = count]
  /\ UNCHANGED <<orderly, status, count, daemons, ring, told, stop, child>>

\* Mutant: does not count the thread that leaves.
CompareWithoutSelf(t) ==
  /\ Go(t, "compare", IF seen[t] = daemons THEN "kill" ELSE "release")
  /\ seen' = [seen EXCEPT ![t] = 0]
  /\ UNCHANGED <<orderly, status, count, daemons, ring, told, stop, child>>

Compare(t) ==
  /\ Go(t, "compare", IF seen[t] = daemons + 1 THEN "kill" ELSE "release")
  /\ seen' = [seen EXCEPT ![t] = 0]
  /\ UNCHANGED <<orderly, status, count, daemons, ring, told, stop, child>>

\* Mutant: the timer is killed without stopping the workers.
KillWithoutStop(t) ==
  /\ pc[t] = "kill"
  /\ daemons > 0
  /\ told' = told \cup (ring \cap Killable)
  /\ UNCHANGED <<orderly, status, count, daemons, ring, stop, pc, child, seen>>

\* _pmath_threadpool_kill_daemons: one iteration of the loop ...
Kill(t) ==
  /\ pc[t] = "kill"
  /\ daemons > 0
  /\ told' = told \cup (ring \cap Killable)
  /\ stop' = (stop \/ Timer \in ring \ told)
  /\ UNCHANGED <<orderly, status, count, daemons, ring, pc, child, seen>>

\* Mutant: does not wait until the daemons have ended.
KilledAtOnce(t) ==
  /\ Go(t, "kill", "release")
  /\ ring \subseteq told
  /\ UNCHANGED <<orderly, status, count, daemons, ring, told, stop, child, seen>>

\* ... and its end.
Killed(t) ==
  /\ Go(t, "kill", "release")
  /\ daemons <= 0
  /\ UNCHANGED <<orderly, status, count, daemons, ring, told, stop, child, seen>>

Release(t) ==
  /\ Go(t, "release", IF count = 1 THEN "destroy" ELSE "free")
  /\ count' = count - 1
  /\ UNCHANGED <<orderly, status, daemons, ring, told, stop, child, seen>>

\* Where pmath_done returns to.
AfterDone(t) == IF t \in Users THEN "out" ELSE "unregister"

Free(t) ==
  /\ Go(t, "free", AfterDone(t))
  /\ UNCHANGED <<orderly, status, count, daemons, ring, told, stop, child, seen>>

Destroy(t) ==
  /\ Go(t, "destroy", "destroying")
  /\ status' = "destroying"
  /\ UNCHANGED <<orderly, count, daemons, ring, told, stop, child, seen>>

\* The workers stop and the rest of the library is destroyed.
Destroyed(t) ==
  /\ Go(t, "destroying", AfterDone(t))
  /\ stop
  /\ status' = "none"
  /\ UNCHANGED <<orderly, count, daemons, ring, told, stop, child, seen>>

-----------------------------------------------------------------------------
Starts(t) == Begin(t) \/ StartPool(t) \/ Started(t) \/ Loaded(t) \/ Undo(t) \/ GiveUp(t)
Fails(t)  == FailEarly(t) \/ FailLate(t) \/ Interrupt(t)
Finishes(t) ==
  \/ ReadCount(t) \/ Compare(t) \/ Kill(t) \/ Killed(t)
  \/ Release(t) \/ Free(t) \/ Destroy(t) \/ Destroyed(t)
Serves(d) == Enter(d) \/ Register(d) \/ Link(d) \/ Unregister(d)

ForkDaemon(u) ==
  /\ pc[u] = "in"
  /\ \E d \in Daemons \ {Timer} : Fork(u, d)
  /\ UNCHANGED <<stop, daemons, ring>>

Proceeds(t) ==
  \/ Starts(t) \/ Join(t) \/ Forked(t) \/ Finishes(t)
  \/ t \in Daemons /\ Serves(t)

Next ==
  \/ \E u \in Users : Enter(u) \/ ForkDaemon(u) \/ Leave(u) \/ (orderly /\ Fails(u))
  \/ \E d \in Daemons : Unlink(d)
  \/ \E t \in Threads : Proceeds(t)

Spec == Init /\ [][Next]_vars

\* The operating system runs every runnable thread, and a daemon that was
\* killed returns from its callback.
FairSpec ==
  /\ Spec
  /\ \A t \in Threads : WF_vars(Proceeds(t))
  /\ \A d \in Daemons : WF_vars(d \in told /\ Unlink(d))

-----------------------------------------------------------------------------
\* The counter of daemons is negative after a thread that joined while the pool
\* was not there yet has created a daemon, and the pool has reset the counter.
TypeOK ==
  /\ orderly \in BOOLEAN
  /\ status \in {"none", "initializing", "running", "destroying"}
  /\ count \in 0..Cardinality(Threads)
  /\ daemons \in -Cardinality(Daemons)..Cardinality(Daemons)
  /\ ring \subseteq Daemons
  /\ told \subseteq Killable
  /\ stop \in BOOLEAN
  /\ pc \in [Threads ->
       {"out", "born", "first", "second", "starting", "forking", "started", "maininit",
        "in", "undo early", "undo", "give up", "register", "link", "work", "done", "compare", "kill",
        "release", "free", "destroy", "destroying", "unregister"}]
  /\ child \in [Threads -> Daemons \cup {None}]
  /\ seen \in [Threads -> 0..Cardinality(Threads)]

\* Two threads never initialize or destroy the library at the same time, also
\* when it is initialized again while an earlier pmath_done is under way.
OneManager ==
  Cardinality({t \in Threads :
    \/ pc[t] \in {"starting", "started", "maininit", "undo early", "undo", "destroy", "destroying"}
    \/ pc[t] = "forking" /\ child[t] = Timer}) <= 1

\* The next three, and DaemonsKilled, are about one user at a time, and daemons
\* that wait to be killed: of two users, and of a user and a daemon that ends
\* meanwhile, each may find that it is not the last.

\* A daemon's memory, which its kill function uses, is in the ring only while
\* the daemon exists, is counted and has not begun to free it; whoever waits
\* for the counter to reach 0 has waited for every daemon in the ring.
RingCounted == orderly =>
  /\ \A d \in ring : pc[d] = "work"
  /\ daemons = Cardinality({d \in Daemons : pc[d] \notin {"out", "born", "second", "register"}})

\* No thread uses the library, or frees its thread object, while another one
\* destroys it or after that.
Uses(t) == pc[t] \in {"maininit", "in", "forking", "register", "link", "work", "done",
                      "compare", "kill", "release", "free"}
NoUseAfterDestroy ==
  orderly => \A t \in Threads : pc[t] = "destroying" => \A w \in Threads : ~Uses(w)

\* pmath_done of the user destroys the library.
ShutsDown == orderly => \A u \in Users : pc[u] = "done" ~> status = "none"

\* pmath_init returns, unless an initialization fails: "TRUE, if the
\* initialization was successfull, FALSE otherwise" (pmath.h).
InitReturns ==
  ~orderly =>
    \A u \in Users : pc[u] \in {"first", "second", "starting"} ~> pc[u] \in {"in", "out"}

\* "pMath will automatically kill any daemon thread when there are no other
\* threads remaining" (threadpool.h).
DaemonsKilled ==
  orderly /\ <>[](\A u \in Users : pc[u] = "out") => <>[](\A d \in Daemons : pc[d] = "out")
=============================================================================
