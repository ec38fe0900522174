# A TLA+ model of the concurrent core of pMath

pMath is a computer algebra system written in C.  This directory holds TLA+
modules that model the parts of it in which threads meet, the TLC
configurations that check them on small instances, and proofs for the TLA+
proof system.  `PROJECT.json` lists components, runs, mutants of the code,
hazards and theorems, and says for each definition which lines it translates;
all paths below are relative to the repository.

Run `tlc -config X.cfg M` for a run and `tlapm M_proofs.tla` for the proofs
about `M`.  A run `X` or `X_something` belongs to module `X`, or to `MCX` where
values of constants have to be defined.

## 1. Inventory

Directories: `src/library/src` is the library (`pmath-builtins`: functions of
the language, `pmath-core`: objects, `pmath-language`: scanner and patterns,
`pmath-util`: evaluation, concurrency, files, hash tables), `src/library/console`,
`console-win`, `test`, `test-runner` are its front-ends, `src/library/scripts`
is code in the pMath language, `src/richmath` a graphical front-end in C++,
`src/modules` bindings and documentation, `src/debugging`, `src/editors`,
`src/info`, `src/util` tools and notes.  `pmath-util/dlmalloc.c` is third-party.

| Component | State | Operations | Meets others through | Correct when |
|---|---|---|---|---|
| Atomic locations (`include/pmath-util/concurrency/atomic-private.h`) | one word (64-bit) or tag and payload (32-bit); reference counts | `_read`, `_write`, `read_start`/`read_end` (exchange) | symbol values, rules, thread messages, caches | each operation is atomic; no mixed-up object; every reference released once; the location is unlocked again |
| Threadlocks (`concurrency/threadlocks.c`) | lock pointer, reference count, list of owners with one mutex each, `waiting_lock` of each thread | `pmath_thread_call_locked` | callbacks that take other locks, child threads of an owner | exclusion except along lines of ancestors; no mutex used after it was freed; objects recycled when unused; deadlocks detected |
| Task pool (`concurrency/threadpool.c`, `pmath-builtins/parallel/newtask-and-wait.c`) | status, reference count and semaphore of each task; stack of idle tasks; a semaphore for workers | new, ref, unref, wait, abort; the loop of the workers; shutdown | bodies create and wait for tasks; parallel builtins | each body executed at most once, by one thread; waiting ends; no task forgotten; counts exact |
| Life cycle and daemons (`pmath.c`, `concurrency/threadpool.c`) | `_pmath_status`, `pmath_count`, counter and ring of daemons, `stop_threadpool` | `pmath_init`, `pmath_done`, `pmath_thread_fork_daemon`, kill functions | every thread that uses the library | one initializer or destroyer; daemons killed and waited for; nothing used after destruction |
| Messages and sleepers (`concurrency/threadmsg.c`, `event-private.c`, timer thread in `threadpool.c`) | queue with head and tail spinlocks, event, list of sleepers, abort reasons, child queue | send, send and wait, delayed send, sleep, wake-up, handle next | abort, `Wait`, dynamic evaluation | no message lost or handled twice; a sender gets one answer; sleepers wake up |
| Threads (`concurrency/threads.c`) | current and parent thread, exceptions, abort reasons, suspending | throw, catch, `pmath_abort_please`, suspend, resume | all of the above | exceptions reach their thread and no other; the number of abort reasons is exact |
| Parallel builtins (`pmath-builtins/parallel`) | shared index, results, tasks | `ParallelMap`, `ParallelScan`, `ParallelTry`, `Abort` | task pool, exceptions of the calling thread | every item once; as many results as asked for; the call ends |
| Lock-free stacks (`pmath-util/stacks.c`) | head with operation counter | push, pop | pools of tasks, lock objects and symbols | no element lost or returned twice, whatever happens to an element after it was popped |
| Garbage collection (`pmath-util/garbage-collection-private.c`) | marks of temporary symbols, list of all symbols | count, mark, propagate, clear | symbol table, timer, reference counts | only unreachable symbols are cleared, and all of them |
| Rules (`pmath-util/symbol-values-private.c`) | table of constant patterns behind a spinlock, ordered list without a lock | define, apply, unassign, clear | evaluation in all threads | no rule lost; order kept; a rule that is there is found |
| Dynamic objects (`pmath-util/dynamic-private.c`, `pmath-core/symbols.c`, `pmath-builtins/gui`) | two tables of bindings, `current_dynamic_id` of symbols | track, bind, update, remove, suppress | evaluation in all threads, front-end | what an object displays is bound, and its change told |
| Evaluator, data types, hash tables, files, scanner, builtins | sequential data | see `PROJECT.json` | | outside of this project, or candidates for functional models |

What is hard in this code is the interleaving of threads: spinlocks are
released between the choice of a mutex and its use, status words are swapped
and semaphores posted afterwards, counters are read and compared later, lists
are read one element at a time while they change, exceptions are thrown into
threads that are catching others.  Hardly any of it can be reached by the test
suite, which is made of pMath programs.  The hazards are listed one by one in
`PROJECT.json`.

## 2. Modules

Every module that models code has one action for each step that other threads
can tell from the next one: an atomic operation, a critical section of a
spinlock, an operation of a semaphore or mutex.  Reads and writes of variables
that only the thread itself uses are merged into the neighbouring step.  A
location `pc[t]` (in `TaskPool` and `Messages` a stack of frames) says where
thread `t` is.  Definitions whose comment begins with "Mutant:" are wrong
variants of the definition after them, used to see that a property notices.

What is promised:

* `AtomicRegister` - a location of an object: a read, write or exchange takes
  effect at one instant between call and return.
* `AtomicStack` - a stack: each push and pop takes effect at one instant.
* `HierarchicalLock` - a threadlock: a thread enters only while all threads
  inside are its ancestors, and leaves only while none of its descendants is
  inside.
* `TaskOnce` - a task: its body starts once and is over before a wait or an
  abort returns, and it exists until then.  Calls of one thread are inside of
  each other, each at a level of its own, and the innermost returns first.

How it is done:

* `LockedObject` - `_pmath_object_atomic_read`, `_write`, `read_start`,
  `read_end`.  `PMATH_BITSIZE` chooses the build: in a 32-bit build the tag and
  the payload of an object are swapped one after the other, in a 64-bit build
  the whole word is.  `last` is the value a register would hold, it changes
  when a tag word is swapped; `overlap` says whether two threads were ever in
  the middle of a read at the same time.  Both are history variables that no
  action reads otherwise.  The 32-bit build implements `AtomicRegister`, the
  64-bit build does unless reads overlap (see 5).
* `ThreadLocks` - `pmath_thread_call_locked`.  The constants are a forest of
  threads (`Ancestors`), the lock variables and the addresses of lock objects,
  which are bound to a variable by the first call and recycled by the last.
  `calls[t]` is the stack of unfinished calls of `t` (lock, object, chosen
  mutex); while the innermost one executes its callback, `pc[t]` is "client",
  and `t` may call again, start children or return.  `owners` is the list of
  `_pmath_threadlock_private_t` nodes, `held` says who has which mutex.
* `TaskPool` - tasks, workers and `_pmath_threadpool_done`.  The bodies are the
  environment: they create, wait for, abort and release tasks as far as
  `Creator` and `Users` let them, and may leave references in variables
  (`Keepers`), which `pmath_done` clears.  `frames[t]` is the C stack of `t`: a
  body that is executed by a waiting thread is on top of the wait.
* `Lifecycle` - `pmath_init`, `pmath_done`, `daemon_init`, `daemon_proc`,
  `_pmath_threadpool_kill_daemons`.  `orderly` is chosen once and separates two
  environments: one user at a time with daemons that end when they are killed
  (and initializations that may fail), or any users and daemons (and no
  failures).  An initialization that fails after the thread pool was started
  stays at "undo" (see 5).
* `Messages` - `pmath_thread_send`, `pmath_thread_send_wait`,
  `pmath_thread_sleep`, `_pmath_msq_queue_handle_next`, `_pmath_abort_message`,
  `pmath_abort_please` and `pmath_continue_after_abort`.  `frames[t]` is the
  stack of what thread `t` is doing: messages are evaluated on top of whatever
  asked for them, and may send, call and sleep themselves.  The calls among
  the frames are the list `abortable_messages`; `answered` and `pending` are
  `_value` and `_pending_abort_request` of the result objects.  `Place` is the
  walk of a request to abort from the innermost call outwards: each call keeps
  one, and of two the one that goes less far.  `asked` and
  `overlooked` are history variables: the calls that were asked to abort, and the
  threads that went to sleep on a message which the counter of abort reasons did
  not show them (see 5).  The code of threads and messages is the environment,
  limited by the constants: who sends which message to whom, which messages
  are calls, which calls have a time-out, whose code sleeps.
* `Parallel` - `ParallelMap`, `ParallelScan` and `ParallelTry` with the
  exceptions they end with: `change_exception`, `pmath_thread_aborting`,
  `_pmath_thread_clean`.  Each call (`kind[c]`) creates tasks with threads of
  their own; the code applied to an item is the environment, it may return,
  fail, throw, call `Abort()`, run until it is aborted or make another call
  (`Nested`).  `index` and `found` are the shared counters.  `protected` is the
  second part of `Finally`, in which a thread ignores exceptions.  `done`,
  `aborted` are history variables.
* `Stacks` - `pmath_stack_push` and `pmath_stack_pop` on one stack; `lockfree`
  is chosen once and says whether the processor can swap two words.  `next[i]`
  is the first word of an item, which anybody may overwrite while the item is
  not on the stack; whoever has an item may push it again at any time.  `stack`,
  a history variable, changes with `top`.  Two more history variables say which
  threads have read the link of an item that was gone (`late`), and whether one
  of them has taken its item all the same (`misled`).  Until then the module
  implements `AtomicStack`.
* `TempSymbols` - `_pmath_unsafe_run_gc`: the four passes over the list of all
  symbols, with the visitors that count references (`CountRef`) and propagate
  life (`PropagateRef`) as steps of their own.  `bit` and `seen` are the pass
  and the count (or mark) in `gc_refcount`.  Other threads create symbols and
  expressions, assign, read and drop references, before, during and after a
  pass; an object without references is destroyed by a step of its own
  (`Destroy`), and those it refers to may follow.  `outside` are the objects
  with a reference from outside, however many: copying a reference beside
  another one and releasing the copy changes nothing here.  `misled` is a history
  variable: a pass began with counts left from an earlier one, or during it
  somebody replaced a value or gave up the last outside reference to an object.
* `Rules` - `_pmath_rulecache_change`, `_find` and `_clear` with
  `_pmath_multirule_change` and `_find`.  `cells` are the entries of the list,
  `at[t]` the pointers `rule_base` and `rule` with which a thread walks, `calm` is
  a history variable that says whether anything was removed since a call began.
   Memory may run out for an entry of the table (`StoreNowhere`, or the rule goes
  to the list) and of the list (`OutOfMemory`); the code reports success all the
  same (`ReportSuccess`).  Patterns are compared by `Rank`; names of pattern
  variables are abstracted.
* `Dynamic` - `pmath_symbol_track_dynamic`, `_pmath_dynamic_bind`,
  `_pmath_dynamic_update`, `_pmath_dynamic_remove` and the builtins that
  evaluate, remove and suppress.  Each access to a value, to `current_dynamic_id`
  and to the two tables is a step; threads change, read and block the same symbols
  at once, and a block may contain evaluations or be part of one.  Values are
  abstracted to how the value of a symbol went into what an object displays
  (`shown`): "fresh" is the value it has now, "stale" an older one, and "kept" one
  that somebody's block lets an object keep without being told.  The front-end
  evaluates what it is told to.  `crossed` is a history variable: two uses of a
  symbol have crossed in one of five ways (see 5).

`ThreadLocks_proofs`, `LockedObject_proofs`, `TaskPool_proofs`,
`Lifecycle_proofs`, `Messages_proofs`, `Parallel_proofs`, `Stacks_proofs` and
`Symbols_proofs` (`Rules`, `Dynamic` and `TempSymbols`) hold theorems;
`MCThreadLocks`, `MCTaskPool`, `MCMessages`, `MCParallel`, `MCTempSymbols`,
`MCRules` and `MCDynamic` values for constants and symmetries.

The modules do not share variables.  `TaskPool`, `ThreadLocks` and `Parallel`
each contain the others as environment: a thread that has forked children waits
for them in `ThreadLocks` (`Runs`) and `Parallel` (`AllOver`), as
`pmath_task_wait` in `TaskPool` makes it do.  The stack of idle tasks and the
pool of lock objects are atomic in both.  `Stacks` shows this as long as no pop is
misled; the code of tasks and lock objects recycles its items without preventing
that (see 5), so what is said of `TaskPool` and `ThreadLocks` is meant up to then.
The pointers of the list in `Rules` are atomic, which is what `AtomicRegister`
says.

## 3. Runs

| Run | Instance | What it checks |
|---|---|---|
| `LockedObject_32` | three threads, three objects | no read combines the tag of one object with the payload of another (`NoTornValue`), counts are exact (`RefsBalanced`), the location implements the register |
| `LockedObject_64` | two threads that read and exchange, one that writes, four objects | counts are exact, the location holds what was stored last unless reads overlap (`KeptUnlessOverlap`), a locked location is unlocked (`LockReleased`) |
| `ThreadLocks_family` | a parent, two children, a stranger; two locks, two objects; calls nest twice | mutual exclusion, the assertions after the callback, life time of mutexes, exact reference counts, strangers do not wait for each other in a circle (`NoDeadlock`), refinement of `HierarchicalLock`, every call ends (`Drains`) |
| `TaskPool_tasks` | one client, two workers, a task that creates another one and may keep it | exact counts, no forgotten task, refinement of `TaskOnce` (one runner, once), everything ends, shutdown included (`Completes`) |
| `Lifecycle` | two threads, the timer, a daemon that may end by itself; initialization may fail | one manager at a time, nothing used after destruction, `pmath_init` and `pmath_done` return, daemons are killed |
| `Messages_calls` | two threads; two calls with a time-out one way, a message that sleeps the other way; a front-end that aborts and continues | exact number of abort reasons, no lost wake-up, an abort request ends the call it is meant for and no other, calls return |
| `Parallel_calls` | a map, scan or try of three items with two tasks, one endless item; the code of an item makes another map, scan or try with one task; aborts from inside and outside | every item is accounted for (`Accounted`), the exception that ends a call is seen by that call only (`ReturnCaught`), calls return |
| `Stacks` | three threads, two items that are pushed again at any time, with and without compare-and-swap of two words | refinement of `AtomicStack` until a pop is misled (`ImplementsUnlessMisled`), operations return |
| `Stacks_again` | two threads, two items | counterexample to `ImplementsStack` (see 5) |
| `TempSymbols_cycles` | two symbols and an expression of one or two parts, in any shape; other threads go on during passes | no symbol is cleared that can be reached (`OnlyUnusedUnlessMisled`), nothing unreachable is left after a pass (`NothingLeftUnlessMisled`) |
| `Dynamic_uses` | two objects that read one symbol, three threads, three uses and blocks of the symbol at once | until uses have crossed, what is displayed is bound (`WatchedUnlessCrossed`) and what is old is told (`InformedUnlessCrossed`) |
| `Rules_change` | two threads, `f(1)` and `f(~x)` with and without conditions, two bodies, three list entries; memory may run out | order of the list, a search is not answered "no rule" while there is one (`NeverMissed`), no rule falls out of the list (`Kept`), a definition that had memory and returns is recorded |

Each module also has invariants that are not in a run's list, because others
imply or cover them: `TypeOK`, `OneRunner`, `RingCounted`, `SleepersListed`,
`InvalidHasTaker`, `OwnerChain`, and `ReasonsExact` of `Parallel`.  Added to the
`INVARIANTS` of the run they hold there too, and all of them are proved; so is
`~misled => Linked` of `Stacks`.

Bounds.  An object, lock object or item that is freed can be used again at the
same address, so that a few addresses give unbounded histories.  Two locks make
cycles of waiting threads, three threads make a cycle through a parent; nesting
depth 2 contains the reentrant call and the second lock taken under the first.
Two workers race with each other and with the client for the status of a task.
`MaxPosts` limits the posts of a task's semaphore that nobody has consumed: code
waits for a finished task without limit, and each wait leaves one more post.
`MaxDepth` of `TaskPool` limits the operations of a thread inside of each other:
three are a worker that handles a task, the body's wait for another task, and an
operation of the other body.  With two calls from the same thread, the second one
can be evaluated after, before or on top of the first, and the request to abort
the first can arrive in each of these situations.  With a third call a request
gives way to another one, which the proof of `RequestsKept` covers.  Two threads
overlook no message, which is proved; what happens with three was checked in an
instance of its own (see 5).  Three items and two tasks make a task take a second
item while the other one has ended with an exception; the nested call gives a
thread that is child and caller at once.  Three threads and three pops let an item
be popped and pushed again while a pop is under way in a third thread (`MaxPops`
bounds the operation counter).  Two temporary symbols and an expression make
cycles through one and two symbols, with and without the expression in between, an
expression that both symbols share or that contains both, and symbols kept alive
by another, in both orders of the list; the proof is for any number.  With three
threads one of them can block a symbol, the second change it and the third
evaluate an object that reads it; `Load` bounds how many uses and blocks there are
at once, and `Bounded` leaves the states after a crossing aside, of which nothing
is claimed.  Three list entries (`MaxRules`) are a definition with a condition
that moves a rule from the table, beside another one.

Fairness.  Weak fairness of every thread's own steps, that is, the operating
system runs runnable threads and locks are waited for in a loop or by the
system.  Callbacks and bodies end when they call nothing more; nothing makes a
thread call a function or an allocation fail.  A mutex that is free again and
again does not have to be granted to a particular thread: `Drains`, `Completes`,
`CallsReturn` and `Returns` of `Stacks` speak of the time after the last call.
`Messages_calls` does not make a time-out happen, and a thread that is idle looks
for messages, as every evaluation does; `CallsReturn` also excludes code that
sleeps for ever and a caller that is stranded (see 5).  `Returns` of `Parallel`
excludes code that runs for ever and is not aborted.

Deadlock is checked unless the system may stop: in `ThreadLocks_family` kin may
wait for each other (see 5), in `TaskPool_tasks` two threads for one task, in
`Lifecycle` an interrupted initialization waits for ever, in `Messages_calls` a
message may sleep for ever, in `Parallel_calls` everything ends with the outer
call, and both runs of `Stacks` stop at `MaxPops`.  The liveness property of the
task pool therefore assumes that no two threads sleep for the same task
(`WaitTwice`).

## 4. Proofs

`ThreadLocks_proofs` proves, for every forest of threads, every set of locks and
objects and every nesting depth, that the specification always satisfies
`TypeOK`, `MutualExclusion`, `OwnerChain`, `PopRemovesOwnNode`, `MutexExists`,
`RefcountExact` and `NoDeadlock`, and that it implements `HierarchicalLock`
(`Implementation`).  Assumptions: the relation `Ancestors` is a forest, the
set of threads is finite, and `None` and `Fallback` are not threads.

None of these properties is inductive.  That the node at the head of the list
is the thread's own, for example, holds because nobody could push above it: a
descendant needs the mutex of the node and has given it back, since its own
call has ended before the parent went on, and everybody else needs a mutex
that an owner holds.  The inductive invariant `IInv` says this: which calls
own a node (`NodeInv`) and a mutex (`MutexInv`), that an owner whose mutex was
chosen is an ancestor and stays in the list (`ChoiceInv`), that the list is
ordered by descent and each owner holds the mutex of the next (`ChainInv`),
that a thread with a descendant alive is in client code (`LiveInv`), that a
thread has one node for each object (`UniqueInv`, `ReentrantInv`), and that
the counter counts calls (`RefInv`, `BoundInv`).  `StepKeepsIInv` has one lemma
for each action or group of actions that change the same variables; pushing,
popping and choosing are the ones with content.  `Implementation` maps `Push`
and a reentrant `Choose` to entering, `Return` to leaving and other steps to
stuttering.

`NoDeadlock` needs more than `IInv`, because whether threads wait in a circle is
decided by what each of them found in its search long before.  `RingsSeen` says
it of every set of threads, not of circles, which spares the induction along a
chain: if each thread of the set competes for an object whose innermost owner is
in the set (`Ring`), then one of them has its search still before it, or is
searching and looks at an object that the set competes for.  A search cannot
leave such a set: the innermost owner of the object it looks at is in the set,
so that it waits for another object of the set (`Announced`).  The last thread to
join a ring announces itself before it searches, and nothing else closes a ring:
the owner that becomes the innermost one when a node is removed is a parent that
waits for the thread that removed it.  When all threads of a set block and wait
for each other, nobody searches; and the holder of a mutex that blocks is the
innermost owner, because its descendants have ended.  The theorem therefore
says that every circle of threads that wait for locks is noticed; what is not
noticed needs a parent that waits for a child (see 5).

`LockedObject_proofs` proves, for any finite number of threads and any set of
objects, that `LockedObject` always satisfies `TypeOK`, `NoTornValue`,
`RefsBalanced`, `InvalidHasTaker` and `KeptUnlessOverlap` in both builds.  It
implements `AtomicRegister` in a 32-bit build (`Implementation`), and in either
build as long as reads do not overlap (`AtomicUnlessOverlap`: `[]~overlap` is a
hypothesis there).  Assumptions: the set of threads is finite, `None` and
`Invalid` are no objects.  The invariant `IInv` adds what each thread has in `arg`
and `value` at each place (`PlaceInv`), so that each reference has one owner also
when readers overlap and undo each other's writes.  In a 32-bit build the tag
word is a lock (`LockInv`): at most one thread is between taking the tag and
storing one, exactly while the tag is invalid; the words it has taken out are
those of `last`, and a thread that stores the tag has already stored the payload
that belongs to it (`WordsInv`).  No property is inductive without it: an unlocked
location could otherwise be given back with another thread's payload.  `LastInv`
is for `KeptUnlessOverlap`: while no two threads were in the middle of a read, one
at most has taken the object out, and puts back what a register would hold.
`RefsBalanced` counts sets of threads; `HeldChange` says how the count of an object
changes when `arg` and `value` of one thread do.

`TaskPool_proofs` proves, for any finite number of clients, workers and tasks, any
nesting, and any code of the bodies that keeps to `Creator` and `Users`, that
`TaskPool` always satisfies `TypeOK`, `OneRunner`, `RefsExact` and `NoneForgotten`
and implements `TaskOnce`.  Assumptions: the sets are finite, clients are neither
workers nor tasks.  `RefsExact` is not inductive: that a task is not freed under a
thread that waits for it depends on who holds references meanwhile.  `IInv` has
`Shape` (what stacks of operations look like: all but the innermost execute
bodies, a worker's outermost one handles a task it has popped), `Running`
(a task is running exactly while one thread, at one level, executes it or is
about to mark it), `Stacked` (a task is once on the stack or with one worker),
`CallersHold` (the code that waits for a task holds a reference as long as it
waits, since a body that is suspended can release nothing), `Counted` (holders
and the stack's reference make up the count), and `Ended` (a task whose
semaphore was posted, or is about to be, is not executed any more).  Sets are
counted by saying which elements a step adds and removes.  `NoneForgotten`
follows from `IInv` in one more induction: a push announces, a worker looks before
it waits.  In the refinement `New`, `Swap`, `BodyEnds`, the calls with their returns,
and the release of a last reference are visible; `Ended` is what makes a return
from `sem_wait` a return after the body.

`Lifecycle_proofs` proves, for any finite number of users and daemons, that
`Lifecycle` always satisfies `TypeOK`, `OneManager`, `NoUseAfterDestroy` and
`RingCounted`.  Assumptions: users are no daemons, the timer can be killed and does
not end by itself.  In all environments `pmath_count` is the number of threads
between raising and lowering it (`CountInv`), and the counter of daemons that of
those that have raised it, except for some that the start of the pool has
forgotten (`DaemonsInv`); both are counted one thread at a time.  Many users
(`AnyUsers`) are told apart by the counter alone: who brings it from 0 is the first
until it has loaded `maininit.pmath`, who brings it to 0 is the last one.  What
makes this inductive is the last conjunct: when somebody is counted while the
library is not there or is being destroyed, a first thread waits.  So the one that
lowers the counter to 0 cannot meet another one that still destroys, nor one that
has begun anew.  With one user at a time (`OneUser`) the places of the daemons
follow from that of the user: they are all steady while it works, one is on its
way while it is created, and none is left once the counter of daemons has reached
0 in `_pmath_threadpool_kill_daemons`, which is what `NoUseAfterDestroy` rests on.

`Messages_proofs` proves, for any finite number of threads and messages and any
nesting of what threads and messages do, that `Messages` always satisfies
`ReasonsExact`, `MessageWakes`, `AbortStaysInside` and `SleepersListed`.
Assumptions: nobody sends a message to itself, and threads are told from the
places of the front-end.  `Types` and `Stacks` say what a stack of frames looks
like: a thread that sends or sleeps does nothing on top of it, a message is
handled only on top of code or of an operation that looks for messages.  From this
follows what is below a frame that ends, which no other step remembers.
`Addressed` says that entries of a queue are messages to its owner.
`ReasonsExact` is a sum over threads and entries of queues; a step changes it at
one thread, so that each action has to say what it adds to and takes from one
term, also the one that throws and catches (`AbortStep`).  `WillLook` is for
`MessageWakes`: when a message arrives between the last look of a thread at its
queue and its sleep, somebody is about to wake it, or its event is signaled and
keeps it awake.  `Found` says the same of the thread that aborts everything and
the list of sleepers.  `Inside` is `AbortStaysInside`, kept because the frame that
evaluates a call cannot end before the exception for that call is caught.  The
attempt to prove `MessageWakes` showed that it had held because of the two threads
of the run: a thread whose queue is not empty may find the counter at 0 and not
look.  `overlooked` names these threads.  `AlwaysOverlooksInWindow` says that one
comes into it only while another thread has put a message for a third one into a
queue and has not counted it yet, and `TwoThreadsOverlookNothing` that this needs
three threads.  So in the run `MessageWakes` says that no wake-up is lost at all.

`RequestsKept` of `Messages` is proved as well (`AlwaysRequestsKept`), and with it
`TypeOK`.  It is about a request that walks through the calls of a thread and
changes places with others on its way.  The invariant `CallsInv` says that each
call is about to be sent, in a queue, or handled, and that once; that a request is
kept by a call that runs above the call it is for, by one call only; that calls
that were asked to abort run; and that each of them is covered: its request is
kept above it, or an exception ends it or a call below it.  That no request is
lost is then a matter of numbers.  `Way` says of any set of depths, each of which
keeps a depth below itself or nothing, what comes to each and what it keeps
afterwards; each of them passes on what goes further out.  `At` says what holds when
a request comes to a depth, and is followed from the innermost call outwards.
`WayEnds` says that no request is left over: the call next above the one it is for
would otherwise keep a request for a call between the two, and there is none.
These are inductions, on a set of numbers instead of a predicate: a set of
natural numbers that is not empty has a least element (`Least`), which follows
from `WellFoundedInduction`.  Steps that do not change what a stack shows of calls
keep the invariant (`SameView`, `SameBut`); sending, popping, ending a call and
aborting are left.  The attempt showed that `RequestsKept` had not said that the
exception which excuses a request belongs to a call that is not above the
asked one; it says so now.

`Parallel_proofs` proves, for any number of calls, tasks, threads and items and
any nesting, that `Parallel` always satisfies `TypeOK`, `Accounted`,
`ReturnCaught` and `ReasonsExact`.  Assumptions: the set of tasks is finite, a
call with items has a task, each task belongs to one call, and `None` is neither a
thread nor an exception.  `Shape` says how calls, tasks and their threads hang
together: a task is under way only while its call is, and a thread makes one call
at a time.  `Exceptions` says which exception a thread can have in which place;
the one that announces a result is only with threads of such a call
(`ReturnCaught` is a part of it).  `Accounted` needs to know of each item of a
call where it is: `TakenOf` and `TakenBy` say that an item below the shared
counter is done or with one task that has taken it, or has an excuse (`Excused`:
an exception that the calling thread can see, an aborted task, enough results);
`ResultsOf` that each result has a place of its own below the counter of results;
`DueOf` that a task ends only when no item is left or with an excuse.  The threads
that see an exception of a call are a set closed under "is a child of" (`Chain`),
not a path, so that no induction along parents is needed: to show that somebody
does not see an exception, one gives a closed set without it.  The attempt to
prove `ReturnCaught` showed that it fails when a call that still creates its tasks
was not counted as one that may see the exception: the first of two tasks can end
the call before the second one exists.  `Uses` counts such calls now.

`Stacks_proofs` proves, for any threads and items and any number of pops, that
`Stacks` always satisfies `TypeOK`, that until a pop is misled the links from the
top lead through `stack` (`Linked`), and that every step until then is one of
`AtomicStack` (`Implementation`).  The only assumption is that `None` is no item.
What has to be shown is that a swap which succeeds makes the right item the new
top, although the link was read from memory that others may own, and although the
item may have been popped and pushed again since.  `SeenInv` says: if the item was
on the stack when its link was read (the thread is not `late`) and the counter is
still the one that was read, nothing was popped since; the item is still there,
nobody may write its link, and the link that was read is still its link.  A thread
that is late and swaps all the same sets `misled`.  `OwnInv` says that a thread
that pushes an item, or has popped it, is alone with it but for pops that have
seen it at the top, and `LockInv` that the spinlock protects the other variant.
`Linked` is not inductive without all of this.  Successful swaps, and `PushStore`
and `PopTake` under the lock, are visible in the refinement, as are calls, returns
and the observation of an empty stack.

`Symbols_proofs` proves, for any threads, patterns, ranks and number of entries,
that `Rules` always satisfies `TypeOK`, `InOrder`, `NeverMissed`, `Kept` and
`Recorded`.  Assumptions: ranks are natural numbers, patterns of one rank match
the same expressions, there is a pattern and a body, `None` is neither a body nor
a thread.  Memory for entries of the list and the table may run out at any time.
A thread that inserts has read the pointer it came by long ago, and all
it compares is that the pointer has not changed; that its entry fits between the
two must be known from its way.  `IInv` has `TypeOK`, that pointers lead to
entries that were made (`Bounded`), the order itself, and `Placed`: the rule of a
thread on its way belongs behind the entry it has come from.  This is enough
because an entry never moves: its pattern keeps its rank when it is replaced,
and its condition stays.  `InOrder` is about all entries, also those of a list
that was cleared while threads are in it, which is why it needs nothing about
what can be reached from the head.  The other properties are about what the list
contains.  An entry is listed when it is in every set that has the head and with
each entry the next (`From`), a definition that needs no induction: to show that
something stays listed, one gives a set.  Linking an entry in between keeps
everything that could be reached from any entry before.  `SInv` adds to `IInv` that
a thread on its way is in the list as long as nothing was removed (`OnTheWay`),
that a search that must be answered has a rule ahead of it that answers it
(`Answerable`), and that the table is locked while a rule moves (`Holds`).  The
attempt to prove `NeverMissed` showed that `MustAnswer` had promised too much: a rule
on its way into a list that somebody has cleared meanwhile counted as one that
must be found.  It counts as long as its thread is in the list now (`Moving`).

The same module proves, for any threads, symbols and dynamic objects and any
interleaving of their uses, that `Dynamic` always satisfies `WatchedUnlessCrossed`
and `InformedUnlessCrossed`.  Assumption: `Nil` is neither an object nor a symbol.
The invariant `DynamicInv` has a part that holds whatever threads do (`Base`):
where a thread can be and what it has there (`Shape`), that one thread evaluates
an object at a time (`OneEach`), and that what removes an object finds it wherever
it is bound (`Agreed`).  The other part, `Uncrossed`, holds until uses have
crossed.  Neither property is inductive: a displayed symbol that has lost its id
is still watched while a block has put the id away, and an object that has just
read is not bound yet. `FreshInv`, `KeptInv` and `StaleInv` say for each object
and each symbol what it is waiting for: it is bound where the next change looks
(`Bound`), or where the change looks when a block has put the id back (`Later`),
or it is about to be told or bound, or a change has found the ids and is about to
take them (`Due`), or one has written and is about to look (`Resetting`).
`Separate` says that nobody reads a symbol while it is changed, `PastReset` that
a change which has looked for the id leaves none with anybody else, and `Marked`
that an id in a symbol is bound or just about to be.  The last three are what the
crossings of reads and changes, of changes and blocks, and of blocks that leave
would break, and nothing else does: a loss of bindings, in the middle of a
notification or when an object is disposed of, is followed by `Coming`.

About the collector the module proves, for any list of symbols and any finite set
of expressions, which may refer to each other in any way, and with other threads
that go on at any time, that `TempSymbols` always satisfies `OnlyUnusedUnlessMisled`
and `NothingLeftUnlessMisled`.  Assumptions: no symbol is twice in the list, symbols
are no expressions.  The invariant `GCInv` has two parts that hold in any case.
`Shapes` has the types, that references lead to objects that exist, and that
expressions do not consist of each other in circles (`Layered`).  `DeadInv` says that the
counter `num_possibly_dead` is never less than the symbols that are still to be
cleared, which the phase that clears relies on, because it stops when it has cleared
so many; it may be more, when others destroy symbols meanwhile.  The third part,
`Sound`, holds of a pass that is not misled and has a part for each phase.  What other
threads do then is to add (`Adding`): new objects, which are used from outside, and
references to what is used from outside.  So everything is said about the references
that there were when the pass began, `G`, the objects `O` that were used from
outside then, and the new objects `N` (`Since`); what can be reached later can be
reached along `G` from `O`, or is new.  `Counting` says that counts are made of
references, which are pairs of objects: some were visited, the others are those
that `todo` still lists, and together they are all references of what was followed,
that is of the symbols the phase has come to and of the expressions whose count
has reached their reference count.  Expressions whose count stays below it when the
phase ends are `Unexplained`, with all that they consist of.  A symbol whose count equals
its reference count is then used neither from outside nor by one of them
(`Unused`), and this stays so until it is marked otherwise (`MarkInv`), also when
others add references, since they can come only from what is alive.
`PropagateInv` says that what an object that was found alive refers to is alive
itself, or is in `todo`; when a step has resurrected nothing, the objects that are not
possibly dead are therefore closed under references, and hold what can be reached.
`Reachable` is the intersection of all closed sets, so that it needs no induction: one
gives a set.  For `NothingLeftUnlessMisled` two facts are added: each object is used by
somebody while the pass looks for those that are not (`Supported`), and what the
collector takes for alive can be reached (`Complete`).  In a set of expressions that
nobody can reach there would be one that is used by none of the others, so that a
symbol uses it, whose value was cleared.

Only model-checked: liveness (`Drains`, `LockReleased`, `Completes`, `ShutsDown`,
`DaemonsKilled`, `InitReturns`, `CallsReturn`, and both `Returns`), which is out
of reach of this prover as long as it depends on fairness.  Every invariant and
every action property of the passing runs is proved, and so are the four
refinements that they check.

## 5. What the model shows about the code

A finding, with a run:

* `Stacks_again` - `ImplementsStack`, which is what "provides threadsafe push and pop
  operations" means (`stacks.h:10`), fails: the pop reads the head first and the
  operation counter after it (`stacks.c:73-74`).  An item that another thread has
  popped between the two reads is gone when its link is read; when it is pushed again
  before the swap, it passes for untouched, and the stale link becomes the head.  The
  pool of lock objects and the memory of tasks push items again at once.

Properties that the code does not have, which are defined in the modules and
fail in a run of one's own:

* `WaitReturns` of `TaskPool` (two clients, one worker, one task,
  `Users <- Common`): the semaphore of a task is posted once
  (`threadpool.c:258`); the second of two threads that wait for a running task
  never returns.
* `AnswerEndsSleep` of `Messages` (two calls one way, one the other, no
  time-outs): `pmath_thread_send_wait` handles its own messages in the condition of
  its loop and then sleeps without reading the answer again (`threadmsg.c:770`).
  A message that is handled there and itself calls or sleeps consumes the signal
  of the event that came with the answer; the caller sleeps although it has been
  answered, without a time-out for ever.
* `NoneOverlooked` of `Messages` (three threads: a call from the first to the second,
  messages from the third to both, code of the first sleeps): `push_msg` appends a
  message before it counts it (`threadmsg.c:334`), and the receiver may take and
  uncount it in between (`threadmsg.c:378`).  The counter then hides another message,
  `pmath_aborting` does not look for it (`threads.c:401`), and if its signal was
  consumed by a sleep that is over, the thread sleeps on a message it has, unlike
  "They will be awaken any time a message arrives to handle it" (`threadmsg.h:14`).
* `HoldsLastStored` of `LockedObject` in a 64-bit build: a write that overlaps two
  reads is undone by the compare-and-set of the first one
  (`atomic-private.h:109`).
* `NoDeadlock` of `ThreadLocks` for kin: the search for cycles follows
  `waiting_lock` only (`threadlocks.c:227`).  A parent that waits for its children
  waits for no lock; a child that waits for a lock of a stranger, who waits for
  a lock of the parent, is not noticed, although "pMath cares about avoiding
  deadlocks behind the scenes" (`threads.h:29`).
* `TryReturns` of `Parallel`: a task announces the end of `ParallelTry` when it
  finds that all places for results are taken, that is with one success more
  than asked for (`paralleltry.c:54`); with one endless item left the call waits
  for it, unlike "returning the first result received" (`usage.pmath:664`).
* `DaemonsKilled` and `NoUseAfterDestroy` of `Lifecycle` without `orderly`: `pmath_done`
  reads the count, compares it, and lowers it later (`pmath.c:1351`), so that two
  threads at once both find that they are not the last, nobody kills the
  daemons, and the library is not destroyed.  The same happens when a daemon
  that ends by itself is still counted.  A thread that has lowered the count
  frees its thread object, while the one that lowers it after it already
  destroys the library.

What the history variables record, and what goes wrong then:

* `misled` of `Stacks`: the case of the finding.
* `misled` of `TempSymbols`: one bit tells a pass from the last one, so that an
  object which a pass did not come to carries a count that looks fresh two passes
  later (`garbage-collection-private.c:142`).  And nothing keeps other threads
  from going on during a pass: a value is replaced, or the last reference from
  outside is given up, after a reference to the same object was counted; the count
  then equals a reference count that has become smaller, and a symbol which
  somebody reads from the value before that is cleared although it is used.
  `~misled =>` cannot be left out of `OnlyUnusedUnlessMisled` for either reason,
  and not for stale counts out of `NothingLeftUnlessMisled`; what becomes garbage
  during a pass is left for the next one.
* `crossed` of `Dynamic`, five crossings, none of which can be left out.  A change
  begins while somebody has read the symbol and not bound it yet, or a read begins
  during a change: the change is told to nobody (`evaluation.c:606-627`).  A
  change looks for an id while another thread's block has put it away: nobody is
  told, or what the block puts back is told too late.  An id is bound when a
  change, or a block that begins or ends, has removed the mark it set
  (`symbols.c:969-975`): the next change does not look for the binding.  A block
  puts an id back whose object has lost its binding meanwhile
  (`suppress-dynamic-tracking-block.c:64`): the object is not bound again, because
  `pmath_symbol_track_dynamic` returns early for an id that is already there
  (`symbols.c:969`).  The last one needs one thread only, which reads the symbol
  and then changes it inside the block.

Seen while modelling, without a definition of its own:

* Threads and messages: `_pmath_msg_queue_inform_death` returns early for every real
  message queue (`threadmsg.c:426`), so that a call to a thread that has ended
  never returns; a thread with an exception drops its messages unevaluated
  (`evaluation.c:78`), abort requests included; a thread that is about to enter
  the list of sleepers is not woken by `pmath_abort_please` (`threadmsg.c:138`);
  the search for cycles reads the chain one lock at a time and can report a
  cycle that never existed at one instant (`threadlocks.c:197`).
* Start and end: the assertion that tasks left on the stack have one reference
  (`threadpool.c:941`) fails when a task that still runs stores a new task in a
  variable after the variables were cleared; a second thread returns TRUE from
  `pmath_init` while the first one still initializes (`pmath.c:1318`);
  a daemon that it creates at once is lost when the thread pool begins, which
  empties the ring and resets the counter, and the counter is -1 when that
  daemon has ended (`threadpool.c:762`);
  interrupting the initialization waits for workers that were not told to stop
  (`pmath.c:1288`); a daemon without kill function makes `pmath_done` spin until it
  ends (`threadpool.c:417`).
* Parallel builtins: a task whose code calls `Abort()` ends without passing the
  abort on (`threads.c:562`) and takes its next item with it; an item is taken even
  when the task's thread cannot be created; an abort that meets the exception of
  a result is lost; `ParallelTry` goes on after a failed allocation
  (`paralleltry.c:147`); inside the second part of `Finally` children ignore
  exceptions like their parent.
* Rules: unassigning looks only into the table
  (`symbol-values-private.c:889-914`), so that a rule in the list, with a
  condition or a pattern that is not constant, stays, although `lhs := .` "removes
  any rules defined for lhs" (`usage.pmath:958`); a rule is reported as stored
  when there was no memory for it, and one that moves from the table to the list
  is lost then; clearing empties the list before the table, so that a rule on its
  way from the table to the list survives; redefining `f(1)` puts the rule into
  the table, where it hides the ones in the list, which come back when it is
  unassigned; each definition with a condition adds a rule even when it equals one
  that is there; a rule that is replaced in place is written in two steps and read
  in two; a search walks over a list that changes, and its answer need not be the
  right one for any instant (only `NeverMissed` holds);
  `_pmath_symbol_define_value_pos` starts again with a value it has already
  released (`symbol-values-private.c:1137`).
* Collector: the symbol list is read while symbols may be destroyed
  (`symbols.c:1041`); a container that is shared but carries no count of its own
  lets its parts be counted once for each reference.

## 6. Not modelled

* Freeing the pool of lock objects when memory is short, and allocation
  failures in threads that join a running library or a parallel call.
* What happens inside `create_multirule` without memory: it writes through the result
  of `_pmath_create_stub` before anybody looks at it (`symbol-values-private.c:53-64`).
  `OutOfMemory` of `Rules` models the branches of its caller (775, 824) as they are
  written, as if it had returned nothing.
* The message a thread prints when it detects a deadlock, and the exception it
  throws, which unwinds its callbacks like a return.
* Queues of child threads, notifiers, delayed messages and the end of threads
  in `Messages`; suspending threads, which the debugging functions of the memory
  manager use.  `pmath_continue_after_abort` also catches an exception of the thread
  that calls it (`threads.c:453`); this is the front-end, which is none of the
  threads of the model.
* Levels of expressions in the parallel builtins; `ParallelMapIndexed`, which has
  the shape of `ParallelMap`.
* Rules and dispatch tables as places of references, and builtin code of
  symbols, in `TempSymbols`.
* Own values of symbols, messages, and copying, emitting or visiting rules;
  the names of pattern variables; more than one rule cache of a symbol.
* `ignore_dynamic_id`, times of first evaluation, readers of rules and
  attributes, evaluations of a dynamic object inside another one, and blocks of one
  thread inside each other in `Dynamic`.
* Spinlocks, mutexes and semaphores themselves, which are steps.
* Components whose status in `PROJECT.json` is `not_modelled`, with the reason.
  Most of the repository is sequential and works on expressions: the evaluator
  and its hundreds of builtins, number and string types, the parser, the
  typesetting of `richmath`.  What a transition system would say about them is
  their code once more.

## 7. Plan

Done, in this order: threadlocks with proofs, task pool, life cycle, atomic
locations with proofs, messages; stacks, parallel builtins with exceptions,
rules with proofs, dynamic objects, collector, proofs about stacks, 64-bit
locations, the task pool, deadlocks, the life cycle, messages, parallel builtins,
requests to abort, dynamic objects and the collector.  Next:

1. `Messages`: queues of child threads and delayed messages.  Abstract
   specification: a set of messages each of which is handled at most once and
   answered once.
2. Emit and gather on top of `Parallel`: values that child threads emit arrive in
   the innermost gatherer of an ancestor.
3. Own values of symbols (`_pmath_symbol_define_value_pos`) beside `Rules`.
4. Functional models: the hash table with open addressing, buffers of files.
