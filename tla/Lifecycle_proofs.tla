--------------------------- MODULE Lifecycle_proofs ---------------------------
(***************************************************************************)
(* Proofs about Lifecycle for any number of users and daemons: never do    *)
(* two threads initialize or destroy the library at the same time, and     *)
(* with one user at a time nobody uses it while it is destroyed.           *)
(*                                                                         *)
(* What many users have in common is the counter: whoever brings it from 0 *)
(* is the first until the library runs, whoever brings it to 0 is the last *)
(* one that was counted, and a first one waits meanwhile.  With one user   *)
(* at a time the places of the daemons are known from that of the user.    *)
(***************************************************************************)
EXTENDS Lifecycle, FiniteSetTheorems, TLAPS

-----------------------------------------------------------------------------
(* The inductive invariant.                                                *)

\* The threads that pmath_count counts.
Uncounted == {"out", "born", "free", "destroy", "destroying", "unregister"}
Counted   == {t \in Threads : pc[t] \notin Uncounted}
CountInv  == count = Cardinality(Counted)

\* The daemons that have been counted in daemon_init and not uncounted since;
\* when the pool is started, those that are there already are forgotten.
Registers  == {"link", "work", "done", "compare", "kill", "release", "free", "destroy",
               "destroying", "unregister"}
Registered == {d \in Daemons : pc[d] \in Registers}
DaemonsInv ==
  \E lost \in 0 .. Cardinality(Daemons) : daemons = Cardinality(Registered) - lost

Begins(t)  == pc[t] \in {"starting", "started"} \/ (pc[t] = "forking" /\ child[t] = Timer)
Ends(t)    == pc[t] \in {"destroy", "destroying"}
IsFirst(t) == Begins(t) \/ pc[t] \in {"first", "maininit"}

\* Any number of users: one first and one last thread at a time, the status
\* says what they do, and if the library is not running, but somebody is
\* counted, there is a first one that waits.
AnyUsers ==
  /\ \A t \in Threads : pc[t] \notin {"undo early", "undo", "give up"}
  /\ \A t, u \in Threads : IsFirst(t) /\ IsFirst(u) => t = u
  /\ \A t, u \in Threads : Ends(t) /\ Ends(u) => t = u
  /\ status = "initializing" <=> \E t \in Threads : Begins(t)
  /\ status = "destroying" <=> \E t \in Threads : pc[t] = "destroying"
  /\ \A t \in Threads : pc[t] \in {"maininit", "destroy"} => status = "running"
  /\ Counted # {} /\ (status = "none" \/ \E t \in Threads : Ends(t))
       => \E t \in Threads : pc[t] = "first"

\* One user at a time: which daemons there are and where they can be.
Rest      == \A d \in Daemons : pc[d] = "out"
Steady(d) == pc[d] \in {"out", "work"} /\ (pc[d] = "work" => d \notin told)

UserInv(u) ==
  /\ pc[u] \in {"out", "first", "starting", "forking", "started", "maininit", "in",
                "undo early", "undo", "give up", "done", "compare", "kill", "release",
                "destroy", "destroying"}
  /\ pc[u] \in {"first", "starting", "undo early", "give up", "release", "destroy", "destroying"}
       => Rest
  /\ pc[u] \in {"started", "maininit", "in", "undo", "done", "compare"}
       => \A d \in Daemons : Steady(d)
  /\ pc[u] = "forking" =>
       /\ child[u] \in Daemons /\ child[u] \notin told
       /\ pc[child[u]] \in {"born", "second", "register", "link", "work"}
       /\ \A d \in Daemons \ {child[u]} : Steady(d)
  /\ pc[u] = "kill" =>
       \A d \in Daemons : pc[d] \in {"out", "work", "done", "release", "free", "unregister"}
  /\ pc[u] = "compare" => seen[u] = daemons + 1
  /\ pc[u] \in {"forking", "started", "maininit", "in", "undo", "done", "compare"} => ~stop

OneUser ==
  /\ \A u, v \in Users : pc[u] # "out" /\ pc[v] # "out" => u = v
  /\ (\A u \in Users : pc[u] = "out") => Rest
  /\ \A u \in Users : UserInv(u)
  /\ daemons = Cardinality(Registered)
  /\ \A d \in ring : pc[d] = "work"

IInv ==
  /\ TypeOK /\ CountInv /\ DaemonsInv
  /\ orderly => OneUser
  /\ ~orderly => AnyUsers

-----------------------------------------------------------------------------
(* Counting.                                                               *)

\* Adding and removing at most one element changes a cardinality by one.
LEMMA CountChange ==
  ASSUME NEW All, IsFiniteSet(All), NEW S \in SUBSET All, NEW T \in SUBSET All, NEW t \in All,
         \A s \in All \ {t} : s \in S <=> s \in T
  PROVE  /\ Cardinality(S) \in 0 .. Cardinality(All) /\ Cardinality(T) \in 0 .. Cardinality(All)
         /\ t \in T /\ t \notin S => Cardinality(T) = Cardinality(S) + 1
         /\ t \in S /\ t \notin T => Cardinality(T) = Cardinality(S) - 1
         /\ (t \in S <=> t \in T) => Cardinality(T) = Cardinality(S)
<1>1. IsFiniteSet(S) /\ IsFiniteSet(T)
      BY FS_Subset
<1>2. Cardinality(S) \in Nat /\ Cardinality(T) \in Nat /\ Cardinality(All) \in Nat
      BY <1>1, FS_CardinalityType
<1>3. Cardinality(S) <= Cardinality(All) /\ Cardinality(T) <= Cardinality(All)
      BY FS_Subset
<1>4. ASSUME t \in T, t \notin S PROVE Cardinality(T) = Cardinality(S) + 1
  <2>1. T = S \cup {t}
        BY <1>4
  <2> QED BY <1>1, <1>4, <2>1, FS_AddElement
<1>5. ASSUME t \in S, t \notin T PROVE Cardinality(S) = Cardinality(T) + 1
  <2>1. S = T \cup {t}
        BY <1>5
  <2> QED BY <1>1, <1>5, <2>1, FS_AddElement
<1>6. (t \in S <=> t \in T) => S = T
      OBVIOUS
<1> QED BY <1>2, <1>3, <1>4, <1>5, <1>6

\* The thread t moves, all others stay where they are.
Moves(t) == \A u \in Threads \ {t} : pc'[u] = pc[u]

\* pmath_count and the threads that it counts.
LEMMA CountStep ==
  ASSUME NEW t \in Threads, Moves(t)
  PROVE  /\ Cardinality(Counted) \in 0 .. Cardinality(Threads)
         /\ Cardinality(Counted') \in 0 .. Cardinality(Threads)
         /\ pc[t] \in Uncounted /\ pc'[t] \notin Uncounted
              => Cardinality(Counted') = Cardinality(Counted) + 1
         /\ pc[t] \notin Uncounted /\ pc'[t] \in Uncounted
              => Cardinality(Counted') = Cardinality(Counted) - 1
         /\ (pc[t] \in Uncounted <=> pc'[t] \in Uncounted)
              => Cardinality(Counted') = Cardinality(Counted)
<1>1. /\ Counted \in SUBSET Threads /\ Counted' \in SUBSET Threads
      /\ \A u \in Threads \ {t} : u \in Counted <=> u \in Counted'
      /\ t \in Counted <=> pc[t] \notin Uncounted
      /\ t \in Counted' <=> pc'[t] \notin Uncounted
      BY DEF Counted, Moves
<1> QED BY <1>1, CountChange, ThreadsAssumption

\* The counter of daemons and those that it counts.
LEMMA DaemonsStep ==
  ASSUME NEW d \in Daemons, Moves(d)
  PROVE  /\ Cardinality(Registered) \in 0 .. Cardinality(Daemons)
         /\ Cardinality(Registered') \in 0 .. Cardinality(Daemons)
         /\ pc[d] \notin Registers /\ pc'[d] \in Registers
              => Cardinality(Registered') = Cardinality(Registered) + 1
         /\ pc[d] \in Registers /\ pc'[d] \notin Registers
              => Cardinality(Registered') = Cardinality(Registered) - 1
         /\ (pc[d] \in Registers <=> pc'[d] \in Registers)
              => Cardinality(Registered') = Cardinality(Registered)
<1>1. /\ Registered \in SUBSET Daemons /\ Registered' \in SUBSET Daemons
      /\ \A e \in Daemons \ {d} : e \in Registered <=> e \in Registered'
      /\ d \in Registered <=> pc[d] \in Registers
      /\ d \in Registered' <=> pc'[d] \in Registers
      BY DEF Registered, Moves, Threads
<1>2. IsFiniteSet(Daemons)
      BY ThreadsAssumption, FS_Subset DEF Threads
<1> QED BY <1>1, <1>2, CountChange

\* A user is not among the daemons that are counted.
LEMMA UserStep ==
  ASSUME NEW u \in Users, Moves(u)
  PROVE  Registered' = Registered /\ \A d \in Daemons : pc'[d] = pc[d]
BY ThreadsAssumption DEF Registered, Moves, Threads

\* Cardinalities that say that nobody, or one thread alone, is there.
LEMMA SmallSets ==
  /\ Cardinality(Counted) \in Nat /\ Cardinality(Registered) \in Nat
  /\ Cardinality(Counted) = 0 <=> Counted = {}
  /\ Cardinality(Registered) = 0 <=> Registered = {}
  /\ \A t \in Threads : t \in Counted /\ Cardinality(Counted) = 1 => Counted = {t}
  /\ \A t \in Threads : Counted = {t} => Cardinality(Counted) = 1
<1>1. IsFiniteSet(Counted) /\ IsFiniteSet(Registered)
      BY ThreadsAssumption, FS_Subset DEF Counted, Registered, Threads
<1>2. ASSUME NEW t \in Threads, t \in Counted, Cardinality(Counted) = 1
      PROVE  Counted = {t}
      BY <1>1, <1>2, FS_Singleton
<1>3. \A t \in Threads : Counted = {t} => Cardinality(Counted) = 1
      BY FS_Singleton
<1> QED BY <1>1, <1>2, <1>3, FS_CardinalityType, FS_EmptySet

-----------------------------------------------------------------------------
(* What a step does to the places of the threads.                          *)

\* Steps of one thread that neither count it nor cease to count it.
Walks(t) ==
  \/ Begin(t) \/ Started(t) \/ Loaded(t) \/ Undo(t) \/ Join(t) \/ Forked(t)
  \/ t \in Users /\ (Leave(t) \/ (orderly /\ Fails(t)))
  \/ t \in Daemons /\ (Register(t) \/ Link(t) \/ Unlink(t) \/ Unregister(t))
  \/ ReadCount(t) \/ Compare(t) \/ Killed(t) \/ Free(t) \/ Destroy(t) \/ Destroyed(t)

\* Every step is one of these.
LEMMA Kinds ==
  ASSUME Next
  PROVE  \E t \in Threads :
           \/ Walks(t) \/ Enter(t) \/ GiveUp(t) \/ Release(t) \/ Kill(t)
           \/ StartPool(t) \/ (t \in Users /\ ForkDaemon(t))
BY DEF Next, Proceeds, Starts, Finishes, Serves, Walks, Threads

\* A thread that walks remains counted, or uncounted.
LEMMA Walking ==
  ASSUME TypeOK, NEW t \in Threads, Walks(t)
  PROVE  Moves(t) /\ count' = count /\ (pc[t] \in Uncounted <=> pc'[t] \in Uncounted)
BY DEF TypeOK, Walks, Begin, Started, Loaded, Fails, FailEarly, FailLate, Interrupt, Undo,
       Join, Forked, Register, Link, Unlink, Unregister, Leave, ReadCount, Compare, Killed,
       Free, AfterDone, Destroy, Destroyed, Go, Moves, Uncounted

\* A daemon is born while the thread that creates it waits.
LEMMA Forking ==
  ASSUME TypeOK, NEW u \in Threads, NEW d \in Daemons, Fork(u, d), pc[u] \in {"starting", "in"}
  PROVE  /\ u # d /\ pc[d] = "out" /\ pc'[d] = "born" /\ pc'[u] = "forking" /\ child'[u] = d
         /\ \A w \in Threads \ {u, d} : pc'[w] = pc[w]
         /\ \A w \in Threads \ {u} : child'[w] = child[w]
         /\ Counted' = Counted /\ Registered' = Registered /\ count' = count
<1>1. /\ u # d /\ pc[d] = "out" /\ pc'[d] = "born" /\ pc'[u] = "forking" /\ child'[u] = d
      /\ \A w \in Threads \ {u, d} : pc'[w] = pc[w]
      /\ \A w \in Threads \ {u} : child'[w] = child[w]
      /\ count' = count
      BY DEF Fork, TypeOK, Threads
<1>2. \A w \in Threads : pc[w] \in Uncounted <=> pc'[w] \in Uncounted
      BY <1>1 DEF Uncounted
<1>3. \A w \in Daemons : pc[w] \in Registers <=> pc'[w] \in Registers
      BY <1>1 DEF Registers, Threads
<1> QED BY <1>1, <1>2, <1>3 DEF Counted, Registered

\* pmath_count is the number of counted threads, and within its bounds.
LEMMA CountInvStep ==
  ASSUME TypeOK, CountInv, Next
  PROVE  CountInv' /\ count' \in 0 .. Cardinality(Threads)
<1>0. PICK t \in Threads :
        \/ Walks(t) \/ Enter(t) \/ GiveUp(t) \/ Release(t) \/ Kill(t)
        \/ StartPool(t) \/ (t \in Users /\ ForkDaemon(t))
      BY Kinds
<1> DEFINE Goal == CountInv' /\ count' \in 0 .. Cardinality(Threads)
<1>1. CASE Walks(t)
  <2>1. Moves(t) /\ count' = count /\ (pc[t] \in Uncounted <=> pc'[t] \in Uncounted)
        BY <1>1, Walking
  <2> QED BY <2>1, CountStep DEF CountInv
<1>2. CASE Enter(t)
  <2>1. Moves(t) /\ count' = count + 1 /\ pc[t] \in Uncounted /\ pc'[t] \notin Uncounted
        BY <1>2 DEF Enter, Go, Moves, Uncounted, TypeOK
  <2> QED BY <2>1, CountStep DEF CountInv
<1>3. CASE GiveUp(t) \/ Release(t)
  <2>1. Moves(t) /\ count' = count - 1 /\ pc[t] \notin Uncounted /\ pc'[t] \in Uncounted
        BY <1>3 DEF GiveUp, Release, Go, Moves, Uncounted, TypeOK
  <2> QED BY <2>1, CountStep DEF CountInv
<1>4. CASE Kill(t)
      BY <1>4 DEF Kill, CountInv, Counted, TypeOK
<1>5. CASE StartPool(t) \/ ForkDaemon(t)
  <2>1. PICK d \in Daemons : Fork(t, d) /\ pc[t] \in {"starting", "in"}
        BY <1>5, ThreadsAssumption DEF StartPool, ForkDaemon
  <2>2. Counted' = Counted /\ count' = count
        BY <2>1, Forking
  <2> QED BY <2>2 DEF CountInv, TypeOK
<1> QED BY <1>0, <1>1, <1>2, <1>3, <1>4, <1>5

\* The daemons that are counted, as daemons counts them, except those that the
\* start of the pool has forgotten.
LEMMA DaemonsInvStep ==
  ASSUME TypeOK, DaemonsInv, Next
  PROVE  DaemonsInv' /\ daemons' \in -Cardinality(Daemons) .. Cardinality(Daemons)
<1> DEFINE N == Cardinality(Daemons)
<1>0. N \in Nat /\ \A d \in Daemons : Cardinality(Registered) \in 0 .. N
                                        /\ Cardinality(Registered') \in 0 .. N
  <2>1. IsFiniteSet(Daemons)
        BY ThreadsAssumption, FS_Subset DEF Threads
  <2>2. Registered \subseteq Daemons /\ Registered' \subseteq Daemons
        BY DEF Registered
  <2> QED BY <2>1, <2>2, FS_Subset, FS_CardinalityType
<1>1. Cardinality(Registered) \in 0 .. N /\ Cardinality(Registered') \in 0 .. N
      BY <1>0, ThreadsAssumption
<1>2. ASSUME NEW lost \in 0 .. N, daemons' = Cardinality(Registered') - lost
      PROVE  DaemonsInv' /\ daemons' \in -N .. N
      BY <1>0, <1>1, <1>2 DEF DaemonsInv
<1>3. PICK lost \in 0 .. N : daemons = Cardinality(Registered) - lost
      BY DEF DaemonsInv
<1>4. PICK t \in Threads :
        \/ Walks(t) \/ Enter(t) \/ GiveUp(t) \/ Release(t) \/ Kill(t)
        \/ StartPool(t) \/ (t \in Users /\ ForkDaemon(t))
      BY Kinds
<1>5. ASSUME Moves(t), daemons' = daemons,
             t \in Daemons => (pc[t] \in Registers <=> pc'[t] \in Registers)
      PROVE  daemons' = Cardinality(Registered') - lost
      BY <1>3, <1>5, DaemonsStep, UserStep DEF Threads
<1>6. CASE Walks(t) /\ ~(t \in Daemons /\ (Register(t) \/ Unregister(t)))
  <2>1. Moves(t)
        BY <1>6, Walking
  <2>2. daemons' = daemons /\ (t \in Daemons => (pc[t] \in Registers <=> pc'[t] \in Registers))
        BY <1>6, ThreadsAssumption
        DEF TypeOK, Walks, Begin, Started, Loaded, Fails, FailEarly, FailLate, Interrupt, Undo,
            Join, Forked, Link, Unlink, Leave, ReadCount, Compare, Killed,
            Free, AfterDone, Destroy, Destroyed, Go, Registers
  <2> QED BY <2>1, <2>2, <1>5, <1>2
<1>7. CASE t \in Daemons /\ Register(t)
  <2>1. Moves(t) /\ pc[t] \notin Registers /\ pc'[t] \in Registers /\ daemons' = daemons + 1
        BY <1>7 DEF Register, Go, Moves, Registers, TypeOK
  <2>2. Cardinality(Registered') = Cardinality(Registered) + 1
        BY <2>1, <1>7, DaemonsStep
  <2> QED BY <2>1, <2>2, <1>1, <1>2, <1>3
<1>8. CASE t \in Daemons /\ Unregister(t)
  <2>1. Moves(t) /\ pc[t] \in Registers /\ pc'[t] \notin Registers /\ daemons' = daemons - 1
        BY <1>8 DEF Unregister, Go, Moves, Registers, TypeOK
  <2>2. Cardinality(Registered') = Cardinality(Registered) - 1
        BY <2>1, <1>8, DaemonsStep
  <2> QED BY <2>1, <2>2, <1>1, <1>2, <1>3
<1>9. CASE Enter(t) \/ GiveUp(t) \/ Release(t)
  <2>1. /\ Moves(t) /\ daemons' = daemons
        /\ t \in Daemons => (pc[t] \in Registers <=> pc'[t] \in Registers)
        BY <1>9, ThreadsAssumption DEF TypeOK, Enter, GiveUp, Release, Go, Moves, Registers
  <2> QED BY <2>1, <1>5, <1>2
<1>10. CASE Kill(t)
  <2>1. Registered' = Registered /\ daemons' = daemons
        BY <1>10 DEF Kill, Registered
  <2> QED BY <2>1, <1>2, <1>3
<1>11. CASE StartPool(t)
  <2>1. daemons' = 0
        BY <1>11 DEF StartPool
  <2>2. PICK lost2 \in 0 .. N : lost2 = Cardinality(Registered')
        BY <1>1
  <2>3. daemons' = Cardinality(Registered') - lost2
        BY <2>1, <2>2, <1>0
  <2> QED BY <2>3, <1>2
<1>12. CASE t \in Users /\ ForkDaemon(t)
  <2>1. PICK d \in Daemons : Fork(t, d) /\ pc[t] \in {"starting", "in"}
        BY <1>12 DEF ForkDaemon
  <2>2. Registered' = Registered
        BY <2>1, Forking
  <2>3. daemons' = Cardinality(Registered') - lost
        BY <2>2, <1>12, <1>3 DEF ForkDaemon
  <2> QED BY <2>3, <1>2
<1> QED BY <1>4, <1>6, <1>7, <1>8, <1>9, <1>10, <1>11, <1>12 DEF Walks

\* Type correctness, given the bounds of the counters.
LEMMA TypeOKStep ==
  ASSUME TypeOK, CountInv, DaemonsInv, Next
  PROVE  TypeOK'
<1>1. /\ count' \in 0 .. Cardinality(Threads)
      /\ daemons' \in -Cardinality(Daemons) .. Cardinality(Daemons)
      BY CountInvStep, DaemonsInvStep
<1> DEFINE Others ==
  /\ orderly' \in BOOLEAN
  /\ status' \in {"none", "initializing", "running", "destroying"}
  /\ ring' \subseteq Daemons
  /\ told' \subseteq Killable
  /\ stop' \in BOOLEAN
  /\ pc' \in [Threads ->
       {"out", "born", "first", "second", "starting", "forking", "started", "maininit",
        "in", "undo early", "undo", "give up", "register", "link", "work", "done", "compare", "kill",
        "release", "free", "destroy", "destroying", "unregister"}]
  /\ child' \in [Threads -> Daemons \cup {None}]
  /\ seen' \in [Threads -> 0..Cardinality(Threads)]
<1>2. PICK t \in Threads :
        \/ Walks(t) \/ Enter(t) \/ GiveUp(t) \/ Release(t) \/ Kill(t)
        \/ StartPool(t) \/ (t \in Users /\ ForkDaemon(t))
      BY Kinds
<1>3. ASSUME Walks(t) PROVE Others
  <2>1. CASE Begin(t) \/ Started(t) \/ Loaded(t) \/ Undo(t) \/ Join(t)
        BY <2>1 DEF TypeOK, Begin, Started, Loaded, Undo, Join, Go
  <2>2. CASE Forked(t)
        BY <2>2 DEF TypeOK, Forked, Go
  <2>3. CASE Leave(t) \/ Fails(t)
        BY <2>3 DEF TypeOK, Leave, Fails, FailEarly, FailLate, Interrupt, Go
  <2>4. CASE t \in Daemons /\ (Register(t) \/ Link(t) \/ Unlink(t) \/ Unregister(t))
        BY <2>4 DEF TypeOK, Register, Link, Unlink, Unregister, Go
  <2>5. CASE ReadCount(t)
        BY <2>5 DEF TypeOK, ReadCount, Go
  <2>6. CASE Compare(t)
    <3>1. 0 \in 0 .. Cardinality(Threads)
          BY ThreadsAssumption, FS_CardinalityType
    <3>2. seen' \in [Threads -> 0 .. Cardinality(Threads)]
          BY <3>1, <2>6 DEF TypeOK, Compare
    <3>3. pc' \in [Threads ->
            {"out", "born", "first", "second", "starting", "forking", "started", "maininit",
             "in", "undo early", "undo", "give up", "register", "link", "work", "done", "compare",
             "kill", "release", "free", "destroy", "destroying", "unregister"}]
          BY <2>6 DEF TypeOK, Compare, Go
    <3> QED BY <3>2, <3>3, <2>6 DEF TypeOK, Compare
  <2>7. CASE Killed(t) \/ Free(t) \/ Destroy(t) \/ Destroyed(t)
        BY <2>7 DEF TypeOK, Killed, Free, AfterDone, Destroy, Destroyed, Go
  <2> QED BY <1>3, <2>1, <2>2, <2>3, <2>4, <2>5, <2>6, <2>7 DEF Walks
<1>4. ASSUME Enter(t) \/ GiveUp(t) \/ Release(t) \/ Kill(t) PROVE Others
      BY <1>4 DEF TypeOK, Enter, GiveUp, Release, Kill, Go
<1>5. ASSUME StartPool(t) \/ (t \in Users /\ ForkDaemon(t)) PROVE Others
  <2>1. PICK d \in Daemons : Fork(t, d)
        BY <1>5, ThreadsAssumption DEF StartPool, ForkDaemon
  <2>2. ring' \subseteq Daemons /\ stop' \in BOOLEAN /\ seen' = seen
        BY <1>5, <2>1 DEF TypeOK, StartPool, ForkDaemon, Fork
  <2> QED BY <2>1, <2>2 DEF TypeOK, Fork
<1>6. Others
      BY <1>2, <1>3, <1>4, <1>5
<1> QED BY <1>1, <1>6 DEF TypeOK

-----------------------------------------------------------------------------
(* Any number of users.                                                    *)

\* Only the places count where threads begin and end.
LEMMA AnyUsersQuiet ==
  ASSUME AnyUsers, status' = status, Counted' = Counted,
         \A w \in Threads :
           /\ Begins(w)' <=> Begins(w)
           /\ \A p \in {"first", "maininit", "destroy", "destroying"} : pc'[w] = p <=> pc[w] = p
           /\ pc'[w] \notin {"undo early", "undo", "give up"}
  PROVE  AnyUsers'
<1>1. \A w \in Threads : (IsFirst(w)' <=> IsFirst(w)) /\ (Ends(w)' <=> Ends(w))
      BY DEF IsFirst, Ends
<1>2. \A w \in Threads :
        /\ pc'[w] = "first" <=> pc[w] = "first"
        /\ pc'[w] = "maininit" <=> pc[w] = "maininit"
        /\ pc'[w] = "destroy" <=> pc[w] = "destroy"
        /\ pc'[w] = "destroying" <=> pc[w] = "destroying"
      OBVIOUS
<1> HIDE DEF Begins, IsFirst, Ends
<1> QED BY <1>1, <1>2 DEF AnyUsers

\* The first thread is the only one that begins, and while somebody ends the
\* library, or has ended it, no other one than a waiting first thread is.
LEMMA AnyUsersFacts ==
  ASSUME AnyUsers, NEW t \in Threads
  PROVE  /\ Begins(t) => /\ status = "initializing"
                         /\ \A w \in Threads : w # t => ~IsFirst(w)
                         /\ \A w \in Threads : ~Ends(w)
         /\ Ends(t) => \A w \in Threads : ~Begins(w) /\ pc[w] # "maininit"
         /\ pc[t] = "first" => \A w \in Threads : w # t => ~IsFirst(w)
<1>1. \A w \in Threads : Begins(w) \/ pc[w] = "maininit" => w \in Counted
      BY DEF Begins, Counted, Uncounted
<1>2. ASSUME Ends(t), NEW w \in Threads, Begins(w) \/ pc[w] = "maininit"
      PROVE  FALSE
  <2>1. PICK x \in Threads : pc[x] = "first"
        BY <1>1, <1>2 DEF AnyUsers
  <2>2. x = w
        BY <1>2, <2>1 DEF AnyUsers, IsFirst
  <2> QED BY <1>2, <2>1, <2>2 DEF Begins
<1>3. ASSUME Begins(t), NEW w \in Threads, Ends(w)
      PROVE  FALSE
  <2>1. PICK x \in Threads : pc[x] = "first"
        BY <1>1, <1>3 DEF AnyUsers
  <2>2. x = t
        BY <1>3, <2>1 DEF AnyUsers, IsFirst
  <2> QED BY <1>3, <2>1, <2>2 DEF Begins
<1> QED BY <1>2, <1>3 DEF AnyUsers, IsFirst

\* What t alone does keeps AnyUsers, if t does one of these.
LEMMA AnyUsersStep ==
  ASSUME TypeOK, CountInv, AnyUsers, ~orderly, Next
  PROVE  AnyUsers'
<1>0. PICK t \in Threads :
        \/ Walks(t) \/ Enter(t) \/ GiveUp(t) \/ Release(t) \/ Kill(t)
        \/ StartPool(t) \/ (t \in Users /\ ForkDaemon(t))
      BY Kinds
<1> DEFINE Alone == /\ \A w \in Threads \ {t} : pc'[w] = pc[w] /\ child'[w] = child[w]
                    /\ pc'[t] \notin {"undo early", "undo", "give up"}
<1>1. ASSUME Alone
      PROVE  /\ \A w \in Threads \ {t} : /\ Begins(w)' <=> Begins(w)
                                         /\ IsFirst(w)' <=> IsFirst(w)
                                         /\ Ends(w)' <=> Ends(w)
                                         /\ w \in Counted' <=> w \in Counted
             /\ \A w \in Threads : pc'[w] \notin {"undo early", "undo", "give up"}
      BY <1>1 DEF Begins, IsFirst, Ends, Counted, AnyUsers
<1>2. CASE Begin(t)
  <2>1. Alone /\ pc[t] = "first" /\ pc'[t] = "starting" /\ status = "none" /\ status' = "initializing"
        BY <1>2 DEF Begin, Go, TypeOK
  <2>2. Begins(t)' /\ IsFirst(t)' /\ ~Ends(t)'
        BY <2>1 DEF Begins, IsFirst, Ends
  <2>3. \A w \in Threads : w # t => ~IsFirst(w)
        BY <2>1, AnyUsersFacts
  <2>4. \A w \in Threads : ~Ends(w) /\ pc[w] \notin {"maininit", "destroy", "destroying"}
        BY <2>1 DEF AnyUsers, Ends
  <2>5. \A w \in Threads : ~Ends(w)' /\ pc'[w] \notin {"maininit", "destroy", "destroying"}
        BY <2>1, <2>2, <2>4, <1>1
  <2>6. \A w \in Threads : IsFirst(w)' => w = t
        BY <2>1, <2>3, <1>1
  <2> QED BY <2>1, <2>2, <2>5, <2>6, <1>1 DEF AnyUsers
<1>3. CASE Started(t)
  <2>1. Alone /\ pc[t] = "started" /\ pc'[t] = "maininit" /\ status' = "running"
        BY <1>3 DEF Started, Go, TypeOK
  <2>2. Begins(t) /\ ~Begins(t)' /\ IsFirst(t)' /\ ~Ends(t)'
        BY <2>1 DEF Begins, IsFirst, Ends
  <2>3. \A w \in Threads : (w # t => ~IsFirst(w)) /\ ~Ends(w)
        BY <2>2, AnyUsersFacts
  <2>4. \A w \in Threads : (IsFirst(w)' => w = t) /\ ~Ends(w)' /\ ~Begins(w)'
        BY <2>1, <2>2, <2>3, <1>1 DEF IsFirst
  <2>5. \A w \in Threads : pc'[w] \notin {"destroy", "destroying"}
        BY <2>4 DEF Ends
  <2> QED BY <2>1, <2>4, <2>5, <1>1 DEF AnyUsers
<1>4. CASE Loaded(t)
  <2>1. Alone /\ pc[t] = "maininit" /\ pc'[t] = "in" /\ status' = status
        BY <1>4 DEF Loaded, Go, TypeOK
  <2>2. ~Begins(t) /\ IsFirst(t) /\ ~Begins(t)' /\ ~IsFirst(t)' /\ ~Ends(t)' /\ ~Ends(t)
        BY <2>1 DEF Begins, IsFirst, Ends
  <2>3. t \in Counted
        BY <2>1 DEF Counted, Uncounted
  <2>4. \A w \in Threads : pc'[w] \in {"first", "maininit", "destroy", "destroying"}
                             => pc[w] = pc'[w]
        BY <2>1
  <2>5. \A w \in Threads : (IsFirst(w)' => IsFirst(w)) /\ (Ends(w)' <=> Ends(w))
                             /\ (Begins(w)' <=> Begins(w))
        BY <2>1, <2>2, <1>1
  <2>6. \A w \in Threads : pc[w] \in {"first", "destroying"} => pc'[w] = pc[w]
        BY <2>1
  <2> QED BY <2>1, <2>3, <2>4, <2>5, <2>6, <1>1 DEF AnyUsers
<1>5. CASE Destroy(t)
  <2>1. Alone /\ pc[t] = "destroy" /\ pc'[t] = "destroying" /\ status' = "destroying"
        BY <1>5 DEF Destroy, Go, TypeOK
  <2>2. Ends(t) /\ Ends(t)' /\ ~Begins(t)' /\ ~IsFirst(t)'
        BY <2>1 DEF Begins, IsFirst, Ends
  <2>3. t \notin Counted /\ t \notin Counted'
        BY <2>1 DEF Counted, Uncounted
  <2>4. Counted' = Counted
        BY <2>1, <2>3, <1>1 DEF Counted
  <2>5. \A w \in Threads : ~Begins(w) /\ pc[w] # "maininit"
        BY <2>2, AnyUsersFacts
  <2>6. \A w \in Threads : Ends(w) => w = t
        BY <2>2 DEF AnyUsers
  <2>7. \A w \in Threads : /\ ~Begins(w)' /\ pc'[w] \notin {"maininit", "destroy"}
                           /\ Ends(w)' => w = t
                           /\ IsFirst(w)' => IsFirst(w)
    <3>1. \A w \in Threads : ~Begins(w)' /\ (IsFirst(w)' => IsFirst(w)) /\ (Ends(w)' => w = t)
          BY <2>1, <2>2, <2>5, <2>6, <1>1
    <3> QED BY <3>1, <2>1, <2>5, <2>6 DEF Ends
  <2>8. \A w \in Threads : pc[w] = "first" => pc'[w] = "first"
        BY <2>1
  <2> QED BY <2>1, <2>2, <2>4, <2>7, <2>8, <1>1 DEF AnyUsers
<1>6. CASE Destroyed(t)
  <2>1. Alone /\ pc[t] = "destroying" /\ pc'[t] \in {"out", "unregister"} /\ status' = "none"
        BY <1>6 DEF Destroyed, AfterDone, Go, TypeOK
  <2>2. Ends(t) /\ ~Ends(t)' /\ ~Begins(t)' /\ ~IsFirst(t)'
        BY <2>1 DEF Begins, IsFirst, Ends
  <2>3. t \notin Counted /\ t \notin Counted'
        BY <2>1 DEF Counted, Uncounted
  <2>4. Counted' = Counted
        BY <2>1, <2>3, <1>1 DEF Counted
  <2>5. \A w \in Threads : ~Begins(w) /\ pc[w] # "maininit"
        BY <2>2, AnyUsersFacts
  <2>6. \A w \in Threads : Ends(w) => w = t
        BY <2>2 DEF AnyUsers
  <2>7. \A w \in Threads : ~Begins(w)' /\ ~Ends(w)' /\ (IsFirst(w)' => IsFirst(w))
        BY <2>1, <2>2, <2>5, <2>6, <1>1
  <2>8. \A w \in Threads : pc'[w] \notin {"maininit", "destroy", "destroying"}
        BY <2>1, <2>5, <2>7 DEF Ends
  <2>9. \A w \in Threads : pc[w] = "first" => pc'[w] = "first"
        BY <2>1
  <2> QED BY <2>1, <2>2, <2>4, <2>7, <2>8, <2>9, <1>1 DEF AnyUsers
<1>7. CASE Release(t)
  <2>1. /\ Alone /\ pc[t] = "release" /\ pc'[t] = (IF count = 1 THEN "destroy" ELSE "free")
        /\ status' = status
        BY <1>7 DEF Release, Go, TypeOK
  <2>2. /\ ~Begins(t) /\ ~Begins(t)' /\ ~IsFirst(t) /\ ~IsFirst(t)' /\ ~Ends(t)
        /\ t \in Counted /\ t \notin Counted'
        BY <2>1 DEF Begins, IsFirst, Ends, Counted, Uncounted
  <2>3. \A w \in Threads : (Begins(w)' <=> Begins(w)) /\ (IsFirst(w)' <=> IsFirst(w))
        BY <2>1, <2>2, <1>1
  <2>4. \A w \in Threads : \A p \in {"first", "maininit", "destroying"} : pc'[w] = p <=> pc[w] = p
        BY <2>1
  <2>5. CASE count = 1
    <3>1. Counted = {t}
          BY <2>2, <2>5, SmallSets DEF CountInv
    <3>2. \A w \in Threads : ~IsFirst(w)
          BY <3>1, <2>2 DEF Counted, IsFirst, Begins, Uncounted
    <3>3. status = "running" /\ \A w \in Threads : ~Ends(w)
      <4>1. Counted # {} /\ \A w \in Threads : pc[w] # "first" /\ ~Begins(w)
            BY <3>1, <3>2 DEF IsFirst
      <4>2. status \notin {"none", "initializing"} /\ \A w \in Threads : ~Ends(w)
            BY <4>1 DEF AnyUsers
      <4>3. status # "destroying"
            BY <4>2 DEF AnyUsers, Ends
      <4> QED BY <4>2, <4>3 DEF TypeOK
    <3>4. Counted' = {}
          BY <3>1, <2>1, <2>2, <1>1 DEF Counted
    <3>5. \A w \in Threads : Ends(w)' => w = t
          BY <3>3, <2>1, <1>1
    <3>6. \A w \in Threads : pc'[w] # "destroying" /\ ~Begins(w)' /\ ~IsFirst(w)'
          BY <3>2, <3>3, <2>3, <2>4 DEF Ends, IsFirst
    <3>7. status # "destroying" /\ status # "initializing"
          BY <3>3
    <3> QED BY <3>3, <3>4, <3>5, <3>6, <3>7, <2>1, <1>1 DEF AnyUsers
  <2>6. CASE count # 1
    <3>1. pc'[t] = "free" /\ ~Ends(t)'
          BY <2>1, <2>6 DEF Ends
    <3>2. \A w \in Threads : Ends(w)' <=> Ends(w)
          BY <3>1, <2>1, <2>2, <1>1
    <3>3. \A w \in Threads : pc'[w] \in {"maininit", "destroy"} => pc[w] = pc'[w]
          BY <3>1, <2>1
    <3>4. Counted' # {} => Counted # {}
          BY <2>2
    <3>5. \A w \in Threads : /\ pc'[w] = "destroying" <=> pc[w] = "destroying"
                             /\ pc'[w] = "first" <=> pc[w] = "first"
          BY <2>4
    <3> QED BY <3>2, <3>3, <3>4, <3>5, <2>1, <2>3, <1>1 DEF AnyUsers
  <2> QED BY <2>5, <2>6
<1>8. CASE Enter(t)
  <2>1. /\ Alone /\ pc[t] \in {"out", "born"} /\ pc'[t] = (IF count = 0 THEN "first" ELSE "second")
        /\ status' = status
        BY <1>8 DEF Enter, Go, TypeOK
  <2>2. /\ ~Begins(t) /\ ~Begins(t)' /\ ~IsFirst(t) /\ ~Ends(t) /\ ~Ends(t)'
        /\ t \notin Counted /\ t \in Counted'
        BY <2>1 DEF Begins, IsFirst, Ends, Counted, Uncounted
  <2>3. \A w \in Threads : (Begins(w)' <=> Begins(w)) /\ (Ends(w)' <=> Ends(w))
        BY <2>1, <2>2, <1>1
  <2>4. \A w \in Threads : /\ pc'[w] = "destroying" <=> pc[w] = "destroying"
                           /\ pc'[w] \in {"maininit", "destroy"} => pc[w] = pc'[w]
                           /\ pc[w] = "first" => pc'[w] = "first"
        BY <2>1
  <2>5. CASE count = 0
    <3>1. Counted = {}
          BY <2>5, SmallSets DEF CountInv
    <3>2. \A w \in Threads : ~IsFirst(w)
          BY <3>1 DEF Counted, IsFirst, Begins, Uncounted
    <3>3. \A w \in Threads : IsFirst(w)' => w = t
          BY <3>2, <2>1, <1>1
    <3>4. pc'[t] = "first"
          BY <2>1, <2>5
    <3> QED BY <3>3, <3>4, <2>1, <2>3, <2>4, <1>1 DEF AnyUsers
  <2>6. CASE count # 0
    <3>1. Counted # {}
          BY <2>6, SmallSets DEF CountInv
    <3>2. ~IsFirst(t)'
          BY <2>1, <2>2, <2>6 DEF IsFirst
    <3>3. \A w \in Threads : IsFirst(w)' => IsFirst(w)
          BY <3>2, <2>1, <1>1
    <3> QED BY <3>1, <3>3, <2>1, <2>3, <2>4, <1>1 DEF AnyUsers
  <2> QED BY <2>5, <2>6
<1>9. CASE StartPool(t) \/ (t \in Users /\ ForkDaemon(t))
  <2>1. PICK d \in Daemons :
          /\ Fork(t, d) /\ pc[t] \in {"starting", "in"} /\ (pc[t] = "starting" <=> d = Timer)
        BY <1>9, ThreadsAssumption DEF StartPool, ForkDaemon
  <2>2. /\ t # d /\ pc[d] = "out" /\ pc'[d] = "born" /\ pc'[t] = "forking" /\ child'[t] = d
        /\ \A w \in Threads \ {t, d} : pc'[w] = pc[w]
        /\ \A w \in Threads \ {t} : child'[w] = child[w]
        /\ Counted' = Counted
        BY <2>1, Forking
  <2>3. status' = status
        BY <2>1 DEF Fork
  <2>4. \A w \in Threads :
           /\ Begins(w)' <=> Begins(w)
           /\ \A p \in {"first", "maininit", "destroy", "destroying"} : pc'[w] = p <=> pc[w] = p
           /\ pc'[w] \notin {"undo early", "undo", "give up"}
    <3>1. Begins(t)' <=> Begins(t)
          BY <2>1, <2>2 DEF Begins
    <3>2. ~Begins(d)' /\ ~Begins(d)
          BY <2>2 DEF Begins
    <3>3. \A w \in Threads \ {t, d} : Begins(w)' <=> Begins(w)
          BY <2>2 DEF Begins
    <3>4. \A w \in Threads : pc'[w] \notin {"undo early", "undo", "give up"}
          BY <2>2 DEF AnyUsers
    <3>5. \A w \in Threads :
            \A p \in {"first", "maininit", "destroy", "destroying"} : pc'[w] = p <=> pc[w] = p
          BY <2>1, <2>2
    <3> QED BY <3>1, <3>2, <3>3, <3>4, <3>5
  <2> QED BY <2>2, <2>3, <2>4, AnyUsersQuiet
<1>10. CASE Kill(t)
  <2>1. pc' = pc /\ child' = child /\ status' = status
        BY <1>10 DEF Kill
  <2>2. Counted' = Counted /\ \A w \in Threads : Begins(w)' <=> Begins(w)
        BY <2>1 DEF Counted, Begins
  <2>3. \A w \in Threads : pc'[w] \notin {"undo early", "undo", "give up"}
        BY <2>1 DEF AnyUsers
  <2> QED BY <2>1, <2>2, <2>3, AnyUsersQuiet
<1>11. CASE \/ Join(t) \/ Forked(t) \/ ReadCount(t) \/ Compare(t) \/ Killed(t) \/ Free(t)
            \/ t \in Users /\ (Leave(t) \/ (orderly /\ Fails(t)))
            \/ t \in Daemons /\ (Register(t) \/ Link(t) \/ Unlink(t) \/ Unregister(t))
  <2>1. /\ Alone /\ status' = status
        /\ pc[t] \in Uncounted <=> pc'[t] \in Uncounted
        /\ \A p \in {"first", "maininit", "destroy", "destroying"} : pc'[t] = p <=> pc[t] = p
    <3>1. CASE Forked(t)
          BY <3>1 DEF Forked, Go, TypeOK, Uncounted
    <3>2. CASE ~Forked(t)
          BY <1>11, <3>2
          DEF Join, ReadCount, Compare, Killed, Free, AfterDone, Leave, Register, Link, Unlink,
              Unregister, Go, TypeOK, Uncounted
    <3> QED BY <3>1, <3>2
  <2>2. Begins(t)' <=> Begins(t)
    <3>1. CASE Forked(t)
      <4>1. pc[t] = "forking" /\ pc'[t] = IF child[t] = Timer THEN "started" ELSE "in"
            BY <3>1 DEF Forked, Go, TypeOK
      <4> QED BY <4>1 DEF Begins
    <3>2. CASE ~Forked(t)
          BY <1>11, <3>2
          DEF Join, ReadCount, Compare, Killed, Free, AfterDone, Leave, Register, Link, Unlink,
              Unregister, Go, TypeOK, Begins
    <3> QED BY <3>1, <3>2
  <2>3. Counted' = Counted
        BY <2>1 DEF Counted
  <2>4. \A w \in Threads : Begins(w)' <=> Begins(w)
        BY <2>1, <2>2, <1>1
  <2>5. \A w \in Threads : pc'[w] \notin {"undo early", "undo", "give up"}
        BY <2>1, <1>1
  <2>6. \A w \in Threads :
          \A p \in {"first", "maininit", "destroy", "destroying"} : pc'[w] = p <=> pc[w] = p
        BY <2>1
  <2> QED BY <2>1, <2>3, <2>4, <2>5, <2>6, AnyUsersQuiet
<1>12. ~Undo(t) /\ ~GiveUp(t)
      BY DEF AnyUsers, Undo, GiveUp, Go
<1> QED BY <1>0, <1>2, <1>3, <1>4, <1>5, <1>6, <1>7, <1>8, <1>9, <1>10, <1>11, <1>12 DEF Walks

-----------------------------------------------------------------------------
(* One user at a time.                                                     *)

\* While one user u is there, only what concerns u and the daemons counts.
LEMMA OneUserOnly ==
  ASSUME NEW u \in Users,
         \A v \in Users \ {u} : pc'[v] = "out",
         UserInv(u)', pc'[u] = "out" => Rest',
         daemons' = Cardinality(Registered'), \A d \in ring' : pc'[d] = "work"
  PROVE  OneUser'
<1>1. \A v \in Users \ {u} : UserInv(v)'
      BY DEF UserInv
<1> QED BY <1>1 DEF OneUser

\* Where a daemon can be is known from where the user is.
LEMMA DaemonPlaces ==
  ASSUME OneUser, NEW d \in Daemons, pc[d] # "out"
  PROVE  \E u \in Users :
           /\ pc[u] # "out" /\ \A v \in Users \ {u} : pc[v] = "out"
           /\ \/ pc[u] = "forking" /\ child[u] = d /\ d \notin told
                 /\ pc[d] \in {"born", "second", "register", "link", "work"}
              \/ /\ pc[u] = "kill"
                 /\ pc[d] \in {"work", "done", "release", "free", "unregister"}
              \/ pc[d] = "work" /\ d \notin told
<1>1. PICK u \in Users : pc[u] # "out"
      BY DEF OneUser, Rest
<1>2. \A v \in Users \ {u} : pc[v] = "out"
      BY <1>1 DEF OneUser
<1>3. UserInv(u)
      BY DEF OneUser
<1>4. \/ pc[u] = "forking" /\ child[u] = d /\ d \notin told
         /\ pc[d] \in {"born", "second", "register", "link", "work"}
      \/ /\ pc[u] = "kill"
         /\ pc[d] \in {"work", "done", "release", "free", "unregister"}
      \/ pc[d] = "work" /\ d \notin told
      BY <1>1, <1>3 DEF UserInv, Rest, Steady
<1> QED BY <1>1, <1>2, <1>4

\* A step of a user; the daemons stay where they are.
LEMMA OneUserStep_User ==
  ASSUME TypeOK, CountInv, OneUser, orderly, NEW u \in Users,
         \/ Walks(u) \/ Enter(u) \/ GiveUp(u) \/ Release(u) \/ Kill(u)
  PROVE  OneUser'
<1>1. u \in Threads /\ u \notin Daemons
      BY ThreadsAssumption DEF Threads
<1>2. Moves(u) /\ ring' = ring /\ daemons' = daemons
      BY <1>1 DEF TypeOK, Walks, Begin, Started, Loaded, Fails, FailEarly, FailLate, Interrupt,
       Undo, Join, Forked, Leave, ReadCount, Compare, Killed,
       Free, AfterDone, Destroy, Destroyed, Enter, GiveUp, Release, Kill, Go, Moves
<1>3. Registered' = Registered /\ \A d \in Daemons : pc'[d] = pc[d]
      BY <1>2, UserStep
<1>4. daemons' = Cardinality(Registered') /\ \A d \in ring' : pc'[d] = "work"
      BY <1>2, <1>3 DEF OneUser, TypeOK
<1>5. \A v \in Users \ {u} : pc[v] = "out"
      BY <1>1 DEF OneUser, Walks, Begin, Started, Loaded, Fails, FailEarly, FailLate, Interrupt,
       Undo, Join, Forked, Leave, ReadCount, Compare, Killed,
       Free, AfterDone, Destroy, Destroyed, Enter, GiveUp, Release, Kill, Go
<1>6. \A v \in Users \ {u} : pc'[v] = "out"
      BY <1>2, <1>5 DEF Moves, Threads
<1>7. ASSUME UserInv(u)', pc'[u] = "out" => Rest'
      PROVE  OneUser'
      BY <1>4, <1>6, <1>7, OneUserOnly
<1>8. UserInv(u)
      BY DEF OneUser
<1>9. (Rest => Rest') /\ (told' = told => \A d \in Daemons : Steady(d) => Steady(d)')
      BY <1>3 DEF Rest, Steady
<1>10. CASE Enter(u)
  <2>1. pc[u] = "out" /\ pc'[u] = IF count = 0 THEN "first" ELSE "second"
        BY <1>1, <1>10 DEF Enter, Go, TypeOK
  <2>2. Rest /\ \A t \in Threads : pc[t] = "out"
        BY <2>1, <1>5 DEF OneUser, Rest, Threads
  <2>3. count = 0
        BY <2>2, SmallSets DEF CountInv, Counted, Uncounted
  <2>4. pc'[u] = "first" /\ Rest'
        BY <2>1, <2>2, <2>3, <1>9
  <2> QED BY <2>4, <1>7 DEF UserInv
<1>11. CASE Begin(u)
  <2>1. pc'[u] = "starting" /\ Rest'
        BY <1>1, <1>8, <1>9, <1>11 DEF Begin, Go, TypeOK, UserInv
  <2> QED BY <2>1, <1>7 DEF UserInv
<1>12. CASE Started(u) \/ Loaded(u) \/ Leave(u) \/ FailLate(u) \/ Interrupt(u)
  <2>1. /\ pc[u] \in {"started", "maininit", "in"} /\ pc'[u] \in {"maininit", "in", "done", "undo"}
        /\ stop' = stop /\ told' = told
        BY <1>1, <1>12 DEF Started, Loaded, Leave, FailLate, Interrupt, Go, TypeOK
  <2>2. (\A d \in Daemons : Steady(d)) /\ ~stop
        BY <2>1, <1>8 DEF UserInv
  <2>3. (\A d \in Daemons : Steady(d)') /\ ~stop'
        BY <2>1, <2>2, <1>9
  <2> QED BY <2>1, <2>3, <1>7 DEF UserInv
<1>13. CASE FailEarly(u)
  <2>1. pc'[u] = "undo early" /\ Rest'
        BY <1>1, <1>8, <1>9, <1>13 DEF FailEarly, Go, TypeOK, UserInv
  <2> QED BY <2>1, <1>7 DEF UserInv
<1>14. CASE Undo(u)
  <2>1. pc'[u] = "give up" /\ Rest'
        BY <1>1, <1>8, <1>9, <1>14 DEF Undo, TypeOK, UserInv
  <2> QED BY <2>1, <1>7 DEF UserInv
<1>15. CASE GiveUp(u)
  <2>1. pc'[u] = "out" /\ Rest'
        BY <1>1, <1>8, <1>9, <1>15 DEF GiveUp, Go, TypeOK, UserInv
  <2> QED BY <2>1, <1>7 DEF UserInv
<1>16. CASE Forked(u)
  <2>1. /\ pc'[u] \in {"started", "in"} /\ told' = told /\ stop' = stop
        /\ pc[u] = "forking" /\ pc[child[u]] \notin {"born", "second", "register", "link"}
        BY <1>1, <1>16 DEF Forked, Go, TypeOK
  <2>2. pc[child[u]] = "work" /\ child[u] \in Daemons /\ child[u] \notin told /\ ~stop
        BY <2>1, <1>8 DEF UserInv
  <2>3. \A d \in Daemons : Steady(d)
        BY <2>1, <2>2, <1>8 DEF UserInv, Steady
  <2>4. (\A d \in Daemons : Steady(d)') /\ ~stop'
        BY <2>1, <2>2, <2>3, <1>9
  <2> QED BY <2>1, <2>4, <1>7 DEF UserInv
<1>17. CASE ReadCount(u)
  <2>1. /\ pc[u] = "done" /\ pc'[u] = "compare" /\ seen'[u] = count /\ stop' = stop
        /\ told' = told
        BY <1>1, <1>17 DEF ReadCount, Go, TypeOK
  <2>2. (\A d \in Daemons : Steady(d)) /\ ~stop
        BY <2>1, <1>8 DEF UserInv
  <2>3. Counted = Registered \cup {u} /\ u \notin Registered
        BY <1>1, <1>5, <2>1, <2>2 DEF Counted, Registered, Uncounted, Registers, Steady, Threads
  <2>4. IsFiniteSet(Registered)
        BY ThreadsAssumption, FS_Subset DEF Registered, Threads
  <2>5. Cardinality(Counted) = Cardinality(Registered) + 1
        BY <2>3, <2>4, FS_AddElement
  <2>6. seen'[u] = daemons' + 1
        BY <2>1, <2>5, <1>2 DEF CountInv, OneUser
  <2>7. (\A d \in Daemons : Steady(d)') /\ ~stop'
        BY <2>1, <2>2, <1>9
  <2> QED BY <2>1, <2>6, <2>7, <1>7 DEF UserInv
<1>18. CASE Compare(u)
  <2>1. pc[u] = "compare" /\ pc'[u] = IF seen[u] = daemons + 1 THEN "kill" ELSE "release"
        BY <1>1, <1>18 DEF Compare, Go, TypeOK
  <2>2. pc'[u] = "kill" /\ \A d \in Daemons : Steady(d)
        BY <2>1, <1>8 DEF UserInv
  <2>3. \A d \in Daemons : pc'[d] \in {"out", "work"}
        BY <2>2, <1>3 DEF Steady
  <2> QED BY <2>2, <2>3, <1>7 DEF UserInv
<1>19. CASE Kill(u)
  <2>1. pc[u] = "kill" /\ pc' = pc
        BY <1>19 DEF Kill
  <2> QED BY <2>1, <1>7, <1>8 DEF UserInv
<1>20. CASE Killed(u)
  <2>1. pc[u] = "kill" /\ pc'[u] = "release" /\ daemons <= 0
        BY <1>1, <1>20 DEF Killed, Go, TypeOK
  <2>2. Registered = {}
        BY <2>1, SmallSets DEF OneUser
  <2>3. Rest
        BY <2>1, <2>2, <1>8 DEF UserInv, Rest, Registered, Registers
  <2> QED BY <2>1, <2>3, <1>7, <1>9 DEF UserInv
<1>21. CASE Release(u)
  <2>1. pc[u] = "release" /\ pc'[u] = IF count = 1 THEN "destroy" ELSE "free"
        BY <1>1, <1>21 DEF Release, Go, TypeOK
  <2>2. Rest
        BY <2>1, <1>8 DEF UserInv
  <2>3. Counted = {u}
        BY <1>1, <1>5, <2>1, <2>2 DEF Counted, Uncounted, Rest, Threads
  <2>4. pc'[u] = "destroy" /\ Rest'
        BY <1>1, <2>1, <2>2, <2>3, <1>9, SmallSets DEF CountInv
  <2> QED BY <2>4, <1>7 DEF UserInv
<1>22. CASE Destroy(u)
  <2>1. pc'[u] = "destroying" /\ Rest'
        BY <1>1, <1>8, <1>9, <1>22 DEF Destroy, Go, TypeOK, UserInv
  <2> QED BY <2>1, <1>7 DEF UserInv
<1>23. CASE Destroyed(u)
  <2>1. pc'[u] = "out" /\ Rest'
        BY <1>1, <1>8, <1>9, <1>23 DEF Destroyed, AfterDone, Go, TypeOK, UserInv
  <2> QED BY <2>1, <1>7 DEF UserInv
<1>24. ~Join(u) /\ ~Free(u)
      BY <1>8 DEF Join, Free, Go, UserInv
<1> QED BY <1>1, <1>10, <1>11, <1>12, <1>13, <1>14, <1>15, <1>16, <1>17, <1>18, <1>19, <1>20,
           <1>21, <1>22, <1>23, <1>24 DEF Walks, Fails

\* A user creates a daemon: only u itself and the new daemon move.
LEMMA OneUserStep_Fork ==
  ASSUME TypeOK, OneUser, orderly, NEW u \in Users, StartPool(u) \/ ForkDaemon(u)
  PROVE  OneUser'
<1>1. u \in Threads /\ u \notin Daemons
      BY ThreadsAssumption DEF Threads
<1>2. PICK d \in Daemons : Fork(u, d) /\ pc[u] \in {"starting", "in"}
      BY ThreadsAssumption DEF StartPool, ForkDaemon
<1>3. /\ u # d /\ pc[d] = "out" /\ pc'[d] = "born" /\ pc'[u] = "forking" /\ child'[u] = d
      /\ \A w \in Threads \ {u, d} : pc'[w] = pc[w]
      /\ Registered' = Registered
      BY <1>1, <1>2, Forking
<1>4. \A v \in Users \ {u} : pc'[v] = "out"
      BY <1>2, <1>3, ThreadsAssumption DEF OneUser, Threads
<1>5. UserInv(u)
      BY DEF OneUser
<1>6. \A e \in Daemons : Steady(e)
      BY <1>2, <1>5 DEF UserInv, Rest, Steady
<1>7. told' = told \ {d}
      BY <1>2 DEF Fork
<1>8. \A e \in Daemons \ {d} : Steady(e)'
      BY <1>1, <1>3, <1>6, <1>7 DEF Steady, Threads
<1>9. /\ ~stop' /\ daemons' = Cardinality(Registered') /\ \A e \in ring' : pc'[e] = "work"
  <2>1. CASE StartPool(u)
    <3>1. Registered = {}
          BY <2>1, <1>5 DEF StartPool, UserInv, Rest, Registered, Registers
    <3> QED BY <2>1, <3>1, <1>3, FS_EmptySet DEF StartPool
  <2>2. CASE ForkDaemon(u)
    <3>1. stop' = stop /\ daemons' = daemons /\ ring' = ring /\ pc[u] = "in"
          BY <2>2 DEF ForkDaemon
    <3>2. \A e \in ring : e \in Threads /\ e # u /\ e # d
          BY <1>1, <1>3 DEF OneUser, TypeOK, Threads
    <3>3. \A e \in ring' : pc'[e] = "work"
          BY <3>1, <3>2, <1>3 DEF OneUser
    <3>4. daemons' = Cardinality(Registered')
          BY <3>1, <1>3 DEF OneUser
    <3>5. ~stop'
          BY <3>1, <1>5 DEF UserInv
    <3> QED BY <3>3, <3>4, <3>5
  <2> QED BY <2>1, <2>2
<1>10. UserInv(u)'
      BY <1>3, <1>7, <1>8, <1>9 DEF UserInv
<1> QED BY <1>3, <1>4, <1>9, <1>10, OneUserOnly

\* A step of a daemon; the user stays where it is.
LEMMA OneUserStep_Daemon ==
  ASSUME TypeOK, CountInv, OneUser, orderly, NEW d \in Daemons,
         \/ Walks(d) \/ Enter(d) \/ GiveUp(d) \/ Release(d) \/ Kill(d) \/ StartPool(d)
  PROVE  OneUser'
<1>1. d \in Threads /\ d \notin Users /\ Users \subseteq Threads
      BY ThreadsAssumption DEF Threads
<1>2. pc[d] # "out"
      BY <1>1 DEF Walks, Begin, Started, Loaded, Undo, Join, Forked, Register, Link, Unlink,
       Unregister, ReadCount, Compare, Killed, Free, Destroy, Destroyed, Enter, GiveUp,
       Release, Kill, StartPool, Go
<1>3. PICK u \in Users :
        /\ pc[u] # "out" /\ \A v \in Users \ {u} : pc[v] = "out"
        /\ \/ pc[u] = "forking" /\ child[u] = d /\ d \notin told
              /\ pc[d] \in {"born", "second", "register", "link", "work"}
           \/ /\ pc[u] = "kill"
              /\ pc[d] \in {"work", "done", "release", "free", "unregister"}
           \/ pc[d] = "work" /\ d \notin told
      BY <1>2, DaemonPlaces
<1>4. pc[d] \in {"born", "second", "register", "link", "work", "done", "release", "free",
                 "unregister"}
      BY <1>3
<1>5. \/ Enter(d) \/ Join(d) \/ Register(d) \/ Link(d) \/ Unlink(d) \/ Unregister(d)
      \/ ReadCount(d) \/ Release(d) \/ Free(d)
      BY <1>1, <1>4 DEF Walks, Begin, Started, Loaded, Undo, Forked, Compare, Killed, Destroy,
       Destroyed, GiveUp, Kill, StartPool, Go
<1>6. Moves(d) /\ child' = child /\ told' = told /\ stop' = stop
      BY <1>1, <1>5 DEF Enter, Join, Register, Link, Unlink, Unregister, ReadCount, Release,
       Free, Go, Moves, TypeOK
<1>7. /\ pc'[u] = pc[u] /\ \A v \in Users \ {u} : pc'[v] = "out"
      /\ \A e \in Daemons \ {d} : pc'[e] = pc[e]
      BY <1>1, <1>3, <1>6 DEF Moves, Threads
<1>8. UserInv(u)
      BY DEF OneUser
<1>9. u \in Threads /\ u # d
      BY <1>1
<1>10. ASSUME UserInv(u)', daemons' = Cardinality(Registered'), \A e \in ring' : pc'[e] = "work"
       PROVE  OneUser'
       BY <1>3, <1>7, <1>10, OneUserOnly
\* The daemon is created, ...
<1>11. ASSUME pc[u] = "forking", child[u] = d, d \notin told,
              pc'[d] \in {"born", "second", "register", "link", "work"}
       PROVE  UserInv(u)'
  <2>1. (\A e \in Daemons \ {d} : Steady(e)) /\ ~stop
        BY <1>8, <1>11 DEF UserInv
  <2>2. \A e \in Daemons \ {d} : Steady(e)'
        BY <2>1, <1>6, <1>7 DEF Steady
  <2> QED BY <2>1, <2>2, <1>6, <1>7, <1>11 DEF UserInv
\* ... or it ends.
<1>12. ASSUME pc[u] = "kill",
              pc'[d] \in {"out", "work", "done", "release", "free", "unregister"}
       PROVE  UserInv(u)'
       BY <1>7, <1>8, <1>12 DEF UserInv
<1>13. ASSUME daemons' = daemons, pc[d] \in Registers <=> pc'[d] \in Registers
       PROVE  daemons' = Cardinality(Registered')
       BY <1>6, <1>13, DaemonsStep DEF OneUser
<1>14. ASSUME ring' = ring, d \notin ring
       PROVE  \A e \in ring' : pc'[e] = "work"
       BY <1>7, <1>14 DEF OneUser, TypeOK
<1>15. pc[d] # "work" => d \notin ring
       BY DEF OneUser
<1>16. CASE Enter(d) \/ Join(d)
  <2>3. /\ pc[d] \in {"born", "second"} /\ pc'[d] \in {"second", "register"}
        /\ pc[u] = "forking" /\ child[u] = d /\ d \notin told
    <3>1. CASE Enter(d)
      <4>1. pc[d] = "born" /\ pc'[d] = IF count = 0 THEN "first" ELSE "second"
            BY <1>1, <3>1 DEF Enter, Go, TypeOK
      <4>2. pc[u] = "forking" /\ child[u] = d /\ d \notin told
            BY <4>1, <1>3
      <4>3. u \in Counted
            BY <4>2, <1>9 DEF Counted, Uncounted
      <4>4. count # 0
            BY <4>3, SmallSets DEF CountInv
      <4> QED BY <4>1, <4>2, <4>4
    <3>2. CASE Join(d)
          BY <1>1, <1>3, <3>2 DEF Join, Go, TypeOK
    <3> QED BY <1>16, <3>1, <3>2
  <2>4. daemons' = daemons /\ ring' = ring
        BY <1>16 DEF Enter, Join
  <2>5. pc[d] \notin Registers /\ pc'[d] \notin Registers
        BY <2>3 DEF Registers
  <2> QED BY <2>3, <2>4, <2>5, <1>10, <1>11, <1>13, <1>14, <1>15
<1>17. CASE Register(d)
  <2>1. pc[d] = "register" /\ pc'[d] = "link" /\ daemons' = daemons + 1 /\ ring' = ring
        BY <1>1, <1>17 DEF Register, Go, TypeOK
  <2>2. pc[u] = "forking" /\ child[u] = d /\ d \notin told
        BY <2>1, <1>3
  <2>3. pc[d] \notin Registers /\ pc'[d] \in Registers
        BY <2>1 DEF Registers
  <2>4. daemons' = Cardinality(Registered')
        BY <2>1, <2>3, <1>6, DaemonsStep DEF OneUser
  <2> QED BY <2>1, <2>2, <2>4, <1>10, <1>11, <1>14, <1>15
<1>18. CASE Link(d)
  <2>1. pc[d] = "link" /\ pc'[d] = "work" /\ daemons' = daemons /\ ring' = ring \cup {d}
        BY <1>1, <1>18 DEF Link, Go, TypeOK
  <2>2. pc[u] = "forking" /\ child[u] = d /\ d \notin told
        BY <2>1, <1>3
  <2>3. pc[d] \in Registers /\ pc'[d] \in Registers
        BY <2>1 DEF Registers
  <2>4. \A e \in ring' : pc'[e] = "work"
        BY <2>1, <1>7 DEF OneUser, TypeOK
  <2> QED BY <2>1, <2>2, <2>3, <2>4, <1>10, <1>11, <1>13
<1>19. CASE Unlink(d)
  <2>1. pc[d] = "work" /\ pc'[d] = "done" /\ daemons' = daemons /\ ring' = ring \ {d} /\ d \in told
        BY <1>1, <1>19 DEF Unlink, Go, TypeOK
  <2>2. pc[u] = "kill"
        BY <2>1, <1>3
  <2>3. pc[d] \in Registers /\ pc'[d] \in Registers
        BY <2>1 DEF Registers
  <2>4. \A e \in ring' : pc'[e] = "work"
        BY <2>1, <1>7 DEF OneUser, TypeOK
  <2> QED BY <2>1, <2>2, <2>3, <2>4, <1>10, <1>12, <1>13
<1>20. CASE Unregister(d)
  <2>1. pc[d] = "unregister" /\ pc'[d] = "out" /\ daemons' = daemons - 1 /\ ring' = ring
        BY <1>1, <1>20 DEF Unregister, Go, TypeOK
  <2>2. pc[u] = "kill"
        BY <2>1, <1>3
  <2>3. pc[d] \in Registers /\ pc'[d] \notin Registers
        BY <2>1 DEF Registers
  <2>4. daemons' = Cardinality(Registered')
        BY <2>1, <2>3, <1>6, DaemonsStep DEF OneUser
  <2> QED BY <2>1, <2>2, <2>4, <1>10, <1>12, <1>14, <1>15
<1>21. CASE ReadCount(d) \/ Free(d)
  <2>1. /\ pc[d] \in {"done", "free"} /\ pc'[d] \in {"release", "unregister"}
        /\ daemons' = daemons /\ ring' = ring
        BY <1>1, <1>21 DEF ReadCount, Free, AfterDone, Go, TypeOK
  <2>2. pc[u] = "kill"
        BY <2>1, <1>3
  <2>3. pc[d] \in Registers /\ pc'[d] \in Registers
        BY <2>1 DEF Registers
  <2> QED BY <2>1, <2>2, <2>3, <1>10, <1>12, <1>13, <1>14, <1>15
<1>22. CASE Release(d)
  <2>1. /\ pc[d] = "release" /\ pc'[d] = IF count = 1 THEN "destroy" ELSE "free"
        /\ daemons' = daemons /\ ring' = ring
        BY <1>1, <1>22 DEF Release, Go, TypeOK
  <2>2. pc[u] = "kill"
        BY <2>1, <1>3
  <2>3. u \in Counted /\ d \in Counted
        BY <1>1, <1>9, <2>1, <2>2 DEF Counted, Uncounted
  <2>4. count # 1
        BY <1>1, <1>9, <2>3, SmallSets DEF CountInv
  <2>5. pc'[d] = "free"
        BY <2>1, <2>4
  <2>6. pc[d] \in Registers /\ pc'[d] \in Registers
        BY <2>1, <2>5 DEF Registers
  <2> QED BY <2>1, <2>2, <2>5, <2>6, <1>10, <1>12, <1>13, <1>14, <1>15
<1> QED BY <1>5, <1>16, <1>17, <1>18, <1>19, <1>20, <1>21, <1>22

-----------------------------------------------------------------------------
(* The theorems.                                                           *)

\* The inductive invariant holds initially ...
LEMMA IInvInit == Init => IInv
<1> SUFFICES ASSUME Init PROVE IInv
    OBVIOUS
<1>1. Counted = {} /\ Registered = {}
      BY DEF Init, Counted, Uncounted, Registered, Registers, Threads
<1>2. /\ Cardinality(Counted) = 0 /\ Cardinality(Registered) = 0
      /\ Cardinality(Threads) \in Nat /\ Cardinality(Daemons) \in Nat
  <2>1. IsFiniteSet(Daemons)
        BY ThreadsAssumption, FS_Subset DEF Threads
  <2> QED BY <1>1, <2>1, ThreadsAssumption, FS_EmptySet, FS_CardinalityType
<1>3. TypeOK
  <2>1. 0 \in 0 .. Cardinality(Threads) /\ 0 \in -Cardinality(Daemons) .. Cardinality(Daemons)
        BY <1>2
  <2>2. count = 0 /\ daemons = 0 /\ seen \in [Threads -> 0 .. Cardinality(Threads)]
        BY <2>1 DEF Init
  <2>3. ring \subseteq Daemons /\ told \subseteq Killable /\ stop \in BOOLEAN /\ orderly \in BOOLEAN
        BY DEF Init
  <2>4. pc = [t \in Threads |-> "out"] /\ child = [t \in Threads |-> None] /\ status = "none"
        BY DEF Init
  <2> QED BY <2>1, <2>2, <2>3, <2>4 DEF TypeOK
<1>4. CountInv /\ DaemonsInv
      BY <1>2 DEF Init, CountInv, DaemonsInv
<1>5. OneUser
      BY <1>2 DEF Init, OneUser, Rest, UserInv, Threads
<1>6. AnyUsers
      BY <1>1 DEF Init, AnyUsers, IsFirst, Ends, Begins
<1> QED BY <1>3, <1>4, <1>5, <1>6 DEF IInv

\* ... and every step keeps it.
LEMMA IInvStep == IInv /\ [Next]_vars => IInv'
<1> SUFFICES ASSUME IInv, [Next]_vars PROVE IInv'
    OBVIOUS
<1> USE DEF IInv
<1>1. CASE Next
  <2>1. TypeOK' /\ CountInv' /\ DaemonsInv'
        BY <1>1, TypeOKStep, CountInvStep, DaemonsInvStep
  <2>2. PICK t \in Threads :
          \/ Walks(t) \/ Enter(t) \/ GiveUp(t) \/ Release(t) \/ Kill(t)
          \/ StartPool(t) \/ (t \in Users /\ ForkDaemon(t))
        BY <1>1, Kinds
  <2>3. orderly' = orderly
        BY <2>2 DEF Walks, Begin, Started, Loaded, Fails, FailEarly, FailLate, Interrupt, Undo,
         Join, Forked, Register, Link, Unlink, Unregister, Leave, ReadCount, Compare, Killed,
         Free, Destroy, Destroyed, Enter, GiveUp, Release, Kill, StartPool, ForkDaemon, Fork
  <2>4. orderly => OneUser'
    <3>1. CASE t \in Users
          BY <2>2, <3>1, OneUserStep_User, OneUserStep_Fork
    <3>2. CASE t \in Daemons
          BY <2>2, <3>2, OneUserStep_Daemon, ThreadsAssumption
    <3> QED BY <3>1, <3>2 DEF Threads
  <2>5. ~orderly => AnyUsers'
        BY <1>1, AnyUsersStep
  <2> QED BY <2>1, <2>3, <2>4, <2>5
<1>2. CASE UNCHANGED vars
  <2>1. TypeOK' /\ CountInv' /\ DaemonsInv'
        BY <1>2 DEF vars, TypeOK, CountInv, Counted, DaemonsInv, Registered
  <2>2. orderly => OneUser'
    <3>1. /\ pc' = pc /\ child' = child /\ told' = told /\ stop' = stop /\ seen' = seen
          /\ daemons' = daemons /\ ring' = ring /\ orderly' = orderly
          BY <1>2 DEF vars
    <3>2. Rest => Rest'
          BY <3>1 DEF Rest
    <3>3. Cardinality(Registered)' = Cardinality(Registered)
          BY <3>1 DEF Registered
    <3>4. ASSUME NEW u \in Users, UserInv(u)
          PROVE  UserInv(u)'
          BY <3>1, <3>4 DEF UserInv, Rest, Steady
    <3> QED BY <3>1, <3>2, <3>3, <3>4 DEF OneUser
  <2>3. ~orderly => AnyUsers'
        BY <1>2 DEF vars, AnyUsers, IsFirst, Ends, Begins, Counted
  <2> QED BY <1>2, <2>1, <2>2, <2>3 DEF vars
<1> QED BY <1>1, <1>2

\* The inductive invariant of pmath_init, pmath_done and the daemons.
THEOREM AlwaysIInv == Spec => []IInv
BY IInvInit, IInvStep, PTL DEF Spec

\* The counters stay within their bounds: pmath_count, which a thread raises
\* when it enters and lowers once, is never negative.
THEOREM AlwaysTypeOK == Spec => []TypeOK
<1>1. IInv => TypeOK
      BY DEF IInv
<1> QED BY <1>1, AlwaysIInv, PTL

\* Two threads never initialize or destroy the library at the same time,
\* however many threads call pmath_init and pmath_done.
THEOREM AlwaysOneManager == Spec => []OneManager
<1> DEFINE Manages(t) ==
      \/ pc[t] \in {"starting", "started", "maininit", "undo early", "undo", "destroy",
                    "destroying"}
      \/ pc[t] = "forking" /\ child[t] = Timer
<1>1. ASSUME IInv PROVE OneManager
  <2>1. \A t, u \in Threads : Manages(t) /\ Manages(u) => t = u
    <3>1. CASE orderly
      <4>1. ASSUME NEW d \in Daemons, Manages(d) PROVE FALSE
        <5>1. PICK u \in Users :
                \/ pc[u] = "forking" /\ child[u] = d /\ d \notin told
                   /\ pc[d] \in {"born", "second", "register", "link", "work"}
                \/ /\ pc[u] = "kill"
                   /\ pc[d] \in {"work", "done", "release", "free", "unregister"}
                \/ pc[d] = "work" /\ d \notin told
              BY <1>1, <3>1, <4>1, DaemonPlaces DEF IInv
        <5> QED BY <4>1, <5>1
      <4>2. \A u, v \in Users : Manages(u) /\ Manages(v) => u = v
            BY <1>1, <3>1 DEF IInv, OneUser
      <4> QED BY <4>1, <4>2 DEF Threads
    <3>2. CASE ~orderly
      <4>1. AnyUsers
            BY <1>1, <3>2 DEF IInv
      <4>2. \A t \in Threads : Manages(t) => Begins(t) \/ pc[t] = "maininit" \/ Ends(t)
            BY <4>1 DEF AnyUsers, Begins, Ends
      <4>3. \A t, u \in Threads : Ends(t) => ~Begins(u) /\ pc[u] # "maininit"
            BY <4>1, AnyUsersFacts
      <4> QED BY <4>1, <4>2, <4>3 DEF AnyUsers, IsFirst
    <3> QED BY <3>1, <3>2
  <2> DEFINE Managers == {t \in Threads : Manages(t)}
  <2>2. \A t, u \in Managers : t = u
        BY <2>1
  <2>3. Cardinality(Managers) <= 1 => OneManager
        BY DEF OneManager
  <2> HIDE DEF Managers
  <2>4. CASE Managers = {}
    <3>1. Cardinality(Managers) = 0
          BY <2>4, FS_EmptySet
    <3>2. Cardinality(Managers) <= 1
          BY <3>1
    <3> QED BY <2>3, <3>2
  <2>5. ASSUME NEW t \in Managers PROVE OneManager
    <3>1. Managers = {t}
          BY <2>2
    <3>2. Cardinality(Managers) = 1
          BY <3>1, FS_Singleton
    <3>3. Cardinality(Managers) <= 1
          BY <3>2
    <3> QED BY <2>3, <3>3
  <2> QED BY <2>4, <2>5
<1> QED BY <1>1, AlwaysIInv, PTL

\* With one user at a time, whose daemons end when they are killed, nobody uses
\* the library, or frees its thread object, while pmath_done destroys it.
THEOREM AlwaysNoUseAfterDestroy == Spec => []NoUseAfterDestroy
<1>1. ASSUME IInv PROVE NoUseAfterDestroy
  <2> SUFFICES ASSUME orderly, NEW t \in Threads, pc[t] = "destroying", NEW w \in Threads, Uses(w)
               PROVE  FALSE
      BY DEF NoUseAfterDestroy
  <2>1. OneUser
        BY <1>1 DEF IInv
  <2>2. t \in Users
    <3>1. CASE t \in Daemons
      <4>1. PICK u \in Users :
              \/ pc[u] = "forking" /\ child[u] = t /\ t \notin told
                 /\ pc[t] \in {"born", "second", "register", "link", "work"}
              \/ /\ pc[u] = "kill"
                 /\ pc[t] \in {"work", "done", "release", "free", "unregister"}
              \/ pc[t] = "work" /\ t \notin told
            BY <2>1, <3>1, DaemonPlaces
      <4> QED BY <4>1
    <3> QED BY <3>1 DEF Threads
  <2>3. Rest
        BY <2>1, <2>2 DEF OneUser, UserInv
  <2>4. \A u \in Users \ {t} : pc[u] = "out"
        BY <2>1, <2>2 DEF OneUser
  <2> QED BY <2>3, <2>4 DEF Uses, Rest, Threads
<1> QED BY <1>1, AlwaysIInv, PTL

\* With one user at a time every daemon in the ring, whose kill function may be
\* called, is alive, and _pmath_threadpool_deamon_count counts it: whoever waits
\* for the counter to reach 0 has waited for it.
THEOREM AlwaysRingCounted == Spec => []RingCounted
<1>1. ASSUME IInv PROVE RingCounted
  <2> SUFFICES ASSUME orderly PROVE RingCounted
      BY DEF RingCounted
  <2>1. OneUser
        BY <1>1 DEF IInv
  <2>2. ASSUME NEW d \in Daemons
        PROVE  pc[d] \in Registers <=> pc[d] \notin {"out", "born", "second", "register"}
    <3>1. CASE pc[d] = "out"
          BY <3>1 DEF Registers
    <3>2. CASE pc[d] # "out"
      <4>1. pc[d] \in {"born", "second", "register", "link", "work", "done", "release", "free",
                       "unregister"}
            BY <2>1, <3>2, DaemonPlaces
      <4> QED BY <4>1 DEF Registers
    <3> QED BY <3>1, <3>2
  <2>3. Registered = {d \in Daemons : pc[d] \notin {"out", "born", "second", "register"}}
        BY <2>2 DEF Registered
  <2> QED BY <2>1, <2>3 DEF RingCounted, OneUser
<1> QED BY <1>1, AlwaysIInv, PTL

=============================================================================
