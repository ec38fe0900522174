--------------------------- MODULE TaskPool_proofs ---------------------------
(***************************************************************************)
(* Proofs about TaskPool, for any number of clients, workers and tasks.    *)
(***************************************************************************)
EXTENDS TaskPool, FiniteSetTheorems, SequenceTheorems, TLAPS

-----------------------------------------------------------------------------
(* The inductive invariant.                                                *)

\* A thread is in the middle of every operation but the innermost while that
\* executes the body of a task; the first of a worker is its own.
Shape ==
  \A t \in Threads :
    /\ Len(frames[t]) <= MaxDepth
    /\ \A n \in 1 .. Len(frames[t]) :
         /\ frames[t][n].op = "new" <=> frames[t][n].at = "announce"
         /\ frames[t][n].at = "unref" => frames[t][n].op = "work"
         /\ frames[t][n].at = "sleep" => frames[t][n].op # "work"
         /\ frames[t][n].op = "work" <=> n = 1 /\ t \in Workers
         /\ n < Len(frames[t]) => frames[t][n].at = "body"

WorkersWait == \A w \in Workers : frames[w] # <<>> => loop[w] = "wait"

\* The operation of t at level n is at one of places with task k.
Is(t, n, k, places) ==
  n \in 1 .. Len(frames[t]) /\ frames[t][n].task = k /\ frames[t][n].at \in places

Runner == {"body", "finish"}

\* A task is running exactly while one thread executes or finishes it.
Running ==
  \A k \in Tasks :
    /\ \A t \in Threads, n \in Levels : Is(t, n, k, Runner) =>
         /\ status[k] = "running"
         /\ \A u \in Threads, m \in Levels : Is(u, m, k, Runner) => u = t /\ m = n
    /\ status[k] = "running" => \E t \in Threads, n \in Levels : Is(t, n, k, Runner)

\* A worker has popped task k.
Handles(w, k) == frames[w] # <<>> /\ frames[w][1].task = k
OnStack(k)    == \E i \in 1 .. Len(idle) : idle[i] = k

Distinct == \A i, j \in 1 .. Len(idle) : idle[i] = idle[j] => i = j

\* A task is on the stack once, or with one worker.
Stacked ==
  /\ Distinct
  /\ \A w \in Workers, k \in Tasks : Handles(w, k) =>
       ~OnStack(k) /\ \A v \in Workers : Handles(v, k) => v = w

\* Whose code has called the operation of t at level n.
Caller(t, n) == IF n = 1 THEN t ELSE frames[t][n - 1].task

\* Who waits for a task or aborts it has a reference to it.
CallersHold ==
  \A t \in Threads : \A n \in 1 .. Len(frames[t]) :
    frames[t][n].op \in {"wait", "abort"} => Caller(t, n) \in holders[frames[t][n].task]

Owned(k) == OnStack(k) \/ \E w \in Workers : Handles(w, k)

\* Besides those of bodies there is one reference, of the stack or of a worker.
Counted ==
  \A k \in Tasks :
    /\ refs[k] = Cardinality(holders[k]) + (IF Owned(k) THEN 1 ELSE 0)
    /\ refs[k] = 0 <=> status[k] = "none"

\* A task whose end is announced, or about to be, is over.
Ended ==
  \A k \in Tasks :
    done[k] > 0 \/ (\E t \in Threads, n \in Levels : Is(t, n, k, {"post"})) =>
      /\ status[k] \in {"running", "done"}
      /\ ~\E t \in Threads, n \in Levels : Is(t, n, k, {"body"})

IInv ==
  /\ TypeOK /\ Shape /\ WorkersWait /\ Running
  /\ Stacked /\ CallersHold /\ Counted /\ Ended

-----------------------------------------------------------------------------
(* What operations do to the frames of a thread.                           *)

\* Every frame has its task and its kind of operation.
LEMMA FrameType ==
  ASSUME TypeOK, NEW t \in Threads, NEW n \in 1 .. Len(frames[t])
  PROVE  /\ frames[t] \in Seq(Frames)
         /\ Len(frames[t]) \in Nat \ {0}
         /\ frames[t][n] \in Frames
         /\ frames[t][n].task \in Tasks
         /\ frames[t][n].op \in {"new", "wait", "abort", "work"}
<1>1. frames[t] \in Seq(Frames) /\ Len(frames[t]) \in Nat \ {0}
      BY DEF TypeOK
<1>2. frames[t][n] \in Frames
      BY <1>1
<1> QED BY <1>1, <1>2 DEF Frames

\* The innermost operation goes to another place.
LEMMA GotoEffect ==
  ASSUME TypeOK, NEW t \in Threads, frames[t] # <<>>, NEW where, Goto(t, where)
  PROVE  LET top == Len(frames[t]) IN
         /\ top \in 1 .. Len(frames[t])
         /\ Len(frames'[t]) = top
         /\ frames'[t][top].task = frames[t][top].task
         /\ frames'[t][top].op = frames[t][top].op
         /\ frames'[t][top].at = where
         /\ \A n \in 1 .. top - 1 : frames'[t][n] = frames[t][n]
         /\ \A u \in Threads \ {t} : frames'[u] = frames[u]
<1> DEFINE s == frames[t]
           top == Len(s)
           new == [s EXCEPT ![top] = [s[top] EXCEPT !.at = where]]
<1>1. frames \in [Threads -> Seq(Frames)] /\ s \in Seq(Frames)
      BY DEF TypeOK
<1>2. top \in Nat \ {0} /\ DOMAIN s = 1 .. top
      BY <1>1
<1>3. s[top] \in Frames
      BY <1>1, <1>2
<1>4. frames' = [frames EXCEPT ![t] = new]
      BY DEF Goto
<1>5. frames'[t] = new /\ \A u \in Threads \ {t} : frames'[u] = frames[u]
      BY <1>1, <1>4
<1>6. Len(new) = top
      BY <1>1, <1>2
<1>7. /\ new[top].task = s[top].task /\ new[top].op = s[top].op /\ new[top].at = where
      /\ \A n \in 1 .. top - 1 : new[n] = s[n]
      BY <1>2, <1>3 DEF Frames
<1> QED BY <1>2, <1>5, <1>6, <1>7

\* Its frames are frames still.
LEMMA GotoType ==
  ASSUME TypeOK, NEW t \in Threads, frames[t] # <<>>,
         NEW where \in {"announce", "swap", "body", "finish", "post", "sleep", "unref"},
         Goto(t, where)
  PROVE  frames' \in [Threads -> Seq(Frames)]
<1> DEFINE s == frames[t]
           top == Len(s)
           new == [s EXCEPT ![top] = [s[top] EXCEPT !.at = where]]
<1>1. frames \in [Threads -> Seq(Frames)] /\ s \in Seq(Frames)
      BY DEF TypeOK
<1>2. top \in Nat \ {0} /\ DOMAIN s = 1 .. top
      BY <1>1
<1>3. s[top] \in Frames
      BY <1>1, <1>2
<1>4. frames' = [frames EXCEPT ![t] = new]
      BY DEF Goto
<1>5. [s[top] EXCEPT !.at = where] \in Frames
      BY <1>3 DEF Frames
<1>6. new \in Seq(Frames)
      BY <1>1, <1>5
<1> QED BY <1>1, <1>4, <1>6

\* A new operation is the innermost.
LEMMA BeginEffect ==
  ASSUME TypeOK, NEW t \in Threads, NEW k \in Tasks,
         NEW o \in {"new", "wait", "abort", "work"},
         NEW where \in {"announce", "swap", "body", "finish", "post", "sleep", "unref"},
         Begin(t, k, o, where)
  PROVE  LET top == Len(frames[t]) + 1 IN
         /\ frames' \in [Threads -> Seq(Frames)]
         /\ top \in 1 .. MaxDepth
         /\ Len(frames'[t]) = top
         /\ frames'[t][top].task = k
         /\ frames'[t][top].op = o
         /\ frames'[t][top].at = where
         /\ \A n \in 1 .. Len(frames[t]) : frames'[t][n] = frames[t][n]
         /\ \A u \in Threads \ {t} : frames'[u] = frames[u]
<1> DEFINE s == frames[t]
           f == [task |-> k, op |-> o, at |-> where]
<1>1. frames \in [Threads -> Seq(Frames)] /\ s \in Seq(Frames) /\ f \in Frames
      BY DEF TypeOK, Frames
<1>2. frames' = [frames EXCEPT ![t] = Append(s, f)] /\ Len(s) < MaxDepth
      BY DEF Begin
<1>3. /\ Append(s, f) \in Seq(Frames) /\ Len(Append(s, f)) = Len(s) + 1 /\ Len(s) \in Nat
      /\ Append(s, f)[Len(s) + 1] = f
      /\ \A n \in 1 .. Len(s) : Append(s, f)[n] = s[n]
      BY <1>1
<1>4. frames'[t] = Append(s, f) /\ \A u \in Threads \ {t} : frames'[u] = frames[u]
      BY <1>1, <1>2
<1>5. Len(s) + 1 \in 1 .. MaxDepth
      BY <1>2, <1>3, ThreadsAssumption
<1> HIDE DEF s
<1> QED BY <1>1, <1>2, <1>3, <1>4, <1>5 DEF s

\* The innermost operation returns.
LEMMA EndEffect ==
  ASSUME TypeOK, NEW t \in Threads, frames[t] # <<>>, End(t)
  PROVE  LET top == Len(frames[t]) IN
         /\ frames' \in [Threads -> Seq(Frames)]
         /\ top \in Nat \ {0}
         /\ Len(frames'[t]) = top - 1
         /\ \A n \in 1 .. top - 1 : frames'[t][n] = frames[t][n]
         /\ \A u \in Threads \ {t} : frames'[u] = frames[u]
<1> DEFINE s == frames[t]
           new == SubSeq(s, 1, Len(s) - 1)
<1>1. frames \in [Threads -> Seq(Frames)] /\ s \in Seq(Frames)
      BY DEF TypeOK
<1>2. Len(s) \in Nat \ {0}
      BY <1>1
<1>3. /\ new \in Seq(Frames) /\ Len(new) = Len(s) - 1
      /\ \A n \in 1 .. Len(s) - 1 : new[n] = s[n]
  <2>1. 1 \in 1 .. Len(s) + 1 /\ Len(s) - 1 \in 1 - 1 .. Len(s)
        BY <1>2
  <2>2. /\ new \in Seq(Frames)
        /\ Len(new) = IF 1 <= Len(s) - 1 THEN Len(s) - 1 - 1 + 1 ELSE 0
        /\ \A n \in 1 .. Len(s) - 1 - 1 + 1 : new[n] = s[1 + n - 1]
        BY <1>1, <2>1, SubSeqProperties
  <2> HIDE DEF s, new
  <2>3. PICK l \in Nat \ {0} : l = Len(s)
        BY <1>2
  <2>4. Len(new) = l - 1
        BY <2>2, <2>3
  <2>5. ASSUME NEW n \in 1 .. l - 1
        PROVE  new[n] = s[n]
    <3>1. n \in 1 .. l - 1 - 1 + 1 /\ 1 + n - 1 = n
          BY <2>3
    <3> QED BY <3>1, <2>2, <2>3
  <2> QED BY <2>2, <2>3, <2>4, <2>5
<1>4. frames' = [frames EXCEPT ![t] = new]
      BY DEF End
<1>5. frames'[t] = new /\ \A u \in Threads \ {t} : frames'[u] = frames[u]
      BY <1>1, <1>4
<1>6. frames' \in [Threads -> Seq(Frames)]
      BY <1>1, <1>3, <1>4
<1> HIDE DEF s, new
<1> QED BY <1>2, <1>3, <1>5, <1>6 DEF s
-----------------------------------------------------------------------------
(* Where threads are after that.                                           *)

LevelsOf(t) == 1 .. Len(frames[t])

\* Only the innermost operation of t is at another place.
LEMMA GotoIs ==
  ASSUME TypeOK, NEW t \in Threads, frames[t] # <<>>, NEW where, Goto(t, where),
         NEW places, NEW u \in Threads, NEW n \in Levels, NEW x \in Tasks
  PROVE  Is(u, n, x, places)' <=>
           IF u = t /\ n = Len(frames[t])
           THEN x = Top(t).task /\ where \in places
           ELSE Is(u, n, x, places)
<1>1. Len(frames[t]) \in Nat /\ n \in Nat
      BY DEF TypeOK, Levels
<1>2. CASE u = t
      BY <1>1, <1>2, GotoEffect DEF Is, Top
<1>3. CASE u # t
      BY <1>3, GotoEffect DEF Is
<1> QED BY <1>2, <1>3

\* Only the new operation of t is somewhere.
LEMMA BeginIs ==
  ASSUME TypeOK, NEW t \in Threads, NEW k \in Tasks,
         NEW o \in {"new", "wait", "abort", "work"},
         NEW where \in {"announce", "swap", "body", "finish", "post", "sleep", "unref"},
         Begin(t, k, o, where),
         NEW places, NEW u \in Threads, NEW n \in Levels, NEW x \in Tasks
  PROVE  Is(u, n, x, places)' <=>
           IF u = t /\ n = Len(frames[t]) + 1
           THEN x = k /\ where \in places
           ELSE Is(u, n, x, places)
<1>1. Len(frames[t]) \in Nat /\ n \in Nat
      BY DEF TypeOK, Levels
<1>2. CASE u = t
  <2>1. CASE n = Len(frames[t]) + 1
        BY <1>1, <1>2, <2>1, BeginEffect DEF Is
  <2>2. CASE n # Len(frames[t]) + 1
        BY <1>1, <1>2, <2>2, BeginEffect DEF Is
  <2> QED BY <2>1, <2>2
<1>3. CASE u # t
      BY <1>3, BeginEffect DEF Is
<1> QED BY <1>2, <1>3

\* Only the operation of t that has returned is nowhere.
LEMMA EndIs ==
  ASSUME TypeOK, NEW t \in Threads, frames[t] # <<>>, End(t),
         NEW places, NEW u \in Threads, NEW n \in Levels, NEW x \in Tasks
  PROVE  Is(u, n, x, places)' <=>
           Is(u, n, x, places) /\ ~(u = t /\ n = Len(frames[t]))
<1>1. Len(frames[t]) \in Nat /\ n \in Nat
      BY DEF TypeOK, Levels
<1>2. CASE u = t
      BY <1>1, <1>2, EndEffect DEF Is
<1>3. CASE u # t
      BY <1>3, EndEffect DEF Is
<1> QED BY <1>2, <1>3

\* The innermost operation is one.
LEMMA TopIs ==
  ASSUME TypeOK, Shape, NEW t \in Threads, NEW where, At(t, where)
  PROVE  /\ Len(frames[t]) \in 1 .. Len(frames[t])
         /\ Len(frames[t]) \in Levels
         /\ Top(t) = frames[t][Len(frames[t])]
         /\ Top(t) \in Frames
         /\ Top(t).task \in Tasks
         /\ \A places : Is(t, Len(frames[t]), Top(t).task, places) <=> where \in places
<1>1. frames[t] \in Seq(Frames) /\ frames[t] # <<>>
      BY DEF TypeOK, At
<1>2. Len(frames[t]) \in 1 .. Len(frames[t])
      BY <1>1
<1>3. Len(frames[t]) \in Levels
      BY <1>2, ThreadsAssumption DEF Shape, Levels
<1>4. Top(t) \in Frames
      BY <1>1, <1>2 DEF Top
<1>5. Top(t).task \in Tasks
      BY <1>4 DEF Frames
<1> QED BY <1>2, <1>3, <1>4, <1>5 DEF Is, Top, At

-----------------------------------------------------------------------------
(* The shape of the operations.                                            *)

\* The innermost operation goes to a place that its kind of operation has.
LEMMA GotoShape ==
  ASSUME TypeOK, Shape, NEW t \in Threads, frames[t] # <<>>,
         NEW where \in {"body", "finish", "post", "sleep", "unref"}, Goto(t, where),
         Top(t).op # "new",
         where = "unref" => Top(t).op = "work",
         where = "sleep" => Top(t).op # "work"
  PROVE  Shape'
<1> SUFFICES ASSUME NEW u \in Threads, NEW n \in LevelsOf(u)'
             PROVE  /\ Len(frames'[u]) <= MaxDepth
                    /\ frames'[u][n].op = "new" <=> frames'[u][n].at = "announce"
                    /\ frames'[u][n].at = "unref" => frames'[u][n].op = "work"
                    /\ frames'[u][n].at = "sleep" => frames'[u][n].op # "work"
                    /\ frames'[u][n].op = "work" <=> n = 1 /\ u \in Workers
                    /\ n < Len(frames'[u]) => frames'[u][n].at = "body"
  <2>1. \A u \in Threads : Len(frames'[u]) <= MaxDepth
        BY GotoEffect DEF Shape
  <2> QED BY <2>1 DEF Shape, LevelsOf
<1>1. Len(frames[t]) \in Nat
      BY DEF TypeOK
<1>2. CASE u # t
      BY <1>2, GotoEffect DEF Shape, LevelsOf
<1>3. CASE u = t /\ n # Len(frames[t])
      BY <1>1, <1>3, GotoEffect DEF Shape, LevelsOf
<1>4. CASE u = t /\ n = Len(frames[t])
  <2>1. /\ n \in 1 .. Len(frames[t]) /\ Len(frames'[t]) = n
        /\ frames'[t][n].op = frames[t][n].op /\ frames'[t][n].at = where
        BY <1>1, <1>4, GotoEffect
  <2>2. frames[t][n].op # "new" /\ (frames[t][n].op = "work" <=> n = 1 /\ t \in Workers)
        BY <1>4, <2>1 DEF Shape, Top
  <2>3. Len(frames'[t]) <= MaxDepth
        BY <1>4, <2>1 DEF Shape
  <2> QED BY <1>1, <1>4, <2>1, <2>2, <2>3 DEF Top
<1> QED BY <1>2, <1>3, <1>4

\* A worker begins with the work on a task; what begins later, begins in a body.
LEMMA BeginShape ==
  ASSUME TypeOK, Shape, NEW t \in Threads, NEW k \in Tasks,
         NEW o \in {"new", "wait", "abort", "work"}, NEW where \in {"announce", "swap"},
         Begin(t, k, o, where),
         o = "new" <=> where = "announce",
         o = "work" <=> frames[t] = <<>> /\ t \in Workers,
         frames[t] # <<>> => Top(t).at = "body"
  PROVE  Shape'
<1> SUFFICES ASSUME NEW u \in Threads, NEW n \in LevelsOf(u)'
             PROVE  /\ Len(frames'[u]) <= MaxDepth
                    /\ frames'[u][n].op = "new" <=> frames'[u][n].at = "announce"
                    /\ frames'[u][n].at = "unref" => frames'[u][n].op = "work"
                    /\ frames'[u][n].at = "sleep" => frames'[u][n].op # "work"
                    /\ frames'[u][n].op = "work" <=> n = 1 /\ u \in Workers
                    /\ n < Len(frames'[u]) => frames'[u][n].at = "body"
  <2>1. \A u \in Threads : Len(frames'[u]) <= MaxDepth
        BY BeginEffect DEF Shape
  <2> QED BY <2>1 DEF Shape, LevelsOf
<1>1. Len(frames[t]) \in Nat /\ (frames[t] = <<>> <=> Len(frames[t]) = 0)
      BY DEF TypeOK
<1>2. CASE u # t
      BY <1>2, BeginEffect DEF Shape, LevelsOf
<1>3. CASE u = t /\ n = Len(frames[t]) + 1
      BY <1>1, <1>3, BeginEffect DEF Shape, LevelsOf
<1>4. CASE u = t /\ n # Len(frames[t]) + 1
  <2>1. n \in 1 .. Len(frames[t]) /\ frames'[t][n] = frames[t][n]
        BY <1>1, <1>4, BeginEffect DEF LevelsOf
  <2>2. n = Len(frames[t]) => frames[t][n].at = "body"
        BY <1>1, <2>1 DEF Top
  <2> QED BY <1>1, <1>4, <2>1, <2>2, BeginEffect DEF Shape, LevelsOf
<1> QED BY <1>2, <1>3, <1>4

\* What is left had its shape before.
LEMMA EndShape ==
  ASSUME TypeOK, Shape, NEW t \in Threads, frames[t] # <<>>, End(t)
  PROVE  Shape'
<1> SUFFICES ASSUME NEW u \in Threads, NEW n \in LevelsOf(u)'
             PROVE  /\ frames'[u][n].op = "new" <=> frames'[u][n].at = "announce"
                    /\ frames'[u][n].at = "unref" => frames'[u][n].op = "work"
                    /\ frames'[u][n].at = "sleep" => frames'[u][n].op # "work"
                    /\ frames'[u][n].op = "work" <=> n = 1 /\ u \in Workers
                    /\ n < Len(frames'[u]) => frames'[u][n].at = "body"
  <2>1. ASSUME NEW v \in Threads
        PROVE  Len(frames'[v]) <= MaxDepth
    <3>1. Len(frames[v]) \in Nat /\ Len(frames[v]) <= MaxDepth /\ MaxDepth \in Nat
          BY ThreadsAssumption DEF Shape, TypeOK
    <3>2. Len(frames'[v]) = Len(frames[v]) \/ Len(frames'[v]) = Len(frames[v]) - 1
          BY EndEffect
    <3> QED BY <3>1, <3>2
  <2> QED BY <2>1 DEF Shape, LevelsOf
<1>2. CASE u # t
      BY <1>2, EndEffect DEF Shape, LevelsOf
<1>3. CASE u = t
  <2>1. n \in 1 .. Len(frames[t]) /\ frames'[t][n] = frames[t][n]
        BY <1>3, EndEffect DEF LevelsOf
  <2> QED BY <1>3, <2>1, EndEffect DEF Shape, LevelsOf
<1> QED BY <1>2, <1>3

-----------------------------------------------------------------------------
(* What workers handle, and whose code waits.                              *)

\* Moving within an operation changes nothing about which worker handles a task.
LEMMA GotoHandles ==
  ASSUME TypeOK, NEW t \in Threads, frames[t] # <<>>, NEW where, Goto(t, where),
         NEW w \in Workers, NEW x \in Tasks
  PROVE  Handles(w, x)' <=> Handles(w, x)
<1>1. /\ frames[w] \in Seq(Frames) /\ w \in Threads
      /\ Len(frames[t]) \in Nat \ {0}
      BY DEF TypeOK, Threads
<1>2. CASE w # t
      BY <1>1, <1>2, GotoEffect DEF Handles
<1>3. CASE w = t
  <2>1. Len(frames'[t]) = Len(frames[t]) /\ frames'[t][1].task = frames[t][1].task
        BY <1>1, GotoEffect
  <2>2. frames'[t] # <<>>
        BY <1>1, <2>1
  <2> QED BY <1>3, <2>1, <2>2 DEF Handles
<1> QED BY <1>2, <1>3

\* A worker handles one task more when it begins its outermost operation.
LEMMA BeginHandles ==
  ASSUME TypeOK, NEW t \in Threads, NEW k \in Tasks,
         NEW o \in {"new", "wait", "abort", "work"}, NEW where \in {"announce", "swap"},
         Begin(t, k, o, where),
         NEW w \in Workers, NEW x \in Tasks
  PROVE  Handles(w, x)' <=> Handles(w, x) \/ (w = t /\ frames[t] = <<>> /\ x = k)
<1>1. /\ frames[t] \in Seq(Frames) /\ w \in Threads
      /\ Len(frames[t]) \in Nat /\ (frames[t] = <<>> <=> Len(frames[t]) = 0)
      BY DEF TypeOK, Threads
<1>2. CASE w # t
      BY <1>1, <1>2, BeginEffect DEF Handles
<1>3. CASE w = t
  <2>1. Len(frames'[t]) = Len(frames[t]) + 1
        BY BeginEffect
  <2>2. frames'[t] # <<>>
        BY <1>1, <2>1
  <2>3. CASE frames[t] = <<>>
    <3>1. frames'[t][1].task = k
          BY <1>1, <2>3, BeginEffect
    <3> QED BY <1>3, <2>2, <2>3, <3>1 DEF Handles
  <2>4. CASE frames[t] # <<>>
    <3>1. frames'[t][1] = frames[t][1]
          BY <1>1, <2>4, BeginEffect
    <3> QED BY <1>3, <2>2, <2>4, <3>1 DEF Handles
  <2> QED BY <2>3, <2>4
<1> QED BY <1>2, <1>3

\* A worker handles its task until its outermost operation ends.
LEMMA EndHandles ==
  ASSUME TypeOK, NEW t \in Threads, frames[t] # <<>>, End(t),
         NEW w \in Workers, NEW x \in Tasks
  PROVE  Handles(w, x)' <=> Handles(w, x) /\ ~(w = t /\ Len(frames[t]) = 1)
<1>1. w \in Threads /\ Len(frames[t]) \in Nat \ {0}
      BY DEF TypeOK, Threads
<1>2. CASE w # t
      BY <1>1, <1>2, EndEffect DEF Handles
<1>3. CASE w = t
  <2>1. Len(frames'[t]) = Len(frames[t]) - 1 /\ frames'[t] \in Seq(Frames)
        BY <1>1, EndEffect
  <2>2. CASE Len(frames[t]) = 1
    <3>1. frames'[t] = <<>>
          BY <2>1, <2>2
    <3> QED BY <1>3, <2>2, <3>1 DEF Handles
  <2>3. CASE Len(frames[t]) # 1
    <3>0. ASSUME NEW l \in Nat \ {0}, l # 1
          PROVE  1 \in 1 .. l - 1 /\ l - 1 # 0
          BY <3>0
    <3>1. 1 \in 1 .. Len(frames[t]) - 1 /\ Len(frames'[t]) # 0
          BY <1>1, <2>1, <2>3, <3>0
    <3>2. frames'[t][1] = frames[t][1]
          BY <3>1, EndEffect
    <3>3. frames'[t] # <<>>
          BY <2>1, <3>1
    <3> QED BY <1>3, <2>3, <3>2, <3>3 DEF Handles
  <2> QED BY <2>2, <2>3
<1> QED BY <1>2, <1>3

\* References are added at most.
HoldersGrow == \A k \in Tasks : holders[k] \subseteq holders'[k]

\* Moving within an operation keeps CallersHold.
LEMMA GotoCallers ==
  ASSUME TypeOK, CallersHold, HoldersGrow,
         NEW t \in Threads, frames[t] # <<>>, NEW where, Goto(t, where)
  PROVE  CallersHold'
<1> SUFFICES ASSUME NEW u \in Threads, NEW n \in LevelsOf(u)',
                    frames'[u][n].op \in {"wait", "abort"}
             PROVE  Caller(u, n)' \in holders'[frames'[u][n].task]
    BY DEF CallersHold, LevelsOf
<1>1. frames[u] \in Seq(Frames) /\ Len(frames[u]) \in Nat /\ Len(frames[t]) \in Nat
      BY DEF TypeOK
<1>2. n \in 1 .. Len(frames[u])
      BY GotoEffect DEF LevelsOf
<1>3. /\ frames'[u][n].task = frames[u][n].task /\ frames'[u][n].op = frames[u][n].op
      /\ n # 1 => frames'[u][n - 1].task = frames[u][n - 1].task
      BY <1>1, <1>2, GotoEffect
<1>4. frames[u][n].task \in Tasks
      BY <1>2, FrameType
<1> QED BY <1>2, <1>3, <1>4 DEF CallersHold, Caller, HoldersGrow

\* A call keeps CallersHold if the code that makes it has a reference.
LEMMA BeginCallers ==
  ASSUME TypeOK, CallersHold, HoldersGrow, NEW t \in Threads, NEW k \in Tasks,
         NEW o \in {"new", "wait", "abort", "work"}, NEW where \in {"announce", "swap"},
         Begin(t, k, o, where),
         o \in {"wait", "abort"} =>
           (IF frames[t] = <<>> THEN t ELSE Top(t).task) \in holders[k]
  PROVE  CallersHold'
<1> SUFFICES ASSUME NEW u \in Threads, NEW n \in LevelsOf(u)',
                    frames'[u][n].op \in {"wait", "abort"}
             PROVE  Caller(u, n)' \in holders'[frames'[u][n].task]
    BY DEF CallersHold, LevelsOf
<1>0. /\ Len(frames[t]) + 1 \in 1 .. MaxDepth
      /\ Len(frames'[t]) = Len(frames[t]) + 1
      /\ frames'[t][Len(frames[t]) + 1].task = k
      /\ frames'[t][Len(frames[t]) + 1].op = o
      /\ frames'[t][Len(frames[t]) + 1].at = where
      /\ \A m \in 1 .. Len(frames[t]) : frames'[t][m] = frames[t][m]
      /\ \A v \in Threads \ {t} : frames'[v] = frames[v]
      BY BeginEffect
<1>1. /\ frames[u] \in Seq(Frames) /\ Len(frames[u]) \in Nat /\ Len(frames[t]) \in Nat
      /\ frames[t] = <<>> <=> Len(frames[t]) = 0
      BY DEF TypeOK
<1>2. CASE u = t /\ n = Len(frames[t]) + 1
  <2>1. frames'[u][n].task = k /\ frames'[u][n].op = o
        BY <1>2, <1>0
  <2>2. ASSUME n # 1
        PROVE  frames'[u][n - 1] = frames[u][n - 1]
    <3>1. n - 1 \in 1 .. Len(frames[t])
          BY <1>1, <1>2, <2>2
    <3> QED BY <1>2, <3>1, <1>0
  <2>3. Caller(u, n)' = IF frames[t] = <<>> THEN t ELSE Top(t).task
        BY <1>1, <1>2, <2>2 DEF Caller, Top
  <2> QED BY <2>1, <2>3 DEF HoldersGrow
<1>3. CASE ~(u = t /\ n = Len(frames[t]) + 1)
  <2>1. n \in 1 .. Len(frames[u])
        BY <1>1, <1>3, <1>0 DEF LevelsOf
  <2>2. /\ frames'[u][n] = frames[u][n]
        /\ n # 1 => frames'[u][n - 1] = frames[u][n - 1]
    <3>1. CASE u = t
      <4>1. n # 1 => n - 1 \in 1 .. Len(frames[t])
            BY <1>1, <2>1, <3>1
      <4> QED BY <2>1, <3>1, <4>1, <1>0
    <3>2. CASE u # t
          BY <3>2, <1>0
    <3> QED BY <3>1, <3>2
  <2>3. frames[u][n].task \in Tasks
        BY <2>1, FrameType
  <2> QED BY <2>1, <2>2, <2>3 DEF CallersHold, Caller, HoldersGrow
<1> QED BY <1>2, <1>3

\* The end of an operation keeps CallersHold.
LEMMA EndCallers ==
  ASSUME TypeOK, CallersHold, HoldersGrow, NEW t \in Threads, frames[t] # <<>>, End(t)
  PROVE  CallersHold'
<1> SUFFICES ASSUME NEW u \in Threads, NEW n \in LevelsOf(u)',
                    frames'[u][n].op \in {"wait", "abort"}
             PROVE  Caller(u, n)' \in holders'[frames'[u][n].task]
    BY DEF CallersHold, LevelsOf
<1>1. Len(frames[u]) \in Nat /\ Len(frames'[u]) \in Nat /\ n \in 1 .. Len(frames'[u])
      BY EndEffect DEF TypeOK, LevelsOf
<1>2. /\ n \in 1 .. Len(frames[u])
      /\ frames'[u][n] = frames[u][n]
      /\ n # 1 => frames'[u][n - 1] = frames[u][n - 1]
  <2>1. CASE u = t
    <3>1. Len(frames'[t]) = Len(frames[t]) - 1
          BY EndEffect
    <3>2. /\ n \in 1 .. Len(frames[t]) /\ n \in 1 .. Len(frames[t]) - 1
          /\ n # 1 => n - 1 \in 1 .. Len(frames[t]) - 1
          BY <1>1, <2>1, <3>1
    <3> QED BY <2>1, <3>2, EndEffect
  <2>2. CASE u # t
        BY <1>1, <2>2, EndEffect
  <2> QED BY <2>1, <2>2
<1>3. frames[u][n].task \in Tasks
      BY <1>2, FrameType
<1> QED BY <1>2, <1>3 DEF CallersHold, Caller, HoldersGrow

-----------------------------------------------------------------------------
(* The stack.                                                              *)

\* The pushed task is on the stack, besides what was there.
LEMMA PushEffect ==
  ASSUME TypeOK, NEW k \in Tasks, idle' = <<k>> \o idle
  PROVE  /\ idle' \in Seq(Tasks)
         /\ \A x \in Tasks : OnStack(x)' <=> x = k \/ OnStack(x)
         /\ Distinct /\ ~OnStack(k) => Distinct'
<1>1. PICK l \in Nat : l = Len(idle) /\ idle \in Seq(Tasks)
      BY DEF TypeOK
<1>2. /\ idle' \in Seq(Tasks) /\ Len(idle') = l + 1 /\ idle'[1] = k
      /\ \A n \in 2 .. l + 1 : idle'[n] = idle[n - 1]
      BY <1>1
<1>3. \A n \in 1 .. l : n + 1 \in 2 .. l + 1 /\ n + 1 - 1 = n
      BY <1>1
<1>4. \A n \in 1 .. l : idle'[n + 1] = idle[n]
      BY <1>2, <1>3
<1>5. \A n \in 1 .. l + 1 : n = 1 \/ (n - 1 \in 1 .. l /\ idle'[n] = idle[n - 1])
      BY <1>1, <1>2
<1>6. ASSUME NEW x \in Tasks
      PROVE  OnStack(x)' <=> x = k \/ OnStack(x)
  <2>1. CASE x = k
        BY <1>1, <1>2, <2>1 DEF OnStack
  <2>2. ASSUME OnStack(x)'
        PROVE  x = k \/ OnStack(x)
        BY <1>1, <1>2, <1>5, <2>2 DEF OnStack
  <2>3. ASSUME OnStack(x)
        PROVE  OnStack(x)'
    <3>1. PICK n \in 1 .. l : idle[n] = x
          BY <1>1, <2>3 DEF OnStack
    <3>2. n + 1 \in 1 .. l + 1 /\ idle'[n + 1] = x
          BY <1>1, <1>4, <3>1
    <3> QED BY <1>2, <3>2 DEF OnStack
  <2> QED BY <2>1, <2>2, <2>3
<1>7. ASSUME Distinct, ~OnStack(k), NEW m \in 1 .. l + 1, NEW n \in 1 .. l + 1,
             idle'[m] = idle'[n]
      PROVE  m = n
  <2>1. CASE m = 1 \/ n = 1
        BY <1>1, <1>2, <1>5, <1>7, <2>1 DEF OnStack
  <2>2. CASE m # 1 /\ n # 1
    <3>1. m - 1 \in 1 .. l /\ n - 1 \in 1 .. l /\ idle[m - 1] = idle[n - 1]
          BY <1>5, <1>7, <2>2
    <3>2. m - 1 = n - 1
          BY <1>1, <1>7, <3>1 DEF Distinct
    <3> QED BY <3>2
  <2> QED BY <2>1, <2>2
<1> QED BY <1>2, <1>6, <1>7 DEF Distinct

\* The popped task was on the stack, and only that is not there any more.
LEMMA PopEffect ==
  ASSUME TypeOK, Distinct, idle # <<>>, idle' = Tail(idle)
  PROVE  /\ idle' \in Seq(Tasks)
         /\ Head(idle) \in Tasks
         /\ OnStack(Head(idle))
         /\ \A x \in Tasks : OnStack(x)' <=> OnStack(x) /\ x # Head(idle)
         /\ Distinct'
<1>1. PICK l \in Nat \ {0} : l = Len(idle) /\ idle \in Seq(Tasks)
      BY DEF TypeOK
<1>2. /\ idle' \in Seq(Tasks) /\ Len(idle') = l - 1 /\ Head(idle) = idle[1]
      /\ \A n \in 1 .. l - 1 : idle'[n] = idle[n + 1]
      BY <1>1
<1>3. idle[1] \in Tasks /\ OnStack(idle[1])
      BY <1>1 DEF OnStack
<1>4. \A n \in 1 .. l - 1 : n + 1 \in 1 .. l /\ n + 1 # 1
      BY <1>1
<1>5. \A n \in 1 .. l : n = 1 \/ (n - 1 \in 1 .. l - 1 /\ idle'[n - 1] = idle[n])
  <2>1. \A n \in 1 .. l : n = 1 \/ (n - 1 \in 1 .. l - 1 /\ n - 1 + 1 = n)
        BY <1>1
  <2> QED BY <1>2, <2>1
<1>6. ASSUME NEW x \in Tasks
      PROVE  OnStack(x)' <=> OnStack(x) /\ x # idle[1]
  <2>1. ASSUME OnStack(x)'
        PROVE  OnStack(x) /\ x # idle[1]
    <3>1. PICK n \in 1 .. l - 1 : idle'[n] = x
          BY <1>2, <2>1 DEF OnStack
    <3>2. n + 1 \in 1 .. l /\ n + 1 # 1 /\ idle[n + 1] = x
          BY <1>2, <1>4, <3>1
    <3>3. 1 \in 1 .. l
          BY <1>1
    <3> QED BY <1>1, <3>2, <3>3 DEF OnStack, Distinct
  <2>2. ASSUME OnStack(x), x # idle[1]
        PROVE  OnStack(x)'
        BY <1>1, <1>2, <1>5, <2>2 DEF OnStack
  <2> QED BY <2>1, <2>2
<1>7. ASSUME NEW m \in 1 .. l - 1, NEW n \in 1 .. l - 1, idle'[m] = idle'[n]
      PROVE  m = n
  <2>1. m + 1 \in 1 .. l /\ n + 1 \in 1 .. l /\ idle[m + 1] = idle[n + 1]
        BY <1>2, <1>4, <1>7
  <2>2. m + 1 = n + 1
        BY <1>1, <2>1 DEF Distinct
  <2> QED BY <2>2
<1> QED BY <1>2, <1>3, <1>6, <1>7 DEF Distinct

-----------------------------------------------------------------------------
(* References.                                                             *)

\* The holders of a task can be counted.
LEMMA HoldersFinite ==
  ASSUME TypeOK, NEW k \in Tasks
  PROVE  /\ IsFiniteSet(holders[k])
         /\ Cardinality(holders[k]) \in Nat
         /\ Cardinality(holders[k]) = 0 <=> holders[k] = {}
<1>1. IsFiniteSet(Bodies)
  <2>1. IsFiniteSet(Clients)
        BY ThreadsAssumption, FS_Subset DEF Threads
  <2> QED BY <2>1, ThreadsAssumption, FS_Union DEF Bodies
<1>2. holders[k] \subseteq Bodies
      BY DEF TypeOK
<1>3. IsFiniteSet(holders[k])
      BY <1>1, <1>2, FS_Subset
<1> QED BY <1>3, FS_CardinalityType, FS_EmptySet

\* What some operation works on exists.
InUse ==
  \A u \in Threads : \A n \in 1 .. Len(frames[u]) :
    frames[u][n].at # "announce" =>
      refs[frames[u][n].task] # 0 /\ status[frames[u][n].task] # "none"

\* A task that some operation is about, other than the announcement of a new one,
\* exists: a caller or the worker that popped it has a reference.
LEMMA Used == TypeOK /\ Shape /\ CallersHold /\ Counted => InUse
<1> SUFFICES ASSUME TypeOK, Shape, CallersHold, Counted,
                    NEW u \in Threads, NEW n \in 1 .. Len(frames[u]),
                    frames[u][n].at # "announce", NEW k, k = frames[u][n].task
             PROVE  refs[k] # 0 /\ status[k] # "none"
    BY DEF InUse
<1>1. k \in Tasks /\ frames[u][n].op \in {"new", "wait", "abort", "work"}
      BY FrameType
<1>2. Cardinality(holders[k]) \in Nat /\ (Cardinality(holders[k]) = 0 <=> holders[k] = {})
      BY <1>1, HoldersFinite
<1>3. CASE frames[u][n].op = "work"
  <2>1. n = 1 /\ u \in Workers
        BY <1>3 DEF Shape
  <2>2. frames[u] # <<>>
        BY FrameType
  <2>3. Owned(k)
        BY <2>1, <2>2 DEF Owned, Handles
  <2> QED BY <1>1, <1>2, <2>3 DEF Counted
<1>4. CASE frames[u][n].op \in {"wait", "abort"}
  <2>1. holders[k] # {}
        BY <1>4 DEF CallersHold
  <2>2. refs[k] # 0
        BY <1>1, <1>2, <2>1 DEF Counted
  <2> QED BY <1>1, <2>2 DEF Counted
<1> QED BY <1>1, <1>3, <1>4 DEF Shape

\* No reference of a body goes or comes, nor does that of the stack.
LEMMA SameCounted ==
  ASSUME Counted, UNCHANGED <<refs, holders>>,
         \A k \in Tasks : Owned(k)' <=> Owned(k),
         \A k \in Tasks : status'[k] = "none" <=> status[k] = "none"
  PROVE  Counted'
BY DEF Counted

\* A body gives up its reference.
LEMMA ReleaseCounted ==
  ASSUME TypeOK, Counted, NEW k \in Tasks, NEW b \in holders[k],
         holders' = [holders EXCEPT ![k] = @ \ {b}], Release(k),
         \A x \in Tasks : Owned(x)' <=> Owned(x)
  PROVE  Counted' /\ refs[k] # 0
<1>1. /\ Cardinality(holders[k] \ {b}) = Cardinality(holders[k]) - 1
      /\ Cardinality(holders[k]) \in Nat /\ Cardinality(holders[k]) # 0
      BY HoldersFinite, FS_RemoveElement
<1>2. /\ refs \in [Tasks -> Nat] /\ status \in [Tasks -> Statuses]
      /\ holders \in [Tasks -> SUBSET Bodies]
      BY DEF TypeOK
<1>3. /\ refs[k] # 0 /\ refs'[k] = refs[k] - 1
      /\ status'[k] = IF refs[k] = 1 THEN "none" ELSE status[k]
      BY <1>1, <1>2 DEF Counted, Release
<1>4. /\ refs'[k] = Cardinality(holders'[k]) + (IF Owned(k)' THEN 1 ELSE 0)
      /\ refs'[k] = 0 <=> status'[k] = "none"
      BY <1>1, <1>2, <1>3 DEF Counted
<1>5. ASSUME NEW x \in Tasks, x # k
      PROVE  refs'[x] = refs[x] /\ status'[x] = status[x] /\ holders'[x] = holders[x]
      BY <1>2, <1>5 DEF Release
<1> QED BY <1>3, <1>4, <1>5 DEF Counted

\* A worker, or pmath_done, gives up the reference of the stack.
LEMMA DropCounted ==
  ASSUME TypeOK, Counted, NEW k \in Tasks, UNCHANGED holders, Release(k),
         Owned(k), ~Owned(k)',
         \A x \in Tasks \ {k} : Owned(x)' <=> Owned(x)
  PROVE  Counted' /\ refs[k] # 0
<1>1. Cardinality(holders[k]) \in Nat
      BY HoldersFinite
<1>2. /\ refs \in [Tasks -> Nat] /\ status \in [Tasks -> Statuses]
      BY DEF TypeOK
<1>3. /\ refs[k] # 0 /\ refs'[k] = refs[k] - 1
      /\ status'[k] = IF refs[k] = 1 THEN "none" ELSE status[k]
      BY <1>1, <1>2 DEF Counted, Release
<1>4. /\ refs'[k] = Cardinality(holders'[k]) + (IF Owned(k)' THEN 1 ELSE 0)
      /\ refs'[k] = 0 <=> status'[k] = "none"
      BY <1>1, <1>2, <1>3 DEF Counted
<1>5. ASSUME NEW x \in Tasks, x # k
      PROVE  refs'[x] = refs[x] /\ status'[x] = status[x]
      BY <1>2, <1>5 DEF Release
<1> QED BY <1>3, <1>4, <1>5 DEF Counted

-----------------------------------------------------------------------------
(* Who runs tasks, and what has ended.                                     *)

\* No operation comes to places, or leaves them.
Same(places) ==
  \A u \in Threads, n \in Levels, x \in Tasks : Is(u, n, x, places)' <=> Is(u, n, x, places)

\* Running depends on the runners and on which tasks have status "running".
LEMMA RunningStays ==
  ASSUME Running, Same(Runner),
         \A k \in Tasks : status'[k] = "running" <=> status[k] = "running"
  PROVE  Running'
BY DEF Running, Same

Taken == {"running", "done"}

\* Ended depends on who posts or executes a task, and on "done".
LEMMA EndedStays ==
  ASSUME Ended, Same({"post"}), Same({"body"}),
         \A k \in Tasks : status'[k] \in Taken <=> status[k] \in Taken,
         \A k \in Tasks : done'[k] > 0 => done[k] > 0
  PROVE  Ended'
BY DEF Ended, Same, Taken

\* No thread works on a task that is freed.
LEMMA ReleaseRuns ==
  ASSUME TypeOK, Running, Ended, InUse', NEW k \in Tasks, refs[k] # 0, Release(k),
         Same(Runner), Same({"post"}), Same({"body"})
  PROVE  Running' /\ Ended'
<1>1. /\ refs \in [Tasks -> Nat] /\ status \in [Tasks -> Statuses] /\ done \in [Tasks -> Nat]
      BY DEF TypeOK
<1>2. /\ \A x \in Tasks \ {k} : status'[x] = status[x] /\ done'[x] = done[x]
      /\ refs[k] # 1 => status'[k] = status[k] /\ done'[k] = done[k]
      /\ refs[k] = 1 => status'[k] = "none" /\ done'[k] = 0 /\ refs'[k] = 0
      BY <1>1 DEF Release
<1>3. ASSUME NEW u \in Threads, NEW n \in Levels, Is(u, n, k, {"body", "finish", "post"})'
      PROVE  refs[k] # 1
      BY <1>2, <1>3 DEF Is, InUse
<1>4. ASSUME NEW x \in Tasks
      PROVE  status'[x] = "running" <=> status[x] = "running"
  <2>1. CASE x = k /\ refs[k] = 1
    <3>1. ASSUME status[k] = "running"
          PROVE  FALSE
      <4>1. PICK u \in Threads, n \in Levels : Is(u, n, k, Runner)
            BY <3>1 DEF Running
      <4>2. Is(u, n, k, Runner)'
            BY <4>1 DEF Same
      <4>3. Is(u, n, k, {"body", "finish", "post"})'
            BY <4>2 DEF Is, Runner
      <4> QED BY <1>3, <2>1, <4>3
    <3> QED BY <1>2, <2>1, <3>1
  <2> QED BY <1>2, <2>1
<1>5. ASSUME NEW x \in Tasks,
             done'[x] > 0 \/ \E u \in Threads, n \in Levels : Is(u, n, x, {"post"})'
      PROVE  /\ status'[x] \in {"running", "done"}
             /\ ~\E u \in Threads, n \in Levels : Is(u, n, x, {"body"})'
  <2>1. CASE x = k /\ refs[k] = 1
    <3>1. PICK u \in Threads, n \in Levels : Is(u, n, k, {"post"})'
          BY <1>2, <1>5, <2>1
    <3>2. Is(u, n, k, {"body", "finish", "post"})'
          BY <3>1 DEF Is
    <3> QED BY <1>3, <2>1, <3>2
  <2>2. CASE ~(x = k /\ refs[k] = 1)
    <3>1. status'[x] = status[x] /\ done'[x] = done[x]
          BY <1>2, <2>2
    <3>2. done[x] > 0 \/ \E u \in Threads, n \in Levels : Is(u, n, x, {"post"})
          BY <1>5, <3>1 DEF Same
    <3>3. /\ status[x] \in {"running", "done"}
          /\ ~\E u \in Threads, n \in Levels : Is(u, n, x, {"body"})
          BY <3>2 DEF Ended
    <3> QED BY <3>1, <3>3 DEF Same
  <2> QED BY <2>1, <2>2
<1>6. Running'
      BY <1>4, RunningStays
<1> QED BY <1>5, <1>6 DEF Ended

\* What does not change the frames leaves everybody where they are.
LEMMA StillSame ==
  ASSUME UNCHANGED frames, NEW places
  PROVE  Same(places)
BY DEF Same, Is

\* An operation begins, goes on or ends outside of places, or stays in them.
LEMMA GotoSame ==
  ASSUME TypeOK, Shape, NEW t \in Threads, NEW where, NEW from, At(t, from), Goto(t, where),
         NEW places, from \in places <=> where \in places
  PROVE  Same(places)
<1> SUFFICES ASSUME NEW u \in Threads, NEW n \in Levels, NEW x \in Tasks
             PROVE  Is(u, n, x, places)' <=> Is(u, n, x, places)
    BY DEF Same
<1>1. frames[t] # <<>> /\ Top(t) = frames[t][Len(frames[t])] /\ Top(t).at = from
      BY DEF At, Top
<1>2. Is(t, Len(frames[t]), x, places) <=> x = Top(t).task /\ from \in places
      BY <1>1, TopIs DEF Is
<1> QED BY <1>1, <1>2, GotoIs

\* Nobody comes to places.
Fewer(places) ==
  \A u \in Threads, n \in Levels, x \in Tasks : Is(u, n, x, places)' => Is(u, n, x, places)

\* Moving to a place outside of a set adds nobody to it.
LEMMA GotoFewer ==
  ASSUME TypeOK, NEW t \in Threads, frames[t] # <<>>, NEW where, Goto(t, where),
         NEW places, where \notin places
  PROVE  Fewer(places)
BY GotoIs DEF Fewer

\* An operation begins outside of the places that it does not begin at.
LEMMA BeginSame ==
  ASSUME TypeOK, NEW t \in Threads, NEW k \in Tasks,
         NEW o \in {"new", "wait", "abort", "work"}, NEW where \in {"announce", "swap"},
         Begin(t, k, o, where),
         NEW places, where \notin places
  PROVE  Same(places)
<1> SUFFICES ASSUME NEW u \in Threads, NEW n \in Levels, NEW x \in Tasks
             PROVE  Is(u, n, x, places)' <=> Is(u, n, x, places)
    BY DEF Same
<1>1. Len(frames[t]) \in Nat
      BY DEF TypeOK
<1>2. ~Is(t, Len(frames[t]) + 1, x, places)
      BY <1>1 DEF Is
<1> QED BY <1>2, BeginIs

\* An operation ends outside of the places that it did not end at.
LEMMA EndSame ==
  ASSUME TypeOK, Shape, NEW t \in Threads, NEW from, At(t, from), End(t),
         NEW places, from \notin places
  PROVE  Same(places)
<1> SUFFICES ASSUME NEW u \in Threads, NEW n \in Levels, NEW x \in Tasks
             PROVE  Is(u, n, x, places)' <=> Is(u, n, x, places)
    BY DEF Same
<1>1. frames[t] # <<>> /\ Top(t) = frames[t][Len(frames[t])] /\ Top(t).at = from
      BY DEF At, Top
<1>2. ~Is(t, Len(frames[t]), x, places)
      BY <1>1 DEF Is
<1> QED BY <1>1, <1>2, EndIs

-----------------------------------------------------------------------------
(* The initial states, and the steps that leave tasks and frames alone.    *)

\* The invariant holds initially.
LEMMA InitIInv == Init => IInv
<1> SUFFICES ASSUME Init
             PROVE  IInv
    OBVIOUS
<1>1. TypeOK
      BY DEF Init, TypeOK, Statuses
<1>2. \A t \in Threads : Len(frames[t]) = 0
      BY DEF Init
<1>3. Shape
      BY <1>2, ThreadsAssumption DEF Shape
<1>4. WorkersWait /\ \A w \in Workers, k \in Tasks : ~Handles(w, k)
      BY DEF Init, WorkersWait, Handles, Threads
<1>5. \A t \in Threads, n \in Levels, k \in Tasks : \A places : ~Is(t, n, k, places)
      BY <1>2 DEF Is
<1>6. Running
      BY <1>5 DEF Init, Running
<1>7. Len(idle) = 0
      BY DEF Init
<1>8. Stacked
      BY <1>4, <1>7 DEF Stacked, Distinct
<1>9. CallersHold
      BY <1>2 DEF CallersHold
<1>10. \A k \in Tasks : ~Owned(k)
      BY <1>4, <1>7 DEF Owned, OnStack
<1>11. Counted
      BY <1>10, FS_EmptySet DEF Init, Counted
<1>12. Ended
      BY <1>5 DEF Init, Ended
<1> QED BY <1>1, <1>3, <1>4, <1>6, <1>8, <1>9, <1>11, <1>12 DEF IInv

\* Steps that only change the loops of workers, the semaphore have_idle_tasks,
\* gone and shutdown.
LEMMA QuietStep ==
  ASSUME IInv, UNCHANGED <<status, refs, done, holders, idle, frames>>,
         TypeOK', WorkersWait'
  PROVE  IInv'
<1>1. Shape'
      BY DEF IInv, Shape
<1>2. Running'
      BY DEF IInv, Running, Is
<1>3. Stacked'
      BY DEF IInv, Stacked, Distinct, OnStack, Handles
<1>4. CallersHold'
      BY DEF IInv, CallersHold, Caller
<1>5. Counted'
      BY DEF IInv, Counted, Owned, OnStack, Handles
<1>6. Ended'
      BY DEF IInv, Ended, Is
<1> QED BY <1>1, <1>2, <1>3, <1>4, <1>5, <1>6 DEF IInv

\* A worker looks at stop_threadpool.
LEMMA CheckStep == ASSUME IInv, NEW w \in Workers, Check(w) PROVE IInv'
<1>1. TypeOK'
      BY DEF IInv, Check, TypeOK
<1>2. WorkersWait'
      BY DEF IInv, Check, TypeOK, WorkersWait
<1> QED BY <1>1, <1>2, QuietStep DEF Check

\* sem_wait on have_idle_tasks returns.
LEMMA TakeAnnouncementStep == ASSUME IInv, NEW w \in Workers, TakeAnnouncement(w) PROVE IInv'
<1>1. TypeOK'
      BY DEF IInv, TakeAnnouncement, TypeOK
<1>2. WorkersWait'
      BY DEF IInv, TakeAnnouncement, TypeOK, WorkersWait
<1> QED BY <1>1, <1>2, QuietStep DEF TakeAnnouncement

\* A client calls pmath_done.
LEMMA LeaveStep == ASSUME IInv, NEW c \in Clients, Leave(c) PROVE IInv'
<1>1. TypeOK' /\ WorkersWait'
      BY DEF IInv, Leave, TypeOK, WorkersWait
<1> QED BY <1>1, QuietStep DEF Leave

\* The daemons are told to stop.
LEMMA StopStep == ASSUME IInv, Stop PROVE IInv'
<1>1. TypeOK' /\ WorkersWait'
      BY DEF IInv, Stop, TypeOK, WorkersWait
<1> QED BY <1>1, QuietStep DEF Stop

\* _pmath_threadpool_done posts for each worker.
LEMMA PostAllStep == ASSUME IInv, PostAll PROVE IInv'
<1>1. Cardinality(Workers) \in Nat
      BY ThreadsAssumption, FS_Subset, FS_CardinalityType DEF Threads
<1>2. TypeOK' /\ WorkersWait'
      BY <1>1 DEF IInv, PostAll, TypeOK, WorkersWait
<1> QED BY <1>2, QuietStep DEF PostAll

\* The workers have finished.
LEMMA JoinStep == ASSUME IInv, Join PROVE IInv'
<1>1. TypeOK' /\ WorkersWait'
      BY DEF IInv, Join, TypeOK, WorkersWait
<1> QED BY <1>1, QuietStep DEF Join

\* Nothing happens.
LEMMA StutterStep == ASSUME IInv, UNCHANGED vars PROVE IInv'
<1>1. TypeOK' /\ WorkersWait'
      BY DEF IInv, TypeOK, WorkersWait, vars
<1> QED BY <1>1, QuietStep DEF vars

-----------------------------------------------------------------------------
(* Calls from the bodies.                                                  *)

\* A thread that executes the code of a body is a client outside of the
\* library, or executes the body of that task.
LEMMA ExecutesOne ==
  ASSUME TypeOK, Shape, NEW t \in Threads, NEW b \in Bodies, Executes(t, b)
  PROVE  /\ b = IF frames[t] = <<>> THEN t ELSE Top(t).task
         /\ frames[t] = <<>> => t \in Clients
         /\ frames[t] # <<>> => At(t, "body") /\ b \in Tasks
BY TopIs DEF Executes, At

\* pmath_task_new: the new task has a reference of the stack and one of its creator.
LEMMA NewStep == ASSUME IInv, NEW t \in Threads, NEW k \in Tasks, New(t, k) PROVE IInv'
<1> USE DEF IInv
<1>1. /\ status[k] = "none" /\ Creator[k] \in Bodies
      /\ Begin(t, k, "new", "announce") /\ Executes(t, Creator[k])
      /\ status' = [status EXCEPT ![k] = "idle"]
      /\ refs' = [refs EXCEPT ![k] = 2]
      /\ holders' = [holders EXCEPT ![k] = {Creator[k]}]
      /\ idle' = <<k>> \o idle
      /\ UNCHANGED <<done, haveIdle, loop, gone, shutdown>>
      BY ThreadsAssumption DEF New
<1>2. /\ frames[t] = <<>> => t \in Clients
      /\ frames[t] # <<>> => Top(t).at = "body"
      BY <1>1, ExecutesOne DEF At
<1>3. refs[k] = 0 /\ holders[k] = {} /\ ~Owned(k)
  <2>1. Cardinality(holders[k]) \in Nat /\ refs[k] = 0
        BY <1>1, HoldersFinite DEF Counted
  <2> QED BY <2>1, HoldersFinite DEF Counted
<1>4. frames' \in [Threads -> Seq(Frames)]
      BY <1>1, BeginEffect
<1>5. /\ idle' \in Seq(Tasks) /\ Distinct'
      /\ \A x \in Tasks : OnStack(x)' <=> x = k \/ OnStack(x)
      BY <1>1, <1>3, PushEffect DEF Owned, Stacked
<1>6. TypeOK'
      BY <1>1, <1>4, <1>5 DEF TypeOK, Statuses
<1>7. Shape'
      BY <1>1, <1>2, ThreadsAssumption, BeginShape
<1>8. \A w \in Workers, x \in Tasks : Handles(w, x)' <=> Handles(w, x)
      BY <1>1, <1>2, ThreadsAssumption, BeginHandles
<1>9. WorkersWait'
  <2>1. ASSUME NEW w \in Workers, frames'[w] # <<>>
        PROVE  loop[w] = "wait"
    <3>1. w = t => frames[w] # <<>>
          BY <1>2, ThreadsAssumption
    <3>2. w # t => frames'[w] = frames[w]
          BY <1>1, BeginEffect DEF Threads
    <3> QED BY <2>1, <3>1, <3>2 DEF WorkersWait, Threads
  <2> QED BY <1>1, <2>1 DEF WorkersWait
<1>10. Same(Runner) /\ Same({"post"}) /\ Same({"body"})
      BY <1>1, BeginSame DEF Runner
<1>11. \A x \in Tasks \ {k} : status'[x] = status[x]
      BY <1>1
<1>12. status'[k] = "idle"
      BY <1>1 DEF TypeOK
<1>13. Running'
      BY <1>1, <1>10, <1>11, <1>12, RunningStays
<1>14. Stacked'
      BY <1>3, <1>5, <1>8 DEF Stacked, Owned
<1>15. CallersHold'
  <2>1. HoldersGrow
        BY <1>1, <1>3 DEF HoldersGrow, TypeOK
  <2> QED BY <1>1, <2>1, BeginCallers
<1>16. Counted'
  <2>1. Owned(k)' /\ \A x \in Tasks \ {k} : Owned(x)' <=> Owned(x)
        BY <1>5, <1>8 DEF Owned
  <2>2. refs'[k] = 2 /\ holders'[k] = {Creator[k]} /\ Cardinality({Creator[k]}) = 1
        BY <1>1, FS_Singleton DEF TypeOK
  <2>3. \A x \in Tasks \ {k} : refs'[x] = refs[x] /\ holders'[x] = holders[x]
        BY <1>1 DEF TypeOK
  <2>4. ASSUME NEW x \in Tasks \ {k}
        PROVE  /\ refs'[x] = Cardinality(holders'[x]) + (IF Owned(x)' THEN 1 ELSE 0)
               /\ refs'[x] = 0 <=> status'[x] = "none"
        BY <1>11, <2>1, <2>3 DEF Counted
  <2>5. /\ refs'[k] = Cardinality(holders'[k]) + (IF Owned(k)' THEN 1 ELSE 0)
        /\ refs'[k] = 0 <=> status'[k] = "none"
        BY <1>12, <2>1, <2>2
  <2> QED BY <2>4, <2>5 DEF Counted
<1>17. Ended'
      BY <1>1, <1>10, <1>11, <1>12, EndedStays DEF Ended, Taken
<1> QED BY <1>6, <1>7, <1>9, <1>13, <1>14, <1>15, <1>16, <1>17

\* pmath_task_ref counts the reference of a new holder.
LEMMA RefStep == ASSUME IInv, NEW t \in Threads, NEW k \in Tasks, Ref(t, k) PROVE IInv'
<1> USE DEF IInv
<1>1. PICK b \in Users[k] \ holders[k] : holders' = [holders EXCEPT ![k] = @ \cup {b}]
      BY DEF Ref
<1>2. /\ b \in Bodies /\ b \notin holders[k] /\ holders[k] # {}
      /\ refs' = [refs EXCEPT ![k] = @ + 1]
      /\ UNCHANGED <<status, done, idle, haveIdle, frames, loop, gone, shutdown>>
      BY <1>1, ThreadsAssumption DEF Ref
<1>3. /\ Cardinality(holders[k] \cup {b}) = Cardinality(holders[k]) + 1
      /\ Cardinality(holders[k]) \in Nat /\ Cardinality(holders[k]) # 0
      BY <1>2, HoldersFinite, FS_AddElement
<1>4. TypeOK'
      BY <1>1, <1>2 DEF TypeOK
<1>5. Shape' /\ WorkersWait'
      BY <1>2 DEF Shape, WorkersWait
<1>6. Running'
      BY <1>2, StillSame, RunningStays
<1>7. Stacked'
      BY <1>2 DEF Stacked, Distinct, OnStack, Handles
<1>8. CallersHold'
  <2>1. \A x \in Tasks : holders[x] \subseteq holders'[x]
        BY <1>1 DEF TypeOK
  <2> QED BY <1>2, <2>1, FrameType DEF CallersHold, Caller
<1>9. Counted'
  <2>1. \A x \in Tasks : Owned(x)' <=> Owned(x)
        BY <1>2 DEF Owned, OnStack, Handles
  <2>2. /\ refs'[k] = refs[k] + 1 /\ holders'[k] = holders[k] \cup {b}
        /\ \A x \in Tasks \ {k} : refs'[x] = refs[x] /\ holders'[x] = holders[x]
        BY <1>1, <1>2 DEF TypeOK
  <2>3. /\ refs'[k] = Cardinality(holders'[k]) + (IF Owned(k)' THEN 1 ELSE 0)
        /\ refs'[k] = 0 <=> status[k] = "none"
        BY <1>3, <2>1, <2>2 DEF Counted
  <2> QED BY <1>2, <2>1, <2>2, <2>3 DEF Counted
<1>10. Ended'
      BY <1>2, StillSame, EndedStays DEF Taken
<1> QED BY <1>4, <1>5, <1>6, <1>7, <1>8, <1>9, <1>10

\* The code that gives up a reference is not the caller of an unfinished wait
\* or abort.
LEMMA NotCalling ==
  ASSUME TypeOK, Shape, Running, NEW t \in Threads, NEW b \in Bodies, Executes(t, b),
         NEW u \in Threads, NEW n \in 1 .. Len(frames[u]),
         frames[u][n].op \in {"wait", "abort"}
  PROVE  Caller(u, n) # b
<1> SUFFICES ASSUME Caller(u, n) = b
             PROVE  FALSE
    OBVIOUS
<1>1. Len(frames[u]) \in Nat \ {0} /\ Len(frames[u]) <= MaxDepth
      BY FrameType DEF Shape
<1>2. CASE n = 1
  <2>1. u \in Clients /\ u = b
        BY <1>2 DEF Shape, Threads, Caller
  <2>2. frames[t] = <<>> /\ t = u
        BY <2>1, ExecutesOne, ThreadsAssumption
  <2> QED BY <1>1, <2>2
<1>3. CASE n # 1
  <2>1. /\ n - 1 \in 1 .. Len(frames[u]) /\ n - 1 < Len(frames[u])
        /\ frames[u][n - 1].at = "body" /\ frames[u][n - 1].task = b
        BY <1>1, <1>3 DEF Shape, Caller
  <2>2. b \in Tasks
        BY <2>1, FrameType
  <2>3. frames[t] # <<>> /\ b = Top(t).task /\ At(t, "body")
        BY <2>2, ExecutesOne, ThreadsAssumption
  <2>4. n - 1 \in Levels /\ Is(u, n - 1, b, Runner)
        BY <1>1, <2>1, ThreadsAssumption DEF Is, Runner, Levels
  <2>5. Len(frames[t]) \in Levels /\ Is(t, Len(frames[t]), b, Runner)
        BY <2>3, TopIs DEF Runner
  <2>6. u = t /\ n - 1 = Len(frames[t])
        BY <2>2, <2>4, <2>5 DEF Running
  <2> QED BY <2>1, <2>6
<1> QED BY <1>2, <1>3

\* A reference that no unfinished call needs is given up.
LEMMA ReleaseStep ==
  ASSUME IInv, NEW k \in Tasks, NEW b \in holders[k],
         holders' = [holders EXCEPT ![k] = @ \ {b}], Release(k),
         UNCHANGED <<idle, haveIdle, frames, loop, gone, shutdown>>,
         \A u \in Threads : \A n \in 1 .. Len(frames[u]) :
           frames[u][n].op \in {"wait", "abort"} => Caller(u, n) # b
  PROVE  IInv'
<1> USE DEF IInv
<1>1. Counted' /\ refs[k] # 0
  <2>1. \A x \in Tasks : Owned(x)' <=> Owned(x)
        BY DEF Owned, OnStack, Handles
  <2> QED BY <2>1, ReleaseCounted
<1>2. TypeOK'
      BY <1>1 DEF TypeOK, Release, Statuses
<1>3. Shape' /\ WorkersWait'
      BY DEF Shape, WorkersWait
<1>4. Stacked'
      BY DEF Stacked, Distinct, OnStack, Handles
<1>5. CallersHold'
  <2>1. \A x \in Tasks : holders'[x] = IF x = k THEN holders[k] \ {b} ELSE holders[x]
        BY DEF TypeOK
  <2>2. SUFFICES ASSUME NEW u \in Threads, NEW n \in 1 .. Len(frames[u]),
                        frames[u][n].op \in {"wait", "abort"}
                 PROVE  Caller(u, n) \in holders'[frames[u][n].task]
        BY DEF CallersHold, Caller
  <2>3. Caller(u, n) \in holders[frames[u][n].task] /\ Caller(u, n) # b
        BY <2>2 DEF CallersHold
  <2>4. frames[u][n].task \in Tasks
        BY FrameType
  <2> QED BY <2>1, <2>3, <2>4
<1>6. InUse'
  <2>1. (TypeOK /\ Shape /\ CallersHold /\ Counted)'
        BY <1>1, <1>2, <1>3, <1>5
  <2> QED BY <2>1, Used, PTL
<1>7. Running' /\ Ended'
      BY <1>1, <1>6, StillSame, ReleaseRuns
<1> QED BY <1>1, <1>2, <1>3, <1>4, <1>5, <1>7

\* pmath_task_unref: the last holder leaves only when no caller needs the task.
LEMMA UnrefStep == ASSUME IInv, NEW t \in Threads, NEW k \in Tasks, Unref(t, k) PROVE IInv'
<1>1. PICK b \in holders[k] : Executes(t, b) /\ holders' = [holders EXCEPT ![k] = @ \ {b}]
      BY DEF Unref
<1>2. b \in Bodies
      BY DEF IInv, TypeOK
<1> QED BY <1>1, <1>2, NotCalling, ReleaseStep DEF Unref, IInv

\* A variable that has kept a reference loses it.
LEMMA ForgetStep == ASSUME IInv, NEW k \in Tasks, Forget(k) PROVE IInv'
<1>1. PICK b \in Kept(k) : holders' = [holders EXCEPT ![k] = @ \ {b}]
      BY DEF Forget
<1>2. b \in holders[k] /\ b \in Tasks
      BY ThreadsAssumption DEF Kept
<1>3. ASSUME NEW u \in Threads, NEW n \in 1 .. Len(frames[u]),
             frames[u][n].op \in {"wait", "abort"}, Caller(u, n) = b
      PROVE  FALSE
  <2>1. Len(frames[u]) \in Nat \ {0} /\ frames[u] \in Seq(Frames)
        BY FrameType DEF IInv
  <2>2. CASE n = 1
        BY <1>2, <1>3, <2>2, ThreadsAssumption DEF IInv, Shape, Threads, Caller
  <2>3. CASE n # 1
    <3>1. n - 1 \in 1 .. Len(frames[u]) /\ n - 1 < Len(frames[u])
          BY <2>1, <2>3
    <3>2. frames[u][n - 1].at = "body" /\ frames[u][n - 1].task = b
          BY <1>3, <2>3, <3>1 DEF IInv, Shape, Caller
    <3>3. n - 1 \in DOMAIN frames[u]
          BY <2>1, <3>1
    <3> QED BY <3>2, <3>3 DEF Kept
  <2> QED BY <2>2, <2>3
<1> QED BY <1>1, <1>2, <1>3, ReleaseStep DEF Forget

\* A call does not touch the task yet.
LEMMA CallStep ==
  ASSUME IInv, NEW t \in Threads, NEW k \in Tasks, NEW o \in {"wait", "abort"}, Call(t, k, o)
  PROVE  IInv'
<1> USE DEF IInv
<1>1. /\ Begin(t, k, o, "swap")
      /\ UNCHANGED <<status, refs, done, holders, idle, haveIdle, loop, gone, shutdown>>
      BY DEF Call
<1>2. PICK b \in holders[k] : Executes(t, b)
      BY DEF Call
<1>3. /\ b = IF frames[t] = <<>> THEN t ELSE Top(t).task
      /\ frames[t] = <<>> => t \in Clients
      /\ frames[t] # <<>> => Top(t).at = "body"
      BY <1>2, ExecutesOne DEF At, TypeOK
<1>4. TypeOK'
      BY <1>1, BeginEffect DEF TypeOK
<1>5. Shape'
      BY <1>1, <1>3, ThreadsAssumption, BeginShape
<1>6. \A w \in Workers, x \in Tasks : Handles(w, x)' <=> Handles(w, x)
      BY <1>1, <1>3, ThreadsAssumption, BeginHandles
<1>7. WorkersWait'
  <2>1. ASSUME NEW w \in Workers, frames'[w] # <<>>
        PROVE  loop[w] = "wait"
    <3>1. w = t => frames[w] # <<>>
          BY <1>3, ThreadsAssumption
    <3>2. \A v \in Threads \ {t} : frames'[v] = frames[v]
          BY <1>1, BeginEffect
    <3> QED BY <2>1, <3>1, <3>2 DEF WorkersWait, Threads
  <2> QED BY <1>1, <2>1 DEF WorkersWait
<1>8. Same(Runner) /\ Same({"post"}) /\ Same({"body"})
      BY <1>1, BeginSame DEF Runner
<1>9. Running' /\ Ended'
      BY <1>1, <1>8, RunningStays, EndedStays
<1>10. Stacked'
      BY <1>1, <1>6 DEF Stacked, Distinct, OnStack
<1>11. CallersHold'
  <2>1. HoldersGrow
        BY <1>1 DEF HoldersGrow
  <2> QED BY <1>1, <1>3, <2>1, BeginCallers
<1>12. Counted'
      BY <1>1, <1>6, SameCounted DEF Owned, OnStack
<1> QED BY <1>4, <1>5, <1>7, <1>9, <1>10, <1>11, <1>12

-----------------------------------------------------------------------------
(* Operations go on and end.                                               *)

Resting == UNCHANGED <<refs, holders, idle, haveIdle, loop, gone, shutdown>>

\* The kind of the innermost operation fits to where it is.
LEMMA TopShape ==
  ASSUME TypeOK, Shape, NEW t \in Threads, NEW where, At(t, where)
  PROVE  /\ Top(t).op \in {"new", "wait", "abort", "work"}
         /\ Top(t).op = "new" <=> where = "announce"
         /\ where = "unref" => Top(t).op = "work"
         /\ where = "sleep" => Top(t).op # "work"
         /\ Top(t).op = "work" <=> Len(frames[t]) = 1 /\ t \in Workers
<1>1. frames[t] # <<>> /\ Top(t) = frames[t][Len(frames[t])] /\ Top(t).at = where
      BY DEF At, Top
<1>2. Len(frames[t]) \in 1 .. Len(frames[t])
      BY TopIs
<1>3. Top(t).op \in {"new", "wait", "abort", "work"}
      BY <1>1, <1>2, FrameType
<1> QED BY <1>1, <1>2, <1>3 DEF Shape

\* What a move within an operation keeps when the counts stay as they are.
LEMMA GotoKeeps ==
  ASSUME IInv, NEW t \in Threads, NEW from, At(t, from), from # "announce",
         NEW where \in {"body", "finish", "post", "sleep", "unref"}, Goto(t, where),
         where = "unref" => Top(t).op = "work",
         where = "sleep" => Top(t).op # "work",
         Resting, status' \in [Tasks -> Statuses], done' \in [Tasks -> Nat],
         \A k \in Tasks : status'[k] = "none" <=> status[k] = "none"
  PROVE  TypeOK' /\ Shape' /\ WorkersWait' /\ Stacked' /\ CallersHold' /\ Counted'
<1> USE DEF IInv
<1>1. frames[t] # <<>> /\ Top(t).op # "new"
      BY TopShape DEF At
<1>2. TypeOK'
      BY <1>1, GotoType DEF TypeOK, Resting
<1>3. Shape'
      BY <1>1, GotoShape
<1>4. \A w \in Workers, x \in Tasks : Handles(w, x)' <=> Handles(w, x)
      BY <1>1, GotoHandles
<1>5. WorkersWait'
  <2>1. ASSUME NEW w \in Workers, frames'[w] # <<>>
        PROVE  loop[w] = "wait"
    <3>1. w # t => frames'[w] = frames[w]
          BY <1>1, GotoEffect DEF Threads
    <3> QED BY <1>1, <2>1, <3>1 DEF WorkersWait
  <2> QED BY <2>1 DEF WorkersWait, Resting
<1>6. Stacked'
      BY <1>4 DEF Stacked, Distinct, OnStack, Resting
<1>7. CallersHold'
      BY <1>1, GotoCallers DEF HoldersGrow, Resting
<1>8. Counted'
      BY <1>4, SameCounted DEF Owned, OnStack, Resting
<1> QED BY <1>2, <1>3, <1>5, <1>6, <1>7, <1>8

\* What the end of an operation other than a worker's keeps.
LEMMA EndKeeps ==
  ASSUME IInv, NEW t \in Threads, NEW from, At(t, from), End(t), Top(t).op # "work",
         UNCHANGED <<refs, holders, idle, loop, gone, shutdown>>, haveIdle' \in Nat,
         status' \in [Tasks -> Statuses], done' \in [Tasks -> Nat],
         \A k \in Tasks : status'[k] = "none" <=> status[k] = "none"
  PROVE  TypeOK' /\ Shape' /\ WorkersWait' /\ Stacked' /\ CallersHold' /\ Counted'
<1> USE DEF IInv
<1>1. frames[t] # <<>>
      BY DEF At
<1>2. TypeOK'
      BY <1>1, EndEffect DEF TypeOK
<1>3. Shape'
      BY <1>1, EndShape
<1>4. \A w \in Workers, x \in Tasks : Handles(w, x)' <=> Handles(w, x)
      BY <1>1, TopShape, EndHandles
<1>5. WorkersWait'
  <2>1. ASSUME NEW w \in Workers, frames'[w] # <<>>
        PROVE  loop[w] = "wait"
    <3>1. w # t => frames'[w] = frames[w]
          BY <1>1, EndEffect DEF Threads
    <3> QED BY <1>1, <2>1, <3>1 DEF WorkersWait
  <2> QED BY <2>1 DEF WorkersWait
<1>6. Stacked'
      BY <1>4 DEF Stacked, Distinct, OnStack
<1>7. CallersHold'
      BY <1>1, EndCallers DEF HoldersGrow
<1>8. Counted'
      BY <1>4, SameCounted DEF Owned, OnStack
<1> QED BY <1>2, <1>3, <1>5, <1>6, <1>7, <1>8

\* have_idle_tasks is posted.
LEMMA AnnounceStep == ASSUME IInv, NEW t \in Threads, Announce(t) PROVE IInv'
<1> USE DEF IInv
<1>1. /\ At(t, "announce") /\ End(t) /\ haveIdle' \in Nat
      /\ UNCHANGED <<status, refs, done, holders, idle, loop, gone, shutdown>>
      BY DEF Announce, TypeOK
<1>2. Top(t).op # "work"
      BY <1>1, TopShape
<1>3. Same(Runner) /\ Same({"post"}) /\ Same({"body"})
      BY <1>1, EndSame DEF Runner
<1>4. Running' /\ Ended'
      BY <1>1, <1>3, RunningStays, EndedStays
<1>5. status' \in [Tasks -> Statuses] /\ done' \in [Tasks -> Nat]
      BY <1>1 DEF TypeOK
<1> QED BY <1>1, <1>2, <1>4, <1>5, EndKeeps

\* sem_wait on "done" returns.
LEMMA AwakeStep == ASSUME IInv, NEW t \in Threads, Awake(t) PROVE IInv'
<1> USE DEF IInv
<1>1. /\ At(t, "sleep") /\ End(t) /\ done[Top(t).task] > 0
      /\ done' = [done EXCEPT ![Top(t).task] = @ - 1]
      /\ UNCHANGED <<status, refs, holders, idle, haveIdle, loop, gone, shutdown>>
      BY DEF Awake
<1>2. Top(t).op # "work" /\ Top(t).task \in Tasks
      BY <1>1, TopShape, TopIs
<1>3. Same(Runner) /\ Same({"post"}) /\ Same({"body"})
      BY <1>1, EndSame DEF Runner
<1>4. /\ status' \in [Tasks -> Statuses] /\ done' \in [Tasks -> Nat] /\ haveIdle' \in Nat
      /\ \A k \in Tasks : done'[k] > 0 => done[k] > 0
      BY <1>1, <1>2 DEF TypeOK
<1>5. Running' /\ Ended'
      BY <1>1, <1>3, <1>4, RunningStays, EndedStays
<1> QED BY <1>1, <1>2, <1>4, <1>5, EndKeeps

\* The body of a task ends.
LEMMA BodyEndsStep == ASSUME IInv, NEW t \in Threads, BodyEnds(t) PROVE IInv'
<1> USE DEF IInv
<1>1. /\ At(t, "body") /\ Goto(t, "finish")
      /\ UNCHANGED <<status, refs, done, holders, idle, haveIdle, loop, gone, shutdown>>
      BY DEF BodyEnds
<1>2. frames[t] # <<>> /\ Top(t).at = "body" /\ Top(t) = frames[t][Len(frames[t])]
      BY <1>1 DEF At, Top
<1>3. Same({"post"})
      BY <1>1, GotoSame
<1>4. Same(Runner)
      BY <1>1, GotoSame DEF Runner
<1>5. Fewer({"body"})
      BY <1>1, <1>2, GotoFewer
<1>6. Running'
      BY <1>1, <1>4, RunningStays
<1>7. Ended'
      BY <1>1, <1>3, <1>5 DEF Ended, Same, Fewer
<1>8. status' \in [Tasks -> Statuses] /\ done' \in [Tasks -> Nat] /\ Resting
      BY <1>1 DEF TypeOK, Resting
<1>9. TypeOK' /\ Shape' /\ WorkersWait' /\ Stacked' /\ CallersHold' /\ Counted'
      BY <1>1, <1>8, GotoKeeps
<1> QED BY <1>6, <1>7, <1>9

\* Only the innermost operation of t comes to places, or leaves them.
Comes(t, places) ==
  \A u \in Threads, n \in Levels, x \in Tasks :
    Is(u, n, x, places)' <=>
      (u = t /\ n = Len(frames[t]) /\ x = Top(t).task) \/ Is(u, n, x, places)
Leaves(t, places) ==
  \A u \in Threads, n \in Levels, x \in Tasks :
    Is(u, n, x, places)' <=> Is(u, n, x, places) /\ ~(u = t /\ n = Len(frames[t]))

\* A thread that moves to a place of a set is there.
LEMMA GotoComes ==
  ASSUME TypeOK, Shape, NEW t \in Threads, NEW from, At(t, from), NEW where, Goto(t, where),
         NEW places, where \in places
  PROVE  Comes(t, places)
<1>1. frames[t] # <<>>
      BY DEF At
<1> SUFFICES ASSUME NEW u \in Threads, NEW n \in Levels, NEW x \in Tasks
             PROVE  Is(u, n, x, places)' <=>
                      (u = t /\ n = Len(frames[t]) /\ x = Top(t).task) \/ Is(u, n, x, places)
    BY DEF Comes
<1>2. Is(t, Len(frames[t]), x, places) => x = Top(t).task
      BY <1>1 DEF Is, Top
<1> QED BY <1>1, <1>2, GotoIs

\* A thread that moves to a place outside of a set is not there any more.
LEMMA GotoLeaves ==
  ASSUME TypeOK, NEW t \in Threads, frames[t] # <<>>, NEW where, Goto(t, where),
         NEW places, where \notin places
  PROVE  Leaves(t, places)
BY GotoIs DEF Leaves

\* A thread whose operation ends is nowhere in it any more.
LEMMA EndLeaves ==
  ASSUME TypeOK, NEW t \in Threads, frames[t] # <<>>, End(t), NEW places
  PROVE  Leaves(t, places)
BY EndIs DEF Leaves

\* A task that nobody has taken is taken.
LEMMA TakeRuns ==
  ASSUME IInv, NEW t \in Threads, At(t, "swap"),
         status[Top(t).task] \in {"idle", "done"},
         NEW where \in {"body", "finish"}, Goto(t, where),
         where = "body" => status[Top(t).task] = "idle",
         status' = [status EXCEPT ![Top(t).task] = "running"], UNCHANGED done
  PROVE  Running' /\ Ended'
<1> USE DEF IInv
<1>1. PICK k \in Tasks, l \in Levels : k = Top(t).task /\ l = Len(frames[t])
      BY TopIs
<1>2. Comes(t, Runner)
      BY GotoComes DEF Runner
<1>3. Same({"post"})
      BY GotoSame
<1>4. /\ status'[k] = "running"
      /\ \A x \in Tasks \ {k} : status'[x] = status[x]
      BY <1>1 DEF TypeOK
<1>5. \A u \in Threads, n \in Levels : ~Is(u, n, k, Runner)
      BY <1>1 DEF Running
<1>6. \A u \in Threads, n \in Levels, x \in Tasks :
        Is(u, n, x, Runner)' <=> (u = t /\ n = l /\ x = k) \/ Is(u, n, x, Runner)
      BY <1>1, <1>2 DEF Comes
<1>7. Running'
  <2>1. ASSUME NEW x \in Tasks \ {k}
        PROVE  \A u \in Threads, n \in Levels : Is(u, n, x, Runner)' <=> Is(u, n, x, Runner)
        BY <1>6
  <2>2. ASSUME NEW x \in Tasks \ {k}
        PROVE  /\ \A u \in Threads, n \in Levels : Is(u, n, x, Runner)' =>
                    /\ status'[x] = "running"
                    /\ \A v \in Threads, m \in Levels : Is(v, m, x, Runner)' => v = u /\ m = n
               /\ status'[x] = "running" =>
                    \E u \in Threads, n \in Levels : Is(u, n, x, Runner)'
        BY <1>4, <2>1 DEF Running
  <2>3. /\ \A u \in Threads, n \in Levels : Is(u, n, k, Runner)' <=> u = t /\ n = l
        BY <1>5, <1>6
  <2> QED BY <1>4, <2>2, <2>3 DEF Running
<1>8. ASSUME NEW x \in Tasks,
             done'[x] > 0 \/ \E u \in Threads, n \in Levels : Is(u, n, x, {"post"})'
      PROVE  /\ status'[x] \in {"running", "done"}
             /\ ~\E u \in Threads, n \in Levels : Is(u, n, x, {"body"})'
  <2>1. done[x] > 0 \/ \E u \in Threads, n \in Levels : Is(u, n, x, {"post"})
        BY <1>3, <1>8 DEF Same
  <2>2. /\ status[x] \in {"running", "done"}
        /\ ~\E u \in Threads, n \in Levels : Is(u, n, x, {"body"})
        BY <2>1 DEF Ended
  <2>3. CASE where = "finish"
    <3>1. Fewer({"body"})
          BY <2>3, GotoFewer DEF At
    <3> QED BY <1>4, <2>2, <3>1 DEF Fewer
  <2>4. CASE where = "body"
    <3>1. Comes(t, {"body"}) /\ x # k
          BY <1>1, <2>2, <2>4, GotoComes
    <3> QED BY <1>1, <1>4, <2>2, <3>1 DEF Comes
  <2> QED BY <2>3, <2>4
<1> QED BY <1>7, <1>8 DEF Ended

\* TASK_RUNNING is swapped in: only one thread finds TASK_IDLE.
LEMMA SwapStep == ASSUME IInv, NEW t \in Threads, Swap(t) PROVE IInv'
<1> USE DEF IInv
<1>1. PICK k \in Tasks : k = Top(t).task
      BY TopIs DEF Swap
<1>2. /\ At(t, "swap") /\ status' = [status EXCEPT ![k] = "running"] /\ UNCHANGED done
      /\ Resting
      BY <1>1 DEF Swap, Resting
<1>3. status[k] \in {"idle", "running", "done"}
  <2>1. Len(frames[t]) \in 1 .. Len(frames[t]) /\ frames[t][Len(frames[t])].at # "announce"
        BY <1>2, TopIs DEF At, Top
  <2>2. status[k] # "none"
        BY <1>1, <2>1, Used DEF InUse, Top
  <2> QED BY <2>2 DEF TypeOK, Statuses
<1>4. /\ status' \in [Tasks -> Statuses] /\ done' \in [Tasks -> Nat]
      /\ \A x \in Tasks : status'[x] = "none" <=> status[x] = "none"
      BY <1>2, <1>3 DEF TypeOK, Statuses
<1>5. CASE status[k] = "running"
  <2>1. Goto(t, IF Top(t).op = "work" THEN "unref" ELSE "sleep")
        BY <1>1, <1>5 DEF Swap
  <2>2. PICK where \in {"unref", "sleep"} :
           where = IF Top(t).op = "work" THEN "unref" ELSE "sleep"
        OBVIOUS
  <2>3. Goto(t, where)
        BY <2>1, <2>2
  <2>4. TypeOK' /\ Shape' /\ WorkersWait' /\ Stacked' /\ CallersHold' /\ Counted'
        BY <1>2, <1>4, <2>2, <2>3, GotoKeeps
  <2>5. Same(Runner) /\ Same({"post"}) /\ Same({"body"})
        BY <1>2, <2>3, GotoSame DEF Runner
  <2>6. \A x \in Tasks : status'[x] = status[x]
        BY <1>2, <1>5 DEF TypeOK
  <2>7. Running' /\ Ended'
        BY <1>2, <2>5, <2>6, RunningStays, EndedStays
  <2> QED BY <2>4, <2>7
<1>6. CASE status[k] \in {"idle", "done"}
  <2>1. Goto(t, IF status[k] = "idle" /\ Top(t).op # "abort" THEN "body" ELSE "finish")
        BY <1>1, <1>6 DEF Swap
  <2>2. PICK where \in {"body", "finish"} :
           where = IF status[k] = "idle" /\ Top(t).op # "abort" THEN "body" ELSE "finish"
        OBVIOUS
  <2>3. Goto(t, where) /\ (where = "body" => status[k] = "idle")
        BY <2>1, <2>2
  <2>4. TypeOK' /\ Shape' /\ WorkersWait' /\ Stacked' /\ CallersHold' /\ Counted'
        BY <1>2, <1>4, <2>3, GotoKeeps
  <2>5. Running' /\ Ended'
        BY <1>1, <1>2, <1>6, <2>3, TakeRuns
  <2> QED BY <2>4, <2>5
<1> QED BY <1>3, <1>5, <1>6

\* The runner marks its task as done, and is none any more.
LEMMA FinishStep == ASSUME IInv, NEW t \in Threads, Finish(t) PROVE IInv'
<1> USE DEF IInv
<1>1. PICK k \in Tasks, l \in Levels :
        k = Top(t).task /\ l = Len(frames[t]) /\ Is(t, l, k, Runner)
      BY TopIs DEF Finish, Runner
<1>2. /\ At(t, "finish") /\ Goto(t, "post") /\ status' = [status EXCEPT ![k] = "done"]
      /\ UNCHANGED done /\ Resting
      BY <1>1 DEF Finish, Resting
<1>3. /\ status[k] = "running" /\ status'[k] = "done"
      /\ \A x \in Tasks \ {k} : status'[x] = status[x]
      /\ \A u \in Threads, n \in Levels : Is(u, n, k, Runner) => u = t /\ n = l
      BY <1>1, <1>2 DEF Running, TypeOK
<1>4. /\ status' \in [Tasks -> Statuses] /\ done' \in [Tasks -> Nat]
      /\ \A x \in Tasks : status'[x] = "none" <=> status[x] = "none"
      BY <1>2, <1>3 DEF TypeOK, Statuses
<1>5. TypeOK' /\ Shape' /\ WorkersWait' /\ Stacked' /\ CallersHold' /\ Counted'
      BY <1>2, <1>4, GotoKeeps
<1>6. Leaves(t, Runner) /\ Comes(t, {"post"}) /\ Same({"body"})
      BY <1>2, GotoLeaves, GotoComes, GotoSame DEF Runner, At
<1>7. \A u \in Threads, n \in Levels, x \in Tasks :
        Is(u, n, x, Runner)' <=> x # k /\ Is(u, n, x, Runner)
  <2>1. \A x \in Tasks : Is(t, l, x, Runner) => x = k
        BY <1>1 DEF Is
  <2> QED BY <1>1, <1>3, <1>6, <2>1 DEF Leaves
<1>8. Running'
      BY <1>3, <1>7 DEF Running
<1>9. ASSUME NEW x \in Tasks,
             done'[x] > 0 \/ \E u \in Threads, n \in Levels : Is(u, n, x, {"post"})'
      PROVE  /\ status'[x] \in {"running", "done"}
             /\ ~\E u \in Threads, n \in Levels : Is(u, n, x, {"body"})'
  <2>1. CASE x = k
    <3>1. ASSUME NEW u \in Threads, NEW n \in Levels, Is(u, n, k, {"body"})'
          PROVE  FALSE
      <4>1. Is(u, n, k, {"body", "finish"})'
            BY <3>1 DEF Is
      <4>2. Is(u, n, k, Runner)'
            BY <4>1 DEF Runner
      <4> QED BY <1>7, <4>2
    <3> QED BY <1>3, <2>1, <3>1
  <2>2. CASE x # k
    <3>1. done[x] > 0 \/ \E u \in Threads, n \in Levels : Is(u, n, x, {"post"})
          BY <1>1, <1>2, <1>6, <1>9, <2>2 DEF Comes
    <3> QED BY <1>3, <1>6, <2>2, <3>1 DEF Ended, Same
  <2> QED BY <2>1, <2>2
<1> QED BY <1>5, <1>8, <1>9 DEF Ended

\* The post that a body has ended is the last that a task gets from a thread.
LEMMA PostStep == ASSUME IInv, NEW t \in Threads, Post(t) PROVE IInv'
<1> USE DEF IInv
<1>1. PICK k \in Tasks, l \in Levels :
        k = Top(t).task /\ l = Len(frames[t]) /\ Is(t, l, k, {"post"})
      BY TopIs DEF Post
<1>2. /\ At(t, "post") /\ done' = [done EXCEPT ![k] = @ + 1] /\ UNCHANGED status
      /\ Resting
      BY <1>1 DEF Post, Resting
<1>3. status' \in [Tasks -> Statuses] /\ done' \in [Tasks -> Nat] /\ haveIdle' \in Nat
      BY <1>2 DEF TypeOK, Resting
<1>4. \A x \in Tasks \ {k} : done'[x] = done[x]
      BY <1>2 DEF TypeOK
<1>5. /\ TypeOK' /\ Shape' /\ WorkersWait' /\ Stacked' /\ CallersHold' /\ Counted'
      /\ Same(Runner) /\ Same({"body"}) /\ Leaves(t, {"post"})
  <2>1. CASE Top(t).op = "work"
    <3>1. Goto(t, "unref")
          BY <2>1 DEF Post
    <3>2. Same(Runner) /\ Same({"body"}) /\ Leaves(t, {"post"})
          BY <1>2, <3>1, GotoSame, GotoLeaves DEF Runner, At
    <3> QED BY <1>2, <1>3, <2>1, <3>1, <3>2, GotoKeeps
  <2>2. CASE Top(t).op # "work"
    <3>1. End(t)
          BY <2>2 DEF Post
    <3>2. Same(Runner) /\ Same({"body"}) /\ Leaves(t, {"post"})
          BY <1>2, <3>1, EndSame, EndLeaves DEF Runner, At
    <3> QED BY <1>2, <1>3, <2>2, <3>1, <3>2, EndKeeps DEF Resting
  <2> QED BY <2>1, <2>2
<1>6. Running'
      BY <1>2, <1>5, RunningStays
<1>7. ASSUME NEW x \in Tasks,
             done'[x] > 0 \/ \E u \in Threads, n \in Levels : Is(u, n, x, {"post"})'
      PROVE  /\ status'[x] \in {"running", "done"}
             /\ ~\E u \in Threads, n \in Levels : Is(u, n, x, {"body"})'
  <2>1. done[x] > 0 \/ \E u \in Threads, n \in Levels : Is(u, n, x, {"post"})
        BY <1>1, <1>4, <1>5, <1>7 DEF Leaves
  <2> QED BY <1>2, <1>5, <2>1 DEF Ended, Same
<1> QED BY <1>5, <1>6, <1>7 DEF Ended

-----------------------------------------------------------------------------
(* The workers and the end of the library.                                 *)

\* A worker takes the task at the top of the stack, and the stack's reference.
LEMMA PopStep == ASSUME IInv, NEW w \in Workers, Pop(w) PROVE IInv'
<1> USE DEF IInv
<1>1. /\ loop[w] = "pop" /\ loop' = [loop EXCEPT ![w] = "wait"] /\ w \in Threads
      /\ UNCHANGED <<status, refs, done, holders, haveIdle, gone, shutdown>>
      BY DEF Pop, Threads
<1>2. frames[w] = <<>>
      BY <1>1 DEF WorkersWait
<1>3. CASE idle = <<>> /\ UNCHANGED <<idle, frames>>
  <2>1. TypeOK' /\ WorkersWait'
        BY <1>1, <1>3 DEF TypeOK, WorkersWait
  <2> QED BY <1>1, <1>3, <2>1, QuietStep
<1>4. CASE idle # <<>> /\ idle' = Tail(idle) /\ Begin(w, Head(idle), "work", "swap")
  <2>1. PICK k \in Tasks : k = Head(idle)
        BY <1>4, PopEffect DEF Stacked
  <2>2. Begin(w, k, "work", "swap")
        BY <1>4, <2>1
  <2>3. /\ idle' \in Seq(Tasks) /\ OnStack(k) /\ Distinct'
        /\ \A x \in Tasks : OnStack(x)' <=> OnStack(x) /\ x # k
        BY <1>4, <2>1, PopEffect DEF Stacked
  <2>4. \A v \in Workers, x \in Tasks : Handles(v, x)' <=> Handles(v, x) \/ (v = w /\ x = k)
        BY <1>1, <1>2, <2>2, BeginHandles
  <2>5. \A v \in Workers : ~Handles(v, k)
        BY <2>3 DEF Stacked
  <2>6. TypeOK'
        BY <1>1, <2>2, <2>3, BeginEffect DEF TypeOK
  <2>7. Shape'
        BY <1>1, <1>2, <2>2, BeginShape
  <2>8. WorkersWait'
    <3>1. \A v \in Workers \ {w} : frames'[v] = frames[v] /\ loop'[v] = loop[v]
          BY <1>1, <2>2, BeginEffect DEF TypeOK, Threads
    <3>2. loop'[w] = "wait"
          BY <1>1 DEF TypeOK
    <3> QED BY <3>1, <3>2 DEF WorkersWait
  <2>9. Same(Runner) /\ Same({"post"}) /\ Same({"body"})
        BY <1>1, <2>2, BeginSame DEF Runner
  <2>10. Running' /\ Ended'
        BY <1>1, <2>9, RunningStays, EndedStays
  <2>11. Stacked'
    <3>1. ASSUME NEW v \in Workers, NEW x \in Tasks, Handles(v, x)'
          PROVE  ~OnStack(x)' /\ \A z \in Workers : Handles(z, x)' => z = v
      <4>1. CASE x = k
            BY <2>3, <2>4, <2>5, <3>1, <4>1
      <4>2. CASE x # k
            BY <2>3, <2>4, <3>1, <4>2 DEF Stacked
      <4> QED BY <4>1, <4>2
    <3> QED BY <2>3, <3>1 DEF Stacked
  <2>12. CallersHold'
    <3>1. HoldersGrow
          BY <1>1 DEF HoldersGrow
    <3> QED BY <1>1, <2>2, <3>1, BeginCallers
  <2>13. Counted'
    <3>1. \A x \in Tasks : Owned(x)' <=> Owned(x)
          BY <2>3, <2>4 DEF Owned
    <3> QED BY <1>1, <3>1, SameCounted
  <2> QED BY <2>6, <2>7, <2>8, <2>10, <2>11, <2>12, <2>13
<1> QED BY <1>3, <1>4 DEF Pop

\* A worker releases the task that it has popped.
LEMMA DropStep == ASSUME IInv, NEW w \in Workers, Drop(w) PROVE IInv'
<1> USE DEF IInv
<1>1. /\ w \in Threads /\ At(w, "unref")
      /\ End(w) /\ UNCHANGED <<holders, idle, haveIdle, loop, gone, shutdown>>
      BY DEF Drop, Threads
<1>2. PICK k \in Tasks : k = Top(w).task
      BY <1>1, TopIs
<1>3. Release(k)
      BY <1>2 DEF Drop
<1>4. Len(frames[w]) = 1 /\ frames[w] # <<>> /\ Handles(w, k)
      BY <1>1, <1>2, TopShape DEF At, Handles, Top
<1>5. \A v \in Workers, x \in Tasks : Handles(v, x)' <=> Handles(v, x) /\ v # w
      BY <1>1, <1>4, EndHandles
<1>6. \A x \in Tasks : Handles(w, x) => x = k
      BY <1>4 DEF Handles
<1>7. Owned(k) /\ ~Owned(k)' /\ \A x \in Tasks \ {k} : Owned(x)' <=> Owned(x)
      BY <1>1, <1>4, <1>5, <1>6 DEF Owned, OnStack, Stacked
<1>8. Counted' /\ refs[k] # 0
      BY <1>1, <1>3, <1>7, DropCounted
<1>9. TypeOK'
  <2>1. frames' \in [Threads -> Seq(Frames)]
        BY <1>1, <1>4, EndEffect
  <2> QED BY <1>1, <1>3, <1>8, <2>1 DEF TypeOK, Release, Statuses
<1>10. Shape'
      BY <1>1, <1>4, EndShape
<1>11. WorkersWait'
  <2>1. \A v \in Workers \ {w} : frames'[v] = frames[v]
        BY <1>1, <1>4, EndEffect DEF Threads
  <2> QED BY <1>1, <1>4, <2>1 DEF WorkersWait
<1>12. Stacked'
      BY <1>1, <1>5 DEF Stacked, Distinct, OnStack
<1>13. CallersHold'
      BY <1>1, <1>4, EndCallers DEF HoldersGrow
<1>14. InUse'
  <2>1. (TypeOK /\ Shape /\ CallersHold /\ Counted)'
        BY <1>8, <1>9, <1>10, <1>13
  <2> QED BY <2>1, Used, PTL
<1>15. Same(Runner) /\ Same({"post"}) /\ Same({"body"})
      BY <1>1, EndSame DEF Runner
<1>16. Running' /\ Ended'
      BY <1>3, <1>8, <1>14, <1>15, ReleaseRuns
<1> QED BY <1>8, <1>9, <1>10, <1>11, <1>12, <1>13, <1>16

\* A task that nobody has popped is released.
LEMMA DrainStep == ASSUME IInv, Drain PROVE IInv'
<1> USE DEF IInv
<1>1. UNCHANGED <<holders, haveIdle, frames, loop, gone>>
      BY DEF Drain
<1>2. CASE idle = <<>> /\ shutdown' = "over" /\ UNCHANGED <<status, refs, done, idle>>
  <2>1. TypeOK' /\ WorkersWait'
        BY <1>1, <1>2 DEF TypeOK, WorkersWait
  <2> QED BY <1>1, <1>2, <2>1, QuietStep
<1>3. CASE idle # <<>> /\ Release(Head(idle)) /\ idle' = Tail(idle) /\ UNCHANGED shutdown
  <2>1. PICK k \in Tasks : k = Head(idle)
        BY <1>3, PopEffect DEF Stacked
  <2>2. Release(k)
        BY <1>3, <2>1
  <2>3. /\ idle' \in Seq(Tasks) /\ OnStack(k) /\ Distinct'
        /\ \A x \in Tasks : OnStack(x)' <=> OnStack(x) /\ x # k
        BY <1>3, <2>1, PopEffect DEF Stacked
  <2>4. \A v \in Workers, x \in Tasks : Handles(v, x)' <=> Handles(v, x)
        BY <1>1 DEF Handles
  <2>5. Owned(k) /\ ~Owned(k)' /\ \A x \in Tasks \ {k} : Owned(x)' <=> Owned(x)
        BY <2>3, <2>4 DEF Owned, Stacked
  <2>6. Counted' /\ refs[k] # 0
        BY <1>1, <2>2, <2>5, DropCounted
  <2>7. TypeOK'
        BY <1>1, <1>3, <2>2, <2>3, <2>6 DEF TypeOK, Release, Statuses
  <2>8. Shape' /\ WorkersWait'
        BY <1>1 DEF Shape, WorkersWait
  <2>9. Stacked'
        BY <2>3, <2>4 DEF Stacked
  <2>10. CallersHold'
        BY <1>1 DEF CallersHold, Caller
  <2>11. InUse'
    <3>1. (TypeOK /\ Shape /\ CallersHold /\ Counted)'
          BY <2>6, <2>7, <2>8, <2>10
    <3> QED BY <3>1, Used, PTL
  <2>12. Running' /\ Ended'
        BY <1>1, <2>2, <2>6, <2>11, StillSame, ReleaseRuns
  <2> QED BY <2>6, <2>7, <2>8, <2>9, <2>10, <2>12
<1> QED BY <1>2, <1>3 DEF Drain

-----------------------------------------------------------------------------
(* The theorems.                                                           *)

\* Every step keeps the invariant.
LEMMA NextIInv == IInv /\ [Next]_vars => IInv'
<1> SUFFICES ASSUME IInv, [Next]_vars
             PROVE  IInv'
    OBVIOUS
<1>1. ASSUME NEW t \in Threads, Calls(t)
      PROVE  IInv'
      BY <1>1, NewStep, RefStep, CallStep DEF Calls
<1>2. ASSUME NEW t \in Threads, Proceeds(t)
      PROVE  IInv'
      BY <1>2, AnnounceStep, SwapStep, FinishStep, PostStep, AwakeStep, BodyEndsStep, UnrefStep
      DEF Proceeds
<1>3. ASSUME NEW w \in Workers, Works(w)
      PROVE  IInv'
      BY <1>3, CheckStep, PopStep, DropStep, TakeAnnouncementStep DEF Works
<1>4. ASSUME Ends
      PROVE  IInv'
      BY <1>4, PostAllStep, JoinStep, DrainStep, ForgetStep DEF Ends
<1>5. CASE UNCHANGED vars
      BY <1>5, StutterStep
<1> QED BY <1>1, <1>2, <1>3, <1>4, <1>5, LeaveStep, ForgetStep, StopStep DEF Next, Over

\* The inductive invariant holds always.
THEOREM AlwaysIInv == Spec => []IInv
BY InitIInv, NextIInv, PTL DEF Spec

\* The variables of the task pool have their types always.
THEOREM AlwaysTypeOK == Spec => []TypeOK
<1>1. IInv => TypeOK
      BY DEF IInv
<1> QED BY <1>1, AlwaysIInv, PTL

\* A task is running exactly while one thread executes its body or is about to
\* mark it as done.
THEOREM AlwaysOneRunner == Spec => []OneRunner
<1>1. ASSUME IInv, NEW k \in Tasks
      PROVE  Cardinality(Work(k, {"body", "finish"})) = IF status[k] = "running" THEN 1 ELSE 0
  <2> DEFINE W == Work(k, {"body", "finish"})
  <2>1. \A f \in W : f[1] \in Threads /\ f[2] \in Levels /\ f = <<f[1], f[2]>>
                       /\ Is(f[1], f[2], k, Runner)
        BY <1>1, ThreadsAssumption DEF Work, Is, Runner, Levels, IInv, TypeOK
  <2>2. CASE status[k] = "running"
    <3>1. PICK t \in Threads, n \in Levels : Is(t, n, k, Runner)
          BY <1>1, <2>2 DEF IInv, Running
    <3>2. <<t, n>> \in W
          BY <1>1, <3>1 DEF Work, Is, Runner, IInv, TypeOK
    <3>3. \A f \in W : f = <<t, n>>
          BY <1>1, <2>1, <3>1 DEF IInv, Running
    <3>4. W = {<<t, n>>}
          BY <3>2, <3>3
    <3> QED BY <2>2, <3>4, FS_Singleton
  <2>3. CASE status[k] # "running"
    <3>1. W = {}
          BY <1>1, <2>1, <2>3 DEF IInv, Running
    <3> QED BY <2>3, <3>1, FS_EmptySet
  <2> QED BY <2>2, <2>3
<1>2. IInv => OneRunner
      BY <1>1 DEF OneRunner
<1> QED BY <1>2, AlwaysIInv, PTL

\* The reference count is the number of references, and what is used exists.
THEOREM AlwaysRefsExact == Spec => []RefsExact
<1>1. ASSUME IInv, NEW k \in Tasks
      PROVE  /\ refs[k] = Cardinality(holders[k])
                            + Cardinality({i \in DOMAIN idle : idle[i] = k})
                            + Cardinality({w \in Workers : \E i \in DOMAIN frames[w] :
                                             frames[w][i].task = k /\ frames[w][i].op = "work"})
             /\ refs[k] = 0 <=> status[k] = "none"
             /\ Work(k, {"swap", "body", "finish", "post", "sleep", "unref"}) # {} => refs[k] > 0
  <2> USE <1>1 DEF IInv
  <2> DEFINE S == {i \in DOMAIN idle : idle[i] = k}
             H == {w \in Workers : \E i \in DOMAIN frames[w] :
                     frames[w][i].task = k /\ frames[w][i].op = "work"}
  <2>1. DOMAIN idle = 1 .. Len(idle)
        BY DEF TypeOK
  <2>2. Cardinality(S) = IF OnStack(k) THEN 1 ELSE 0
    <3>1. CASE OnStack(k)
      <4>1. PICK i \in 1 .. Len(idle) : idle[i] = k
            BY <3>1 DEF OnStack
      <4>2. S = {i}
            BY <2>1, <4>1 DEF Stacked, Distinct
      <4> QED BY <3>1, <4>2, FS_Singleton
    <3>2. CASE ~OnStack(k)
      <4>1. S = {}
            BY <2>1, <3>2 DEF OnStack
      <4> QED BY <3>2, <4>1, FS_EmptySet
    <3> QED BY <3>1, <3>2
  <2>3. ASSUME NEW w \in Workers
        PROVE  w \in H <=> Handles(w, k)
    <3>1. /\ w \in Threads /\ frames[w] \in Seq(Frames) /\ DOMAIN frames[w] = 1 .. Len(frames[w])
          /\ frames[w] # <<>> <=> 1 \in 1 .. Len(frames[w])
          BY DEF TypeOK, Threads
    <3>2. \A i \in 1 .. Len(frames[w]) : frames[w][i].op = "work" <=> i = 1
          BY <3>1 DEF Shape
    <3> QED BY <3>1, <3>2 DEF Handles
  <2>4. Cardinality(H) = IF \E w \in Workers : Handles(w, k) THEN 1 ELSE 0
    <3>1. CASE \E w \in Workers : Handles(w, k)
      <4>1. PICK w \in Workers : Handles(w, k)
            BY <3>1
      <4>2. H = {w}
            BY <2>3, <4>1 DEF Stacked
      <4> QED BY <3>1, <4>2, FS_Singleton
    <3>2. CASE ~\E w \in Workers : Handles(w, k)
      <4>1. H = {}
            BY <2>3, <3>2
      <4> QED BY <3>2, <4>1, FS_EmptySet
    <3> QED BY <3>1, <3>2
  <2>5. ~(OnStack(k) /\ \E w \in Workers : Handles(w, k))
        BY DEF Stacked
  <2>6. /\ refs[k] = Cardinality(holders[k]) + (IF Owned(k) THEN 1 ELSE 0)
        /\ refs[k] = 0 <=> status[k] = "none"
        /\ Cardinality(holders[k]) \in Nat
        BY HoldersFinite DEF Counted
  <2>7. refs[k] = Cardinality(holders[k]) + Cardinality(S) + Cardinality(H)
    <3> HIDE DEF S, H
    <3> QED BY <2>2, <2>4, <2>5, <2>6 DEF Owned
  <2>8. ASSUME NEW f \in Work(k, {"swap", "body", "finish", "post", "sleep", "unref"})
        PROVE  refs[k] > 0
    <3>1. f[1] \in Threads /\ f[2] \in 1 .. Len(frames[f[1]])
          BY ThreadsAssumption DEF Work, Levels, TypeOK
    <3>2. frames[f[1]][f[2]].task = k /\ frames[f[1]][f[2]].at # "announce"
          BY DEF Work
    <3>3. refs[k] # 0
          BY <3>1, <3>2, Used DEF InUse
    <3> QED BY <3>3 DEF TypeOK
  <2> QED BY <2>6, <2>7, <2>8
<1>2. IInv => RefsExact
      BY <1>1 DEF RefsExact
<1> QED BY <1>2, AlwaysIInv, PTL

-----------------------------------------------------------------------------
(* No task is forgotten while workers sleep.                               *)

Announcers == {t \in Threads : At(t, "announce")}
Lookers    == {w \in Workers : loop[w] \in {"check", "pop"}}

\* Only the innermost operation of a thread can be about to announce a task.
LEMMA AnnouncerIs ==
  TypeOK /\ Shape =>
    Announcers = {t \in Threads : \E n \in Levels, k \in Tasks : Is(t, n, k, {"announce"})}
<1> SUFFICES ASSUME TypeOK, Shape, NEW t \in Threads
             PROVE  At(t, "announce") <=>
                      \E n \in Levels, k \in Tasks : Is(t, n, k, {"announce"})
    BY DEF Announcers
<1>1. ASSUME At(t, "announce")
      PROVE  \E n \in Levels, k \in Tasks : Is(t, n, k, {"announce"})
      BY <1>1, TopIs
<1>2. ASSUME NEW n \in Levels, NEW k \in Tasks, Is(t, n, k, {"announce"})
      PROVE  At(t, "announce")
  <2>1. n \in 1 .. Len(frames[t]) /\ frames[t][n].at = "announce"
        BY <1>2 DEF Is
  <2>2. Len(frames[t]) \in Nat \ {0}
        BY <2>1, FrameType
  <2>3. n = Len(frames[t])
        BY <2>1, <2>2 DEF Shape
  <2> QED BY <2>1, <2>2, <2>3 DEF At, Top
<1> QED BY <1>1, <1>2

\* The announcing threads are those at "announce".
LEMMA SameAnnouncers ==
  ASSUME IInv, IInv', Same({"announce"})
  PROVE  Announcers' = Announcers
<1>1. Announcers = {t \in Threads : \E n \in Levels, k \in Tasks : Is(t, n, k, {"announce"})}
      BY AnnouncerIs DEF IInv
<1>2. Announcers' = {t \in Threads : \E n \in Levels, k \in Tasks : Is(t, n, k, {"announce"})'}
  <2>1. (TypeOK /\ Shape)'
        BY DEF IInv
  <2>2. (Announcers = {t \in Threads : \E n \in Levels, k \in Tasks : Is(t, n, k, {"announce"})})'
        BY <2>1, AnnouncerIs, PTL
  <2> QED BY <2>2
<1> QED BY <1>1, <1>2 DEF Same

\* Announcing threads and looking workers can be counted.
LEMMA FiniteCounts ==
  /\ IsFiniteSet(Announcers) /\ Cardinality(Announcers) \in Nat
  /\ IsFiniteSet(Lookers) /\ Cardinality(Lookers) \in Nat
<1>1. Announcers \subseteq Threads /\ Lookers \subseteq Threads
      BY DEF Announcers, Lookers, Threads
<1> QED BY <1>1, ThreadsAssumption, FS_Subset, FS_CardinalityType

\* Most steps have nothing to do with the stack and its semaphore.
LEMMA ApartStep ==
  ASSUME IInv, IInv', NoneForgotten, Same({"announce"}),
         UNCHANGED <<idle, haveIdle, loop, shutdown>>
  PROVE  NoneForgotten'
<1>1. Announcers' = Announcers
      BY SameAnnouncers
<1>2. Lookers' = Lookers
      BY DEF Lookers
<1> QED BY <1>1, <1>2 DEF NoneForgotten, Announcers, Lookers

\* A new task is about to be announced.
LEMMA PushNone ==
  ASSUME IInv, IInv', NoneForgotten, NEW t \in Threads, NEW k \in Tasks, New(t, k)
  PROVE  NoneForgotten'
<1> USE DEF IInv
<1>1. /\ Begin(t, k, "new", "announce") /\ Executes(t, Creator[k])
      /\ idle' = <<k>> \o idle /\ UNCHANGED <<haveIdle, loop, shutdown>>
      BY DEF New
<1>2. t \notin Announcers
      BY <1>1, ExecutesOne, ThreadsAssumption DEF Announcers, At
<1>3. t \in Announcers'
  <2>0. Len(frames'[t]) = Len(frames[t]) + 1 /\ frames'[t][Len(frames[t]) + 1].at = "announce"
        BY <1>1, BeginEffect
  <2>1. /\ Len(frames'[t]) = Len(frames[t]) + 1 /\ frames'[t][Len(frames[t]) + 1].at = "announce"
        /\ Len(frames[t]) \in Nat
        BY <2>0 DEF TypeOK
  <2>2. frames'[t] # <<>>
        BY <2>1
  <2> QED BY <2>1, <2>2 DEF Announcers, At, Top
<1>4. \A u \in Threads \ {t} : u \in Announcers' <=> u \in Announcers
      BY <1>1, BeginEffect DEF Announcers, At, Top
<1>5. Announcers' = Announcers \cup {t}
      BY <1>3, <1>4 DEF Announcers
<1>6. Cardinality(Announcers') = Cardinality(Announcers) + 1
      BY <1>2, <1>5, FiniteCounts, FS_AddElement
<1>7. Lookers' = Lookers
      BY <1>1 DEF Lookers
<1>8. Len(idle') = Len(idle) + 1 /\ Len(idle) \in Nat /\ haveIdle \in Nat
      BY <1>1 DEF TypeOK
<1>9. shutdown = "no" =>
        Len(idle) <= haveIdle + Cardinality(Announcers) + Cardinality(Lookers)
      BY DEF NoneForgotten, Announcers, Lookers
<1>10. shutdown' = "no" =>
        Len(idle') <= haveIdle' + Cardinality(Announcers') + Cardinality(Lookers')
      BY <1>1, <1>6, <1>7, <1>8, <1>9, FiniteCounts
<1> QED BY <1>10 DEF NoneForgotten, Announcers, Lookers

\* An announcement is a post.
LEMMA AnnounceNone ==
  ASSUME IInv, IInv', NoneForgotten, NEW t \in Threads, Announce(t)
  PROVE  NoneForgotten'
<1> USE DEF IInv
<1>1. /\ At(t, "announce") /\ End(t) /\ haveIdle' = haveIdle + 1
      /\ UNCHANGED <<idle, loop, shutdown>>
      BY DEF Announce
<1>2. t \in Announcers /\ frames[t] # <<>>
      BY <1>1 DEF Announcers, At
<1>3. t \notin Announcers'
  <2>1. /\ Len(frames'[t]) = Len(frames[t]) - 1 /\ Len(frames[t]) \in Nat \ {0}
        /\ \A n \in 1 .. Len(frames[t]) - 1 : frames'[t][n] = frames[t][n]
        BY <1>1, <1>2, EndEffect
  <2>2. CASE Len(frames[t]) = 1
    <3>1. frames'[t] = <<>>
          BY <1>1, <1>2, <2>1, <2>2, EndEffect
    <3> QED BY <3>1 DEF Announcers, At
  <2>3. CASE Len(frames[t]) # 1
    <3>0. ASSUME NEW m \in Nat \ {0}, m # 1
          PROVE  m - 1 \in 1 .. m /\ m - 1 < m /\ m - 1 \in 1 .. m - 1
          BY <3>0
    <3>1. PICK l : l = Len(frames[t]) - 1
          OBVIOUS
    <3>2. l \in 1 .. Len(frames[t]) /\ l < Len(frames[t]) /\ l \in 1 .. Len(frames[t]) - 1
          BY <2>1, <2>3, <3>0, <3>1
    <3>3. frames[t][l].at = "body" /\ frames'[t][l] = frames[t][l] /\ Len(frames'[t]) = l
          BY <2>1, <3>1, <3>2 DEF Shape
    <3> QED BY <3>3 DEF Announcers, At, Top
  <2> QED BY <2>2, <2>3
<1>4. \A u \in Threads \ {t} : u \in Announcers' <=> u \in Announcers
      BY <1>1, <1>2, EndEffect DEF Announcers, At, Top
<1>5. Announcers' = Announcers \ {t}
      BY <1>3, <1>4 DEF Announcers
<1>6. Cardinality(Announcers') = Cardinality(Announcers) - 1
      BY <1>2, <1>5, FiniteCounts, FS_RemoveElement
<1>7. Lookers' = Lookers
      BY <1>1 DEF Lookers
<1>8. Len(idle) \in Nat /\ haveIdle \in Nat
      BY DEF TypeOK
<1>9. shutdown = "no" =>
        Len(idle) <= haveIdle + Cardinality(Announcers) + Cardinality(Lookers)
      BY DEF NoneForgotten, Announcers, Lookers
<1>10. shutdown' = "no" =>
        Len(idle') <= haveIdle' + Cardinality(Announcers') + Cardinality(Lookers')
      BY <1>1, <1>6, <1>7, <1>8, <1>9, FiniteCounts
<1> QED BY <1>10 DEF NoneForgotten, Announcers, Lookers

\* A worker that has found the stack empty, or has popped a task, looks no more.
LEMMA PopNone ==
  ASSUME IInv, IInv', NoneForgotten, NEW w \in Workers, Pop(w)
  PROVE  NoneForgotten'
<1> USE DEF IInv
<1>1. /\ loop[w] = "pop" /\ loop' = [loop EXCEPT ![w] = "wait"] /\ w \in Threads
      /\ UNCHANGED <<haveIdle, shutdown>>
      BY DEF Pop, Threads
<1>2. w \in Lookers /\ Lookers' = Lookers \ {w}
      BY <1>1 DEF TypeOK, Lookers
<1>3. Cardinality(Lookers') = Cardinality(Lookers) - 1
      BY <1>2, FiniteCounts, FS_RemoveElement
<1>4. Len(idle) \in Nat /\ haveIdle \in Nat
      BY DEF TypeOK
<1>5. shutdown = "no" =>
        Len(idle) <= haveIdle + Cardinality(Announcers) + Cardinality(Lookers)
      BY DEF NoneForgotten, Announcers, Lookers
<1>6. Announcers' = Announcers
  <2>1. CASE UNCHANGED frames
        BY <2>1, SameAnnouncers, StillSame
  <2>2. CASE idle # <<>> /\ Begin(w, Head(idle), "work", "swap")
    <3>1. Head(idle) \in Tasks
          BY <2>2 DEF TypeOK
    <3> QED BY <1>1, <2>2, <3>1, SameAnnouncers, BeginSame
  <2> QED BY <2>1, <2>2 DEF Pop
<1>7. CASE idle = <<>> /\ idle' = idle
  <2>1. Len(idle') = 0
        BY <1>7
  <2>2. Cardinality(Lookers') \in Nat
        BY <1>2, <1>3, FiniteCounts, FS_RemoveElement, FS_CardinalityType
  <2>3. Len(idle') <= haveIdle' + Cardinality(Announcers') + Cardinality(Lookers')
        BY <1>1, <1>4, <1>6, <2>1, <2>2, FiniteCounts
  <2> QED BY <2>3 DEF NoneForgotten, Announcers, Lookers
<1>8. CASE idle # <<>> /\ idle' = Tail(idle)
  <2>1. Len(idle') = Len(idle) - 1
        BY <1>8 DEF TypeOK
  <2>2. shutdown' = "no" =>
          Len(idle') <= haveIdle' + Cardinality(Announcers') + Cardinality(Lookers')
        BY <1>1, <1>3, <1>4, <1>5, <1>6, <2>1, FiniteCounts
  <2> QED BY <2>2 DEF NoneForgotten, Announcers, Lookers
<1> QED BY <1>7, <1>8 DEF Pop

\* A worker that takes an announcement looks again.
LEMMA TakeNone ==
  ASSUME IInv, IInv', NoneForgotten, NEW w \in Workers, TakeAnnouncement(w)
  PROVE  NoneForgotten'
<1> USE DEF IInv
<1>1. /\ loop[w] = "wait" /\ loop' = [loop EXCEPT ![w] = "check"]
      /\ haveIdle > 0 /\ haveIdle' = haveIdle - 1 /\ UNCHANGED <<idle, frames, shutdown>>
      BY DEF TakeAnnouncement
<1>2. w \notin Lookers /\ Lookers' = Lookers \cup {w}
      BY <1>1 DEF TypeOK, Lookers
<1>3. Cardinality(Lookers') = Cardinality(Lookers) + 1
      BY <1>2, FiniteCounts, FS_AddElement
<1>4. Announcers' = Announcers
      BY <1>1, SameAnnouncers, StillSame
<1>5. Len(idle) \in Nat /\ haveIdle \in Nat
      BY DEF TypeOK
<1>6. shutdown = "no" =>
        Len(idle) <= haveIdle + Cardinality(Announcers) + Cardinality(Lookers)
      BY DEF NoneForgotten, Announcers, Lookers
<1>7. shutdown' = "no" =>
        Len(idle') <= haveIdle' + Cardinality(Announcers') + Cardinality(Lookers')
      BY <1>1, <1>3, <1>4, <1>5, <1>6, FiniteCounts
<1> QED BY <1>7 DEF NoneForgotten, Announcers, Lookers

\* A worker that looks at stop_threadpool looks for tasks next.
LEMMA CheckNone ==
  ASSUME IInv, IInv', NoneForgotten, NEW w \in Workers, Check(w)
  PROVE  NoneForgotten'
<1>1. UNCHANGED <<idle, haveIdle, frames, shutdown>>
      BY DEF Check
<1>2. shutdown = "no" => Lookers' = Lookers
      BY DEF Check, Lookers, IInv, TypeOK
<1>3. Announcers' = Announcers
      BY <1>1, SameAnnouncers, StillSame
<1> QED BY <1>1, <1>2, <1>3 DEF NoneForgotten, Announcers, Lookers

\* Every step keeps NoneForgotten.
LEMMA NextNone == IInv /\ IInv' /\ NoneForgotten /\ [Next]_vars => NoneForgotten'
<1> SUFFICES ASSUME IInv, IInv', NoneForgotten, [Next]_vars
             PROVE  NoneForgotten'
    OBVIOUS
<1> USE DEF IInv
<1>1. ASSUME UNCHANGED <<idle, haveIdle, frames, loop, shutdown>>
      PROVE  NoneForgotten'
      BY <1>1, ApartStep, StillSame
<1>2. ASSUME NEW t \in Threads, NEW k \in Tasks, New(t, k) \/ Ref(t, k)
      PROVE  NoneForgotten'
      BY <1>1, <1>2, PushNone DEF Ref
<1>3. ASSUME NEW t \in Threads, NEW k \in Tasks, NEW o \in {"wait", "abort"}, Call(t, k, o)
      PROVE  NoneForgotten'
  <2>1. Begin(t, k, o, "swap") /\ UNCHANGED <<idle, haveIdle, loop, shutdown>>
        BY <1>3 DEF Call
  <2> QED BY <2>1, BeginSame, ApartStep
<1>4. ASSUME NEW t \in Threads,
             NEW from \in {"swap", "body", "finish", "post", "sleep", "unref"}, At(t, from),
             NEW where \in {"body", "finish", "post", "sleep", "unref"},
             Goto(t, where) \/ End(t), UNCHANGED <<idle, haveIdle, loop, shutdown>>
      PROVE  NoneForgotten'
  <2>1. Same({"announce"})
        BY <1>4, GotoSame, EndSame
  <2> QED BY <1>4, <2>1, ApartStep
<1>5. ASSUME NEW t \in Threads, Swap(t)
      PROVE  NoneForgotten'
  <2>1. PICK where \in {"body", "finish", "sleep", "unref"} :
           where = CASE status[Top(t).task] = "running" ->
                          IF Top(t).op = "work" THEN "unref" ELSE "sleep"
                     [] status[Top(t).task] = "idle" ->
                          IF Top(t).op = "abort" THEN "finish" ELSE "body"
                     [] OTHER -> "finish"
        OBVIOUS
  <2>2. /\ At(t, "swap") /\ Goto(t, where)
        /\ UNCHANGED <<idle, haveIdle, loop, shutdown>>
        BY <1>5, <2>1 DEF Swap
  <2> QED BY <1>4, <2>2
<1>6. ASSUME NEW t \in Threads, Finish(t) \/ Post(t) \/ Awake(t) \/ BodyEnds(t)
      PROVE  NoneForgotten'
  <2>1. CASE Finish(t)
        BY <1>4, <2>1 DEF Finish
  <2>2. CASE Post(t)
    <3>1. CASE Top(t).op = "work"
          BY <1>4, <2>2, <3>1 DEF Post
    <3>2. CASE Top(t).op # "work"
          BY <1>4, <2>2, <3>2 DEF Post
    <3> QED BY <3>1, <3>2
  <2>3. CASE Awake(t)
        BY <1>4, <2>3 DEF Awake
  <2>4. CASE BodyEnds(t)
        BY <1>4, <2>4 DEF BodyEnds
  <2> QED BY <1>6, <2>1, <2>2, <2>3, <2>4
<1>7. ASSUME NEW w \in Workers, Drop(w)
      PROVE  NoneForgotten'
      BY <1>4, <1>7 DEF Drop, Threads
<1>8. ASSUME NEW k \in Tasks, Forget(k) \/ \E t \in Threads : Unref(t, k)
      PROVE  NoneForgotten'
      BY <1>1, <1>8 DEF Forget, Unref
<1>9. ASSUME Stop \/ PostAll \/ Join \/ Drain
      PROVE  NoneForgotten'
      BY <1>9 DEF Stop, PostAll, Join, Drain, NoneForgotten
<1>10. ASSUME NEW c \in Clients, Leave(c)
      PROVE  NoneForgotten'
      BY <1>1, <1>10 DEF Leave
<1>11. CASE UNCHANGED vars
      BY <1>1, <1>11 DEF vars
<1>12. ASSUME NEW t \in Threads, Calls(t) \/ Proceeds(t)
      PROVE  NoneForgotten'
      BY <1>2, <1>3, <1>5, <1>6, <1>8, <1>12, AnnounceNone DEF Calls, Proceeds
<1>13. ASSUME NEW w \in Workers, Works(w)
      PROVE  NoneForgotten'
      BY <1>7, <1>13, CheckNone, PopNone, TakeNone DEF Works
<1>14. ASSUME Ends
      PROVE  NoneForgotten'
      BY <1>8, <1>9, <1>14 DEF Ends
<1> QED BY <1>8, <1>9, <1>10, <1>11, <1>12, <1>13, <1>14 DEF Next, Over

\* Every task on the stack is announced, or about to be, or some worker is
\* about to look.
THEOREM AlwaysNoneForgotten == Spec => []NoneForgotten
<1>1. Init => NoneForgotten
  <2> SUFFICES ASSUME Init
               PROVE  Len(idle) <= haveIdle + Cardinality(Announcers) + Cardinality(Lookers)
      BY DEF NoneForgotten, Announcers, Lookers
  <2>1. Len(idle) = 0 /\ haveIdle = 0
        BY DEF Init
  <2> QED BY <2>1, FiniteCounts
<1> QED BY <1>1, NextNone, InitIInv, NextIInv, PTL DEF Spec

-----------------------------------------------------------------------------
(* Tasks are executed at most once, and waiting means that the body ended.  *)

\* The state of TaskOnce.
PhaseOf(k) ==
  CASE status[k] = "none" -> "none"
    [] status[k] = "idle" -> "pending"
    [] OTHER -> IF Work(k, {"body"}) # {} THEN "started" ELSE "over"
Phase == [k \in Tasks |-> PhaseOf(k)]

Unfinished ==
  {[thread |-> f[1], level |-> f[2],
    task |-> frames[f[1]][f[2]].task, op |-> frames[f[1]][f[2]].op] :
     f \in {g \in Threads \X Levels :
              /\ g[2] <= Len(frames[g[1]])
              /\ frames[g[1]][g[2]].op \in {"wait", "abort"}}}

\* The steps of TaskOnce.
PhaseMoves(k, from, to) ==
  /\ PhaseOf(k) \in from
  /\ PhaseOf(k)' = to
  /\ \A x \in Tasks \ {k} : PhaseOf(x)' = PhaseOf(x)
  /\ Unfinished' = Unfinished
PhasesStay == \A x \in Tasks : PhaseOf(x)' = PhaseOf(x)

CallInnermost(c) ==
  c \in Unfinished /\ \A d \in Unfinished : d.thread = c.thread => d.level <= c.level

\* A task changes its phase, nothing else changes.
LEMMA MoveImplements ==
  ASSUME NEW k \in Tasks, NEW from, NEW to, PhaseMoves(k, from, to)
  PROVE  Abstract!Move(k, from, to)
<1>1. Phase[k] \in from /\ Phase' = [Phase EXCEPT ![k] = to] /\ Unfinished' = Unfinished
      BY DEF PhaseMoves, Phase
<1> QED BY <1>1 DEF Abstract!Move, Phase, PhaseOf, Unfinished

\* Neither phases nor calls change.
LEMMA StutterImplements ==
  ASSUME PhasesStay, Unfinished' = Unfinished
  PROVE  UNCHANGED Abstract!avars
<1>1. Phase' = Phase
      BY DEF PhasesStay, Phase
<1> QED BY <1>1 DEF Abstract!avars, Phase, PhaseOf, Unfinished

\* A task disappears that nobody waits for.
LEMMA FreeImplements ==
  ASSUME NEW k \in Tasks, PhaseMoves(k, {"pending", "over"}, "none"),
         \A c \in Unfinished : c.task # k
  PROVE  Abstract!Free(k)
<1>1. Abstract!Move(k, {"pending", "over"}, "none")
      BY MoveImplements
<1> QED BY <1>1 DEF Abstract!Free, Unfinished

\* An abort finds a pending task.
LEMMA CancelImplements ==
  ASSUME NEW c, c.task \in Tasks, CallInnermost(c), c.op = "abort",
         PhaseMoves(c.task, {"pending"}, "over")
  PROVE  Abstract!Cancel(c)
<1>1. Abstract!Move(c.task, {"pending"}, "over")
      BY MoveImplements
<1>2. Abstract!Innermost(c)
      BY DEF CallInnermost, Abstract!Innermost, Unfinished
<1> QED BY <1>1, <1>2 DEF Abstract!Cancel

\* A call begins.
LEMMA CallImplements ==
  ASSUME NEW c, c.task \in Tasks, PhaseOf(c.task) # "none", PhasesStay,
         \A d \in Unfinished : d.thread = c.thread => d.level < c.level,
         Unfinished' = Unfinished \cup {c}
  PROVE  Abstract!Call(c)
<1>1. Phase' = Phase /\ Phase[c.task] # "none"
      BY DEF PhasesStay, Phase
<1> QED BY <1>1 DEF Abstract!Call, Phase, PhaseOf, Unfinished

\* A call returns after its task is over.
LEMMA ReturnImplements ==
  ASSUME NEW c, c.task \in Tasks, CallInnermost(c), PhaseOf(c.task) = "over", PhasesStay,
         Unfinished' = Unfinished \ {c}
  PROVE  Abstract!Return(c)
<1>1. Phase' = Phase /\ Phase[c.task] = "over"
      BY DEF PhasesStay, Phase
<1>2. Abstract!Innermost(c)
      BY DEF CallInnermost, Abstract!Innermost, Unfinished
<1> QED BY <1>1, <1>2 DEF Abstract!Return, Phase, PhaseOf, Unfinished

-----------------------------------------------------------------------------
(* What steps do to the state of TaskOnce.                                 *)

CallRecord(t, n) ==
  [thread |-> t, level |-> n, task |-> frames[t][n].task, op |-> frames[t][n].op]
IsCall(t, n) == n \in 1 .. Len(frames[t]) /\ frames[t][n].op \in {"wait", "abort"}

\* The calls of TaskOnce are the operations "wait" and "abort".
LEMMA UnfinishedIs ==
  TypeOK /\ Shape =>
    \A c : c \in Unfinished <=>
             \E t \in Threads, n \in Levels : IsCall(t, n) /\ c = CallRecord(t, n)
<1> SUFFICES ASSUME TypeOK, Shape, NEW c
             PROVE  c \in Unfinished <=>
                      \E t \in Threads, n \in Levels : IsCall(t, n) /\ c = CallRecord(t, n)
    OBVIOUS
<1> DEFINE G == {g \in Threads \X Levels :
                   /\ g[2] <= Len(frames[g[1]])
                   /\ frames[g[1]][g[2]].op \in {"wait", "abort"}}
<1>1. c \in Unfinished <=> \E f \in G : c = CallRecord(f[1], f[2])
      BY DEF Unfinished, CallRecord
<1>2. ASSUME NEW t \in Threads, NEW n \in Levels
      PROVE  <<t, n>> \in G <=> IsCall(t, n)
  <2>1. n \in Nat \ {0} /\ Len(frames[t]) \in Nat
        BY DEF TypeOK, Levels
  <2> QED BY <2>1 DEF IsCall
<1>3. \A f \in G : f = <<f[1], f[2]>> /\ f[1] \in Threads /\ f[2] \in Levels
      OBVIOUS
<1> HIDE DEF G
<1> QED BY <1>1, <1>2, <1>3

\* Somebody executes a task.
LEMMA BodyIs ==
  ASSUME TypeOK, Shape, NEW k \in Tasks
  PROVE  Work(k, {"body"}) # {} <=> \E t \in Threads, n \in Levels : Is(t, n, k, {"body"})
<1>1. ASSUME NEW t \in Threads, NEW n \in Levels
      PROVE  Is(t, n, k, {"body"}) <=> <<t, n>> \in Work(k, {"body"})
  <2>1. n \in Nat \ {0} /\ Len(frames[t]) \in Nat
        BY DEF TypeOK, Levels
  <2> QED BY <2>1 DEF Is, Work
<1>2. \A f \in Work(k, {"body"}) : f = <<f[1], f[2]>> /\ f[1] \in Threads /\ f[2] \in Levels
      BY DEF Work
<1>3. ASSUME NEW t \in Threads, NEW n \in Levels, Is(t, n, k, {"body"})
      PROVE  Work(k, {"body"}) # {}
      BY <1>1, <1>3
<1>4. ASSUME NEW f \in Work(k, {"body"})
      PROVE  \E t \in Threads, n \in Levels : Is(t, n, k, {"body"})
  <2>1. Is(f[1], f[2], k, {"body"}) /\ f[1] \in Threads /\ f[2] \in Levels
        BY <1>1, <1>2
  <2> QED BY <2>1
<1> QED BY <1>3, <1>4

\* What a task is for TaskOnce.
LEMMA PhaseIs ==
  TypeOK /\ Shape /\ Running =>
    \A k \in Tasks :
      /\ PhaseOf(k) = "none" <=> status[k] = "none"
      /\ PhaseOf(k) = "pending" <=> status[k] = "idle"
      /\ PhaseOf(k) = "started" <=> \E t \in Threads, n \in Levels : Is(t, n, k, {"body"})
      /\ PhaseOf(k) \in {"none", "pending", "started", "over"}
<1> SUFFICES ASSUME TypeOK, Shape, Running, NEW k \in Tasks
             PROVE  /\ PhaseOf(k) = "none" <=> status[k] = "none"
                    /\ PhaseOf(k) = "pending" <=> status[k] = "idle"
                    /\ PhaseOf(k) = "started" <=>
                         \E t \in Threads, n \in Levels : Is(t, n, k, {"body"})
                    /\ PhaseOf(k) \in {"none", "pending", "started", "over"}
    OBVIOUS
<1>1. ASSUME NEW t \in Threads, NEW n \in Levels, Is(t, n, k, {"body"})
      PROVE  status[k] = "running"
  <2>1. Is(t, n, k, {"body", "finish"})
        BY <1>1 DEF Is
  <2> QED BY <2>1 DEF Running, Runner
<1> QED BY <1>1, BodyIs DEF PhaseOf

\* PhaseIs, after a step.
LEMMA NextPhaseIs ==
  ASSUME IInv'
  PROVE  \A k \in Tasks :
           /\ PhaseOf(k)' = "none" <=> status'[k] = "none"
           /\ PhaseOf(k)' = "pending" <=> status'[k] = "idle"
           /\ PhaseOf(k)' = "started" <=> \E t \in Threads, n \in Levels : Is(t, n, k, {"body"})'
           /\ PhaseOf(k)' \in {"none", "pending", "started", "over"}
<1>1. (TypeOK /\ Shape /\ Running)'
      BY DEF IInv
<1>2. (\A k \in Tasks :
         /\ PhaseOf(k) = "none" <=> status[k] = "none"
         /\ PhaseOf(k) = "pending" <=> status[k] = "idle"
         /\ PhaseOf(k) = "started" <=> \E t \in Threads, n \in Levels : Is(t, n, k, {"body"})
         /\ PhaseOf(k) \in {"none", "pending", "started", "over"})'
      BY <1>1, PhaseIs, PTL
<1> QED BY <1>2

\* Only task k changes for TaskOnce.
Others(k) ==
  \A x \in Tasks \ {k} :
    /\ status'[x] = status[x]
    /\ \A t \in Threads, n \in Levels : Is(t, n, x, {"body"})' <=> Is(t, n, x, {"body"})

\* A task whose status and runner stay keeps its phase.
LEMMA OthersStay ==
  ASSUME IInv, IInv', NEW k \in Tasks, Others(k), NEW x \in Tasks \ {k}
  PROVE  PhaseOf(x)' = PhaseOf(x)
<1>1. /\ PhaseOf(x)' = "none" <=> PhaseOf(x) = "none"
      /\ PhaseOf(x)' = "pending" <=> PhaseOf(x) = "pending"
      /\ PhaseOf(x)' = "started" <=> PhaseOf(x) = "started"
      /\ PhaseOf(x) \in {"none", "pending", "started", "over"}
      /\ PhaseOf(x)' \in {"none", "pending", "started", "over"}
      BY PhaseIs, NextPhaseIs DEF Others, IInv
<1> QED BY <1>1

\* The phase is the same for a task that somebody has taken, marked as done or not,
\* when nobody begins or ends to execute its body.
LEMMA SamePhases ==
  ASSUME IInv, IInv', Same({"body"}),
         \A x \in Tasks : status'[x] = status[x] \/ (status[x] \in Taken /\ status'[x] \in Taken)
  PROVE  PhasesStay
<1> SUFFICES ASSUME NEW x \in Tasks
             PROVE  PhaseOf(x)' = PhaseOf(x)
    BY DEF PhasesStay
<1>1. /\ status'[x] = "none" <=> status[x] = "none"
      /\ status'[x] = "idle" <=> status[x] = "idle"
      BY DEF Taken
<1>2. /\ PhaseOf(x)' = "none" <=> PhaseOf(x) = "none"
      /\ PhaseOf(x)' = "pending" <=> PhaseOf(x) = "pending"
      /\ PhaseOf(x)' = "started" <=> PhaseOf(x) = "started"
      /\ PhaseOf(x) \in {"none", "pending", "started", "over"}
      /\ PhaseOf(x)' \in {"none", "pending", "started", "over"}
      BY <1>1, PhaseIs, NextPhaseIs DEF Same, IInv
<1> QED BY <1>2

\* An unfinished call is one at some level of its thread.
LEMMA CallIs ==
  ASSUME TypeOK, Shape, NEW c \in Unfinished
  PROVE  \E t \in Threads, n \in Levels : IsCall(t, n) /\ c = CallRecord(t, n)
BY UnfinishedIs

\* UnfinishedIs, after a step.
LEMMA NextUnfinishedIs ==
  ASSUME IInv'
  PROVE  \A c : c \in Unfinished' <=>
                  \E t \in Threads, n \in Levels : IsCall(t, n)' /\ c = CallRecord(t, n)'
<1>1. (TypeOK /\ Shape)'
      BY DEF IInv
<1>2. (\A c : c \in Unfinished <=>
                \E t \in Threads, n \in Levels : IsCall(t, n) /\ c = CallRecord(t, n))'
      BY <1>1, UnfinishedIs, PTL
<1> QED BY <1>2

\* The call of t at level n stays what it is, or is none still.
CallStays(t, n) ==
  /\ IsCall(t, n)' <=> IsCall(t, n)
  /\ IsCall(t, n) => CallRecord(t, n)' = CallRecord(t, n)

\* The calls are the same when each of them is.
LEMMA CallsStay ==
  ASSUME IInv, IInv', \A t \in Threads, n \in Levels : CallStays(t, n)
  PROVE  Unfinished' = Unfinished
<1>1. \A c : c \in Unfinished' <=> c \in Unfinished
  <2>1. \A c : c \in Unfinished <=>
                 \E t \in Threads, n \in Levels : IsCall(t, n) /\ c = CallRecord(t, n)
        BY UnfinishedIs DEF IInv
  <2>2. \A c : c \in Unfinished' <=>
                 \E t \in Threads, n \in Levels : IsCall(t, n)' /\ c = CallRecord(t, n)'
        BY NextUnfinishedIs
  <2> QED BY <2>1, <2>2 DEF CallStays
<1>2. \A c \in Unfinished' : c \in Unfinished
      BY <1>1
<1>3. \A c \in Unfinished : c \in Unfinished'
      BY <1>1
<1> QED BY <1>2, <1>3

\* No frame changes, no call does.
LEMMA StillCalls ==
  ASSUME IInv, IInv', UNCHANGED frames
  PROVE  Unfinished' = Unfinished
<1>1. \A t \in Threads, n \in Levels : CallStays(t, n)
      BY DEF CallStays, IsCall, CallRecord
<1> QED BY <1>1, CallsStay

\* Moving within a call changes no call.
LEMMA GotoCalls ==
  ASSUME IInv, IInv', NEW t \in Threads, frames[t] # <<>>, NEW where, Goto(t, where)
  PROVE  Unfinished' = Unfinished
<1>1. ASSUME NEW u \in Threads, NEW n \in Levels
      PROVE  CallStays(u, n)
  <2>0. n \in Nat /\ Len(frames[t]) \in Nat
        BY DEF IInv, TypeOK, Levels
  <2>1. Len(frames'[u]) = Len(frames[u])
    <3>1. CASE u = t
          BY <3>1, GotoEffect DEF IInv
    <3>2. CASE u # t
          BY <3>2, GotoEffect DEF IInv
    <3> QED BY <3>1, <3>2
  <2>2. n \in 1 .. Len(frames[u]) =>
          frames'[u][n].task = frames[u][n].task /\ frames'[u][n].op = frames[u][n].op
        BY <2>0, <2>1, GotoEffect DEF IInv
  <2> QED BY <2>1, <2>2 DEF CallStays, IsCall, CallRecord
<1> QED BY <1>1, CallsStay

\* Operations other than "wait" and "abort" are no calls.
LEMMA BeginCalls ==
  ASSUME IInv, IInv', NEW t \in Threads, NEW k \in Tasks, NEW o \in {"new", "work"},
         NEW where \in {"announce", "swap"}, Begin(t, k, o, where)
  PROVE  Unfinished' = Unfinished
<1>0. /\ Len(frames[t]) + 1 \in 1 .. MaxDepth
      /\ Len(frames'[t]) = Len(frames[t]) + 1
      /\ frames'[t][Len(frames[t]) + 1].task = k
      /\ frames'[t][Len(frames[t]) + 1].op = o
      /\ frames'[t][Len(frames[t]) + 1].at = where
      /\ \A m \in 1 .. Len(frames[t]) : frames'[t][m] = frames[t][m]
      /\ \A v \in Threads \ {t} : frames'[v] = frames[v]
  <2>1. TypeOK /\ Begin(t, k, o, where) /\ o \in {"new", "wait", "abort", "work"}
        BY DEF IInv
  <2>2. where \in {"announce", "swap", "body", "finish", "post", "sleep", "unref"}
        OBVIOUS
  <2> QED BY <2>1, <2>2, BeginEffect
<1>1. ASSUME NEW u \in Threads, NEW n \in Levels
      PROVE  CallStays(u, n)
  <2>1. n \in Nat /\ Len(frames[t]) \in Nat
        BY DEF IInv, TypeOK, Levels
  <2>2. CASE u = t /\ n = Len(frames[t]) + 1
    <3>1. frames'[u][n].op \notin {"wait", "abort"} /\ n \notin 1 .. Len(frames[u])
          BY <2>1, <2>2, <1>0
    <3> QED BY <3>1 DEF CallStays, IsCall
  <2>3. CASE ~(u = t /\ n = Len(frames[t]) + 1)
    <3>1. n \in 1 .. Len(frames'[u]) <=> n \in 1 .. Len(frames[u])
          BY <2>1, <2>3, <1>0
    <3>2. n \in 1 .. Len(frames[u]) => frames'[u][n] = frames[u][n]
          BY <2>1, <2>3, <1>0
    <3> QED BY <3>1, <3>2 DEF CallStays, IsCall, CallRecord
  <2> QED BY <2>2, <2>3
<1> QED BY <1>1, CallsStay

\* The end of an operation that is no call ends no call.
LEMMA EndCalls ==
  ASSUME IInv, IInv', NEW t \in Threads, frames[t] # <<>>, End(t),
         Top(t).op \notin {"wait", "abort"}
  PROVE  Unfinished' = Unfinished
<1>1. ASSUME NEW u \in Threads, NEW n \in Levels
      PROVE  CallStays(u, n)
  <2>1. n \in Nat /\ Len(frames[t]) \in Nat
        BY DEF IInv, TypeOK, Levels
  <2>2. CASE u = t /\ n = Len(frames[t])
    <3>1. frames[u][n].op \notin {"wait", "abort"} /\ n \notin 1 .. Len(frames'[u])
          BY <2>1, <2>2, EndEffect DEF IInv, Top
    <3> QED BY <3>1 DEF CallStays, IsCall
  <2>3. CASE ~(u = t /\ n = Len(frames[t]))
    <3>1. n \in 1 .. Len(frames'[u]) <=> n \in 1 .. Len(frames[u])
          BY <2>1, <2>3, EndEffect DEF IInv
    <3>2. n \in 1 .. Len(frames[u]) => frames'[u][n] = frames[u][n]
          BY <2>1, <2>3, EndEffect DEF IInv
    <3> QED BY <3>1, <3>2 DEF CallStays, IsCall, CallRecord
  <2> QED BY <2>2, <2>3
<1> QED BY <1>1, CallsStay

\* The innermost call of a thread is the innermost for TaskOnce.
LEMMA TopCall ==
  ASSUME IInv, NEW t \in Threads, NEW where, At(t, where), Top(t).op \in {"wait", "abort"}
  PROVE  LET c == CallRecord(t, Len(frames[t])) IN
         /\ c \in Abstract!Calls
         /\ c.task = Top(t).task
         /\ c.op = Top(t).op
         /\ CallInnermost(c)
<1> DEFINE l == Len(frames[t])
           c == CallRecord(t, l)
<1>1. l \in 1 .. Len(frames[t]) /\ l \in Levels /\ Top(t).task \in Tasks /\ Top(t) = frames[t][l]
      BY TopIs DEF IInv
<1>2. /\ c.thread = t /\ c.level = l /\ c.task = Top(t).task /\ c.op = Top(t).op
      /\ c \in Abstract!Calls
      BY <1>1 DEF CallRecord, Abstract!Calls
<1>3. IsCall(t, l)
      BY <1>1 DEF IsCall
<1>4. c \in Unfinished
      BY <1>1, <1>3, UnfinishedIs DEF IInv
<1>5. ASSUME NEW d \in Unfinished, d.thread = t
      PROVE  d.level <= l
  <2>1. PICK u \in Threads, n \in Levels : IsCall(u, n) /\ d = CallRecord(u, n)
        BY CallIs DEF IInv
  <2>2. u = t /\ d.level = n /\ n \in 1 .. Len(frames[t])
        BY <1>5, <2>1 DEF CallRecord, IsCall
  <2> QED BY <2>2
<1> HIDE DEF c, l
<1>6. CallInnermost(c)
      BY <1>2, <1>4, <1>5 DEF CallInnermost
<1> QED BY <1>2, <1>6 DEF c, l

\* The end of a call removes it.
LEMMA EndReturns ==
  ASSUME IInv, IInv', NEW t \in Threads, frames[t] # <<>>, End(t),
         Top(t).op \in {"wait", "abort"}
  PROVE  Unfinished' = Unfinished \ {CallRecord(t, Len(frames[t]))}
<1>1. PICK l \in Nat \ {0} : l = Len(frames[t]) /\ l \in Levels
  <2>1. Len(frames[t]) \in Nat \ {0} /\ Len(frames[t]) <= MaxDepth
        BY DEF IInv, TypeOK, Shape
  <2> QED BY <2>1, ThreadsAssumption DEF Levels
<1>2. ASSUME NEW u \in Threads, NEW n \in Levels
      PROVE  /\ IsCall(u, n)' <=> IsCall(u, n) /\ ~(u = t /\ n = l)
             /\ IsCall(u, n)' => CallRecord(u, n)' = CallRecord(u, n)
  <2>1. n \in Nat
        BY DEF Levels
  <2>2. CASE u = t /\ n = l
    <3>1. n \notin 1 .. Len(frames'[u])
          BY <1>1, <2>1, <2>2, EndEffect DEF IInv
    <3> QED BY <2>2, <3>1 DEF IsCall
  <2>3. CASE ~(u = t /\ n = l)
    <3>1. n \in 1 .. Len(frames'[u]) <=> n \in 1 .. Len(frames[u])
          BY <1>1, <2>1, <2>3, EndEffect DEF IInv
    <3>2. n \in 1 .. Len(frames[u]) => frames'[u][n] = frames[u][n]
          BY <1>1, <2>1, <2>3, EndEffect DEF IInv
    <3> QED BY <2>3, <3>1, <3>2 DEF IsCall, CallRecord
  <2> QED BY <2>2, <2>3
<1>3. \A u \in Threads, n \in Levels : CallRecord(u, n) = CallRecord(t, l) => u = t /\ n = l
  <2>1. \A u \in Threads, n \in Levels :
          CallRecord(u, n).thread = u /\ CallRecord(u, n).level = n
        BY DEF CallRecord
  <2> QED BY <1>1, <2>1
<1>4. \A c : c \in Unfinished' <=>
               \E u \in Threads, n \in Levels : IsCall(u, n)' /\ c = CallRecord(u, n)'
      BY NextUnfinishedIs
<1>5. \A c : c \in Unfinished <=>
               \E u \in Threads, n \in Levels : IsCall(u, n) /\ c = CallRecord(u, n)
      BY UnfinishedIs DEF IInv
<1>6. ASSUME NEW c
      PROVE  c \in Unfinished' <=> c \in Unfinished /\ c # CallRecord(t, l)
  <2>1. ASSUME c \in Unfinished'
        PROVE  c \in Unfinished /\ c # CallRecord(t, l)
    <3>1. PICK u \in Threads, n \in Levels : IsCall(u, n)' /\ c = CallRecord(u, n)'
          BY <1>4, <2>1
    <3>2. IsCall(u, n) /\ ~(u = t /\ n = l) /\ c = CallRecord(u, n)
          BY <1>2, <3>1
    <3> QED BY <1>3, <1>5, <3>2
  <2>2. ASSUME c \in Unfinished, c # CallRecord(t, l)
        PROVE  c \in Unfinished'
    <3>1. PICK u \in Threads, n \in Levels : IsCall(u, n) /\ c = CallRecord(u, n)
          BY <1>5, <2>2
    <3>2. IsCall(u, n)' /\ c = CallRecord(u, n)'
          BY <1>2, <2>2, <3>1
    <3> QED BY <1>4, <3>2
  <2> QED BY <2>1, <2>2
<1>7. \A c \in Unfinished' : c \in Unfinished \ {CallRecord(t, l)}
      BY <1>6
<1>8. \A c \in Unfinished \ {CallRecord(t, l)} : c \in Unfinished'
      BY <1>6
<1> QED BY <1>1, <1>7, <1>8

\* A new call is deeper than all other calls of its thread.
LEMMA BeginAdds ==
  ASSUME IInv, IInv', NEW t \in Threads, NEW k \in Tasks, NEW o \in {"wait", "abort"},
         Begin(t, k, o, "swap")
  PROVE  LET c == [thread |-> t, level |-> Len(frames[t]) + 1, task |-> k, op |-> o] IN
         /\ c \in Abstract!Calls
         /\ \A d \in Unfinished : d.thread = t => d.level < c.level
         /\ Unfinished' = Unfinished \cup {c}
<1>0. /\ Len(frames[t]) + 1 \in 1 .. MaxDepth
      /\ Len(frames'[t]) = Len(frames[t]) + 1
      /\ frames'[t][Len(frames[t]) + 1].task = k
      /\ frames'[t][Len(frames[t]) + 1].op = o
      /\ frames'[t][Len(frames[t]) + 1].at = "swap"
      /\ \A m \in 1 .. Len(frames[t]) : frames'[t][m] = frames[t][m]
      /\ \A v \in Threads \ {t} : frames'[v] = frames[v]
  <2>1. TypeOK /\ Begin(t, k, o, "swap") /\ o \in {"new", "wait", "abort", "work"}
        BY DEF IInv
  <2>2. "swap" \in {"announce", "swap", "body", "finish", "post", "sleep", "unref"}
        OBVIOUS
  <2> QED BY <2>1, <2>2, BeginEffect
<1>1. PICK l \in Nat \ {0} :
        /\ l = Len(frames[t]) + 1 /\ l \in Levels
        /\ Len(frames[t]) \in Nat /\ Len(frames[t]) < l
  <2>1. Len(frames[t]) \in Nat /\ Len(frames[t]) + 1 \in 1 .. MaxDepth
        BY <1>0 DEF IInv, TypeOK
  <2> QED BY <2>1 DEF Levels
<1> DEFINE c == [thread |-> t, level |-> l, task |-> k, op |-> o]
<1>2. c \in Abstract!Calls
      BY <1>1 DEF Abstract!Calls
<1>3. ASSUME NEW u \in Threads, NEW n \in Levels
      PROVE  /\ IsCall(u, n)' <=> IsCall(u, n) \/ (u = t /\ n = l)
             /\ IsCall(u, n) => CallRecord(u, n)' = CallRecord(u, n)
  <2>1. n \in Nat
        BY DEF Levels
  <2>2. CASE u = t /\ n = l
    <3>1. n \notin 1 .. Len(frames[u]) /\ n \in 1 .. Len(frames'[u]) /\ frames'[u][n].op = o
          BY <1>1, <2>1, <2>2, <1>0
    <3> QED BY <2>2, <3>1 DEF IsCall
  <2>3. CASE ~(u = t /\ n = l)
    <3>1. n \in 1 .. Len(frames'[u]) <=> n \in 1 .. Len(frames[u])
          BY <1>1, <2>1, <2>3, <1>0
    <3>2. n \in 1 .. Len(frames[u]) => frames'[u][n] = frames[u][n]
          BY <1>1, <2>1, <2>3, <1>0
    <3> QED BY <2>3, <3>1, <3>2 DEF IsCall, CallRecord
  <2> QED BY <2>2, <2>3
<1>4. CallRecord(t, l)' = c
      BY <1>1, <1>0 DEF CallRecord
<1>5. ASSUME NEW d \in Unfinished, d.thread = t
      PROVE  d.level < l
  <2>1. PICK u \in Threads, n \in Levels : IsCall(u, n) /\ d = CallRecord(u, n)
        BY CallIs DEF IInv
  <2>2. u = t /\ d.level = n /\ n \in 1 .. Len(frames[t])
        BY <1>5, <2>1 DEF CallRecord, IsCall
  <2> QED BY <1>1, <2>2
<1>6. \A d : d \in Unfinished' <=>
               \E u \in Threads, n \in Levels : IsCall(u, n)' /\ d = CallRecord(u, n)'
      BY NextUnfinishedIs
<1>7. \A d : d \in Unfinished <=>
               \E u \in Threads, n \in Levels : IsCall(u, n) /\ d = CallRecord(u, n)
      BY UnfinishedIs DEF IInv
<1>8. c.level = l
      OBVIOUS
<1> HIDE DEF c
<1>9. \A d : d \in Unfinished' <=> d \in Unfinished \/ d = c
      BY <1>1, <1>3, <1>4, <1>6, <1>7
<1>10. \A d \in Unfinished' : d \in Unfinished \cup {c}
       BY <1>9
<1>11. \A d \in Unfinished \cup {c} : d \in Unfinished'
       BY <1>9
<1> QED BY <1>1, <1>2, <1>5, <1>8, <1>10, <1>11 DEF c

-----------------------------------------------------------------------------
(* Every step is one of TaskOnce, or none.                                 *)

Once == Abstract!Next \/ UNCHANGED Abstract!avars

\* A step that TaskOnce does not see: nobody begins or ends to execute a body.
LEMMA QuietOnce ==
  ASSUME IInv, IInv', Same({"body"}), Unfinished' = Unfinished,
         \A x \in Tasks : status'[x] = status[x] \/ (status[x] \in Taken /\ status'[x] \in Taken)
  PROVE  Once
BY SamePhases, StutterImplements DEF Once

\* A step that changes neither statuses nor frames.
LEMMA StillOnce ==
  ASSUME IInv, IInv', UNCHANGED <<status, frames>>
  PROVE  Once
BY StillSame, StillCalls, QuietOnce

\* Releasing a task frees it or is not seen.
LEMMA ReleaseOnce ==
  ASSUME IInv, IInv', NEW k \in Tasks, refs[k] # 0, Release(k),
         Same({"body"}), Unfinished' = Unfinished
  PROVE  Once
<1>1. /\ refs \in [Tasks -> Nat] /\ status \in [Tasks -> Statuses]
      BY DEF IInv, TypeOK
<1>2. /\ \A x \in Tasks \ {k} : status'[x] = status[x]
      /\ refs[k] # 1 => status'[k] = status[k]
      /\ refs[k] = 1 => status'[k] = "none" /\ refs'[k] = 0
      BY <1>1 DEF Release
<1>3. CASE refs[k] # 1
      BY <1>2, <1>3, QuietOnce
<1>4. CASE refs[k] = 1
  <2>1. InUse'
    <3>1. (TypeOK /\ Shape /\ CallersHold /\ Counted)'
          BY DEF IInv
    <3> QED BY <3>1, Used, PTL
  <2>2. \A t \in Threads, n \in Levels : ~Is(t, n, k, {"body"})
    <3>1. \A t \in Threads, n \in Levels : ~Is(t, n, k, {"body"})'
          BY <1>2, <1>4, <2>1 DEF InUse, Is
    <3> QED BY <3>1 DEF Same
  <2>3. ASSUME NEW c \in Unfinished
        PROVE  c.task # k
    <3>1. PICK t \in Threads, n \in Levels : IsCall(t, n)' /\ c = CallRecord(t, n)'
          BY NextUnfinishedIs
    <3>2. /\ n \in 1 .. Len(frames'[t]) /\ frames'[t][n].op \in {"wait", "abort"}
          /\ frames'[t][n].task = c.task
          BY <3>1 DEF IsCall, CallRecord
    <3>3. frames'[t][n].at # "announce"
          BY <3>2 DEF IInv, Shape
    <3>4. refs'[c.task] # 0
          BY <2>1, <3>2, <3>3 DEF InUse
    <3> QED BY <1>2, <1>4, <3>4
  <2>4. PhaseMoves(k, {"pending", "over"}, "none")
    <3>1. Others(k)
          BY <1>2 DEF Others, Same
    <3>2. PhaseOf(k)' = "none"
          BY <1>2, <1>4, NextPhaseIs
    <3>3. PhaseOf(k) \in {"pending", "over"}
      <4>1. status[k] # "none"
            BY <1>4 DEF IInv, Counted
      <4> QED BY <2>2, <4>1, PhaseIs DEF IInv
    <3> QED BY <3>1, <3>2, <3>3, OthersStay DEF PhaseMoves
  <2>5. Abstract!Free(k)
        BY <2>3, <2>4, FreeImplements
  <2> QED BY <2>5 DEF Once, Abstract!Next
<1> QED BY <1>3, <1>4

\* New implements Create.
LEMMA NewOnce == ASSUME IInv, IInv', NEW t \in Threads, NEW k \in Tasks, New(t, k) PROVE Once
<1>1. /\ status[k] = "none" /\ Begin(t, k, "new", "announce")
      /\ status' = [status EXCEPT ![k] = "idle"]
      BY DEF New
<1>2. Unfinished' = Unfinished
      BY <1>1, BeginCalls
<1>3. Same({"body"})
      BY <1>1, BeginSame DEF IInv
<1>4. status'[k] = "idle" /\ \A x \in Tasks \ {k} : status'[x] = status[x]
      BY <1>1 DEF IInv, TypeOK
<1>5. PhaseOf(k) = "none" /\ PhaseOf(k)' = "pending"
      BY <1>1, <1>4, PhaseIs, NextPhaseIs DEF IInv
<1>6. Others(k)
      BY <1>3, <1>4 DEF Others, Same
<1>7. PhaseMoves(k, {"none"}, "pending")
      BY <1>2, <1>5, <1>6, OthersStay DEF PhaseMoves
<1>8. Abstract!Create(k)
      BY <1>7, MoveImplements DEF Abstract!Create
<1> QED BY <1>8 DEF Once, Abstract!Next

\* Call implements Call.
LEMMA CallOnce ==
  ASSUME IInv, IInv', NEW t \in Threads, NEW k \in Tasks, NEW o \in {"wait", "abort"},
         Call(t, k, o)
  PROVE  Once
<1>1. Begin(t, k, o, "swap") /\ UNCHANGED status /\ holders[k] # {}
      BY DEF Call
<1>2. PICK c \in Abstract!Calls :
        /\ c.task = k /\ c.thread = t
        /\ \A d \in Unfinished : d.thread = t => d.level < c.level
        /\ Unfinished' = Unfinished \cup {c}
      BY <1>1, BeginAdds
<1>3. PhasesStay
      BY <1>1, BeginSame, SamePhases DEF IInv
<1>4. PhaseOf(k) # "none"
  <2>1. status[k] # "none"
        BY <1>1, HoldersFinite DEF IInv, Counted
  <2> QED BY <2>1, PhaseIs DEF IInv
<1>5. Abstract!Call(c)
      BY <1>2, <1>3, <1>4, CallImplements
<1> QED BY <1>5 DEF Once, Abstract!Next

\* A wait or an abort returns when the task is over.
LEMMA ReturnOnce ==
  ASSUME IInv, IInv', NEW t \in Threads, NEW where, At(t, where), where # "body",
         Top(t).op \in {"wait", "abort"}, End(t), UNCHANGED status,
         done[Top(t).task] > 0 \/ where = "post"
  PROVE  Once
<1>1. PICK k \in Tasks, l \in Levels :
        k = Top(t).task /\ l = Len(frames[t]) /\ (where = "post" => Is(t, l, k, {"post"}))
      BY TopIs DEF IInv
<1>2. PICK c \in Abstract!Calls :
        c = CallRecord(t, Len(frames[t])) /\ c.task = k /\ CallInnermost(c)
      BY <1>1, TopCall
<1>3. Unfinished' = Unfinished \ {c}
      BY <1>2, EndReturns DEF At
<1>4. PhasesStay
      BY EndSame, SamePhases DEF IInv
<1>5. PhaseOf(k) = "over"
  <2>1. /\ status[k] \in {"running", "done"}
        /\ ~\E u \in Threads, n \in Levels : Is(u, n, k, {"body"})
        BY <1>1 DEF IInv, Ended
  <2> QED BY <2>1, PhaseIs DEF IInv
<1>6. Abstract!Return(c)
      BY <1>2, <1>3, <1>4, <1>5, ReturnImplements
<1> QED BY <1>6 DEF Once, Abstract!Next

\* Post ends a call of a task that is over, or is not seen.
LEMMA PostOnce == ASSUME IInv, IInv', NEW t \in Threads, Post(t) PROVE Once
<1>1. At(t, "post") /\ UNCHANGED status /\ Top(t).op \in {"wait", "abort", "work"}
      BY TopShape DEF Post, IInv
<1>2. CASE Top(t).op = "work"
  <2>1. Goto(t, "unref") /\ frames[t] # <<>>
        BY <1>1, <1>2 DEF Post, At
  <2>2. Same({"body"}) /\ Unfinished' = Unfinished
        BY <1>1, <2>1, GotoSame, GotoCalls DEF IInv
  <2> QED BY <1>1, <2>2, QuietOnce
<1>3. CASE Top(t).op \in {"wait", "abort"}
  <2>1. End(t)
        BY <1>3 DEF Post
  <2> QED BY <1>1, <1>3, <2>1, ReturnOnce
<1> QED BY <1>1, <1>2, <1>3

\* Awake ends a call of a task that is over (Ended: "done" was posted).
LEMMA AwakeOnce == ASSUME IInv, IInv', NEW t \in Threads, Awake(t) PROVE Once
<1>1. At(t, "sleep") /\ End(t) /\ UNCHANGED status /\ done[Top(t).task] > 0
      BY DEF Awake
<1>2. Top(t).op \in {"wait", "abort"}
      BY <1>1, TopShape DEF IInv
<1> QED BY <1>1, <1>2, ReturnOnce

\* Announce is not seen.
LEMMA AnnounceOnce == ASSUME IInv, IInv', NEW t \in Threads, Announce(t) PROVE Once
<1>1. At(t, "announce") /\ End(t) /\ UNCHANGED status
      BY DEF Announce
<1>2. Top(t).op = "new"
      BY <1>1, TopShape DEF IInv
<1>3. Same({"body"}) /\ Unfinished' = Unfinished
      BY <1>1, <1>2, EndSame, EndCalls DEF IInv, At
<1> QED BY <1>1, <1>3, QuietOnce

\* BodyEnds implements Complete.
LEMMA BodyEndsOnce == ASSUME IInv, IInv', NEW t \in Threads, BodyEnds(t) PROVE Once
<1>1. PICK k \in Tasks, l \in Levels :
        k = Top(t).task /\ l = Len(frames[t]) /\ Is(t, l, k, {"body"}) /\ Is(t, l, k, Runner)
      BY TopIs DEF BodyEnds, IInv, Runner
<1>2. At(t, "body") /\ Goto(t, "finish") /\ UNCHANGED status
      BY DEF BodyEnds
<1>3. Unfinished' = Unfinished
      BY <1>2, GotoCalls DEF At
<1>4. Leaves(t, {"body"})
      BY <1>2, GotoLeaves DEF At, IInv
<1>5. \A x \in Tasks : Is(t, l, x, {"body"}) => x = k
      BY <1>1 DEF Is
<1>6. Others(k)
      BY <1>1, <1>2, <1>4, <1>5 DEF Others, Leaves
<1>7. ASSUME NEW u \in Threads, NEW n \in Levels, Is(u, n, k, {"body"})
      PROVE  u = t /\ n = l
  <2>1. Is(u, n, k, {"body", "finish"})
        BY <1>7 DEF Is
  <2> QED BY <1>1, <2>1 DEF IInv, Running, Runner
<1>8. PhaseOf(k) = "started"
      BY <1>1, PhaseIs DEF IInv
<1>9. PhaseOf(k)' = "over"
  <2>1. ~\E u \in Threads, n \in Levels : Is(u, n, k, {"body"})'
        BY <1>1, <1>4, <1>7 DEF Leaves
  <2>2. status'[k] = "running"
        BY <1>1, <1>2 DEF IInv, Running
  <2> QED BY <2>1, <2>2, NextPhaseIs
<1>10. PhaseMoves(k, {"started"}, "over")
      BY <1>3, <1>6, <1>8, <1>9, OthersStay DEF PhaseMoves
<1>11. Abstract!Complete(k)
      BY <1>10, MoveImplements DEF Abstract!Complete
<1> QED BY <1>11 DEF Once, Abstract!Next

\* Swap implements Start or Cancel, or is not seen.
LEMMA SwapOnce == ASSUME IInv, IInv', NEW t \in Threads, Swap(t) PROVE Once
<1> USE DEF IInv
<1>1. PICK k \in Tasks, l \in Levels : k = Top(t).task /\ l = Len(frames[t])
      BY TopIs DEF Swap
<1>2. /\ At(t, "swap") /\ frames[t] # <<>>
      /\ status'[k] = "running" /\ \A x \in Tasks \ {k} : status'[x] = status[x]
      BY <1>1 DEF Swap, TypeOK, At
<1>3. PICK where \in {"body", "finish", "sleep", "unref"} :
        where = CASE status[k] = "running" -> IF Top(t).op = "work" THEN "unref" ELSE "sleep"
                  [] status[k] = "idle"    -> IF Top(t).op = "abort" THEN "finish" ELSE "body"
                  [] OTHER                 -> "finish"
      OBVIOUS
<1>4. Goto(t, where)
      BY <1>1, <1>3 DEF Swap
<1>5. Unfinished' = Unfinished
      BY <1>2, <1>4, GotoCalls
<1>6. status[k] \in {"idle", "running", "done"}
  <2>1. Len(frames[t]) \in 1 .. Len(frames[t]) /\ frames[t][Len(frames[t])].at # "announce"
        BY <1>2, TopIs DEF At, Top
  <2>2. status[k] # "none"
        BY <1>1, <2>1, Used DEF InUse, Top
  <2> QED BY <2>2 DEF TypeOK, Statuses
<1>7. CASE where # "body" /\ status[k] \in {"running", "done"}
  <2>1. Same({"body"})
        BY <1>2, <1>4, <1>7, GotoSame
  <2>2. \A x \in Tasks : status'[x] = status[x] \/ (status[x] \in Taken /\ status'[x] \in Taken)
        BY <1>2, <1>7 DEF Taken
  <2> QED BY <1>5, <2>1, <2>2, QuietOnce
<1>8. CASE where # "body" /\ status[k] = "idle"
  <2>1. Same({"body"}) /\ Others(k)
        BY <1>2, <1>4, <1>8, GotoSame DEF Others, Same
  <2>2. PhaseOf(k) = "pending" /\ PhaseOf(k)' = "over"
    <3>1. PhaseOf(k) = "pending"
          BY <1>8, PhaseIs
    <3>2. ~\E u \in Threads, n \in Levels : Is(u, n, k, {"body"})
          BY <3>1, PhaseIs
    <3>3. ~\E u \in Threads, n \in Levels : Is(u, n, k, {"body"})'
          BY <2>1, <3>2 DEF Same
    <3> QED BY <1>2, <3>1, <3>3, NextPhaseIs
  <2>3. PhaseMoves(k, {"pending"}, "over")
        BY <1>5, <2>1, <2>2, OthersStay DEF PhaseMoves
  <2>4. Top(t).op = "abort"
        BY <1>3, <1>8
  <2>5. PICK c \in Abstract!Calls : c.task = k /\ c.op = "abort" /\ CallInnermost(c)
        BY <1>1, <1>2, <2>4, TopCall
  <2>6. Abstract!Cancel(c)
        BY <2>3, <2>5, CancelImplements
  <2> QED BY <2>6 DEF Once, Abstract!Next
<1>9. CASE where = "body"
  <2>1. status[k] = "idle"
        BY <1>3, <1>9
  <2>2. Comes(t, {"body"})
        BY <1>2, <1>4, <1>9, GotoComes
  <2>3. Others(k)
        BY <1>1, <1>2, <2>2 DEF Others, Comes
  <2>4. PhaseOf(k) = "pending"
        BY <2>1, PhaseIs
  <2>5. PhaseOf(k)' = "started"
        BY <1>1, <2>2, NextPhaseIs DEF Comes
  <2>6. PhaseMoves(k, {"pending"}, "started")
        BY <1>5, <2>3, <2>4, <2>5, OthersStay DEF PhaseMoves
  <2>7. Abstract!Start(k)
        BY <2>6, MoveImplements DEF Abstract!Start
  <2> QED BY <2>7 DEF Once, Abstract!Next
<1> QED BY <1>3, <1>6, <1>7, <1>8, <1>9

\* Finish is not seen.
LEMMA FinishOnce == ASSUME IInv, IInv', NEW t \in Threads, Finish(t) PROVE Once
<1> USE DEF IInv
<1>1. PICK k \in Tasks, l \in Levels :
        k = Top(t).task /\ l = Len(frames[t]) /\ Is(t, l, k, Runner)
      BY TopIs DEF Finish, Runner
<1>2. /\ At(t, "finish") /\ Goto(t, "post") /\ status[k] = "running"
      /\ status'[k] = "done" /\ \A x \in Tasks \ {k} : status'[x] = status[x]
      BY <1>1 DEF Finish, TypeOK, Running
<1>3. Same({"body"}) /\ Unfinished' = Unfinished
      BY <1>2, GotoSame, GotoCalls DEF At
<1> QED BY <1>2, <1>3, QuietOnce DEF Taken

\* Unref and Forget implement Free or are not seen.
LEMMA UnrefOnce ==
  ASSUME IInv, IInv', NEW k \in Tasks, Forget(k) \/ \E t \in Threads : Unref(t, k)
  PROVE  Once
<1>1. Release(k) /\ UNCHANGED frames /\ holders[k] # {}
      BY DEF Forget, Unref, Kept
<1>2. refs[k] # 0
      BY <1>1, HoldersFinite DEF IInv, Counted
<1> QED BY <1>1, <1>2, StillSame, StillCalls, ReleaseOnce

\* Pop is not seen.
LEMMA PopOnce == ASSUME IInv, IInv', NEW w \in Workers, Pop(w) PROVE Once
<1>1. UNCHANGED status /\ w \in Threads
      BY DEF Pop, Threads
<1>2. CASE UNCHANGED frames
      BY <1>1, <1>2, StillOnce
<1>3. CASE idle # <<>> /\ Begin(w, Head(idle), "work", "swap")
  <2>1. Head(idle) \in Tasks
        BY <1>3 DEF IInv, TypeOK
  <2>2. Same({"body"}) /\ Unfinished' = Unfinished
        BY <1>1, <1>3, <2>1, BeginSame, BeginCalls DEF IInv
  <2> QED BY <1>1, <2>2, QuietOnce
<1> QED BY <1>2, <1>3 DEF Pop

\* Drop implements Free or is not seen.
LEMMA DropOnce == ASSUME IInv, IInv', NEW w \in Workers, Drop(w) PROVE Once
<1>1. w \in Threads /\ At(w, "unref") /\ frames[w] # <<>> /\ End(w)
      BY DEF Drop, Threads, At
<1>2. PICK k \in Tasks : k = Top(w).task /\ Release(k)
      BY <1>1, TopIs DEF IInv, Drop
<1>3. refs[k] # 0
  <2>1. Len(frames[w]) \in 1 .. Len(frames[w]) /\ frames[w][Len(frames[w])].at # "announce"
        BY <1>1, TopIs DEF At, Top, IInv
  <2> QED BY <1>1, <1>2, <2>1, Used DEF InUse, Top, IInv
<1>4. Top(w).op = "work"
      BY <1>1, TopShape DEF IInv
<1>5. Same({"body"}) /\ Unfinished' = Unfinished
      BY <1>1, <1>4, EndSame, EndCalls DEF IInv
<1> QED BY <1>2, <1>3, <1>5, ReleaseOnce

\* Drain implements Free, of a task that nobody has executed.
LEMMA DrainOnce == ASSUME IInv, IInv', Drain PROVE Once
<1>1. UNCHANGED frames
      BY DEF Drain
<1>2. CASE UNCHANGED status
      BY <1>1, <1>2, StillOnce
<1>3. CASE idle # <<>> /\ Release(Head(idle))
  <2>1. PICK k \in Tasks : k = Head(idle) /\ OnStack(k)
    <3>1. Len(idle) # 0 /\ idle[1] \in Tasks /\ Head(idle) = idle[1] /\ 1 \in 1 .. Len(idle)
          BY <1>3 DEF IInv, TypeOK
    <3> QED BY <3>1 DEF OnStack
  <2>2. refs[k] # 0
        BY <2>1, HoldersFinite DEF IInv, Counted, Owned
  <2> QED BY <1>1, <1>3, <2>1, <2>2, StillSame, StillCalls, ReleaseOnce
<1> QED BY <1>2, <1>3 DEF Drain

\* Every step is a step of TaskOnce or is not seen by it.
LEMMA NextOnce == IInv /\ IInv' /\ [Next]_vars => Once
<1> SUFFICES ASSUME IInv, IInv', [Next]_vars
             PROVE  Once
    OBVIOUS
<1>1. ASSUME NEW t \in Threads, Calls(t)
      PROVE  Once
      BY <1>1, NewOnce, StillOnce, CallOnce DEF Calls, Ref
<1>2. ASSUME NEW t \in Threads, Proceeds(t)
      PROVE  Once
      BY <1>2, AnnounceOnce, SwapOnce, FinishOnce, PostOnce, AwakeOnce, BodyEndsOnce, UnrefOnce
      DEF Proceeds
<1>3. ASSUME NEW w \in Workers, Works(w)
      PROVE  Once
      BY <1>3, StillOnce, PopOnce, DropOnce DEF Works, Check, TakeAnnouncement
<1>4. ASSUME Ends
      PROVE  Once
      BY <1>4, StillOnce, DrainOnce, UnrefOnce DEF Ends, PostAll, Join
<1>5. ASSUME NEW c \in Clients, Leave(c)
      PROVE  Once
      BY <1>5, StillOnce DEF Leave
<1>6. CASE Stop
      BY <1>6, StillOnce DEF Stop
<1>7. CASE UNCHANGED vars
      BY <1>7, StillOnce DEF vars
<1> QED BY <1>1, <1>2, <1>3, <1>4, <1>5, <1>6, <1>7, UnrefOnce DEF Next, Over

\* The body of a task is executed at most once, by one thread; who waits for it
\* or aborts it returns when it has ended or can not start any more.
THEOREM Implementation == Spec => ImplementsTaskOnce
<1>1. Init => Abstract!Init
  <2> SUFFICES ASSUME Init
               PROVE  Phase = [k \in Tasks |-> "none"] /\ Unfinished = {}
      BY DEF Abstract!Init, Phase, PhaseOf, Unfinished
  <2>1. \A k \in Tasks : PhaseOf(k) = "none"
        BY DEF Init, PhaseOf
  <2>2. ASSUME NEW c \in Unfinished
        PROVE  FALSE
    <3>1. PICK t \in Threads, n \in Levels : IsCall(t, n)
          BY InitIInv, UnfinishedIs DEF IInv
    <3>2. Len(frames[t]) = 0
          BY DEF Init
    <3> QED BY <3>1, <3>2 DEF IsCall
  <2> QED BY <2>1, <2>2 DEF Phase
<1>2. IInv /\ IInv' /\ [Next]_vars => [Abstract!Next]_(Abstract!avars)
      BY NextOnce DEF Once
<1> QED BY <1>1, <1>2, AlwaysIInv, PTL DEF Spec, ImplementsTaskOnce, Abstract!Spec
=============================================================================
