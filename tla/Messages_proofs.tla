---------------------------- MODULE Messages_proofs ----------------------------
(***************************************************************************)
(* Proofs about Messages for any number of threads and messages and any    *)
(* nesting of what they do: the number of abort reasons is exact, no       *)
(* wake-up is lost, the exception that aborts a call does not leave it,    *)
(* and no request to abort a call is lost.                                 *)
(*                                                                         *)
(* What a step does to the stack of frames of a thread is one of three     *)
(* things: it takes the top off, replaces it, or puts something on it.     *)
(* The first part is about stacks alone; the second one says for each      *)
(* action which of these it does, and from where to where; the third one   *)
(* shows the conjuncts of the invariant from that.                         *)
(*                                                                         *)
(* The rest is about calls.  The way of a request through the calls of a   *)
(* thread is a matter of numbers, by induction on sets of them; a second   *)
(* invariant says that each call is seen once and where requests are kept; *)
(* a step that changes nothing of what a stack shows of calls keeps it.    *)
(***************************************************************************)
EXTENDS Messages, FiniteSetTheorems, SequenceTheorems, WellFoundedInduction, TLAPS

-----------------------------------------------------------------------------
(* Frames and stacks.                                                      *)

Frames == [op : {"send", "sleep", "call", "handle"}, msg : Msgs \cup {None},
           request : BOOLEAN, at : Places]

Entry == [msg : Msgs, request : BOOLEAN]

\* Where an operation can be, and about which messages it is.
FrameOK(t, f) ==
  /\ f.op = "send" <=> f.at \in {"count", "signal"}
  /\ f.op = "handle" <=> f.at \in {"pop", "uncount", "body", "catch", "wake"}
  /\ f.at \in {"first", "check", "read"} => f.op = "call"
  /\ f.op \in {"send", "call"} => f.msg \in Msgs /\ From[f.msg] = t
  /\ f.op = "call" => f.msg \in Calls
  /\ f.op = "handle" /\ f.at # "pop" => f.msg \in Msgs /\ To[f.msg] = t
  /\ f.at = "pop" => f.msg = None
  /\ f.at \in {"catch", "wake"} => f.msg \in Calls /\ ~f.request

\* g can be on top of f.
Below(f, g) ==
  /\ f.at \in {"first", "check", "test", "body"}
  /\ f.at \in {"first", "test"} => g.op = "handle"

StackOK(t, s) ==
  \A i \in 1 .. Len(s) : FrameOK(t, s[i]) /\ (i < Len(s) => Below(s[i], s[i + 1]))

\* Where the thread with stack s is.
Spot(s) == IF s = <<>> THEN "none" ELSE Last(s).at

\* A thread with stack s evaluates the call m, or catches its exception.
RunsIn(s, m) == \E i \in 1 .. Len(s) : RunsFrame(s[i], m)

\* What is on a stack that is not empty.
LEMMA TopOfStack ==
  ASSUME NEW t, NEW s \in Seq(Frames), s # <<>>, StackOK(t, s)
  PROVE  /\ Len(s) \in Nat \ {0} /\ Last(s) = s[Len(s)]
         /\ Last(s) \in Frames /\ FrameOK(t, Last(s))
         /\ Spot(s) = Last(s).at
<1>1. Len(s) \in Nat \ {0}
      BY EmptySeq, LenProperties
<1>2. s[Len(s)] \in Frames /\ Len(s) \in 1 .. Len(s)
      BY <1>1, ElementOfSeq
<1> QED BY <1>1, <1>2 DEF Last, StackOK, Spot

\* A stack without its top.
LEMMA FrontElements ==
  ASSUME NEW s \in Seq(Frames), s # <<>>
  PROVE  /\ Front(s) \in Seq(Frames) /\ Len(s) \in Nat \ {0} /\ Len(Front(s)) = Len(s) - 1
         /\ \A i \in 1 .. Len(s) - 1 : Front(s)[i] = s[i]
<1>1. PICK l \in Nat \ {0} : l = Len(s)
      BY EmptySeq, LenProperties
<1>2. 1 \in 1 .. Len(s) + 1 /\ l - 1 \in 1 - 1 .. Len(s)
      BY <1>1
<1>3. /\ SubSeq(s, 1, l - 1) \in Seq(Frames)
      /\ Len(SubSeq(s, 1, l - 1)) = IF 1 <= l - 1 THEN l - 1 - 1 + 1 ELSE 0
      /\ \A i \in 1 .. l - 1 - 1 + 1 : SubSeq(s, 1, l - 1)[i] = s[1 + i - 1]
      BY <1>2, SubSeqProperties
<1>4. Front(s) = SubSeq(s, 1, l - 1)
      BY <1>1 DEF Front
<1>5. Len(Front(s)) = l - 1
      BY <1>1, <1>3, <1>4
<1>6. ASSUME NEW i \in 1 .. l - 1
      PROVE  Front(s)[i] = s[i]
  <2>1. i \in 1 .. l - 1 - 1 + 1 /\ 1 + i - 1 = i
        BY <1>1
  <2> QED BY <2>1, <1>3, <1>4
<1> QED BY <1>1, <1>3, <1>4, <1>5, <1>6

\* The top is taken off: what is below then is code, or an operation that waits
\* for messages to be handled, or one that sends.
LEMMA PopStack ==
  ASSUME NEW t, NEW s \in Seq(Frames), s # <<>>, StackOK(t, s)
  PROVE  /\ Front(s) \in Seq(Frames) /\ StackOK(t, Front(s))
         /\ Spot(Front(s)) \in {"none", "first", "check", "test", "body"}
         /\ Last(s).op # "handle" => Spot(Front(s)) \in {"none", "check", "body"}
         /\ \A m : RunsIn(s, m) <=> RunsIn(Front(s), m) \/ RunsFrame(Last(s), m)
<1>1. PICK l \in Nat \ {0} : l = Len(s)
      BY EmptySeq, LenProperties
<1>2. /\ Front(s) \in Seq(Frames) /\ Len(Front(s)) = l - 1
      /\ \A i \in 1 .. l - 1 : Front(s)[i] = s[i]
      BY <1>1, FrontElements
<1>3. StackOK(t, Front(s))
  <2> SUFFICES ASSUME NEW i \in 1 .. l - 1
               PROVE  FrameOK(t, s[i]) /\ (i < l - 1 => Below(s[i], s[i + 1]))
      BY <1>1, <1>2 DEF StackOK
  <2> QED BY <1>1 DEF StackOK
<1>4. /\ Spot(Front(s)) \in {"none", "first", "check", "test", "body"}
      /\ Last(s).op # "handle" => Spot(Front(s)) \in {"none", "check", "body"}
  <2>1. CASE Front(s) = <<>>
        BY <2>1 DEF Spot
  <2>2. CASE Front(s) # <<>>
    <3>1. l - 1 \in 1 .. l - 1
          BY <1>1, <1>2, <2>2, EmptySeq
    <3>2. Spot(Front(s)) = s[l - 1].at
          BY <1>2, <2>2, <3>1 DEF Spot, Last
    <3>3. l - 1 \in 1 .. Len(s) /\ l - 1 < Len(s) /\ l - 1 + 1 = l
          BY <1>1, <3>1
    <3>4. Below(s[l - 1], s[l])
          BY <3>3 DEF StackOK
    <3>5. Last(s) = s[l]
          BY <1>1 DEF Last
    <3> QED BY <3>2, <3>4, <3>5 DEF Below
  <2> QED BY <2>1, <2>2
<1>5. ASSUME NEW m
      PROVE  RunsIn(s, m) <=> RunsIn(Front(s), m) \/ RunsFrame(Last(s), m)
  <2>1. \A i \in 1 .. l : i \in 1 .. l - 1 \/ i = l
        BY <1>1
  <2>2. 1 .. l - 1 \subseteq 1 .. l /\ l \in 1 .. l /\ Last(s) = s[l]
        BY <1>1 DEF Last
  <2> HIDE DEF RunsFrame
  <2> QED BY <1>1, <1>2, <2>1, <2>2 DEF RunsIn
<1> QED BY <1>2, <1>3, <1>4, <1>5

\* Something is put on the top.
LEMMA PushStack ==
  ASSUME NEW t, NEW s \in Seq(Frames), StackOK(t, s), NEW f \in Frames, FrameOK(t, f),
         s # <<>> => Below(Last(s), f)
  PROVE  /\ Append(s, f) \in Seq(Frames) /\ StackOK(t, Append(s, f))
         /\ Append(s, f) # <<>> /\ Last(Append(s, f)) = f /\ Spot(Append(s, f)) = f.at
         /\ \A m : RunsIn(Append(s, f), m) <=> RunsIn(s, m) \/ RunsFrame(f, m)
<1> DEFINE new == Append(s, f)
<1>1. PICK l \in Nat : l = Len(s)
      BY LenProperties
<1>2. /\ new \in Seq(Frames) /\ Len(new) = l + 1 /\ new # <<>>
      /\ \A i \in 1 .. l : new[i] = s[i]
      /\ new[l + 1] = f
      BY <1>1, AppendProperties
<1>3. l # 0 => Last(s) = s[l] /\ s # <<>>
      BY <1>1, EmptySeq DEF Last
<1> HIDE DEF new
<1>4. StackOK(t, new)
  <2> SUFFICES ASSUME NEW i \in 1 .. l + 1
               PROVE  FrameOK(t, new[i]) /\ (i < l + 1 => Below(new[i], new[i + 1]))
      BY <1>2 DEF StackOK
  <2>1. CASE i = l + 1
        BY <1>1, <1>2, <2>1
  <2>2. CASE i = l
    <3>1. i \in 1 .. Len(s) /\ l # 0
          BY <1>1, <2>2
    <3>2. FrameOK(t, s[i]) /\ Below(s[i], f)
          BY <1>3, <2>2, <3>1 DEF StackOK
    <3>3. new[i] = s[i] /\ new[i + 1] = f
          BY <1>1, <1>2, <2>2, <3>1
    <3> QED BY <3>2, <3>3
  <2>3. CASE i < l
    <3>1. i \in 1 .. Len(s) /\ i < Len(s) /\ i \in 1 .. l /\ i + 1 \in 1 .. l
          BY <1>1, <2>3
    <3>2. FrameOK(t, s[i]) /\ Below(s[i], s[i + 1])
          BY <3>1 DEF StackOK
    <3> QED BY <1>2, <3>1, <3>2
  <2> QED BY <1>1, <2>1, <2>2, <2>3
<1>5. Last(new) = f /\ Spot(new) = f.at
      BY <1>2 DEF Last, Spot
<1>6. ASSUME NEW m
      PROVE  RunsIn(new, m) <=> RunsIn(s, m) \/ RunsFrame(f, m)
  <2>1. \A i \in 1 .. l + 1 : i \in 1 .. l \/ i = l + 1
        BY <1>1
  <2>2. 1 .. l \subseteq 1 .. l + 1 /\ l + 1 \in 1 .. l + 1
        BY <1>1
  <2> HIDE DEF RunsFrame
  <2> QED BY <1>1, <1>2, <2>1, <2>2 DEF RunsIn
<1> QED BY <1>2, <1>4, <1>5, <1>6 DEF new

\* The top is replaced.  What is below a handler can only have a handler on it.
LEMMA SetStack ==
  ASSUME NEW t, NEW s \in Seq(Frames), s # <<>>, StackOK(t, s), NEW f \in Frames, FrameOK(t, f),
         Last(s).op = "handle" => f.op = "handle"
  PROVE  LET new == Append(Front(s), f) IN
         /\ new \in Seq(Frames) /\ StackOK(t, new)
         /\ new # <<>> /\ Last(new) = f /\ Spot(new) = f.at
         /\ \A m : RunsIn(new, m) <=> RunsIn(Front(s), m) \/ RunsFrame(f, m)
<1>1. /\ Front(s) \in Seq(Frames) /\ StackOK(t, Front(s))
      BY PopStack
<1>2. ASSUME Front(s) # <<>>
      PROVE  Below(Last(Front(s)), f)
  <2>1. PICK l \in Nat \ {0} : l = Len(s)
        BY EmptySeq, LenProperties
  <2>2. Len(Front(s)) = l - 1 /\ \A i \in 1 .. l - 1 : Front(s)[i] = s[i]
        BY <2>1, FrontElements
  <2>3. l - 1 \in 1 .. l - 1
        BY <1>1, <1>2, <2>1, <2>2, EmptySeq
  <2>4. Last(Front(s)) = s[l - 1]
        BY <2>2, <2>3 DEF Last
  <2>5. l - 1 \in 1 .. Len(s) /\ l - 1 < Len(s) /\ l - 1 + 1 = l
        BY <2>1, <2>3
  <2>6. Below(s[l - 1], s[l]) /\ Last(s) = s[l]
        BY <2>1, <2>5 DEF StackOK, Last
  <2> QED BY <2>4, <2>6 DEF Below
<1> QED BY <1>1, <1>2, PushStack

-----------------------------------------------------------------------------
(* The invariant.                                                          *)

\* The types of what this invariant is about.
Types ==
  /\ queue \in [Threads -> Seq(Entry)]
  /\ signaled \in [Threads -> BOOLEAN]
  /\ sleepers \subseteq Threads
  /\ frames \in [Threads -> Seq(Frames)]
  /\ exception \in [Threads -> Calls \cup {None}]
  /\ front \in {"idle", "count", "awake", "uncount"} \cup Threads
  /\ reasons \in Int
  /\ overlooked \subseteq Threads

Stacks == \A t \in Threads : StackOK(t, frames[t])

Addressed == \A t \in Threads : \A i \in 1 .. Len(queue[t]) : To[queue[t][i].msg] = t

\* The thread with stack s is about to wake u up for a message.
Tells(s, u) == Spot(s) \in {"count", "signal"} /\ To[Last(s).msg] = u

Told(u) == \E v \in Threads : Tells(frames[v], u)

\* A thread with messages does not go on to sleep: it is going to be signaled,
\* or is signaled and will notice that.
WillLook(t) ==
  /\ Spot(frames[t]) \in {"test", "enter", "event", "asleep"}
  /\ queue[t] # <<>>
  => Told(t) \/ t \in overlooked \/ (signaled[t] /\ Spot(frames[t]) # "asleep")

\* The thread that aborts everything finds who sleeps, or has signaled it.
Found(t) ==
  /\ Spot(frames[t]) = "event"  => t \in sleepers \/ front = t \/ signaled[t]
  /\ Spot(frames[t]) = "asleep" => t \in sleepers \/ front = t

\* The exception of a thread belongs to a call that it evaluates.
Inside(t) == exception[t] # None => RunsIn(frames[t], exception[t])

IInv ==
  /\ Types /\ Stacks /\ Addressed
  /\ \A t \in Threads : WillLook(t) /\ Found(t) /\ Inside(t)
  /\ IsFiniteSet(Entries) /\ ReasonsExact

-----------------------------------------------------------------------------
(* How the stacks change in a step.                                        *)

\* u does nothing, but may be woken up.
Keeps(u) ==
  /\ StackOK(u, frames'[u])
  /\ \/ Spot(frames'[u]) = Spot(frames[u])
     \/ Spot(frames[u]) = "asleep" /\ Spot(frames'[u]) = "leave"
  /\ \A m : RunsIn(frames'[u], m) <=> RunsIn(frames[u], m)
  /\ \A v : Tells(frames'[u], v) <=> Tells(frames[u], v)

\* t goes to the place to, and nobody else does anything.
Moves(t, to) ==
  /\ frames' \in [Threads -> Seq(Frames)]
  /\ StackOK(t, frames'[t])
  /\ Spot(frames'[t]) = to
  /\ \A u \in Threads \ {t} : Keeps(u)

\* The calls that t evaluates are still there.
RunsKept(t) == \A m \in Calls : RunsIn(frames[t], m) => RunsIn(frames'[t], m)

\* Being at a place, in terms of the stack.
LEMMA AtPlaces ==
  ASSUME NEW t \in Threads, Types, Stacks
  PROVE  /\ \A w : w # "none" => (AtTop(t, w) <=> Spot(frames[t]) = w)
         /\ \A o, w : In(t, o, w) => /\ frames[t] # <<>> /\ Spot(frames[t]) = w
                                     /\ Top(t) \in Frames /\ FrameOK(t, Top(t))
                                     /\ Top(t).op = o /\ Top(t).at = w /\ Top(t) = Last(frames[t])
         /\ \A w : AtTop(t, w) => /\ frames[t] # <<>> /\ Spot(frames[t]) = w
                                  /\ Top(t) \in Frames /\ FrameOK(t, Top(t))
                                  /\ Top(t).at = w /\ Top(t) = Last(frames[t])
<1>1. frames[t] \in Seq(Frames) /\ StackOK(t, frames[t])
      BY DEF Types, Stacks
<1>2. frames[t] # <<>> => Last(frames[t]) \in Frames /\ FrameOK(t, Last(frames[t]))
      BY <1>1, TopOfStack
<1> QED BY <1>2 DEF AtTop, In, Top, Spot

\* Who is going to wake u up.
LEMMA AnnouncedTold ==
  ASSUME NEW u \in Threads, Types, Stacks
  PROVE  Announced(u) <=> Told(u)
<1>1. ASSUME NEW v \in Threads
      PROVE  /\ frames[v] # <<>> => Last(frames[v]) \in Frames /\ FrameOK(v, Last(frames[v]))
             /\ frames[v] = <<>> => Spot(frames[v]) = "none"
             /\ frames[v] # <<>> => Spot(frames[v]) = Last(frames[v]).at
  <2>1. frames[v] \in Seq(Frames) /\ StackOK(v, frames[v])
        BY DEF Types, Stacks
  <2> QED BY <2>1, TopOfStack DEF Spot
<1>2. ASSUME NEW v \in Threads
      PROVE  (frames[v] # <<>> /\ Top(v).op = "send" /\ To[Top(v).msg] = u) <=> Tells(frames[v], u)
      BY <1>1 DEF Tells, FrameOK, Top
<1> QED BY <1>2 DEF Announced, Told

\* A thread that is woken up leaves its event, everybody else goes on.
LEMMA WokenKeeps ==
  ASSUME NEW u \in Threads, Types, Stacks, frames'[u] = Woken(u)
  PROVE  Keeps(u) /\ frames'[u] \in Seq(Frames) /\ Spot(frames'[u]) # "asleep"
<1>1. frames[u] \in Seq(Frames) /\ StackOK(u, frames[u])
      BY DEF Types, Stacks
<1>2. CASE AtTop(u, "asleep")
  <2>1. /\ frames[u] # <<>> /\ Spot(frames[u]) = "asleep" /\ Top(u) = Last(frames[u])
        /\ Top(u) \in Frames /\ FrameOK(u, Top(u)) /\ Top(u).at = "asleep"
        BY <1>2, AtPlaces
  <2>2. PICK f : f = [Top(u) EXCEPT !.at = "leave"]
        OBVIOUS
  <2>3. /\ f \in Frames /\ f.at = "leave" /\ f.op = Top(u).op /\ f.msg = Top(u).msg
        BY <2>1, <2>2 DEF Frames, Places
  <2>4. FrameOK(u, f)
        BY <2>1, <2>3 DEF FrameOK
  <2>5. frames'[u] = Append(Front(frames[u]), f)
        BY <1>2, <2>2 DEF Woken, Going
  <2>6. /\ frames'[u] \in Seq(Frames) /\ StackOK(u, frames'[u]) /\ Spot(frames'[u]) = "leave"
        /\ \A m : RunsIn(frames'[u], m) <=> RunsIn(Front(frames[u]), m) \/ RunsFrame(f, m)
    <3> HIDE DEF StackOK, Spot, RunsIn, FrameOK, RunsFrame
    <3> QED BY <1>1, <2>1, <2>3, <2>4, <2>5, SetStack
  <2>7. \A m : RunsIn(frames[u], m) <=> RunsIn(Front(frames[u]), m) \/ RunsFrame(Last(frames[u]), m)
        BY <1>1, <2>1, PopStack
  <2>8. \A m : ~RunsFrame(f, m) /\ ~RunsFrame(Last(frames[u]), m)
        BY <2>1, <2>3 DEF RunsFrame
  <2> QED BY <2>1, <2>6, <2>7, <2>8 DEF Keeps, Tells
<1>3. CASE ~AtTop(u, "asleep")
  <2>1. frames'[u] = frames[u] /\ Spot(frames[u]) # "asleep"
        BY <1>3, AtPlaces DEF Woken
  <2> QED BY <1>1, <2>1 DEF Keeps
<1> QED BY <1>2, <1>3

LEMMA RestKeeps ==
  ASSUME NEW u \in Threads, Stacks, frames'[u] = frames[u]
  PROVE  Keeps(u)
BY DEF Keeps, Stacks

\* One thread changes its stack to s.
LEMMA OneMoves ==
  ASSUME NEW t \in Threads, Types, Stacks, NEW s \in Seq(Frames), StackOK(t, s),
         frames' = [frames EXCEPT ![t] = s]
  PROVE  Moves(t, Spot(s)) /\ frames'[t] = s
<1>1. frames' \in [Threads -> Seq(Frames)] /\ frames'[t] = s
      BY DEF Types
<1>2. ASSUME NEW u \in Threads \ {t} PROVE Keeps(u)
  <2>1. frames'[u] = frames[u]
        BY DEF Types
  <2> QED BY <2>1, RestKeeps
<1> QED BY <1>1, <1>2 DEF Moves

\* One thread changes its stack to s, and wakes up u.
LEMMA OneMovesAndWakes ==
  ASSUME NEW t \in Threads, NEW u \in Threads, t # u, Types, Stacks,
         NEW s \in Seq(Frames), StackOK(t, s),
         frames' = [frames EXCEPT ![t] = s, ![u] = Woken(u)]
  PROVE  Moves(t, Spot(s)) /\ frames'[t] = s /\ Spot(frames'[u]) # "asleep"
<1>1. frames'[u] = Woken(u) /\ frames'[t] = s
      BY DEF Types
<1>2. Keeps(u) /\ frames'[u] \in Seq(Frames) /\ Spot(frames'[u]) # "asleep"
      BY <1>1, WokenKeeps
<1>3. ASSUME NEW v \in Threads \ {t, u} PROVE Keeps(v)
  <2>1. frames'[v] = frames[v]
        BY DEF Types
  <2> QED BY <2>1, RestKeeps
<1>4. frames' \in [Threads -> Seq(Frames)]
      BY <1>1, <1>2 DEF Types
<1> QED BY <1>1, <1>2, <1>3, <1>4 DEF Moves

\* The operation on the top goes on.
LEMMA GoesOn ==
  ASSUME NEW t \in Threads, Types, Stacks, frames[t] # <<>>, NEW where \in Places,
         FrameOK(t, [Top(t) EXCEPT !.at = where])
  PROVE  /\ Going(t, where) \in Seq(Frames) /\ StackOK(t, Going(t, where))
         /\ Going(t, where) # <<>> /\ Spot(Going(t, where)) = where
         /\ Last(Going(t, where)) = [Top(t) EXCEPT !.at = where]
         /\ where \in {"body", "catch"} \/ ~(\E m : RunsFrame(Top(t), m))
              => \A m : RunsIn(frames[t], m) => RunsIn(Going(t, where), m)
<1>1. frames[t] \in Seq(Frames) /\ StackOK(t, frames[t])
      BY DEF Types, Stacks
<1>2. Last(frames[t]) \in Frames /\ FrameOK(t, Last(frames[t])) /\ Top(t) = Last(frames[t])
      BY <1>1, TopOfStack DEF Top
<1>3. PICK f : f = [Top(t) EXCEPT !.at = where]
      OBVIOUS
<1>4. /\ f \in Frames /\ f.at = where /\ f.op = Top(t).op /\ f.msg = Top(t).msg
      /\ f.request = Top(t).request /\ FrameOK(t, f)
      BY <1>2, <1>3 DEF Frames
<1>5. Going(t, where) = Append(Front(frames[t]), f)
      BY <1>3 DEF Going
<1>6. /\ Going(t, where) \in Seq(Frames) /\ StackOK(t, Going(t, where))
      /\ Going(t, where) # <<>> /\ Last(Going(t, where)) = f /\ Spot(Going(t, where)) = where
      /\ \A m : RunsIn(Going(t, where), m) <=> RunsIn(Front(frames[t]), m) \/ RunsFrame(f, m)
  <2> HIDE DEF StackOK, Spot, RunsIn, FrameOK, RunsFrame
  <2> QED BY <1>1, <1>2, <1>4, <1>5, SetStack
<1>7. \A m : RunsIn(frames[t], m) <=> RunsIn(Front(frames[t]), m) \/ RunsFrame(Top(t), m)
      BY <1>1, <1>2, PopStack
<1>8. where \in {"body", "catch"} => \A m : RunsFrame(Top(t), m) => RunsFrame(f, m)
      BY <1>4 DEF RunsFrame
<1> QED BY <1>3, <1>6, <1>7, <1>8

\* The operation on the top ends.
LEMMA EndsTop ==
  ASSUME NEW t \in Threads, Types, Stacks, frames[t] # <<>>
  PROVE  /\ Front(frames[t]) \in Seq(Frames) /\ StackOK(t, Front(frames[t]))
         /\ Spot(Front(frames[t])) \in {"none", "first", "check", "test", "body"}
         /\ Top(t).op # "handle" => Spot(Front(frames[t])) \in {"none", "check", "body"}
         /\ ~(\E m : RunsFrame(Top(t), m))
              => \A m : RunsIn(frames[t], m) => RunsIn(Front(frames[t]), m)
<1>1. frames[t] \in Seq(Frames) /\ StackOK(t, frames[t]) /\ Top(t) = Last(frames[t])
      BY DEF Types, Stacks, Top
<1> QED BY <1>1, PopStack

\* The operation on the top is followed by another one.
LEMMA Follows ==
  ASSUME NEW t \in Threads, Types, Stacks, frames[t] # <<>>, NEW f \in Frames, FrameOK(t, f),
         Top(t).op = "handle" => f.op = "handle"
  PROVE  LET s == Append(Front(frames[t]), f) IN
         /\ s \in Seq(Frames) /\ StackOK(t, s)
         /\ s # <<>> /\ Spot(s) = f.at /\ Last(s) = f
         /\ \A m : RunsIn(s, m) <=> RunsIn(Front(frames[t]), m) \/ RunsFrame(f, m)
         /\ ~(\E m : RunsFrame(Top(t), m)) => \A m : RunsIn(frames[t], m) => RunsIn(s, m)
<1>1. frames[t] \in Seq(Frames) /\ StackOK(t, frames[t]) /\ Top(t) = Last(frames[t])
      BY DEF Types, Stacks, Top
<1> HIDE DEF StackOK, Spot, RunsIn, FrameOK, RunsFrame
<1>2. LET s == Append(Front(frames[t]), f) IN
         /\ s \in Seq(Frames) /\ StackOK(t, s)
         /\ s # <<>> /\ Spot(s) = f.at /\ Last(s) = f
         /\ \A m : RunsIn(s, m) <=> RunsIn(Front(frames[t]), m) \/ RunsFrame(f, m)
      BY <1>1, SetStack
<1>3. \A m : RunsIn(frames[t], m) <=> RunsIn(Front(frames[t]), m) \/ RunsFrame(Top(t), m)
      BY <1>1, PopStack, ZenonT(30)
<1> QED BY <1>2, <1>3

\* Code, or the operation on the top, begins another one.
LEMMA Begins ==
  ASSUME NEW t \in Threads, Types, Stacks, NEW f \in Frames, FrameOK(t, f),
         \/ frames[t] = <<>>
         \/ In(t, "handle", "body")
  PROVE  LET s == Append(frames[t], f) IN
         /\ s \in Seq(Frames) /\ StackOK(t, s)
         /\ s # <<>> /\ Spot(s) = f.at /\ Last(s) = f
         /\ \A m : RunsIn(frames[t], m) => RunsIn(s, m)
<1>1. frames[t] \in Seq(Frames) /\ StackOK(t, frames[t])
      BY DEF Types, Stacks
<1>2. frames[t] # <<>> => Below(Last(frames[t]), f)
      BY DEF In, Top, Below
<1> HIDE DEF StackOK, Spot, RunsIn, FrameOK, RunsFrame, Below
<1> QED BY <1>1, <1>2, PushStack

\* A thread begins to handle messages on top of what it does.
LEMMA BeginsToHandle ==
  ASSUME NEW t \in Threads, NEW s \in Seq(Frames), StackOK(t, s),
         Spot(s) \in {"none", "first", "check", "test", "body"}
  PROVE  /\ Append(s, Handling) \in Seq(Frames) /\ StackOK(t, Append(s, Handling))
         /\ Spot(Append(s, Handling)) = "pop"
         /\ \A m : RunsIn(s, m) => RunsIn(Append(s, Handling), m)
<1>1. PICK h : h = Handling
      OBVIOUS
<1>2. h \in Frames /\ FrameOK(t, h) /\ h.op = "handle" /\ h.at = "pop"
      BY <1>1 DEF Handling, Frame, Frames, Places, FrameOK
<1>3. ASSUME s # <<>>
      PROVE  Below(Last(s), h)
  <2>1. Last(s).at \in {"first", "check", "test", "body"}
        BY <1>3, TopOfStack DEF Frames, Places
  <2> QED BY <1>2, <2>1 DEF Below
<1>4. /\ Append(s, h) \in Seq(Frames) /\ StackOK(t, Append(s, h))
      /\ Spot(Append(s, h)) = "pop"
      /\ \A m : RunsIn(s, m) => RunsIn(Append(s, h), m)
  <2> HIDE DEF StackOK, Spot, RunsIn, FrameOK, RunsFrame, Below
  <2> QED BY <1>2, <1>3, PushStack
<1> QED BY <1>1, <1>4

-----------------------------------------------------------------------------
(* What is counted.                                                        *)

\* A set that gains or loses at most one element.
LEMMA CountChange ==
  ASSUME NEW All, IsFiniteSet(All), NEW S \in SUBSET All, NEW T \in SUBSET All, NEW x \in All,
         \A y \in All \ {x} : y \in S <=> y \in T
  PROVE  /\ Cardinality(S) \in Nat /\ Cardinality(T) \in Nat
         /\ Cardinality(T) + B(x \in S) = Cardinality(S) + B(x \in T)
<1>1. IsFiniteSet(S) /\ IsFiniteSet(T)
      BY FS_Subset
<1>2. Cardinality(S) \in Nat /\ Cardinality(T) \in Nat
      BY <1>1, FS_CardinalityType
<1>3. CASE x \in T /\ x \notin S
  <2>1. T = S \cup {x}
        BY <1>3
  <2>2. Cardinality(T) = Cardinality(S) + 1
        BY <1>1, <1>3, <2>1, FS_AddElement
  <2> QED BY <1>2, <1>3, <2>2 DEF B
<1>4. CASE x \in S /\ x \notin T
  <2>1. S = T \cup {x}
        BY <1>4
  <2>2. Cardinality(S) = Cardinality(T) + 1
        BY <1>1, <1>4, <2>1, FS_AddElement
  <2> QED BY <1>2, <1>4, <2>2 DEF B
<1>5. CASE x \in S <=> x \in T
  <2>1. S = T
        BY <1>5
  <2> QED BY <1>2, <2>1
<1> QED BY <1>2, <1>3, <1>4, <1>5

\* The threads between changing a queue and counting that.
LEMMA TopsStep ==
  ASSUME NEW t \in Threads, NEW to, Moves(t, to), NEW w \in {"count", "uncount"}
  PROVE  /\ Cardinality(TopsAt(w)) \in Nat /\ Cardinality(TopsAt(w)') \in Nat
         /\ Cardinality(TopsAt(w)') + B(Spot(frames[t]) = w) = Cardinality(TopsAt(w)) + B(to = w)
<1>1. ASSUME NEW u \in Threads
      PROVE  /\ u \in TopsAt(w) <=> Spot(frames[u]) = w
             /\ u \in TopsAt(w)' <=> Spot(frames'[u]) = w
      BY DEF TopsAt, AtTop, Top, Spot
<1>2. TopsAt(w) \in SUBSET Threads /\ TopsAt(w)' \in SUBSET Threads
      BY DEF TopsAt
<1>3. \A u \in Threads \ {t} : u \in TopsAt(w) <=> u \in TopsAt(w)'
      BY <1>1 DEF Moves, Keeps
<1>4. t \in TopsAt(w) <=> Spot(frames[t]) = w
      BY <1>1
<1>5. t \in TopsAt(w)' <=> to = w
      BY <1>1 DEF Moves
<1>6. /\ Cardinality(TopsAt(w)) \in Nat /\ Cardinality(TopsAt(w)') \in Nat
      /\ Cardinality(TopsAt(w)') + B(t \in TopsAt(w)) = Cardinality(TopsAt(w)) + B(t \in TopsAt(w)')
      BY <1>2, <1>3, CountChange, MessagesAssumption
<1> QED BY <1>4, <1>5, <1>6 DEF B

Thrown == {t \in Threads : exception[t] # None}

LEMMA ThrownStep ==
  ASSUME NEW t \in Threads, \A u \in Threads \ {t} : exception'[u] = exception[u]
  PROVE  /\ Cardinality(Thrown) \in Nat /\ Cardinality(Thrown') \in Nat
         /\ Cardinality(Thrown') + B(exception[t] # None)
              = Cardinality(Thrown) + B(exception'[t] # None)
<1>1. Thrown \in SUBSET Threads /\ Thrown' \in SUBSET Threads
      BY DEF Thrown
<1>2. \A u \in Threads \ {t} : u \in Thrown <=> u \in Thrown'
      BY DEF Thrown
<1>3. t \in Thrown <=> exception[t] # None
      BY DEF Thrown
<1>4. t \in Thrown' <=> exception'[t] # None
      BY DEF Thrown
<1>5. /\ Cardinality(Thrown) \in Nat /\ Cardinality(Thrown') \in Nat
      /\ Cardinality(Thrown') + B(t \in Thrown) = Cardinality(Thrown) + B(t \in Thrown')
      BY <1>1, <1>2, CountChange, MessagesAssumption
<1> QED BY <1>3, <1>4, <1>5 DEF B

\* A message is put into a queue.
LEMMA PushEntry ==
  ASSUME Types, Addressed, IsFiniteSet(Entries), NEW m \in Msgs, NEW r \in BOOLEAN, Push(m, r)
  PROVE  /\ queue' \in [Threads -> Seq(Entry)] /\ Addressed'
         /\ \A u \in Threads \ {To[m]} : queue'[u] = queue[u]
         /\ IsFiniteSet(Entries') /\ Cardinality(Entries) \in Nat
         /\ Cardinality(Entries') = Cardinality(Entries) + 1
<1> DEFINE u == To[m]
<1>1. PICK e : e = [msg |-> m, request |-> r]
      OBVIOUS
<1>2. e \in Entry /\ e.msg = m /\ u \in Threads
      BY <1>1, MessagesAssumption DEF Entry
<1>3. PICK l \in Nat : l = Len(queue[u])
      BY <1>2, LenProperties DEF Types
<1>4. /\ queue' = [queue EXCEPT ![u] = Append(queue[u], e)]
      /\ queue'[u] = Append(queue[u], e)
      /\ \A v \in Threads \ {u} : queue'[v] = queue[v]
      BY <1>1, <1>2 DEF Push, Types
<1>5. /\ queue'[u] \in Seq(Entry) /\ Len(queue'[u]) = l + 1
      /\ \A i \in 1 .. l : queue'[u][i] = queue[u][i]
      /\ queue'[u][l + 1] = e
      BY <1>2, <1>3, <1>4, AppendProperties DEF Types
<1>6. queue' \in [Threads -> Seq(Entry)]
      BY <1>4, <1>5 DEF Types
<1>7. Addressed'
  <2> SUFFICES ASSUME NEW v \in Threads, NEW i \in 1 .. Len(queue'[v])
               PROVE  To[queue'[v][i].msg] = v
      BY DEF Addressed
  <2>1. CASE v # u
        BY <1>4, <2>1 DEF Addressed
  <2>2. CASE v = u /\ i = l + 1
        BY <1>2, <1>5, <2>2
  <2>3. CASE v = u /\ i # l + 1
        BY <1>2, <1>3, <1>5, <2>3 DEF Addressed
  <2> QED BY <2>1, <2>2, <2>3
<1>8. \A v \in Threads : DOMAIN queue[v] = 1 .. Len(queue[v]) /\ DOMAIN queue'[v] = 1 .. Len(queue'[v])
      BY <1>6, LenProperties DEF Types
<1>9. Entries' = Entries \cup {<<u, l + 1>>}
  <2>1. DOMAIN queue'[u] = DOMAIN queue[u] \cup {l + 1}
        BY <1>2, <1>3, <1>5, <1>8
  <2>2. Entries' = UNION {{v} \X DOMAIN queue'[v] : v \in Threads}
        BY DEF Entries
  <2>3. ASSUME NEW x
        PROVE  x \in UNION {{v} \X DOMAIN queue'[v] : v \in Threads}
                 <=> x \in (UNION {{v} \X DOMAIN queue[v] : v \in Threads}) \cup {<<u, l + 1>>}
        BY <1>2, <1>4, <2>1
  <2> QED BY <2>2, <2>3 DEF Entries
<1>10. <<u, l + 1>> \notin Entries
  <2>1. l + 1 \notin DOMAIN queue[u]
        BY <1>2, <1>3, <1>8
  <2> QED BY <2>1 DEF Entries
<1>11. IsFiniteSet(Entries') /\ Cardinality(Entries') = Cardinality(Entries) + 1
      BY <1>9, <1>10, FS_AddElement
<1>12. Cardinality(Entries) \in Nat
      BY FS_CardinalityType
<1> QED BY <1>4, <1>6, <1>7, <1>11, <1>12

\* A message is taken out of a queue.
LEMMA PopEntry ==
  ASSUME Types, Addressed, IsFiniteSet(Entries), NEW t \in Threads, queue[t] # <<>>,
         queue' = [queue EXCEPT ![t] = Tail(@)]
  PROVE  /\ queue' \in [Threads -> Seq(Entry)] /\ Addressed'
         /\ \A u \in Threads \ {t} : queue'[u] = queue[u]
         /\ Head(queue[t]) \in Entry /\ To[Head(queue[t]).msg] = t
         /\ IsFiniteSet(Entries') /\ Cardinality(Entries') \in Nat
         /\ Cardinality(Entries) = Cardinality(Entries') + 1
<1>1. queue[t] \in Seq(Entry)
      BY DEF Types
<1>2. PICK l \in Nat \ {0} : l = Len(queue[t])
      BY <1>1, EmptySeq, LenProperties
<1>3. /\ queue'[t] = Tail(queue[t])
      /\ \A u \in Threads \ {t} : queue'[u] = queue[u]
      BY DEF Types
<1>4. /\ Head(queue[t]) \in Entry /\ Head(queue[t]) = queue[t][1]
      /\ queue'[t] \in Seq(Entry) /\ Len(queue'[t]) = l - 1
      /\ \A i \in 1 .. l - 1 : queue'[t][i] = queue[t][i + 1]
  <2>1. /\ Head(queue[t]) \in Entry
        /\ Tail(queue[t]) \in Seq(Entry) /\ Len(Tail(queue[t])) = Len(queue[t]) - 1
        /\ \A i \in 1 .. Len(Tail(queue[t])) : Tail(queue[t])[i] = queue[t][i + 1]
        BY <1>1, HeadTailProperties
  <2>2. Head(queue[t]) = queue[t][1]
        BY <1>1
  <2>3. Len(queue'[t]) = l - 1
        BY <1>2, <1>3, <2>1
  <2> QED BY <1>3, <2>1, <2>2, <2>3
<1>5. queue' \in [Threads -> Seq(Entry)]
      BY <1>3, <1>4 DEF Types
<1>6. Addressed'
  <2> SUFFICES ASSUME NEW v \in Threads, NEW i \in 1 .. Len(queue'[v])
               PROVE  To[queue'[v][i].msg] = v
      BY DEF Addressed
  <2>1. CASE v # t
        BY <1>3, <2>1 DEF Addressed
  <2>2. CASE v = t
    <3>1. i \in 1 .. l - 1 /\ i + 1 \in 1 .. Len(queue[t])
          BY <1>2, <1>4, <2>2
    <3> QED BY <1>4, <2>2, <3>1 DEF Addressed
  <2> QED BY <2>1, <2>2
<1>7. To[Head(queue[t]).msg] = t
      BY <1>2, <1>4 DEF Addressed
<1>8. \A v \in Threads : DOMAIN queue[v] = 1 .. Len(queue[v]) /\ DOMAIN queue'[v] = 1 .. Len(queue'[v])
      BY <1>5, LenProperties DEF Types
<1>9. Entries = Entries' \cup {<<t, l>>}
  <2>1. DOMAIN queue[t] = DOMAIN queue'[t] \cup {l}
        BY <1>2, <1>4, <1>8
  <2>2. Entries' = UNION {{v} \X DOMAIN queue'[v] : v \in Threads}
        BY DEF Entries
  <2>3. ASSUME NEW x
        PROVE  x \in UNION {{v} \X DOMAIN queue[v] : v \in Threads}
                 <=> x \in (UNION {{v} \X DOMAIN queue'[v] : v \in Threads}) \cup {<<t, l>>}
        BY <1>3, <2>1
  <2> QED BY <2>2, <2>3 DEF Entries
<1>10. <<t, l>> \notin Entries'
  <2>1. l \notin DOMAIN queue'[t]
        BY <1>2, <1>4, <1>8
  <2> QED BY <2>1 DEF Entries
<1>11. IsFiniteSet(Entries')
      BY <1>9, FS_Subset
<1>12. Cardinality(Entries) = Cardinality(Entries') + 1 /\ Cardinality(Entries') \in Nat
      BY <1>9, <1>10, <1>11, FS_AddElement, FS_CardinalityType
<1> QED BY <1>3, <1>4, <1>5, <1>6, <1>7, <1>11, <1>12

-----------------------------------------------------------------------------
(* What a step has to show.                                                *)

\* What a step of t leaves to the other threads.
Leaves(t) ==
  /\ signaled' \in [Threads -> BOOLEAN]
  /\ sleepers' \subseteq Threads /\ overlooked' \subseteq Threads
  /\ front' = front \/ (front = t /\ front' = "awake")
  /\ \A u \in Threads \ {t} :
       /\ signaled[u] => signaled'[u]
       /\ u \in sleepers => u \in sleepers'
       /\ u \in overlooked => u \in overlooked'
       /\ exception'[u] = exception[u]
       /\ queue'[u] = queue[u] \/ Tells(frames'[t], u)
       /\ Tells(frames[t], u) =>
            Tells(frames'[t], u) \/ (signaled'[u] /\ Spot(frames'[u]) # "asleep")

\* The other threads keep the invariant.
LEMMA StepKeeps ==
  ASSUME IInv, NEW t \in Threads, NEW to, Moves(t, to), Leaves(t),
         queue' \in [Threads -> Seq(Entry)], exception' \in [Threads -> Calls \cup {None}],
         reasons' \in Int, Addressed', IsFiniteSet(Entries'), ReasonsExact',
         WillLook(t)', Found(t)', Inside(t)'
  PROVE  IInv'
<1>1. Types'
      BY DEF IInv, Types, Moves, Leaves
<1>2. Stacks'
      BY DEF Stacks, Moves, Keeps
<1> SUFFICES ASSUME NEW u \in Threads \ {t}
             PROVE  WillLook(u)' /\ Found(u)' /\ Inside(u)'
      BY <1>1, <1>2 DEF IInv
<1>3. WillLook(u) /\ Found(u) /\ Inside(u) /\ Keeps(u)
      BY DEF IInv, Moves
<1>4. Told(u) => Told(u)' \/ (signaled'[u] /\ Spot(frames'[u]) # "asleep")
  <2> SUFFICES ASSUME NEW v \in Threads, Tells(frames[v], u)
               PROVE  Told(u)' \/ (signaled'[u] /\ Spot(frames'[u]) # "asleep")
      BY DEF Told
  <2>1. CASE v = t
        BY <2>1 DEF Leaves, Told
  <2>2. CASE v # t
        BY <2>2 DEF Moves, Keeps, Told
  <2> QED BY <2>1, <2>2
<1>5. Tells(frames'[t], u) => Told(u)'
      BY DEF Told
<1>6. WillLook(u)'
      BY <1>3, <1>4, <1>5 DEF WillLook, Keeps, Leaves
<1>7. Found(u)'
      BY <1>3 DEF Found, Keeps, Leaves
<1>8. Inside(u)'
      BY <1>3 DEF Inside, Keeps, Leaves
<1> QED BY <1>6, <1>7, <1>8

\* A place where a thread does not go to sleep.
LEMMA AwakePlace ==
  ASSUME NEW t \in Threads, NEW to, Moves(t, to), to \notin {"test", "enter", "event", "asleep"}
  PROVE  WillLook(t)' /\ Found(t)'
BY DEF Moves, WillLook, Found

\* A step that counts nothing.
LEMMA QuietStep ==
  ASSUME IInv, NEW t \in Threads, NEW to, Moves(t, to), Leaves(t), RunsKept(t),
         Spot(frames[t]) \notin {"count", "uncount"}, to \notin {"count", "uncount"},
         UNCHANGED <<queue, exception, aborting, reasons>>,
         WillLook(t)', Found(t)'
  PROVE  IInv'
<1>1. /\ queue' \in [Threads -> Seq(Entry)] /\ exception' \in [Threads -> Calls \cup {None}]
      /\ reasons' \in Int /\ Addressed' /\ IsFiniteSet(Entries')
      BY DEF IInv, Types, Addressed, Entries
<1>2. /\ Cardinality(TopsAt("count")') + B(Spot(frames[t]) = "count")
           = Cardinality(TopsAt("count")) + B(to = "count")
      /\ Cardinality(TopsAt("uncount")') + B(Spot(frames[t]) = "uncount")
           = Cardinality(TopsAt("uncount")) + B(to = "uncount")
      /\ Cardinality(TopsAt("count")) \in Nat /\ Cardinality(TopsAt("uncount")) \in Nat
      /\ Cardinality(TopsAt("count")') \in Nat /\ Cardinality(TopsAt("uncount")') \in Nat
      BY TopsStep
<1>3. /\ Cardinality(TopsAt("count")') = Cardinality(TopsAt("count"))
      /\ Cardinality(TopsAt("uncount")') = Cardinality(TopsAt("uncount"))
      BY <1>2 DEF B
<1>4. Entries' = Entries
      BY DEF Entries
<1>5. ReasonsExact'
  <2>1. (front' = "count" <=> front = "count") /\ (front' = "uncount" <=> front = "uncount")
        BY MessagesAssumption DEF Leaves
  <2>2. B(front' = "count") = B(front = "count") /\ B(front' = "uncount") = B(front = "uncount")
        BY <2>1 DEF B
  <2> QED BY <1>3, <1>4, <2>2 DEF IInv, ReasonsExact
<1>6. Inside(t)'
      BY DEF IInv, Types, Inside, RunsKept
<1> QED BY <1>1, <1>5, <1>6, StepKeeps

\* A step in which t alone changes its stack, to s, and which counts nothing.
LEMMA QuietMove ==
  ASSUME IInv, NEW t \in Threads, NEW s \in Seq(Frames), StackOK(t, s),
         frames' = [frames EXCEPT ![t] = s],
         Spot(frames[t]) \notin {"count", "signal", "uncount"}, Spot(s) \notin {"count", "uncount"},
         \A m \in Calls : RunsIn(frames[t], m) => RunsIn(s, m),
         UNCHANGED <<queue, exception, aborting, reasons, front>>,
         signaled' \in [Threads -> BOOLEAN], sleepers' \subseteq Threads, overlooked' \subseteq Threads,
         \A u \in Threads \ {t} : /\ signaled'[u] = signaled[u]
                                  /\ u \in sleepers' <=> u \in sleepers
                                  /\ u \in overlooked' <=> u \in overlooked,
         Spot(s) \in {"test", "enter", "event", "asleep"} /\ queue[t] # <<>>
           => Told(t) \/ t \in overlooked' \/ (signaled'[t] /\ Spot(s) # "asleep"),
         Spot(s) = "event" => t \in sleepers' \/ front = t \/ signaled'[t],
         Spot(s) = "asleep" => t \in sleepers' \/ front = t
  PROVE  IInv'
<1>1. Moves(t, Spot(s)) /\ frames'[t] = s
      BY OneMoves DEF IInv
<1>2. Leaves(t)
      BY DEF Leaves, Tells
<1>3. RunsKept(t)
      BY <1>1 DEF RunsKept
<1>4. Told(t) => Told(t)'
  <2> SUFFICES ASSUME NEW v \in Threads, Tells(frames[v], t)
               PROVE  Told(t)'
      BY DEF Told
  <2>1. v # t
        BY DEF Tells
  <2> QED BY <1>1, <2>1 DEF Moves, Keeps, Told
<1>5. WillLook(t)' /\ Found(t)'
      BY <1>1, <1>4 DEF WillLook, Found
<1> QED BY <1>1, <1>2, <1>3, <1>5, QuietStep

-----------------------------------------------------------------------------
(* Sleeping.                                                               *)

\* What goes on, before a step and after it.
LEMMA IInvTypes ==
  ASSUME IInv
  PROVE  /\ Types /\ Stacks
         /\ signaled \in [Threads -> BOOLEAN] /\ sleepers \subseteq Threads
         /\ overlooked \subseteq Threads /\ frames \in [Threads -> Seq(Frames)]
BY DEF IInv, Types

\* A frame that goes on is of the same operation.
LEMMA SameFrame ==
  ASSUME NEW f \in Frames, NEW where \in Places
  PROVE  LET g == [f EXCEPT !.at = where] IN
         /\ g \in Frames /\ g.at = where /\ g.op = f.op /\ g.msg = f.msg /\ g.request = f.request
BY DEF Frames

LEMMA DozeStep ==
  ASSUME IInv, NEW t \in Threads, Doze(t)
  PROVE  IInv'
<1>1. /\ frames[t] # <<>> /\ Spot(frames[t]) = "test"
      /\ Top(t) \in Frames /\ FrameOK(t, Top(t)) /\ Top(t).at = "test"
      BY IInvTypes, AtPlaces DEF Doze
<1>2. PICK s : s = Going(t, "enter")
      OBVIOUS
<1>3. FrameOK(t, [Top(t) EXCEPT !.at = "enter"])
      BY <1>1, SameFrame DEF FrameOK, Places
<1>4. /\ s \in Seq(Frames) /\ StackOK(t, s) /\ Spot(s) = "enter"
      /\ \A m : RunsIn(frames[t], m) => RunsIn(s, m)
      BY <1>1, <1>2, <1>3, IInvTypes, GoesOn DEF Places, RunsFrame
<1>5. frames' = [frames EXCEPT ![t] = s]
      BY <1>2 DEF Doze, Goto
<1>6. WillLook(t)
      BY DEF IInv
<1> QED BY <1>1, <1>4, <1>5, <1>6, IInvTypes, QuietMove DEF Doze, WillLook

LEMMA StayAwakeStep ==
  ASSUME IInv, NEW t \in Threads, StayAwake(t)
  PROVE  IInv'
<1>1. frames[t] # <<>> /\ Spot(frames[t]) = "test" /\ Top(t).op = "sleep"
      BY IInvTypes, AtPlaces DEF StayAwake
<1>2. PICK s : s = Front(frames[t])
      OBVIOUS
<1>3. /\ s \in Seq(Frames) /\ StackOK(t, s) /\ Spot(s) \in {"none", "check", "body"}
      /\ \A m : RunsIn(frames[t], m) => RunsIn(s, m)
      BY <1>1, <1>2, IInvTypes, EndsTop DEF RunsFrame
<1>4. frames' = [frames EXCEPT ![t] = s]
      BY <1>2 DEF StayAwake, End
<1> QED BY <1>1, <1>3, <1>4, IInvTypes, QuietMove DEF StayAwake

LEMMA EnterStep ==
  ASSUME IInv, NEW t \in Threads, Enter(t)
  PROVE  IInv'
<1>1. /\ frames[t] # <<>> /\ Spot(frames[t]) = "enter"
      /\ Top(t) \in Frames /\ FrameOK(t, Top(t)) /\ Top(t).at = "enter"
      BY IInvTypes, AtPlaces DEF Enter
<1>2. PICK s : s = Going(t, "event")
      OBVIOUS
<1>3. FrameOK(t, [Top(t) EXCEPT !.at = "event"])
      BY <1>1, SameFrame DEF FrameOK, Places
<1>4. /\ s \in Seq(Frames) /\ StackOK(t, s) /\ Spot(s) = "event"
      /\ \A m : RunsIn(frames[t], m) => RunsIn(s, m)
      BY <1>1, <1>2, <1>3, IInvTypes, GoesOn DEF Places, RunsFrame
<1>5. frames' = [frames EXCEPT ![t] = s]
      BY <1>2 DEF Enter, Goto
<1>6. WillLook(t)
      BY DEF IInv
<1>7. sleepers' = sleepers \cup {t}
      BY DEF Enter
<1> QED BY <1>1, <1>4, <1>5, <1>6, <1>7, IInvTypes, QuietMove DEF Enter, WillLook

\* The event is not lost: who blocks has not been signaled.
LEMMA WaitStep ==
  ASSUME IInv, NEW t \in Threads, Wait(t)
  PROVE  IInv'
<1>1. /\ frames[t] # <<>> /\ Spot(frames[t]) = "event"
      /\ Top(t) \in Frames /\ FrameOK(t, Top(t)) /\ Top(t).at = "event"
      BY IInvTypes, AtPlaces DEF Wait
<1>2. PICK w \in {"leave", "asleep"} : w = IF signaled[t] THEN "leave" ELSE "asleep"
      OBVIOUS
<1>3. PICK s : s = Going(t, w)
      OBVIOUS
<1>4. FrameOK(t, [Top(t) EXCEPT !.at = w])
      BY <1>1, SameFrame DEF FrameOK, Places
<1>5. /\ s \in Seq(Frames) /\ StackOK(t, s) /\ Spot(s) = w
      /\ \A m : RunsIn(frames[t], m) => RunsIn(s, m)
  <2>1. w \in Places /\ ~(\E m : RunsFrame(Top(t), m))
        BY <1>1 DEF Places, RunsFrame
  <2> QED BY <1>1, <1>3, <1>4, <2>1, IInvTypes, GoesOn
<1>6. frames' = [frames EXCEPT ![t] = s]
      BY <1>2, <1>3 DEF Wait, Goto
<1>7. WillLook(t) /\ Found(t)
      BY DEF IInv
<1>8. /\ signaled' \in [Threads -> BOOLEAN]
      /\ \A u \in Threads \ {t} : signaled'[u] = signaled[u]
      BY IInvTypes DEF Wait
<1>9. w = "asleep" => ~signaled[t]
      BY <1>2
<1>10. /\ w = "asleep" /\ queue[t] # <<>> => Told(t) \/ t \in overlooked
       /\ w = "asleep" => t \in sleepers \/ front = t
       BY <1>1, <1>7, <1>9 DEF WillLook, Found
<1> QED BY <1>1, <1>2, <1>5, <1>6, <1>8, <1>10, IInvTypes, QuietMove DEF Wait

LEMMA AwakeEarlyStep ==
  ASSUME IInv, NEW t \in Threads, AwakeEarly(t)
  PROVE  IInv'
<1>1. /\ frames[t] # <<>> /\ Spot(frames[t]) = "asleep"
      /\ Top(t) \in Frames /\ FrameOK(t, Top(t)) /\ Top(t).at = "asleep"
      BY IInvTypes, AtPlaces DEF AwakeEarly
<1>2. PICK s : s = Going(t, "leave")
      OBVIOUS
<1>3. FrameOK(t, [Top(t) EXCEPT !.at = "leave"])
      BY <1>1, SameFrame DEF FrameOK, Places
<1>4. /\ s \in Seq(Frames) /\ StackOK(t, s) /\ Spot(s) = "leave"
      /\ \A m : RunsIn(frames[t], m) => RunsIn(s, m)
      BY <1>1, <1>2, <1>3, IInvTypes, GoesOn DEF Places, RunsFrame
<1>5. frames' = [frames EXCEPT ![t] = s]
      BY <1>2 DEF AwakeEarly, Goto
<1> QED BY <1>1, <1>4, <1>5, IInvTypes, QuietMove DEF AwakeEarly

\* Frames that a thread puts on its stack.
LEMMA NewFrame ==
  ASSUME NEW o \in {"send", "sleep", "call", "handle"}, NEW m \in Msgs \cup {None},
         NEW r \in BOOLEAN, NEW where \in Places
  PROVE  /\ Frame(o, m, r, where) \in Frames
         /\ Frame(o, m, r, where).op = o /\ Frame(o, m, r, where).msg = m
         /\ Frame(o, m, r, where).request = r /\ Frame(o, m, r, where).at = where
BY DEF Frame, Frames

LEMMA HandlingFrame ==
  ASSUME NEW t \in Threads
  PROVE  /\ Handling \in Frames /\ FrameOK(t, Handling)
         /\ Handling.op = "handle" /\ Handling.at = "pop"
BY DEF Handling, Frame, Frames, Places, FrameOK

LEMMA LeaveStep ==
  ASSUME IInv, NEW t \in Threads, Leave(t)
  PROVE  IInv'
<1>1. /\ frames[t] # <<>> /\ Spot(frames[t]) = "leave"
      /\ Top(t) \in Frames /\ FrameOK(t, Top(t)) /\ Top(t).at = "leave"
      BY IInvTypes, AtPlaces DEF Leave
<1>2. PICK s : s = IF Top(t).op = "call" THEN Going(t, "read") ELSE Append(Front(frames[t]), Handling)
      OBVIOUS
<1>3. /\ s \in Seq(Frames) /\ StackOK(t, s) /\ Spot(s) \in {"read", "pop"}
      /\ \A m : RunsIn(frames[t], m) => RunsIn(s, m)
  <2>1. CASE Top(t).op = "call"
    <3>1. FrameOK(t, [Top(t) EXCEPT !.at = "read"])
          BY <1>1, <2>1, SameFrame DEF FrameOK, Places
    <3> QED BY <1>1, <1>2, <2>1, <3>1, IInvTypes, GoesOn DEF Places, RunsFrame
  <2>2. CASE Top(t).op # "call"
    <3>1. /\ Handling \in Frames /\ FrameOK(t, Handling)
          /\ Handling.op = "handle" /\ Handling.at = "pop"
          BY HandlingFrame
    <3>2. ~(\E m : RunsFrame(Top(t), m))
          BY <1>1 DEF RunsFrame
    <3> QED BY <1>1, <1>2, <2>2, <3>1, <3>2, IInvTypes, Follows
  <2> QED BY <2>1, <2>2
<1>4. frames' = [frames EXCEPT ![t] = s]
      BY <1>2 DEF Leave
<1>5. sleepers' = sleepers \ {t} /\ overlooked' = overlooked \ {t}
      BY DEF Leave
<1> QED BY <1>1, <1>3, <1>4, <1>5, IInvTypes, QuietMove DEF Leave

\* A thread that looks before it sleeps handles its messages.  One that does not
\* look has none, or is going to be signaled, or is known to have overlooked them.
LEMMA SleepStep ==
  ASSUME IInv, NEW t \in Threads, Sleep(t)
  PROVE  IInv'
<1>1. PICK f : f = Frame("sleep", None, FALSE, "test")
      OBVIOUS
<1>2. /\ f \in Frames /\ f.at = "test" /\ f.op = "sleep"
      /\ FrameOK(t, f)
  <2>1. f \in Frames /\ f.at = "test" /\ f.op = "sleep"
        BY <1>1 DEF Frame, Frames, Places
  <2> QED BY <2>1 DEF FrameOK
<1>3. frames[t] = <<>> \/ In(t, "handle", "body")
      BY DEF Sleep, Executes
<1>4. PICK s : s = Append(frames[t], f)
      OBVIOUS
<1>5. /\ s \in Seq(Frames) /\ StackOK(t, s) /\ Spot(s) = "test"
      /\ \A m : RunsIn(frames[t], m) => RunsIn(s, m)
      BY <1>2, <1>3, <1>4, IInvTypes, Begins
<1>6. /\ Append(s, Handling) \in Seq(Frames) /\ StackOK(t, Append(s, Handling))
      /\ Spot(Append(s, Handling)) = "pop"
      /\ \A m : RunsIn(s, m) => RunsIn(Append(s, Handling), m)
      BY <1>5, BeginsToHandle
<1>7. Spot(frames[t]) \in {"none", "body"}
      BY <1>3, IInvTypes, AtPlaces DEF Spot
<1>8. /\ overlooked' \subseteq Threads
      /\ \A u \in Threads \ {t} : u \in overlooked' <=> u \in overlooked
      /\ reasons = 0 /\ queue[t] # <<>> => Told(t) \/ t \in overlooked'
      BY IInvTypes, AnnouncedTold DEF Sleep
<1>9. frames' = [frames EXCEPT ![t] = IF reasons = 0 THEN s ELSE Append(s, Handling)]
      BY <1>1, <1>4 DEF Sleep
<1>10. CASE reasons = 0
       BY <1>5, <1>7, <1>8, <1>9, <1>10, IInvTypes, QuietMove DEF Sleep
<1>11. CASE reasons # 0
  <2>1. PICK r : r = Append(s, Handling)
        OBVIOUS
  <2>2. /\ r \in Seq(Frames) /\ StackOK(t, r) /\ Spot(r) = "pop"
        /\ frames' = [frames EXCEPT ![t] = r]
        /\ \A m : RunsIn(frames[t], m) => RunsIn(r, m)
        BY <1>5, <1>6, <1>9, <1>11, <2>1
  <2> QED BY <1>7, <1>8, <2>2, IInvTypes, QuietMove DEF Sleep
<1> QED BY <1>10, <1>11

-----------------------------------------------------------------------------
(* Calls, and steps of messages that count nothing.                        *)

LEMMA CallStep ==
  ASSUME IInv, NEW t \in Threads, NEW m \in Msgs, Call(t, m)
  PROVE  IInv'
<1>1. PICK f : f = Frame("call", m, FALSE, "first")
      OBVIOUS
<1>2. /\ f \in Frames /\ f.at = "first" /\ f.op = "call"
      /\ FrameOK(t, f)
  <2>1. f \in Frames /\ f.at = "first" /\ f.op = "call" /\ f.msg = m
        BY <1>1 DEF Frame, Frames, Places
  <2> QED BY <2>1 DEF FrameOK, Call
<1>3. frames[t] = <<>> \/ In(t, "handle", "body")
      BY DEF Call, Executes
<1>4. PICK s : s = Append(frames[t], f)
      OBVIOUS
<1>5. /\ s \in Seq(Frames) /\ StackOK(t, s) /\ Spot(s) = "first"
      /\ \A k : RunsIn(frames[t], k) => RunsIn(s, k)
      BY <1>2, <1>3, <1>4, IInvTypes, Begins
<1>6. PICK r : r = Append(s, Handling)
      OBVIOUS
<1>7. /\ r \in Seq(Frames) /\ StackOK(t, r) /\ Spot(r) = "pop"
      /\ \A k : RunsIn(s, k) => RunsIn(r, k)
      BY <1>5, <1>6, BeginsToHandle
<1>8. Spot(frames[t]) \in {"none", "body"}
      BY <1>3, IInvTypes, AtPlaces DEF Spot
<1>9. frames' = [frames EXCEPT ![t] = r]
      BY <1>1, <1>4, <1>6 DEF Call
<1> QED BY <1>5, <1>7, <1>8, <1>9, IInvTypes, QuietMove DEF Call

LEMMA CheckStep ==
  ASSUME IInv, NEW t \in Threads, Check(t)
  PROVE  IInv'
<1>1. /\ frames[t] # <<>> /\ Spot(frames[t]) = "check" /\ Top(t) \in Frames
      /\ FrameOK(t, Top(t)) /\ Top(t).at = "check" /\ Top(t).op = "call"
      BY IInvTypes, AtPlaces DEF Check
<1>2. PICK s : s = Going(t, "test")
      OBVIOUS
<1>3. FrameOK(t, [Top(t) EXCEPT !.at = "test"])
      BY <1>1, SameFrame DEF FrameOK, Places
<1>4. /\ s \in Seq(Frames) /\ StackOK(t, s) /\ Spot(s) = "test"
      /\ \A m : RunsIn(frames[t], m) => RunsIn(s, m)
      BY <1>1, <1>2, <1>3, IInvTypes, GoesOn DEF Places, RunsFrame
<1>5. PICK r : r = Append(s, Handling)
      OBVIOUS
<1>6. /\ r \in Seq(Frames) /\ StackOK(t, r) /\ Spot(r) = "pop"
      /\ \A m : RunsIn(s, m) => RunsIn(r, m)
      BY <1>4, <1>5, BeginsToHandle
<1>7. frames' = [frames EXCEPT ![t] = r]
      BY <1>2, <1>5 DEF Check
<1> QED BY <1>1, <1>4, <1>6, <1>7, IInvTypes, QuietMove DEF Check

LEMMA ReadStep ==
  ASSUME IInv, NEW t \in Threads, Read(t)
  PROVE  IInv'
<1>1. /\ frames[t] # <<>> /\ Spot(frames[t]) = "read" /\ Top(t) \in Frames
      /\ FrameOK(t, Top(t)) /\ Top(t).at = "read" /\ Top(t).op = "call"
      BY IInvTypes, AtPlaces DEF Read
<1>2. ~(\E m : RunsFrame(Top(t), m))
      BY <1>1 DEF RunsFrame
<1>3. CASE Top(t).msg \in answered
  <2>1. PICK s : s = Front(frames[t])
        OBVIOUS
  <2>2. /\ s \in Seq(Frames) /\ StackOK(t, s) /\ Spot(s) \in {"none", "check", "body"}
        /\ \A m : RunsIn(frames[t], m) => RunsIn(s, m)
        BY <1>1, <1>2, <2>1, IInvTypes, EndsTop
  <2>3. frames' = [frames EXCEPT ![t] = s]
        BY <1>3, <2>1 DEF Read, End
  <2> QED BY <1>1, <2>2, <2>3, IInvTypes, QuietMove DEF Read
<1>4. CASE Top(t).msg \notin answered
  <2>1. PICK s : s = Going(t, "check")
        OBVIOUS
  <2>2. FrameOK(t, [Top(t) EXCEPT !.at = "check"])
        BY <1>1, SameFrame DEF FrameOK, Places
  <2>3. /\ s \in Seq(Frames) /\ StackOK(t, s) /\ Spot(s) = "check"
        /\ \A m : RunsIn(frames[t], m) => RunsIn(s, m)
        BY <1>1, <1>2, <2>1, <2>2, IInvTypes, GoesOn DEF Places
  <2>4. frames' = [frames EXCEPT ![t] = s]
        BY <1>4, <2>1 DEF Read, Goto
  <2> QED BY <1>1, <2>3, <2>4, IInvTypes, QuietMove DEF Read
<1> QED BY <1>3, <1>4

LEMMA LookStep ==
  ASSUME IInv, NEW t \in Threads, Look(t)
  PROVE  IInv'
<1>1. Spot(frames[t]) \in {"none", "body"}
      BY IInvTypes, AtPlaces DEF Look, Spot
<1>2. frames[t] \in Seq(Frames) /\ StackOK(t, frames[t])
      BY IInvTypes DEF Stacks
<1>3. PICK s : s = Append(frames[t], Handling)
      OBVIOUS
<1>4. /\ s \in Seq(Frames) /\ StackOK(t, s) /\ Spot(s) = "pop"
      /\ \A m : RunsIn(frames[t], m) => RunsIn(s, m)
      BY <1>1, <1>2, <1>3, BeginsToHandle
<1>5. frames' = [frames EXCEPT ![t] = s]
      BY <1>3 DEF Look, Begin
<1> QED BY <1>1, <1>4, <1>5, IInvTypes, QuietMove DEF Look

\* There are no more messages.
LEMMA PopNothing ==
  ASSUME IInv, NEW t \in Threads, Pop(t), queue[t] = <<>>
  PROVE  IInv'
<1>1. frames[t] # <<>> /\ Spot(frames[t]) = "pop" /\ Top(t).at = "pop"
      BY IInvTypes, AtPlaces DEF Pop
<1>2. PICK s : s = Front(frames[t])
      OBVIOUS
<1>3. /\ s \in Seq(Frames) /\ StackOK(t, s)
      /\ Spot(s) \in {"none", "first", "check", "test", "body"}
      /\ \A m : RunsIn(frames[t], m) => RunsIn(s, m)
      BY <1>1, <1>2, IInvTypes, EndsTop DEF RunsFrame
<1>4. frames' = [frames EXCEPT ![t] = s] /\ queue' = queue
      BY <1>2 DEF Pop, End
<1> QED BY <1>1, <1>3, <1>4, IInvTypes, QuietMove DEF Pop

LEMMA EndPlainStep ==
  ASSUME IInv, NEW t \in Threads, EndPlain(t)
  PROVE  IInv'
<1>1. /\ frames[t] # <<>> /\ Spot(frames[t]) = "body" /\ Top(t).op = "handle"
      /\ Top(t).msg \notin Calls /\ Top(t) = Last(frames[t])
      BY IInvTypes, AtPlaces DEF EndPlain
<1>2. PICK s : s = Append(Front(frames[t]), Handling)
      OBVIOUS
<1>3. /\ Handling \in Frames /\ FrameOK(t, Handling)
      /\ Handling.op = "handle" /\ Handling.at = "pop"
      BY HandlingFrame
<1>4. /\ s \in Seq(Frames) /\ StackOK(t, s) /\ Spot(s) = "pop"
      /\ \A m : RunsIn(s, m) <=> RunsIn(Front(frames[t]), m) \/ RunsFrame(Handling, m)
      BY <1>1, <1>2, <1>3, IInvTypes, Follows
<1>5. \A m : RunsIn(frames[t], m) <=> RunsIn(Front(frames[t]), m) \/ RunsFrame(Top(t), m)
  <2>1. frames[t] \in Seq(Frames) /\ StackOK(t, frames[t])
        BY IInvTypes DEF Stacks
  <2> QED BY <1>1, <2>1, PopStack
<1>6. \A m \in Calls : ~RunsFrame(Top(t), m)
      BY <1>1 DEF RunsFrame
<1>7. \A m \in Calls : RunsIn(frames[t], m) => RunsIn(s, m)
      BY <1>4, <1>5, <1>6
<1>8. frames' = [frames EXCEPT ![t] = s]
      BY <1>2 DEF EndPlain, Again
<1> QED BY <1>1, <1>4, <1>7, <1>8, IInvTypes, QuietMove DEF EndPlain

LEMMA EndCallStep ==
  ASSUME IInv, NEW t \in Threads, EndCall(t)
  PROVE  IInv'
<1>1. /\ frames[t] # <<>> /\ Spot(frames[t]) = "body" /\ Top(t) \in Frames
      /\ FrameOK(t, Top(t)) /\ Top(t).at = "body" /\ Top(t).op = "handle"
      /\ Top(t).msg \in Calls /\ ~Top(t).request
      BY IInvTypes, AtPlaces DEF EndCall
<1>2. PICK s : s = Going(t, "catch")
      OBVIOUS
<1>3. FrameOK(t, [Top(t) EXCEPT !.at = "catch"])
      BY <1>1, SameFrame DEF FrameOK, Places
<1>4. /\ s \in Seq(Frames) /\ StackOK(t, s) /\ Spot(s) = "catch"
      /\ \A m : RunsIn(frames[t], m) => RunsIn(s, m)
      BY <1>1, <1>2, <1>3, IInvTypes, GoesOn DEF Places
<1>5. frames' = [frames EXCEPT ![t] = s]
      BY <1>2 DEF EndCall, Goto
<1> QED BY <1>1, <1>4, <1>5, IInvTypes, QuietMove DEF EndCall

\* The sender of a call is woken up.
LEMMA WakeStep ==
  ASSUME IInv, NEW t \in Threads, Wake(t)
  PROVE  IInv'
<1>1. /\ frames[t] # <<>> /\ Spot(frames[t]) = "wake" /\ Top(t) \in Frames
      /\ FrameOK(t, Top(t)) /\ Top(t).at = "wake" /\ Top(t).op = "handle"
      BY IInvTypes, AtPlaces DEF Wake
<1>2. PICK u \in Threads : u = From[Top(t).msg] /\ u # t
  <2>1. Top(t).msg \in Msgs /\ To[Top(t).msg] = t
        BY <1>1 DEF FrameOK
  <2> QED BY <2>1, MessagesAssumption
<1>3. PICK s : s = Append(Front(frames[t]), Handling)
      OBVIOUS
<1>4. /\ Handling \in Frames /\ FrameOK(t, Handling)
      /\ Handling.op = "handle" /\ Handling.at = "pop"
      BY HandlingFrame
<1>5. /\ s \in Seq(Frames) /\ StackOK(t, s) /\ Spot(s) = "pop"
      /\ \A m : RunsIn(frames[t], m) => RunsIn(s, m)
      BY <1>1, <1>3, <1>4, IInvTypes, Follows DEF RunsFrame
<1>6. /\ frames' = [frames EXCEPT ![t] = s, ![u] = Woken(u)]
      /\ signaled' = [signaled EXCEPT ![u] = TRUE]
      BY <1>2, <1>3 DEF Wake, Signal
<1>7. Moves(t, Spot(s)) /\ frames'[t] = s /\ Spot(frames'[u]) # "asleep"
      BY <1>2, <1>5, <1>6, IInvTypes, OneMovesAndWakes
<1>8. Leaves(t)
      BY <1>1, <1>6, IInvTypes DEF Leaves, Tells, Wake
<1>9. RunsKept(t)
      BY <1>5, <1>7 DEF RunsKept
<1> QED BY <1>1, <1>5, <1>7, <1>8, <1>9, AwakePlace, QuietStep DEF Wake

\* The receiver of a message is woken up.
LEMMA SignalReceiverStep ==
  ASSUME IInv, NEW t \in Threads, SignalReceiver(t)
  PROVE  IInv'
<1>1. /\ frames[t] # <<>> /\ Spot(frames[t]) = "signal" /\ Top(t) = Last(frames[t])
      /\ FrameOK(t, Top(t)) /\ Top(t).at = "signal" /\ Top(t).op = "send"
      BY IInvTypes, AtPlaces DEF SignalReceiver
<1>2. PICK u \in Threads : u = To[Top(t).msg] /\ u # t
  <2>1. Top(t).msg \in Msgs /\ From[Top(t).msg] = t
        BY <1>1 DEF FrameOK
  <2> QED BY <2>1, MessagesAssumption
<1>3. PICK s : s = Front(frames[t])
      OBVIOUS
<1>4. /\ s \in Seq(Frames) /\ StackOK(t, s) /\ Spot(s) \in {"none", "check", "body"}
      /\ \A m : RunsIn(frames[t], m) => RunsIn(s, m)
      BY <1>1, <1>3, IInvTypes, EndsTop DEF RunsFrame
<1>5. /\ frames' = [frames EXCEPT ![t] = s, ![u] = Woken(u)]
      /\ signaled' = [signaled EXCEPT ![u] = TRUE]
      BY <1>2, <1>3 DEF SignalReceiver, Signal
<1>6. Moves(t, Spot(s)) /\ frames'[t] = s /\ Spot(frames'[u]) # "asleep"
      BY <1>2, <1>4, <1>5, IInvTypes, OneMovesAndWakes
<1>7. \A v \in Threads : Tells(frames[t], v) => v = u
      BY <1>1, <1>2 DEF Tells
<1>8. Leaves(t)
      BY <1>2, <1>5, <1>6, <1>7, IInvTypes DEF Leaves, SignalReceiver
<1>9. RunsKept(t)
      BY <1>4, <1>6 DEF RunsKept
<1>10. WillLook(t)' /\ Found(t)'
      BY <1>4, <1>6, AwakePlace
<1> QED BY <1>1, <1>4, <1>6, <1>8, <1>9, <1>10, QuietStep DEF SignalReceiver

-----------------------------------------------------------------------------
(* Steps that count.                                                       *)

\* What a step of t has to add to the number of reasons.
LEMMA Reckon ==
  ASSUME IInv, NEW t \in Threads, NEW to, Moves(t, to),
         UNCHANGED <<aborting, front>>,
         \A u \in Threads \ {t} : exception'[u] = exception[u],
         NEW d \in Int, Cardinality(Entries') = Cardinality(Entries) + d,
         reasons' + B(to = "count") + B(Spot(frames[t]) = "uncount") + B(exception[t] # None)
           = reasons + d + B(Spot(frames[t]) = "count") + B(to = "uncount") + B(exception'[t] # None),
         reasons' \in Int
  PROVE  ReasonsExact'
<1>1. /\ Cardinality(TopsAt("count")') + B(Spot(frames[t]) = "count")
           = Cardinality(TopsAt("count")) + B(to = "count")
      /\ Cardinality(TopsAt("uncount")') + B(Spot(frames[t]) = "uncount")
           = Cardinality(TopsAt("uncount")) + B(to = "uncount")
      /\ Cardinality(TopsAt("count")) \in Nat /\ Cardinality(TopsAt("uncount")) \in Nat
      /\ Cardinality(TopsAt("count")') \in Nat /\ Cardinality(TopsAt("uncount")') \in Nat
      BY TopsStep
<1>2. /\ Cardinality(Thrown) \in Nat /\ Cardinality(Thrown') \in Nat
      /\ Cardinality(Thrown') + B(exception[t] # None)
           = Cardinality(Thrown) + B(exception'[t] # None)
      BY ThrownStep
<1>3. Cardinality(Entries) \in Nat /\ reasons \in Int
      BY FS_CardinalityType DEF IInv, Types
<1>4. reasons + Cardinality(TopsAt("count")) + B(front = "count")
        = Cardinality(Entries) + Cardinality(TopsAt("uncount")) + Cardinality(Thrown)
            + B(aborting) + B(front = "uncount")
      BY DEF IInv, ReasonsExact, Thrown
<1>5. reasons' + Cardinality(TopsAt("count")') + B(front = "count")
        = Cardinality(Entries') + Cardinality(TopsAt("uncount")') + Cardinality(Thrown')
            + B(aborting) + B(front = "uncount")
  <2>1. PICK c1 \in Int, c2 \in Int, f1 \in Int, f2 \in Int, u1 \in Int, u2 \in Int,
             e1 \in Int, e2 \in Int :
          /\ c1 = B(Spot(frames[t]) = "count") /\ c2 = B(to = "count")
          /\ u1 = B(Spot(frames[t]) = "uncount") /\ u2 = B(to = "uncount")
          /\ e1 = B(exception[t] # None) /\ e2 = B(exception'[t] # None)
          /\ f1 = B(front = "count") /\ f2 = B(aborting) + B(front = "uncount")
        BY DEF B
  <2>2. /\ Cardinality(TopsAt("count")') + c1 = Cardinality(TopsAt("count")) + c2
        /\ Cardinality(TopsAt("uncount")') + u1 = Cardinality(TopsAt("uncount")) + u2
        /\ Cardinality(Thrown') + e1 = Cardinality(Thrown) + e2
        /\ reasons' + c2 + u1 + e1 = reasons + d + c1 + u2 + e2
        BY <1>1, <1>2, <2>1
  <2>3. reasons + Cardinality(TopsAt("count")) + f1
          = Cardinality(Entries) + Cardinality(TopsAt("uncount")) + Cardinality(Thrown) + f2
    <3>1. PICK b1 \in Int, b2 \in Int : b1 = B(aborting) /\ b2 = B(front = "uncount")
          BY DEF B
    <3>2. f2 = b1 + b2
          BY <2>1, <3>1
    <3>3. reasons + Cardinality(TopsAt("count")) + f1
            = Cardinality(Entries) + Cardinality(TopsAt("uncount")) + Cardinality(Thrown) + b1 + b2
          BY <1>4, <2>1, <3>1
    <3> QED BY <1>1, <1>2, <1>3, <3>2, <3>3
  <2>4. reasons' + Cardinality(TopsAt("count")') + f1
          = Cardinality(Entries') + Cardinality(TopsAt("uncount")') + Cardinality(Thrown') + f2
    <3>1. PICK n1 \in Int, n2 \in Int, m1 \in Int, m2 \in Int, x1 \in Int, x2 \in Int,
               q1 \in Int, q2 \in Int, r1 \in Int, r2 \in Int :
            /\ n1 = Cardinality(TopsAt("count")) /\ n2 = Cardinality(TopsAt("count")')
            /\ m1 = Cardinality(TopsAt("uncount")) /\ m2 = Cardinality(TopsAt("uncount")')
            /\ x1 = Cardinality(Thrown) /\ x2 = Cardinality(Thrown')
            /\ q1 = Cardinality(Entries) /\ q2 = Cardinality(Entries')
            /\ r1 = reasons /\ r2 = reasons'
      <4>1. /\ Cardinality(TopsAt("count")) \in Int /\ Cardinality(TopsAt("count")') \in Int
            /\ Cardinality(TopsAt("uncount")) \in Int /\ Cardinality(TopsAt("uncount")') \in Int
            /\ Cardinality(Thrown) \in Int /\ Cardinality(Thrown') \in Int
            /\ Cardinality(Entries) \in Int /\ Cardinality(Entries') \in Int
            /\ reasons \in Int /\ reasons' \in Int
            BY <1>1, <1>2, <1>3
      <4> QED BY ONLY <4>1, Zenon
    <3>2. /\ n2 + c1 = n1 + c2 /\ m2 + u1 = m1 + u2 /\ x2 + e1 = x1 + e2 /\ q2 = q1 + d
          /\ r2 + c2 + u1 + e1 = r1 + d + c1 + u2 + e2
          /\ r1 + n1 + f1 = q1 + m1 + x1 + f2
          BY <2>2, <2>3, <3>1
    <3>3. r2 + n2 + f1 = q2 + m2 + x2 + f2
          BY ONLY <3>2, d \in Int
    <3> QED BY <3>1, <3>3
  <2>5. PICK b1 \in Int, b2 \in Int : b1 = B(aborting) /\ b2 = B(front = "uncount")
        BY DEF B
  <2>6. f2 = b1 + b2
        BY <2>1, <2>5
  <2>7. reasons' + Cardinality(TopsAt("count")') + f1
          = Cardinality(Entries') + Cardinality(TopsAt("uncount")') + Cardinality(Thrown') + b1 + b2
        BY <1>1, <1>2, <1>3, <2>4, <2>6
  <2> QED BY <2>1, <2>5, <2>7
<1> QED BY <1>5 DEF ReasonsExact, Thrown

LEMMA CountStep ==
  ASSUME IInv, NEW t \in Threads, Count(t)
  PROVE  IInv'
<1>1. /\ frames[t] # <<>> /\ Spot(frames[t]) = "count" /\ Top(t) = Last(frames[t])
      /\ Top(t) \in Frames /\ FrameOK(t, Top(t)) /\ Top(t).at = "count" /\ Top(t).op = "send"
      BY IInvTypes, AtPlaces DEF Count
<1>2. PICK s : s = Going(t, "signal")
      OBVIOUS
<1>3. FrameOK(t, [Top(t) EXCEPT !.at = "signal"])
      BY <1>1, SameFrame DEF FrameOK, Places
<1>4. /\ s \in Seq(Frames) /\ StackOK(t, s) /\ Spot(s) = "signal"
      /\ Last(s) = [Top(t) EXCEPT !.at = "signal"]
      /\ \A m : RunsIn(frames[t], m) => RunsIn(s, m)
      BY <1>1, <1>2, <1>3, IInvTypes, GoesOn DEF Places, RunsFrame
<1>5. frames' = [frames EXCEPT ![t] = s]
      BY <1>2 DEF Count, Goto
<1>6. Moves(t, Spot(s)) /\ frames'[t] = s
      BY <1>4, <1>5, IInvTypes, OneMoves
<1>7. Last(s).msg = Last(frames[t]).msg
      BY <1>1, <1>4, SameFrame DEF Places
<1>8. Leaves(t)
      BY <1>4, <1>6, <1>7, IInvTypes DEF Leaves, Tells, Count
<1>9. /\ queue' \in [Threads -> Seq(Entry)] /\ exception' \in [Threads -> Calls \cup {None}]
      /\ Addressed' /\ IsFiniteSet(Entries') /\ Entries' = Entries
      /\ reasons \in Int /\ reasons' = reasons + 1 /\ exception' = exception
      /\ UNCHANGED <<aborting, front>>
      BY DEF IInv, Types, Addressed, Entries, Count
<1>10. ReasonsExact'
  <2>1. Cardinality(Entries') = Cardinality(Entries) + 0
        BY <1>9, FS_CardinalityType DEF IInv
  <2>2. reasons' + B(Spot(s) = "count") + B(Spot(frames[t]) = "uncount") + B(exception[t] # None)
          = reasons + 0 + B(Spot(frames[t]) = "count") + B(Spot(s) = "uncount") + B(exception'[t] # None)
        BY <1>1, <1>4, <1>9 DEF B
  <2> QED BY <1>6, <1>9, <2>1, <2>2, Reckon
<1>11. WillLook(t)' /\ Found(t)'
       BY <1>4, <1>6, AwakePlace
<1>12. Inside(t)'
       BY <1>4, <1>6, <1>9 DEF IInv, Inside
<1> QED BY <1>6, <1>8, <1>9, <1>10, <1>11, <1>12, StepKeeps

\* t puts a message into a queue, and its stack becomes s.
LEMMA PushStep ==
  ASSUME IInv, NEW t \in Threads, NEW s \in Seq(Frames), StackOK(t, s),
         frames' = [frames EXCEPT ![t] = s],
         NEW m \in Msgs, NEW r \in BOOLEAN, Push(m, r), From[m] = t,
         Spot(s) = "count", Last(s).msg = m,
         Spot(frames[t]) \notin {"count", "signal", "uncount"},
         \A k : RunsIn(frames[t], k) => RunsIn(s, k),
         UNCHANGED <<signaled, sleepers, exception, aborting, front, reasons, overlooked>>
  PROVE  IInv'
<1>1. Moves(t, Spot(s)) /\ frames'[t] = s
      BY IInvTypes, OneMoves
<1>2. /\ queue' \in [Threads -> Seq(Entry)] /\ Addressed'
      /\ \A u \in Threads \ {To[m]} : queue'[u] = queue[u]
      /\ IsFiniteSet(Entries') /\ Cardinality(Entries') = Cardinality(Entries) + 1
      BY PushEntry DEF IInv
<1>3. Tells(frames'[t], To[m])
      BY <1>1 DEF Tells
<1>4. Leaves(t)
      BY <1>2, <1>3, IInvTypes DEF Leaves, Tells
<1>5. ReasonsExact'
  <2>1. reasons \in Int
        BY DEF IInv, Types
  <2>2. reasons' + B(Spot(s) = "count") + B(Spot(frames[t]) = "uncount") + B(exception[t] # None)
          = reasons + 1 + B(Spot(frames[t]) = "count") + B(Spot(s) = "uncount") + B(exception'[t] # None)
        BY <2>1 DEF B
  <2> QED BY <1>1, <1>2, <2>1, <2>2, Reckon
<1>6. WillLook(t)' /\ Found(t)'
      BY <1>1, AwakePlace
<1>7. Inside(t)'
      BY <1>1 DEF IInv, Inside
<1>8. exception' \in [Threads -> Calls \cup {None}] /\ reasons' \in Int
      BY DEF IInv, Types
<1> QED BY <1>1, <1>2, <1>4, <1>5, <1>6, <1>7, <1>8, StepKeeps

\* The frame of an operation that sends.
LEMMA SendingFrame ==
  ASSUME NEW t \in Threads, NEW m \in Msgs, NEW r \in BOOLEAN, From[m] = t
  PROVE  LET f == Frame("send", m, r, "count") IN
         f \in Frames /\ FrameOK(t, f) /\ f.at = "count" /\ f.msg = m
<1>1. PICK f : f = Frame("send", m, r, "count")
      OBVIOUS
<1>2. /\ f \in Frames /\ f.at = "count" /\ f.msg = m /\ f.op = "send"
      BY <1>1 DEF Frame, Frames, Places
<1>3. FrameOK(t, f)
      BY <1>2 DEF FrameOK
<1> QED BY <1>1, <1>2, <1>3

LEMMA SendStep ==
  ASSUME IInv, NEW t \in Threads, NEW m \in Msgs, Send(t, m)
  PROVE  IInv'
<1>1. PICK f : f = Frame("send", m, FALSE, "count")
      OBVIOUS
<1>2. f \in Frames /\ FrameOK(t, f) /\ f.at = "count" /\ f.msg = m
      BY <1>1, SendingFrame DEF Send
<1>3. frames[t] = <<>> \/ In(t, "handle", "body")
      BY DEF Send, Executes
<1>4. PICK s : s = Append(frames[t], f)
      OBVIOUS
<1>5. /\ s \in Seq(Frames) /\ StackOK(t, s) /\ Spot(s) = "count" /\ Last(s) = f
      /\ \A k : RunsIn(frames[t], k) => RunsIn(s, k)
      BY <1>2, <1>3, <1>4, IInvTypes, Begins
<1>6. Spot(frames[t]) \in {"none", "body"}
      BY <1>3, IInvTypes, AtPlaces DEF Spot
<1>7. frames' = [frames EXCEPT ![t] = s]
      BY <1>1, <1>4 DEF Send, Begin
<1> QED BY <1>2, <1>5, <1>6, <1>7, PushStep DEF Send

LEMMA SendCallStep ==
  ASSUME IInv, NEW t \in Threads, SendCall(t)
  PROVE  IInv'
<1>1. /\ frames[t] # <<>> /\ Spot(frames[t]) = "first" /\ Top(t) \in Frames
      /\ FrameOK(t, Top(t)) /\ Top(t).at = "first" /\ Top(t).op = "call"
      BY IInvTypes, AtPlaces DEF SendCall
<1>2. ~(\E m : RunsFrame(Top(t), m))
      BY <1>1 DEF RunsFrame
<1>3. CASE Aborting(t)
  <2>1. PICK s : s = Front(frames[t])
        OBVIOUS
  <2>2. /\ s \in Seq(Frames) /\ StackOK(t, s) /\ Spot(s) \in {"none", "check", "body"}
        /\ \A m : RunsIn(frames[t], m) => RunsIn(s, m)
        BY <1>1, <1>2, <2>1, IInvTypes, EndsTop
  <2>3. frames' = [frames EXCEPT ![t] = s] /\ queue' = queue
        BY <1>3, <2>1 DEF SendCall, End
  <2> QED BY <1>1, <2>2, <2>3, IInvTypes, QuietMove DEF SendCall
<1>4. CASE ~Aborting(t)
  <2>1. PICK m \in Msgs : m = Top(t).msg /\ From[m] = t
        BY <1>1 DEF FrameOK
  <2>2. PICK f : f = Frame("send", m, FALSE, "count")
        OBVIOUS
  <2>3. f \in Frames /\ FrameOK(t, f) /\ f.at = "count" /\ f.msg = m
        BY <2>1, <2>2, SendingFrame
  <2>4. PICK g : g = Going(t, "check")
        OBVIOUS
  <2>5. FrameOK(t, [Top(t) EXCEPT !.at = "check"])
        BY <1>1, SameFrame DEF FrameOK, Places
  <2>6. /\ g \in Seq(Frames) /\ StackOK(t, g) /\ g # <<>>
        /\ Last(g) = [Top(t) EXCEPT !.at = "check"]
        /\ \A k : RunsIn(frames[t], k) => RunsIn(g, k)
        BY <1>1, <1>2, <2>4, <2>5, IInvTypes, GoesOn DEF Places
  <2>7. Below(Last(g), f)
    <3>1. Last(g).at = "check"
          BY <1>1, <2>6, SameFrame DEF Places
    <3> QED BY <3>1 DEF Below
  <2>8. PICK s : s = Append(g, f)
        OBVIOUS
  <2>9. /\ s \in Seq(Frames) /\ StackOK(t, s) /\ Spot(s) = f.at /\ Last(s) = f
        /\ \A k : RunsIn(s, k) <=> RunsIn(g, k) \/ RunsFrame(f, k)
    <3> HIDE DEF StackOK, Spot, RunsIn, FrameOK, RunsFrame, Below
    <3> QED BY <2>3, <2>6, <2>7, <2>8, PushStack
  <2>10. frames' = [frames EXCEPT ![t] = s] /\ Push(m, FALSE)
         BY <1>4, <2>1, <2>2, <2>4, <2>8 DEF SendCall
  <2> QED BY <1>1, <2>1, <2>3, <2>6, <2>9, <2>10, PushStep DEF SendCall
<1> QED BY <1>3, <1>4

LEMMA GiveUpStep ==
  ASSUME IInv, NEW t \in Threads, GiveUp(t)
  PROVE  IInv'
<1>1. /\ frames[t] # <<>> /\ Spot(frames[t]) = "test" /\ Top(t) \in Frames
      /\ FrameOK(t, Top(t)) /\ Top(t).at = "test" /\ Top(t).op = "call"
      BY IInvTypes, AtPlaces DEF GiveUp
<1>2. PICK m \in Msgs : m = Top(t).msg /\ From[m] = t
      BY <1>1 DEF FrameOK
<1>3. PICK f : f = Frame("send", m, TRUE, "count")
      OBVIOUS
<1>4. f \in Frames /\ FrameOK(t, f) /\ f.at = "count" /\ f.msg = m
      BY <1>2, <1>3, SendingFrame
<1>5. PICK s : s = Append(Front(frames[t]), f)
      OBVIOUS
<1>6. /\ s \in Seq(Frames) /\ StackOK(t, s) /\ Spot(s) = f.at /\ Last(s) = f
      /\ \A k : RunsIn(frames[t], k) => RunsIn(s, k)
      BY <1>1, <1>4, <1>5, IInvTypes, Follows DEF RunsFrame
<1>7. frames' = [frames EXCEPT ![t] = s] /\ Push(m, TRUE)
      BY <1>2, <1>3, <1>5 DEF GiveUp
<1> QED BY <1>1, <1>2, <1>4, <1>6, <1>7, PushStep DEF GiveUp

\* The next message is taken out of the queue.
LEMMA PopStep ==
  ASSUME IInv, NEW t \in Threads, Pop(t)
  PROVE  IInv'
<1>1. CASE queue[t] = <<>>
      BY <1>1, PopNothing
<1>2. CASE queue[t] # <<>>
  <2>1. frames[t] # <<>> /\ Spot(frames[t]) = "pop" /\ Top(t).at = "pop"
        BY IInvTypes, AtPlaces DEF Pop
  <2>2. /\ queue' = [queue EXCEPT ![t] = Tail(@)]
        /\ frames' = [frames EXCEPT ![t] =
                        Append(Front(frames[t]), Frame("handle", Head(queue[t]).msg, Head(queue[t]).request, "uncount"))]
        BY <1>2 DEF Pop
  <2>3. /\ queue' \in [Threads -> Seq(Entry)] /\ Addressed'
        /\ \A u \in Threads \ {t} : queue'[u] = queue[u]
        /\ Head(queue[t]) \in Entry /\ To[Head(queue[t]).msg] = t
        /\ IsFiniteSet(Entries') /\ Cardinality(Entries') \in Nat
        /\ Cardinality(Entries) = Cardinality(Entries') + 1
        BY <1>2, <2>2, PopEntry DEF IInv
  <2>4. PICK f : f = Frame("handle", Head(queue[t]).msg, Head(queue[t]).request, "uncount")
        OBVIOUS
  <2>5. f \in Frames /\ f.at = "uncount" /\ f.op = "handle" /\ FrameOK(t, f)
    <3>1. /\ f \in Frames /\ f.at = "uncount" /\ f.op = "handle"
          /\ f.msg \in Msgs /\ To[f.msg] = t
          BY <2>3, <2>4 DEF Frame, Frames, Places, Entry
    <3> QED BY <3>1 DEF FrameOK
  <2>6. PICK s : s = Append(Front(frames[t]), f)
        OBVIOUS
  <2>7. /\ s \in Seq(Frames) /\ StackOK(t, s) /\ Spot(s) = f.at
        /\ \A m : RunsIn(frames[t], m) => RunsIn(s, m)
        BY <2>1, <2>5, <2>6, IInvTypes, Follows DEF RunsFrame
  <2>8. Moves(t, Spot(s)) /\ frames'[t] = s
        BY <2>2, <2>4, <2>6, <2>7, IInvTypes, OneMoves
  <2>9. UNCHANGED <<signaled, sleepers, exception, aborting, front, reasons, overlooked>>
        BY DEF Pop
  <2>10. Leaves(t)
         BY <2>1, <2>3, <2>9, IInvTypes DEF Leaves, Tells
  <2>11. ReasonsExact'
    <3>1. reasons \in Int /\ reasons' = reasons /\ exception' = exception
          BY <2>9 DEF IInv, Types
    <3>2. Cardinality(Entries') = Cardinality(Entries) + (-1) /\ -1 \in Int
          BY <2>3
    <3>3. reasons' + B(Spot(s) = "count") + B(Spot(frames[t]) = "uncount") + B(exception[t] # None)
            = reasons + (-1) + B(Spot(frames[t]) = "count") + B(Spot(s) = "uncount") + B(exception'[t] # None)
          BY <2>1, <2>5, <2>7, <3>1 DEF B
    <3> QED BY <2>8, <2>9, <3>1, <3>2, <3>3, Reckon
  <2>12. WillLook(t)' /\ Found(t)'
         BY <2>5, <2>7, <2>8, AwakePlace
  <2>13. Inside(t)'
         BY <2>7, <2>8, <2>9 DEF IInv, Inside
  <2>14. exception' \in [Threads -> Calls \cup {None}] /\ reasons' \in Int
         BY <2>9 DEF IInv, Types
  <2> QED BY <2>3, <2>8, <2>10, <2>11, <2>12, <2>13, <2>14, StepKeeps
<1> QED BY <1>1, <1>2

LEMMA UncountStep ==
  ASSUME IInv, NEW t \in Threads, Uncount(t)
  PROVE  IInv'
<1>1. /\ frames[t] # <<>> /\ Spot(frames[t]) = "uncount" /\ Top(t) \in Frames
      /\ FrameOK(t, Top(t)) /\ Top(t).at = "uncount" /\ Top(t).op = "handle"
      BY IInvTypes, AtPlaces DEF Uncount
<1>2. PICK s : s = Going(t, "body")
      OBVIOUS
<1>3. FrameOK(t, [Top(t) EXCEPT !.at = "body"])
      BY <1>1, SameFrame DEF FrameOK, Places
<1>4. /\ s \in Seq(Frames) /\ StackOK(t, s) /\ Spot(s) = "body"
      /\ \A m : RunsIn(frames[t], m) => RunsIn(s, m)
      BY <1>1, <1>2, <1>3, IInvTypes, GoesOn DEF Places
<1>5. frames' = [frames EXCEPT ![t] = s]
      BY <1>2 DEF Uncount, Goto
<1>6. Moves(t, Spot(s)) /\ frames'[t] = s
      BY <1>4, <1>5, IInvTypes, OneMoves
<1>7. Leaves(t)
      BY <1>1, IInvTypes DEF Leaves, Tells, Uncount
<1>8. /\ queue' \in [Threads -> Seq(Entry)] /\ exception' \in [Threads -> Calls \cup {None}]
      /\ Addressed' /\ IsFiniteSet(Entries') /\ Entries' = Entries
      /\ reasons \in Int /\ reasons' = reasons - 1 /\ exception' = exception
      /\ UNCHANGED <<aborting, front>>
      BY DEF IInv, Types, Addressed, Entries, Uncount
<1>9. ReasonsExact'
  <2>1. Cardinality(Entries') = Cardinality(Entries) + 0
        BY <1>8, FS_CardinalityType DEF IInv
  <2>2. reasons' + B(Spot(s) = "count") + B(Spot(frames[t]) = "uncount") + B(exception[t] # None)
          = reasons + 0 + B(Spot(frames[t]) = "count") + B(Spot(s) = "uncount") + B(exception'[t] # None)
        BY <1>1, <1>4, <1>8 DEF B
  <2> QED BY <1>6, <1>8, <2>1, <2>2, Reckon
<1>10. WillLook(t)' /\ Found(t)'
       BY <1>4, <1>6, AwakePlace
<1>11. Inside(t)'
       BY <1>4, <1>6, <1>8 DEF IInv, Inside
<1> QED BY <1>6, <1>7, <1>8, <1>9, <1>10, <1>11, StepKeeps

-----------------------------------------------------------------------------
(* Aborting.                                                               *)

\* The innermost call that a thread evaluates is below what ends on the top.
LEMMA InnermostBelow ==
  ASSUME NEW t \in Threads, Types, Stacks, frames[t] # <<>>, ~IsAbortable(Top(t)),
         NEW m, Innermost(t, m)
  PROVE  m \in Calls /\ RunsIn(Front(frames[t]), m)
<1>1. frames[t] \in Seq(Frames)
      BY DEF Types
<1>2. PICK l \in Nat \ {0} : l = Len(frames[t])
      BY <1>1, EmptySeq, LenProperties
<1>3. PICK i \in 1 .. l : IsAbortable(frames[t][i]) /\ frames[t][i].msg = m
      BY <1>1, <1>2 DEF Innermost, AbortableAt
<1>4. i # l
      BY <1>2, <1>3 DEF Top, Last
<1>5. i \in 1 .. l - 1
      BY <1>3, <1>4
<1>6. Len(Front(frames[t])) = l - 1 /\ Front(frames[t])[i] = frames[t][i]
      BY <1>1, <1>2, <1>5, FrontElements
<1>7. RunsFrame(Front(frames[t])[i], m) /\ m \in Calls
      BY <1>3, <1>6 DEF IsAbortable, RunsFrame
<1> QED BY <1>5, <1>6, <1>7 DEF RunsIn

\* A step of t that aborts a call, or ends the abort of one.
LEMMA AbortStep ==
  ASSUME IInv, NEW t \in Threads, NEW s \in Seq(Frames), StackOK(t, s),
         frames' = [frames EXCEPT ![t] = s], frames[t] # <<>>, ~IsAbortable(Top(t)),
         Spot(frames[t]) \in {"body", "catch"}, Spot(s) \in {"pop", "wake"},
         \A k \in Calls : RunsIn(Front(frames[t]), k) => RunsIn(s, k),
         NEW m, NEW ended \in Calls \cup {None}, AbortMessage(t, m, ended),
         exception[t] \notin {None, ended} => RunsIn(Front(frames[t]), exception[t]),
         UNCHANGED <<queue, sleepers, aborting, front, overlooked>>
  PROVE  IInv'
<1>1. Moves(t, Spot(s)) /\ frames'[t] = s
      BY IInvTypes, OneMoves
<1>2. /\ queue' \in [Threads -> Seq(Entry)] /\ Addressed' /\ IsFiniteSet(Entries')
      /\ Entries' = Entries /\ reasons \in Int
      /\ exception \in [Threads -> Calls \cup {None}] /\ signaled \in [Threads -> BOOLEAN]
      BY DEF IInv, Types, Addressed, Entries
<1>3. PICK ex \in Calls \cup {None} : ex = IF exception[t] = ended THEN None ELSE exception[t]
      BY <1>2
<1>4. PICK throw \in BOOLEAN : throw <=> Innermost(t, m) /\ ex = None
      OBVIOUS
<1>5. /\ exception' = [exception EXCEPT ![t] = IF throw THEN m ELSE ex]
      /\ reasons' = reasons + B(throw) - B(exception[t] # ex)
      /\ signaled' = [signaled EXCEPT ![t] = @ \/ throw \/ (ended # None /\ ex # None)]
      BY <1>3, <1>4 DEF AbortMessage
<1>6. throw => m \in Calls /\ RunsIn(Front(frames[t]), m)
      BY <1>4, IInvTypes, InnermostBelow
<1>7. /\ exception' \in [Threads -> Calls \cup {None}]
      /\ \A u \in Threads \ {t} : exception'[u] = exception[u]
      /\ exception'[t] = IF throw THEN m ELSE ex
      BY <1>2, <1>3, <1>5, <1>6
<1>8. /\ signaled' \in [Threads -> BOOLEAN]
      /\ \A u \in Threads \ {t} : signaled'[u] = signaled[u]
      BY <1>2, <1>4, <1>5
<1>9. Leaves(t)
      BY <1>7, <1>8, IInvTypes DEF Leaves, Tells
<1>10. None \notin Calls
       BY MessagesAssumption
<1>11. reasons' \in Int /\ reasons' + B(exception[t] # None) = reasons + B(exception'[t] # None)
  <2>1. CASE throw
    <3>1. ex = None /\ exception'[t] # None
          BY <1>4, <1>6, <1>7, <1>10, <2>1
    <3> QED BY <1>2, <1>5, <2>1, <3>1 DEF B
  <2>2. CASE ~throw
    <3>1. exception'[t] = ex
          BY <1>7, <2>2
    <3>2. ex = exception[t] \/ (ex = None /\ exception[t] # None)
          BY <1>3
    <3> QED BY <1>2, <1>5, <2>2, <3>1, <3>2 DEF B
  <2> QED BY <2>1, <2>2
<1>12. ReasonsExact'
  <2>1. Cardinality(Entries') = Cardinality(Entries) + 0
        BY <1>2, FS_CardinalityType DEF IInv
  <2>2. reasons' + B(Spot(s) = "count") + B(Spot(frames[t]) = "uncount") + B(exception[t] # None)
          = reasons + 0 + B(Spot(frames[t]) = "count") + B(Spot(s) = "uncount") + B(exception'[t] # None)
    <3>1. /\ B(Spot(s) = "count") = 0 /\ B(Spot(frames[t]) = "uncount") = 0
          /\ B(Spot(frames[t]) = "count") = 0 /\ B(Spot(s) = "uncount") = 0
          BY DEF B
    <3>2. B(exception[t] # None) \in Int /\ B(exception'[t] # None) \in Int
          BY DEF B
    <3> QED BY <1>2, <1>11, <3>1, <3>2
  <2> QED BY <1>1, <1>7, <1>11, <2>1, <2>2, Reckon
<1>13. WillLook(t)' /\ Found(t)'
       BY <1>1, AwakePlace
<1>14. Inside(t)'
  <2>1. ex # None => RunsIn(Front(frames[t]), ex)
        BY <1>3
  <2>2. exception'[t] # None => exception'[t] \in Calls /\ RunsIn(Front(frames[t]), exception'[t])
        BY <1>3, <1>6, <1>7, <2>1
  <2> QED BY <1>1, <2>2 DEF Inside
<1> QED BY <1>1, <1>2, <1>7, <1>9, <1>11, <1>12, <1>13, <1>14, StepKeeps

\* A request to abort a call was evaluated.
LEMMA EndRequestStep ==
  ASSUME IInv, NEW t \in Threads, EndRequest(t)
  PROVE  IInv'
<1>1. /\ frames[t] # <<>> /\ Spot(frames[t]) = "body" /\ Top(t) = Last(frames[t])
      /\ Top(t).op = "handle" /\ Top(t).request
      BY IInvTypes, AtPlaces DEF EndRequest
<1>2. PICK s : s = Append(Front(frames[t]), Handling)
      OBVIOUS
<1>3. /\ Handling \in Frames /\ FrameOK(t, Handling)
      /\ Handling.op = "handle" /\ Handling.at = "pop"
      BY HandlingFrame
<1>4. /\ s \in Seq(Frames) /\ StackOK(t, s) /\ Spot(s) = "pop"
      /\ \A m : RunsIn(s, m) <=> RunsIn(Front(frames[t]), m) \/ RunsFrame(Handling, m)
      /\ \A m : RunsIn(frames[t], m) => RunsIn(s, m)
      BY <1>1, <1>2, <1>3, IInvTypes, Follows DEF RunsFrame
<1>5. frames' = [frames EXCEPT ![t] = s]
      BY <1>2 DEF EndRequest, Again
<1>6. UNCHANGED <<queue, sleepers, aborting, front, overlooked>>
      BY DEF EndRequest
<1>7. CASE Aborting(t)
  <2>1. UNCHANGED <<exception, reasons, signaled>>
        BY <1>7 DEF EndRequest
  <2> QED BY <1>1, <1>4, <1>5, <1>6, <2>1, IInvTypes, QuietMove
<1>8. CASE ~Aborting(t)
  <2>1. PICK m : m = Top(t).msg
        OBVIOUS
  <2>2. AbortMessage(t, m, None)
        BY <1>8, <2>1 DEF EndRequest
  <2>3. ~IsAbortable(Top(t)) /\ ~(\E k : RunsFrame(Top(t), k))
        BY <1>1 DEF IsAbortable, RunsFrame
  <2>4. \A k : RunsIn(frames[t], k) => RunsIn(Front(frames[t]), k)
        BY <1>1, <2>3, IInvTypes, EndsTop
  <2>5. exception[t] \notin {None, None} => RunsIn(Front(frames[t]), exception[t])
        BY <2>4 DEF IInv, Inside
  <2> QED BY <1>1, <1>4, <1>5, <1>6, <2>2, <2>3, <2>5, AbortStep
<1> QED BY <1>7, <1>8

\* The exception of a call is caught when its evaluation is over.
LEMMA CatchStep ==
  ASSUME IInv, NEW t \in Threads, Catch(t)
  PROVE  IInv'
<1>1. /\ frames[t] # <<>> /\ Spot(frames[t]) = "catch" /\ Top(t) = Last(frames[t])
      /\ Top(t) \in Frames /\ FrameOK(t, Top(t)) /\ Top(t).op = "handle" /\ Top(t).at = "catch"
      BY IInvTypes, AtPlaces DEF Catch
<1>2. PICK ended \in Calls : ended = Top(t).msg
      BY <1>1 DEF FrameOK
<1>3. PICK m : m = pending[Top(t).msg]
      OBVIOUS
<1>4. AbortMessage(t, m, ended)
      BY <1>2, <1>3 DEF Catch
<1>5. PICK s : s = Going(t, "wake")
      OBVIOUS
<1>6. PICK f : f = [Top(t) EXCEPT !.at = "wake"]
      OBVIOUS
<1>7. f \in Frames /\ f.at = "wake" /\ f.op = "handle" /\ FrameOK(t, f)
      BY <1>1, <1>6, SameFrame, ZenonT(40) DEF FrameOK, Places
<1>8. s = Append(Front(frames[t]), f)
      BY <1>5, <1>6 DEF Going
<1>9. /\ s \in Seq(Frames) /\ StackOK(t, s) /\ Spot(s) = f.at
      /\ \A k : RunsIn(s, k) <=> RunsIn(Front(frames[t]), k) \/ RunsFrame(f, k)
      BY <1>1, <1>7, <1>8, IInvTypes, Follows
<1>10. frames' = [frames EXCEPT ![t] = s]
       BY <1>5 DEF Catch, Goto
<1>11. ~IsAbortable(Top(t)) /\ \A k : RunsFrame(Top(t), k) => k = ended
       BY <1>1, <1>2 DEF IsAbortable, RunsFrame
<1>12. frames[t] \in Seq(Frames) /\ StackOK(t, frames[t])
       BY IInvTypes DEF Stacks
<1>13. \A k : RunsIn(frames[t], k) => RunsIn(Front(frames[t]), k) \/ k = ended
  <2>1. \A k : RunsIn(frames[t], k) <=> RunsIn(Front(frames[t]), k) \/ RunsFrame(Top(t), k)
        BY <1>1, <1>12, PopStack, ZenonT(30)
  <2> QED BY <1>11, <2>1
<1>14. exception[t] \notin {None, ended} => RunsIn(Front(frames[t]), exception[t])
       BY <1>13 DEF IInv, Inside
<1>15. UNCHANGED <<queue, sleepers, aborting, front, overlooked>>
       BY DEF Catch
<1> QED BY <1>1, <1>4, <1>7, <1>9, <1>10, <1>11, <1>14, <1>15, AbortStep

-----------------------------------------------------------------------------
(* The thread that aborts everything.                                      *)

\* A step of it that changes no stack.
LEMMA FrontStep ==
  ASSUME IInv, UNCHANGED <<queue, signaled, frames, exception, overlooked>>,
         sleepers' \subseteq Threads, reasons' \in Int,
         front' \in {"idle", "count", "awake", "uncount"} \cup Threads,
         reasons' + B(front' = "count") + B(aborting) + B(front = "uncount")
           = reasons + B(front = "count") + B(aborting') + B(front' = "uncount"),
         \A u \in Threads : (u \in sleepers \/ front = u) => (u \in sleepers' \/ front' = u)
  PROVE  IInv'
<1>1. Types' /\ Stacks' /\ Addressed'
      BY DEF IInv, Types, Stacks, Addressed
<1>2. /\ TopsAt("count")' = TopsAt("count") /\ TopsAt("uncount")' = TopsAt("uncount")
      /\ Entries' = Entries /\ Thrown' = Thrown
      BY DEF TopsAt, AtTop, Top, Entries, Thrown
<1>3. ASSUME NEW t \in Threads
      PROVE  WillLook(t)' /\ Found(t)' /\ Inside(t)'
  <2>1. Told(t)' <=> Told(t)
        BY DEF Told
  <2> QED BY <2>1 DEF IInv, WillLook, Found, Inside
<1>4. /\ Cardinality(TopsAt("count")) \in Nat /\ Cardinality(TopsAt("uncount")) \in Nat
      /\ Cardinality(Thrown) \in Nat /\ Cardinality(Entries) \in Nat /\ reasons \in Int
  <2>1. TopsAt("count") \subseteq Threads /\ TopsAt("uncount") \subseteq Threads /\ Thrown \subseteq Threads
        BY DEF TopsAt, Thrown
  <2>2. IsFiniteSet(TopsAt("count")) /\ IsFiniteSet(TopsAt("uncount")) /\ IsFiniteSet(Thrown)
        BY <2>1, FS_Subset, MessagesAssumption
  <2>3. IsFiniteSet(Entries) /\ reasons \in Int
        BY DEF IInv, Types
  <2> QED BY <2>2, <2>3, FS_CardinalityType
<1>5. ReasonsExact'
  <2>1. PICK n \in Int, m \in Int, x \in Int, q \in Int, r1 \in Int, r2 \in Int :
          /\ n = Cardinality(TopsAt("count")) /\ m = Cardinality(TopsAt("uncount"))
          /\ x = Cardinality(Thrown) /\ q = Cardinality(Entries)
          /\ r1 = reasons /\ r2 = reasons'
        BY <1>4
  <2>2. PICK a1 \in Int, a2 \in Int, c1 \in Int, c2 \in Int, u1 \in Int, u2 \in Int :
          /\ a1 = B(aborting) /\ a2 = B(aborting')
          /\ c1 = B(front = "count") /\ c2 = B(front' = "count")
          /\ u1 = B(front = "uncount") /\ u2 = B(front' = "uncount")
        BY DEF B
  <2>3. /\ r2 + c2 + a1 + u1 = r1 + c1 + a2 + u2
        /\ r1 + n + c1 = q + m + x + a1 + u1
        BY <2>1, <2>2 DEF IInv, ReasonsExact, Thrown
  <2>4. r2 + n + c2 = q + m + x + a2 + u2
        BY ONLY <2>3
  <2>5. /\ r2 + Cardinality(TopsAt("count")') + B(front' = "count")
             = Cardinality(Entries') + Cardinality(TopsAt("uncount")') + Cardinality(Thrown')
                 + B(aborting') + B(front' = "uncount")
        BY <1>2, <2>1, <2>2, <2>4
  <2> QED BY <2>1, <2>5 DEF ReasonsExact, Thrown
<1>6. IsFiniteSet(Entries')
      BY <1>2 DEF IInv
<1> QED BY <1>1, <1>3, <1>5, <1>6 DEF IInv

\* Nobody who sleeps is left behind: who is taken from the list is signaled.
LEMMA FrontSteps ==
  ASSUME IInv, AbortPlease \/ CountAbort \/ TakeSleeper \/ Continue \/ UncountAbort
  PROVE  IInv'
<1>1. front \notin Threads \/ front \notin {"idle", "count", "awake", "uncount"}
      BY MessagesAssumption
<1>2. sleepers \subseteq Threads /\ reasons \in Int
      BY DEF IInv, Types
<1>3. CASE AbortPlease
  <2>1. /\ UNCHANGED <<queue, signaled, frames, exception, overlooked, sleepers, reasons>>
        /\ front = "idle" /\ aborting' = TRUE
        /\ front' = IF aborting THEN "awake" ELSE "count"
        BY <1>3 DEF AbortPlease
  <2>2. reasons' + B(front' = "count") + B(aborting) + B(front = "uncount")
          = reasons + B(front = "count") + B(aborting') + B(front' = "uncount")
        BY <1>2, <2>1 DEF B
  <2> QED BY <1>1, <1>2, <2>1, <2>2, FrontStep
<1>4. CASE CountAbort
  <2>1. /\ UNCHANGED <<queue, signaled, frames, exception, overlooked, sleepers, aborting>>
        /\ front = "count" /\ reasons' = reasons + 1 /\ front' = "awake"
        BY <1>4 DEF CountAbort
  <2>2. reasons' + B(front' = "count") + B(aborting) + B(front = "uncount")
          = reasons + B(front = "count") + B(aborting') + B(front' = "uncount")
        BY <1>2, <2>1 DEF B
  <2> QED BY <1>1, <1>2, <2>1, <2>2, FrontStep
<1>5. CASE TakeSleeper
  <2>1. /\ UNCHANGED <<queue, signaled, frames, exception, overlooked, aborting, reasons>>
        /\ front = "awake" /\ sleepers' \subseteq sleepers
        /\ front' \in {"idle"} \cup sleepers
        /\ \A u \in sleepers : u \in sleepers' \/ front' = u
        BY <1>5 DEF TakeSleeper
  <2>2. front' # "count" /\ front' # "uncount"
        BY <1>2, <2>1, MessagesAssumption
  <2>3. reasons' + B(front' = "count") + B(aborting) + B(front = "uncount")
          = reasons + B(front = "count") + B(aborting') + B(front' = "uncount")
        BY <1>2, <2>1, <2>2 DEF B
  <2> QED BY <1>1, <1>2, <2>1, <2>3, FrontStep
<1>6. CASE Continue
  <2>1. /\ UNCHANGED <<queue, signaled, frames, exception, overlooked, sleepers, reasons>>
        /\ front = "idle" /\ aborting /\ aborting' = FALSE /\ front' = "uncount"
        BY <1>6 DEF Continue
  <2>2. reasons' + B(front' = "count") + B(aborting) + B(front = "uncount")
          = reasons + B(front = "count") + B(aborting') + B(front' = "uncount")
        BY <1>2, <2>1 DEF B
  <2> QED BY <1>1, <1>2, <2>1, <2>2, FrontStep
<1>7. CASE UncountAbort
  <2>1. /\ UNCHANGED <<queue, signaled, frames, exception, overlooked, sleepers, aborting>>
        /\ front = "uncount" /\ reasons' = reasons - 1 /\ front' = "idle"
        BY <1>7 DEF UncountAbort
  <2>2. reasons' + B(front' = "count") + B(aborting) + B(front = "uncount")
          = reasons + B(front = "count") + B(aborting') + B(front' = "uncount")
        BY <1>2, <2>1 DEF B
  <2> QED BY <1>1, <1>2, <2>1, <2>2, FrontStep
<1> QED BY <1>3, <1>4, <1>5, <1>6, <1>7

LEMMA SignalSleeperStep ==
  ASSUME IInv, SignalSleeper
  PROVE  IInv'
<1>1. PICK t \in Threads : t = front
      BY DEF SignalSleeper
<1>2. /\ signaled' = [signaled EXCEPT ![t] = TRUE]
      /\ frames' = [frames EXCEPT ![t] = Woken(t)] /\ front' = "awake"
      BY <1>1 DEF SignalSleeper, Signal
<1>3. frames'[t] = Woken(t)
      BY <1>2, IInvTypes
<1>4. Keeps(t) /\ frames'[t] \in Seq(Frames) /\ Spot(frames'[t]) # "asleep"
      BY <1>3, IInvTypes, WokenKeeps
<1>5. PICK s \in Seq(Frames) : s = Woken(t)
      BY <1>3, <1>4
<1>6. Moves(t, Spot(s)) /\ frames'[t] = s
  <2>1. frames' = [frames EXCEPT ![t] = s] /\ StackOK(t, s)
        BY <1>2, <1>3, <1>4, <1>5 DEF Keeps
  <2> QED BY <2>1, IInvTypes, OneMoves
<1>7. UNCHANGED <<queue, sleepers, exception, aborting, reasons, overlooked>>
      BY DEF SignalSleeper
<1>8. Leaves(t)
      BY <1>1, <1>2, <1>4, <1>7, IInvTypes DEF Leaves, Keeps
<1>9. RunsKept(t)
      BY <1>4 DEF RunsKept, Keeps
<1>10. WillLook(t)' /\ Found(t)'
  <2>1. signaled'[t]
        BY <1>2, IInvTypes
  <2> QED BY <1>4, <2>1 DEF WillLook, Found
<1>11. /\ queue' \in [Threads -> Seq(Entry)] /\ exception' \in [Threads -> Calls \cup {None}]
       /\ reasons' \in Int /\ Addressed' /\ IsFiniteSet(Entries') /\ Entries' = Entries
       BY <1>7 DEF IInv, Types, Addressed, Entries
<1>12. /\ TopsAt("count")' = TopsAt("count") /\ TopsAt("uncount")' = TopsAt("uncount")
  <2>1. ASSUME NEW u \in Threads, NEW w \in {"count", "uncount"}
        PROVE  AtTop(u, w)' <=> AtTop(u, w)
    <3>1. Spot(frames'[u]) = w <=> Spot(frames[u]) = w
          BY <1>4, <1>6 DEF Moves, Keeps
    <3> QED BY <3>1 DEF AtTop, Top, Spot
  <2> QED BY <2>1 DEF TopsAt
<1>13. ReasonsExact'
  <2>1. /\ B(front' = "count") = B(front = "count") /\ B(front' = "uncount") = B(front = "uncount")
        BY <1>1, <1>2, MessagesAssumption DEF B
  <2> QED BY <1>7, <1>11, <1>12, <2>1 DEF IInv, ReasonsExact
<1>14. Inside(t)'
       BY <1>7, <1>9, <1>11 DEF IInv, Types, Inside, RunsKept
<1> QED BY <1>6, <1>8, <1>10, <1>11, <1>13, <1>14, StepKeeps

-----------------------------------------------------------------------------
(* The theorems.                                                           *)

LEMMA InitIInv ==
  ASSUME Init
  PROVE  IInv
<1>1. Entries = {}
      BY DEF Init, Entries
<1>2. /\ TopsAt("count") = {} /\ TopsAt("uncount") = {}
      /\ {t \in Threads : exception[t] # None} = {}
      BY DEF Init, TopsAt, AtTop
<1>3. IsFiniteSet(Entries) /\ Cardinality(Entries) = 0
      BY <1>1, FS_EmptySet
<1>4. ReasonsExact
  <2>1. /\ Cardinality(TopsAt("count")) = 0 /\ Cardinality(TopsAt("uncount")) = 0
        /\ Cardinality({t \in Threads : exception[t] # None}) = 0
        BY <1>2, FS_EmptySet
  <2>2. B(front = "count") = 0 /\ B(front = "uncount") = 0 /\ B(aborting) = 0 /\ reasons = 0
        BY DEF Init, B
  <2> QED BY <1>3, <2>1, <2>2 DEF ReasonsExact
<1>5. Types
      BY DEF Init, Types
<1>6. \A t \in Threads : frames[t] = <<>> /\ Len(frames[t]) = 0 /\ Len(queue[t]) = 0
      BY DEF Init
<1>7. Stacks /\ Addressed
      BY <1>6 DEF Stacks, StackOK, Addressed
<1>8. \A t \in Threads : WillLook(t) /\ Found(t) /\ Inside(t)
      BY <1>6 DEF Init, WillLook, Found, Inside, Spot
<1> QED BY <1>3, <1>4, <1>5, <1>7, <1>8 DEF IInv

LEMMA StutterIInv ==
  ASSUME IInv, UNCHANGED vars
  PROVE  IInv'
<1>1. /\ UNCHANGED <<queue, signaled, frames, exception, overlooked, sleepers, aborting, reasons, front>>
      BY DEF vars
<1>2. /\ sleepers' \subseteq Threads /\ reasons' \in Int
      /\ front' \in {"idle", "count", "awake", "uncount"} \cup Threads
      BY <1>1 DEF IInv, Types
<1>3. reasons' + B(front' = "count") + B(aborting) + B(front = "uncount")
        = reasons + B(front = "count") + B(aborting') + B(front' = "uncount")
      BY <1>1, <1>2 DEF B
<1> QED BY <1>1, <1>2, <1>3, FrontStep

\* The invariant holds: it is inductive.
THEOREM AlwaysIInv == Spec => []IInv
<1>1. Init => IInv
      BY InitIInv
<1>2. IInv /\ [Next]_vars => IInv'
  <2> SUFFICES ASSUME IInv, [Next]_vars PROVE IInv'
      OBVIOUS
  <2>1. ASSUME NEW t \in Threads, Sends(t)
        PROVE  IInv'
        BY <2>1, SendStep, CallStep DEF Sends
  <2>2. ASSUME NEW t \in Threads, Proceeds(t)
        PROVE  IInv'
    <3>1. CASE Count(t) \/ SignalReceiver(t) \/ Enter(t) \/ Wait(t) \/ Leave(t)
          BY <3>1, CountStep, SignalReceiverStep, EnterStep, WaitStep, LeaveStep
    <3>2. CASE Doze(t) \/ StayAwake(t) \/ SendCall(t) \/ Check(t) \/ GiveUp(t) \/ Read(t)
          BY <3>2, DozeStep, StayAwakeStep, SendCallStep, CheckStep, GiveUpStep, ReadStep
    <3>3. CASE Look(t) \/ Pop(t) \/ Uncount(t) \/ EndRequest(t)
          BY <3>3, LookStep, PopStep, UncountStep, EndRequestStep
    <3>4. CASE EndPlain(t) \/ EndCall(t) \/ Catch(t) \/ Wake(t)
          BY <3>4, EndPlainStep, EndCallStep, CatchStep, WakeStep
    <3> QED BY <2>2, <3>1, <3>2, <3>3, <3>4 DEF Proceeds
  <2>3. ASSUME NEW t \in Threads, Sleep(t) \/ AwakeEarly(t)
        PROVE  IInv'
        BY <2>3, SleepStep, AwakeEarlyStep
  <2>4. CASE AbortPlease \/ Continue \/ FrontProceeds
        BY <2>4, FrontSteps, SignalSleeperStep DEF FrontProceeds
  <2>5. CASE UNCHANGED vars
        BY <2>5, StutterIInv
  <2> QED BY <2>1, <2>2, <2>3, <2>4, <2>5 DEF Next
<1> QED BY <1>1, <1>2, PTL DEF Spec

\* The number of reasons is that of the queued messages, the exceptions and the
\* flag, up to the threads that have changed one of these and not counted it
\* yet: pmath_aborting may skip everything when it is 0.
THEOREM AlwaysReasonsExact == Spec => []ReasonsExact
<1>1. IInv => ReasonsExact
      BY DEF IInv
<1> QED BY <1>1, AlwaysIInv, PTL

\* A thread does not sleep on a message for which nobody is going to wake it up,
\* unless it did not look at its queue before it went to sleep.
THEOREM AlwaysMessageWakes == Spec => []MessageWakes
<1>1. IInv => MessageWakes
  <2> SUFFICES ASSUME IInv, NEW t \in Threads, AtTop(t, "asleep"), queue[t] # <<>>
               PROVE  Announced(t) \/ t \in overlooked
      BY DEF MessageWakes
  <2>1. Spot(frames[t]) = "asleep"
        BY IInvTypes, AtPlaces
  <2>2. WillLook(t)
        BY DEF IInv
  <2> QED BY <2>1, <2>2, IInvTypes, AnnouncedTold DEF WillLook
<1> QED BY <1>1, AlwaysIInv, PTL

\* The exception that aborts a call never leaves the evaluation of that call.
THEOREM AlwaysAbortStaysInside == Spec => []AbortStaysInside
<1>1. IInv => AbortStaysInside
  <2> SUFFICES ASSUME IInv, NEW t \in Threads, exception[t] # None
               PROVE  Runs(t, exception[t])
      BY DEF AbortStaysInside
  <2>1. RunsIn(frames[t], exception[t])
        BY DEF IInv, Inside
  <2>2. DOMAIN frames[t] = 1 .. Len(frames[t])
        BY IInvTypes, LenProperties
  <2> QED BY <2>1, <2>2 DEF RunsIn, RunsFrame, Runs
<1> QED BY <1>1, AlwaysIInv, PTL

\* Whoever sleeps is found by the thread that aborts everything.
THEOREM AlwaysSleepersListed == Spec => []SleepersListed
<1>1. IInv => SleepersListed
  <2> SUFFICES ASSUME IInv, NEW t \in Threads, AtTop(t, "asleep")
               PROVE  t \in sleepers \/ front = t
      BY DEF SleepersListed
  <2>1. Spot(frames[t]) = "asleep"
        BY IInvTypes, AtPlaces
  <2> QED BY <2>1 DEF IInv, Found
<1> QED BY <1>1, AlwaysIInv, PTL

-----------------------------------------------------------------------------
(* When a message is overlooked.                                           *)

\* The flag is set before it is counted.
Flagged == front = "count" => aborting

LEMMA FlagKept ==
  ASSUME IInv, Flagged, [Next]_vars
  PROVE  /\ Flagged'
         /\ \/ overlooked' \subseteq overlooked
            \/ \E t \in Threads : Sleep(t) /\ overlooked' = overlooked \cup {t}
<1> DEFINE Quiet == front' = front /\ aborting' = aborting /\ overlooked' \subseteq overlooked
<1>1. ASSUME NEW t \in Threads, Sends(t)
      PROVE  Quiet
  <2>1. PICK m \in Msgs : Send(t, m) \/ Call(t, m)
        BY <1>1 DEF Sends
  <2> QED BY <2>1 DEF Send, Call
<1>2. ASSUME NEW t \in Threads, Proceeds(t)
      PROVE  Quiet
  <2>1. CASE Count(t) \/ SignalReceiver(t) \/ Enter(t) \/ Wait(t) \/ Leave(t)
        BY <2>1 DEF Count, SignalReceiver, Enter, Wait, Leave
  <2>2. CASE Doze(t) \/ StayAwake(t) \/ SendCall(t) \/ Check(t) \/ GiveUp(t) \/ Read(t)
        BY <2>2 DEF Doze, StayAwake, SendCall, Check, GiveUp, Read
  <2>3. CASE Look(t) \/ Pop(t) \/ Uncount(t) \/ EndRequest(t)
        BY <2>3 DEF Look, Pop, Uncount, EndRequest
  <2>4. CASE EndPlain(t) \/ EndCall(t) \/ Catch(t) \/ Wake(t)
        BY <2>4 DEF EndPlain, EndCall, Catch, Wake
  <2> QED BY <1>2, <2>1, <2>2, <2>3, <2>4 DEF Proceeds
<1>3. ASSUME NEW t \in Threads, AwakeEarly(t)
      PROVE  Quiet
      BY <1>3 DEF AwakeEarly
<1>4. ASSUME NEW t \in Threads, Sleep(t)
      PROVE  /\ front' = front /\ aborting' = aborting
             /\ overlooked' \subseteq overlooked \/ overlooked' = overlooked \cup {t}
      BY <1>4 DEF Sleep
<1>5. CASE AbortPlease \/ Continue \/ FrontProceeds
  <2>1. sleepers \subseteq Threads
        BY IInvTypes
  <2> QED BY <1>5, <2>1, MessagesAssumption
        DEF Flagged, AbortPlease, Continue, FrontProceeds, CountAbort, TakeSleeper, SignalSleeper, UncountAbort
<1>6. CASE UNCHANGED vars
      BY <1>6 DEF vars, Flagged
<1>7. Quiet => Flagged' /\ overlooked' \subseteq overlooked
      BY DEF Flagged
<1> QED BY <1>1, <1>2, <1>3, <1>4, <1>5, <1>6, <1>7 DEF Next, Flagged

\* When no reason is counted although there is a message, then because somebody
\* has put one into a queue and not counted it yet.
LEMMA UncountedMessage ==
  ASSUME IInv, Flagged, reasons = 0, NEW t \in Threads, queue[t] # <<>>
  PROVE  \E u \in Threads : AtTop(u, "count")
<1>1. queue[t] \in Seq(Entry)
      BY DEF IInv, Types
<1>2. 1 \in DOMAIN queue[t]
      BY <1>1, EmptySeq, LenProperties
<1>3. <<t, 1>> \in Entries
      BY <1>2 DEF Entries
<1>4. Cardinality(Entries) \in Nat /\ Cardinality(Entries) # 0
      BY <1>3, FS_EmptySet, FS_CardinalityType DEF IInv
<1>5. /\ IsFiniteSet(TopsAt("count")) /\ Cardinality(TopsAt("count")) \in Nat
      /\ Cardinality(TopsAt("uncount")) \in Nat /\ Cardinality(Thrown) \in Nat
  <2>1. TopsAt("count") \subseteq Threads /\ TopsAt("uncount") \subseteq Threads /\ Thrown \subseteq Threads
        BY DEF TopsAt, Thrown
  <2>2. IsFiniteSet(TopsAt("count")) /\ IsFiniteSet(TopsAt("uncount")) /\ IsFiniteSet(Thrown)
        BY <2>1, FS_Subset, MessagesAssumption
  <2> QED BY <2>2, FS_CardinalityType
<1>6. Cardinality(TopsAt("count")) # 0
  <2>1. PICK a \in 0 .. 1, c \in 0 .. 1, u \in 0 .. 1 :
          a = B(aborting) /\ c = B(front = "count") /\ u = B(front = "uncount") /\ c <= a
        BY DEF B, Flagged
  <2>2. 0 + Cardinality(TopsAt("count")) + c
          = Cardinality(Entries) + Cardinality(TopsAt("uncount")) + Cardinality(Thrown) + a + u
        BY <2>1 DEF IInv, ReasonsExact, Thrown
  <2>3. PICK n \in Nat, m \in Nat, x \in Nat, q \in Nat :
          /\ n = Cardinality(TopsAt("count")) /\ m = Cardinality(TopsAt("uncount"))
          /\ x = Cardinality(Thrown) /\ q = Cardinality(Entries)
        BY <1>4, <1>5
  <2>4. 0 + n + c = q + m + x + a + u /\ c <= a /\ q # 0
        BY <1>4, <2>1, <2>2, <2>3
  <2>5. n # 0
        BY ONLY <2>4
  <2> QED BY <2>3, <2>5
<1>7. TopsAt("count") # {}
      BY <1>6, FS_EmptySet
<1> QED BY <1>7 DEF TopsAt

LEMMA AlwaysFlagged == Spec => [](IInv /\ Flagged)
<1>1. Init => Flagged
      BY DEF Init, Flagged
<1>2. IInv /\ Flagged /\ [Next]_vars => Flagged'
      BY FlagKept
<1> QED BY <1>1, <1>2, AlwaysIInv, PTL DEF Spec

\* A thread goes to sleep on a message only while another one sends a message
\* to a third one and has not counted it.
LEMMA OverlooksThen ==
  ASSUME IInv, Flagged, [Next]_vars, NEW t \in Threads, t \in overlooked', t \notin overlooked
  PROVE  \E u \in Threads \ {t} : AtTop(u, "count") /\ To[Top(u).msg] # t
<1>1. Sleep(t)
      BY FlagKept
<1>2. reasons = 0 /\ queue[t] # <<>> /\ ~Announced(t)
      BY <1>1 DEF Sleep
<1>3. PICK u \in Threads : AtTop(u, "count")
      BY <1>2, UncountedMessage
<1>4. frames[u] # <<>> /\ FrameOK(u, Top(u)) /\ Top(u).at = "count" /\ Spot(frames[u]) = "count"
      BY <1>3, IInvTypes, AtPlaces
<1>5. To[Top(u).msg] # t
      BY <1>2, <1>4 DEF Announced, FrameOK
<1>6. u # t
  <2>1. frames[t] = <<>> \/ In(t, "handle", "body")
        BY <1>1 DEF Sleep, Executes
  <2>2. Spot(frames[t]) \in {"none", "body"}
        BY <2>1, IInvTypes, AtPlaces DEF Spot
  <2> QED BY <1>4, <2>2
<1> QED BY <1>3, <1>5, <1>6

THEOREM AlwaysOverlooksInWindow == Spec => [][OverlooksInWindow]_vars
<1>1. IInv /\ Flagged /\ [Next]_vars => [OverlooksInWindow]_vars
      BY OverlooksThen DEF OverlooksInWindow
<1> QED BY <1>1, AlwaysFlagged, PTL DEF Spec

\* Two threads alone overlook nothing: then no thread ever sleeps on a message
\* unless its sender is about to wake it up.
THEOREM TwoThreadsOverlookNothing ==
  ASSUME \A u, v, w \in Threads : u = v \/ v = w \/ u = w
  PROVE  Spec => []NoneOverlooked
<1>1. Init => NoneOverlooked
      BY DEF Init, NoneOverlooked
<1>2. IInv /\ Flagged /\ NoneOverlooked /\ [Next]_vars => NoneOverlooked'
  <2> SUFFICES ASSUME IInv, Flagged, NoneOverlooked, [Next]_vars, NEW t \in overlooked'
               PROVE  FALSE
      BY DEF NoneOverlooked
  <2>1. t \in Threads /\ t \notin overlooked
        BY FlagKept DEF NoneOverlooked
  <2>2. PICK u \in Threads \ {t} : AtTop(u, "count") /\ To[Top(u).msg] # t
        BY <2>1, OverlooksThen
  <2>3. frames[u] # <<>> /\ FrameOK(u, Top(u)) /\ Top(u).at = "count"
        BY <2>2, IInvTypes, AtPlaces
  <2>4. PICK v \in Threads : v = To[Top(u).msg] /\ v # u
        BY <2>3, MessagesAssumption DEF FrameOK
  <2> QED BY <2>1, <2>2, <2>4
<1> QED BY <1>1, <1>2, AlwaysFlagged, PTL DEF Spec

-----------------------------------------------------------------------------
(* Induction on a set of numbers.                                          *)

\* A set of numbers has a least element.
LEMMA Least ==
  ASSUME NEW T, T \subseteq Nat, T # {}
  PROVE  \E x \in T : \A y \in T : x <= y
<1>1. IsWellFoundedOn(OpToRel(<, Nat), Nat)
      BY NatLessThanWellFounded
<1>2. PICK x \in T : \A y \in T : ~(<<y, x>> \in OpToRel(<, Nat))
      BY <1>1, WFMin
<1>3. \A y \in T : ~(y < x)
      BY <1>2 DEF OpToRel
<1> QED BY <1>3

\* What holds at n and is passed down holds at 0.
LEMMA Downward ==
  ASSUME NEW n \in Nat, NEW S, n \in S, \A k \in 0 .. n - 1 : k + 1 \in S => k \in S
  PROVE  0 \in S
<1> SUFFICES ASSUME 0 \notin S PROVE FALSE
    OBVIOUS
<1> DEFINE T == {j \in Nat : j <= n /\ n - j \notin S}
<1>1. n \in T /\ T \subseteq Nat
      OBVIOUS
<1> HIDE DEF T
<1>2. PICK x \in T : \A y \in T : x <= y
      BY <1>1, Least
<1>3. x \in 1 .. n /\ n - x \notin S
      BY <1>2 DEF T
<1>4. n - x + 1 \in S
  <2>1. x - 1 \notin T
        BY <1>1, <1>2, <1>3
  <2> QED BY <1>3, <2>1 DEF T
<1> QED BY <1>3, <1>4

-----------------------------------------------------------------------------
\* The way of a request in numbers: calls are their depths, and 0 is none.  p[i]
\* is the request that the call at i keeps.

TakesIn(A, p, i, r) == i \in A /\ r # 0 /\ r < i /\ p[i] < r

Passed(A, p, i, r) ==
  IF TakesIn(A, p, i, r) THEN p[i] ELSE IF i \in A /\ p[i] = r THEN 0 ELSE r

\* r requests an abort of d, which goes from n outwards.
Way(A, p, n, d, c) ==
  /\ c \in [0 .. n -> A \cup {0}]
  /\ c[n] = d
  /\ \A i \in 0 .. n - 1 : c[i] = Passed(A, p, i + 1, c[i + 1])

Left(A, p, c, i) == IF TakesIn(A, p, i, c[i]) THEN c[i] ELSE p[i]

\* A request is kept above the call that it is for, and each once.
Kept(A, p) ==
  /\ p \in [A -> A \cup {0}]
  /\ \A i \in A : p[i] < i
  /\ \A i, j \in A : p[i] # 0 /\ p[i] = p[j] => i = j

\* What holds when the request comes to k.
At(A, p, d, c, k) ==
  /\ \A i \in A : i > k /\ c[k] # 0 /\ i > c[k] => Left(A, p, c, i) > c[k]
  /\ c[k] <= d
  /\ c[k] = d \/ \E i \in A : i > k /\ Left(A, p, c, i) = d
  /\ \A j \in A : j > k /\ p[j] # 0 => c[k] = p[j] \/ \E i \in A : i > k /\ Left(A, p, c, i) = p[j]
  /\ \A i, j \in A : i > k /\ j > k /\ Left(A, p, c, i) # 0 /\ Left(A, p, c, i) = Left(A, p, c, j) => i = j
  /\ \A i, j \in A : i > k /\ j <= k /\ Left(A, p, c, i) # 0 => Left(A, p, c, i) # p[j]
  /\ \A i \in A : i > k /\ c[k] # 0 => Left(A, p, c, i) # c[k]
  /\ \A i \in A : i <= k /\ c[k] # 0 => p[i] # c[k]

\* The request goes on from k + 1 to k.
LEMMA AtStep ==
  ASSUME NEW n \in Nat, NEW A, \A i \in A : i \in 1 .. n, NEW p, Kept(A, p), NEW d \in A, NEW c, Way(A, p, n, d, c),
         NEW k \in 0 .. n - 1, At(A, p, d, c, k + 1)
  PROVE  At(A, p, d, c, k)
<1>1. /\ c[k] \in A \cup {0} /\ c[k + 1] \in A \cup {0} /\ k \in Nat
      /\ c[k] = Passed(A, p, k + 1, c[k + 1])
      BY DEF Way
<1>2. \A i \in A : i \in Nat /\ i # 0 /\ p[i] \in A \cup {0} /\ p[i] \in Nat /\ p[i] < i
      BY DEF Kept
<1>3. PICK x \in Nat, y \in Nat : x = c[k + 1] /\ y = c[k]
      BY <1>1
<1>4. PICK N \in [A -> Nat] : \A i \in A : N[i] = Left(A, p, c, i)
  <2> DEFINE N == [i \in A |-> Left(A, p, c, i)]
  <2>1. ASSUME NEW i \in A PROVE Left(A, p, c, i) \in Nat
        BY <1>2 DEF Left, Way
  <2>2. N \in [A -> Nat] /\ \A i \in A : N[i] = Left(A, p, c, i)
        BY <2>1
  <2> HIDE DEF N
  <2> QED BY <2>2
<1>5. \A i \in A : i > k <=> i > k + 1 \/ i = k + 1
      BY <1>1, <1>2
<1>6. \A i \in A : i <= k + 1 <=> i <= k \/ i = k + 1
      BY <1>1, <1>2
<1>7. \A i \in A : N[i] \in Nat
      OBVIOUS
<1>8. /\ \A i \in A : i > k + 1 /\ x # 0 /\ i > x => N[i] > x
      /\ x <= d
      /\ x = d \/ \E i \in A : i > k + 1 /\ N[i] = d
      /\ \A j \in A : j > k + 1 /\ p[j] # 0 => x = p[j] \/ \E i \in A : i > k + 1 /\ N[i] = p[j]
      /\ \A i, j \in A : i > k + 1 /\ j > k + 1 /\ N[i] # 0 /\ N[i] = N[j] => i = j
      /\ \A i, j \in A : i > k + 1 /\ j <= k + 1 /\ N[i] # 0 => N[i] # p[j]
      /\ \A i \in A : i > k + 1 /\ x # 0 => N[i] # x
      /\ \A i \in A : i <= k + 1 /\ x # 0 => p[i] # x
      BY <1>3, <1>4 DEF At
<1> SUFFICES
      /\ \A i \in A : i > k /\ y # 0 /\ i > y => N[i] > y
      /\ y <= d
      /\ y = d \/ \E i \in A : i > k /\ N[i] = d
      /\ \A j \in A : j > k /\ p[j] # 0 => y = p[j] \/ \E i \in A : i > k /\ N[i] = p[j]
      /\ \A i, j \in A : i > k /\ j > k /\ N[i] # 0 /\ N[i] = N[j] => i = j
      /\ \A i, j \in A : i > k /\ j <= k /\ N[i] # 0 => N[i] # p[j]
      /\ \A i \in A : i > k /\ y # 0 => N[i] # y
      /\ \A i \in A : i <= k /\ y # 0 => p[i] # y
      BY <1>3, <1>4 DEF At
<1>9. \A i, j \in A : p[i] # 0 /\ p[i] = p[j] => i = j
      BY DEF Kept
<1>10. CASE TakesIn(A, p, k + 1, x)
  <2>1. y = p[k + 1] /\ N[k + 1] = x /\ k + 1 \in A /\ x # 0 /\ x < k + 1 /\ y < x
        BY <1>1, <1>3, <1>4, <1>10 DEF Passed, TakesIn, Left
  <2>2. \A i \in A : i > k /\ y # 0 /\ i > y => N[i] > y
        BY <1>5, <1>7, <1>8, <2>1, <1>2
  <2>3. \A i, j \in A : i > k /\ j > k /\ N[i] # 0 /\ N[i] = N[j] => i = j
        BY <1>5, <1>8, <2>1
  <2>4. \A i, j \in A : i > k /\ j <= k /\ N[i] # 0 => N[i] # p[j]
        BY <1>5, <1>6, <1>8, <2>1
  <2>5. \A i \in A : i > k /\ y # 0 => N[i] # y
        BY <1>5, <1>6, <1>8, <2>1
  <2>6. \A i \in A : i <= k /\ y # 0 => p[i] # y
        BY <1>9, <2>1, <1>2
  <2>7. \A j \in A : j > k /\ p[j] # 0 => y = p[j] \/ \E i \in A : i > k /\ N[i] = p[j]
        BY <1>5, <1>8, <2>1
  <2>8. y <= d /\ (y = d \/ \E i \in A : i > k /\ N[i] = d)
        BY <1>2, <1>5, <1>8, <2>1
  <2> QED BY <2>2, <2>3, <2>4, <2>5, <2>6, <2>7, <2>8
<1>11. CASE ~TakesIn(A, p, k + 1, x)
  <2>1. /\ k + 1 \in A => N[k + 1] = p[k + 1]
        /\ y = x \/ (y = 0 /\ k + 1 \in A /\ p[k + 1] = x)
        /\ y # 0 => y = x /\ (k + 1 \in A => p[k + 1] # x)
        /\ k + 1 \in A /\ x # 0 /\ x < k + 1 => p[k + 1] >= x
        BY <1>1, <1>2, <1>3, <1>4, <1>11 DEF Passed, TakesIn, Left
  <2>2. \A i \in A : i > k /\ y # 0 /\ i > y => N[i] > y
        BY <1>5, <1>7, <1>8, <2>1, <1>2
  <2>3. \A i, j \in A : i > k /\ j > k /\ N[i] # 0 /\ N[i] = N[j] => i = j
        BY <1>5, <1>6, <1>8, <2>1
  <2>4. \A i, j \in A : i > k /\ j <= k /\ N[i] # 0 => N[i] # p[j]
    <3>1. \A j \in A : j <= k => j # k + 1
          BY <1>2
    <3> QED BY <1>5, <1>6, <1>8, <1>9, <2>1, <3>1
  <2>5. \A i \in A : i > k /\ y # 0 => N[i] # y
        BY <1>5, <1>6, <1>8, <2>1
  <2>6. \A i \in A : i <= k /\ y # 0 => p[i] # y
        BY <1>6, <1>8, <2>1
  <2>7. \A j \in A : j > k /\ p[j] # 0 => y = p[j] \/ \E i \in A : i > k /\ N[i] = p[j]
        BY <1>5, <1>8, <2>1
  <2>8. y <= d /\ (y = d \/ \E i \in A : i > k /\ N[i] = d)
        BY <1>2, <1>5, <1>8, <2>1
  <2> QED BY <2>2, <2>3, <2>4, <2>5, <2>6, <2>7, <2>8
<1> QED BY <1>10, <1>11

\* All requests find a place, unless the only one is for the innermost call.
LEMMA WayEnds ==
  ASSUME NEW n \in Nat, NEW A, \A i \in A : i \in 1 .. n, NEW p, Kept(A, p), NEW d \in A, NEW c, Way(A, p, n, d, c),
         \A i \in A : p[i] # d, \E i \in A : i > d
  PROVE  /\ \A i \in A : Left(A, p, c, i) \in A \cup {0} /\ Left(A, p, c, i) < i
         /\ \A i, j \in A : Left(A, p, c, i) # 0 /\ Left(A, p, c, i) = Left(A, p, c, j) => i = j
         /\ \E i \in A : Left(A, p, c, i) = d
         /\ \A j \in A : p[j] # 0 => \E i \in A : Left(A, p, c, i) = p[j]
<1> DEFINE S == {k \in 0 .. n : At(A, p, d, c, k)}
<1>0. \A i \in A : i \in 1 .. n /\ i \in Nat /\ ~(i > n) /\ i <= n
      OBVIOUS
<1>1. n \in S
  <2>1. At(A, p, d, c, n)
        BY <1>0 DEF At, Way
  <2> QED BY <2>1
<1>2. \A k \in 0 .. n - 1 : k + 1 \in S => k \in S
      BY AtStep
<1>3. At(A, p, d, c, 0)
  <2> HIDE DEF S
  <2>1. 0 \in S
        BY <1>1, <1>2, Downward
  <2> QED BY <2>1 DEF S
<1>4. ASSUME NEW i \in A
      PROVE  Left(A, p, c, i) \in A \cup {0} /\ Left(A, p, c, i) < i /\ i > 0
      BY <1>0 DEF Left, Way, Kept, TakesIn
<1>5. c[0] = 0
  <2> SUFFICES ASSUME c[0] # 0 PROVE FALSE
      OBVIOUS
  <2>1. c[0] \in A /\ c[0] \in Nat /\ c[0] <= d
        BY <1>0, <1>3 DEF At, Way
  <2> DEFINE T == {i \in A : i > c[0]}
  <2>2. T \subseteq Nat /\ T # {}
        BY <1>0, <2>1
  <2>3. PICK x \in T : \A y \in T : x <= y
    <3> HIDE DEF T
    <3> QED BY <2>2, Least
  <2>4. Left(A, p, c, x) > c[0]
        BY <1>3, <1>4, <2>1, <2>3 DEF At
  <2>5. Left(A, p, c, x) \in T /\ Left(A, p, c, x) < x
        BY <1>0, <1>4, <2>1, <2>3, <2>4
  <2> QED BY <1>0, <2>2, <2>3, <2>5
<1>6. d # 0
      BY <1>0
<1> QED BY <1>3, <1>4, <1>5, <1>6 DEF At

\* The calls that t evaluates have their depths, and None has none.
DepthOf(t, r) == IF r = None THEN 0 ELSE Depth(t, r)

\* The calls that t evaluates, as a request meets them.
Stacked(t) ==
  /\ pending \in [Calls -> Calls \cup {None}]
  /\ \A i, j \in AbortableAt(t) : frames[t][i].msg = frames[t][j].msg => i = j
  /\ \A i \in AbortableAt(t) : pending[frames[t][i].msg] # None =>
       \E q \in AbortableAt(t) : q < i /\ frames[t][q].msg = pending[frames[t][i].msg]
  /\ \A i, j \in AbortableAt(t) :
       pending[frames[t][i].msg] # None /\ pending[frames[t][i].msg] = pending[frames[t][j].msg] => i = j

\* The frames in which t evaluates calls are frames.
LEMMA AbortableFrames ==
  ASSUME NEW t \in Threads, Types, Stacks
  PROVE  /\ frames[t] \in Seq(Frames) /\ Len(frames[t]) \in Nat
         /\ DOMAIN frames[t] = 1 .. Len(frames[t])
         /\ \A i \in AbortableAt(t) : i \in 1 .. Len(frames[t]) /\ frames[t][i].msg \in Calls
         /\ None \notin Calls
BY LenProperties, MessagesAssumption DEF Types, AbortableAt, IsAbortable

\* A call is at its depth.
LEMMA DepthFound ==
  ASSUME NEW t \in Threads, Stacked(t), NEW i \in AbortableAt(t)
  PROVE  Depth(t, frames[t][i].msg) = i
<1>1. \E j \in AbortableAt(t) : frames[t][j].msg = frames[t][i].msg
      OBVIOUS
<1>2. PICK j \in AbortableAt(t) : j = Depth(t, frames[t][i].msg) /\ frames[t][j].msg = frames[t][i].msg
      BY <1>1 DEF Depth
<1> QED BY <1>2 DEF Stacked

\* What comes to the frames is what the definition of Comes says: such a function
\* exists.
LEMMA ComesDown ==
  ASSUME NEW t \in Threads, NEW n \in Nat, n = Len(frames[t]), NEW R, NEW m \in R,
         \A i \in 1 .. n : \A r \in R : PassedOn(t, i, r) \in R
  PROVE  /\ Comes(t, m) \in [0 .. n -> R]
         /\ Comes(t, m)[n] = m
         /\ \A i \in 0 .. n - 1 : Comes(t, m)[i] = PassedOn(t, i + 1, Comes(t, m)[i + 1])
<1> DEFINE Goes(f, k) == /\ f \in [k .. n -> R] /\ f[n] = m
                         /\ \A i \in k .. n - 1 : f[i] = PassedOn(t, i + 1, f[i + 1])
           S == {k \in 0 .. n : \E f : Goes(f, k)}
<1>1. n \in S
  <2>1. Goes([i \in n .. n |-> m], n)
        OBVIOUS
  <2>2. \E f : Goes(f, n)
    <3> HIDE DEF Goes
    <3> QED BY <2>1
  <2> HIDE DEF Goes
  <2> QED BY <2>2
<1>2. ASSUME NEW k \in 0 .. n - 1, k + 1 \in S
      PROVE  k \in S
  <2>1. PICK f : Goes(f, k + 1)
        BY <1>2
  <2> DEFINE g == [i \in k .. n |-> IF i = k THEN PassedOn(t, k + 1, f[k + 1]) ELSE f[i]]
  <2>2. f[k + 1] \in R /\ k + 1 \in 1 .. n
        BY <2>1
  <2>3. g \in [k .. n -> R]
        BY <2>1, <2>2
  <2>4. g[n] = m
        BY <2>1
  <2>5. ASSUME NEW i \in k .. n - 1
        PROVE  g[i] = PassedOn(t, i + 1, g[i + 1])
    <3>1. g[i + 1] = f[i + 1]
          OBVIOUS
    <3>2. g[i] = PassedOn(t, i + 1, f[i + 1])
      <4>1. CASE i = k
            BY <4>1
      <4>2. CASE i # k
            BY <2>1, <4>2
      <4> QED BY <4>1, <4>2
    <3> QED BY <3>1, <3>2
  <2>6. Goes(g, k)
        BY <2>3, <2>4, <2>5
  <2> HIDE DEF g, Goes
  <2> QED BY <2>6
<1>3. 0 \in S
  <2> HIDE DEF S
  <2> QED BY <1>1, <1>2, Downward
<1>4. PICK f : Goes(f, 0)
      BY <1>3
<1> DEFINE F(c) == [i \in 0 .. n |-> IF i = n THEN m ELSE PassedOn(t, i + 1, c[i + 1])]
<1>5. f = F(f)
  <2>1. ASSUME NEW i \in 0 .. n
        PROVE  f[i] = F(f)[i]
        BY <1>4
  <2> QED BY <1>4, <2>1
<1>6. Comes(t, m) = CHOOSE c : c = F(c)
      BY DEF Comes
<1>7. PICK c : c = Comes(t, m) /\ c = F(c)
      BY <1>5, <1>6
<1>8. \A k \in 0 .. n : c[k] = IF k = n THEN m ELSE PassedOn(t, k + 1, c[k + 1])
      BY <1>7
<1>9. ASSUME NEW k \in 0 .. n
      PROVE  c[k] \in R
  <2> DEFINE U == {j \in 0 .. n : \A i \in j .. n : c[i] \in R}
  <2>1. n \in U
        BY <1>8
  <2>2. ASSUME NEW j \in 0 .. n - 1, j + 1 \in U
        PROVE  j \in U
    <3>1. c[j] \in R
          BY <1>8, <2>2
    <3> QED BY <2>2, <3>1
  <2>3. 0 \in U
    <3> HIDE DEF U
    <3> QED BY <2>1, <2>2, Downward
  <2> QED BY <2>3
<1>10. c \in [0 .. n -> R]
      BY <1>7, <1>9
<1> QED BY <1>7, <1>8, <1>10

\* The depths of requests say all about them.
LEMMA PlaceNumbers ==
  ASSUME NEW t \in Threads, Types, Stacks, Stacked(t)
  PROVE  LET A == AbortableAt(t)
             R == {None} \cup {frames[t][i].msg : i \in A}
             p == [i \in A |-> DepthOf(t, pending[frames[t][i].msg])]
         IN  /\ DepthOf(t, None) = 0
             /\ \A i \in A : DepthOf(t, frames[t][i].msg) = i /\ frames[t][i].msg # None
             /\ \A r \in R : DepthOf(t, r) \in A \cup {0} /\ (DepthOf(t, r) = 0 <=> r = None)
             /\ \A q, r \in R : DepthOf(t, q) = DepthOf(t, r) => q = r
             /\ \A i \in A : pending[frames[t][i].msg] \in R
             /\ Kept(A, p)
             /\ \A i \in 1 .. Len(frames[t]) : \A r \in R :
                  /\ Takes(t, i, r) <=> TakesIn(A, p, i, DepthOf(t, r))
                  /\ PassedOn(t, i, r) \in R
                  /\ DepthOf(t, PassedOn(t, i, r)) = Passed(A, p, i, DepthOf(t, r))
<1> DEFINE A == AbortableAt(t)
           R == {None} \cup {frames[t][i].msg : i \in A}
           D(r) == DepthOf(t, r)
           p == [i \in A |-> D(pending[frames[t][i].msg])]
<1>1. /\ \A i \in A : i \in 1 .. Len(frames[t]) /\ i \in Nat /\ i # 0 /\ frames[t][i].msg \in Calls
      /\ None \notin Calls
      BY AbortableFrames
<1>2. D(None) = 0 /\ \A i \in A : D(frames[t][i].msg) = i /\ frames[t][i].msg # None
      BY <1>1, DepthFound DEF DepthOf
<1>3. \A r \in R : D(r) \in A \cup {0} /\ (D(r) = 0 <=> r = None)
      BY <1>1, <1>2
<1>4. \A q, r \in R : D(q) = D(r) => q = r
  <2> SUFFICES ASSUME NEW q \in R, NEW r \in R, D(q) = D(r) PROVE q = r
      OBVIOUS
  <2> HIDE DEF D
  <2> QED BY <1>1, <1>2
<1>5. \A i \in A : pending[frames[t][i].msg] \in R
      BY <1>1 DEF Stacked
<1>6. \A i \in A : D(pending[frames[t][i].msg]) < i
  <2> SUFFICES ASSUME NEW i \in A PROVE D(pending[frames[t][i].msg]) < i
      OBVIOUS
  <2>1. CASE pending[frames[t][i].msg] = None
        BY <1>1, <1>2, <2>1
  <2>2. CASE pending[frames[t][i].msg] # None
    <3>1. PICK q \in A : q < i /\ frames[t][q].msg = pending[frames[t][i].msg]
          BY <2>2 DEF Stacked
    <3>2. D(frames[t][q].msg) = q
          BY <1>2
    <3> QED BY <3>1, <3>2
  <2> QED BY <2>1, <2>2
<1> HIDE DEF D
<1>7. Kept(A, p)
  <2>1. p \in [A -> A \cup {0}]
        BY <1>3, <1>5
  <2>2. ASSUME NEW i \in A, NEW j \in A, p[i] # 0, p[i] = p[j]
        PROVE  i = j
    <3>1. pending[frames[t][i].msg] = pending[frames[t][j].msg] /\ pending[frames[t][i].msg] # None
          BY <1>3, <1>4, <1>5, <2>2
    <3> QED BY <3>1 DEF Stacked
  <2> QED BY <1>6, <2>1, <2>2 DEF Kept
<1>8. ASSUME NEW i \in 1 .. Len(frames[t]), NEW r \in R
      PROVE  /\ Takes(t, i, r) <=> TakesIn(A, p, i, D(r))
             /\ PassedOn(t, i, r) \in R
             /\ D(PassedOn(t, i, r)) = Passed(A, p, i, D(r))
  <2>1. PICK h : h = pending[frames[t][i].msg]
        OBVIOUS
  <2>2. i \in A => h \in R /\ p[i] = D(h)
        BY <1>5, <2>1
  <2>3. \A q \in R : q # None => D(q) = Depth(t, q)
        BY DEF D, DepthOf
  <2>4. Takes(t, i, r) <=> i \in A /\ r # None /\ Depth(t, r) < i /\ (h = None \/ Depth(t, h) < Depth(t, r))
        BY <2>1 DEF Takes
  <2>5. \A q \in R : D(q) \in Nat
        BY <1>1, <1>3
  <2>6. i \in A /\ r # None => ((h = None \/ Depth(t, h) < Depth(t, r)) <=> D(h) < D(r))
    <3>1. i \in A /\ r # None => D(r) = Depth(t, r) /\ D(r) > 0
      <4> HIDE DEF R
      <4> QED BY <1>3, <2>3, <2>5
    <3>2. i \in A /\ h = None => D(h) = 0
          BY <1>2
    <3>3. i \in A /\ h # None => D(h) = Depth(t, h)
          BY <2>2, <2>3
    <3> QED BY <3>1, <3>2, <3>3
  <2>7. Takes(t, i, r) <=> TakesIn(A, p, i, D(r))
    <3>1. r # None => D(r) = Depth(t, r) /\ D(r) # 0
          BY <1>3, <2>3
    <3>2. r = None => D(r) = 0
          BY <1>2
    <3> QED BY <2>2, <2>4, <2>6, <3>1, <3>2 DEF TakesIn
  <2>8. PassedOn(t, i, r) = IF Takes(t, i, r) THEN h ELSE IF i \in A /\ h = r THEN None ELSE r
        BY <2>1 DEF PassedOn
  <2>9. Takes(t, i, r) => i \in A
        BY <2>4
  <2>10. i \in A => (h = r <=> p[i] = D(r))
        BY <1>4, <2>2
  <2>11. PassedOn(t, i, r) \in R
        BY <2>2, <2>8, <2>9
  <2>12. CASE Takes(t, i, r)
        BY <2>2, <2>7, <2>8, <2>9, <2>11, <2>12 DEF Passed
  <2>13. CASE ~Takes(t, i, r)
        BY <1>2, <2>7, <2>8, <2>10, <2>11, <2>13 DEF Passed
  <2> QED BY <2>7, <2>11, <2>12, <2>13
<1> QED BY <1>2, <1>3, <1>4, <1>5, <1>7, <1>8 DEF D

\* A request to abort a call that is not the innermost one finds a place above
\* that call, and so do all requests that have one.
LEMMA PlaceKeeps ==
  ASSUME NEW t \in Threads, Types, Stacks, Stacked(t), NEW d \in AbortableAt(t),
         \E i \in AbortableAt(t) : i > d,
         \A i \in AbortableAt(t) : pending[frames[t][i].msg] # frames[t][d].msg
  PROVE  LET A == AbortableAt(t)
             m == frames[t][d].msg
             new == Place(t, m)
         IN  /\ new \in [Calls -> Calls \cup {None}]
             /\ \A k \in Calls : ~Evaluates(t, k) => new[k] = pending[k]
             /\ \A i \in A : new[frames[t][i].msg] # None =>
                  \E q \in A : q < i /\ frames[t][q].msg = new[frames[t][i].msg]
             /\ \A i, j \in A : new[frames[t][i].msg] # None /\ new[frames[t][i].msg] = new[frames[t][j].msg]
                  => i = j
             /\ \E i \in A : new[frames[t][i].msg] = m
             /\ \A j \in A : pending[frames[t][j].msg] # None =>
                  \E i \in A : new[frames[t][i].msg] = pending[frames[t][j].msg]
<1> DEFINE A == AbortableAt(t)
           R == {None} \cup {frames[t][i].msg : i \in A}
           D(r) == DepthOf(t, r)
           p == [i \in A |-> D(pending[frames[t][i].msg])]
           m == frames[t][d].msg
<1>1. PICK n \in Nat : n = Len(frames[t])
      BY AbortableFrames
<1>2. /\ \A i \in A : i \in 1 .. n /\ frames[t][i].msg \in Calls
      /\ None \notin Calls
      BY <1>1, AbortableFrames
<1>3. /\ D(None) = 0
      /\ \A i \in A : D(frames[t][i].msg) = i /\ frames[t][i].msg # None
      /\ \A r \in R : D(r) \in A \cup {0} /\ (D(r) = 0 <=> r = None)
      /\ \A q, r \in R : D(q) = D(r) => q = r
      /\ \A i \in A : pending[frames[t][i].msg] \in R
      /\ Kept(A, p)
      /\ \A i \in 1 .. n : \A r \in R :
           /\ Takes(t, i, r) <=> TakesIn(A, p, i, D(r))
           /\ PassedOn(t, i, r) \in R
           /\ D(PassedOn(t, i, r)) = Passed(A, p, i, D(r))
      BY <1>1, PlaceNumbers
<1> HIDE DEF D
<1>4. m \in R
      OBVIOUS
<1>5. PICK c \in [0 .. n -> R] : /\ c = Comes(t, m) /\ c[n] = m
                                 /\ \A i \in 0 .. n - 1 : c[i] = PassedOn(t, i + 1, c[i + 1])
  <2> HIDE DEF R, m
  <2>1. \A i \in 1 .. n : \A r \in R : PassedOn(t, i, r) \in R
        BY <1>3
  <2>2. /\ Comes(t, m) \in [0 .. n -> R]
        /\ Comes(t, m)[n] = m
        /\ \A i \in 0 .. n - 1 : Comes(t, m)[i] = PassedOn(t, i + 1, Comes(t, m)[i + 1])
        BY <1>1, <1>4, <2>1, ComesDown
  <2> QED BY <2>2
<1> DEFINE cn == [i \in 0 .. n |-> D(c[i])]
<1>6. Way(A, p, n, d, cn)
  <2>1. cn \in [0 .. n -> A \cup {0}]
    <3> HIDE DEF R
    <3> QED BY <1>3
  <2>2. cn[n] = d
        BY <1>3, <1>5
  <2>3. ASSUME NEW i \in 0 .. n - 1
        PROVE  cn[i] = Passed(A, p, i + 1, cn[i + 1])
    <3> HIDE DEF R, p
    <3>1. c[i + 1] \in R /\ i + 1 \in 1 .. n /\ i + 1 \in 0 .. n /\ i \in 0 .. n
          OBVIOUS
    <3> QED BY <1>3, <1>5, <3>1
  <2> QED BY <2>1, <2>2, <2>3 DEF Way
<1>7. \A i \in A : p[i] # d
      BY <1>2, <1>3
<1>8. /\ \A i \in A : Left(A, p, cn, i) \in A \cup {0} /\ Left(A, p, cn, i) < i
      /\ \A i, j \in A : Left(A, p, cn, i) # 0 /\ Left(A, p, cn, i) = Left(A, p, cn, j) => i = j
      /\ \E i \in A : Left(A, p, cn, i) = d
      /\ \A j \in A : p[j] # 0 => \E i \in A : Left(A, p, cn, i) = p[j]
  <2> HIDE DEF p, cn, R
  <2> QED BY <1>2, <1>3, <1>6, <1>7, WayEnds
<1> DEFINE new == Place(t, m)
<1>9. /\ new \in [Calls -> Calls \cup {None}]
      /\ \A k \in Calls : ~Evaluates(t, k) => new[k] = pending[k]
      /\ \A i \in A : /\ new[frames[t][i].msg] \in R
                      /\ D(new[frames[t][i].msg]) = Left(A, p, cn, i)
  <2> DEFINE left(i) == IF Takes(t, i, c[i]) THEN c[i] ELSE pending[frames[t][i].msg]
  <2>1. new = [k \in Calls |-> IF Evaluates(t, k) THEN left(Depth(t, k)) ELSE pending[k]]
        BY <1>5 DEF Place
  <2>2. \A i \in A : c[i] \in R /\ i \in 0 .. n /\ left(i) \in R
        BY <1>2, <1>3, SMTT(20)
  <2>3. \A i \in A : D(left(i)) = Left(A, p, cn, i)
        BY <1>2, <1>3, <2>2 DEF Left
  <2>4. \A i \in A : Depth(t, frames[t][i].msg) = i /\ Evaluates(t, frames[t][i].msg)
        BY DepthFound DEF Evaluates
  <2>5. R \subseteq Calls \cup {None}
        BY <1>2
  <2>6. \A i \in A : new[frames[t][i].msg] = left(i)
        BY <1>2, <2>1, <2>4
  <2>7. ASSUME NEW k \in Calls
        PROVE  (IF Evaluates(t, k) THEN left(Depth(t, k)) ELSE pending[k]) \in Calls \cup {None}
    <3>1. CASE Evaluates(t, k)
      <4>1. PICK i \in A : frames[t][i].msg = k
            BY <3>1 DEF Evaluates
      <4>2. left(i) \in Calls \cup {None} /\ Depth(t, k) = i
            BY <2>2, <2>4, <2>5, <4>1
      <4> HIDE DEF left
      <4> QED BY <3>1, <4>2
    <3>2. CASE ~Evaluates(t, k)
          BY <3>2 DEF Stacked
    <3> QED BY <3>1, <3>2
  <2> HIDE DEF left, new, R
  <2> QED BY <2>1, <2>2, <2>3, <2>6, <2>7
<1> HIDE DEF new, cn
<1>10. ASSUME NEW i \in A, new[frames[t][i].msg] # None
       PROVE  \E q \in A : q < i /\ frames[t][q].msg = new[frames[t][i].msg]
  <2>1. PICK q \in A : frames[t][q].msg = new[frames[t][i].msg]
        BY <1>9, <1>10
  <2>2. q = Left(A, p, cn, i)
        BY <1>3, <1>9, <2>1
  <2> QED BY <1>8, <2>1, <2>2
<1>11. ASSUME NEW i \in A, NEW j \in A, new[frames[t][i].msg] # None,
              new[frames[t][i].msg] = new[frames[t][j].msg]
       PROVE  i = j
  <2>1. Left(A, p, cn, i) = Left(A, p, cn, j) /\ Left(A, p, cn, i) # 0
    <3> HIDE DEF R
    <3> QED BY <1>3, <1>9, <1>11
  <2> QED BY <1>8, <2>1
<1>12. \E i \in A : new[frames[t][i].msg] = m
  <2>1. PICK i \in A : Left(A, p, cn, i) = d
        BY <1>8
  <2>2. D(new[frames[t][i].msg]) = D(m)
        BY <1>3, <1>9, <2>1
  <2> HIDE DEF R
  <2> QED BY <1>3, <1>4, <1>9, <2>2
<1>13. ASSUME NEW j \in A, pending[frames[t][j].msg] # None
       PROVE  \E i \in A : new[frames[t][i].msg] = pending[frames[t][j].msg]
  <2> HIDE DEF R
  <2>1. p[j] # 0 /\ p[j] = D(pending[frames[t][j].msg])
        BY <1>3, <1>13
  <2>2. PICK i \in A : Left(A, p, cn, i) = p[j]
        BY <1>8, <2>1
  <2>3. D(new[frames[t][i].msg]) = D(pending[frames[t][j].msg])
        BY <1>9, <2>1, <2>2
  <2> QED BY <1>3, <1>9, <2>3
<1> QED BY <1>9, <1>10, <1>11, <1>12, <1>13 DEF new

-----------------------------------------------------------------------------
(* Calls and the requests to abort them: the invariant.                    *)

\* A frame, and the frame at i of a stack s, handles the call m at a place.
HandlesFrame(f, m, w) == f.op = "handle" /\ ~f.request /\ f.msg = m /\ f.at = w
Handles(s, i, m, w) == i \in 1 .. Len(s) /\ HandlesFrame(s[i], m, w)
RunsAt(s, i, m) == i \in 1 .. Len(s) /\ RunsFrame(s[i], m)

\* A call is about to be sent, waits in a queue, or is handled, once.
AboutFrame(f, m) == f.op = "call" /\ f.at = "first" /\ f.msg = m
HoldsFrame(f, m) == f.op = "handle" /\ ~f.request /\ f.msg = m
About(s, i, m)  == i \in 1 .. Len(s) /\ AboutFrame(s[i], m)
Holds(s, i, m)  == i \in 1 .. Len(s) /\ HoldsFrame(s[i], m)
Queued(q, i, m) == i \in 1 .. Len(q) /\ q[i].msg = m /\ ~q[i].request

OnceIn(s, q, r, m) ==
  /\ \A i \in 1 .. Len(s), j \in 1 .. Len(s) : About(s, i, m) /\ About(s, j, m) => i = j
  /\ \A i \in 1 .. Len(q), j \in 1 .. Len(q) : Queued(q, i, m) /\ Queued(q, j, m) => i = j
  /\ \A i \in 1 .. Len(r), j \in 1 .. Len(r) : Holds(r, i, m) /\ Holds(r, j, m) => i = j
  /\ \A i \in 1 .. Len(s), j \in 1 .. Len(q) : ~(About(s, i, m) /\ Queued(q, j, m))
  /\ \A i \in 1 .. Len(s), j \in 1 .. Len(r) : ~(About(s, i, m) /\ Holds(r, j, m))
  /\ \A i \in 1 .. Len(q), j \in 1 .. Len(r) : ~(Queued(q, i, m) /\ Holds(r, j, m))

Once(m) == OnceIn(frames[From[m]], queue[To[m]], frames[To[m]], m)

\* A call keeps the request for one further out.
KeptAbove(k) ==
  pending[k] # None =>
    \E j \in 1 .. Len(frames[To[k]]) :
      /\ RunsAt(frames[To[k]], j, k)
      /\ \E i \in 1 .. Len(frames[To[k]]) : i < j /\ Handles(frames[To[k]], i, pending[k], "body")

\* The call m that t evaluates at i is going to end.
Covered(t, i, m) ==
  \/ exception[t] # None /\ \E j \in 1 .. i : RunsAt(frames[t], j, exception[t])
  \/ \E j \in 1 .. Len(frames[t]) : \E k \in Calls : j > i /\ RunsAt(frames[t], j, k) /\ pending[k] = m

CallsInv ==
  /\ pending \in [Calls -> Calls \cup {None}]
  /\ asked \subseteq Calls
  /\ \A m \in Calls : Once(m)
  /\ \A k \in Calls : KeptAbove(k)
  /\ \A k, l \in Calls : pending[k] # None /\ pending[k] = pending[l] => k = l
  /\ \A m \in asked : \E j \in 1 .. Len(frames[To[m]]) : RunsAt(frames[To[m]], j, m)
  /\ \A t \in Threads : \A i \in 1 .. Len(frames[t]) : \A m \in asked :
       Handles(frames[t], i, m, "body") => Covered(t, i, m)

-----------------------------------------------------------------------------
(* What a stack shows of calls.                                            *)

SameView(s, r) ==
  \A i \in Nat : \A m \in Calls :
    /\ About(s, i, m) <=> About(r, i, m)
    /\ \A w : Handles(s, i, m, w) <=> Handles(r, i, m, w)

\* A frame that does not show.
Plain(f) == \A m \in Calls : ~HoldsFrame(f, m) /\ ~AboutFrame(f, m)

\* The calls that run go on, what begins to run has not run, and a call below one
\* that runs goes on.
Steady(s, r) ==
  \A i \in Nat : \A m \in Calls :
    /\ RunsAt(s, i, m) => RunsAt(r, i, m)
    /\ Handles(r, i, m, "body") => Handles(s, i, m, "body") \/ \A j \in Nat : ~RunsAt(s, j, m)
    /\ \A j \in Nat : \A k \in Calls :
         Handles(s, i, m, "body") /\ RunsAt(s, j, k) /\ i < j => Handles(r, i, m, "body")

\* The frames of a stack that something is put on, ...
LEMMA PushElements ==
  ASSUME NEW s \in Seq(Frames), NEW f \in Frames
  PROVE  /\ Append(s, f) \in Seq(Frames) /\ Len(s) \in Nat /\ Len(Append(s, f)) = Len(s) + 1
         /\ \A i \in 1 .. Len(s) : Append(s, f)[i] = s[i]
         /\ Append(s, f)[Len(s) + 1] = f
BY AppendProperties, LenProperties

\* ... and of one the top of which is replaced.
LEMMA SetElements ==
  ASSUME NEW s \in Seq(Frames), s # <<>>, NEW f \in Frames
  PROVE  LET r == Append(Front(s), f)
         IN  /\ r \in Seq(Frames) /\ Len(s) \in Nat \ {0} /\ Len(r) = Len(s)
             /\ \A i \in 1 .. Len(s) : r[i] = IF i = Len(s) THEN f ELSE s[i]
             /\ Last(s) = s[Len(s)]
<1>1. PICK n \in Nat \ {0} : n = Len(s)
      BY FrontElements
<1>2. /\ Front(s) \in Seq(Frames) /\ Len(Front(s)) = n - 1
      /\ \A i \in 1 .. n - 1 : Front(s)[i] = s[i]
      BY <1>1, FrontElements
<1>3. PICK g \in Seq(Frames) : g = Front(s)
      BY <1>2
<1>4. PICK r : r = Append(g, f)
      OBVIOUS
<1>5. /\ r \in Seq(Frames) /\ Len(r) = n
      /\ \A i \in 1 .. n - 1 : r[i] = g[i]
      /\ r[n] = f
      BY <1>1, <1>2, <1>3, <1>4, PushElements
<1> QED BY <1>1, <1>2, <1>3, <1>4, <1>5 DEF Last

\* Frames that do not show come, ...
LEMMA PlainPush ==
  ASSUME NEW s \in Seq(Frames), NEW f \in Frames, Plain(f)
  PROVE  SameView(s, Append(s, f))
<1>1. PICK n, r : n \in Nat /\ n = Len(s) /\ r = Append(s, f)
      BY PushElements
<1>2. /\ Len(r) = n + 1 /\ r[n + 1] = f
      /\ \A i \in 1 .. n : r[i] = s[i]
      BY <1>1, PushElements
<1>3. \A i \in Nat : i \in 1 .. n + 1 <=> i \in 1 .. n \/ i = n + 1
      BY <1>1
<1>4. \A m \in Calls : ~AboutFrame(f, m) /\ \A w : ~HandlesFrame(f, m, w)
      BY DEF Plain, HoldsFrame, HandlesFrame
<1> SUFFICES ASSUME NEW i \in Nat, NEW m \in Calls
             PROVE  /\ About(s, i, m) <=> About(r, i, m)
                    /\ \A w : Handles(s, i, m, w) <=> Handles(r, i, m, w)
    BY <1>1 DEF SameView
<1>5. CASE i = n + 1
      BY <1>1, <1>2, <1>4, <1>5 DEF About, Handles
<1>6. CASE i # n + 1
      BY <1>1, <1>2, <1>3, <1>6 DEF About, Handles
<1> QED BY <1>5, <1>6

\* ... go ...
LEMMA PlainPop ==
  ASSUME NEW s \in Seq(Frames), s # <<>>, Plain(Last(s))
  PROVE  SameView(s, Front(s))
<1>1. PICK n, r : n \in Nat \ {0} /\ n = Len(s) /\ r = Front(s)
      BY FrontElements
<1>2. /\ Len(r) = n - 1 /\ Last(s) = s[n]
      /\ \A i \in 1 .. n - 1 : r[i] = s[i]
      BY <1>1, FrontElements DEF Last
<1>3. \A i \in Nat : i \in 1 .. n <=> i \in 1 .. n - 1 \/ i = n
      BY <1>1
<1>4. \A m \in Calls : ~AboutFrame(s[n], m) /\ \A w : ~HandlesFrame(s[n], m, w)
      BY <1>2 DEF Plain, HoldsFrame, HandlesFrame
<1> SUFFICES ASSUME NEW i \in Nat, NEW m \in Calls
             PROVE  /\ About(s, i, m) <=> About(r, i, m)
                    /\ \A w : Handles(s, i, m, w) <=> Handles(r, i, m, w)
    BY <1>1 DEF SameView
<1>5. CASE i = n
      BY <1>1, <1>2, <1>4, <1>5 DEF About, Handles
<1>6. CASE i # n
      BY <1>1, <1>2, <1>3, <1>6 DEF About, Handles
<1> QED BY <1>5, <1>6

\* ... and change without being seen.
LEMMA PlainSet ==
  ASSUME NEW s \in Seq(Frames), s # <<>>, Plain(Last(s)), NEW f \in Frames, Plain(f)
  PROVE  SameView(s, Append(Front(s), f))
<1>1. PICK g \in Seq(Frames) : g = Front(s)
      BY FrontElements
<1>2. SameView(s, g)
      BY <1>1, PlainPop
<1>3. SameView(g, Append(g, f))
      BY PlainPush
<1> QED BY <1>1, <1>2, <1>3 DEF SameView

\* Showing the same is transitive ...
LEMMA SameTrans ==
  ASSUME NEW s, NEW r, NEW q, SameView(s, r), SameView(r, q)
  PROVE  SameView(s, q)
BY DEF SameView

\* ... and reflexive.
LEMMA SameSelf ==
  ASSUME NEW s
  PROVE  SameView(s, s)
BY DEF SameView

\* Whoever handles a call is at some place with it.
LEMMA HoldsPlaces ==
  ASSUME NEW s, NEW i \in Nat, NEW m \in Calls
  PROVE  /\ Holds(s, i, m) <=> \E w : Handles(s, i, m, w)
         /\ RunsAt(s, i, m) <=> Handles(s, i, m, "body") \/ Handles(s, i, m, "catch")
         /\ \A w : Handles(s, i, m, w) => Holds(s, i, m)
<1>1. Holds(s, i, m) => Handles(s, i, m, s[i].at)
      BY DEF Holds, HoldsFrame, Handles, HandlesFrame
<1>2. \A w : Handles(s, i, m, w) => Holds(s, i, m)
      BY DEF Holds, HoldsFrame, Handles, HandlesFrame
<1>3. RunsAt(s, i, m) <=> Handles(s, i, m, "body") \/ Handles(s, i, m, "catch")
      BY DEF RunsAt, RunsFrame, Handles, HandlesFrame
<1> QED BY <1>1, <1>2, <1>3

\* Stacks that show the same have the same calls.
LEMMA SameSteady ==
  ASSUME NEW s, NEW r, SameView(s, r)
  PROVE  /\ Steady(s, r)
         /\ \A i \in Nat : \A m \in Calls : (Holds(s, i, m) <=> Holds(r, i, m)) /\ (RunsAt(s, i, m) <=> RunsAt(r, i, m))
<1>1. ASSUME NEW i \in Nat, NEW m \in Calls
      PROVE  /\ Holds(s, i, m) <=> Holds(r, i, m)
             /\ RunsAt(s, i, m) <=> RunsAt(r, i, m)
             /\ Handles(s, i, m, "body") <=> Handles(r, i, m, "body")
      BY HoldsPlaces DEF SameView
<1> QED BY <1>1 DEF Steady

\* Whose stack it is.
LEMMA Owner ==
  ASSUME NEW t \in Threads, NEW s \in Seq(Frames), StackOK(t, s), NEW i \in Nat, NEW m \in Calls
  PROVE  /\ About(s, i, m) => From[m] = t
         /\ Holds(s, i, m) \/ RunsAt(s, i, m) => To[m] = t
         /\ \A w : Handles(s, i, m, w) => To[m] = t
         /\ Handles(s, i, m, "catch") => i = Len(s)
<1>0. m \in Msgs /\ m # None /\ Len(s) \in Nat
      BY MessagesAssumption, LenProperties
<1>1. ASSUME i \in 1 .. Len(s)
      PROVE  s[i] \in Frames /\ FrameOK(t, s[i]) /\ (i < Len(s) => Below(s[i], s[i + 1]))
      BY <1>1, ElementOfSeq DEF StackOK
<1>2. About(s, i, m) => From[m] = t
      BY <1>1 DEF About, AboutFrame, FrameOK
<1>3. Handles(s, i, m, "catch") => i = Len(s)
      BY <1>0, <1>1 DEF Handles, HandlesFrame, Below
<1>4. Holds(s, i, m) => To[m] = t
      BY <1>0, <1>1 DEF Holds, HoldsFrame, FrameOK
<1> QED BY <1>2, <1>3, <1>4, HoldsPlaces

-----------------------------------------------------------------------------
(* Steps that change nothing about calls.                                  *)

\* Numbers that are no positions show nothing.
LEMMA OnceMeans ==
  ASSUME NEW s, NEW q, NEW r, NEW m
  PROVE  OnceIn(s, q, r, m) <=>
           \A i \in Nat, j \in Nat :
             /\ About(s, i, m) /\ About(s, j, m) => i = j
             /\ Queued(q, i, m) /\ Queued(q, j, m) => i = j
             /\ Holds(r, i, m) /\ Holds(r, j, m) => i = j
             /\ ~(About(s, i, m) /\ Queued(q, j, m))
             /\ ~(About(s, i, m) /\ Holds(r, j, m))
             /\ ~(Queued(q, i, m) /\ Holds(r, j, m))
<1>1. \A i : /\ About(s, i, m) => i \in 1 .. Len(s)
             /\ Queued(q, i, m) => i \in 1 .. Len(q)
             /\ Holds(r, i, m) => i \in 1 .. Len(r)
      BY DEF About, Queued, Holds
<1>2. \A n, i : i \in 1 .. n => i \in Nat
      OBVIOUS
<1> QED BY <1>1, <1>2 DEF OnceIn

\* A queue gets nothing new about calls, and may lose its first entry.
QueueKeeps(q, r, m) == \E e \in {0, 1} : \A i \in Nat : Queued(r, i, m) => Queued(q, i + e, m)

QueueSteady(q, r) == \A m \in Calls : QueueKeeps(q, r, m)

\* A call that is seen once is so when less of it is seen.
LEMMA OnceStays ==
  ASSUME NEW m \in Calls, NEW s, NEW q, NEW r, OnceIn(s, q, r, m), NEW s1, NEW q1, NEW r1,
         \A i \in Nat : About(s1, i, m) => About(s, i, m),
         QueueKeeps(q, q1, m),
         \A i \in Nat : Holds(r1, i, m) => Holds(r, i, m)
  PROVE  OnceIn(s1, q1, r1, m)
<1>1. PICK e \in {0, 1} : \A i \in Nat : Queued(q1, i, m) => Queued(q, i + e, m)
      BY DEF QueueKeeps
<1>2. \A i \in Nat, j \in Nat : i + e \in Nat /\ (i + e = j + e => i = j)
      OBVIOUS
<1>3. \A i \in Nat, j \in Nat :
        /\ About(s, i, m) /\ About(s, j, m) => i = j
        /\ Queued(q, i, m) /\ Queued(q, j, m) => i = j
        /\ Holds(r, i, m) /\ Holds(r, j, m) => i = j
        /\ ~(About(s, i, m) /\ Queued(q, j, m))
        /\ ~(About(s, i, m) /\ Holds(r, j, m))
        /\ ~(Queued(q, i, m) /\ Holds(r, j, m))
      BY OnceMeans
<1> SUFFICES ASSUME NEW i \in Nat, NEW j \in Nat
             PROVE  /\ About(s1, i, m) /\ About(s1, j, m) => i = j
                    /\ Queued(q1, i, m) /\ Queued(q1, j, m) => i = j
                    /\ Holds(r1, i, m) /\ Holds(r1, j, m) => i = j
                    /\ ~(About(s1, i, m) /\ Queued(q1, j, m))
                    /\ ~(About(s1, i, m) /\ Holds(r1, j, m))
                    /\ ~(Queued(q1, i, m) /\ Holds(r1, j, m))
    BY OnceMeans
<1>4. i + e \in Nat /\ j + e \in Nat
      OBVIOUS
<1> QED BY <1>1, <1>2, <1>3, <1>4

\* The invariant holds as long as nobody asks for anything, calls go on and each is seen once.
LEMMA KStep ==
  ASSUME IInv, IInv', CallsInv, UNCHANGED <<pending, exception, asked>>,
         \A u \in Threads : Steady(frames[u], frames'[u]),
         \A m \in Calls : Once(m)'
  PROVE  CallsInv'
<1>0. \A m \in Calls : m \in Msgs /\ To[m] \in Threads /\ From[m] \in Threads /\ m # None
      BY MessagesAssumption
<1>1. ASSUME NEW u \in Threads
      PROVE  /\ \A i \in Nat : \A m \in Calls : RunsAt(frames[u], i, m) => RunsAt(frames'[u], i, m)
             /\ \A i \in Nat : \A m \in Calls : Handles(frames'[u], i, m, "body") =>
                  Handles(frames[u], i, m, "body") \/ \A j \in Nat : ~RunsAt(frames[u], j, m)
             /\ \A i \in Nat, j \in Nat : \A m \in Calls, k \in Calls :
                  Handles(frames[u], i, m, "body") /\ RunsAt(frames[u], j, k) /\ i < j
                    => Handles(frames'[u], i, m, "body")
      BY DEF Steady
<1>2. \A n, i : i \in 1 .. n => i \in Nat
      OBVIOUS
<1>3. \A s, i, m : RunsAt(s, i, m) => i \in 1 .. Len(s)
      BY DEF RunsAt
<1>4. \A s, i, m, w : Handles(s, i, m, w) => i \in 1 .. Len(s)
      BY DEF Handles
<1>5. pending' \in [Calls -> Calls \cup {None}] /\ asked' \subseteq Calls
      BY DEF CallsInv
<1>6. \A k \in Calls, l \in Calls : pending'[k] # None /\ pending'[k] = pending'[l] => k = l
      BY DEF CallsInv
<1>7. ASSUME NEW k \in Calls, pending[k] # None
      PROVE  \E j \in 1 .. Len(frames'[To[k]]) :
               /\ RunsAt(frames'[To[k]], j, k)
               /\ \E i \in 1 .. Len(frames'[To[k]]) : i < j /\ Handles(frames'[To[k]], i, pending[k], "body")
  <2>1. pending[k] \in Calls /\ To[k] \in Threads
        BY <1>0, <1>7 DEF CallsInv
  <2>2. PICK j \in 1 .. Len(frames[To[k]]) :
          /\ RunsAt(frames[To[k]], j, k)
          /\ \E i \in 1 .. Len(frames[To[k]]) : i < j /\ Handles(frames[To[k]], i, pending[k], "body")
        BY <1>7 DEF CallsInv, KeptAbove
  <2>3. PICK i \in 1 .. Len(frames[To[k]]) : i < j /\ Handles(frames[To[k]], i, pending[k], "body")
        BY <2>2
  <2>4. i \in Nat /\ j \in Nat
        BY <1>2
  <2>5. RunsAt(frames'[To[k]], j, k) /\ Handles(frames'[To[k]], i, pending[k], "body")
        BY <1>1, <2>1, <2>2, <2>3, <2>4
  <2> QED BY <1>3, <1>4, <2>3, <2>5
<1>8. \A k \in Calls : KeptAbove(k)'
      BY <1>7 DEF KeptAbove
<1>9. ASSUME NEW m \in asked
      PROVE  \E j \in 1 .. Len(frames'[To[m]]) : RunsAt(frames'[To[m]], j, m)
  <2>1. PICK j \in 1 .. Len(frames[To[m]]) : RunsAt(frames[To[m]], j, m)
        BY DEF CallsInv
  <2>2. m \in Calls /\ To[m] \in Threads /\ j \in Nat
        BY <1>0, <1>2 DEF CallsInv
  <2>3. RunsAt(frames'[To[m]], j, m)
        BY <1>1, <2>1, <2>2
  <2> QED BY <1>3, <2>3
<1>10. ASSUME NEW t \in Threads, NEW i \in 1 .. Len(frames'[t]), NEW m \in asked,
              Handles(frames'[t], i, m, "body")
       PROVE  Covered(t, i, m)'
  <2>1. m \in Calls /\ i \in Nat
        BY <1>2 DEF CallsInv
  <2>2. To[m] = t
    <3>1. frames'[t] \in Seq(Frames) /\ StackOK(t, frames'[t])
          BY DEF IInv, Types, Stacks
    <3> QED BY <1>10, <2>1, <3>1, Owner
  <2>3. PICK j \in Nat : RunsAt(frames[t], j, m)
        BY <1>2, <2>2 DEF CallsInv
  <2>4. Handles(frames[t], i, m, "body")
        BY <1>1, <1>10, <2>1, <2>3
  <2>5. Covered(t, i, m)
        BY <1>4, <2>4 DEF CallsInv
  <2>6. CASE exception[t] # None /\ \E l \in 1 .. i : RunsAt(frames[t], l, exception[t])
    <3>1. PICK l \in 1 .. i : RunsAt(frames[t], l, exception[t])
          BY <2>6
    <3>2. exception[t] \in Calls /\ l \in Nat
          BY <1>2, <2>6 DEF IInv, Types
    <3>3. RunsAt(frames'[t], l, exception[t])
          BY <1>1, <3>1, <3>2
    <3> QED BY <2>6, <3>3 DEF Covered
  <2>7. CASE \E l \in 1 .. Len(frames[t]) : \E k \in Calls : l > i /\ RunsAt(frames[t], l, k) /\ pending[k] = m
    <3>1. PICK l \in 1 .. Len(frames[t]), k \in Calls : l > i /\ RunsAt(frames[t], l, k) /\ pending[k] = m
          BY <2>7
    <3>2. RunsAt(frames'[t], l, k) /\ l \in 1 .. Len(frames'[t])
          BY <1>1, <1>2, <1>3, <3>1
    <3> QED BY <3>1, <3>2 DEF Covered
  <2> QED BY <2>5, <2>6, <2>7 DEF Covered
<1> QED BY <1>5, <1>6, <1>8, <1>9, <1>10 DEF CallsInv

\* Nobody's calls change.
LEMMA KSame ==
  ASSUME IInv, IInv', CallsInv, UNCHANGED <<pending, exception, asked>>,
         \A u \in Threads : SameView(frames[u], frames'[u]),
         \A u \in Threads : QueueSteady(queue[u], queue'[u])
  PROVE  CallsInv'
<1>1. \A u \in Threads : Steady(frames[u], frames'[u])
      BY SameSteady
<1>2. ASSUME NEW m \in Calls PROVE Once(m)'
  <2>1. To[m] \in Threads /\ From[m] \in Threads
        BY MessagesAssumption
  <2>2. OnceIn(frames[From[m]], queue[To[m]], frames[To[m]], m)
        BY DEF CallsInv, Once
  <2>3. \A i \in Nat : About(frames'[From[m]], i, m) => About(frames[From[m]], i, m)
        BY <2>1 DEF SameView
  <2>4. \A i \in Nat : Holds(frames'[To[m]], i, m) => Holds(frames[To[m]], i, m)
        BY <2>1, SameSteady
  <2>5. QueueKeeps(queue[To[m]], queue'[To[m]], m)
        BY <2>1 DEF QueueSteady
  <2>6. OnceIn(frames'[From[m]], queue'[To[m]], frames'[To[m]], m)
        BY <2>2, <2>3, <2>4, <2>5, OnceStays
  <2> QED BY <2>6 DEF Once
<1> QED BY <1>1, <1>2, KStep

\* A frame that handles no call and is not about to send one.
LEMMA PlainAt ==
  ASSUME NEW t \in Threads, Types, Stacks, NEW w, AtTop(t, w),
         w \notin {"first", "uncount", "body", "catch", "wake"}
  PROVE  Plain(Top(t))
<1>1. Top(t) \in Frames /\ FrameOK(t, Top(t)) /\ Top(t).at = w
      BY AtPlaces
<1>2. \A m \in Calls : m # None
      BY MessagesAssumption
<1> QED BY <1>1, <1>2 DEF Plain, FrameOK, HoldsFrame, AboutFrame

\* What is not about calls does not show, ...
LEMMA PlainKinds ==
  ASSUME NEW f,
         f.op # "handle" \/ f.request \/ f.msg \notin Calls,
         f.op # "call" \/ f.at # "first"
  PROVE  Plain(f)
BY DEF Plain, HoldsFrame, AboutFrame

\* ... nor does a thread that looks for messages.
LEMMA HandlingPlain == Plain(Handling) /\ Handling \in Frames
BY MessagesAssumption DEF Plain, HoldsFrame, AboutFrame, Handling, Frame, Frames, Places

\* An operation that does not show goes on.
LEMMA GoingView ==
  ASSUME NEW t \in Threads, Types, Stacks, frames[t] # <<>>, NEW w \in Places \ {"first"}, Plain(Top(t))
  PROVE  SameView(frames[t], Going(t, w)) /\ Going(t, w) \in Seq(Frames)
<1>1. frames[t] \in Seq(Frames) /\ StackOK(t, frames[t])
      BY DEF Types, Stacks
<1>2. Last(frames[t]) \in Frames /\ Top(t) = Last(frames[t])
      BY <1>1, TopOfStack DEF Top
<1>3. PICK f : f = [Top(t) EXCEPT !.at = w]
      OBVIOUS
<1>4. /\ f \in Frames /\ f.at = w /\ f.op = Top(t).op /\ f.msg = Top(t).msg
      /\ f.request = Top(t).request
      BY <1>2, <1>3 DEF Frames
<1>5. Plain(f)
      BY <1>4 DEF Plain, HoldsFrame, AboutFrame
<1>6. SameView(frames[t], Append(Front(frames[t]), f)) /\ Append(Front(frames[t]), f) \in Seq(Frames)
      BY <1>1, <1>2, <1>4, <1>5, PlainSet, SetElements
<1> QED BY <1>3, <1>6 DEF Going

\* Somebody is woken up.
LEMMA WokenView ==
  ASSUME NEW u \in Threads, Types, Stacks
  PROVE  SameView(frames[u], Woken(u))
<1>1. CASE AtTop(u, "asleep")
  <2>1. Plain(Top(u))
        BY <1>1, PlainAt
  <2>2. frames[u] # <<>> /\ "leave" \in Places \ {"first"}
        BY <1>1 DEF AtTop, Places
  <2> QED BY <1>1, <2>1, <2>2, GoingView DEF Woken
<1>2. CASE ~AtTop(u, "asleep")
      BY <1>2, SameSelf DEF Woken
<1> QED BY <1>1, <1>2

\* A queue stays.
LEMMA QueueSame ==
  ASSUME NEW q
  PROVE  QueueSteady(q, q)
<1>1. \A i \in Nat : i + 0 = i
      OBVIOUS
<1> QED BY <1>1 DEF QueueSteady, QueueKeeps

\* What is put into a queue is at its end.
LEMMA QueuePushed ==
  ASSUME NEW q \in Seq(Entry), NEW e \in Entry
  PROVE  \A i \in Nat : \A m \in Calls :
           Queued(Append(q, e), i, m) <=> Queued(q, i, m) \/ (i = Len(q) + 1 /\ m = e.msg /\ ~e.request)
<1>1. PICK l, q1 : l \in Nat /\ l = Len(q) /\ q1 = Append(q, e)
      BY LenProperties
<1>2. /\ Len(q1) = l + 1 /\ q1[l + 1] = e
      /\ \A i \in 1 .. l : q1[i] = q[i]
      BY <1>1, AppendProperties
<1>3. \A i \in Nat : i \in 1 .. l + 1 <=> i \in 1 .. l \/ i = l + 1
      BY <1>1
<1> SUFFICES ASSUME NEW i \in Nat, NEW m \in Calls
             PROVE  Queued(q1, i, m) <=> Queued(q, i, m) \/ (i = l + 1 /\ m = e.msg /\ ~e.request)
    BY <1>1
<1>4. CASE i = l + 1
  <2>1. i \notin 1 .. l /\ i \in 1 .. l + 1
        BY <1>1, <1>4
  <2> QED BY <1>1, <1>2, <1>4, <2>1 DEF Queued
<1>5. CASE i # l + 1
      BY <1>1, <1>2, <1>3, <1>5 DEF Queued
<1> QED BY <1>4, <1>5

\* Where a message is put.
LEMMA PushQueues ==
  ASSUME Types, NEW n \in Msgs, NEW r \in BOOLEAN, Push(n, r)
  PROVE  /\ \A u \in Threads \ {To[n]} : queue'[u] = queue[u]
         /\ To[n] \in Threads /\ queue[To[n]] \in Seq(Entry)
         /\ \A i \in Nat : \A m \in Calls :
              Queued(queue'[To[n]], i, m) <=> Queued(queue[To[n]], i, m) \/ (i = Len(queue[To[n]]) + 1 /\ m = n /\ ~r)
<1>1. To[n] \in Threads /\ queue[To[n]] \in Seq(Entry)
      BY MessagesAssumption DEF Types
<1>2. PICK e \in Entry : e = [msg |-> n, request |-> r] /\ e.msg = n /\ (e.request <=> r)
  <2>1. PICK e : e = [msg |-> n, request |-> r]
        OBVIOUS
  <2>2. e \in Entry /\ e.msg = n
        BY <2>1 DEF Entry
  <2>3. CASE r = TRUE
        BY <2>1, <2>2, <2>3
  <2>4. CASE r = FALSE
        BY <2>1, <2>2, <2>4
  <2> QED BY <2>3, <2>4
<1>3. queue' = [queue EXCEPT ![To[n]] = Append(queue[To[n]], e)]
      BY <1>2 DEF Push
<1>4. queue'[To[n]] = Append(queue[To[n]], e) /\ \A u \in Threads \ {To[n]} : queue'[u] = queue[u]
      BY <1>1, <1>3 DEF Types
<1>5. PICK q \in Seq(Entry) : q = queue[To[n]]
      BY <1>1
<1>6. \A i \in Nat : \A m \in Calls :
        Queued(Append(q, e), i, m) <=> Queued(q, i, m) \/ (i = Len(q) + 1 /\ m = e.msg /\ ~e.request)
      BY QueuePushed
<1> QED BY <1>1, <1>2, <1>4, <1>5, <1>6

\* A message that is no call comes to a queue.
LEMMA PushSteady ==
  ASSUME Types, NEW n \in Msgs, NEW r \in BOOLEAN, Push(n, r), r \/ n \notin Calls
  PROVE  \A u \in Threads : QueueSteady(queue[u], queue'[u])
<1>1. ASSUME NEW u \in Threads, u # To[n] PROVE QueueSteady(queue[u], queue'[u])
  <2>1. queue'[u] = queue[u]
        BY <1>1, PushQueues
  <2> QED BY <2>1, QueueSame
<1>2. QueueSteady(queue[To[n]], queue'[To[n]])
  <2>1. \A i \in Nat : \A m \in Calls : Queued(queue'[To[n]], i, m) => Queued(queue[To[n]], i, m)
        BY PushQueues
  <2>2. \A i \in Nat : i + 0 = i
        OBVIOUS
  <2> QED BY <2>1, <2>2 DEF QueueSteady, QueueKeeps
<1> QED BY <1>1, <1>2

\* One thread goes on with something else than calls.
LEMMA KOneOfQueue ==
  ASSUME IInv, IInv', CallsInv, UNCHANGED <<pending, exception, asked>>,
         \A u \in Threads : QueueSteady(queue[u], queue'[u]),
         NEW t \in Threads, NEW s, SameView(frames[t], s), frames' = [frames EXCEPT ![t] = s]
  PROVE  CallsInv'
<1>1. ASSUME NEW u \in Threads PROVE SameView(frames[u], frames'[u])
  <2>1. frames'[u] = IF u = t THEN s ELSE frames[u]
        BY IInvTypes
  <2> QED BY <2>1, SameSelf
<1> QED BY <1>1, KSame

\* The same, when the queues stay: ...
LEMMA KOne ==
  ASSUME IInv, IInv', CallsInv, UNCHANGED <<queue, pending, exception, asked>>,
         NEW t \in Threads, NEW s, SameView(frames[t], s), frames' = [frames EXCEPT ![t] = s]
  PROVE  CallsInv'
<1>1. \A u \in Threads : QueueSteady(queue[u], queue'[u])
      BY QueueSame
<1> QED BY <1>1, KOneOfQueue

\* ... the operation on the top goes on, ...
LEMMA KGoes ==
  ASSUME IInv, IInv', CallsInv, UNCHANGED <<queue, pending, exception, asked>>,
         NEW t \in Threads, NEW w \in Places \ {"first"}, frames[t] # <<>>, Plain(Top(t)), Goto(t, w)
  PROVE  CallsInv'
<1>1. SameView(frames[t], Going(t, w)) /\ frames' = [frames EXCEPT ![t] = Going(t, w)]
      BY IInvTypes, GoingView DEF Goto
<1>2. PICK s : s = Going(t, w)
      OBVIOUS
<1> QED BY <1>1, <1>2, KOne

\* ... ends, ...
LEMMA KEnds ==
  ASSUME IInv, IInv', CallsInv, UNCHANGED <<queue, pending, exception, asked>>,
         NEW t \in Threads, frames[t] # <<>>, Plain(Top(t)), End(t)
  PROVE  CallsInv'
<1>1. frames[t] \in Seq(Frames) /\ Top(t) = Last(frames[t])
      BY IInvTypes DEF Types, Top
<1>2. SameView(frames[t], Front(frames[t])) /\ frames' = [frames EXCEPT ![t] = Front(frames[t])]
      BY <1>1, PlainPop DEF End
<1>3. PICK s : s = Front(frames[t])
      OBVIOUS
<1> QED BY <1>2, <1>3, KOne

\* ... begins another one, ...
LEMMA KBegins ==
  ASSUME IInv, IInv', CallsInv, UNCHANGED <<queue, pending, exception, asked>>,
         NEW t \in Threads, NEW f \in Frames, Plain(f), Begin(t, f)
  PROVE  CallsInv'
<1>1. frames[t] \in Seq(Frames)
      BY IInvTypes DEF Types
<1>2. SameView(frames[t], Append(frames[t], f)) /\ frames' = [frames EXCEPT ![t] = Append(frames[t], f)]
      BY <1>1, PlainPush DEF Begin
<1>3. PICK s : s = Append(frames[t], f)
      OBVIOUS
<1> QED BY <1>2, <1>3, KOne

\* ... is followed by another one.
LEMMA KFollows ==
  ASSUME IInv, IInv', CallsInv, UNCHANGED <<queue, pending, exception, asked>>,
         NEW t \in Threads, frames[t] # <<>>, Plain(Top(t)), NEW f \in Frames, Plain(f),
         frames' = [frames EXCEPT ![t] = Append(Front(@), f)]
  PROVE  CallsInv'
<1>1. frames[t] \in Seq(Frames) /\ Top(t) = Last(frames[t])
      BY IInvTypes DEF Types, Top
<1>2. SameView(frames[t], Append(Front(frames[t]), f))
      BY <1>1, PlainSet
<1>3. PICK s : s = Append(Front(frames[t]), f)
      OBVIOUS
<1> QED BY <1>2, <1>3, KOne

\* The frame on top.
LEMMA TopFrame ==
  ASSUME IInv, NEW t \in Threads, NEW o, NEW w, In(t, o, w)
  PROVE  AtTop(t, w) /\ frames[t] # <<>> /\ Top(t) \in Frames /\ FrameOK(t, Top(t))
         /\ Top(t).op = o /\ Top(t).at = w /\ Top(t) = Last(frames[t]) /\ frames[t] \in Seq(Frames)
BY IInvTypes, AtPlaces DEF In, AtTop, Types

\* Sleeping and waking up.
LEMMA KSleeps ==
  ASSUME IInv, IInv', CallsInv, NEW t \in Threads,
         Count(t) \/ Enter(t) \/ Wait(t) \/ Doze(t) \/ StayAwake(t) \/ AwakeEarly(t)
  PROVE  CallsInv'
<1>1. UNCHANGED <<queue, pending, exception, asked>>
      BY DEF Count, Enter, Wait, Doze, StayAwake, AwakeEarly
<1>2. PICK w \in {"count", "enter", "event", "test", "asleep"} : AtTop(t, w)
      BY DEF Count, Enter, Wait, Doze, StayAwake, AwakeEarly, In, AtTop
<1>3. frames[t] # <<>> /\ Plain(Top(t))
      BY <1>2, IInvTypes, PlainAt DEF AtTop
<1>4. \/ \E to \in {"signal", "event", "asleep", "leave", "enter"} : Goto(t, to)
      \/ End(t)
      BY DEF Count, Enter, Wait, Doze, StayAwake, AwakeEarly
<1>5. {"signal", "event", "asleep", "leave", "enter"} \subseteq Places \ {"first"}
      BY DEF Places
<1> QED BY <1>1, <1>3, <1>4, <1>5, KGoes, KEnds

\* A thread that slept looks for messages or for its answer.
LEMMA KLeave ==
  ASSUME IInv, IInv', CallsInv, NEW t \in Threads, Leave(t)
  PROVE  CallsInv'
<1>1. UNCHANGED <<queue, pending, exception, asked>>
      BY DEF Leave
<1>2. frames[t] # <<>> /\ Plain(Top(t))
  <2>1. AtTop(t, "leave")
        BY DEF Leave
  <2> QED BY <2>1, IInvTypes, PlainAt DEF AtTop
<1>3. \/ Goto(t, "read")
      \/ frames' = [frames EXCEPT ![t] = Append(Front(@), Handling)]
      BY IInvTypes DEF Leave, Goto, Types
<1>4. "read" \in Places \ {"first"}
      BY DEF Places
<1> QED BY <1>1, <1>2, <1>3, <1>4, KGoes, KFollows, HandlingPlain

\* Code sleeps by itself.
LEMMA KSleep ==
  ASSUME IInv, IInv', CallsInv, NEW t \in Threads, Sleep(t)
  PROVE  CallsInv'
<1>1. UNCHANGED <<queue, pending, exception, asked>>
      BY DEF Sleep
<1>2. PICK f : f = Frame("sleep", None, FALSE, "test")
      OBVIOUS
<1>3. f \in Frames /\ Plain(f)
      BY <1>2 DEF Frame, Frames, Places, Plain, HoldsFrame, AboutFrame
<1>4. PICK s \in Seq(Frames) : s = Append(frames[t], f) /\ SameView(frames[t], s)
  <2>1. frames[t] \in Seq(Frames)
        BY IInvTypes DEF Types
  <2> QED BY <1>3, <2>1, PlainPush, PushElements
<1>5. PICK r : r = Append(s, Handling) /\ SameView(frames[t], r)
  <2>1. SameView(s, Append(s, Handling))
        BY HandlingPlain, PlainPush
  <2> QED BY <1>4, <2>1, SameTrans
<1>6. frames' = [frames EXCEPT ![t] = s] \/ frames' = [frames EXCEPT ![t] = r]
      BY <1>2, <1>4, <1>5 DEF Sleep
<1> QED BY <1>1, <1>4, <1>5, <1>6, KOne

\* Looking for messages and answers; a message that is no call ends.
LEMMA KLoops ==
  ASSUME IInv, IInv', CallsInv, NEW t \in Threads, Check(t) \/ Read(t) \/ Look(t) \/ EndPlain(t)
  PROVE  CallsInv'
<1>1. UNCHANGED <<queue, pending, exception, asked>>
      BY DEF Check, Read, Look, EndPlain
<1>2. CASE Check(t)
  <2>1. /\ In(t, "call", "check")
        /\ frames' = [frames EXCEPT ![t] = Append(Going(t, "test"), Handling)]
        BY <1>2 DEF Check
  <2>2. frames[t] # <<>> /\ AtTop(t, "check")
        BY <2>1 DEF In, AtTop
  <2>3. "test" \in Places \ {"first"}
        BY DEF Places
  <2>4. PICK s \in Seq(Frames) : s = Going(t, "test") /\ SameView(frames[t], s)
        BY <2>2, <2>3, IInvTypes, PlainAt, GoingView
  <2>5. PICK r : r = Append(s, Handling) /\ SameView(s, r)
        BY HandlingPlain, PlainPush
  <2>6. SameView(frames[t], r)
        BY <2>4, <2>5, SameTrans
  <2>7. frames' = [frames EXCEPT ![t] = r]
        BY <2>1, <2>4, <2>5
  <2> QED BY <1>1, <2>6, <2>7, KOne
<1>3. CASE Read(t)
  <2>1. In(t, "call", "read") /\ (End(t) \/ Goto(t, "check"))
        BY <1>3 DEF Read
  <2>2. frames[t] # <<>> /\ Plain(Top(t))
        BY <2>1, TopFrame, IInvTypes, PlainAt
  <2>3. "check" \in Places \ {"first"}
        BY DEF Places
  <2> QED BY <1>1, <2>1, <2>2, <2>3, KGoes, KEnds
<1>4. CASE Look(t)
      BY <1>1, <1>4, HandlingPlain, KBegins DEF Look
<1>5. CASE EndPlain(t)
  <2>1. /\ In(t, "handle", "body") /\ Top(t).msg \notin Calls
        /\ frames' = [frames EXCEPT ![t] = Append(Front(@), Handling)]
        BY <1>5 DEF EndPlain, Again
  <2>2. frames[t] # <<>> /\ Plain(Top(t))
        BY <2>1, TopFrame, PlainKinds
  <2> QED BY <1>1, <2>1, <2>2, HandlingPlain, KFollows
<1> QED BY <1>2, <1>3, <1>4, <1>5

\* Somebody goes on and wakes up somebody else.
LEMMA KWakes ==
  ASSUME IInv, IInv', CallsInv, UNCHANGED <<queue, pending, exception, asked>>,
         NEW t \in Threads, NEW u \in Threads, t # u, NEW s, SameView(frames[t], s),
         frames' = [frames EXCEPT ![t] = s, ![u] = Woken(u)]
  PROVE  CallsInv'
<1>1. ASSUME NEW v \in Threads PROVE SameView(frames[v], frames'[v]) /\ QueueSteady(queue[v], queue'[v])
  <2>1. frames'[v] = IF v = u THEN Woken(u) ELSE IF v = t THEN s ELSE frames[v]
        BY IInvTypes
  <2>2. SameView(frames[u], Woken(u))
        BY IInvTypes, WokenView
  <2> QED BY <2>1, <2>2, SameSelf, QueueSame
<1> QED BY <1>1, KSame

\* The sender of a message wakes its receiver.
LEMMA KSignalReceiver ==
  ASSUME IInv, IInv', CallsInv, NEW t \in Threads, SignalReceiver(t)
  PROVE  CallsInv'
<1>1. /\ In(t, "send", "signal")
      /\ frames' = [frames EXCEPT ![t] = Front(@), ![To[Top(t).msg]] = Woken(To[Top(t).msg])]
      /\ UNCHANGED <<queue, pending, exception, asked>>
      BY DEF SignalReceiver
<1>2. /\ frames[t] # <<>> /\ Plain(Top(t)) /\ FrameOK(t, Top(t)) /\ Top(t).op = "send"
      /\ frames[t] \in Seq(Frames) /\ Top(t) = Last(frames[t])
      BY <1>1, TopFrame, IInvTypes, PlainAt
<1>3. PICK u \in Threads : u = To[Top(t).msg] /\ u # t
      BY <1>2, MessagesAssumption DEF FrameOK
<1>4. PICK s : s = Front(frames[t]) /\ SameView(frames[t], s)
      BY <1>2, PlainPop
<1>5. frames' = [frames EXCEPT ![t] = s, ![u] = Woken(u)]
      BY <1>1, <1>3, <1>4
<1> QED BY <1>1, <1>3, <1>4, <1>5, KWakes

\* Aborting everything touches no call.
LEMMA KFront ==
  ASSUME IInv, IInv', CallsInv, AbortPlease \/ Continue \/ FrontProceeds
  PROVE  CallsInv'
<1>1. UNCHANGED <<queue, pending, exception, asked>>
      BY DEF AbortPlease, Continue, FrontProceeds, CountAbort, TakeSleeper, SignalSleeper, UncountAbort
<1>2. CASE SignalSleeper
  <2>1. PICK t \in Threads : t = front
        BY <1>2 DEF SignalSleeper
  <2>2. PICK s : s = Woken(t) /\ SameView(frames[t], s)
        BY IInvTypes, WokenView
  <2>3. frames' = [frames EXCEPT ![t] = s]
        BY <1>2, <2>1, <2>2 DEF SignalSleeper
  <2> QED BY <1>1, <2>2, <2>3, KOne
<1>3. CASE ~SignalSleeper
  <2>1. frames' = frames
        BY <1>3 DEF AbortPlease, Continue, FrontProceeds, CountAbort, TakeSleeper, SignalSleeper, UncountAbort
  <2>2. ASSUME NEW v \in Threads PROVE SameView(frames[v], frames'[v]) /\ QueueSteady(queue[v], queue'[v])
        BY <1>1, <2>1, SameSelf, QueueSame
  <2> QED BY <1>1, <2>2, KSame
<1> QED BY <1>2, <1>3

\* Nothing happens.
LEMMA KStutter ==
  ASSUME IInv, IInv', CallsInv, UNCHANGED vars
  PROVE  CallsInv'
<1>1. UNCHANGED <<queue, pending, exception, asked, frames>>
      BY DEF vars
<1>2. ASSUME NEW v \in Threads PROVE SameView(frames[v], frames'[v]) /\ QueueSteady(queue[v], queue'[v])
      BY <1>1, SameSelf, QueueSame
<1> QED BY <1>1, <1>2, KSame

\* A message or a request to abort a call is sent.
LEMMA KSends ==
  ASSUME IInv, IInv', CallsInv, NEW t \in Threads, (\E m \in Msgs : Send(t, m)) \/ GiveUp(t)
  PROVE  CallsInv'
<1>1. PICK m, r, s :
        /\ m \in Msgs /\ r \in BOOLEAN
        /\ Push(m, r) /\ (r \/ m \notin Calls)
        /\ UNCHANGED <<pending, exception, asked>>
        /\ SameView(frames[t], s) /\ frames' = [frames EXCEPT ![t] = s]
  <2>1. ASSUME NEW m \in Msgs, NEW r \in BOOLEAN
        PROVE  Frame("send", m, r, "count") \in Frames /\ Plain(Frame("send", m, r, "count"))
        BY DEF Frame, Frames, Places, Plain, HoldsFrame, AboutFrame
  <2>2. frames[t] \in Seq(Frames)
        BY IInvTypes DEF Types
  <2>3. CASE \E m \in Msgs : Send(t, m)
    <3>1. PICK m \in Msgs : Send(t, m)
          BY <2>3
    <3>2. SameView(frames[t], Append(frames[t], Frame("send", m, FALSE, "count")))
          BY <2>1, <2>2, PlainPush
    <3>3. /\ Push(m, FALSE) /\ m \notin Calls /\ UNCHANGED <<pending, exception, asked>>
          /\ frames' = [frames EXCEPT ![t] = Append(frames[t], Frame("send", m, FALSE, "count"))]
          BY <3>1 DEF Send, Begin
    <3> QED BY <3>2, <3>3
  <2>4. CASE GiveUp(t)
    <3>1. /\ In(t, "call", "test") /\ Push(Top(t).msg, TRUE) /\ UNCHANGED <<pending, exception, asked>>
          /\ frames' = [frames EXCEPT ![t] = Append(Front(frames[t]), Frame("send", Top(t).msg, TRUE, "count"))]
          BY <2>4 DEF GiveUp
    <3>2. /\ frames[t] # <<>> /\ Plain(Top(t)) /\ FrameOK(t, Top(t)) /\ Top(t).op = "call"
          /\ Top(t) = Last(frames[t])
          BY <3>1, TopFrame, IInvTypes, PlainAt
    <3>3. Top(t).msg \in Msgs
          BY <3>2 DEF FrameOK
    <3>4. SameView(frames[t], Append(Front(frames[t]), Frame("send", Top(t).msg, TRUE, "count")))
          BY <2>1, <2>2, <3>2, <3>3, PlainSet
    <3> QED BY <3>1, <3>3, <3>4
  <2> QED BY <2>3, <2>4
<1>2. \A v \in Threads : QueueSteady(queue[v], queue'[v])
      BY <1>1, IInvTypes, PushSteady
<1> QED BY <1>1, <1>2, KOneOfQueue

-----------------------------------------------------------------------------
(* Steps of a call.                                                        *)

\* What the frame at i shows of calls.
Shows(s, i, f) ==
  \A m \in Calls : /\ About(s, i, m) <=> AboutFrame(f, m)
                   /\ Holds(s, i, m) <=> HoldsFrame(f, m)
                   /\ RunsAt(s, i, m) <=> RunsFrame(f, m)
                   /\ \A w : Handles(s, i, m, w) <=> HandlesFrame(f, m, w)

ShowsNothing(s, i) ==
  \A m \in Calls : ~About(s, i, m) /\ ~Holds(s, i, m) /\ ~RunsAt(s, i, m) /\ \A w : ~Handles(s, i, m, w)

\* Two stacks show the same, except at n.
SameBut(s, r, n) ==
  \A i \in Nat \ {n} : \A m \in Calls :
    /\ About(s, i, m) <=> About(r, i, m)
    /\ Holds(s, i, m) <=> Holds(r, i, m)
    /\ RunsAt(s, i, m) <=> RunsAt(r, i, m)
    /\ \A w : Handles(s, i, m, w) <=> Handles(r, i, m, w)

\* A frame shows what it is.
LEMMA ShowsFrame ==
  ASSUME NEW s, NEW i
  PROVE  /\ i \in 1 .. Len(s) => Shows(s, i, s[i])
         /\ i \notin 1 .. Len(s) => ShowsNothing(s, i)
BY DEF Shows, ShowsNothing, About, Holds, RunsAt, Handles

\* Stacks that differ in one frame.
LEMMA SameFrames ==
  ASSUME NEW s, NEW r, NEW n, \A i \in Nat \ {n} : i \in 1 .. Len(s) <=> i \in 1 .. Len(r),
         \A i \in Nat \ {n} : i \in 1 .. Len(s) => s[i] = r[i]
  PROVE  SameBut(s, r, n)
BY DEF SameBut, About, Holds, RunsAt, Handles

\* What is on the top afterwards, when a frame comes, ...
LEMMA PushView ==
  ASSUME NEW s \in Seq(Frames), NEW f \in Frames
  PROVE  /\ SameBut(s, Append(s, f), Len(s) + 1)
         /\ ShowsNothing(s, Len(s) + 1) /\ Shows(Append(s, f), Len(s) + 1, f)
<1>1. PICK n, r : n \in Nat /\ n = Len(s) /\ r = Append(s, f)
      BY PushElements
<1>2. /\ Len(r) = n + 1 /\ r[n + 1] = f
      /\ \A i \in 1 .. n : r[i] = s[i]
      BY <1>1, PushElements
<1>3. /\ \A i \in Nat \ {n + 1} : i \in 1 .. n + 1 <=> i \in 1 .. n
      /\ n + 1 \notin 1 .. n /\ n + 1 \in 1 .. n + 1
      BY <1>1
<1> QED BY <1>1, <1>2, <1>3, SameFrames, ShowsFrame

\* ... when one goes, ...
LEMMA PopView ==
  ASSUME NEW s \in Seq(Frames), s # <<>>
  PROVE  /\ SameBut(s, Front(s), Len(s))
         /\ Shows(s, Len(s), Last(s)) /\ ShowsNothing(Front(s), Len(s))
         /\ Front(s) \in Seq(Frames) /\ Len(Front(s)) + 1 = Len(s)
<1>1. PICK n, r : n \in Nat \ {0} /\ n = Len(s) /\ r = Front(s)
      BY FrontElements
<1>2. /\ Len(r) = n - 1 /\ Last(s) = s[n] /\ r \in Seq(Frames)
      /\ \A i \in 1 .. n - 1 : r[i] = s[i]
      BY <1>1, FrontElements DEF Last
<1>3. /\ \A i \in Nat \ {n} : i \in 1 .. n - 1 <=> i \in 1 .. n
      /\ n \notin 1 .. n - 1 /\ n \in 1 .. n /\ n - 1 + 1 = n
      BY <1>1
<1>4. SameBut(s, r, n)
      BY <1>1, <1>2, <1>3, SameFrames
<1>5. Shows(s, n, Last(s)) /\ ShowsNothing(r, n)
      BY <1>1, <1>2, <1>3, ShowsFrame
<1> QED BY <1>1, <1>2, <1>3, <1>4, <1>5

\* ... and when one is replaced.
LEMMA SetView ==
  ASSUME NEW s \in Seq(Frames), s # <<>>, NEW f \in Frames
  PROVE  LET r == Append(Front(s), f)
         IN  /\ r \in Seq(Frames)
             /\ SameBut(s, r, Len(s))
             /\ Shows(s, Len(s), Last(s)) /\ Shows(r, Len(s), f)
             /\ Len(s) \in Nat /\ \A i : ~(i \in 1 .. Len(s) /\ i > Len(s))
<1>1. PICK n, r : n \in Nat \ {0} /\ n = Len(s) /\ r = Append(Front(s), f) /\ Len(r) = n
      BY SetElements, ZenonT(40)
<1>2. /\ Last(s) = s[n] /\ r \in Seq(Frames)
      /\ \A i \in 1 .. n : r[i] = IF i = n THEN f ELSE s[i]
      BY <1>1, SetElements
<1>3. n \in 1 .. n /\ \A i : ~(i \in 1 .. n /\ i > n)
      BY <1>1
<1>4. \A i \in Nat \ {n} : i \in 1 .. n => s[i] = r[i]
      BY <1>2
<1> QED BY <1>1, <1>2, <1>3, <1>4, SameFrames, ShowsFrame

\* A stack that changes at n, and then without being seen.
LEMMA SameButTrans ==
  ASSUME NEW s, NEW r, NEW q, NEW n \in Nat, SameBut(s, r, n), SameView(r, q)
  PROVE  /\ SameBut(s, q, n)
         /\ \A f : Shows(r, n, f) => Shows(q, n, f)
         /\ ShowsNothing(r, n) => ShowsNothing(q, n)
<1>1. \A i \in Nat : \A m \in Calls :
        /\ About(r, i, m) <=> About(q, i, m)
        /\ Holds(r, i, m) <=> Holds(q, i, m)
        /\ RunsAt(r, i, m) <=> RunsAt(q, i, m)
        /\ \A w : Handles(r, i, m, w) <=> Handles(q, i, m, w)
      BY SameSteady DEF SameView
<1> QED BY <1>1 DEF SameBut, Shows, ShowsNothing

\* A step of call c.
LEMMA KOfCall ==
  ASSUME IInv, IInv', CallsInv, UNCHANGED <<pending, exception, asked>>, NEW c \in Calls,
         \A u \in Threads : Steady(frames[u], frames'[u]),
         \A u \in Threads : \A m \in Calls \ {c} :
           /\ \A i \in Nat : (About(frames'[u], i, m) => About(frames[u], i, m))
                             /\ (Holds(frames'[u], i, m) => Holds(frames[u], i, m))
           /\ QueueKeeps(queue[u], queue'[u], m),
         Once(c)'
  PROVE  CallsInv'
<1>1. ASSUME NEW m \in Calls, m # c PROVE Once(m)'
  <2>1. To[m] \in Threads /\ From[m] \in Threads
        BY MessagesAssumption
  <2>2. OnceIn(frames[From[m]], queue[To[m]], frames[To[m]], m)
        BY DEF CallsInv, Once
  <2>3. OnceIn(frames'[From[m]], queue'[To[m]], frames'[To[m]], m)
        BY <1>1, <2>1, <2>2, OnceStays
  <2> QED BY <2>3 DEF Once
<1> QED BY <1>1, KStep

\* No call is seen anew.
LEMMA KLess ==
  ASSUME IInv, IInv', CallsInv, UNCHANGED <<pending, exception, asked>>,
         \A u \in Threads :
           /\ Steady(frames[u], frames'[u])
           /\ \A i \in Nat : \A m \in Calls : /\ About(frames'[u], i, m) => About(frames[u], i, m)
                                              /\ Holds(frames'[u], i, m) => Holds(frames[u], i, m)
           /\ QueueSteady(queue[u], queue'[u])
  PROVE  CallsInv'
<1>1. ASSUME NEW m \in Calls PROVE Once(m)'
  <2>1. To[m] \in Threads /\ From[m] \in Threads
        BY MessagesAssumption
  <2>2. OnceIn(frames[From[m]], queue[To[m]], frames[To[m]], m)
        BY DEF CallsInv, Once
  <2>3. QueueKeeps(queue[To[m]], queue'[To[m]], m)
        BY <2>1 DEF QueueSteady
  <2>4. OnceIn(frames'[From[m]], queue'[To[m]], frames'[To[m]], m)
        BY <2>1, <2>2, <2>3, OnceStays
  <2> QED BY <2>4 DEF Once
<1> QED BY <1>1, KStep

\* Call c is seen once.
LEMMA OnceOf ==
  ASSUME CallsInv, NEW c \in Calls
  PROVE  /\ From[c] \in Threads /\ To[c] \in Threads /\ From[c] # To[c] /\ c \in Msgs
         /\ \A i \in Nat, j \in Nat :
              /\ About(frames[From[c]], i, c) /\ About(frames[From[c]], j, c) => i = j
              /\ Queued(queue[To[c]], i, c) /\ Queued(queue[To[c]], j, c) => i = j
              /\ Holds(frames[To[c]], i, c) /\ Holds(frames[To[c]], j, c) => i = j
              /\ ~(About(frames[From[c]], i, c) /\ Queued(queue[To[c]], j, c))
              /\ ~(About(frames[From[c]], i, c) /\ Holds(frames[To[c]], j, c))
              /\ ~(Queued(queue[To[c]], i, c) /\ Holds(frames[To[c]], j, c))
<1>1. OnceIn(frames[From[c]], queue[To[c]], frames[To[c]], c)
      BY DEF CallsInv, Once
<1>2. From[c] \in Threads /\ To[c] \in Threads /\ From[c] # To[c] /\ c \in Msgs
      BY MessagesAssumption
<1> QED BY <1>1, <1>2, OnceMeans

\* Stacks that do not change.
LEMMA SteadySelf ==
  ASSUME NEW s PROVE Steady(s, s)
BY SameSelf, SameSteady

\* How the stack of t changes at its top.
LEMMA TopView ==
  ASSUME IInv, NEW t \in Threads, NEW o, NEW w, In(t, o, w), NEW f \in Frames
  PROVE  LET s == frames[t]
             n == Len(s)
             r == Append(Front(s), f)
         IN  /\ n \in Nat /\ r \in Seq(Frames)
             /\ SameBut(s, r, n) /\ Shows(s, n, Top(t)) /\ Shows(r, n, f)
             /\ \A j \in Nat : \A k \in Calls : RunsAt(s, j, k) => ~(n < j)
<1>1. frames[t] # <<>> /\ Top(t) = Last(frames[t]) /\ frames[t] \in Seq(Frames)
      BY TopFrame
<1>2. PICK s \in Seq(Frames) : s = frames[t]
      BY <1>1
<1>3. /\ Len(s) \in Nat /\ Append(Front(s), f) \in Seq(Frames)
      /\ SameBut(s, Append(Front(s), f), Len(s)) /\ Shows(s, Len(s), Last(s)) /\ Shows(Append(Front(s), f), Len(s), f)
      /\ \A i : ~(i \in 1 .. Len(s) /\ i > Len(s))
      BY <1>1, <1>2, SetView
<1>4. \A j \in Nat : \A k \in Calls : RunsAt(s, j, k) => ~(Len(s) < j)
      BY <1>3 DEF RunsAt
<1> QED BY <1>1, <1>2, <1>3, <1>4

\* A frame of a call that does not evaluate it becomes another one of that kind.
LEMMA IdleSteady ==
  ASSUME NEW s, NEW r, NEW n \in Nat, SameBut(s, r, n),
         \A m \in Calls : ~RunsAt(s, n, m) /\ ~Handles(s, n, m, "body") /\ ~Handles(r, n, m, "body")
  PROVE  Steady(s, r)
BY DEF Steady, SameBut

\* A message is taken from a queue: a call is handled then and not queued any more.
LEMMA KPop ==
  ASSUME IInv, IInv', CallsInv, NEW t \in Threads, Pop(t)
  PROVE  CallsInv'
<1>1. /\ UNCHANGED <<pending, exception, asked>> /\ In(t, "handle", "pop")
      BY DEF Pop
<1>2. frames[t] # <<>> /\ Plain(Top(t))
      BY <1>1, TopFrame, IInvTypes, PlainAt
<1>3. CASE queue[t] = <<>>
      BY <1>1, <1>2, <1>3, KEnds DEF Pop
<1>4. CASE queue[t] # <<>>
  <2>1. PICK q \in Seq(Entry) : q = queue[t] /\ q # <<>>
        BY <1>4 DEF IInv, Types
  <2>2. PICK e \in Entry : e = Head(q) /\ e = q[1] /\ 1 \in 1 .. Len(q)
        BY <2>1, EmptySeq, LenProperties, HeadTailProperties
  <2>3. PICK f : f = Frame("handle", e.msg, e.request, "uncount")
        OBVIOUS
  <2>4. /\ f \in Frames /\ f.op = "handle" /\ f.at = "uncount" /\ f.msg = e.msg /\ (f.request <=> e.request)
    <3>1. e.request = TRUE \/ e.request = FALSE
          BY DEF Entry
    <3> QED BY <2>3, <3>1 DEF Frame, Frames, Places, Entry
  <2>5. /\ queue' = [queue EXCEPT ![t] = Tail(q)]
        /\ frames' = [frames EXCEPT ![t] = Append(Front(frames[t]), f)]
        BY <1>4, <2>1, <2>2, <2>3 DEF Pop
  <2>6. ASSUME NEW m \in Calls, NEW i \in Nat, Queued(Tail(q), i, m)
        PROVE  Queued(q, i + 1, m) /\ i # 0
    <3>1. Len(Tail(q)) = Len(q) - 1 /\ \A j \in 1 .. Len(Tail(q)) : Tail(q)[j] = q[j + 1]
          BY <2>1, HeadTailProperties
    <3>2. PICK l \in Nat : l = Len(q)
          BY LenProperties
    <3> QED BY <2>6, <3>1, <3>2 DEF Queued
  <2>7. queue'[t] = Tail(q) /\ \A u \in Threads \ {t} : queue'[u] = queue[u]
        BY <2>5 DEF IInv, Types
  <2>8. \A u \in Threads : QueueSteady(queue[u], queue'[u])
    <3>1. QueueSteady(q, Tail(q))
          BY <2>6 DEF QueueSteady, QueueKeeps
    <3> QED BY <2>1, <2>7, <3>1, QueueSame
  <2>9. PICK s, n, r : s \in Seq(Frames) /\ s = frames[t] /\ n = Len(s) /\ r = Append(Front(s), f)
        BY IInvTypes
  <2>10. frames'[t] = r /\ \A u \in Threads \ {t} : frames'[u] = frames[u]
        BY <2>5, <2>9, IInvTypes
  <2>11. CASE e.request \/ e.msg \notin Calls
    <3>1. Plain(f)
          BY <2>4, <2>11, PlainKinds
    <3>2. SameView(s, r)
          BY <1>2, <2>4, <2>9, <3>1, PlainSet DEF Top
    <3> QED BY <1>1, <2>5, <2>8, <2>9, <3>2, KOneOfQueue
  <2>12. CASE ~e.request /\ e.msg \in Calls
    <3>1. PICK c \in Calls : c = e.msg /\ Queued(q, 1, c)
          BY <2>2, <2>12 DEF Queued
    <3>2. To[c] = t
          BY <2>1, <2>2, <3>1 DEF IInv, Addressed
    <3>3. /\ n \in Nat /\ SameBut(s, r, n) /\ Shows(s, n, Top(t)) /\ Shows(r, n, f)
          BY <1>1, <2>4, <2>9, TopView
    <3>4. \A m \in Calls : /\ ~About(s, n, m) /\ ~Holds(s, n, m) /\ ~RunsAt(s, n, m) /\ \A w : ~Handles(s, n, m, w)
          BY <1>2, <3>3 DEF Plain, Shows, HoldsFrame, HandlesFrame, RunsFrame
    <3>5. \A m \in Calls : /\ ~About(r, n, m) /\ ~RunsAt(r, n, m) /\ ~Handles(r, n, m, "body")
                           /\ Holds(r, n, m) <=> m = c
          BY <2>4, <2>12, <3>1, <3>3 DEF Shows, HoldsFrame, HandlesFrame, RunsFrame, AboutFrame
    <3>6. ASSUME NEW u \in Threads PROVE Steady(frames[u], frames'[u])
      <4>1. Steady(s, r)
            BY <3>3, <3>4, <3>5, IdleSteady
      <4> QED BY <2>9, <2>10, <4>1, SteadySelf
    <3>7. ASSUME NEW u \in Threads, NEW m \in Calls \ {c}
          PROVE  /\ \A i \in Nat : (About(frames'[u], i, m) => About(frames[u], i, m))
                                   /\ (Holds(frames'[u], i, m) => Holds(frames[u], i, m))
                 /\ QueueKeeps(queue[u], queue'[u], m)
      <4>1. \A i \in Nat : (About(r, i, m) => About(s, i, m)) /\ (Holds(r, i, m) => Holds(s, i, m))
            BY <3>3, <3>4, <3>5 DEF SameBut
      <4> QED BY <2>8, <2>9, <2>10, <4>1 DEF QueueSteady
    <3>8. Once(c)'
      <4>1. /\ From[c] \in Threads /\ From[c] # t
            /\ \A i \in Nat : ~About(frames[From[c]], i, c)
            /\ \A i \in Nat : ~Holds(s, i, c)
            /\ \A i \in Nat : Queued(q, i, c) => i = 1
            BY <2>1, <2>9, <3>1, <3>2, OnceOf
      <4>2. \A i \in Nat : ~About(frames'[From[c]], i, c)
            BY <2>10, <4>1
      <4>3. \A i \in Nat : ~Queued(Tail(q), i, c)
            BY <2>6, <4>1
      <4>4. \A i \in Nat : Holds(r, i, c) => i = n
            BY <3>3, <4>1 DEF SameBut
      <4>5. OnceIn(frames'[From[c]], Tail(q), r, c)
            BY <4>2, <4>3, <4>4, OnceMeans
      <4> QED BY <2>7, <2>10, <3>2, <4>5 DEF Once
    <3> QED BY <1>1, <3>6, <3>7, <3>8, KOfCall
  <2> QED BY <2>11, <2>12
<1> QED BY <1>3, <1>4

\* The frame on top of t goes to another place.
LEMMA GoingFrame ==
  ASSUME IInv, NEW t \in Threads, NEW o, NEW w, In(t, o, w), NEW to \in Places, Goto(t, to)
  PROVE  \E f \in Frames :
           /\ f.op = o /\ f.at = to /\ f.msg = Top(t).msg /\ f.request = Top(t).request
           /\ frames'[t] = Append(Front(frames[t]), f)
           /\ \A u \in Threads \ {t} : frames'[u] = frames[u]
<1>1. Top(t) \in Frames /\ Top(t).op = o
      BY TopFrame
<1>2. PICK f : f = [Top(t) EXCEPT !.at = to]
      OBVIOUS
<1>3. f \in Frames /\ f.op = o /\ f.at = to /\ f.msg = Top(t).msg /\ f.request = Top(t).request
      BY <1>1, <1>2 DEF Frames
<1>4. frames' = [frames EXCEPT ![t] = Append(Front(frames[t]), f)]
      BY <1>2 DEF Goto, Going
<1>5. frames'[t] = Append(Front(frames[t]), f) /\ \A u \in Threads \ {t} : frames'[u] = frames[u]
      BY <1>4, IInvTypes
<1> QED BY <1>3, <1>5

\* The evaluation of a call begins; it has not run before.
LEMMA KUncount ==
  ASSUME IInv, IInv', CallsInv, NEW t \in Threads, Uncount(t)
  PROVE  CallsInv'
<1>1. UNCHANGED <<queue, pending, exception, asked>> /\ In(t, "handle", "uncount") /\ Goto(t, "body")
      BY DEF Uncount
<1>2. "body" \in Places \ {"first"}
      BY DEF Places
<1>3. frames[t] # <<>> /\ FrameOK(t, Top(t)) /\ Top(t).op = "handle" /\ Top(t).at = "uncount" /\ Top(t).request \in BOOLEAN
      BY <1>1, TopFrame DEF Frames
<1>4. CASE Top(t).request \/ Top(t).msg \notin Calls
  <2>1. Plain(Top(t))
        BY <1>3, <1>4, PlainKinds
  <2> QED BY <1>1, <1>2, <1>3, <2>1, KGoes
<1>5. CASE ~Top(t).request /\ Top(t).msg \in Calls
  <2>1. PICK c \in Calls : c = Top(t).msg /\ To[c] = t
        BY <1>3, <1>5 DEF FrameOK
  <2>2. PICK f \in Frames :
          /\ f.op = "handle" /\ f.at = "body" /\ f.msg = c /\ ~f.request
          /\ frames'[t] = Append(Front(frames[t]), f)
          /\ \A u \in Threads \ {t} : frames'[u] = frames[u]
        BY <1>1, <1>2, <1>5, <2>1, GoingFrame
  <2>3. PICK s, n, r : s \in Seq(Frames) /\ s = frames[t] /\ n = Len(s) /\ r = Append(Front(s), f)
        BY IInvTypes
  <2>4. /\ n \in Nat /\ SameBut(s, r, n) /\ Shows(s, n, Top(t)) /\ Shows(r, n, f)
        BY <1>1, <2>3, TopView
  <2>5. \A m \in Calls : /\ ~About(s, n, m) /\ ~RunsAt(s, n, m) /\ ~Handles(s, n, m, "body")
                         /\ (Holds(s, n, m) <=> m = c)
        BY <1>3, <1>5, <2>1, <2>4 DEF Shows, HoldsFrame, HandlesFrame, RunsFrame, AboutFrame
  <2>6. \A m \in Calls : /\ ~About(r, n, m)
                         /\ (Holds(r, n, m) <=> m = c) /\ (Handles(r, n, m, "body") <=> m = c)
        BY <2>2, <2>4 DEF Shows, HoldsFrame, HandlesFrame, RunsFrame, AboutFrame
  <2>7. \A i \in Nat : ~RunsAt(s, i, c)
    <3>1. \A i \in Nat : Holds(s, i, c) => i = n
          BY <2>1, <2>3, <2>4, <2>5, OnceOf
    <3>2. \A i \in Nat : RunsAt(s, i, c) => Holds(s, i, c)
          BY HoldsPlaces
    <3> QED BY <2>5, <3>1, <3>2
  <2>8. Steady(s, r)
        BY <2>4, <2>5, <2>6, <2>7 DEF Steady, SameBut
  <2>9. ASSUME NEW i \in Nat, NEW m \in Calls
        PROVE  (About(r, i, m) => About(s, i, m)) /\ (Holds(r, i, m) => Holds(s, i, m))
        BY <2>4, <2>5, <2>6 DEF SameBut
  <2>10. frames'[t] = r
        BY <2>2, <2>3
  <2>11. ASSUME NEW u \in Threads
         PROVE  /\ Steady(frames[u], frames'[u])
                /\ \A i \in Nat : \A m \in Calls : /\ About(frames'[u], i, m) => About(frames[u], i, m)
                                                   /\ Holds(frames'[u], i, m) => Holds(frames[u], i, m)
                /\ QueueSteady(queue[u], queue'[u])
         BY <1>1, <2>2, <2>3, <2>8, <2>9, <2>10, SteadySelf, QueueSame
  <2> QED BY <1>1, <2>11, KLess
<1> QED BY <1>3, <1>4, <1>5

\* The evaluation of a call ends, but its exception can still be caught.
LEMMA KEndCall ==
  ASSUME IInv, IInv', CallsInv, NEW t \in Threads, EndCall(t)
  PROVE  CallsInv'
<1>1. /\ UNCHANGED <<queue, pending, exception, asked>> /\ In(t, "handle", "body") /\ Goto(t, "catch")
      /\ Top(t).msg \in Calls /\ ~Top(t).request
      BY DEF EndCall
<1>2. "catch" \in Places
      BY DEF Places
<1>3. Top(t).op = "handle" /\ Top(t).at = "body"
      BY <1>1, TopFrame
<1>4. PICK f \in Frames :
        /\ f.op = "handle" /\ f.at = "catch" /\ f.msg = Top(t).msg /\ ~f.request
        /\ frames'[t] = Append(Front(frames[t]), f)
        /\ \A u \in Threads \ {t} : frames'[u] = frames[u]
      BY <1>1, <1>2, GoingFrame
<1>5. PICK s, n, r : s \in Seq(Frames) /\ s = frames[t] /\ n = Len(s) /\ r = Append(Front(s), f)
      BY IInvTypes
<1>6. /\ n \in Nat /\ SameBut(s, r, n) /\ Shows(s, n, Top(t)) /\ Shows(r, n, f)
      /\ \A j \in Nat : \A k \in Calls : RunsAt(s, j, k) => ~(n < j)
      BY <1>1, <1>5, TopView
<1>7. \A m \in Calls : /\ ~About(r, n, m) /\ ~Handles(r, n, m, "body")
                       /\ RunsAt(s, n, m) <=> RunsAt(r, n, m)
                       /\ Holds(s, n, m) <=> Holds(r, n, m)
      BY <1>1, <1>3, <1>4, <1>6 DEF Shows, HoldsFrame, HandlesFrame, RunsFrame, AboutFrame
<1>8. Steady(s, r)
      BY <1>6, <1>7 DEF Steady, SameBut
<1>9. ASSUME NEW i \in Nat, NEW m \in Calls
      PROVE  (About(r, i, m) => About(s, i, m)) /\ (Holds(r, i, m) => Holds(s, i, m))
      BY <1>6, <1>7 DEF SameBut
<1>10. frames'[t] = r
       BY <1>4, <1>5
<1>11. ASSUME NEW u \in Threads
       PROVE  /\ Steady(frames[u], frames'[u])
              /\ \A i \in Nat : \A m \in Calls : /\ About(frames'[u], i, m) => About(frames[u], i, m)
                                                 /\ Holds(frames'[u], i, m) => Holds(frames[u], i, m)
              /\ QueueSteady(queue[u], queue'[u])
       BY <1>1, <1>4, <1>5, <1>8, <1>9, <1>10, SteadySelf, QueueSame
<1> QED BY <1>1, <1>11, KLess

\* A call is over.
LEMMA KWake ==
  ASSUME IInv, IInv', CallsInv, NEW t \in Threads, Wake(t)
  PROVE  CallsInv'
<1>1. /\ UNCHANGED <<queue, pending, exception, asked>> /\ In(t, "handle", "wake")
      /\ frames' = [frames EXCEPT ![t] = Append(Front(@), Handling), ![From[Top(t).msg]] = Woken(From[Top(t).msg])]
      BY DEF Wake
<1>2. FrameOK(t, Top(t)) /\ Top(t).op = "handle" /\ Top(t).at = "wake"
      BY <1>1, TopFrame
<1>3. PICK v \in Threads : v = From[Top(t).msg] /\ v # t
      BY <1>2, MessagesAssumption DEF FrameOK
<1>4. PICK s, n, r : s \in Seq(Frames) /\ s = frames[t] /\ n = Len(s) /\ r = Append(Front(s), Handling)
      BY IInvTypes
<1>5. frames'[t] = r /\ frames'[v] = Woken(v) /\ \A u \in Threads \ {t, v} : frames'[u] = frames[u]
      BY <1>1, <1>3, <1>4, IInvTypes
<1>6. /\ n \in Nat /\ SameBut(s, r, n) /\ Shows(s, n, Top(t)) /\ Shows(r, n, Handling)
      BY <1>1, <1>4, HandlingPlain, TopView
<1>7. \A m \in Calls : ~RunsAt(s, n, m) /\ ~Handles(s, n, m, "body")
      BY <1>2, <1>6 DEF Shows, HandlesFrame, RunsFrame
<1>8. \A m \in Calls : ~About(r, n, m) /\ ~Holds(r, n, m) /\ ~Handles(r, n, m, "body")
      BY <1>6, HandlingPlain DEF Plain, Shows, HoldsFrame, HandlesFrame
<1>9. Steady(s, r)
      BY <1>6, <1>7, <1>8, IdleSteady
<1>10. ASSUME NEW i \in Nat, NEW m \in Calls
      PROVE  (About(r, i, m) => About(s, i, m)) /\ (Holds(r, i, m) => Holds(s, i, m))
      BY <1>6, <1>8 DEF SameBut
<1>11. /\ Steady(frames[v], frames'[v])
       /\ \A i \in Nat : \A m \in Calls : /\ About(frames'[v], i, m) => About(frames[v], i, m)
                                          /\ Holds(frames'[v], i, m) => Holds(frames[v], i, m)
  <2>1. SameView(frames[v], frames'[v])
        BY <1>5, IInvTypes, WokenView
  <2> QED BY <2>1, SameSteady DEF SameView
<1>12. ASSUME NEW u \in Threads
       PROVE  /\ Steady(frames[u], frames'[u])
              /\ \A i \in Nat : \A m \in Calls : /\ About(frames'[u], i, m) => About(frames[u], i, m)
                                                 /\ Holds(frames'[u], i, m) => Holds(frames[u], i, m)
              /\ QueueSteady(queue[u], queue'[u])
  <2>1. CASE u = t
        BY <1>1, <1>4, <1>5, <1>9, <1>10, <2>1, QueueSame
  <2>2. CASE u = v
        BY <1>1, <1>11, <2>2, QueueSame
  <2>3. CASE u # t /\ u # v
    <3>1. frames'[u] = frames[u]
          BY <1>5, <2>3
    <3> QED BY <1>1, <3>1, SteadySelf, QueueSame
  <2> QED BY <2>1, <2>2, <2>3
<1> QED BY <1>1, <1>12, KLess

\* A call that nothing refers to is nowhere.
LEMMA FreeNowhere ==
  ASSUME Types, NEW m \in Calls, Free(m)
  PROVE  \A u \in Threads : \A i \in Nat : ~About(frames[u], i, m) /\ ~Holds(frames[u], i, m) /\ ~Queued(queue[u], i, m)
<1>1. ASSUME NEW u \in Threads
      PROVE  DOMAIN queue[u] = 1 .. Len(queue[u]) /\ DOMAIN frames[u] = 1 .. Len(frames[u])
  <2>1. queue[u] \in Seq(Entry) /\ frames[u] \in Seq(Frames)
        BY DEF Types
  <2> QED BY <2>1, LenProperties
<1> QED BY <1>1 DEF Free, About, AboutFrame, Holds, HoldsFrame, Queued

\* A call begins: nothing referred to it.
LEMMA KCall ==
  ASSUME IInv, IInv', CallsInv, NEW t \in Threads, NEW c \in Msgs, Call(t, c)
  PROVE  CallsInv'
<1>1. /\ UNCHANGED <<queue, pending, exception, asked>> /\ c \in Calls /\ From[c] = t /\ Free(c)
      /\ frames' = [frames EXCEPT ![t] = Append(Append(frames[t], Frame("call", c, FALSE, "first")), Handling)]
      BY DEF Call
<1>2. PICK f \in Frames : f = Frame("call", c, FALSE, "first") /\ f.op = "call" /\ f.msg = c /\ f.at = "first"
  <2>1. PICK f : f = Frame("call", c, FALSE, "first")
        OBVIOUS
  <2>2. f \in Frames /\ f.op = "call" /\ f.msg = c /\ f.at = "first"
        BY <2>1 DEF Frame, Frames, Places
  <2> QED BY <2>1, <2>2
<1>3. PICK s \in Seq(Frames), n \in Nat : s = frames[t] /\ n = Len(s) + 1
      BY IInvTypes, LenProperties
<1>4. PICK r \in Seq(Frames) : r = Append(s, f) /\ SameBut(s, r, n) /\ ShowsNothing(s, n) /\ Shows(r, n, f)
      BY <1>3, PushView, PushElements
<1>5. PICK q : q = Append(r, Handling) /\ SameView(r, q)
      BY HandlingPlain, PlainPush
<1>6. SameBut(s, q, n) /\ Shows(q, n, f)
      BY <1>4, <1>5, SameButTrans
<1>7. frames'[t] = q /\ \A u \in Threads \ {t} : frames'[u] = frames[u]
      BY <1>1, <1>2, <1>3, <1>4, <1>5, IInvTypes
<1>8. \A m \in Calls : /\ ~RunsAt(s, n, m) /\ ~Handles(s, n, m, "body")
                       /\ ~Handles(q, n, m, "body") /\ ~Holds(q, n, m)
                       /\ About(q, n, m) => m = c
      BY <1>2, <1>4, <1>6 DEF Shows, ShowsNothing, HoldsFrame, HandlesFrame, AboutFrame
<1>9. ASSUME NEW u \in Threads PROVE Steady(frames[u], frames'[u])
  <2>1. Steady(s, q)
        BY <1>6, <1>8, IdleSteady
  <2> QED BY <1>3, <1>7, <2>1, SteadySelf
<1>10. ASSUME NEW u \in Threads, NEW m \in Calls \ {c}
       PROVE  /\ \A i \in Nat : (About(frames'[u], i, m) => About(frames[u], i, m))
                                /\ (Holds(frames'[u], i, m) => Holds(frames[u], i, m))
              /\ QueueKeeps(queue[u], queue'[u], m)
  <2>1. \A i \in Nat : (About(q, i, m) => About(s, i, m)) /\ (Holds(q, i, m) => Holds(s, i, m))
        BY <1>6, <1>8 DEF SameBut
  <2>2. QueueKeeps(queue[u], queue'[u], m)
        BY <1>1, QueueSame DEF QueueSteady
  <2> QED BY <1>3, <1>7, <2>1, <2>2
<1>11. Once(c)'
  <2>1. To[c] \in Threads /\ To[c] # t
        BY <1>1, MessagesAssumption
  <2>2. /\ \A i \in Nat : ~About(s, i, c)
        /\ \A i \in Nat : ~Queued(queue'[To[c]], i, c)
        /\ \A i \in Nat : ~Holds(frames'[To[c]], i, c)
        BY <1>1, <1>3, <1>7, <2>1, IInvTypes, FreeNowhere
  <2>3. \A i \in Nat : About(q, i, c) => i = n
        BY <1>1, <1>6, <2>2 DEF SameBut
  <2>4. OnceIn(q, queue'[To[c]], frames'[To[c]], c)
        BY <1>1, <2>2, <2>3, OnceMeans
  <2> QED BY <1>1, <1>7, <2>4 DEF Once
<1> QED BY <1>1, <1>9, <1>10, <1>11, KOfCall

\* A call is sent, unless its sender is aborting.
LEMMA KSendCall ==
  ASSUME IInv, IInv', CallsInv, NEW t \in Threads, SendCall(t)
  PROVE  CallsInv'
<1>1. UNCHANGED <<pending, exception, asked>> /\ In(t, "call", "first")
      BY DEF SendCall
<1>2. /\ frames[t] # <<>> /\ Top(t) \in Frames /\ FrameOK(t, Top(t)) /\ Top(t) = Last(frames[t])
      /\ Top(t).op = "call" /\ Top(t).at = "first"
      BY <1>1, TopFrame
<1>3. PICK c \in Calls : c = Top(t).msg /\ From[c] = t /\ c \in Msgs
      BY <1>2 DEF FrameOK
<1>4. PICK s, n : s \in Seq(Frames) /\ s = frames[t] /\ n = Len(s) /\ s # <<>>
      BY <1>2, IInvTypes
<1>5. CASE Aborting(t)
  <2>1. queue' = queue /\ frames' = [frames EXCEPT ![t] = Front(s)]
        BY <1>4, <1>5 DEF SendCall, End
  <2>2. PICK r : r = Front(s)
        OBVIOUS
  <2>3. n \in Nat /\ SameBut(s, r, n) /\ Shows(s, n, Top(t)) /\ ShowsNothing(r, n)
        BY <1>2, <1>4, <2>2, PopView, FrontElements
  <2>4. frames'[t] = r /\ \A u \in Threads \ {t} : frames'[u] = frames[u]
        BY <2>1, <2>2, IInvTypes
  <2>5. Steady(s, r)
    <3>1. \A m \in Calls : ~RunsAt(s, n, m) /\ ~Handles(s, n, m, "body") /\ ~Handles(r, n, m, "body")
          BY <1>2, <2>3 DEF Shows, ShowsNothing, RunsFrame, HandlesFrame
    <3> QED BY <2>3, <3>1, IdleSteady
  <2>6. ASSUME NEW i \in Nat, NEW m \in Calls
        PROVE  (About(r, i, m) => About(s, i, m)) /\ (Holds(r, i, m) => Holds(s, i, m))
        BY <2>3 DEF SameBut, ShowsNothing
  <2>7. ASSUME NEW u \in Threads
        PROVE  /\ Steady(frames[u], frames'[u])
               /\ \A i \in Nat : \A m \in Calls : /\ About(frames'[u], i, m) => About(frames[u], i, m)
                                                  /\ Holds(frames'[u], i, m) => Holds(frames[u], i, m)
               /\ QueueSteady(queue[u], queue'[u])
        BY <1>4, <2>1, <2>4, <2>5, <2>6, SteadySelf, QueueSame
  <2> QED BY <1>1, <2>7, KLess
<1>6. CASE ~Aborting(t)
  <2>1. /\ Push(c, FALSE)
        /\ frames' = [frames EXCEPT ![t] = Append(Going(t, "check"), Frame("send", c, FALSE, "count"))]
        BY <1>3, <1>6 DEF SendCall
  <2>2. PICK f \in Frames : f = [Top(t) EXCEPT !.at = "check"] /\ f.op = "call" /\ f.at = "check"
    <3>1. PICK f : f = [Top(t) EXCEPT !.at = "check"]
          OBVIOUS
    <3>2. f \in Frames /\ f.op = "call" /\ f.at = "check"
          BY <1>2, <3>1 DEF Frames, Places
    <3> QED BY <3>1, <3>2
  <2>3. PICK g \in Frames : g = Frame("send", c, FALSE, "count") /\ Plain(g)
    <3>1. PICK g : g = Frame("send", c, FALSE, "count")
          OBVIOUS
    <3>2. g \in Frames /\ g.op = "send"
          BY <1>3, <3>1 DEF Frame, Frames, Places
    <3> QED BY <3>1, <3>2 DEF Plain, HoldsFrame, AboutFrame
  <2>4. PICK r \in Seq(Frames) : /\ r = Going(t, "check")
                                 /\ SameBut(s, r, n) /\ Shows(s, n, Top(t)) /\ Shows(r, n, f) /\ n \in Nat
    <3>1. Going(t, "check") = Append(Front(s), f)
          BY <1>4, <2>2 DEF Going
    <3> QED BY <1>1, <1>4, <3>1, TopView
  <2>5. PICK q : q = Append(r, g) /\ SameView(r, q)
        BY <2>3, PlainPush
  <2>6. SameBut(s, q, n) /\ Shows(q, n, f)
        BY <2>4, <2>5, SameButTrans
  <2>7. frames'[t] = q /\ \A u \in Threads \ {t} : frames'[u] = frames[u]
        BY <2>1, <2>3, <2>4, <2>5, IInvTypes
  <2>8. \A m \in Calls : /\ ~RunsAt(s, n, m) /\ ~Handles(s, n, m, "body")
                         /\ (About(s, n, m) <=> m = c)
        BY <1>2, <1>3, <2>4 DEF Shows, RunsFrame, HandlesFrame, AboutFrame
  <2>9. \A m \in Calls : ~Handles(q, n, m, "body") /\ ~Holds(q, n, m) /\ ~About(q, n, m)
        BY <2>2, <2>6 DEF Shows, HoldsFrame, HandlesFrame, AboutFrame
  <2>10. ASSUME NEW u \in Threads PROVE Steady(frames[u], frames'[u])
    <3>1. Steady(s, q)
          BY <2>4, <2>6, <2>8, <2>9, IdleSteady
    <3> QED BY <1>4, <2>7, <3>1, SteadySelf
  <2>11. /\ \A u \in Threads \ {To[c]} : queue'[u] = queue[u]
         /\ To[c] \in Threads
         /\ \A i \in Nat : \A m \in Calls :
              Queued(queue'[To[c]], i, m) <=> Queued(queue[To[c]], i, m) \/ (i = Len(queue[To[c]]) + 1 /\ m = c /\ ~FALSE)
         BY <1>3, <2>1, IInvTypes, PushQueues
  <2>12. ASSUME NEW u \in Threads, NEW m \in Calls \ {c}
         PROVE  /\ \A i \in Nat : (About(frames'[u], i, m) => About(frames[u], i, m))
                                  /\ (Holds(frames'[u], i, m) => Holds(frames[u], i, m))
                /\ QueueKeeps(queue[u], queue'[u], m)
    <3>1. \A i \in Nat : (About(q, i, m) => About(s, i, m)) /\ (Holds(q, i, m) => Holds(s, i, m))
          BY <2>6, <2>9 DEF SameBut
    <3>2. QueueKeeps(queue[u], queue'[u], m)
      <4>1. CASE u = To[c]
        <5>1. \A i \in Nat : i + 0 = i /\ (Queued(queue'[u], i, m) => Queued(queue[u], i, m))
              BY <2>11, <4>1
        <5> QED BY <5>1 DEF QueueKeeps
      <4>2. CASE u # To[c]
            BY <2>11, <4>2, QueueSame DEF QueueSteady
      <4> QED BY <4>1, <4>2
    <3> QED BY <1>4, <2>7, <3>1, <3>2
  <2>13. Once(c)'
    <3>1. /\ About(s, n, c) /\ To[c] # t
          /\ \A i \in Nat : About(s, i, c) => i = n
          /\ \A i \in Nat : ~Queued(queue[To[c]], i, c)
          /\ \A i \in Nat : ~Holds(frames[To[c]], i, c)
          BY <1>3, <1>4, <2>4, <2>8, OnceOf
    <3>2. \A i \in Nat : ~About(q, i, c)
          BY <2>6, <2>9, <3>1 DEF SameBut
    <3>3. \A i \in Nat : ~Holds(frames'[To[c]], i, c)
          BY <2>7, <2>11, <3>1
    <3>4. \A i \in Nat : Queued(queue'[To[c]], i, c) => i = Len(queue[To[c]]) + 1
          BY <2>11, <3>1
    <3>5. OnceIn(q, queue'[To[c]], frames'[To[c]], c)
          BY <3>2, <3>3, <3>4, OnceMeans
    <3> QED BY <1>3, <2>7, <3>5 DEF Once
  <2> QED BY <1>1, <2>10, <2>12, <2>13, KOfCall
<1> QED BY <1>5, <1>6

-----------------------------------------------------------------------------
(* A request is handled.                                                   *)

\* The calls that t evaluates.
LEMMA AbortableCalls ==
  ASSUME NEW t \in Threads, Types, Stacks
  PROVE  /\ \A i : \A k \in Calls : Handles(frames[t], i, k, "body") <=> i \in AbortableAt(t) /\ frames[t][i].msg = k
         /\ \A i \in AbortableAt(t) : i \in Nat /\ i \in 1 .. Len(frames[t]) /\ frames[t][i].msg \in Calls
                                      /\ Handles(frames[t], i, frames[t][i].msg, "body")
         /\ \A k \in Calls : Evaluates(t, k) <=> \E i \in Nat : Handles(frames[t], i, k, "body")
<1>1. /\ Len(frames[t]) \in Nat /\ DOMAIN frames[t] = 1 .. Len(frames[t])
      /\ \A i \in AbortableAt(t) : i \in 1 .. Len(frames[t]) /\ frames[t][i].msg \in Calls
      BY AbortableFrames
<1>2. ASSUME NEW i, NEW k \in Calls
      PROVE  Handles(frames[t], i, k, "body") <=> i \in AbortableAt(t) /\ frames[t][i].msg = k
      BY <1>1 DEF Handles, HandlesFrame, AbortableAt, IsAbortable
<1>3. \A i \in 1 .. Len(frames[t]) : i \in Nat
      OBVIOUS
<1> QED BY <1>1, <1>2, <1>3 DEF Evaluates

\* Calls and requests of t are as a request must find them.
LEMMA StackedCalls ==
  ASSUME IInv, CallsInv, NEW t \in Threads
  PROVE  Stacked(t)
<1> DEFINE A == AbortableAt(t)
           c(i) == frames[t][i].msg
<1>1. \A i \in A : i \in Nat /\ c(i) \in Calls /\ Handles(frames[t], i, c(i), "body")
      BY IInvTypes, AbortableCalls
<1>2. \A i \in A : To[c(i)] = t /\ Holds(frames[t], i, c(i))
  <2>1. frames[t] \in Seq(Frames) /\ StackOK(t, frames[t])
        BY DEF IInv, Types, Stacks
  <2> QED BY <1>1, <2>1, Owner, HoldsPlaces
<1>3. ASSUME NEW i \in A, NEW j \in A, c(i) = c(j)
      PROVE  i = j
      BY <1>1, <1>2, <1>3, OnceOf
<1>4. ASSUME NEW i \in A, pending[c(i)] # None
      PROVE  \E q \in A : q < i /\ c(q) = pending[c(i)]
  <2>1. PICK k \in Calls : k = c(i) /\ To[k] = t /\ Holds(frames[t], i, k)
        BY <1>1, <1>2
  <2>2. KeptAbove(k) /\ pending[k] \in Calls
        BY <1>4, <2>1 DEF CallsInv
  <2>3. PICK j \in 1 .. Len(frames[t]), q \in 1 .. Len(frames[t]) :
          RunsAt(frames[t], j, k) /\ q < j /\ Handles(frames[t], q, pending[k], "body")
        BY <1>4, <2>1, <2>2 DEF KeptAbove
  <2>4. j \in Nat /\ q \in Nat
        OBVIOUS
  <2>5. j = i
    <3>1. Holds(frames[t], j, k)
          BY <2>3, <2>4, HoldsPlaces
    <3> QED BY <1>1, <2>1, <2>4, <3>1, OnceOf
  <2>6. q \in A /\ c(q) = pending[k]
        BY <2>2, <2>3, IInvTypes, AbortableCalls
  <2> QED BY <2>1, <2>3, <2>5, <2>6
<1>5. ASSUME NEW i \in A, NEW j \in A, pending[c(i)] # None, pending[c(i)] = pending[c(j)]
      PROVE  i = j
  <2>1. c(i) = c(j)
        BY <1>1, <1>5 DEF CallsInv
  <2> QED BY <1>3, <2>1
<1>6. pending \in [Calls -> Calls \cup {None}]
      BY DEF CallsInv
<1> QED BY <1>3, <1>4, <1>5, <1>6 DEF Stacked

\* What is kept when t handles the request to abort m.
KeptBy(t, m) ==
  IF /\ Evaluates(t, m) /\ ~Innermost(t, m)
     /\ \A i \in AbortableAt(t) : pending[frames[t][i].msg] # m
  THEN Place(t, m) ELSE pending

\* Requests are kept: the one for m, unless m is the innermost call, and all that were.
LEMMA RequestKept ==
  ASSUME IInv, CallsInv, NEW t \in Threads, NEW m
  PROVE  LET A == AbortableAt(t)
             kept == KeptBy(t, m)
         IN  /\ kept \in [Calls -> Calls \cup {None}]
             /\ \A k \in Calls : ~Evaluates(t, k) => kept[k] = pending[k]
             /\ \A i \in A : kept[frames[t][i].msg] # None =>
                  \E q \in A : q < i /\ frames[t][q].msg = kept[frames[t][i].msg]
             /\ \A i, j \in A : kept[frames[t][i].msg] # None /\ kept[frames[t][i].msg] = kept[frames[t][j].msg]
                  => i = j
             /\ \A j \in A : pending[frames[t][j].msg] # None =>
                  \E i \in A : kept[frames[t][i].msg] = pending[frames[t][j].msg]
             /\ Evaluates(t, m) => Innermost(t, m) \/ \E i \in A : kept[frames[t][i].msg] = m
<1> DEFINE keep == /\ Evaluates(t, m) /\ ~Innermost(t, m)
                   /\ \A i \in AbortableAt(t) : pending[frames[t][i].msg] # m
<1>1. Stacked(t)
      BY StackedCalls
<1>2. CASE keep
  <2>1. PICK d \in AbortableAt(t) : frames[t][d].msg = m
        BY <1>2 DEF Evaluates
  <2>2. \A i \in AbortableAt(t) : i \in Nat
        BY IInvTypes, AbortableCalls
  <2>3. \E i \in AbortableAt(t) : i > d
        BY <1>2, <2>1, <2>2 DEF Innermost
  <2>4. KeptBy(t, m) = Place(t, m)
        BY <1>2 DEF KeptBy
  <2>5. \A i \in AbortableAt(t) : pending[frames[t][i].msg] # frames[t][d].msg
        BY <1>2, <2>1
  <2>6. PICK new : new = Place(t, m)
        OBVIOUS
  <2>7. Types /\ Stacks
        BY IInvTypes
  <2>8. LET A == AbortableAt(t)
        IN  /\ new \in [Calls -> Calls \cup {None}]
            /\ \A k \in Calls : ~Evaluates(t, k) => new[k] = pending[k]
            /\ \A i \in A : new[frames[t][i].msg] # None =>
                 \E q \in A : q < i /\ frames[t][q].msg = new[frames[t][i].msg]
            /\ \A i, j \in A : new[frames[t][i].msg] # None /\ new[frames[t][i].msg] = new[frames[t][j].msg]
                 => i = j
            /\ \E i \in A : new[frames[t][i].msg] = m
            /\ \A j \in A : pending[frames[t][j].msg] # None =>
                 \E i \in A : new[frames[t][i].msg] = pending[frames[t][j].msg]
        BY <1>1, <2>1, <2>3, <2>5, <2>6, <2>7, PlaceKeeps
  <2> QED BY <2>4, <2>6, <2>8
<1>3. CASE ~keep
  <2>1. KeptBy(t, m) = pending
        BY <1>3 DEF KeptBy
  <2> QED BY <1>1, <1>3, <2>1 DEF Stacked
<1> QED BY <1>2, <1>3

\* What a handled request changes.
LEMMA AbortEffect ==
  ASSUME IInv, NEW t \in Threads, NEW m, NEW ended, AbortMessage(t, m, ended)
  PROVE  /\ \A u \in Threads \ {t} : exception'[u] = exception[u]
         /\ exception[t] # None /\ exception[t] # ended => exception'[t] = exception[t]
         /\ exception[t] = None \/ exception[t] = ended => (Innermost(t, m) => exception'[t] = m)
         /\ pending' = [k \in Calls |-> IF k = ended THEN None ELSE KeptBy(t, m)[k]]
         /\ asked' = (IF Evaluates(t, m) THEN asked \cup {m} ELSE asked) \ {ended}
<1>1. exception \in [Threads -> Calls \cup {None}]
      BY DEF IInv, Types
<1>2. PICK ex : /\ ex = IF exception[t] = ended THEN None ELSE exception[t]
                /\ exception' = [exception EXCEPT ![t] = IF Innermost(t, m) /\ ex = None THEN m ELSE ex]
      BY DEF AbortMessage
<1>3. pending' = [k \in Calls |-> IF k = ended THEN None ELSE KeptBy(t, m)[k]]
      BY DEF AbortMessage, KeptBy
<1>4. asked' = (IF Evaluates(t, m) THEN asked \cup {m} ELSE asked) \ {ended}
      BY DEF AbortMessage
<1>5. exception'[t] = (IF Innermost(t, m) /\ ex = None THEN m ELSE ex) /\ \A u \in Threads \ {t} : exception'[u] = exception[u]
      BY <1>1, <1>2
<1> QED BY <1>2, <1>3, <1>4, <1>5

\* How the stack of t changes when it handles a request: the call that has ended,
\* if any, does not run any more.
Settles(t, ended) ==
  /\ ended \in Calls \cup {None}
  /\ ended # None => To[ended] = t
  /\ \A i \in Nat : \A k \in Calls :
       /\ About(frames'[t], i, k) => About(frames[t], i, k)
       /\ Holds(frames'[t], i, k) => Holds(frames[t], i, k)
       /\ Handles(frames'[t], i, k, "body") <=> Handles(frames[t], i, k, "body")
       /\ RunsAt(frames'[t], i, k) <=> Handles(frames[t], i, k, "body")
       /\ RunsAt(frames[t], i, k) => Handles(frames[t], i, k, "body") \/ k = ended
       /\ Handles(frames[t], i, k, "body") => k # ended /\ \A j \in Nat : RunsAt(frames[t], j, ended) => i < j

\* The invariant when a request is handled.
LEMMA KAbort ==
  ASSUME IInv, IInv', CallsInv, NEW t \in Threads, NEW m, NEW ended, AbortMessage(t, m, ended), Settles(t, ended),
         ended # None => m = pending[ended],
         queue' = queue, \A u \in Threads \ {t} : frames'[u] = frames[u]
  PROVE  CallsInv'
<1> DEFINE A == AbortableAt(t)
           c(i) == frames[t][i].msg
           P(i, k) == Handles(frames[t], i, k, "body")
           R(u, i, k) == RunsAt(frames'[u], i, k)
<1>1. PICK kept \in [Calls -> Calls \cup {None}] :
        /\ kept = KeptBy(t, m)
        /\ \A k \in Calls : ~Evaluates(t, k) => kept[k] = pending[k]
        /\ \A i \in A : kept[c(i)] # None => \E q \in A : q < i /\ c(q) = kept[c(i)]
        /\ \A i, j \in A : kept[c(i)] # None /\ kept[c(i)] = kept[c(j)] => i = j
        /\ \A j \in A : pending[c(j)] # None => \E i \in A : kept[c(i)] = pending[c(j)]
        /\ Evaluates(t, m) => Innermost(t, m) \/ \E i \in A : kept[c(i)] = m
      BY RequestKept
<1>2. /\ \A u \in Threads \ {t} : exception'[u] = exception[u]
      /\ exception[t] # None /\ exception[t] # ended => exception'[t] = exception[t]
      /\ exception[t] = None \/ exception[t] = ended => (Innermost(t, m) => exception'[t] = m)
      /\ pending' = [k \in Calls |-> IF k = ended THEN None ELSE kept[k]]
      /\ asked' = (IF Evaluates(t, m) THEN asked \cup {m} ELSE asked) \ {ended}
      BY <1>1, AbortEffect
<1>3. /\ \A i : \A k \in Calls : P(i, k) <=> i \in A /\ c(i) = k
      /\ \A i \in A : i \in Nat /\ i \in 1 .. Len(frames[t]) /\ c(i) \in Calls /\ P(i, c(i))
      /\ \A k \in Calls : Evaluates(t, k) <=> \E i \in Nat : P(i, k)
      BY IInvTypes, AbortableCalls
<1>4. \A k : Evaluates(t, k) => k \in Calls
      BY <1>3 DEF Evaluates
<1>5. ASSUME NEW u \in Threads, NEW i \in Nat, NEW k \in Calls
      PROVE  /\ Handles(frames[u], i, k, "body") => To[k] = u
             /\ RunsAt(frames[u], i, k) => To[k] = u
             /\ Handles(frames'[u], i, k, "body") => To[k] = u
             /\ R(u, i, k) => To[k] = u
  <2>1. frames[u] \in Seq(Frames) /\ StackOK(u, frames[u])
        BY DEF IInv, Types, Stacks
  <2>2. frames'[u] \in Seq(Frames) /\ StackOK(u, frames'[u])
        BY DEF IInv, Types, Stacks
  <2> QED BY <2>1, <2>2, Owner
<1>6. /\ ended \in Calls \cup {None}
      /\ \A i \in Nat : \A k \in Calls :
           /\ Handles(frames'[t], i, k, "body") <=> P(i, k)
           /\ R(t, i, k) <=> P(i, k)
           /\ RunsAt(frames[t], i, k) => P(i, k) \/ k = ended
           /\ P(i, k) => k # ended /\ \A j \in Nat : RunsAt(frames[t], j, ended) => i < j
      BY DEF Settles
<1>7. /\ \A s, i, k : RunsAt(s, i, k) => i \in 1 .. Len(s)
      /\ \A s, i, k, w : Handles(s, i, k, w) => i \in 1 .. Len(s)
      /\ \A n, i : i \in 1 .. n => i \in Nat
      BY DEF RunsAt, Handles
<1>8. pending' \in [Calls -> Calls \cup {None}] /\ asked' \subseteq Calls
  <2>1. asked \subseteq Calls
        BY DEF CallsInv
  <2> QED BY <1>2, <1>4, <2>1
<1>9. ASSUME NEW k \in Calls PROVE Once(k)'
  <2>1. To[k] \in Threads /\ From[k] \in Threads
        BY MessagesAssumption
  <2>2. OnceIn(frames[From[k]], queue[To[k]], frames[To[k]], k)
        BY DEF CallsInv, Once
  <2>3. QueueKeeps(queue[To[k]], queue'[To[k]], k)
        BY QueueSame DEF QueueSteady
  <2>4. \A u \in Threads : \A i \in Nat : /\ About(frames'[u], i, k) => About(frames[u], i, k)
                                          /\ Holds(frames'[u], i, k) => Holds(frames[u], i, k)
        BY DEF Settles
  <2>5. OnceIn(frames'[From[k]], queue'[To[k]], frames'[To[k]], k)
        BY <2>1, <2>2, <2>3, <2>4, OnceStays
  <2> QED BY <2>5 DEF Once
\* A request that is kept was kept by the same call before, unless t evaluates that call.
<1>10. ASSUME NEW k \in Calls, pending'[k] # None
       PROVE  /\ k # ended /\ pending'[k] = kept[k] /\ pending'[k] \in Calls
              /\ \/ Evaluates(t, k)
                 \/ To[k] # t /\ pending'[k] = pending[k]
  <2>1. k # ended /\ pending'[k] = kept[k] /\ pending'[k] \in Calls
        BY <1>2, <1>8, <1>10
  <2>2. CASE ~Evaluates(t, k) /\ To[k] = t
    <3>1. pending[k] # None
          BY <1>1, <1>10, <2>1, <2>2
    <3>2. PICK j \in Nat : RunsAt(frames[t], j, k)
          BY <1>7, <2>2, <3>1 DEF CallsInv, KeptAbove
    <3>3. P(j, k)
          BY <1>6, <2>1, <3>2
    <3> QED BY <1>3, <2>2, <3>3
  <2> QED BY <1>1, <2>1, <2>2
<1>11. ASSUME NEW k \in Calls, pending'[k] # None
       PROVE  \E j \in 1 .. Len(frames'[To[k]]) :
                /\ R(To[k], j, k)
                /\ \E i \in 1 .. Len(frames'[To[k]]) : i < j /\ Handles(frames'[To[k]], i, pending'[k], "body")
  <2>1. CASE Evaluates(t, k)
    <3>1. PICK i \in A : c(i) = k /\ P(i, k) /\ i \in Nat
          BY <1>3, <2>1
    <3>2. PICK q \in A : q < i /\ c(q) = kept[k]
          BY <1>1, <1>10, <1>11, <3>1
    <3>3. pending'[k] \in Calls /\ pending'[k] = kept[k] /\ q \in Nat /\ P(q, pending'[k])
          BY <1>3, <1>10, <1>11, <3>2
    <3>4. R(t, i, k) /\ Handles(frames'[t], q, pending'[k], "body") /\ To[k] = t
          BY <1>5, <1>6, <3>1, <3>3
    <3> QED BY <1>7, <3>2, <3>4
  <2>2. CASE To[k] # t /\ pending'[k] = pending[k]
    <3>1. KeptAbove(k) /\ To[k] \in Threads
          BY MessagesAssumption DEF CallsInv
    <3>2. frames'[To[k]] = frames[To[k]]
          BY <2>2, <3>1
    <3> QED BY <1>11, <2>2, <3>1, <3>2 DEF KeptAbove
  <2> QED BY <1>10, <1>11, <2>1, <2>2
<1>12. \A k \in Calls : KeptAbove(k)'
       BY <1>11 DEF KeptAbove
<1>13. ASSUME NEW k \in Calls, NEW l \in Calls, pending'[k] # None, pending'[k] = pending'[l]
       PROVE  k = l
  <2>1. PICK p \in Calls : p = pending'[k]
        BY <1>10, <1>13
  <2>2. To[k] = To[p] /\ To[l] = To[p]
    <3>1. ASSUME NEW h \in Calls, pending'[h] = p
          PROVE  To[h] = To[p]
      <4>1. p # None /\ To[h] \in Threads
            BY <1>13, <2>1, MessagesAssumption
      <4>2. PICK i \in Nat : Handles(frames'[To[h]], i, p, "body")
            BY <1>7, <1>11, <3>1, <4>1
      <4> QED BY <1>5, <4>1, <4>2
    <3> QED BY <1>13, <2>1, <3>1
  <2>3. CASE To[k] = t
    <3>1. Evaluates(t, k) /\ Evaluates(t, l) /\ kept[k] = p /\ kept[l] = p
          BY <1>10, <1>13, <2>1, <2>2, <2>3
    <3>2. PICK i \in A, j \in A : c(i) = k /\ c(j) = l
          BY <1>3, <3>1
    <3> QED BY <1>1, <1>13, <2>1, <3>1, <3>2
  <2>4. CASE To[k] # t
    <3>1. ASSUME NEW h \in Calls, To[h] # t
          PROVE  ~Evaluates(t, h)
          BY <1>3, <1>5, <3>1
    <3>2. pending[k] = p /\ pending[l] = p
          BY <1>10, <1>13, <2>1, <2>2, <2>4, <3>1
    <3> QED BY <1>13, <2>1, <3>2 DEF CallsInv
  <2> QED BY <2>3, <2>4
<1>14. ASSUME NEW k \in asked'
       PROVE  \E j \in 1 .. Len(frames'[To[k]]) : R(To[k], j, k)
  <2>1. k \in Calls /\ k # ended /\ To[k] \in Threads
        BY <1>2, <1>8, MessagesAssumption
  <2>2. CASE Evaluates(t, k)
    <3>1. PICK i \in Nat : P(i, k)
          BY <1>3, <2>1, <2>2
    <3> QED BY <1>5, <1>6, <1>7, <2>1, <3>1
  <2>3. CASE k \in asked
    <3>1. PICK j \in Nat : RunsAt(frames[To[k]], j, k)
          BY <1>7, <2>3 DEF CallsInv
    <3>2. R(To[k], j, k)
          BY <1>6, <2>1, <3>1
    <3> QED BY <1>7, <3>2
  <2> QED BY <1>2, <2>2, <2>3
\* A request that a call keeps is still kept, and one for the ended call has gone on.
<1>15. ASSUME NEW i \in A, NEW j \in A, NEW k \in Calls, c(i) = k, kept[c(j)] = k
       PROVE  Covered(t, i, k)'
  <2>1. PICK l \in Calls : l = c(j) /\ P(j, l) /\ i \in Nat /\ j \in Nat /\ k # None
        BY <1>3, MessagesAssumption
  <2>2. PICK q \in A : q < j /\ c(q) = k
        BY <1>1, <1>15, <2>1
  <2>3. q = i
        BY StackedCalls, <1>15, <2>2 DEF Stacked
  <2>4. R(t, j, l) /\ l # ended
        BY <1>6, <2>1
  <2>5. pending'[l] = k
        BY <1>2, <1>15, <2>1, <2>4
  <2>6. j \in 1 .. Len(frames'[t]) /\ j > i
        BY <1>7, <2>1, <2>2, <2>3, <2>4
  <2> QED BY <2>4, <2>5, <2>6 DEF Covered
<1>16. ASSUME NEW i \in A, Evaluates(t, m), c(i) = m
       PROVE  Covered(t, i, m)'
  <2>0. m \in Calls
        BY <1>4, <1>16
  <2>1. CASE \E j \in A : kept[c(j)] = m
        BY <1>15, <1>16, <2>0, <2>1
  <2>2. CASE Innermost(t, m)
    <3>1. \A j \in A : j <= i
      <4>1. PICK d \in A : c(d) = m /\ \A j \in A : j <= d
            BY <2>2 DEF Innermost
      <4>2. d = i
            BY <1>16, <4>1, StackedCalls DEF Stacked
      <4> QED BY <4>1, <4>2
    <3>2. i \in Nat /\ i \in 1 .. i /\ m \in Calls /\ m # None /\ P(i, m) /\ R(t, i, m)
      <4>1. i \in 1 .. Len(frames[t]) /\ c(i) \in Calls /\ P(i, c(i))
            BY <1>3
      <4> QED BY <1>6, <1>16, <4>1, MessagesAssumption
    <3>3. CASE exception[t] = None \/ exception[t] = ended
      <4>1. exception'[t] = m
            BY <1>2, <2>2, <3>3
      <4> QED BY <3>2, <4>1 DEF Covered
    <3>4. CASE exception[t] # None /\ exception[t] # ended
      <4>1. exception[t] \in Calls /\ exception'[t] = exception[t]
            BY <1>2, <3>4 DEF IInv, Types
      <4>2. PICK j \in Nat : RunsAt(frames[t], j, exception[t])
            BY <1>7, <3>4 DEF IInv, Inside, RunsIn, RunsAt
      <4>3. P(j, exception[t]) /\ R(t, j, exception[t])
            BY <1>6, <3>4, <4>1, <4>2
      <4>4. j \in A /\ j <= i /\ j \in 1 .. Len(frames'[t])
            BY <1>3, <1>7, <3>1, <4>1, <4>3
      <4>5. j \in 1 .. i
            BY <3>2, <4>2, <4>4
      <4> QED BY <3>4, <4>1, <4>3, <4>5 DEF Covered
    <3> QED BY <3>3, <3>4
  <2> QED BY <1>1, <1>16, <2>1, <2>2
<1>17. ASSUME NEW i \in A, NEW e \in asked, c(i) = e, Covered(t, i, e)
       PROVE  Covered(t, i, e)'
  <2>1. i \in Nat /\ e \in Calls /\ P(i, e)
        BY <1>3, <1>17
  <2>2. CASE exception[t] # None /\ \E j \in 1 .. i : RunsAt(frames[t], j, exception[t])
    <3>1. PICK j \in 1 .. i : RunsAt(frames[t], j, exception[t])
          BY <2>2
    <3>2. j \in Nat /\ ~(i < j)
          BY <2>1
    <3>3. exception[t] # ended
          BY <1>6, <2>1, <3>1, <3>2
    <3>4. exception[t] \in Calls /\ exception'[t] = exception[t]
          BY <1>2, <2>2, <3>3 DEF IInv, Types
    <3>5. R(t, j, exception[t])
          BY <1>6, <3>1, <3>2, <3>3, <3>4
    <3> QED BY <2>2, <3>4, <3>5 DEF Covered
  <2>3. CASE \E j \in 1 .. Len(frames[t]) : \E k \in Calls : j > i /\ RunsAt(frames[t], j, k) /\ pending[k] = e
    <3>1. PICK j \in Nat, k \in Calls : j > i /\ RunsAt(frames[t], j, k) /\ pending[k] = e
          BY <1>7, <2>3
    <3>2. CASE k = ended
      <4>1. m = e
            BY <3>1, <3>2, MessagesAssumption
      <4>2. Evaluates(t, m)
            BY <1>3, <2>1, <4>1
      <4> QED BY <1>16, <1>17, <4>1, <4>2
    <3>3. CASE k # ended
      <4>1. j \in A /\ c(j) = k
            BY <1>3, <1>6, <3>1, <3>3
      <4>2. pending[c(j)] # None /\ pending[c(j)] = e
            BY <2>1, <3>1, <4>1, MessagesAssumption
      <4>3. PICK q \in A : kept[c(q)] = pending[c(j)]
            BY <1>1, <4>1, <4>2
      <4> QED BY <1>15, <1>17, <2>1, <4>2, <4>3
    <3> QED BY <3>2, <3>3
  <2> QED BY <1>17, <2>2, <2>3 DEF Covered
<1>18. ASSUME NEW u \in Threads, NEW i \in 1 .. Len(frames'[u]), NEW k \in asked', Handles(frames'[u], i, k, "body")
       PROVE  Covered(u, i, k)'
  <2>1. i \in Nat /\ k \in Calls /\ k # ended
        BY <1>2, <1>7, <1>8
  <2>2. To[k] = u
        BY <1>5, <1>18, <2>1
  <2>3. CASE u = t
    <3>1. i \in A /\ c(i) = k
          BY <1>3, <1>6, <1>18, <2>1, <2>3
    <3>2. CASE k \in asked
      <4>1. Covered(t, i, k)
            BY <1>3, <3>1, <3>2 DEF CallsInv
      <4> QED BY <1>17, <2>3, <3>1, <3>2, <4>1
    <3>3. CASE k = m /\ Evaluates(t, m)
          BY <1>16, <2>3, <3>1, <3>3
    <3> QED BY <1>2, <3>2, <3>3
  <2>4. CASE u # t
    <3>1. ASSUME NEW h \in Calls, To[h] = u PROVE ~Evaluates(t, h) /\ h # ended
      <4>1. h # ended
            BY <2>4, <3>1, MessagesAssumption DEF Settles
      <4>2. \A j \in Nat : ~P(j, h)
            BY <1>5, <2>4, <3>1
      <4> QED BY <1>3, <4>1, <4>2
    <3>2. k \in asked
          BY <1>2, <2>1, <2>2, <3>1
    <3>3. frames'[u] = frames[u] /\ exception'[u] = exception[u]
          BY <1>2, <2>4
    <3>4. Covered(u, i, k)
          BY <1>18, <3>2, <3>3 DEF CallsInv
    <3>5. ASSUME NEW j \in 1 .. Len(frames[u]), NEW l \in Calls, RunsAt(frames[u], j, l), pending[l] = k
          PROVE  pending'[l] = k
      <4>1. To[l] = u
            BY <1>5, <1>7, <3>5
      <4> QED BY <1>1, <1>2, <3>1, <3>5, <4>1
    <3> QED BY <3>3, <3>4, <3>5 DEF Covered
  <2> QED BY <2>3, <2>4
<1> QED BY <1>8, <1>9, <1>12, <1>13, <1>14, <1>18 DEF CallsInv

\* A call runs in its body or, at the top, catches its exception.
LEMMA RunsSomewhere ==
  ASSUME IInv, NEW t \in Threads, NEW i \in Nat
  PROVE  /\ ~RunsAt(frames[t], i, None)
         /\ \A k \in Calls : /\ RunsAt(frames[t], i, k) => Handles(frames[t], i, k, "body") \/ i = Len(frames[t])
                             /\ Handles(frames[t], i, k, "body") => RunsAt(frames[t], i, k) /\ i <= Len(frames[t])
<1>1. frames[t] \in Seq(Frames) /\ StackOK(t, frames[t])
      BY DEF IInv, Types, Stacks
<1>2. ASSUME i \in 1 .. Len(frames[t])
      PROVE  FrameOK(t, frames[t][i])
      BY <1>1, <1>2 DEF StackOK
<1>3. ~RunsAt(frames[t], i, None)
      BY <1>2, MessagesAssumption DEF RunsAt, RunsFrame, FrameOK
<1>4. ASSUME NEW k \in Calls
      PROVE  /\ RunsAt(frames[t], i, k) => Handles(frames[t], i, k, "body") \/ i = Len(frames[t])
             /\ Handles(frames[t], i, k, "body") => RunsAt(frames[t], i, k)
      BY <1>1, Owner, HoldsPlaces
<1>5. \A k : Handles(frames[t], i, k, "body") => i <= Len(frames[t])
      BY <1>1, LenProperties DEF Handles
<1> QED BY <1>3, <1>4, <1>5

\* A request to abort a call is handled, ...
LEMMA KEndRequest ==
  ASSUME IInv, IInv', CallsInv, NEW t \in Threads, EndRequest(t)
  PROVE  CallsInv'
<1>1. /\ In(t, "handle", "body") /\ Top(t).request /\ queue' = queue
      /\ frames' = [frames EXCEPT ![t] = Append(Front(frames[t]), Handling)]
      BY DEF EndRequest, Again
<1>2. /\ frames[t] # <<>> /\ Plain(Top(t)) /\ Top(t) = Last(frames[t]) /\ Top(t).at = "body"
      BY <1>1, TopFrame, PlainKinds
<1>3. CASE UNCHANGED <<pending, exception, asked>>
      BY <1>1, <1>2, <1>3, HandlingPlain, KFollows
<1>4. CASE AbortMessage(t, Top(t).msg, None)
  <2>1. PICK m : m = Top(t).msg
        OBVIOUS
  <2>2. PICK s, r : s \in Seq(Frames) /\ s = frames[t] /\ r = Append(Front(s), Handling)
        BY IInvTypes
  <2>3. frames'[t] = r /\ \A u \in Threads \ {t} : frames'[u] = frames[u]
        BY <1>1, <2>2, IInvTypes
  <2>4. SameView(s, r)
        BY <1>2, <2>2, HandlingPlain, PlainSet
  <2>5. ASSUME NEW i \in Nat, NEW k \in Calls
        PROVE  RunsAt(s, i, k) <=> Handles(s, i, k, "body")
    <3>1. ~RunsAt(s, Len(s), k)
      <4>1. Shows(s, Len(s), Top(t))
            BY <1>1, <2>2, HandlingPlain, TopView
      <4> QED BY <1>1, <4>1 DEF Shows, RunsFrame
    <3> QED BY <2>2, <3>1, RunsSomewhere
  <2>6. Settles(t, None)
    <3> SUFFICES ASSUME NEW i \in Nat, NEW k \in Calls
                 PROVE  /\ About(r, i, k) => About(s, i, k)
                        /\ Holds(r, i, k) => Holds(s, i, k)
                        /\ Handles(r, i, k, "body") <=> Handles(s, i, k, "body")
                        /\ RunsAt(r, i, k) <=> Handles(s, i, k, "body")
                        /\ RunsAt(s, i, k) => Handles(s, i, k, "body") \/ k = None
                        /\ Handles(s, i, k, "body") => k # None /\ \A j \in Nat : RunsAt(s, j, None) => i < j
        BY <2>2, <2>3 DEF Settles
    <3>1. \A j \in Nat : ~RunsAt(s, j, None)
          BY <2>2, RunsSomewhere
    <3>2. /\ About(r, i, k) <=> About(s, i, k)
          /\ Holds(r, i, k) <=> Holds(s, i, k)
          /\ RunsAt(r, i, k) <=> RunsAt(s, i, k)
          /\ Handles(r, i, k, "body") <=> Handles(s, i, k, "body")
          BY <2>4, SameSteady DEF SameView
    <3> QED BY <2>5, <3>1, <3>2, MessagesAssumption
  <2>7. AbortMessage(t, m, None)
        BY <1>4, <2>1
  <2> QED BY <1>1, <2>3, <2>6, <2>7, KAbort
<1> QED BY <1>3, <1>4 DEF EndRequest

\* ... or repeated by a call that has kept it and ends.
LEMMA KCatch ==
  ASSUME IInv, IInv', CallsInv, NEW t \in Threads, Catch(t)
  PROVE  CallsInv'
<1>1. /\ In(t, "handle", "catch") /\ queue' = queue /\ Goto(t, "wake")
      /\ AbortMessage(t, pending[Top(t).msg], Top(t).msg)
      BY DEF Catch
<1>2. /\ FrameOK(t, Top(t)) /\ Top(t).op = "handle" /\ Top(t).at = "catch"
      BY <1>1, TopFrame
<1>3. PICK e \in Calls : e = Top(t).msg /\ To[e] = t /\ ~Top(t).request
      BY <1>2 DEF FrameOK
<1>4. PICK m : m = pending[e]
      OBVIOUS
<1>5. "wake" \in Places
      BY DEF Places
<1>6. PICK f \in Frames :
        /\ f.op = "handle" /\ f.at = "wake" /\ f.msg = e /\ f.request = Top(t).request
        /\ frames'[t] = Append(Front(frames[t]), f)
        /\ \A u \in Threads \ {t} : frames'[u] = frames[u]
      BY <1>1, <1>3, <1>5, GoingFrame
<1>7. PICK s, n, r : s \in Seq(Frames) /\ s = frames[t] /\ n = Len(s) /\ r = Append(Front(s), f) /\ frames'[t] = r
      BY <1>6, IInvTypes
<1>8. n \in Nat /\ SameBut(s, r, n) /\ Shows(s, n, Top(t)) /\ Shows(r, n, f)
      BY <1>1, <1>7, TopView
<1>9. \A k \in Calls : /\ ~About(r, n, k) /\ ~Handles(r, n, k, "body") /\ ~RunsAt(r, n, k)
                       /\ ~Handles(s, n, k, "body")
                       /\ RunsAt(s, n, k) => k = e
                       /\ Holds(s, n, k) <=> k = e
                       /\ Holds(r, n, k) => k = e
      BY <1>2, <1>3, <1>6, <1>8 DEF Shows, AboutFrame, HandlesFrame, RunsFrame, HoldsFrame
<1>10. \A j \in Nat : Holds(s, j, e) => j = n
       BY <1>3, <1>7, <1>8, <1>9, OnceOf
<1>11. Settles(t, e)
  <2> SUFFICES ASSUME NEW i \in Nat, NEW k \in Calls
               PROVE  /\ About(r, i, k) => About(s, i, k)
                      /\ Holds(r, i, k) => Holds(s, i, k)
                      /\ Handles(r, i, k, "body") <=> Handles(s, i, k, "body")
                      /\ RunsAt(r, i, k) <=> Handles(s, i, k, "body")
                      /\ RunsAt(s, i, k) => Handles(s, i, k, "body") \/ k = e
                      /\ Handles(s, i, k, "body") => k # e /\ \A j \in Nat : RunsAt(s, j, e) => i < j
      BY <1>3, <1>7 DEF Settles
  <2>1. /\ RunsAt(s, i, k) => Handles(s, i, k, "body") \/ i = n
        /\ Handles(s, i, k, "body") => RunsAt(s, i, k) /\ i <= n
        BY <1>7, RunsSomewhere
  <2>2. CASE i = n
        BY <1>9, <2>2
  <2>3. CASE i # n
    <3>1. /\ About(r, i, k) => About(s, i, k)
          /\ Holds(r, i, k) => Holds(s, i, k)
          /\ Handles(r, i, k, "body") <=> Handles(s, i, k, "body")
          /\ RunsAt(r, i, k) <=> RunsAt(s, i, k)
          BY <1>8, <2>3 DEF SameBut
    <3>2. Handles(s, i, k, "body") => k # e
          BY <1>10, <2>3, HoldsPlaces
    <3>3. \A j \in Nat : RunsAt(s, j, e) => j = n
          BY <1>10, HoldsPlaces
    <3>4. Handles(s, i, k, "body") => i < n
          BY <1>8, <2>1, <2>3
    <3> QED BY <2>1, <2>3, <3>1, <3>2, <3>3, <3>4
  <2> QED BY <2>2, <2>3
<1>12. AbortMessage(t, m, e)
       BY <1>1, <1>3, <1>4
<1> QED BY <1>1, <1>4, <1>6, <1>11, <1>12, KAbort

\* At first there are no calls.
LEMMA InitCallsInv ==
  ASSUME Init
  PROVE  CallsInv
<1>1. \A t \in Threads : Len(frames[t]) = 0 /\ Len(queue[t]) = 0
      BY DEF Init
<1>2. \A m \in Calls : To[m] \in Threads /\ From[m] \in Threads
      BY MessagesAssumption
<1>3. pending = [m \in Calls |-> None] /\ asked = {}
      BY DEF Init
<1>4. \A i : i \notin 1 .. 0
      OBVIOUS
<1>5. \A m \in Calls : Once(m)
      BY <1>1, <1>2, <1>4 DEF Once, OnceIn
<1>6. \A k \in Calls : KeptAbove(k)
      BY <1>3 DEF KeptAbove
<1> QED BY <1>1, <1>3, <1>4, <1>5, <1>6 DEF CallsInv

\* Every step keeps the invariant.
LEMMA KNext ==
  ASSUME IInv, IInv', CallsInv, [Next]_vars
  PROVE  CallsInv'
<1>1. ASSUME NEW t \in Threads, Sends(t)
      PROVE  CallsInv'
      BY <1>1, KSends, KCall DEF Sends
<1>2. ASSUME NEW t \in Threads, Proceeds(t)
      PROVE  CallsInv'
  <2>1. CASE Count(t) \/ SignalReceiver(t) \/ Enter(t) \/ Wait(t) \/ Leave(t)
        BY <2>1, KSleeps, KSignalReceiver, KLeave
  <2>2. CASE Doze(t) \/ StayAwake(t) \/ SendCall(t) \/ Check(t) \/ GiveUp(t) \/ Read(t)
        BY <2>2, KSleeps, KSendCall, KLoops, KSends
  <2>3. CASE Look(t) \/ Pop(t) \/ Uncount(t) \/ EndRequest(t)
        BY <2>3, KLoops, KPop, KUncount, KEndRequest
  <2>4. CASE EndPlain(t) \/ EndCall(t) \/ Catch(t) \/ Wake(t)
        BY <2>4, KLoops, KEndCall, KCatch, KWake
  <2> QED BY <1>2, <2>1, <2>2, <2>3, <2>4 DEF Proceeds
<1>3. ASSUME NEW t \in Threads, Sleep(t) \/ AwakeEarly(t)
      PROVE  CallsInv'
      BY <1>3, KSleep, KSleeps
<1>4. CASE AbortPlease \/ Continue \/ FrontProceeds
      BY <1>4, KFront
<1>5. CASE UNCHANGED vars
      BY <1>5, KStutter
<1> QED BY <1>1, <1>2, <1>3, <1>4, <1>5 DEF Next

\* The invariant about calls holds.
THEOREM AlwaysCallsInv == Spec => []CallsInv
<1>1. Init => CallsInv
      BY InitCallsInv
<1>2. IInv /\ IInv' /\ CallsInv /\ [Next]_vars => CallsInv'
      BY KNext
<1> QED BY <1>1, <1>2, AlwaysIInv, PTL DEF Spec

\* A call that was asked to abort is aborted at last: as long as it is evaluated,
\* an exception ends it, or one of the calls above it keeps the request.
THEOREM AlwaysRequestsKept == Spec => []RequestsKept
<1>1. IInv /\ CallsInv => RequestsKept
  <2> SUFFICES ASSUME IInv, CallsInv, NEW t \in Threads, NEW i \in AbortableAt(t), NEW m \in asked, m = frames[t][i].msg
               PROVE  \/ exception[t] # None /\ \E j \in 1 .. i : RunsFrame(frames[t][j], exception[t])
                      \/ \E j \in DOMAIN frames[t] : \E k \in Calls :
                           j > i /\ RunsFrame(frames[t][j], k) /\ pending[k] = m
      BY DEF RequestsKept
  <2>1. i \in 1 .. Len(frames[t]) /\ m \in Calls /\ Handles(frames[t], i, m, "body")
        BY IInvTypes, AbortableCalls
  <2>2. Covered(t, i, m)
        BY <2>1 DEF CallsInv
  <2>3. DOMAIN frames[t] = 1 .. Len(frames[t])
        BY IInvTypes, LenProperties
  <2> QED BY <2>2, <2>3 DEF Covered, RunsAt
<1> QED BY <1>1, AlwaysIInv, AlwaysCallsInv, PTL

-----------------------------------------------------------------------------
(* The types of all variables.                                             *)

Flags == aborting \in BOOLEAN /\ answered \subseteq Calls

LEMMA FlagsKept ==
  ASSUME IInv, Flags, [Next]_vars
  PROVE  Flags'
<1>1. ASSUME NEW t \in Threads, Sends(t) \/ Sleep(t) \/ AwakeEarly(t)
      PROVE  aborting' = aborting /\ answered' = answered
      BY <1>1 DEF Sends, Send, Call, Sleep, AwakeEarly
<1>2. ASSUME NEW t \in Threads, Proceeds(t)
      PROVE  aborting' = aborting /\ answered' \subseteq Calls
  <2>1. CASE Count(t) \/ SignalReceiver(t) \/ Enter(t) \/ Wait(t) \/ Leave(t)
        BY <2>1 DEF Flags, Count, SignalReceiver, Enter, Wait, Leave
  <2>2. CASE Doze(t) \/ StayAwake(t) \/ SendCall(t) \/ Check(t) \/ GiveUp(t) \/ Read(t)
        BY <2>2 DEF Flags, Doze, StayAwake, SendCall, Check, GiveUp, Read
  <2>3. CASE Look(t) \/ Pop(t) \/ Uncount(t) \/ EndRequest(t)
        BY <2>3 DEF Flags, Look, Pop, Uncount, EndRequest
  <2>4. CASE EndPlain(t) \/ EndCall(t) \/ Catch(t) \/ Wake(t)
        BY <2>4 DEF Flags, EndPlain, EndCall, Catch, Wake
  <2> QED BY <1>2, <2>1, <2>2, <2>3, <2>4 DEF Proceeds
<1>3. CASE AbortPlease \/ Continue \/ FrontProceeds
      BY <1>3 DEF Flags, AbortPlease, Continue, FrontProceeds, CountAbort, TakeSleeper, SignalSleeper, UncountAbort
<1>4. CASE UNCHANGED vars
      BY <1>4 DEF vars, Flags
<1> QED BY <1>1, <1>2, <1>3, <1>4 DEF Next, Flags

\* Every variable always has its type.
THEOREM AlwaysTypeOK == Spec => []TypeOK
<1>1. Init => Flags
      BY DEF Init, Flags
<1>2. IInv /\ Flags /\ [Next]_vars => Flags'
      BY FlagsKept
<1>3. IInv /\ CallsInv /\ Flags => TypeOK
      BY DEF IInv, Types, CallsInv, Flags, TypeOK, Frames, Entry
<1> QED BY <1>1, <1>2, <1>3, AlwaysIInv, AlwaysCallsInv, PTL DEF Spec
=============================================================================
