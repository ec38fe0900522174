------------------------------- MODULE Messages -------------------------------
(***************************************************************************)
(* Message queues of threads (threadmsg.c), the events threads sleep on    *)
(* (event-private.c) and the aborting of messages (threads.c).             *)
(*                                                                         *)
(* A thread handles its messages when it calls pmath_aborting, which every *)
(* evaluation does all the time, and when it wakes up: messages are        *)
(* evaluated on top of whatever the thread was doing.  The sender of a     *)
(* "call" (pmath_thread_send_wait) sleeps until the receiver has           *)
(* answered, handling its own messages meanwhile; when it gives up, it     *)
(* sends the receiver a request to abort the call.                         *)
(*                                                                         *)
(* The code that threads and messages execute is the environment: it sends *)
(* messages, sleeps and looks for messages in any order.                   *)
(***************************************************************************)
EXTENDS Integers, Sequences, SequencesExt, FiniteSets

CONSTANTS Threads,
          Msgs,     \* addresses of messages and of their results
          From, To, \* From[m], To[m]: who sends message m to whom
          Calls,    \* messages that are sent with pmath_thread_send_wait
          Timed,    \* calls with a time-out
          Sleepers, \* threads whose code also sleeps by itself
          None

ASSUME MessagesAssumption ==
  /\ IsFiniteSet(Threads) /\ IsFiniteSet(Msgs)
  /\ \A m \in Msgs : From[m] \in Threads
  /\ \A m \in Msgs : To[m] \in Threads
  /\ \A m \in Msgs : From[m] # To[m]
  /\ Timed \subseteq Calls
  /\ Calls \subseteq Msgs
  /\ None \notin Threads \cup Msgs
  /\ Threads \cap {"idle", "count", "awake", "uncount"} = {}

VARIABLES queue,     \* queue[t]: its messages and abort requests, oldest first
          signaled,  \* is_signaled of its sleep_event
          sleepers,  \* the threads in sleeplist
          frames,    \* frames[t]: what t is doing, innermost last
          answered,  \* calls whose result has a _value
          pending,   \* _pending_abort_request of the result of a call
          exception, \* exception of each thread
          aborting,  \* the flag that pmath_abort_please sets
          front,     \* where the thread that aborts everything is
          reasons,   \* _pmath_abort_reasons
          asked,     \* history: calls that were asked to abort while they run
          overlooked \* history: threads that sleep on a message they took for none

vars == <<queue, signaled, sleepers, frames, answered, pending, exception, aborting,
          front, reasons, asked, overlooked>>

Init ==
  /\ queue = [t \in Threads |-> <<>>]
  /\ signaled = [t \in Threads |-> FALSE]
  /\ sleepers = {}
  /\ frames = [t \in Threads |-> <<>>]
  /\ answered = {}
  /\ pending = [m \in Calls |-> None]
  /\ exception = [t \in Threads |-> None]
  /\ aborting = FALSE
  /\ front = "idle"
  /\ reasons = 0
  /\ asked = {}
  /\ overlooked = {}

\* A frame: an operation, its message (and whether that is a request to abort
\* it), and where the operation is.
Frame(o, m, r, where) == [op |-> o, msg |-> m, request |-> r, at |-> where]

Handling == Frame("handle", None, FALSE, "pop")

Top(t)         == Last(frames[t])
In(t, o, where) == frames[t] # <<>> /\ Top(t).op = o /\ Top(t).at = where
AtTop(t, where) == frames[t] # <<>> /\ Top(t).at = where
Going(t, where) == Append(Front(frames[t]), [Top(t) EXCEPT !.at = where])
Goto(t, where)  == frames' = [frames EXCEPT ![t] = Going(t, where)]
Begin(t, f)     == frames' = [frames EXCEPT ![t] = Append(@, f)]
End(t)          == frames' = [frames EXCEPT ![t] = Front(@)]

\* abortable_messages: the frames in which t evaluates calls, the innermost last.
IsAbortable(f) == f.op = "handle" /\ f.msg \in Calls /\ ~f.request /\ f.at = "body"
AbortableAt(t)  == {i \in DOMAIN frames[t] : IsAbortable(frames[t][i])}
Evaluates(t, m) == \E i \in AbortableAt(t) : frames[t][i].msg = m
Innermost(t, m) == \E i \in AbortableAt(t) :
                     frames[t][i].msg = m /\ \A j \in AbortableAt(t) : j <= i

B(p) == IF p THEN 1 ELSE 0

\* pmath_aborting after it has handled messages.
Aborting(t) == reasons # 0 /\ (aborting \/ exception[t] # None)

\* Code that may call the library: of the thread itself or of a message.
Executes(t) ==
  /\ frames[t] = <<>> \/ (In(t, "handle", "body") /\ ~Top(t).request)
  /\ ~Aborting(t)

\* Nothing refers to m or its result.
Free(m) ==
  \A t \in Threads :
    /\ \A i \in DOMAIN queue[t] : queue[t][i].msg # m
    /\ \A i \in DOMAIN frames[t] : frames[t][i].msg # m
    /\ exception[t] # m

-----------------------------------------------------------------------------
(* push_msg and wakeup_msg_queue.                                          *)

\* Under tail_spin the message is appended and counted; the receiver, who
\* does not need tail_spin, may take it in between.
Push(m, r) == queue' = [queue EXCEPT ![To[m]] = Append(@, [msg |-> m, request |-> r])]

Count(t) ==
  /\ In(t, "send", "count")
  /\ reasons' = reasons + 1
  /\ Goto(t, "signal")
  /\ UNCHANGED <<queue, signaled, sleepers, answered, pending, exception, aborting, front, asked, overlooked>>

\* _pmath_event_signal wakes u if it waits, and is_signaled stays set.
Signal(u)  == signaled' = [signaled EXCEPT ![u] = TRUE]
Woken(u)   == IF AtTop(u, "asleep") THEN Going(u, "leave") ELSE frames[u]

SignalReceiver(t) ==
  /\ In(t, "send", "signal")
  /\ LET u == To[Top(t).msg]
     IN  /\ Signal(u)
         /\ frames' = [frames EXCEPT ![t] = Front(@), ![u] = Woken(u)]
  /\ UNCHANGED <<queue, sleepers, answered, pending, exception, aborting, front, reasons, asked, overlooked>>

\* Somebody is about to wake t up for a message.
Announced(t) == \E u \in Threads : frames[u] # <<>> /\ Top(u).op = "send" /\ To[Top(u).msg] = t

\* pmath_thread_send.
Send(t, m) ==
  /\ Executes(t)
  /\ m \notin Calls /\ From[m] = t /\ Free(m)
  /\ Push(m, FALSE)
  /\ Begin(t, Frame("send", m, FALSE, "count"))
  /\ UNCHANGED <<signaled, sleepers, answered, pending, exception, aborting, front, reasons, asked, overlooked>>

-----------------------------------------------------------------------------
(* Sleeping.                                                               *)

\* Code of a thread or of a message that sleeps by itself.
\* "This function is normally called in a loop: while(!pmath_aborting() && ...)
\* pmath_thread_sleep()" (threadmsg.h).
Sleep(t) ==
  /\ (IF frames[t] = <<>> THEN t ELSE Top(t).msg) \in Sleepers
  /\ Executes(t)
  /\ LET asleep == Append(frames[t], Frame("sleep", None, FALSE, "test"))
     IN  frames' = [frames EXCEPT ![t] = IF reasons = 0 THEN asleep ELSE Append(asleep, Handling)]
  /\ overlooked' = IF reasons = 0 /\ queue[t] # <<>> /\ ~Announced(t)
                   THEN overlooked \cup {t} ELSE overlooked
  /\ UNCHANGED <<queue, signaled, sleepers, answered, pending, exception, aborting, front, reasons, asked>>

\* A thread that is not aborting goes to sleep.
Doze(t) ==
  /\ AtTop(t, "test")
  /\ ~Aborting(t)
  /\ Goto(t, "enter")
  /\ UNCHANGED <<queue, signaled, sleepers, answered, pending, exception, aborting, front, reasons, asked, overlooked>>

StayAwake(t) ==
  /\ In(t, "sleep", "test")
  /\ Aborting(t)
  /\ End(t)
  /\ UNCHANGED <<queue, signaled, sleepers, answered, pending, exception, aborting, front, reasons, asked, overlooked>>

Enter(t) ==
  /\ AtTop(t, "enter")
  /\ sleepers' = sleepers \cup {t}
  /\ Goto(t, "event")
  /\ UNCHANGED <<queue, signaled, answered, pending, exception, aborting, front, reasons, asked, overlooked>>

\* Mutant: sleeps although the event is signaled.
WaitAnyway(t) ==
  /\ AtTop(t, "event")
  /\ signaled' = [signaled EXCEPT ![t] = FALSE]
  /\ Goto(t, "asleep")
  /\ UNCHANGED <<queue, sleepers, answered, pending, exception, aborting, front, reasons, asked, overlooked>>

\* _pmath_event_wait, up to the point where the thread blocks.
Wait(t) ==
  /\ AtTop(t, "event")
  /\ signaled' = [signaled EXCEPT ![t] = FALSE]
  /\ Goto(t, IF signaled[t] THEN "leave" ELSE "asleep")
  /\ UNCHANGED <<queue, sleepers, answered, pending, exception, aborting, front, reasons, asked, overlooked>>

\* The time is over, or pthread_cond_wait returns for no reason.
AwakeEarly(t) ==
  /\ AtTop(t, "asleep")
  /\ Goto(t, "leave")
  /\ UNCHANGED <<queue, signaled, sleepers, answered, pending, exception, aborting, front, reasons, asked, overlooked>>

\* pmath_thread_sleep goes on with the messages, pmath_thread_send_wait with
\* the answer.
Leave(t) ==
  /\ AtTop(t, "leave")
  /\ sleepers' = sleepers \ {t}
  /\ frames' = [frames EXCEPT ![t] = IF Top(t).op = "call" THEN Going(t, "read")
                                    ELSE Append(Front(@), Handling)]
  /\ overlooked' = overlooked \ {t}
  /\ UNCHANGED <<queue, signaled, answered, pending, exception, aborting, front, reasons, asked>>

-----------------------------------------------------------------------------
(* pmath_thread_send_wait.                                                 *)

\* It handles messages, then sends its own unless the thread is aborting, ...
Call(t, m) ==
  /\ Executes(t)
  /\ m \in Calls /\ From[m] = t /\ Free(m)
  /\ frames' = [frames EXCEPT ![t] = Append(Append(@, Frame("call", m, FALSE, "first")), Handling)]
  /\ UNCHANGED <<queue, signaled, sleepers, answered, pending, exception, aborting, front, reasons, asked, overlooked>>

SendCall(t) ==
  /\ In(t, "call", "first")
  /\ \/ /\ Aborting(t)
        /\ End(t)
        /\ UNCHANGED <<queue, answered>>
     \/ /\ ~Aborting(t)
        /\ LET m == Top(t).msg
           IN  /\ Push(m, FALSE)
               /\ answered' = answered \ {m}
               /\ frames' = [frames EXCEPT ![t] =
                               Append(Going(t, "check"), Frame("send", m, FALSE, "count"))]
  /\ UNCHANGED <<signaled, sleepers, pending, exception, aborting, front, reasons, asked, overlooked>>

\* ... and in a loop handles messages, ...
Check(t) ==
  /\ In(t, "call", "check")
  /\ frames' = [frames EXCEPT ![t] = Append(Going(t, "test"), Handling)]
  /\ UNCHANGED <<queue, signaled, sleepers, answered, pending, exception, aborting, front, reasons, asked, overlooked>>

\* ... sends a request to abort if the thread is aborting or the time is over, ...
GiveUp(t) ==
  /\ In(t, "call", "test")
  /\ Aborting(t) \/ Top(t).msg \in Timed
  /\ Push(Top(t).msg, TRUE)
  /\ frames' = [frames EXCEPT ![t] = Append(Front(@), Frame("send", Top(t).msg, TRUE, "count"))]
  /\ UNCHANGED <<signaled, sleepers, answered, pending, exception, aborting, front, reasons, asked, overlooked>>

\* ... otherwise sleeps (Doze) and looks whether there is an answer.
Read(t) ==
  /\ In(t, "call", "read")
  /\ IF Top(t).msg \in answered THEN End(t) ELSE Goto(t, "check")
  /\ answered' = answered \ {Top(t).msg}
  /\ UNCHANGED <<queue, signaled, sleepers, pending, exception, aborting, front, reasons, asked, overlooked>>

-----------------------------------------------------------------------------
(* _pmath_abort_message.                                                   *)

\* The depth of a call that t evaluates.
Depth(t, m) == CHOOSE i \in AbortableAt(t) : frames[t][i].msg = m

\* A request r to abort a call further out comes to frame i: it takes the place
\* of none, and of one that goes further out ...
Takes(t, i, r) ==
  LET has == pending[frames[t][i].msg]
  IN  /\ i \in AbortableAt(t) /\ r # None /\ Depth(t, r) < i
      /\ has = None \/ Depth(t, has) < Depth(t, r)

\* ... which then moves on.
PassedOn(t, i, r) ==
  LET has == pending[frames[t][i].msg]
  IN  IF Takes(t, i, r) THEN has
      ELSE IF i \in AbortableAt(t) /\ has = r THEN None ELSE r

\* What comes to each frame, when a request to abort m goes from the innermost
\* call outwards.
Comes(t, m) ==
  LET c[i \in 0 .. Len(frames[t])] ==
        IF i = Len(frames[t]) THEN m ELSE PassedOn(t, i + 1, c[i + 1])
  IN  c

Place(t, m) ==
  LET comes == Comes(t, m)
      new(i) == IF Takes(t, i, comes[i]) THEN comes[i] ELSE pending[frames[t][i].msg]
  IN  [k \in Calls |-> IF Evaluates(t, k) THEN new(Depth(t, k)) ELSE pending[k]]

\* The innermost call gets the exception m, unless there is one already; a call
\* that runs no more is not aborted; otherwise the request is kept.  When the
\* evaluation of a call has just ended, the exception that was meant for it is
\* caught, any other one is caught and thrown again, and its own request goes.
AbortMessage(t, m, ended) ==
  LET ex    == IF exception[t] = ended THEN None ELSE exception[t]
      throw == Innermost(t, m) /\ ex = None
      keep  == /\ Evaluates(t, m) /\ ~Innermost(t, m)
               /\ \A i \in AbortableAt(t) : pending[frames[t][i].msg] # m
      kept  == IF keep THEN Place(t, m) ELSE pending
  IN  /\ exception' = [exception EXCEPT ![t] = IF throw THEN m ELSE ex]
      /\ reasons' = reasons + B(throw) - B(exception[t] # ex)
      /\ signaled' = [signaled EXCEPT ![t] = @ \/ throw \/ (ended # None /\ ex # None)]
      /\ pending' = [k \in Calls |-> IF k = ended THEN None ELSE kept[k]]
      /\ asked' = (IF Evaluates(t, m) THEN asked \cup {m} ELSE asked) \ {ended}

-----------------------------------------------------------------------------
(* _pmath_msq_queue_handle_next.                                           *)

\* Any evaluation calls pmath_aborting.
Look(t) ==
  /\ frames[t] = <<>> \/ In(t, "handle", "body")
  /\ reasons # 0 /\ queue[t] # <<>>
  /\ Begin(t, Handling)
  /\ UNCHANGED <<queue, signaled, sleepers, answered, pending, exception, aborting, front, reasons, asked, overlooked>>

Pop(t) ==
  /\ In(t, "handle", "pop")
  /\ \/ /\ queue[t] = <<>>
        /\ End(t)
        /\ UNCHANGED queue
     \/ /\ queue[t] # <<>>
        /\ queue' = [queue EXCEPT ![t] = Tail(@)]
        /\ frames' = [frames EXCEPT ![t] =
                        Append(Front(@), Frame("handle", Head(queue[t]).msg, Head(queue[t]).request, "uncount"))]
  /\ UNCHANGED <<signaled, sleepers, answered, pending, exception, aborting, front, reasons, asked, overlooked>>

Uncount(t) ==
  /\ In(t, "handle", "uncount")
  /\ reasons' = reasons - 1
  /\ Goto(t, "body")
  /\ UNCHANGED <<queue, signaled, sleepers, answered, pending, exception, aborting, front, asked, overlooked>>

Again(t) == frames' = [frames EXCEPT ![t] = Append(Front(@), Handling)]

\* The evaluation of a request, of a plain message or of a call ends.  An
\* aborting thread evaluates nothing.
EndRequest(t) ==
  /\ In(t, "handle", "body") /\ Top(t).request
  /\ \/ /\ ~Aborting(t)
        /\ AbortMessage(t, Top(t).msg, None)
     \/ /\ Aborting(t)
        /\ UNCHANGED <<exception, reasons, signaled, pending, asked>>
  /\ Again(t)
  /\ UNCHANGED <<queue, sleepers, answered, aborting, front, overlooked>>

EndPlain(t) ==
  /\ In(t, "handle", "body") /\ Top(t).msg \notin Calls
  /\ Again(t)
  /\ UNCHANGED <<queue, signaled, sleepers, answered, pending, exception, aborting, front, reasons, asked, overlooked>>

\* Mutant: an aborted call has no value.
EndUnlessAborted(t) ==
  /\ In(t, "handle", "body") /\ Top(t).msg \in Calls /\ ~Top(t).request
  /\ answered' = IF Aborting(t) THEN answered ELSE answered \cup {Top(t).msg}
  /\ Goto(t, "catch")
  /\ UNCHANGED <<queue, signaled, sleepers, pending, exception, aborting, front, reasons, asked, overlooked>>

\* The call leaves abortable_messages and its value is stored, ...
EndCall(t) ==
  /\ In(t, "handle", "body") /\ Top(t).msg \in Calls /\ ~Top(t).request
  /\ answered' = answered \cup {Top(t).msg}
  /\ Goto(t, "catch")
  /\ UNCHANGED <<queue, signaled, sleepers, pending, exception, aborting, front, reasons, asked, overlooked>>

\* Mutant: does not catch the exception of the call.
LetGo(t) ==
  /\ In(t, "handle", "catch")
  /\ AbortMessage(t, pending[Top(t).msg], None)
  /\ Goto(t, "wake")
  /\ UNCHANGED <<queue, sleepers, answered, aborting, front, overlooked>>

\* Mutant: drops the request that the call has kept.
CatchOnly(t) ==
  /\ In(t, "handle", "catch")
  /\ AbortMessage(t, None, Top(t).msg)
  /\ Goto(t, "wake")
  /\ UNCHANGED <<queue, sleepers, answered, aborting, front, overlooked>>

\* ... its own exception is dropped, the request it has kept is repeated ...
Catch(t) ==
  /\ In(t, "handle", "catch")
  /\ AbortMessage(t, pending[Top(t).msg], Top(t).msg)
  /\ Goto(t, "wake")
  /\ UNCHANGED <<queue, sleepers, answered, aborting, front, overlooked>>

\* ... and the sender woken up.
Wake(t) ==
  /\ In(t, "handle", "wake")
  /\ LET u == From[Top(t).msg]
     IN  /\ Signal(u)
         /\ frames' = [frames EXCEPT ![t] = Append(Front(@), Handling), ![u] = Woken(u)]
  /\ UNCHANGED <<queue, sleepers, answered, pending, exception, aborting, front, reasons, asked, overlooked>>

-----------------------------------------------------------------------------
(* pmath_abort_please and pmath_continue_after_abort, called by one thread *)
(* of a front-end.                                                         *)

\* Mutant: counts the flag although it was set.
AbortAgain ==
  /\ front = "idle"
  /\ aborting' = TRUE
  /\ front' = "count"
  /\ UNCHANGED <<queue, signaled, sleepers, frames, answered, pending, exception, reasons, asked, overlooked>>

AbortPlease ==
  /\ front = "idle"
  /\ aborting' = TRUE
  /\ front' = IF aborting THEN "awake" ELSE "count"
  /\ UNCHANGED <<queue, signaled, sleepers, frames, answered, pending, exception, reasons, asked, overlooked>>

CountAbort ==
  /\ front = "count"
  /\ reasons' = reasons + 1
  /\ front' = "awake"
  /\ UNCHANGED <<queue, signaled, sleepers, frames, answered, pending, exception, aborting, asked, overlooked>>

\* _pmath_msq_queue_awake_all takes one thread after the other out of the list.
TakeSleeper ==
  /\ front = "awake"
  /\ \/ /\ sleepers = {}
        /\ front' = "idle"
        /\ UNCHANGED sleepers
     \/ \E u \in sleepers :
          /\ sleepers' = sleepers \ {u}
          /\ front' = u
  /\ UNCHANGED <<queue, signaled, frames, answered, pending, exception, aborting, reasons, asked, overlooked>>

SignalSleeper ==
  /\ front \in Threads
  /\ Signal(front)
  /\ frames' = [frames EXCEPT ![front] = Woken(front)]
  /\ front' = "awake"
  /\ UNCHANGED <<queue, sleepers, answered, pending, exception, aborting, reasons, asked, overlooked>>

Continue ==
  /\ front = "idle"
  /\ aborting
  /\ aborting' = FALSE
  /\ front' = "uncount"
  /\ UNCHANGED <<queue, signaled, sleepers, frames, answered, pending, exception, reasons, asked, overlooked>>

\* The thread that does this also catches its own exception, pmath_catch.  The
\* front-end is none of the threads of the model, and nobody throws into it.
UncountAbort ==
  /\ front = "uncount"
  /\ reasons' = reasons - 1
  /\ front' = "idle"
  /\ UNCHANGED <<queue, signaled, sleepers, frames, answered, pending, exception, aborting, asked, overlooked>>

-----------------------------------------------------------------------------
Sends(t) == \E m \in Msgs : Send(t, m) \/ Call(t, m)

Proceeds(t) ==
  \/ Count(t) \/ SignalReceiver(t)
  \/ Enter(t) \/ Wait(t) \/ Leave(t)
  \/ Doze(t) \/ StayAwake(t)
  \/ SendCall(t) \/ Check(t) \/ GiveUp(t) \/ Read(t)
  \/ Look(t) \/ Pop(t) \/ Uncount(t) \/ EndRequest(t) \/ EndPlain(t) \/ EndCall(t) \/ Catch(t) \/ Wake(t)

FrontProceeds == CountAbort \/ TakeSleeper \/ SignalSleeper \/ UncountAbort

Next ==
  \/ \E t \in Threads : Sends(t) \/ Sleep(t) \/ AwakeEarly(t) \/ Proceeds(t)
  \/ AbortPlease \/ Continue \/ FrontProceeds

Spec == Init /\ [][Next]_vars

\* The operating system runs every runnable thread, and the evaluation of a
\* message ends when it calls nothing more.  No time-out has to happen.
FairSpec == Spec /\ WF_vars(FrontProceeds) /\ \A t \in Threads : WF_vars(Proceeds(t))

-----------------------------------------------------------------------------
Places == {"count", "signal", "enter", "event", "asleep", "leave", "first", "check", "test",
           "read", "pop", "uncount", "body", "catch", "wake"}

TypeOK ==
  /\ queue \in [Threads -> Seq([msg : Msgs, request : BOOLEAN])]
  /\ signaled \in [Threads -> BOOLEAN]
  /\ sleepers \subseteq Threads
  /\ frames \in [Threads -> Seq([op : {"send", "sleep", "call", "handle"}, msg : Msgs \cup {None},
                                 request : BOOLEAN, at : Places])]
  /\ answered \subseteq Calls
  /\ pending \in [Calls -> Calls \cup {None}]
  /\ exception \in [Threads -> Calls \cup {None}]
  /\ aborting \in BOOLEAN
  /\ front \in {"idle", "count", "awake", "uncount"} \cup Threads
  /\ reasons \in Int
  /\ asked \subseteq Calls
  /\ overlooked \subseteq Threads

\* The counter that lets pmath_aborting skip everything counts messages in
\* queues, exceptions and the flag, except for threads between changing one
\* of these and counting it.
Entries      == UNION {{t} \X DOMAIN queue[t] : t \in Threads}
TopsAt(where) == {t \in Threads : AtTop(t, where)}
ReasonsExact ==
  reasons + Cardinality(TopsAt("count")) + B(front = "count")
    = Cardinality(Entries) + Cardinality(TopsAt("uncount"))
        + Cardinality({t \in Threads : exception[t] # None})
        + B(aborting) + B(front = "uncount")

\* A thread sleeps while it has messages only as long as the sender has not
\* woken it yet: no wake-up is lost between looking and sleeping, unless the
\* thread did not look.
MessageWakes ==
  \A t \in Threads :
    AtTop(t, "asleep") /\ queue[t] # <<>> => Announced(t) \/ t \in overlooked

\* pmath_aborting does not look for messages when the counter is 0.  It can be 0
\* for a moment although there is one: a message to somebody else was taken
\* and uncounted before it was counted.  This takes a third thread.
OverlooksInWindow ==
  \A t \in Threads :
    t \in overlooked' /\ t \notin overlooked
      => \E u \in Threads : AtTop(u, "count") /\ To[Top(u).msg] # t

\* No thread sleeps on a message it took for none.
NoneOverlooked == overlooked = {}

\* The thread that waits for the answer of call m sleeps although the answer
\* is there, and nobody is going to wake it up.
Stranded(t) ==
  /\ In(t, "call", "asleep")
  /\ Top(t).msg \in answered
  /\ \A u \in Threads : ~(AtTop(u, "catch") \/ AtTop(u, "wake"))

\* "The calling thread will fall asleep until it receives an answer to return"
\* (threadmsg.h).
AnswerEndsSleep == \A t \in Threads : ~Stranded(t)

\* f evaluates call m, or catches its exception.
RunsFrame(f, m) ==
  f.op = "handle" /\ ~f.request /\ f.msg = m /\ f.at \in {"body", "catch"}

\* The exception that aborts a call exists only while the receiver evaluates
\* that call: it never hits what the receiver does before or after.
Runs(t, m) == \E i \in DOMAIN frames[t] : RunsFrame(frames[t][i], m)
AbortStaysInside == \A t \in Threads : exception[t] # None => Runs(t, exception[t])

\* A call that was asked to abort is aborted at last: as long as it is evaluated,
\* an exception ends it, or a call further out, or one of the calls above it
\* keeps the request and repeats it when it ends (_pmath_abort_message).
RequestsKept ==
  \A t \in Threads : \A i \in AbortableAt(t) : frames[t][i].msg \in asked =>
    \/ exception[t] # None /\ \E j \in 1 .. i : RunsFrame(frames[t][j], exception[t])
    \/ \E j \in DOMAIN frames[t] : \E k \in Calls :
         j > i /\ RunsFrame(frames[t][j], k) /\ pending[k] = frames[t][i].msg

\* Who sleeps is in the list that pmath_abort_please goes through, or has just
\* been taken from it: an abort finds everybody who slept before.
SleepersListed == \A t \in Threads : AtTop(t, "asleep") => t \in sleepers \/ front = t

\* When no more messages are sent and no code sleeps for ever, all calls
\* return, unless a thread does not notice its answer.
NoMoreCalls == <>[][\A t \in Threads : ~Sends(t) /\ ~Sleep(t)]_vars
CallsReturn ==
  /\ NoMoreCalls
  /\ \A t \in Threads : []<>~In(t, "sleep", "asleep")
  /\ []AnswerEndsSleep
  => \A t \in Threads : []<>(frames[t] = <<>>)
=============================================================================
