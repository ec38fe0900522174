---------------------------- MODULE LockedObject ----------------------------
(***************************************************************************)
(* pmath_locked_t: a location that holds a pMath object and that threads   *)
(* read, write and exchange.  The object is kept in two words, its tag and *)
(* its payload.                                                            *)
(*                                                                         *)
(* In a build with PMATH_BITSIZE = 32 the words change one at a time, and  *)
(* the tag word doubles as a spinlock: whoever swaps PMATH_TAG_INVALID     *)
(* into it owns both words until it stores a tag again.  A write takes the *)
(* lock as well.                                                           *)
(*                                                                         *)
(* With PMATH_BITSIZE = 64 the two words change at once.  read_start swaps *)
(* the invalid tag in, read_end puts an object back by compare-and-set if  *)
(* the tag is still invalid, and a write is a single swap that neither     *)
(* waits for the invalid tag to go nor tells the thread that put it there. *)
(*                                                                         *)
(* An object o is written as its two words <<o, o>>; a pair of two         *)
(* different objects is a torn value that no caller ever stored.           *)
(***************************************************************************)
EXTENDS Naturals, FiniteSets

CONSTANTS PMATH_BITSIZE, \* the build
          Readers,    \* threads that call _pmath_object_atomic_read
          Exchangers, \* threads that call read_start, then read_end with another object
          Writers,    \* threads that call _pmath_object_atomic_write
          Objects,    \* addresses of pMath objects; freed ones are reused
          None,       \* no object
          Invalid     \* PMATH_TAG_INVALID

Threads == Readers \cup Exchangers \cup Writers

ASSUME BuildAssumption == PMATH_BITSIZE \in {32, 64}

ASSUME ObjectsAssumption ==
  /\ IsFiniteSet(Threads)
  /\ None \notin Objects
  /\ Invalid \notin Objects \cup {None}

VARIABLES tag,       \* ptr->_data.s.tag
          payload,   \* ptr->_data.s.u.as_int32, or the lower half of as_bits
          refs,      \* reference count of each object; 0: not allocated
          pc,        \* where each thread is
          kind,      \* the operation it executes
          arg,       \* the object it is about to store, with a reference
          value,     \* the two words it took out, with a reference
          last,      \* history: what a register would hold now
          overlap    \* history: whether two threads were ever between read_start
                     \* and read_end at the same time

vars == <<tag, payload, refs, pc, kind, arg, value, last, overlap>>

NoValue == <<None, None>>
Words   == (Objects \cup {None}) \X (Objects \cup {None})

Init ==
  \E o \in Objects :
    /\ tag = o
    /\ payload = o
    /\ last = o
    /\ refs = [x \in Objects |-> IF x = o THEN 1 ELSE 0]
    /\ pc = [t \in Threads |-> "idle"]
    /\ kind = [t \in Threads |-> "read"]
    /\ arg = [t \in Threads |-> None]
    /\ value = [t \in Threads |-> NoValue]
    /\ overlap = FALSE

-----------------------------------------------------------------------------
(* Both builds.                                                            *)

\* t is between read_start and read_end.
Taken(t) == pc[t] \in {"take", "ref", "put", "release"}

\* A reader calls without an object.
CallRead(t) ==
  /\ t \in Readers
  /\ pc[t] = "idle"
  /\ pc' = [pc EXCEPT ![t] = "start"]
  /\ kind' = [kind EXCEPT ![t] = "read"]
  /\ UNCHANGED <<tag, payload, refs, arg, value, last, overlap>>

\* The caller creates the object to be stored and hands over its reference.
CallStore(t, k) ==
  /\ t \in IF k = "write" THEN Writers ELSE Exchangers
  /\ pc[t] = "idle"
  /\ \E o \in Objects :
       /\ refs[o] = 0
       /\ refs' = [refs EXCEPT ![o] = 1]
       /\ arg' = [arg EXCEPT ![t] = o]
  /\ kind' = [kind EXCEPT ![t] = k]
  /\ pc' = [pc EXCEPT ![t] = IF k = "write" /\ PMATH_BITSIZE = 64 THEN "swap" ELSE "start"]
  /\ UNCHANGED <<tag, payload, value, last, overlap>>

\* The first swap of read_start.  While the tag is invalid it changes nothing
\* and the thread spins.  This is the instant at which a register would be read
\* and changed.
TakeAnd(t, words, next) ==
  /\ pc[t] = "start"
  /\ tag # Invalid
  /\ value' = [value EXCEPT ![t] = words]
  /\ tag' = Invalid
  /\ last' = IF kind[t] = "read" THEN last ELSE arg[t]
  /\ pc' = [pc EXCEPT ![t] = next]
  /\ overlap' = (overlap \/ \E u \in Threads : Taken(u))
  /\ UNCHANGED <<refs, kind, arg>>

AfterTake(t) == IF kind[t] = "read" THEN "ref" ELSE "put"

\* Mutant: returns the object and puts it back with one reference.
PutBackWithoutRef(t) ==
  /\ pc[t] = "ref"
  /\ arg' = [arg EXCEPT ![t] = value[t][1]]
  /\ pc' = [pc EXCEPT ![t] = "put"]
  /\ UNCHANGED <<tag, payload, refs, kind, value, last, overlap>>

\* _read puts the object it took back, with a reference of its own.
RefValue(t) ==
  /\ pc[t] = "ref"
  /\ refs' = [refs EXCEPT ![value[t][1]] = @ + 1]
  /\ arg' = [arg EXCEPT ![t] = value[t][1]]
  /\ pc' = [pc EXCEPT ![t] = "put"]
  /\ UNCHANGED <<tag, payload, kind, value, last, overlap>>

\* The caller, or _write itself, releases the object that was taken out.
Drop(t) ==
  /\ pc[t] = "drop"
  /\ refs' = [o \in Objects |-> IF o = value[t][1] THEN refs[o] - 1 ELSE refs[o]]
  /\ value' = [value EXCEPT ![t] = NoValue]
  /\ pc' = [pc EXCEPT ![t] = "idle"]
  /\ UNCHANGED <<tag, payload, kind, arg, last, overlap>>

-----------------------------------------------------------------------------
(* 32 bits.                                                                *)

\* Mutant: reads the tag without locking the location.
ReadTag(t) ==
  /\ PMATH_BITSIZE = 32
  /\ pc[t] = "start"
  /\ tag # Invalid
  /\ value' = [value EXCEPT ![t] = <<tag, None>>]
  /\ pc' = [pc EXCEPT ![t] = "take"]
  /\ UNCHANGED <<tag, payload, refs, kind, arg, last, overlap>>

\* read_start, first word: swap the invalid tag in.
TakeTag(t) ==
  /\ PMATH_BITSIZE = 32
  /\ TakeAnd(t, <<tag, None>>, "take")
  /\ UNCHANGED payload

\* read_start, second word: swap 0 into the payload.
TakePayload(t) ==
  /\ pc[t] = "take"
  /\ value' = [value EXCEPT ![t][2] = payload]
  /\ payload' = None
  /\ pc' = [pc EXCEPT ![t] = AfterTake(t)]
  /\ UNCHANGED <<tag, refs, kind, arg, last, overlap>>

\* Mutant: stores the tag before the payload.
PutTagFirst(t) ==
  /\ PMATH_BITSIZE = 32
  /\ pc[t] = "put"
  /\ tag' = arg[t]
  /\ pc' = [pc EXCEPT ![t] = "release"]
  /\ UNCHANGED <<payload, refs, kind, arg, value, last, overlap>>

\* read_end, second word first.
PutPayload(t) ==
  /\ PMATH_BITSIZE = 32
  /\ pc[t] = "put"
  /\ payload' = arg[t]
  /\ pc' = [pc EXCEPT ![t] = "release"]
  /\ UNCHANGED <<tag, refs, kind, arg, value, last, overlap>>

\* read_end, the tag word: the location is unlocked and holds arg[t].
PutTag(t) ==
  /\ pc[t] = "release"
  /\ tag' = arg[t]
  /\ arg' = [arg EXCEPT ![t] = None]
  /\ pc' = [pc EXCEPT ![t] = "drop"]
  /\ UNCHANGED <<payload, refs, kind, value, last, overlap>>

-----------------------------------------------------------------------------
(* 64 bits.                                                                *)

\* read_start: swap the word with the invalid tag in.
TakeWord(t) ==
  /\ PMATH_BITSIZE = 64
  /\ TakeAnd(t, <<tag, payload>>, AfterTake(t))
  /\ payload' = None

\* Mutant: keeps the object when somebody has written.
PutWordLeaks(t) ==
  /\ PMATH_BITSIZE = 64
  /\ pc[t] = "put"
  /\ tag' = IF tag = Invalid THEN arg[t] ELSE tag
  /\ payload' = IF tag = Invalid THEN arg[t] ELSE payload
  /\ arg' = [arg EXCEPT ![t] = None]
  /\ pc' = [pc EXCEPT ![t] = "drop"]
  /\ UNCHANGED <<refs, kind, value, last, overlap>>

\* Mutant: always releases the object.
PutWordReleases(t) ==
  /\ PMATH_BITSIZE = 64
  /\ pc[t] = "put"
  /\ refs' = [refs EXCEPT ![arg[t]] = @ - 1]
  /\ arg' = [arg EXCEPT ![t] = None]
  /\ pc' = [pc EXCEPT ![t] = "drop"]
  /\ UNCHANGED <<tag, payload, kind, value, last, overlap>>

\* read_end: store the object, or release it when somebody has written.
PutWord(t) ==
  /\ PMATH_BITSIZE = 64
  /\ pc[t] = "put"
  /\ \/ /\ tag = Invalid
        /\ tag' = arg[t]
        /\ payload' = arg[t]
        /\ UNCHANGED refs
     \/ /\ tag # Invalid
        /\ refs' = [refs EXCEPT ![arg[t]] = @ - 1]
        /\ UNCHANGED <<tag, payload>>
  /\ arg' = [arg EXCEPT ![t] = None]
  /\ pc' = [pc EXCEPT ![t] = "drop"]
  /\ UNCHANGED <<kind, value, last, overlap>>

\* Mutant: gives up when the tag is invalid.
SwapIfValid(t) ==
  /\ pc[t] = "swap"
  /\ value' = [value EXCEPT ![t] = IF tag = Invalid THEN <<arg[t], arg[t]>> ELSE <<tag, payload>>]
  /\ tag' = IF tag = Invalid THEN Invalid ELSE arg[t]
  /\ payload' = IF tag = Invalid THEN None ELSE arg[t]
  /\ last' = arg[t]
  /\ arg' = [arg EXCEPT ![t] = None]
  /\ pc' = [pc EXCEPT ![t] = "drop"]
  /\ UNCHANGED <<refs, kind, overlap>>

\* _write: an unconditional swap; the old object is released unless its tag is
\* invalid.
SwapWord(t) ==
  /\ pc[t] = "swap"
  /\ value' = [value EXCEPT ![t] = IF tag = Invalid THEN NoValue ELSE <<tag, payload>>]
  /\ tag' = arg[t]
  /\ payload' = arg[t]
  /\ last' = arg[t]
  /\ arg' = [arg EXCEPT ![t] = None]
  /\ pc' = [pc EXCEPT ![t] = "drop"]
  /\ UNCHANGED <<refs, kind, overlap>>

-----------------------------------------------------------------------------
Step(t) ==
  \/ RefValue(t) \/ Drop(t)
  \/ TakeTag(t) \/ TakePayload(t) \/ PutPayload(t) \/ PutTag(t)
  \/ TakeWord(t) \/ PutWord(t) \/ SwapWord(t)

Next ==
  \E t \in Threads :
    \/ CallRead(t)
    \/ \E k \in {"write", "update"} : CallStore(t, k)
    \/ Step(t)

Spec == Init /\ [][Next]_vars

\* Every thread inside an operation keeps running; nobody has to call one.
FairSpec == Spec /\ \A t \in Threads : WF_vars(Step(t))

-----------------------------------------------------------------------------
TypeOK ==
  /\ tag \in Objects \cup {Invalid}
  /\ payload \in Objects \cup {None}
  /\ refs \in [Objects -> Nat]
  /\ pc \in [Threads -> {"idle", "start", "take", "ref", "put", "release", "swap", "drop"}]
  /\ kind \in [Threads -> {"read", "write", "update"}]
  /\ arg \in [Threads -> Objects \cup {None}]
  /\ value \in [Threads -> Words]
  /\ last \in Objects
  /\ overlap \in BOOLEAN

\* The two words always belong to one object: nobody sees the tag of one
\* object with the payload of another (atomic-private.h, 32-bit branches).
NoTornValue ==
  /\ tag # Invalid => payload = tag
  /\ \A t \in Threads : pc[t] \in {"ref", "put", "release", "drop"} => value[t][1] = value[t][2]

\* Each object counts exactly the references held by the location and by the
\* operations under way, however swaps and compare-and-sets interleave: the
\* thread whose compare-and-set fails is the one that releases the object.
Held(o) ==
  (IF tag = o THEN 1 ELSE 0)
    + Cardinality({t \in Threads : arg[t] = o})
    + Cardinality({t \in Threads : value[t][1] = o})

RefsBalanced == \A o \in Objects : refs[o] = Held(o)

\* While the tag is invalid some thread is on its way to read_end, so the
\* spinners of read_start never wait for nobody.
InvalidHasTaker == tag = Invalid => \E t \in Threads : Taken(t)

\* ... and therefore the location becomes readable again.
LockReleased == tag = Invalid ~> tag # Invalid

\* The location holds what was stored last, unless it is being read
\* ("Access pMath objects atomically (using a spinlock)", atomic-private.h).
HoldsLastStored == tag # Invalid => tag = last

\* ... which is so as long as there is only one reader at a time: a write
\* while it has the object out is kept, and the compare-and-set of read_end
\* does not put the old object back over it.
KeptUnlessOverlap == ~overlap => HoldsLastStored

\* What the abstract register knows of thread t's operation.
RegisterOp(t) ==
  IF pc[t] = "idle" THEN [phase |-> "idle", kind |-> "read", arg |-> None, got |-> None]
  ELSE IF pc[t] \in {"start", "swap"}
  THEN [phase |-> "called", kind |-> kind[t], arg |-> arg[t], got |-> None]
  ELSE [phase |-> "done", kind |-> kind[t], arg |-> None,
        got |-> IF kind[t] = "write" THEN None ELSE value[t][1]]

RegisterOps == [t \in Threads |-> RegisterOp(t)]

\* The location is a register: an operation takes effect when the tag word is
\* swapped.
Register == INSTANCE AtomicRegister WITH reg <- last, op <- RegisterOps

ImplementsRegister == Register!Spec
=============================================================================
