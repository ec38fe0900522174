------------------------- MODULE LockedObject_proofs -------------------------
(***************************************************************************)
(* Proofs about LockedObject for any number of threads and objects, in     *)
(* both builds: a value is never torn, a reference is never lost and never *)
(* released twice, an invalid tag is always that of a thread on its way to *)
(* read_end, and as long as no two threads have the object out at a time   *)
(* the location is an atomic register; with 32 bits that is always.        *)
(***************************************************************************)
EXTENDS LockedObject, FiniteSetTheorems, TLAPS

-----------------------------------------------------------------------------
(* The inductive invariant.                                                *)

\* What thread t has at each place: the words it took out, and the object it is
\* going to store.
PlaceInv(t) ==
  /\ pc[t] = "idle" => value[t] = NoValue /\ arg[t] = None
  /\ pc[t] \in {"start", "swap"} => value[t] = NoValue
  /\ pc[t] \in {"start", "take"} => (arg[t] = None <=> kind[t] = "read")
  /\ pc[t] \in {"take", "release"} => PMATH_BITSIZE = 32
  /\ pc[t] = "swap" => PMATH_BITSIZE = 64 /\ kind[t] = "write" /\ arg[t] # None
  /\ pc[t] = "take" => value[t][1] # None /\ value[t][2] = None
  /\ pc[t] \in {"ref", "put", "release", "drop"} => value[t][1] = value[t][2]
  /\ pc[t] = "ref" => kind[t] = "read" /\ arg[t] = None /\ value[t][1] # None
  /\ pc[t] \in {"put", "release"} => arg[t] # None
  /\ pc[t] = "drop" => arg[t] = None

\* The location holds one object.
WordsInv == tag # Invalid => payload = tag

\* With 32 bits the tag word is a lock, and its owner uses the payload word.
LockInv ==
  PMATH_BITSIZE = 32 =>
    /\ ~overlap
    /\ \A t \in Threads : /\ Taken(t) => tag = Invalid
                          /\ pc[t] = "take" => payload = value[t][1]
                          /\ pc[t] = "release" => payload = arg[t]

\* What t is going to put back.
PutsBack(t) == IF pc[t] = "ref" \/ (pc[t] = "take" /\ kind[t] = "read") THEN value[t][1] ELSE arg[t]

\* As long as there was no overlap, one thread at most has the object out, and
\* what it will put back is what a register would hold.
LastInv ==
  ~overlap =>
    /\ \A s, t \in Threads : Taken(s) /\ Taken(t) => s = t
    /\ tag # Invalid => tag = last
    /\ tag = Invalid => \A t \in Threads : Taken(t) => PutsBack(t) = last

IInv ==
  /\ TypeOK
  /\ \A t \in Threads : PlaceInv(t)
  /\ WordsInv
  /\ LockInv
  /\ InvalidHasTaker
  /\ LastInv
  /\ RefsBalanced

-----------------------------------------------------------------------------
(* Counting the references to an object.                                   *)

\* Adding and removing at most one element changes a cardinality by one.
LEMMA CountChange ==
  ASSUME NEW S \in SUBSET Threads, NEW T \in SUBSET Threads, NEW t \in Threads,
         \A s \in Threads \ {t} : s \in S <=> s \in T
  PROVE  /\ Cardinality(S) \in Nat /\ Cardinality(T) \in Nat
         /\ t \in T /\ t \notin S => Cardinality(T) = Cardinality(S) + 1
         /\ t \in S /\ t \notin T => Cardinality(S) = Cardinality(T) + 1
         /\ (t \in S <=> t \in T) => Cardinality(T) = Cardinality(S)
<1>1. IsFiniteSet(S) /\ IsFiniteSet(T)
      BY ObjectsAssumption, FS_Subset
<1>2. Cardinality(S) \in Nat /\ Cardinality(T) \in Nat
      BY <1>1, FS_CardinalityType
<1>3. ASSUME t \in T, t \notin S PROVE Cardinality(T) = Cardinality(S) + 1
  <2>1. T = S \cup {t}
        BY <1>3
  <2> QED BY <1>1, <1>3, <2>1, FS_AddElement
<1>4. ASSUME t \in S, t \notin T PROVE Cardinality(S) = Cardinality(T) + 1
  <2>1. S = T \cup {t}
        BY <1>4
  <2> QED BY <1>1, <1>4, <2>1, FS_AddElement
<1>5. (t \in S <=> t \in T) => S = T
      OBVIOUS
<1> QED BY <1>2, <1>3, <1>4, <1>5

One(p) == IF p THEN 1 ELSE 0

\* A step of thread t changes the holders of object x by the location, by the
\* object t is about to store and by the object it took out.
LEMMA HeldChange ==
  ASSUME NEW x \in Objects, NEW t \in Threads,
         \A s \in Threads \ {t} : arg'[s] = arg[s] /\ value'[s][1] = value[s][1]
  PROVE  /\ Held(x) \in Nat /\ Held(x)' \in Nat
         /\ Held(x)' + One(tag = x) + One(arg[t] = x) + One(value[t][1] = x)
              = Held(x) + One(tag' = x) + One(arg'[t] = x) + One(value'[t][1] = x)
<1> DEFINE A  == {s \in Threads : arg[s] = x}
           A1 == {s \in Threads : arg'[s] = x}
           V  == {s \in Threads : value[s][1] = x}
           V1 == {s \in Threads : value'[s][1] = x}
           a  == Cardinality(A)
           a1 == Cardinality(A1)
           v  == Cardinality(V)
           v1 == Cardinality(V1)
<1>1. /\ a \in Nat /\ a1 \in Nat
      /\ a1 + One(arg[t] = x) = a + One(arg'[t] = x)
  <2>1. \A s \in Threads \ {t} : s \in A <=> s \in A1
        OBVIOUS
  <2>2. A \in SUBSET Threads /\ A1 \in SUBSET Threads
        OBVIOUS
  <2>3. (t \in A <=> arg[t] = x) /\ (t \in A1 <=> arg'[t] = x)
        OBVIOUS
  <2> HIDE DEF A, A1
  <2> QED BY <2>1, <2>2, <2>3, CountChange DEF One
<1>2. /\ v \in Nat /\ v1 \in Nat
      /\ v1 + One(value[t][1] = x) = v + One(value'[t][1] = x)
  <2>1. \A s \in Threads \ {t} : s \in V <=> s \in V1
        OBVIOUS
  <2>2. V \in SUBSET Threads /\ V1 \in SUBSET Threads
        OBVIOUS
  <2>3. (t \in V <=> value[t][1] = x) /\ (t \in V1 <=> value'[t][1] = x)
        OBVIOUS
  <2> HIDE DEF V, V1
  <2> QED BY <2>1, <2>2, <2>3, CountChange DEF One
<1>3. Held(x) = One(tag = x) + a + v /\ Held(x)' = One(tag' = x) + a1 + v1
      BY DEF Held, One
<1> HIDE DEF a, a1, v, v1
<1> QED BY <1>1, <1>2, <1>3 DEF One

\* An object that a thread is about to store or took out is referred to.
LEMMA HeldByThread ==
  ASSUME NEW x \in Objects, NEW t \in Threads, arg[t] = x \/ value[t][1] = x
  PROVE  Held(x) \in Nat /\ Held(x) # 0
<1> DEFINE A == {s \in Threads : arg[s] = x}
           V == {s \in Threads : value[s][1] = x}
<1>1. IsFiniteSet(A) /\ IsFiniteSet(V) /\ (A # {} \/ V # {})
      BY ObjectsAssumption, FS_Subset
<1>2. Cardinality(A) \in Nat /\ Cardinality(V) \in Nat /\ (Cardinality(A) # 0 \/ Cardinality(V) # 0)
      BY <1>1, FS_CardinalityType, FS_EmptySet
<1> QED BY <1>2 DEF Held

-----------------------------------------------------------------------------
(* What threads have, and what the location is.                            *)

\* At the beginning the location holds an object and nobody uses it.
LEMMA InitIInv == Init => IInv
<1> SUFFICES ASSUME Init PROVE IInv
    OBVIOUS
<1>1. TypeOK
  <2>1. PICK o \in Objects : /\ tag = o /\ payload = o /\ last = o
                             /\ refs = [x \in Objects |-> IF x = o THEN 1 ELSE 0]
        BY DEF Init
  <2>2. refs \in [Objects -> Nat]
        BY <2>1
  <2>3. NoValue \in Words
        BY DEF NoValue, Words
  <2>4. [t \in Threads |-> NoValue] \in [Threads -> Words]
        BY <2>3
  <2> QED BY <2>1, <2>2, <2>4 DEF Init, TypeOK
<1>2. \A t \in Threads : PlaceInv(t)
      BY DEF Init, PlaceInv
<1>3. WordsInv /\ LockInv /\ InvalidHasTaker /\ LastInv
      BY ObjectsAssumption DEF Init, WordsInv, LockInv, InvalidHasTaker, LastInv, Taken
<1>4. ASSUME NEW x \in Objects PROVE refs[x] = Held(x)
  <2>1. {s \in Threads : arg[s] = x} = {} /\ {s \in Threads : value[s][1] = x} = {}
        BY ObjectsAssumption DEF Init, NoValue
  <2>2. Cardinality({s \in Threads : arg[s] = x}) = 0
        BY <2>1, FS_EmptySet
  <2>3. Cardinality({s \in Threads : value[s][1] = x}) = 0
        BY <2>1, FS_EmptySet
  <2> QED BY <2>2, <2>3 DEF Init, Held
<1> QED BY <1>1, <1>2, <1>3, <1>4 DEF IInv, RefsBalanced

\* The words of the location, when they are not being read, are in Words.
LEMMA WordsType ==
  ASSUME TypeOK, WordsInv, tag # Invalid
  PROVE  tag \in Objects /\ <<tag, payload>> \in Words /\ <<tag, None>> \in Words
BY ObjectsAssumption DEF TypeOK, WordsInv, Words

\* Each step keeps the types.
LEMMA StepTypeOK == IInv /\ [Next]_vars => TypeOK'
<1> SUFFICES ASSUME IInv, [Next]_vars PROVE TypeOK'
    OBVIOUS
<1>0. TypeOK /\ WordsInv /\ (\A t \in Threads : PlaceInv(t)) /\ RefsBalanced
      BY DEF IInv
<1>1. ASSUME NEW t \in Threads, CallRead(t) PROVE TypeOK'
      BY <1>0, <1>1 DEF CallRead, TypeOK
<1>2. ASSUME NEW t \in Threads, NEW k \in {"write", "update"}, CallStore(t, k) PROVE TypeOK'
      BY <1>0, <1>2 DEF CallStore, TypeOK
<1>3. ASSUME NEW t \in Threads, TakeTag(t) PROVE TypeOK'
      BY <1>0, <1>3, WordsType DEF TakeTag, TakeAnd, PlaceInv, TypeOK
<1>4. ASSUME NEW t \in Threads, TakePayload(t) PROVE TypeOK'
  <2>1. value[t] \in Words /\ payload \in Objects \cup {None}
        BY <1>0 DEF TypeOK
  <2>2. [value[t] EXCEPT ![2] = payload] \in Words
        BY <2>1 DEF Words
  <2> QED BY <1>0, <1>4, <2>2 DEF TakePayload, AfterTake, TypeOK
<1>5. ASSUME NEW t \in Threads, RefValue(t) PROVE TypeOK'
  <2>1. value[t][1] \in Objects
        BY <1>0, <1>5 DEF RefValue, PlaceInv, TypeOK, Words
  <2> QED BY <1>0, <1>5, <2>1 DEF RefValue, TypeOK
<1>6. ASSUME NEW t \in Threads, PutPayload(t) PROVE TypeOK'
      BY <1>0, <1>6 DEF PutPayload, TypeOK
<1>7. ASSUME NEW t \in Threads, PutTag(t) PROVE TypeOK'
  <2>1. arg[t] \in Objects
        BY <1>0, <1>7 DEF PutTag, PlaceInv, TypeOK
  <2> QED BY <1>0, <1>7, <2>1 DEF PutTag, TypeOK
<1>8. ASSUME NEW t \in Threads, TakeWord(t) PROVE TypeOK'
      BY <1>0, <1>8, WordsType DEF TakeWord, TakeAnd, AfterTake, PlaceInv, TypeOK
<1>9. ASSUME NEW t \in Threads, PutWord(t) PROVE TypeOK'
  <2>1. arg[t] \in Objects
        BY <1>0, <1>9 DEF PutWord, PlaceInv, TypeOK
  <2>2. refs[arg[t]] - 1 \in Nat
        BY <1>0, <2>1, HeldByThread DEF RefsBalanced
  <2> QED BY <1>0, <1>9, <2>1, <2>2 DEF PutWord, TypeOK
<1>10. ASSUME NEW t \in Threads, SwapWord(t) PROVE TypeOK'
  <2>1. (IF tag = Invalid THEN NoValue ELSE <<tag, payload>>) \in Words
        BY <1>0, WordsType DEF Words, NoValue
  <2>2. arg[t] \in Objects
        BY <1>0, <1>10 DEF SwapWord, PlaceInv, TypeOK
  <2> QED BY <1>0, <1>10, <2>1, <2>2 DEF SwapWord, TypeOK
<1>11. ASSUME NEW t \in Threads, Drop(t) PROVE TypeOK'
  <2>1. ASSUME NEW o \in Objects, o = value[t][1] PROVE refs[o] - 1 \in Nat
        BY <1>0, <2>1, HeldByThread DEF RefsBalanced
  <2>2. NoValue \in Words
        BY DEF NoValue, Words
  <2> QED BY <1>0, <1>11, <2>1, <2>2 DEF Drop, TypeOK
<1>12. CASE UNCHANGED vars
      BY <1>0, <1>12 DEF vars, TypeOK
<1> QED BY <1>1, <1>2, <1>3, <1>4, <1>5, <1>6, <1>7, <1>8, <1>9, <1>10, <1>11, <1>12 DEF Next, Step

\* Each step keeps threads in their places.
LEMMA StepPlaces == IInv /\ [Next]_vars => \A t \in Threads : PlaceInv(t)'
<1> SUFFICES ASSUME IInv, [Next]_vars PROVE \A t \in Threads : PlaceInv(t)'
    OBVIOUS
<1>0. TypeOK /\ WordsInv /\ LockInv /\ \A t \in Threads : PlaceInv(t)
      BY DEF IInv
<1>a. Invalid \notin Objects \cup {None} /\ None \notin Objects
      BY ObjectsAssumption
<1>b. tag \in Objects \cup {Invalid}
      BY <1>0 DEF TypeOK
<1>1. ASSUME NEW t \in Threads, CallRead(t) PROVE \A s \in Threads : PlaceInv(s)'
      BY <1>0, <1>a, <1>b, <1>1 DEF CallRead, PlaceInv, TypeOK, WordsInv
<1>2. ASSUME NEW t \in Threads, NEW k \in {"write", "update"}, CallStore(t, k) PROVE \A s \in Threads : PlaceInv(s)'
      BY <1>0, <1>a, <1>b, <1>2 DEF CallStore, PlaceInv, TypeOK, WordsInv
<1>3. ASSUME NEW t \in Threads, TakeTag(t) PROVE \A s \in Threads : PlaceInv(s)'
      BY <1>0, <1>a, <1>b, <1>3 DEF TakeTag, TakeAnd, PlaceInv, TypeOK, WordsInv
<1>4. ASSUME NEW t \in Threads, TakePayload(t) PROVE \A s \in Threads : PlaceInv(s)'
  <2>1. value[t] \in Words
        BY <1>0 DEF TypeOK
  <2>2. [value[t] EXCEPT ![2] = payload] = <<value[t][1], payload>>
        BY <2>1 DEF Words
  <2>3. value' = [value EXCEPT ![t] = <<value[t][1], payload>>]
        BY <1>4, <2>2 DEF TakePayload
  <2>4. PMATH_BITSIZE = 32 /\ payload = value[t][1]
        BY <1>0, <1>4 DEF TakePayload, PlaceInv, LockInv
  <2> QED BY <1>0, <1>4, <2>3, <2>4 DEF TakePayload, AfterTake, PlaceInv, TypeOK
<1>5. ASSUME NEW t \in Threads, RefValue(t) PROVE \A s \in Threads : PlaceInv(s)'
      BY <1>0, <1>a, <1>b, <1>5 DEF RefValue, PlaceInv, TypeOK, WordsInv
<1>6. ASSUME NEW t \in Threads, PutPayload(t) PROVE \A s \in Threads : PlaceInv(s)'
      BY <1>0, <1>a, <1>b, <1>6 DEF PutPayload, PlaceInv, TypeOK, WordsInv
<1>7. ASSUME NEW t \in Threads, PutTag(t) PROVE \A s \in Threads : PlaceInv(s)'
      BY <1>0, <1>a, <1>b, <1>7 DEF PutTag, PlaceInv, TypeOK, WordsInv
<1>8. ASSUME NEW t \in Threads, TakeWord(t) PROVE \A s \in Threads : PlaceInv(s)'
      BY <1>0, <1>a, <1>b, <1>8 DEF TakeWord, TakeAnd, AfterTake, PlaceInv, TypeOK, WordsInv
<1>9. ASSUME NEW t \in Threads, PutWord(t) PROVE \A s \in Threads : PlaceInv(s)'
      BY <1>0, <1>a, <1>b, <1>9 DEF PutWord, PlaceInv, TypeOK, WordsInv
<1>10. ASSUME NEW t \in Threads, SwapWord(t) PROVE \A s \in Threads : PlaceInv(s)'
  <2>1. value'[t] = IF tag = Invalid THEN NoValue ELSE <<tag, payload>>
        BY <1>0, <1>10 DEF SwapWord, TypeOK
  <2>2. value'[t][1] = value'[t][2]
        BY <1>0, <2>1 DEF NoValue, WordsInv
  <2>3. pc'[t] = "drop" /\ arg'[t] = None
        BY <1>0, <1>10 DEF SwapWord, TypeOK
  <2>4. PlaceInv(t)'
        BY <2>2, <2>3 DEF PlaceInv
  <2>5. ASSUME NEW s \in Threads \ {t} PROVE PlaceInv(s)'
        BY <1>0, <1>10 DEF SwapWord, PlaceInv, TypeOK
  <2> QED BY <2>4, <2>5
<1>11. ASSUME NEW t \in Threads, Drop(t) PROVE \A s \in Threads : PlaceInv(s)'
      BY <1>0, <1>a, <1>b, <1>11 DEF Drop, PlaceInv, TypeOK, WordsInv
<1>12. CASE UNCHANGED vars
      BY <1>0, <1>12 DEF vars, PlaceInv, TypeOK, WordsInv
<1> QED BY <1>1, <1>2, <1>3, <1>4, <1>5, <1>6, <1>7, <1>8, <1>9, <1>10, <1>11, <1>12 DEF Next, Step

\* Each step keeps the two words those of one object.
LEMMA StepWords == IInv /\ [Next]_vars => WordsInv'
<1> SUFFICES ASSUME IInv, [Next]_vars PROVE WordsInv'
    OBVIOUS
<1>0. TypeOK /\ WordsInv /\ LockInv /\ \A t \in Threads : PlaceInv(t)
      BY DEF IInv
<1>a. Invalid \notin Objects \cup {None} /\ None \notin Objects
      BY ObjectsAssumption
<1>b. tag \in Objects \cup {Invalid}
      BY <1>0 DEF TypeOK
<1>1. ASSUME NEW t \in Threads, CallRead(t) PROVE WordsInv'
      BY <1>0, <1>a, <1>b, <1>1 DEF CallRead, PlaceInv, TypeOK, WordsInv, LockInv, Taken
<1>2. ASSUME NEW t \in Threads, NEW k \in {"write", "update"}, CallStore(t, k) PROVE WordsInv'
      BY <1>0, <1>a, <1>b, <1>2 DEF CallStore, PlaceInv, TypeOK, WordsInv, LockInv, Taken
<1>3. ASSUME NEW t \in Threads, TakeTag(t) PROVE WordsInv'
      BY <1>0, <1>a, <1>b, <1>3 DEF TakeTag, TakeAnd, PlaceInv, TypeOK, WordsInv, LockInv, Taken
<1>4. ASSUME NEW t \in Threads, TakePayload(t) PROVE WordsInv'
      BY <1>0, <1>a, <1>b, <1>4 DEF TakePayload, AfterTake, PlaceInv, TypeOK, WordsInv, LockInv, Taken
<1>5. ASSUME NEW t \in Threads, RefValue(t) PROVE WordsInv'
      BY <1>0, <1>a, <1>b, <1>5 DEF RefValue, PlaceInv, TypeOK, WordsInv, LockInv, Taken
<1>6. ASSUME NEW t \in Threads, PutPayload(t) PROVE WordsInv'
      BY <1>0, <1>a, <1>b, <1>6 DEF PutPayload, PlaceInv, TypeOK, WordsInv, LockInv, Taken
<1>7. ASSUME NEW t \in Threads, PutTag(t) PROVE WordsInv'
      BY <1>0, <1>a, <1>b, <1>7 DEF PutTag, PlaceInv, TypeOK, WordsInv, LockInv, Taken
<1>8. ASSUME NEW t \in Threads, TakeWord(t) PROVE WordsInv'
      BY <1>0, <1>a, <1>b, <1>8 DEF TakeWord, TakeAnd, AfterTake, PlaceInv, TypeOK, WordsInv, LockInv, Taken
<1>9. ASSUME NEW t \in Threads, PutWord(t) PROVE WordsInv'
      BY <1>0, <1>a, <1>b, <1>9 DEF PutWord, PlaceInv, TypeOK, WordsInv, LockInv, Taken
<1>10. ASSUME NEW t \in Threads, SwapWord(t) PROVE WordsInv'
      BY <1>0, <1>a, <1>b, <1>10 DEF SwapWord, PlaceInv, TypeOK, WordsInv, LockInv, Taken
<1>11. ASSUME NEW t \in Threads, Drop(t) PROVE WordsInv'
      BY <1>0, <1>a, <1>b, <1>11 DEF Drop, PlaceInv, TypeOK, WordsInv, LockInv, Taken
<1>12. CASE UNCHANGED vars
      BY <1>0, <1>12 DEF vars, PlaceInv, TypeOK, WordsInv, LockInv, Taken
<1> QED BY <1>1, <1>2, <1>3, <1>4, <1>5, <1>6, <1>7, <1>8, <1>9, <1>10, <1>11, <1>12 DEF Next, Step

\* Each step keeps the tag word of the 32-bit build a lock.
LEMMA StepLock == IInv /\ [Next]_vars => LockInv'
<1> SUFFICES ASSUME IInv, [Next]_vars PROVE LockInv'
    OBVIOUS
<1>0. TypeOK /\ LockInv /\ LastInv /\ WordsInv /\ \A t \in Threads : PlaceInv(t)
      BY DEF IInv
<1>a. Invalid \notin Objects \cup {None} /\ None \notin Objects
      BY ObjectsAssumption
<1>b. tag \in Objects \cup {Invalid}
      BY <1>0 DEF TypeOK
<1>1. ASSUME NEW t \in Threads, CallRead(t) PROVE LockInv'
      BY <1>0, <1>a, <1>b, <1>1 DEF CallRead, PlaceInv, TypeOK, LockInv, LastInv, WordsInv, Taken
<1>2. ASSUME NEW t \in Threads, NEW k \in {"write", "update"}, CallStore(t, k) PROVE LockInv'
      BY <1>0, <1>a, <1>b, <1>2 DEF CallStore, PlaceInv, TypeOK, LockInv, LastInv, WordsInv, Taken
<1>3. ASSUME NEW t \in Threads, TakeTag(t) PROVE LockInv'
      BY <1>0, <1>a, <1>b, <1>3 DEF TakeTag, TakeAnd, PlaceInv, TypeOK, LockInv, LastInv, WordsInv, Taken
<1>4. ASSUME NEW t \in Threads, TakePayload(t) PROVE LockInv'
      BY <1>0, <1>a, <1>b, <1>4 DEF TakePayload, AfterTake, PlaceInv, TypeOK, LockInv, LastInv, WordsInv, Taken
<1>5. ASSUME NEW t \in Threads, RefValue(t) PROVE LockInv'
      BY <1>0, <1>a, <1>b, <1>5 DEF RefValue, PlaceInv, TypeOK, LockInv, LastInv, WordsInv, Taken
<1>6. ASSUME NEW t \in Threads, PutPayload(t) PROVE LockInv'
      BY <1>0, <1>a, <1>b, <1>6 DEF PutPayload, PlaceInv, TypeOK, LockInv, LastInv, WordsInv, Taken
<1>7. ASSUME NEW t \in Threads, PutTag(t) PROVE LockInv'
      BY <1>0, <1>a, <1>b, <1>7 DEF PutTag, PlaceInv, TypeOK, LockInv, LastInv, WordsInv, Taken
<1>8. ASSUME NEW t \in Threads, TakeWord(t) PROVE LockInv'
      BY <1>0, <1>a, <1>b, <1>8 DEF TakeWord, TakeAnd, AfterTake, PlaceInv, TypeOK, LockInv, LastInv, WordsInv, Taken
<1>9. ASSUME NEW t \in Threads, PutWord(t) PROVE LockInv'
      BY <1>0, <1>a, <1>b, <1>9 DEF PutWord, PlaceInv, TypeOK, LockInv, LastInv, WordsInv, Taken
<1>10. ASSUME NEW t \in Threads, SwapWord(t) PROVE LockInv'
      BY <1>0, <1>a, <1>b, <1>10 DEF SwapWord, PlaceInv, TypeOK, LockInv, LastInv, WordsInv, Taken
<1>11. ASSUME NEW t \in Threads, Drop(t) PROVE LockInv'
      BY <1>0, <1>a, <1>b, <1>11 DEF Drop, PlaceInv, TypeOK, LockInv, LastInv, WordsInv, Taken
<1>12. CASE UNCHANGED vars
      BY <1>0, <1>12 DEF vars, PlaceInv, TypeOK, LockInv, LastInv, WordsInv, Taken
<1> QED BY <1>1, <1>2, <1>3, <1>4, <1>5, <1>6, <1>7, <1>8, <1>9, <1>10, <1>11, <1>12 DEF Next, Step

\* Without overlap, what is put back is what was there, or was to be stored.
LEMMA StepLast == IInv /\ [Next]_vars => LastInv'
<1> SUFFICES ASSUME IInv, [Next]_vars PROVE LastInv'
    OBVIOUS
<1>0. TypeOK /\ LastInv /\ LockInv /\ WordsInv /\ InvalidHasTaker /\ \A t \in Threads : PlaceInv(t)
      BY DEF IInv
<1>a. Invalid \notin Objects \cup {None} /\ None \notin Objects
      BY ObjectsAssumption
<1>b. tag \in Objects \cup {Invalid}
      BY <1>0 DEF TypeOK
<1>1. ASSUME NEW t \in Threads, CallRead(t) PROVE LastInv'
      BY <1>0, <1>a, <1>b, <1>1 DEF CallRead, PlaceInv, TypeOK, LastInv, LockInv, PutsBack, Taken
<1>2. ASSUME NEW t \in Threads, NEW k \in {"write", "update"}, CallStore(t, k) PROVE LastInv'
      BY <1>0, <1>a, <1>b, <1>2 DEF CallStore, PlaceInv, TypeOK, LastInv, LockInv, PutsBack, Taken
<1>3. ASSUME NEW t \in Threads, TakeTag(t) PROVE LastInv'
      BY <1>0, <1>a, <1>b, <1>3 DEF TakeTag, TakeAnd, PlaceInv, TypeOK, LastInv, LockInv, PutsBack, Taken
<1>4. ASSUME NEW t \in Threads, TakePayload(t) PROVE LastInv'
      BY <1>0, <1>a, <1>b, <1>4 DEF TakePayload, AfterTake, PlaceInv, TypeOK, LastInv, LockInv, PutsBack, Taken
<1>5. ASSUME NEW t \in Threads, RefValue(t) PROVE LastInv'
      BY <1>0, <1>a, <1>b, <1>5 DEF RefValue, PlaceInv, TypeOK, LastInv, LockInv, PutsBack, Taken
<1>6. ASSUME NEW t \in Threads, PutPayload(t) PROVE LastInv'
      BY <1>0, <1>a, <1>b, <1>6 DEF PutPayload, PlaceInv, TypeOK, LastInv, LockInv, PutsBack, Taken
<1>7. ASSUME NEW t \in Threads, PutTag(t) PROVE LastInv'
      BY <1>0, <1>a, <1>b, <1>7 DEF PutTag, PlaceInv, TypeOK, LastInv, LockInv, PutsBack, Taken
<1>8. ASSUME NEW t \in Threads, TakeWord(t) PROVE LastInv'
      BY <1>0, <1>a, <1>b, <1>8 DEF TakeWord, TakeAnd, AfterTake, PlaceInv, TypeOK, LastInv, LockInv, PutsBack, Taken
<1>9. ASSUME NEW t \in Threads, PutWord(t) PROVE LastInv'
      BY <1>0, <1>a, <1>b, <1>9 DEF PutWord, PlaceInv, TypeOK, LastInv, LockInv, PutsBack, Taken
<1>10. ASSUME NEW t \in Threads, SwapWord(t) PROVE LastInv'
      BY <1>0, <1>a, <1>b, <1>10 DEF SwapWord, PlaceInv, TypeOK, LastInv, LockInv, PutsBack, Taken
<1>11. ASSUME NEW t \in Threads, Drop(t) PROVE LastInv'
      BY <1>0, <1>a, <1>b, <1>11 DEF Drop, PlaceInv, TypeOK, LastInv, LockInv, PutsBack, Taken
<1>12. CASE UNCHANGED vars
      BY <1>0, <1>12 DEF vars, PlaceInv, TypeOK, LastInv, LockInv, PutsBack, Taken
<1> QED BY <1>1, <1>2, <1>3, <1>4, <1>5, <1>6, <1>7, <1>8, <1>9, <1>10, <1>11, <1>12 DEF Next, Step

\* Whoever makes the tag invalid is on its way to read_end, and whoever leaves
\* it finds the tag valid, or makes it so.
LEMMA StepTaker == IInv /\ [Next]_vars => InvalidHasTaker'
<1> SUFFICES ASSUME IInv, [Next]_vars, tag' = Invalid
             PROVE \E u \in Threads : Taken(u)'
    BY DEF InvalidHasTaker
<1>0. TypeOK /\ InvalidHasTaker /\ \A t \in Threads : PlaceInv(t)
      BY DEF IInv
<1>a. Invalid \notin Objects \cup {None}
      BY ObjectsAssumption
<1>1. ASSUME NEW t \in Threads, TakeTag(t) \/ TakeWord(t) PROVE Taken(t)'
      BY <1>0, <1>1 DEF TakeTag, TakeWord, TakeAnd, AfterTake, TypeOK, Taken
<1>2. ASSUME NEW t \in Threads, PutTag(t) \/ PutWord(t) \/ SwapWord(t) PROVE FALSE
      BY <1>0, <1>a, <1>2 DEF PutTag, PutWord, SwapWord, PlaceInv, TypeOK
<1>3. ASSUME tag = Invalid, \A u \in Threads : Taken(u) => Taken(u)'
      PROVE  \E u \in Threads : Taken(u)'
      BY <1>0, <1>3 DEF InvalidHasTaker
<1>4. ASSUME NEW t \in Threads,
             RefValue(t) \/ TakePayload(t) \/ PutPayload(t) \/ Drop(t) \/ CallRead(t)
      PROVE  tag = Invalid /\ \A u \in Threads : Taken(u) => Taken(u)'
      BY <1>0, <1>4 DEF RefValue, TakePayload, AfterTake, PutPayload, Drop, CallRead, TypeOK, Taken
<1>5. ASSUME NEW t \in Threads, NEW k \in {"write", "update"}, CallStore(t, k)
      PROVE  tag = Invalid /\ \A u \in Threads : Taken(u) => Taken(u)'
      BY <1>0, <1>5 DEF CallStore, TypeOK, Taken
<1>6. CASE UNCHANGED vars
      BY <1>3, <1>6 DEF vars, Taken
<1> QED BY <1>1, <1>2, <1>3, <1>4, <1>5, <1>6 DEF Next, Step

-----------------------------------------------------------------------------
(* The reference counts stay exact.                                        *)

\* Each step keeps the counts exact.
LEMMA StepRefs == IInv /\ [Next]_vars => RefsBalanced'
<1> SUFFICES ASSUME IInv, [Next]_vars, NEW x \in Objects
             PROVE refs'[x] = Held(x)'
    BY DEF RefsBalanced
<1>0. TypeOK /\ LockInv /\ (\A t \in Threads : PlaceInv(t)) /\ refs[x] = Held(x)
      BY DEF IInv, RefsBalanced
<1>a. None \notin Objects /\ Invalid \notin Objects
      BY ObjectsAssumption
<1>b. \A t \in Threads : value[t][1] \in Objects \cup {None}
      BY <1>0 DEF TypeOK, Words
<1>1. ASSUME NEW t \in Threads, CallRead(t) PROVE refs'[x] = Held(x)'
      BY <1>0, <1>1 DEF CallRead, Held
<1>2. ASSUME NEW t \in Threads, NEW k \in {"write", "update"}, CallStore(t, k)
      PROVE refs'[x] = Held(x)'
  <2>1. arg[t] = None /\ arg'[t] # None
        BY <1>0, <1>a, <1>2 DEF CallStore, PlaceInv, TypeOK
  <2>2. refs'[x] = refs[x] + One(arg'[t] = x)
        BY <1>0, <1>2 DEF CallStore, TypeOK, One
  <2>3. \A s \in Threads \ {t} : arg'[s] = arg[s] /\ value'[s][1] = value[s][1]
        BY <1>0, <1>2 DEF CallStore, TypeOK
  <2>4. tag' = tag /\ value'[t][1] = value[t][1]
        BY <1>2 DEF CallStore
  <2> QED BY <1>0, <1>a, <2>1, <2>2, <2>3, <2>4, HeldChange DEF One
<1>3. ASSUME NEW t \in Threads, TakeTag(t) \/ TakeWord(t) PROVE refs'[x] = Held(x)'
  <2>1. tag' = Invalid /\ value[t][1] = None /\ value'[t][1] = tag
        BY <1>0, <1>3 DEF TakeTag, TakeWord, TakeAnd, PlaceInv, TypeOK, NoValue
  <2>2. \A s \in Threads \ {t} : arg'[s] = arg[s] /\ value'[s][1] = value[s][1]
        BY <1>0, <1>3 DEF TakeTag, TakeWord, TakeAnd, TypeOK
  <2>3. refs'[x] = refs[x] /\ arg'[t] = arg[t]
        BY <1>3 DEF TakeTag, TakeWord, TakeAnd
  <2> QED BY <1>0, <1>a, <2>1, <2>2, <2>3, HeldChange DEF One
<1>4. ASSUME NEW t \in Threads, TakePayload(t) PROVE refs'[x] = Held(x)'
  <2>1. \A s \in Threads : value'[s][1] = value[s][1]
        BY <1>0, <1>4 DEF TakePayload, TypeOK, Words
  <2> QED BY <1>0, <1>4, <2>1 DEF TakePayload, Held
<1>5. ASSUME NEW t \in Threads, RefValue(t) PROVE refs'[x] = Held(x)'
  <2>1. arg[t] = None /\ arg'[t] = value[t][1] /\ value[t][1] \in Objects
        BY <1>0, <1>b, <1>5 DEF RefValue, PlaceInv, TypeOK
  <2>2. refs'[x] = refs[x] + One(arg'[t] = x)
        BY <1>0, <1>5, <2>1 DEF RefValue, TypeOK, One
  <2>3. \A s \in Threads \ {t} : arg'[s] = arg[s] /\ value'[s][1] = value[s][1]
        BY <1>0, <1>5 DEF RefValue, TypeOK
  <2>4. tag' = tag /\ value'[t][1] = value[t][1]
        BY <1>5 DEF RefValue
  <2> QED BY <1>0, <1>a, <2>1, <2>2, <2>3, <2>4, HeldChange DEF One
<1>6. ASSUME NEW t \in Threads, PutPayload(t) PROVE refs'[x] = Held(x)'
      BY <1>0, <1>6 DEF PutPayload, Held
<1>7. ASSUME NEW t \in Threads, PutTag(t) PROVE refs'[x] = Held(x)'
  <2>1. tag = Invalid /\ tag' = arg[t] /\ arg'[t] = None
        BY <1>0, <1>7 DEF PutTag, LockInv, PlaceInv, Taken, TypeOK
  <2>2. \A s \in Threads \ {t} : arg'[s] = arg[s] /\ value'[s][1] = value[s][1]
        BY <1>0, <1>7 DEF PutTag, TypeOK
  <2>3. refs'[x] = refs[x] /\ value'[t][1] = value[t][1]
        BY <1>7 DEF PutTag
  <2> QED BY <1>0, <1>a, <2>1, <2>2, <2>3, HeldChange DEF One
<1>8. ASSUME NEW t \in Threads, PutWord(t) PROVE refs'[x] = Held(x)'
  <2>1. arg[t] \in Objects /\ arg'[t] = None /\ value'[t][1] = value[t][1]
        BY <1>0, <1>8 DEF PutWord, PlaceInv, TypeOK
  <2>2. \A s \in Threads \ {t} : arg'[s] = arg[s] /\ value'[s][1] = value[s][1]
        BY <1>0, <1>8 DEF PutWord, TypeOK
  <2>3. CASE tag = Invalid
    <3>1. tag' = arg[t] /\ refs'[x] = refs[x]
          BY <1>8, <2>3 DEF PutWord
    <3> QED BY <1>0, <1>a, <2>1, <2>2, <2>3, <3>1, HeldChange DEF One
  <2>4. CASE tag # Invalid
    <3>1. tag' = tag /\ refs'[x] = refs[x] - One(arg[t] = x)
          BY <1>0, <1>8, <2>1, <2>4 DEF PutWord, TypeOK, One
    <3> QED BY <1>0, <1>a, <2>1, <2>2, <3>1, HeldChange DEF One
  <2> QED BY <2>3, <2>4
<1>9. ASSUME NEW t \in Threads, SwapWord(t) PROVE refs'[x] = Held(x)'
  <2>1. /\ value[t][1] = None /\ arg'[t] = None /\ tag' = arg[t]
        /\ value'[t][1] = IF tag = Invalid THEN None ELSE tag
        BY <1>0, <1>9 DEF SwapWord, PlaceInv, TypeOK, NoValue
  <2>2. \A s \in Threads \ {t} : arg'[s] = arg[s] /\ value'[s][1] = value[s][1]
        BY <1>0, <1>9 DEF SwapWord, TypeOK
  <2>3. refs'[x] = refs[x]
        BY <1>9 DEF SwapWord
  <2> QED BY <1>0, <1>a, <2>1, <2>2, <2>3, HeldChange DEF One
<1>10. ASSUME NEW t \in Threads, Drop(t) PROVE refs'[x] = Held(x)'
  <2>1. value'[t][1] = None /\ tag' = tag /\ arg'[t] = arg[t]
        BY <1>0, <1>10 DEF Drop, TypeOK, NoValue
  <2>2. refs'[x] = refs[x] - One(value[t][1] = x)
        BY <1>0, <1>10 DEF Drop, TypeOK, One
  <2>3. \A s \in Threads \ {t} : arg'[s] = arg[s] /\ value'[s][1] = value[s][1]
        BY <1>0, <1>10 DEF Drop, TypeOK
  <2> QED BY <1>0, <1>a, <2>1, <2>2, <2>3, HeldChange DEF One
<1>11. CASE UNCHANGED vars
      BY <1>0, <1>11 DEF vars, Held
<1> QED BY <1>1, <1>2, <1>3, <1>4, <1>5, <1>6, <1>7, <1>8, <1>9, <1>10, <1>11 DEF Next, Step

-----------------------------------------------------------------------------
(* The invariants.                                                         *)

\* The inductive invariant holds in every reachable state.
THEOREM AlwaysIInv == Spec => []IInv
<1>1. IInv /\ [Next]_vars => IInv'
      BY StepTypeOK, StepPlaces, StepWords, StepLock, StepLast, StepTaker, StepRefs DEF IInv
<1> QED BY <1>1, InitIInv, PTL DEF Spec

\* Every variable of the location and its threads stays in its domain.
THEOREM AlwaysTypeOK == Spec => []TypeOK
BY AlwaysIInv, PTL DEF IInv

\* The two words of the location, and those a thread has taken out, always
\* belong to one object (_pmath_object_atomic_read_start and _end).
THEOREM AlwaysNoTornValue == Spec => []NoTornValue
<1>1. IInv => NoTornValue
      BY DEF IInv, WordsInv, PlaceInv, NoTornValue
<1> QED BY <1>1, AlwaysIInv, PTL

\* Each object counts the references held by the location and by operations
\* under way: in either build, and also when a write comes between read_start
\* and read_end, no object is freed in use and none leaks.
THEOREM AlwaysRefsBalanced == Spec => []RefsBalanced
BY AlwaysIInv, PTL DEF IInv

\* Whenever the tag is invalid some thread is between read_start and read_end,
\* so that those that spin in read_start wait for somebody.
THEOREM AlwaysInvalidHasTaker == Spec => []InvalidHasTaker
BY AlwaysIInv, PTL DEF IInv

\* As long as no two threads were between read_start and read_end at a time, the
\* location holds what was stored last.
THEOREM AlwaysKeptUnlessOverlap == Spec => []KeptUnlessOverlap
<1>1. IInv => KeptUnlessOverlap
      BY DEF IInv, LastInv, KeptUnlessOverlap, HoldsLastStored
<1> QED BY <1>1, AlwaysIInv, PTL

-----------------------------------------------------------------------------
(* The location implements the register.                                   *)

\* Only the operation of the thread that steps can change.
LEMMA OnlyOwnOp ==
  ASSUME NEW t \in Threads, NEW new, RegisterOp(t)' = new,
         \A s \in Threads \ {t} : RegisterOp(s)' = RegisterOp(s)
  PROVE  RegisterOps' = [RegisterOps EXCEPT ![t] = new]
BY DEF RegisterOps

\* An operation takes effect: it gets what the register held, and the register
\* holds what the operation stores.
LEMMA EffectOf ==
  ASSUME NEW t \in Threads,
         RegisterOp(t) = [phase |-> "called", kind |-> kind[t], arg |-> arg[t], got |-> None],
         RegisterOp(t)' = [phase |-> "done", kind |-> kind[t], arg |-> None,
                           got |-> IF kind[t] = "write" THEN None ELSE last],
         \A s \in Threads \ {t} : RegisterOp(s)' = RegisterOp(s),
         last' = IF kind[t] = "read" THEN last ELSE arg[t]
  PROVE  Register!TakeEffect(t)
<1>1. RegisterOps[t] = [phase |-> "called", kind |-> kind[t], arg |-> arg[t], got |-> None]
      BY DEF RegisterOps
<1>2. RegisterOps' = [RegisterOps EXCEPT ![t] =
                        [phase |-> "done", kind |-> kind[t], arg |-> None,
                         got |-> IF kind[t] = "write" THEN None ELSE last]]
      BY OnlyOwnOp
<1>3. RegisterOps[t].phase = "called" /\ RegisterOps[t].kind = kind[t] /\ RegisterOps[t].arg = arg[t]
      BY <1>1
<1> QED BY <1>2, <1>3 DEF Register!TakeEffect

\* Without overlap every step is one of the register, or is not seen.
LEMMA RegisterStep == IInv /\ ~overlap' /\ [Next]_vars => [Register!Next]_(Register!areg)
<1> SUFFICES ASSUME IInv, ~overlap', [Next]_vars
             PROVE Register!Next \/ (last' = last /\ RegisterOps' = RegisterOps)
    BY DEF Register!areg
<1>0. TypeOK /\ LastInv /\ WordsInv /\ \A t \in Threads : PlaceInv(t)
      BY DEF IInv
<1>a. None \notin Objects /\ Invalid \notin Objects
      BY ObjectsAssumption
<1>1. ASSUME NEW t \in Threads, CallRead(t) PROVE Register!Call(t)
  <2>1. RegisterOp(t)' = [phase |-> "called", kind |-> "read", arg |-> None, got |-> None]
        BY <1>0, <1>1 DEF CallRead, RegisterOp, PlaceInv, TypeOK
  <2>2. \A s \in Threads \ {t} : RegisterOp(s)' = RegisterOp(s)
        BY <1>0, <1>1 DEF CallRead, RegisterOp, TypeOK
  <2>3. RegisterOps[t].phase = "idle" /\ last' = last
        BY <1>1 DEF CallRead, RegisterOps, RegisterOp
  <2>4. RegisterOps' = [RegisterOps EXCEPT ![t] =
                          [phase |-> "called", kind |-> "read", arg |-> None, got |-> None]]
        BY <2>1, <2>2, OnlyOwnOp
  <2> QED BY <2>3, <2>4 DEF Register!Call, Register!Kinds
<1>2. ASSUME NEW t \in Threads, NEW k \in {"write", "update"}, CallStore(t, k)
      PROVE Register!Call(t)
  <2>1. arg'[t] \in Objects /\ pc'[t] \in {"start", "swap"} /\ kind'[t] = k
        BY <1>0, <1>2 DEF CallStore, TypeOK
  <2>2. RegisterOp(t)' = [phase |-> "called", kind |-> k, arg |-> arg'[t], got |-> None]
        BY <2>1 DEF RegisterOp
  <2>3. \A s \in Threads \ {t} : RegisterOp(s)' = RegisterOp(s)
        BY <1>0, <1>2 DEF CallStore, RegisterOp, TypeOK
  <2>4. RegisterOps[t].phase = "idle" /\ last' = last
        BY <1>2 DEF CallStore, RegisterOps, RegisterOp
  <2>5. RegisterOps' = [RegisterOps EXCEPT ![t] =
                          [phase |-> "called", kind |-> k, arg |-> arg'[t], got |-> None]]
        BY <2>2, <2>3, OnlyOwnOp
  <2>6. arg'[t] # None /\ arg'[t] \in Objects \cup {None} /\ k # "read"
        BY <1>a, <2>1
  <2> QED BY <2>4, <2>5, <2>6 DEF Register!Call, Register!Kinds
<1>3. ASSUME NEW t \in Threads, TakeTag(t) \/ TakeWord(t) PROVE Register!TakeEffect(t)
  <2>1. pc[t] = "start" /\ pc'[t] \in {"take", "ref", "put"} /\ kind' = kind
        BY <1>0, <1>3 DEF TakeTag, TakeWord, TakeAnd, AfterTake, TypeOK
  <2>2. value'[t][1] = tag
        BY <1>0, <1>3 DEF TakeTag, TakeWord, TakeAnd, TypeOK
  <2>3. tag = last
        BY <1>0, <1>3 DEF TakeTag, TakeWord, TakeAnd, LastInv
  <2>4. last' = IF kind[t] = "read" THEN last ELSE arg[t]
        BY <1>3 DEF TakeTag, TakeWord, TakeAnd
  <2>5. RegisterOp(t) = [phase |-> "called", kind |-> kind[t], arg |-> arg[t], got |-> None]
        BY <2>1 DEF RegisterOp
  <2>6. RegisterOp(t)' = [phase |-> "done", kind |-> kind[t], arg |-> None,
                           got |-> IF kind[t] = "write" THEN None ELSE last]
        BY <2>1, <2>2, <2>3 DEF RegisterOp
  <2>7. \A s \in Threads \ {t} : RegisterOp(s)' = RegisterOp(s)
        BY <1>0, <1>3 DEF TakeTag, TakeWord, TakeAnd, RegisterOp, TypeOK
  <2> QED BY <2>4, <2>5, <2>6, <2>7, EffectOf
<1>4. ASSUME NEW t \in Threads, TakePayload(t) PROVE last' = last /\ RegisterOps' = RegisterOps
  <2>1. \A s \in Threads : value'[s][1] = value[s][1]
        BY <1>0, <1>4 DEF TakePayload, TypeOK, Words
  <2>2. \A s \in Threads : RegisterOp(s)' = RegisterOp(s)
        BY <1>0, <1>4, <2>1 DEF TakePayload, AfterTake, RegisterOp, TypeOK
  <2> QED BY <1>4, <2>2 DEF TakePayload, RegisterOps
<1>5. ASSUME NEW t \in Threads, RefValue(t) \/ PutPayload(t) \/ PutTag(t) \/ PutWord(t)
      PROVE  last' = last /\ RegisterOps' = RegisterOps
  <2>1. \A s \in Threads : RegisterOp(s)' = RegisterOp(s)
        BY <1>0, <1>5 DEF RefValue, PutPayload, PutTag, PutWord, RegisterOp, TypeOK
  <2> QED BY <1>5, <2>1 DEF RefValue, PutPayload, PutTag, PutWord, RegisterOps
<1>6. ASSUME NEW t \in Threads, SwapWord(t) PROVE Register!TakeEffect(t)
  <2>1. pc[t] = "swap" /\ pc'[t] = "drop" /\ kind' = kind /\ kind[t] = "write"
        BY <1>0, <1>6 DEF SwapWord, PlaceInv, TypeOK
  <2>2. last' = IF kind[t] = "read" THEN last ELSE arg[t]
        BY <1>6, <2>1 DEF SwapWord
  <2>3. RegisterOp(t) = [phase |-> "called", kind |-> kind[t], arg |-> arg[t], got |-> None]
        BY <2>1 DEF RegisterOp
  <2>4. RegisterOp(t)' = [phase |-> "done", kind |-> kind[t], arg |-> None,
                           got |-> IF kind[t] = "write" THEN None ELSE last]
        BY <2>1 DEF RegisterOp
  <2>5. \A s \in Threads \ {t} : RegisterOp(s)' = RegisterOp(s)
        BY <1>0, <1>6 DEF SwapWord, RegisterOp, TypeOK
  <2> QED BY <2>2, <2>3, <2>4, <2>5, EffectOf
<1>7. ASSUME NEW t \in Threads, Drop(t) PROVE Register!Return(t)
  <2>1. RegisterOp(t)' = [phase |-> "idle", kind |-> "read", arg |-> None, got |-> None]
        BY <1>0, <1>7 DEF Drop, RegisterOp, TypeOK
  <2>2. \A s \in Threads \ {t} : RegisterOp(s)' = RegisterOp(s)
        BY <1>0, <1>7 DEF Drop, RegisterOp, TypeOK
  <2>3. RegisterOps[t].phase = "done" /\ last' = last
        BY <1>7 DEF Drop, RegisterOps, RegisterOp
  <2>4. RegisterOps' = [RegisterOps EXCEPT ![t] =
                          [phase |-> "idle", kind |-> "read", arg |-> None, got |-> None]]
        BY <2>1, <2>2, OnlyOwnOp
  <2> QED BY <2>3, <2>4 DEF Register!Return, Register!Idle
<1>8. CASE UNCHANGED vars
      BY <1>8 DEF vars, RegisterOps, RegisterOp
<1> QED BY <1>1, <1>2, <1>3, <1>4, <1>5, <1>6, <1>7, <1>8 DEF Next, Step, Register!Next

\* The location at the beginning is a register that nobody uses.
LEMMA RegisterInit == Init => Register!Init
BY DEF Init, Register!Init, Register!Idle, RegisterOps, RegisterOp

\* In either build reads, writes and exchanges are atomic as long as no two
\* threads are between read_start and read_end at a time: each takes effect at
\* the instant at which the tag word is swapped.
THEOREM AtomicUnlessOverlap == Spec /\ []~overlap => ImplementsRegister
<1>1. IInv /\ ~overlap' /\ [Next]_vars => [Register!Next]_(Register!areg)
      BY RegisterStep
<1> QED BY <1>1, RegisterInit, AlwaysIInv, PTL DEF Spec, ImplementsRegister, Register!Spec

\* In the 32-bit build that is so whatever the threads do: the spinlock in the
\* tag word makes the location an atomic register.
THEOREM Implementation == PMATH_BITSIZE = 32 => (Spec => ImplementsRegister)
<1> SUFFICES ASSUME PMATH_BITSIZE = 32 PROVE Spec => ImplementsRegister
    OBVIOUS
<1>1. IInv => ~overlap
      BY DEF IInv, LockInv
<1>2. Spec => []~overlap
      BY <1>1, AlwaysIInv, PTL
<1> QED BY <1>2, AtomicUnlessOverlap, PTL
=============================================================================
