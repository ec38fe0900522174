--------------------------- MODULE Symbols_proofs ---------------------------
(***************************************************************************)
(* The proofs about symbols: their rules (module Rules), the dynamic       *)
(* objects that depend on them (module Dynamic), and the collector of      *)
(* temporary ones (module TempSymbols).                                    *)
(*                                                                         *)
(* For any number of threads, patterns and rules: the list of rules goes   *)
(* from special to general patterns although it is changed without a lock, *)
(* no thread takes the rule of another out of it or loses its own, and a   *)
(* search that has to be answered is answered.                             *)
(*                                                                         *)
(* A thread on its way knows only that its rule belongs behind the one it  *)
(* came from.  What it compared last is still true when it links its rule  *)
(* in: rules in the list keep their pattern and whether they have a        *)
(* condition, and the pointer between its two neighbours is compared.      *)
(*                                                                         *)
(* A search relies on what can be reached from the rule it looks at:       *)
(* entries are only linked in between, so a rule that was ahead of it      *)
(* stays ahead of it.                                                      *)
(***************************************************************************)
EXTENDS Rules, Dynamic, TempSymbols, FiniteSetTheorems, SequenceTheorems, TLAPS

-----------------------------------------------------------------------------
(* Sequences.                                                              *)

Once(q) == \A m, n \in 1 .. Len(q) : q[m] = q[n] => m = n

\* What is in a sequence.
LEMMA Elements ==
  ASSUME NEW S, NEW q \in Seq(S)
  PROVE  \E l \in Nat : /\ l = Len(q) /\ DOMAIN q = 1 .. l
                        /\ \A k \in 1 .. l : q[k] \in S /\ q[k] \in ToSet(q)
                        /\ \A j : j \in ToSet(q) <=> \E k \in 1 .. l : q[k] = j
                        /\ Once(q) <=> \A m, n \in 1 .. l : q[m] = q[n] => m = n
<1>1. PICK l \in Nat : l = Len(q) /\ DOMAIN q = 1 .. l
      OBVIOUS
<1>2. \A k \in 1 .. l : q[k] \in S
      BY <1>1
<1>3. \A j : j \in ToSet(q) <=> \E k \in 1 .. l : q[k] = j
      BY <1>1 DEF ToSet
<1>4. \A k \in 1 .. l : q[k] \in ToSet(q)
      BY <1>3
<1>5. Once(q) <=> \A m, n \in 1 .. l : q[m] = q[n] => m = n
      BY <1>1 DEF Once
<1> QED BY <1>1, <1>2, <1>3, <1>4, <1>5

LEMMA Ends ==
  ASSUME NEW S, NEW q \in Seq(S)
  PROVE  /\ q = <<>> <=> ToSet(q) = {}
         /\ ToSet(q) \subseteq S
         /\ q # <<>> => /\ Head(q) \in ToSet(q) /\ Tail(q) \in Seq(S)
                        /\ ToSet(Tail(q)) \subseteq ToSet(q)
                        /\ ToSet(q) \subseteq ToSet(Tail(q)) \cup {Head(q)}
                        /\ Once(q) => Once(Tail(q)) /\ Head(q) \notin ToSet(Tail(q))
<1>1. PICK l \in Nat : /\ l = Len(q)
                       /\ \A k \in 1 .. l : q[k] \in S /\ q[k] \in ToSet(q)
                       /\ \A j : j \in ToSet(q) <=> \E k \in 1 .. l : q[k] = j
                       /\ Once(q) <=> \A m, n \in 1 .. l : q[m] = q[n] => m = n
      BY Elements
<1>2. q = <<>> <=> ToSet(q) = {}
  <2>1. q = <<>> <=> l = 0
        BY <1>1, EmptySeq
  <2>2. l # 0 => 1 \in 1 .. l
        BY <1>1
  <2>3. l = 0 => \A j : j \notin ToSet(q)
        BY <1>1
  <2> QED BY <1>1, <2>1, <2>2, <2>3
<1>3. ToSet(q) \subseteq S
      BY <1>1
<1>4. ASSUME q # <<>>
      PROVE  /\ Head(q) \in ToSet(q) /\ Tail(q) \in Seq(S)
             /\ ToSet(Tail(q)) \subseteq ToSet(q)
             /\ ToSet(q) \subseteq ToSet(Tail(q)) \cup {Head(q)}
             /\ Once(q) => Once(Tail(q)) /\ Head(q) \notin ToSet(Tail(q))
  <2>1. l # 0 /\ Head(q) = q[1] /\ 1 \in 1 .. l
        BY <1>1, <1>4, EmptySeq
  <2>2. PICK r : r = Tail(q)
        OBVIOUS
  <2>3. r \in Seq(S) /\ Len(r) = l - 1 /\ \A k \in 1 .. l - 1 : r[k] = q[k + 1]
        BY <1>1, <1>4, <2>2
  <2>4. PICK d \in Nat : /\ d = Len(r)
                         /\ \A j : j \in ToSet(r) <=> \E k \in 1 .. d : r[k] = j
                         /\ Once(r) <=> \A m, n \in 1 .. d : r[m] = r[n] => m = n
        BY <2>3, Elements
  <2>5. d = l - 1
        BY <2>3, <2>4
  <2>6. \A k \in 1 .. l : k = 1 \/ (k - 1 \in 1 .. l - 1 /\ r[k - 1] = q[k])
        BY <2>3
  <2>7. \A k \in 1 .. l - 1 : k + 1 \in 1 .. l
        BY <1>1
  <2>8. ASSUME NEW j \in ToSet(r) PROVE j \in ToSet(q)
    <3>1. PICK k \in 1 .. d : r[k] = j
          BY <2>4, <2>8
    <3>2. r[k] = q[k + 1] /\ k + 1 \in 1 .. l
          BY <2>3, <2>5, <2>7
    <3> QED BY <1>1, <3>1, <3>2
  <2>9. ASSUME NEW j \in ToSet(q), j # Head(q) PROVE j \in ToSet(r)
    <3>1. PICK k \in 1 .. l : q[k] = j
          BY <1>1
    <3> QED BY <2>1, <2>4, <2>5, <2>6, <2>9, <3>1
  <2>10. ASSUME Once(q) PROVE Once(r) /\ Head(q) \notin ToSet(r)
    <3>1. ASSUME NEW m \in 1 .. d, NEW n \in 1 .. d, r[m] = r[n] PROVE m = n
      <4>1. m + 1 = n + 1
            BY <1>1, <2>3, <2>5, <2>7, <2>10, <3>1
      <4> QED BY <2>4, <4>1
    <3>2. ASSUME NEW m \in 1 .. d, r[m] = q[1] PROVE FALSE
      <4>1. m + 1 \in 1 .. l /\ q[m + 1] = q[1] /\ m + 1 # 1
            BY <2>3, <2>4, <2>5, <2>7, <3>2
      <4> QED BY <1>1, <2>1, <2>10, <4>1
    <3> QED BY <2>1, <2>4, <3>1, <3>2
  <2> QED BY <1>1, <2>1, <2>2, <2>3, <2>8, <2>9, <2>10
<1> QED BY <1>2, <1>3, <1>4

LEMMA Joined ==
  ASSUME NEW S, NEW a \in Seq(S), NEW b \in Seq(S), Once(a), Once(b), ToSet(a) \cap ToSet(b) = {}
  PROVE  Once(a \o b)
<1>1. PICK l \in Nat : /\ l = Len(a)
                       /\ \A k \in 1 .. l : a[k] \in ToSet(a)
                       /\ \A m, n \in 1 .. l : a[m] = a[n] => m = n
      BY Elements
<1>2. PICK d \in Nat : /\ d = Len(b)
                       /\ \A k \in 1 .. d : b[k] \in ToSet(b)
                       /\ \A m, n \in 1 .. d : b[m] = b[n] => m = n
      BY Elements
<1>3. PICK c : c = a \o b
      OBVIOUS
<1>4. /\ c \in Seq(S) /\ Len(c) = l + d
      /\ \A k \in 1 .. l : c[k] = a[k]
      /\ \A k \in l + 1 .. l + d : c[k] = b[k - l] /\ k - l \in 1 .. d
      BY <1>1, <1>2, <1>3
<1>5. ASSUME NEW m \in 1 .. l + d, NEW n \in 1 .. l + d, c[m] = c[n] PROVE m = n
  <2>1. m \in 1 .. l \/ m \in l + 1 .. l + d
        BY <1>1, <1>2
  <2>2. n \in 1 .. l \/ n \in l + 1 .. l + d
        BY <1>1, <1>2
  <2>3. CASE m \in 1 .. l /\ n \in 1 .. l
        BY <1>1, <1>4, <1>5, <2>3
  <2>4. CASE m \in l + 1 .. l + d /\ n \in l + 1 .. l + d
    <3>1. m - l = n - l
          BY <1>2, <1>4, <1>5, <2>4
    <3> QED BY <1>1, <1>2, <3>1
  <2>5. CASE m \in 1 .. l /\ n \in l + 1 .. l + d
        BY <1>1, <1>2, <1>4, <1>5, <2>5
  <2>6. CASE n \in 1 .. l /\ m \in l + 1 .. l + d
    <3>1. a[n] \in ToSet(a) /\ b[m - l] \in ToSet(b)
          BY <1>1, <1>2, <1>4, <2>6
    <3>2. a[n] = b[m - l]
          BY <1>4, <1>5, <2>6
    <3> QED BY <3>1, <3>2
  <2> QED BY <2>1, <2>2, <2>3, <2>4, <2>5, <2>6
<1>6. Once(c)
      BY <1>1, <1>2, <1>4, <1>5 DEF Once
<1> QED BY <1>3, <1>6

LEMMA Both ==
  ASSUME NEW S, NEW a \in Seq(S), NEW b \in Seq(S)
  PROVE  a \o b \in Seq(S) /\ ToSet(a \o b) = ToSet(a) \cup ToSet(b)
<1>1. PICK l \in Nat : l = Len(a) /\ \A j : j \in ToSet(a) <=> \E k \in 1 .. l : a[k] = j
      BY Elements
<1>2. PICK d \in Nat : d = Len(b) /\ \A j : j \in ToSet(b) <=> \E k \in 1 .. d : b[k] = j
      BY Elements
<1>3. PICK c : c = a \o b
      OBVIOUS
<1>4. /\ c \in Seq(S) /\ Len(c) = l + d
      /\ \A k \in 1 .. l : c[k] = a[k]
      /\ \A k \in 1 .. d : c[l + k] = b[k]
      BY <1>1, <1>2, <1>3
<1>5. PICK n \in Nat : n = Len(c) /\ \A j : j \in ToSet(c) <=> \E k \in 1 .. n : c[k] = j
  <2>1. c \in Seq(S)
        BY <1>4
  <2>2. \E n \in Nat : /\ n = Len(c) /\ DOMAIN c = 1 .. n
                       /\ \A k \in 1 .. n : c[k] \in S /\ c[k] \in ToSet(c)
                       /\ \A j : j \in ToSet(c) <=> \E k \in 1 .. n : c[k] = j
                       /\ Once(c) <=> \A m, i \in 1 .. n : c[m] = c[i] => m = i
        BY <2>1, Elements, Zenon
  <2> QED BY <2>2, Zenon
<1>6. n = l + d
      BY <1>4, <1>5
<1>7. ASSUME NEW j PROVE j \in ToSet(c) <=> j \in ToSet(a) \/ j \in ToSet(b)
  <2>1. ASSUME j \in ToSet(c) PROVE j \in ToSet(a) \/ j \in ToSet(b)
    <3>1. PICK k \in 1 .. n : c[k] = j
          BY <1>5, <2>1
    <3>2. k \in 1 .. l \/ (k - l \in 1 .. d /\ l + (k - l) = k)
          BY <1>1, <1>2, <1>6
    <3>3. CASE k \in 1 .. l
          BY <1>1, <1>4, <3>1, <3>3
    <3>4. CASE k - l \in 1 .. d /\ l + (k - l) = k
      <4>1. b[k - l] = j
            BY <1>4, <3>1, <3>4
      <4> QED BY <1>2, <3>4, <4>1
    <3> QED BY <3>2, <3>3, <3>4
  <2>2. ASSUME j \in ToSet(a) PROVE j \in ToSet(c)
    <3>1. PICK k \in 1 .. l : a[k] = j
          BY <1>1, <2>2
    <3>2. k \in 1 .. n
          BY <1>1, <1>2, <1>6
    <3> QED BY <1>4, <1>5, <3>1, <3>2
  <2>3. ASSUME j \in ToSet(b) PROVE j \in ToSet(c)
    <3>1. PICK k \in 1 .. d : b[k] = j
          BY <1>2, <2>3
    <3>2. l + k \in 1 .. n
          BY <1>1, <1>2, <1>6
    <3> QED BY <1>4, <1>5, <3>1, <3>2
  <2> QED BY <2>1, <2>2, <2>3
<1>8. ToSet(c) = ToSet(a) \cup ToSet(b)
      BY <1>7
<1> QED BY <1>3, <1>4, <1>8

\* A set as a sequence.
LEMMA AsSequence ==
  ASSUME NEW S, IsFiniteSet(S)
  PROVE  SetToSeq(S) \in Seq(S) /\ Once(SetToSeq(S)) /\ ToSet(SetToSeq(S)) = S
<1>1. PICK n \in Nat : n = Cardinality(S)
      BY FS_CardinalityType
<1>2. PICK f : f \in [1 .. n -> S] /\ IsInjective(f)
  <2>1. ExistsBijection(1 .. n, S)
        BY <1>1, FS_CardinalityType
  <2> QED BY <2>1 DEF ExistsBijection, Bijection, Injection
<1>3. PICK q : q = SetToSeq(S)
      OBVIOUS
<1>4. q \in [1 .. n -> S] /\ IsInjective(q)
      BY <1>1, <1>2, <1>3 DEF SetToSeq
<1>5. q \in Seq(S) /\ Len(q) = n
      BY <1>4
<1>6. Once(q)
      BY <1>4, <1>5 DEF Once, IsInjective
<1>7. \A j \in S : \E k \in 1 .. n : q[k] = j
  <2>1. q \in Injection(1 .. n, S)
        BY <1>4 DEF Injection
  <2>2. Cardinality(1 .. n) = n
    <3>1. Cardinality(1 .. n) = IF 1 > n THEN 0 ELSE n - 1 + 1
          BY FS_Interval
    <3> QED BY <3>1
  <2>3. q \in Surjection(1 .. n, S)
        BY <1>1, <2>1, <2>2, FS_Injection
  <2> QED BY <2>3 DEF Surjection
<1>8. ToSet(q) = S
  <2>1. PICK l \in Nat : l = Len(q) /\ \A j : j \in ToSet(q) <=> \E k \in 1 .. l : q[k] = j
        BY <1>5, Elements
  <2>2. l = n
        BY <1>5, <2>1
  <2>3. \A k \in 1 .. n : q[k] \in S
        BY <1>4
  <2> QED BY <1>7, <2>1, <2>2, <2>3
<1> QED BY <1>3, <1>5, <1>6, <1>8

-----------------------------------------------------------------------------
(* The rules of a symbol.                                                  *)

\* Pointers only go to entries that were made.
Bounded ==
    /\ more <= made
    /\ \A c \in Cells : cells[c].next <= made
    /\ \A t \in Threads : at[t].base <= made /\ at[t].rule <= made

\* The rule of a thread on its way belongs behind the one it came from.
Placed ==
    \A t \in Threads : pc[t] = "walk" /\ at[t].base # 0
        => Behind(call[t], cells[at[t].base])

\* what order needs
IInv == TypeOK /\ Bounded /\ InOrder /\ Placed

\* Entries that were not made yet link to nothing.
Unmade == \A c \in Cells : c > made => cells[c].next = 0

\* The table is locked by the thread that moves a rule from it to the list.
Holds == \A t \in Threads : pc[t] \in {"remove", "unlock"} => owner = t

\* As long as nothing was removed, a thread on its way is in the list.
OnTheWay == \A t \in Threads : pc[t] = "walk" /\ calm[t] => Inside(t)

\* A rule without a condition that applies to e can be reached from r.
Ahead(e, r) == \E c \in From(cells, r) : Matches(e, cells[c].pat) /\ ~cells[c].cond

\* A search that must be answered has the answer ahead of it, or has it.
Answerable ==
    \A t \in Threads : calm[t] =>
        /\ pc[t] = "find"  => MustAnswer(call[t].pat)
        /\ pc[t] = "list"  => Ahead(call[t].pat, more)
        /\ pc[t] = "scan"  => Ahead(call[t].pat, at[t].rule)
        /\ pc[t] = "found" => got[t] # None

\* what searches need
SInv == IInv /\ Unmade /\ Holds /\ OnTheWay /\ Answerable

----------------------------------------------------------------------------
(* There is a rule and an entry to start with.                             *)
LEMMA Blanks == NoCall \in Rule /\ Blank \in Cell /\ Blank.next = 0
<1>1. PICK p \in Patterns, b \in Bodies : TRUE
  BY PatternAssumption
<1>2. [pat |-> p, body |-> b, cond |-> TRUE] \in Rule
  BY <1>1 DEF Rule
<1>3. NoCall \in Rule
  BY <1>2 DEF NoCall
<1>4. 0 \in Pointer
  BY MaxRulesAssumption DEF Pointer
<1>5. [pat |-> p, body |-> b, cond |-> TRUE, next |-> 0] \in Cell
  BY <1>1, <1>4 DEF Cell
<1>6. Blank \in Cell /\ Blank.next = 0
  BY <1>5 DEF Blank
<1> QED BY <1>3, <1>6

(* In the beginning the list is empty.                                     *)
LEMMA InitIInv == Init => IInv
<1> SUFFICES ASSUME Init PROVE IInv
  OBVIOUS
<1>1. 0 \in Pointer
  BY MaxRulesAssumption DEF Pointer
<1>2. TypeOK
  BY <1>1, Blanks DEF Init, TypeOK, PCs, Nowhere
<1>3. Bounded
  BY Blanks DEF Init, Bounded, Nowhere
<1>4. InOrder
  BY Blanks DEF Init, InOrder
<1>5. Placed
  BY DEF Init, Placed
<1> QED BY <1>2, <1>3, <1>4, <1>5 DEF IInv

----------------------------------------------------------------------------
(* What an action may do that leaves the list as it is.                    *)

(* The order of the list depends on the entries only.                      *)
LEMMA SameCells ==
    ASSUME InOrder, UNCHANGED cells
    PROVE  InOrder'
BY DEF InOrder, Before

(* Threads that do not move, and those that leave the list, stay placed.   *)
LEMMA StayPlaced ==
    ASSUME IInv, UNCHANGED cells, NEW t \in Threads,
           \A u \in Threads \ {t} : pc'[u] = pc[u] /\ at'[u] = at[u] /\ call'[u] = call[u],
           pc'[t] = "walk" => at'[t].base = 0
    PROVE  Placed'
BY DEF IInv, Placed, Behind
----------------------------------------------------------------------------
(* After its way through the list a thread returns or goes on.             *)
LEMMA ThenTypes ==
    ASSUME TypeOK, NEW t \in Threads, Then(t)
    PROVE  /\ pc' \in [Threads -> PCs]
           /\ call' \in [Threads -> Rule]
           /\ at' \in [Threads -> [base : Pointer, rule : Pointer]]
           /\ calm' \in [Threads -> BOOLEAN]
           /\ \A u \in Threads : pc'[u] \in {"find", "list", "scan"} => call'[u].pat \in Consts
<1>1. CASE Return(t)
  <2>1. 0 \in Pointer
    BY MaxRulesAssumption DEF Pointer
  <2>2. /\ pc' \in [Threads -> PCs]
        /\ \A u \in Threads \ {t} : pc'[u] = pc[u] /\ call'[u] = call[u]
        /\ pc'[t] = "idle"
    BY <1>1 DEF Return, Goto, TypeOK, PCs
  <2>3. /\ call' \in [Threads -> Rule]
        /\ at' \in [Threads -> [base : Pointer, rule : Pointer]]
        /\ calm' \in [Threads -> BOOLEAN]
    BY <1>1, <2>1, Blanks DEF Return, TypeOK, Nowhere
  <2> QED BY <2>2, <2>3 DEF TypeOK
<1>2. CASE owner = t /\ Goto(t, IF call[t].cond THEN "remove" ELSE "unlock")
           /\ UNCHANGED <<call, at, calm>>
  <2>1. Goto(t, "remove") \/ Goto(t, "unlock")
    BY <1>2
  <2> QED BY <1>2, <2>1 DEF TypeOK, Goto, PCs
<1> QED BY <1>1, <1>2 DEF Then

(* Every step keeps the types.                                             *)
LEMMA TypeStep ==
    ASSUME TypeOK, [Next]_vars
    PROVE  TypeOK'
<1> USE DEF TypeOK
<1>0. 0 \in Pointer /\ Cells \subseteq Pointer
  BY MaxRulesAssumption DEF Pointer, Cells
<1>1. CASE UNCHANGED vars
  BY <1>1 DEF vars
<1>2. ASSUME NEW t \in Threads, Step(t) PROVE TypeOK'
  <2>1. CASE Define(t)
    BY <2>1, <1>0, Blanks DEF Define, RoomFor, Goto, PCs
  <2>2. CASE Store(t)
    <3>1. CASE StoreConst(t)
      <4>1. call[t].pat \in Consts /\ call[t].body \in Bodies
        BY <3>1 DEF StoreConst, Rule
      <4>2. table' \in [Consts -> Bodies \union {None}]
        BY <3>1, <4>1 DEF StoreConst
      <4> QED BY <2>2, <3>1, <4>2, <1>0, Blanks DEF Store, StoreConst, Return, Goto, Nowhere, PCs
    <3>2. CASE StoreGeneral(t)
      BY <2>2, <3>2 DEF Store, StoreGeneral, Goto, PCs
    <3>3. CASE StoreNowhere(t)
      BY <2>2, <3>3, <1>0, Blanks DEF Store, StoreNowhere, Return, Goto, Nowhere, PCs
    <3> QED BY <2>2, <3>1, <3>2, <3>3 DEF Store
  <2>3. CASE LockTable(t)
    BY <2>3, <1>0, Blanks DEF LockTable, Goto, PCs
  <2>4. CASE RemoveEntry(t)
    <3>1. CASE call[t].pat \in Consts /\ table[call[t].pat] # None
      <4>1. table[call[t].pat] \in Bodies
        BY <3>1
      <4>2. table' \in [Consts -> Bodies \union {None}]
        BY <2>4, <3>1 DEF RemoveEntry
      <4>3. call' \in [Threads -> Rule]
        BY <2>4, <3>1, <4>1 DEF RemoveEntry, Rule
      <4> QED BY <2>4, <3>1, <4>2, <4>3 DEF RemoveEntry, Goto, PCs
    <3>2. CASE ~(call[t].pat \in Consts /\ table[call[t].pat] # None)
      BY <2>4, <3>2 DEF RemoveEntry, Goto, PCs
    <3> QED BY <3>1, <3>2
  <2>5. CASE UnlockTable(t)
    BY <2>5, <1>0, Blanks DEF UnlockTable, Return, Goto, Nowhere, PCs
  <2>6. CASE Start(t)
    BY <2>6, <1>0, Blanks DEF Start, Goto, PCs
  <2>7. CASE Pass(t)
    BY <2>7, <1>0, Blanks DEF Pass, Cell, Pointer, Cells
  <2>8. CASE Replace(t)
    <3>1. at[t].rule \in Cells /\ call[t] \in Rule
      BY <2>8, MaxRulesAssumption DEF Replace, Replaces, Pointer, Cells
    <3>2. cells' \in [Cells -> Cell]
      <4>1. cells' = [cells EXCEPT ![at[t].rule].pat = call[t].pat,
                                   ![at[t].rule].body = call[t].body]
        BY <2>8 DEF Replace
      <4>2. cells \in [Cells -> Cell] /\ call[t].pat \in Patterns /\ call[t].body \in Bodies
        BY <3>1 DEF Rule
      <4> QED BY <3>1, <4>1, <4>2 DEF Cell
    <3>3. Then(t)
      BY <2>8 DEF Replace
    <3>4. table' \in [Consts -> Bodies \union {None}] /\ owner' \in Threads \union {None}
          /\ got' \in [Threads -> Bodies \union {None}] /\ made' \in Pointer /\ more' \in Pointer
      BY <2>8, <3>2, <1>0 DEF Replace
    <3> HIDE DEF TypeOK
    <3>5. TypeOK
      OBVIOUS
    <3> QED BY <3>2, <3>3, <3>4, <3>5, ThenTypes DEF TypeOK
  <2>9. CASE Insert(t)
    <3>1. made + 1 \in Cells /\ at[t].base \in Pointer /\ NewCell(t) \in Cell
      BY <2>9, MaxRulesAssumption DEF Insert, NewCell, Pointer, Cells, Cell, Rule
    <3>2. cells' \in [Cells -> Cell] /\ more' \in Pointer
      <4>1. CASE at[t].base = 0
        BY <2>9, <3>1, <4>1, <1>0 DEF Insert, Link
      <4>2. CASE at[t].base # 0
        <5>1. at[t].base \in Cells
          BY <3>1, <4>2, MaxRulesAssumption DEF Pointer, Cells
        <5>2. cells' = [cells EXCEPT ![made + 1] = NewCell(t), ![at[t].base].next = made + 1]
          BY <2>9, <4>2 DEF Insert, Link
        <5>3. cells' \in [Cells -> Cell]
          BY <3>1, <5>1, <5>2, <1>0 DEF Cell
        <5> QED BY <2>9, <4>2, <5>3 DEF Insert, Link
      <4> QED BY <4>1, <4>2
    <3>3. Then(t)
      BY <2>9 DEF Insert
    <3>4. table' \in [Consts -> Bodies \union {None}] /\ owner' \in Threads \union {None}
          /\ got' \in [Threads -> Bodies \union {None}] /\ made' \in Pointer
      BY <2>9, <3>1, <3>2, <1>0 DEF Insert
    <3> HIDE DEF TypeOK
    <3>5. TypeOK
      OBVIOUS
    <3> QED BY <3>2, <3>3, <3>4, <3>5, ThenTypes DEF TypeOK
  <2>10. CASE Retry(t)
    BY <2>10, <1>0, Blanks DEF Retry, Goto, Nowhere, PCs
  <2>11. CASE Find(t)
    <3>1. PICK e \in Consts : /\ call' = [call EXCEPT ![t].pat = e]
                              /\ calm' = [calm EXCEPT ![t] = MustAnswer(e)]
      BY <2>11 DEF Find
    <3>2. call' \in [Threads -> Rule] /\ call'[t].pat = e
      BY <3>1 DEF Rule, Patterns
    <3>3. MustAnswer(e) \in BOOLEAN
      BY DEF MustAnswer
    <3>4. calm' \in [Threads -> BOOLEAN]
      BY <3>1, <3>3
    <3> QED BY <2>11, <3>1, <3>2, <3>4 DEF Find, Goto, PCs
  <2>12. CASE LookUp(t)
    BY <2>12, <1>0, Blanks DEF LookUp, Goto, PCs
  <2>13. CASE ReadHead(t)
    BY <2>13, <1>0, Blanks DEF ReadHead, Goto, PCs
  <2>14. CASE Apply(t)
    BY <2>14, <1>0, Blanks DEF Apply, Goto, Cell, Cells, Pointer, PCs
  <2>15. CASE Skip(t)
    BY <2>15, <1>0, Blanks DEF Skip, Cell, Cells, Pointer
  <2>16. CASE NoRule(t)
    BY <2>16, <1>0, Blanks DEF NoRule, Goto, PCs
  <2>17. CASE Answer(t)
    BY <2>17, <1>0, Blanks DEF Answer, Return, Goto, Nowhere, PCs
  <2>18. CASE Unassign(t)
    <3>1. PICK p \in Patterns : call' = [call EXCEPT ![t].pat = p] /\ RemoveRule(p)
      BY <2>18 DEF Unassign
    <3>2. call' \in [Threads -> Rule]
      BY <3>1 DEF Rule
    <3>3. table' \in [Consts -> Bodies \union {None}]
      BY <3>1 DEF RemoveRule
    <3> QED BY <2>18, <3>1, <3>2, <3>3 DEF Unassign, Disturb, Goto, PCs
  <2>19. CASE ClearList(t)
    BY <2>19, <1>0, Blanks DEF ClearList, Disturb, Goto, PCs
  <2>20. CASE ClearTable(t)
    BY <2>20, <1>0, Blanks DEF ClearTable, Disturb, Goto, PCs
  <2>21. CASE OutOfMemory(t)
    <3>1. calm' \in [Threads -> BOOLEAN]
      BY <2>21 DEF OutOfMemory, Disturb
    <3>2. pc' \in [Threads -> PCs] /\ pc'[t] = "failed" /\ \A u \in Threads \ {t} : pc'[u] = pc[u]
      BY <2>21 DEF OutOfMemory, Goto, PCs
    <3>3. UNCHANGED <<table, owner, more, cells, made, call, at, got>>
      BY <2>21 DEF OutOfMemory
    <3> QED BY <3>1, <3>2, <3>3
  <2>22. CASE ReportSuccess(t)
    <3> HIDE DEF TypeOK
    <3>1. TypeOK /\ Then(t) /\ UNCHANGED <<table, owner, more, cells, made, got>>
      BY <2>22 DEF ReportSuccess
    <3>2. TypeOK'
      BY <3>1, ThenTypes DEF TypeOK
    <3> QED BY <3>2 DEF TypeOK
  <2> QED BY <1>2, <2>1, <2>2, <2>3, <2>4, <2>5, <2>6, <2>7, <2>8, <2>9, <2>10, <2>11, <2>12, <2>13, <2>14, <2>15, <2>16, <2>17, <2>18, <2>19, <2>20, <2>21, <2>22 DEF Step
<1> QED BY <1>1, <1>2 DEF Next
----------------------------------------------------------------------------
(* What the two actions that change entries do to them.                    *)

(* A rule takes the place of one with the same rank, without condition.    *)
LEMMA ReplaceCells ==
    ASSUME TypeOK, NEW t \in Threads, Replace(t)
    PROVE  /\ \A c \in Cells : /\ Rank[cells'[c].pat] = Rank[cells[c].pat]
                               /\ cells'[c].cond = cells[c].cond
                               /\ cells'[c].next = cells[c].next
<1>1. at[t].rule \in Cells /\ cells \in [Cells -> Cell]
  BY MaxRulesAssumption DEF TypeOK, Replace, Replaces, Pointer, Cells
<1>2. SameRule(call[t], cells[at[t].rule])
  BY DEF Replace, Replaces
<1> QED BY <1>1, <1>2 DEF Replace, SameRule, Cell

(* A new rule is linked in between its neighbours; nothing else changes.   *)
LEMMA InsertCells ==
    ASSUME TypeOK, Bounded, NEW t \in Threads, Insert(t)
    PROVE  /\ made + 1 \in Cells /\ made' = made + 1
           /\ cells'[made + 1] = NewCell(t)
           /\ \A c \in Cells \ {made + 1} :
                 /\ cells'[c].pat = cells[c].pat
                 /\ cells'[c].cond = cells[c].cond
                 /\ cells'[c].next = IF c = at[t].base THEN made + 1 ELSE cells[c].next
           /\ more' = IF at[t].base = 0 THEN made + 1 ELSE more
<1>1. made + 1 \in Cells /\ at[t].base \in Pointer /\ at[t].base # made + 1
  BY MaxRulesAssumption DEF TypeOK, Insert, Bounded, Pointer, Cells
<1>2. cells \in [Cells -> Cell]
  BY DEF TypeOK
<1>3. CASE at[t].base = 0
  <2>1. made + 1 # 0 /\ 0 \notin Cells
    BY MaxRulesAssumption DEF TypeOK, Pointer, Cells
  <2> QED BY <1>1, <1>2, <1>3, <2>1 DEF Insert, Link
<1>4. CASE at[t].base # 0
  <2>1. at[t].base \in Cells
    BY <1>1, <1>4, MaxRulesAssumption DEF Pointer, Cells
  <2>2. cells' = [cells EXCEPT ![made + 1] = NewCell(t), ![at[t].base].next = made + 1]
    BY <1>4 DEF Insert, Link
  <2> QED BY <1>1, <1>2, <1>4, <2>1, <2>2 DEF Insert, Link, Cell
<1> QED BY <1>3, <1>4

(* Where a thread is after its way through the list.                       *)
LEMMA ThenAt ==
    ASSUME TypeOK, NEW t \in Threads, Then(t)
    PROVE  /\ pc'[t] # "walk"
           /\ at'[t] = at[t] \/ at'[t] = Nowhere
           /\ \A u \in Threads \ {t} : pc'[u] = pc[u] /\ at'[u] = at[u] /\ call'[u] = call[u]
BY DEF TypeOK, Then, Return, Goto

----------------------------------------------------------------------------
(* Every step keeps pointers inside what was made.                         *)
LEMMA BoundedStep ==
    ASSUME TypeOK, Bounded, [Next]_vars
    PROVE  Bounded'
<1> USE DEF TypeOK, Bounded
<1>1. CASE UNCHANGED vars
  BY <1>1 DEF vars
<1>2. ASSUME NEW t \in Threads, Step(t) PROVE Bounded'
  <2>1. CASE Define(t)
    BY <2>1, MaxRulesAssumption DEF Define, Pointer
  <2>2. CASE Store(t)
    BY <2>2, MaxRulesAssumption DEF Store, StoreConst, StoreGeneral, StoreNowhere, Return, Nowhere, Pointer
  <2>3. CASE LockTable(t)
    BY <2>3, MaxRulesAssumption DEF LockTable, Pointer
  <2>4. CASE RemoveEntry(t)
    BY <2>4, MaxRulesAssumption DEF RemoveEntry, Pointer
  <2>5. CASE UnlockTable(t)
    BY <2>5, MaxRulesAssumption DEF UnlockTable, Return, Nowhere, Pointer
  <2>6. CASE Start(t)
    BY <2>6, MaxRulesAssumption DEF Start, Pointer
  <2>7. CASE Pass(t)
    <3>1. at[t].rule \in Cells
      BY <2>7, MaxRulesAssumption DEF Pass, Pointer, Cells
    <3> QED BY <2>7, <3>1 DEF Pass
  <2>8. CASE Replace(t)
    <3> HIDE DEF TypeOK
    <3>1. Then(t) /\ UNCHANGED <<more, made>> /\ made \in Nat
      BY <2>8, MaxRulesAssumption DEF Replace, TypeOK, Pointer
    <3>2. \A u \in Threads : at'[u].base <= made /\ at'[u].rule <= made
      BY <3>1, ThenAt DEF Nowhere
    <3> QED BY <2>8, <3>1, <3>2, ReplaceCells
  <2>9. CASE Insert(t)
    <3> HIDE DEF TypeOK
    <3>1. Then(t) /\ made \in Nat /\ more \in Nat /\ at[t].rule \in Nat
      BY <2>9, MaxRulesAssumption DEF Insert, TypeOK, Pointer
    <3>2. \A u \in Threads : at[u].base \in Nat /\ at[u].rule \in Nat
      BY MaxRulesAssumption DEF TypeOK, Pointer
    <3>3. \A u \in Threads : at'[u].base <= made + 1 /\ at'[u].rule <= made + 1
      BY <3>1, <3>2, ThenAt DEF Nowhere
    <3>4. \A c \in Cells : cells[c].next \in Nat
      BY MaxRulesAssumption DEF TypeOK, Cell, Pointer
    <3>5. \A c \in Cells : cells'[c].next <= made + 1
      <4>1. cells'[made + 1].next <= made + 1
        <5>1. cells'[made + 1] = NewCell(t)
          BY <2>9, InsertCells
        <5>2. NewCell(t).next = at[t].rule
          BY DEF NewCell
        <5> QED BY <3>1, <5>1, <5>2
      <4>2. \A c \in Cells \ {made + 1} : cells'[c].next \in {made + 1, cells[c].next}
        BY <2>9, InsertCells
      <4> QED BY <3>1, <3>4, <4>1, <4>2
    <3>6. made' = made + 1 /\ more' <= made + 1
      BY <2>9, <3>1, InsertCells
    <3> QED BY <3>3, <3>5, <3>6
  <2>10. CASE Retry(t)
    BY <2>10, MaxRulesAssumption DEF Retry, Nowhere, Pointer
  <2>11. CASE Find(t)
    BY <2>11, MaxRulesAssumption DEF Find, Pointer
  <2>12. CASE LookUp(t)
    BY <2>12, MaxRulesAssumption DEF LookUp, Pointer
  <2>13. CASE ReadHead(t)
    BY <2>13, MaxRulesAssumption DEF ReadHead, Pointer
  <2>14. CASE Apply(t)
    BY <2>14, MaxRulesAssumption DEF Apply, Pointer
  <2>15. CASE Skip(t)
    <3>1. at[t].rule \in Cells /\ made \in Nat
      BY <2>15, MaxRulesAssumption DEF Skip, Pointer, Cells
    <3>2. at'[t].base <= made /\ at'[t].rule <= made
      BY <2>15, <3>1 DEF Skip
    <3> QED BY <2>15, <3>2 DEF Skip
  <2>16. CASE NoRule(t)
    BY <2>16, MaxRulesAssumption DEF NoRule, Pointer
  <2>17. CASE Answer(t)
    BY <2>17, MaxRulesAssumption DEF Answer, Return, Nowhere, Pointer
  <2>18. CASE Unassign(t)
    BY <2>18, MaxRulesAssumption DEF Unassign, Pointer
  <2>19. CASE ClearList(t)
    BY <2>19, MaxRulesAssumption DEF ClearList, Pointer
  <2>20. CASE ClearTable(t)
    BY <2>20, MaxRulesAssumption DEF ClearTable, Pointer
  <2>21. CASE OutOfMemory(t)
    BY <2>21, MaxRulesAssumption DEF OutOfMemory, Pointer
  <2>22. CASE ReportSuccess(t)
    <3> HIDE DEF TypeOK
    <3>1. Then(t) /\ UNCHANGED <<more, made, cells>> /\ made \in Nat
      BY <2>22, MaxRulesAssumption DEF ReportSuccess, TypeOK, Pointer
    <3>2. \A u \in Threads : at'[u].base <= made /\ at'[u].rule <= made
      BY <3>1, ThenAt DEF Nowhere
    <3> QED BY <3>1, <3>2
  <2> QED BY <1>2, <2>1, <2>2, <2>3, <2>4, <2>5, <2>6, <2>7, <2>8, <2>9, <2>10, <2>11, <2>12, <2>13, <2>14, <2>15, <2>16, <2>17, <2>18, <2>19, <2>20, <2>21, <2>22 DEF Step
<1> QED BY <1>1, <1>2 DEF Next
----------------------------------------------------------------------------
(* Every step keeps the list in order.                                     *)
LEMMA OrderStep ==
    ASSUME IInv, [Next]_vars
    PROVE  InOrder'
<1> USE DEF IInv
<1>1. CASE UNCHANGED cells
  BY <1>1, SameCells
<1>2. ASSUME NEW t \in Threads, Replace(t) PROVE InOrder'
  <2>1. \A c \in Cells : cells[c].next # 0 => cells[c].next \in Cells
    BY MaxRulesAssumption DEF TypeOK, Cell, Cells, Pointer
  <2> QED BY <1>2, <2>1, ReplaceCells DEF InOrder, Before
<1>3. ASSUME NEW t \in Threads, Insert(t) PROVE InOrder'
  <2> DEFINE n == made + 1
             base == at[t].base
             rule == at[t].rule
  <2>1. /\ n \in Cells
        /\ cells'[n] = NewCell(t)
        /\ \A c \in Cells \ {n} :
              /\ cells'[c].pat = cells[c].pat
              /\ cells'[c].cond = cells[c].cond
              /\ cells'[c].next = IF c = base THEN n ELSE cells[c].next
    BY <1>3, InsertCells
  <2>2. /\ rule # n /\ \A c \in Cells : cells[c].next # n
        /\ rule # 0 => rule \in Cells
        /\ \A c \in Cells : cells[c].next # 0 => cells[c].next \in Cells
    BY MaxRulesAssumption DEF TypeOK, Bounded, Cell, Cells, Pointer
  <2>3. SUFFICES ASSUME NEW c \in Cells, cells'[c].next # 0
                 PROVE  Before(cells'[c], cells'[cells'[c].next])
    BY DEF InOrder
  <2>4. CASE c = n
    \* the new rule, in front of the one its thread has come to
    <3>1. cells'[c].next = rule /\ rule # 0
      BY <2>1, <2>3, <2>4 DEF NewCell
    <3>2. ~Behind(call[t], cells[rule]) /\ ~SameRule(call[t], cells[rule])
      BY <1>3, <3>1 DEF Insert, AtPlace, Replaces
    <3>3. /\ call[t] \in Rule /\ cells[rule] \in Cell
          /\ Rank[call[t].pat] \in Nat /\ Rank[cells[rule].pat] \in Nat
      BY <2>2, <3>1, RankAssumption DEF TypeOK, Rule, Cell
    <3>4. Before(call[t], cells[rule])
      BY <3>2, <3>3 DEF Before, Behind, SameRule, Rule, Cell
    <3>5. cells'[c].pat = call[t].pat /\ cells'[c].cond = call[t].cond
      BY <2>1, <2>4 DEF NewCell
    <3>6. cells'[rule].pat = cells[rule].pat /\ cells'[rule].cond = cells[rule].cond
      BY <2>1, <2>2, <3>1
    <3> QED BY <3>1, <3>4, <3>5, <3>6 DEF Before
  <2>5. CASE c # n /\ c = base
    \* the rule it came from, in front of the new one
    <3>1. cells'[c].next = n
      BY <2>1, <2>5
    <3>2. base # 0 /\ pc[t] = "walk"
      BY <1>3, <2>5, MaxRulesAssumption DEF Cells, Insert
    <3>3. Behind(call[t], cells[c])
      BY <2>5, <3>2 DEF Placed
    <3>4. Rank[call[t].pat] \in Nat /\ Rank[cells[c].pat] \in Nat
      BY RankAssumption DEF TypeOK, Rule, Cell
    <3>5. Before(cells[c], call[t])
      BY <3>3, <3>4 DEF Before, Behind
    <3> QED BY <2>1, <2>5, <3>1, <3>5 DEF Before, NewCell
  <2>6. CASE c # n /\ c # base
    <3>1. cells'[c].next = cells[c].next /\ cells[c].next # 0
      BY <2>1, <2>3, <2>6
    <3>2. Before(cells[c], cells[cells[c].next])
      BY <3>1 DEF InOrder
    <3> QED BY <2>1, <2>2, <2>6, <3>1, <3>2 DEF Before
  <2> QED BY <2>4, <2>5, <2>6
<1>4. UNCHANGED cells \/ \E t \in Threads : Replace(t) \/ Insert(t)
  BY DEF Next, Step, vars, Define, Store, LockTable, RemoveEntry, UnlockTable, Start, Pass, Retry, OutOfMemory, ReportSuccess, Find, LookUp, ReadHead, Apply, Skip, NoRule, Answer, Unassign, ClearList, ClearTable
<1> QED BY <1>1, <1>2, <1>3, <1>4

----------------------------------------------------------------------------
(* Every step keeps the threads placed: no other thread changes the rank of the
   rule they came from. *)
LEMMA PlacedStep ==
    ASSUME IInv, [Next]_vars
    PROVE  Placed'
<1> USE DEF IInv
<1>1. CASE UNCHANGED vars
  BY <1>1 DEF vars, Placed, Behind
<1>2. ASSUME NEW t \in Threads, Step(t) PROVE Placed'
  <2>1. CASE Define(t)
    BY <2>1, StayPlaced DEF TypeOK, Define, Goto
  <2>2. CASE Store(t)
    BY <2>2, StayPlaced DEF TypeOK, Store, StoreConst, StoreGeneral, StoreNowhere, Return, Goto
  <2>3. CASE LockTable(t)
    BY <2>3, StayPlaced DEF TypeOK, LockTable, Goto
  <2>4. CASE RemoveEntry(t)
    BY <2>4, StayPlaced DEF TypeOK, RemoveEntry, Goto
  <2>5. CASE UnlockTable(t)
    BY <2>5, StayPlaced DEF TypeOK, UnlockTable, Return, Goto
  <2>6. CASE Start(t)
    BY <2>6, StayPlaced DEF TypeOK, Start, Goto
  <2>7. CASE Pass(t)
    <3>1. Behind(call[t], cells[at[t].rule]) /\ at'[t].base = at[t].rule
      BY <2>7 DEF Pass, TypeOK
    <3>2. \A u \in Threads \ {t} : at'[u] = at[u]
      BY <2>7 DEF Pass, TypeOK
    <3>3. pc' = pc /\ call' = call /\ cells' = cells /\ Placed
      BY <2>7 DEF Pass
    <3> HIDE DEF IInv
    <3>4. ASSUME NEW u \in Threads, pc'[u] = "walk", at'[u].base # 0
          PROVE  Behind(call'[u], cells'[at'[u].base])
      BY <3>1, <3>2, <3>3, <3>4 DEF Placed
    <3> QED BY <3>4 DEF Placed, Behind
  <2>8. CASE Replace(t)
    <3>1. /\ pc'[t] # "walk"
          /\ \A u \in Threads \ {t} : pc'[u] = pc[u] /\ at'[u] = at[u] /\ call'[u] = call[u]
      BY <2>8, ThenAt DEF Replace
    <3>2. \A u \in Threads : at[u].base # 0 => at[u].base \in Cells
      BY MaxRulesAssumption DEF TypeOK, Bounded, Cells, Pointer
    <3> QED BY <2>8, <3>1, <3>2, ReplaceCells DEF Placed, Behind
  <2>9. CASE Insert(t)
    <3>1. /\ pc'[t] # "walk"
          /\ \A u \in Threads \ {t} : pc'[u] = pc[u] /\ at'[u] = at[u] /\ call'[u] = call[u]
      BY <2>9, ThenAt DEF Insert
    <3>2. \A u \in Threads : at[u].base # 0 => at[u].base \in Cells \ {made + 1}
      BY MaxRulesAssumption DEF TypeOK, Bounded, Cells, Pointer
    <3> QED BY <2>9, <3>1, <3>2, InsertCells DEF Placed, Behind
  <2>10. CASE Retry(t)
    BY <2>10, StayPlaced DEF TypeOK, Retry, Nowhere, Goto
  <2>11. CASE Find(t)
    BY <2>11, StayPlaced DEF TypeOK, Find, Goto
  <2>12. CASE LookUp(t)
    BY <2>12, StayPlaced DEF TypeOK, LookUp, Goto
  <2>13. CASE ReadHead(t)
    BY <2>13, StayPlaced DEF TypeOK, ReadHead, Goto
  <2>14. CASE Apply(t)
    BY <2>14, StayPlaced DEF TypeOK, Apply, Goto
  <2>15. CASE Skip(t)
    BY <2>15, StayPlaced DEF TypeOK, Skip, Goto
  <2>16. CASE NoRule(t)
    BY <2>16, StayPlaced DEF TypeOK, NoRule, Goto
  <2>17. CASE Answer(t)
    BY <2>17, StayPlaced DEF TypeOK, Answer, Return, Goto
  <2>18. CASE Unassign(t)
    BY <2>18, StayPlaced DEF TypeOK, Unassign, Goto
  <2>19. CASE ClearList(t)
    BY <2>19, StayPlaced DEF TypeOK, ClearList, Goto
  <2>20. CASE ClearTable(t)
    BY <2>20, StayPlaced DEF TypeOK, ClearTable, Goto
  <2>21. CASE OutOfMemory(t)
    BY <2>21, StayPlaced DEF TypeOK, OutOfMemory, Goto
  <2>22. CASE ReportSuccess(t)
    <3>1. /\ pc'[t] # "walk"
          /\ \A u \in Threads \ {t} : pc'[u] = pc[u] /\ at'[u] = at[u] /\ call'[u] = call[u]
      BY <2>22, ThenAt DEF ReportSuccess
    <3> QED BY <2>22, <3>1, StayPlaced DEF ReportSuccess
  <2> QED BY <1>2, <2>1, <2>2, <2>3, <2>4, <2>5, <2>6, <2>7, <2>8, <2>9, <2>10, <2>11, <2>12, <2>13, <2>14, <2>15, <2>16, <2>17, <2>18, <2>19, <2>20, <2>21, <2>22 DEF Step
<1> QED BY <1>1, <1>2 DEF Next

----------------------------------------------------------------------------
(* What is reached from a pointer has the entry it points to, and with each
   entry the next. *)
LEMMA FromClosed ==
    ASSUME NEW links \in [Cells -> Cell], NEW r \in Pointer
    PROVE  /\ From(links, r) \subseteq Cells
           /\ r # 0 => r \in From(links, r)
           /\ Closed(links, From(links, r))
<1> DEFINE F == From(links, r)
<1>1. F \subseteq Cells
  BY DEF From
<1>2. r # 0 => r \in F
  <2>1. r # 0 => r \in Cells
    BY MaxRulesAssumption DEF Pointer, Cells
  <2> QED BY <2>1 DEF From
<1>3. Closed(links, F)
  <2> SUFFICES ASSUME NEW c \in F, links[c].next # 0
               PROVE  links[c].next \in F
    BY DEF Closed
  <2>1. c \in Cells /\ links[c].next \in Cells
    BY <1>1, MaxRulesAssumption DEF Cell, Pointer, Cells
  <2>2. ASSUME NEW S \in SUBSET Cells, r # 0 => r \in S, Closed(links, S)
        PROVE  links[c].next \in S
    <3>1. c \in S
      BY <2>2 DEF From
    <3> QED BY <2>2, <3>1 DEF Closed
  <2> QED BY <2>1, <2>2 DEF From
<1> QED BY <1>1, <1>2, <1>3

(* It is in every set of which that is true.                               *)
LEMMA FromLeast ==
    ASSUME NEW links, NEW r, NEW S \in SUBSET Cells,
           r # 0 => r \in S, Closed(links, S)
    PROVE  From(links, r) \subseteq S
BY DEF From

(* What is reached from an entry is the entry and what is reached from the next. *)
LEMMA FromNext ==
    ASSUME NEW links \in [Cells -> Cell], NEW r \in Cells
    PROVE  From(links, r) \subseteq {r} \union From(links, links[r].next)
<1> DEFINE F == From(links, links[r].next)
<1>1. links[r].next \in Pointer
  BY DEF Cell
<1>2. F \subseteq Cells /\ (links[r].next # 0 => links[r].next \in F) /\ Closed(links, F)
  BY <1>1, FromClosed
<1> HIDE DEF F
<1>3. Closed(links, {r} \union F)
  BY <1>2 DEF Closed
<1>4. {r} \union F \in SUBSET Cells
  BY <1>2
<1>5. From(links, r) \subseteq {r} \union F
  BY <1>3, <1>4, FromLeast
<1> QED BY <1>5 DEF F

(* Nothing is reached from the null pointer. *)
LEMMA FromNull == ASSUME NEW links PROVE From(links, 0) = {}
<1>1. Closed(links, {}) /\ {} \in SUBSET Cells
  BY DEF Closed
<1>2. From(links, 0) \subseteq {}
  BY <1>1, FromLeast
<1> QED BY <1>2

(* What is reached depends on the links alone. *)
LEMMA FromLinks ==
    ASSUME NEW f \in [Cells -> Cell], NEW g \in [Cells -> Cell],
           \A c \in Cells : g[c].next = f[c].next, NEW r \in Pointer
    PROVE  From(g, r) = From(f, r)
<1>1. \A S \in SUBSET Cells : Closed(g, S) = Closed(f, S)
  BY DEF Closed
<1> QED BY <1>1 DEF From

(* A new entry between two neighbours, or between the head and the first entry,
   leaves everything reachable. *)
LEMMA FromLink ==
    ASSUME NEW f \in [Cells -> Cell], NEW g \in [Cells -> Cell],
           NEW n \in Cells, NEW b \in Pointer \ {n},
           f[n].next = 0,
           \A c \in Cells \ {n, b} : g[c].next = f[c].next,
           b # 0 => g[b].next = n /\ g[n].next = f[b].next,
           NEW r \in Pointer
    PROVE  From(f, r) \subseteq From(g, r)
<1> DEFINE G == From(g, r)
<1>1. G \subseteq Cells /\ (r # 0 => r \in G) /\ Closed(g, G)
  BY FromClosed
<1> HIDE DEF G
<1>2. 0 \notin Cells
  BY DEF Cells
<1>3. Closed(f, G)
  <2> SUFFICES ASSUME NEW c \in G, f[c].next # 0
               PROVE  f[c].next \in G
    BY DEF Closed
  <2>1. c \in Cells /\ c # n
    BY <1>1
  <2>2. CASE c # b
    BY <1>1, <2>1, <2>2 DEF Closed
  <2>3. CASE c = b
    <3>1. n # 0 /\ b # 0 /\ n \in G
      BY <1>1, <1>2, <2>1, <2>3 DEF Closed
    <3> QED BY <1>1, <2>3, <3>1 DEF Closed
  <2> QED BY <2>2, <2>3
<1>4. From(f, r) \subseteq G
  BY <1>1, <1>3, FromLeast
<1> QED BY <1>4 DEF G
----------------------------------------------------------------------------
(* What a step leaves of the entries.                                      *)

(* Only entries that were made are reached.                                *)
LEMMA FromMade ==
    ASSUME TypeOK, Bounded, NEW r \in Pointer, r <= made
    PROVE  From(cells, r) \subseteq {c \in Cells : c <= made}
<1> DEFINE S == {c \in Cells : c <= made}
<1>1. r # 0 => r \in S
  BY MaxRulesAssumption DEF Pointer, Cells
<1>2. Closed(cells, S)
  BY MaxRulesAssumption DEF TypeOK, Bounded, Closed, Cell, Cells, Pointer
<1> HIDE DEF S
<1>3. S \in SUBSET Cells
  BY DEF S
<1>4. From(cells, r) \subseteq S
  BY <1>1, <1>2, <1>3, FromLeast
<1> QED BY <1>4 DEF S

(* Which actions change entries and the head of the list.                  *)
LEMMA WhoChanges ==
    ASSUME [Next]_vars
    PROVE  \/ UNCHANGED <<cells, more, made>>
           \/ \E t \in Threads : Replace(t)
           \/ \E t \in Threads : Insert(t)
           \/ \E t \in Threads : ClearList(t)
<1>1. CASE UNCHANGED vars
  BY <1>1 DEF vars
<1>2. ASSUME NEW t \in Threads, Step(t)
      PROVE  UNCHANGED <<cells, more, made>> \/ Replace(t) \/ Insert(t) \/ ClearList(t)
  <2>1. CASE Define(t) \/ Store(t) \/ LockTable(t) \/ RemoveEntry(t) \/ UnlockTable(t)
    BY <2>1 DEF Define, Store, LockTable, RemoveEntry, UnlockTable
  <2>2. CASE Start(t) \/ Pass(t) \/ Retry(t) \/ OutOfMemory(t) \/ ReportSuccess(t)
    BY <2>2 DEF Start, Pass, Retry, OutOfMemory, ReportSuccess
  <2>3. CASE Find(t) \/ LookUp(t) \/ ReadHead(t) \/ Apply(t) \/ Skip(t) \/ NoRule(t) \/ Answer(t)
    BY <2>3 DEF Find, LookUp, ReadHead, Apply, Skip, NoRule, Answer
  <2>4. CASE Unassign(t) \/ ClearTable(t)
    BY <2>4 DEF Unassign, ClearTable
  <2> QED BY <1>2, <2>1, <2>2, <2>3, <2>4 DEF Step
<1> QED BY <1>1, <1>2 DEF Next

(* An entry that was made matches what it matched.                         *)
LEMMA EntriesStay ==
    ASSUME TypeOK, Bounded, [Next]_vars, NEW c \in Cells, c <= made
    PROVE  /\ cells'[c].cond = cells[c].cond
           /\ \A e \in Consts : Matches(e, cells'[c].pat) = Matches(e, cells[c].pat)
<1>1. CASE UNCHANGED cells
  BY <1>1
<1>2. ASSUME NEW t \in Threads, Replace(t)
      PROVE  /\ cells'[c].cond = cells[c].cond
             /\ \A e \in Consts : Matches(e, cells'[c].pat) = Matches(e, cells[c].pat)
  <2>1. cells[c] \in Cell /\ cells'[c] \in Cell
    BY TypeStep DEF TypeOK
  <2>2. Rank[cells'[c].pat] = Rank[cells[c].pat] /\ cells'[c].cond = cells[c].cond
    BY <1>2, ReplaceCells
  <2>3. cells[c].pat \in Patterns /\ cells'[c].pat \in Patterns
    BY <2>1 DEF Cell
  <2> QED BY <2>2, <2>3, SameRankAssumption
<1>3. ASSUME NEW t \in Threads, Insert(t)
      PROVE  cells'[c].cond = cells[c].cond /\ cells'[c].pat = cells[c].pat
  <2>1. c # made + 1
    BY MaxRulesAssumption DEF TypeOK, Pointer, Cells
  <2> QED BY <1>3, <2>1, InsertCells
<1>4. ASSUME NEW t \in Threads, ClearList(t) PROVE UNCHANGED cells
  BY <1>4 DEF ClearList
<1> QED BY <1>1, <1>2, <1>3, <1>4, WhoChanges

(* What is reached from an entry stays reached from it.                    *)
LEMMA LinksStay ==
    ASSUME TypeOK, Bounded, Unmade, [Next]_vars, NEW r \in Pointer
    PROVE  From(cells, r) \subseteq From(cells', r)
<1>1. cells \in [Cells -> Cell] /\ cells' \in [Cells -> Cell]
  BY TypeStep DEF TypeOK
<1>2. CASE UNCHANGED cells
  BY <1>2
<1>3. ASSUME NEW t \in Threads, Replace(t) PROVE From(cells', r) = From(cells, r)
  <2>1. \A c \in Cells : cells'[c].next = cells[c].next
    BY <1>3, ReplaceCells
  <2> QED BY <1>1, <2>1, FromLinks
<1>4. ASSUME NEW t \in Threads, Insert(t) PROVE From(cells, r) \subseteq From(cells', r)
  <2> DEFINE n == made + 1
             b == at[t].base
  <2>1. n \in Cells /\ b \in Pointer \ {n} /\ cells[n].next = 0
    BY <1>4, InsertCells, MaxRulesAssumption DEF TypeOK, Bounded, Unmade, Pointer, Cells
  <2>2. \A c \in Cells \ {n, b} : cells'[c].next = cells[c].next
    BY <1>4, InsertCells
  <2>3. b # 0 => cells'[b].next = n /\ cells'[n].next = cells[b].next
    <3>1. SUFFICES ASSUME b # 0 PROVE cells'[b].next = n /\ cells'[n].next = cells[b].next
      OBVIOUS
    <3>2. b \in Cells \ {n}
      BY <2>1, <3>1, MaxRulesAssumption DEF Pointer, Cells
    <3>3. cells[b].next = at[t].rule
      BY <1>4, <3>1 DEF Insert, Undisturbed, Target
    <3>4. cells'[n] = NewCell(t) /\ cells'[b].next = n
      BY <1>4, <3>2, InsertCells
    <3> QED BY <3>3, <3>4 DEF NewCell
  <2> HIDE DEF n, b
  <2> QED BY <1>1, <2>1, <2>2, <2>3, FromLink
<1>5. ASSUME NEW t \in Threads, ClearList(t) PROVE UNCHANGED cells
  BY <1>5 DEF ClearList
<1> QED BY <1>2, <1>3, <1>4, <1>5, WhoChanges

(* An entry stays in the list until the list is cleared.                   *)
LEMMA ListedStays ==
    ASSUME TypeOK, Bounded, Unmade, [Next]_vars, more' # 0 \/ more' = more
    PROVE  Listed \subseteq Listed'
<1>0. Listed' = From(cells', more')
  BY DEF Listed
<1>1. CASE UNCHANGED more
  <2>1. more \in Pointer
    BY DEF TypeOK
  <2> QED BY <1>0, <1>1, <2>1, LinksStay DEF Listed
<1>2. ASSUME NEW t \in Threads, Insert(t), more' # more PROVE Listed \subseteq Listed'
  <2> DEFINE n == made + 1
             L == From(cells', n)
  <2>1. at[t].base = 0 /\ more' = n /\ n \in Cells /\ n \in Pointer
    BY <1>2, InsertCells, MaxRulesAssumption DEF Pointer, Cells
  <2>2. cells'[n].next = more
    BY <1>2, <2>1, InsertCells DEF NewCell, Insert, Undisturbed, Target
  <2>3. cells \in [Cells -> Cell] /\ cells' \in [Cells -> Cell] /\ more \in Pointer
    BY TypeStep DEF TypeOK
  <2>4. L \subseteq Cells /\ n \in L /\ Closed(cells', L)
    <3>1. 0 \notin Cells
      BY DEF Cells
    <3> QED BY <2>1, <2>3, <3>1, FromClosed
  <2> HIDE DEF L
  <2>5. more # 0 => more \in L
    BY <2>2, <2>4 DEF Closed
  <2>6. From(cells', more) \subseteq L
    BY <2>4, <2>5, FromLeast
  <2>7. From(cells, more) \subseteq L
    BY <2>3, <2>6, LinksStay
  <2> QED BY <1>0, <2>1, <2>7 DEF L, Listed
<1>3. ASSUME NEW t \in Threads, Replace(t) PROVE UNCHANGED more
  BY <1>3 DEF Replace
<1>4. ASSUME NEW t \in Threads, ClearList(t) PROVE UNCHANGED more
  BY <1>4 DEF ClearList
<1> QED BY <1>1, <1>2, <1>3, <1>4, WhoChanges

(* The list has with each entry the next.                                  *)
LEMMA ListedClosed ==
    ASSUME TypeOK
    PROVE  Listed \subseteq Cells /\ (more # 0 => more \in Listed) /\ Closed(cells, Listed)
BY FromClosed DEF TypeOK, Listed

(* A rule that was ahead of a thread stays ahead of it.                    *)
LEMMA AheadStays ==
    ASSUME TypeOK, Bounded, Unmade, [Next]_vars, NEW e \in Consts,
           NEW r \in Pointer, r <= made, Ahead(e, r)
    PROVE  \E c \in From(cells', r) : Matches(e, cells'[c].pat) /\ ~cells'[c].cond
<1>1. PICK c \in From(cells, r) : Matches(e, cells[c].pat) /\ ~cells[c].cond
  BY DEF Ahead
<1>2. c \in Cells /\ c <= made
  BY FromMade
<1>3. Matches(e, cells'[c].pat) /\ ~cells'[c].cond
  BY <1>1, <1>2, EntriesStay
<1> QED BY <1>1, <1>3, LinksStay

(* What is in the list stays in the list.                                  *)
LEMMA AheadInList ==
    ASSUME TypeOK, Bounded, Unmade, [Next]_vars, more' # 0 \/ more' = more,
           NEW e \in Consts, Ahead(e, more)
    PROVE  Ahead(e, more)'
<1>1. PICK c \in Listed : Matches(e, cells[c].pat) /\ ~cells[c].cond
  BY DEF Ahead, Listed
<1>2. more \in Pointer /\ more <= made
  BY DEF TypeOK, Bounded
<1>3. c \in Cells /\ c <= made
  BY <1>2, FromMade DEF Listed
<1>4. Matches(e, cells'[c].pat) /\ ~cells'[c].cond
  BY <1>1, <1>3, EntriesStay
<1>5. c \in Listed'
  BY <1>1, ListedStays
<1> QED BY <1>4, <1>5 DEF Ahead, Listed

----------------------------------------------------------------------------
(* What a thread does to the others.                                       *)

(* Who relies on what was there keeps the list.                            *)
LEMMA CalmKeeps ==
    ASSUME [Next]_vars, NEW u \in Threads, calm'[u], TypeOK, Bounded
    PROVE  more' # 0 \/ more' = more
<1>1. ASSUME NEW t \in Threads, ClearList(t) PROVE FALSE
  BY <1>1 DEF ClearList, Disturb
<1>2. ASSUME NEW t \in Threads, Replace(t) PROVE more' = more
  BY <1>2 DEF Replace
<1>3. ASSUME NEW t \in Threads, Insert(t) PROVE more' = more \/ more' # 0
  BY <1>3, InsertCells, MaxRulesAssumption DEF Cells
<1> QED BY <1>1, <1>2, <1>3, WhoChanges

(* A step of one thread leaves the others where they are.                  *)
LEMMA OthersStay ==
    ASSUME TypeOK, NEW t \in Threads, Step(t), NEW u \in Threads, u # t
    PROVE  /\ pc'[u] = pc[u] /\ call'[u] = call[u] /\ at'[u] = at[u] /\ got'[u] = got[u]
           /\ calm'[u] => calm[u]
<1> USE DEF TypeOK, Goto, Return
<1>1. CASE Define(t) \/ Store(t) \/ LockTable(t) \/ RemoveEntry(t) \/ UnlockTable(t)
  BY <1>1 DEF Define, Store, StoreConst, StoreGeneral, StoreNowhere, LockTable, RemoveEntry, UnlockTable
<1>2. CASE Start(t) \/ Pass(t) \/ Retry(t)
  BY <1>2 DEF Start, Pass, Retry
<1>3. CASE Replace(t)
  BY <1>3 DEF Replace, Then
<1>4. CASE Insert(t)
  BY <1>4 DEF Insert, Then
<1>5. CASE Find(t) \/ LookUp(t) \/ ReadHead(t) \/ Apply(t) \/ Skip(t) \/ NoRule(t) \/ Answer(t)
  BY <1>5 DEF Find, LookUp, ReadHead, Apply, Skip, NoRule, Answer
<1>6. CASE Unassign(t) \/ ClearList(t) \/ ClearTable(t)
  BY <1>6 DEF Unassign, ClearList, ClearTable, Disturb
<1>7. CASE OutOfMemory(t) \/ ReportSuccess(t)
  BY <1>7 DEF OutOfMemory, ReportSuccess, Then, Disturb
<1> QED BY <1>1, <1>2, <1>3, <1>4, <1>5, <1>6, <1>7 DEF Step

(* A thread that is in the list, and is not moved, stays in it.            *)
LEMMA InsideStays ==
    ASSUME TypeOK, Bounded, Unmade, [Next]_vars, more' # 0 \/ more' = more,
           NEW u \in Threads, at'[u] = at[u], Inside(u)
    PROVE  Inside(u)'
BY ListedStays DEF Inside

(* The way to the next entry does not leave the list.                      *)
LEMMA PassInside ==
    ASSUME TypeOK, NEW t \in Threads, Pass(t), Inside(t)
    PROVE  Inside(t)'
<1>1. /\ at'[t] = [base |-> at[t].rule, rule |-> cells[at[t].rule].next]
      /\ at[t].rule # 0 /\ more' = more /\ cells' = cells
  BY DEF Pass, TypeOK
<1>2. Listed' = Listed
  BY <1>1 DEF Listed
<1>3. at[t].rule \in Listed
  BY <1>1 DEF Inside
<1>4. cells[at[t].rule].next \in Listed \union {0}
  BY <1>3, ListedClosed DEF Closed
<1> QED BY <1>1, <1>2, <1>3, <1>4 DEF Inside

(* The way begins in the list.                                             *)
LEMMA StartInside ==
    ASSUME TypeOK, NEW t \in Threads, Start(t)
    PROVE  Inside(t)'
<1>1. at'[t] = [base |-> 0, rule |-> more] /\ more' = more /\ cells' = cells
  BY DEF Start, TypeOK
<1>2. Listed' = Listed
  BY <1>1 DEF Listed
<1> QED BY <1>1, <1>2, ListedClosed DEF Inside

(* A thread that has found the place in the list puts its rule there.      *)
LEMMA RuleListed ==
    ASSUME TypeOK, Bounded, Unmade, NEW t \in Threads, Step(t),
           Replace(t) \/ Insert(t), Inside(t)
    PROVE  \E c \in Listed' : /\ cells'[c].pat = call[t].pat
                              /\ cells'[c].body = call[t].body
                              /\ cells'[c].cond = call[t].cond
<1>0. [Next]_vars /\ TypeOK'
  BY TypeStep DEF Next
<1>1. CASE Replace(t)
  <2> DEFINE c == at[t].rule
  <2>1. c # 0 /\ c \in Listed /\ c \in Cells
    BY <1>1, ListedClosed DEF Replace, Replaces, Inside
  <2>2. c \in Listed'
    BY <1>0, <1>1, <2>1, ListedStays DEF Replace
  <2>3. call[t].cond = cells[c].cond
    BY <1>1, <2>1 DEF Replace, Replaces, SameRule, TypeOK, Rule, Cell
  <2>4. /\ cells'[c].pat = call[t].pat /\ cells'[c].body = call[t].body
        /\ cells'[c].cond = cells[c].cond
    BY <1>1, <2>1 DEF Replace, TypeOK, Cell
  <2> QED BY <2>2, <2>3, <2>4
<1>2. CASE Insert(t)
  <2> DEFINE n == made + 1
             b == at[t].base
  <2>1. n \in Cells /\ n # 0 /\ cells'[n] = NewCell(t)
    BY <1>2, InsertCells, MaxRulesAssumption DEF Cells
  <2>2. Listed' \subseteq Cells /\ (more' # 0 => more' \in Listed') /\ Closed(cells, Listed)'
    <3>1. (Listed \subseteq Cells /\ (more # 0 => more \in Listed) /\ Closed(cells, Listed))'
      BY <1>0, ListedClosed, PTL
    <3> QED BY <3>1
  <2>3. n \in Listed'
    <3>1. CASE b = 0
      BY <1>2, <2>1, <2>2, <3>1, InsertCells
    <3>2. CASE b # 0
      <4>1. b \in Listed /\ b \in Cells /\ b # n
        BY <3>2, ListedClosed, MaxRulesAssumption DEF Inside, Bounded, TypeOK, Pointer, Cells
      <4>2. cells'[b].next = n /\ more' = more
        BY <1>2, <3>2, <4>1, InsertCells
      <4>3. b \in Listed'
        BY <1>0, <4>1, <4>2, ListedStays
      <4> QED BY <2>1, <2>2, <4>2, <4>3 DEF Closed
    <3> QED BY <3>1, <3>2
  <2> QED BY <2>1, <2>3 DEF NewCell
<1> QED BY <1>1, <1>2

----------------------------------------------------------------------------
(* The other parts of the invariant.                                       *)

(* An entry is made before anything links it.                              *)
LEMMA UnmadeStep ==
    ASSUME TypeOK, Bounded, Unmade, [Next]_vars
    PROVE  Unmade'
<1>0. made \in Nat /\ \A u \in Threads : at[u].base \in Nat
  BY MaxRulesAssumption DEF TypeOK, Pointer
<1>1. CASE UNCHANGED <<cells, more, made>>
  BY <1>1 DEF Unmade
<1>2. ASSUME NEW t \in Threads, Replace(t) PROVE Unmade'
  BY <1>2, ReplaceCells DEF Unmade, Replace
<1>3. ASSUME NEW t \in Threads, Insert(t) PROVE Unmade'
  <2>1. at[t].base <= made /\ made' = made + 1
    BY <1>3, InsertCells DEF Bounded
  <2>2. \A c \in Cells : c > made + 1 => c > made /\ c # made + 1 /\ c # at[t].base
    BY <1>0, <2>1 DEF Cells
  <2>3. \A c \in Cells : c > made + 1 => cells'[c].next = cells[c].next
    BY <1>3, <2>2, InsertCells
  <2> QED BY <2>1, <2>2, <2>3 DEF Unmade
<1>4. ASSUME NEW t \in Threads, ClearList(t) PROVE Unmade'
  BY <1>4 DEF ClearList, Unmade
<1> QED BY <1>1, <1>2, <1>3, <1>4, WhoChanges

(* Nobody else unlocks the table of a thread that moves a rule.            *)
LEMMA HoldsStep ==
    ASSUME TypeOK, Holds, [Next]_vars
    PROVE  Holds'
<1>1. CASE UNCHANGED vars
  BY <1>1 DEF vars, Holds
<1>2. ASSUME NEW t \in Threads, Step(t) PROVE Holds'
  <2>1. owner' = owner \/ owner = None \/ owner = t
    BY <1>2 DEF Step, Define, Store, LockTable, RemoveEntry, UnlockTable, Start, Pass, Replace, Insert, Retry, OutOfMemory, ReportSuccess, Find, LookUp, ReadHead, Apply, Skip, NoRule, Answer, Unassign, ClearList, ClearTable, Holds
  <2>2. ASSUME NEW u \in Threads, u # t, pc'[u] \in {"remove", "unlock"} PROVE owner' = u
    <3>1. owner = u
      BY <1>2, <2>2, OthersStay DEF Holds
    <3> QED BY <2>1, <2>2, <3>1, NoneAssumption
  <2>3. ASSUME pc'[t] \in {"remove", "unlock"} PROVE owner' = t
    <3> USE DEF TypeOK, Goto
    <3>1. CASE RemoveEntry(t)
      BY <3>1 DEF RemoveEntry, Holds
    <3>2. CASE Replace(t)
      BY <2>3, <3>2 DEF Replace, Then, Return
    <3>3. CASE Insert(t)
      BY <2>3, <3>3 DEF Insert, Then, Return
    <3>4. CASE Pass(t) \/ Skip(t)
      BY <2>3, <3>4 DEF Pass, Skip
    <3>5. CASE Define(t) \/ Store(t) \/ LockTable(t) \/ UnlockTable(t) \/ Start(t) \/ Retry(t)
      BY <2>3, <3>5 DEF Define, Store, StoreConst, StoreGeneral, StoreNowhere, LockTable, UnlockTable, Return, Start, Retry
    <3>6. CASE Find(t) \/ LookUp(t) \/ ReadHead(t) \/ Apply(t) \/ NoRule(t) \/ Answer(t)
      BY <2>3, <3>6 DEF Find, LookUp, ReadHead, Apply, NoRule, Answer, Return
    <3>7. CASE Unassign(t) \/ ClearList(t) \/ ClearTable(t)
      BY <2>3, <3>7 DEF Unassign, ClearList, ClearTable
    <3>8. CASE OutOfMemory(t) \/ ReportSuccess(t)
      BY <2>3, <3>8 DEF OutOfMemory, ReportSuccess, Then, Return
    <3> QED BY <1>2, <3>1, <3>2, <3>3, <3>4, <3>5, <3>6, <3>7, <3>8 DEF Step
  <2> QED BY <2>2, <2>3 DEF Holds
<1> QED BY <1>1, <1>2 DEF Next

(* Which steps a thread can take on its way, and which lead to it.         *)
LEMMA WalkSteps ==
    ASSUME TypeOK, NEW t \in Threads, Step(t)
    PROVE  /\ pc'[t] = "walk" => Start(t) \/ Pass(t)
           /\ pc[t] = "start" => Start(t)
           /\ pc[t] = "walk" => Pass(t) \/ Replace(t) \/ Insert(t) \/ Retry(t) \/ OutOfMemory(t)
<1> USE DEF TypeOK, Goto, Return
<1>1. CASE Define(t) \/ Store(t) \/ LockTable(t) \/ RemoveEntry(t) \/ UnlockTable(t)
  BY <1>1 DEF Define, Store, StoreConst, StoreGeneral, StoreNowhere, LockTable, RemoveEntry, UnlockTable
<1>2. CASE Start(t) \/ Pass(t) \/ Retry(t)
  BY <1>2 DEF Start, Pass, Retry
<1>3. CASE Replace(t)
  BY <1>3 DEF Replace, Then
<1>4. CASE Insert(t)
  BY <1>4 DEF Insert, Then
<1>5. CASE Find(t) \/ LookUp(t) \/ ReadHead(t) \/ Apply(t) \/ Skip(t) \/ NoRule(t) \/ Answer(t)
  BY <1>5 DEF Find, LookUp, ReadHead, Apply, Skip, NoRule, Answer
<1>6. CASE Unassign(t) \/ ClearList(t) \/ ClearTable(t)
  BY <1>6 DEF Unassign, ClearList, ClearTable
<1>7. CASE OutOfMemory(t) \/ ReportSuccess(t)
  BY <1>7 DEF OutOfMemory, ReportSuccess, Then
<1> QED BY <1>1, <1>2, <1>3, <1>4, <1>5, <1>6, <1>7 DEF Step

(* A thread that nothing was removed for stays in the list.                *)
LEMMA OnTheWayStep ==
    ASSUME TypeOK, Bounded, Unmade, OnTheWay, [Next]_vars
    PROVE  OnTheWay'
<1>1. CASE UNCHANGED vars
  BY <1>1 DEF vars, OnTheWay, Inside, Listed
<1>2. ASSUME NEW t \in Threads, Step(t) PROVE OnTheWay'
  <2>1. SUFFICES ASSUME NEW u \in Threads, pc'[u] = "walk", calm'[u] PROVE Inside(u)'
    BY DEF OnTheWay
  <2>2. CASE u # t
    <3>1. pc[u] = "walk" /\ calm[u] /\ at'[u] = at[u]
      BY <1>2, <2>1, <2>2, OthersStay
    <3>2. more' # 0 \/ more' = more
      BY <2>1, CalmKeeps
    <3> QED BY <3>1, <3>2, InsideStays DEF OnTheWay
  <2>3. CASE u = t
    <3>1. CASE Start(t)
      BY <2>3, <3>1, StartInside
    <3>2. CASE Pass(t)
      <4>1. pc[t] = "walk" /\ calm[t]
        BY <2>1, <2>3, <3>2 DEF Pass
      <4> QED BY <2>3, <3>2, <4>1, PassInside DEF OnTheWay
    <3> QED BY <1>2, <2>1, <2>3, <3>1, <3>2, WalkSteps
  <2> QED BY <2>2, <2>3
<1> QED BY <1>1, <1>2 DEF Next

(* A rule stays in the table, or is on its way to the list.                *)
LEMMA TableStays ==
    ASSUME TypeOK, NEW t \in Threads, Step(t), NEW u \in Threads, calm'[u],
           NEW e \in Consts, table[e] # None
    PROVE  table'[e] # None \/ (RemoveEntry(t) /\ call[t].pat = e)
<1> USE DEF TypeOK
<1>1. CASE UNCHANGED table
  BY <1>1
<1>2. CASE StoreConst(t)
  <2>1. call[t].body \in Bodies
    BY DEF Rule
  <2> QED BY <1>2, <2>1, NoneAssumption DEF StoreConst
<1>3. CASE RemoveEntry(t)
  BY <1>3 DEF RemoveEntry
<1>4. CASE Unassign(t) \/ ClearTable(t)
  BY <1>4 DEF Unassign, ClearTable, Disturb
<1> QED BY <1>1, <1>2, <1>3, <1>4 DEF Step, Define, Store, StoreGeneral, StoreNowhere, LockTable, UnlockTable, Start, Pass, Replace, Insert, Retry, OutOfMemory, ReportSuccess, Find, LookUp, ReadHead, Apply, Skip, NoRule, Answer, ClearList

(* What a search has to find stays where it is, or moves towards the list. *)
LEMMA MustStays ==
    ASSUME TypeOK, Bounded, Unmade, Holds, NEW t \in Threads, Step(t),
           NEW u \in Threads, calm'[u], NEW e \in Consts, MustAnswer(e)
    PROVE  MustAnswer(e)'
<1>0. [Next]_vars /\ (more' # 0 \/ more' = more)
  BY CalmKeeps DEF Next
<1>1. CASE table[e] # None
  <2>1. CASE table'[e] # None
    BY <2>1 DEF MustAnswer
  <2>2. CASE RemoveEntry(t) /\ call[t].pat = e
    <3>1. owner' = t /\ call'[t].pat = e /\ ~call'[t].cond /\ pc'[t] = "start"
      BY <1>1, <2>2 DEF RemoveEntry, Holds, Goto, TypeOK, Rule
    <3>2. Moving(t)' /\ Matches(e, call'[t].pat)
      BY <3>1 DEF Moving, Matches
    <3> QED BY <3>2 DEF MustAnswer
  <2> QED BY <1>1, <2>1, <2>2, TableStays
<1>2. CASE Ahead(e, more)
  <2>1. Ahead(e, more)'
    BY <1>0, <1>2, AheadInList
  <2> QED BY <2>1 DEF MustAnswer, Ahead, Listed
<1>3. ASSUME NEW v \in Threads, Moving(v), Matches(e, call[v].pat) PROVE MustAnswer(e)'
  <2>1. CASE v # t
    <3>1. pc'[v] = pc[v] /\ call'[v] = call[v] /\ at'[v] = at[v]
      BY <2>1, OthersStay
    <3>2. owner' = v
      BY <1>3, <2>1, NoneAssumption DEF Moving, Step, Define, Store, LockTable, RemoveEntry, UnlockTable, Holds, Start, Pass, Replace, Insert, Retry, OutOfMemory, ReportSuccess, Find, LookUp, ReadHead, Apply, Skip, NoRule, Answer, Unassign, ClearList, ClearTable
    <3>3. Inside(v) => Inside(v)'
      BY <1>0, <3>1, InsideStays
    <3>4. Moving(v)'
      BY <1>3, <3>1, <3>2, <3>3 DEF Moving
    <3> QED BY <1>3, <3>1, <3>4 DEF MustAnswer
  <2>2. CASE v = t
    <3>1. CASE Start(t)
      <4>1. owner' = t /\ call'[t] = call[t] /\ pc'[t] = "walk"
        BY <1>3, <2>2, <3>1 DEF Start, Moving, Goto, TypeOK
      <4>2. Moving(t)'
        BY <1>3, <2>2, <3>1, <4>1, StartInside DEF Moving
      <4> QED BY <1>3, <2>2, <4>1, <4>2 DEF MustAnswer
    <3>2. CASE Pass(t)
      <4>1. owner' = t /\ call'[t] = call[t] /\ pc'[t] = "walk" /\ Inside(t)
        BY <1>3, <2>2, <3>2 DEF Pass, Moving, TypeOK
      <4>2. Moving(t)'
        BY <1>3, <2>2, <3>2, <4>1, PassInside DEF Moving
      <4> QED BY <1>3, <2>2, <4>1, <4>2 DEF MustAnswer
    <3>3. CASE Replace(t) \/ Insert(t)
      <4>1. Inside(t) /\ ~call[t].cond
        BY <1>3, <2>2, <3>3 DEF Moving, Replace, Insert
      <4>2. \E c \in Listed' : cells'[c].pat = call[t].pat /\ cells'[c].cond = call[t].cond
        BY <3>3, <4>1, RuleListed
      <4> QED BY <1>3, <2>2, <4>1, <4>2 DEF MustAnswer
    <3>4. CASE Retry(t)
      <4>1. owner' = t /\ call'[t] = call[t] /\ pc'[t] = "start"
        BY <1>3, <2>2, <3>4 DEF Retry, Goto, Moving, TypeOK
      <4>2. Moving(t)'
        BY <1>3, <2>2, <4>1 DEF Moving
      <4> QED BY <1>3, <2>2, <4>1, <4>2 DEF MustAnswer
    <3>5. CASE OutOfMemory(t)
      BY <1>3, <2>2, <3>5 DEF OutOfMemory, Moving, Disturb
    <3> QED BY <1>3, <2>2, <3>1, <3>2, <3>3, <3>4, <3>5, WalkSteps DEF Moving
  <2> QED BY <2>1, <2>2
<1> QED BY <1>1, <1>2, <1>3 DEF MustAnswer, Ahead, Listed

(* A search that has to be answered gets nearer to the answer.             *)
LEMMA AnswerableStep ==
    ASSUME SInv, [Next]_vars
    PROVE  Answerable'
<1> USE DEF SInv, IInv
<1>1. CASE UNCHANGED vars
  BY <1>1 DEF vars, Answerable, MustAnswer, Moving, Inside, Ahead, Listed
<1>2. ASSUME NEW t \in Threads, Step(t) PROVE Answerable'
  <2> DEFINE Good(u) == /\ pc[u] = "find"  => MustAnswer(call[u].pat)
                        /\ pc[u] = "list"  => Ahead(call[u].pat, more)
                        /\ pc[u] = "scan"  => Ahead(call[u].pat, at[u].rule)
                        /\ pc[u] = "found" => got[u] # None
  <2>0. SUFFICES ASSUME NEW u \in Threads, calm'[u] PROVE Good(u)'
    BY DEF Answerable
  <2>1. [Next]_vars /\ TypeOK' /\ (more' # 0 \/ more' = more)
    BY <1>2, <2>0, TypeStep, CalmKeeps DEF Next
  <2>2. CASE u # t
    <3>1. pc'[u] = pc[u] /\ call'[u] = call[u] /\ at'[u] = at[u] /\ got'[u] = got[u] /\ calm[u]
      BY <1>2, <2>0, <2>2, OthersStay
    <3>2. Good(u)
      BY <3>1 DEF Answerable
    <3>3. pc[u] \in {"find", "list", "scan"} => call[u].pat \in Consts
      BY DEF TypeOK
    <3>4. CASE pc[u] = "find"
      <4>1. MustAnswer(call[u].pat)'
        <5>1. PICK e \in Consts : e = call[u].pat
          BY <3>3, <3>4
        <5>2. MustAnswer(e)
          BY <3>2, <3>4, <5>1
        <5>3. MustAnswer(e)'
          BY <1>2, <2>0, <5>2, MustStays
        <5> QED BY <3>1, <5>1, <5>3
      <4> QED BY <3>1, <3>4, <4>1
    <3>5. CASE pc[u] = "list"
      <4>1. PICK e \in Consts : e = call[u].pat
        BY <3>3, <3>5
      <4>2. Ahead(e, more)
        BY <3>2, <3>5, <4>1
      <4>3. Ahead(e, more)'
        BY <2>1, <4>2, AheadInList
      <4> QED BY <3>1, <3>5, <4>1, <4>3
    <3>6. CASE pc[u] = "scan"
      <4>1. PICK e \in Consts : e = call[u].pat
        BY <3>3, <3>6
      <4>2. PICK r \in Pointer : r = at[u].rule
        BY DEF TypeOK
      <4>3. Ahead(e, r) /\ r <= made
        BY <3>2, <3>6, <4>1, <4>2 DEF Bounded
      <4>4. \E c \in From(cells', r) : Matches(e, cells'[c].pat) /\ ~cells'[c].cond
        BY <2>1, <4>3, AheadStays
      <4> QED BY <3>1, <3>6, <4>1, <4>2, <4>4 DEF Ahead
    <3>7. CASE pc[u] \notin {"find", "list", "scan"}
      BY <3>1, <3>2, <3>7
    <3> QED BY <3>4, <3>5, <3>6, <3>7
  <2>3. CASE u = t
    <3> DEFINE e == call[t].pat
    <3>1. CASE Find(t)
      <4>1. PICK x \in Consts : /\ call' = [call EXCEPT ![t].pat = x]
                                /\ calm' = [calm EXCEPT ![t] = MustAnswer(x)]
        BY <3>1 DEF Find
      <4>2. /\ MustAnswer(x) /\ call'[t].pat = x /\ pc'[t] = "find"
            /\ pc[t] = "idle" /\ UNCHANGED <<table, more, cells, owner, at>>
        BY <2>0, <2>3, <3>1, <4>1 DEF Find, Goto, TypeOK, Rule
      <4>3. MustAnswer(x)'
        BY <1>2, <2>0, <4>2, MustStays
      <4> QED BY <2>3, <4>2, <4>3
    <3>2. CASE LookUp(t)
      <4>1. /\ pc[t] = "find" /\ owner = None /\ calm[t] /\ e \in Consts /\ MustAnswer(e)
            /\ UNCHANGED <<table, more, cells, call>>
        BY <2>0, <2>3, <3>2 DEF LookUp, TypeOK, Answerable
      <4>2. CASE table[e] # None
        BY <2>3, <3>2, <4>2 DEF LookUp, Goto, TypeOK
      <4>3. CASE table[e] = None
        <5>1. Ahead(e, more)
          BY <4>1, <4>3, NoneAssumption DEF MustAnswer, Moving, Ahead, Listed
        <5>2. pc'[t] = "list"
          BY <3>2, <4>3 DEF LookUp, Goto, TypeOK
        <5> QED BY <2>3, <4>1, <5>1, <5>2 DEF Ahead
      <4> QED BY <4>2, <4>3
    <3>3. CASE ReadHead(t)
      <4>1. /\ pc[t] = "list" /\ pc'[t] = "scan" /\ calm[t] /\ at'[t].rule = more
            /\ UNCHANGED <<cells, call>>
        BY <2>0, <2>3, <3>3 DEF ReadHead, Goto, TypeOK
      <4> QED BY <2>3, <4>1 DEF Answerable, Ahead
    <3>4. CASE Apply(t)
      <4>1. pc'[t] = "found" /\ at[t].rule \in Cells /\ got'[t] = cells[at[t].rule].body
        BY <3>4, MaxRulesAssumption DEF Apply, Goto, TypeOK, Pointer, Cells
      <4>2. got'[t] \in Bodies
        BY <4>1 DEF TypeOK, Cell
      <4> QED BY <2>3, <4>1, <4>2, NoneAssumption
    <3>5. CASE Skip(t)
      <4> DEFINE r == at[t].rule
      <4>1. /\ pc[t] = "scan" /\ pc'[t] = "scan" /\ calm[t] /\ r \in Cells
            /\ at'[t].rule = cells[r].next /\ UNCHANGED <<cells, call>>
            /\ Matches(e, cells[r].pat) => cells[r].cond
        BY <2>0, <2>3, <3>5, MaxRulesAssumption DEF Skip, TypeOK, Pointer, Cells
      <4>2. PICK c \in From(cells, r) : Matches(e, cells[c].pat) /\ ~cells[c].cond
        BY <2>3, <4>1 DEF Answerable, Ahead
      <4>3. c # r
        BY <4>1, <4>2
      <4>4. c \in From(cells, cells[r].next)
        BY <4>1, <4>2, <4>3, FromNext DEF TypeOK
      <4> QED BY <2>3, <4>1, <4>2, <4>4 DEF Ahead
    <3>6. CASE NoRule(t)
      <4>1. pc[t] = "scan" /\ calm[t] /\ at[t].rule = 0
        BY <2>0, <2>3, <3>6 DEF NoRule
      <4>2. \E c \in From(cells, 0) : TRUE
        BY <4>1 DEF Answerable, Ahead
      <4> QED BY <4>2, FromNull
    <3>7. CASE ~(Find(t) \/ LookUp(t) \/ ReadHead(t) \/ Apply(t) \/ Skip(t) \/ NoRule(t))
      <4>1. pc'[t] \notin {"find", "list", "scan", "found"}
        <5> USE DEF TypeOK, Goto, Return
        <5>1. CASE Define(t) \/ Store(t) \/ LockTable(t) \/ RemoveEntry(t) \/ UnlockTable(t)
          BY <5>1 DEF Define, Store, StoreConst, StoreGeneral, StoreNowhere, LockTable, RemoveEntry, UnlockTable
        <5>2. CASE Start(t) \/ Pass(t) \/ Retry(t)
          BY <5>2 DEF Start, Pass, Retry
        <5>3. CASE Replace(t)
          BY <5>3 DEF Replace, Then
        <5>4. CASE Insert(t)
          BY <5>4 DEF Insert, Then
        <5>5. CASE Answer(t)
          BY <5>5 DEF Answer
        <5>6. CASE Unassign(t) \/ ClearList(t) \/ ClearTable(t)
          BY <5>6 DEF Unassign, ClearList, ClearTable
        <5>7. CASE OutOfMemory(t) \/ ReportSuccess(t)
          BY <5>7 DEF OutOfMemory, ReportSuccess, Then
        <5> QED BY <1>2, <3>7, <5>1, <5>2, <5>3, <5>4, <5>5, <5>6, <5>7 DEF Step
      <4> QED BY <2>3, <4>1
    <3> QED BY <3>1, <3>2, <3>3, <3>4, <3>5, <3>6, <3>7
  <2> QED BY <2>2, <2>3
<1> QED BY <1>1, <1>2 DEF Next

(* In the beginning nobody searches, and nothing is in the list.           *)
LEMMA InitSInv == Init => SInv
<1> SUFFICES ASSUME Init PROVE SInv
  OBVIOUS
<1>1. Unmade /\ Holds /\ OnTheWay /\ Answerable
  BY Blanks DEF Init, Unmade, Holds, OnTheWay, Answerable
<1> QED BY <1>1, InitIInv DEF SInv

----------------------------------------------------------------------------
(* Every step keeps the invariant.                                         *)
LEMMA SInvStep ==
    ASSUME SInv, [Next]_vars
    PROVE  SInv'
BY TypeStep, BoundedStep, OrderStep, PlacedStep, UnmadeStep, HoldsStep, OnTheWayStep,
   AnswerableStep DEF SInv, IInv

(* The inductive invariant holds in every reachable state.                 *)
THEOREM AlwaysSInv == Spec => []SInv
BY InitSInv, SInvStep, PTL DEF Spec

(* Every variable of the rules and of the threads that use them stays in its
   domain. *)
THEOREM AlwaysTypeOK == Spec => []TypeOK
<1>1. SInv => TypeOK
  BY DEF SInv, IInv
<1> QED BY <1>1, AlwaysSInv, PTL

(* Whatever threads define, remove and apply at the same time, the list goes
   from special to general patterns and has at most one rule without a
   condition for a pattern. *)
THEOREM AlwaysInOrder == Spec => []InOrder
<1>1. SInv => InOrder
  BY DEF SInv, IInv
<1> QED BY <1>1, AlwaysSInv, PTL

(* A search that begins when some rule must answer it finds a rule, however many
   threads define rules meanwhile, move them from the table to the list and put
   new ones before and behind the one it looks at, unless rules are removed or
   memory runs out while one is moved. *)
THEOREM AlwaysNeverMissed == Spec => []NeverMissed
<1>1. SInv => NeverMissed
  BY DEF SInv, Answerable, NeverMissed
<1> QED BY <1>1, AlwaysSInv, PTL

(* No thread takes the rule of another out of the list: an entry stays there
   until the list is cleared. *)
THEOREM AlwaysKept == Spec => Kept
<1>1. SInv /\ [Next]_vars => [more' # 0 => Listed \subseteq Listed']_vars
  BY ListedStays DEF SInv, IInv
<1> QED BY <1>1, AlwaysSInv, PTL DEF Spec, Kept

(* A thread that reports that its rule is stored has stored it, however often
   others changed the list while it was on its way, unless there was no memory
   for it or rules were removed. *)
THEOREM AlwaysRecorded == Spec => Recorded
<1> DEFINE Stored ==
      \A t \in Threads :
          pc[t] = "walk" /\ pc'[t] \notin {"walk", "start", "failed"} /\ calm[t]
              => \A r \in Rule : r = call[t] => Has(r)'
<1>1. SInv /\ [Next]_vars => [Stored]_vars
  <2> SUFFICES ASSUME SInv, Next,
                      NEW t \in Threads, pc[t] = "walk", pc'[t] \notin {"walk", "start", "failed"}, calm[t],
                      NEW r \in Rule, r = call[t]
               PROVE  Has(r)'
    OBVIOUS
  <2> USE DEF SInv, IInv
  <2>1. PICK u \in Threads : Step(u)
    BY DEF Next
  <2>2. u = t
    BY <2>1, OthersStay
  <2>3. Replace(t) \/ Insert(t)
    BY <2>1, <2>2, WalkSteps DEF Pass, Retry, OutOfMemory, Goto, TypeOK
  <2>4. Inside(t)
    BY DEF OnTheWay
  <2> QED BY <2>1, <2>2, <2>3, <2>4, RuleListed DEF Has
<1> QED BY <1>1, AlwaysSInv, PTL DEF Spec, Recorded

-----------------------------------------------------------------------------
(***************************************************************************)
(* Dynamic objects: unless uses of a symbol have crossed, a symbol that an *)
(* object displays stays bound to it, and an object that displays an old   *)
(* value is told.                                                          *)
(*                                                                         *)
(* An object that displays the value of a symbol is bound to it, or is     *)
(* told, or a thread is between the read and the binding, or a change has  *)
(* found the binding and is about to take it.  Bound is only good as long  *)
(* as the symbol has an id, which is then the id of a binding (Marked), or *)
(* a block is to put it back.  A change that is past its look at the id    *)
(* must not meet another one when it writes (PastReset).                   *)
(*                                                                         *)
(* That a thread has a symbol when it needs one, that an object is         *)
(* evaluated by one thread, and that the two tables agree holds even when  *)
(* uses have crossed (Base).                                               *)
(***************************************************************************)

\* Where a thread changes a symbol, and where it reads one.
Changes == {"reset", "take", "inform", "write"}
Reads   == {"read", "mark", "bind"}

\* What the place of a thread says of its other variables.
Shape(t) ==
  /\ place[t] = "idle" <=> sym[t] = Nil
  /\ order[t] # "none" <=> place[t] \in Changes
  /\ place[t] \in Reads => job[t] # Nil
  /\ list[t] # <<>> => place[t] = "inform"
  /\ block[t].sym = Nil => block[t] = NoBlock

OneEach == \A t, u \in Users : job[t] = job[u] /\ job[t] # Nil => t = u

\* What removes an id finds it at the symbol.
Agreed(s) == Once(ids[s]) /\ \A i \in ToSet(ids[s]) : s \in symbols[i]

Base ==
  /\ DynamicTypeOK
  /\ \A t \in Users : Shape(t)
  /\ OneEach
  /\ \A s \in Symbols : Agreed(s)

\* Nobody reads a symbol while it is changed.
Separate == \A t, u \in Users : sym[t] = sym[u] /\ order[t] # "none" => place[u] \notin Reads

\* A change that has looked leaves no id to others.
PastReset(t) ==
  place[t] \in {"take", "inform"} \/ (place[t] = "write" /\ order[t] = "tell first") =>
    current[sym[t]] = Nil /\ ~PutAway(t, sym[t])

\* The id in the symbol is bound, or about to be.
Marked(s) ==
  current[s] # Nil =>
    \/ current[s] \in ToSet(ids[s])
    \/ \E t \in Users : sym[t] = s /\ place[t] = "bind" /\ job[t] = current[s]

\* A change of s finds i, or will when a block has put the id back.
Bound(i, s) == i \in ToSet(ids[s]) /\ current[s] # Nil
Later(i, s) == i \in ToSet(ids[s]) /\ \E t \in Users : block[t].sym = s /\ block[t].id # Nil

\* A thread is between the read and the binding, has found the ids and is about
\* to take them, or has written and is about to look.
ReadingBy(i, s) == \E t \in Users : sym[t] = s /\ place[t] \in Reads /\ job[t] = i
Taking(i, s)    == \E t \in Users : sym[t] = s /\ place[t] = "take" /\ i \in ToSet(ids[s])
Resetting(i, s) == \E t \in Users :
  /\ sym[t] = s /\ place[t] = "reset" /\ order[t] = "write first"
  /\ i \in ToSet(ids[s])
  /\ current[s] # Nil \/ PutAway(t, s)

\* What keeps a displayed value watched, and an old one from being forgotten.
Due(i, s)   == Coming(i) \/ ReadingBy(i, s) \/ Taking(i, s)
FreshInv(i, s) == shown[i][s] = "fresh" => Bound(i, s) \/ Due(i, s)
KeptInv(i, s)  == shown[i][s] = "kept" => Bound(i, s) \/ Later(i, s) \/ Due(i, s)
StaleInv(i, s) == shown[i][s] = "stale" => Coming(i) \/ Resetting(i, s) \/ Taking(i, s)

Uncrossed ==
  /\ Separate
  /\ \A t \in Users : PastReset(t)
  /\ \A s \in Symbols : Marked(s)
  /\ \A i \in Ids, s \in Symbols : FreshInv(i, s) /\ KeptInv(i, s) /\ StaleInv(i, s)

DynamicInv == Base /\ (~crossed => Uncrossed)

-----------------------------------------------------------------------------
(* Sequences of ids.                                                       *)

\* What is in a sequence.
LEMMA IdElements ==
  ASSUME NEW q \in Seq(Ids)
  PROVE  \E l \in Nat : /\ l = Len(q) /\ DOMAIN q = 1 .. l
                        /\ \A k \in 1 .. l : q[k] \in Ids /\ q[k] \in ToSet(q)
                        /\ \A j : j \in ToSet(q) <=> \E k \in 1 .. l : q[k] = j
                        /\ Once(q) <=> \A m, n \in 1 .. l : q[m] = q[n] => m = n
BY Elements, Zenon

LEMMA WithoutOne ==
  ASSUME NEW q \in Seq(Ids), NEW i, Once(q)
  PROVE  /\ Without(q, i) \in Seq(Ids)
         /\ Once(Without(q, i))
         /\ ToSet(Without(q, i)) = ToSet(q) \ {i}
<1>1. CASE i \notin ToSet(q)
      BY <1>1 DEF Without
<1>2. CASE i \in ToSet(q)
  <2> DEFINE n == CHOOSE n \in DOMAIN q : q[n] = i
             r == RemoveAt(q, n)
  <2>1. n \in DOMAIN q /\ q[n] = i
        BY <1>2 DEF ToSet
  <2> HIDE DEF n
  <2>2. PICK l \in Nat : /\ l = Len(q) /\ DOMAIN q = 1 .. l /\ n \in 1 .. l
                         /\ \A k \in 1 .. l : q[k] \in Ids /\ q[k] \in ToSet(q)
                         /\ \A j : j \in ToSet(q) <=> \E k \in 1 .. l : q[k] = j
                         /\ \A k, m \in 1 .. l : q[k] = q[m] => k = m
        BY <2>1, IdElements
  <2>3. /\ r \in Seq(Ids) /\ Len(r) = l - 1
        /\ \A k \in 1 .. l - 1 : r[k] = IF k < n THEN q[k] ELSE q[k + 1]
    <3>1. PICK a : a = SubSeq(q, 1, n - 1)
          OBVIOUS
    <3>2. PICK b : b = SubSeq(q, n + 1, l)
          OBVIOUS
    <3>3. a \in Seq(Ids) /\ Len(a) = n - 1 /\ \A k \in 1 .. n - 1 : a[k] = q[k]
          BY <2>2, <3>1
    <3>4. b \in Seq(Ids) /\ Len(b) = l - n /\ \A k \in 1 .. l - n : b[k] = q[n + k]
          BY <2>2, <3>2
    <3>5. r = a \o b
          BY <2>2, <3>1, <3>2 DEF RemoveAt
    <3> HIDE DEF r
    <3>6. r \in Seq(Ids) /\ Len(r) = (n - 1) + (l - n)
      <4>1. r \in Seq(Ids) /\ Len(r) = Len(a) + Len(b)
            BY ONLY <3>3, <3>4, <3>5, ConcatProperties
      <4> QED BY <3>3, <3>4, <4>1
    <3>7. (n - 1) + (l - n) = l - 1
          BY <2>2
    <3>8. ASSUME NEW k \in 1 .. l - 1 PROVE r[k] = IF k < n THEN q[k] ELSE q[k + 1]
      <4>1. CASE k < n
            BY <2>2, <3>3, <3>4, <3>5, <4>1
      <4>2. CASE ~(k < n)
        <5>1. k - (n - 1) \in 1 .. l - n /\ n + (k - (n - 1)) = k + 1 /\ k > n - 1
              BY <2>2, <4>2
        <5>2. r[k] = b[k - (n - 1)]
              BY <2>2, <3>3, <3>4, <3>5, <5>1
        <5> QED BY <3>4, <4>2, <5>1, <5>2
      <4> QED BY <4>1, <4>2
    <3> QED BY <3>6, <3>7, <3>8
  <2> HIDE DEF r
  <2>4. \A k \in 1 .. l - 1 : \E m \in 1 .. l : r[k] = q[m] /\ m # n /\ m = IF k < n THEN k ELSE k + 1
        BY <2>2, <2>3
  <2>5. PICK d \in Nat : /\ d = Len(r)
                         /\ \A j : j \in ToSet(r) <=> \E k \in 1 .. d : r[k] = j
                         /\ Once(r) <=> \A k, m \in 1 .. d : r[k] = r[m] => k = m
        BY <2>3, IdElements
  <2>6. d = l - 1
        BY <2>3, <2>5
  <2>7. Once(r)
    <3>1. ASSUME NEW k \in 1 .. l - 1, NEW m \in 1 .. l - 1, r[k] = r[m] PROVE k = m
      <4>1. PICK x \in 1 .. l : r[k] = q[x] /\ x = IF k < n THEN k ELSE k + 1
            BY <2>4
      <4>2. PICK y \in 1 .. l : r[m] = q[y] /\ y = IF m < n THEN m ELSE m + 1
            BY <2>4
      <4>3. q[x] = q[y]
            BY <3>1, <4>1, <4>2
      <4>4. x = y
            BY <2>2, <4>3
      <4> QED BY <2>2, <4>1, <4>2, <4>4
    <3> QED BY <2>5, <2>6, <3>1
  <2>8. ASSUME NEW j PROVE j \in ToSet(r) <=> j \in ToSet(q) \ {i}
    <3>1. ASSUME NEW k \in 1 .. l - 1 PROVE r[k] \in ToSet(q) \ {i}
      <4>1. PICK m \in 1 .. l : r[k] = q[m] /\ m # n
            BY <2>4
      <4> QED BY <2>1, <2>2, <4>1
    <3>2. ASSUME NEW k \in 1 .. l, q[k] # i PROVE \E m \in 1 .. l - 1 : r[m] = q[k]
      <4>1. CASE k < n
        <5>1. k \in 1 .. l - 1 /\ r[k] = q[k]
              BY <2>2, <2>3, <4>1
        <5> QED BY <5>1
      <4>2. CASE k > n
        <5>1. k - 1 \in 1 .. l - 1 /\ ~(k - 1 < n) /\ (k - 1) + 1 = k
              BY <2>2, <4>2
        <5> QED BY <2>3, <5>1
      <4> QED BY <2>1, <2>2, <3>2, <4>1, <4>2
    <3>3. j \in ToSet(r) => j \in ToSet(q) \ {i}
          BY <2>5, <2>6, <3>1
    <3>4. ASSUME j \in ToSet(q), j # i PROVE j \in ToSet(r)
      <4>1. PICK k \in 1 .. l : q[k] = j
            BY <2>2, <3>4
      <4>2. PICK m \in 1 .. l - 1 : r[m] = q[k]
            BY <3>2, <3>4, <4>1
      <4> QED BY <2>5, <2>6, <4>1, <4>2
    <3> QED BY <3>3, <3>4
  <2>9. ToSet(r) = ToSet(q) \ {i}
        BY <2>8
  <2>10. Without(q, i) = r
        BY <1>2 DEF Without, r, n
  <2> QED BY <2>3, <2>7, <2>9, <2>10
<1> QED BY <1>1, <1>2

LEMMA IdEnds ==
  ASSUME NEW q \in Seq(Ids)
  PROVE  /\ q = <<>> <=> ToSet(q) = {}
         /\ ToSet(q) \subseteq Ids
         /\ q # <<>> => /\ Head(q) \in ToSet(q) /\ Tail(q) \in Seq(Ids)
                        /\ ToSet(Tail(q)) \subseteq ToSet(q)
                        /\ ToSet(q) \subseteq ToSet(Tail(q)) \cup {Head(q)}
BY Ends, Zenon

LEMMA InFront ==
  ASSUME NEW q \in Seq(Ids), NEW i \in Ids, i \notin ToSet(q), Once(q)
  PROVE  /\ <<i>> \o q \in Seq(Ids)
         /\ Once(<<i>> \o q)
         /\ ToSet(<<i>> \o q) = ToSet(q) \cup {i}
<1>1. PICK l \in Nat : /\ l = Len(q)
                       /\ \A k \in 1 .. l : q[k] \in ToSet(q)
                       /\ \A j : j \in ToSet(q) <=> \E k \in 1 .. l : q[k] = j
                       /\ \A m, n \in 1 .. l : q[m] = q[n] => m = n
      BY IdElements
<1>2. PICK r : r = <<i>> \o q
      OBVIOUS
<1>3. r \in Seq(Ids) /\ Len(r) = l + 1 /\ r[1] = i /\ \A k \in 1 .. l : r[k + 1] = q[k]
      BY <1>1, <1>2
<1>4. PICK d \in Nat : /\ d = Len(r)
                       /\ \A j : j \in ToSet(r) <=> \E k \in 1 .. d : r[k] = j
                       /\ Once(r) <=> \A m, n \in 1 .. d : r[m] = r[n] => m = n
      BY <1>3, IdElements
<1>5. d = l + 1
      BY <1>3, <1>4
<1>6. \A k \in 1 .. l + 1 : k = 1 \/ (k - 1 \in 1 .. l /\ r[k] = q[k - 1])
      BY <1>3
<1>7. \A k \in 1 .. l : k + 1 \in 1 .. l + 1
      BY <1>1
<1>8. ASSUME NEW m \in 1 .. l + 1, NEW n \in 1 .. l + 1, r[m] = r[n] PROVE m = n
  <2>1. CASE m = 1 /\ n # 1
        BY <1>1, <1>3, <1>6, <1>8, <2>1
  <2>2. CASE n = 1 /\ m # 1
        BY <1>1, <1>3, <1>6, <1>8, <2>2
  <2>3. CASE n # 1 /\ m # 1
    <3>1. m - 1 \in 1 .. l /\ n - 1 \in 1 .. l /\ q[m - 1] = q[n - 1]
          BY <1>6, <1>8, <2>3
    <3>2. m - 1 = n - 1
          BY <1>1, <3>1
    <3> QED BY <3>1, <3>2
  <2> QED BY <2>1, <2>2, <2>3
<1>9. ASSUME NEW j PROVE j \in ToSet(r) <=> j \in ToSet(q) \cup {i}
  <2>1. 1 \in 1 .. l + 1
        BY <1>1
  <2>2. j \in ToSet(r) => j \in ToSet(q) \cup {i}
        BY <1>1, <1>3, <1>4, <1>5, <1>6
  <2>3. j \in ToSet(q) => j \in ToSet(r)
        BY <1>1, <1>3, <1>4, <1>5, <1>7
  <2>4. i \in ToSet(r)
        BY <1>3, <1>4, <1>5, <2>1
  <2> QED BY <2>2, <2>3, <2>4
<1> QED BY <1>2, <1>3, <1>4, <1>5, <1>8, <1>9

-----------------------------------------------------------------------------
(* Removing all bindings of an id.                                         *)

LEMMA Removed ==
  ASSUME Base, NEW i \in Ids, RemoveId(i)
  PROVE  /\ current' \in [Symbols -> Ids \cup {Nil}]
         /\ ids' \in [Symbols -> Seq(Ids)]
         /\ symbols' \in [Ids -> SUBSET Symbols]
         /\ symbols'[i] = {}
         /\ \A j \in Ids \ {i} : symbols'[j] = symbols[j]
         /\ \A s \in Symbols :
              /\ Once(ids'[s])
              /\ ToSet(ids'[s]) = ToSet(ids[s]) \ {i}
              /\ current'[s] # current[s] =>
                   current[s] = i /\ current'[s] \in ToSet(ids'[s]) \cup {Nil}
              /\ current'[s] = Nil => current[s] = Nil \/ ToSet(ids'[s]) = {}
              /\ current'[s] = i => i \notin ToSet(ids[s])
              /\ current'[s] # current[s] => symbols[i] # {}
<1> DEFINE affected == {s \in Symbols : s \in symbols[i] /\ ids[s] # <<>>}
<1>1. /\ current \in [Symbols -> Ids \cup {Nil}]
      /\ ids \in [Symbols -> Seq(Ids)]
      /\ symbols \in [Ids -> SUBSET Symbols]
      /\ \A s \in Symbols : Once(ids[s]) /\ \A j \in ToSet(ids[s]) : s \in symbols[j]
      BY DEF Base, DynamicTypeOK, Agreed
<1>2. /\ symbols' = [symbols EXCEPT ![i] = {}]
      /\ ids' = [s \in Symbols |-> IF s \in affected THEN Without(ids[s], i) ELSE ids[s]]
      /\ current' = [s \in Symbols |-> IF s \in affected
                                       THEN Lost(s, i, Without(ids[s], i)) ELSE current[s]]
  <2>1. affected = {s \in symbols[i] : ids[s] # <<>>}
        BY <1>1
  <2> HIDE DEF affected
  <2> QED BY <2>1 DEF RemoveId
<1>3. Nil # i
      BY DynamicAssumption
<1>4. ASSUME NEW s \in Symbols, s \in affected
      PROVE  /\ ids'[s] \in Seq(Ids) /\ Once(ids'[s]) /\ ToSet(ids'[s]) = ToSet(ids[s]) \ {i}
             /\ current'[s] \in Ids \cup {Nil}
             /\ current'[s] # current[s] => current[s] = i /\ current'[s] \in ToSet(ids'[s]) \cup {Nil}
             /\ current'[s] = Nil => current[s] = Nil \/ ToSet(ids'[s]) = {}
             /\ current'[s] # i
             /\ symbols[i] # {}
  <2> DEFINE r == Without(ids[s], i)
  <2>1. ids'[s] = r /\ current'[s] = Lost(s, i, r)
        BY <1>2, <1>4
  <2>2. r \in Seq(Ids) /\ Once(r) /\ ToSet(r) = ToSet(ids[s]) \ {i}
        BY <1>1, WithoutOne
  <2> HIDE DEF r
  <2>3. /\ r = <<>> <=> ToSet(r) = {}
        /\ r # <<>> => Head(r) \in ToSet(r)
        /\ ToSet(r) \subseteq Ids
        BY <2>2, IdEnds
  <2>4. current[s] \in Ids \cup {Nil}
        BY <1>1
  <2>5. symbols[i] # {}
        BY <1>4
  <2> QED BY <1>3, <2>1, <2>2, <2>3, <2>4, <2>5, DynamicAssumption DEF Lost
<1>5. ASSUME NEW s \in Symbols, s \notin affected
      PROVE  ids'[s] = ids[s] /\ current'[s] = current[s] /\ i \notin ToSet(ids[s])
  <2>1. ids'[s] = ids[s] /\ current'[s] = current[s]
        BY <1>2, <1>5
  <2>2. ids[s] = <<>> => ToSet(ids[s]) = {}
        BY <1>1, IdEnds
  <2>3. s \notin symbols[i] \/ ids[s] = <<>>
        BY <1>5
  <2> QED BY <1>1, <2>1, <2>2, <2>3
<1> HIDE DEF affected
<1>6. /\ symbols' \in [Ids -> SUBSET Symbols] /\ symbols'[i] = {}
      /\ \A j \in Ids \ {i} : symbols'[j] = symbols[j]
      BY <1>1, <1>2
<1>7. /\ \A s \in Symbols : ids'[s] \in Seq(Ids)
      /\ \A s \in Symbols : current'[s] \in Ids \cup {Nil}
      BY <1>1, <1>4, <1>5
<1>8. /\ ids' \in [Symbols -> Seq(Ids)]
      /\ current' \in [Symbols -> Ids \cup {Nil}]
      BY <1>2, <1>7
<1>9. ASSUME NEW s \in Symbols
      PROVE  /\ Once(ids'[s])
             /\ ToSet(ids'[s]) = ToSet(ids[s]) \ {i}
             /\ current'[s] # current[s] =>
                  current[s] = i /\ current'[s] \in ToSet(ids'[s]) \cup {Nil}
             /\ current'[s] = Nil => current[s] = Nil \/ ToSet(ids'[s]) = {}
             /\ current'[s] = i => i \notin ToSet(ids[s])
             /\ current'[s] # current[s] => symbols[i] # {}
  <2>1. CASE s \in affected
        BY <1>4, <2>1
  <2>2. CASE s \notin affected
        BY <1>1, <1>3, <1>5, <2>2
  <2> QED BY <2>1, <2>2
<1> QED BY <1>6, <1>8, <1>9
-----------------------------------------------------------------------------
(* What a step of a thread changes.                                        *)

Places == {"idle", "reset", "take", "inform", "write", "read", "mark", "bind"}

\* Thread t goes on.
Goes(t, to) ==
  /\ place'[t] = to
  /\ sym'[t] = IF to = "idle" THEN Nil ELSE sym[t]
  /\ order'[t] = IF to = "idle" THEN "none" ELSE order[t]
  /\ \A w \in Users \ {t} : place'[w] = place[w] /\ sym'[w] = sym[w] /\ order'[w] = order[w]
  /\ place' \in [Users -> Places]
  /\ sym' \in [Users -> Symbols \cup {Nil}]
  /\ order' \in [Users -> {"none", "tell first", "write first"}]

LEMMA MoveGoes ==
  ASSUME Base, NEW t \in Users, NEW to \in Places, MoveTo(t, to)
  PROVE  Goes(t, to)
<1>1. /\ place \in [Users -> Places]
      /\ sym \in [Users -> Symbols \cup {Nil}]
      /\ order \in [Users -> {"none", "tell first", "write first"}]
      BY DEF Base, DynamicTypeOK, Places
<1> QED BY <1>1 DEF MoveTo, Goes

\* What the places of a thread say of it.
LEMMA Busy ==
  ASSUME Base, NEW t \in Users
  PROVE  /\ place[t] # "idle" => sym[t] \in Symbols
         /\ place[t] = "idle" => sym[t] = Nil /\ order[t] = "none" /\ list[t] = <<>>
         /\ place[t] \in Places
         /\ order[t] \in {"none", "tell first", "write first"}
         /\ order[t] # "none" <=> place[t] \in Changes
         /\ place[t] \in Reads => job[t] \in Ids
         /\ job[t] \in Ids \cup {Nil} /\ list[t] \in Seq(Ids)
         /\ list[t] # <<>> => place[t] = "inform"
         /\ Nil \notin Symbols /\ Nil \notin Ids
<1>1. /\ Shape(t) /\ sym[t] \in Symbols \cup {Nil} /\ job[t] \in Ids \cup {Nil}
      /\ list[t] \in Seq(Ids) /\ place[t] \in Places
      /\ order[t] \in {"none", "tell first", "write first"}
      BY DEF Base, DynamicTypeOK, Places
<1> QED BY <1>1, DynamicAssumption DEF Shape, Changes

\* A thread that goes on changes or reads as before.
LEMMA GoesShape ==
  ASSUME Base, NEW t \in Users, NEW to, Goes(t, to), job' = job, block' = block,
         place[t] # "idle",
         to = "idle" \/ (to \in Changes /\ place[t] \in Changes)
                     \/ (to \in Reads /\ place[t] \in Reads),
         \A w \in Users : list'[w] # <<>> => place'[w] = "inform"
  PROVE  (\A w \in Users : Shape(w)') /\ OneEach'
<1>1. OneEach'
      BY DEF Base, OneEach
<1>2. ASSUME NEW w \in Users PROVE Shape(w)'
  <2>1. Shape(w) /\ sym[w] \in Symbols \cup {Nil} /\ Nil \notin Symbols
        BY DynamicAssumption DEF Base, DynamicTypeOK
  <2>2. CASE w = t
        BY <2>1, <2>2 DEF Shape, Goes, Changes, Reads
  <2>3. CASE w # t
        BY <2>1, <2>3 DEF Shape, Goes
  <2> QED BY <2>2, <2>3
<1> QED BY <1>1, <1>2

LEMMA GoesSeparate ==
  ASSUME Base, NEW t \in Users, NEW to, Goes(t, to), place[t] # "idle",
         to \in Reads => place[t] \in Reads, Separate
  PROVE  Separate'
<1> SUFFICES ASSUME NEW v \in Users, NEW w \in Users, sym'[v] = sym'[w], order'[v] # "none",
                    place'[w] \in Reads
             PROVE  FALSE
    BY DEF Separate
<1>1. order[v] # "none" /\ sym'[v] = sym[v]
      BY DEF Goes
<1>2. place[w] \in Reads /\ sym'[w] = sym[w]
      BY DEF Goes, Reads
<1> QED BY <1>1, <1>2 DEF Separate

\* The other threads that are past their look at the id still are.
LEMMA GoesPast ==
  ASSUME Base, NEW t \in Users, NEW to, Goes(t, to), block' = block,
         NEW w \in Users \ {t}, PastReset(w),
         place[w] \in {"take", "inform", "write"} /\ current[sym[w]] = Nil => current'[sym[w]] = Nil
  PROVE  PastReset(w)'
<1>1. place'[w] = place[w] /\ sym'[w] = sym[w] /\ order'[w] = order[w]
      BY DEF Goes
<1> QED BY <1>1 DEF PastReset, PutAway

\* What other threads do is not changed.
LEMMA GoesReading ==
  ASSUME NEW t \in Users, NEW to, Goes(t, to), job' = job, to \in Reads \/ place[t] \notin Reads,
         NEW i, NEW s, ReadingBy(i, s)
  PROVE  ReadingBy(i, s)'
<1>1. PICK w \in Users : sym[w] = s /\ place[w] \in Reads /\ job[w] = i
      BY DEF ReadingBy
<1>2. sym'[w] = s /\ place'[w] \in Reads /\ job'[w] = i
      BY <1>1 DEF Goes, Reads
<1> QED BY <1>2 DEF ReadingBy

LEMMA GoesMarked ==
  ASSUME NEW t \in Users, NEW to, Goes(t, to), job' = job, place[t] # "bind",
         NEW s, Marked(s), ids'[s] = ids[s], current'[s] = current[s] \/ current'[s] = Nil
  PROVE  Marked(s)'
<1>1. CASE current'[s] = Nil
      BY <1>1 DEF Marked
<1>2. CASE current'[s] # Nil /\ current[s] \in ToSet(ids[s])
      BY <1>2 DEF Marked
<1>3. CASE current'[s] # Nil /\ current[s] \notin ToSet(ids[s])
  <2>1. PICK w \in Users : sym[w] = s /\ place[w] = "bind" /\ job[w] = current[s]
        BY <1>3 DEF Marked
  <2>2. sym'[w] = s /\ place'[w] = "bind" /\ job'[w] = current'[s]
        BY <1>3, <2>1 DEF Goes
  <2> QED BY <2>2 DEF Marked
<1> QED BY <1>1, <1>2, <1>3

LEMMA GoesTaking ==
  ASSUME NEW t \in Users, NEW to, Goes(t, to), place[t] # "take",
         NEW i, NEW s, Taking(i, s), i \in ToSet(ids'[s])
  PROVE  Taking(i, s)'
<1>1. PICK w \in Users : sym[w] = s /\ place[w] = "take"
      BY DEF Taking
<1>2. sym'[w] = s /\ place'[w] = "take"
      BY <1>1 DEF Goes
<1> QED BY <1>2 DEF Taking

LEMMA GoesResetting ==
  ASSUME NEW t \in Users, NEW to, Goes(t, to), place[t] # "reset", block' = block,
         NEW i, NEW s, Resetting(i, s), i \in ToSet(ids'[s]), current[s] # Nil => current'[s] # Nil
  PROVE  Resetting(i, s)'
<1>1. PICK w \in Users : /\ sym[w] = s /\ place[w] = "reset" /\ order[w] = "write first"
                         /\ current[s] # Nil \/ PutAway(w, s)
      BY DEF Resetting
<1>2. sym'[w] = s /\ place'[w] = "reset" /\ order'[w] = "write first"
      BY <1>1 DEF Goes
<1>3. PutAway(w, s) => PutAway(w, s)'
      BY DEF PutAway
<1>4. current'[s] # Nil \/ PutAway(w, s)'
      BY <1>1, <1>3
<1> QED BY <1>2, <1>4 DEF Resetting

-----------------------------------------------------------------------------
(* The changes of a symbol.                                                *)

\* A change begins: nobody reads the symbol.
LEMMA ChangeKeeps ==
  ASSUME DynamicInv, NEW t \in Users, NEW z \in Symbols, Change(t, z)
  PROVE  DynamicInv'
<1>1. /\ current' = current /\ ids' = ids /\ symbols' = symbols
      /\ UNCHANGED <<job, list, gathered, block, told, shown>>
      /\ place[t] = "idle" /\ place'[t] \in {"reset", "write"} /\ sym'[t] = z
      /\ order'[t] \in {"tell first", "write first"} /\ (place'[t] = "reset" <=> order'[t] = "tell first")
      /\ \A w \in Users \ {t} : place'[w] = place[w] /\ sym'[w] = sym[w] /\ order'[w] = order[w]
      /\ place' \in [Users -> Places]
      /\ sym' \in [Users -> Symbols \cup {Nil}]
      /\ order' \in [Users -> {"none", "tell first", "write first"}]
      /\ crossed' \in BOOLEAN /\ (~crossed' => ~crossed /\ ~InRead(z))
  <2>1. /\ place \in [Users -> Places]
        /\ sym \in [Users -> Symbols \cup {Nil}]
        /\ order \in [Users -> {"none", "tell first", "write first"}]
        /\ crossed \in BOOLEAN
        BY DEF DynamicInv, Base, DynamicTypeOK, Places
  <2>2. PICK o \in {"tell first", "write first"} :
          /\ order' = [order EXCEPT ![t] = o]
          /\ place' = [place EXCEPT ![t] = IF o = "tell first" THEN "reset" ELSE "write"]
        BY DEF Change
  <2>3. /\ place[t] = "idle"
        /\ sym' = [sym EXCEPT ![t] = z]
        /\ UNCHANGED <<tables, job, list, gathered, block, told, shown>>
        BY DEF Change
  <2>4. crossed' = (crossed \/ InRead(z))
        BY DEF Change, Crosses
  <2>5. InRead(z) \in BOOLEAN
        BY DEF InRead
  <2>6. /\ place' \in [Users -> Places]
        /\ sym' \in [Users -> Symbols \cup {Nil}]
        /\ order' \in [Users -> {"none", "tell first", "write first"}]
        BY <2>1, <2>2, <2>3 DEF Places
  <2> QED BY <2>1, <2>2, <2>3, <2>4, <2>5, <2>6 DEF tables
<1>2. DynamicTypeOK'
      BY <1>1 DEF DynamicInv, Base, DynamicTypeOK, Places
<1>3. ASSUME NEW w \in Users PROVE Shape(w)'
  <2>1. Shape(w) /\ Shape(t) /\ z # Nil
        BY DynamicAssumption DEF DynamicInv, Base
  <2> QED BY <1>1, <2>1 DEF Shape, Changes, Reads
<1>4. OneEach' /\ \A s \in Symbols : Agreed(s)'
      BY <1>1 DEF DynamicInv, Base, OneEach, Agreed
<1>5. Base'
      BY <1>2, <1>3, <1>4 DEF Base
<1> SUFFICES ASSUME ~crossed' PROVE Uncrossed'
    BY <1>5 DEF DynamicInv
<1>6. Base /\ Uncrossed /\ ~InRead(z)
      BY <1>1 DEF DynamicInv
<1>7. Separate'
  <2> SUFFICES ASSUME NEW v \in Users, NEW w \in Users, sym'[v] = sym'[w], order'[v] # "none",
                      place'[w] \in Reads
               PROVE  FALSE
      BY DEF Separate
  <2>1. w # t /\ place[w] \in Reads /\ sym'[w] = sym[w]
        BY <1>1 DEF Reads
  <2>2. order[w] = "none"
        BY <1>6, <2>1, Busy DEF Reads, Changes
  <2>3. CASE v = t
        BY <1>1, <1>6, <2>1, <2>2, <2>3 DEF InRead
  <2>4. CASE v # t
        BY <1>1, <1>6, <2>1, <2>4 DEF Separate, Uncrossed
  <2> QED BY <2>3, <2>4
<1>8. ASSUME NEW w \in Users PROVE PastReset(w)'
  <2>1. PastReset(w)
        BY <1>6 DEF Uncrossed
  <2> QED BY <1>1, <2>1 DEF PastReset, PutAway
<1>9. ASSUME NEW s \in Symbols PROVE Marked(s)'
  <2>1. Marked(s)
        BY <1>6 DEF Uncrossed
  <2> QED BY <1>1, <2>1 DEF Marked
<1>10. ASSUME NEW i \in Ids, NEW s \in Symbols PROVE FreshInv(i, s)' /\ KeptInv(i, s)' /\ StaleInv(i, s)'
  <2>1. FreshInv(i, s) /\ KeptInv(i, s) /\ StaleInv(i, s)
        BY <1>6 DEF Uncrossed
  <2>2. Coming(i) => Coming(i)'
        BY <1>1 DEF Coming
  <2>3. ReadingBy(i, s) => ReadingBy(i, s)'
        BY <1>1 DEF ReadingBy, Reads
  <2>4. Taking(i, s) => Taking(i, s)'
        BY <1>1 DEF Taking
  <2>5. Resetting(i, s) => Resetting(i, s)'
        BY <1>1 DEF Resetting, PutAway
  <2>6. (Bound(i, s) => Bound(i, s)') /\ (Later(i, s) => Later(i, s)')
        BY <1>1 DEF Bound, Later
  <2> QED BY <1>1, <2>1, <2>2, <2>3, <2>4, <2>5, <2>6 DEF FreshInv, KeptInv, StaleInv, Due
<1> QED BY <1>7, <1>8, <1>9, <1>10 DEF Uncrossed

\* What a change has found, it is going to take.
LEMMA ResetKeeps ==
  ASSUME DynamicInv, NEW t \in Users, Reset(t)
  PROVE  DynamicInv'
<1>0. PICK z \in Symbols : z = sym[t]
      BY Busy DEF Reset, DynamicInv
<1> DEFINE to == IF current[z] # Nil THEN "take"
                 ELSE IF order[t] = "tell first" THEN "write" ELSE "idle"
<1>1. /\ place[t] = "reset" /\ Goes(t, to)
      /\ ids' = ids /\ symbols' = symbols
      /\ current' \in [Symbols -> Ids \cup {Nil}] /\ current'[z] = Nil
      /\ \A s \in Symbols \ {z} : current'[s] = current[s]
      /\ UNCHANGED <<job, list, gathered, block, told, shown>>
      /\ crossed' \in BOOLEAN /\ (~crossed' => ~crossed /\ ~PutAway(t, z))
  <2>1. current \in [Symbols -> Ids \cup {Nil}] /\ crossed \in BOOLEAN /\ Base
        BY DEF DynamicInv, Base, DynamicTypeOK
  <2>2. /\ place[t] = "reset" /\ current' = [current EXCEPT ![z] = Nil]
        /\ UNCHANGED <<ids, symbols, job, list, gathered, block, told, shown>>
        /\ MoveTo(t, to)
        BY <1>0 DEF Reset
  <2>3. crossed' = (crossed \/ PutAway(t, z))
        BY <1>0 DEF Reset, Crosses
  <2>4. Goes(t, to)
        BY <2>1, <2>2, MoveGoes DEF Places
  <2>5. PutAway(t, z) \in BOOLEAN
        BY DEF PutAway
  <2> HIDE DEF to
  <2>6. current' \in [Symbols -> Ids \cup {Nil}]
        BY <2>1, <2>2
  <2> QED BY <2>1, <2>2, <2>3, <2>4, <2>5, <2>6
<1>2. DynamicTypeOK'
      BY <1>1 DEF DynamicInv, Base, DynamicTypeOK, Goes, Places
<1>3. (\A w \in Users : Shape(w)') /\ OneEach'
  <2>1. \A w \in Users : list'[w] # <<>> => place'[w] = "inform"
        BY <1>1, Busy DEF Goes, DynamicInv
  <2> QED BY <1>1, <2>1, GoesShape DEF DynamicInv, Changes
<1>4. \A s \in Symbols : Agreed(s)'
      BY <1>1 DEF DynamicInv, Base, Agreed
<1>5. Base'
      BY <1>2, <1>3, <1>4 DEF Base
<1> SUFFICES ASSUME ~crossed' PROVE Uncrossed'
    BY <1>5 DEF DynamicInv
<1>6. Base /\ Uncrossed /\ ~PutAway(t, z)
      BY <1>1 DEF DynamicInv
<1>7. Separate'
      BY <1>1, <1>6, GoesSeparate DEF Uncrossed, Reads
<1>8. ASSUME NEW w \in Users PROVE PastReset(w)'
  <2>1. CASE w = t
        BY <1>0, <1>1, <1>6, <2>1 DEF PastReset, PutAway, Goes
  <2>2. CASE w # t
    <3>1. PastReset(w)
          BY <1>6 DEF Uncrossed
    <3>2. place[w] \in {"take", "inform", "write"} /\ current[sym[w]] = Nil => current'[sym[w]] = Nil
          BY <1>1, <1>6, Busy
    <3> QED BY <1>1, <1>6, <2>2, <3>1, <3>2, GoesPast
  <2> QED BY <2>1, <2>2
<1>9. ASSUME NEW s \in Symbols PROVE Marked(s)'
  <2>1. Marked(s)
        BY <1>6 DEF Uncrossed
  <2> QED BY <1>1, <2>1, GoesMarked
<1>10. ASSUME NEW i \in Ids, NEW s \in Symbols PROVE FreshInv(i, s)' /\ KeptInv(i, s)' /\ StaleInv(i, s)'
  <2>1. FreshInv(i, s) /\ KeptInv(i, s) /\ StaleInv(i, s)
        BY <1>6 DEF Uncrossed
  <2>2. Coming(i) => Coming(i)'
        BY <1>1 DEF Coming
  <2>3. ReadingBy(i, s) => ReadingBy(i, s)'
        BY <1>1, GoesReading DEF Reads
  <2>4. Taking(i, s) => Taking(i, s)'
        BY <1>1, GoesTaking DEF Taking
  <2>5. ASSUME s = z, current[z] # Nil, i \in ToSet(ids[z]) PROVE Taking(i, s)'
        BY <1>0, <1>1, <2>5 DEF Taking, Goes
  <2>6. Bound(i, s) => Bound(i, s)' \/ Taking(i, s)'
        BY <1>1, <2>5 DEF Bound
  <2>7. Later(i, s) => Later(i, s)'
        BY <1>1 DEF Later
  <2>8. ASSUME Resetting(i, s) PROVE Resetting(i, s)' \/ Taking(i, s)'
    <3>1. PICK w \in Users : /\ sym[w] = s /\ place[w] = "reset" /\ order[w] = "write first"
                             /\ i \in ToSet(ids[s]) /\ (current[s] # Nil \/ PutAway(w, s))
          BY <2>8 DEF Resetting
    <3>2. CASE s = z /\ current[z] # Nil
          BY <2>5, <3>1, <3>2
    <3>3. CASE s # z \/ current[z] = Nil
      <4>1. w # t
            BY <1>0, <1>6, <3>1, <3>3
      <4>2. sym'[w] = s /\ place'[w] = "reset" /\ order'[w] = "write first"
            BY <1>1, <3>1, <4>1 DEF Goes
      <4>3. current'[s] # Nil \/ PutAway(w, s)'
            BY <1>1, <3>1, <3>3 DEF PutAway
      <4> QED BY <1>1, <3>1, <4>2, <4>3 DEF Resetting
    <3> QED BY <3>2, <3>3
  <2> QED BY <1>1, <2>1, <2>2, <2>3, <2>4, <2>6, <2>7, <2>8 DEF FreshInv, KeptInv, StaleInv, Due
<1> QED BY <1>7, <1>8, <1>9, <1>10 DEF Uncrossed

\* When the bindings of an id are removed, those of other ids stay, and a symbol that has
\* others keeps an id.
LEMMA RemovedKeeps ==
  ASSUME Base, Uncrossed, NEW i \in Ids, RemoveId(i), UNCHANGED <<place, sym, job, order, block>>,
         \A j \in Ids : Coming(j) => Coming(j)',
         symbols[i] # {} => Coming(i)',
         \A j \in Ids, s \in Symbols : shown'[j][s] # "no" => shown'[j][s] = shown[j][s]
  PROVE  Uncrossed'
<1>1. /\ symbols'[i] = {}
      /\ \A s \in Symbols :
           /\ ToSet(ids'[s]) = ToSet(ids[s]) \ {i}
           /\ current'[s] # current[s] =>
                current[s] = i /\ current'[s] \in ToSet(ids'[s]) \cup {Nil}
           /\ current'[s] = Nil => current[s] = Nil \/ ToSet(ids'[s]) = {}
           /\ current'[s] = i => i \notin ToSet(ids[s])
      BY Removed
<1>2. i # Nil /\ Nil \notin Symbols
      BY DynamicAssumption
<1>3. Separate'
      BY DEF Uncrossed, Separate
<1>4. ASSUME NEW w \in Users PROVE PastReset(w)'
  <2>1. PastReset(w) /\ (place[w] # "idle" => sym[w] \in Symbols)
        BY Busy DEF Uncrossed
  <2>2. sym[w] \in Symbols /\ current[sym[w]] = Nil => current'[sym[w]] = Nil
        BY <1>1, <1>2
  <2>3. PutAway(w, sym[w])' => PutAway(w, sym[w])
        BY DEF PutAway
  <2> QED BY <2>1, <2>2, <2>3 DEF PastReset
<1>5. ASSUME NEW s \in Symbols PROVE Marked(s)'
  <2>1. Marked(s)
        BY DEF Uncrossed
  <2>2. CASE current'[s] # current[s]
        BY <1>1, <2>2 DEF Marked
  <2>3. CASE current'[s] = current[s] /\ current[s] = i
        BY <1>1, <2>1, <2>3 DEF Marked
  <2>4. CASE current'[s] = current[s] /\ current[s] # i
        BY <1>1, <2>1, <2>4 DEF Marked
  <2> QED BY <2>2, <2>3, <2>4
<1>6. ASSUME NEW s \in Symbols, i \in ToSet(ids[s]) PROVE Coming(i)'
      BY <1>6 DEF Base, Agreed
<1>7. ASSUME NEW s \in Symbols, NEW j \in Ids, j \in ToSet(ids[s]), j # i
      PROVE  j \in ToSet(ids'[s]) /\ (current[s] # Nil => current'[s] # Nil)
      BY <1>1, <1>7
<1>8. ASSUME NEW j \in Ids, NEW s \in Symbols PROVE FreshInv(j, s)' /\ KeptInv(j, s)' /\ StaleInv(j, s)'
  <2>1. FreshInv(j, s) /\ KeptInv(j, s) /\ StaleInv(j, s)
        BY DEF Uncrossed
  <2>2. Bound(j, s) => Bound(j, s)' \/ Coming(j)'
        BY <1>6, <1>7 DEF Bound
  <2>3. Later(j, s) => Later(j, s)' \/ Coming(j)'
        BY <1>6, <1>7 DEF Later
  <2>4. Taking(j, s) => Taking(j, s)' \/ Coming(j)'
        BY <1>6, <1>7 DEF Taking
  <2>5. ReadingBy(j, s) => ReadingBy(j, s)'
        BY DEF ReadingBy
  <2>6. Resetting(j, s) => Resetting(j, s)' \/ Coming(j)'
        BY <1>6, <1>7 DEF Resetting, PutAway
  <2> QED BY <2>1, <2>2, <2>3, <2>4, <2>5, <2>6 DEF FreshInv, KeptInv, StaleInv, Due
<1> QED BY <1>3, <1>4, <1>5, <1>8 DEF Uncrossed

\* The tables stay what they are.
LEMMA RemovedBase ==
  ASSUME Base, NEW i \in Ids, RemoveId(i), UNCHANGED <<place, sym, job, order, block>>,
         list' \in [Users -> Seq(Ids)], gathered' \in [Users -> SUBSET Ids], told' \in SUBSET Ids,
         shown' \in [Ids -> [Symbols -> {"no", "fresh", "kept", "stale"}]], crossed' = crossed,
         \A w \in Users : list'[w] # <<>> => list[w] # <<>>
  PROVE  Base'
<1>1. /\ current' \in [Symbols -> Ids \cup {Nil}]
      /\ ids' \in [Symbols -> Seq(Ids)]
      /\ symbols' \in [Ids -> SUBSET Symbols]
      /\ \A j \in Ids \ {i} : symbols'[j] = symbols[j]
      /\ \A s \in Symbols : Once(ids'[s]) /\ ToSet(ids'[s]) = ToSet(ids[s]) \ {i}
      BY Removed
<1>2. DynamicTypeOK'
      BY <1>1 DEF Base, DynamicTypeOK
<1>3. \A w \in Users : Shape(w)'
      BY DEF Base, Shape
<1>4. OneEach'
      BY DEF Base, OneEach
<1>5. ASSUME NEW s \in Symbols PROVE Agreed(s)'
  <2>1. Agreed(s) /\ ToSet(ids[s]) \subseteq Ids
        BY IdEnds DEF Base, DynamicTypeOK
  <2>2. \A j \in ToSet(ids'[s]) : s \in symbols'[j]
        BY <1>1, <2>1 DEF Agreed
  <2> QED BY <1>1, <2>2 DEF Agreed
<1> QED BY <1>2, <1>3, <1>4, <1>5 DEF Base

\* An id that is taken out, and still bound, is gathered.
LEMMA InformKeeps ==
  ASSUME DynamicInv, NEW t \in Users, Inform(t)
  PROVE  DynamicInv'
<1>0. PICK i : i = Head(list[t])
      OBVIOUS
<1>1. /\ list \in [Users -> Seq(Ids)] /\ gathered \in [Users -> SUBSET Ids] /\ told \in SUBSET Ids
      /\ shown \in [Ids -> [Symbols -> {"no", "fresh", "kept", "stale"}]]
      /\ Base
      BY DEF DynamicInv, Base, DynamicTypeOK
<1>2. /\ list[t] # <<>> /\ RemoveId(i)
      /\ gathered' = [gathered EXCEPT ![t] = @ \cup {j \in {i} : symbols[i] # {}}]
      /\ list' = [list EXCEPT ![t] = Tail(@)]
      /\ UNCHANGED <<place, sym, job, order, block, told, shown, crossed>>
      BY <1>0 DEF Inform
<1>3. /\ i \in ToSet(list[t]) /\ Tail(list[t]) \in Seq(Ids)
      /\ ToSet(list[t]) \subseteq ToSet(Tail(list[t])) \cup {i}
      /\ ToSet(list[t]) \subseteq Ids
      BY <1>0, <1>1, <1>2, IdEnds
<1>4. i \in Ids
      BY <1>3
<1>5. /\ list'[t] = Tail(list[t])
      /\ \A w \in Users \ {t} : list'[w] = list[w] /\ gathered'[w] = gathered[w]
      /\ gathered[t] \subseteq gathered'[t]
      /\ symbols[i] # {} => i \in gathered'[t]
      /\ list' \in [Users -> Seq(Ids)]
      /\ gathered' \in [Users -> SUBSET Ids]
  <2>1. list' \in [Users -> Seq(Ids)] /\ list'[t] = Tail(list[t])
        BY <1>1, <1>2, <1>3
  <2>2. gathered[t] \cup {j \in {i} : symbols[i] # {}} \in SUBSET Ids
        BY <1>1, <1>4
  <2>3. /\ gathered' \in [Users -> SUBSET Ids]
        /\ gathered'[t] = gathered[t] \cup {j \in {i} : symbols[i] # {}}
        BY <1>1, <1>2, <2>2
  <2> QED BY <1>1, <1>2, <2>1, <2>3
<1>6. \A w \in Users : list'[w] # <<>> => list[w] # <<>>
      BY <1>2, <1>5
<1>7. Base'
      BY <1>1, <1>2, <1>4, <1>5, <1>6, RemovedBase
<1> SUFFICES ASSUME ~crossed' PROVE Uncrossed'
    BY <1>7 DEF DynamicInv
<1>8. Uncrossed
      BY <1>2 DEF DynamicInv
<1>9. \A j \in Ids \ {i} : symbols'[j] = symbols[j]
      BY <1>1, <1>2, <1>4, Removed
<1>10. symbols[i] # {} => Coming(i)'
      BY <1>5 DEF Coming
<1>11. ASSUME NEW j \in Ids, Coming(j) PROVE Coming(j)'
  <2>1. CASE j \in told
        BY <1>2, <2>1 DEF Coming
  <2>2. CASE \E w \in Users : j \in gathered[w]
        BY <1>5, <2>2 DEF Coming
  <2>3. ASSUME NEW w \in Users, j \in ToSet(list[w]), symbols[j] # {} PROVE Coming(j)'
    <3>1. CASE j = i
          BY <1>10, <2>3, <3>1
    <3>2. CASE j # i
      <4>1. j \in ToSet(list'[w])
        <5>1. CASE w = t
              BY <1>3, <1>5, <2>3, <3>2, <5>1
        <5>2. CASE w # t
              BY <1>5, <2>3, <5>2
        <5> QED BY <5>1, <5>2
      <4>2. symbols'[j] # {}
            BY <1>9, <2>3, <3>2
      <4> QED BY <4>1, <4>2 DEF Coming
    <3> QED BY <3>1, <3>2
  <2> QED BY <1>11, <2>1, <2>2, <2>3 DEF Coming
<1> QED BY <1>1, <1>2, <1>4, <1>8, <1>10, <1>11, RemovedKeeps

\* An object that is disposed of displays nothing, and may be shown again.
LEMMA DisposeKeeps ==
  ASSUME DynamicInv, NEW i \in Ids, Dispose(i)
  PROVE  DynamicInv'
<1>1. /\ list \in [Users -> Seq(Ids)] /\ gathered \in [Users -> SUBSET Ids] /\ told \in SUBSET Ids
      /\ shown \in [Ids -> [Symbols -> {"no", "fresh", "kept", "stale"}]]
      /\ Base
      BY DEF DynamicInv, Base, DynamicTypeOK
<1>2. /\ RemoveId(i) /\ told' = told \cup {i}
      /\ shown' = [shown EXCEPT ![i] = [s \in Symbols |-> "no"]]
      /\ UNCHANGED <<place, sym, job, order, list, gathered, block, crossed>>
      BY DEF Dispose
<1>3. /\ shown' \in [Ids -> [Symbols -> {"no", "fresh", "kept", "stale"}]]
      /\ \A j \in Ids, s \in Symbols : shown'[j][s] # "no" => shown'[j][s] = shown[j][s]
  <2>1. [s \in Symbols |-> "no"] \in [Symbols -> {"no", "fresh", "kept", "stale"}]
        OBVIOUS
  <2>2. shown'[i] = [s \in Symbols |-> "no"] /\ \A j \in Ids \ {i} : shown'[j] = shown[j]
        BY <1>1, <1>2
  <2>3. shown' \in [Ids -> [Symbols -> {"no", "fresh", "kept", "stale"}]]
        BY <1>1, <1>2, <2>1
  <2>4. \A s \in Symbols : shown'[i][s] = "no"
        BY <2>2
  <2> QED BY <2>2, <2>3, <2>4
<1>4. Base'
      BY <1>1, <1>2, <1>3, RemovedBase
<1> SUFFICES ASSUME ~crossed' PROVE Uncrossed'
    BY <1>4 DEF DynamicInv
<1>5. Uncrossed
      BY <1>2 DEF DynamicInv
<1>6. \A j \in Ids \ {i} : symbols'[j] = symbols[j]
      BY <1>1, <1>2, Removed
<1>7. \A j \in Ids : Coming(j) => Coming(j)'
      BY <1>2, <1>6 DEF Coming
<1>8. Coming(i)'
      BY <1>2 DEF Coming
<1> QED BY <1>1, <1>2, <1>3, <1>5, <1>7, <1>8, RemovedKeeps

\* The entry of the symbol is taken: its ids are on the list, and still bound.
LEMMA TakeKeeps ==
  ASSUME DynamicInv, NEW t \in Users, Take(t)
  PROVE  DynamicInv'
<1>0. PICK z \in Symbols : z = sym[t]
      BY Busy DEF Take, Go, DynamicInv
<1>1. /\ place[t] = "take" /\ Goes(t, "inform")
      /\ current' = current /\ symbols' = symbols
      /\ ids' \in [Symbols -> Seq(Ids)]
      /\ ids'[z] = <<>> /\ ToSet(ids'[z]) = {}
      /\ \A s \in Symbols \ {z} : ids'[s] = ids[s]
      /\ list' \in [Users -> Seq(Ids)]
      /\ list'[t] = ids[z] /\ list[t] = <<>> /\ ToSet(list[t]) = {}
      /\ \A w \in Users \ {t} : list'[w] = list[w]
      /\ UNCHANGED <<job, gathered, block, told, shown, crossed>>
  <2>1. ids \in [Symbols -> Seq(Ids)] /\ list \in [Users -> Seq(Ids)] /\ Base
        BY DEF DynamicInv, Base, DynamicTypeOK
  <2>2. place[t] = "take" /\ UNCHANGED <<current, symbols, job, gathered, block, told, shown, crossed>>
        BY DEF Take, Go
  <2>3. Goes(t, "inform")
        BY <2>1, MoveGoes DEF Take, Go, Places
  <2>4. ids' = [ids EXCEPT ![z] = <<>>] /\ list' = [list EXCEPT ![t] = ids[z]]
        BY <1>0 DEF Take
  <2>5. <<>> \in Seq(Ids)
        OBVIOUS
  <2>6. ToSet(<<>>) = {}
        BY <2>5, IdEnds
  <2>7. list[t] = <<>>
        BY <2>1, <2>2, Busy
  <2>8. ids' \in [Symbols -> Seq(Ids)] /\ ids'[z] = <<>> /\ \A s \in Symbols \ {z} : ids'[s] = ids[s]
        BY <2>1, <2>4, <2>5
  <2>9. list' \in [Users -> Seq(Ids)] /\ list'[t] = ids[z] /\ \A w \in Users \ {t} : list'[w] = list[w]
        BY <2>1, <2>4
  <2> QED BY <2>2, <2>3, <2>6, <2>7, <2>8, <2>9
<1>2. DynamicTypeOK'
      BY <1>1 DEF DynamicInv, Base, DynamicTypeOK, Goes, Places
<1>3. (\A w \in Users : Shape(w)') /\ OneEach'
  <2>1. ASSUME NEW w \in Users, list'[w] # <<>> PROVE place'[w] = "inform"
    <3>1. CASE w = t
          BY <1>1, <3>1 DEF Goes
    <3>2. CASE w # t
      <4>1. list[w] # <<>> /\ place'[w] = place[w]
            BY <1>1, <2>1, <3>2 DEF Goes
      <4> QED BY <4>1, Busy DEF DynamicInv
    <3> QED BY <3>1, <3>2
  <2> QED BY <1>1, <2>1, GoesShape DEF DynamicInv, Changes
<1>4. ASSUME NEW s \in Symbols PROVE Agreed(s)'
  <2>1. CASE s = z
    <3>1. Once(<<>>)
          BY DEF Once
    <3> QED BY <1>1, <2>1, <3>1 DEF Agreed
  <2>2. CASE s # z
        BY <1>1, <2>2 DEF DynamicInv, Base, Agreed
  <2> QED BY <2>1, <2>2
<1>5. Base'
      BY <1>2, <1>3, <1>4 DEF Base
<1> SUFFICES ASSUME ~crossed' PROVE Uncrossed'
    BY <1>5 DEF DynamicInv
<1>6. Base /\ Uncrossed
      BY <1>1 DEF DynamicInv
<1>7. Separate'
      BY <1>1, <1>6, GoesSeparate DEF Uncrossed, Reads
<1>8. ASSUME NEW w \in Users PROVE PastReset(w)'
  <2>1. PastReset(w)
        BY <1>6 DEF Uncrossed
  <2>2. CASE w = t
        BY <1>1, <2>1, <2>2 DEF PastReset, PutAway, Goes
  <2>3. CASE w # t
        BY <1>1, <1>6, <2>1, <2>3, GoesPast
  <2> QED BY <2>2, <2>3
<1>9. ASSUME NEW s \in Symbols PROVE Marked(s)'
  <2>1. Marked(s) /\ PastReset(t)
        BY <1>6 DEF Uncrossed
  <2>2. CASE s = z
        BY <1>0, <1>1, <2>1, <2>2 DEF Marked, PastReset
  <2>3. CASE s # z
        BY <1>1, <2>1, <2>3 DEF Marked, Goes
  <2> QED BY <2>2, <2>3
<1>10. ASSUME NEW i \in Ids, i \in ToSet(ids[z]) PROVE Coming(i)'
  <2>1. z \in symbols[i]
        BY <1>6, <1>10 DEF Base, Agreed
  <2> QED BY <1>1, <1>10, <2>1 DEF Coming
<1>11. ASSUME NEW i \in Ids, NEW s \in Symbols PROVE FreshInv(i, s)' /\ KeptInv(i, s)' /\ StaleInv(i, s)'
  <2>1. FreshInv(i, s) /\ KeptInv(i, s) /\ StaleInv(i, s)
        BY <1>6 DEF Uncrossed
  <2>2. Coming(i) => Coming(i)'
        BY <1>1 DEF Coming
  <2>3. ReadingBy(i, s) => ReadingBy(i, s)'
        BY <1>1, GoesReading DEF Reads
  <2>4. CASE s = z
    <3>1. i \in ToSet(ids[s]) => Coming(i)'
          BY <1>10, <2>4
    <3>2. Bound(i, s) \/ Later(i, s) \/ Taking(i, s) \/ Resetting(i, s) => Coming(i)'
          BY <3>1 DEF Bound, Later, Taking, Resetting
    <3> QED BY <1>1, <2>1, <2>2, <2>3, <3>2 DEF FreshInv, KeptInv, StaleInv, Due
  <2>5. CASE s # z
    <3>1. ids'[s] = ids[s] /\ current'[s] = current[s]
          BY <1>1, <2>5
    <3>2. (Bound(i, s) => Bound(i, s)') /\ (Later(i, s) => Later(i, s)')
          BY <1>1, <3>1 DEF Bound, Later
    <3>3. Taking(i, s) => Taking(i, s)'
          BY <1>0, <1>1, <2>5, <3>1 DEF Taking, Goes
    <3>4. Resetting(i, s) => Resetting(i, s)'
      <4>1. Resetting(i, s) => i \in ToSet(ids'[s])
            BY <3>1 DEF Resetting
      <4> QED BY <1>1, <3>1, <4>1, GoesResetting
    <3> QED BY <1>1, <2>1, <2>2, <2>3, <3>2, <3>3, <3>4 DEF FreshInv, KeptInv, StaleInv, Due
  <2> QED BY <2>4, <2>5
<1> QED BY <1>7, <1>8, <1>9, <1>11 DEF Uncrossed

\* The ids that were bound are told.
LEMMA TellKeeps ==
  ASSUME DynamicInv, NEW t \in Users, Tell(t)
  PROVE  DynamicInv'
<1> DEFINE to == IF order[t] = "tell first" THEN "write" ELSE "idle"
<1>1. /\ place[t] = "inform" /\ list[t] = <<>> /\ Goes(t, to)
      /\ current' = current /\ ids' = ids /\ symbols' = symbols
      /\ told' = told \cup gathered[t] /\ told' \in SUBSET Ids
      /\ gathered' \in [Users -> SUBSET Ids]
      /\ \A w \in Users \ {t} : gathered'[w] = gathered[w]
      /\ UNCHANGED <<job, list, block, shown, crossed>>
  <2>1. gathered \in [Users -> SUBSET Ids] /\ told \in SUBSET Ids /\ Base
        BY DEF DynamicInv, Base, DynamicTypeOK
  <2>2. Goes(t, to)
        BY <2>1, MoveGoes DEF Tell, Places
  <2>3. /\ place[t] = "inform" /\ list[t] = <<>>
        /\ UNCHANGED <<current, ids, symbols, job, list, block, shown, crossed>>
        /\ told' = told \cup gathered[t]
        /\ gathered' = [gathered EXCEPT ![t] = {}]
        BY DEF Tell, tables
  <2> HIDE DEF to
  <2> QED BY <2>1, <2>2, <2>3
<1>2. DynamicTypeOK'
      BY <1>1 DEF DynamicInv, Base, DynamicTypeOK, Goes, Places
<1>3. (\A w \in Users : Shape(w)') /\ OneEach'
  <2>1. \A w \in Users : list'[w] # <<>> => place'[w] = "inform"
        BY <1>1, Busy DEF Goes, DynamicInv
  <2> QED BY <1>1, <2>1, GoesShape DEF DynamicInv, Changes
<1>4. \A s \in Symbols : Agreed(s)'
      BY <1>1 DEF DynamicInv, Base, Agreed
<1>5. Base'
      BY <1>2, <1>3, <1>4 DEF Base
<1> SUFFICES ASSUME ~crossed' PROVE Uncrossed'
    BY <1>5 DEF DynamicInv
<1>6. Base /\ Uncrossed
      BY <1>1 DEF DynamicInv
<1>7. Separate'
      BY <1>1, <1>6, GoesSeparate DEF Uncrossed, Reads
<1>8. ASSUME NEW w \in Users PROVE PastReset(w)'
  <2>1. PastReset(w)
        BY <1>6 DEF Uncrossed
  <2>2. CASE w = t
        BY <1>1, <2>1, <2>2 DEF PastReset, PutAway, Goes
  <2>3. CASE w # t
        BY <1>1, <1>6, <2>1, <2>3, GoesPast
  <2> QED BY <2>2, <2>3
<1>9. ASSUME NEW s \in Symbols PROVE Marked(s)'
  <2>1. Marked(s)
        BY <1>6 DEF Uncrossed
  <2> QED BY <1>1, <2>1, GoesMarked
<1>10. ASSUME NEW i, Coming(i) PROVE Coming(i)'
  <2>1. CASE \E w \in Users : i \in gathered[w]
        BY <1>1, <2>1 DEF Coming
  <2>2. CASE i \in told \/ \E w \in Users : i \in ToSet(list[w]) /\ symbols[i] # {}
        BY <1>1, <2>2 DEF Coming
  <2> QED BY <1>10, <2>1, <2>2 DEF Coming
<1>11. ASSUME NEW i \in Ids, NEW s \in Symbols PROVE FreshInv(i, s)' /\ KeptInv(i, s)' /\ StaleInv(i, s)'
  <2>1. FreshInv(i, s) /\ KeptInv(i, s) /\ StaleInv(i, s)
        BY <1>6 DEF Uncrossed
  <2>2. ReadingBy(i, s) => ReadingBy(i, s)'
        BY <1>1, GoesReading DEF Reads
  <2>3. Taking(i, s) => Taking(i, s)'
        BY <1>1, GoesTaking DEF Taking
  <2>4. ASSUME Resetting(i, s) PROVE Resetting(i, s)'
    <3>1. i \in ToSet(ids'[s]) /\ (current[s] # Nil => current'[s] # Nil)
          BY <1>1, <2>4 DEF Resetting
    <3>2. Goes(t, to) /\ place[t] # "reset" /\ block' = block
          BY <1>1
    <3> HIDE DEF to
    <3> QED BY <2>4, <3>1, <3>2, GoesResetting, Zenon
  <2>5. (Bound(i, s) => Bound(i, s)') /\ (Later(i, s) => Later(i, s)')
        BY <1>1 DEF Bound, Later
  <2> QED BY <1>1, <1>10, <2>1, <2>2, <2>3, <2>4, <2>5 DEF FreshInv, KeptInv, StaleInv, Due
<1> QED BY <1>7, <1>8, <1>9, <1>11 DEF Uncrossed

\* The symbol is changed: who displays it was told, or will be.
LEMMA WriteKeeps ==
  ASSUME DynamicInv, NEW t \in Users, Write(t)
  PROVE  DynamicInv'
<1>0. PICK z \in Symbols : z = sym[t]
      BY Busy DEF Write, Go, DynamicInv
<1> DEFINE to == IF order[t] = "tell first" THEN "idle" ELSE "reset"
<1>1. /\ place[t] = "write" /\ Goes(t, to)
      /\ current' = current /\ ids' = ids /\ symbols' = symbols
      /\ shown' \in [Ids -> [Symbols -> {"no", "fresh", "kept", "stale"}]]
      /\ \A i \in Ids, s \in Symbols :
           \/ shown'[i][s] = shown[i][s] /\ (s = z => shown[i][s] # "fresh")
           \/ shown'[i][s] = shown[i][s] /\ s # z
           \/ /\ s = z /\ shown'[i][s] = "stale"
              /\ shown[i][s] = "fresh" \/ (shown[i][s] = "kept" /\ block[t].sym # z)
      /\ UNCHANGED <<job, list, gathered, block, told, crossed>>
  <2>1. shown \in [Ids -> [Symbols -> {"no", "fresh", "kept", "stale"}]] /\ Base
        BY DEF DynamicInv, Base, DynamicTypeOK
  <2>2. shown' = [i \in Ids |-> [shown[i] EXCEPT ![z] =
                   IF @ = "fresh" \/ (@ = "kept" /\ block[t].sym # z) THEN "stale" ELSE @]]
        BY <1>0 DEF Write
  <2>3. place[t] = "write" /\ UNCHANGED <<current, ids, symbols, job, list, gathered, block, told, crossed>>
        BY DEF Write, Go, tables
  <2>4. Goes(t, to)
        BY <2>1, MoveGoes DEF Write, Go, Places
  <2> HIDE DEF to
  <2>5. shown' \in [Ids -> [Symbols -> {"no", "fresh", "kept", "stale"}]]
        BY <2>1, <2>2
  <2>6. ASSUME NEW i \in Ids, NEW s \in Symbols, s # z PROVE shown'[i][s] = shown[i][s]
        BY <2>1, <2>2, <2>6
  <2>7. ASSUME NEW i \in Ids
        PROVE  shown'[i][z] = IF shown[i][z] = "fresh" \/ (shown[i][z] = "kept" /\ block[t].sym # z)
                              THEN "stale" ELSE shown[i][z]
        BY <2>1, <2>2
  <2> QED BY <2>3, <2>4, <2>5, <2>6, <2>7
<1>2. DynamicTypeOK'
      BY <1>1 DEF DynamicInv, Base, DynamicTypeOK, Goes, Places
<1>3. (\A w \in Users : Shape(w)') /\ OneEach'
  <2>1. \A w \in Users : list'[w] # <<>> => w # t /\ place[w] = "inform"
        BY <1>1, Busy DEF DynamicInv
  <2>2. ASSUME NEW w \in Users, list'[w] # <<>> PROVE place'[w] = "inform"
    <3>1. w # t /\ place[w] = "inform" /\ Goes(t, to)
          BY <1>1, <2>1, <2>2
    <3> QED BY <3>1, Zenon DEF Goes
  <2> QED BY <1>1, <2>2, GoesShape DEF DynamicInv, Changes
<1>4. \A s \in Symbols : Agreed(s)'
      BY <1>1 DEF DynamicInv, Base, Agreed
<1>5. Base'
      BY <1>2, <1>3, <1>4 DEF Base
<1> SUFFICES ASSUME ~crossed' PROVE Uncrossed'
    BY <1>5 DEF DynamicInv
<1>6. Base /\ Uncrossed
      BY <1>1 DEF DynamicInv
<1>7. Separate'
      BY <1>1, <1>6, GoesSeparate DEF Uncrossed, Reads
<1>8. ASSUME NEW w \in Users PROVE PastReset(w)'
  <2>1. PastReset(w)
        BY <1>6 DEF Uncrossed
  <2>2. CASE w = t
        BY <1>1, <2>2 DEF PastReset, Goes
  <2>3. CASE w # t
        BY <1>1, <1>6, <2>1, <2>3, GoesPast
  <2> QED BY <2>2, <2>3
<1>9. ASSUME NEW s \in Symbols PROVE Marked(s)'
  <2>1. Marked(s)
        BY <1>6 DEF Uncrossed
  <2> QED BY <1>1, <2>1, GoesMarked
<1>10. ASSUME NEW i \in Ids, NEW s \in Symbols PROVE FreshInv(i, s)' /\ KeptInv(i, s)' /\ StaleInv(i, s)'
  <2>1. FreshInv(i, s) /\ KeptInv(i, s) /\ StaleInv(i, s)
        BY <1>6 DEF Uncrossed
  <2>2. Coming(i) => Coming(i)'
        BY <1>1 DEF Coming
  <2>3. ReadingBy(i, s) => ReadingBy(i, s)'
        BY <1>1, GoesReading DEF Reads
  <2>4. Taking(i, s) => Taking(i, s)'
        BY <1>1, GoesTaking DEF Taking
  <2>5. Resetting(i, s) => Resetting(i, s)'
    <3>1. Resetting(i, s) => i \in ToSet(ids'[s])
          BY <1>1 DEF Resetting
    <3> QED BY <1>1, <3>1, GoesResetting
  <2>6. (Bound(i, s) => Bound(i, s)') /\ (Later(i, s) => Later(i, s)')
        BY <1>1 DEF Bound, Later
  <2>7. CASE shown'[i][s] = shown[i][s]
        BY <1>1, <2>1, <2>2, <2>3, <2>4, <2>5, <2>6, <2>7 DEF FreshInv, KeptInv, StaleInv, Due
  <2>8. CASE shown'[i][s] # shown[i][s]
    <3>1. s = z /\ shown'[i][s] = "stale"
          BY <1>1, <2>8
    <3>2. shown[i][z] = "fresh" \/ (shown[i][z] = "kept" /\ block[t].sym # z)
          BY <1>1, <2>8
    <3>3. order[t] # "none" /\ order[t] \in {"none", "tell first", "write first"}
          BY <1>1, <1>6, Busy DEF Changes
    <3>4. ~ReadingBy(i, z)
          BY <1>0, <1>6, <3>3 DEF Uncrossed, Separate, ReadingBy
    <3>5. ASSUME Later(i, z), block[t].sym # z PROVE PutAway(t, z)
          BY <3>5 DEF Later, PutAway
    <3>6. \/ Coming(i) \/ Taking(i, z)
          \/ i \in ToSet(ids[z]) /\ (current[z] # Nil \/ PutAway(t, z))
      <4>1. CASE shown[i][z] = "fresh"
            BY <2>1, <3>1, <3>4, <4>1 DEF FreshInv, Due, Bound
      <4>2. CASE shown[i][z] = "kept" /\ block[t].sym # z
        <5>1. Later(i, z) => i \in ToSet(ids[z])
              BY DEF Later
        <5> QED BY <2>1, <3>1, <3>4, <3>5, <4>2, <5>1 DEF KeptInv, Due, Bound
      <4> QED BY <3>2, <4>1, <4>2
    <3>7. ASSUME i \in ToSet(ids[z]), current[z] # Nil \/ PutAway(t, z) PROVE Resetting(i, z)'
      <4>1. order[t] = "write first"
        <5>1. PastReset(t)
              BY <1>6 DEF Uncrossed
        <5> QED BY <1>0, <1>1, <3>3, <3>7, <5>1 DEF PastReset
      <4>2. place'[t] = "reset" /\ sym'[t] = z /\ order'[t] = "write first"
            BY <1>0, <1>1, <4>1 DEF Goes
      <4>3. PutAway(t, z) => PutAway(t, z)'
            BY <1>1 DEF PutAway
      <4>4. current'[z] # Nil \/ PutAway(t, z)'
            BY <1>1, <3>7, <4>3
      <4> QED BY <1>1, <3>7, <4>2, <4>4 DEF Resetting
    <3>8. Coming(i)' \/ Taking(i, s)' \/ Resetting(i, s)'
          BY <2>2, <2>4, <3>1, <3>6, <3>7
    <3> QED BY <3>1, <3>8 DEF FreshInv, KeptInv, StaleInv
  <2> QED BY <2>7, <2>8
<1> QED BY <1>7, <1>8, <1>9, <1>10 DEF Uncrossed

-----------------------------------------------------------------------------
(* The evaluation of a dynamic object.                                     *)

\* The object displays nothing yet.
LEMMA EvaluateKeeps ==
  ASSUME DynamicInv, NEW t \in Users, NEW i \in Ids, Evaluate(t, i)
  PROVE  DynamicInv'
<1>1. /\ current' = current /\ ids' = ids /\ symbols' = symbols
      /\ place[t] = "idle" /\ job[t] = Nil /\ i \in told /\ \A w \in Users : job[w] # i
      /\ job' \in [Users -> Ids \cup {Nil}] /\ job'[t] = i
      /\ \A w \in Users \ {t} : job'[w] = job[w]
      /\ told' = told \ {i}
      /\ shown' \in [Ids -> [Symbols -> {"no", "fresh", "kept", "stale"}]]
      /\ \A s \in Symbols : shown'[i][s] = "no"
      /\ \A j \in Ids \ {i} : shown'[j] = shown[j]
      /\ UNCHANGED <<place, sym, order, list, gathered, block, crossed>>
  <2>1. job \in [Users -> Ids \cup {Nil}] /\ shown \in [Ids -> [Symbols -> {"no", "fresh", "kept", "stale"}]]
        BY DEF DynamicInv, Base, DynamicTypeOK
  <2>2. [s \in Symbols |-> "no"] \in [Symbols -> {"no", "fresh", "kept", "stale"}]
        OBVIOUS
  <2>3. shown' = [shown EXCEPT ![i] = [s \in Symbols |-> "no"]]
        BY DEF Evaluate
  <2>4. /\ shown' \in [Ids -> [Symbols -> {"no", "fresh", "kept", "stale"}]]
        /\ shown'[i] = [s \in Symbols |-> "no"] /\ \A j \in Ids \ {i} : shown'[j] = shown[j]
        BY <2>1, <2>2, <2>3
  <2> QED BY <2>1, <2>4 DEF Evaluate, tables
<1>2. DynamicTypeOK'
      BY <1>1 DEF DynamicInv, Base, DynamicTypeOK
<1>3. ASSUME NEW w \in Users PROVE Shape(w)'
  <2>1. Shape(w) /\ i # Nil
        BY DynamicAssumption DEF DynamicInv, Base
  <2> QED BY <1>1, <2>1 DEF Shape, Reads
<1>4. OneEach'
      BY <1>1 DEF DynamicInv, Base, OneEach
<1>5. \A s \in Symbols : Agreed(s)'
      BY <1>1 DEF DynamicInv, Base, Agreed
<1>6. Base'
      BY <1>2, <1>3, <1>4, <1>5 DEF Base
<1> SUFFICES ASSUME ~crossed' PROVE Uncrossed'
    BY <1>6 DEF DynamicInv
<1>7. Base /\ Uncrossed
      BY <1>1 DEF DynamicInv
<1>8. Separate' /\ \A w \in Users : PastReset(w)'
      BY <1>1, <1>7 DEF Uncrossed, Separate, PastReset, PutAway
<1>9. ASSUME NEW s \in Symbols PROVE Marked(s)'
  <2>1. Marked(s)
        BY <1>7 DEF Uncrossed
  <2> QED BY <1>1, <2>1 DEF Marked
<1>10. ASSUME NEW j \in Ids, NEW s \in Symbols PROVE FreshInv(j, s)' /\ KeptInv(j, s)' /\ StaleInv(j, s)'
  <2>1. CASE j = i
        BY <1>1, <2>1 DEF FreshInv, KeptInv, StaleInv
  <2>2. CASE j # i
    <3>1. FreshInv(j, s) /\ KeptInv(j, s) /\ StaleInv(j, s)
          BY <1>7 DEF Uncrossed
    <3>2. Coming(j) => Coming(j)'
          BY <1>1, <2>2 DEF Coming
    <3>3. ReadingBy(j, s) => ReadingBy(j, s)'
          BY <1>1 DEF ReadingBy, Reads
    <3>4. Taking(j, s) => Taking(j, s)'
          BY <1>1 DEF Taking
    <3>5. Resetting(j, s) => Resetting(j, s)'
          BY <1>1 DEF Resetting, PutAway
    <3>6. (Bound(j, s) => Bound(j, s)') /\ (Later(j, s) => Later(j, s)')
          BY <1>1 DEF Bound, Later
    <3>7. shown'[j][s] = shown[j][s]
          BY <1>1, <2>2
    <3> QED BY <3>1, <3>2, <3>3, <3>4, <3>5, <3>6, <3>7 DEF FreshInv, KeptInv, StaleInv, Due
  <2> QED BY <2>1, <2>2
<1> QED BY <1>8, <1>9, <1>10 DEF Uncrossed

\* A value is read, while nobody changes the symbol.
LEMMA ReadKeeps ==
  ASSUME DynamicInv, NEW t \in Users, NEW z \in Symbols, Read(t, z)
  PROVE  DynamicInv'
<1>0. PICK i \in Ids : i = job[t]
  <2>1. job[t] \in Ids \cup {Nil} /\ job[t] # Nil
        BY DEF DynamicInv, Base, DynamicTypeOK, Read
  <2> QED BY <2>1
<1>1. /\ current' = current /\ ids' = ids /\ symbols' = symbols
      /\ place[t] = "idle" /\ place'[t] = "read" /\ sym'[t] = z
      /\ \A w \in Users \ {t} : place'[w] = place[w] /\ sym'[w] = sym[w]
      /\ place' \in [Users -> Places]
      /\ sym' \in [Users -> Symbols \cup {Nil}]
      /\ shown' \in [Ids -> [Symbols -> {"no", "fresh", "kept", "stale"}]]
      /\ \A j \in Ids, s \in Symbols :
           shown'[j][s] = shown[j][s] \/ (j = i /\ s = z /\ shown'[j][s] = "fresh")
      /\ UNCHANGED <<job, order, list, gathered, block, told>>
      /\ crossed' \in BOOLEAN /\ (~crossed' => ~crossed /\ ~InChange(z))
  <2>1. /\ place \in [Users -> Places]
        /\ sym \in [Users -> Symbols \cup {Nil}]
        /\ shown \in [Ids -> [Symbols -> {"no", "fresh", "kept", "stale"}]]
        /\ crossed \in BOOLEAN
        BY DEF DynamicInv, Base, DynamicTypeOK, Places
  <2>2. /\ place[t] = "idle"
        /\ place' = [place EXCEPT ![t] = "read"]
        /\ sym' = [sym EXCEPT ![t] = z]
        /\ shown' = [shown EXCEPT ![i][z] = IF @ = "stale" THEN "stale" ELSE "fresh"]
        /\ UNCHANGED <<current, ids, symbols, job, order, list, gathered, block, told>>
        BY <1>0 DEF Read, tables
  <2>3. crossed' = (crossed \/ InChange(z))
        BY DEF Read, Crosses
  <2>4. InChange(z) \in BOOLEAN
        BY DEF InChange
  <2>5. place' \in [Users -> Places] /\ sym' \in [Users -> Symbols \cup {Nil}]
        BY <2>1, <2>2 DEF Places
  <2>6. PICK d \in {"stale", "fresh"} : d = IF shown[i][z] = "stale" THEN "stale" ELSE "fresh"
        OBVIOUS
  <2>7. shown' = [shown EXCEPT ![i] = [shown[i] EXCEPT ![z] = d]]
        BY <2>1, <2>2, <2>6
  <2>8. [shown[i] EXCEPT ![z] = d] \in [Symbols -> {"no", "fresh", "kept", "stale"}]
        BY <2>1
  <2>9. shown' \in [Ids -> [Symbols -> {"no", "fresh", "kept", "stale"}]]
        BY <2>1, <2>7, <2>8
  <2>10. ASSUME NEW j \in Ids, NEW s \in Symbols
         PROVE  shown'[j][s] = shown[j][s] \/ (j = i /\ s = z /\ shown'[j][s] = "fresh")
    <3>1. shown'[j][s] = IF j = i /\ s = z THEN d ELSE shown[j][s]
          BY <2>1, <2>7
    <3> QED BY <2>6, <3>1
  <2> QED BY <2>1, <2>2, <2>3, <2>4, <2>5, <2>9, <2>10
<1>2. DynamicTypeOK'
      BY <1>1 DEF DynamicInv, Base, DynamicTypeOK, Places
<1>3. ASSUME NEW w \in Users PROVE Shape(w)'
  <2>1. Shape(w) /\ Shape(t) /\ z # Nil /\ i # Nil
        BY DynamicAssumption DEF DynamicInv, Base
  <2> QED BY <1>0, <1>1, <2>1 DEF Shape, Changes, Reads
<1>4. OneEach' /\ \A s \in Symbols : Agreed(s)'
      BY <1>1 DEF DynamicInv, Base, OneEach, Agreed
<1>5. Base'
      BY <1>2, <1>3, <1>4 DEF Base
<1> SUFFICES ASSUME ~crossed' PROVE Uncrossed'
    BY <1>5 DEF DynamicInv
<1>6. Base /\ Uncrossed /\ ~InChange(z)
      BY <1>1 DEF DynamicInv
<1>7. Separate'
  <2> SUFFICES ASSUME NEW v \in Users, NEW w \in Users, sym'[v] = sym'[w], order'[v] # "none",
                      place'[w] \in Reads
               PROVE  FALSE
      BY DEF Separate
  <2>1. order[v] # "none" /\ v # t /\ sym'[v] = sym[v]
    <3>1. order[t] = "none"
          BY <1>1, <1>6, Busy
    <3> QED BY <1>1, <3>1
  <2>2. CASE w = t
        BY <1>1, <1>6, <2>1, <2>2 DEF InChange
  <2>3. CASE w # t
    <3>1. place[w] \in Reads /\ sym[v] = sym[w]
          BY <1>1, <2>1, <2>3
    <3> QED BY <1>6, <2>1, <3>1 DEF Separate, Uncrossed
  <2> QED BY <2>2, <2>3
<1>8. ASSUME NEW w \in Users PROVE PastReset(w)'
  <2>1. PastReset(w)
        BY <1>6 DEF Uncrossed
  <2> QED BY <1>1, <2>1 DEF PastReset, PutAway
<1>9. ASSUME NEW s \in Symbols PROVE Marked(s)'
  <2>1. Marked(s)
        BY <1>6 DEF Uncrossed
  <2> QED BY <1>1, <2>1 DEF Marked
<1>10. ASSUME NEW j \in Ids, NEW s \in Symbols PROVE FreshInv(j, s)' /\ KeptInv(j, s)' /\ StaleInv(j, s)'
  <2>1. FreshInv(j, s) /\ KeptInv(j, s) /\ StaleInv(j, s)
        BY <1>6 DEF Uncrossed
  <2>2. Coming(j) => Coming(j)'
        BY <1>1 DEF Coming
  <2>3. ReadingBy(j, s) => ReadingBy(j, s)'
        BY <1>1 DEF ReadingBy, Reads
  <2>4. Taking(j, s) => Taking(j, s)'
        BY <1>1 DEF Taking
  <2>5. Resetting(j, s) => Resetting(j, s)'
        BY <1>1 DEF Resetting, PutAway
  <2>6. (Bound(j, s) => Bound(j, s)') /\ (Later(j, s) => Later(j, s)')
        BY <1>1 DEF Bound, Later
  <2>7. ReadingBy(i, z)'
        BY <1>0, <1>1 DEF ReadingBy, Reads
  <2>8. CASE shown'[j][s] = shown[j][s]
        BY <2>1, <2>2, <2>3, <2>4, <2>5, <2>6, <2>8 DEF FreshInv, KeptInv, StaleInv, Due
  <2>9. CASE j = i /\ s = z /\ shown'[j][s] = "fresh"
        BY <2>7, <2>9 DEF FreshInv, KeptInv, StaleInv, Due
  <2> QED BY <1>1, <2>8, <2>9
<1> QED BY <1>7, <1>8, <1>9, <1>10 DEF Uncrossed

\* An object whose id the symbol has is bound already.
LEMMA LookKeeps ==
  ASSUME DynamicInv, NEW t \in Users, Look(t)
  PROVE  DynamicInv'
<1>0. PICK z \in Symbols : z = sym[t]
      BY Busy DEF Look, Go, DynamicInv
<1> DEFINE to == IF current[z] = job[t] THEN "idle" ELSE "mark"
<1>1. /\ place[t] = "read" /\ Goes(t, to)
      /\ current' = current /\ ids' = ids /\ symbols' = symbols
      /\ UNCHANGED <<job, list, gathered, block, told, shown, crossed>>
  <2>1. Base
        BY DEF DynamicInv
  <2> QED BY <1>0, <2>1, MoveGoes DEF Look, Go, tables, Places
<1>2. DynamicTypeOK'
      BY <1>1 DEF DynamicInv, Base, DynamicTypeOK, Goes, Places
<1>3. (\A w \in Users : Shape(w)') /\ OneEach'
  <2>1. \A w \in Users : list'[w] # <<>> => w # t /\ place[w] = "inform"
        BY <1>1, Busy DEF DynamicInv
  <2>2. \A w \in Users : list'[w] # <<>> => place'[w] = "inform"
        BY <1>1, <2>1 DEF Goes
  <2> QED BY <1>1, <2>2, GoesShape DEF DynamicInv, Reads
<1>4. \A s \in Symbols : Agreed(s)'
      BY <1>1 DEF DynamicInv, Base, Agreed
<1>5. Base'
      BY <1>2, <1>3, <1>4 DEF Base
<1> SUFFICES ASSUME ~crossed' PROVE Uncrossed'
    BY <1>5 DEF DynamicInv
<1>6. Base /\ Uncrossed
      BY <1>1 DEF DynamicInv
<1>7. Separate'
      BY <1>1, <1>6, GoesSeparate DEF Uncrossed, Reads
<1>8. ASSUME NEW w \in Users PROVE PastReset(w)'
  <2>1. PastReset(w)
        BY <1>6 DEF Uncrossed
  <2>2. CASE w = t
        BY <1>1, <2>2 DEF PastReset, Goes
  <2>3. CASE w # t
        BY <1>1, <1>6, <2>1, <2>3, GoesPast
  <2> QED BY <2>2, <2>3
<1>9. ASSUME NEW s \in Symbols PROVE Marked(s)'
  <2>1. Marked(s)
        BY <1>6 DEF Uncrossed
  <2> QED BY <1>1, <2>1, GoesMarked
<1>10. ASSUME NEW i \in Ids, NEW s \in Symbols PROVE FreshInv(i, s)' /\ KeptInv(i, s)' /\ StaleInv(i, s)'
  <2>1. FreshInv(i, s) /\ KeptInv(i, s) /\ StaleInv(i, s)
        BY <1>6 DEF Uncrossed
  <2>2. Coming(i) => Coming(i)'
        BY <1>1 DEF Coming
  <2>3. ReadingBy(i, s) => ReadingBy(i, s)' \/ Bound(i, s)'
    <3>1. CASE current[z] = job[t] /\ s = z /\ i = job[t]
      <4>1. current[z] # Nil /\ job[t] # Nil
            BY <1>1, <1>6, <3>1, Busy DEF Reads
      <4>2. ASSUME NEW w \in Users, place[w] = "bind" PROVE job[w] # current[z]
            BY <1>1, <1>6, <3>1, <4>1, <4>2 DEF Base, OneEach
      <4>3. Marked(z)
            BY <1>6 DEF Uncrossed
      <4>4. i \in ToSet(ids[z])
            BY <3>1, <4>1, <4>2, <4>3 DEF Marked
      <4> QED BY <1>1, <3>1, <4>1, <4>4 DEF Bound
    <3>2. CASE current[z] # job[t]
          BY <1>1, <3>2, GoesReading DEF Reads
    <3>3. CASE s # z \/ i # job[t]
          BY <1>0, <1>1, <3>3 DEF ReadingBy, Reads, Goes
    <3> QED BY <3>1, <3>2, <3>3
  <2>4. Taking(i, s) => Taking(i, s)'
        BY <1>1, GoesTaking DEF Taking
  <2>5. Resetting(i, s) => Resetting(i, s)'
    <3>1. Resetting(i, s) => i \in ToSet(ids'[s])
          BY <1>1 DEF Resetting
    <3> QED BY <1>1, <3>1, GoesResetting
  <2>6. (Bound(i, s) => Bound(i, s)') /\ (Later(i, s) => Later(i, s)')
        BY <1>1 DEF Bound, Later
  <2> QED BY <1>1, <2>1, <2>2, <2>3, <2>4, <2>5, <2>6 DEF FreshInv, KeptInv, StaleInv, Due
<1> QED BY <1>7, <1>8, <1>9, <1>10 DEF Uncrossed

\* The symbol gets the id; nobody changes it.
LEMMA MarkKeeps ==
  ASSUME DynamicInv, NEW t \in Users, Mark(t)
  PROVE  DynamicInv'
<1>0. PICK z \in Symbols : z = sym[t]
      BY Busy DEF Mark, Go, DynamicInv
<1>1. /\ place[t] = "mark" /\ Goes(t, "bind") /\ job[t] # Nil
      /\ ids' = ids /\ symbols' = symbols
      /\ current' \in [Symbols -> Ids \cup {Nil}] /\ current'[z] = job[t]
      /\ \A s \in Symbols \ {z} : current'[s] = current[s]
      /\ UNCHANGED <<job, list, gathered, block, told, shown, crossed>>
  <2>1. current \in [Symbols -> Ids \cup {Nil}] /\ Base
        BY DEF DynamicInv, Base, DynamicTypeOK
  <2>2. /\ place[t] = "mark" /\ current' = [current EXCEPT ![z] = job[t]]
        /\ UNCHANGED <<ids, symbols, job, list, gathered, block, told, shown, crossed>>
        BY <1>0 DEF Mark, Go
  <2>3. Goes(t, "bind")
        BY <2>1, MoveGoes DEF Mark, Go, Places
  <2>4. job[t] \in Ids /\ job[t] # Nil
        BY <2>1, <2>2, Busy DEF Reads
  <2> QED BY <2>1, <2>2, <2>3, <2>4
<1>2. DynamicTypeOK'
      BY <1>1 DEF DynamicInv, Base, DynamicTypeOK, Goes, Places
<1>3. (\A w \in Users : Shape(w)') /\ OneEach'
  <2>1. \A w \in Users : list'[w] # <<>> => w # t /\ place[w] = "inform"
        BY <1>1, Busy DEF DynamicInv
  <2>2. \A w \in Users : list'[w] # <<>> => place'[w] = "inform"
        BY <1>1, <2>1 DEF Goes
  <2> QED BY <1>1, <2>2, GoesShape DEF DynamicInv, Reads
<1>4. \A s \in Symbols : Agreed(s)'
      BY <1>1 DEF DynamicInv, Base, Agreed
<1>5. Base'
      BY <1>2, <1>3, <1>4 DEF Base
<1> SUFFICES ASSUME ~crossed' PROVE Uncrossed'
    BY <1>5 DEF DynamicInv
<1>6. Base /\ Uncrossed
      BY <1>1 DEF DynamicInv
<1>7. Separate'
      BY <1>1, <1>6, GoesSeparate DEF Uncrossed, Reads
<1>8. ASSUME NEW w \in Users PROVE PastReset(w)'
  <2>1. PastReset(w)
        BY <1>6 DEF Uncrossed
  <2>2. CASE w = t
        BY <1>1, <2>2 DEF PastReset, Goes
  <2>3. CASE w # t
    <3>1. ASSUME place[w] \in {"take", "inform", "write"} PROVE sym[w] \in Symbols \ {z}
      <4>1. order[w] # "none" /\ sym[w] \in Symbols
            BY <1>6, <3>1, Busy DEF Changes
      <4> QED BY <1>0, <1>1, <1>6, <4>1 DEF Uncrossed, Separate, Reads
    <3>2. place[w] \in {"take", "inform", "write"} /\ current[sym[w]] = Nil => current'[sym[w]] = Nil
          BY <1>1, <3>1
    <3> QED BY <1>1, <1>6, <2>1, <2>3, <3>2, GoesPast
  <2> QED BY <2>2, <2>3
<1>9. ASSUME NEW s \in Symbols PROVE Marked(s)'
  <2>1. Marked(s)
        BY <1>6 DEF Uncrossed
  <2>2. CASE s = z
        BY <1>0, <1>1, <2>2 DEF Marked, Goes
  <2>3. CASE s # z
        BY <1>1, <2>1, <2>3 DEF Marked, Goes
  <2> QED BY <2>2, <2>3
<1>10. ASSUME NEW i \in Ids, NEW s \in Symbols PROVE FreshInv(i, s)' /\ KeptInv(i, s)' /\ StaleInv(i, s)'
  <2>1. FreshInv(i, s) /\ KeptInv(i, s) /\ StaleInv(i, s)
        BY <1>6 DEF Uncrossed
  <2>2. Coming(i) => Coming(i)'
        BY <1>1 DEF Coming
  <2>3. ReadingBy(i, s) => ReadingBy(i, s)'
        BY <1>1, GoesReading DEF Reads
  <2>4. Taking(i, s) => Taking(i, s)'
        BY <1>1, GoesTaking DEF Taking
  <2>5. current[s] # Nil => current'[s] # Nil
        BY <1>1
  <2>6. Resetting(i, s) => Resetting(i, s)'
    <3>1. Resetting(i, s) => i \in ToSet(ids'[s])
          BY <1>1 DEF Resetting
    <3> QED BY <1>1, <2>5, <3>1, GoesResetting
  <2>7. (Bound(i, s) => Bound(i, s)') /\ (Later(i, s) => Later(i, s)')
        BY <1>1, <2>5 DEF Bound, Later
  <2> QED BY <1>1, <2>1, <2>2, <2>3, <2>4, <2>6, <2>7 DEF FreshInv, KeptInv, StaleInv, Due
<1> QED BY <1>7, <1>8, <1>9, <1>10 DEF Uncrossed

\* The object is bound, and its mark is not gone.
LEMMA BindKeeps ==
  ASSUME DynamicInv, NEW t \in Users, Bind(t)
  PROVE  DynamicInv'
<1>0. PICK z \in Symbols, i \in Ids : z = sym[t] /\ i = job[t]
      BY Busy DEF Bind, Go, DynamicInv, Reads
<1>1. /\ place[t] = "bind" /\ Goes(t, "idle")
      /\ current' = current
      /\ symbols' \in [Ids -> SUBSET Symbols] /\ ids' \in [Symbols -> Seq(Ids)]
      /\ \A j \in Ids : symbols[j] \subseteq symbols'[j]
      /\ z \in symbols'[i]
      /\ \A s \in Symbols \ {z} : ids'[s] = ids[s]
      /\ Once(ids'[z]) /\ ToSet(ids'[z]) = ToSet(ids[z]) \cup {i}
      /\ UNCHANGED <<job, list, gathered, block, told, shown>>
      /\ crossed' \in BOOLEAN /\ (~crossed' => ~crossed /\ current[z] # Nil)
  <2>1. /\ ids \in [Symbols -> Seq(Ids)] /\ symbols \in [Ids -> SUBSET Symbols]
        /\ crossed \in BOOLEAN /\ Once(ids[z]) /\ Base
        BY DEF DynamicInv, Base, DynamicTypeOK, Agreed
  <2>2. /\ place[t] = "bind"
        /\ ids' = [ids EXCEPT ![z] = <<i>> \o Without(@, i)]
        /\ symbols' = [symbols EXCEPT ![i] = @ \cup {z}]
        /\ UNCHANGED <<current, job, list, gathered, block, told, shown>>
        /\ crossed' = (crossed \/ current[z] = Nil)
        BY <1>0 DEF Bind, Go, Crosses
  <2>3. Goes(t, "idle")
        BY <2>1, MoveGoes DEF Bind, Go, Places
  <2>4. PICK r : r = Without(ids[z], i)
        OBVIOUS
  <2>5. r \in Seq(Ids) /\ Once(r) /\ ToSet(r) = ToSet(ids[z]) \ {i}
        BY <2>1, <2>4, WithoutOne
  <2>6. PICK q : q = <<i>> \o r
        OBVIOUS
  <2>7. q \in Seq(Ids) /\ Once(q) /\ ToSet(q) = ToSet(r) \cup {i}
        BY <2>5, <2>6, InFront
  <2>8. ids' \in [Symbols -> Seq(Ids)] /\ ids'[z] = q /\ \A s \in Symbols \ {z} : ids'[s] = ids[s]
        BY <2>1, <2>2, <2>4, <2>6, <2>7
  <2>9. /\ symbols' \in [Ids -> SUBSET Symbols] /\ z \in symbols'[i]
        /\ \A j \in Ids : symbols[j] \subseteq symbols'[j]
        BY <2>1, <2>2
  <2> QED BY <2>1, <2>2, <2>3, <2>5, <2>7, <2>8, <2>9
<1>2. DynamicTypeOK'
      BY <1>1 DEF DynamicInv, Base, DynamicTypeOK, Goes, Places
<1>3. (\A w \in Users : Shape(w)') /\ OneEach'
  <2>1. \A w \in Users : list'[w] # <<>> => w # t /\ place[w] = "inform"
        BY <1>1, Busy DEF DynamicInv
  <2>2. \A w \in Users : list'[w] # <<>> => place'[w] = "inform"
        BY <1>1, <2>1 DEF Goes
  <2> QED BY <1>1, <2>2, GoesShape DEF DynamicInv, Reads
<1>4. ASSUME NEW s \in Symbols PROVE Agreed(s)'
  <2>1. Agreed(s) /\ ToSet(ids[s]) \subseteq Ids
        BY IdEnds DEF DynamicInv, Base, DynamicTypeOK
  <2>2. CASE s = z
        BY <1>1, <2>1, <2>2 DEF Agreed
  <2>3. CASE s # z
        BY <1>1, <2>1, <2>3 DEF Agreed
  <2> QED BY <2>2, <2>3
<1>5. Base'
      BY <1>2, <1>3, <1>4 DEF Base
<1> SUFFICES ASSUME ~crossed' PROVE Uncrossed'
    BY <1>5 DEF DynamicInv
<1>6. Base /\ Uncrossed /\ current[z] # Nil
      BY <1>1 DEF DynamicInv
<1>7. Separate'
      BY <1>1, <1>6, GoesSeparate DEF Uncrossed, Reads
<1>8. ASSUME NEW w \in Users PROVE PastReset(w)'
  <2>1. PastReset(w)
        BY <1>6 DEF Uncrossed
  <2>2. CASE w = t
        BY <1>1, <2>2 DEF PastReset, Goes
  <2>3. CASE w # t
        BY <1>1, <1>6, <2>1, <2>3, GoesPast
  <2> QED BY <2>2, <2>3
<1>9. ASSUME NEW s \in Symbols PROVE Marked(s)'
  <2>1. Marked(s)
        BY <1>6 DEF Uncrossed
  <2>2. CASE current[s] \in ToSet(ids[s])
        BY <1>1, <2>2 DEF Marked
  <2>3. ASSUME NEW w \in Users, sym[w] = s, place[w] = "bind", job[w] = current[s] PROVE Marked(s)'
    <3>1. CASE w = t
          BY <1>0, <1>1, <2>3, <3>1 DEF Marked
    <3>2. CASE w # t
          BY <1>1, <2>3, <3>2 DEF Marked, Goes
    <3> QED BY <3>1, <3>2
  <2>4. CASE current[s] = Nil
        BY <1>1, <2>4 DEF Marked
  <2> QED BY <2>1, <2>2, <2>3, <2>4 DEF Marked
<1>10. ASSUME NEW j \in Ids, NEW s \in Symbols PROVE FreshInv(j, s)' /\ KeptInv(j, s)' /\ StaleInv(j, s)'
  <2>1. FreshInv(j, s) /\ KeptInv(j, s) /\ StaleInv(j, s)
        BY <1>6 DEF Uncrossed
  <2>2. Coming(j) => Coming(j)'
    <3>1. symbols[j] # {} => symbols'[j] # {}
          BY <1>1
    <3> QED BY <1>1, <3>1 DEF Coming
  <2>3. ReadingBy(j, s) => ReadingBy(j, s)' \/ Bound(j, s)'
    <3>1. CASE s = z /\ j = i
          BY <1>1, <1>6, <3>1 DEF Bound
    <3>2. CASE s # z \/ j # i
          BY <1>0, <1>1, <3>2 DEF ReadingBy, Reads, Goes
    <3> QED BY <3>1, <3>2
  <2>4. j \in ToSet(ids[s]) => j \in ToSet(ids'[s])
        BY <1>1
  <2>5. Taking(j, s) => Taking(j, s)'
    <3>1. Taking(j, s) => j \in ToSet(ids'[s])
          BY <2>4 DEF Taking
    <3> QED BY <1>1, <3>1, GoesTaking
  <2>6. Resetting(j, s) => Resetting(j, s)'
    <3>1. Resetting(j, s) => j \in ToSet(ids'[s])
          BY <2>4 DEF Resetting
    <3> QED BY <1>1, <3>1, GoesResetting
  <2>7. (Bound(j, s) => Bound(j, s)') /\ (Later(j, s) => Later(j, s)')
        BY <1>1, <2>4 DEF Bound, Later
  <2> QED BY <1>1, <2>1, <2>2, <2>3, <2>5, <2>6, <2>7 DEF FreshInv, KeptInv, StaleInv, Due
<1> QED BY <1>7, <1>8, <1>9, <1>10 DEF Uncrossed

\* The evaluation ends.
LEMMA ShowKeeps ==
  ASSUME DynamicInv, NEW t \in Users, Show(t)
  PROVE  DynamicInv'
<1>1. /\ current' = current /\ ids' = ids /\ symbols' = symbols
      /\ place[t] = "idle"
      /\ job' \in [Users -> Ids \cup {Nil}] /\ job'[t] = Nil
      /\ \A w \in Users \ {t} : job'[w] = job[w]
      /\ UNCHANGED <<place, sym, order, list, gathered, block, told, shown, crossed>>
  <2>1. job \in [Users -> Ids \cup {Nil}]
        BY DEF DynamicInv, Base, DynamicTypeOK
  <2> QED BY <2>1 DEF Show, tables
<1>2. DynamicTypeOK'
      BY <1>1 DEF DynamicInv, Base, DynamicTypeOK
<1>3. ASSUME NEW w \in Users PROVE Shape(w)'
  <2>1. Shape(w)
        BY DEF DynamicInv, Base
  <2> QED BY <1>1, <2>1 DEF Shape, Reads
<1>4. OneEach' /\ \A s \in Symbols : Agreed(s)'
      BY <1>1 DEF DynamicInv, Base, OneEach, Agreed
<1>5. Base'
      BY <1>2, <1>3, <1>4 DEF Base
<1> SUFFICES ASSUME ~crossed' PROVE Uncrossed'
    BY <1>5 DEF DynamicInv
<1>6. Base /\ Uncrossed
      BY <1>1 DEF DynamicInv
<1>7. Separate' /\ \A w \in Users : PastReset(w)'
      BY <1>1, <1>6 DEF Uncrossed, Separate, PastReset, PutAway
<1>8. ASSUME NEW s \in Symbols PROVE Marked(s)'
  <2>1. Marked(s)
        BY <1>6 DEF Uncrossed
  <2> QED BY <1>1, <2>1 DEF Marked
<1>9. ASSUME NEW i \in Ids, NEW s \in Symbols PROVE FreshInv(i, s)' /\ KeptInv(i, s)' /\ StaleInv(i, s)'
  <2>1. FreshInv(i, s) /\ KeptInv(i, s) /\ StaleInv(i, s)
        BY <1>6 DEF Uncrossed
  <2>2. Coming(i) => Coming(i)'
        BY <1>1 DEF Coming
  <2>3. ReadingBy(i, s) => ReadingBy(i, s)'
        BY <1>1 DEF ReadingBy, Reads
  <2>4. (Taking(i, s) => Taking(i, s)') /\ (Resetting(i, s) => Resetting(i, s)')
        BY <1>1 DEF Taking, Resetting, PutAway
  <2>5. (Bound(i, s) => Bound(i, s)') /\ (Later(i, s) => Later(i, s)')
        BY <1>1 DEF Bound, Later
  <2> QED BY <1>1, <2>1, <2>2, <2>3, <2>4, <2>5 DEF FreshInv, KeptInv, StaleInv, Due
<1> QED BY <1>7, <1>8, <1>9 DEF Uncrossed

-----------------------------------------------------------------------------
(* Blocks.                                                                 *)

\* The id of the symbol is put away: what was bound will be bound again.
LEMMA EnterKeeps ==
  ASSUME DynamicInv, NEW t \in Users, NEW z \in Symbols, Enter(t, z)
  PROVE  DynamicInv'
<1>1. /\ current' \in [Symbols -> Ids \cup {Nil}] /\ current'[z] = Nil
      /\ \A s \in Symbols \ {z} : current'[s] = current[s]
      /\ ids' = ids /\ symbols' = symbols
      /\ place[t] = "idle" /\ block[t].sym = Nil /\ block[t].id = Nil
      /\ block' \in [Users -> [sym : Symbols \cup {Nil}, id : Ids \cup {Nil}, in : Ids \cup {Nil}]]
      /\ block'[t].sym = z /\ block'[t].id = current[z]
      /\ \A w \in Users \ {t} : block'[w] = block[w]
      /\ UNCHANGED <<place, sym, job, order, list, gathered, told, crossed>>
  <2>1. /\ current \in [Symbols -> Ids \cup {Nil}] /\ job \in [Users -> Ids \cup {Nil}]
        /\ block \in [Users -> [sym : Symbols \cup {Nil}, id : Ids \cup {Nil}, in : Ids \cup {Nil}]]
        BY DEF DynamicInv, Base, DynamicTypeOK
  <2>2. PICK b : b = [sym |-> z, id |-> current[z], in |-> job[t]]
        OBVIOUS
  <2>3. /\ b \in [sym : Symbols \cup {Nil}, id : Ids \cup {Nil}, in : Ids \cup {Nil}]
        /\ b.sym = z /\ b.id = current[z]
        BY <2>1, <2>2
  <2>4. /\ place[t] = "idle" /\ block[t] = NoBlock
        /\ block' = [block EXCEPT ![t] = b]
        /\ current' = [current EXCEPT ![z] = Nil]
        /\ UNCHANGED <<ids, symbols, place, sym, job, order, list, gathered, told, crossed>>
        BY <2>2 DEF Enter
  <2>5. current' \in [Symbols -> Ids \cup {Nil}] /\ current'[z] = Nil
        /\ \A s \in Symbols \ {z} : current'[s] = current[s]
        BY <2>1, <2>4
  <2>6. /\ block' \in [Users -> [sym : Symbols \cup {Nil}, id : Ids \cup {Nil}, in : Ids \cup {Nil}]]
        /\ block'[t] = b /\ \A w \in Users \ {t} : block'[w] = block[w]
        BY <2>1, <2>3, <2>4
  <2> QED BY <2>3, <2>4, <2>5, <2>6 DEF NoBlock
<1>2. /\ shown' \in [Ids -> [Symbols -> {"no", "fresh", "kept", "stale"}]]
      /\ \A i \in Ids : shown'[i][z] = IF shown[i][z] = "fresh" THEN "kept" ELSE shown[i][z]
      /\ \A i \in Ids, s \in Symbols \ {z} : shown'[i][s] = shown[i][s]
  <2>1. shown \in [Ids -> [Symbols -> {"no", "fresh", "kept", "stale"}]]
        BY DEF DynamicInv, Base, DynamicTypeOK
  <2>2. shown' = [i \in Ids |-> [shown[i] EXCEPT ![z] = IF @ = "fresh" THEN "kept" ELSE @]]
        BY DEF Enter
  <2>3. shown' \in [Ids -> [Symbols -> {"no", "fresh", "kept", "stale"}]]
        BY <2>1, <2>2
  <2> QED BY <2>1, <2>2, <2>3
<1>3. DynamicTypeOK'
      BY <1>1, <1>2 DEF DynamicInv, Base, DynamicTypeOK
<1>4. ASSUME NEW w \in Users PROVE Shape(w)'
  <2>1. Shape(w) /\ z # Nil
        BY DynamicAssumption DEF DynamicInv, Base
  <2> QED BY <1>1, <2>1 DEF Shape
<1>5. OneEach' /\ \A s \in Symbols : Agreed(s)'
      BY <1>1 DEF DynamicInv, Base, OneEach, Agreed
<1>6. Base'
      BY <1>3, <1>4, <1>5 DEF Base
<1> SUFFICES ASSUME ~crossed' PROVE Uncrossed'
    BY <1>6 DEF DynamicInv
<1>7. Base /\ Uncrossed
      BY <1>1 DEF DynamicInv
<1>8. Separate'
      BY <1>1, <1>7 DEF Uncrossed, Separate
<1>9. ASSUME NEW w \in Users PROVE PastReset(w)'
  <2>1. PastReset(w) /\ (place[w] # "idle" => sym[w] \in Symbols)
        BY <1>7, Busy DEF Uncrossed
  <2> SUFFICES ASSUME place[w] \in {"take", "inform"} \/ (place[w] = "write" /\ order[w] = "tell first")
               PROVE  current'[sym[w]] = Nil /\ ~PutAway(w, sym[w])'
      BY <1>1 DEF PastReset
  <2>2. current[sym[w]] = Nil /\ ~PutAway(w, sym[w]) /\ sym[w] \in Symbols
        BY <2>1 DEF PastReset
  <2>3. current'[sym[w]] = Nil
        BY <1>1, <2>2
  <2>4. ASSUME NEW v \in Users \ {w}, block'[v].sym = sym[w], block'[v].id # Nil PROVE FALSE
    <3>1. CASE v = t
          BY <1>1, <2>2, <2>4, <3>1
    <3>2. CASE v # t
          BY <1>1, <2>2, <2>4, <3>2 DEF PutAway
    <3> QED BY <3>1, <3>2
  <2> QED BY <1>1, <2>3, <2>4 DEF PutAway
<1>10. ASSUME NEW s \in Symbols PROVE Marked(s)'
  <2>1. Marked(s)
        BY <1>7 DEF Uncrossed
  <2> QED BY <1>1, <2>1 DEF Marked
<1>11. ASSUME NEW i \in Ids, NEW s \in Symbols PROVE FreshInv(i, s)' /\ KeptInv(i, s)' /\ StaleInv(i, s)'
  <2>1. FreshInv(i, s) /\ KeptInv(i, s) /\ StaleInv(i, s)
        BY <1>7 DEF Uncrossed
  <2>2. Coming(i) => Coming(i)'
        BY <1>1 DEF Coming
  <2>3. ReadingBy(i, s) => ReadingBy(i, s)'
        BY <1>1 DEF ReadingBy, Reads
  <2>4. Taking(i, s) => Taking(i, s)'
        BY <1>1 DEF Taking
  <2>5. ASSUME Later(i, s) PROVE Later(i, s)'
    <3>1. PICK w \in Users : block[w].sym = s /\ block[w].id # Nil /\ i \in ToSet(ids[s])
          BY <2>5 DEF Later
    <3>2. w # t
          BY <1>1, <3>1
    <3> QED BY <1>1, <3>1, <3>2 DEF Later
  <2>6. Bound(i, s) => IF s = z THEN Later(i, s)' ELSE Bound(i, s)'
        BY <1>1 DEF Bound, Later
  <2>7. ASSUME Resetting(i, s) PROVE Resetting(i, s)'
    <3>1. PICK w \in Users : /\ sym[w] = s /\ place[w] = "reset" /\ order[w] = "write first"
                             /\ i \in ToSet(ids[s]) /\ (current[s] # Nil \/ PutAway(w, s))
          BY <2>7 DEF Resetting
    <3>2. w # t
          BY <1>1, <3>1
    <3>3. CASE current[s] # Nil /\ s = z
      <4>1. PutAway(w, s)'
            BY <1>1, <3>2, <3>3 DEF PutAway
      <4> QED BY <1>1, <3>1, <4>1 DEF Resetting
    <3>4. CASE current[s] # Nil /\ s # z
          BY <1>1, <3>1, <3>4 DEF Resetting
    <3>5. CASE PutAway(w, s)
      <4>1. PICK v \in Users \ {w} : block[v].sym = s /\ block[v].id # Nil
            BY <3>5 DEF PutAway
      <4>2. v # t
            BY <1>1, <4>1
      <4>3. PutAway(w, s)'
            BY <1>1, <4>1, <4>2 DEF PutAway
      <4> QED BY <1>1, <3>1, <4>3 DEF Resetting
    <3> QED BY <3>1, <3>3, <3>4, <3>5
  <2>8. CASE s = z
    <3>1. shown'[i][s] = IF shown[i][s] = "fresh" THEN "kept" ELSE shown[i][s]
          BY <1>2, <2>8
    <3>2. Bound(i, s) => Later(i, s)'
          BY <2>6, <2>8
    <3> QED BY <2>1, <2>2, <2>3, <2>4, <2>5, <2>7, <3>1, <3>2 DEF FreshInv, KeptInv, StaleInv, Due
  <2>9. CASE s # z
    <3>1. shown'[i][s] = shown[i][s]
          BY <1>2, <2>9
    <3>2. Bound(i, s) => Bound(i, s)'
          BY <2>6, <2>9
    <3> QED BY <2>1, <2>2, <2>3, <2>4, <2>5, <2>7, <3>1, <3>2 DEF FreshInv, KeptInv, StaleInv, Due
  <2> QED BY <2>8, <2>9
<1> QED BY <1>8, <1>9, <1>10, <1>11 DEF Uncrossed

\* The id is put back, and is still bound.
LEMMA LeaveKeeps ==
  ASSUME DynamicInv, NEW t \in Users, Leave(t)
  PROVE  DynamicInv'
<1>0. PICK z \in Symbols, old \in Ids \cup {Nil} : z = block[t].sym /\ old = block[t].id
  <2>1. /\ Shape(t) /\ block[t] # NoBlock
        /\ block[t] \in [sym : Symbols \cup {Nil}, id : Ids \cup {Nil}, in : Ids \cup {Nil}]
        BY DEF DynamicInv, Base, DynamicTypeOK, Leave
  <2> QED BY <2>1 DEF Shape
<1> DEFINE other == \E w \in Users \ {t} : block[w].sym = z
<1>1. /\ current' \in [Symbols -> Ids \cup {Nil}]
      /\ current'[z] = IF current[z] = Nil THEN old ELSE current[z]
      /\ \A s \in Symbols \ {z} : current'[s] = current[s]
      /\ ids' = ids /\ symbols' = symbols
      /\ place[t] = "idle"
      /\ block' \in [Users -> [sym : Symbols \cup {Nil}, id : Ids \cup {Nil}, in : Ids \cup {Nil}]]
      /\ block'[t] = NoBlock
      /\ \A w \in Users \ {t} : block'[w] = block[w]
      /\ UNCHANGED <<place, sym, job, order, list, gathered, told>>
      /\ crossed' \in BOOLEAN
      /\ ~crossed' => ~crossed /\ (current[z] = Nil /\ old # Nil => old \in ToSet(ids[z]))
  <2>1. /\ current \in [Symbols -> Ids \cup {Nil}] /\ crossed \in BOOLEAN
        /\ block \in [Users -> [sym : Symbols \cup {Nil}, id : Ids \cup {Nil}, in : Ids \cup {Nil}]]
        BY DEF DynamicInv, Base, DynamicTypeOK
  <2>2. NoBlock \in [sym : Symbols \cup {Nil}, id : Ids \cup {Nil}, in : Ids \cup {Nil}]
        BY DEF NoBlock
  <2>3. /\ place[t] = "idle"
        /\ block' = [block EXCEPT ![t] = NoBlock]
        /\ current' = [current EXCEPT ![z] = IF @ = Nil THEN old ELSE @]
        /\ UNCHANGED <<ids, symbols, place, sym, job, order, list, gathered, told>>
        BY <1>0 DEF Leave
  <2>4. crossed' = (crossed \/ (current[z] = Nil /\ old # Nil /\ old \notin ToSet(ids[z])))
        BY <1>0 DEF Leave, Crosses
  <2>5. /\ current' \in [Symbols -> Ids \cup {Nil}]
        /\ current'[z] = IF current[z] = Nil THEN old ELSE current[z]
        /\ \A s \in Symbols \ {z} : current'[s] = current[s]
        BY <2>1, <2>3
  <2>6. /\ block' \in [Users -> [sym : Symbols \cup {Nil}, id : Ids \cup {Nil}, in : Ids \cup {Nil}]]
        /\ block'[t] = NoBlock /\ \A w \in Users \ {t} : block'[w] = block[w]
        BY <2>1, <2>2, <2>3
  <2> QED BY <2>1, <2>3, <2>4, <2>5, <2>6
<1>2. /\ shown' \in [Ids -> [Symbols -> {"no", "fresh", "kept", "stale"}]]
      /\ \A i \in Ids : shown'[i][z] = IF shown[i][z] = "kept" /\ ~other THEN "fresh" ELSE shown[i][z]
      /\ \A i \in Ids, s \in Symbols \ {z} : shown'[i][s] = shown[i][s]
  <2>1. shown \in [Ids -> [Symbols -> {"no", "fresh", "kept", "stale"}]]
        BY DEF DynamicInv, Base, DynamicTypeOK
  <2>2. shown' = [i \in Ids |-> [shown[i] EXCEPT ![z] = IF @ = "kept" /\ ~other THEN "fresh" ELSE @]]
        BY <1>0 DEF Leave
  <2> HIDE DEF other
  <2>3. shown' \in [Ids -> [Symbols -> {"no", "fresh", "kept", "stale"}]]
        BY <2>1, <2>2
  <2> QED BY <2>1, <2>2, <2>3
<1>3. DynamicTypeOK'
      BY <1>1, <1>2 DEF DynamicInv, Base, DynamicTypeOK
<1>4. ASSUME NEW w \in Users PROVE Shape(w)'
  <2>1. Shape(w)
        BY DEF DynamicInv, Base
  <2> QED BY <1>1, <2>1 DEF Shape
<1>5. OneEach' /\ \A s \in Symbols : Agreed(s)'
      BY <1>1 DEF DynamicInv, Base, OneEach, Agreed
<1>6. Base'
      BY <1>3, <1>4, <1>5 DEF Base
<1> SUFFICES ASSUME ~crossed' PROVE Uncrossed'
    BY <1>6 DEF DynamicInv
<1>7. Base /\ Uncrossed /\ (current[z] = Nil /\ old # Nil => old \in ToSet(ids[z]))
      BY <1>1 DEF DynamicInv
<1>8. Nil \notin Symbols /\ block'[t].sym = Nil
      BY <1>1, DynamicAssumption DEF NoBlock
<1>9. Separate'
      BY <1>1, <1>7 DEF Uncrossed, Separate
<1>10. ASSUME NEW w \in Users PROVE PastReset(w)'
  <2>1. PastReset(w) /\ (place[w] # "idle" => sym[w] \in Symbols)
        BY <1>7, Busy DEF Uncrossed
  <2> SUFFICES ASSUME place[w] \in {"take", "inform"} \/ (place[w] = "write" /\ order[w] = "tell first")
               PROVE  current'[sym[w]] = Nil /\ ~PutAway(w, sym[w])'
      BY <1>1 DEF PastReset
  <2>2. current[sym[w]] = Nil /\ ~PutAway(w, sym[w]) /\ sym[w] \in Symbols /\ w # t
        BY <1>1, <2>1 DEF PastReset
  <2>3. sym[w] = z => old = Nil
        BY <1>0, <2>2 DEF PutAway
  <2>4. current'[sym[w]] = Nil
        BY <1>1, <2>2, <2>3
  <2>5. ASSUME NEW v \in Users \ {w}, block'[v].sym = sym[w], block'[v].id # Nil PROVE FALSE
    <3>1. v # t
          BY <1>8, <2>2, <2>5
    <3> QED BY <1>1, <2>2, <2>5, <3>1 DEF PutAway
  <2> QED BY <1>1, <2>4, <2>5 DEF PutAway
<1>11. ASSUME NEW s \in Symbols PROVE Marked(s)'
  <2>1. Marked(s)
        BY <1>7 DEF Uncrossed
  <2>2. CASE current'[s] = current[s]
        BY <1>1, <2>1, <2>2 DEF Marked
  <2>3. CASE current'[s] # current[s]
        BY <1>1, <1>7, <2>3 DEF Marked
  <2> QED BY <2>2, <2>3
<1>12. ASSUME NEW i \in Ids, NEW s \in Symbols PROVE FreshInv(i, s)' /\ KeptInv(i, s)' /\ StaleInv(i, s)'
  <2>1. FreshInv(i, s) /\ KeptInv(i, s) /\ StaleInv(i, s)
        BY <1>7 DEF Uncrossed
  <2>2. Coming(i) => Coming(i)'
        BY <1>1 DEF Coming
  <2>3. ReadingBy(i, s) => ReadingBy(i, s)'
        BY <1>1 DEF ReadingBy, Reads
  <2>4. Taking(i, s) => Taking(i, s)'
        BY <1>1 DEF Taking
  <2>5. Bound(i, s) => Bound(i, s)'
        BY <1>1 DEF Bound
  <2>6. s = z /\ old # Nil => current'[s] # Nil
        BY <1>1
  <2>7. ASSUME Later(i, s)
        PROVE  \/ Bound(i, s)'
               \/ Later(i, s)' /\ \E w \in Users \ {t} : block[w].sym = s
    <3>1. PICK w \in Users : block[w].sym = s /\ block[w].id # Nil /\ i \in ToSet(ids[s])
          BY <2>7 DEF Later
    <3>2. CASE w = t
          BY <1>0, <1>1, <2>6, <3>1, <3>2 DEF Bound
    <3>3. CASE w # t
          BY <1>1, <3>1, <3>3 DEF Later
    <3> QED BY <3>2, <3>3
  <2>8. ASSUME Resetting(i, s) PROVE Resetting(i, s)'
    <3>1. PICK w \in Users : /\ sym[w] = s /\ place[w] = "reset" /\ order[w] = "write first"
                             /\ i \in ToSet(ids[s]) /\ (current[s] # Nil \/ PutAway(w, s))
          BY <2>8 DEF Resetting
    <3>2. w # t
          BY <1>1, <3>1
    <3>3. CASE current[s] # Nil
          BY <1>1, <3>1, <3>3 DEF Resetting
    <3>4. CASE PutAway(w, s)
      <4>1. PICK v \in Users \ {w} : block[v].sym = s /\ block[v].id # Nil
            BY <3>4 DEF PutAway
      <4>2. v # t => PutAway(w, s)'
            BY <1>1, <4>1 DEF PutAway
      <4>3. v = t => current'[s] # Nil
            BY <1>0, <2>6, <4>1
      <4> QED BY <1>1, <3>1, <4>2, <4>3 DEF Resetting
    <3> QED BY <3>1, <3>3, <3>4
  <2>9. CASE s = z
    <3>1. shown'[i][s] = IF shown[i][s] = "kept" /\ ~other THEN "fresh" ELSE shown[i][s]
          BY <1>2, <2>9
    <3>2. Later(i, s) => Bound(i, s)' \/ (Later(i, s)' /\ other)
          BY <2>7, <2>9
    <3> HIDE DEF other
    <3> QED BY <2>1, <2>2, <2>3, <2>4, <2>5, <2>8, <3>1, <3>2 DEF FreshInv, KeptInv, StaleInv, Due
  <2>10. CASE s # z
    <3>1. shown'[i][s] = shown[i][s]
          BY <1>2, <2>10
    <3> QED BY <2>1, <2>2, <2>3, <2>4, <2>5, <2>7, <2>8, <3>1 DEF FreshInv, KeptInv, StaleInv, Due
  <2> QED BY <2>9, <2>10
<1> QED BY <1>9, <1>10, <1>11, <1>12 DEF Uncrossed

-----------------------------------------------------------------------------
(* What always holds of dynamic objects.                                   *)

LEMMA DynamicStart == DynamicInit => DynamicInv
<1> SUFFICES ASSUME DynamicInit PROVE DynamicInv
    OBVIOUS
<1>1. <<>> \in Seq(Ids) /\ Len(<<>>) = 0
      OBVIOUS
<1>2. ToSet(<<>>) = {} /\ Once(<<>>)
  <2>1. ToSet(<<>>) = {}
        BY <1>1, IdEnds
  <2>2. Once(<<>>)
        BY DEF Once
  <2> QED BY <2>1, <2>2
<1>3. DynamicTypeOK
  <2>1. NoBlock \in [sym : Symbols \cup {Nil}, id : Ids \cup {Nil}, in : Ids \cup {Nil}]
        BY DEF NoBlock
  <2> QED BY <1>1, <2>1 DEF DynamicInit, DynamicTypeOK
<1>4. \A t \in Users : Shape(t)
      BY DEF DynamicInit, Shape, Changes, Reads
<1>5. OneEach /\ \A s \in Symbols : Agreed(s)
      BY <1>2 DEF DynamicInit, OneEach, Agreed
<1>6. Separate /\ \A t \in Users : PastReset(t)
      BY DEF DynamicInit, Separate, PastReset
<1>7. \A s \in Symbols : Marked(s)
      BY DEF DynamicInit, Marked
<1>8. \A i \in Ids, s \in Symbols : FreshInv(i, s) /\ KeptInv(i, s) /\ StaleInv(i, s)
      BY DEF DynamicInit, FreshInv, KeptInv, StaleInv
<1> QED BY <1>3, <1>4, <1>5, <1>6, <1>7, <1>8 DEF DynamicInv, Base, Uncrossed

LEMMA DynamicStep == DynamicInv /\ [DynamicNext]_dynamicVars => DynamicInv'
<1> SUFFICES ASSUME DynamicInv, [DynamicNext]_dynamicVars PROVE DynamicInv'
    OBVIOUS
<1>1. CASE UNCHANGED dynamicVars
  <2>1. /\ UNCHANGED <<current, ids, symbols, place, sym, job, order, list, gathered, block>>
        /\ UNCHANGED <<told, shown, crossed>>
        BY <1>1 DEF dynamicVars, tables
  <2>2. Base'
    <3>1. DynamicTypeOK'
          BY <2>1 DEF DynamicInv, Base, DynamicTypeOK
    <3>2. (\A t \in Users : Shape(t)') /\ OneEach' /\ \A s \in Symbols : Agreed(s)'
          BY <2>1 DEF DynamicInv, Base, Shape, OneEach, Agreed
    <3> QED BY <3>1, <3>2 DEF Base
  <2>3. ASSUME Uncrossed PROVE Uncrossed'
    <3>1. Separate' /\ (\A t \in Users : PastReset(t)') /\ \A s \in Symbols : Marked(s)'
          BY <2>1, <2>3 DEF Uncrossed, Separate, PastReset, PutAway, Marked
    <3>2. ASSUME NEW i \in Ids, NEW s \in Symbols
          PROVE  FreshInv(i, s)' /\ KeptInv(i, s)' /\ StaleInv(i, s)'
      <4>1. FreshInv(i, s) /\ KeptInv(i, s) /\ StaleInv(i, s)
            BY <2>3 DEF Uncrossed
      <4>2. (Coming(i) => Coming(i)') /\ (Bound(i, s) => Bound(i, s)') /\ (Later(i, s) => Later(i, s)')
            BY <2>1 DEF Coming, Bound, Later
      <4>3. (ReadingBy(i, s) => ReadingBy(i, s)') /\ (Taking(i, s) => Taking(i, s)')
            BY <2>1 DEF ReadingBy, Taking
      <4>4. Resetting(i, s) => Resetting(i, s)'
            BY <2>1 DEF Resetting, PutAway
      <4> QED BY <2>1, <4>1, <4>2, <4>3, <4>4 DEF FreshInv, KeptInv, StaleInv, Due
    <3> QED BY <3>1, <3>2 DEF Uncrossed
  <2> QED BY <2>1, <2>2, <2>3 DEF DynamicInv
<1>2. ASSUME NEW t \in Users, Continues(t) PROVE DynamicInv'
      BY <1>2, ResetKeeps, TakeKeeps, InformKeeps, TellKeeps, WriteKeeps, LookKeeps, MarkKeeps,
         BindKeeps DEF Continues
<1>3. ASSUME NEW t \in Users, Calls(t) PROVE DynamicInv'
      BY <1>3, ChangeKeeps, ReadKeeps, EnterKeeps, EvaluateKeeps, ShowKeeps, LeaveKeeps DEF Calls
<1>4. ASSUME NEW i \in Ids, Dispose(i) PROVE DynamicInv'
      BY <1>4, DisposeKeeps
<1> QED BY <1>1, <1>2, <1>3, <1>4 DEF DynamicNext

\* The tables, what the threads do and what the objects display agree, as the code keeps
\* them: what the two properties need, and what holds also when uses have crossed.
THEOREM AlwaysDynamicInv == DynamicSpec => []DynamicInv
BY DynamicStart, DynamicStep, PTL DEF DynamicSpec

\* A symbol that an object displays stays bound to it until the object is told
\* (pmath_symbol_track_dynamic, _pmath_dynamic_update and _pmath_dynamic_remove), whatever
\* any threads evaluate, change, dispose of or block meanwhile, unless uses of a symbol
\* have crossed.
THEOREM AlwaysWatched == DynamicSpec => []WatchedUnlessCrossed
<1>1. DynamicInv => WatchedUnlessCrossed
  <2> SUFFICES ASSUME DynamicInv, ~crossed, NEW i \in Ids, NEW s \in Symbols,
                      shown[i][s] \in {"fresh", "kept"}
               PROVE  \/ Watching(i, s)
                      \/ Coming(i)
                      \/ \E t \in Users : sym[t] = s /\ job[t] = i
                      \/ InChange(s)
      BY DEF WatchedUnlessCrossed
  <2>1. Base /\ FreshInv(i, s) /\ KeptInv(i, s)
        BY DEF DynamicInv, Uncrossed
  <2>2. Bound(i, s) => Watching(i, s)
        BY DEF Bound, Watching
  <2>3. shown[i][s] = "kept" /\ Later(i, s) => Watching(i, s)
        BY DEF Later, Watching
  <2>4. ReadingBy(i, s) => \E t \in Users : sym[t] = s /\ job[t] = i
        BY DEF ReadingBy
  <2>5. Taking(i, s) => InChange(s)
        BY <2>1, Busy DEF Taking, InChange, Changes
  <2>6. Due(i, s) => \/ Coming(i)
                     \/ \E t \in Users : sym[t] = s /\ job[t] = i
                     \/ InChange(s)
        BY <2>4, <2>5 DEF Due
  <2>7. CASE shown[i][s] = "fresh"
        BY <2>1, <2>2, <2>6, <2>7 DEF FreshInv
  <2>8. CASE shown[i][s] = "kept"
        BY <2>1, <2>2, <2>3, <2>6, <2>8 DEF KeptInv
  <2> QED BY <2>7, <2>8
<1> QED BY <1>1, AlwaysDynamicInv, PTL

\* An object that displays an old value is told, or the change that made it old is still
\* going on (_pmath_symbol_value_changed and its callers), unless uses of a symbol have
\* crossed.
THEOREM AlwaysInformed == DynamicSpec => []InformedUnlessCrossed
<1>1. DynamicInv => InformedUnlessCrossed
  <2> SUFFICES ASSUME DynamicInv, ~crossed, NEW i \in Ids, NEW s \in Symbols, shown[i][s] = "stale"
               PROVE  InChange(s) \/ Coming(i)
      BY DEF InformedUnlessCrossed
  <2>1. Base /\ (Coming(i) \/ Resetting(i, s) \/ Taking(i, s))
        BY DEF DynamicInv, Uncrossed, StaleInv
  <2>2. \A t \in Users : order[t] # "none" <=> place[t] \in Changes
        BY <2>1, Busy
  <2> QED BY <2>1, <2>2 DEF Resetting, Taking, InChange, Changes
<1> QED BY <1>1, AlwaysDynamicInv, PTL

-----------------------------------------------------------------------------
(***************************************************************************)
(* The collector of temporary symbols (module TempSymbols): for any number *)
(* of symbols and expressions, which may refer to each other in any way.   *)
(*                                                                         *)
(* The pass begins with the references G, those from outside to O.  While  *)
(* no reference is given up, all that others do is to create objects N and *)
(* to refer to what they hold already: whatever is used from outside is    *)
(* new, or can be reached from O along G.                                  *)
(*                                                                         *)
(* Counting: a count is the number of references that were visited, and    *)
(* every reference of something that was followed is visited or on the     *)
(* list of those to visit, or goes to something that is used from outside. *)
(* A count that equals the reference count thus accounts for all           *)
(* references: there is none from outside, and those from expressions are  *)
(* from expressions that were followed themselves.                         *)
(*                                                                         *)
(* Marking and propagating: some expressions U stay unexplained.  No       *)
(* symbol that is marked as possibly dead was used by one of them or from  *)
(* outside, and every old reference of what was found to be alive goes to  *)
(* something alive, or is still to be visited.  When a step finds nothing  *)
(* new, what was found is closed, and holds all that can be reached.       *)
(*                                                                         *)
(* Clearing: what cannot be reached is used only by what cannot be         *)
(* reached.  Expressions do not consist of each other in circles, so the   *)
(* counts account for all of them, and every symbol that cannot be reached *)
(* is marked.                                                              *)
(***************************************************************************)

\* Tokens: a sequence of pairs whose second components are q.
Tokens(T, q) == Len(T) = Len(q) /\ \A k \in 1 .. Len(q) : T[k][2] = q[k]

LEMMA TokensTail ==
  ASSUME NEW T \in Seq(live \X Objs), NEW q \in Seq(Objs), Tokens(T, q), q # <<>>
  PROVE  T # <<>> /\ Head(T) \in live \X Objs /\ Head(T)[2] = Head(q) /\ Tokens(Tail(T), Tail(q))
<1>1. PICK l : l \in Nat /\ l = Len(q) /\ l = Len(T) /\ \A k \in 1 .. l : T[k][2] = q[k]
      BY DEF Tokens
<1>2. l # 0 /\ 1 \in 1 .. l /\ T # <<>>
  <2>1. l # 0
        BY <1>1, EmptySeq
  <2>2. Len(T) # 0
        BY <1>1, <2>1
  <2>3. T # <<>>
        BY <2>2
  <2> QED BY <1>1, <2>1, <2>3
<1>3. Head(T) = T[1] /\ Head(q) = q[1] /\ T[1] \in live \X Objs
      BY <1>1, <1>2
<1>4. PICK r, U : r = Tail(q) /\ U = Tail(T)
      OBVIOUS
<1>5. Len(r) = l - 1 /\ \A k \in 1 .. l - 1 : r[k] = q[k + 1]
  <2>1. Len(Tail(q)) = Len(q) - 1 /\ \A k \in 1 .. Len(q) - 1 : Tail(q)[k] = q[k + 1]
        BY HeadTailProperties
  <2> QED BY <1>1, <1>4, <2>1
<1>6. Len(U) = l - 1 /\ \A k \in 1 .. l - 1 : U[k] = T[k + 1]
  <2>1. T # <<>> /\ l = Len(T)
        BY <1>1, <1>2
  <2>2. Len(Tail(T)) = Len(T) - 1 /\ \A k \in 1 .. Len(T) - 1 : Tail(T)[k] = T[k + 1]
        BY <2>1, HeadTailProperties
  <2> QED BY <1>4, <2>1, <2>2
<1>7. \A k \in 1 .. l - 1 : k + 1 \in 1 .. l
      BY <1>1
<1>8. Tokens(U, r)
  <2>1. \A k \in 1 .. l - 1 : U[k][2] = r[k]
        BY <1>1, <1>5, <1>6, <1>7
  <2> QED BY <1>5, <1>6, <2>1 DEF Tokens
<1> QED BY <1>1, <1>2, <1>3, <1>4, <1>8

LEMMA TokensJoined ==
  ASSUME NEW T \in Seq(live \X Objs), NEW q \in Seq(Objs), Tokens(T, q),
         NEW U \in Seq(live \X Objs), NEW r \in Seq(Objs), Tokens(U, r)
  PROVE  Tokens(T \o U, q \o r)
<1>0. PICK l : l \in Nat /\ l = Len(q) /\ l = Len(T) /\ \A k \in 1 .. l : T[k][2] = q[k]
  <2>1. Len(q) \in Nat /\ Len(T) = Len(q) /\ \A k \in 1 .. Len(q) : T[k][2] = q[k]
        BY DEF Tokens
  <2> QED BY <2>1
<1>1. PICK d : d \in Nat /\ d = Len(r) /\ d = Len(U) /\ \A k \in 1 .. d : U[k][2] = r[k]
  <2>1. Len(r) \in Nat /\ Len(U) = Len(r) /\ \A k \in 1 .. Len(r) : U[k][2] = r[k]
        BY DEF Tokens
  <2> QED BY <2>1
<1>2. PICK c, C : c = q \o r /\ C = T \o U
      OBVIOUS
<1>3. Len(c) = l + d /\ \A k \in 1 .. l + d : c[k] = IF k <= l THEN q[k] ELSE r[k - l]
  <2>1. Len(q \o r) = Len(q) + Len(r) /\ \A k \in 1 .. Len(q) + Len(r) : (q \o r)[k] = IF k <= Len(q) THEN q[k] ELSE r[k - Len(q)]
        BY ONLY q \in Seq(Objs), r \in Seq(Objs), ConcatProperties
  <2> QED BY <1>0, <1>1, <1>2, <2>1
<1>4. Len(C) = l + d /\ \A k \in 1 .. l + d : C[k] = IF k <= l THEN T[k] ELSE U[k - l]
  <2>1. Len(T \o U) = Len(T) + Len(U) /\ \A k \in 1 .. Len(T) + Len(U) : (T \o U)[k] = IF k <= Len(T) THEN T[k] ELSE U[k - Len(T)]
        BY ONLY T \in Seq(live \X Objs), U \in Seq(live \X Objs), ConcatProperties
  <2> QED BY <1>0, <1>1, <1>2, <2>1
<1>5. ASSUME NEW k \in 1 .. l + d PROVE C[k][2] = c[k]
  <2>1. CASE k <= l
    <3>1. k \in 1 .. l
          BY <1>0, <1>1, <2>1
    <3> QED BY <1>0, <1>1, <1>3, <1>4, <2>1, <3>1
  <2>2. CASE ~(k <= l)
    <3>1. k - l \in 1 .. d
          BY <1>0, <1>1, <2>2
    <3> QED BY <1>0, <1>1, <1>3, <1>4, <2>2, <3>1
  <2> QED BY <2>1, <2>2
<1>6. Tokens(C, c)
      BY <1>3, <1>4, <1>5 DEF Tokens
<1> QED BY <1>2, <1>6

\* The tokens of one owner.
LEMMA TokensOf ==
  ASSUME NEW q \in Seq(Objs), Once(q), NEW w \in live
  PROVE  \E T \in Seq(live \X Objs) :
            /\ Tokens(T, q) /\ Once(T)
            /\ \A x : x \in ToSet(T) <=> \E o \in ToSet(q) : x = <<w, o>>
<1>1. PICK l \in Nat : /\ l = Len(q)
                       /\ \A k \in 1 .. l : q[k] \in Objs /\ q[k] \in ToSet(q)
                       /\ \A j : j \in ToSet(q) <=> \E k \in 1 .. l : q[k] = j
                       /\ \A m, n \in 1 .. l : q[m] = q[n] => m = n
      BY Elements
<1>2. PICK T : T = [k \in 1 .. l |-> <<w, q[k]>>]
      OBVIOUS
<1>3. T \in Seq(live \X Objs) /\ Len(T) = l /\ \A k \in 1 .. l : T[k] = <<w, q[k]>>
      BY <1>1, <1>2
<1>4. Tokens(T, q)
      BY <1>1, <1>3 DEF Tokens
<1>5. Once(T)
      BY <1>1, <1>3 DEF Once
<1>6. ASSUME NEW x PROVE x \in ToSet(T) <=> \E o \in ToSet(q) : x = <<w, o>>
  <2>1. PICK d \in Nat : d = Len(T) /\ \A j : j \in ToSet(T) <=> \E k \in 1 .. d : T[k] = j
        BY <1>3, Elements
  <2>2. x \in ToSet(T) <=> \E k \in 1 .. l : x = <<w, q[k]>>
        BY <1>3, <2>1
  <2> QED BY <1>1, <2>2
<1> QED BY <1>3, <1>4, <1>5, <1>6

LEMMA FiniteRange ==
  ASSUME NEW S, NEW q \in Seq(S)
  PROVE  IsFiniteSet(ToSet(q))
<1>1. PICK l \in Nat : /\ DOMAIN q = 1 .. l
                       /\ \A k \in 1 .. l : q[k] \in ToSet(q)
                       /\ \A j : j \in ToSet(q) <=> \E k \in 1 .. l : q[k] = j
      BY Elements
<1>2. PICK f : f = [k \in 1 .. l |-> q[k]]
      OBVIOUS
<1>3. f \in Surjection(1 .. l, ToSet(q))
      BY <1>1, <1>2 DEF Surjection
<1>4. ExistsSurjection(1 .. l, ToSet(q))
      BY <1>3 DEF ExistsSurjection
<1> QED BY <1>4, FS_NatSurjection

-----------------------------------------------------------------------------
(* The invariant of the collector.                                         *)

\* What was so when the pass began, G and O, and the objects N that are new.
Since(O, G, N) ==
  /\ O \subseteq outside /\ N \subseteq outside
  /\ G \subseteq live \X Objs
  /\ \A x \in G : RefersTo(x[1], x[2]) /\ x[1] \notin N
  /\ \A p \in live, o \in Objs : RefersTo(p, o) => <<p, o>> \in G \/ o \in outside
  /\ \A R \in SUBSET Objs :
       O \subseteq R /\ (\A x \in G : x[1] \in R => x[2] \in R) => outside \subseteq R \cup N

\* Each count is the number of references V that were visited; those that are
\* still to be visited, T, are others, and together they are the references of
\* what was followed, F: the symbols that the phase has come to, and the expressions
\* all references to which were counted.
Counting(V, T, F, O, G) ==
  /\ V \subseteq live \X Objs
  /\ T \in Seq(live \X Objs) /\ Once(T) /\ Tokens(T, todo)
  /\ \A x \in V : x \notin ToSet(T)
  /\ \A x \in V \cup ToSet(T) : x[1] \in F /\ RefersTo(x[1], x[2])
  /\ \A p \in F, o \in Objs : RefersTo(p, o) => <<p, o>> \in V \cup ToSet(T) \/ o \in outside
  /\ \A o \in live : Counted(o) = Cardinality({p \in live : <<p, o>> \in V})
  /\ F \subseteq live
  /\ \A s \in live \cap Syms : s \in F <=> s \notin ToSet(rest)
  /\ \A e \in F \cap Exprs : e \notin O /\ \A p \in live : <<p, e>> \in G => <<p, e>> \in V
  /\ \A e \in live \cap Exprs : Counted(e) # 0 /\ Counted(e) = Refcount(e) => e \in F

CountInv == \E O, G, N : Since(O, G, N) /\ \E V, T, F : Counting(V, T, F, O, G)

\* U: the expressions that the counts do not explain, those with a reference from
\* outside and all that they consist of among them.
Unexplained(U, O, G) ==
  /\ U \subseteq Exprs
  /\ O \cap Exprs \subseteq U
  /\ \A x \in G : x[1] \in U /\ x[2] \in Exprs => x[2] \in U

Unused(U, O, G, N, s) == s \notin O /\ s \notin N /\ \A x \in G : x[2] = s => x[1] \notin U

UsersOf(o) == {p \in live : RefersTo(p, o)}

Marking(U, O, G, N) ==
  /\ \A e \in live \cap Exprs : Is(e, AliveVisited) => e \in U \/ e \in N
  /\ \A s \in live \cap Syms :
       IF s \in ToSet(rest)
       THEN /\ Counted(s) <= Cardinality(UsersOf(s))
            /\ Counted(s) = Refcount(s) => Unused(U, O, G, N, s)
       ELSE \/ Is(s, AliveUnvisited)
            \/ Is(s, PossiblyDead) /\ Unused(U, O, G, N, s)
            \/ s \in N /\ ~Is(s, PossiblyDead)

MarkInv == \E O, G, N : Since(O, G, N) /\ \E U : Unexplained(U, O, G) /\ Marking(U, O, G, N)

\* An old reference of something that is alive and visited.
Fine(U, o) ==
  \/ o \in ToSet(todo)
  \/ o \in Syms /\ ~Is(o, PossiblyDead)
  \/ o \in Exprs /\ (o \in U \/ Is(o, AliveVisited))

Propagating(U, O, G, N) ==
  /\ \A s \in live \cap Syms :
       /\ \/ Is(s, AliveVisited) \/ Is(s, AliveUnvisited)
          \/ Is(s, PossiblyDead) /\ Unused(U, O, G, N, s)
          \/ s \in N /\ ~Is(s, PossiblyDead)
       /\ resurrected = 0 /\ s \notin ToSet(rest) => ~Is(s, AliveUnvisited)
  /\ \A x \in G : Is(x[1], AliveVisited) => Fine(U, x[2])

PropagateInv == \E O, G, N : Since(O, G, N) /\ \E U : Unexplained(U, O, G) /\ Propagating(U, O, G, N)

\* Every object is used.
Supported == \A o \in live : o \in outside \/ \E p \in live : RefersTo(p, o)

\* Expressions do not consist of each other in a circle: among any of them there is
\* one that is part of none.
Layered ==
  \A A \in SUBSET (live \cap Exprs) : A # {} => \E e \in A : \A a \in A : e \notin part[a]

Shapes ==
  /\ GCTypeOK
  /\ Once(rest)
  /\ \A e \in Exprs \ live : part[e] = {}
  /\ \A s \in Syms \ live : value[s] = Undefined
  /\ \A p \in live, o \in Objs : RefersTo(p, o) => o \in live
  /\ phase \in {"none", "clear"} => todo = <<>>
  /\ ToSet(todo) \subseteq live
  /\ Layered

\* How many symbols are marked as possibly dead: as many as the collector thinks, or
\* less when some were destroyed meanwhile.
Doomed == {s \in live \cap Syms : Is(s, PossiblyDead)}

DeadInv ==
  /\ phase \in {"none", "count"} => dead = 0
  /\ phase = "mark" => dead >= Cardinality(Doomed \ ToSet(rest))
  /\ phase = "propagate" => dead >= Cardinality(Doomed) + resurrected
  /\ phase = "clear" => dead >= Cardinality(Doomed \cap ToSet(rest))
  /\ phase # "propagate" => resurrected = 0

\* What holds of a pass that is not misled.
Sound ==
  /\ phase \in {"count", "mark", "propagate"} => Supported
  /\ phase = "count" => CountInv
  /\ phase = "mark" => MarkInv
  /\ phase = "propagate" => PropagateInv
  /\ phase = "clear" => \A s \in live \cap Syms : Is(s, PossiblyDead) => s \notin Reachable

GCInv == Shapes /\ DeadInv /\ (~misled => Sound)

-----------------------------------------------------------------------------
LEMMA OrderFacts == Order \in Seq(Syms) /\ Once(Order) /\ ToSet(Order) = Syms
  BY GCAssumption DEF Once, IsInjective, Syms

LEMMA FiniteObjs == IsFiniteSet(Objs)
<1>1. IsFiniteSet(Syms)
      BY GCAssumption, FiniteRange DEF Syms
<1> QED BY <1>1, GCAssumption, FS_Union DEF Objs

LEMMA FiniteLive ==
  ASSUME Shapes, NEW A \in SUBSET live
  PROVE  IsFiniteSet(A) /\ Cardinality(A) \in Nat
<1>1. A \in SUBSET Objs
      BY DEF Shapes, GCTypeOK
<1>2. IsFiniteSet(A)
      BY <1>1, FiniteObjs, FS_Subset
<1> QED BY <1>2, FS_CardinalityType

\* The references to o, as one set, and the one from outside.
LEMMA Refcounts ==
  ASSUME Shapes, NEW o
  PROVE  /\ Refcount(o) \in Nat
         /\ \A A \in SUBSET live :
              /\ Cardinality(A) \in Nat
              /\ Cardinality(A) = Refcount(o) /\ (\A p \in A : RefersTo(p, o)) =>
                   o \notin outside /\ \A p \in live : RefersTo(p, o) => p \in A
<1>1. PICK B : B = {p \in live : RefersTo(p, o)}
      OBVIOUS
<1>2. B \in SUBSET live /\ IsFiniteSet(B) /\ Cardinality(B) \in Nat
      BY <1>1, FiniteLive
<1>3. Refcount(o) = Cardinality(B) + (IF o \in outside THEN 1 ELSE 0)
      BY <1>1 DEF Refcount
<1>4. ASSUME NEW A \in SUBSET live
      PROVE  /\ Cardinality(A) \in Nat
             /\ Cardinality(A) = Refcount(o) /\ (\A p \in A : RefersTo(p, o)) =>
                   o \notin outside /\ \A p \in live : RefersTo(p, o) => p \in A
  <2>1. Cardinality(A) \in Nat
        BY FiniteLive
  <2>2. SUFFICES ASSUME Cardinality(A) = Refcount(o), \A p \in A : RefersTo(p, o)
                 PROVE  o \notin outside /\ A = B
        BY <1>1, <2>1
  <2>3. A \in SUBSET B
        BY <1>1, <2>2
  <2>4. Cardinality(A) <= Cardinality(B) /\ (Cardinality(B) = Cardinality(A) => B = A)
        BY <1>2, <2>3, FS_Subset
  <2>5. o \notin outside
        BY <1>2, <1>3, <2>1, <2>2, <2>4
  <2> QED BY <1>2, <1>3, <2>1, <2>2, <2>4, <2>5
<1>5. Refcount(o) \in Nat
      BY <1>2, <1>3
<1> QED BY <1>4, <1>5

LEMMA NoReference ==
  ASSUME Shapes, NEW o \in live, Refcount(o) = 0
  PROVE  o \notin outside /\ \A p \in live : ~RefersTo(p, o)
<1>1. {} \in SUBSET live /\ Cardinality({}) = Refcount(o) /\ \A p \in {} : RefersTo(p, o)
      BY FS_EmptySet
<1> QED BY <1>1, Refcounts

-----------------------------------------------------------------------------
(* Types.                                                                  *)

\* The phase comes to its next symbol.
LEMMA NextSymbol ==
  ASSUME Shapes, NEW p, ToNext(p)
  PROVE  /\ phase = p /\ todo = <<>> /\ Head(rest) \in Syms /\ Head(rest) \in ToSet(rest)
         /\ rest' \in Seq(Syms) /\ Once(rest')
         /\ ToSet(rest') \subseteq ToSet(rest) /\ Head(rest) \notin ToSet(rest')
         /\ ToSet(rest) \subseteq ToSet(rest') \cup {Head(rest)}
<1>1. phase = p /\ todo = <<>> /\ rest # <<>> /\ rest' = Tail(rest)
      BY DEF ToNext
<1>2. PICK q : q = rest
      OBVIOUS
<1>3. q \in Seq(Syms) /\ Once(q) /\ q # <<>> /\ rest' = Tail(q)
      BY <1>1, <1>2 DEF Shapes, GCTypeOK
<1>4. /\ ToSet(q) \subseteq Syms /\ Head(q) \in ToSet(q) /\ Tail(q) \in Seq(Syms)
      /\ ToSet(Tail(q)) \subseteq ToSet(q)
      /\ ToSet(q) \subseteq ToSet(Tail(q)) \cup {Head(q)}
      /\ Once(Tail(q)) /\ Head(q) \notin ToSet(Tail(q))
      BY <1>3, Ends
<1> QED BY <1>1, <1>2, <1>3, <1>4

LEMMA VisitTypes ==
  ASSUME Shapes, NEW s \in Syms, Visit(s)
  PROVE  /\ todo' \in Seq(Objs) /\ visiting' \in Objs \cup {Undefined}
         /\ ToSet(todo') \subseteq live
<1>1. value \in [Syms -> Objs \cup {Undefined}] /\ \A p \in live, o \in Objs : RefersTo(p, o) => o \in live
      BY DEF Shapes, GCTypeOK
<1>2. CASE s \in live /\ value[s] # Undefined
  <2>1. PICK v : v = value[s]
        OBVIOUS
  <2>2. v \in Objs /\ RefersTo(s, v) /\ todo' = <<v>> /\ visiting' = v
        BY <1>1, <1>2, <2>1 DEF Visit, RefersTo
  <2>3. v \in live
        BY <1>1, <1>2, <2>2
  <2>4. todo' \in Seq(Objs)
        BY <2>2
  <2>5. ToSet(todo') = {v}
        BY <2>2 DEF ToSet
  <2> QED BY <2>2, <2>3, <2>4, <2>5
<1>3. CASE ~(s \in live /\ value[s] # Undefined)
  <2>1. todo' = <<>> /\ visiting' \in Objs \cup {Undefined}
        BY <1>1, <1>3 DEF Visit
  <2>2. ToSet(<<>>) = {}
        BY DEF ToSet
  <2> QED BY <2>1, <2>2
<1> QED BY <1>2, <1>3

LEMMA VisitedTypes ==
  ASSUME Shapes, NEW q \in Seq(Objs), Visited(q)
  PROVE  todo' = q /\ todo' \in Seq(Objs) /\ visiting' \in Objs \cup {Undefined}
  BY DEF Visited, Shapes, GCTypeOK

LEMMA ManyObjects == Cardinality(Objs) \in Nat /\ Many \in Nat /\ Many = Cardinality(Objs) + 2
  BY FiniteObjs, FS_CardinalityType DEF Many

LEMMA SetCountIs ==
  ASSUME Shapes, NEW o \in Objs, NEW n \in Nat, SetCount(o, n)
  PROVE  /\ bit' \in [Objs -> 0..1] /\ seen' \in [Objs -> Nat]
         /\ bit'[o] = pass
         /\ n <= Many => seen'[o] = n
         /\ \A c \in Objs \ {o} : bit'[c] = bit[c] /\ seen'[c] = seen[c]
<1>1. bit \in [Objs -> 0..1] /\ seen \in [Objs -> Nat] /\ pass \in 0..1
      BY DEF Shapes, GCTypeOK
<1>2. bit' = [bit EXCEPT ![o] = pass] /\ seen' = [seen EXCEPT ![o] = IF n > Many THEN Many ELSE n]
      BY DEF SetCount
<1>3. PICK m \in Nat : m = Many
      BY ManyObjects
<1> QED BY <1>1, <1>2, <1>3

\* The marks are among the counts.
LEMMA SetMark ==
  ASSUME Shapes, NEW o \in Objs, NEW m \in 0..2, SetCount(o, m), UNCHANGED pass
  PROVE  /\ bit' \in [Objs -> 0..1] /\ seen' \in [Objs -> Nat]
         /\ \A k : Is(o, k)' <=> k = m
         /\ \A c \in Objs \ {o} : Counted(c)' = Counted(c) /\ \A k : Is(c, k)' <=> Is(c, k)
<1>1. m \in Nat /\ m <= Many
      BY ManyObjects
<1> QED BY <1>1, SetCountIs DEF Is, Counted

\* What is to be visited after a reference.
LEMMA VisitPart ==
  ASSUME Shapes, todo # <<>>
  PROVE  /\ Head(todo) \in Objs /\ Tail(todo) \in Seq(Objs)
         /\ Head(todo) \in live /\ ToSet(Tail(todo)) \subseteq live
         /\ Head(todo) \in Exprs =>
              /\ part[Head(todo)] \in SUBSET Objs /\ part[Head(todo)] \subseteq live
              /\ SetToSeq(part[Head(todo)]) \in Seq(Objs) /\ Once(SetToSeq(part[Head(todo)]))
              /\ ToSet(SetToSeq(part[Head(todo)])) = part[Head(todo)]
<1>1. PICK q : q = todo
      OBVIOUS
<1>2. q \in Seq(Objs) /\ q # <<>>
      BY <1>1 DEF Shapes, GCTypeOK
<1>3. Head(q) \in Objs /\ Tail(q) \in Seq(Objs)
      BY <1>2
<1>5. Head(q) \in live /\ ToSet(Tail(q)) \subseteq live
  <2>1. Head(q) \in ToSet(q) /\ ToSet(Tail(q)) \subseteq ToSet(q)
        BY <1>2, Ends
  <2> QED BY <1>1, <2>1 DEF Shapes
<1>4. ASSUME Head(q) \in Exprs
      PROVE  /\ part[Head(q)] \in SUBSET Objs /\ part[Head(q)] \subseteq live
             /\ SetToSeq(part[Head(q)]) \in Seq(Objs) /\ Once(SetToSeq(part[Head(q)]))
             /\ ToSet(SetToSeq(part[Head(q)])) = part[Head(q)]
  <2>1. PICK P : P = part[Head(q)]
        OBVIOUS
  <2>2. P \in SUBSET Objs
        BY <1>4, <2>1 DEF Shapes, GCTypeOK
  <2>3. IsFiniteSet(P)
        BY <2>2, FiniteObjs, FS_Subset
  <2>4. SetToSeq(P) \in Seq(P) /\ Once(SetToSeq(P)) /\ ToSet(SetToSeq(P)) = P
        BY <2>3, AsSequence
  <2>5. SetToSeq(P) \in Seq(Objs)
    <3>1. PICK r : r = SetToSeq(P)
          OBVIOUS
    <3>2. r \in Seq(P)
          BY <2>4, <3>1
    <3>3. r \in Seq(Objs)
          BY <2>2, <3>2
    <3> QED BY <3>1, <3>3
  <2>6. P \subseteq live
    <3>1. \A c \in P : c \in Objs /\ RefersTo(Head(q), c)
          BY <1>4, <2>1, <2>2, GCAssumption DEF RefersTo
    <3> QED BY <1>5, <3>1 DEF Shapes
  <2> QED BY <2>1, <2>2, <2>4, <2>5, <2>6
<1> QED BY <1>1, <1>3, <1>4, <1>5

-----------------------------------------------------------------------------
(* The counts.                                                             *)

LEMMA SameRefcounts ==
  ASSUME UNCHANGED objects
  PROVE  \A o : Refcount(o)' = Refcount(o) /\ \A p : RefersTo(p, o)' <=> RefersTo(p, o)
  BY DEF objects, Refcount, RefersTo

LEMMA PassShapes ==
  ASSUME Shapes, UNCHANGED objects, pass' \in 0..1,
         phase' \in {"none", "count", "mark", "propagate", "clear"},
         rest' \in Seq(Syms), Once(rest'), todo' \in Seq(Objs), visiting' \in Objs \cup {Undefined},
         bit' \in [Objs -> 0..1], seen' \in [Objs -> Nat], dead' \in Nat, resurrected' \in Nat,
         misled' \in BOOLEAN,
         phase' \in {"none", "clear"} => todo' = <<>>,
         todo' = todo \/ ToSet(todo') \subseteq live
  PROVE  Shapes'
<1>1. GCTypeOK'
      BY DEF Shapes, GCTypeOK, objects
<1>2. Once(rest)'
      BY DEF Once
<1>3. \A p, o : RefersTo(p, o)' <=> RefersTo(p, o)
      BY SameRefcounts
<1>4. Layered'
      BY DEF Shapes, Layered, objects
<1>5. ToSet(todo') \subseteq live
      BY DEF Shapes
<1> QED BY <1>1, <1>2, <1>3, <1>4, <1>5 DEF Shapes, objects

-----------------------------------------------------------------------------
(* What the other threads do.                                              *)

LEMMA NewStep ==
  ASSUME Shapes, NEW o \in Objs, New(o)
  PROVE  /\ UNCHANGED <<pass, phase, rest, todo, visiting, dead, resurrected, misled>>
         /\ o \notin live /\ live' = live \cup {o} /\ outside' = outside \cup {o}
         /\ live' \in SUBSET Objs /\ outside' \in SUBSET live'
         /\ bit' \in [Objs -> 0..1] /\ seen' \in [Objs -> Nat]
         /\ seen'[o] = 0 /\ \A c \in Objs \ {o} : bit'[c] = bit[c] /\ seen'[c] = seen[c]
  BY DEF Shapes, GCTypeOK, New

\* Others do not touch what the collector knows, and mark nothing.
LEMMA DoomedLess ==
  ASSUME Shapes, DeadInv, UNCHANGED <<pass, phase, rest, todo, dead, resurrected>>,
         \A s \in live' \cap Syms : Is(s, PossiblyDead)' => s \in live /\ Is(s, PossiblyDead)
  PROVE  DeadInv'
<1>1. PICK A, B, C : A = Doomed /\ B = ToSet(rest) /\ C = Doomed'
      OBVIOUS
<1>2. ToSet(rest)' = B
      BY <1>1
<1>3. A \in SUBSET live /\ C \in SUBSET A
      BY <1>1 DEF Doomed
<1>4. /\ A \in SUBSET live /\ A \ B \in SUBSET live /\ A \cap B \in SUBSET live
      /\ C \ B \in SUBSET (A \ B) /\ C \cap B \in SUBSET (A \cap B)
      BY <1>3
<1>5. /\ IsFiniteSet(A) /\ IsFiniteSet(A \ B) /\ IsFiniteSet(A \cap B)
      /\ Cardinality(A) \in Nat /\ Cardinality(A \ B) \in Nat /\ Cardinality(A \cap B) \in Nat
      BY <1>4, FiniteLive
<1>6. /\ IsFiniteSet(C) /\ Cardinality(C) <= Cardinality(A)
      /\ IsFiniteSet(C \ B) /\ Cardinality(C \ B) <= Cardinality(A \ B)
      /\ IsFiniteSet(C \cap B) /\ Cardinality(C \cap B) <= Cardinality(A \cap B)
      BY <1>3, <1>4, <1>5, FS_Subset
<1>7. Cardinality(C) \in Nat /\ Cardinality(C \ B) \in Nat /\ Cardinality(C \cap B) \in Nat
      BY <1>6, FS_CardinalityType
<1>8. dead \in Nat /\ resurrected \in Nat
      BY DEF Shapes, GCTypeOK
<1>9. /\ phase \in {"none", "count"} => dead = 0
      /\ phase = "mark" => dead >= Cardinality(A \ B)
      /\ phase = "propagate" => dead >= Cardinality(A) + resurrected
      /\ phase = "clear" => dead >= Cardinality(A \cap B)
      /\ phase # "propagate" => resurrected = 0
      BY <1>1 DEF DeadInv
<1>10. /\ phase = "mark" => dead >= Cardinality(C \ B)
       /\ phase = "propagate" => dead >= Cardinality(C) + resurrected
       /\ phase = "clear" => dead >= Cardinality(C \cap B)
       BY <1>5, <1>6, <1>7, <1>8, <1>9
<1> QED BY <1>1, <1>2, <1>9, <1>10 DEF DeadInv

LEMMA OthersShapes ==
  ASSUME Shapes, DeadInv, Others
  PROVE  Shapes' /\ DeadInv'
<1>1. /\ Syms \subseteq Objs /\ Exprs \subseteq Objs /\ Syms \cap Exprs = {} /\ Undefined \notin Objs
      BY GCAssumption DEF Objs
<1>2. /\ live \in SUBSET Objs /\ outside \in SUBSET live
      /\ value \in [Syms -> Objs \cup {Undefined}] /\ part \in [Exprs -> SUBSET Objs]
      /\ pass \in 0..1 /\ bit \in [Objs -> 0..1] /\ seen \in [Objs -> Nat]
      /\ phase \in {"none", "count", "mark", "propagate", "clear"}
      /\ rest \in Seq(Syms) /\ todo \in Seq(Objs) /\ visiting \in Objs \cup {Undefined}
      /\ dead \in Nat /\ resurrected \in Nat /\ misled \in BOOLEAN
      /\ Once(rest)
      /\ \A e \in Exprs \ live : part[e] = {}
      /\ \A s \in Syms \ live : value[s] = Undefined
      /\ \A p \in live, o \in Objs : RefersTo(p, o) => o \in live
      /\ phase \in {"none", "clear"} => todo = <<>>
      /\ ToSet(todo) \subseteq live
      /\ Layered
      BY DEF Shapes, GCTypeOK
\* What is left to show of each of these steps.
<1>3. ASSUME UNCHANGED <<pass, phase, rest, todo, visiting, dead, resurrected>>, misled' \in BOOLEAN,
             live' \in SUBSET Objs, outside' \in SUBSET live',
             value' \in [Syms -> Objs \cup {Undefined}], part' \in [Exprs -> SUBSET Objs],
             bit' \in [Objs -> 0..1], seen' \in [Objs -> Nat],
             \A e \in Exprs \ live' : part'[e] = {},
             \A s \in Syms \ live' : value'[s] = Undefined,
             \A p \in live', o \in Objs : RefersTo(p, o)' => o \in live',
             Layered', ToSet(todo) \subseteq live'
      PROVE  Shapes'
  <2>1. GCTypeOK'
        BY <1>2, <1>3 DEF GCTypeOK
  <2>2. Once(rest)'
        BY <1>2, <1>3 DEF Once
  <2>3. phase' \in {"none", "clear"} => todo' = <<>>
        BY <1>2, <1>3
  <2>4. ToSet(todo') \subseteq live'
        BY <1>3
  <2> QED BY <1>3, <2>1, <2>2, <2>3, <2>4 DEF Shapes
<1>4. ASSUME UNCHANGED <<pass, phase, rest, todo, dead, resurrected, bit, seen>>, live' \subseteq live
      PROVE  DeadInv'
      BY <1>4, DoomedLess DEF Is, PossiblyDead
<1>5. ASSUME NEW o \in Objs, New(o) PROVE DeadInv'
      BY <1>2, <1>5, NewStep, DoomedLess DEF Is, PossiblyDead
<1>6. ASSUME NEW s \in Syms, NewSymbol(s) PROVE Shapes' /\ DeadInv'
  <2>1. New(s) /\ UNCHANGED <<value, part>>
        BY <1>6 DEF NewSymbol
  <2>2. /\ UNCHANGED <<pass, phase, rest, todo, visiting, dead, resurrected, misled>>
        /\ s \notin live /\ live' = live \cup {s}
        /\ live' \in SUBSET Objs /\ outside' \in SUBSET live'
        /\ bit' \in [Objs -> 0..1] /\ seen' \in [Objs -> Nat]
        BY <1>1, <2>1, NewStep
  <2>3. ASSUME NEW p \in live', NEW o \in Objs, RefersTo(p, o)' PROVE o \in live'
    <3>1. RefersTo(p, o)
          BY <2>1, <2>3 DEF RefersTo
    <3>2. p = s => value[s] = Undefined /\ value[s] = o
          BY <1>2, <2>2, <3>1 DEF RefersTo
    <3>3. p \in live
          BY <1>1, <2>2, <3>2
    <3> QED BY <1>2, <2>2, <3>1, <3>3
  <2>4. Layered'
        BY <1>1, <1>2, <2>1, <2>2 DEF Layered
  <2>5. \A e \in Exprs \ live' : part'[e] = {}
        BY <1>2, <2>1, <2>2
  <2>6. \A x \in Syms \ live' : value'[x] = Undefined
        BY <1>2, <2>1, <2>2
  <2>7. Shapes'
        BY <1>2, <1>3, <2>1, <2>2, <2>3, <2>4, <2>5, <2>6
  <2> QED BY <1>1, <1>5, <2>1, <2>7
<1>7. ASSUME NEW s \in Syms, NEW o \in Objs \cup {Undefined}, Assign(s, o) PROVE Shapes' /\ DeadInv'
  <2>1. /\ UNCHANGED <<live, outside, part, pass, bit, seen, phase, rest, todo, visiting, dead, resurrected>>
        /\ value' = [value EXCEPT ![s] = o] /\ misled' \in BOOLEAN
        /\ s \in live /\ (o \in live \/ o = Undefined)
        BY <1>2, <1>7 DEF Assign, Release, collector, counts
  <2>2. value' \in [Syms -> Objs \cup {Undefined}]
        BY <1>2, <2>1
  <2>3. ASSUME NEW p \in live', NEW x \in Objs, RefersTo(p, x)' PROVE x \in live'
    <3>1. CASE p = s
          BY <1>1, <1>2, <2>1, <2>3, <3>1 DEF RefersTo
    <3>2. CASE p # s
      <4>1. RefersTo(p, x)
            BY <1>2, <2>1, <2>3, <3>2 DEF RefersTo
      <4> QED BY <1>2, <2>1, <4>1
    <3> QED BY <3>1, <3>2
  <2>4. Layered'
        BY <1>2, <2>1 DEF Layered
  <2>5. \A x \in Syms \ live' : value'[x] = Undefined
        BY <1>2, <2>1
  <2>6. \A e \in Exprs \ live' : part'[e] = {}
        BY <1>2, <2>1
  <2>7. Shapes'
        BY <1>2, <1>3, <2>1, <2>2, <2>3, <2>4, <2>5, <2>6
  <2> QED BY <1>4, <2>1, <2>7
<1>8. ASSUME NEW e \in Exprs, NEW P \in SUBSET outside, NewExpr(e, P) PROVE Shapes' /\ DeadInv'
  <2>1. New(e) /\ UNCHANGED value /\ part' = [part EXCEPT ![e] = P]
        BY <1>8 DEF NewExpr
  <2>2. /\ UNCHANGED <<pass, phase, rest, todo, visiting, dead, resurrected, misled>>
        /\ e \notin live /\ live' = live \cup {e}
        /\ live' \in SUBSET Objs /\ outside' \in SUBSET live'
        /\ bit' \in [Objs -> 0..1] /\ seen' \in [Objs -> Nat]
        BY <1>1, <2>1, NewStep
  <2>3. P \in SUBSET Objs
        BY <1>2
  <2>4. part' \in [Exprs -> SUBSET Objs] /\ \A x \in Exprs \ live' : part'[x] = {}
        BY <1>2, <2>1, <2>2, <2>3
  <2>5. ASSUME NEW p \in live', NEW o \in Objs, RefersTo(p, o)' PROVE o \in live'
    <3>1. CASE p = e
      <4>1. o \in P
            BY <1>1, <1>2, <2>1, <2>5, <3>1 DEF RefersTo
      <4> QED BY <1>2, <2>2, <4>1
    <3>2. CASE p # e
      <4>1. p \in live /\ (p \in Syms \/ p \in Exprs)
            BY <1>2, <2>2, <3>2 DEF Objs
      <4>2. RefersTo(p, o)
            BY <1>2, <2>1, <2>5, <3>2, <4>1 DEF RefersTo
      <4> QED BY <1>2, <2>2, <4>1, <4>2
    <3> QED BY <3>1, <3>2
  <2>6. ASSUME NEW A \in SUBSET (live' \cap Exprs), A # {} PROVE \E x \in A : \A a \in A : x \notin part'[a]
    <3>1. \A a \in A : a = e \/ (a \in live \cap Exprs /\ part'[a] = part[a])
          BY <1>2, <2>1, <2>2
    <3>2. part'[e] = P /\ e \notin P
          BY <1>2, <2>1, <2>2
    <3>3. \A p \in live \cap Exprs : part[p] \subseteq live
          BY <1>1, <1>2 DEF RefersTo
    <3>4. CASE e \in A
          BY <2>2, <3>1, <3>2, <3>3, <3>4
    <3>5. CASE e \notin A
      <4>1. A \in SUBSET (live \cap Exprs)
            BY <3>1, <3>5
      <4>2. PICK x \in A : \A a \in A : x \notin part[a]
            BY <1>2, <2>6, <4>1 DEF Layered
      <4> QED BY <3>1, <3>5, <4>2
    <3> QED BY <3>4, <3>5
  <2>7. Layered'
        BY <2>6 DEF Layered
  <2>8. \A s \in Syms \ live' : value'[s] = Undefined
        BY <1>2, <2>1, <2>2
  <2>9. Shapes'
        BY <1>2, <1>3, <2>1, <2>2, <2>4, <2>5, <2>7, <2>8
  <2> QED BY <1>1, <1>5, <2>1, <2>9
<1>9. ASSUME NEW o \in Objs, ReadFrom(o) \/ Drop(o) PROVE Shapes' /\ DeadInv'
  <2>1. /\ UNCHANGED <<live, value, part, pass, bit, seen, phase, rest, todo, visiting, dead, resurrected>>
        /\ outside' \in SUBSET live' /\ misled' \in BOOLEAN
        BY <1>2, <1>9 DEF ReadFrom, Drop, Release, collector, counts
  <2>2. \A p \in live', x \in Objs : RefersTo(p, x)' => x \in live'
        BY <1>2, <2>1 DEF RefersTo
  <2>3. Layered'
        BY <1>2, <2>1 DEF Layered
  <2>4. Shapes'
        BY <1>2, <1>3, <2>1, <2>2, <2>3
  <2> QED BY <1>4, <2>1, <2>4
<1>10. ASSUME NEW o \in Objs, Destroy(o) PROVE Shapes' /\ DeadInv'
  <2>1. /\ o \in live /\ Refcount(o) = 0 /\ live' = live \ {o}
        /\ value' = [s \in Syms |-> IF s = o THEN Undefined ELSE value[s]]
        /\ part' = [e \in Exprs |-> IF e = o THEN {} ELSE part[e]]
        /\ UNCHANGED <<outside, pass, bit, seen, phase, rest, todo, visiting, dead, resurrected, misled>>
        BY <1>10 DEF Destroy, collector, counts
  <2>2. o \notin outside /\ \A p \in live : ~RefersTo(p, o)
        BY <2>1, NoReference
  <2>3. /\ live' \in SUBSET Objs /\ outside' \in SUBSET live'
        /\ value' \in [Syms -> Objs \cup {Undefined}] /\ part' \in [Exprs -> SUBSET Objs]
        BY <1>2, <2>1, <2>2
  <2>4. ASSUME NEW p \in live', NEW x \in Objs, RefersTo(p, x)' PROVE x \in live'
    <3>1. p \in live /\ p # o /\ (p \in Syms \/ p \in Exprs)
          BY <1>2, <2>1 DEF Objs
    <3>2. RefersTo(p, x)
          BY <2>1, <2>4, <3>1 DEF RefersTo
    <3> QED BY <1>2, <2>1, <2>2, <3>1, <3>2
  <2>5. Layered'
    <3>1. SUFFICES ASSUME NEW A \in SUBSET (live' \cap Exprs), A # {}
                   PROVE  \E e \in A : \A a \in A : e \notin part'[a]
          BY DEF Layered
    <3>2. A \in SUBSET (live \cap Exprs) /\ \A a \in A : part'[a] = part[a]
          BY <2>1
    <3> QED BY <1>2, <3>1, <3>2 DEF Layered
  <2>6. \A e \in Exprs \ live' : part'[e] = {}
        BY <1>2, <2>1
  <2>7. \A s \in Syms \ live' : value'[s] = Undefined
        BY <1>2, <2>1
  <2>9. ToSet(todo) \subseteq live'
        BY <1>2, <1>10, <2>1 DEF Destroy, Held
  <2>8. Shapes'
        BY <1>2, <1>3, <2>1, <2>3, <2>4, <2>5, <2>6, <2>7, <2>9
  <2> QED BY <1>4, <2>1, <2>8
<1> QED BY <1>6, <1>7, <1>8, <1>9, <1>10 DEF Others

-----------------------------------------------------------------------------
\* What can be reached.
LEMMA ReachableFacts ==
  ASSUME Shapes
  PROVE  /\ Reachable \in SUBSET live /\ outside \subseteq Reachable
         /\ \A p \in Reachable, o \in live : RefersTo(p, o) => o \in Reachable
         /\ \A o \in Reachable \ outside : \E p \in Reachable : RefersTo(p, o)
<1>1. live \in SUBSET Objs /\ outside \in SUBSET live
      BY DEF Shapes, GCTypeOK
<1>2. outside \subseteq Reachable
      BY <1>1 DEF Reachable
<1>3. ASSUME NEW p \in Reachable, NEW o \in live, RefersTo(p, o) PROVE o \in Reachable
  <2>1. SUFFICES ASSUME NEW R \in SUBSET Objs, outside \subseteq R,
                        \A r \in R : \A x \in live : RefersTo(r, x) => x \in R
                 PROVE  o \in R
        BY <1>1 DEF Reachable
  <2>2. p \in R
        BY <2>1 DEF Reachable
  <2> QED BY <1>3, <2>1, <2>2
<1>4. ASSUME NEW o \in Reachable PROVE o \in live
  <2>1. \A p \in live : \A x \in live : RefersTo(p, x) => x \in live
        OBVIOUS
  <2> QED BY <1>1, <2>1 DEF Reachable
<1>5. ASSUME NEW o \in Reachable \ outside PROVE \E p \in Reachable : RefersTo(p, o)
  <2>1. SUFFICES ASSUME \A p \in Reachable : ~RefersTo(p, o) PROVE FALSE
        OBVIOUS
  <2>2. PICK R : R = Reachable \ {o}
        OBVIOUS
  <2>3. R \in SUBSET Objs /\ outside \subseteq R
        BY <1>1, <1>2, <1>4, <1>5, <2>2
  <2>4. \A p \in R : \A x \in live : RefersTo(p, x) => x \in R
        BY <1>3, <2>1, <2>2
  <2>5. o \in R
        BY <2>3, <2>4 DEF Reachable
  <2> QED BY <2>2, <2>5
<1> QED BY <1>2, <1>3, <1>4, <1>5

-----------------------------------------------------------------------------
(* What the other threads do without giving up a reference.                *)

Adding ==
  /\ live \in SUBSET live' /\ outside \in SUBSET outside'
  /\ \A o \in live' \ live : o \in outside' /\ seen'[o] = 0
  /\ \A o \in live : bit'[o] = bit[o] /\ seen'[o] = seen[o]
  /\ \A p \in live, o \in Objs : RefersTo(p, o) => RefersTo(p, o)'
  /\ \A p \in live', o \in Objs : RefersTo(p, o)' => (p \in live /\ RefersTo(p, o)) \/ o \in outside'
  /\ \A o \in outside' : o \in outside \/ o \notin live \/ \E p \in outside : RefersTo(p, o)
  /\ \A s \in Syms : value'[s] = value[s] \/ s \in outside
  /\ UNCHANGED <<pass, phase, rest, todo, dead, resurrected>>

LEMMA OthersAdd ==
  ASSUME Shapes, Others, phase # "none", ~misled'
  PROVE  ~misled /\ (Adding \/ \E o \in Objs : Destroy(o))
<1>1. /\ Syms \subseteq Objs /\ Exprs \subseteq Objs /\ Syms \cap Exprs = {} /\ Undefined \notin Objs
      BY GCAssumption DEF Objs
<1>2. /\ live \in SUBSET Objs /\ outside \in SUBSET live
      /\ value \in [Syms -> Objs \cup {Undefined}] /\ part \in [Exprs -> SUBSET Objs]
      /\ misled \in BOOLEAN
      /\ \A e \in Exprs \ live : part[e] = {}
      /\ \A s \in Syms \ live : value[s] = Undefined
      BY DEF Shapes, GCTypeOK
<1>3. ASSUME NEW s \in Syms, NewSymbol(s) PROVE ~misled /\ Adding
  <2>1. /\ UNCHANGED <<pass, phase, rest, todo, visiting, dead, resurrected, misled, value, part>>
        /\ s \notin live /\ live' = live \cup {s} /\ outside' = outside \cup {s}
        /\ seen'[s] = 0 /\ \A c \in Objs \ {s} : bit'[c] = bit[c] /\ seen'[c] = seen[c]
        BY <1>1, <1>3, NewStep DEF NewSymbol
  <2>2. \A p, o : RefersTo(p, o)' <=> RefersTo(p, o)
        BY <2>1 DEF RefersTo
  <2>3. \A o \in Objs : ~RefersTo(s, o)
        BY <1>1, <1>2, <2>1 DEF RefersTo
  <2>4. \A p \in live', o \in Objs : RefersTo(p, o)' => (p \in live /\ RefersTo(p, o)) \/ o \in outside'
        BY <2>1, <2>2, <2>3
  <2>5. \A o \in live : bit'[o] = bit[o] /\ seen'[o] = seen[o]
        BY <1>2, <2>1
  <2> QED BY <2>1, <2>2, <2>4, <2>5 DEF Adding
<1>4. ASSUME NEW s \in Syms, NEW o \in Objs \cup {Undefined}, Assign(s, o) PROVE ~misled /\ Adding
  <2>1. /\ UNCHANGED <<live, outside, part, pass, bit, seen, phase, rest, todo, visiting, dead, resurrected>>
        /\ value' = [value EXCEPT ![s] = o]
        /\ s \in outside /\ o \in outside \cup {Undefined}
        /\ value[s] = Undefined /\ ~misled
        BY <1>4 DEF Assign, Release, collector, counts
  <2>2. \A p \in live, x \in Objs : RefersTo(p, x) => RefersTo(p, x)'
        BY <1>1, <1>2, <2>1 DEF RefersTo
  <2>3. \A p \in live', x \in Objs : RefersTo(p, x)' => (p \in live /\ RefersTo(p, x)) \/ x \in outside'
        BY <1>1, <1>2, <2>1 DEF RefersTo
  <2>4. \A x \in Syms : value'[x] = value[x] \/ x \in outside
        BY <1>2, <2>1
  <2> QED BY <2>1, <2>2, <2>3, <2>4 DEF Adding
<1>5. ASSUME NEW e \in Exprs, NEW P \in SUBSET outside, NewExpr(e, P) PROVE ~misled /\ Adding
  <2>1. /\ UNCHANGED <<pass, phase, rest, todo, visiting, dead, resurrected, misled, value>>
        /\ e \notin live /\ live' = live \cup {e} /\ outside' = outside \cup {e}
        /\ seen'[e] = 0 /\ \A c \in Objs \ {e} : bit'[c] = bit[c] /\ seen'[c] = seen[c]
        /\ part' = [part EXCEPT ![e] = P]
        BY <1>1, <1>5, NewStep DEF NewExpr
  <2>2. \A p \in live : p # e /\ (p \in Syms \/ p \in Exprs)
        BY <1>2, <2>1 DEF Objs
  <2>3. \A p \in live, o \in Objs : RefersTo(p, o)' <=> RefersTo(p, o)
        BY <1>2, <2>1, <2>2 DEF RefersTo
  <2>4. \A o \in Objs : RefersTo(e, o)' => o \in P
        BY <1>1, <1>2, <2>1 DEF RefersTo
  <2>5. \A p \in live', o \in Objs : RefersTo(p, o)' => (p \in live /\ RefersTo(p, o)) \/ o \in outside'
        BY <2>1, <2>3, <2>4
  <2>6. \A o \in live : bit'[o] = bit[o] /\ seen'[o] = seen[o]
        BY <1>2, <2>1
  <2> QED BY <2>1, <2>3, <2>5, <2>6 DEF Adding
<1>6. ASSUME NEW o \in Objs, ReadFrom(o) PROVE ~misled /\ Adding
  <2>1. /\ UNCHANGED <<live, value, part, pass, bit, seen, phase, rest, todo, visiting, dead, resurrected, misled>>
        /\ outside' = outside \cup {o} /\ \E p \in outside : RefersTo(p, o)
        BY <1>6 DEF ReadFrom, collector, counts
  <2>2. \A p, x : RefersTo(p, x)' <=> RefersTo(p, x)
        BY <2>1 DEF RefersTo
  <2> QED BY <2>1, <2>2 DEF Adding
<1>7. ASSUME NEW o \in Objs, Drop(o) PROVE FALSE
      BY <1>2, <1>7 DEF Drop, Release
<1>8. ASSUME NEW o \in Objs, Destroy(o) PROVE ~misled
      BY <1>8 DEF Destroy
<1> QED BY <1>3, <1>4, <1>5, <1>6, <1>7, <1>8 DEF Others

\* What becomes of the references to an object, and of its count.
LEMMA Added ==
  ASSUME Shapes, Shapes', Adding
  PROVE  /\ \A o \in live : Counted(o)' = Counted(o) /\ \A k : Is(o, k)' <=> Is(o, k)
         /\ \A o \in live' \ live : /\ Counted(o)' = 0 /\ ~Is(o, PossiblyDead)' /\ ~Is(o, AliveUnvisited)'
                                   /\ Cardinality(UsersOf(o))' \in Nat
         /\ \A o \in live : o \notin outside' => Refcount(o)' = Refcount(o)
         /\ \A o \in live : /\ Cardinality(UsersOf(o)) \in Nat /\ Cardinality(UsersOf(o))' \in Nat
                            /\ Cardinality(UsersOf(o)) <= Cardinality(UsersOf(o))'
         /\ \A o \in live', A \in SUBSET live' :
              (\A p \in A : RefersTo(p, o)') /\ o \in outside' => Cardinality(A) # Refcount(o)'
         /\ \A o \in live' : o \in outside' => Refcount(o)' = Cardinality(UsersOf(o))' + 1
<1>1. /\ live \in SUBSET live' /\ live' \in SUBSET Objs /\ outside \in SUBSET outside' /\ pass' = pass
      /\ \A o \in live' \ live : seen'[o] = 0
      /\ \A o \in live : bit'[o] = bit[o] /\ seen'[o] = seen[o]
      /\ \A p \in live, o \in Objs : RefersTo(p, o) => RefersTo(p, o)'
      /\ \A p \in live', o \in Objs : RefersTo(p, o)' => (p \in live /\ RefersTo(p, o)) \/ o \in outside'
      BY DEF Adding, Shapes, GCTypeOK
<1>2. \A o \in live : Counted(o)' = Counted(o) /\ \A k : Is(o, k)' <=> Is(o, k)
      BY <1>1 DEF Counted, Is
<1>3. \A o \in live' \ live : Counted(o)' = 0 /\ ~Is(o, PossiblyDead)' /\ ~Is(o, AliveUnvisited)'
      BY <1>1 DEF Counted, Is, PossiblyDead, AliveUnvisited
<1>4. ASSUME NEW A \in SUBSET live' PROVE IsFiniteSet(A) /\ Cardinality(A) \in Nat
      BY <1>1, <1>4, FiniteObjs, FS_Subset, FS_CardinalityType
<1>10. ASSUME NEW o \in live' PROVE Cardinality(UsersOf(o))' \in Nat
  <2>1. PICK B : B = UsersOf(o)'
        OBVIOUS
  <2>2. B \in SUBSET live'
        BY <2>1 DEF UsersOf
  <2>3. Cardinality(UsersOf(o))' = Cardinality(B)
        BY <2>1
  <2> QED BY <1>4, <2>2, <2>3
<1>5. ASSUME NEW o \in live', NEW B, B = {p \in live' : RefersTo(p, o)'}
      PROVE  UsersOf(o)' = B /\ Refcount(o)' = Cardinality(B) + (IF o \in outside' THEN 1 ELSE 0)
      BY <1>5 DEF UsersOf, Refcount
<1>6. ASSUME NEW o \in live, o \notin outside' PROVE Refcount(o)' = Refcount(o)
  <2>1. PICK A, B : A = {p \in live : RefersTo(p, o)} /\ B = {p \in live' : RefersTo(p, o)'}
        OBVIOUS
  <2>2. A = B
        BY <1>1, <1>6, <2>1
  <2>3. Refcount(o) = Cardinality(A) + (IF o \in outside THEN 1 ELSE 0)
        BY <2>1 DEF Refcount
  <2> QED BY <1>1, <1>5, <1>6, <2>1, <2>2, <2>3
<1>7. ASSUME NEW o \in live
      PROVE  /\ Cardinality(UsersOf(o)) \in Nat /\ Cardinality(UsersOf(o))' \in Nat
             /\ Cardinality(UsersOf(o)) <= Cardinality(UsersOf(o))'
  <2>1. PICK A, B : A = UsersOf(o) /\ B = UsersOf(o)'
        OBVIOUS
  <2>2. A \in SUBSET B /\ A \in SUBSET live' /\ B \in SUBSET live'
        BY <1>1, <2>1 DEF UsersOf
  <2>3. IsFiniteSet(B) /\ Cardinality(A) \in Nat /\ Cardinality(B) \in Nat
        BY <1>4, <2>2
  <2>4. Cardinality(A) <= Cardinality(B)
        BY <2>2, <2>3, FS_Subset
  <2>5. Cardinality(UsersOf(o))' = Cardinality(B)
        BY <2>1
  <2> QED BY <2>1, <2>3, <2>4, <2>5
<1>8. ASSUME NEW o \in live', NEW A \in SUBSET live', \A p \in A : RefersTo(p, o)', o \in outside'
      PROVE  Cardinality(A) # Refcount(o)'
  <2>1. PICK B : B = {p \in live' : RefersTo(p, o)'}
        OBVIOUS
  <2>2. A \in SUBSET B /\ B \in SUBSET live'
        BY <1>8, <2>1
  <2>3. IsFiniteSet(B) /\ Cardinality(A) \in Nat /\ Cardinality(B) \in Nat
        BY <1>4, <2>2
  <2>4. Cardinality(A) <= Cardinality(B)
        BY <2>2, <2>3, FS_Subset
  <2>5. Refcount(o)' = Cardinality(B) + 1
        BY <1>5, <1>8, <2>1
  <2> QED BY <2>3, <2>4, <2>5
<1>9. ASSUME NEW o \in live', o \in outside' PROVE Refcount(o)' = Cardinality(UsersOf(o))' + 1
  <2>1. PICK B : B = {p \in live' : RefersTo(p, o)'}
        OBVIOUS
  <2>2. UsersOf(o)' = B /\ Refcount(o)' = Cardinality(B) + 1
        BY <1>5, <1>9, <2>1
  <2>3. Cardinality(UsersOf(o))' = Cardinality(B)
        BY <2>2
  <2> QED BY <2>2, <2>3
<1> QED BY <1>2, <1>3, <1>6, <1>7, <1>8, <1>9, <1>10

LEMMA SinceAdds ==
  ASSUME Shapes, Shapes', Adding, NEW O, NEW G, NEW N, Since(O, G, N),
         NEW M, M = N \cup (live' \ live)
  PROVE  Since(O, G, M)'
<1>1. M = N \cup (live' \ live)
      OBVIOUS
<1>2. /\ live \in SUBSET live' /\ outside \in SUBSET outside' /\ outside' \in SUBSET live'
      /\ live' \in SUBSET Objs /\ outside \in SUBSET live
      /\ \A o \in live' \ live : o \in outside'
      /\ \A p \in live, o \in Objs : RefersTo(p, o) => RefersTo(p, o)'
      /\ \A p \in live', o \in Objs : RefersTo(p, o)' => (p \in live /\ RefersTo(p, o)) \/ o \in outside'
      /\ \A o \in outside' : o \in outside \/ o \notin live \/ \E p \in outside : RefersTo(p, o)
      BY DEF Adding, Shapes, GCTypeOK
<1>3. /\ O \subseteq outside /\ N \subseteq outside
      /\ G \subseteq live \X Objs
      /\ \A x \in G : RefersTo(x[1], x[2]) /\ x[1] \notin N
      /\ \A p \in live, o \in Objs : RefersTo(p, o) => <<p, o>> \in G \/ o \in outside
      /\ \A R \in SUBSET Objs :
           O \subseteq R /\ (\A x \in G : x[1] \in R => x[2] \in R) => outside \subseteq R \cup N
      BY DEF Since
<1>4. O \subseteq outside' /\ M \subseteq outside' /\ G \subseteq live' \X Objs
      BY <1>1, <1>2, <1>3
<1>5. ASSUME NEW x \in G PROVE RefersTo(x[1], x[2])' /\ x[1] \notin M
  <2>1. x[1] \in live /\ x[2] \in Objs /\ RefersTo(x[1], x[2]) /\ x[1] \notin N
        BY <1>3
  <2> QED BY <1>1, <1>2, <2>1
<1>6. \A p \in live', o \in Objs : RefersTo(p, o)' => <<p, o>> \in G \/ o \in outside'
      BY <1>2, <1>3
<1>7. ASSUME NEW R \in SUBSET Objs, O \subseteq R, \A x \in G : x[1] \in R => x[2] \in R,
             NEW o \in outside'
      PROVE  o \in R \cup M
  <2>1. outside \subseteq R \cup N
        BY <1>3, <1>7
  <2>2. CASE o \in outside \/ o \notin live
        BY <1>1, <1>2, <2>1, <2>2
  <2>3. CASE o \notin outside /\ o \in live
    <3>1. PICK p \in outside : RefersTo(p, o)
          BY <1>2, <2>3
    <3>2. <<p, o>> \in G
          BY <1>2, <1>3, <2>3, <3>1
    <3>3. p \notin N
          BY <1>3, <3>2
    <3>4. p \in R
          BY <2>1, <3>3
    <3> QED BY <1>7, <3>2, <3>4
  <2> QED BY <2>2, <2>3
<1> QED BY <1>4, <1>5, <1>6, <1>7 DEF Since

LEMMA SupportedAdds ==
  ASSUME Supported, Adding, live \subseteq Objs
  PROVE  Supported'
<1>1. /\ live \in SUBSET live' /\ outside \in SUBSET outside'
      /\ \A o \in live' \ live : o \in outside'
      /\ \A p \in live, o \in Objs : RefersTo(p, o) => RefersTo(p, o)'
      BY DEF Adding
<1> QED BY <1>1 DEF Supported

LEMMA ReachAdds ==
  ASSUME Shapes, Shapes', Adding
  PROVE  /\ Reachable \subseteq Reachable'
         /\ \A o \in Reachable' : o \in live => o \in Reachable
<1>1. /\ live \in SUBSET live' /\ outside \in SUBSET outside' /\ outside' \in SUBSET live'
      /\ live' \in SUBSET Objs /\ outside \in SUBSET live
      /\ \A o \in live' \ live : o \in outside'
      /\ \A p \in live, o \in Objs : RefersTo(p, o) => RefersTo(p, o)' /\ o \in live
      /\ \A p \in live', o \in Objs : RefersTo(p, o)' => (p \in live /\ RefersTo(p, o)) \/ o \in outside'
      /\ \A o \in outside' : o \in outside \/ o \notin live \/ \E p \in outside : RefersTo(p, o)
      BY DEF Adding, Shapes, GCTypeOK
<1>2. PICK M : M = Reachable
      OBVIOUS
<1>3. /\ M \in SUBSET live /\ outside \subseteq M
      /\ \A p \in M, o \in live : RefersTo(p, o) => o \in M
      BY <1>2, ReachableFacts
<1>4. ASSUME NEW o \in M PROVE o \in Reachable'
  <2>1. SUFFICES ASSUME NEW R \in SUBSET Objs, outside' \subseteq R,
                        \A p \in R : \A x \in live' : RefersTo(p, x)' => x \in R
                 PROVE  o \in R
        BY <1>1, <1>3 DEF Reachable
  <2>2. PICK Q : Q = R \cap live
        OBVIOUS
  <2>3. Q \in SUBSET Objs /\ outside \subseteq Q
        BY <1>1, <2>1, <2>2
  <2>4. \A p \in Q : \A x \in live : RefersTo(p, x) => x \in Q
        BY <1>1, <2>1, <2>2
  <2>5. o \in Q
        BY <1>2, <2>3, <2>4 DEF Reachable
  <2> QED BY <2>2, <2>5
<1>5. ASSUME NEW o \in Reachable', o \in live PROVE o \in M
  <2>1. PICK R : R = M \cup (live' \ live)
        OBVIOUS
  <2>2. R \in SUBSET Objs /\ R \in SUBSET live'
        BY <1>1, <1>3, <2>1
  <2>3. outside' \subseteq R
        BY <1>1, <1>3, <2>1
  <2>4. \A p \in R : \A x \in live' : RefersTo(p, x)' => x \in R
        BY <1>1, <1>3, <2>1, <2>2, <2>3
  <2>5. o \in R
        BY <2>2, <2>3, <2>4 DEF Reachable
  <2> QED BY <1>5, <2>1, <2>5
<1> QED BY <1>2, <1>4, <1>5
-----------------------------------------------------------------------------
(* The invariant under the steps of the others.                            *)

LEMMA AddingCount ==
  ASSUME Shapes, Shapes', Adding, CountInv
  PROVE  CountInv'
<1>1. /\ live \in SUBSET live' /\ outside \in SUBSET outside' /\ live' \in SUBSET Objs
      /\ \A p \in live, o \in Objs : RefersTo(p, o) => RefersTo(p, o)' /\ o \in live
      /\ \A p \in live', o \in Objs : RefersTo(p, o)' => (p \in live /\ RefersTo(p, o)) \/ o \in outside'
      /\ rest' = rest /\ todo' = todo
      BY DEF Adding, Shapes, GCTypeOK
<1>2. PICK O, G, N : Since(O, G, N) /\ \E V, T, F : Counting(V, T, F, O, G)
      BY DEF CountInv
<1>3. PICK V, T, F : Counting(V, T, F, O, G)
      BY <1>2
<1>4. /\ V \subseteq live \X Objs
      /\ T \in Seq(live \X Objs) /\ Once(T) /\ Tokens(T, todo)
      /\ \A x \in V : x \notin ToSet(T)
      /\ \A x \in V \cup ToSet(T) : x[1] \in F /\ RefersTo(x[1], x[2])
      /\ \A p \in F, o \in Objs : RefersTo(p, o) => <<p, o>> \in V \cup ToSet(T) \/ o \in outside
      /\ \A o \in live : Counted(o) = Cardinality({p \in live : <<p, o>> \in V})
      /\ F \subseteq live
      /\ \A s \in live \cap Syms : s \in F <=> s \notin ToSet(rest)
      /\ \A e \in F \cap Exprs : e \notin O /\ \A p \in live : <<p, e>> \in G => <<p, e>> \in V
      /\ \A e \in live \cap Exprs : Counted(e) # 0 /\ Counted(e) = Refcount(e) => e \in F
      BY <1>3 DEF Counting
<1>5. G \subseteq live \X Objs
      BY <1>2 DEF Since
<1>6. PICK M : M = N \cup (live' \ live)
      OBVIOUS
<1>7. Since(O, G, M)'
      BY <1>2, <1>6, SinceAdds
<1>8. PICK H : H = F \cup {s \in (live' \ live) \cap Syms : s \notin ToSet(rest)}
      OBVIOUS
<1>9. Syms \cap Exprs = {}
      BY GCAssumption
<1>10. V \subseteq live' \X Objs /\ T \in Seq(live' \X Objs) /\ ToSet(T) \subseteq live \X Objs
  <2>1. V \subseteq live' \X Objs /\ live \X Objs \subseteq live' \X Objs
        BY <1>1, <1>4
  <2>2. T \in Seq(live' \X Objs)
        BY <1>4, <2>1
  <2>3. ToSet(T) \subseteq live \X Objs
        BY <1>4, Elements
  <2> QED BY <2>1, <2>2, <2>3
<1>11. Tokens(T, todo)'
       BY <1>1, <1>4 DEF Tokens
<1>12. ASSUME NEW x \in V \cup ToSet(T) PROVE x[1] \in H /\ RefersTo(x[1], x[2])'
  <2>1. x[1] \in live /\ x[2] \in Objs /\ x[1] \in F /\ RefersTo(x[1], x[2])
        BY <1>4, <1>10
  <2> QED BY <1>1, <1>8, <2>1
<1>13. ASSUME NEW p \in H, NEW o \in Objs, RefersTo(p, o)'
       PROVE  <<p, o>> \in V \cup ToSet(T) \/ o \in outside'
  <2>1. p \in live'
        BY <1>1, <1>4, <1>8
  <2>2. CASE p \in live /\ RefersTo(p, o)
    <3>1. p \in F
          BY <1>8, <2>2
    <3> QED BY <1>1, <1>4, <2>2, <3>1
  <2> QED BY <1>1, <1>13, <2>1, <2>2
<1>14. ASSUME NEW o \in live', NEW A, A = {p \in live' : <<p, o>> \in V}
       PROVE  /\ A \in SUBSET live' /\ \A p \in A : RefersTo(p, o)'
              /\ Counted(o)' = Cardinality(A)
  <2>1. A = {p \in live : <<p, o>> \in V}
        BY <1>1, <1>4, <1>14
  <2>2. ASSUME NEW p \in A PROVE p \in live /\ RefersTo(p, o) /\ RefersTo(p, o)'
    <3>1. <<p, o>> \in V /\ p \in live /\ o \in Objs
          BY <1>4, <1>14, <2>1
    <3>2. RefersTo(<<p, o>>[1], <<p, o>>[2])
          BY <1>4, <3>1
    <3> QED BY <1>1, <3>1, <3>2
  <2>3. CASE o \in live
    <3>1. Counted(o)' = Counted(o)
          BY <2>3, Added
    <3> QED BY <1>4, <1>14, <2>1, <2>2, <2>3, <3>1
  <2>4. CASE o \notin live
    <3>1. A = {}
      <4>1. o \in Objs
            BY <1>1
      <4> QED BY <1>1, <2>2, <2>4, <4>1
    <3>2. Counted(o)' = 0
          BY <2>4, Added
    <3> QED BY <3>1, <3>2, FS_EmptySet
  <2> QED BY <2>3, <2>4
<1>15. /\ H \subseteq live'
       /\ \A s \in live' \cap Syms : s \in H <=> s \notin ToSet(rest)
       /\ \A e \in H \cap Exprs : e \in F
       BY <1>1, <1>4, <1>8, <1>9
<1>16. \A e \in H \cap Exprs : e \notin O /\ \A p \in live' : <<p, e>> \in G => <<p, e>> \in V
       BY <1>4, <1>5, <1>15
<1>17. ASSUME NEW e \in live' \cap Exprs, Counted(e)' # 0, Counted(e)' = Refcount(e)'
       PROVE  e \in H
  <2>1. PICK A : A = {p \in live' : <<p, e>> \in V}
        OBVIOUS
  <2>2. A \in SUBSET live' /\ (\A p \in A : RefersTo(p, e)') /\ Counted(e)' = Cardinality(A)
        BY <1>14, <2>1
  <2>3. e \notin outside'
        BY <1>17, <2>2, Added
  <2>4. e \in live
        BY <1>17, Added
  <2>5. Counted(e) = Counted(e)' /\ Refcount(e) = Refcount(e)'
        BY <2>3, <2>4, Added
  <2> QED BY <1>4, <1>8, <1>17, <2>4, <2>5
<1>18. ToSet(rest)' = ToSet(rest)
       BY <1>1
<1>19. Counting(V, T, H, O, G)'
  <2>1. \A o \in live' : Counted(o)' = Cardinality({p \in live' : <<p, o>> \in V})
        BY <1>14
  <2> QED BY <1>4, <1>10, <1>11, <1>12, <1>13, <1>15, <1>16, <1>17, <1>18, <2>1 DEF Counting
<1> QED BY <1>7, <1>19 DEF CountInv

LEMMA AddingMark ==
  ASSUME Shapes, Shapes', Adding, MarkInv
  PROVE  MarkInv'
<1>1. /\ live \in SUBSET live' /\ \A o \in live' \ live : o \in outside'
      /\ rest' = rest /\ Exprs \cap Syms = {}
      BY GCAssumption DEF Adding
<1>2. PICK O, G, N : Since(O, G, N) /\ \E U : Unexplained(U, O, G) /\ Marking(U, O, G, N)
      BY DEF MarkInv
<1>3. PICK U : Unexplained(U, O, G) /\ Marking(U, O, G, N)
      BY <1>2
<1>4. PICK M : M = N \cup (live' \ live)
      OBVIOUS
<1>5. Since(O, G, M)'
      BY <1>2, <1>4, SinceAdds
<1>6. Unexplained(U, O, G)'
      BY <1>3 DEF Unexplained
<1>7. O \subseteq live
      BY <1>2 DEF Since, Shapes, GCTypeOK
<1>8. \A x \in G : x[2] \in live
      BY <1>2 DEF Since, Shapes, GCTypeOK
<1>9. \A e \in live' \cap Exprs : Is(e, AliveVisited)' => e \in U \/ e \in M
      BY <1>3, <1>4, Added DEF Marking
<1>10. ASSUME NEW s \in live, Unused(U, O, G, N, s) PROVE Unused(U, O, G, M, s)'
       BY <1>4, <1>10 DEF Unused
<1>11. ASSUME NEW s \in live' \cap Syms, s \in ToSet(rest)
       PROVE  /\ Counted(s)' <= Cardinality(UsersOf(s))'
              /\ Counted(s)' = Refcount(s)' => Unused(U, O, G, M, s)'
  <2>1. CASE s \in live
    <3>1. Counted(s) <= Cardinality(UsersOf(s)) /\ (Counted(s) = Refcount(s) => Unused(U, O, G, N, s))
          BY <1>3, <1>11, <2>1 DEF Marking
    <3>2. PICK k, l \in Nat : k = Cardinality(UsersOf(s)) /\ l = Cardinality(UsersOf(s))' /\ k <= l
          BY <2>1, Added
    <3>3. Counted(s)' = Counted(s)
          BY <2>1, Added
    <3>4. Counted(s) \in Nat
          BY <2>1 DEF Counted, Shapes, GCTypeOK
    <3>5. Counted(s)' <= Cardinality(UsersOf(s))'
          BY <3>1, <3>2, <3>3, <3>4
    <3>6. ASSUME Counted(s)' = Refcount(s)' PROVE Unused(U, O, G, M, s)'
      <4>1. s \notin outside'
        <5>1. SUFFICES ASSUME s \in outside' PROVE FALSE
              OBVIOUS
        <5>2. Refcount(s)' = l + 1
              BY <3>2, <5>1, <1>11, Added
        <5> QED BY <3>1, <3>2, <3>3, <3>4, <3>6, <5>2
      <4>2. Refcount(s)' = Refcount(s)
            BY <2>1, <4>1, Added
      <4> QED BY <1>10, <2>1, <3>1, <3>3, <3>6, <4>2
    <3> QED BY <3>5, <3>6
  <2>2. CASE s \notin live
    <3>1. Counted(s)' = 0 /\ Cardinality(UsersOf(s))' \in Nat
          BY <1>11, <2>2, Added
    <3>2. PICK l \in Nat : l = Cardinality(UsersOf(s))'
          BY <3>1
    <3>3. Refcount(s)' = l + 1
          BY <1>1, <1>11, <2>2, <3>2, Added
    <3> QED BY <3>1, <3>2, <3>3
  <2> QED BY <2>1, <2>2
<1>12. ASSUME NEW s \in live' \cap Syms, s \notin ToSet(rest)
       PROVE  \/ Is(s, AliveUnvisited)'
              \/ Is(s, PossiblyDead)' /\ Unused(U, O, G, M, s)'
              \/ s \in M /\ ~Is(s, PossiblyDead)'
  <2>1. CASE s \in live
    <3>1. \/ Is(s, AliveUnvisited)
          \/ Is(s, PossiblyDead) /\ Unused(U, O, G, N, s)
          \/ s \in N /\ ~Is(s, PossiblyDead)
          BY <1>3, <1>12, <2>1 DEF Marking
    <3> QED BY <1>4, <1>10, <2>1, <3>1, Added
  <2> QED BY <1>4, <1>12, <2>1, Added
<1>13. ToSet(rest)' = ToSet(rest)
       BY <1>1
<1>14. Marking(U, O, G, M)'
       BY <1>9, <1>11, <1>12, <1>13 DEF Marking
<1> QED BY <1>5, <1>6, <1>14 DEF MarkInv

LEMMA AddingPropagate ==
  ASSUME Shapes, Shapes', Adding, PropagateInv
  PROVE  PropagateInv'
<1>1. /\ live \in SUBSET live' /\ rest' = rest /\ todo' = todo /\ resurrected' = resurrected
      BY DEF Adding
<1>2. PICK O, G, N : Since(O, G, N) /\ \E U : Unexplained(U, O, G) /\ Propagating(U, O, G, N)
      BY DEF PropagateInv
<1>3. PICK U : Unexplained(U, O, G) /\ Propagating(U, O, G, N)
      BY <1>2
<1>4. PICK M : M = N \cup (live' \ live)
      OBVIOUS
<1>5. Since(O, G, M)'
      BY <1>2, <1>4, SinceAdds
<1>6. Unexplained(U, O, G)'
      BY <1>3 DEF Unexplained
<1>7. ASSUME NEW x \in G PROVE x[1] \in live /\ x[2] \in live
  <2>1. x[1] \in live /\ x[2] \in Objs /\ RefersTo(x[1], x[2])
        BY <1>2 DEF Since
  <2> QED BY <2>1 DEF Shapes
<1>8. ToSet(todo)' = ToSet(todo) /\ ToSet(rest)' = ToSet(rest)
      BY <1>1
<1>9. ASSUME NEW s \in live' \cap Syms
      PROVE  /\ \/ Is(s, AliveVisited)' \/ Is(s, AliveUnvisited)'
                \/ Is(s, PossiblyDead)' /\ Unused(U, O, G, M, s)'
                \/ s \in M /\ ~Is(s, PossiblyDead)'
             /\ resurrected' = 0 /\ s \notin ToSet(rest) => ~Is(s, AliveUnvisited)'
  <2>1. CASE s \in live
    <3>1. /\ \/ Is(s, AliveVisited) \/ Is(s, AliveUnvisited)
             \/ Is(s, PossiblyDead) /\ Unused(U, O, G, N, s)
             \/ s \in N /\ ~Is(s, PossiblyDead)
          /\ resurrected = 0 /\ s \notin ToSet(rest) => ~Is(s, AliveUnvisited)
          BY <1>3, <1>9, <2>1 DEF Propagating
    <3>2. Unused(U, O, G, N, s) => Unused(U, O, G, M, s)'
          BY <1>4, <2>1 DEF Unused
    <3>3. \A k : Is(s, k)' <=> Is(s, k)
          BY <2>1, Added
    <3> QED BY <1>1, <1>4, <3>1, <3>2, <3>3
  <2>2. CASE s \notin live
        BY <1>4, <1>9, <2>2, Added
  <2> QED BY <2>1, <2>2
<1>10. ASSUME NEW x \in G, Is(x[1], AliveVisited)' PROVE Fine(U, x[2])'
  <2>1. Is(x[1], AliveVisited)
        BY <1>7, <1>10, Added
  <2>2. Fine(U, x[2])
        BY <1>3, <2>1 DEF Propagating
  <2>3. \A k : Is(x[2], k)' <=> Is(x[2], k)
        BY <1>7, Added
  <2> QED BY <1>8, <2>2, <2>3 DEF Fine
<1>12. Propagating(U, O, G, M)'
       BY <1>8, <1>9, <1>10 DEF Propagating
<1> QED BY <1>5, <1>6, <1>12 DEF PropagateInv

\* Others take nothing away but objects without a reference, and there are none while
\* the counts are used.
LEMMA OthersSound ==
  ASSUME Shapes, Shapes', DeadInv, ~misled => Sound, Others, ~misled', phase # "none"
  PROVE  ~misled /\ Sound'
<1>1. ~misled /\ Sound
      BY OthersAdd
<1>2. /\ phase' = phase /\ phase \in {"count", "mark", "propagate", "clear"}
  <2>1. CASE Adding
        BY <2>1 DEF Adding, Shapes, GCTypeOK
  <2>2. ASSUME NEW o \in Objs, Destroy(o) PROVE phase' = phase
        BY <2>2 DEF Destroy, collector
  <2> QED BY <2>1, <2>2, OthersAdd DEF Shapes, GCTypeOK
<1>3. live \subseteq Objs
      BY DEF Shapes, GCTypeOK
<1>4. CASE Adding
  <2>1. phase \in {"count", "mark", "propagate"} => Supported'
        BY <1>1, <1>3, <1>4, SupportedAdds DEF Sound
  <2>2. /\ phase = "count" => CountInv'
        /\ phase = "mark" => MarkInv'
        /\ phase = "propagate" => PropagateInv'
        BY <1>1, <1>4, AddingCount, AddingMark, AddingPropagate DEF Sound
  <2>3. ASSUME phase = "clear", NEW s \in live' \cap Syms, Is(s, PossiblyDead)'
        PROVE  s \notin Reachable'
    <3>1. s \in live /\ Is(s, PossiblyDead)
          BY <1>4, <2>3, Added
    <3> QED BY <1>1, <1>4, <2>3, <3>1, ReachAdds DEF Sound
  <2> QED BY <1>1, <1>2, <2>1, <2>2, <2>3 DEF Sound
<1>5. ASSUME NEW o \in Objs, Destroy(o) PROVE Sound'
  <2>1. /\ o \in live /\ Refcount(o) = 0 /\ live' = live \ {o}
        /\ outside' = outside /\ bit' = bit /\ seen' = seen /\ pass' = pass
        /\ \A s \in Syms : value'[s] = IF s = o THEN Undefined ELSE value[s]
        /\ \A e \in Exprs : part'[e] = IF e = o THEN {} ELSE part[e]
        BY <1>5 DEF Destroy, collector, counts
  <2>2. o \notin outside /\ \A p \in live : ~RefersTo(p, o)
        BY <2>1, NoReference
  <2>3. phase = "clear"
        BY <1>1, <1>2, <2>1, <2>2 DEF Sound, Supported
  <2>4. \A p \in live \ {o}, x \in Objs : RefersTo(p, x)' <=> RefersTo(p, x)
    <3>1. \A p \in live : p \in Syms \/ p \in Exprs
          BY <1>3 DEF Objs
    <3> QED BY <2>1, <3>1 DEF RefersTo
  <2>5. ASSUME NEW s \in Reachable', s \in live PROVE s \in Reachable
    <3>1. PICK R : R = Reachable
          OBVIOUS
    <3>2. /\ R \in SUBSET live /\ outside \subseteq R
          /\ \A p \in R, x \in live : RefersTo(p, x) => x \in R
          BY <3>1, ReachableFacts
    <3>3. PICK Q : Q = R \ {o}
          OBVIOUS
    <3>4. Q \in SUBSET Objs /\ outside' \subseteq Q
          BY <1>3, <2>1, <2>2, <3>2, <3>3
    <3>5. \A p \in Q : \A x \in live' : RefersTo(p, x)' => x \in Q
          BY <1>3, <2>1, <2>4, <3>2, <3>3
    <3>6. s \in Q
          BY <2>5, <3>4, <3>5 DEF Reachable
    <3> QED BY <3>1, <3>3, <3>6
  <2>6. \A s \in live' : Is(s, PossiblyDead)' <=> Is(s, PossiblyDead)
        BY <2>1 DEF Is, PossiblyDead
  <2>7. \A s \in (live \cap Syms)' : Is(s, PossiblyDead)' => s \notin Reachable'
        BY <1>1, <2>1, <2>3, <2>5, <2>6 DEF Sound
  <2> QED BY <1>2, <2>3, <2>7 DEF Sound
<1> QED BY <1>1, <1>4, <1>5, OthersAdd
-----------------------------------------------------------------------------
(* The counts.                                                             *)

LEMMA SinceKept ==
  ASSUME UNCHANGED objects, NEW O, NEW G, NEW N, Since(O, G, N)
  PROVE  Since(O, G, N)'
<1>1. live' = live /\ outside' = outside /\ \A p, o : RefersTo(p, o)' <=> RefersTo(p, o)
      BY SameRefcounts DEF objects
<1> QED BY <1>1 DEF Since

LEMMA SupportedKept ==
  ASSUME UNCHANGED objects, Supported
  PROVE  Supported'
<1>1. live' = live /\ outside' = outside /\ \A p, o : RefersTo(p, o)' <=> RefersTo(p, o)
      BY SameRefcounts DEF objects
<1> QED BY <1>1 DEF Supported

LEMMA BeginStep ==
  ASSUME GCInv, Begin
  PROVE  GCInv'
<1>1. PICK new : new = 1 - pass
      OBVIOUS
<1>2. /\ phase = "none" /\ phase' = "count" /\ rest' = Order /\ pass' = new
      /\ misled' = \E o \in live : (bit[o] = new /\ seen[o] # 0) \/ Refcount(o) = 0
      /\ UNCHANGED <<objects, bit, seen, todo, visiting, dead, resurrected>>
      /\ Shapes
      BY <1>1 DEF GCInv, Begin, counts
<1>3. /\ pass \in 0..1 /\ bit \in [Objs -> 0..1] /\ seen \in [Objs -> Nat] /\ todo = <<>>
      /\ dead \in Nat /\ resurrected \in Nat /\ visiting \in Objs \cup {Undefined}
      /\ live \in SUBSET Objs /\ outside \in SUBSET live
      BY <1>2 DEF Shapes, GCTypeOK
<1>4. Shapes'
  <2>1. pass' \in 0..1 /\ misled' \in BOOLEAN
        BY <1>1, <1>2, <1>3
  <2>2. todo' \in Seq(Objs)
        BY <1>2, <1>3
  <2> QED BY <1>2, <1>3, <2>1, <2>2, OrderFacts, PassShapes
<1>5. DeadInv'
      BY <1>2 DEF GCInv, DeadInv
<1>6. live' = live /\ outside' = outside /\ \A p, o : RefersTo(p, o)' <=> RefersTo(p, o)
      BY <1>2, SameRefcounts DEF objects
<1>7. ASSUME ~misled' PROVE Sound'
  <2>1. \A o \in live : ~(bit[o] = new /\ seen[o] # 0) /\ Refcount(o) # 0
        BY <1>2, <1>7
  <2>2. ASSUME NEW o \in live, o \notin outside PROVE \E p \in live : RefersTo(p, o)
    <3>1. SUFFICES ASSUME \A p \in live : ~RefersTo(p, o) PROVE FALSE
          OBVIOUS
    <3>2. {p \in live : RefersTo(p, o)} = {}
          BY <3>1
    <3>3. Refcount(o) = 0
          BY <2>2, <3>2, FS_EmptySet DEF Refcount
    <3> QED BY <2>1, <3>3
  <2>3. Supported
        BY <2>2 DEF Supported
  <2>4. PICK O, G : O = outside /\ G = {x \in live \X Objs : RefersTo(x[1], x[2])}
        OBVIOUS
  <2>5. Since(O, G, {})
    <3>1. \A p \in live, o \in Objs : RefersTo(p, o) => <<p, o>> \in G
          BY <2>4
    <3>2. G \subseteq live \X Objs /\ \A x \in G : RefersTo(x[1], x[2])
          BY <2>4
    <3> QED BY <2>4, <3>1, <3>2 DEF Since
  <2>6. \A o \in live : Counted(o)' = 0
        BY <1>2, <1>3, <2>1 DEF Counted
  <2>7. \A o : {p \in live : <<p, o>> \in {}} = {}
        OBVIOUS
  <2>8. <<>> \in Seq(live \X Objs) /\ Once(<<>>) /\ ToSet(<<>>) = {} /\ Tokens(<<>>, <<>>)
        BY DEF Tokens, Once, ToSet
  <2>9. Tokens(<<>>, todo)' /\ ToSet(rest') = Syms
        BY <1>2, <1>3, <2>8, OrderFacts DEF Tokens
  <2>10. Counting({}, <<>>, {}, O, G)'
        BY <1>6, <2>6, <2>7, <2>8, <2>9, FS_EmptySet DEF Counting
  <2>11. CountInv'
        BY <1>2, <2>5, <2>10, SinceKept DEF CountInv
  <2> QED BY <1>2, <2>3, <2>11, SupportedKept DEF Sound
<1> QED BY <1>4, <1>5, <1>7 DEF GCInv

LEMMA CountSymbolStep ==
  ASSUME GCInv, CountSymbol
  PROVE  GCInv'
<1>1. PICK s : s = Head(rest)
      OBVIOUS
<1>2. /\ phase = "count" /\ phase' = "count" /\ todo = <<>> /\ s \in Syms /\ s \in ToSet(rest)
      /\ rest' \in Seq(Syms) /\ Once(rest')
      /\ ToSet(rest') \subseteq ToSet(rest) /\ s \notin ToSet(rest')
      /\ ToSet(rest) \subseteq ToSet(rest') \cup {s}
      /\ Visit(s)
      /\ UNCHANGED <<objects, pass, bit, seen, dead, resurrected, misled>>
      /\ Shapes
      BY <1>1, NextSymbol DEF GCInv, CountSymbol, counts
<1>3. todo' \in Seq(Objs) /\ visiting' \in Objs \cup {Undefined} /\ ToSet(todo') \subseteq live
      BY <1>2, VisitTypes
<1>4. Shapes'
  <2>1. /\ pass \in 0..1 /\ bit \in [Objs -> 0..1] /\ seen \in [Objs -> Nat]
        /\ dead \in Nat /\ resurrected \in Nat /\ misled \in BOOLEAN
        BY <1>2 DEF Shapes, GCTypeOK
  <2> QED BY <1>2, <1>3, <2>1, PassShapes
<1>5. DeadInv'
      BY <1>2 DEF GCInv, DeadInv
<1>6. SUFFICES ASSUME ~misled' PROVE Sound'
      BY <1>4, <1>5 DEF GCInv
<1>7. Supported /\ CountInv
      BY <1>2, <1>6 DEF GCInv, Sound
<1>8. PICK O, G, N : Since(O, G, N) /\ \E V, T, F : Counting(V, T, F, O, G)
      BY <1>7 DEF CountInv
<1>9. PICK V, T, F : Counting(V, T, F, O, G)
      BY <1>8
<1>10. /\ V \subseteq live \X Objs
       /\ T \in Seq(live \X Objs) /\ Tokens(T, todo)
       /\ \A x \in V : x \notin ToSet(T)
       /\ \A x \in V : x[1] \in F /\ RefersTo(x[1], x[2])
       /\ \A p \in F, o \in Objs : RefersTo(p, o) => <<p, o>> \in V \cup ToSet(T) \/ o \in outside
       /\ \A o \in live : Counted(o) = Cardinality({p \in live : <<p, o>> \in V})
       /\ F \subseteq live
       /\ \A x \in live \cap Syms : x \in F <=> x \notin ToSet(rest)
       /\ \A e \in F \cap Exprs : e \notin O /\ \A p \in live : <<p, e>> \in G => <<p, e>> \in V
       /\ \A e \in live \cap Exprs : Counted(e) # 0 /\ Counted(e) = Refcount(e) => e \in F
       BY <1>9 DEF Counting
<1>11. live \in SUBSET Objs /\ value \in [Syms -> Objs \cup {Undefined}] /\ Undefined \notin Objs
       BY <1>2, GCAssumption DEF Shapes, GCTypeOK
<1>12. ToSet(T) = {}
  <2>1. T \in Seq(live \X Objs) /\ Len(T) = Len(todo)
        BY <1>10 DEF Tokens
  <2>2. T = <<>>
        BY <1>2, <2>1, EmptySeq
  <2> QED BY <2>2 DEF ToSet
<1>13. /\ \A o : Refcount(o)' = Refcount(o) /\ Counted(o)' = Counted(o)
       /\ \A p, o : RefersTo(p, o)' <=> RefersTo(p, o)
       /\ live' = live /\ outside' = outside
       BY <1>2, SameRefcounts DEF Counted, objects
<1>14. PICK H : H = F \cup ({s} \cap live)
       OBVIOUS
<1>15. /\ s \in live => s \notin F
       /\ H \subseteq live /\ F \subseteq H
       /\ \A x \in live \cap Syms : x \in H <=> x \notin ToSet(rest')
       /\ \A e \in H \cap Exprs : e \in F
       BY <1>2, <1>10, <1>14, GCAssumption
<1>16. \E U : /\ U \in Seq(live \X Objs) /\ Once(U) /\ Tokens(U, todo')
              /\ \A x \in ToSet(U) : s \in live /\ x = <<s, value[s]>> /\ value[s] \in Objs
              /\ s \in live /\ value[s] \in Objs => <<s, value[s]>> \in ToSet(U)
  <2>1. CASE s \in live /\ value[s] # Undefined
    <3>1. PICK v : v = value[s] /\ v \in Objs /\ todo' = <<v>>
          BY <1>2, <1>11, <2>1 DEF Visit
    <3>2. PICK q : q = <<v>>
          OBVIOUS
    <3>3. q \in Seq(Objs) /\ Once(q) /\ ToSet(q) = {v}
          BY <3>1, <3>2 DEF Once, ToSet
    <3>4. \E U \in Seq(live \X Objs) : /\ Tokens(U, q) /\ Once(U)
                                        /\ \A x : x \in ToSet(U) <=> \E o \in ToSet(q) : x = <<s, o>>
          BY <2>1, <3>3, TokensOf
    <3> QED BY <2>1, <3>1, <3>2, <3>3, <3>4
  <2>2. CASE ~(s \in live /\ value[s] # Undefined)
    <3>1. todo' = <<>>
          BY <1>2, <2>2 DEF Visit
    <3>2. <<>> \in Seq(live \X Objs) /\ Tokens(<<>>, <<>>) /\ Once(<<>>) /\ ToSet(<<>>) = {}
          BY DEF Tokens, Once, ToSet
    <3> QED BY <1>11, <2>2, <3>1, <3>2
  <2> QED BY <2>1, <2>2
<1>17. PICK U : /\ U \in Seq(live \X Objs) /\ Once(U) /\ Tokens(U, todo')
                /\ \A x \in ToSet(U) : s \in live /\ x = <<s, value[s]>> /\ value[s] \in Objs
                /\ s \in live /\ value[s] \in Objs => <<s, value[s]>> \in ToSet(U)
       BY <1>16
<1>18. Counting(V, U, H, O, G)'
  <2>1. \A x \in V : x \notin ToSet(U)
        BY <1>10, <1>15, <1>17
  <2>2. \A x \in V : x[1] \in H /\ RefersTo(x[1], x[2])'
        BY <1>10, <1>13, <1>15
  <2>3. ASSUME NEW x \in ToSet(U) PROVE x[1] \in H /\ RefersTo(x[1], x[2])'
    <3>1. s \in live /\ x[1] = s /\ x[2] = value[s]
          BY <1>17
    <3>2. RefersTo(s, value[s])
          BY <1>2 DEF RefersTo
    <3> QED BY <1>13, <1>14, <3>1, <3>2
  <2>4. \A o \in live : Counted(o)' = Cardinality({p \in live : <<p, o>> \in V})
        BY <1>10, <1>13
  <2>5. ASSUME NEW p \in H, NEW o \in Objs, RefersTo(p, o)'
        PROVE  <<p, o>> \in V \cup ToSet(U) \/ o \in outside
    <3>1. RefersTo(p, o)
          BY <1>13, <2>5
    <3>2. CASE p = s
      <4>1. value[s] = o /\ s \in live
            BY <1>2, <1>15, <2>5, <3>1, <3>2 DEF RefersTo
      <4> QED BY <1>17, <2>5, <3>2, <4>1
    <3>3. CASE p # s
      <4>1. p \in F
            BY <1>14, <2>5, <3>3
      <4> QED BY <1>10, <1>12, <3>1, <4>1
    <3> QED BY <3>2, <3>3
  <2>6. \A e \in H \cap Exprs : e \notin O /\ \A p \in live : <<p, e>> \in G => <<p, e>> \in V
        BY <1>10, <1>15
  <2>7. \A e \in live \cap Exprs : Counted(e)' # 0 /\ Counted(e)' = Refcount(e)' => e \in H
        BY <1>10, <1>13, <1>15
  <2> QED BY <1>10, <1>13, <1>15, <1>17, <2>1, <2>2, <2>3, <2>4, <2>5, <2>6, <2>7 DEF Counting
<1>19. CountInv'
       BY <1>2, <1>8, <1>18, SinceKept DEF CountInv
<1> QED BY <1>2, <1>7, <1>19, SupportedKept DEF Sound

LEMMA CountRefStep ==
  ASSUME GCInv, CountRef
  PROVE  GCInv'
<1>1. PICK o, n : o = Head(todo) /\ n = Counted(o) + 1
      OBVIOUS
<1>2. /\ phase = "count" /\ phase' = "count" /\ todo # <<>>
      /\ SetCount(o, n)
      /\ Visited((IF o \in Exprs /\ n = Refcount(o) THEN SetToSeq(part[o]) ELSE <<>>) \o Tail(todo))
      /\ UNCHANGED <<objects, pass, rest, dead, resurrected, misled>>
      /\ Shapes
      BY <1>1 DEF GCInv, CountRef
<1>3. /\ pass \in 0..1 /\ bit \in [Objs -> 0..1] /\ seen \in [Objs -> Nat] /\ rest \in Seq(Syms)
      /\ dead \in Nat /\ resurrected \in Nat /\ Once(rest) /\ todo \in Seq(Objs)
      /\ live \in SUBSET Objs /\ misled \in BOOLEAN
      BY <1>2 DEF Shapes, GCTypeOK
<1>4. /\ o \in Objs /\ Tail(todo) \in Seq(Objs)
      /\ ToSet(Tail(todo)) \subseteq live
      /\ o \in Exprs => /\ part[o] \in SUBSET Objs /\ part[o] \subseteq live
                        /\ SetToSeq(part[o]) \in Seq(Objs) /\ Once(SetToSeq(part[o]))
                        /\ ToSet(SetToSeq(part[o])) = part[o]
      BY <1>1, <1>2, VisitPart
<1>5. PICK q : q = IF o \in Exprs /\ n = Refcount(o) THEN SetToSeq(part[o]) ELSE <<>>
      OBVIOUS
<1>6. /\ q \in Seq(Objs) /\ Once(q)
      /\ \A c \in ToSet(q) : o \in Exprs /\ n = Refcount(o) /\ c \in part[o]
      /\ o \in Exprs /\ n = Refcount(o) => part[o] \subseteq ToSet(q)
  <2>1. <<>> \in Seq(Objs) /\ Once(<<>>) /\ ToSet(<<>>) = {}
        BY DEF Once, ToSet
  <2> QED BY <1>4, <1>5, <2>1
<1>7. q \o Tail(todo) \in Seq(Objs) /\ ToSet(q \o Tail(todo)) = ToSet(q) \cup ToSet(Tail(todo))
  <2>1. PICK b : b = Tail(todo)
        OBVIOUS
  <2>2. q \o b \in Seq(Objs) /\ ToSet(q \o b) = ToSet(q) \cup ToSet(b)
    <3>1. b \in Seq(Objs) /\ q \in Seq(Objs)
          BY <1>4, <1>6, <2>1
    <3> QED BY ONLY <3>1, Both
  <2> QED BY <2>1, <2>2
<1>8. todo' = q \o Tail(todo) /\ todo' \in Seq(Objs) /\ visiting' \in Objs \cup {Undefined}
  <2>1. Visited(q \o Tail(todo))
        BY <1>2, <1>5
  <2> QED BY <1>2, <1>7, <2>1, VisitedTypes
<1>9. n \in Nat /\ n # 0 /\ Counted(o) + 1 = n
      BY <1>1, <1>3, <1>4 DEF Counted
<1>10. Shapes'
  <2>1. bit' \in [Objs -> 0..1] /\ seen' \in [Objs -> Nat]
        BY <1>2, <1>4, <1>9, SetCountIs
  <2>2. ToSet(todo') \subseteq live
        BY <1>4, <1>6, <1>7, <1>8
  <2> QED BY <1>2, <1>3, <1>8, <2>1, <2>2, PassShapes
<1>11. DeadInv'
       BY <1>2 DEF GCInv, DeadInv
<1>12. SUFFICES ASSUME ~misled' PROVE Sound'
       BY <1>10, <1>11 DEF GCInv
<1>13. Supported /\ CountInv
       BY <1>2, <1>12 DEF GCInv, Sound
<1>14. PICK O, G, N : Since(O, G, N) /\ \E V, T, F : Counting(V, T, F, O, G)
       BY <1>13 DEF CountInv
<1>15. PICK V, T, F : Counting(V, T, F, O, G)
       BY <1>14
<1>16. /\ V \subseteq live \X Objs /\ T \in Seq(live \X Objs) /\ Once(T) /\ Tokens(T, todo)
       /\ \A x \in V : x \notin ToSet(T)
       /\ \A x \in V \cup ToSet(T) : x[1] \in F /\ RefersTo(x[1], x[2])
       /\ \A r \in F, y \in Objs : RefersTo(r, y) => <<r, y>> \in V \cup ToSet(T) \/ y \in outside
       /\ \A y \in live : Counted(y) = Cardinality({r \in live : <<r, y>> \in V})
       /\ F \subseteq live
       /\ \A s \in live \cap Syms : s \in F <=> s \notin ToSet(rest)
       /\ \A e \in F \cap Exprs : e \notin O /\ \A r \in live : <<r, e>> \in G => <<r, e>> \in V
       /\ \A e \in live \cap Exprs : Counted(e) # 0 /\ Counted(e) = Refcount(e) => e \in F
       BY <1>15 DEF Counting
<1>17. /\ O \subseteq outside
       /\ \A r \in live, y \in Objs : RefersTo(r, y) => <<r, y>> \in G \/ y \in outside
       /\ \A r, y : <<r, y>> \in G => RefersTo(r, y)
  <2>1. \A x \in G : RefersTo(x[1], x[2])
        BY <1>14 DEF Since
  <2> QED BY <1>14, <2>1 DEF Since
<1>18. PICK t : t = Tail(T)
       OBVIOUS
<1>19. T # <<>> /\ Head(T) \in live \X Objs /\ Head(T)[2] = o /\ Tokens(t, Tail(todo))
       BY <1>1, <1>2, <1>3, <1>16, <1>18, TokensTail
<1>20. /\ Head(T) \in ToSet(T) /\ t \in Seq(live \X Objs) /\ Once(t)
       /\ ToSet(t) \subseteq ToSet(T) /\ Head(T) \notin ToSet(t)
       /\ ToSet(T) \subseteq ToSet(t) \cup {Head(T)}
       BY <1>16, <1>18, <1>19, Ends
<1>21. PICK p \in live : Head(T) = <<p, o>>
       BY <1>19
<1>22. <<p, o>> \in ToSet(T) /\ <<p, o>> \notin V /\ <<p, o>> \notin ToSet(t) /\ p \in F /\ RefersTo(p, o)
  <2>1. <<p, o>> \in ToSet(T) /\ <<p, o>> \notin ToSet(t)
        BY <1>20, <1>21
  <2>2. <<p, o>> \notin V
        BY <1>16, <2>1
  <2> QED BY <1>16, <2>1, <2>2
<1>23. o \in live
       BY <1>2, <1>4, <1>22 DEF Shapes
<1>24. PICK X : X = V \cup {<<p, o>>}
       OBVIOUS
<1>25. ASSUME NEW y \in live
       PROVE  Cardinality({r \in live : <<r, y>> \in X}) = IF y = o THEN n ELSE Counted(y)
  <2>1. PICK A : A = {r \in live : <<r, y>> \in V}
        OBVIOUS
  <2>2. Counted(y) = Cardinality(A) /\ A \in SUBSET live
        BY <1>16, <2>1
  <2>3. CASE y = o
    <3>1. {r \in live : <<r, y>> \in X} = A \cup {p} /\ p \notin A
          BY <1>22, <1>24, <2>1, <2>3
    <3>2. Cardinality(A \cup {p}) = Cardinality(A) + 1
          BY <1>2, <2>2, <3>1, FiniteLive, FS_AddElement
    <3> QED BY <1>9, <2>2, <2>3, <3>1, <3>2
  <2>4. CASE y # o
    <3>1. {r \in live : <<r, y>> \in X} = A
          BY <1>24, <2>1, <2>4
    <3> QED BY <2>2, <2>4, <3>1
  <2> QED BY <2>3, <2>4
\* An object has never more references than are counted apart.
<1>26. n <= Many
  <2>1. PICK A : A = {r \in live : <<r, o>> \in V}
        OBVIOUS
  <2>2. Counted(o) = Cardinality(A) /\ A \in SUBSET Objs
        BY <1>3, <1>16, <1>23, <2>1
  <2>3. PICK k, m \in Nat : k = Cardinality(A) /\ m = Cardinality(Objs) /\ k <= m
        BY <2>2, FiniteObjs, FS_Subset, FS_CardinalityType
  <2>4. Many = m + 2
        BY <2>3, ManyObjects
  <2> QED BY <1>9, <2>2, <2>3, <2>4
<1>27. Counted(o)' = n /\ \A y \in Objs \ {o} : Counted(y)' = Counted(y)
       BY <1>2, <1>4, <1>9, <1>26, SetCountIs DEF Counted
<1>28. /\ live' = live /\ outside' = outside
       /\ \A y : Refcount(y)' = Refcount(y)
       /\ \A r, y : RefersTo(r, y)' <=> RefersTo(r, y)
       BY <1>2, SameRefcounts DEF objects
<1>29. PICK H : H = F \cup (IF o \in Exprs /\ n = Refcount(o) THEN {o} ELSE {})
       OBVIOUS
\* All references to an expression that is followed now were visited.
<1>30. ASSUME o \in Exprs, n = Refcount(o)
       PROVE  /\ o \notin F /\ p # o /\ o \notin O
              /\ \A r \in live : <<r, o>> \in G => <<r, o>> \in X
  <2>1. PICK A : A = {r \in live : <<r, o>> \in X}
        OBVIOUS
  <2>2. A \in SUBSET live /\ Cardinality(A) = Refcount(o)
        BY <1>23, <1>25, <1>30, <2>1
  <2>3. ASSUME NEW r \in A PROVE RefersTo(r, o)
    <3>1. <<r, o>> \in V \/ r = p
          BY <1>24, <2>1
    <3>2. <<r, o>> \in V => RefersTo(<<r, o>>[1], <<r, o>>[2])
          BY <1>16
    <3> QED BY <1>22, <3>1, <3>2
  <2>4. o \notin outside /\ \A r \in live : RefersTo(r, o) => r \in A
        BY <1>2, <2>2, <2>3, Refcounts
  <2>5. <<p, o>> \in G
        BY <1>4, <1>17, <1>22, <2>4
  <2>6. o \notin F
        BY <1>16, <1>22, <1>30, <2>5
  <2>7. \A r \in live : <<r, o>> \in G => <<r, o>> \in X
        BY <1>17, <2>1, <2>4
  <2> QED BY <1>17, <1>22, <2>4, <2>6, <2>7
<1>31. PICK U \in Seq(live \X Objs) : /\ Tokens(U, q) /\ Once(U)
                                      /\ \A x : x \in ToSet(U) <=> \E c \in ToSet(q) : x = <<o, c>>
       BY <1>6, <1>23, TokensOf
<1>32. ASSUME NEW x \in ToSet(U)
       PROVE  /\ x[1] \in H /\ RefersTo(x[1], x[2])
              /\ x \notin V /\ x \notin ToSet(T) /\ x # <<p, o>>
  <2>1. PICK c \in ToSet(q) : x = <<o, c>>
        BY <1>31
  <2>2. o \in Exprs /\ n = Refcount(o) /\ c \in part[o] /\ x[1] = o /\ x[2] = c
        BY <1>6, <2>1
  <2>3. RefersTo(o, c) /\ o \notin F /\ o \in H /\ p # o
        BY <1>29, <1>30, <2>2, GCAssumption DEF RefersTo
  <2> QED BY <1>16, <2>1, <2>2, <2>3
<1>33. PICK W : W = U \o t
       OBVIOUS
<1>34. W \in Seq(live \X Objs) /\ ToSet(W) = ToSet(U) \cup ToSet(t)
       BY <1>20, <1>31, <1>33, Both
<1>35. Once(W)
  <2>1. ToSet(U) \cap ToSet(t) = {}
        BY <1>20, <1>32
  <2> QED BY <1>20, <1>31, <1>33, <2>1, Joined
<1>36. Tokens(W, todo')
       BY <1>4, <1>6, <1>8, <1>19, <1>20, <1>31, <1>33, TokensJoined
<1>37. Counting(X, W, H, O, G)'
  <2>1. X \subseteq live \X Objs
        BY <1>4, <1>16, <1>24
  <2>2. \A x \in X : x \notin ToSet(W)
        BY <1>16, <1>20, <1>22, <1>24, <1>32, <1>34
  <2>3. ASSUME NEW x \in X \cup ToSet(W) PROVE x[1] \in H /\ RefersTo(x[1], x[2])'
    <3>1. CASE x \in ToSet(U)
          BY <1>28, <1>32, <3>1
    <3>2. CASE x \in V \cup ToSet(T)
          BY <1>16, <1>28, <1>29, <3>2
    <3> QED BY <1>20, <1>22, <1>24, <1>34, <2>3, <3>1, <3>2
  <2>4. ASSUME NEW r \in H, NEW y \in Objs, RefersTo(r, y)'
        PROVE  <<r, y>> \in X \cup ToSet(W) \/ y \in outside
    <3>1. RefersTo(r, y)
          BY <1>28, <2>4
    <3>2. CASE r \in F
      <4>1. <<r, y>> \in V \cup ToSet(T) \/ y \in outside
            BY <1>16, <3>1, <3>2
      <4> QED BY <1>20, <1>21, <1>24, <1>34, <4>1
    <3>3. CASE r = o /\ o \in Exprs /\ n = Refcount(o)
      <4>1. y \in part[o]
            BY <3>1, <3>3, GCAssumption DEF RefersTo
      <4> QED BY <1>6, <1>31, <1>34, <3>3, <4>1
    <3> QED BY <1>29, <2>4, <3>2, <3>3
  <2>5. ASSUME NEW y \in live PROVE Counted(y)' = Cardinality({r \in live : <<r, y>> \in X})
        BY <1>3, <1>25, <1>27, <2>5
  <2>6. H \subseteq live /\ \A s \in live \cap Syms : s \in H <=> s \notin ToSet(rest)
        BY <1>16, <1>23, <1>29, GCAssumption
  <2>7. \A e \in H \cap Exprs : e \notin O /\ \A r \in live : <<r, e>> \in G => <<r, e>> \in X
        BY <1>16, <1>24, <1>29, <1>30
  <2>8. ASSUME NEW e \in live \cap Exprs, Counted(e)' # 0, Counted(e)' = Refcount(e)'
        PROVE  e \in H
        BY <1>3, <1>16, <1>27, <1>28, <1>29, <2>8
  <2>9. ToSet(rest)' = ToSet(rest)
        BY <1>2
  <2>10. Tokens(W, todo)'
         BY <1>36 DEF Tokens
  <2> QED BY <1>28, <1>34, <1>35, <2>1, <2>2, <2>3, <2>4, <2>5, <2>6, <2>7, <2>8, <2>9, <2>10 DEF Counting
<1>38. CountInv'
       BY <1>2, <1>14, <1>37, SinceKept DEF CountInv
<1> QED BY <1>2, <1>13, <1>38, SupportedKept DEF Sound

-----------------------------------------------------------------------------
(* The marks.                                                              *)

LEMMA CountsDoneStep ==
  ASSUME GCInv, CountsDone
  PROVE  GCInv'
<1>1. /\ phase = "count" /\ phase' = "mark" /\ todo = <<>> /\ rest = <<>> /\ rest' = Order
      /\ UNCHANGED <<objects, pass, bit, seen, todo, visiting, dead, resurrected, misled>>
      /\ Shapes
      BY DEF GCInv, CountsDone, Through, counts
<1>2. /\ pass \in 0..1 /\ bit \in [Objs -> 0..1] /\ seen \in [Objs -> Nat]
      /\ dead \in Nat /\ resurrected \in Nat /\ live \in SUBSET Objs /\ outside \in SUBSET live
      /\ visiting \in Objs \cup {Undefined} /\ misled \in BOOLEAN
      BY <1>1 DEF Shapes, GCTypeOK
<1>3. Shapes'
  <2>1. todo' \in Seq(Objs)
        BY <1>1 DEF Shapes, GCTypeOK
  <2> QED BY <1>1, <1>2, <2>1, OrderFacts, PassShapes
<1>4. DeadInv'
  <2>1. dead = 0 /\ resurrected = 0
        BY <1>1 DEF GCInv, DeadInv
  <2>2. (Doomed \ ToSet(rest))' = {}
        BY <1>1, OrderFacts DEF Doomed
  <2> QED BY <1>1, <2>1, <2>2, FS_EmptySet DEF DeadInv
<1>5. SUFFICES ASSUME ~misled' PROVE Sound'
      BY <1>3, <1>4 DEF GCInv
<1>6. Supported /\ CountInv
      BY <1>1, <1>5 DEF GCInv, Sound
<1>7. PICK O, G, N : Since(O, G, N) /\ \E V, T, F : Counting(V, T, F, O, G)
      BY <1>6 DEF CountInv
<1>8. PICK V, T, F : Counting(V, T, F, O, G)
      BY <1>7
<1>9. /\ V \subseteq live \X Objs
      /\ \A x \in V : x[1] \in F /\ RefersTo(x[1], x[2])
      /\ \A o \in live : Counted(o) = Cardinality({p \in live : <<p, o>> \in V})
      /\ F \subseteq live
      /\ \A e \in F \cap Exprs : e \notin O /\ \A p \in live : <<p, e>> \in G => <<p, e>> \in V
      BY <1>8 DEF Counting
<1>10. \A p, o : <<p, o>> \in V => p \in F /\ RefersTo(p, o)
  <2>1. ASSUME NEW p, NEW o, <<p, o>> \in V PROVE p \in F /\ RefersTo(p, o)
    <3>1. <<p, o>>[1] \in F /\ RefersTo(<<p, o>>[1], <<p, o>>[2])
          BY <1>9, <2>1
    <3> QED BY <3>1
  <2> QED BY <2>1
<1>11. /\ O \subseteq outside /\ N \subseteq outside
       /\ G \subseteq live \X Objs
       /\ \A x \in G : RefersTo(x[1], x[2])
       /\ \A p \in live, o \in Objs : RefersTo(p, o) => <<p, o>> \in G \/ o \in outside
       /\ \A R \in SUBSET Objs :
            O \subseteq R /\ (\A x \in G : x[1] \in R => x[2] \in R) => outside \subseteq R \cup N
       BY <1>7 DEF Since
<1>12. ASSUME NEW x \in G
       PROVE  /\ x = <<x[1], x[2]>> /\ x[1] \in live /\ x[2] \in live /\ RefersTo(x[1], x[2])
  <2>1. x = <<x[1], x[2]>> /\ x[1] \in live /\ x[2] \in Objs /\ RefersTo(x[1], x[2])
        BY <1>11
  <2> QED BY <1>1, <2>1 DEF Shapes
\* All references to what is counted like this are visited.
<1>13. ASSUME NEW o \in live, Counted(o) = Refcount(o)
       PROVE  o \notin outside /\ \A p \in live : RefersTo(p, o) => p \in F
  <2>1. PICK A : A = {p \in live : <<p, o>> \in V}
        OBVIOUS
  <2>2. A \in SUBSET live /\ Cardinality(A) = Refcount(o) /\ \A p \in A : RefersTo(p, o) /\ p \in F
        BY <1>9, <1>10, <1>13, <2>1
  <2> QED BY <1>1, <2>2, Refcounts
<1>14. PICK U : U = {e \in live \cap Exprs : e \notin F}
      OBVIOUS
<1>15. Unexplained(U, O, G)
  <2>1. O \cap Exprs \subseteq U
        BY <1>2, <1>9, <1>11, <1>14
  <2>2. ASSUME NEW x \in G, x[1] \in U, x[2] \in Exprs PROVE x[2] \in U
    <3>1. SUFFICES ASSUME x[2] \in F PROVE FALSE
          BY <1>12, <1>14, <2>2
    <3>2. <<x[1], x[2]>> \in V
          BY <1>9, <1>12, <2>2, <3>1
    <3> QED BY <1>10, <1>14, <2>2, <3>2
  <2> QED BY <1>14, <2>1, <2>2 DEF Unexplained
<1>16. ASSUME NEW s \in live \cap Syms, Counted(s) = Refcount(s) PROVE Unused(U, O, G, N, s)
  <2>1. s \notin O /\ s \notin N
        BY <1>11, <1>13, <1>16
  <2>2. ASSUME NEW x \in G, x[2] = s PROVE x[1] \notin U
        BY <1>12, <1>13, <1>14, <1>16, <2>2
  <2> QED BY <2>1, <2>2 DEF Unused
\* What no value refers to, and is not used since the pass began, is new.
<1>17. ASSUME NEW e \in live \cap Exprs, Is(e, AliveVisited), e \notin U PROVE e \in N
  <2>1. e \in F
        BY <1>14, <1>17
  <2>2. Counted(e) = 0
        BY <1>17 DEF Is, AliveVisited, Counted
  <2>3. PICK A : A = {p \in live : <<p, e>> \in V}
        OBVIOUS
  <2>4. IsFiniteSet(A) /\ Cardinality(A) = 0
        BY <1>1, <1>9, <1>17, <2>2, <2>3, FiniteLive
  <2>5. A = {}
        BY <2>4, FS_EmptySet
  <2>6. \A p \in live : <<p, e>> \notin G
        BY <1>9, <1>17, <2>1, <2>3, <2>5
  <2>7. e \in outside
        BY <1>2, <1>6, <1>11, <1>17, <2>6 DEF Supported
  <2>8. PICK R : R = Objs \ {e}
        OBVIOUS
  <2>9. O \subseteq R
        BY <1>2, <1>9, <1>11, <1>17, <2>1, <2>8
  <2>10. ASSUME NEW x \in G, x[1] \in R PROVE x[2] \in R
         BY <1>2, <1>12, <2>6, <2>8
  <2>11. outside \subseteq R \cup N
         BY <1>11, <2>8, <2>9, <2>10
  <2> QED BY <2>7, <2>8, <2>11
<1>18. ASSUME NEW s \in live \cap Syms PROVE Counted(s) <= Cardinality(UsersOf(s))
  <2>1. PICK A, B : A = {p \in live : <<p, s>> \in V} /\ B = UsersOf(s)
        OBVIOUS
  <2>2. A \in SUBSET B /\ B \in SUBSET live
        BY <1>10, <2>1 DEF UsersOf
  <2>3. IsFiniteSet(B)
        BY <1>1, <2>2, FiniteLive
  <2>4. Cardinality(A) <= Cardinality(B)
        BY <2>2, <2>3, FS_Subset
  <2> QED BY <1>9, <2>1, <2>4
<1>19. MarkInv'
  <2>1. /\ live' = live /\ outside' = outside /\ ToSet(rest') = Syms
        /\ \A o : Refcount(o)' = Refcount(o) /\ \A p : RefersTo(p, o)' <=> RefersTo(p, o)
        BY <1>1, SameRefcounts, OrderFacts DEF objects
  <2>2. \A o, m : Counted(o)' = Counted(o) /\ (Is(o, m)' <=> Is(o, m))
        BY <1>1 DEF Counted, Is
  <2>3. Unexplained(U, O, G)'
        BY <1>15 DEF Unexplained
  <2>4. \A s : Unused(U, O, G, N, s)' <=> Unused(U, O, G, N, s)
        BY DEF Unused
  <2>5. \A s : UsersOf(s)' = UsersOf(s)
        BY <2>1 DEF UsersOf
  <2>6. \A e \in live' \cap Exprs : Is(e, AliveVisited)' => e \in U \/ e \in N
        BY <1>17, <2>1, <2>2 DEF AliveVisited
  <2>7. ASSUME NEW s \in live' \cap Syms
        PROVE  /\ s \in ToSet(rest')
               /\ Counted(s)' <= Cardinality(UsersOf(s))'
               /\ Counted(s)' = Refcount(s)' => Unused(U, O, G, N, s)'
    <3>1. Cardinality(UsersOf(s))' = Cardinality(UsersOf(s))
          BY <2>5
    <3> QED BY <1>16, <1>18, <2>1, <2>2, <2>4, <2>7, <3>1
  <2>8. Marking(U, O, G, N)'
        BY <2>6, <2>7 DEF Marking
  <2> QED BY <1>1, <1>7, <2>3, <2>8, SinceKept DEF MarkInv
<1> QED BY <1>1, <1>6, <1>19, SupportedKept DEF Sound

LEMMA MarkSymbolStep ==
  ASSUME GCInv, MarkSymbol
  PROVE  GCInv'
<1>1. PICK s : s = Head(rest)
      OBVIOUS
<1>2. /\ phase = "mark" /\ phase' = "mark" /\ todo = <<>> /\ s \in Syms /\ s \in ToSet(rest)
      /\ rest' \in Seq(Syms) /\ Once(rest')
      /\ ToSet(rest') \subseteq ToSet(rest) /\ s \notin ToSet(rest')
      /\ ToSet(rest) \subseteq ToSet(rest') \cup {s}
      /\ IF s \in live
         THEN IF Counted(s) = Refcount(s)
              THEN SetCount(s, PossiblyDead) /\ dead' = dead + 1
              ELSE SetCount(s, AliveUnvisited) /\ UNCHANGED dead
         ELSE UNCHANGED <<bit, seen, dead>>
      /\ UNCHANGED <<objects, pass, todo, visiting, resurrected, misled>>
      /\ Shapes
      BY <1>1, NextSymbol DEF GCInv, MarkSymbol, counts
<1>3. /\ pass \in 0..1 /\ bit \in [Objs -> 0..1] /\ seen \in [Objs -> Nat] /\ todo \in Seq(Objs)
      /\ dead \in Nat /\ resurrected \in Nat /\ live \in SUBSET Objs
      /\ visiting \in Objs \cup {Undefined} /\ misled \in BOOLEAN
      /\ Syms \subseteq Objs /\ Exprs \subseteq Objs /\ Syms \cap Exprs = {}
      BY <1>2, GCAssumption DEF Shapes, GCTypeOK, Objs
<1>4. /\ bit' \in [Objs -> 0..1] /\ seen' \in [Objs -> Nat] /\ dead' \in Nat
      /\ \A o \in Objs \ {s} : Counted(o)' = Counted(o) /\ \A m : Is(o, m)' <=> Is(o, m)
      /\ s \in live => Is(s, PossiblyDead)' \/ Is(s, AliveUnvisited)'
      /\ Is(s, PossiblyDead)' /\ s \in live => Counted(s) = Refcount(s) /\ dead' = dead + 1
      /\ ~(Is(s, PossiblyDead)' /\ s \in live) => dead' = dead
  <2>1. CASE s \notin live
        BY <1>2, <1>3, <2>1 DEF Counted, Is
  <2>2. CASE s \in live /\ Counted(s) = Refcount(s)
    <3>1. SetCount(s, PossiblyDead) /\ dead' = dead + 1 /\ PossiblyDead \in 0..2 /\ s \in Objs
          BY <1>2, <1>3, <2>2 DEF PossiblyDead
    <3>2. /\ bit' \in [Objs -> 0..1] /\ seen' \in [Objs -> Nat]
          /\ \A k : Is(s, k)' <=> k = PossiblyDead
          /\ \A c \in Objs \ {s} : Counted(c)' = Counted(c) /\ \A k : Is(c, k)' <=> Is(c, k)
          BY <1>2, <3>1, SetMark
    <3>3. Is(s, PossiblyDead)'
          BY <3>2 DEF PossiblyDead
    <3> QED BY <1>3, <2>2, <3>1, <3>2, <3>3
  <2>3. CASE s \in live /\ Counted(s) # Refcount(s)
    <3>1. SetCount(s, AliveUnvisited) /\ dead' = dead /\ AliveUnvisited \in 0..2 /\ s \in Objs
          BY <1>2, <1>3, <2>3 DEF AliveUnvisited
    <3>2. /\ bit' \in [Objs -> 0..1] /\ seen' \in [Objs -> Nat]
          /\ \A k : Is(s, k)' <=> k = AliveUnvisited
          /\ \A c \in Objs \ {s} : Counted(c)' = Counted(c) /\ \A k : Is(c, k)' <=> Is(c, k)
          BY <1>2, <3>1, SetMark
    <3>3. Is(s, AliveUnvisited)' /\ ~Is(s, PossiblyDead)'
          BY <3>2 DEF PossiblyDead, AliveUnvisited
    <3> QED BY <1>3, <2>3, <3>1, <3>2, <3>3
  <2> QED BY <2>1, <2>2, <2>3
<1>5. Shapes'
      BY <1>2, <1>3, <1>4, PassShapes
<1>6. live' = live /\ outside' = outside /\ \A o : Refcount(o)' = Refcount(o) /\ UsersOf(o)' = UsersOf(o)
      BY <1>2, SameRefcounts DEF objects, UsersOf
<1>7. DeadInv'
  <2>1. PICK D, E : D = Doomed \ ToSet(rest) /\ E = (Doomed \ ToSet(rest))'
        OBVIOUS
  <2>2. D \in SUBSET live /\ s \notin D /\ dead >= Cardinality(D) /\ resurrected = 0
        BY <1>2, <2>1 DEF Doomed, GCInv, DeadInv
  <2>3. \A x : x # s => (x \in E <=> x \in D)
        BY <1>2, <1>3, <1>4, <1>6, <2>1 DEF Doomed, PossiblyDead
  <2>4. s \in E <=> s \in live /\ Is(s, PossiblyDead)'
        BY <1>2, <1>6, <2>1 DEF Doomed
  <2>5. PICK k \in Nat : k = Cardinality(D)
        BY <1>2, <2>2, FiniteLive
  <2>6. dead' >= Cardinality(E)
    <3>1. CASE s \in E
      <4>1. E = D \cup {s}
            BY <2>3, <3>1
      <4>2. Cardinality(E) = k + 1
            BY <1>2, <2>2, <2>5, <4>1, FiniteLive, FS_AddElement
      <4>3. dead' = dead + 1
            BY <1>4, <2>4, <3>1
      <4> QED BY <1>3, <2>2, <2>5, <4>2, <4>3
    <3>2. CASE s \notin E
      <4>1. E = D
            BY <2>2, <2>3, <3>2
      <4> QED BY <1>4, <2>2, <2>4, <3>2, <4>1
    <3> QED BY <3>1, <3>2
  <2>7. Cardinality(Doomed \ ToSet(rest))' = Cardinality(E)
        BY <2>1
  <2> QED BY <1>2, <2>2, <2>6, <2>7 DEF DeadInv
<1>8. SUFFICES ASSUME ~misled' PROVE Sound'
      BY <1>5, <1>7 DEF GCInv
<1>9. Supported /\ MarkInv
      BY <1>2, <1>8 DEF GCInv, Sound
<1>10. PICK O, G, N : Since(O, G, N) /\ \E U : Unexplained(U, O, G) /\ Marking(U, O, G, N)
       BY <1>9 DEF MarkInv
<1>11. PICK U : Unexplained(U, O, G) /\ Marking(U, O, G, N)
       BY <1>10
<1>12. Unexplained(U, O, G)' /\ \A x : Unused(U, O, G, N, x)' <=> Unused(U, O, G, N, x)
       BY <1>11 DEF Unexplained, Unused
<1>13. \A e \in live' \cap Exprs : Is(e, AliveVisited)' => e \in U \/ e \in N
       BY <1>2, <1>3, <1>4, <1>6, <1>11 DEF Marking, AliveVisited
<1>14. ASSUME NEW x \in live \cap Syms
       PROVE  IF x \in ToSet(rest')
              THEN /\ Counted(x)' <= Cardinality(UsersOf(x))'
                   /\ Counted(x)' = Refcount(x)' => Unused(U, O, G, N, x)'
              ELSE \/ Is(x, AliveUnvisited)'
                   \/ Is(x, PossiblyDead)' /\ Unused(U, O, G, N, x)'
                   \/ x \in N /\ ~Is(x, PossiblyDead)'
  <2>1. CASE x = s
    <3>1. Counted(s) = Refcount(s) => Unused(U, O, G, N, s)
          BY <1>2, <1>11, <1>14, <2>1 DEF Marking
    <3> QED BY <1>2, <1>4, <1>12, <1>14, <2>1, <3>1
  <2>2. CASE x # s
    <3>1. /\ Counted(x)' = Counted(x)
          /\ (Is(x, AliveUnvisited)' <=> Is(x, AliveUnvisited))
          /\ (Is(x, PossiblyDead)' <=> Is(x, PossiblyDead))
          /\ Refcount(x)' = Refcount(x)
          BY <1>3, <1>4, <1>6, <2>2 DEF AliveUnvisited, PossiblyDead
    <3>2. Cardinality(UsersOf(x))' = Cardinality(UsersOf(x))
          BY <1>6
    <3>3. x \in ToSet(rest') <=> x \in ToSet(rest)
          BY <1>2, <2>2
    <3>4. IF x \in ToSet(rest)
          THEN /\ Counted(x) <= Cardinality(UsersOf(x))
               /\ Counted(x) = Refcount(x) => Unused(U, O, G, N, x)
          ELSE \/ Is(x, AliveUnvisited)
               \/ Is(x, PossiblyDead) /\ Unused(U, O, G, N, x)
               \/ x \in N /\ ~Is(x, PossiblyDead)
          BY <1>11 DEF Marking
    <3> QED BY <1>12, <3>1, <3>2, <3>3, <3>4
  <2> QED BY <2>1, <2>2
<1>15. Marking(U, O, G, N)'
       BY <1>6, <1>13, <1>14 DEF Marking
<1>16. MarkInv'
       BY <1>2, <1>10, <1>12, <1>15, SinceKept DEF MarkInv
<1> QED BY <1>2, <1>9, <1>16, SupportedKept DEF Sound

LEMMA MarksDoneStep ==
  ASSUME GCInv, MarksDone
  PROVE  GCInv'
<1>1. /\ phase = "mark" /\ todo = <<>> /\ rest = <<>>
      /\ phase' = IF dead = 0 THEN "none" ELSE "propagate"
      /\ rest' = IF dead = 0 THEN <<>> ELSE Order
      /\ UNCHANGED <<objects, pass, bit, seen, todo, visiting, dead, resurrected, misled>>
      /\ Shapes
      BY DEF GCInv, MarksDone, Through, counts
<1>2. /\ pass \in 0..1 /\ bit \in [Objs -> 0..1] /\ seen \in [Objs -> Nat] /\ todo \in Seq(Objs)
      /\ dead \in Nat /\ resurrected \in Nat /\ live \in SUBSET Objs
      /\ visiting \in Objs \cup {Undefined} /\ misled \in BOOLEAN
      BY <1>1 DEF Shapes, GCTypeOK
<1>3. ToSet(<<>>) = {} /\ Once(<<>>) /\ <<>> \in Seq(Syms)
      BY DEF ToSet, Once
<1>4. Shapes'
  <2>1. rest' \in Seq(Syms) /\ Once(rest')
        BY <1>1, <1>3, OrderFacts
  <2> QED BY <1>1, <1>2, <2>1, PassShapes
<1>5. DeadInv'
  <2>1. Cardinality(Doomed) \in Nat
        BY <1>1, FiniteLive DEF Doomed
  <2>2. dead >= Cardinality(Doomed) /\ resurrected = 0
    <3>1. Doomed \ ToSet(rest) = Doomed
          BY <1>1, <1>3
    <3> QED BY <1>1, <3>1 DEF GCInv, DeadInv
  <2>3. Doomed' = Doomed
        BY <1>1 DEF Doomed, Is, objects
  <2>4. Cardinality(Doomed)' = Cardinality(Doomed)
        BY <2>3
  <2> QED BY <1>1, <1>2, <2>1, <2>2, <2>4 DEF DeadInv
<1>6. SUFFICES ASSUME ~misled' PROVE Sound'
      BY <1>4, <1>5 DEF GCInv
<1>7. CASE dead = 0
      BY <1>1, <1>7 DEF Sound
<1>8. CASE dead # 0
  <2>1. phase' = "propagate" /\ ToSet(rest') = Syms /\ ToSet(todo') = {}
        BY <1>1, <1>3, <1>8, OrderFacts
  <2>2. Supported /\ MarkInv
        BY <1>1, <1>6 DEF GCInv, Sound
  <2>3. PICK O, G, N : Since(O, G, N) /\ \E U : Unexplained(U, O, G) /\ Marking(U, O, G, N)
        BY <2>2 DEF MarkInv
  <2>4. PICK U : Unexplained(U, O, G) /\ Marking(U, O, G, N)
        BY <2>3
  <2>5. /\ \A e \in live \cap Exprs : Is(e, AliveVisited) => e \in U \/ e \in N
        /\ \A x \in live \cap Syms : \/ Is(x, AliveUnvisited)
                                     \/ Is(x, PossiblyDead) /\ Unused(U, O, G, N, x)
                                     \/ x \in N /\ ~Is(x, PossiblyDead)
        BY <1>1, <1>3, <2>4 DEF Marking
  <2>6. live' = live /\ outside' = outside /\ \A o, m : Is(o, m)' <=> Is(o, m)
        BY <1>1 DEF objects, Is
  <2>7. Unexplained(U, O, G)' /\ \A x : Unused(U, O, G, N, x)' <=> Unused(U, O, G, N, x)
        BY <2>4 DEF Unexplained, Unused
  <2>8. ASSUME NEW x \in G PROVE x[1] \in live /\ x[2] \in live /\ x[1] \notin N
    <3>1. x[1] \in live /\ x[2] \in Objs /\ RefersTo(x[1], x[2]) /\ x[1] \notin N
          BY <2>3 DEF Since
    <3> QED BY <1>1, <3>1 DEF Shapes
  <2>9. ASSUME NEW x \in G, Is(x[1], AliveVisited)' PROVE Fine(U, x[2])'
    <3>1. x[1] \in U
      <4>1. Is(x[1], AliveVisited)
            BY <2>6, <2>9 DEF AliveVisited
      <4>2. x[1] \notin Syms
            BY <2>5, <2>8, <4>1 DEF Is, AliveVisited, AliveUnvisited, PossiblyDead
      <4> QED BY <1>2, <2>5, <2>8, <4>1, <4>2 DEF Objs
    <3>2. CASE x[2] \in Exprs
          BY <2>4, <3>1, <3>2 DEF Unexplained, Fine
    <3>3. CASE x[2] \in Syms
      <4>1. ~Unused(U, O, G, N, x[2])
            BY <3>1 DEF Unused
      <4>2. ~Is(x[2], PossiblyDead)
            BY <2>5, <2>8, <3>3, <4>1 DEF Is, AliveUnvisited, PossiblyDead
      <4> QED BY <2>6, <3>3, <4>2 DEF Fine, PossiblyDead
    <3> QED BY <1>2, <2>8, <3>2, <3>3 DEF Objs
  <2>10. ASSUME NEW x \in live \cap Syms
         PROVE  /\ \/ Is(x, AliveVisited)' \/ Is(x, AliveUnvisited)'
                   \/ Is(x, PossiblyDead)' /\ Unused(U, O, G, N, x)'
                   \/ x \in N /\ ~Is(x, PossiblyDead)'
                /\ x \in ToSet(rest')
         BY <2>1, <2>5, <2>6, <2>7 DEF AliveUnvisited, AliveVisited, PossiblyDead
  <2>11. Propagating(U, O, G, N)'
         BY <2>1, <2>6, <2>9, <2>10 DEF Propagating
  <2>12. PropagateInv'
         BY <1>1, <2>3, <2>7, <2>11, SinceKept DEF PropagateInv
  <2> QED BY <1>1, <2>1, <2>2, <2>12, SupportedKept DEF Sound
<1> QED BY <1>7, <1>8

-----------------------------------------------------------------------------
(* What is alive.                                                          *)

LEMMA PropagateSymbolStep ==
  ASSUME GCInv, PropagateSymbol
  PROVE  GCInv'
<1>1. PICK s : s = Head(rest)
      OBVIOUS
<1>2. /\ phase = "propagate" /\ phase' = "propagate" /\ todo = <<>> /\ s \in Syms /\ s \in ToSet(rest)
      /\ rest' \in Seq(Syms) /\ Once(rest')
      /\ ToSet(rest') \subseteq ToSet(rest) /\ ToSet(rest) \subseteq ToSet(rest') \cup {s}
      /\ IF s \in live /\ ~Is(s, AliveVisited) /\ ~Is(s, PossiblyDead)
         THEN SetCount(s, AliveVisited) /\ Visit(s)
         ELSE UNCHANGED <<bit, seen, todo, visiting>>
      /\ UNCHANGED <<objects, pass, dead, resurrected, misled>>
      /\ Shapes
      BY <1>1, NextSymbol DEF GCInv, PropagateSymbol, counts
<1>3. /\ pass \in 0..1 /\ bit \in [Objs -> 0..1] /\ seen \in [Objs -> Nat] /\ todo \in Seq(Objs)
      /\ dead \in Nat /\ resurrected \in Nat /\ live \in SUBSET Objs
      /\ value \in [Syms -> Objs \cup {Undefined}]
      /\ visiting \in Objs \cup {Undefined} /\ misled \in BOOLEAN
      /\ Syms \subseteq Objs /\ Exprs \subseteq Objs /\ Syms \cap Exprs = {} /\ Undefined \notin Objs
      BY <1>2, GCAssumption DEF Shapes, GCTypeOK, Objs
<1>4. /\ bit' \in [Objs -> 0..1] /\ seen' \in [Objs -> Nat] /\ todo' \in Seq(Objs)
      /\ visiting' \in Objs \cup {Undefined} /\ (todo' = todo \/ ToSet(todo') \subseteq live)
      /\ \A o \in Objs \ {s} : \A m : Is(o, m)' <=> Is(o, m)
      /\ s \in live => (Is(s, PossiblyDead)' <=> Is(s, PossiblyDead))
      /\ s \in live /\ ~Is(s, PossiblyDead) => Is(s, AliveVisited)'
  <2>1. CASE SetCount(s, AliveVisited) /\ Visit(s) /\ ~Is(s, PossiblyDead)
    <3>1. AliveVisited \in 0..2 /\ s \in Objs
          BY <1>2, <1>3 DEF AliveVisited
    <3>2. /\ bit' \in [Objs -> 0..1] /\ seen' \in [Objs -> Nat]
          /\ \A k : Is(s, k)' <=> k = AliveVisited
          /\ \A c \in Objs \ {s} : \A k : Is(c, k)' <=> Is(c, k)
          BY <1>2, <2>1, <3>1, SetMark
    <3>3. Is(s, AliveVisited)' /\ ~Is(s, PossiblyDead)'
          BY <3>2 DEF PossiblyDead, AliveVisited
    <3> QED BY <1>2, <2>1, <3>2, <3>3, VisitTypes
  <2>2. CASE UNCHANGED <<bit, seen, todo, visiting>> /\ ~(s \in live /\ ~Is(s, AliveVisited) /\ ~Is(s, PossiblyDead))
        BY <1>2, <1>3, <2>2 DEF Is, PossiblyDead, AliveVisited
  <2> QED BY <1>2, <2>1, <2>2
<1>5. Shapes'
      BY <1>2, <1>3, <1>4, PassShapes
<1>6. /\ live' = live /\ outside' = outside /\ value' = value
      /\ \A p, o : p \in live /\ o \in Objs /\ RefersTo(p, o) => o \in live
      BY <1>2 DEF objects, Shapes
<1>7. DeadInv'
  <2>1. dead >= Cardinality(Doomed) + resurrected
        BY <1>2 DEF GCInv, DeadInv
  <2>2. Doomed' = Doomed
        BY <1>3, <1>4, <1>6 DEF Doomed, PossiblyDead
  <2>3. Cardinality(Doomed)' = Cardinality(Doomed)
        BY <2>2
  <2> QED BY <1>2, <2>1, <2>3 DEF DeadInv
<1>8. SUFFICES ASSUME ~misled' PROVE Sound'
      BY <1>5, <1>7 DEF GCInv
<1>9. Supported /\ PropagateInv
      BY <1>2, <1>8 DEF GCInv, Sound
<1>10. PICK O, G, N : Since(O, G, N) /\ \E U : Unexplained(U, O, G) /\ Propagating(U, O, G, N)
       BY <1>9 DEF PropagateInv
<1>11. PICK U : Unexplained(U, O, G) /\ Propagating(U, O, G, N)
       BY <1>10
<1>12. /\ \A x \in live \cap Syms :
            /\ \/ Is(x, AliveVisited) \/ Is(x, AliveUnvisited)
               \/ Is(x, PossiblyDead) /\ Unused(U, O, G, N, x)
               \/ x \in N /\ ~Is(x, PossiblyDead)
            /\ resurrected = 0 /\ x \notin ToSet(rest) => ~Is(x, AliveUnvisited)
       /\ \A x \in G : Is(x[1], AliveVisited) => Fine(U, x[2])
       BY <1>11 DEF Propagating
<1>13. Unexplained(U, O, G)' /\ \A x : Unused(U, O, G, N, x)' <=> Unused(U, O, G, N, x)
       BY <1>11 DEF Unexplained, Unused
<1>14. ASSUME NEW x \in G PROVE x[1] \in live /\ x[2] \in live /\ RefersTo(x[1], x[2])
  <2>1. x[1] \in live /\ x[2] \in Objs /\ RefersTo(x[1], x[2])
        BY <1>10 DEF Since
  <2> QED BY <1>6, <2>1
<1>15. ToSet(todo) = {}
       BY <1>2 DEF ToSet
<1>16. ASSUME NEW o \in live, Fine(U, o) PROVE Fine(U, o)'
  <2>1. CASE o \in Syms
    <3>1. ~Is(o, PossiblyDead)
          BY <1>3, <1>15, <1>16, <2>1 DEF Fine
    <3>2. ~Is(o, PossiblyDead)'
          BY <1>3, <1>4, <2>1, <3>1 DEF PossiblyDead
    <3> QED BY <2>1, <3>2 DEF Fine
  <2>2. CASE o \in Exprs
    <3>1. o \in U \/ Is(o, AliveVisited)
          BY <1>3, <1>15, <1>16, <2>2 DEF Fine
    <3>2. o \in U \/ Is(o, AliveVisited)'
          BY <1>2, <1>3, <1>4, <2>2, <3>1 DEF AliveVisited
    <3> QED BY <2>2, <3>2 DEF Fine
  <2> QED BY <1>3, <2>1, <2>2 DEF Objs
<1>18. ASSUME NEW x \in G, Is(x[1], AliveVisited)' PROVE Fine(U, x[2])'
  <2>1. CASE Is(x[1], AliveVisited)
        BY <1>12, <1>14, <1>16, <2>1
  <2>2. CASE ~Is(x[1], AliveVisited)
    <3>1. x[1] = s /\ Visit(s) /\ s \in live
          BY <1>2, <1>3, <1>4, <1>14, <1>18, <2>2 DEF AliveVisited, Is
    <3>2. value[s] = x[2] /\ x[2] # Undefined
          BY <1>2, <1>3, <1>14, <3>1 DEF RefersTo
    <3>3. todo' = <<x[2]>>
          BY <3>1, <3>2 DEF Visit
    <3>4. x[2] \in ToSet(todo')
          BY <3>3 DEF ToSet
    <3> QED BY <3>4 DEF Fine
  <2> QED BY <2>1, <2>2
<1>19. ASSUME NEW x \in live \cap Syms
       PROVE  /\ \/ Is(x, AliveVisited)' \/ Is(x, AliveUnvisited)'
                 \/ Is(x, PossiblyDead)' /\ Unused(U, O, G, N, x)'
                 \/ x \in N /\ ~Is(x, PossiblyDead)'
              /\ resurrected' = 0 /\ x \notin ToSet(rest') => ~Is(x, AliveUnvisited)'
  <2>1. CASE x = s
    <3>1. Is(s, AliveVisited)' \/ (Is(s, PossiblyDead)' /\ Unused(U, O, G, N, s)')
      <4>1. CASE Is(s, PossiblyDead)
        <5>1. Unused(U, O, G, N, s)
              BY <1>12, <1>19, <2>1, <4>1 DEF Is, AliveVisited, AliveUnvisited, PossiblyDead
        <5> QED BY <1>4, <1>13, <1>19, <2>1, <4>1, <5>1
      <4> QED BY <1>4, <1>19, <2>1, <4>1
    <3>2. ~Is(s, AliveUnvisited)'
          BY <3>1 DEF Is, AliveVisited, AliveUnvisited, PossiblyDead
    <3> QED BY <2>1, <3>1, <3>2
  <2>2. CASE x # s
    <3>1. /\ Is(x, AliveVisited)' <=> Is(x, AliveVisited)
          /\ Is(x, AliveUnvisited)' <=> Is(x, AliveUnvisited)
          /\ Is(x, PossiblyDead)' <=> Is(x, PossiblyDead)
          BY <1>3, <1>4, <2>2 DEF AliveVisited, AliveUnvisited, PossiblyDead
    <3> QED BY <1>2, <1>12, <1>13, <2>2, <3>1
  <2> QED BY <2>1, <2>2
<1>20. Propagating(U, O, G, N)'
       BY <1>6, <1>18, <1>19 DEF Propagating
<1>21. PropagateInv'
       BY <1>2, <1>10, <1>13, <1>20, SinceKept DEF PropagateInv
<1> QED BY <1>2, <1>9, <1>21, SupportedKept DEF Sound

LEMMA PropagateRefStep ==
  ASSUME GCInv, PropagateRef
  PROVE  GCInv'
<1>1. PICK o : o = Head(todo)
      OBVIOUS
<1>2. /\ phase = "propagate" /\ phase' = "propagate" /\ todo # <<>>
      /\ \/ /\ Is(o, AliveVisited) \/ (o \in Syms /\ ~Is(o, PossiblyDead))
            /\ Visited(Tail(todo))
            /\ UNCHANGED <<bit, seen, resurrected>>
         \/ /\ o \in Syms /\ Is(o, PossiblyDead)
            /\ SetCount(o, AliveUnvisited)
            /\ Visited(Tail(todo))
            /\ resurrected' = resurrected + 1
         \/ /\ o \in Exprs /\ ~Is(o, AliveVisited)
            /\ SetCount(o, AliveVisited)
            /\ Visited(SetToSeq(part[o]) \o Tail(todo))
            /\ UNCHANGED resurrected
      /\ UNCHANGED <<objects, pass, rest, dead, misled>>
      /\ Shapes
      BY <1>1 DEF GCInv, PropagateRef, counts
<1>3. /\ pass \in 0..1 /\ bit \in [Objs -> 0..1] /\ seen \in [Objs -> Nat] /\ todo \in Seq(Objs)
      /\ rest \in Seq(Syms) /\ Once(rest)
      /\ dead \in Nat /\ resurrected \in Nat /\ live \in SUBSET Objs /\ misled \in BOOLEAN
      /\ value \in [Syms -> Objs \cup {Undefined}]
      /\ Syms \subseteq Objs /\ Exprs \subseteq Objs /\ Syms \cap Exprs = {} /\ Undefined \notin Objs
      BY <1>2, GCAssumption DEF Shapes, GCTypeOK, Objs
<1>4. /\ o \in Objs /\ o \in live /\ Tail(todo) \in Seq(Objs) /\ ToSet(Tail(todo)) \subseteq live
      /\ o \in Exprs => /\ part[o] \in SUBSET Objs /\ part[o] \subseteq live
                        /\ SetToSeq(part[o]) \o Tail(todo) \in Seq(Objs)
                        /\ ToSet(SetToSeq(part[o]) \o Tail(todo)) = part[o] \cup ToSet(Tail(todo))
  <2>1. PICK a, b : a = SetToSeq(part[o]) /\ b = Tail(todo)
        OBVIOUS
  <2>2. /\ o \in Objs /\ o \in live /\ b \in Seq(Objs) /\ ToSet(b) \subseteq live
        /\ o \in Exprs => part[o] \in SUBSET Objs /\ part[o] \subseteq live /\ a \in Seq(Objs) /\ ToSet(a) = part[o]
        BY <1>1, <1>2, <2>1, VisitPart
  <2>3. o \in Exprs => a \o b \in Seq(Objs) /\ ToSet(a \o b) = ToSet(a) \cup ToSet(b)
        BY <2>2, Both
  <2> QED BY <2>1, <2>2, <2>3
<1>5. PICK q : q = todo
      OBVIOUS
<1>6. q \in Seq(Objs) /\ q # <<>> /\ o = Head(q)
      BY <1>1, <1>2, <1>3, <1>5
<1>7. o \in ToSet(todo) /\ ToSet(Tail(todo)) \subseteq ToSet(todo) /\ ToSet(todo) \subseteq ToSet(Tail(todo)) \cup {o}
      BY <1>5, <1>6, Ends
<1>8. /\ todo' \in Seq(Objs) /\ visiting' \in Objs \cup {Undefined} /\ ToSet(todo') \subseteq live
      /\ \/ todo' = Tail(todo) /\ (o \in Syms \/ Is(o, AliveVisited))
         \/ todo' = SetToSeq(part[o]) \o Tail(todo) /\ o \in Exprs
  <2>1. CASE Visited(Tail(todo)) /\ (o \in Syms \/ Is(o, AliveVisited))
        BY <1>2, <1>4, <2>1, VisitedTypes
  <2>2. CASE o \in Exprs /\ Visited(SetToSeq(part[o]) \o Tail(todo))
        BY <1>2, <1>4, <2>2, VisitedTypes
  <2> QED BY <1>2, <2>1, <2>2
<1>9. /\ bit' \in [Objs -> 0..1] /\ seen' \in [Objs -> Nat] /\ resurrected' \in Nat
      /\ \A x \in Objs \ {o} : \A m : Is(x, m)' <=> Is(x, m)
      /\ o \in Syms => /\ ~Is(o, PossiblyDead)'
                       /\ (Is(o, AliveVisited)' <=> Is(o, AliveVisited))
                       /\ Is(o, PossiblyDead) => Is(o, AliveUnvisited)' /\ resurrected' = resurrected + 1
                       /\ ~Is(o, PossiblyDead) =>
                            resurrected' = resurrected /\ (Is(o, AliveUnvisited)' <=> Is(o, AliveUnvisited))
      /\ o \in Exprs => Is(o, AliveVisited)' /\ resurrected' = resurrected
  <2>1. CASE UNCHANGED <<bit, seen, resurrected>> /\ (Is(o, AliveVisited) \/ (o \in Syms /\ ~Is(o, PossiblyDead)))
        BY <1>2, <1>3, <1>4, <2>1 DEF Is, PossiblyDead, AliveVisited, AliveUnvisited
  <2>2. CASE o \in Syms /\ Is(o, PossiblyDead) /\ SetCount(o, AliveUnvisited) /\ resurrected' = resurrected + 1
    <3>1. AliveUnvisited \in 0..2
          BY DEF AliveUnvisited
    <3>2. /\ bit' \in [Objs -> 0..1] /\ seen' \in [Objs -> Nat]
          /\ \A k : Is(o, k)' <=> k = AliveUnvisited
          /\ \A c \in Objs \ {o} : \A k : Is(c, k)' <=> Is(c, k)
          BY <1>2, <1>4, <2>2, <3>1, SetMark
    <3>3. Is(o, AliveUnvisited)' /\ ~Is(o, PossiblyDead)' /\ ~Is(o, AliveVisited)' /\ ~Is(o, AliveVisited)
          BY <2>2, <3>2 DEF Is, PossiblyDead, AliveUnvisited, AliveVisited
    <3> QED BY <1>3, <2>2, <3>2, <3>3
  <2>3. CASE o \in Exprs /\ SetCount(o, AliveVisited) /\ resurrected' = resurrected
    <3>1. AliveVisited \in 0..2
          BY DEF AliveVisited
    <3>2. /\ bit' \in [Objs -> 0..1] /\ seen' \in [Objs -> Nat]
          /\ \A k : Is(o, k)' <=> k = AliveVisited
          /\ \A c \in Objs \ {o} : \A k : Is(c, k)' <=> Is(c, k)
          BY <1>2, <1>4, <2>3, <3>1, SetMark
    <3>3. Is(o, AliveVisited)'
          BY <3>2 DEF AliveVisited
    <3> QED BY <1>3, <2>3, <3>2, <3>3
  <2> QED BY <1>2, <2>1, <2>2, <2>3
<1>10. Shapes'
       BY <1>2, <1>3, <1>8, <1>9, PassShapes
<1>11. live' = live /\ outside' = outside /\ rest' = rest
       BY <1>2 DEF objects
<1>12. DeadInv'
  <2>1. PICK D, E : D = Doomed /\ E = Doomed'
        OBVIOUS
  <2>2. D \in SUBSET live /\ dead >= Cardinality(D) + resurrected
        BY <1>2, <2>1 DEF Doomed, GCInv, DeadInv
  <2>3. \A x : x # o => (x \in E <=> x \in D)
        BY <1>3, <1>9, <1>11, <2>1 DEF Doomed, PossiblyDead
  <2>4. o \notin E /\ (o \in D => o \in Syms /\ Is(o, PossiblyDead))
        BY <1>3, <1>9, <2>1 DEF Doomed
  <2>5. PICK k \in Nat : k = Cardinality(D)
        BY <1>2, <2>2, FiniteLive
  <2>6. dead >= Cardinality(E) + resurrected'
    <3>1. CASE o \in D
      <4>1. E = D \ {o} /\ resurrected' = resurrected + 1
            BY <1>9, <2>3, <2>4, <3>1
      <4>2. Cardinality(E) = k - 1
            BY <1>2, <2>2, <2>5, <3>1, <4>1, FiniteLive, FS_RemoveElement
      <4> QED BY <1>3, <2>2, <2>5, <4>1, <4>2
    <3>2. CASE o \notin D
      <4>1. E = D
            BY <2>3, <2>4, <3>2
      <4>2. resurrected' = resurrected
            BY <1>3, <1>4, <1>9, <2>1, <3>2 DEF Objs, Doomed
      <4> QED BY <2>2, <4>1, <4>2
    <3> QED BY <3>1, <3>2
  <2>7. Cardinality(Doomed)' = Cardinality(E)
        BY <2>1
  <2> QED BY <1>2, <2>6, <2>7 DEF DeadInv
<1>13. SUFFICES ASSUME ~misled' PROVE Sound'
       BY <1>10, <1>12 DEF GCInv
<1>14. Supported /\ PropagateInv
       BY <1>2, <1>13 DEF GCInv, Sound
<1>15. PICK O, G, N : Since(O, G, N) /\ \E U : Unexplained(U, O, G) /\ Propagating(U, O, G, N)
       BY <1>14 DEF PropagateInv
<1>16. PICK U : Unexplained(U, O, G) /\ Propagating(U, O, G, N)
       BY <1>15
<1>17. /\ \A x \in live \cap Syms :
            /\ \/ Is(x, AliveVisited) \/ Is(x, AliveUnvisited)
               \/ Is(x, PossiblyDead) /\ Unused(U, O, G, N, x)
               \/ x \in N /\ ~Is(x, PossiblyDead)
            /\ resurrected = 0 /\ x \notin ToSet(rest) => ~Is(x, AliveUnvisited)
       /\ \A x \in G : Is(x[1], AliveVisited) => Fine(U, x[2])
       BY <1>16 DEF Propagating
<1>18. Unexplained(U, O, G)' /\ \A x : Unused(U, O, G, N, x)' <=> Unused(U, O, G, N, x)
       BY <1>16 DEF Unexplained, Unused
<1>19. ASSUME NEW x \in G PROVE x[1] \in live /\ x[2] \in live /\ RefersTo(x[1], x[2])
  <2>1. x[1] \in live /\ x[2] \in Objs /\ RefersTo(x[1], x[2])
        BY <1>15 DEF Since
  <2> QED BY <1>2, <2>1 DEF Shapes
<1>20. ToSet(Tail(todo)) \subseteq ToSet(todo')
       BY <1>4, <1>8
<1>21. ASSUME NEW x \in live, Fine(U, x) PROVE Fine(U, x)'
  <2>1. CASE x = o
    <3>1. CASE o \in Syms
          BY <1>9, <2>1, <3>1 DEF Fine
    <3>2. CASE o \in Exprs
          BY <1>9, <2>1, <3>2 DEF Fine
    <3> QED BY <1>4, <3>1, <3>2 DEF Objs
  <2>2. CASE x # o
    <3>1. x \in ToSet(todo) => x \in ToSet(todo')
          BY <1>7, <1>20, <2>2
    <3>2. (Is(x, PossiblyDead)' <=> Is(x, PossiblyDead)) /\ (Is(x, AliveVisited)' <=> Is(x, AliveVisited))
          BY <1>3, <1>9, <2>2 DEF PossiblyDead, AliveVisited
    <3> QED BY <1>21, <3>1, <3>2 DEF Fine
  <2> QED BY <2>1, <2>2
<1>22. ASSUME NEW x \in live \cap Syms
       PROVE  /\ \/ Is(x, AliveVisited)' \/ Is(x, AliveUnvisited)'
                 \/ Is(x, PossiblyDead)' /\ Unused(U, O, G, N, x)'
                 \/ x \in N /\ ~Is(x, PossiblyDead)'
              /\ resurrected' = 0 /\ x \notin ToSet(rest') => ~Is(x, AliveUnvisited)'
  <2>1. resurrected' = 0 => resurrected = 0
        BY <1>3, <1>4, <1>9 DEF Objs
  <2>2. CASE x = o
    <3>1. resurrected' = 0 => ~Is(o, PossiblyDead)
          BY <1>3, <1>9, <1>22, <2>2
    <3> QED BY <1>9, <1>11, <1>17, <1>22, <2>1, <2>2, <3>1
  <2>3. CASE x # o
    <3>1. /\ Is(x, AliveVisited)' <=> Is(x, AliveVisited)
          /\ Is(x, AliveUnvisited)' <=> Is(x, AliveUnvisited)
          /\ Is(x, PossiblyDead)' <=> Is(x, PossiblyDead)
          BY <1>3, <1>9, <2>3 DEF AliveVisited, AliveUnvisited, PossiblyDead
    <3> QED BY <1>11, <1>17, <1>18, <2>1, <3>1
  <2> QED BY <2>2, <2>3
<1>23. ASSUME NEW x \in G, Is(x[1], AliveVisited)' PROVE Fine(U, x[2])'
  <2>1. CASE Is(x[1], AliveVisited)
        BY <1>17, <1>19, <1>21, <2>1
  <2>2. CASE ~Is(x[1], AliveVisited)
    <3>1. x[1] = o
          BY <1>3, <1>9, <1>19, <1>23, <2>2 DEF AliveVisited
    <3>2. o \in Exprs
          BY <1>4, <1>9, <1>23, <2>2, <3>1 DEF Objs
    <3>3. todo' = SetToSeq(part[o]) \o Tail(todo)
          BY <1>3, <1>8, <2>2, <3>1, <3>2
    <3>4. x[2] \in part[o]
          BY <1>3, <1>19, <3>1, <3>2 DEF RefersTo
    <3>5. x[2] \in ToSet(todo')
          BY <1>4, <3>2, <3>3, <3>4
    <3> QED BY <3>5 DEF Fine
  <2> QED BY <2>1, <2>2
<1>24. Propagating(U, O, G, N)'
       BY <1>11, <1>22, <1>23 DEF Propagating
<1>25. PropagateInv'
       BY <1>2, <1>15, <1>18, <1>24, SinceKept DEF PropagateInv
<1> QED BY <1>2, <1>14, <1>25, SupportedKept DEF Sound

LEMMA PropagatedStep ==
  ASSUME GCInv, Propagated
  PROVE  GCInv'
<1>1. /\ phase = "propagate" /\ todo = <<>> /\ rest = <<>>
      /\ dead' = dead - resurrected /\ resurrected' = 0
      /\ phase' = IF resurrected > 0 THEN "propagate" ELSE "clear"
      /\ rest' = Order
      /\ UNCHANGED <<objects, pass, bit, seen, todo, visiting, misled>>
      /\ Shapes
      BY DEF GCInv, Propagated, Through, counts
<1>2. /\ pass \in 0..1 /\ bit \in [Objs -> 0..1] /\ seen \in [Objs -> Nat] /\ todo \in Seq(Objs)
      /\ dead \in Nat /\ resurrected \in Nat /\ live \in SUBSET Objs /\ outside \in SUBSET live
      /\ visiting \in Objs \cup {Undefined} /\ misled \in BOOLEAN
      /\ Syms \subseteq Objs /\ Exprs \subseteq Objs /\ Syms \cap Exprs = {} /\ Undefined \notin Objs
      BY <1>1, GCAssumption DEF Shapes, GCTypeOK, Objs
<1>3. /\ live' = live /\ outside' = outside /\ todo' = todo
      /\ \A o, m : Is(o, m)' <=> Is(o, m)
      BY <1>1 DEF objects, Is
<1>4. DeadInv' /\ dead' \in Nat
  <2>1. PICK D : D = Doomed
        OBVIOUS
  <2>2. dead >= Cardinality(D) + resurrected /\ D \in SUBSET live
        BY <1>1, <2>1 DEF GCInv, DeadInv, Doomed
  <2>3. PICK k \in Nat : k = Cardinality(D)
        BY <1>1, <2>2, FiniteLive
  <2>4. Doomed' = D /\ (Doomed \cap ToSet(rest))' = D
        BY <1>1, <1>3, <2>1, OrderFacts DEF Doomed, PossiblyDead
  <2>5. Cardinality(Doomed)' = k /\ Cardinality(Doomed \cap ToSet(rest))' = k
        BY <2>3, <2>4
  <2>6. dead' \in Nat /\ dead' >= k
        BY <1>1, <1>2, <2>2, <2>3
  <2> QED BY <1>1, <2>3, <2>5, <2>6 DEF DeadInv
<1>5. Shapes'
  <2>1. phase' \in {"propagate", "clear"}
        BY <1>1
  <2> QED BY <1>1, <1>2, <1>4, <2>1, OrderFacts, PassShapes
<1>6. ToSet(<<>>) = {}
      BY DEF ToSet
<1>7. SUFFICES ASSUME ~misled' PROVE Sound'
      BY <1>4, <1>5 DEF GCInv
<1>8. Supported /\ PropagateInv
      BY <1>1, <1>7 DEF GCInv, Sound
<1>9. PICK O, G, N : Since(O, G, N) /\ \E U : Unexplained(U, O, G) /\ Propagating(U, O, G, N)
      BY <1>8 DEF PropagateInv
<1>10. PICK U : Unexplained(U, O, G) /\ Propagating(U, O, G, N)
      BY <1>9
<1>11. /\ \A x \in live \cap Syms :
            /\ \/ Is(x, AliveVisited) \/ Is(x, AliveUnvisited)
               \/ Is(x, PossiblyDead) /\ Unused(U, O, G, N, x)
               \/ x \in N /\ ~Is(x, PossiblyDead)
            /\ resurrected = 0 => ~Is(x, AliveUnvisited)
       /\ \A x \in G : Is(x[1], AliveVisited) => Fine(U, x[2])
       BY <1>1, <1>6, <1>10 DEF Propagating
<1>12. CASE resurrected > 0
  <2>1. phase' = "propagate" /\ ToSet(rest') = Syms
        BY <1>1, <1>12, OrderFacts
  <2>2. Unexplained(U, O, G)' /\ \A x : Unused(U, O, G, N, x)' <=> Unused(U, O, G, N, x)
        BY <1>10 DEF Unexplained, Unused
  <2>3. \A x : Fine(U, x)' <=> Fine(U, x)
        BY <1>3 DEF Fine, PossiblyDead, AliveVisited
  <2>4. ASSUME NEW x \in live \cap Syms
        PROVE  /\ \/ Is(x, AliveVisited)' \/ Is(x, AliveUnvisited)'
                  \/ Is(x, PossiblyDead)' /\ Unused(U, O, G, N, x)'
                  \/ x \in N /\ ~Is(x, PossiblyDead)'
               /\ x \in ToSet(rest')
        BY <1>3, <1>11, <2>1, <2>2 DEF AliveVisited, AliveUnvisited, PossiblyDead
  <2>5. \A x \in G : Is(x[1], AliveVisited)' => Fine(U, x[2])'
        BY <1>3, <1>11, <2>3 DEF AliveVisited
  <2>6. Propagating(U, O, G, N)'
        BY <1>3, <2>4, <2>5 DEF Propagating
  <2>7. PropagateInv'
        BY <1>1, <1>9, <2>2, <2>6, SinceKept DEF PropagateInv
  <2> QED BY <1>1, <1>8, <2>1, <2>7, SupportedKept DEF Sound
<1>13. CASE ~(resurrected > 0)
  <2>1. phase' = "clear" /\ resurrected = 0
        BY <1>1, <1>2, <1>13
  <2>2. PICK R : R = {x \in live : (x \in Syms /\ ~Is(x, PossiblyDead)) \/ (x \in Exprs /\ (x \in U \/ Is(x, AliveVisited)))}
        OBVIOUS
  <2>3. /\ O \subseteq outside /\ N \subseteq outside
        /\ \A x \in G : x[1] \notin N
        /\ \A p \in live, o \in Objs : RefersTo(p, o) => <<p, o>> \in G \/ o \in outside
        /\ \A Q \in SUBSET Objs :
             O \subseteq Q /\ (\A x \in G : x[1] \in Q => x[2] \in Q) => outside \subseteq Q \cup N
        BY <1>9 DEF Since
  <2>4. ASSUME NEW x \in G PROVE x[1] \in live /\ x[2] \in live
    <3>1. x[1] \in live /\ x[2] \in Objs /\ RefersTo(x[1], x[2])
          BY <1>9 DEF Since
    <3> QED BY <1>1, <3>1 DEF Shapes
  <2>5. R \in SUBSET Objs
        BY <1>2, <2>2
  <2>6. O \subseteq R
    <3>1. ASSUME NEW o \in O, o \in Syms PROVE ~Is(o, PossiblyDead)
          BY <1>2, <1>11, <2>3, <3>1 DEF Unused, Is, PossiblyDead, AliveVisited, AliveUnvisited
    <3>2. \A o \in O : o \in Exprs => o \in U
          BY <1>10 DEF Unexplained
    <3> QED BY <1>2, <2>2, <2>3, <3>1, <3>2 DEF Objs
  <2>7. \A o \in live : Fine(U, o) => o \in R
        BY <1>1, <1>6, <2>2 DEF Fine
  <2>8. ASSUME NEW x \in G, x[1] \in R PROVE x[2] \in R
    <3>1. CASE x[1] \in Syms
      <4>1. Is(x[1], AliveVisited)
            BY <1>2, <1>11, <2>1, <2>2, <2>3, <2>8, <3>1
      <4> QED BY <1>11, <2>4, <2>7, <4>1
    <3>2. CASE x[1] \in Exprs /\ Is(x[1], AliveVisited)
          BY <1>11, <2>4, <2>7, <3>2
    <3>3. CASE x[1] \in U
      <4>1. CASE x[2] \in Exprs
            BY <1>10, <2>2, <2>4, <3>3, <4>1 DEF Unexplained
      <4>2. CASE x[2] \in Syms
        <5>1. ~Unused(U, O, G, N, x[2])
              BY <3>3 DEF Unused
        <5>2. ~Is(x[2], PossiblyDead)
              BY <1>11, <2>4, <4>2, <5>1 DEF Is, PossiblyDead, AliveVisited, AliveUnvisited
        <5> QED BY <2>2, <2>4, <4>2, <5>2
      <4> QED BY <1>2, <2>4, <4>1, <4>2 DEF Objs
    <3> QED BY <1>2, <2>2, <2>8, <3>1, <3>2, <3>3
  <2>9. outside \subseteq R \cup N
        BY <2>3, <2>5, <2>6, <2>8
  <2>10. ASSUME NEW p \in R \cup N, NEW o \in live, RefersTo(p, o) PROVE o \in R \cup N
    <3>1. p \in live /\ o \in Objs
          BY <1>2, <2>2, <2>3, <2>10
    <3>2. CASE <<p, o>> \in G
      <4>1. p \notin N
            BY <2>3, <3>2
      <4> QED BY <2>8, <2>10, <3>2, <4>1
    <3> QED BY <2>3, <2>9, <2>10, <3>1, <3>2
  <2>11. R \cup N \in SUBSET Objs
        BY <1>2, <2>3, <2>5
  <2>12. Reachable \subseteq R \cup N
        BY <2>9, <2>10, <2>11 DEF Reachable
  <2>13. ASSUME NEW s \in live \cap Syms, Is(s, PossiblyDead) PROVE s \notin Reachable
    <3>1. s \notin R
          BY <1>2, <2>2, <2>13
    <3>2. s \notin N
          BY <1>11, <2>13 DEF Unused, Is, PossiblyDead, AliveVisited, AliveUnvisited
    <3> QED BY <2>12, <3>1, <3>2
  <2>14. \A p, o : RefersTo(p, o)' <=> RefersTo(p, o)
        BY <1>1, SameRefcounts
  <2>15. Reachable' = Reachable
        BY <1>3, <2>14 DEF Reachable
  <2>16. \A s \in (live \cap Syms)' : Is(s, PossiblyDead)' => s \notin Reachable'
        BY <1>3, <2>13, <2>15 DEF PossiblyDead
  <2> QED BY <2>1, <2>16 DEF Sound
<1> QED BY <1>12, <1>13

-----------------------------------------------------------------------------
(* What is cleared.                                                        *)

\* Nothing comes to be used when a reference is given up.
LEMMA ReachLess ==
  ASSUME UNCHANGED <<live, outside>>, live \subseteq Objs,
         \A p \in Objs, o \in live : RefersTo(p, o)' => RefersTo(p, o)
  PROVE  Reachable' \subseteq Reachable
<1>1. SUFFICES ASSUME NEW o \in Reachable', NEW R \in SUBSET Objs, outside \subseteq R,
                      \A p \in R : \A x \in live : RefersTo(p, x) => x \in R
               PROVE  o \in R
      BY DEF Reachable
<1>2. outside' \subseteq R /\ \A p \in R : \A x \in live' : RefersTo(p, x)' => x \in R
      BY <1>1
<1> QED BY <1>1, <1>2 DEF Reachable

LEMMA ClearSymbolStep ==
  ASSUME GCInv, ClearSymbol
  PROVE  GCInv'
<1>1. PICK s : s = Head(rest)
      OBVIOUS
<1>2. /\ phase = "clear" /\ phase' = "clear" /\ todo = <<>> /\ s \in Syms /\ s \in ToSet(rest)
      /\ rest' \in Seq(Syms) /\ Once(rest') /\ s \notin ToSet(rest')
      /\ ToSet(rest') \subseteq ToSet(rest) /\ ToSet(rest) \subseteq ToSet(rest') \cup {s}
      /\ dead > 0
      /\ IF s \in live /\ Is(s, PossiblyDead)
         THEN value' = [value EXCEPT ![s] = Undefined] /\ dead' = dead - 1
         ELSE UNCHANGED <<value, dead>>
      /\ UNCHANGED <<live, outside, part, pass, bit, seen, todo, visiting, resurrected, misled>>
      /\ Shapes
      BY <1>1, NextSymbol DEF GCInv, ClearSymbol, counts
<1>3. /\ pass \in 0..1 /\ bit \in [Objs -> 0..1] /\ seen \in [Objs -> Nat] /\ todo \in Seq(Objs)
      /\ dead \in Nat /\ resurrected \in Nat /\ live \in SUBSET Objs /\ outside \in SUBSET live
      /\ value \in [Syms -> Objs \cup {Undefined}] /\ part \in [Exprs -> SUBSET Objs]
      /\ visiting \in Objs \cup {Undefined} /\ misled \in BOOLEAN
      /\ Syms \subseteq Objs /\ Exprs \subseteq Objs /\ Syms \cap Exprs = {} /\ Undefined \notin Objs
      BY <1>2, GCAssumption DEF Shapes, GCTypeOK, Objs
<1>4. /\ dead' \in Nat /\ value' \in [Syms -> Objs \cup {Undefined}]
      /\ \A x \in Syms : value'[x] = value[x] \/ value'[x] = Undefined
  <2>1. CASE s \in live /\ Is(s, PossiblyDead)
    <3>1. value' = [value EXCEPT ![s] = Undefined] /\ dead' = dead - 1
          BY <1>2, <2>1
    <3>2. dead' \in Nat
          BY <1>2, <1>3, <3>1
    <3> QED BY <1>3, <3>1, <3>2
  <2>2. CASE ~(s \in live /\ Is(s, PossiblyDead))
    <3>1. value' = value /\ dead' = dead
          BY <1>2, <2>2
    <3> QED BY <1>3, <3>1
  <2> QED BY <2>1, <2>2
<1>5. \A p, o \in Objs : RefersTo(p, o)' => RefersTo(p, o)
      BY <1>2, <1>3, <1>4 DEF RefersTo
<1>6. Shapes'
  <2>1. GCTypeOK'
        BY <1>2, <1>3, <1>4 DEF GCTypeOK
  <2>2. Once(rest)' /\ Layered'
        BY <1>2 DEF Once, Layered, Shapes
  <2>3. \A x \in Syms \ live' : value'[x] = Undefined
        BY <1>2, <1>4 DEF Shapes
  <2>4. \A p \in live', o \in Objs : RefersTo(p, o)' => o \in live'
        BY <1>2, <1>3, <1>5 DEF Shapes
  <2>5. ToSet(todo') \subseteq live' /\ \A e \in Exprs \ live' : part'[e] = {}
        BY <1>2 DEF Shapes
  <2> QED BY <1>2, <2>1, <2>2, <2>3, <2>4, <2>5 DEF Shapes
<1>7. \A o, m : Is(o, m)' <=> Is(o, m)
      BY <1>2 DEF Is
<1>8. DeadInv'
  <2>1. PICK D, E : D = Doomed \cap ToSet(rest) /\ E = (Doomed \cap ToSet(rest))'
        OBVIOUS
  <2>2. D \in SUBSET live /\ dead >= Cardinality(D) /\ resurrected = 0
        BY <1>2, <2>1 DEF Doomed, GCInv, DeadInv
  <2>3. E = D \ {s} /\ (s \in D <=> s \in live /\ Is(s, PossiblyDead))
        BY <1>2, <1>7, <2>1 DEF Doomed, PossiblyDead
  <2>4. PICK k \in Nat : k = Cardinality(D)
        BY <1>2, <2>2, FiniteLive
  <2>5. dead' >= Cardinality(E)
    <3>1. CASE s \in D
      <4>1. Cardinality(E) = k - 1
            BY <1>2, <2>2, <2>3, <2>4, <3>1, FiniteLive, FS_RemoveElement
      <4>2. dead' = dead - 1
            BY <1>2, <2>3, <3>1
      <4> QED BY <1>3, <2>2, <2>4, <4>1, <4>2
    <3>2. CASE s \notin D
      <4>1. E = D
            BY <2>3, <3>2
      <4> QED BY <1>2, <2>2, <2>3, <3>2, <4>1
    <3> QED BY <3>1, <3>2
  <2>6. Cardinality(Doomed \cap ToSet(rest))' = Cardinality(E)
        BY <2>1
  <2> QED BY <1>2, <2>2, <2>5, <2>6 DEF DeadInv
<1>9. SUFFICES ASSUME ~misled' PROVE Sound'
      BY <1>6, <1>8 DEF GCInv
<1>10. Reachable' \subseteq Reachable
       BY <1>2, <1>3, <1>5, ReachLess
<1>11. \A x \in live \cap Syms : Is(x, PossiblyDead) => x \notin Reachable
       BY <1>2, <1>9 DEF GCInv, Sound
<1>12. \A x \in (live \cap Syms)' : Is(x, PossiblyDead)' => x \notin Reachable'
       BY <1>2, <1>7, <1>10, <1>11 DEF PossiblyDead
<1> QED BY <1>2, <1>12 DEF Sound

LEMMA EndStep ==
  ASSUME GCInv, End
  PROVE  GCInv'
<1>1. /\ phase = "clear" /\ phase' = "none" /\ rest' = <<>> /\ dead' = 0
      /\ UNCHANGED <<objects, pass, bit, seen, todo, visiting, resurrected, misled>>
      /\ Shapes
      BY DEF GCInv, End, counts
<1>2. /\ pass \in 0..1 /\ bit \in [Objs -> 0..1] /\ seen \in [Objs -> Nat] /\ todo \in Seq(Objs)
      /\ resurrected \in Nat /\ todo = <<>> /\ visiting \in Objs \cup {Undefined} /\ misled \in BOOLEAN
      BY <1>1 DEF Shapes, GCTypeOK
<1>3. Once(<<>>) /\ <<>> \in Seq(Syms)
      BY DEF Once
<1>4. Shapes'
      BY <1>1, <1>2, <1>3, PassShapes
<1>5. DeadInv'
      BY <1>1 DEF GCInv, DeadInv
<1>6. Sound'
      BY <1>1 DEF Sound
<1> QED BY <1>4, <1>5, <1>6 DEF GCInv

-----------------------------------------------------------------------------
LEMMA GCInitial ==
  ASSUME GCInit
  PROVE  GCInv
<1>1. GCTypeOK
  <2>1. /\ value \in [Syms -> Objs \cup {Undefined}] /\ part \in [Exprs -> SUBSET Objs]
        /\ bit \in [Objs -> 0..1] /\ seen \in [Objs -> Nat]
        BY DEF GCInit
  <2>2. /\ rest \in Seq(Syms) /\ todo \in Seq(Objs) /\ pass \in 0..1 /\ dead \in Nat /\ resurrected \in Nat
        /\ phase \in {"none", "count", "mark", "propagate", "clear"}
        /\ live \in SUBSET Objs /\ outside \in SUBSET live
        /\ visiting \in Objs \cup {Undefined} /\ misled \in BOOLEAN
    <3>1. rest \in Seq(Syms) /\ todo \in Seq(Objs)
          BY DEF GCInit
    <3>2. pass \in 0..1 /\ dead \in Nat /\ resurrected \in Nat
          BY DEF GCInit
    <3>3. phase \in {"none", "count", "mark", "propagate", "clear"}
          BY DEF GCInit
    <3>4. live \in SUBSET Objs /\ outside \in SUBSET live
          BY DEF GCInit
    <3>5. visiting \in Objs \cup {Undefined} /\ misled \in BOOLEAN
          BY DEF GCInit
    <3> QED BY <3>1, <3>2, <3>3, <3>4, <3>5
  <2> QED BY <2>1, <2>2 DEF GCTypeOK
<1>2. Shapes
  <2>1. Layered
        BY DEF GCInit, Layered
  <2>2. ToSet(todo) \subseteq live
        BY DEF GCInit, ToSet
  <2> QED BY <1>1, <2>1, <2>2, GCAssumption DEF GCInit, Shapes, Once
<1> QED BY <1>2 DEF GCInit, GCInv, DeadInv, Sound

LEMMA GCStutter ==
  ASSUME GCInv, UNCHANGED gcVars
  PROVE  GCInv'
<1>1. /\ UNCHANGED <<live, outside, value, part, pass, bit, seen, phase, rest, todo, visiting,
                     dead, resurrected, misled>>
      /\ UNCHANGED objects
      BY DEF gcVars, objects, counts
<1>2. Shapes'
  <2>1. GCTypeOK'
        BY <1>1 DEF GCInv, Shapes, GCTypeOK
  <2> QED BY <1>1, <2>1, SameRefcounts DEF GCInv, Shapes, Once, Layered
<1>3. \A o, m : /\ Is(o, m)' <=> Is(o, m)
                /\ Counted(o)' = Counted(o) /\ Refcount(o)' = Refcount(o) /\ UsersOf(o)' = UsersOf(o)
      BY <1>1, SameRefcounts DEF Is, Counted, UsersOf
<1>4. DeadInv'
  <2>1. Doomed' = Doomed
        BY <1>1, <1>3 DEF Doomed, PossiblyDead
  <2> QED BY <1>1, <2>1 DEF GCInv, DeadInv
<1>5. ASSUME ~misled' PROVE Sound'
  <2>1. Sound
        BY <1>1, <1>5 DEF GCInv
  <2>2. ASSUME CountInv PROVE CountInv'
    <3>1. PICK O, G, N : Since(O, G, N) /\ \E V, T, F : Counting(V, T, F, O, G)
          BY <2>2 DEF CountInv
    <3>2. PICK V, T, F : Counting(V, T, F, O, G)
          BY <3>1
    <3>3. \A p, o : RefersTo(p, o)' <=> RefersTo(p, o)
          BY <1>1, SameRefcounts
    <3>4. Tokens(T, todo)' <=> Tokens(T, todo)
          BY <1>1 DEF Tokens
    <3>5. Counting(V, T, F, O, G)'
          BY <1>1, <1>3, <3>2, <3>3, <3>4 DEF Counting
    <3> QED BY <1>1, <3>1, <3>5, SinceKept DEF CountInv
  <2>3. ASSUME MarkInv PROVE MarkInv'
    <3>1. PICK O, G, N : Since(O, G, N) /\ \E U : Unexplained(U, O, G) /\ Marking(U, O, G, N)
          BY <2>3 DEF MarkInv
    <3>2. PICK U : Unexplained(U, O, G) /\ Marking(U, O, G, N)
          BY <3>1
    <3>3. Unexplained(U, O, G)' /\ \A x : Unused(U, O, G, N, x)' <=> Unused(U, O, G, N, x)
          BY <3>2 DEF Unexplained, Unused
    <3>4. Marking(U, O, G, N)'
          BY <1>1, <1>3, <3>2, <3>3 DEF Marking, PossiblyDead, AliveUnvisited, AliveVisited
    <3> QED BY <1>1, <3>1, <3>3, <3>4, SinceKept DEF MarkInv
  <2>4. ASSUME PropagateInv PROVE PropagateInv'
    <3>1. PICK O, G, N : Since(O, G, N) /\ \E U : Unexplained(U, O, G) /\ Propagating(U, O, G, N)
          BY <2>4 DEF PropagateInv
    <3>2. PICK U : Unexplained(U, O, G) /\ Propagating(U, O, G, N)
          BY <3>1
    <3>3. Unexplained(U, O, G)' /\ \A x : Unused(U, O, G, N, x)' <=> Unused(U, O, G, N, x)
          BY <3>2 DEF Unexplained, Unused
    <3>4. \A x : Fine(U, x)' <=> Fine(U, x)
          BY <1>1, <1>3 DEF Fine, PossiblyDead, AliveVisited
    <3>5. Propagating(U, O, G, N)'
          BY <1>1, <1>3, <3>2, <3>3, <3>4 DEF Propagating, PossiblyDead, AliveUnvisited, AliveVisited
    <3> QED BY <1>1, <3>1, <3>3, <3>5, SinceKept DEF PropagateInv
  <2>5. Reachable' = Reachable
    <3>1. \A p, o : RefersTo(p, o)' <=> RefersTo(p, o)
          BY <1>1, SameRefcounts
    <3> QED BY <1>1, <3>1 DEF Reachable
  <2>6. phase = "clear" => \A s \in (live \cap Syms)' : Is(s, PossiblyDead)' => s \notin Reachable'
        BY <1>1, <1>3, <2>1, <2>5 DEF Sound, PossiblyDead
  <2>7. Supported => Supported'
        BY <1>1, SupportedKept
  <2> QED BY <1>1, <2>1, <2>2, <2>3, <2>4, <2>6, <2>7 DEF Sound
<1> QED BY <1>2, <1>4, <1>5 DEF GCInv

LEMMA OthersStep ==
  ASSUME GCInv, Others
  PROVE  GCInv'
<1>1. Shapes' /\ DeadInv'
      BY OthersShapes DEF GCInv
<1>2. CASE phase = "none"
  <2>1. phase' = phase
    <3>1. \A o : New(o) => phase' = phase
          BY DEF New
    <3>2. \A o : Destroy(o) \/ ReadFrom(o) \/ Drop(o) => phase' = phase
          BY DEF Destroy, ReadFrom, Drop, collector
    <3>3. \A s, o : Assign(s, o) => phase' = phase
          BY DEF Assign, collector
    <3> QED BY <3>1, <3>2, <3>3 DEF Others, NewSymbol, NewExpr
  <2> QED BY <1>1, <1>2, <2>1 DEF GCInv, Sound
<1>3. CASE phase # "none"
      BY <1>1, <1>3, OthersSound DEF GCInv
<1> QED BY <1>2, <1>3

\* The marks and counts mean what the collector takes them for, unless it is misled.
THEOREM AlwaysGCInv == GCSpec => []GCInv
<1>1. GCInit => GCInv
      BY GCInitial
<1>2. GCInv /\ [GCNext]_gcVars => GCInv'
  <2> SUFFICES ASSUME GCInv, [GCNext]_gcVars PROVE GCInv'
      OBVIOUS
  <2>1. CASE Others
        BY <2>1, OthersStep
  <2>2. CASE Begin
        BY <2>2, BeginStep
  <2>3. CASE CountSymbol \/ CountRef \/ CountsDone
        BY <2>3, CountSymbolStep, CountRefStep, CountsDoneStep
  <2>4. CASE MarkSymbol \/ MarksDone
        BY <2>4, MarkSymbolStep, MarksDoneStep
  <2>5. CASE PropagateSymbol \/ PropagateRef \/ Propagated
        BY <2>5, PropagateSymbolStep, PropagateRefStep, PropagatedStep
  <2>6. CASE ClearSymbol \/ End
        BY <2>6, ClearSymbolStep, EndStep
  <2>7. CASE UNCHANGED gcVars
        BY <2>7, GCStutter
  <2> QED BY <2>1, <2>2, <2>3, <2>4, <2>5, <2>6, <2>7 DEF GCNext, PassStep
<1> QED BY <1>1, <1>2, PTL DEF GCSpec

\* The collector clears no symbol that can still be reached, whatever the symbols
\* and expressions are, however they refer to each other and whatever other threads
\* create, read and assign during the pass, unless it is misled.
THEOREM AlwaysOnlyUnused == GCSpec => []OnlyUnusedUnlessMisled
<1>1. GCInv => OnlyUnusedUnlessMisled
      BY DEF GCInv, Sound, OnlyUnusedUnlessMisled
<1> QED BY <1>1, AlwaysGCInv, PTL

-----------------------------------------------------------------------------
(* What is left.                                                           *)

\* What the marks say of symbols that cannot be reached: they are doomed, and they
\* have no value when the last phase has come past them.
Complete ==
  /\ phase = "mark" =>
       \A s \in live \cap Syms :
         (IF s \in ToSet(rest) THEN Counted(s) # Refcount(s) ELSE ~Is(s, PossiblyDead)) => s \in Reachable
  /\ phase = "propagate" =>
       /\ ToSet(todo) \subseteq Reachable
       /\ \A s \in live \cap Syms : ~Is(s, PossiblyDead) => s \in Reachable
  /\ phase = "clear" =>
       \A s \in live \cap Syms :
         IF Is(s, PossiblyDead) THEN s \notin ToSet(rest) => value[s] = Undefined
         ELSE s \in Reachable

Cleared == \A s \in live \cap Syms : s \notin Reachable => value[s] = Undefined

\* What cannot be reached is used by something that cannot be reached.
LEMMA LostBy ==
  ASSUME Shapes, Supported, NEW o \in live, o \notin Reachable
  PROVE  /\ o \notin outside
         /\ \E p \in live : RefersTo(p, o)
         /\ \A p \in live : RefersTo(p, o) => p \notin Reachable
  BY ReachableFacts DEF Supported

\* Among expressions that cannot be reached there is one that only others use.
LEMMA Outermost ==
  ASSUME Shapes, Supported,
         NEW A \in SUBSET (live \cap Exprs), A \cap Reachable = {}, A # {}
  PROVE  \E e \in A : \A p \in live : RefersTo(p, e) => p \notin Reachable /\ p \notin A
<1>1. PICK e \in A : \A a \in A : e \notin part[a]
      BY DEF Shapes, Layered
<1>2. ASSUME NEW p \in live, RefersTo(p, e) PROVE p \notin Reachable /\ p \notin A
  <2>1. p \notin Reachable
        BY <1>2, LostBy
  <2>2. ASSUME p \in A PROVE FALSE
    <3>1. e \in part[p]
          BY <1>2, <2>2, GCAssumption DEF RefersTo
    <3> QED BY <1>1, <2>2, <3>1
  <2> QED BY <2>1, <2>2
<1> QED BY <1>2

LEMMA SameReach ==
  ASSUME UNCHANGED objects
  PROVE  /\ live' = live /\ value' = value /\ Reachable' = Reachable
         /\ \A o : Refcount(o)' = Refcount(o)
  BY SameRefcounts DEF objects, Reachable, RefersTo

\* What can be reached is not lost by what happens to the rest.
LEMMA ReachMore ==
  ASSUME Shapes, outside' = outside, live' \in SUBSET live, Reachable \subseteq live',
         \A p \in Reachable, o \in Objs : RefersTo(p, o) => RefersTo(p, o)'
  PROVE  Reachable \subseteq Reachable'
<1>1. PICK M : M = Reachable
      OBVIOUS
<1>2. /\ M \in SUBSET live /\ outside \subseteq M /\ live \in SUBSET Objs
      /\ \A p \in M, o \in live : RefersTo(p, o) => o \in M
      BY <1>1, ReachableFacts DEF Shapes, GCTypeOK
<1>3. M \subseteq live' /\ \A p \in M, o \in Objs : RefersTo(p, o) => RefersTo(p, o)'
      BY <1>1
<1>4. SUFFICES ASSUME NEW o \in M, NEW R \in SUBSET Objs, outside' \subseteq R,
                      \A p \in R : \A x \in live' : RefersTo(p, x)' => x \in R
               PROVE  o \in R
      BY <1>1, <1>2 DEF Reachable
<1>5. PICK Q : Q = M \cap R
      OBVIOUS
<1>6. Q \in SUBSET Objs /\ outside \subseteq Q
      BY <1>2, <1>4, <1>5
<1>7. \A p \in Q : \A x \in live : RefersTo(p, x) => x \in Q
      BY <1>2, <1>3, <1>4, <1>5
<1>8. o \in Q
      BY <1>1, <1>4, <1>6, <1>7 DEF Reachable
<1> QED BY <1>5, <1>8

LEMMA CountsDoneComplete ==
  ASSUME GCInv, ~misled, CountsDone
  PROVE  Complete'
<1>1. /\ phase = "count" /\ phase' = "mark" /\ todo = <<>> /\ rest = <<>> /\ rest' = Order
      /\ UNCHANGED <<objects, pass, bit, seen>>
      /\ Shapes /\ Supported /\ CountInv
      BY DEF GCInv, Sound, CountsDone, Through, counts
<1>2. live \in SUBSET Objs /\ ToSet(<<>>) = {} /\ \A o \in Objs : o \in Syms \/ o \in Exprs
      BY <1>1 DEF Shapes, GCTypeOK, ToSet, Objs
<1>3. PICK O, G, V, T, F : Counting(V, T, F, O, G)
      BY <1>1 DEF CountInv
<1>4. ToSet(T) = {}
  <2>1. T \in Seq(live \X Objs) /\ Len(T) = Len(todo)
        BY <1>3 DEF Counting, Tokens
  <2>2. T = <<>>
        BY <1>1, <2>1, EmptySeq
  <2> QED BY <1>2, <2>2
\* The count of an object is complete when all that refers to it is followed.
<1>5. ASSUME NEW o \in live, o \notin outside, \A p \in live : RefersTo(p, o) => p \in F
      PROVE  /\ Counted(o) = Refcount(o)
             /\ (\E p \in live : RefersTo(p, o)) => Counted(o) # 0
  <2>1. PICK A, B : A = {p \in live : <<p, o>> \in V} /\ B = {p \in live : RefersTo(p, o)}
        OBVIOUS
  <2>2. \A p \in live : <<p, o>> \in V <=> RefersTo(p, o)
        BY <1>2, <1>3, <1>4, <1>5 DEF Counting
  <2>3. A = B
        BY <2>1, <2>2
  <2>4. Counted(o) = Cardinality(B)
        BY <1>3, <2>1, <2>3 DEF Counting
  <2>5. B \in SUBSET live /\ IsFiniteSet(B) /\ Cardinality(B) \in Nat
        BY <1>1, <2>1, FiniteLive
  <2>6. Refcount(o) = Cardinality(B) + 0
        BY <1>5, <2>1 DEF Refcount
  <2>7. B # {} => Cardinality(B) # 0
        BY <2>5, FS_EmptySet
  <2> QED BY <2>1, <2>4, <2>5, <2>6, <2>7
<1>6. \A p \in live \cap Syms : p \in F
      BY <1>1, <1>2, <1>3 DEF Counting
<1>7. PICK A : A = {e \in live \cap Exprs : e \notin F /\ e \notin Reachable}
      OBVIOUS
<1>8. \A p \in live : p \notin Reachable /\ p \notin A => p \in F
      BY <1>2, <1>6, <1>7
<1>9. A = {}
  <2>1. SUFFICES ASSUME A # {} PROVE FALSE
        OBVIOUS
  <2>2. A \in SUBSET (live \cap Exprs) /\ A \cap Reachable = {}
        BY <1>7
  <2>3. PICK e \in A : \A p \in live : RefersTo(p, e) => p \notin Reachable /\ p \notin A
        BY <1>1, <2>1, <2>2, Outermost
  <2>4. e \in live /\ e \in Exprs /\ e \notin outside /\ \E p \in live : RefersTo(p, e)
        BY <1>1, <2>2, LostBy
  <2>5. Counted(e) = Refcount(e) /\ Counted(e) # 0
        BY <1>5, <1>8, <2>3, <2>4
  <2>6. e \in F
        BY <1>3, <2>4, <2>5 DEF Counting
  <2> QED BY <1>7, <2>6
<1>10. \A o \in live : o \notin Reachable => Counted(o) = Refcount(o)
  <2>1. SUFFICES ASSUME NEW o \in live, o \notin Reachable PROVE Counted(o) = Refcount(o)
        OBVIOUS
  <2>2. o \notin outside /\ \A p \in live : RefersTo(p, o) => p \notin Reachable
        BY <1>1, <2>1, LostBy
  <2> QED BY <1>5, <1>8, <1>9, <2>2
<1>11. \A s \in live' \cap Syms : s \in ToSet(rest') /\ (Counted(s)' # Refcount(s)' => s \in Reachable')
       BY <1>1, <1>10, SameReach, OrderFacts DEF Counted
<1> QED BY <1>1, <1>11, SameReach DEF Complete

LEMMA MarkSymbolComplete ==
  ASSUME GCInv, Complete, MarkSymbol
  PROVE  Complete'
<1>1. PICK s : s = Head(rest)
      OBVIOUS
<1>2. /\ phase = "mark" /\ phase' = "mark" /\ s \in Syms /\ s \in ToSet(rest)
      /\ ToSet(rest') \subseteq ToSet(rest) /\ s \notin ToSet(rest')
      /\ ToSet(rest) \subseteq ToSet(rest') \cup {s}
      /\ IF s \in live
         THEN IF Counted(s) = Refcount(s)
              THEN SetCount(s, PossiblyDead) /\ dead' = dead + 1
              ELSE SetCount(s, AliveUnvisited) /\ UNCHANGED dead
         ELSE UNCHANGED <<bit, seen, dead>>
      /\ UNCHANGED <<objects, pass>>
      /\ Shapes
      BY <1>1, NextSymbol DEF GCInv, MarkSymbol, counts
<1>3. /\ pass \in 0..1 /\ bit \in [Objs -> 0..1] /\ seen \in [Objs -> Nat]
      /\ live \in SUBSET Objs /\ Syms \subseteq Objs
      BY <1>2 DEF Shapes, GCTypeOK, Objs
<1>4. /\ \A o \in Objs \ {s} : Counted(o)' = Counted(o) /\ \A m : Is(o, m)' <=> Is(o, m)
      /\ s \in live /\ ~Is(s, PossiblyDead)' => Counted(s) # Refcount(s)
  <2>1. PossiblyDead \in 0..2 /\ AliveUnvisited \in 0..2 /\ s \in Objs
        BY <1>2, <1>3 DEF PossiblyDead, AliveUnvisited
  <2>2. CASE s \in live /\ Counted(s) = Refcount(s)
        BY <1>2, <2>1, <2>2, SetMark DEF PossiblyDead
  <2>3. CASE s \in live /\ Counted(s) # Refcount(s)
        BY <1>2, <2>1, <2>3, SetMark
  <2>4. CASE s \notin live
        BY <1>2, <2>4 DEF Counted, Is
  <2> QED BY <2>2, <2>3, <2>4
<1>5. live' = live /\ Reachable' = Reachable /\ \A o : Refcount(o)' = Refcount(o)
      BY <1>2, SameReach
<1>6. \A x \in live \cap Syms :
        (IF x \in ToSet(rest) THEN Counted(x) # Refcount(x) ELSE ~Is(x, PossiblyDead)) => x \in Reachable
      BY <1>2 DEF Complete
<1>7. ASSUME NEW x \in live \cap Syms
      PROVE  (IF x \in ToSet(rest') THEN Counted(x)' # Refcount(x)' ELSE ~Is(x, PossiblyDead)') => x \in Reachable'
  <2>1. CASE x = s
        BY <1>2, <1>4, <1>5, <1>6, <2>1
  <2>2. CASE x # s
    <3>1. Counted(x)' = Counted(x) /\ (Is(x, PossiblyDead)' <=> Is(x, PossiblyDead)) /\ Refcount(x)' = Refcount(x)
          BY <1>3, <1>4, <1>5, <2>2 DEF PossiblyDead
    <3> QED BY <1>2, <1>5, <1>6, <2>2, <3>1
  <2> QED BY <2>1, <2>2
<1> QED BY <1>2, <1>5, <1>7 DEF Complete

LEMMA MarksDoneComplete ==
  ASSUME GCInv, Complete, MarksDone
  PROVE  Complete' /\ (phase' = "none" => Cleared)
<1>1. /\ phase = "mark" /\ todo = <<>> /\ rest = <<>>
      /\ phase' = IF dead = 0 THEN "none" ELSE "propagate"
      /\ UNCHANGED <<objects, pass, bit, seen, todo>>
      /\ Shapes
      BY DEF GCInv, MarksDone, Through, counts
<1>2. ToSet(<<>>) = {}
      BY DEF ToSet
<1>3. \A s \in live \cap Syms : ~Is(s, PossiblyDead) => s \in Reachable
      BY <1>1, <1>2 DEF Complete
<1>4. Complete'
  <2>1. live' = live /\ Reachable' = Reachable
        BY <1>1, SameReach
  <2>2. \A s \in live' \cap Syms : ~Is(s, PossiblyDead)' => s \in Reachable'
        BY <1>1, <1>3, <2>1 DEF Is, PossiblyDead
  <2>3. ToSet(todo') \subseteq Reachable'
        BY <1>1, <1>2
  <2> QED BY <1>1, <2>1, <2>2, <2>3 DEF Complete
<1>5. ASSUME phase' = "none" PROVE Cleared
  <2>1. dead = 0
        BY <1>1, <1>5
  <2>2. Doomed \ ToSet(rest) = Doomed /\ Doomed \in SUBSET live
        BY <1>1, <1>2 DEF Doomed
  <2>3. Cardinality(Doomed) = 0
    <3>1. dead >= Cardinality(Doomed) /\ Cardinality(Doomed) \in Nat
          BY <1>1, <2>2, FiniteLive DEF GCInv, DeadInv
    <3> QED BY <2>1, <3>1
  <2>4. Doomed = {}
        BY <1>1, <2>2, <2>3, FiniteLive, FS_EmptySet
  <2>5. live \cap Syms \subseteq Reachable
        BY <1>3, <2>4 DEF Doomed
  <2> QED BY <2>5 DEF Cleared
<1> QED BY <1>4, <1>5

LEMMA PropagateSymbolComplete ==
  ASSUME GCInv, Complete, PropagateSymbol
  PROVE  Complete'
<1>1. PICK s : s = Head(rest)
      OBVIOUS
<1>2. /\ phase = "propagate" /\ phase' = "propagate" /\ todo = <<>> /\ s \in Syms
      /\ IF s \in live /\ ~Is(s, AliveVisited) /\ ~Is(s, PossiblyDead)
         THEN SetCount(s, AliveVisited) /\ Visit(s)
         ELSE UNCHANGED <<bit, seen, todo, visiting>>
      /\ UNCHANGED <<objects, pass>>
      /\ Shapes
      BY <1>1, NextSymbol DEF GCInv, PropagateSymbol, counts
<1>3. /\ pass \in 0..1 /\ bit \in [Objs -> 0..1] /\ seen \in [Objs -> Nat] /\ Undefined \notin Objs
      /\ live \in SUBSET Objs /\ value \in [Syms -> Objs \cup {Undefined}] /\ Syms \subseteq Objs
      BY <1>2, GCAssumption DEF Shapes, GCTypeOK, Objs
<1>4. ToSet(<<>>) = {} /\ \A o : ToSet(<<o>>) = {o}
      BY DEF ToSet
<1>5. \A x \in live \cap Syms : ~Is(x, PossiblyDead)' => ~Is(x, PossiblyDead)
  <2>1. AliveVisited \in 0..2 /\ s \in Objs
        BY <1>2, <1>3 DEF AliveVisited
  <2>2. CASE s \in live /\ ~Is(s, AliveVisited) /\ ~Is(s, PossiblyDead)
    <3>1. SetCount(s, AliveVisited)
          BY <1>2, <2>2
    <3>2. \A c \in Objs \ {s} : Is(c, PossiblyDead)' <=> Is(c, PossiblyDead)
          BY <1>2, <2>1, <3>1, SetMark DEF PossiblyDead
    <3> QED BY <1>3, <2>2, <3>2
  <2>3. CASE ~(s \in live /\ ~Is(s, AliveVisited) /\ ~Is(s, PossiblyDead))
        BY <1>2, <2>3 DEF Is, PossiblyDead
  <2> QED BY <2>2, <2>3
<1>6. live' = live /\ Reachable' = Reachable
      BY <1>2, SameReach
<1>7. \A x \in live \cap Syms : ~Is(x, PossiblyDead) => x \in Reachable
      BY <1>2 DEF Complete
<1>8. ToSet(todo') \subseteq Reachable
  <2>1. CASE s \in live /\ ~Is(s, PossiblyDead) /\ Visit(s)
    <3>1. CASE value[s] # Undefined
      <4>1. PICK v : v = value[s]
            OBVIOUS
      <4>2. todo' = <<v>> /\ v \in Objs /\ RefersTo(s, v)
            BY <1>2, <1>3, <2>1, <3>1, <4>1 DEF Visit, RefersTo
      <4>3. v \in live /\ s \in Reachable
            BY <1>2, <1>7, <2>1, <4>2 DEF Shapes
      <4>4. v \in Reachable
            BY <1>2, <4>2, <4>3, ReachableFacts
      <4> QED BY <1>4, <4>2, <4>4
    <3>2. CASE value[s] = Undefined
          BY <1>4, <2>1, <3>2 DEF Visit
    <3> QED BY <3>1, <3>2
  <2>2. CASE todo' = todo
        BY <1>2, <1>4, <2>2
  <2> QED BY <1>2, <2>1, <2>2
<1> QED BY <1>2, <1>5, <1>6, <1>7, <1>8 DEF Complete

LEMMA PropagateRefComplete ==
  ASSUME GCInv, Complete, PropagateRef
  PROVE  Complete'
<1>1. PICK o : o = Head(todo)
      OBVIOUS
<1>2. /\ phase = "propagate" /\ phase' = "propagate" /\ todo # <<>>
      /\ \/ /\ todo' = Tail(todo)
            /\ UNCHANGED <<bit, seen>>
         \/ /\ o \in Syms /\ SetCount(o, AliveUnvisited)
            /\ todo' = Tail(todo)
         \/ /\ o \in Exprs /\ SetCount(o, AliveVisited)
            /\ todo' = SetToSeq(part[o]) \o Tail(todo)
      /\ UNCHANGED <<objects, pass>>
      /\ Shapes
      BY <1>1 DEF GCInv, PropagateRef, Visited, counts
<1>3. /\ pass \in 0..1 /\ bit \in [Objs -> 0..1] /\ seen \in [Objs -> Nat] /\ todo \in Seq(Objs)
      /\ live \in SUBSET Objs /\ Syms \subseteq Objs /\ Syms \cap Exprs = {}
      BY <1>2, GCAssumption DEF Shapes, GCTypeOK, Objs
<1>4. ToSet(todo) \subseteq Reachable /\ \A x \in live \cap Syms : ~Is(x, PossiblyDead) => x \in Reachable
      BY <1>2 DEF Complete
<1>5. PICK q : q = todo
      OBVIOUS
<1>6. q \in Seq(Objs) /\ q # <<>> /\ o = Head(q)
      BY <1>1, <1>2, <1>3, <1>5
<1>7. o \in ToSet(todo) /\ ToSet(Tail(todo)) \subseteq ToSet(todo)
      BY <1>5, <1>6, Ends
<1>8. o \in Reachable
      BY <1>4, <1>7
<1>9. live' = live /\ Reachable' = Reachable
      BY <1>2, SameReach
<1>10. ASSUME NEW x \in live \cap Syms, ~Is(x, PossiblyDead)' PROVE x \in Reachable
  <2>1. CASE x = o
        BY <1>8, <2>1
  <2>2. CASE x # o
    <3>1. ~Is(x, PossiblyDead)
      <4>1. x \in Objs \ {o} /\ AliveUnvisited \in 0..2 /\ AliveVisited \in 0..2 /\ o \in Objs
            BY <1>2, <1>3, <1>8, <2>2, ReachableFacts DEF AliveUnvisited, AliveVisited
      <4>2. CASE SetCount(o, AliveUnvisited)
            BY <1>2, <1>10, <4>1, <4>2, SetMark DEF PossiblyDead
      <4>3. CASE SetCount(o, AliveVisited)
            BY <1>2, <1>10, <4>1, <4>3, SetMark DEF PossiblyDead
      <4>4. CASE UNCHANGED <<bit, seen>>
            BY <1>2, <1>10, <4>4 DEF Is, PossiblyDead
      <4> QED BY <1>2, <4>2, <4>3, <4>4
    <3> QED BY <1>4, <3>1
  <2> QED BY <2>1, <2>2
<1>11. ToSet(todo') \subseteq Reachable
  <2>1. CASE todo' = Tail(todo)
        BY <1>4, <1>7, <2>1
  <2>2. CASE o \in Exprs /\ todo' = SetToSeq(part[o]) \o Tail(todo)
    <3>1. PICK a, b : a = SetToSeq(part[o]) /\ b = Tail(todo)
          OBVIOUS
    <3>2. a \in Seq(Objs) /\ b \in Seq(Objs) /\ ToSet(a) = part[o] /\ part[o] \in SUBSET Objs
          BY <1>1, <1>2, <2>2, <3>1, VisitPart
    <3>3. ToSet(a \o b) = ToSet(a) \cup ToSet(b)
          BY <3>2, Both
    <3>4. ASSUME NEW c \in part[o] PROVE c \in Reachable
      <4>1. RefersTo(o, c) /\ c \in Objs /\ o \in live
            BY <1>2, <1>3, <1>8, <2>2, <3>2, ReachableFacts DEF RefersTo
      <4>2. c \in live
            BY <1>2, <4>1 DEF Shapes
      <4> QED BY <1>2, <1>8, <4>1, <4>2, ReachableFacts
    <3> QED BY <1>4, <1>7, <2>2, <3>1, <3>2, <3>3, <3>4
  <2> QED BY <1>2, <2>1, <2>2
<1> QED BY <1>2, <1>9, <1>10, <1>11 DEF Complete

LEMMA PropagatedComplete ==
  ASSUME GCInv, GCInv', Complete, Propagated
  PROVE  Complete'
<1>1. /\ phase = "propagate" /\ todo = <<>>
      /\ dead' = dead - resurrected /\ resurrected' = 0
      /\ phase' = IF resurrected > 0 THEN "propagate" ELSE "clear"
      /\ rest' = Order
      /\ UNCHANGED <<objects, pass, bit, seen, todo>>
      /\ Shapes
      BY DEF GCInv, Propagated, Through, counts
<1>2. ToSet(todo) \subseteq Reachable /\ \A s \in live \cap Syms : ~Is(s, PossiblyDead) => s \in Reachable
      BY <1>1 DEF Complete
<1>3. live' = live /\ value' = value /\ Reachable' = Reachable
      BY <1>1, SameReach
<1>4. \A s : Is(s, PossiblyDead)' <=> Is(s, PossiblyDead)
      BY <1>1 DEF Is, PossiblyDead
<1>5. \A s \in Syms : s \in ToSet(rest')
      BY <1>1, OrderFacts
<1> QED BY <1>1, <1>2, <1>3, <1>4, <1>5 DEF Complete

LEMMA ClearSymbolComplete ==
  ASSUME GCInv, GCInv', ~misled, Complete, ClearSymbol
  PROVE  Complete'
<1>1. PICK s : s = Head(rest)
      OBVIOUS
<1>2. /\ phase = "clear" /\ phase' = "clear" /\ s \in Syms
      /\ ToSet(rest') \subseteq ToSet(rest) /\ ToSet(rest) \subseteq ToSet(rest') \cup {s}
      /\ IF s \in live /\ Is(s, PossiblyDead)
         THEN value' = [value EXCEPT ![s] = Undefined]
         ELSE UNCHANGED value
      /\ UNCHANGED <<live, outside, part, pass, bit, seen>>
      /\ Shapes /\ Sound
      BY <1>1, NextSymbol DEF GCInv, ClearSymbol, counts
<1>3. /\ live \in SUBSET Objs /\ value \in [Syms -> Objs \cup {Undefined}]
      /\ Syms \cap Exprs = {} /\ \A o \in Objs : o \in Syms \/ o \in Exprs
      BY <1>2, GCAssumption DEF Shapes, GCTypeOK, Objs
<1>4. /\ \A x \in Syms \ {s} : value'[x] = value[x]
      /\ value'[s] = value[s] \/ s \notin Reachable
      /\ s \in live /\ Is(s, PossiblyDead) => value'[s] = Undefined
      BY <1>2, <1>3 DEF Sound
<1>5. Reachable \in SUBSET live
      BY <1>2, ReachableFacts
<1>6. \A p \in Reachable, o \in Objs : RefersTo(p, o) => RefersTo(p, o)'
      BY <1>2, <1>3, <1>4, <1>5 DEF RefersTo
<1>7. Reachable \subseteq Reachable'
      BY <1>2, <1>5, <1>6, ReachMore
<1>8. \A x : Is(x, PossiblyDead)' <=> Is(x, PossiblyDead)
      BY <1>2 DEF Is, PossiblyDead
<1>9. ASSUME NEW x \in live' \cap Syms
      PROVE  IF Is(x, PossiblyDead)' THEN x \notin ToSet(rest') => value'[x] = Undefined
             ELSE x \in Reachable'
  <2>1. IF Is(x, PossiblyDead) THEN x \notin ToSet(rest) => value[x] = Undefined ELSE x \in Reachable
        BY <1>2, <1>9 DEF Complete
  <2>2. CASE x = s
        BY <1>2, <1>4, <1>7, <1>8, <1>9, <2>1, <2>2
  <2>3. CASE x # s
        BY <1>2, <1>4, <1>7, <1>8, <1>9, <2>1, <2>3
  <2> QED BY <2>2, <2>3
<1> QED BY <1>2, <1>9 DEF Complete

LEMMA EndComplete ==
  ASSUME GCInv, Complete, End
  PROVE  Cleared
<1>1. phase = "clear" /\ Shapes /\ (dead = 0 \/ rest = <<>>)
      BY DEF GCInv, End
<1>2. PICK D : D = Doomed \cap ToSet(rest)
      OBVIOUS
<1>3. D = {}
  <2>1. CASE rest = <<>>
        BY <1>2, <2>1 DEF ToSet
  <2>2. CASE dead = 0
    <3>1. D \in SUBSET live /\ dead >= Cardinality(D)
          BY <1>1, <1>2 DEF Doomed, GCInv, DeadInv
    <3>2. IsFiniteSet(D) /\ Cardinality(D) \in Nat
          BY <1>1, <3>1, FiniteLive
    <3>3. Cardinality(D) = 0
          BY <2>2, <3>1, <3>2
    <3> QED BY <3>2, <3>3, FS_EmptySet
  <2> QED BY <1>1, <2>1, <2>2
<1>4. ASSUME NEW s \in live \cap Syms, s \notin Reachable PROVE value[s] = Undefined
  <2>1. Is(s, PossiblyDead) /\ (s \notin ToSet(rest) => value[s] = Undefined)
        BY <1>1, <1>4 DEF Complete
  <2>2. s \notin ToSet(rest)
        BY <1>2, <1>3, <1>4, <2>1 DEF Doomed
  <2> QED BY <2>1, <2>2
<1> QED BY <1>4 DEF Cleared

\* What others add is used from outside, and what is destroyed is not used at all.
LEMMA OthersComplete ==
  ASSUME GCInv, GCInv', ~misled', Complete, Others, phase # "none"
  PROVE  Complete'
<1>1. /\ Shapes /\ Shapes' /\ live \in SUBSET Objs
      /\ ~misled /\ Sound /\ (Adding \/ \E o \in Objs : Destroy(o))
      BY OthersAdd DEF GCInv, Shapes, GCTypeOK
<1>2. CASE Adding
  <2>1. /\ phase' = phase /\ rest' = rest /\ todo' = todo
        /\ \A o \in live' \ live : o \in outside'
        /\ \A s \in Syms : value'[s] = value[s] \/ s \in outside
        BY <1>2 DEF Adding
  <2>2. Reachable \subseteq Reachable' /\ outside' \subseteq Reachable'
    <3>1. outside' \subseteq Reachable'
      <4>1. outside' \in SUBSET Objs
            BY <1>1 DEF Shapes, GCTypeOK
      <4> QED BY <4>1 DEF Reachable
    <3> QED BY <1>1, <1>2, <3>1, ReachAdds
  <2>3. /\ \A o \in live : Counted(o)' = Counted(o) /\ \A k : Is(o, k)' <=> Is(o, k)
        /\ \A o \in live : o \notin outside' => Refcount(o)' = Refcount(o)
        BY <1>1, <1>2, Added
  <2>4. ASSUME NEW s \in live' \cap Syms, s \notin Reachable'
        PROVE  /\ s \in live /\ s \notin outside' /\ s \notin Reachable
               /\ Counted(s)' = Counted(s) /\ Refcount(s)' = Refcount(s)
               /\ (Is(s, PossiblyDead)' <=> Is(s, PossiblyDead))
    <3>1. s \in live /\ s \notin outside' /\ s \notin Reachable
          BY <2>1, <2>2, <2>4
    <3> QED BY <2>3, <3>1 DEF PossiblyDead
  <2>5. ASSUME phase = "mark", NEW s \in live' \cap Syms, s \notin Reachable'
        PROVE  ~(IF s \in ToSet(rest') THEN Counted(s)' # Refcount(s)' ELSE ~Is(s, PossiblyDead)')
        BY <2>1, <2>4, <2>5 DEF Complete
  <2>6. ASSUME phase = "propagate"
        PROVE  /\ ToSet(todo') \subseteq Reachable'
               /\ \A s \in live' \cap Syms : ~Is(s, PossiblyDead)' => s \in Reachable'
        BY <2>1, <2>2, <2>4, <2>6 DEF Complete
  <2>7. ASSUME phase = "clear", NEW s \in live' \cap Syms
        PROVE  IF Is(s, PossiblyDead)' THEN s \notin ToSet(rest') => value'[s] = Undefined
               ELSE s \in Reachable'
    <3>1. CASE s \in Reachable'
      <4>1. ~Is(s, PossiblyDead)'
            BY <1>1, <2>1, <2>7, <3>1 DEF GCInv, Sound
      <4> QED BY <3>1, <4>1
    <3>2. CASE s \notin Reachable'
      <4>1. s \notin outside
            BY <1>1, <2>4, <3>2, ReachableFacts
      <4> QED BY <2>1, <2>4, <2>7, <3>2, <4>1 DEF Complete
    <3> QED BY <3>1, <3>2
  <2> QED BY <2>1, <2>5, <2>6, <2>7 DEF Complete
<1>3. ASSUME NEW o \in Objs, Destroy(o) PROVE Complete'
  <2>1. /\ o \in live /\ Refcount(o) = 0 /\ live' = live \ {o}
        /\ outside' = outside /\ bit' = bit /\ seen' = seen /\ pass' = pass
        /\ phase' = phase /\ rest' = rest
        /\ \A s \in Syms : value'[s] = IF s = o THEN Undefined ELSE value[s]
        /\ \A e \in Exprs : part'[e] = IF e = o THEN {} ELSE part[e]
        BY <1>3 DEF Destroy, collector, counts
  <2>2. o \notin outside /\ \A p \in live : ~RefersTo(p, o)
        BY <1>1, <2>1, NoReference
  <2>3. phase = "clear"
        BY <1>1, <2>1, <2>2 DEF Sound, Supported, Shapes, GCTypeOK
  <2>4. \A p \in live \ {o}, x \in Objs : RefersTo(p, x)' <=> RefersTo(p, x)
    <3>1. \A p \in live : p \in Syms \/ p \in Exprs
          BY <1>1 DEF Objs
    <3> QED BY <2>1, <3>1 DEF RefersTo
  <2>5. Reachable \in SUBSET live'
        BY <1>1, <2>1, <2>2, ReachableFacts
  <2>6. Reachable \subseteq Reachable'
        BY <1>1, <2>1, <2>4, <2>5, ReachMore
  <2>7. \A s : Is(s, PossiblyDead)' <=> Is(s, PossiblyDead)
        BY <2>1 DEF Is, PossiblyDead
  <2>8. \A s \in live' \cap Syms :
          IF Is(s, PossiblyDead)' THEN s \notin ToSet(rest') => value'[s] = Undefined
          ELSE s \in Reachable'
        BY <2>1, <2>3, <2>6, <2>7 DEF Complete
  <2> QED BY <2>1, <2>3, <2>8 DEF Complete
<1> QED BY <1>1, <1>2, <1>3

LEMMA CompleteStep ==
  ASSUME GCInv, GCInv', ~misled => Complete, [GCNext]_gcVars, ~misled'
  PROVE  /\ Complete'
         /\ phase # "none" /\ phase' = "none" => UNCHANGED objects /\ Cleared
<1>1. phase' \in {"none", "count"} => Complete'
      BY DEF Complete
<1>2. CASE Others
  <2>1. phase' = phase
    <3>1. \A o : New(o) => phase' = phase
          BY DEF New
    <3>2. \A o : Destroy(o) \/ ReadFrom(o) \/ Drop(o) => phase' = phase
          BY DEF Destroy, ReadFrom, Drop, collector
    <3>3. \A s, o : Assign(s, o) => phase' = phase
          BY DEF Assign, collector
    <3> QED BY <1>2, <3>1, <3>2, <3>3 DEF Others, NewSymbol, NewExpr
  <2>2. phase # "none" => ~misled
        BY <1>2, OthersAdd DEF GCInv
  <2> QED BY <1>1, <1>2, <2>1, <2>2, OthersComplete
<1>3. CASE Begin \/ CountSymbol \/ CountRef
  <2>1. phase' = "count"
        BY <1>3 DEF Begin, CountSymbol, CountRef, ToNext
  <2> QED BY <1>1, <2>1
<1>4. CASE CountsDone \/ MarkSymbol
  <2>1. phase' # "none" /\ ~misled
        BY <1>4 DEF CountsDone, MarkSymbol, ToNext
  <2> QED BY <1>4, <2>1, CountsDoneComplete, MarkSymbolComplete
<1>5. CASE MarksDone
  <2>1. UNCHANGED objects /\ ~misled
        BY <1>5 DEF MarksDone
  <2> QED BY <1>5, <2>1, MarksDoneComplete
<1>6. CASE PropagateSymbol \/ PropagateRef \/ Propagated \/ ClearSymbol
  <2>1. phase' # "none" /\ ~misled
        BY <1>6 DEF PropagateSymbol, PropagateRef, Propagated, ClearSymbol, ToNext
  <2> QED BY <1>6, <2>1, PropagateSymbolComplete, PropagateRefComplete, PropagatedComplete, ClearSymbolComplete
<1>7. CASE End
  <2>1. UNCHANGED objects /\ ~misled /\ phase' = "none"
        BY <1>7 DEF End
  <2> QED BY <1>1, <1>7, <2>1, EndComplete
<1>8. CASE UNCHANGED gcVars
  <2>1. Reachable' = Reachable /\ ~misled
        BY <1>8, SameReach DEF gcVars
  <2>2. \A o : Counted(o)' = Counted(o) /\ Refcount(o)' = Refcount(o) /\ \A m : Is(o, m)' <=> Is(o, m)
        BY <1>8, SameReach DEF gcVars, counts, Counted, Is
  <2> QED BY <1>8, <2>1, <2>2 DEF Complete, gcVars, objects, counts, PossiblyDead
<1> QED BY <1>2, <1>3, <1>4, <1>5, <1>6, <1>7, <1>8 DEF GCNext, PassStep

\* A pass leaves no value in a symbol that nobody can use, whatever the symbols and
\* expressions are, however they refer to each other and whatever other threads
\* create, read and assign during the pass, unless it is misled.
THEOREM AlwaysNothingLeft == GCSpec => NothingLeftUnlessMisled
<1>1. GCInit => (~misled => Complete)
      BY DEF GCInit, Complete
<1>2. GCInv /\ GCInv' /\ (~misled => Complete) /\ [GCNext]_gcVars => (~misled => Complete)'
      BY CompleteStep
<1>3. GCInv /\ GCInv' /\ (~misled => Complete) /\ [GCNext]_gcVars
        => [phase # "none" /\ phase' = "none" /\ ~misled' =>
              \A s \in (live \cap Syms)' : s \notin Reachable' => value'[s] = Undefined]_gcVars
  <2>1. SUFFICES ASSUME GCInv, GCInv', ~misled => Complete, [GCNext]_gcVars,
                        phase # "none", phase' = "none", ~misled'
                 PROVE  \A s \in (live \cap Syms)' : s \notin Reachable' => value'[s] = Undefined
        OBVIOUS
  <2>2. UNCHANGED objects /\ Cleared
        BY <2>1, CompleteStep
  <2> QED BY <2>2, SameReach DEF Cleared
<1> QED BY <1>1, <1>2, <1>3, AlwaysGCInv, PTL DEF GCSpec, NothingLeftUnlessMisled

=============================================================================
