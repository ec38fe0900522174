------------------------------- MODULE Dynamic -------------------------------
(***************************************************************************)
(* Dynamic objects and the symbols they depend on (dynamic-private.c,      *)
(* pmath_symbol_track_dynamic and the changes of a symbol in symbols.c).   *)
(*                                                                         *)
(* While a dynamic object is evaluated, each symbol it reads is bound to   *)
(* its id.  The first change of a bound symbol removes all bindings of the *)
(* id and tells the front-end, which evaluates the object again.  Whether  *)
(* a symbol is bound at all is kept in the symbol: current_dynamic_id is   *)
(* the last id that has read it, and 0 if there is none.                   *)
(*                                                                         *)
(* Changes, evaluations and blocks that suppress the notifications of a    *)
(* symbol are done by any thread, at any time and inside each other.  Each *)
(* access to current_dynamic_id, each operation on the two tables (which   *)
(* are locked together) and each access to a value is a step.  The         *)
(* front-end is the environment.                                           *)
(*                                                                         *)
(* Some of these uses of a symbol must not cross each other.  The variable *)
(* crossed records that they have; it restricts nothing.                   *)
(***************************************************************************)
EXTENDS Integers, FiniteSets, Sequences, SequencesExt

CONSTANTS Users,    \* threads that read and change symbols
          Symbols,
          Ids,      \* ids of dynamic objects
          Nil       \* the id 0, and no symbol

ASSUME DynamicAssumption == Nil \notin Ids \cup Symbols

VARIABLES current,  \* current[s]: current_dynamic_id
          ids,      \* symbol2ids[s]: the bound ids, without repetitions
          symbols,  \* id2symbols[i]: the symbols bound to i
          place,    \* where each thread is
          sym,      \* sym[t]: the symbol that t reads or changes
          job,      \* job[t]: the object that t evaluates (current_dynamic_id of t)
          order,    \* order[t]: whether t writes before or after it notifies
          list,     \* list[t]: ids that t has taken out for notification
          gathered, \* gathered[t]: those of them that were still interested
          block,    \* block[t]: the symbol t does not want notified, its old id, and the
                    \* evaluation that the block is in
          told,     \* objects that the front-end has to evaluate
          shown,    \* shown[i][s]: how the value of s went into what i displays
          crossed   \* whether uses of a symbol have crossed that must not

tables      == <<current, ids, symbols>>
dynamicVars == <<tables, place, sym, job, order, list, gathered, block, told, shown,
                 crossed>>

NoBlock == [sym |-> Nil, id |-> Nil, in |-> Nil]

DynamicInit ==
  /\ current = [s \in Symbols |-> Nil]
  /\ ids = [s \in Symbols |-> <<>>]
  /\ symbols = [i \in Ids |-> {}]
  /\ place = [t \in Users |-> "idle"]
  /\ sym = [t \in Users |-> Nil]
  /\ job = [t \in Users |-> Nil]
  /\ order = [t \in Users |-> "none"]
  /\ list = [t \in Users |-> <<>>]
  /\ gathered = [t \in Users |-> {}]
  /\ block = [t \in Users |-> NoBlock]
  /\ told = Ids
  /\ shown = [i \in Ids |-> [s \in Symbols |-> "no"]]
  /\ crossed = FALSE

\* Thread t goes on at a place, or is through with its use of a symbol.
MoveTo(t, to) ==
  /\ place' = [place EXCEPT ![t] = to]
  /\ sym' = [sym EXCEPT ![t] = IF to = "idle" THEN Nil ELSE @]
  /\ order' = [order EXCEPT ![t] = IF to = "idle" THEN "none" ELSE @]

Go(t, from, to) == place[t] = from /\ MoveTo(t, to)

-----------------------------------------------------------------------------
(* The tables.                                                             *)

\* current_dynamic_id of s when i is lost: only if it was i.
Lost(s, i, rest) ==
  IF current[s] # i THEN current[s] ELSE IF rest = <<>> THEN Nil ELSE Head(rest)

\* q without i, which it has once at most.
Without(q, i) == IF i \in ToSet(q) THEN RemoveAt(q, CHOOSE n \in DOMAIN q : q[n] = i) ELSE q

\* Mutant: current_dynamic_id is reset although others are bound.
RemoveResetting(i) ==
  LET affected == {s \in symbols[i] : ids[s] # <<>>}
  IN  /\ symbols' = [symbols EXCEPT ![i] = {}]
      /\ ids' = [s \in Symbols |-> IF s \in affected THEN Without(ids[s], i) ELSE ids[s]]
      /\ current' = [s \in Symbols |-> IF s \in affected THEN Nil ELSE current[s]]

\* _pmath_dynamic_remove: all bindings of i.
RemoveId(i) ==
  LET affected == {s \in symbols[i] : ids[s] # <<>>}
  IN  /\ symbols' = [symbols EXCEPT ![i] = {}]
      /\ ids' = [s \in Symbols |-> IF s \in affected THEN Without(ids[s], i) ELSE ids[s]]
      /\ current' = [s \in Symbols |-> IF s \in affected
                                       THEN Lost(s, i, Without(ids[s], i)) ELSE current[s]]

-----------------------------------------------------------------------------
(* Uses of a symbol by several threads.                                    *)

InChange(s) == \E t \in Users : sym[t] = s /\ order[t] # "none"
InRead(s)  == \E t \in Users : sym[t] = s /\ order[t] = "none"

\* A block of another thread than t has put the id of s away.
PutAway(t, s) == \E w \in Users \ {t} : block[w].sym = s /\ block[w].id # Nil

Crosses(c) == crossed' = (crossed \/ c)

-----------------------------------------------------------------------------
(* Changes of a symbol.                                                    *)

\* pmath_symbol_set_value tells of the change before it makes it; rules and
\* attributes are changed first.  A read that overlaps the change may get the old
\* value, and bind the symbol when those that have read it were told already.
Change(t, s) ==
  /\ place[t] = "idle"
  /\ \E o \in {"tell first", "write first"} :
       /\ order' = [order EXCEPT ![t] = o]
       /\ place' = [place EXCEPT ![t] = IF o = "tell first" THEN "reset" ELSE "write"]
  /\ sym' = [sym EXCEPT ![t] = s]
  /\ Crosses(InRead(s))
  /\ UNCHANGED <<tables, job, list, gathered, block, told, shown>>

\* Only a symbol with an id has anybody to tell; it has none when another thread
\* has put it away.
Reset(t) ==
  LET s == sym[t]
  IN  /\ place[t] = "reset"
      /\ MoveTo(t, IF current[s] # Nil THEN "take"
                 ELSE IF order[t] = "tell first" THEN "write" ELSE "idle")
      /\ current' = [current EXCEPT ![s] = Nil]
      /\ Crosses(PutAway(t, s))
      /\ UNCHANGED <<ids, symbols, job, list, gathered, block, told, shown>>

\* _pmath_dynamic_update takes the entry of the symbol ...
Take(t) ==
  LET s == sym[t]
  IN  /\ Go(t, "take", "inform")
      /\ list' = [list EXCEPT ![t] = ids[s]]
      /\ ids' = [ids EXCEPT ![s] = <<>>]
      /\ UNCHANGED <<current, symbols, job, gathered, block, told, shown, crossed>>

\* Mutant: only the first of several is told.
InformFirst(t) ==
  LET i == Head(list[t])
  IN  /\ place[t] = "inform"
      /\ list[t] # <<>>
      /\ gathered' = [gathered EXCEPT ![t] = IF @ = {} /\ symbols[i] # {} THEN {i} ELSE @]
      /\ RemoveId(i)
      /\ list' = [list EXCEPT ![t] = Tail(@)]
      /\ UNCHANGED <<place, sym, job, order, block, told, shown, crossed>>

\* ... removes all bindings of its ids, one by one ...
Inform(t) ==
  LET i == Head(list[t])
  IN  /\ place[t] = "inform"
      /\ list[t] # <<>>
      /\ gathered' = [gathered EXCEPT ![t] = @ \cup {j \in {i} : symbols[i] # {}}]
      /\ RemoveId(i)
      /\ list' = [list EXCEPT ![t] = Tail(@)]
      /\ UNCHANGED <<place, sym, job, order, block, told, shown, crossed>>

\* ... and calls Internal`DynamicUpdated with those that were bound.
Tell(t) ==
  /\ place[t] = "inform"
  /\ list[t] = <<>>
  /\ MoveTo(t, IF order[t] = "tell first" THEN "write" ELSE "idle")
  /\ told' = told \cup gathered[t]
  /\ gathered' = [gathered EXCEPT ![t] = {}]
  /\ UNCHANGED <<tables, job, list, block, shown, crossed>>

\* Inside its block, t wants nobody told who has read s before.
Write(t) ==
  LET s == sym[t]
      stale(d) == IF d = "fresh" \/ (d = "kept" /\ block[t].sym # s) THEN "stale" ELSE d
  IN  /\ Go(t, "write", IF order[t] = "tell first" THEN "idle" ELSE "reset")
      /\ shown' = [i \in Ids |-> [shown[i] EXCEPT ![s] = stale(@)]]
      /\ UNCHANGED <<tables, job, list, gathered, block, told, crossed>>

-----------------------------------------------------------------------------
(* The evaluation of a dynamic object (Internal`DynamicEvaluate).          *)

\* The front-end asks for an object that it has to evaluate, one thread at a time.
Evaluate(t, i) ==
  /\ place[t] = "idle"
  /\ job[t] = Nil
  /\ i \in told
  /\ \A w \in Users : job[w] # i
  /\ job' = [job EXCEPT ![t] = i]
  /\ told' = told \ {i}
  /\ shown' = [shown EXCEPT ![i] = [s \in Symbols |-> "no"]]
  /\ UNCHANGED <<tables, place, sym, order, list, gathered, block, crossed>>

\* Reads the value of s ...
Read(t, s) ==
  /\ place[t] = "idle"
  /\ job[t] # Nil
  /\ place' = [place EXCEPT ![t] = "read"]
  /\ sym' = [sym EXCEPT ![t] = s]
  /\ shown' = [shown EXCEPT ![job[t]][s] = IF @ = "stale" THEN "stale" ELSE "fresh"]
  /\ Crosses(InChange(s))
  /\ UNCHANGED <<tables, job, order, list, gathered, block, told>>

\* ... and then binds it (pmath_symbol_track_dynamic), unless it was the last
\* to do so.
Look(t) ==
  /\ Go(t, "read", IF current[sym[t]] = job[t] THEN "idle" ELSE "mark")
  /\ UNCHANGED <<tables, job, list, gathered, block, told, shown, crossed>>

Mark(t) ==
  /\ Go(t, "mark", "bind")
  /\ current' = [current EXCEPT ![sym[t]] = job[t]]
  /\ UNCHANGED <<ids, symbols, job, list, gathered, block, told, shown, crossed>>

\* _pmath_dynamic_bind.  When the mark is gone, the next change will not look for
\* the binding.
Bind(t) ==
  /\ Go(t, "bind", "idle")
  /\ ids' = [ids EXCEPT ![sym[t]] = <<job[t]>> \o Without(@, job[t])]
  /\ symbols' = [symbols EXCEPT ![job[t]] = @ \cup {sym[t]}]
  /\ Crosses(current[sym[t]] = Nil)
  /\ UNCHANGED <<current, job, list, gathered, block, told, shown>>

Show(t) ==
  /\ place[t] = "idle"
  /\ job[t] # Nil
  /\ block[t].in = Nil
  /\ job' = [job EXCEPT ![t] = Nil]
  /\ UNCHANGED <<tables, place, sym, order, list, gathered, block, told, shown, crossed>>

\* The front-end disposes of an object (Internal`DynamicRemove), and may show
\* it again.
Dispose(i) ==
  /\ RemoveId(i)
  /\ told' = told \cup {i}
  /\ shown' = [shown EXCEPT ![i] = [s \in Symbols |-> "no"]]
  /\ UNCHANGED <<place, sym, job, order, list, gathered, block, crossed>>

-----------------------------------------------------------------------------
(* Internal`SuppressDynamicTrackingBlock, and Block while it changes its   *)
(* variables: the id of the symbol is put away and back again.             *)

Enter(t, s) ==
  /\ place[t] = "idle"
  /\ block[t] = NoBlock
  /\ block' = [block EXCEPT ![t] = [sym |-> s, id |-> current[s], in |-> job[t]]]
  /\ current' = [current EXCEPT ![s] = Nil]
  /\ shown' = [i \in Ids |-> [shown[i] EXCEPT ![s] = IF @ = "fresh" THEN "kept" ELSE @]]
  /\ UNCHANGED <<ids, symbols, place, sym, job, order, list, gathered, told, crossed>>

\* The id is put back unless there is another one, although it may have lost its
\* binding; an object with that id will not bind the symbol again.
Leave(t) ==
  LET s == block[t].sym
      back == current[s] = Nil /\ block[t].id # Nil
      other == \E w \in Users \ {t} : block[w].sym = s
  IN  /\ place[t] = "idle"
      /\ block[t] # NoBlock
      /\ job[t] = block[t].in
      /\ current' = [current EXCEPT ![s] = IF @ = Nil THEN block[t].id ELSE @]
      /\ block' = [block EXCEPT ![t] = NoBlock]
      /\ shown' = [i \in Ids |->
                     [shown[i] EXCEPT ![s] = IF @ = "kept" /\ ~other THEN "fresh" ELSE @]]
      /\ Crosses(back /\ block[t].id \notin ToSet(ids[s]))
      /\ UNCHANGED <<ids, symbols, place, sym, job, order, list, gathered, told>>

-----------------------------------------------------------------------------
Continues(t) ==
  \/ Reset(t) \/ Take(t) \/ Inform(t) \/ Tell(t) \/ Write(t)
  \/ Look(t) \/ Mark(t) \/ Bind(t)

Calls(t) ==
  \/ \E s \in Symbols : Change(t, s) \/ Read(t, s) \/ Enter(t, s)
  \/ \E i \in Ids : Evaluate(t, i)
  \/ Show(t) \/ Leave(t)

DynamicNext ==
  \/ \E t \in Users : Continues(t) \/ Calls(t)
  \/ \E i \in Ids : Dispose(i)

DynamicSpec == DynamicInit /\ [][DynamicNext]_dynamicVars

-----------------------------------------------------------------------------
DynamicTypeOK ==
  /\ current \in [Symbols -> Ids \cup {Nil}]
  /\ ids \in [Symbols -> Seq(Ids)]
  /\ symbols \in [Ids -> SUBSET Symbols]
  /\ place \in [Users -> {"idle", "reset", "take", "inform", "write", "read", "mark",
                         "bind"}]
  /\ sym \in [Users -> Symbols \cup {Nil}]
  /\ job \in [Users -> Ids \cup {Nil}]
  /\ order \in [Users -> {"none", "tell first", "write first"}]
  /\ list \in [Users -> Seq(Ids)]
  /\ gathered \in [Users -> SUBSET Ids]
  /\ block \in [Users -> [sym : Symbols \cup {Nil}, id : Ids \cup {Nil},
                       in : Ids \cup {Nil}]]
  /\ told \in SUBSET Ids
  /\ shown \in [Ids -> [Symbols -> {"no", "fresh", "kept", "stale"}]]
  /\ crossed \in BOOLEAN

\* The object will be told, or told again, that it has to be evaluated.
Coming(i) ==
  \/ i \in told
  \/ \E t \in Users : i \in gathered[t] \/ (i \in ToSet(list[t]) /\ symbols[i] # {})

\* i is bound to s, and s knows that somebody is: the next change is told.  While a
\* block has put the id away, it still has to put it back.
Watching(i, s) ==
  /\ i \in ToSet(ids[s])
  /\ \/ current[s] # Nil
     \/ shown[i][s] = "kept" /\ \E t \in Users : block[t].sym = s /\ block[t].id # Nil

\* An object that displays the value of a symbol is bound to it, or is told, or has just
\* read it, or a change is about to tell ("A value of 0 means that no dynamic object is
\* currently interested", symbols.c), unless uses of the symbol have crossed: any
\* threads may change, read and block the same symbols at once otherwise.
WatchedUnlessCrossed ==
  ~crossed => \A i \in Ids, s \in Symbols : shown[i][s] \in {"fresh", "kept"} =>
    \/ Watching(i, s)
    \/ Coming(i)
    \/ \E t \in Users : sym[t] = s /\ job[t] = i
    \/ InChange(s)

\* An object that displays an old value is told, by the change that made it old if
\* that is still going on, also when a block has read the symbol again and then
\* changed it.
InformedUnlessCrossed ==
  ~crossed => \A i \in Ids, s \in Symbols :
    shown[i][s] = "stale" => InChange(s) \/ Coming(i)

=============================================================================
