----------------------------- MODULE TempSymbols -----------------------------
(***************************************************************************)
(* The collector of temporary symbols (_pmath_unsafe_run_gc in             *)
(* garbage-collection-private.c), which the timer thread runs once a       *)
(* minute.                                                                 *)
(*                                                                         *)
(* Objects are counted: an object without a reference is destroyed at      *)
(* once.  A symbol that is used by its own value is never destroyed so; if *)
(* it is temporary, the collector finds it.  It counts the references to   *)
(* each symbol that are in values of temporary symbols.  Those with        *)
(* references from elsewhere are alive, and so is what their values use;   *)
(* the values of the others are cleared.                                   *)
(*                                                                         *)
(* The counts are kept in the objects, together with one bit that tells    *)
(* this pass from the last one: a count with the other bit is as good as   *)
(* none.  A count with the same bit may also be left from an earlier pass. *)
(*                                                                         *)
(* Nothing keeps the other threads from going on during a pass.  A         *)
(* reference that is given up after it was counted makes the counts wrong, *)
(* as counts of an earlier pass do.  The variable misled records that one  *)
(* of this has happened; it restricts nothing.                             *)
(*                                                                         *)
(* All symbols of the model are temporary.  References from anywhere else  *)
(* (variables of a thread, values of other symbols) are "outside".         *)
(***************************************************************************)
EXTENDS Integers, FiniteSets, Sequences, SequencesExt

CONSTANTS Order,     \* the temporary symbols, in the order of the list of all symbols
          Exprs,     \* expressions
          Undefined  \* no value

Syms == ToSet(Order)
Objs == Syms \cup Exprs

ASSUME GCAssumption ==
  /\ Order \in Seq(Syms)
  /\ IsInjective(Order)
  /\ IsFiniteSet(Exprs)
  /\ Syms \cap Exprs = {}
  /\ Undefined \notin Objs

VARIABLES live,        \* the objects that exist
          outside,     \* those with a reference from outside
          value,       \* value[s]: the value of symbol s
          part,        \* part[e]: the objects that expression e consists of
          pass,        \* gc_pass
          bit, seen,   \* gc_refcount of each object: the pass, and the count or mark
          phase,       \* what the pass does
          rest,        \* symbols that the phase has not come to
          todo,        \* references that it has still to visit
          visiting,    \* the value they are in
          dead,        \* num_possibly_dead
          resurrected, \* num_resurrected
          misled       \* whether counts of an earlier pass were left, or a reference was given
                       \* up since the pass began

objects == <<live, outside, value, part>>
counts  == <<bit, seen>>
gcVars  == <<objects, pass, counts, phase, rest, todo, visiting, dead, resurrected, misled>>

GCInit ==
  /\ live = {}
  /\ outside = {}
  /\ value = [s \in Syms |-> Undefined]
  /\ part = [e \in Exprs |-> {}]
  /\ pass = 0
  /\ bit = [o \in Objs |-> 0]
  /\ seen = [o \in Objs |-> 0]
  /\ phase = "none"
  /\ rest = <<>>
  /\ todo = <<>>
  /\ visiting = Undefined
  /\ dead = 0
  /\ resurrected = 0
  /\ misled = FALSE

-----------------------------------------------------------------------------
(* References.                                                             *)

RefersTo(p, o) == IF p \in Syms THEN value[p] = o ELSE o \in part[p]

\* The references to o, without those of the collector itself.
Refcount(o) ==
  Cardinality({p \in live : RefersTo(p, o)}) + (IF o \in outside THEN 1 ELSE 0)

\* What the collector holds itself: the symbol it has come to, the value that it
\* visits and what it visits next.
Held ==
  {Order[i] : i \in {k \in 1 .. Len(Order) : phase # "none" /\ k = Len(Order) - Len(rest)}}
  \cup ToSet(todo) \cup {visiting}

-----------------------------------------------------------------------------
(* The other threads.                                                      *)

collector == <<pass, counts, phase, rest, todo, visiting, dead, resurrected>>

\* gc_refcount of a new object is 0, whatever pass it is.
New(o) ==
  /\ o \notin live
  /\ live' = live \cup {o}
  /\ outside' = outside \cup {o}
  /\ bit' = [bit EXCEPT ![o] = 0]
  /\ seen' = [seen EXCEPT ![o] = 0]
  /\ UNCHANGED <<pass, phase, rest, todo, visiting, dead, resurrected, misled>>

\* pmath_symbol_create_temporary.
NewSymbol(s) ==
  /\ New(s)
  /\ UNCHANGED <<value, part>>

\* An expression of one or two objects.
NewExpr(e, P) ==
  /\ New(e)
  /\ P # {} /\ Cardinality(P) <= 2
  /\ part' = [part EXCEPT ![e] = P]
  /\ UNCHANGED value

\* A reference is given up.
Release == misled' = (misled \/ phase # "none")

\* Assigns to a symbol, or clears it.  It gives up the old value.
Assign(s, o) ==
  /\ s \in outside
  /\ o \in outside \cup {Undefined}
  /\ value[s] # o
  /\ value' = [value EXCEPT ![s] = o]
  /\ IF value[s] = Undefined THEN UNCHANGED misled ELSE Release
  /\ UNCHANGED <<live, outside, part, collector>>

\* Reads the value of a symbol or a part of an expression.
ReadFrom(o) ==
  /\ o \in live \ outside
  /\ \E p \in outside : RefersTo(p, o)
  /\ outside' = outside \cup {o}
  /\ UNCHANGED <<live, value, part, collector, misled>>

Drop(o) ==
  /\ o \in outside
  /\ outside' = outside \ {o}
  /\ Release
  /\ UNCHANGED <<live, value, part, collector>>

\* An object without a reference is destroyed, by the thread that gave up the last
\* one (which may be the collector), and its own references are given up.
Destroy(o) ==
  /\ o \in live
  /\ Refcount(o) = 0
  /\ o \notin Held
  /\ live' = live \ {o}
  /\ value' = [s \in Syms |-> IF s = o THEN Undefined ELSE value[s]]
  /\ part' = [e \in Exprs |-> IF e = o THEN {} ELSE part[e]]
  /\ UNCHANGED <<outside, collector, misled>>

-----------------------------------------------------------------------------
(* The pass.                                                               *)

\* The counts of this pass will be wrong if there is one left from the last pass
\* but one, or if an object is about to be destroyed.
Begin ==
  LET new == 1 - pass
  IN  /\ phase = "none"
      /\ pass' = new
      /\ phase' = "count"
      /\ rest' = Order
      /\ misled' = \E o \in live : (bit[o] = new /\ seen[o] # 0) \/ Refcount(o) = 0
      /\ UNCHANGED <<objects, counts, todo, visiting, dead, resurrected>>

\* The phase comes to its next symbol ...
ToNext(p) == phase = p /\ todo = <<>> /\ rest # <<>> /\ rest' = Tail(rest)
\* ... or to the end of the list.
Through(p) == phase = p /\ todo = <<>> /\ rest = <<>>

Visit(s) ==
  /\ todo' = IF s \in live /\ value[s] # Undefined THEN <<value[s]>> ELSE <<>>
  /\ visiting' = IF s \in live THEN value[s] ELSE Undefined

\* The value is released when all that is in it was visited.
Visited(q) ==
  /\ todo' = q
  /\ visiting' = IF q = <<>> THEN Undefined ELSE visiting

\* gc_init_all_refs.
CountSymbol ==
  /\ ToNext("count")
  /\ Visit(Head(rest))
  /\ UNCHANGED <<objects, pass, counts, phase, dead, resurrected, misled>>

\* More references than an object can have.  Counts that go on from those of an
\* earlier pass grow and grow, but above this number they are all the same.
Many == Cardinality(Objs) + 2

SetCount(o, n) ==
  /\ bit' = [bit EXCEPT ![o] = pass]
  /\ seen' = [seen EXCEPT ![o] = IF n > Many THEN Many ELSE n]

\* Mutant: goes on with the count of the last pass.
CountedEver(o) == seen[o]

\* get_gc_refs: a count of another pass is none.
Counted(o) == IF bit[o] = pass THEN seen[o] ELSE 0

\* gc_visit_ref: the references of an expression count once all references to
\* it are counted.
CountRef ==
  LET o == Head(todo)
      n == Counted(o) + 1
  IN  /\ phase = "count"
      /\ todo # <<>>
      /\ SetCount(o, n)
      /\ Visited((IF o \in Exprs /\ n = Refcount(o) THEN SetToSeq(part[o]) ELSE <<>>)
                 \o Tail(todo))
      /\ UNCHANGED <<objects, pass, phase, rest, dead, resurrected, misled>>

CountsDone ==
  /\ Through("count")
  /\ phase' = "mark"
  /\ rest' = Order
  /\ UNCHANGED <<objects, pass, counts, todo, visiting, dead, resurrected, misled>>

\* What gc_refcount says after the counts: the mark of a temporary symbol, and
\* that an expression was visited.
AliveVisited   == 0
AliveUnvisited == 1
PossiblyDead   == 2
Is(o, m) == bit[o] = pass /\ seen[o] = m

\* Mutant: forgets the symbols that have no reference in a value.
MarkSymbolSeen ==
  LET s == Head(rest)
  IN  /\ ToNext("mark")
      /\ IF s \in live
         THEN IF Counted(s) = Refcount(s) /\ Counted(s) > 1
              THEN SetCount(s, PossiblyDead) /\ dead' = dead + 1
              ELSE SetCount(s, AliveUnvisited) /\ UNCHANGED dead
         ELSE UNCHANGED <<counts, dead>>
      /\ UNCHANGED <<objects, pass, phase, todo, visiting, resurrected, misled>>

\* gc_mark_possibly_dead_or_alive_unvisited.
MarkSymbol ==
  LET s == Head(rest)
  IN  /\ ToNext("mark")
      /\ IF s \in live
         THEN IF Counted(s) = Refcount(s)
              THEN SetCount(s, PossiblyDead) /\ dead' = dead + 1
              ELSE SetCount(s, AliveUnvisited) /\ UNCHANGED dead
         ELSE UNCHANGED <<counts, dead>>
      /\ UNCHANGED <<objects, pass, phase, todo, visiting, resurrected, misled>>

MarksDone ==
  /\ Through("mark")
  /\ phase' = IF dead = 0 THEN "none" ELSE "propagate"
  /\ rest' = IF dead = 0 THEN <<>> ELSE Order
  /\ UNCHANGED <<objects, pass, counts, todo, visiting, dead, resurrected, misled>>

\* gc_propagate_life_step.
PropagateSymbol ==
  LET s == Head(rest)
  IN  /\ ToNext("propagate")
      /\ IF s \in live /\ ~Is(s, AliveVisited) /\ ~Is(s, PossiblyDead)
         THEN SetCount(s, AliveVisited) /\ Visit(s)
         ELSE UNCHANGED <<counts, todo, visiting>>
      /\ UNCHANGED <<objects, pass, phase, dead, resurrected, misled>>

\* gc_propagate_life_visitor.
PropagateRef ==
  LET o == Head(todo)
  IN  /\ phase = "propagate"
      /\ todo # <<>>
      /\ \/ /\ Is(o, AliveVisited) \/ (o \in Syms /\ ~Is(o, PossiblyDead))
            /\ Visited(Tail(todo))
            /\ UNCHANGED <<counts, resurrected>>
         \/ /\ o \in Syms /\ Is(o, PossiblyDead)
            /\ SetCount(o, AliveUnvisited)
            /\ Visited(Tail(todo))
            /\ resurrected' = resurrected + 1
         \/ /\ o \in Exprs /\ ~Is(o, AliveVisited)
            /\ SetCount(o, AliveVisited)
            /\ Visited(SetToSeq(part[o]) \o Tail(todo))
            /\ UNCHANGED resurrected
      /\ UNCHANGED <<objects, pass, phase, rest, dead, misled>>

\* The next step, if the last one has found something.
Propagated ==
  /\ Through("propagate")
  /\ dead' = dead - resurrected
  /\ resurrected' = 0
  /\ phase' = IF resurrected > 0 THEN "propagate" ELSE "clear"
  /\ rest' = Order
  /\ UNCHANGED <<objects, pass, counts, todo, visiting, misled>>

\* gc_clear_all_possibly_dead_symbols, which stops when it has cleared as many
\* symbols as there are.
ClearSymbol ==
  LET s == Head(rest)
      found == s \in live /\ Is(s, PossiblyDead)
  IN  /\ ToNext("clear")
      /\ dead > 0
      /\ IF found
         THEN value' = [value EXCEPT ![s] = Undefined] /\ dead' = dead - 1
         ELSE UNCHANGED <<value, dead>>
      /\ UNCHANGED <<live, outside, part, pass, counts, phase, todo, visiting, resurrected, misled>>

End ==
  /\ phase = "clear"
  /\ dead = 0 \/ rest = <<>>
  /\ phase' = "none"
  /\ rest' = <<>>
  /\ dead' = 0
  /\ UNCHANGED <<objects, pass, counts, todo, visiting, resurrected, misled>>

-----------------------------------------------------------------------------
Others ==
  \/ \E s \in Syms : NewSymbol(s) \/ \E o \in Objs \cup {Undefined} : Assign(s, o)
  \/ \E e \in Exprs : \E P \in SUBSET outside : NewExpr(e, P)
  \/ \E o \in Objs : ReadFrom(o) \/ Drop(o) \/ Destroy(o)

PassStep ==
  \/ CountSymbol \/ CountRef \/ CountsDone
  \/ MarkSymbol \/ MarksDone
  \/ PropagateSymbol \/ PropagateRef \/ Propagated
  \/ ClearSymbol \/ End

GCNext == Others \/ Begin \/ PassStep

GCSpec == GCInit /\ [][GCNext]_gcVars

-----------------------------------------------------------------------------
GCTypeOK ==
  /\ live \in SUBSET Objs
  /\ outside \in SUBSET live
  /\ value \in [Syms -> Objs \cup {Undefined}]
  /\ part \in [Exprs -> SUBSET Objs]
  /\ pass \in 0..1
  /\ bit \in [Objs -> 0..1]
  /\ seen \in [Objs -> Nat]
  /\ phase \in {"none", "count", "mark", "propagate", "clear"}
  /\ rest \in Seq(Syms)
  /\ todo \in Seq(Objs)
  /\ visiting \in Objs \cup {Undefined}
  /\ dead \in Nat
  /\ resurrected \in Nat
  /\ misled \in BOOLEAN

\* The objects that can be reached from outside: they are in every set that has
\* what is used from outside, and with an object all that it refers to.
Reachable ==
  LET follows(R) == \A p \in R : \A o \in live : RefersTo(p, o) => o \in R
  IN  {o \in Objs : \A R \in SUBSET Objs : outside \subseteq R /\ follows(R) => o \in R}

\* The collector clears no symbol that somebody can still use, unless it is misled:
\* others may create objects, read and assign during the pass.
OnlyUnusedUnlessMisled ==
  phase = "clear" /\ ~misled =>
    \A s \in live \cap Syms : Is(s, PossiblyDead) => s \notin Reachable

\* At the end of a pass that was not misled no symbol that nobody can use has a value,
\* however the symbols and expressions refer to each other: no circle is left, and
\* the counts of references do the rest.  No symbol needs a second pass.
NothingLeftUnlessMisled ==
  [][phase # "none" /\ phase' = "none" /\ ~misled' =>
       \A s \in (live \cap Syms)' : s \notin Reachable' => value'[s] = Undefined]_gcVars

=============================================================================
