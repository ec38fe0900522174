------------------------------ MODULE MCDynamic ------------------------------
(* All threads, all symbols and all objects are alike. *)
EXTENDS Dynamic, TLC

CONSTANT Load  \* bound: how many uses and blocks of symbols there are at once

Alike == Permutations(Users) \cup Permutations(Symbols) \cup Permutations(Ids)

\* Nothing is claimed of what follows when uses have crossed.
Bounded ==
  /\ ~crossed
  /\ Cardinality({t \in Users : place[t] # "idle"})
       + Cardinality({t \in Users : block[t] # NoBlock}) <= Load
=============================================================================
