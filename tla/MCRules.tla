------------------------------ MODULE MCRules ------------------------------
(***************************************************************************)
(* Instance of Rules for TLC: one constant pattern f(1) and one that       *)
(* matches everything, f(~x), which is more general.                       *)
(***************************************************************************)
EXTENDS Rules, TLC
CONSTANTS f1, fx
MCRank == (f1 :> 1) @@ (fx :> 2)
Alike == Permutations(Threads) \union Permutations(Bodies)
=============================================================================
