---------------------------- MODULE MCTempSymbols ----------------------------
(* Two symbols, x before y in the list. *)
EXTENDS TempSymbols

CONSTANTS x, y

MCOrder == <<x, y>>
=============================================================================
