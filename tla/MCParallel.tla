----------------------------- MODULE MCParallel -----------------------------
(* A call with three items and two tasks; the code for its first item      *)
(* makes another call with two items and one task.                         *)
EXTENDS Parallel, TLC

CONSTANTS outer, inner, j, k, l

MCCallOf  == j :> outer @@ k :> outer @@ l :> inner
MCItems   == outer :> 3 @@ inner :> 2
MCCount   == outer :> 1 @@ inner :> 1
MCNested  == inner :> <<outer, 1>>
MCEndless == {<<outer, 2>>}
=============================================================================
