------------------------------ MODULE MCDispatch ------------------------------
(***************************************************************************)
(* One tool request dispatched by two tasks, with and without an approval.   *)
(***************************************************************************)
EXTENDS Dispatch, TLC

CONSTANTS c1, c2, r1, x1, x2

MCSymmetry == Permutations({c1, c2}) \cup Permutations({x1, x2})
==============================================================================
