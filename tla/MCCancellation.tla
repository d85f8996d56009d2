---------------------------- MODULE MCCancellation ----------------------------
(***************************************************************************)
(* One run with two prompts and two requests to cancel it.                   *)
(***************************************************************************)
EXTENDS Cancellation, TLC

CONSTANTS d1, d2, k1, k2, x1, x2

MCSymmetry == Permutations({d1, d2}) \cup Permutations({k1, k2}) \cup Permutations({x1, x2})
==============================================================================
