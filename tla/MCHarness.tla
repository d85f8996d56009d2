------------------------------ MODULE MCHarness ------------------------------
(* Instances of Harness for TLC.                                             *)
EXTENDS Harness, TLC

CONSTANTS c1, c2, c3, steer, note

MCTarget == (steer :> "next_step") @@ (note :> "next_turn")
MCSymmetry == Permutations(Tasks)
==============================================================================
