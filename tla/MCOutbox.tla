------------------------------- MODULE MCOutbox -------------------------------
(***************************************************************************)
(* Outbox on a small instance: a best-effort and a protected notification      *)
(* with different windows, and three worker tasks, two of which go by the      *)
(* same worker id, as the tasks of a process that did not wait for its last    *)
(* worker do.                                                                 *)
(***************************************************************************)
EXTENDS Outbox, TLC

CONSTANTS w1, w2, w3, a, b

MCDeadline == [id \in Ids |-> IF id = 1 THEN 1 ELSE 2]
MCWorkerId == [w \in Workers |-> IF w = w3 THEN b ELSE a]
MCSymmetry == Permutations({w1, w2})
==============================================================================
