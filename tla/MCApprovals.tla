----------------------------- MODULE MCApprovals -----------------------------
(***************************************************************************)
(* Approvals on small instances: one or two approvals, two callers, and the  *)
(* mixes of operations that race with each other.                           *)
(***************************************************************************)
EXTENDS Approvals, TLC

CONSTANTS a1, a2, u1, u2, k1, k2, k3

O(is, id) == [is |-> is, id |-> id, config |-> k1]
Sync(config) == [is |-> "sync", id |-> a1, config |-> config]

\* Two deciders, a dispatcher and a listing race on one approval.
MCDeciding == { O(is, a1) : is \in
    {"stage", "activate", "approve", "deny", "consume", "list"} }

\* Sweeps after a revision and after a cancellation, while approvals are staged,
\* granted, withdrawn and used.
MCSweeping == { O(is, a1) : is \in
    {"stage", "activate", "approve", "consume", "invalidate", "purge"} }
    \cup { O("stage", a2), Sync(k2), Sync(k3) }

MCSymmetry == Permutations({u1, u2})
==============================================================================
