-------------------------------- MODULE Grants --------------------------------
(***************************************************************************)
(* What the approval store promises the rest of the system: a grant is good  *)
(* for one use, and only while the authority it was requested under is still *)
(* the current one.  A grant that was refused, withdrawn, outlived or used   *)
(* never comes back.                                                        *)
(***************************************************************************)
EXTENDS Naturals

CONSTANT Ids

VARIABLES
    epoch,      \* how many times the authority has been revised
    grant,      \* where each grant is
    under       \* the epoch each grant was requested under

vars == <<epoch, grant, under>>

Init ==
    /\ epoch \in Nat
    /\ grant = [id \in Ids |-> "none"]
    /\ under = [id \in Ids |-> 0]

Request(id) ==
    /\ grant[id] = "none"
    /\ grant' = [grant EXCEPT ![id] = "staged"]
    /\ under' = [under EXCEPT ![id] = epoch]
    /\ UNCHANGED epoch

\* One step towards the use of the grant.
Advance(id, from, to) ==
    /\ grant[id] = from /\ under[id] = epoch
    /\ grant' = [grant EXCEPT ![id] = to]
    /\ UNCHANGED <<epoch, under>>

Withdraw(id) ==
    /\ grant[id] \in {"staged", "active", "approved"}
    /\ grant' = [grant EXCEPT ![id] = "void"]
    /\ UNCHANGED <<epoch, under>>

Revise == epoch' = epoch + 1 /\ UNCHANGED <<grant, under>>

Next ==
    \/ Revise
    \/ \E id \in Ids :
        \/ Request(id)
        \/ Advance(id, "staged", "active")
        \/ Advance(id, "active", "approved")
        \/ Advance(id, "approved", "consumed")
        \/ Withdraw(id)

Spec == Init /\ [][Next]_vars
==============================================================================
