------------------------------- MODULE Lease -------------------------------
(***************************************************************************)
(* What `ci provision` and `ci teardown` promise about anything they take  *)
(* from a shared stock: a Beaker job (provision/beaker.py) or a node of    *)
(* OpenStack (provision/osp.py).  MachineLease and CloudLease implement it *)
(* under the refinement mappings they state.                               *)
(***************************************************************************)
EXTENDS FiniteSets

CONSTANT Resource \* what the provisioning may take

VARIABLES
    holding, \* resource -> "unused", "held" or "freed"
    noted,   \* what the env file hands to the teardown, at most one
    over     \* the provisioning has ended

vars == <<holding, noted, over>>

Init ==
    /\ holding = [r \in Resource |-> "unused"]
    /\ noted = {} /\ over = FALSE

\* A step of the provisioning may be its last.
MayEnd == over => over'

\* A new resource is taken when none is held, while the provisioning runs.
Take(r) ==
    /\ ~over /\ holding[r] = "unused"
    /\ \A s \in Resource : holding[s] # "held"
    /\ holding' = [holding EXCEPT ![r] = "held"]
    /\ UNCHANGED <<noted, over>>

\* What is held is handed over, once.
Note(r) ==
    /\ ~over /\ holding[r] = "held" /\ noted = {}
    /\ noted' = {r} /\ MayEnd
    /\ UNCHANGED holding

\* What is held is given back; when it was handed over, by the teardown.
Give(r) ==
    /\ holding[r] = "held" /\ (r \in noted => over)
    /\ holding' = [holding EXCEPT ![r] = "freed"] /\ MayEnd
    /\ UNCHANGED noted

End == ~over /\ over' = TRUE /\ UNCHANGED <<holding, noted>>

Next == End \/ \E r \in Resource : Take(r) \/ Note(r) \/ Give(r)

Spec == Init /\ [][Next]_vars

=============================================================================
