----------------------------- MODULE MCTenancy -----------------------------
(* Projects, their members and the erasure of a person.  The three modules    *)
(* share no row; a behaviour moves one of them, and component says which.     *)
EXTENDS ProjectLifecycle, ProjectMembers, Erasure

VARIABLE component

all == <<component, projectVars, membersVars, erasureVars>>

Init ==
    /\ component \in {"project", "members", "erasure"}
    /\ ProjectInit /\ MembersInit /\ ErasureInit

Next ==
    /\ \/ component = "project" /\ ProjectNext /\ UNCHANGED <<membersVars, erasureVars>>
       \/ component = "members" /\ MembersNext /\ UNCHANGED <<projectVars, erasureVars>>
       \/ component = "erasure" /\ ErasureNext /\ UNCHANGED <<projectVars, membersVars>>
    /\ UNCHANGED component

Spec ==
    /\ Init /\ [][Next]_all
    /\ (component = "project" => ProjectFairness)
=============================================================================
