---------------------------- MODULE MCUnattended ----------------------------
(* What works while nobody watches: the API keys of a machine user, and the   *)
(* health checks of an endpoint.  The modules share no state; a behaviour     *)
(* moves one of them, and component says which.  "health" has one request of  *)
(* a member at a time; "deletion" has several, and leaves the endpoint's      *)
(* settings as they are.                                                      *)
EXTENDS MachineKeys, HealthCheck, FiniteSets, TLC

VARIABLE component

OneRequest == Cardinality({m \in Members : members[m] # AtRest}) <= 1

\* Both have several initial states, and one while the other moves.
Init ==
    /\ component \in {"machine", "health", "deletion"} /\ MachineInit /\ HealthInit
    /\ component # "machine" => expiry[1] = "never"
    /\ component # "health" => threshold = 1

Next ==
    /\ \/ component = "machine" /\ MachineNext /\ UNCHANGED healthVars
       \/ component = "health" /\ HealthNext /\ OneRequest' /\ UNCHANGED machineVars
       \/ /\ component = "deletion" /\ HealthNext
          /\ UNCHANGED <<paused, threshold, machineVars>>
    /\ UNCHANGED component

Spec == Init /\ [][Next]_<<component, machineVars, healthVars>>

\* Administrators are interchangeable.
Symmetry == Permutations(Admins)
=============================================================================
