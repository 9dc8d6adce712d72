----------------------------- MODULE MCCustody -----------------------------
(* What is kept and handed out: the life of one share, the creation and mass  *)
(* closing of the shares of a credential, the keys the vault derives when it  *)
(* is unsealed, and the API keys of a machine user.  ShareReveal starts where *)
(* ShareCreation ends, at an inserted row, and the others share no state with *)
(* them; a behaviour moves one of the four, and component says which.         *)
EXTENDS ShareReveal, ShareCreation, VaultSeal, MachineKeys

VARIABLE component

\* Where a component has several initial states, it has one while another moves.
Init ==
    /\ component \in {"reveal", "creation", "vault", "machine"}
    /\ RevealInit /\ CreationInit /\ VaultInit /\ MachineInit
    /\ component # "reveal" => share = CHOOSE p \in Profiles : TRUE
    /\ component # "machine" => expiry[1] = "never"

Next ==
    /\ \/ /\ component = "reveal" /\ RevealNext
          /\ UNCHANGED <<creationVars, vaultVars, machineVars>>
       \/ /\ component = "creation" /\ CreationNext
          /\ UNCHANGED <<revealVars, vaultVars, machineVars>>
       \/ /\ component = "vault" /\ VaultNext
          /\ UNCHANGED <<revealVars, creationVars, machineVars>>
       \/ /\ component = "machine" /\ MachineNext
          /\ UNCHANGED <<revealVars, creationVars, vaultVars>>
    /\ UNCHANGED component

\* RevealFairness, VaultFairness and MachineFairness for the behaviours that move
\* the component: the guard makes a conjunct void in all others.
Fairness ==
    /\ WF_revealVars(component = "reveal" /\ ExpireIfDue)
    /\ \A r \in VaultRequests : WF_vaultVars(component = "vault" /\ Progress(r))
    /\ \A j \in Jobs :
        /\ WF_machineVars(component = "machine" /\ RevokeSelect(j))
        /\ SF_machineVars(component = "machine" /\ RevokeClaim(j))
    /\ \A a \in Admins : WF_machineVars(component = "machine" /\ AdminFails(a))
    /\ \A k \in Keys : WF_machineVars(component = "machine" /\ Later(k))

Spec ==
    /\ Init /\ [][Next]_<<component, revealVars, creationVars, vaultVars, machineVars>>
    /\ Fairness
=============================================================================
