------------------------------ MODULE MCAudit ------------------------------
(* The audit log of an organization: its hash chain, and the quota its        *)
(* writers are charged to.  A gate that refuses is a write that never starts, *)
(* so the chain and the counters share no state; a behaviour moves one of     *)
(* them, and component says which.  "verify" adds a verification to the log:  *)
(* it ends in the tick in which it began, beside one writer at a time and the *)
(* purge; "chain" has all writers and no verification.                        *)
EXTENDS AuditChain, AuditQuota, TLC

VARIABLE component

OneWriter == Cardinality({w \in Writers : tx[w] # NoWrite}) <= 1

Init == component \in {"chain", "verify", "quota"} /\ ChainInit /\ QuotaInit

Next ==
    /\ \/ /\ component = "chain" /\ ChainNext
          /\ UNCHANGED <<verify, quotaVars>>
       \/ /\ component = "verify" /\ ChainNext /\ OneWriter'
          /\ now' # now => verify = NoWrite
          /\ UNCHANGED quotaVars
       \/ component = "quota" /\ QuotaNext /\ UNCHANGED chainVars
    /\ UNCHANGED component

Spec == Init /\ [][Next]_<<component, chainVars, quotaVars>>

\* Writers are interchangeable, and so are the transactions being charged.
Symmetry == Permutations(Writers) \cup Permutations(Charges)
=============================================================================
