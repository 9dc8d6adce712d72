------------------------------ MODULE MCAccess ------------------------------
(* The ways a person is let in: browser sessions, CLI logins, and the second  *)
(* factor with its recovery.  They share no row, so a behaviour moves one of  *)
(* them and component says which: the interleavings of the three add nothing, *)
(* and each is explored in full.                                              *)
EXTENDS OrgSession, CliLogin, AccountRecovery, TLC

CONSTANTS
    memberBrowser,   \* the browser session of a member
    operatorBrowser  \* the browser session of an operator

VARIABLE component

Init ==
    /\ component \in {"session", "cli", "account"}
    /\ SessionInit /\ CliInit /\ AccountInit

Next ==
    /\ \/ component = "session" /\ SessionNext /\ UNCHANGED <<cliVars, accountVars>>
       \/ component = "cli" /\ CliNext /\ UNCHANGED <<sessionVars, accountVars>>
       \/ component = "account" /\ AccountNext /\ UNCHANGED <<sessionVars, cliVars>>
    /\ UNCHANGED component

Spec == Init /\ [][Next]_<<component, sessionVars, cliVars, accountVars>>

\* Requests about the second factor are interchangeable.
Symmetry == Permutations(Calls)
=============================================================================
