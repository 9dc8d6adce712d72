---------------------------- MODULE RotationSpec ----------------------------
(***************************************************************************)
(* What the version history of one credential promises its callers, with   *)
(* no rotation statuses, checklists, locks or workers: some value can      *)
(* always be obtained, a staged value cannot be before its promotion, one  *)
(* change is under way at a time, and until that change is decided the     *)
(* value it started from stays obtainable.  CredentialRotation implements  *)
(* it (RotationRefinement).                                                *)
(***************************************************************************)
EXTENDS Integers

VARIABLES
  issued,  \* how many values were ever given a number
  served,  \* the values a caller can obtain
  staged,  \* the value that waits for its promotion, if any
  change,  \* the change under way, if any: from value old to value new
  window   \* replaced values that stay obtainable for a while

specVars == <<issued, served, staged, change, window>>

\* The values no purge may take.
Olds == {c.old : c \in change}
Protected == Olds \cup window

NewOnes == {c.new : c \in change}

Init ==
  \/ issued = 1 /\ served = {1} /\ staged = {} /\ change = {} /\ window = {}
  \/ /\ issued = 2 /\ served = {1, 2} /\ staged = {} /\ window = {}
     /\ change = {[old |-> 1, new |-> 2]}

\* A value is added and can be obtained at once.
Publish ==
  /\ issued' = issued + 1
  /\ served' = served \cup {issued + 1}
  /\ UNCHANGED <<staged, change, window>>

\* A change starts from a value that can be obtained; the new one cannot.
Stage ==
  /\ change = {}
  /\ issued' = issued + 1
  /\ staged' = {issued + 1}
  /\ \E p \in served : change' = {[old |-> p, new |-> issued + 1]}
  /\ UNCHANGED <<served, window>>

Promote ==
  /\ served' = served \cup staged
  /\ staged' = {}
  /\ UNCHANGED <<issued, change, window>>

\* The change is final: its old value loses its protection, or is destroyed
\* if another one is left.
Settle ==
  /\ staged = {} /\ change # {}
  /\ change' = {}
  /\ \/ served' = served
     \/ served' = served \ Olds /\ served' # {}
  /\ UNCHANGED <<issued, staged, window>>

\* The change is given up: its new value can no longer be obtained.
GiveUp ==
  /\ change # {}
  /\ change' = {} /\ staged' = {}
  /\ served' = served \ NewOnes
  /\ UNCHANGED <<issued, window>>

\* An emergency replacement gives up the change under way, is obtainable at
\* once and keeps the value it replaces for a while.
Replace ==
  /\ issued' = issued + 1
  /\ served' = (served \ NewOnes) \cup {issued + 1}
  /\ change' = {} /\ staged' = {}
  /\ \E p \in served \ NewOnes : window' = window \cup {p}

CloseWindow ==
  /\ window' \in SUBSET window
  /\ UNCHANGED <<issued, served, staged, change>>

\* Retention destroys values, never a protected one and never the last.
Purge ==
  /\ served' \in SUBSET served /\ staged' \in SUBSET staged
  /\ Protected \cap served \subseteq served'
  /\ served' # {}
  /\ UNCHANGED <<issued, change, window>>

Next ==
  Publish \/ Stage \/ Promote \/ Settle \/ GiveUp \/ Replace \/ CloseWindow \/ Purge

Spec == Init /\ [][Next]_specVars
=============================================================================
