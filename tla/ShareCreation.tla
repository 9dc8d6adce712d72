---------------------------- MODULE ShareCreation ----------------------------
(***************************************************************************)
(* The shares of ONE credential: how they come into being and which events *)
(* close them together.  modules/credential-shares/service.ts and          *)
(* external-service.ts (creation, supersession), the archive and unarchive *)
(* routes of modules/credentials/routes.ts with their guards, and the      *)
(* deactivation of the sharer in modules/org/routes.ts.                    *)
(*                                                                         *)
(* Creating a share is two steps: a preflight that reads archived_at and   *)
(* the declared fields without a lock, and the insert.  For a guest link   *)
(* the insert counts the pending links of its bucket under an advisory     *)
(* lock that is held until commit, so count and insert are one step; the   *)
(* foreign key makes the insert wait for a concurrent archival's row lock, *)
(* after which it goes ahead.                                              *)
(*                                                                         *)
(* Abstractions.  The life of a share after its creation is that of module *)
(* ShareReveal, here only Resolve (viewed, revoked or expired by itself).  *)
(* A scope is what the two columns hold: field_key is a set of at most one *)
(* field, attribute_keys a set, {} stands for NULL.                        *)
(***************************************************************************)
EXTENDS Integers, FiniteSets

CONSTANTS
  Shares,    \* bound: share rows ever created for the credential
  Fields,    \* declared field keys
  PendingCap \* MAX_PENDING_EXTERNAL_SHARES_PER_FIELD

ASSUME PendingCapAssumption == PendingCap \in Nat \ {0}
ASSUME SharesAssumption == IsFiniteSet(Shares)

VARIABLES
  archived,     \* credentials.archived_at is set
  sharerActive, \* the sharer's membership is active
  phase,        \* share -> "none", "checked" (preflight passed) or its status
  external,     \* share -> recipient_type = 'external'
  fieldKey,     \* share -> field_key
  attributeKeys,\* share -> attribute_keys
  lapsed,          \* shares whose expires_at has passed
  overtaken     \* creations checked before an archival or a deactivation

scopes == <<external, fieldKey, attributeKeys>>
creationVars == <<archived, sharerActive, phase, scopes, lapsed, overtaken>>

Phases == {"none", "checked", "active", "viewed", "closed", "superseded"}

\* validateShareFieldAndExpiry: never both columns (ambiguous_share_scope).
Scopes ==
  {s \in [field : {{}} \cup {{f} : f \in Fields}, attributes : SUBSET Fields] :
     s.field = {} \/ s.attributes = {}}

\* effectiveAttributeKeysForShare; {} is the whole credential.
EffectiveKeys(s) == IF attributeKeys[s] # {} THEN attributeKeys[s] ELSE fieldKey[s]

CreationInit ==
  /\ archived = FALSE /\ sharerActive = TRUE
  /\ phase = [s \in Shares |-> "none"]
  /\ external = [s \in Shares |-> FALSE]
  /\ fieldKey = [s \in Shares |-> {}]
  /\ attributeKeys = [s \in Shares |-> {}]
  /\ lapsed = {} /\ overtaken = {}

-----------------------------------------------------------------------------
\* preflightCredentialForShareCreation and validateShareFieldAndExpiry for a
\* request of an active sharer.
Preflight(s, scope, guest) ==
  /\ phase[s] = "none" /\ sharerActive /\ ~archived
  /\ phase' = [phase EXCEPT ![s] = "checked"]
  /\ external' = [external EXCEPT ![s] = guest]
  /\ fieldKey' = [fieldKey EXCEPT ![s] = scope.field]
  /\ attributeKeys' = [attributeKeys EXCEPT ![s] = scope.attributes]
  /\ UNCHANGED <<archived, sharerActive, lapsed, overtaken>>

\* Mutant of SameBucket: the bucket is derived from the raw columns.
SameColumns(s, t) == fieldKey[s] = fieldKey[t] /\ attributeKeys[s] = attributeKeys[t]

\* pendingCapBucket: a one-element attribute_keys and the field_key of the same
\* name fall into one bucket.
SameBucket(s, t) == EffectiveKeys(s) = EffectiveKeys(t)

\* The links that still count against the cap.
Pending(s) == external[s] /\ phase[s] = "active" /\ s \notin lapsed

\* The COUNT under the advisory lock of the bucket.
CapHolds(s) == Cardinality({t \in Shares : Pending(t) /\ SameBucket(s, t)}) < PendingCap

\* createCredentialShare and createExternalCredentialShare, from the lock on.
Insert(s) ==
  /\ phase[s] = "checked"
  /\ external[s] => CapHolds(s)
  /\ phase' = [phase EXCEPT ![s] = "active"]
  /\ UNCHANGED <<archived, sharerActive, scopes, lapsed, overtaken>>

\* cap_exceeded, or the request fails and its transaction rolls back.
CreationFails(s) ==
  /\ phase[s] = "checked"
  /\ phase' = [phase EXCEPT ![s] = "none"]
  /\ external' = [external EXCEPT ![s] = FALSE]
  /\ fieldKey' = [fieldKey EXCEPT ![s] = {}]
  /\ attributeKeys' = [attributeKeys EXCEPT ![s] = {}]
  /\ overtaken' = overtaken \ {s}
  /\ UNCHANGED <<archived, sharerActive, lapsed>>

\* A share ends by itself: viewed, or revoked, expired or locked ("closed").
Resolve(s, outcome) ==
  /\ phase[s] = "active" \/ (phase[s] = "viewed" /\ outcome = "closed")
  /\ phase' = [phase EXCEPT ![s] = outcome]
  /\ UNCHANGED <<archived, sharerActive, scopes, lapsed, overtaken>>

FallsDue(s) ==
  /\ phase[s] \in {"active", "viewed"} /\ s \notin lapsed
  /\ lapsed' = lapsed \cup {s}
  /\ UNCHANGED <<archived, sharerActive, phase, scopes, overtaken>>

\* Mutant of InRotationScope: a share without a field_key is passed over.
InScopeByFieldKey(s, T) == T = {} \/ (fieldKey[s] # {} /\ fieldKey[s] \subseteq T)

\* The fieldScope of supersedeOutstandingSharesForRotation; T = {} is a rotation
\* of the whole secret.
InRotationScope(s, T) == T = {} \/ fieldKey[s] = {} \/ fieldKey[s] \subseteq T

\* The promote handler's last write, in the promotion's transaction, for a
\* rotation of the fields T.
SupersedeOutstanding(T) ==
  /\ \E s \in Shares : phase[s] \in {"active", "viewed"} /\ InRotationScope(s, T)
  /\ phase' = [s \in Shares |->
       IF phase[s] \in {"active", "viewed"} /\ InRotationScope(s, T)
       THEN "superseded" ELSE phase[s]]
  /\ UNCHANGED <<archived, sharerActive, scopes, lapsed, overtaken>>

\* findBlockingShareIdsForCredential finds nothing.
NoActiveShare == \A s \in Shares : phase[s] # "active"

Checked == {s \in Shares : phase[s] = "checked"}

\* POST .../archive, under the credential's row lock.
ArchiveCredential ==
  /\ ~archived /\ NoActiveShare
  /\ archived' = TRUE
  /\ overtaken' = overtaken \cup Checked
  /\ UNCHANGED <<sharerActive, phase, scopes, lapsed>>

UnarchiveCredential ==
  /\ archived
  /\ archived' = FALSE
  /\ UNCHANGED <<sharerActive, phase, scopes, lapsed, overtaken>>

\* The sharer is deactivated: autoRevokeSharesForDeactivatedUser in the same
\* transaction.
DeactivateSharer ==
  /\ sharerActive
  /\ sharerActive' = FALSE
  /\ phase' = [s \in Shares |-> IF phase[s] = "active" THEN "closed" ELSE phase[s]]
  /\ overtaken' = overtaken \cup Checked
  /\ UNCHANGED <<archived, scopes, lapsed>>

\* findExistingOrgMemberAndReactivate, when provisioning adds the member again.
ReactivateSharer ==
  /\ ~sharerActive
  /\ sharerActive' = TRUE
  /\ UNCHANGED <<archived, phase, scopes, lapsed, overtaken>>

CreationNext ==
  \/ \E s \in Shares, scope \in Scopes, guest \in BOOLEAN : Preflight(s, scope, guest)
  \/ \E s \in Shares : Insert(s) \/ CreationFails(s) \/ FallsDue(s)
  \/ \E s \in Shares, outcome \in {"viewed", "closed"} : Resolve(s, outcome)
  \/ \E T \in SUBSET Fields : SupersedeOutstanding(T)
  \/ ArchiveCredential \/ UnarchiveCredential
  \/ DeactivateSharer \/ ReactivateSharer

CreationSpec == CreationInit /\ [][CreationNext]_creationVars

-----------------------------------------------------------------------------
(* Properties. *)

\* Every column holds a value of its type, and no row names its scope twice
\* (the CHECK constraint on field_key and attribute_keys never fires).
CreationTypeOK ==
  /\ archived \in BOOLEAN /\ sharerActive \in BOOLEAN
  /\ phase \in [Shares -> Phases] /\ external \in [Shares -> BOOLEAN]
  /\ fieldKey \in [Shares -> SUBSET Fields]
  /\ attributeKeys \in [Shares -> SUBSET Fields]
  /\ \A s \in Shares : fieldKey[s] = {} \/ attributeKeys[s] = {}
  /\ lapsed \subseteq Shares /\ overtaken \subseteq Shares

\* However a guest link names its fields, and however many are created at
\* once, no more than the cap are pending for the same set of revealed fields.
PendingCapRespected ==
  \A s \in Shares :
    Cardinality({t \in Shares : Pending(t) /\ EffectiveKeys(t) = EffectiveKeys(s)})
      <= PendingCap

\* After a promotion no outstanding share exposes a rotated field, whichever
\* column names it.
RotatedFieldsClosed ==
  [][\A T \in SUBSET Fields : SupersedeOutstanding(T) =>
       \A s \in Shares : phase'[s] \in {"active", "viewed"} =>
         T # {} /\ EffectiveKeys(s) # {} /\ EffectiveKeys(s) \cap T = {}]_creationVars

\* On an archived credential, or for a deactivated sharer, the only shares that
\* can be open are those whose creation had passed its preflight when the
\* archival or the deactivation committed: the guard, the auto-revocation and
\* the preflight leave no other way in.
OnlyOvertakenOpen ==
  archived \/ ~sharerActive =>
    \A s \in Shares : phase[s] = "active" => s \in overtaken

\* What the shares of a credential guarantee together: the cap on pending shares
\* holds, and on an archived credential or of a deactivated sharer only a creation
\* that was overtaken is open (createShare, hasActiveShares).
CreationSafe ==
    /\ CreationTypeOK
    /\ PendingCapRespected
    /\ OnlyOvertakenOpen

-----------------------------------------------------------------------------
(* What comments of the code say and TLC refutes. *)

\* credential-shares/service.ts, CreateShareResult: "no share can ever be
\* created against an archived secret".
NoShareOfArchived ==
  [][archived => \A s \in Shares : phase'[s] = "active" => phase[s] = "active"]_creationVars

\* credential-shares/service.ts, supersedeOutstandingSharesForRotation: "a share
\* of an unrelated, unrotated field is left untouched".
UnrelatedShareUntouched ==
  [][\A T \in SUBSET Fields : SupersedeOutstanding(T) =>
       \A s \in Shares :
         T # {} /\ EffectiveKeys(s) # {} /\ EffectiveKeys(s) \cap T = {} =>
           phase'[s] = phase[s]]_creationVars
=============================================================================
