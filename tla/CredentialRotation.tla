------------------------- MODULE CredentialRotation -------------------------
(***************************************************************************)
(* The version history of ONE credential and the staged rotation that      *)
(* replaces its value: apps/api/src/modules/rotation/service.ts, the       *)
(* version writes of modules/credentials/service.ts, and the four workers  *)
(* that touch the same rows (rotation-recover, rotation-break-glass-expire, *)
(* rotation-stale-staged-alert, prune-credential-versions).                *)
(*                                                                         *)
(* A step is one database transaction, split where the code reads a row    *)
(* without a lock that every writer of that row takes:                     *)
(*   - a human operation on a rotation loads it under the rotation-scoped  *)
(*     advisory lock and later writes it with a compare-and-swap on        *)
(*     rotations.version.  Break-glass takes the credential-scoped lock    *)
(*     instead, so it can run in between.  Both locks are try-locks, and a *)
(*     request that is refused once it holds one keeps it to the end of    *)
(*     its transaction, so it can make a worker skip its turn;             *)
(*   - the retention worker lists its candidates first, then re-checks and *)
(*     purges each one;                                                    *)
(*   - the add-version route reads archived_at before the credential row   *)
(*     is locked.                                                          *)
(*                                                                         *)
(* Abstractions.  Values, ciphertexts, field metadata and audit rows are   *)
(* left out: a version is its number.  A rotation is named by the number   *)
(* of the version it creates (each rotation inserts exactly one).  Time    *)
(* passes by nondeterminism: a rotation may look stale to a worker at any  *)
(* moment, an overlap window or an idempotency window may end at any       *)
(* moment.  rotations.version is only ever compared with the value loaded  *)
(* earlier, so the model keeps that comparison's outcome (op.fresh).       *)
(* The version bound MaxVersions is in the guards of the inserting steps.  *)
(***************************************************************************)
EXTENDS Integers, FiniteSets

CONSTANTS
  Deps,           \* dependent systems that can be on a rotation's checklist
  MaxVersions,    \* bound: version rows a credential may accumulate
  MaxRetries,     \* env.ROTATION_MAX_RETRIES
  RetentionCount  \* credentials.retention_count, CHECK (retention_count >= 1)

ASSUME MaxVersionsAssumption == MaxVersions \in Nat /\ MaxVersions >= 2
ASSUME MaxRetriesAssumption == MaxRetries \in Nat
ASSUME RetentionAssumption == RetentionCount \in Nat \ {0}

VARIABLES
  lastVersion,      \* highest version_number in credential_versions
  promotedAt,       \* version -> promotion instant, 0 while staged
  clock,            \* instant of the latest promotion
  abandoned,        \* versions with abandoned_at set
  purged,           \* versions with purged_at set (ciphertext zeroed)
  rotationLocked,   \* versions with rotation_locked_at set
  overlap,          \* versions with break_glass_overlap_expires_at set
  elapsed,          \* those of them whose expiry instant has passed
  status,           \* rotation -> rotations.status, "none" for a plain version
  previousVersion,  \* rotation -> rotations.previous_version_id
  itemStatus,       \* checklist of the latest rotation: dep -> item status
  retryCount,       \* and dep -> retries so far
  staleAlerted,     \* rotations with stale_staged_alerted_at set
  recentBreakGlass, \* a break-glass lies inside the idempotency window
  archived,         \* credentials.archived_at is set
  op,               \* the human operation between its load and its write
  adding,           \* an add-version request is past its archived check
  pruneCandidates   \* what the retention worker listed and not yet purged

vars == <<lastVersion, promotedAt, clock, abandoned, purged, rotationLocked,
          overlap, elapsed, status, previousVersion, itemStatus, retryCount,
          staleAlerted, recentBreakGlass, archived, op, adding,
          pruneCandidates>>

versionRows == <<lastVersion, promotedAt, clock, abandoned, purged,
                 rotationLocked, overlap, elapsed>>
rotationRows == <<status, previousVersion, staleAlerted, recentBreakGlass>>
checklist == <<itemStatus, retryCount>>

Versions == 1 .. MaxVersions
Created == 1 .. lastVersion

ActiveStatuses == {"in_progress", "staged", "promoted", "stale_recovery"}
FinalStatuses == {"retired", "completed", "abandoned", "break_glass_complete"}
Statuses == ActiveStatuses \cup FinalStatuses \cup {"none"}
ItemStatuses == {"unconfirmed", "confirmed", "failed", "max_retries_exceeded"}

ItemOps == {"confirm", "fail", "retry"}
RotationOps == {"complete", "promote", "retire", "resume", "abandon"}
NoOp == [kind |-> "none", rotation |-> 0, targets |-> {}, fresh |-> FALSE]

-----------------------------------------------------------------------------
(* Which version a caller sees. *)

\* A version whose ciphertext still exists and that was not given up.
Live(v) == v \in Created /\ v \notin purged /\ v \notin abandoned

\* A live version that was promoted: what reveal and the API may return.
Servable(v) == Live(v) /\ promotedAt[v] # 0

\* selectCurrentVersionMeta and revealCurrentValue: ORDER BY promoted_at
\* DESC, version_number DESC LIMIT 1 over the servable versions.
IsCurrent(v) ==
  /\ Servable(v)
  /\ \A w \in Created : Servable(w) =>
       promotedAt[w] < promotedAt[v] \/ (promotedAt[w] = promotedAt[v] /\ w <= v)

\* Mutant of IsToSupersede: abandoned versions are not excluded.
IsToSupersedeAnyUnpurged(v, rows) ==
  /\ v \in rows /\ v \notin purged
  /\ \A w \in rows : w \notin purged => w <= v

\* lockCurrentNonPurgedVersion: the highest live version among rows, promoted
\* or not.
IsToSupersede(v, rows) ==
  /\ v \in rows /\ Live(v)
  /\ \A w \in rows : Live(w) => w <= v

\* listCredentials: MAX(version_number) over the servable versions.
IsListedCurrent(v) == Servable(v) /\ \A w \in Created : Servable(w) => w <= v

Active(r) == r \in Created /\ status[r] \in ActiveStatuses
NoActiveRotation == \A r \in Created : ~Active(r)

\* The rotation-scoped advisory lock is held from a load, or from a refusal,
\* to the end of that transaction.
RotationLockFree(r) == op.kind = "none" \/ op.rotation # r

\* The credential-scoped advisory lock: initiation and break-glass are one
\* step each, so only a refused request is seen to hold it.
CredentialLockFree == ~(op.kind = "refused" /\ op.rotation = 0)

Pending == {d \in DOMAIN itemStatus : itemStatus[d] # "confirmed"}

-----------------------------------------------------------------------------
(* A credential as createCredentialWithFirstVersion leaves it, or one that  *)
(* migration 0050 found with a stale_recovery rotation: both its versions   *)
(* were given promoted_at = created_at, the first stayed locked.            *)

FreshCredential ==
  /\ lastVersion = 1
  /\ promotedAt = [v \in Versions |-> IF v = 1 THEN 1 ELSE 0]
  /\ clock = 1
  /\ rotationLocked = {}
  /\ status = [r \in Versions |-> "none"]
  /\ previousVersion = [r \in Versions |-> 0]
  /\ itemStatus = [d \in {} |-> "unconfirmed"]
  /\ retryCount = [d \in {} |-> 0]

MigratedStaleRotation ==
  /\ lastVersion = 2
  /\ promotedAt = [v \in Versions |-> IF v <= 2 THEN v ELSE 0]
  /\ clock = 2
  /\ rotationLocked = {1}
  /\ status = [r \in Versions |-> IF r = 2 THEN "stale_recovery" ELSE "none"]
  /\ previousVersion = [r \in Versions |-> IF r = 2 THEN 1 ELSE 0]
  /\ \E S \in SUBSET Deps : \E C \in SUBSET S :
       /\ itemStatus = [d \in S |-> IF d \in C THEN "confirmed" ELSE "unconfirmed"]
       /\ retryCount = [d \in S |-> 0]

Init ==
  /\ FreshCredential \/ MigratedStaleRotation
  /\ abandoned = {} /\ purged = {} /\ overlap = {} /\ elapsed = {}
  /\ staleAlerted = {} /\ recentBreakGlass = FALSE /\ archived = FALSE
  /\ op = NoOp /\ adding = FALSE /\ pruneCandidates = {}

-----------------------------------------------------------------------------
(* Plain version writes and archival. *)

\* The add-version route: archived_at is read here, without a row lock.
AddVersionCheck ==
  /\ ~adding /\ ~archived
  /\ adding' = TRUE
  /\ UNCHANGED <<versionRows, rotationRows, checklist, archived, op, pruneCandidates>>

\* addCredentialVersion: lock the credential row, insert MAX + 1 as already
\* promoted.  No rotation of the credential is looked at.
AddVersionInsert ==
  /\ adding /\ lastVersion < MaxVersions
  /\ lastVersion' = lastVersion + 1
  /\ clock' = clock + 1
  /\ promotedAt' = [promotedAt EXCEPT ![lastVersion + 1] = clock + 1]
  /\ adding' = FALSE
  /\ UNCHANGED <<abandoned, purged, rotationLocked, overlap, elapsed,
                 rotationRows, checklist, archived, op, pruneCandidates>>

\* addCredentialVersion throws before its insert (a legacy body on a
\* multi-field secret, a field key conflict).
AddVersionRejected ==
  /\ adding
  /\ adding' = FALSE
  /\ UNCHANGED <<versionRows, rotationRows, checklist, archived, op, pruneCandidates>>

\* POST .../archive: the credential row is locked, then the blocking
\* rotations are looked up.  (Its other guard, no active share of the
\* credential, is modelled in ShareCreation.)
ArchiveCredential ==
  /\ ~archived /\ NoActiveRotation
  /\ archived' = TRUE
  /\ UNCHANGED <<versionRows, rotationRows, checklist, op, adding, pruneCandidates>>

UnarchiveCredential ==
  /\ archived
  /\ archived' = FALSE
  /\ UNCHANGED <<versionRows, rotationRows, checklist, op, adding, pruneCandidates>>

-----------------------------------------------------------------------------
(* Rotation operations. *)

\* initiateRotation for the dependencies S active at that moment.  The
\* credential-scoped lock, the row locks and the partial unique index make
\* it one step; an active rotation rolls it back to a 409.
InitiateRotation(S) ==
  /\ ~archived /\ lastVersion < MaxVersions /\ NoActiveRotation
  /\ CredentialLockFree
  /\ \E p \in Created :
       /\ IsToSupersede(p, Created)
       /\ rotationLocked' = rotationLocked \cup {p}
       /\ previousVersion' = [previousVersion EXCEPT ![lastVersion + 1] = p]
  /\ lastVersion' = lastVersion + 1
  /\ status' = [status EXCEPT ![lastVersion + 1] = "staged"]
  /\ itemStatus' = [d \in S |-> "unconfirmed"]
  /\ retryCount' = [d \in S |-> 0]
  /\ UNCHANGED <<promotedAt, clock, abandoned, purged, overlap, elapsed,
                 staleAlerted, recentBreakGlass, archived, op, adding,
                 pruneCandidates>>

\* The statuses in which each operation proceeds past its load.
AllowedStatuses(kind) ==
  CASE kind \in ItemOps  -> {"in_progress", "staged", "promoted"}
    [] kind = "complete" -> {"in_progress"}
    [] kind = "promote"  -> {"staged"}
    [] kind = "retire"   -> {"promoted"}
    [] kind = "resume"   -> {"stale_recovery"}
    [] kind = "abandon"  -> {"stale_recovery", "staged"}

\* evaluateChecklistAcknowledgement, for the two flags of the request body.
ChecklistAcknowledged(ackNoDependencies, ackIncomplete) ==
  IF DOMAIN itemStatus = {} THEN ackNoDependencies
  ELSE Pending = {} \/ ackIncomplete

\* What the checklist must look like for the operation: complete refuses
\* pending items outright, promote and retire accept an acknowledgement.
ChecklistAllows(kind, ackNoDependencies, ackIncomplete) ==
  CASE kind = "complete" -> /\ Pending = {}
                            /\ DOMAIN itemStatus = {} => ackNoDependencies
    [] kind \in {"promote", "retire"} ->
         ChecklistAcknowledged(ackNoDependencies, ackIncomplete)
    [] OTHER -> TRUE

\* acquireRotationScopedLockAndFind and the status and checklist checks of
\* complete, promote, retire, resume and abandon.
LoadRotation(kind, r) ==
  /\ op = NoOp /\ r \in Created
  /\ status[r] \in AllowedStatuses(kind)
  /\ \E ackNoDependencies, ackIncomplete \in BOOLEAN :
       ChecklistAllows(kind, ackNoDependencies, ackIncomplete)
  /\ op' = [kind |-> kind, rotation |-> r, targets |-> {}, fresh |-> TRUE]
  /\ UNCHANGED <<versionRows, rotationRows, checklist, archived, adding, pruneCandidates>>

\* acquireLockAndItem and the item-status precondition of confirm, fail and
\* retry; the item is read under the same lock.
LoadItem(kind, r, d) ==
  /\ op = NoOp /\ r \in Created
  /\ status[r] \in AllowedStatuses(kind)
  /\ d \in DOMAIN itemStatus
  /\ kind = "confirm" => itemStatus[d] # "confirmed"
  /\ kind = "fail"    => itemStatus[d] = "unconfirmed"
  /\ kind = "retry"   => itemStatus[d] = "failed"
  /\ op' = [kind |-> kind, rotation |-> r, targets |-> {d}, fresh |-> TRUE]
  /\ UNCHANGED <<versionRows, rotationRows, checklist, archived, adding, pruneCandidates>>

\* A request that takes the try-lock of rotation r (0: the credential-scoped
\* lock, for an initiation or a break-glass) and is then refused: wrong
\* status, wrong item, checklist not acknowledged, active rotation.  For
\* every rotation some request is refused in its present status.
RefuseUnderLock(r) ==
  /\ op = NoOp
  /\ r # 0 => r \in Created /\ status[r] # "none"
  /\ op' = [kind |-> "refused", rotation |-> r, targets |-> {}, fresh |-> FALSE]
  /\ UNCHANGED <<versionRows, rotationRows, checklist, archived, adding, pruneCandidates>>

\* The transaction of a refused request ends, or that of a loaded operation
\* fails (the audit write throws, the process stops): nothing is written and
\* the lock is given back.
RollBack ==
  /\ op.fresh \/ op.kind = "refused"
  /\ op' = NoOp
  /\ UNCHANGED <<versionRows, rotationRows, checklist, archived, adding, pruneCandidates>>

\* Mutant of CasHolds: the UPDATE does not compare rotations.version.
CasIgnored(kind) == op.kind = kind

\* The compare-and-swap on rotations.version finds the loaded version.
CasHolds(kind) == op.kind = kind /\ op.fresh

\* The compare-and-swap matches no row: 409 concurrent_modification, and
\* nothing else is written.
CasLost ==
  /\ op.kind \notin {"none", "refused"} /\ ~op.fresh
  /\ op' = NoOp
  /\ UNCHANGED <<versionRows, rotationRows, checklist, archived, adding, pruneCandidates>>

\* reserveVersionAndUpdateItem: the version bump and the item's new status.
UpdateItem(kind, newStatus(_)) ==
  /\ CasHolds(kind)
  /\ itemStatus' = [d \in DOMAIN itemStatus |->
                      IF d \in op.targets THEN newStatus(d) ELSE itemStatus[d]]
  /\ op' = NoOp
  /\ UNCHANGED <<versionRows, rotationRows, archived, adding, pruneCandidates>>

ConfirmChecklistItem ==
  UpdateItem("confirm", LAMBDA d : "confirmed") /\ UNCHANGED retryCount

FailChecklistItem ==
  UpdateItem("fail", LAMBDA d : "failed") /\ UNCHANGED retryCount

\* Mutant of RetryChecklistItem: an attempt that is not counted.
RetryUncounted ==
  UpdateItem("retry", LAMBDA d : "unconfirmed") /\ UNCHANGED retryCount

\* retryChecklistItem: over the limit the item is parked, otherwise it is
\* put back and the attempt counted.
RetryChecklistItem ==
  /\ UpdateItem("retry", LAMBDA d :
       IF retryCount[d] >= MaxRetries THEN "max_retries_exceeded" ELSE "unconfirmed")
  /\ retryCount' = [d \in DOMAIN retryCount |->
       IF d \in op.targets /\ retryCount[d] < MaxRetries THEN retryCount[d] + 1
       ELSE retryCount[d]]

\* completeRotation, the pre-staging route: unlocks the superseded version.
CompleteRotation ==
  /\ CasHolds("complete")
  /\ status' = [status EXCEPT ![op.rotation] = "completed"]
  /\ rotationLocked' = rotationLocked \ {previousVersion[op.rotation]}
  /\ op' = NoOp
  /\ UNCHANGED <<lastVersion, promotedAt, clock, abandoned, purged, overlap,
                 elapsed, previousVersion, staleAlerted, recentBreakGlass,
                 checklist, archived, adding, pruneCandidates>>

\* promoteRotation: the new version becomes eligible to be current.
PromoteRotation ==
  /\ CasHolds("promote")
  /\ status' = [status EXCEPT ![op.rotation] = "promoted"]
  /\ clock' = clock + 1
  /\ promotedAt' = [promotedAt EXCEPT ![op.rotation] = clock + 1]
  /\ op' = NoOp
  /\ UNCHANGED <<lastVersion, abandoned, purged, rotationLocked, overlap,
                 elapsed, previousVersion, staleAlerted, recentBreakGlass,
                 checklist, archived, adding, pruneCandidates>>

\* retireRotation: purges the superseded version and lifts its lock.
RetireRotation ==
  /\ CasHolds("retire")
  /\ status' = [status EXCEPT ![op.rotation] = "retired"]
  /\ purged' = purged \cup {previousVersion[op.rotation]}
  /\ rotationLocked' =
       IF previousVersion[op.rotation] \in purged THEN rotationLocked
       ELSE rotationLocked \ {previousVersion[op.rotation]}
  /\ op' = NoOp
  /\ UNCHANGED <<lastVersion, promotedAt, clock, abandoned, overlap, elapsed,
                 previousVersion, staleAlerted, recentBreakGlass, checklist,
                 archived, adding, pruneCandidates>>

\* resumeRotation: the checklist is left as it is.
ResumeRotation ==
  /\ CasHolds("resume") /\ status[op.rotation] = "stale_recovery"
  /\ status' = [status EXCEPT ![op.rotation] = "in_progress"]
  /\ op' = NoOp
  /\ UNCHANGED <<versionRows, previousVersion, staleAlerted, recentBreakGlass,
                 checklist, archived, adding, pruneCandidates>>

\* abandonRotation: gives the new version up and unlocks the old one.
AbandonRotation ==
  /\ CasHolds("abandon") /\ status[op.rotation] \in AllowedStatuses("abandon")
  /\ status' = [status EXCEPT ![op.rotation] = "abandoned"]
  /\ abandoned' = abandoned \cup {op.rotation}
  /\ rotationLocked' = rotationLocked \ {previousVersion[op.rotation]}
  /\ op' = NoOp
  /\ UNCHANGED <<lastVersion, promotedAt, clock, purged, overlap, elapsed,
                 previousVersion, staleAlerted, recentBreakGlass, checklist,
                 archived, adding, pruneCandidates>>

-----------------------------------------------------------------------------
(* Break-glass. *)

\* The rotations supersedeActiveRotation gives up: the active one, if any.
Superseded == {r \in Created : Active(r)}

\* breakGlassRotation: supersede, insert a version that is promoted at once,
\* put the version it replaces into the overlap window.  Runs under the
\* credential-scoped lock only, so an operation already loaded loses its
\* compare-and-swap.  Neither archived_at is read.
BreakGlassRotation ==
  /\ lastVersion < MaxVersions /\ ~recentBreakGlass /\ CredentialLockFree
  /\ \A r \in Superseded : status[r] # "promoted"
  /\ abandoned' = abandoned \cup Superseded
  /\ \E p \in Created :
       /\ IsToSupersede(p, Created \ Superseded)
       /\ rotationLocked' =
            (rotationLocked \ {previousVersion[r] : r \in Superseded}) \cup {p}
       /\ overlap' = overlap \cup {p}
       /\ elapsed' = elapsed \ {p}
       /\ previousVersion' = [previousVersion EXCEPT ![lastVersion + 1] = p]
  /\ lastVersion' = lastVersion + 1
  /\ clock' = clock + 1
  /\ promotedAt' = [promotedAt EXCEPT ![lastVersion + 1] = clock + 1]
  /\ status' = [r \in Versions |->
                  IF r = lastVersion + 1 THEN "break_glass_complete"
                  ELSE IF r \in Superseded THEN "abandoned" ELSE status[r]]
  /\ op' = [kind |-> op.kind, rotation |-> op.rotation, targets |-> op.targets,
            fresh |-> op.fresh /\ op.rotation \notin Superseded]
  /\ recentBreakGlass' = TRUE
  /\ UNCHANGED <<purged, checklist, staleAlerted, archived, adding, pruneCandidates>>

\* Time passes: the idempotency window or an overlap window ends.
IdempotencyWindowEnds ==
  /\ recentBreakGlass
  /\ recentBreakGlass' = FALSE
  /\ UNCHANGED <<versionRows, status, previousVersion, staleAlerted, checklist,
                 archived, op, adding, pruneCandidates>>

OverlapElapses(v) ==
  /\ v \in overlap \ elapsed
  /\ elapsed' = elapsed \cup {v}
  /\ UNCHANGED <<lastVersion, promotedAt, clock, abandoned, purged,
                 rotationLocked, overlap, rotationRows, checklist, archived, op,
                 adding, pruneCandidates>>

-----------------------------------------------------------------------------
(* Workers. *)

\* expireOneVersion, re-checked in the UPDATE under the credential lock;
\* skipped while a request holds it.
ExpireOverlap(v) ==
  /\ v \in overlap \cap elapsed /\ CredentialLockFree
  /\ rotationLocked' = rotationLocked \ {v}
  /\ overlap' = overlap \ {v}
  /\ elapsed' = elapsed \ {v}
  /\ UNCHANGED <<lastVersion, promotedAt, clock, abandoned, purged,
                 rotationRows, checklist, archived, op, adding, pruneCandidates>>

\* recoverOneRotation: skipped while a human operation holds the lock.
RecoverStaleRotation(r) ==
  /\ r \in Created /\ status[r] = "in_progress" /\ RotationLockFree(r)
  /\ status' = [status EXCEPT ![r] = "stale_recovery"]
  /\ itemStatus' = [d \in DOMAIN itemStatus |->
                      IF itemStatus[d] = "confirmed" THEN "confirmed"
                      ELSE "unconfirmed"]
  /\ UNCHANGED <<versionRows, previousVersion, staleAlerted, recentBreakGlass,
                 retryCount, archived, op, adding, pruneCandidates>>

\* alertOneRotation: alerts once, never touches the status.
AlertStaleStaged(r) ==
  /\ r \in Created /\ status[r] = "staged" /\ RotationLockFree(r)
  /\ r \notin staleAlerted
  /\ staleAlerted' = staleAlerted \cup {r}
  /\ UNCHANGED <<versionRows, status, previousVersion, recentBreakGlass, checklist,
                 archived, op, adding, pruneCandidates>>

Unlocked == {v \in Created : v \notin purged /\ v \notin rotationLocked}

\* Mutant of PurgeCandidates: ranked by number alone, so an abandoned version
\* can take the place of the live one.
PurgeCandidatesByRank ==
  {v \in Unlocked : Cardinality({w \in Unlocked : w > v}) >= RetentionCount}

\* purgeCandidatesForCredential: of the unpurged, unlocked versions in
\* descending order, all but the first RetentionCount and the first one that
\* is not abandoned.
PurgeCandidates ==
  {v \in Unlocked :
     /\ Cardinality({w \in Unlocked : w > v}) >= RetentionCount
     /\ ~(v \notin abandoned /\ \A w \in Unlocked : w > v => w \in abandoned)}

PruneScan ==
  /\ pruneCandidates = {} /\ PurgeCandidates # {}
  /\ pruneCandidates' = PurgeCandidates
  /\ UNCHANGED <<versionRows, rotationRows, checklist, archived, op, adding>>

\* purgeVersion for each candidate: one that was locked meanwhile is skipped.
PrunePurge ==
  /\ pruneCandidates # {}
  /\ purged' = purged \cup (pruneCandidates \ rotationLocked)
  /\ pruneCandidates' = {}
  /\ UNCHANGED <<lastVersion, promotedAt, clock, abandoned, rotationLocked,
                 overlap, elapsed, rotationRows, checklist, archived, op, adding>>

\* The audit quota gate throws, or the process stops: the purge rolls back.
PruneRollback ==
  /\ pruneCandidates # {}
  /\ pruneCandidates' = {}
  /\ UNCHANGED <<versionRows, rotationRows, checklist, archived, op, adding>>

-----------------------------------------------------------------------------
\* The end, with or without a write, of the transaction that holds a lock.
CompleteOperation ==
  \/ ConfirmChecklistItem \/ FailChecklistItem \/ RetryChecklistItem
  \/ CompleteRotation \/ PromoteRotation \/ RetireRotation
  \/ ResumeRotation \/ AbandonRotation \/ CasLost \/ RollBack

HumanOperation ==
  \/ \E kind \in RotationOps, r \in Versions : LoadRotation(kind, r)
  \/ \E kind \in ItemOps, r \in Versions, d \in Deps : LoadItem(kind, r, d)
  \/ \E r \in Versions \cup {0} : RefuseUnderLock(r)
  \/ CompleteOperation

Worker ==
  \/ \E v \in Versions : ExpireOverlap(v)
  \/ \E r \in Versions : RecoverStaleRotation(r) \/ AlertStaleStaged(r)
  \/ PruneScan \/ PrunePurge \/ PruneRollback

Environment ==
  \/ IdempotencyWindowEnds
  \/ \E v \in Versions : OverlapElapses(v)

Next ==
  \/ AddVersionCheck \/ AddVersionInsert \/ AddVersionRejected
  \/ ArchiveCredential \/ UnarchiveCredential
  \/ \E S \in SUBSET Deps : InitiateRotation(S)
  \/ BreakGlassRotation
  \/ HumanOperation \/ Worker \/ Environment

Spec == Init /\ [][Next]_vars
\* The workers run on a cron, the boss queue re-runs a job that failed, and a
\* transaction commits or rolls back.  Nothing obliges a person to act, and
\* nothing obliges a run of the cron to find the try-lock free.
WorkerFairness ==
  /\ \A v \in Versions : WF_vars(ExpireOverlap(v))
  /\ \A r \in Versions : WF_vars(RecoverStaleRotation(r))
  /\ WF_vars(CompleteOperation)

FairSpec == Spec /\ WorkerFairness

-----------------------------------------------------------------------------
(* Properties. *)

OpTypes ==
  [kind : RotationOps \cup ItemOps \cup {"none", "refused"}, rotation : Versions \cup {0},
   targets : SUBSET Deps, fresh : BOOLEAN]

\* Every column holds a value of its type; a retry count never passes
\* ROTATION_MAX_RETRIES, although nothing but retryChecklistItem checks it.
TypeOK ==
  /\ lastVersion \in Versions
  /\ clock \in Nat
  /\ promotedAt \in [Versions -> Nat]
  /\ abandoned \subseteq Created /\ purged \subseteq Created
  /\ rotationLocked \subseteq Created
  /\ overlap \subseteq Created /\ elapsed \subseteq overlap
  /\ status \in [Versions -> Statuses]
  /\ previousVersion \in [Versions -> Versions \cup {0}]
  /\ \E S \in SUBSET Deps :
       itemStatus \in [S -> ItemStatuses] /\ retryCount \in [S -> 0 .. MaxRetries]
  /\ staleAlerted \subseteq Created
  /\ recentBreakGlass \in BOOLEAN /\ archived \in BOOLEAN /\ adding \in BOOLEAN
  /\ op \in OpTypes
  /\ pruneCandidates \subseteq Created

\* Whatever promotions, retirements, abandonments, break-glass rotations and
\* retention purges interleave, the credential keeps a version that reveal
\* can serve (revealCurrentValue never finds the history empty).
AlwaysServable == \E v \in Created : Servable(v)

\* While a rotation is active, the version it will fall back to keeps its
\* ciphertext and its purge protection: neither the retention worker nor the
\* overlap worker nor a break-glass window takes it away before retire,
\* complete or abandon decides.
FallbackProtected ==
  \A r \in Created : Active(r) =>
    /\ Servable(previousVersion[r])
    /\ previousVersion[r] \in rotationLocked \ overlap

\* A version in its break-glass overlap window is locked and not purged until
\* the overlap worker closes the window, whatever rotations run meanwhile.
OverlapProtected == overlap \subseteq rotationLocked \ purged

\* An archived credential has no active rotation, and none can start or be
\* revived while it is archived (archive and initiateRotation serialize on
\* the credential row).
ArchivedHasNoActiveRotation == archived => NoActiveRotation

Transitions ==
  { <<"none", "staged">>, <<"none", "break_glass_complete">>,
    <<"staged", "promoted">>, <<"staged", "abandoned">>,
    <<"promoted", "retired">>,
    <<"in_progress", "completed">>, <<"in_progress", "stale_recovery">>,
    <<"in_progress", "abandoned">>,
    <<"stale_recovery", "in_progress">>, <<"stale_recovery", "abandoned">> }

\* A rotation moves only along the state machine of rotations.status: an
\* operation that loaded a rotation which break-glass then superseded cannot
\* bring it back, and a promoted rotation can only be retired.
StatusFollowsGraph ==
  [][\A r \in Versions :
       status'[r] # status[r] => <<status[r], status'[r]>> \in Transitions]_vars

\* A version that was given up never gains a promotion, and a purged version
\* never comes back: a promote that lost its race writes nothing.
GivenUpStaysGivenUp ==
  [][/\ \A v \in abandoned : promotedAt'[v] = promotedAt[v]
     /\ abandoned \subseteq abandoned' /\ purged \subseteq purged']_vars

\* The servable versions were promoted in the order of their numbers.
PromotedInOrder ==
  \A v, w \in Created :
    Servable(v) /\ Servable(w) /\ v < w => promotedAt[v] < promotedAt[w]

\* As long as promotions follow the version numbers, no step (retention purge
\* with a stale candidate list, retirement) destroys the version that reveal
\* returns at that moment.
CurrentNotPurgedInOrder ==
  [][PromotedInOrder =>
       \A v \in Created : IsCurrent(v) => v \notin purged']_vars

\* A request that held the lock of r (0: the credential's) and wrote nothing.
EmptyHanded(r) == RefuseUnderLock(r) \/ (op.rotation = r /\ RollBack)

\* The workers skip a row whose lock is taken, so requests that are refused or
\* fail, time and again, can keep them out; operations that commit cannot.
EmptyHandsEnd(r) == <>[][~EmptyHanded(r)]_vars

\* When the overlap instant has passed, the overlap worker eventually lifts
\* the protection, unless refused initiations and break-glass requests hold
\* the credential lock at every run of it.
OverlapEventuallyCloses ==
  \A v \in Versions : EmptyHandsEnd(0) => (v \in elapsed ~> v \notin overlap)

\* A resumed rotation does not stay in_progress: it completes, is superseded,
\* or the recovery worker takes it back, unless requests that write nothing
\* hold its lock at every run of the worker.  Operations that do write cannot
\* keep the worker out for ever: confirmations end and retries are bounded.
InProgressEventuallyLeaves ==
  \A r \in Versions :
    EmptyHandsEnd(r) => (status[r] = "in_progress" ~> status[r] # "in_progress")

\* The workers finish what people leave open: overlap windows close, and a
\* rotation stuck in_progress is completed or declared stale, provided that the
\* requests which only hold a worker's try-lock and write nothing die down.
WorkersProgress ==
    /\ OverlapEventuallyCloses
    /\ InProgressEventuallyLeaves

-----------------------------------------------------------------------------
(* The inductive strengthening behind the safety invariants. *)

\* At most one active rotation, and rows not yet created carry none.
OneActive ==
  /\ \A r, q \in Created : Active(r) /\ Active(q) => r = q
  /\ \A r \in Versions : r > lastVersion => status[r] = "none"

\* The fallback of an active rotation precedes its new version, with nothing
\* live in between, and the retention worker does not have it on its list.
FallbackBefore ==
  \A r \in Created : Active(r) =>
    /\ previousVersion[r] \in Created /\ previousVersion[r] < r
    /\ previousVersion[r] \notin pruneCandidates
    /\ \A v \in Created : previousVersion[r] < v /\ v < r => ~Live(v)

\* Only the new version of a staged rotation is live without a promotion.
UnpromotedIsStaged ==
  /\ \A v \in Created : Live(v) /\ promotedAt[v] = 0 => Active(v)
  /\ \A r \in Created : Active(r) /\ status[r] # "staged" => promotedAt[r] # 0

\* The new version of an active rotation was not given up; if the retention
\* worker purged it, a newer servable version exists.
NewVersionOrNewer ==
  \A r \in Created : Active(r) =>
    /\ r \notin abandoned /\ r \notin overlap
    /\ r \in purged => \E w \in Created : w > r /\ Servable(w)

\* A version in its overlap window is live and a newer one is servable.
OverlapSuperseded ==
  \A v \in overlap : Live(v) /\ \E w \in Created : w > v /\ Servable(w)

\* However old the worker's list, each live version on it is outranked by a
\* servable version that is not.
CandidatesOutranked ==
  \A c \in pruneCandidates : Live(c) =>
    \E w \in Created : w > c /\ w \notin pruneCandidates /\ Servable(w)

\* An operation whose compare-and-swap will succeed still finds the status
\* it loaded.
LoadedStillHolds ==
  op.fresh =>
    /\ op.rotation \in Created
    /\ op.kind \in RotationOps \cup ItemOps
    /\ status[op.rotation] \in AllowedStatuses(op.kind)

VersionInv ==
  /\ OneActive
  /\ FallbackProtected
  /\ FallbackBefore
  /\ UnpromotedIsStaged
  /\ NewVersionOrNewer
  /\ OverlapProtected
  /\ OverlapSuperseded
  /\ CandidatesOutranked
  /\ AlwaysServable

IndInv ==
  /\ TypeOK
  /\ VersionInv
  /\ LoadedStillHolds
  /\ ArchivedHasNoActiveRotation

-----------------------------------------------------------------------------
(* What comments of the code say and TLC refutes. *)

\* prune-credential-versions.ts: the version reveal returns "must never be
\* purged regardless of its rank in this list".
PruneKeepsCurrent ==
  [][PrunePurge => \A v \in Created : IsCurrent(v) => v \notin purged']_vars

\* credentials/service.ts, listCredentials: its currentVersionNumber must not
\* disagree with revealCurrentValue.
ListAgreesWithReveal ==
  \A v \in Created : IsCurrent(v) <=> IsListedCurrent(v)

\* archive-guards.ts: "This secret is archived and cannot be modified."
ArchivedNotModified ==
  [][archived => lastVersion' = lastVersion]_vars

\* rotation/service.ts, supersedeActiveRotation: the new version of an
\* in_progress rotation is "not yet current".
InProgressNotCurrent ==
  \A r \in Created : status[r] = "in_progress" => ~IsCurrent(r)
=============================================================================
