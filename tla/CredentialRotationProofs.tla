---------------------- MODULE CredentialRotationProofs ----------------------
(***************************************************************************)
(* Proofs about CredentialRotation.  The inductive invariant IndInv has    *)
(* four parts: the types, VersionInv (which versions exist, are live, are  *)
(* locked, and who falls back to whom), LoadedStillHolds (what an          *)
(* operation between its load and its compare-and-swap may rely on) and    *)
(* ArchivedHasNoActiveRotation.  Each part is shown to survive every step  *)
(* on its own; InductiveInvariant puts the parts together.  The last part  *)
(* shows that every step is a step of RotationSpec or changes nothing it   *)
(* speaks of.                                                              *)
(***************************************************************************)
EXTENDS RotationRefinement, WellFoundedInduction, TLAPS

-----------------------------------------------------------------------------
(* Facts the rest rests on. *)

\* A non-empty set of numbers up to n has a greatest element: the retention
\* worker and the supersession both pick "the highest version such that".
LEMMA MaxExists ==
  ASSUME NEW n \in Nat, NEW T, T \subseteq 1 .. n, T # {}
  PROVE  \E x \in T : \A y \in T : y <= x
<1> DEFINE D == {n - x : x \in T}
<1>1. D \subseteq Nat /\ D # {}
  <2>1. \A x \in T : n - x \in Nat
    OBVIOUS
  <2>2. PICK t \in T : TRUE
    OBVIOUS
  <2>3. n - t \in D
    OBVIOUS
  <2> QED  BY <2>1, <2>3
<1>2. PICK d \in D : \A e \in D : ~(<<e, d>> \in OpToRel(<, Nat))
  <2> HIDE DEF D
  <2> QED  BY <1>1, NatLessThanWellFounded, WFMin
<1>3. \A e \in D : ~(e < d)
  BY <1>1, <1>2 DEF OpToRel
<1>4. PICK x \in T : d = n - x
  OBVIOUS
<1>5. \A y \in T : ~(n - y < n - x)
  BY <1>3, <1>4
<1> QED  BY <1>5, <1>4

\* The statuses each operation accepts after its load.
LEMMA AllowedFacts ==
  /\ AllowedStatuses("complete") = {"in_progress"}
  /\ AllowedStatuses("promote") = {"staged"}
  /\ AllowedStatuses("retire") = {"promoted"}
  /\ AllowedStatuses("resume") = {"stale_recovery"}
  /\ AllowedStatuses("abandon") = {"stale_recovery", "staged"}
  /\ \A k \in ItemOps : AllowedStatuses(k) = {"in_progress", "staged", "promoted"}
  BY DEF AllowedStatuses, ItemOps

\* The typing of the version rows, over intervals.
LEMMA RowFacts ==
  ASSUME TypeOK
  PROVE  /\ MaxVersions \in Nat /\ lastVersion \in Nat /\ lastVersion <= MaxVersions
         /\ clock \in Nat
         /\ promotedAt \in [1 .. MaxVersions -> Nat]
         /\ status \in [1 .. MaxVersions -> Statuses]
         /\ previousVersion \in [1 .. MaxVersions -> 0 .. MaxVersions]
         /\ abandoned \subseteq 1 .. lastVersion
         /\ purged \subseteq 1 .. lastVersion
         /\ rotationLocked \subseteq 1 .. lastVersion
         /\ overlap \subseteq 1 .. lastVersion
         /\ pruneCandidates \subseteq 1 .. lastVersion
  BY MaxVersionsAssumption DEF TypeOK, Versions, Created

\* The record of "no operation under way" is well typed.
LEMMA NoOpFacts == NoOp \in OpTypes
  BY DEF NoOp, OpTypes

\* An operation whose compare-and-swap will succeed holds an active rotation.
LEMMA AllowedAreActive ==
  ASSUME TypeOK, LoadedStillHolds, op.fresh
  PROVE  Active(op.rotation)
<1>1. op.kind \in RotationOps \cup ItemOps
  BY DEF LoadedStillHolds
<1>2. AllowedStatuses(op.kind) \subseteq ActiveStatuses
  BY <1>1, AllowedFacts DEF RotationOps, ActiveStatuses
<1> QED  BY <1>2 DEF LoadedStillHolds, Active

-----------------------------------------------------------------------------
(* Type correctness. *)

\* The initial states are well typed.
LEMMA InitType ==
  ASSUME Init
  PROVE  TypeOK
<1> USE MaxVersionsAssumption, MaxRetriesAssumption
    DEF Created, Versions, Statuses, ActiveStatuses, ItemStatuses
<1>1. op \in OpTypes
  BY DEF Init, OpTypes, NoOp
<1>2. CASE FreshCredential
  <2>2. itemStatus \in [{} -> ItemStatuses] /\ retryCount \in [{} -> 0 .. MaxRetries]
    BY <1>2 DEF FreshCredential
  <2>5. /\ lastVersion \in Versions /\ clock \in Nat
        /\ promotedAt \in [Versions -> Nat]
        /\ status \in [Versions -> Statuses]
        /\ previousVersion \in [Versions -> Versions \cup {0}]
        /\ rotationLocked \subseteq Created
    BY <1>2 DEF FreshCredential
  <2> QED  BY <1>1, <2>2, <2>5 DEF Init, TypeOK
<1>3. CASE MigratedStaleRotation
  <2>1. PICK S \in SUBSET Deps : \E C \in SUBSET S :
       /\ itemStatus = [d \in S |-> IF d \in C THEN "confirmed" ELSE "unconfirmed"]
       /\ retryCount = [d \in S |-> 0]
    BY <1>3 DEF MigratedStaleRotation
  <2>2. itemStatus \in [S -> ItemStatuses] /\ retryCount \in [S -> 0 .. MaxRetries]
    BY <2>1
  <2>5. /\ lastVersion \in Versions /\ clock \in Nat
        /\ promotedAt \in [Versions -> Nat]
        /\ status \in [Versions -> Statuses]
        /\ previousVersion \in [Versions -> Versions \cup {0}]
        /\ rotationLocked \subseteq Created
    BY <1>3 DEF MigratedStaleRotation
  <2> QED  BY <1>1, <2>2, <2>5 DEF Init, TypeOK
<1> QED BY <1>2, <1>3 DEF Init

\* addCredentialVersion keeps the types.
LEMMA AddVersionInsertType == ASSUME IndInv, AddVersionInsert PROVE TypeOK'
<1>1. TypeOK
  BY DEF IndInv
<1>2. lastVersion + 1 \in Versions /\ clock + 1 \in Nat
  BY <1>1, RowFacts DEF AddVersionInsert, Versions
<1>3. lastVersion' \in Versions /\ clock' \in Nat
  BY <1>2 DEF AddVersionInsert
<1>4. promotedAt' \in [Versions -> Nat]
  BY <1>1, <1>2 DEF AddVersionInsert, TypeOK
<1>5. Created \subseteq Created'
  BY <1>1, RowFacts DEF AddVersionInsert, Created
<1> QED  BY <1>1, <1>3, <1>4, <1>5
            DEF AddVersionInsert, TypeOK, rotationRows, checklist

\* initiateRotation keeps the types.
LEMMA InitiateType ==
  ASSUME IndInv, NEW S \in SUBSET Deps, InitiateRotation(S)
  PROVE  TypeOK'
<1>1. TypeOK
  BY DEF IndInv
<1>2. lastVersion + 1 \in Versions
  BY <1>1, RowFacts DEF InitiateRotation, Versions
<1>3. lastVersion' \in Versions
  BY <1>2 DEF InitiateRotation
<1>5. Created \subseteq Created'
  BY <1>1, RowFacts DEF InitiateRotation, Created
<1>6. status' \in [Versions -> Statuses]
  BY <1>1 DEF InitiateRotation, TypeOK, Statuses, ActiveStatuses
<1>7. rotationLocked' \subseteq Created'
  BY <1>1, <1>5 DEF InitiateRotation, TypeOK
<1>8. previousVersion' \in [Versions -> Versions \cup {0}]
  BY <1>1, RowFacts DEF InitiateRotation, TypeOK, Versions, Created
<1>9. /\ itemStatus' \in [S -> ItemStatuses]
      /\ retryCount' \in [S -> 0 .. MaxRetries]
  BY MaxRetriesAssumption DEF InitiateRotation, ItemStatuses
<1> QED  BY <1>1, <1>3, <1>5, <1>6, <1>7, <1>8, <1>9
            DEF InitiateRotation, TypeOK

\* breakGlassRotation keeps the types.
LEMMA BreakGlassType == ASSUME IndInv, BreakGlassRotation PROVE TypeOK'
<1>1. TypeOK
  BY DEF IndInv
<1>2. lastVersion + 1 \in Versions /\ clock + 1 \in Nat
  BY <1>1, RowFacts DEF BreakGlassRotation, Versions
<1>3. lastVersion' \in Versions /\ clock' \in Nat
  BY <1>2 DEF BreakGlassRotation
<1>4. promotedAt' \in [Versions -> Nat]
  BY <1>1, <1>2 DEF BreakGlassRotation, TypeOK
<1>5. Created \subseteq Created'
  BY <1>1, RowFacts DEF BreakGlassRotation, Created
<1>6. status' \in [Versions -> Statuses]
  BY <1>1 DEF BreakGlassRotation, TypeOK, Statuses, FinalStatuses
<1>7. PICK p \in Created :
        /\ rotationLocked' =
            (rotationLocked \ {previousVersion[r] : r \in Superseded}) \cup {p}
       /\ overlap' = overlap \cup {p}
       /\ elapsed' = elapsed \ {p}
       /\ previousVersion' = [previousVersion EXCEPT ![lastVersion + 1] = p]
  BY DEF BreakGlassRotation
<1>8. previousVersion' \in [Versions -> Versions \cup {0}]
  <2>1. p \in Versions
    BY <1>1, RowFacts DEF Versions, Created
  <2> QED  BY <1>1, <1>7, <2>1 DEF TypeOK
<1>9. /\ rotationLocked' \subseteq Created' /\ overlap' \subseteq Created'
      /\ elapsed' \subseteq overlap'
      /\ abandoned' \subseteq Created' /\ purged' \subseteq Created'
      /\ staleAlerted' \subseteq Created' /\ pruneCandidates' \subseteq Created'
  BY <1>1, <1>5, <1>7 DEF TypeOK, BreakGlassRotation, Superseded
<1>10. op' \in OpTypes
  <2>1. (op.fresh /\ op.rotation \notin Superseded) \in BOOLEAN
    OBVIOUS
  <2>2. op.kind \in RotationOps \cup ItemOps \cup {"none", "refused"} /\ op.rotation \in Versions \cup {0}
        /\ op.targets \in SUBSET Deps
    BY <1>1 DEF TypeOK, OpTypes
  <2> QED BY <2>1, <2>2 DEF BreakGlassRotation, OpTypes
<1>11. /\ recentBreakGlass' \in BOOLEAN
       /\ UNCHANGED <<checklist, archived, adding>>
  BY DEF BreakGlassRotation
<1> QED  BY <1>1, <1>3, <1>4, <1>6, <1>8, <1>9, <1>10, <1>11
            DEF TypeOK, checklist

\* The load of a rotation keeps the types.
LEMMA RotationLoadType ==
  ASSUME IndInv, NEW kind \in RotationOps, NEW r \in Versions, LoadRotation(kind, r)
  PROVE  TypeOK'
<1>1. op' \in OpTypes
  BY DEF LoadRotation, OpTypes
<1> QED  BY <1>1 DEF IndInv, LoadRotation, TypeOK, versionRows, rotationRows,
                     checklist, Created

\* The load of a checklist item keeps the types.
LEMMA ItemLoadType ==
  ASSUME IndInv, NEW kind \in ItemOps, NEW r \in Versions, NEW d \in Deps,
         LoadItem(kind, r, d)
  PROVE  TypeOK'
<1>1. op' = [kind |-> kind, rotation |-> r, targets |-> {d}, fresh |-> TRUE]
  BY DEF LoadItem
<1>2. {d} \in SUBSET Deps
  OBVIOUS
<1>3. op' \in OpTypes
  BY <1>1, <1>2 DEF OpTypes
<1> QED  BY <1>3 DEF IndInv, LoadItem, TypeOK, versionRows, rotationRows,
                     checklist, Created

\* confirm and fail keep the types.
LEMMA ItemType ==
  ASSUME IndInv, ConfirmChecklistItem \/ FailChecklistItem
  PROVE  TypeOK'
<1>1. TypeOK
  BY DEF IndInv
<1>2. PICK S \in SUBSET Deps :
        itemStatus \in [S -> ItemStatuses] /\ retryCount \in [S -> 0 .. MaxRetries]
  BY <1>1 DEF TypeOK
<1>3. itemStatus' \in [S -> ItemStatuses] /\ retryCount' = retryCount
  BY <1>2 DEF ConfirmChecklistItem, FailChecklistItem, UpdateItem, ItemStatuses
<1>5. op' \in OpTypes
  BY NoOpFacts DEF ConfirmChecklistItem, FailChecklistItem, UpdateItem
<1> QED  BY <1>1, <1>2, <1>3, <1>5
            DEF ConfirmChecklistItem, FailChecklistItem, UpdateItem, TypeOK,
                versionRows, rotationRows, Created

\* retryChecklistItem keeps every count within ROTATION_MAX_RETRIES.
LEMMA RetryType == ASSUME IndInv, RetryChecklistItem PROVE TypeOK'
<1>1. TypeOK
  BY DEF IndInv
<1>2. PICK S \in SUBSET Deps :
        itemStatus \in [S -> ItemStatuses] /\ retryCount \in [S -> 0 .. MaxRetries]
  BY <1>1 DEF TypeOK
<1>3. itemStatus' \in [S -> ItemStatuses]
  BY <1>2 DEF RetryChecklistItem, UpdateItem, ItemStatuses
<1>4. retryCount' \in [S -> 0 .. MaxRetries]
  <2>1. \A d \in S : /\ retryCount[d] \in 0 .. MaxRetries
                     /\ retryCount[d] < MaxRetries => retryCount[d] + 1 \in 0 .. MaxRetries
    BY <1>2, MaxRetriesAssumption
  <2>2. retryCount' = [d \in S |->
          IF d \in op.targets /\ retryCount[d] < MaxRetries THEN retryCount[d] + 1
          ELSE retryCount[d]]
    BY <1>2 DEF RetryChecklistItem
  <2> QED  BY <2>1, <2>2
<1>5. op' \in OpTypes
  BY DEF RetryChecklistItem, UpdateItem, OpTypes, NoOp
<1> QED  BY <1>1, <1>3, <1>4, <1>5
            DEF RetryChecklistItem, UpdateItem, TypeOK, versionRows,
                rotationRows, Created

\* complete, promote, resume and abandon keep the types.
LEMMA TransitionType ==
  ASSUME IndInv, \/ CompleteRotation \/ PromoteRotation \/ ResumeRotation \/ AbandonRotation
  PROVE  TypeOK'
<1>1. TypeOK /\ LoadedStillHolds
  BY DEF IndInv
<1>2. op.rotation \in Created
  BY <1>1
     DEF CompleteRotation, PromoteRotation, ResumeRotation, AbandonRotation,
         CasHolds, LoadedStillHolds
<1>3. status' \in [Versions -> Statuses]
  BY <1>1
     DEF CompleteRotation, PromoteRotation, ResumeRotation, AbandonRotation,
         TypeOK, Statuses, ActiveStatuses, FinalStatuses
<1>4. promotedAt' \in [Versions -> Nat] /\ clock' \in Nat
  BY <1>1
     DEF CompleteRotation, PromoteRotation, ResumeRotation, AbandonRotation,
         TypeOK, versionRows
<1>5. abandoned' \subseteq Created /\ rotationLocked' \subseteq Created
  BY <1>1, <1>2
     DEF CompleteRotation, PromoteRotation, ResumeRotation, AbandonRotation,
         TypeOK, versionRows
<1>6. op' \in OpTypes
  BY NoOpFacts
     DEF CompleteRotation, PromoteRotation, ResumeRotation, AbandonRotation
<1> QED  BY <1>1, <1>3, <1>4, <1>5, <1>6, ZenonT(30)
            DEF CompleteRotation, PromoteRotation, ResumeRotation,
                AbandonRotation, TypeOK, versionRows, checklist, Created

\* retireRotation keeps the types: the version it purges exists.
LEMMA RetireType == ASSUME IndInv, RetireRotation PROVE TypeOK'
<1>1. TypeOK /\ FallbackBefore /\ LoadedStillHolds
  BY DEF IndInv, VersionInv
<1>2. op.rotation \in Created /\ status[op.rotation] = "promoted"
  BY <1>1, AllowedFacts DEF RetireRotation, CasHolds, LoadedStillHolds
<1>3. previousVersion[op.rotation] \in Created
  BY <1>1, <1>2 DEF FallbackBefore, Active, ActiveStatuses
<1>4. purged' \subseteq Created /\ rotationLocked' \subseteq Created
  BY <1>1, <1>3 DEF RetireRotation, TypeOK
<1>5. status' \in [Versions -> Statuses]
  BY <1>1, <1>2 DEF RetireRotation, TypeOK, Statuses, FinalStatuses
<1>6. op' \in OpTypes
  BY DEF RetireRotation, OpTypes, NoOp
<1> QED  BY <1>1, <1>4, <1>5, <1>6
            DEF RetireRotation, TypeOK, checklist, Created

\* The recovery worker keeps the types.
LEMMA RecoverType ==
  ASSUME IndInv, NEW r \in Versions, RecoverStaleRotation(r)
  PROVE  TypeOK'
<1>1. TypeOK
  BY DEF IndInv
<1>2. PICK S \in SUBSET Deps :
        itemStatus \in [S -> ItemStatuses] /\ retryCount \in [S -> 0 .. MaxRetries]
  BY <1>1 DEF TypeOK
<1>3. itemStatus' \in [S -> ItemStatuses] /\ retryCount' = retryCount
  BY <1>2 DEF RecoverStaleRotation, ItemStatuses
<1>4. status' \in [Versions -> Statuses]
  BY <1>1 DEF RecoverStaleRotation, TypeOK, Statuses, ActiveStatuses
<1> QED  BY <1>1, <1>2, <1>3, <1>4
            DEF RecoverStaleRotation, TypeOK, versionRows, Created

\* The remaining steps keep the types.
LEMMA QuietType ==
  ASSUME IndInv,
         NEW v \in Versions,
         \/ AddVersionCheck \/ AddVersionRejected
         \/ ArchiveCredential \/ UnarchiveCredential \/ CasLost \/ RollBack
         \/ ExpireOverlap(v) \/ OverlapElapses(v) \/ AlertStaleStaged(v) \/ IdempotencyWindowEnds
         \/ PruneScan \/ PrunePurge \/ PruneRollback
  PROVE  TypeOK'
<1>1. TypeOK
  BY DEF IndInv
<1>2. /\ lastVersion' = lastVersion /\ Created' = Created
      /\ promotedAt' = promotedAt /\ clock' = clock /\ abandoned' = abandoned
      /\ status' = status /\ previousVersion' = previousVersion
      /\ itemStatus' = itemStatus /\ retryCount' = retryCount
  BY DEF AddVersionCheck, AddVersionRejected, ArchiveCredential,
         UnarchiveCredential, CasLost, RollBack, ExpireOverlap, OverlapElapses,
         AlertStaleStaged, IdempotencyWindowEnds, PruneScan, PrunePurge,
         PruneRollback, versionRows, rotationRows, checklist, Created
<1>3. /\ purged' \subseteq Created /\ rotationLocked' \subseteq Created
      /\ overlap' \subseteq Created /\ elapsed' \subseteq overlap'
      /\ staleAlerted' \subseteq Created /\ pruneCandidates' \subseteq Created
  BY <1>1
     DEF TypeOK, PurgeCandidates, Unlocked, AddVersionCheck,
         AddVersionRejected, ArchiveCredential, UnarchiveCredential, CasLost,
         RollBack,
         ExpireOverlap, OverlapElapses, AlertStaleStaged,
         IdempotencyWindowEnds, PruneScan, PrunePurge, PruneRollback,
         versionRows, rotationRows
<1>4. /\ recentBreakGlass' \in BOOLEAN /\ archived' \in BOOLEAN
      /\ adding' \in BOOLEAN
  BY <1>1
     DEF TypeOK, AddVersionCheck, AddVersionRejected, ArchiveCredential,
         UnarchiveCredential, CasLost, RollBack, ExpireOverlap, OverlapElapses,
         AlertStaleStaged, IdempotencyWindowEnds, PruneScan, PrunePurge,
         PruneRollback, rotationRows
<1>5. op' \in OpTypes
  BY <1>1, NoOpFacts
     DEF TypeOK, AddVersionCheck, AddVersionRejected, ArchiveCredential,
         UnarchiveCredential, CasLost, RollBack, ExpireOverlap, OverlapElapses,
         AlertStaleStaged, IdempotencyWindowEnds, PruneScan, PrunePurge,
         PruneRollback, rotationRows
<1> QED  BY <1>1, <1>2, <1>3, <1>4, <1>5 DEF TypeOK

\* Every step keeps the types.
LEMMA TypePreserved ==
  ASSUME IndInv, [Next]_vars
  PROVE  TypeOK'
<1>1. CASE UNCHANGED vars
  BY <1>1 DEF IndInv, TypeOK, vars, Created
<1>2. ASSUME HumanOperation PROVE TypeOK'
  <2>1. ASSUME NEW kind \in RotationOps, NEW r \in Versions, LoadRotation(kind, r)
        PROVE  TypeOK'
    BY <2>1, RotationLoadType
  <2>2. ASSUME NEW kind \in ItemOps, NEW r \in Versions, NEW d \in Deps,
               LoadItem(kind, r, d)
        PROVE  TypeOK'
    BY <2>2, ItemLoadType
  <2>3. ASSUME CompleteOperation PROVE TypeOK'
    <3>1. CASE CasLost \/ RollBack
      <4>1. 1 \in Versions
        BY MaxVersionsAssumption DEF Versions
      <4> QED  BY <3>1, <4>1, QuietType
    <3> QED  BY <2>3, <3>1, ItemType, RetryType, TransitionType, RetireType, Zenon
                DEF CompleteOperation
  <2>4. ASSUME NEW r \in Versions \cup {0}, RefuseUnderLock(r) PROVE TypeOK'
    <3>1. op' \in OpTypes
      BY <2>4 DEF RefuseUnderLock, OpTypes
    <3> QED  BY <2>4, <3>1 DEF IndInv, RefuseUnderLock, TypeOK, versionRows,
                               rotationRows, checklist, Created
  <2> QED  BY <1>2, <2>1, <2>2, <2>3, <2>4, Zenon DEF HumanOperation
<1>3. 1 \in Versions
  BY MaxVersionsAssumption DEF Versions
<1>4. ASSUME Worker PROVE TypeOK'
  BY <1>3, <1>4, RecoverType, QuietType, Zenon DEF Worker
<1>5. ASSUME Environment PROVE TypeOK'
  BY <1>3, <1>5, QuietType, Zenon DEF Environment
<1>6. ASSUME Next PROVE TypeOK'
  BY <1>2, <1>3, <1>4, <1>5, <1>6, AddVersionInsertType, InitiateType,
  BreakGlassType,
     QuietType, Zenon DEF Next
<1> QED  BY <1>1, <1>6

-----------------------------------------------------------------------------
(* What a loaded operation may rely on, and archival. *)

\* While an operation waits between its load and its write, every step that
\* changes its rotation makes its compare-and-swap fail.
LEMMA LoadedPreserved ==
  ASSUME IndInv, [Next]_vars
  PROVE  LoadedStillHolds'
<1>1. TypeOK /\ LoadedStillHolds /\ OneActive
  BY DEF IndInv, VersionInv
<1>2. CASE op' = NoOp
  BY <1>2 DEF NoOp, LoadedStillHolds
<1>3. CASE UNCHANGED <<op, status, lastVersion>>
  BY <1>1, <1>3 DEF LoadedStillHolds, Created
<1>4. CASE AddVersionInsert
  BY <1>1, <1>4, RowFacts
     DEF AddVersionInsert, rotationRows, LoadedStillHolds, Created
<1>5. ASSUME NEW S \in SUBSET Deps, InitiateRotation(S)
      PROVE  LoadedStillHolds'
  <2>1. op.fresh => op.rotation # lastVersion + 1
    BY <1>1, RowFacts DEF LoadedStillHolds, Created
  <2> QED  BY <1>1, <1>5, <2>1, RowFacts
              DEF InitiateRotation, LoadedStillHolds, Created
<1>6. CASE BreakGlassRotation
  <2>1. ~op'.fresh
    BY <1>1, <1>6, AllowedAreActive DEF BreakGlassRotation, Superseded, Active
  <2> QED  BY <2>1 DEF LoadedStillHolds
<1>7. ASSUME NEW r \in Versions, RecoverStaleRotation(r)
      PROVE  LoadedStillHolds'
  <2>1. op.fresh => op.rotation # r
    BY <1>1, <1>7 DEF RecoverStaleRotation, RotationLockFree, LoadedStillHolds,
                         RotationOps, ItemOps
  <2> QED  BY <1>1, <1>7, <2>1, RowFacts
              DEF RecoverStaleRotation, versionRows, LoadedStillHolds, Created
<1>8. ASSUME NEW kind \in RotationOps, NEW r \in Versions, LoadRotation(kind, r)
      PROVE  LoadedStillHolds'
  BY <1>8
     DEF LoadRotation, LoadedStillHolds, versionRows, rotationRows, Created,
         RotationOps
<1>9. ASSUME NEW kind \in ItemOps, NEW r \in Versions, NEW d \in Deps, LoadItem(kind, r, d)
      PROVE  LoadedStillHolds'
  BY <1>9
     DEF LoadItem, LoadedStillHolds, versionRows, rotationRows, Created,
         ItemOps
<1>10. CompleteOperation => op' = NoOp
  BY DEF CompleteOperation, ConfirmChecklistItem, FailChecklistItem,
         RetryChecklistItem,
         UpdateItem, CompleteRotation, PromoteRotation, RetireRotation,
         ResumeRotation,
         AbandonRotation, CasLost, RollBack
<1>11. \/ AddVersionCheck \/ AddVersionRejected
       \/ ArchiveCredential \/ UnarchiveCredential
       \/ PruneScan \/ PrunePurge \/ PruneRollback \/ Environment
       \/ \E v \in Versions : ExpireOverlap(v)
       \/ \E r \in Versions : AlertStaleStaged(r)
       \/ UNCHANGED vars
       => UNCHANGED <<op, status, lastVersion>>
  BY DEF AddVersionCheck, AddVersionRejected, ArchiveCredential,
         UnarchiveCredential,
         PruneScan, PrunePurge, PruneRollback, Environment, ExpireOverlap,
         AlertStaleStaged,
         IdempotencyWindowEnds, OverlapElapses, vars, versionRows, rotationRows
<1>12. ASSUME NEW r \in Versions \cup {0}, RefuseUnderLock(r)
       PROVE  LoadedStillHolds'
  BY <1>12 DEF RefuseUnderLock, LoadedStillHolds
<1> QED  BY <1>2, <1>3, <1>4, <1>5, <1>6, <1>7, <1>8, <1>9, <1>10, <1>11, <1>12,
            Zenon
            DEF Next, HumanOperation, Worker

\* No step makes or finds an active rotation on an archived credential.
LEMMA ArchivedPreserved ==
  ASSUME IndInv, [Next]_vars
  PROVE  ArchivedHasNoActiveRotation'
<1>1. TypeOK /\ LoadedStillHolds /\ OneActive /\ ArchivedHasNoActiveRotation
  BY DEF IndInv, VersionInv
<1>2. CASE UNCHANGED <<archived, status, lastVersion>>
  BY <1>1, <1>2
     DEF ArchivedHasNoActiveRotation, NoActiveRotation, Active, Created
<1>3. CASE ArchiveCredential
  BY <1>3
     DEF ArchiveCredential, ArchivedHasNoActiveRotation, NoActiveRotation,
         Active, Created,
              versionRows, rotationRows
<1>4. CASE UnarchiveCredential
  BY <1>4 DEF UnarchiveCredential, ArchivedHasNoActiveRotation
<1>5. CASE AddVersionInsert
  <2>1. status'[lastVersion'] = "none"
    BY <1>1, <1>5, RowFacts
       DEF AddVersionInsert, rotationRows, OneActive, Versions
  <2>2. \A r \in Created' : r \in Created \/ r = lastVersion'
    BY <1>1, <1>5, RowFacts DEF AddVersionInsert, Created
  <2> QED  BY <1>1, <1>5, <2>1, <2>2
              DEF AddVersionInsert, rotationRows, ArchivedHasNoActiveRotation,
                  NoActiveRotation, Active, ActiveStatuses
<1>6. ASSUME NEW S \in SUBSET Deps, InitiateRotation(S)
      PROVE  ArchivedHasNoActiveRotation'
  BY <1>6 DEF InitiateRotation, ArchivedHasNoActiveRotation
<1>7. CASE BreakGlassRotation
  <2>1. \A r \in Created' : r \in Created \/ r = lastVersion + 1
    BY <1>1, <1>7, RowFacts DEF BreakGlassRotation, Created
  <2>2. \A r \in Created' : status'[r] \notin ActiveStatuses
    BY <1>1, <1>7, <2>1, RowFacts
       DEF BreakGlassRotation, Superseded, Active, ActiveStatuses, Created, Versions
  <2> QED  BY <2>2 DEF ArchivedHasNoActiveRotation, NoActiveRotation, Active
<1>8. CASE \/ CompleteRotation \/ PromoteRotation \/ RetireRotation
           \/ ResumeRotation \/ AbandonRotation
  <2>1. op.fresh /\ UNCHANGED archived
    BY <1>8
       DEF CompleteRotation, PromoteRotation, RetireRotation, ResumeRotation,
                AbandonRotation, CasHolds
  <2>2. ~archived
    BY <1>1, <2>1, AllowedAreActive
       DEF ArchivedHasNoActiveRotation, NoActiveRotation, Active
  <2> QED  BY <2>1, <2>2 DEF ArchivedHasNoActiveRotation
<1>9. ASSUME NEW r \in Versions, RecoverStaleRotation(r)
      PROVE  ArchivedHasNoActiveRotation'
  BY <1>1, <1>9
     DEF RecoverStaleRotation, ArchivedHasNoActiveRotation, NoActiveRotation,
                    Active, ActiveStatuses
<1>10. \/ AddVersionCheck \/ AddVersionRejected
       \/ \E kind \in RotationOps, r \in Versions : LoadRotation(kind, r)
       \/ \E kind \in ItemOps, r \in Versions, d \in Deps : LoadItem(kind, r, d)
       \/ ConfirmChecklistItem \/ FailChecklistItem \/ RetryChecklistItem
       \/ CasLost \/ RollBack \/ \E q \in Versions \cup {0} : RefuseUnderLock(q)
       \/ PruneScan \/ PrunePurge \/ PruneRollback \/ Environment
       \/ \E v \in Versions : ExpireOverlap(v)
       \/ \E r \in Versions : AlertStaleStaged(r)
       \/ UNCHANGED vars
       => UNCHANGED <<archived, status, lastVersion>>
  BY DEF AddVersionCheck, AddVersionRejected, LoadRotation, LoadItem,
         ConfirmChecklistItem, FailChecklistItem, RetryChecklistItem,
         UpdateItem, CasLost, RollBack, RefuseUnderLock,
         PruneScan, PrunePurge, PruneRollback, Environment, ExpireOverlap,
         AlertStaleStaged,
         IdempotencyWindowEnds, OverlapElapses, vars, versionRows, rotationRows
<1> QED  BY <1>2, <1>3, <1>4, <1>5, <1>6, <1>7, <1>8, <1>9, <1>10, Zenon
            DEF Next, HumanOperation, CompleteOperation, Worker

-----------------------------------------------------------------------------
(* The version rows: the steps that leave them alone. *)

\* A step that changes none of the columns VersionInv reads.
RowsUnchanged ==
  UNCHANGED <<lastVersion, promotedAt, abandoned, purged, rotationLocked,
              overlap, status, previousVersion, pruneCandidates>>

\* Such a step keeps VersionInv.
LEMMA RowsFrame ==
  ASSUME VersionInv, RowsUnchanged
  PROVE  VersionInv'
  BY DEF RowsUnchanged, VersionInv, OneActive, FallbackProtected,
         FallbackBefore,
         UnpromotedIsStaged, NewVersionOrNewer, OverlapProtected,
         OverlapSuperseded, CandidatesOutranked, AlwaysServable, Active, Live,
         Servable, Created

\* The other steps.
RowsWritten ==
  \/ AddVersionInsert
  \/ \E S \in SUBSET Deps : InitiateRotation(S)
  \/ BreakGlassRotation
  \/ CompleteRotation \/ PromoteRotation \/ RetireRotation
  \/ ResumeRotation \/ AbandonRotation
  \/ \E v \in Versions : ExpireOverlap(v)
  \/ \E r \in Versions : RecoverStaleRotation(r)
  \/ PruneScan \/ PrunePurge \/ PruneRollback

\* There is no third kind of step.
LEMMA NextCases ==
  ASSUME [Next]_vars
  PROVE  RowsUnchanged \/ RowsWritten
<1>1. ASSUME Next PROVE RowsUnchanged \/ RowsWritten
  <2> USE DEF RowsUnchanged, versionRows, rotationRows
  <2>1. AddVersionCheck \/ AddVersionRejected => RowsUnchanged
    BY DEF AddVersionCheck, AddVersionRejected
  <2>2. ArchiveCredential \/ UnarchiveCredential => RowsUnchanged
    BY DEF ArchiveCredential, UnarchiveCredential
  <2>3. \A kind \in RotationOps, r \in Versions : LoadRotation(kind, r) => RowsUnchanged
    BY DEF LoadRotation
  <2>4. \A kind \in ItemOps, r \in Versions, d \in Deps : LoadItem(kind, r, d) => RowsUnchanged
    BY DEF LoadItem
  <2>5. \/ ConfirmChecklistItem \/ FailChecklistItem \/ RetryChecklistItem
        \/ CasLost \/ RollBack \/ \E q \in Versions \cup {0} : RefuseUnderLock(q)
        => RowsUnchanged
    BY DEF ConfirmChecklistItem, FailChecklistItem, RetryChecklistItem,
           UpdateItem, CasLost, RollBack, RefuseUnderLock
  <2>6. \A r \in Versions : AlertStaleStaged(r) => RowsUnchanged
    BY DEF AlertStaleStaged
  <2>7. IdempotencyWindowEnds => RowsUnchanged
    BY DEF IdempotencyWindowEnds
  <2>8. \A v \in Versions : OverlapElapses(v) => RowsUnchanged
    BY DEF OverlapElapses
  <2> HIDE DEF RowsUnchanged
  <2>9. HumanOperation => RowsUnchanged \/ RowsWritten
    BY <2>3, <2>4, <2>5, Zenon
       DEF HumanOperation, CompleteOperation, RowsWritten
  <2>10. Environment => RowsUnchanged
    BY <2>7, <2>8, Zenon DEF Environment
  <2>11. Worker => RowsUnchanged \/ RowsWritten
    BY <2>6, Zenon DEF Worker, RowsWritten
  <2> QED  BY <1>1, <2>1, <2>2, <2>9, <2>10, <2>11, Zenon DEF Next, RowsWritten
<1>2. CASE UNCHANGED vars
  BY <1>2 DEF vars, RowsUnchanged
<1> QED  BY <1>1, <1>2

-----------------------------------------------------------------------------
(* The version rows: the conjuncts that need an argument. *)

\* A plain version does not bring a rotation with it.
LEMMA AddVersionOneActive ==
  ASSUME IndInv, AddVersionInsert
  PROVE  OneActive'
<1>1. TypeOK /\ OneActive
  BY DEF IndInv, VersionInv
<1>2. Created' = Created \cup {lastVersion + 1}
  BY <1>1, RowFacts DEF AddVersionInsert, Created
<1>3. status[lastVersion + 1] = "none"
  BY <1>1, RowFacts DEF AddVersionInsert, OneActive, Versions
<1>4. \A r \in Created' : Active(r)' => Active(r)
  BY <1>2, <1>3 DEF AddVersionInsert, Active, ActiveStatuses, rotationRows
<1> QED  BY <1>1, <1>2, <1>3, <1>4, RowFacts
            DEF OneActive, Active, AddVersionInsert, rotationRows, Versions

\* A new row leaves the overlap windows and their successors as they are.
LEMMA InsertKeepsOverlap ==
  ASSUME IndInv, 
         AddVersionInsert \/ \E S \in SUBSET Deps : InitiateRotation(S)
  PROVE  OverlapSuperseded'
<1>1. TypeOK /\ OverlapSuperseded
  BY DEF IndInv, VersionInv
<1>2. /\ lastVersion' = lastVersion + 1
      /\ \A v \in Created : promotedAt'[v] = promotedAt[v]
      /\ UNCHANGED <<overlap, purged, abandoned>>
  BY <1>1, RowFacts DEF AddVersionInsert, InitiateRotation, Created
<1>3. \A v : Live(v) => Live(v)'
  BY <1>1, <1>2, RowFacts DEF Live, Created
<1>4. \A v : Servable(v) => Servable(v)'
  BY <1>2, <1>3 DEF Servable, Live
<1>5. Created \subseteq Created'
  BY <1>1, <1>2, RowFacts DEF Created
<1> QED  BY <1>1, <1>2, <1>3, <1>4, <1>5 DEF OverlapSuperseded

\* breakGlassRotation gives the version it replaces a servable successor.
LEMMA BreakGlassOverlap ==
  ASSUME IndInv, BreakGlassRotation
  PROVE  OverlapSuperseded'
<1>1. TypeOK /\ OverlapSuperseded /\ NewVersionOrNewer
  BY DEF IndInv, VersionInv
<1>0. PICK n : n = lastVersion + 1
  OBVIOUS
<1>2. PICK p \in Created : IsToSupersede(p, Created \ Superseded) /\ overlap' = overlap \cup {p}
  BY DEF BreakGlassRotation
<1>3. lastVersion' = n /\ promotedAt'[n] # 0 /\ purged' = purged
      /\ abandoned' = abandoned \cup Superseded
  BY <1>0, <1>1, RowFacts DEF BreakGlassRotation
<1>4. n \in Created' /\ Servable(n)'
  BY <1>0, <1>1, <1>3, RowFacts DEF Servable, Live, Created, Superseded
<1>5. \A v \in overlap' : v \in Created /\ Live(v)'
  BY <1>0, <1>1, <1>2, <1>3, RowFacts
     DEF OverlapSuperseded, NewVersionOrNewer, IsToSupersede, Superseded, Live, Created
<1>6. \A v \in Created : n > v
  BY <1>0, <1>1, RowFacts DEF Created
<1> QED  BY <1>4, <1>5, <1>6 DEF OverlapSuperseded

\* promoteRotation takes no successor of an overlap window away.
LEMMA PromoteOverlap ==
  ASSUME IndInv, PromoteRotation
  PROVE  OverlapSuperseded'
<1>1. TypeOK /\ OverlapSuperseded
  BY DEF IndInv, VersionInv
<1>2. \A w \in Created : promotedAt[w] # 0 => promotedAt'[w] # 0
  BY <1>1, RowFacts DEF PromoteRotation, Created
<1> QED  BY <1>1, <1>2
            DEF PromoteRotation, OverlapSuperseded, Live, Servable, Created

\* retireRotation purges a version whose successor is servable.
LEMMA RetireOverlap ==
  ASSUME IndInv, RetireRotation
  PROVE  OverlapSuperseded'
<1> USE DEF Created
<1> DEFINE r == op.rotation
           p == previousVersion[r]
<1>1. /\ TypeOK /\ LoadedStillHolds /\ FallbackBefore /\ FallbackProtected
      /\ UnpromotedIsStaged /\ NewVersionOrNewer /\ OverlapSuperseded
  BY DEF IndInv, VersionInv
<1>2. r \in Created /\ status[r] = "promoted"
  BY <1>1, AllowedFacts DEF RetireRotation, CasHolds, LoadedStillHolds
<1>3. /\ Active(r) /\ promotedAt[r] # 0 /\ p < r /\ r \notin abandoned
      /\ p \notin overlap
  BY <1>1, <1>2 DEF Active, ActiveStatuses, FallbackBefore, UnpromotedIsStaged,
                    NewVersionOrNewer, FallbackProtected
<1>4. PICK x \in Created : x >= r /\ Servable(x)
  BY <1>1, <1>2, <1>3, RowFacts DEF NewVersionOrNewer, Servable, Live
<1>5. SUFFICES ASSUME NEW v \in overlap
               PROVE  Live(v) /\ \E w \in Created : w > v /\ Servable(w) /\ w # p
  BY <1>3 DEF RetireRotation, OverlapSuperseded, Live, Servable
<1>6. PICK w \in Created : Live(v) /\ w > v /\ Servable(w)
  BY <1>1, <1>5 DEF OverlapSuperseded
<1>7. CASE w = p
  BY <1>1, <1>2, <1>3, <1>4, <1>6, <1>7, RowFacts
<1> QED  BY <1>6, <1>7

\* abandonRotation falls back to a version that outlives the overlap windows.
LEMMA AbandonOverlap ==
  ASSUME IndInv, AbandonRotation
  PROVE  OverlapSuperseded'
<1> USE DEF Created
<1> DEFINE r == op.rotation
           p == previousVersion[r]
<1>1. /\ TypeOK /\ LoadedStillHolds /\ FallbackBefore /\ FallbackProtected
      /\ NewVersionOrNewer /\ OverlapSuperseded
  BY DEF IndInv, VersionInv
<1>2. Active(r)
  BY <1>1, AllowedFacts
     DEF AbandonRotation, CasHolds, LoadedStillHolds, Active, ActiveStatuses
<1>3. SUFFICES ASSUME NEW v \in overlap
               PROVE  /\ Live(v) /\ v # r
                      /\ \E w \in Created : w > v /\ Servable(w) /\ w # r
  BY DEF AbandonRotation, OverlapSuperseded, Live, Servable
<1>4. PICK w \in Created : Live(v) /\ w > v /\ Servable(w)
  BY <1>1, <1>3 DEF OverlapSuperseded
<1>5. v # r
  BY <1>1, <1>2 DEF NewVersionOrNewer, Active
<1>6. CASE w = r
  BY <1>1, <1>2, <1>3, <1>4, <1>5, <1>6, RowFacts
     DEF Active, FallbackBefore, FallbackProtected
<1> QED  BY <1>4, <1>5, <1>6

\* The retention worker leaves a successor for every overlap window.
LEMMA PurgeOverlap ==
  ASSUME IndInv, PrunePurge
  PROVE  OverlapSuperseded'
<1> USE DEF Created
<1>1. TypeOK /\ OverlapSuperseded /\ OverlapProtected /\ CandidatesOutranked
  BY DEF IndInv, VersionInv
<1>2. SUFFICES ASSUME NEW v \in overlap
               PROVE  /\ Live(v) /\ v \in rotationLocked
                      /\ \E w \in Created : w > v /\ Servable(w) /\ w \notin pruneCandidates
  BY <1>1 DEF PrunePurge, OverlapSuperseded, Live, Servable
<1>3. PICK w \in Created : Live(v) /\ w > v /\ Servable(w)
  BY <1>1, <1>2 DEF OverlapSuperseded
<1>4. CASE w \in pruneCandidates
  BY <1>1, <1>2, <1>3, <1>4, RowFacts
     DEF CandidatesOutranked, Servable, OverlapProtected
<1> QED  BY <1>1, <1>2, <1>3, <1>4 DEF OverlapProtected

\* The retention worker never lists the fallback of an active rotation.
LEMMA PruneScanFallback ==
  ASSUME IndInv, PruneScan
  PROVE  FallbackBefore'
  BY DEF IndInv, VersionInv, FallbackProtected, FallbackBefore, PruneScan,
         versionRows,
         rotationRows, PurgeCandidates, Unlocked, Active, Live, Created

\* The list of the retention worker leaves out a servable version above each
\* live version on it: the highest one not abandoned, or, when that one is still
\* staged, its fallback.
LEMMA PruneScanOutranked ==
  ASSUME IndInv, PruneScan
  PROVE  CandidatesOutranked'
<1> USE DEF Created
<1>1. TypeOK /\ FallbackProtected /\ FallbackBefore /\ UnpromotedIsStaged
  BY DEF IndInv, VersionInv
<1>2. SUFFICES ASSUME NEW c \in PurgeCandidates, Live(c)
               PROVE  \E w \in Created :
                        w > c /\ w \notin PurgeCandidates /\ Servable(w)
  BY DEF PruneScan, CandidatesOutranked, versionRows, Live, Servable
<1> DEFINE Kept == {w \in Unlocked : w \notin abandoned}
<1>3. c \in Kept /\ Kept \subseteq 1 .. lastVersion
  BY <1>2 DEF PurgeCandidates, Unlocked, Live
<1>4. PICK h \in Kept : \A y \in Kept : y <= h
  <2> HIDE DEF Kept
  <2> QED  BY <1>1, <1>3, RowFacts, MaxExists
<1>5. h \in 1 .. lastVersion /\ Live(h) /\ h > c /\ h \notin PurgeCandidates
  BY <1>1, <1>3, <1>4, RowFacts DEF PurgeCandidates, Unlocked, Live
<1>6. CASE promotedAt[h] # 0
  BY <1>5, <1>6 DEF Servable
<1>7. CASE promotedAt[h] = 0
  <2>1. Active(h)
    BY <1>1, <1>5, <1>7 DEF UnpromotedIsStaged
  <2>2. /\ Servable(previousVersion[h])
        /\ previousVersion[h] \notin PurgeCandidates
    BY <1>1, <2>1, <1>5 DEF FallbackProtected, PurgeCandidates, Unlocked
  <2>3. previousVersion[h] > c
    BY <1>1, <1>2, <1>5, <2>1, <2>2, RowFacts DEF FallbackBefore, Live
  <2> QED  BY <2>2, <2>3 DEF Servable, Live
<1> QED  BY <1>6, <1>7

\* retireRotation does not purge the last version that outranks the list.
LEMMA RetireOutranked ==
  ASSUME IndInv, RetireRotation
  PROVE  CandidatesOutranked'
<1> USE DEF Created
<1> DEFINE r == op.rotation
           p == previousVersion[r]
<1>1. /\ TypeOK /\ LoadedStillHolds /\ FallbackBefore /\ UnpromotedIsStaged
      /\ NewVersionOrNewer /\ CandidatesOutranked
  BY DEF IndInv, VersionInv
<1>2. r \in Created /\ status[r] = "promoted"
  BY <1>1, AllowedFacts DEF RetireRotation, CasHolds, LoadedStillHolds
<1>3. Active(r) /\ promotedAt[r] # 0 /\ p < r /\ r \notin abandoned
  BY <1>1, <1>2 DEF Active, ActiveStatuses, FallbackBefore, UnpromotedIsStaged,
                    NewVersionOrNewer
<1>4. PICK x \in Created : x >= r /\ x \notin pruneCandidates /\ Servable(x)
  <2>1. \E x \in Created : x >= r /\ Servable(x)
    BY <1>1, <1>2, <1>3, RowFacts, SMTT(20) DEF NewVersionOrNewer, Servable, Live
  <2> QED  BY <1>1, <1>2, <2>1, RowFacts DEF CandidatesOutranked, Servable
<1>5. SUFFICES ASSUME NEW c \in pruneCandidates, Live(c), c # p
               PROVE  \E w \in Created :
                        w > c /\ w \notin pruneCandidates /\ Servable(w) /\ w # p
  BY DEF RetireRotation, CandidatesOutranked, Live, Servable
<1>6. PICK w \in Created : w > c /\ w \notin pruneCandidates /\ Servable(w)
  BY <1>1, <1>5 DEF CandidatesOutranked
<1>7. CASE w = p
  BY <1>1, <1>2, <1>3, <1>4, <1>6, <1>7, RowFacts
<1> QED  BY <1>6, <1>7

\* abandonRotation does not give that version up.
LEMMA AbandonOutranked ==
  ASSUME IndInv, AbandonRotation
  PROVE  CandidatesOutranked'
<1> USE DEF Created
<1> DEFINE r == op.rotation
           p == previousVersion[r]
<1>1. /\ TypeOK /\ LoadedStillHolds /\ FallbackBefore /\ FallbackProtected
      /\ CandidatesOutranked
  BY DEF IndInv, VersionInv
<1>2. Active(r)
  BY <1>1, AllowedFacts
     DEF AbandonRotation, CasHolds, LoadedStillHolds, Active, ActiveStatuses
<1>3. SUFFICES ASSUME NEW c \in pruneCandidates, Live(c), c # r
               PROVE  \E w \in Created :
                        w > c /\ w \notin pruneCandidates /\ Servable(w) /\ w # r
  BY <1>1, <1>2 DEF AbandonRotation, CandidatesOutranked, Live, Servable
<1>4. PICK w \in Created : w > c /\ w \notin pruneCandidates /\ Servable(w)
  BY <1>1, <1>3 DEF CandidatesOutranked
<1>5. CASE w = r
  <2>1. p \in Created /\ p < r /\ p \notin pruneCandidates /\ Servable(p)
    BY <1>1, <1>2 DEF Active, FallbackBefore, FallbackProtected
  <2>2. ~(p < c /\ c < r)
    BY <1>1, <1>2, <1>3, RowFacts DEF Active, FallbackBefore, Live
  <2>3. p > c
    BY <1>1, <1>2, <1>4, <1>5, <2>1, <2>2, RowFacts DEF Active
  <2> QED  BY <1>1, <1>2, <2>1, <2>3, RowFacts DEF Active
<1> QED  BY <1>4, <1>5

\* retireRotation leaves a servable version: the new one, or a newer one.
LEMMA RetireServable ==
  ASSUME IndInv, RetireRotation
  PROVE  AlwaysServable'
<1> USE DEF Created
<1> DEFINE r == op.rotation
           p == previousVersion[r]
<1>1. /\ TypeOK /\ LoadedStillHolds /\ FallbackBefore /\ UnpromotedIsStaged
      /\ NewVersionOrNewer
  BY DEF IndInv, VersionInv
<1>2. r \in Created /\ status[r] = "promoted"
  BY <1>1, AllowedFacts DEF RetireRotation, CasHolds, LoadedStillHolds
<1>3. promotedAt[r] # 0 /\ p < r /\ p \in Created /\ r \notin abandoned
  BY <1>1, <1>2 DEF Active, ActiveStatuses, FallbackBefore, UnpromotedIsStaged,
                    NewVersionOrNewer
<1>4. PICK x \in Created : x >= r /\ Servable(x)
  BY <1>1, <1>2, <1>3, RowFacts, SMTT(20)
     DEF NewVersionOrNewer, Active, ActiveStatuses, Servable, Live
<1>5. x # p
  BY <1>1, <1>2, <1>3, <1>4, RowFacts
<1> QED  BY <1>4, <1>5 DEF RetireRotation, AlwaysServable, Servable, Live

\* abandonRotation leaves the fallback servable.
LEMMA AbandonServable ==
  ASSUME IndInv, AbandonRotation
  PROVE  AlwaysServable'
<1> USE DEF Created
<1>1. TypeOK /\ LoadedStillHolds /\ FallbackBefore /\ FallbackProtected
  BY DEF IndInv, VersionInv
<1>2. Active(op.rotation)
  BY <1>1, AllowedAreActive DEF AbandonRotation, CasHolds
<1>3. /\ previousVersion[op.rotation] \in Created
      /\ previousVersion[op.rotation] < op.rotation
      /\ Servable(previousVersion[op.rotation])
  BY <1>1, <1>2 DEF FallbackBefore, FallbackProtected, Active
<1>4. previousVersion[op.rotation] # op.rotation
  BY <1>1, <1>2, <1>3, RowFacts DEF Active
<1> QED  BY <1>3, <1>4 DEF AbandonRotation, AlwaysServable, Servable, Live

-----------------------------------------------------------------------------
(* The version rows, one lemma per writing step. *)

\* addCredentialVersion keeps every conjunct of VersionInv.
LEMMA AddVersionInsertVersions ==
  ASSUME IndInv, AddVersionInsert
  PROVE  VersionInv'
<1> USE DEF Active, ActiveStatuses, Live, Servable, Created, Versions,
        versionRows, rotationRows
<1>1. TypeOK /\ VersionInv
  BY DEF IndInv
<1>2. OneActive'
  BY AddVersionOneActive
<1>3. FallbackProtected'
  BY <1>1, MaxVersionsAssumption
     DEF TypeOK, VersionInv, FallbackProtected, OneActive, AddVersionInsert
<1>4. FallbackBefore'
  BY <1>1, MaxVersionsAssumption
     DEF TypeOK, VersionInv, FallbackBefore, OneActive, AddVersionInsert
<1>5. UnpromotedIsStaged'
  BY <1>1, MaxVersionsAssumption
     DEF TypeOK, VersionInv, UnpromotedIsStaged, AddVersionInsert
<1>6. NewVersionOrNewer'
  BY <1>1, MaxVersionsAssumption
     DEF TypeOK, VersionInv, NewVersionOrNewer, AddVersionInsert
<1>7. OverlapProtected'
  BY <1>1, MaxVersionsAssumption
     DEF TypeOK, VersionInv, OverlapProtected, AddVersionInsert
<1>8. OverlapSuperseded'
  BY InsertKeepsOverlap
<1>9. CandidatesOutranked'
  BY <1>1, MaxVersionsAssumption
     DEF TypeOK, VersionInv, CandidatesOutranked, AddVersionInsert
<1>10. AlwaysServable'
  BY <1>1, MaxVersionsAssumption
     DEF TypeOK, VersionInv, AlwaysServable, AddVersionInsert
<1> QED  BY <1>2, <1>3, <1>4, <1>5, <1>6, <1>7, <1>8, <1>9, <1>10 DEF VersionInv

\* initiateRotation keeps every conjunct of VersionInv.
LEMMA InitiateRotationVersions ==
  ASSUME IndInv, NEW S \in SUBSET Deps, InitiateRotation(S)
  PROVE  VersionInv'
<1> USE DEF Active, ActiveStatuses, Live, Servable, Created, Versions,
        versionRows, rotationRows
<1>1. TypeOK /\ VersionInv
  BY DEF IndInv
<1>2. OneActive'
  BY <1>1, MaxVersionsAssumption
     DEF TypeOK, VersionInv, OneActive, InitiateRotation, IsToSupersede,
         NoActiveRotation
<1>3. FallbackProtected'
  BY <1>1, MaxVersionsAssumption
     DEF TypeOK, VersionInv, FallbackProtected, UnpromotedIsStaged,
         OverlapSuperseded, InitiateRotation, IsToSupersede, NoActiveRotation
<1>4. FallbackBefore'
  BY <1>1, MaxVersionsAssumption
     DEF TypeOK, VersionInv, FallbackBefore, CandidatesOutranked,
         InitiateRotation, IsToSupersede, NoActiveRotation
<1>5. UnpromotedIsStaged'
  BY <1>1, MaxVersionsAssumption
     DEF TypeOK, VersionInv, UnpromotedIsStaged, InitiateRotation,
         IsToSupersede, NoActiveRotation
<1>6. NewVersionOrNewer'
  BY <1>1, MaxVersionsAssumption
     DEF TypeOK, VersionInv, NewVersionOrNewer, InitiateRotation,
         IsToSupersede, NoActiveRotation
<1>7. OverlapProtected'
  BY <1>1, MaxVersionsAssumption
     DEF TypeOK, VersionInv, OverlapProtected, InitiateRotation,
         IsToSupersede, NoActiveRotation
<1>8. OverlapSuperseded'
  BY InsertKeepsOverlap
<1>9. CandidatesOutranked'
  BY <1>1, MaxVersionsAssumption
     DEF TypeOK, VersionInv, CandidatesOutranked, InitiateRotation,
         IsToSupersede, NoActiveRotation
<1>10. AlwaysServable'
  BY <1>1, MaxVersionsAssumption
     DEF TypeOK, VersionInv, AlwaysServable, InitiateRotation, IsToSupersede,
         NoActiveRotation
<1> QED  BY <1>2, <1>3, <1>4, <1>5, <1>6, <1>7, <1>8, <1>9, <1>10 DEF VersionInv

\* breakGlassRotation keeps every conjunct of VersionInv.
LEMMA BreakGlassRotationVersions ==
  ASSUME IndInv, BreakGlassRotation
  PROVE  VersionInv'
<1> USE DEF Active, ActiveStatuses, Live, Servable, Created, Versions,
        versionRows, rotationRows
<1>1. TypeOK /\ VersionInv
  BY DEF IndInv
<1>2. OneActive'
  BY <1>1, MaxVersionsAssumption
     DEF TypeOK, VersionInv, OneActive, BreakGlassRotation, IsToSupersede,
         Superseded
<1>3. FallbackProtected'
  BY <1>1, MaxVersionsAssumption
     DEF TypeOK, VersionInv, FallbackProtected, BreakGlassRotation,
         IsToSupersede, Superseded
<1>4. FallbackBefore'
  BY <1>1, MaxVersionsAssumption
     DEF TypeOK, VersionInv, FallbackBefore, BreakGlassRotation,
         IsToSupersede, Superseded
<1>5. UnpromotedIsStaged'
  BY <1>1, MaxVersionsAssumption
     DEF TypeOK, VersionInv, UnpromotedIsStaged, BreakGlassRotation,
         IsToSupersede, Superseded
<1>6. NewVersionOrNewer'
  BY <1>1, MaxVersionsAssumption
     DEF TypeOK, VersionInv, NewVersionOrNewer, BreakGlassRotation,
         IsToSupersede, Superseded
<1>7. OverlapProtected'
  BY <1>1, MaxVersionsAssumption
     DEF TypeOK, VersionInv, OverlapProtected, FallbackProtected,
         BreakGlassRotation, IsToSupersede, Superseded
<1>8. OverlapSuperseded'
  BY BreakGlassOverlap
<1>9. CandidatesOutranked'
  BY <1>1, MaxVersionsAssumption
     DEF TypeOK, VersionInv, CandidatesOutranked, BreakGlassRotation,
         IsToSupersede, Superseded
<1>10. AlwaysServable'
  BY <1>1, MaxVersionsAssumption
     DEF TypeOK, VersionInv, AlwaysServable, BreakGlassRotation,
         IsToSupersede, Superseded
<1> QED  BY <1>2, <1>3, <1>4, <1>5, <1>6, <1>7, <1>8, <1>9, <1>10 DEF VersionInv

\* completeRotation keeps every conjunct of VersionInv.
LEMMA CompleteRotationVersions ==
  ASSUME IndInv, CompleteRotation
  PROVE  VersionInv'
<1> USE DEF Active, ActiveStatuses, Live, Servable, Created, Versions,
        versionRows, rotationRows
<1>1. TypeOK /\ VersionInv /\ LoadedStillHolds
  BY DEF IndInv
<1>2. OneActive'
  BY <1>1, MaxVersionsAssumption, AllowedFacts
     DEF TypeOK, VersionInv, OneActive, CompleteRotation, CasHolds,
         LoadedStillHolds
<1>3. FallbackProtected'
  BY <1>1, MaxVersionsAssumption, AllowedFacts
     DEF TypeOK, VersionInv, FallbackProtected, OneActive, CompleteRotation,
         CasHolds, LoadedStillHolds
<1>4. FallbackBefore'
  BY <1>1, MaxVersionsAssumption, AllowedFacts
     DEF TypeOK, VersionInv, FallbackBefore, CompleteRotation, CasHolds,
         LoadedStillHolds
<1>5. UnpromotedIsStaged'
  BY <1>1, MaxVersionsAssumption, AllowedFacts
     DEF TypeOK, VersionInv, UnpromotedIsStaged, CompleteRotation, CasHolds,
         LoadedStillHolds
<1>6. NewVersionOrNewer'
  BY <1>1, MaxVersionsAssumption, AllowedFacts
     DEF TypeOK, VersionInv, NewVersionOrNewer, CompleteRotation, CasHolds,
         LoadedStillHolds
<1>7. OverlapProtected'
  BY <1>1, MaxVersionsAssumption, AllowedFacts
     DEF TypeOK, VersionInv, OverlapProtected, FallbackProtected,
         CompleteRotation, CasHolds, LoadedStillHolds
<1>8. OverlapSuperseded'
  BY <1>1, MaxVersionsAssumption, AllowedFacts
     DEF TypeOK, VersionInv, OverlapSuperseded, CompleteRotation, CasHolds,
         LoadedStillHolds
<1>9. CandidatesOutranked'
  BY <1>1, MaxVersionsAssumption, AllowedFacts
     DEF TypeOK, VersionInv, CandidatesOutranked, CompleteRotation, CasHolds,
         LoadedStillHolds
<1>10. AlwaysServable'
  BY <1>1, MaxVersionsAssumption, AllowedFacts
     DEF TypeOK, VersionInv, AlwaysServable, CompleteRotation, CasHolds,
         LoadedStillHolds
<1> QED  BY <1>2, <1>3, <1>4, <1>5, <1>6, <1>7, <1>8, <1>9, <1>10 DEF VersionInv

\* promoteRotation keeps every conjunct of VersionInv.
LEMMA PromoteRotationVersions ==
  ASSUME IndInv, PromoteRotation
  PROVE  VersionInv'
<1> USE DEF Active, ActiveStatuses, Live, Servable, Created, Versions,
        versionRows, rotationRows
<1>1. TypeOK /\ VersionInv /\ LoadedStillHolds
  BY DEF IndInv
<1>2. OneActive'
  BY <1>1, MaxVersionsAssumption, AllowedFacts
     DEF TypeOK, VersionInv, OneActive, PromoteRotation, CasHolds,
         LoadedStillHolds
<1>3. FallbackProtected'
  BY <1>1, MaxVersionsAssumption, AllowedFacts
     DEF TypeOK, VersionInv, FallbackProtected, PromoteRotation, CasHolds,
         LoadedStillHolds
<1>4. FallbackBefore'
  BY <1>1, MaxVersionsAssumption, AllowedFacts
     DEF TypeOK, VersionInv, FallbackBefore, PromoteRotation, CasHolds,
         LoadedStillHolds
<1>5. UnpromotedIsStaged'
  BY <1>1, MaxVersionsAssumption, AllowedFacts
     DEF TypeOK, VersionInv, UnpromotedIsStaged, PromoteRotation, CasHolds,
         LoadedStillHolds
<1>6. NewVersionOrNewer'
  BY <1>1, MaxVersionsAssumption, AllowedFacts, SMTT(20)
     DEF TypeOK, VersionInv, NewVersionOrNewer, PromoteRotation, CasHolds,
         LoadedStillHolds
<1>7. OverlapProtected'
  BY <1>1, MaxVersionsAssumption, AllowedFacts
     DEF TypeOK, VersionInv, OverlapProtected, PromoteRotation, CasHolds,
         LoadedStillHolds
<1>8. OverlapSuperseded'
  BY PromoteOverlap
<1>9. CandidatesOutranked'
  BY <1>1, MaxVersionsAssumption, AllowedFacts
     DEF TypeOK, VersionInv, CandidatesOutranked, PromoteRotation, CasHolds,
         LoadedStillHolds
<1>10. AlwaysServable'
  BY <1>1, MaxVersionsAssumption, AllowedFacts
     DEF TypeOK, VersionInv, AlwaysServable, PromoteRotation, CasHolds,
         LoadedStillHolds
<1> QED  BY <1>2, <1>3, <1>4, <1>5, <1>6, <1>7, <1>8, <1>9, <1>10 DEF VersionInv

\* retireRotation keeps every conjunct of VersionInv.
LEMMA RetireRotationVersions ==
  ASSUME IndInv, RetireRotation
  PROVE  VersionInv'
<1> USE DEF Active, ActiveStatuses, Live, Servable, Created, Versions,
        versionRows, rotationRows
<1>1. TypeOK /\ VersionInv /\ LoadedStillHolds
  BY DEF IndInv
<1>2. OneActive'
  BY <1>1, MaxVersionsAssumption, AllowedFacts
     DEF TypeOK, VersionInv, OneActive, RetireRotation, CasHolds,
         LoadedStillHolds
<1>3. FallbackProtected'
  BY <1>1, MaxVersionsAssumption, AllowedFacts
     DEF TypeOK, VersionInv, FallbackProtected, OneActive, RetireRotation,
         CasHolds, LoadedStillHolds
<1>4. FallbackBefore'
  BY <1>1, MaxVersionsAssumption, AllowedFacts
     DEF TypeOK, VersionInv, FallbackBefore, RetireRotation, CasHolds,
         LoadedStillHolds
<1>5. UnpromotedIsStaged'
  BY <1>1, MaxVersionsAssumption, AllowedFacts
     DEF TypeOK, VersionInv, UnpromotedIsStaged, RetireRotation, CasHolds,
         LoadedStillHolds
<1>6. NewVersionOrNewer'
  BY <1>1, MaxVersionsAssumption, AllowedFacts
     DEF TypeOK, VersionInv, NewVersionOrNewer, OneActive, RetireRotation,
         CasHolds, LoadedStillHolds
<1>7. OverlapProtected'
  BY <1>1, MaxVersionsAssumption, AllowedFacts
     DEF TypeOK, VersionInv, OverlapProtected, FallbackProtected,
         RetireRotation, CasHolds, LoadedStillHolds
<1>8. OverlapSuperseded'
  BY RetireOverlap
<1>9. CandidatesOutranked'
  BY RetireOutranked
<1>10. AlwaysServable'
  BY RetireServable
<1> QED  BY <1>2, <1>3, <1>4, <1>5, <1>6, <1>7, <1>8, <1>9, <1>10 DEF VersionInv

\* resumeRotation keeps every conjunct of VersionInv.
LEMMA ResumeRotationVersions ==
  ASSUME IndInv, ResumeRotation
  PROVE  VersionInv'
<1> USE DEF Active, ActiveStatuses, Live, Servable, Created, Versions,
        versionRows, rotationRows
<1>1. TypeOK /\ VersionInv /\ LoadedStillHolds
  BY DEF IndInv
<1>2. OneActive'
  BY <1>1, MaxVersionsAssumption, AllowedFacts
     DEF TypeOK, VersionInv, OneActive, ResumeRotation, CasHolds,
         LoadedStillHolds
<1>3. FallbackProtected'
  BY <1>1, MaxVersionsAssumption, AllowedFacts
     DEF TypeOK, VersionInv, FallbackProtected, ResumeRotation, CasHolds,
         LoadedStillHolds
<1>4. FallbackBefore'
  BY <1>1, MaxVersionsAssumption, AllowedFacts
     DEF TypeOK, VersionInv, FallbackBefore, ResumeRotation, CasHolds,
         LoadedStillHolds
<1>5. UnpromotedIsStaged'
  BY <1>1, MaxVersionsAssumption, AllowedFacts
     DEF TypeOK, VersionInv, UnpromotedIsStaged, ResumeRotation, CasHolds,
         LoadedStillHolds
<1>6. NewVersionOrNewer'
  BY <1>1, MaxVersionsAssumption, AllowedFacts
     DEF TypeOK, VersionInv, NewVersionOrNewer, ResumeRotation, CasHolds,
         LoadedStillHolds
<1>7. OverlapProtected'
  BY <1>1, MaxVersionsAssumption, AllowedFacts
     DEF TypeOK, VersionInv, OverlapProtected, ResumeRotation, CasHolds,
         LoadedStillHolds
<1>8. OverlapSuperseded'
  BY <1>1, MaxVersionsAssumption, AllowedFacts
     DEF TypeOK, VersionInv, OverlapSuperseded, ResumeRotation, CasHolds,
         LoadedStillHolds
<1>9. CandidatesOutranked'
  BY <1>1, MaxVersionsAssumption, AllowedFacts
     DEF TypeOK, VersionInv, CandidatesOutranked, ResumeRotation, CasHolds,
         LoadedStillHolds
<1>10. AlwaysServable'
  BY <1>1, MaxVersionsAssumption, AllowedFacts
     DEF TypeOK, VersionInv, AlwaysServable, ResumeRotation, CasHolds,
         LoadedStillHolds
<1> QED  BY <1>2, <1>3, <1>4, <1>5, <1>6, <1>7, <1>8, <1>9, <1>10 DEF VersionInv

\* abandonRotation keeps every conjunct of VersionInv.
LEMMA AbandonRotationVersions ==
  ASSUME IndInv, AbandonRotation
  PROVE  VersionInv'
<1> USE DEF Active, ActiveStatuses, Live, Servable, Created, Versions,
        versionRows, rotationRows
<1>1. TypeOK /\ VersionInv /\ LoadedStillHolds
  BY DEF IndInv
<1>2. OneActive'
  BY <1>1, MaxVersionsAssumption, AllowedFacts
     DEF TypeOK, VersionInv, OneActive, AbandonRotation, CasHolds,
         LoadedStillHolds
<1>3. FallbackProtected'
  BY <1>1, MaxVersionsAssumption, AllowedFacts
     DEF TypeOK, VersionInv, FallbackProtected, OneActive, FallbackBefore,
         AbandonRotation, CasHolds, LoadedStillHolds
<1>4. FallbackBefore'
  BY <1>1, MaxVersionsAssumption, AllowedFacts
     DEF TypeOK, VersionInv, FallbackBefore, AbandonRotation, CasHolds,
         LoadedStillHolds
<1>5. UnpromotedIsStaged'
  BY <1>1, MaxVersionsAssumption, AllowedFacts
     DEF TypeOK, VersionInv, UnpromotedIsStaged, AbandonRotation, CasHolds,
         LoadedStillHolds
<1>6. NewVersionOrNewer'
  BY <1>1, MaxVersionsAssumption, AllowedFacts
     DEF TypeOK, VersionInv, NewVersionOrNewer, OneActive, AbandonRotation,
         CasHolds, LoadedStillHolds
<1>7. OverlapProtected'
  BY <1>1, MaxVersionsAssumption, AllowedFacts
     DEF TypeOK, VersionInv, OverlapProtected, FallbackProtected,
         AbandonRotation, CasHolds, LoadedStillHolds
<1>8. OverlapSuperseded'
  BY AbandonOverlap
<1>9. CandidatesOutranked'
  BY AbandonOutranked
<1>10. AlwaysServable'
  BY AbandonServable
<1> QED  BY <1>2, <1>3, <1>4, <1>5, <1>6, <1>7, <1>8, <1>9, <1>10 DEF VersionInv

\* The overlap worker keeps every conjunct of VersionInv.
LEMMA ExpireOverlapVersions ==
  ASSUME IndInv, NEW v \in Versions, ExpireOverlap(v)
  PROVE  VersionInv'
<1> USE DEF Active, ActiveStatuses, Live, Servable, Created, Versions,
        versionRows, rotationRows
<1>1. TypeOK /\ VersionInv
  BY DEF IndInv
<1>2. OneActive'
  BY <1>1, MaxVersionsAssumption
     DEF TypeOK, VersionInv, OneActive, ExpireOverlap
<1>3. FallbackProtected'
  BY <1>1, MaxVersionsAssumption
     DEF TypeOK, VersionInv, FallbackProtected, ExpireOverlap
<1>4. FallbackBefore'
  BY <1>1, MaxVersionsAssumption
     DEF TypeOK, VersionInv, FallbackBefore, ExpireOverlap
<1>5. UnpromotedIsStaged'
  BY <1>1, MaxVersionsAssumption
     DEF TypeOK, VersionInv, UnpromotedIsStaged, ExpireOverlap
<1>6. NewVersionOrNewer'
  BY <1>1, MaxVersionsAssumption
     DEF TypeOK, VersionInv, NewVersionOrNewer, ExpireOverlap
<1>7. OverlapProtected'
  BY <1>1, MaxVersionsAssumption
     DEF TypeOK, VersionInv, OverlapProtected, ExpireOverlap
<1>8. OverlapSuperseded'
  BY <1>1, MaxVersionsAssumption
     DEF TypeOK, VersionInv, OverlapSuperseded, ExpireOverlap
<1>9. CandidatesOutranked'
  BY <1>1, MaxVersionsAssumption
     DEF TypeOK, VersionInv, CandidatesOutranked, ExpireOverlap
<1>10. AlwaysServable'
  BY <1>1, MaxVersionsAssumption
     DEF TypeOK, VersionInv, AlwaysServable, ExpireOverlap
<1> QED  BY <1>2, <1>3, <1>4, <1>5, <1>6, <1>7, <1>8, <1>9, <1>10 DEF VersionInv

\* The recovery worker keeps every conjunct of VersionInv.
LEMMA RecoverStaleRotationVersions ==
  ASSUME IndInv, NEW r \in Versions, RecoverStaleRotation(r)
  PROVE  VersionInv'
<1> USE DEF Active, ActiveStatuses, Live, Servable, Created, Versions,
        versionRows, rotationRows
<1>1. TypeOK /\ VersionInv
  BY DEF IndInv
<1>2. OneActive'
  BY <1>1, MaxVersionsAssumption
     DEF TypeOK, VersionInv, OneActive, RecoverStaleRotation
<1>3. FallbackProtected'
  BY <1>1, MaxVersionsAssumption
     DEF TypeOK, VersionInv, FallbackProtected, RecoverStaleRotation
<1>4. FallbackBefore'
  BY <1>1, MaxVersionsAssumption
     DEF TypeOK, VersionInv, FallbackBefore, RecoverStaleRotation
<1>5. UnpromotedIsStaged'
  BY <1>1, MaxVersionsAssumption
     DEF TypeOK, VersionInv, UnpromotedIsStaged, RecoverStaleRotation
<1>6. NewVersionOrNewer'
  BY <1>1, MaxVersionsAssumption
     DEF TypeOK, VersionInv, NewVersionOrNewer, RecoverStaleRotation
<1>7. OverlapProtected'
  BY <1>1, MaxVersionsAssumption
     DEF TypeOK, VersionInv, OverlapProtected, RecoverStaleRotation
<1>8. OverlapSuperseded'
  BY <1>1, MaxVersionsAssumption
     DEF TypeOK, VersionInv, OverlapSuperseded, RecoverStaleRotation
<1>9. CandidatesOutranked'
  BY <1>1, MaxVersionsAssumption
     DEF TypeOK, VersionInv, CandidatesOutranked, RecoverStaleRotation
<1>10. AlwaysServable'
  BY <1>1, MaxVersionsAssumption
     DEF TypeOK, VersionInv, AlwaysServable, RecoverStaleRotation
<1> QED  BY <1>2, <1>3, <1>4, <1>5, <1>6, <1>7, <1>8, <1>9, <1>10 DEF VersionInv

\* The retention worker's scan keeps every conjunct of VersionInv.
LEMMA PruneScanVersions ==
  ASSUME IndInv, PruneScan
  PROVE  VersionInv'
<1> USE DEF Active, ActiveStatuses, Live, Servable, Created, Versions,
        versionRows, rotationRows
<1>1. TypeOK /\ VersionInv
  BY DEF IndInv
<1>2. OneActive'
  BY <1>1, MaxVersionsAssumption
     DEF TypeOK, VersionInv, OneActive, PruneScan
<1>3. FallbackProtected'
  BY <1>1, MaxVersionsAssumption
     DEF TypeOK, VersionInv, FallbackProtected, PruneScan
<1>4. FallbackBefore'
  BY PruneScanFallback
<1>5. UnpromotedIsStaged'
  BY <1>1, MaxVersionsAssumption
     DEF TypeOK, VersionInv, UnpromotedIsStaged, PruneScan
<1>6. NewVersionOrNewer'
  BY <1>1, MaxVersionsAssumption
     DEF TypeOK, VersionInv, NewVersionOrNewer, PruneScan
<1>7. OverlapProtected'
  BY <1>1, MaxVersionsAssumption
     DEF TypeOK, VersionInv, OverlapProtected, PruneScan
<1>8. OverlapSuperseded'
  BY <1>1, MaxVersionsAssumption
     DEF TypeOK, VersionInv, OverlapSuperseded, PruneScan
<1>9. CandidatesOutranked'
  BY PruneScanOutranked
<1>10. AlwaysServable'
  BY <1>1, MaxVersionsAssumption
     DEF TypeOK, VersionInv, AlwaysServable, PruneScan
<1> QED  BY <1>2, <1>3, <1>4, <1>5, <1>6, <1>7, <1>8, <1>9, <1>10 DEF VersionInv

\* The retention worker's purge keeps every conjunct of VersionInv.
LEMMA PrunePurgeVersions ==
  ASSUME IndInv, PrunePurge
  PROVE  VersionInv'
<1> USE DEF Active, ActiveStatuses, Live, Servable, Created, Versions,
        versionRows, rotationRows
<1>1. TypeOK /\ VersionInv
  BY DEF IndInv
<1>2. OneActive'
  BY <1>1, MaxVersionsAssumption
     DEF TypeOK, VersionInv, OneActive, PrunePurge
<1>3. FallbackProtected'
  BY <1>1, MaxVersionsAssumption
     DEF TypeOK, VersionInv, FallbackProtected, PrunePurge
<1>4. FallbackBefore'
  BY <1>1, MaxVersionsAssumption
     DEF TypeOK, VersionInv, FallbackBefore, PrunePurge
<1>5. UnpromotedIsStaged'
  BY <1>1, MaxVersionsAssumption
     DEF TypeOK, VersionInv, UnpromotedIsStaged, PrunePurge
<1>6. NewVersionOrNewer'
  BY <1>1, MaxVersionsAssumption
     DEF TypeOK, VersionInv, NewVersionOrNewer, CandidatesOutranked,
         PrunePurge
<1>7. OverlapProtected'
  BY <1>1, MaxVersionsAssumption
     DEF TypeOK, VersionInv, OverlapProtected, PrunePurge
<1>8. OverlapSuperseded'
  BY PurgeOverlap
<1>9. CandidatesOutranked'
  BY <1>1, MaxVersionsAssumption
     DEF TypeOK, VersionInv, CandidatesOutranked, PrunePurge
<1>10. AlwaysServable'
  BY <1>1, MaxVersionsAssumption
     DEF TypeOK, VersionInv, AlwaysServable, CandidatesOutranked, PrunePurge
<1> QED  BY <1>2, <1>3, <1>4, <1>5, <1>6, <1>7, <1>8, <1>9, <1>10 DEF VersionInv

\* The retention worker's rollback keeps every conjunct of VersionInv.
LEMMA PruneRollbackVersions ==
  ASSUME IndInv, PruneRollback
  PROVE  VersionInv'
<1> USE DEF Active, ActiveStatuses, Live, Servable, Created, Versions,
        versionRows, rotationRows
<1>1. TypeOK /\ VersionInv
  BY DEF IndInv
<1>2. OneActive'
  BY <1>1, MaxVersionsAssumption
     DEF TypeOK, VersionInv, OneActive, PruneRollback
<1>3. FallbackProtected'
  BY <1>1, MaxVersionsAssumption
     DEF TypeOK, VersionInv, FallbackProtected, PruneRollback
<1>4. FallbackBefore'
  BY <1>1, MaxVersionsAssumption
     DEF TypeOK, VersionInv, FallbackBefore, PruneRollback
<1>5. UnpromotedIsStaged'
  BY <1>1, MaxVersionsAssumption
     DEF TypeOK, VersionInv, UnpromotedIsStaged, PruneRollback
<1>6. NewVersionOrNewer'
  BY <1>1, MaxVersionsAssumption
     DEF TypeOK, VersionInv, NewVersionOrNewer, PruneRollback
<1>7. OverlapProtected'
  BY <1>1, MaxVersionsAssumption
     DEF TypeOK, VersionInv, OverlapProtected, PruneRollback
<1>8. OverlapSuperseded'
  BY <1>1, MaxVersionsAssumption
     DEF TypeOK, VersionInv, OverlapSuperseded, PruneRollback
<1>9. CandidatesOutranked'
  BY <1>1, MaxVersionsAssumption
     DEF TypeOK, VersionInv, CandidatesOutranked, PruneRollback
<1>10. AlwaysServable'
  BY <1>1, MaxVersionsAssumption
     DEF TypeOK, VersionInv, AlwaysServable, PruneRollback
<1> QED  BY <1>2, <1>3, <1>4, <1>5, <1>6, <1>7, <1>8, <1>9, <1>10 DEF VersionInv

\* Every step keeps VersionInv.
LEMMA VersionPreserved ==
  ASSUME IndInv, [Next]_vars
  PROVE  VersionInv'
<1>1. CASE RowsUnchanged
  BY <1>1, RowsFrame DEF IndInv
<1>2. CASE RowsWritten
  BY <1>2, AddVersionInsertVersions, InitiateRotationVersions,
     BreakGlassRotationVersions, CompleteRotationVersions,
     PromoteRotationVersions, RetireRotationVersions, ResumeRotationVersions,
     AbandonRotationVersions, ExpireOverlapVersions,
     RecoverStaleRotationVersions, PruneScanVersions, PrunePurgeVersions,
     PruneRollbackVersions, Zenon DEF RowsWritten
<1> QED  BY <1>1, <1>2, NextCases

-----------------------------------------------------------------------------
(* Action properties. *)

\* A step that changes the status of a rotation follows the state machine.
LEMMA TransitionStep ==
  ASSUME IndInv, [Next]_vars, NEW r \in Versions, status'[r] # status[r]
  PROVE  <<status[r], status'[r]>> \in Transitions
<1>1. TypeOK /\ LoadedStillHolds /\ OneActive
  BY DEF IndInv, VersionInv
<1>2. ASSUME NEW S \in SUBSET Deps, InitiateRotation(S)
      PROVE  <<status[r], status'[r]>> \in Transitions
  <2>1. r = lastVersion + 1 /\ status'[r] = "staged"
    BY <1>1, <1>2, RowFacts DEF InitiateRotation, Versions
  <2> QED  BY <1>1, <2>1, RowFacts DEF OneActive, Transitions
<1>3. CASE BreakGlassRotation
  <2>1. CASE r = lastVersion + 1
    BY <1>1, <1>3, <2>1, RowFacts DEF BreakGlassRotation, OneActive, Transitions
  <2>2. CASE r # lastVersion + 1
    <3>1. r \in Superseded /\ status'[r] = "abandoned"
      BY <1>3, <2>2 DEF BreakGlassRotation
    <3> QED  BY <1>3, <3>1
                DEF BreakGlassRotation, Superseded, Active, ActiveStatuses,
                    Transitions
  <2> QED  BY <2>1, <2>2
<1>4. CASE \/ CompleteRotation \/ PromoteRotation \/ RetireRotation
           \/ ResumeRotation \/ AbandonRotation
  <2>1. r = op.rotation
    BY <1>1, <1>4, RowFacts
       DEF CompleteRotation, PromoteRotation, RetireRotation,
       ResumeRotation, AbandonRotation, Versions
  <2>2. status[r] \in AllowedStatuses(op.kind)
    BY <1>1, <1>4, <2>1 DEF CompleteRotation, PromoteRotation, RetireRotation,
       ResumeRotation, AbandonRotation, CasHolds, LoadedStillHolds
  <2> QED  BY <1>1, <1>4, <2>1, <2>2, AllowedFacts, RowFacts
       DEF CompleteRotation, PromoteRotation, RetireRotation,
           ResumeRotation, AbandonRotation, CasHolds, Transitions, Versions
<1>5. ASSUME NEW q \in Versions, RecoverStaleRotation(q)
      PROVE  <<status[r], status'[r]>> \in Transitions
  BY <1>1, <1>5, RowFacts DEF RecoverStaleRotation, Transitions, Versions
<1>6. \/ AddVersionCheck \/ AddVersionInsert \/ AddVersionRejected
      \/ ArchiveCredential \/ UnarchiveCredential
      \/ \E kind \in RotationOps, q \in Versions : LoadRotation(kind, q)
      \/ \E kind \in ItemOps, q \in Versions, d \in Deps : LoadItem(kind, q, d)
      \/ ConfirmChecklistItem \/ FailChecklistItem \/ RetryChecklistItem
      \/ CasLost \/ RollBack \/ \E q \in Versions \cup {0} : RefuseUnderLock(q)
      \/ PruneScan \/ PrunePurge \/ PruneRollback \/ Environment
      \/ \E v \in Versions : ExpireOverlap(v)
      \/ \E q \in Versions : AlertStaleStaged(q)
      \/ UNCHANGED vars
      => status' = status
  BY DEF AddVersionCheck, AddVersionInsert, AddVersionRejected,
         ArchiveCredential,
         UnarchiveCredential, LoadRotation, LoadItem,
         ConfirmChecklistItem, FailChecklistItem, RetryChecklistItem,
         UpdateItem, CasLost, RollBack, RefuseUnderLock,
         PruneScan, PrunePurge, PruneRollback, Environment, ExpireOverlap,
         AlertStaleStaged,
         IdempotencyWindowEnds, OverlapElapses, vars, versionRows, rotationRows
<1> QED  BY <1>2, <1>3, <1>4, <1>5, <1>6, Zenon
            DEF Next, HumanOperation, CompleteOperation, Worker

\* What GivenUpStaysGivenUp says of one step.
GivenUpStep ==
  /\ \A v \in abandoned : promotedAt'[v] = promotedAt[v]
  /\ abandoned \subseteq abandoned' /\ purged \subseteq purged'

\* Every step leaves given-up and purged versions given up and purged.
LEMMA GivenUpPreserved ==
  ASSUME IndInv, [Next]_vars
  PROVE  GivenUpStep
<1>1. TypeOK /\ LoadedStillHolds /\ NewVersionOrNewer
  BY DEF IndInv, VersionInv
<1>2. CASE AddVersionInsert \/ BreakGlassRotation
  <2>1. lastVersion + 1 \notin abandoned
    BY <1>1, RowFacts
  <2> QED  BY <1>1, <1>2, <2>1, RowFacts
              DEF AddVersionInsert, BreakGlassRotation, GivenUpStep
<1>3. CASE PromoteRotation
  <2>1. op.rotation \notin abandoned
    BY <1>1, <1>3, AllowedAreActive
       DEF PromoteRotation, CasHolds, NewVersionOrNewer, Active
  <2> QED  BY <1>1, <1>3, <2>1, RowFacts DEF PromoteRotation, GivenUpStep
<1>4. CASE /\ promotedAt' = promotedAt
           /\ abandoned \subseteq abandoned' /\ purged \subseteq purged'
  BY <1>4 DEF GivenUpStep
<1>5. ASSUME NEW S \in SUBSET Deps, InitiateRotation(S) PROVE GivenUpStep
  BY <1>4, <1>5 DEF InitiateRotation
<1>6. CASE CompleteRotation \/ RetireRotation \/ ResumeRotation \/ AbandonRotation \/ PrunePurge
  BY <1>4, <1>6
     DEF CompleteRotation, RetireRotation, ResumeRotation, AbandonRotation,
                    PrunePurge, versionRows
<1>7. ASSUME NEW v \in Versions, ExpireOverlap(v) \/ OverlapElapses(v) PROVE GivenUpStep
  BY <1>4, <1>7 DEF ExpireOverlap, OverlapElapses
<1>8. ASSUME NEW r \in Versions, RecoverStaleRotation(r) \/ AlertStaleStaged(r) PROVE GivenUpStep
  BY <1>4, <1>8 DEF RecoverStaleRotation, AlertStaleStaged, versionRows
<1>9. \/ AddVersionCheck \/ AddVersionRejected
      \/ ArchiveCredential \/ UnarchiveCredential
      \/ \E kind \in RotationOps, r \in Versions : LoadRotation(kind, r)
      \/ \E kind \in ItemOps, r \in Versions, d \in Deps : LoadItem(kind, r, d)
      \/ ConfirmChecklistItem \/ FailChecklistItem \/ RetryChecklistItem
      \/ CasLost \/ RollBack \/ \E q \in Versions \cup {0} : RefuseUnderLock(q)
      \/ PruneScan \/ PruneRollback \/ IdempotencyWindowEnds
      \/ UNCHANGED vars
      => UNCHANGED <<promotedAt, abandoned, purged>>
  BY DEF AddVersionCheck, AddVersionRejected, ArchiveCredential,
         UnarchiveCredential, LoadRotation, LoadItem,
         ConfirmChecklistItem, FailChecklistItem, RetryChecklistItem,
         UpdateItem, CasLost, RollBack, RefuseUnderLock,
         PruneScan, PruneRollback, IdempotencyWindowEnds, vars, versionRows
<1>10. UNCHANGED <<promotedAt, abandoned, purged>> => GivenUpStep
  BY <1>4
<1> QED  BY <1>2, <1>3, <1>5, <1>6, <1>7, <1>8, <1>9, <1>10, Zenon
            DEF Next, HumanOperation, CompleteOperation, Worker, Environment

-----------------------------------------------------------------------------
(* The theorems. *)

\* The initial states satisfy the rest of the inductive invariant.
LEMMA InitVersion ==
  ASSUME Init
  PROVE  VersionInv /\ LoadedStillHolds /\ ArchivedHasNoActiveRotation
<1> USE MaxVersionsAssumption DEF Created, Versions, ActiveStatuses, Active, Live, Servable
<1>1. LoadedStillHolds /\ ArchivedHasNoActiveRotation
  BY DEF Init, NoOp, LoadedStillHolds, ArchivedHasNoActiveRotation
<1>2. CASE FreshCredential
  <2>1. Created = {1} /\ \A r \in Versions : ~Active(r) /\ status[r] = "none"
    BY <1>2 DEF FreshCredential
  <2>2. Servable(1)
    BY <1>2, <2>1 DEF Init, FreshCredential
  <2>3. overlap = {} /\ pruneCandidates = {} /\ lastVersion = 1
    BY <1>2 DEF Init, FreshCredential
  <2>4. OneActive /\ FallbackProtected /\ FallbackBefore /\ NewVersionOrNewer
    BY <2>1, <2>3
       DEF OneActive, FallbackProtected, FallbackBefore, NewVersionOrNewer
  <2>5. UnpromotedIsStaged /\ AlwaysServable
    BY <2>1, <2>2 DEF UnpromotedIsStaged, AlwaysServable
  <2>6. OverlapProtected /\ OverlapSuperseded /\ CandidatesOutranked
    BY <2>3 DEF OverlapProtected, OverlapSuperseded, CandidatesOutranked
  <2> QED  BY <1>1, <2>4, <2>5, <2>6 DEF VersionInv
<1>3. CASE MigratedStaleRotation
  <2>1. Created = {1, 2} /\ \A r \in Versions : Active(r) <=> r = 2
    BY <1>3 DEF MigratedStaleRotation
  <2>2. Servable(1) /\ Servable(2)
    BY <1>3, <2>1 DEF Init, MigratedStaleRotation
  <2>3. previousVersion[2] = 1 /\ \A r \in Versions : r > 2 => status[r] = "none"
    BY <1>3 DEF MigratedStaleRotation
  <2>4. lastVersion = 2 /\ abandoned = {} /\ purged = {} /\ overlap = {} /\ rotationLocked = {1} /\ pruneCandidates = {}
    BY <1>3 DEF Init, MigratedStaleRotation
  <2>5. OneActive /\ FallbackProtected
    BY <2>1, <2>2, <2>3, <2>4 DEF OneActive, FallbackProtected
  <2>6. FallbackBefore
    BY <2>1, <2>3, <2>4 DEF FallbackBefore
  <2>7. UnpromotedIsStaged /\ NewVersionOrNewer
    BY <2>1, <2>2, <2>4 DEF UnpromotedIsStaged, NewVersionOrNewer
  <2>8. OverlapProtected /\ OverlapSuperseded /\ CandidatesOutranked /\ AlwaysServable
    BY <2>1, <2>2, <2>4
       DEF OverlapProtected, OverlapSuperseded, CandidatesOutranked,
           AlwaysServable
  <2> QED  BY <1>1, <2>5, <2>6, <2>7, <2>8 DEF VersionInv
<1> QED  BY <1>1, <1>2, <1>3 DEF Init

\* The inductive invariant holds in every reachable state of every instance:
\* any set of dependencies, any number of versions, any retry limit and any
\* retention count.
THEOREM InductiveInvariant == Spec => []IndInv
<1>1. Init => IndInv
  BY InitType, InitVersion DEF IndInv
<1>2. IndInv /\ [Next]_vars => IndInv'
  BY TypePreserved, VersionPreserved, LoadedPreserved, ArchivedPreserved
     DEF IndInv
<1> QED  BY <1>1, <1>2, PTL DEF Spec

\* Every column keeps its type, and no retry count passes ROTATION_MAX_RETRIES.
THEOREM TypeCorrect == Spec => []TypeOK
<1>1. IndInv => TypeOK
  BY DEF IndInv
<1> QED  BY <1>1, InductiveInvariant, PTL

\* However rotations, break-glass, retirement and the retention worker interleave,
\* revealCurrentValue finds a version to serve.
THEOREM CredentialAlwaysServable == Spec => []AlwaysServable
<1>1. IndInv => AlwaysServable
  BY DEF IndInv, VersionInv
<1> QED  BY <1>1, InductiveInvariant, PTL

\* The fallback of an active rotation is servable, locked against the retention
\* worker and in no overlap window.
THEOREM FallbackAlwaysProtected == Spec => []FallbackProtected
<1>1. IndInv => FallbackProtected
  BY DEF IndInv, VersionInv
<1> QED  BY <1>1, InductiveInvariant, PTL

\* A version in its break-glass overlap window is locked and not purged.
THEOREM OverlapAlwaysProtected == Spec => []OverlapProtected
<1>1. IndInv => OverlapProtected
  BY DEF IndInv, VersionInv
<1> QED  BY <1>1, InductiveInvariant, PTL

\* An archived credential has no active rotation.
THEOREM ArchivedIsQuiet == Spec => []ArchivedHasNoActiveRotation
<1>1. IndInv => ArchivedHasNoActiveRotation
  BY DEF IndInv
<1> QED  BY <1>1, InductiveInvariant, PTL

\* rotations.status moves only along its state machine, whatever loses its
\* compare-and-swap.
THEOREM StatusAlongGraph == Spec => StatusFollowsGraph
<1> DEFINE Step == \A r \in Versions :
              status'[r] # status[r] => <<status[r], status'[r]>> \in Transitions
<1>1. IndInv /\ [Next]_vars => [Step]_vars
  BY TransitionStep
<1> QED  BY <1>1, InductiveInvariant, PTL DEF Spec, StatusFollowsGraph

\* A version that was given up is never promoted, and a purge is final.
THEOREM GivenUpForGood == Spec => GivenUpStaysGivenUp
<1>1. IndInv /\ [Next]_vars => [GivenUpStep]_vars
  BY GivenUpPreserved
<1> QED  BY <1>1, InductiveInvariant, PTL
            DEF Spec, GivenUpStaysGivenUp, GivenUpStep

-----------------------------------------------------------------------------
(* The current version is not destroyed. *)

\* A version outranked by a servable one with a higher number is not current
\* while promotions follow the numbers.
LEMMA OutrankedNotCurrent ==
  ASSUME TypeOK, PromotedInOrder, NEW v \in Created, NEW w \in Created,
         Servable(v), Servable(w), v < w
  PROVE  ~IsCurrent(v)
<1>1. promotedAt[v] < promotedAt[w]
  BY DEF PromotedInOrder
<1>2. promotedAt[v] \in Nat /\ promotedAt[w] \in Nat
  BY RowFacts DEF Created
<1>3. ~(promotedAt[w] < promotedAt[v] \/ (promotedAt[w] = promotedAt[v] /\ w <= v))
  BY <1>1, <1>2
<1> QED  BY <1>3 DEF IsCurrent

\* No step purges the version that reveal returns at that moment, as long as
\* promotions follow the version numbers.
LEMMA CurrentKept ==
  ASSUME IndInv, [Next]_vars, PromotedInOrder, NEW v \in Created, IsCurrent(v)
  PROVE  v \notin purged'
<1>1. /\ TypeOK /\ OneActive /\ FallbackBefore /\ FallbackProtected /\ UnpromotedIsStaged
      /\ NewVersionOrNewer /\ CandidatesOutranked /\ LoadedStillHolds
  BY DEF IndInv, VersionInv
<1>2. Servable(v) /\ Live(v) /\ v \notin purged /\ v \in Nat
  BY <1>1, RowFacts DEF IsCurrent, Servable, Live, Created
<1>3. CASE RetireRotation
  <2> DEFINE r == op.rotation
  <2>1. r \in Created /\ Active(r) /\ status[r] = "promoted"
    BY <1>1, <1>3, AllowedFacts, AllowedAreActive DEF RetireRotation, CasHolds, LoadedStillHolds
  <2>2. purged' = purged \cup {previousVersion[r]}
    BY <1>3 DEF RetireRotation
  <2>3. /\ previousVersion[r] \in Created /\ previousVersion[r] < r /\ Servable(previousVersion[r])
        /\ promotedAt[r] # 0 /\ r \notin abandoned
        /\ r \in purged => \E w \in Created : w > r /\ Servable(w)
    BY <1>1, <2>1 DEF FallbackBefore, FallbackProtected, UnpromotedIsStaged, NewVersionOrNewer
  <2> HIDE DEF r
  <2>4. \E w \in Created : previousVersion[r] < w /\ Servable(w)
    <3>1. CASE r \in purged
      <4>1. PICK w \in Created : w > r /\ Servable(w)
        BY <2>3, <3>1
      <4>2. previousVersion[r] < w
        BY <1>1, <2>1, <2>3, <4>1, RowFacts DEF Created
      <4> QED  BY <4>1, <4>2
    <3>2. CASE r \notin purged
      BY <2>1, <2>3, <3>2 DEF Servable, Live
    <3> QED  BY <3>1, <3>2
  <2>5. v # previousVersion[r]
    BY <1>1, <2>3, <2>4, OutrankedNotCurrent
  <2> QED  BY <1>2, <2>2, <2>5
<1>4. CASE PrunePurge
  <2>1. v \notin pruneCandidates
    <3> SUFFICES ASSUME v \in pruneCandidates PROVE FALSE
      OBVIOUS
    <3>1. PICK w \in Created : w > v /\ Servable(w)
      BY <1>1, <1>2 DEF CandidatesOutranked
    <3>2. v < w
      BY <1>1, <1>2, <3>1, RowFacts DEF Created
    <3> QED  BY <1>1, <1>2, <3>1, <3>2, OutrankedNotCurrent
  <2> QED  BY <1>2, <1>4, <2>1 DEF PrunePurge
<1>5. RowsUnchanged => UNCHANGED purged
  BY DEF RowsUnchanged
<1>6. RowsWritten => RetireRotation \/ PrunePurge \/ UNCHANGED purged
  BY DEF RowsWritten, AddVersionInsert, InitiateRotation, BreakGlassRotation, CompleteRotation,
         PromoteRotation, ResumeRotation, AbandonRotation, ExpireOverlap, RecoverStaleRotation,
         PruneScan, PruneRollback, versionRows
<1> QED  BY <1>2, <1>3, <1>4, <1>5, <1>6, NextCases

\* Reveal's answer survives every step, while promotions follow the numbers.
THEOREM CurrentKeptInOrder == Spec => CurrentNotPurgedInOrder
<1> DEFINE Step == PromotedInOrder => \A v \in Created : IsCurrent(v) => v \notin purged'
<1>1. IndInv /\ [Next]_vars => [Step]_vars
  BY CurrentKept
<1> QED  BY <1>1, InductiveInvariant, PTL DEF Spec, CurrentNotPurgedInOrder

-----------------------------------------------------------------------------
(* CredentialRotation implements RotationSpec.  What RotationRefinement maps *)
(* its variables to.                                                        *)

Served == {v \in Created : Servable(v)}
Waiting == {v \in Created : Live(v) /\ promotedAt[v] = 0}
Changes == {[old |-> previousVersion[r], new |-> r] : r \in {q \in Created : Active(q)}}

\* A version number that was not given out yet carries no promotion.
FutureUnpromoted == \A v \in Versions : v > lastVersion => promotedAt[v] = 0
PromiseInv == IndInv /\ FutureUnpromoted

\* Versions are numbered in the order of their insertion and promoted after it.
LEMMA FuturePreserved ==
  ASSUME IndInv, FutureUnpromoted, [Next]_vars
  PROVE  FutureUnpromoted'
<1>1. TypeOK /\ LoadedStillHolds
  BY DEF IndInv
<1>2. CASE UNCHANGED promotedAt /\ lastVersion' \in {lastVersion, lastVersion + 1}
  BY <1>1, <1>2, RowFacts DEF FutureUnpromoted, Versions
<1>3. CASE AddVersionInsert \/ BreakGlassRotation
  <2>1. /\ lastVersion' = lastVersion + 1
        /\ promotedAt' = [promotedAt EXCEPT ![lastVersion + 1] = clock + 1]
    BY <1>3 DEF AddVersionInsert, BreakGlassRotation
  <2> QED  BY <1>1, <2>1, RowFacts DEF FutureUnpromoted, Versions
<1>4. CASE PromoteRotation
  <2>1. op.rotation \in Created
    BY <1>1, <1>4 DEF PromoteRotation, CasHolds, LoadedStillHolds
  <2>2. /\ lastVersion' = lastVersion
        /\ promotedAt' = [promotedAt EXCEPT ![op.rotation] = clock + 1]
    BY <1>4 DEF PromoteRotation
  <2> QED  BY <1>1, <2>1, <2>2, RowFacts DEF FutureUnpromoted, Versions, Created
<1>5. RowsUnchanged => UNCHANGED <<promotedAt, lastVersion>>
  BY DEF RowsUnchanged
<1>6. RowsWritten =>
        \/ AddVersionInsert \/ BreakGlassRotation \/ PromoteRotation
        \/ UNCHANGED promotedAt /\ lastVersion' \in {lastVersion, lastVersion + 1}
  BY DEF RowsWritten, InitiateRotation, CompleteRotation, RetireRotation, ResumeRotation,
         AbandonRotation, ExpireOverlap, RecoverStaleRotation, PruneScan, PrunePurge,
         PruneRollback, versionRows
<1> QED  BY <1>2, <1>3, <1>4, <1>5, <1>6, NextCases

\* What is waiting for a promotion belongs to the active rotation, of which there
\* is at most one.
LEMMA ChangeUnderWay ==
  ASSUME IndInv, NEW r \in Created, Active(r)
  PROVE  /\ Superseded = {r}
         /\ Changes = {[old |-> previousVersion[r], new |-> r]}
         /\ Waiting \subseteq {r}
<1>1. OneActive /\ UnpromotedIsStaged
  BY DEF IndInv, VersionInv
<1>2. Superseded = {r}
  BY <1>1 DEF Superseded, OneActive
<1>3. Waiting \subseteq Superseded
  BY <1>1 DEF Waiting, Superseded, UnpromotedIsStaged
<1>4. Changes = {[old |-> previousVersion[q], new |-> q] : q \in Superseded}
  BY DEF Changes, Superseded
<1> QED  BY <1>2, <1>3, <1>4

\* Without an active rotation nothing waits and no change is under way.
LEMMA NoChange ==
  ASSUME IndInv, NoActiveRotation
  PROVE  Superseded = {} /\ Changes = {} /\ Waiting = {}
<1>1. UnpromotedIsStaged
  BY DEF IndInv, VersionInv
<1>2. Superseded = {}
  BY DEF Superseded, NoActiveRotation
<1>3. Changes = {}
  BY DEF Changes, NoActiveRotation
<1>4. Waiting = {}
  BY <1>1 DEF Waiting, UnpromotedIsStaged, NoActiveRotation
<1> QED  BY <1>2, <1>3, <1>4

\* A step that leaves what decides about a version alone leaves the view alone.
LEMMA ViewFrame ==
  ASSUME UNCHANGED <<lastVersion, promotedAt, abandoned, purged, previousVersion>>
  PROVE  /\ Served' = Served /\ Waiting' = Waiting
         /\ UNCHANGED status => Changes' = Changes
<1>1. Created' = Created
  BY DEF Created
<1>2. \A v : (Live(v)' <=> Live(v)) /\ (Servable(v)' <=> Servable(v))
  BY <1>1 DEF Live, Servable
<1>3. Served' = Served
  BY <1>1, <1>2 DEF Served
<1>4. Waiting' = Waiting
  BY <1>1, <1>2 DEF Waiting
<1>5. ASSUME UNCHANGED status PROVE Changes' = Changes
  BY <1>1, <1>5 DEF Changes, Active
<1> QED  BY <1>3, <1>4, <1>5

\* addCredentialVersion publishes.
LEMMA AddIsPublish ==
  ASSUME PromiseInv, AddVersionInsert
  PROVE  Promise!Publish
<1>1. TypeOK
  BY DEF PromiseInv, IndInv
<1>2. /\ lastVersion' = lastVersion + 1
      /\ promotedAt' = [promotedAt EXCEPT ![lastVersion + 1] = clock + 1]
      /\ UNCHANGED <<abandoned, purged, overlap, status, previousVersion>>
  BY DEF AddVersionInsert, rotationRows
<1>3. /\ Created' = Created \cup {lastVersion + 1} /\ lastVersion + 1 \notin Created
      /\ lastVersion + 1 \in Versions /\ clock + 1 # 0
      /\ lastVersion + 1 \notin purged /\ lastVersion + 1 \notin abandoned
      /\ promotedAt'[lastVersion + 1] = clock + 1
      /\ \A v \in Created : promotedAt'[v] = promotedAt[v]
  BY <1>1, <1>2, RowFacts DEF AddVersionInsert, Created, Versions
<1>4. Served' = Served \cup {lastVersion + 1}
  BY <1>2, <1>3 DEF Served, Servable, Live
<1>5. Waiting' = Waiting
  BY <1>2, <1>3 DEF Waiting, Live
<1>6. status[lastVersion + 1] = "none"
  BY <1>1, <1>3, RowFacts DEF PromiseInv, IndInv, VersionInv, OneActive
<1>7. Changes' = Changes
  BY <1>2, <1>3, <1>6 DEF Changes, Active, ActiveStatuses
<1> QED  BY <1>2, <1>4, <1>5, <1>7 DEF Promise!Publish, Served, Waiting, Changes

\* The values a change starts from and leads to are those of the active rotation.
LEMMA ChangeEnds ==
  /\ Promise!Olds = {previousVersion[r] : r \in Superseded}
  /\ Promise!NewOnes = Superseded
<1>1. Changes = {[old |-> previousVersion[r], new |-> r] : r \in Superseded}
  BY DEF Changes, Superseded
<1>2. Promise!Olds = {c.old : c \in Changes} /\ Promise!NewOnes = {c.new : c \in Changes}
  BY DEF Promise!Olds, Promise!NewOnes, Changes
<1> HIDE DEF Changes, Superseded
<1>3. {c.old : c \in Changes} = {previousVersion[r] : r \in Superseded}
  <2>1. \A x : x \in {c.old : c \in Changes} => x \in {previousVersion[r] : r \in Superseded}
    BY <1>1
  <2>2. ASSUME NEW r \in Superseded PROVE previousVersion[r] \in {c.old : c \in Changes}
    <3>1. [old |-> previousVersion[r], new |-> r] \in Changes
      BY <1>1
    <3> QED  BY <3>1
  <2> QED  BY <2>1, <2>2
<1>4. {c.new : c \in Changes} = Superseded
  <2>1. \A x : x \in {c.new : c \in Changes} => x \in Superseded
    BY <1>1
  <2>2. ASSUME NEW r \in Superseded PROVE r \in {c.new : c \in Changes}
    <3>1. [old |-> previousVersion[r], new |-> r] \in Changes
      BY <1>1
    <3> QED  BY <3>1
  <2> QED  BY <2>1, <2>2
<1> QED  BY <1>2, <1>3, <1>4

\* initiateRotation stages: the version it locks is one a caller can obtain.
LEMMA InitiateIsStage ==
  ASSUME PromiseInv, NEW S \in SUBSET Deps, InitiateRotation(S)
  PROVE  Promise!Stage
<1>1. TypeOK /\ UnpromotedIsStaged /\ FutureUnpromoted /\ NoActiveRotation /\ IndInv
  BY DEF PromiseInv, IndInv, VersionInv, InitiateRotation
<1>2. PICK p \in Created :
        /\ IsToSupersede(p, Created)
        /\ previousVersion' = [previousVersion EXCEPT ![lastVersion + 1] = p]
  BY DEF InitiateRotation
<1>3. /\ lastVersion' = lastVersion + 1
      /\ status' = [status EXCEPT ![lastVersion + 1] = "staged"]
      /\ UNCHANGED <<promotedAt, abandoned, purged, overlap>>
  BY DEF InitiateRotation
<1>4. /\ Created' = Created \cup {lastVersion + 1} /\ lastVersion + 1 \notin Created
      /\ lastVersion + 1 \notin purged /\ lastVersion + 1 \notin abandoned
      /\ promotedAt[lastVersion + 1] = 0
      /\ status'[lastVersion + 1] = "staged"
      /\ previousVersion'[lastVersion + 1] = p
      /\ \A v \in Created : status'[v] = status[v]
  BY <1>1, <1>2, <1>3, RowFacts DEF InitiateRotation, Created, Versions, FutureUnpromoted
<1>5. Changes = {} /\ Waiting = {}
  BY <1>1, NoChange
<1>6. p \in Served
  BY <1>1, <1>2 DEF Served, Servable, IsToSupersede, UnpromotedIsStaged, NoActiveRotation
<1>7. Served' = Served
  BY <1>3, <1>4 DEF Served, Servable, Live
<1>8. Waiting' = {lastVersion + 1}
  BY <1>3, <1>4, <1>5 DEF Waiting, Live
<1>9. Changes' = {[old |-> p, new |-> lastVersion + 1]}
  <2>1. \A q : q \in Created' /\ Active(q)' <=> q = lastVersion + 1
    BY <1>1, <1>4 DEF Active, NoActiveRotation, ActiveStatuses
  <2>2. Superseded' = {lastVersion + 1}
    BY <2>1 DEF Superseded
  <2>3. Changes' = {[old |-> previousVersion'[q], new |-> q] : q \in Superseded'}
    BY DEF Changes, Superseded
  <2> QED  BY <1>4, <2>2, <2>3
<1> QED  BY <1>3, <1>5, <1>6, <1>7, <1>8, <1>9 DEF Promise!Stage, Served, Waiting, Changes

\* The rotation a writing operation finds is the one active rotation, as loaded.
LEMMA WrittenRotation ==
  ASSUME PromiseInv, NEW kind, CasHolds(kind)
  PROVE  /\ op.rotation \in Created /\ Active(op.rotation)
         /\ status[op.rotation] \in AllowedStatuses(kind)
         /\ op.rotation \in Versions
  BY AllowedAreActive, RowFacts
     DEF PromiseInv, IndInv, LoadedStillHolds, CasHolds, Created, Versions

\* A rotation that is no longer active leaves no change under way.
LEMMA ChangeOver ==
  ASSUME PromiseInv, NEW r \in Created, Active(r), NEW s \in FinalStatuses,
         status' = [status EXCEPT ![r] = s], UNCHANGED lastVersion
  PROVE  Changes' = {}
<1>1. OneActive /\ TypeOK
  BY DEF PromiseInv, IndInv, VersionInv
<1>2. \A q \in Created' : ~Active(q)'
  BY <1>1, RowFacts DEF Active, OneActive, Created, FinalStatuses, ActiveStatuses
<1> QED  BY <1>2 DEF Changes

\* promoteRotation promotes.
LEMMA PromoteIsPromote ==
  ASSUME PromiseInv, PromoteRotation
  PROVE  Promise!Promote
<1> DEFINE r == op.rotation
<1>1. IndInv /\ TypeOK
  BY DEF PromiseInv, IndInv
<1>2. r \in Created /\ Active(r) /\ r \in Versions
  BY WrittenRotation DEF PromoteRotation
<1>3. /\ status' = [status EXCEPT ![r] = "promoted"]
      /\ promotedAt' = [promotedAt EXCEPT ![r] = clock + 1]
      /\ UNCHANGED <<lastVersion, abandoned, purged, previousVersion, overlap>>
  BY DEF PromoteRotation
<1> HIDE DEF r
<1>4. /\ Created' = Created /\ promotedAt'[r] # 0
      /\ \A v \in Created : v # r => promotedAt'[v] = promotedAt[v]
      /\ \A q \in Created : Active(q)' <=> Active(q)
  BY <1>1, <1>2, <1>3, RowFacts DEF Created, Versions, Active, ActiveStatuses
<1>5. Waiting \subseteq {r} /\ r \notin abandoned
  BY <1>1, <1>2, ChangeUnderWay DEF IndInv, VersionInv, NewVersionOrNewer
<1>6. Served' = Served \cup Waiting
  <2>1. \A v \in Created : Servable(v)' <=> Servable(v) \/ v \in Waiting
    BY <1>2, <1>3, <1>4, <1>5 DEF Servable, Live, Waiting
  <2> QED  BY <1>4, <2>1 DEF Served, Waiting
<1>7. Waiting' = {}
  BY <1>3, <1>4, <1>5 DEF Waiting, Live
<1>8. Changes' = Changes
  BY <1>3, <1>4 DEF Changes
<1> QED  BY <1>3, <1>6, <1>7, <1>8 DEF Promise!Promote, Served, Waiting, Changes

\* completeRotation settles and destroys nothing.
LEMMA CompleteIsSettle ==
  ASSUME PromiseInv, CompleteRotation
  PROVE  Promise!Settle
<1> DEFINE r == op.rotation
<1>1. IndInv /\ UnpromotedIsStaged
  BY DEF PromiseInv, IndInv, VersionInv
<1>2. r \in Created /\ Active(r) /\ status[r] = "in_progress"
  BY WrittenRotation, AllowedFacts DEF CompleteRotation
<1>3. /\ status' = [status EXCEPT ![r] = "completed"]
      /\ UNCHANGED <<lastVersion, promotedAt, abandoned, purged, previousVersion, overlap>>
  BY DEF CompleteRotation
<1> HIDE DEF r
<1>4. Changes # {} /\ Waiting = {}
  <2>1. /\ Changes = {[old |-> previousVersion[r], new |-> r]}
        /\ Waiting \subseteq {r}
    BY <1>1, <1>2, ChangeUnderWay, Zenon
  <2>2. r \notin Waiting
    BY <1>1, <1>2 DEF UnpromotedIsStaged, Waiting
  <2> QED  BY <2>1, <2>2
<1>5. Changes' = {}
  BY <1>2, <1>3, ChangeOver DEF FinalStatuses
<1>6. Served' = Served /\ Waiting' = Waiting
  BY <1>3, ViewFrame
<1> QED  BY <1>3, <1>4, <1>5, <1>6 DEF Promise!Settle, Served, Waiting, Changes

\* retireRotation settles and destroys the value the change started from; another
\* one is left.
LEMMA RetireIsSettle ==
  ASSUME PromiseInv, RetireRotation, AlwaysServable'
  PROVE  Promise!Settle
<1> DEFINE r == op.rotation
<1>1. IndInv /\ UnpromotedIsStaged
  BY DEF PromiseInv, IndInv, VersionInv
<1>2. r \in Created /\ Active(r) /\ status[r] = "promoted"
  BY WrittenRotation, AllowedFacts DEF RetireRotation
<1>3. /\ status' = [status EXCEPT ![r] = "retired"]
      /\ purged' = purged \cup {previousVersion[r]}
      /\ UNCHANGED <<lastVersion, promotedAt, abandoned, previousVersion, overlap>>
  BY DEF RetireRotation
<1> HIDE DEF r
<1>4. Changes # {} /\ Waiting = {} /\ Promise!Olds = {previousVersion[r]}
  <2>1. Changes # {} /\ Waiting \subseteq {r} /\ Superseded = {r}
    BY <1>1, <1>2, ChangeUnderWay
  <2>2. r \notin Waiting
    BY <1>1, <1>2 DEF UnpromotedIsStaged, Waiting
  <2> QED  BY <2>1, <2>2, ChangeEnds
<1>5. Changes' = {}
  BY <1>2, <1>3, ChangeOver DEF FinalStatuses
<1>6. Created' = Created
  BY <1>3 DEF Created
<1>7. Served' = Served \ Promise!Olds
  BY <1>3, <1>4, <1>6 DEF Served, Servable, Live
<1>8. Waiting' = Waiting
  BY <1>3, <1>4, <1>6 DEF Waiting, Live
<1>9. Served' # {}
  BY DEF Served, AlwaysServable
<1> QED  BY <1>3, <1>4, <1>5, <1>7, <1>8, <1>9 DEF Promise!Settle, Served, Waiting, Changes

\* abandonRotation gives up.
LEMMA AbandonIsGiveUp ==
  ASSUME PromiseInv, AbandonRotation
  PROVE  Promise!GiveUp
<1> DEFINE r == op.rotation
<1>1. IndInv
  BY DEF PromiseInv
<1>2. r \in Created /\ Active(r)
  BY WrittenRotation DEF AbandonRotation
<1>3. /\ status' = [status EXCEPT ![r] = "abandoned"]
      /\ abandoned' = abandoned \cup {r}
      /\ UNCHANGED <<lastVersion, promotedAt, purged, previousVersion, overlap>>
  BY DEF AbandonRotation
<1> HIDE DEF r
<1>4. Changes # {} /\ Waiting \subseteq {r} /\ Promise!NewOnes = {r}
  BY <1>1, <1>2, ChangeUnderWay, ChangeEnds
<1>5. Changes' = {}
  BY <1>2, <1>3, ChangeOver DEF FinalStatuses
<1>6. Created' = Created
  BY <1>3 DEF Created
<1>7. Served' = Served \ Promise!NewOnes
  BY <1>3, <1>4, <1>6 DEF Served, Servable, Live
<1>8. Waiting' = {}
  BY <1>3, <1>4, <1>6 DEF Waiting, Live
<1> QED  BY <1>3, <1>4, <1>5, <1>7, <1>8 DEF Promise!GiveUp, Served, Waiting, Changes

\* breakGlassRotation replaces.
LEMMA BreakGlassIsReplace ==
  ASSUME PromiseInv, BreakGlassRotation
  PROVE  Promise!Replace
<1>1. TypeOK /\ UnpromotedIsStaged /\ OneActive
  BY DEF PromiseInv, IndInv, VersionInv
<1>2. PICK p \in Created :
        IsToSupersede(p, Created \ Superseded) /\ overlap' = overlap \cup {p}
  BY DEF BreakGlassRotation
<1>3. /\ lastVersion' = lastVersion + 1
      /\ abandoned' = abandoned \cup Superseded
      /\ promotedAt' = [promotedAt EXCEPT ![lastVersion + 1] = clock + 1]
      /\ status' = [r \in Versions |->
                      IF r = lastVersion + 1 THEN "break_glass_complete"
                      ELSE IF r \in Superseded THEN "abandoned" ELSE status[r]]
      /\ UNCHANGED purged
  BY DEF BreakGlassRotation
<1>4. /\ Created' = Created \cup {lastVersion + 1} /\ lastVersion + 1 \notin Created
      /\ Created' \subseteq Versions /\ clock + 1 # 0
      /\ lastVersion + 1 \notin purged /\ lastVersion + 1 \notin abandoned
      /\ promotedAt'[lastVersion + 1] = clock + 1
      /\ \A v \in Created : promotedAt'[v] = promotedAt[v]
  BY <1>1, <1>3, RowFacts DEF BreakGlassRotation, Created, Versions
<1>5. Superseded \subseteq Created /\ lastVersion + 1 \notin Superseded
      /\ \A v \in Created : v \in Superseded <=> Active(v)
  BY <1>4 DEF Superseded
<1>6. p \in Served \ Superseded
  BY <1>1, <1>2, <1>5 DEF Served, Servable, IsToSupersede, UnpromotedIsStaged
<1>7. Served' = (Served \ Superseded) \cup {lastVersion + 1}
  <2>1. \A v \in Created : Servable(v)' <=> Servable(v) /\ v \notin Superseded
    BY <1>3, <1>4 DEF Servable, Live
  <2>2. \A v : v = lastVersion + 1 => Servable(v)'
    BY <1>3, <1>4, <1>5 DEF Servable, Live
  <2> QED  BY <1>4, <2>1, <2>2 DEF Served
<1>8. Waiting' = {}
  <2>1. \A v \in Created : ~(Live(v)' /\ promotedAt'[v] = 0)
    BY <1>1, <1>3, <1>4, <1>5 DEF Live, UnpromotedIsStaged
  <2> QED  BY <1>4, <2>1 DEF Waiting
<1>9. Changes' = {}
  <2>1. \A q \in Created' : ~Active(q)'
    BY <1>3, <1>4, <1>5 DEF Active, ActiveStatuses
  <2> QED  BY <2>1 DEF Changes
<1> QED  BY <1>2, <1>3, <1>6, <1>7, <1>8, <1>9, ChangeEnds
            DEF Promise!Replace, Served, Waiting, Changes

\* The overlap worker closes a window.
LEMMA ExpireIsCloseWindow ==
  ASSUME NEW v \in Versions, ExpireOverlap(v)
  PROVE  Promise!CloseWindow
<1>1. /\ overlap' = overlap \ {v}
      /\ UNCHANGED <<lastVersion, promotedAt, abandoned, purged, previousVersion, status>>
  BY DEF ExpireOverlap, rotationRows
<1>2. Served' = Served /\ Waiting' = Waiting /\ Changes' = Changes
  BY <1>1, ViewFrame
<1>3. overlap' \in SUBSET overlap
  BY <1>1
<1> QED  BY <1>1, <1>2, <1>3 DEF Promise!CloseWindow, Served, Waiting, Changes

\* The retention worker purges nothing that is protected, and not the last value.
LEMMA PruneIsPurge ==
  ASSUME PromiseInv, PrunePurge, AlwaysServable'
  PROVE  Promise!Purge
<1>1. FallbackProtected /\ OverlapProtected
  BY DEF PromiseInv, IndInv, VersionInv
<1>2. /\ purged' = purged \cup (pruneCandidates \ rotationLocked)
      /\ UNCHANGED <<lastVersion, promotedAt, abandoned, previousVersion, status, overlap>>
  BY DEF PrunePurge, rotationRows
<1>3. Created' = Created
  BY <1>2 DEF Created
<1>4. \A v : /\ Live(v)' => Live(v)
             /\ Servable(v)' => Servable(v)
             /\ Servable(v) /\ v \in rotationLocked => Servable(v)'
  BY <1>2, <1>3 DEF Live, Servable
<1>5. Served' \in SUBSET Served /\ Waiting' \in SUBSET Waiting
  BY <1>2, <1>3, <1>4 DEF Served, Waiting
<1>6. Served \cap rotationLocked \subseteq Served'
  BY <1>3, <1>4 DEF Served
<1>7. {previousVersion[r] : r \in Superseded} \cup overlap \subseteq rotationLocked
  BY <1>1 DEF Superseded, FallbackProtected, OverlapProtected
<1>8. Promise!Protected \cap Served \subseteq Served'
  BY <1>6, <1>7, ChangeEnds DEF Promise!Protected
<1>9. Served' # {}
  BY DEF Served, AlwaysServable
<1>10. Changes' = Changes
  BY <1>2, <1>3 DEF Changes, Active
<1> QED  BY <1>2, <1>5, <1>8, <1>9, <1>10 DEF Promise!Purge, Served, Waiting, Changes

\* The remaining steps change nothing the promise speaks of: a rotation that is
\* resumed or found stale stays the change under way.
LEMMA QuietForPromise ==
  ASSUME PromiseInv,
         \/ RowsUnchanged \/ ResumeRotation
         \/ \E r \in Versions : RecoverStaleRotation(r)
         \/ PruneScan \/ PruneRollback
  PROVE  UNCHANGED Promise!specVars
<1>1. UNCHANGED <<lastVersion, promotedAt, abandoned, purged, previousVersion, overlap>>
  BY DEF RowsUnchanged, ResumeRotation, RecoverStaleRotation, PruneScan, PruneRollback,
         versionRows, rotationRows
<1>2. Served' = Served /\ Waiting' = Waiting /\ (UNCHANGED status => Changes' = Changes)
  BY <1>1, ViewFrame
<1>3. CASE UNCHANGED status
  BY <1>1, <1>2, <1>3 DEF Promise!specVars, Served, Waiting, Changes
<1>4. ASSUME NEW r \in Created, Active(r), NEW s \in ActiveStatuses,
             status' = [status EXCEPT ![r] = s]
      PROVE  UNCHANGED Promise!specVars
  <2>1. TypeOK
    BY DEF PromiseInv, IndInv
  <2>2. Created' = Created /\ \A q \in Created : Active(q)' <=> Active(q)
    BY <1>1, <1>4, <2>1, RowFacts DEF Active, Created
  <2>3. Changes' = Changes
    BY <1>1, <2>2 DEF Changes
  <2> QED  BY <1>1, <1>2, <2>3 DEF Promise!specVars, Served, Waiting, Changes
<1>5. CASE ResumeRotation
  <2>1. op.rotation \in Created /\ Active(op.rotation)
    BY <1>5, WrittenRotation DEF ResumeRotation
  <2>2. status' = [status EXCEPT ![op.rotation] = "in_progress"]
    BY <1>5 DEF ResumeRotation
  <2> QED  BY <1>4, <2>1, <2>2 DEF ActiveStatuses
<1>6. ASSUME NEW r \in Versions, RecoverStaleRotation(r)
      PROVE  UNCHANGED Promise!specVars
  <2>1. r \in Created /\ Active(r) /\ status' = [status EXCEPT ![r] = "stale_recovery"]
    BY <1>6 DEF RecoverStaleRotation, Active, ActiveStatuses
  <2> QED  BY <1>4, <2>1 DEF ActiveStatuses
<1>7. RowsUnchanged \/ PruneScan \/ PruneRollback => UNCHANGED status
  BY DEF RowsUnchanged, PruneScan, PruneRollback, rotationRows
<1> QED  BY <1>3, <1>5, <1>6, <1>7

\* Both ways a credential starts are starts of the promise.
LEMMA PromiseInit ==
  ASSUME Init
  PROVE  Promise!Init /\ FutureUnpromoted
<1> USE MaxVersionsAssumption
<1>1. abandoned = {} /\ purged = {} /\ overlap = {}
  BY DEF Init
<1>2. CASE FreshCredential
  <2>1. /\ lastVersion = 1 /\ Created = {1} /\ 1 \in Versions
        /\ promotedAt = [v \in Versions |-> IF v = 1 THEN 1 ELSE 0]
        /\ status = [r \in Versions |-> "none"]
    BY <1>2 DEF FreshCredential, Created, Versions
  <2>2. Served = {1} /\ Waiting = {}
    BY <1>1, <2>1 DEF Served, Waiting, Servable, Live
  <2>3. Changes = {}
    BY <2>1 DEF Changes, Active, ActiveStatuses
  <2>4. FutureUnpromoted
    BY <2>1 DEF FutureUnpromoted, Versions
  <2> QED  BY <1>1, <2>1, <2>2, <2>3, <2>4 DEF Promise!Init, Served, Waiting, Changes
<1>3. CASE MigratedStaleRotation
  <2>1. /\ lastVersion = 2 /\ Created = {1, 2} /\ 1 \in Versions /\ 2 \in Versions
        /\ promotedAt = [v \in Versions |-> IF v <= 2 THEN v ELSE 0]
        /\ status = [r \in Versions |-> IF r = 2 THEN "stale_recovery" ELSE "none"]
        /\ previousVersion = [r \in Versions |-> IF r = 2 THEN 1 ELSE 0]
    BY <1>3 DEF MigratedStaleRotation, Created, Versions
  <2>2. Served = {1, 2} /\ Waiting = {}
    BY <1>1, <2>1 DEF Served, Waiting, Servable, Live
  <2>3. Changes = {[old |-> 1, new |-> 2]}
    <3>1. Superseded = {2}
      BY <2>1 DEF Superseded, Active, ActiveStatuses
    <3>2. Changes = {[old |-> previousVersion[r], new |-> r] : r \in Superseded}
      BY DEF Changes, Superseded
    <3>3. previousVersion[2] = 1
      BY <2>1
    <3> QED  BY <3>1, <3>2, <3>3
  <2>4. FutureUnpromoted
    BY <2>1 DEF FutureUnpromoted, Versions
  <2> QED  BY <1>1, <2>1, <2>2, <2>3, <2>4 DEF Promise!Init, Served, Waiting, Changes
<1> QED  BY <1>2, <1>3 DEF Init

\* Every step keeps the promise.
LEMMA PromiseStep ==
  ASSUME PromiseInv, [Next]_vars, IndInv'
  PROVE  [Promise!Next]_(Promise!specVars)
<1>1. AlwaysServable'
  BY DEF IndInv, VersionInv
<1>2. RowsWritten => \/ Promise!Next
                     \/ ResumeRotation \/ \E r \in Versions : RecoverStaleRotation(r)
                     \/ PruneScan \/ PruneRollback
  BY <1>1, AddIsPublish, InitiateIsStage, BreakGlassIsReplace, CompleteIsSettle,
     PromoteIsPromote, RetireIsSettle, AbandonIsGiveUp, ExpireIsCloseWindow, PruneIsPurge
     DEF RowsWritten, Promise!Next
<1> QED  BY <1>2, NextCases, QuietForPromise

\* What a caller of reveal can obtain follows RotationSpec, whatever rotation
\* operations, break-glass, version writes and workers interleave, for any number
\* of versions and dependencies and any retention count.
THEOREM RotationKeepsPromise == Spec => ImplementsPromise
<1>1. Init => Promise!Init /\ FutureUnpromoted
  BY PromiseInit
<1>2. IndInv /\ FutureUnpromoted /\ [Next]_vars => FutureUnpromoted'
  BY FuturePreserved
<1>3. IndInv /\ FutureUnpromoted /\ [Next]_vars /\ IndInv' => [Promise!Next]_(Promise!specVars)
  BY PromiseStep DEF PromiseInv
<1> QED  BY <1>1, <1>2, <1>3, InductiveInvariant, PTL
            DEF Spec, ImplementsPromise, Promise!Spec
=============================================================================
