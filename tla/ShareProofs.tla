----------------------------- MODULE ShareProofs -----------------------------
(***************************************************************************)
(* Proofs about ShareReveal (one share) and ShareCreation (the shares of   *)
(* one credential).  Each module gets one inductive invariant, one lemma   *)
(* per group of actions and the theorems at the end.                       *)
(***************************************************************************)
EXTENDS ShareReveal, ShareCreation, FiniteSetTheorems, TLAPS

-----------------------------------------------------------------------------
(* ShareReveal: the strengthening of RevealSafe. *)

\* Losing attempts that were counted or are about to be stay within the bound.
MissesBounded == attempts + counting["expiring"] + counting["plain"] <= MaxMisses

\* A share that can still be claimed was not expired before and, if single-use,
\* has delivered nothing: the claim's WHERE status = 'active' is all it needs.
ActiveIsUntouched ==
  status = "active" =>
    /\ expiredAudits = 0
    /\ share.singleUse => delivered = 0

\* Codes and proofs come from mails, and a request that passed the gate holds a
\* proof from a mail, however long ago it read the row.
ProofsWereMailed ==
  /\ code <= sends /\ proof <= sends
  /\ share.gated => \A q \in holding : shownProof[q] \in 1 .. sends

RevealInd == RevealSafe /\ MissesBounded /\ ActiveIsUntouched /\ ProofsWereMailed

\* What the profile of a share may be, as Booleans.
LEMMA ProfileFacts ==
  ASSUME share \in Profiles
  PROVE  /\ share.external \in BOOLEAN /\ share.singleUse \in BOOLEAN
         /\ share.gated \in BOOLEAN
         /\ share.external => share.singleUse
         /\ share.gated => share.external
<1>1. CASE share = [external |-> TRUE, singleUse |-> TRUE, gated |-> TRUE]
  BY <1>1
<1>2. CASE share = [external |-> TRUE, singleUse |-> TRUE, gated |-> FALSE]
  BY <1>2
<1>3. CASE share = [external |-> FALSE, singleUse |-> TRUE, gated |-> FALSE]
  BY <1>3
<1>4. CASE share = [external |-> FALSE, singleUse |-> FALSE, gated |-> FALSE]
  BY <1>4
<1> QED  BY <1>1, <1>2, <1>3, <1>4 DEF Profiles

\* The initial states of a share satisfy the invariant.
LEMMA RevealInitInd == RevealInit => RevealInd
<1> SUFFICES ASSUME RevealInit PROVE RevealInd
  OBVIOUS
<1>1. RevealTypeOK /\ MissesBounded
  <2>1. 0 \in Proofs /\ 0 \in 0 .. MaxMisses
    BY ShareAssumption DEF Proofs
  <2>2. shownProof \in [Requests -> Proofs]
    BY <2>1 DEF RevealInit
  <2>3. /\ counting \in [TaskKinds -> 0 .. MaxMisses]
        /\ counting["expiring"] = 0 /\ counting["plain"] = 0
    BY <2>1 DEF RevealInit, TaskKinds
  <2>4. /\ viewCount \in 0 .. MaxViews /\ delivered \in 0 .. MaxViews
        /\ sends \in 0 .. MaxSends /\ guesses \in 0 .. MaxGuesses
        /\ attempts \in 0 .. MaxMisses /\ expiredAudits \in Nat /\ lockAudits \in Nat
    BY ShareAssumption DEF RevealInit
  <2>5. /\ due \in BOOLEAN /\ lockedAt \in BOOLEAN /\ codeExpired \in BOOLEAN
        /\ cooling \in BOOLEAN /\ proofFresh \in BOOLEAN /\ mailing \in BOOLEAN
        /\ code \in Proofs /\ proof \in Proofs /\ viewedWith \in Proofs
    BY <2>1, Zenon DEF RevealInit
  <2>6. /\ share \in Profiles /\ status \in Statuses
        /\ holding \subseteq Requests /\ outdated \subseteq holding
    BY Zenon DEF RevealInit, Statuses
  <2>7. MissesBounded
    BY <2>3, ShareAssumption DEF RevealInit, MissesBounded
  <2> QED  BY <2>2, <2>3, <2>4, <2>5, <2>6, <2>7, Zenon DEF RevealTypeOK
<1>2. /\ DeliveriesAccounted /\ OnlyVerifiedGuestServed /\ OutdatedCannotClaim
      /\ SpentBudgetCloses /\ AuditedOnce
  BY ShareAssumption
     DEF RevealInit, DeliveriesAccounted, OnlyVerifiedGuestServed,
         OutdatedCannotClaim, SpentBudgetCloses, AuditedOnce
<1>3. ActiveIsUntouched /\ ProofsWereMailed
  BY DEF RevealInit, ActiveIsUntouched, ProofsWereMailed
<1> QED  BY <1>1, <1>2, <1>3 DEF RevealInd, RevealSafe

\* Every step of one share's life keeps the invariant.
LEMMA RevealPreserved ==
  ASSUME RevealInd, [RevealNext]_revealVars
  PROVE  RevealInd'
<1>1. /\ RevealTypeOK /\ DeliveriesAccounted /\ OnlyVerifiedGuestServed
      /\ OutdatedCannotClaim /\ SpentBudgetCloses /\ AuditedOnce
      /\ MissesBounded /\ ActiveIsUntouched /\ ProofsWereMailed
  BY DEF RevealInd, RevealSafe
<1>2. CASE ExpireIfDue
  <2>1. RevealTypeOK'
    BY <1>1, <1>2, ShareAssumption, ProfileFacts
       DEF ExpireIfDue, ExpiryDue, requests, tasks, verification,
           RevealTypeOK, Proofs, Statuses, TaskKinds, MissesBounded,
           DeliveriesAccounted, ProofsWereMailed
  <2>2. OutdatedCannotClaim'
    BY <1>1, <1>2, ShareAssumption, ProfileFacts
       DEF ExpireIfDue, ExpiryDue, requests, tasks, verification,
           OutdatedCannotClaim, RevealTypeOK, Proofs, Statuses, TaskKinds
  <2>3. SpentBudgetCloses'
    BY <1>1, <1>2, ShareAssumption, ProfileFacts
       DEF ExpireIfDue, ExpiryDue, requests, tasks, verification,
           SpentBudgetCloses, RevealTypeOK, Proofs, Statuses, TaskKinds
  <2>4. AuditedOnce'
    BY <1>1, <1>2, ShareAssumption, ProfileFacts
       DEF ExpireIfDue, ExpiryDue, requests, tasks, verification,
           AuditedOnce, RevealTypeOK, Proofs, Statuses, TaskKinds,
           ActiveIsUntouched, SpentBudgetCloses
  <2>5. ActiveIsUntouched'
    BY <1>1, <1>2, ShareAssumption, ProfileFacts
       DEF ExpireIfDue, ExpiryDue, requests, tasks, verification,
           ActiveIsUntouched, RevealTypeOK, Proofs, Statuses, TaskKinds,
           DeliveriesAccounted
  <2>6. /\ DeliveriesAccounted' /\ OnlyVerifiedGuestServed'
        /\ MissesBounded' /\ ProofsWereMailed'
    BY <1>1, <1>2
       DEF ExpireIfDue, ExpiryDue, requests, tasks, verification,
           DeliveriesAccounted, OnlyVerifiedGuestServed, MissesBounded,
           ProofsWereMailed
  <2> QED  BY <2>1, <2>2, <2>3, <2>4, <2>5, <2>6
              DEF RevealInd, RevealSafe
<1>3. ASSUME NEW q \in Requests, NEW p \in Proofs, RevealRead(q, p)
      PROVE  RevealInd'
  <2>1. RevealTypeOK'
    BY <1>1, <1>3, ShareAssumption, ProfileFacts
       DEF RevealRead, Claimable, ProofAccepted, history, row, tasks,
           verification, RevealTypeOK, Proofs, Statuses, TaskKinds,
           MissesBounded, DeliveriesAccounted, ProofsWereMailed
  <2>2. OutdatedCannotClaim'
    BY <1>1, <1>3, ShareAssumption, ProfileFacts
       DEF RevealRead, Claimable, ProofAccepted, history, row, tasks,
           verification, OutdatedCannotClaim, RevealTypeOK, Proofs, Statuses,
           TaskKinds
  <2>3. ProofsWereMailed'
    BY <1>1, <1>3, ShareAssumption, ProfileFacts
       DEF RevealRead, Claimable, ProofAccepted, history, row, tasks,
           verification, ProofsWereMailed, RevealTypeOK, Proofs, Statuses,
           TaskKinds
  <2>4. /\ DeliveriesAccounted' /\ OnlyVerifiedGuestServed'
        /\ SpentBudgetCloses' /\ AuditedOnce' /\ MissesBounded'
        /\ ActiveIsUntouched'
    BY <1>1, <1>3
       DEF RevealRead, Claimable, ProofAccepted, history, row, tasks,
           verification, DeliveriesAccounted, OnlyVerifiedGuestServed,
           SpentBudgetCloses, AuditedOnce, MissesBounded, ActiveIsUntouched
  <2> QED  BY <2>1, <2>2, <2>3, <2>4
              DEF RevealInd, RevealSafe
<1>4. ASSUME NEW p \in Proofs, RevealMiss(p)
      PROVE  RevealInd'
  <2>1. RevealTypeOK'
    BY <1>1, <1>4, ShareAssumption, ProfileFacts
       DEF RevealMiss, Claimable, ProofAccepted, history, requests, row,
           verification, RevealTypeOK, Proofs, Statuses, TaskKinds,
           MissesBounded, DeliveriesAccounted, ProofsWereMailed
  <2>2. MissesBounded'
    BY <1>1, <1>4, ShareAssumption, ProfileFacts
       DEF RevealMiss, Claimable, ProofAccepted, history, requests, row,
           verification, MissesBounded, RevealTypeOK, Proofs, Statuses,
           TaskKinds
  <2>3. /\ DeliveriesAccounted' /\ OnlyVerifiedGuestServed'
        /\ OutdatedCannotClaim' /\ SpentBudgetCloses' /\ AuditedOnce'
        /\ ActiveIsUntouched' /\ ProofsWereMailed'
    BY <1>1, <1>4
       DEF RevealMiss, Claimable, ProofAccepted, history, requests, row,
           verification, DeliveriesAccounted, OnlyVerifiedGuestServed,
           OutdatedCannotClaim, SpentBudgetCloses, AuditedOnce,
           ActiveIsUntouched, ProofsWereMailed
  <2> QED  BY <2>1, <2>2, <2>3
              DEF RevealInd, RevealSafe
<1>5. ASSUME NEW q \in Requests, RevealClaim(q)
      PROVE  RevealInd'
  <2>1. RevealTypeOK'
    BY <1>1, <1>5, ShareAssumption, ProfileFacts
       DEF RevealClaim, Answered, ClaimHolds, tasks, verification,
           RevealTypeOK, Proofs, Statuses, TaskKinds, MissesBounded,
           DeliveriesAccounted, ProofsWereMailed
  <2>2. DeliveriesAccounted'
    BY <1>1, <1>5, ShareAssumption, ProfileFacts
       DEF RevealClaim, Answered, ClaimHolds, tasks, verification,
           DeliveriesAccounted, RevealTypeOK, Proofs, Statuses, TaskKinds,
           ActiveIsUntouched
  <2>3. OnlyVerifiedGuestServed'
    BY <1>1, <1>5, ShareAssumption, ProfileFacts
       DEF RevealClaim, Answered, ClaimHolds, tasks, verification,
           OnlyVerifiedGuestServed, RevealTypeOK, Proofs, Statuses,
           TaskKinds, ProofsWereMailed
  <2>4. OutdatedCannotClaim'
    BY <1>1, <1>5, ShareAssumption, ProfileFacts
       DEF RevealClaim, Answered, ClaimHolds, tasks, verification,
           OutdatedCannotClaim, RevealTypeOK, Proofs, Statuses, TaskKinds
  <2>5. SpentBudgetCloses'
    BY <1>1, <1>5, ShareAssumption, ProfileFacts
       DEF RevealClaim, Answered, ClaimHolds, tasks, verification,
           SpentBudgetCloses, RevealTypeOK, Proofs, Statuses, TaskKinds
  <2>6. AuditedOnce'
    BY <1>1, <1>5, ShareAssumption, ProfileFacts
       DEF RevealClaim, Answered, ClaimHolds, tasks, verification,
           AuditedOnce, RevealTypeOK, Proofs, Statuses, TaskKinds,
           ActiveIsUntouched, SpentBudgetCloses
  <2>7. ActiveIsUntouched'
    BY <1>1, <1>5, ShareAssumption, ProfileFacts
       DEF RevealClaim, Answered, ClaimHolds, tasks, verification,
           ActiveIsUntouched, RevealTypeOK, Proofs, Statuses, TaskKinds,
           DeliveriesAccounted
  <2>8. ProofsWereMailed'
    BY <1>1, <1>5, ShareAssumption, ProfileFacts
       DEF RevealClaim, Answered, ClaimHolds, tasks, verification,
           ProofsWereMailed, RevealTypeOK, Proofs, Statuses, TaskKinds
  <2>9. MissesBounded'
    BY <1>1, <1>5
       DEF RevealClaim, Answered, ClaimHolds, tasks, verification,
           MissesBounded
  <2> QED  BY <2>1, <2>2, <2>3, <2>4, <2>5, <2>6, <2>7, <2>8, <2>9
              DEF RevealInd, RevealSafe
<1>6. ASSUME NEW q \in Requests, RevealLost(q)
      PROVE  RevealInd'
  <2>1. RevealTypeOK'
    BY <1>1, <1>6, ShareAssumption, ProfileFacts
       DEF RevealLost, Answered, ClaimHolds, history, row, verification,
           RevealTypeOK, Proofs, Statuses, TaskKinds, MissesBounded,
           DeliveriesAccounted, ProofsWereMailed
  <2>2. OutdatedCannotClaim'
    BY <1>1, <1>6, ShareAssumption, ProfileFacts
       DEF RevealLost, Answered, ClaimHolds, history, row, verification,
           OutdatedCannotClaim, RevealTypeOK, Proofs, Statuses, TaskKinds
  <2>3. MissesBounded'
    BY <1>1, <1>6, ShareAssumption, ProfileFacts
       DEF RevealLost, Answered, ClaimHolds, history, row, verification,
           MissesBounded, RevealTypeOK, Proofs, Statuses, TaskKinds
  <2>4. ProofsWereMailed'
    BY <1>1, <1>6, ShareAssumption, ProfileFacts
       DEF RevealLost, Answered, ClaimHolds, history, row, verification,
           ProofsWereMailed, RevealTypeOK, Proofs, Statuses, TaskKinds
  <2>5. /\ DeliveriesAccounted' /\ OnlyVerifiedGuestServed'
        /\ SpentBudgetCloses' /\ AuditedOnce' /\ ActiveIsUntouched'
    BY <1>1, <1>6
       DEF RevealLost, Answered, ClaimHolds, history, row, verification,
           DeliveriesAccounted, OnlyVerifiedGuestServed, SpentBudgetCloses,
           AuditedOnce, ActiveIsUntouched
  <2> QED  BY <2>1, <2>2, <2>3, <2>4, <2>5
              DEF RevealInd, RevealSafe
<1>7. ASSUME NEW q \in Requests, RevealAborted(q)
      PROVE  RevealInd'
  <2>1. RevealTypeOK'
    BY <1>1, <1>7, ShareAssumption, ProfileFacts
       DEF RevealAborted, Answered, history, row, tasks, verification,
           RevealTypeOK, Proofs, Statuses, TaskKinds, MissesBounded,
           DeliveriesAccounted, ProofsWereMailed
  <2>2. OutdatedCannotClaim'
    BY <1>1, <1>7, ShareAssumption, ProfileFacts
       DEF RevealAborted, Answered, history, row, tasks, verification,
           OutdatedCannotClaim, RevealTypeOK, Proofs, Statuses, TaskKinds
  <2>3. ProofsWereMailed'
    BY <1>1, <1>7, ShareAssumption, ProfileFacts
       DEF RevealAborted, Answered, history, row, tasks, verification,
           ProofsWereMailed, RevealTypeOK, Proofs, Statuses, TaskKinds
  <2>4. /\ DeliveriesAccounted' /\ OnlyVerifiedGuestServed'
        /\ SpentBudgetCloses' /\ AuditedOnce' /\ MissesBounded'
        /\ ActiveIsUntouched'
    BY <1>1, <1>7
       DEF RevealAborted, Answered, history, row, tasks, verification,
           DeliveriesAccounted, OnlyVerifiedGuestServed, SpentBudgetCloses,
           AuditedOnce, MissesBounded, ActiveIsUntouched
  <2> QED  BY <2>1, <2>2, <2>3, <2>4
              DEF RevealInd, RevealSafe
<1>8. ASSUME NEW kind \in TaskKinds, CountLosingAttempt(kind)
      PROVE  RevealInd'
  <2>1. RevealTypeOK'
    <3>1. counting' \in [TaskKinds -> 0 .. MaxMisses] /\ attempts' \in 0 .. MaxMisses
      BY <1>1, <1>8, ShareAssumption
         DEF CountLosingAttempt, RevealTypeOK, MissesBounded, TaskKinds
    <3>2. /\ status' \in Statuses /\ code' \in Proofs
          /\ expiredAudits' \in Nat /\ lockAudits' \in Nat
      BY <1>1, <1>8, ShareAssumption
         DEF CountLosingAttempt, RevealTypeOK, Statuses, Proofs
    <3>3. lockedAt' \in BOOLEAN /\ codeExpired' \in BOOLEAN
      BY <1>1, <1>8, Zenon DEF CountLosingAttempt, RevealTypeOK
    <3> QED  BY <1>1, <3>1, <3>2, <3>3, <1>8
                DEF CountLosingAttempt, RevealTypeOK, requests
  <2>2. OutdatedCannotClaim'
    BY <1>1, <1>8, ShareAssumption, ProfileFacts
       DEF CountLosingAttempt, CapReached, ExpiryDue, requests,
           OutdatedCannotClaim, RevealTypeOK, Proofs, Statuses, TaskKinds
  <2>3. SpentBudgetCloses'
    BY <1>1, <1>8, ShareAssumption, ProfileFacts
       DEF CountLosingAttempt, CapReached, ExpiryDue, requests,
           SpentBudgetCloses, RevealTypeOK, Proofs, Statuses, TaskKinds
  <2>4. AuditedOnce'
    <3>1. /\ expiredAudits' <= 1
          /\ status' = "expired" => expiredAudits' = 1
      BY <1>1, <1>8 DEF CountLosingAttempt, RevealTypeOK, ExpiryDue, ActiveIsUntouched, AuditedOnce
    <3>2. CASE status # "revoked" /\ CapReached(attempts + 1, MaxAttempts)
      <4>1. lockedAt' = TRUE /\ lockedAt = FALSE
        BY <1>1, <3>2, <1>8 DEF CountLosingAttempt, RevealTypeOK, SpentBudgetCloses
      <4> QED  BY <1>1, <3>1, <3>2, <4>1, <1>8 DEF CountLosingAttempt, AuditedOnce
    <3>3. CASE ~(status # "revoked" /\ CapReached(attempts + 1, MaxAttempts))
      <4>1. lockedAt' = lockedAt /\ lockAudits' = lockAudits
        BY <1>1, <3>3, <1>8 DEF CountLosingAttempt, RevealTypeOK
      <4> QED  BY <1>1, <3>1, <4>1 DEF AuditedOnce
    <3> QED  BY <3>2, <3>3
  <2>5. MissesBounded'
    BY <1>1, <1>8, ShareAssumption, ProfileFacts
       DEF CountLosingAttempt, CapReached, ExpiryDue, requests,
           MissesBounded, RevealTypeOK, Proofs, Statuses, TaskKinds
  <2>6. ActiveIsUntouched'
    BY <1>1, <1>8, ShareAssumption, ProfileFacts
       DEF CountLosingAttempt, CapReached, ExpiryDue, requests,
           ActiveIsUntouched, RevealTypeOK, Proofs, Statuses, TaskKinds,
           DeliveriesAccounted
  <2>7. ProofsWereMailed'
    BY <1>1, <1>8, ShareAssumption, ProfileFacts
       DEF CountLosingAttempt, CapReached, ExpiryDue, requests,
           ProofsWereMailed, RevealTypeOK, Proofs, Statuses, TaskKinds
  <2>8. DeliveriesAccounted' /\ OnlyVerifiedGuestServed'
    BY <1>1, <1>8
       DEF CountLosingAttempt, CapReached, ExpiryDue, requests,
           DeliveriesAccounted, OnlyVerifiedGuestServed
  <2> QED  BY <2>1, <2>2, <2>3, <2>4, <2>5, <2>6, <2>7, <2>8
              DEF RevealInd, RevealSafe
<1>9. CASE RequestCode
  <2>1. RevealTypeOK'
    BY <1>1, <1>9, ShareAssumption, ProfileFacts
       DEF RequestCode, history, requests, row, verification, RevealTypeOK,
           Proofs, Statuses, TaskKinds, MissesBounded, DeliveriesAccounted,
           ProofsWereMailed
  <2>2. /\ DeliveriesAccounted' /\ OnlyVerifiedGuestServed'
        /\ OutdatedCannotClaim' /\ SpentBudgetCloses' /\ AuditedOnce'
        /\ MissesBounded' /\ ActiveIsUntouched' /\ ProofsWereMailed'
    BY <1>1, <1>9
       DEF RequestCode, history, requests, row, verification,
           DeliveriesAccounted, OnlyVerifiedGuestServed, OutdatedCannotClaim,
           SpentBudgetCloses, AuditedOnce, MissesBounded, ActiveIsUntouched,
           ProofsWereMailed
  <2> QED  BY <2>1, <2>2
              DEF RevealInd, RevealSafe
<1>10. CASE SendCode
  <2>1. RevealTypeOK'
    <3>1. code' \in Proofs /\ sends' \in 0 .. MaxSends
      BY <1>1, <1>10, ShareAssumption DEF SendCode, RevealTypeOK, Proofs
    <3>2. codeExpired' \in BOOLEAN /\ cooling' \in BOOLEAN /\ mailing' \in BOOLEAN
      BY <1>10 DEF SendCode
    <3> QED  BY <1>1, <3>1, <3>2, <1>10
                DEF SendCode, RevealTypeOK, row, requests, history
  <2>2. OnlyVerifiedGuestServed'
    BY <1>1, <1>10, ShareAssumption, ProfileFacts
       DEF SendCode, Verifiable, history, requests, row,
           OnlyVerifiedGuestServed, RevealTypeOK, Proofs, Statuses,
           TaskKinds, ProofsWereMailed
  <2>3. ProofsWereMailed'
    BY <1>1, <1>10, ShareAssumption, ProfileFacts
       DEF SendCode, Verifiable, history, requests, row, ProofsWereMailed,
           RevealTypeOK, Proofs, Statuses, TaskKinds
  <2>4. /\ DeliveriesAccounted' /\ OutdatedCannotClaim'
        /\ SpentBudgetCloses' /\ AuditedOnce' /\ MissesBounded'
        /\ ActiveIsUntouched'
    BY <1>1, <1>10
       DEF SendCode, Verifiable, history, requests, row, DeliveriesAccounted,
           OutdatedCannotClaim, SpentBudgetCloses, AuditedOnce,
           MissesBounded, ActiveIsUntouched
  <2> QED  BY <2>1, <2>2, <2>3, <2>4
              DEF RevealInd, RevealSafe
<1>11. CASE SendDropped
  <2>1. RevealTypeOK'
    BY <1>1, <1>11, ShareAssumption, ProfileFacts
       DEF SendDropped, history, requests, row, verification, RevealTypeOK,
           Proofs, Statuses, TaskKinds, MissesBounded, DeliveriesAccounted,
           ProofsWereMailed
  <2>2. /\ DeliveriesAccounted' /\ OnlyVerifiedGuestServed'
        /\ OutdatedCannotClaim' /\ SpentBudgetCloses' /\ AuditedOnce'
        /\ MissesBounded' /\ ActiveIsUntouched' /\ ProofsWereMailed'
    BY <1>1, <1>11
       DEF SendDropped, history, requests, row, verification,
           DeliveriesAccounted, OnlyVerifiedGuestServed, OutdatedCannotClaim,
           SpentBudgetCloses, AuditedOnce, MissesBounded, ActiveIsUntouched,
           ProofsWereMailed
  <2> QED  BY <2>1, <2>2
              DEF RevealInd, RevealSafe
<1>12. CASE ConfirmCode
  <2>1. RevealTypeOK'
    BY <1>1, <1>12, ShareAssumption, ProfileFacts
       DEF ConfirmCode, Verifiable, history, requests, row, tasks,
           RevealTypeOK, Proofs, Statuses, TaskKinds, MissesBounded,
           DeliveriesAccounted, ProofsWereMailed
  <2>2. ProofsWereMailed'
    BY <1>1, <1>12, ShareAssumption, ProfileFacts
       DEF ConfirmCode, Verifiable, history, requests, row, tasks,
           ProofsWereMailed, RevealTypeOK, Proofs, Statuses, TaskKinds
  <2>3. /\ DeliveriesAccounted' /\ OnlyVerifiedGuestServed'
        /\ OutdatedCannotClaim' /\ SpentBudgetCloses' /\ AuditedOnce'
        /\ MissesBounded' /\ ActiveIsUntouched'
    BY <1>1, <1>12
       DEF ConfirmCode, Verifiable, history, requests, row, tasks,
           DeliveriesAccounted, OnlyVerifiedGuestServed, OutdatedCannotClaim,
           SpentBudgetCloses, AuditedOnce, MissesBounded, ActiveIsUntouched
  <2> QED  BY <2>1, <2>2, <2>3
              DEF RevealInd, RevealSafe
<1>13. CASE GuessWrong
  <2>1. RevealTypeOK'
    BY <1>1, <1>13, ShareAssumption, ProfileFacts
       DEF GuessWrong, CapReached, Verifiable, requests, tasks, RevealTypeOK,
           Proofs, Statuses, TaskKinds, MissesBounded, DeliveriesAccounted,
           ProofsWereMailed
  <2>2. OutdatedCannotClaim'
    BY <1>1, <1>13, ShareAssumption, ProfileFacts
       DEF GuessWrong, CapReached, Verifiable, requests, tasks,
           OutdatedCannotClaim, RevealTypeOK, Proofs, Statuses, TaskKinds
  <2>3. SpentBudgetCloses'
    BY <1>1, <1>13, ShareAssumption, ProfileFacts
       DEF GuessWrong, CapReached, Verifiable, requests, tasks,
           SpentBudgetCloses, RevealTypeOK, Proofs, Statuses, TaskKinds
  <2>4. AuditedOnce'
    BY <1>1, <1>13, ShareAssumption, ProfileFacts
       DEF GuessWrong, CapReached, Verifiable, requests, tasks, AuditedOnce,
           RevealTypeOK, Proofs, Statuses, TaskKinds, ActiveIsUntouched,
           SpentBudgetCloses
  <2>5. ActiveIsUntouched'
    BY <1>1, <1>13, ShareAssumption, ProfileFacts
       DEF GuessWrong, CapReached, Verifiable, requests, tasks,
           ActiveIsUntouched, RevealTypeOK, Proofs, Statuses, TaskKinds,
           DeliveriesAccounted
  <2>6. ProofsWereMailed'
    BY <1>1, <1>13, ShareAssumption, ProfileFacts
       DEF GuessWrong, CapReached, Verifiable, requests, tasks,
           ProofsWereMailed, RevealTypeOK, Proofs, Statuses, TaskKinds
  <2>7. DeliveriesAccounted' /\ OnlyVerifiedGuestServed' /\ MissesBounded'
    BY <1>1, <1>13
       DEF GuessWrong, CapReached, Verifiable, requests, tasks,
           DeliveriesAccounted, OnlyVerifiedGuestServed, MissesBounded
  <2> QED  BY <2>1, <2>2, <2>3, <2>4, <2>5, <2>6, <2>7
              DEF RevealInd, RevealSafe
<1>14. CASE Revoke
  <2>1. RevealTypeOK'
    BY <1>1, <1>14, ShareAssumption, ProfileFacts
       DEF Revoke, history, requests, tasks, verification, RevealTypeOK,
           Proofs, Statuses, TaskKinds, MissesBounded, DeliveriesAccounted,
           ProofsWereMailed
  <2>2. OutdatedCannotClaim'
    BY <1>1, <1>14, ShareAssumption, ProfileFacts
       DEF Revoke, history, requests, tasks, verification,
           OutdatedCannotClaim, RevealTypeOK, Proofs, Statuses, TaskKinds
  <2>3. SpentBudgetCloses'
    BY <1>1, <1>14, ShareAssumption, ProfileFacts
       DEF Revoke, history, requests, tasks, verification, SpentBudgetCloses,
           RevealTypeOK, Proofs, Statuses, TaskKinds
  <2>4. AuditedOnce'
    BY <1>1, <1>14, ShareAssumption, ProfileFacts
       DEF Revoke, history, requests, tasks, verification, AuditedOnce,
           RevealTypeOK, Proofs, Statuses, TaskKinds, ActiveIsUntouched,
           SpentBudgetCloses
  <2>5. ActiveIsUntouched'
    BY <1>1, <1>14, ShareAssumption, ProfileFacts
       DEF Revoke, history, requests, tasks, verification, ActiveIsUntouched,
           RevealTypeOK, Proofs, Statuses, TaskKinds, DeliveriesAccounted
  <2>6. /\ DeliveriesAccounted' /\ OnlyVerifiedGuestServed'
        /\ MissesBounded' /\ ProofsWereMailed'
    BY <1>1, <1>14
       DEF Revoke, history, requests, tasks, verification,
           DeliveriesAccounted, OnlyVerifiedGuestServed, MissesBounded,
           ProofsWereMailed
  <2> QED  BY <2>1, <2>2, <2>3, <2>4, <2>5, <2>6
              DEF RevealInd, RevealSafe
<1>15. CASE Supersede
  <2>1. RevealTypeOK'
    BY <1>1, <1>15, ShareAssumption, ProfileFacts
       DEF Supersede, history, tasks, verification, RevealTypeOK, Proofs,
           Statuses, TaskKinds, MissesBounded, DeliveriesAccounted,
           ProofsWereMailed
  <2>2. OutdatedCannotClaim'
    BY <1>1, <1>15, ShareAssumption, ProfileFacts
       DEF Supersede, history, tasks, verification, OutdatedCannotClaim,
           RevealTypeOK, Proofs, Statuses, TaskKinds
  <2>3. SpentBudgetCloses'
    BY <1>1, <1>15, ShareAssumption, ProfileFacts
       DEF Supersede, history, tasks, verification, SpentBudgetCloses,
           RevealTypeOK, Proofs, Statuses, TaskKinds
  <2>4. AuditedOnce'
    BY <1>1, <1>15, ShareAssumption, ProfileFacts
       DEF Supersede, history, tasks, verification, AuditedOnce,
           RevealTypeOK, Proofs, Statuses, TaskKinds, ActiveIsUntouched,
           SpentBudgetCloses
  <2>5. ActiveIsUntouched'
    BY <1>1, <1>15, ShareAssumption, ProfileFacts
       DEF Supersede, history, tasks, verification, ActiveIsUntouched,
           RevealTypeOK, Proofs, Statuses, TaskKinds, DeliveriesAccounted
  <2>6. /\ DeliveriesAccounted' /\ OnlyVerifiedGuestServed'
        /\ MissesBounded' /\ ProofsWereMailed'
    BY <1>1, <1>15
       DEF Supersede, history, tasks, verification, DeliveriesAccounted,
           OnlyVerifiedGuestServed, MissesBounded, ProofsWereMailed
  <2> QED  BY <2>1, <2>2, <2>3, <2>4, <2>5, <2>6
              DEF RevealInd, RevealSafe
<1>16. CASE ShareFallsDue
  <2>1. RevealTypeOK'
    BY <1>1, <1>16, ShareAssumption, ProfileFacts
       DEF ShareFallsDue, history, requests, tasks, verification,
           RevealTypeOK, Proofs, Statuses, TaskKinds, MissesBounded,
           DeliveriesAccounted, ProofsWereMailed
  <2>2. /\ DeliveriesAccounted' /\ OnlyVerifiedGuestServed'
        /\ OutdatedCannotClaim' /\ SpentBudgetCloses' /\ AuditedOnce'
        /\ MissesBounded' /\ ActiveIsUntouched' /\ ProofsWereMailed'
    BY <1>1, <1>16
       DEF ShareFallsDue, history, requests, tasks, verification,
           DeliveriesAccounted, OnlyVerifiedGuestServed, OutdatedCannotClaim,
           SpentBudgetCloses, AuditedOnce, MissesBounded, ActiveIsUntouched,
           ProofsWereMailed
  <2> QED  BY <2>1, <2>2
              DEF RevealInd, RevealSafe
<1>17. CASE CodeExpires
  <2>1. RevealTypeOK'
    BY <1>1, <1>17, ShareAssumption, ProfileFacts
       DEF CodeExpires, history, requests, row, tasks, RevealTypeOK, Proofs,
           Statuses, TaskKinds, MissesBounded, DeliveriesAccounted,
           ProofsWereMailed
  <2>2. /\ DeliveriesAccounted' /\ OnlyVerifiedGuestServed'
        /\ OutdatedCannotClaim' /\ SpentBudgetCloses' /\ AuditedOnce'
        /\ MissesBounded' /\ ActiveIsUntouched' /\ ProofsWereMailed'
    BY <1>1, <1>17
       DEF CodeExpires, history, requests, row, tasks, DeliveriesAccounted,
           OnlyVerifiedGuestServed, OutdatedCannotClaim, SpentBudgetCloses,
           AuditedOnce, MissesBounded, ActiveIsUntouched, ProofsWereMailed
  <2> QED  BY <2>1, <2>2
              DEF RevealInd, RevealSafe
<1>18. CASE CooldownEnds
  <2>1. RevealTypeOK'
    BY <1>1, <1>18, ShareAssumption, ProfileFacts
       DEF CooldownEnds, history, requests, row, tasks, RevealTypeOK, Proofs,
           Statuses, TaskKinds, MissesBounded, DeliveriesAccounted,
           ProofsWereMailed
  <2>2. /\ DeliveriesAccounted' /\ OnlyVerifiedGuestServed'
        /\ OutdatedCannotClaim' /\ SpentBudgetCloses' /\ AuditedOnce'
        /\ MissesBounded' /\ ActiveIsUntouched' /\ ProofsWereMailed'
    BY <1>1, <1>18
       DEF CooldownEnds, history, requests, row, tasks, DeliveriesAccounted,
           OnlyVerifiedGuestServed, OutdatedCannotClaim, SpentBudgetCloses,
           AuditedOnce, MissesBounded, ActiveIsUntouched, ProofsWereMailed
  <2> QED  BY <2>1, <2>2
              DEF RevealInd, RevealSafe
<1>19. CASE ProofExpires
  <2>1. RevealTypeOK'
    BY <1>1, <1>19, ShareAssumption, ProfileFacts
       DEF ProofExpires, history, requests, row, tasks, RevealTypeOK, Proofs,
           Statuses, TaskKinds, MissesBounded, DeliveriesAccounted,
           ProofsWereMailed
  <2>2. /\ DeliveriesAccounted' /\ OnlyVerifiedGuestServed'
        /\ OutdatedCannotClaim' /\ SpentBudgetCloses' /\ AuditedOnce'
        /\ MissesBounded' /\ ActiveIsUntouched' /\ ProofsWereMailed'
    BY <1>1, <1>19
       DEF ProofExpires, history, requests, row, tasks, DeliveriesAccounted,
           OnlyVerifiedGuestServed, OutdatedCannotClaim, SpentBudgetCloses,
           AuditedOnce, MissesBounded, ActiveIsUntouched, ProofsWereMailed
  <2> QED  BY <2>1, <2>2
              DEF RevealInd, RevealSafe
<1>20. CASE Restart
  <2>1. RevealTypeOK'
    <3>1. 0 \in Proofs /\ 0 \in 0 .. MaxMisses
      BY ShareAssumption DEF Proofs
    <3>2. shownProof' \in [Requests -> Proofs]
      BY <3>1, <1>20 DEF Restart
    <3>3. counting' \in [TaskKinds -> 0 .. MaxMisses]
      BY <3>1, <1>20 DEF Restart
    <3> QED  BY <1>1, <3>2, <3>3, <1>20
                DEF Restart, RevealTypeOK, row, verification, history
  <2>2. OutdatedCannotClaim'
    BY <1>1, <1>20, ShareAssumption, ProfileFacts
       DEF Restart, TaskKinds, history, row, verification,
           OutdatedCannotClaim, RevealTypeOK, Proofs, Statuses
  <2>3. MissesBounded'
    BY <1>1, <1>20, ShareAssumption, ProfileFacts
       DEF Restart, TaskKinds, history, row, verification, MissesBounded,
           RevealTypeOK, Proofs, Statuses
  <2>4. ProofsWereMailed'
    BY <1>1, <1>20, ShareAssumption, ProfileFacts
       DEF Restart, TaskKinds, history, row, verification, ProofsWereMailed,
           RevealTypeOK, Proofs, Statuses
  <2>5. /\ DeliveriesAccounted' /\ OnlyVerifiedGuestServed'
        /\ SpentBudgetCloses' /\ AuditedOnce' /\ ActiveIsUntouched'
    BY <1>1, <1>20
       DEF Restart, TaskKinds, history, row, verification,
           DeliveriesAccounted, OnlyVerifiedGuestServed, SpentBudgetCloses,
           AuditedOnce, ActiveIsUntouched
  <2> QED  BY <2>1, <2>2, <2>3, <2>4, <2>5
              DEF RevealInd, RevealSafe
<1>21. CASE UNCHANGED revealVars
  BY <1>1, <1>21
     DEF revealVars, history, requests, row, tasks, verification,
         ActiveIsUntouched, AuditedOnce, DeliveriesAccounted, MissesBounded,
         OnlyVerifiedGuestServed, OutdatedCannotClaim, Profiles, Proofs,
         ProofsWereMailed, RevealInd, RevealSafe, RevealTypeOK,
         SpentBudgetCloses, Statuses, TaskKinds
<1> QED  BY <1>2, <1>3, <1>4, <1>5, <1>6, <1>7, <1>8, <1>9, <1>10, <1>11,
            <1>12, <1>13, <1>14, <1>15, <1>16, <1>17, <1>18, <1>19, <1>20,
            <1>21
            DEF RevealNext

\* However reveals, the verification of a guest, expiry, revocation, promotions
\* and restarts interleave, and whatever the caps: RevealSafe holds in every
\* state of a share's life.
THEOREM RevealAlwaysSafe == RevealSpec => []RevealSafe
<1>1. RevealInd => RevealSafe
  BY DEF RevealInd
<1>2. RevealInd /\ [RevealNext]_revealVars => RevealInd'
  BY RevealPreserved
<1> QED  BY <1>1, <1>2, RevealInitInd, PTL DEF RevealSpec

-----------------------------------------------------------------------------
(* ShareCreation: the strengthening of CreationSafe. *)

\* The pending guest links that reveal exactly the fields K.
Bucket(K) == {t \in Shares : Pending(t) /\ EffectiveKeys(t) = K}

\* The cap per set of fields, whether or not a share of that scope exists: a
\* preflight may move a share to any bucket.
BucketsCapped == \A K \in SUBSET Fields : Cardinality(Bucket(K)) <= PendingCap

\* A creation that is checked on an archived credential, or for a deactivated
\* sharer, was overtaken: its insert is the only way to a share that is open.
CheckedWasOvertaken ==
  archived \/ ~sharerActive =>
    \A s \in Shares : phase[s] = "checked" => s \in overtaken

\* field_key names one field.
OneFieldKey == \A s \in Shares : \A f, g \in fieldKey[s] : f = g

CreationInd ==
  /\ CreationTypeOK /\ BucketsCapped /\ OnlyOvertakenOpen
  /\ CheckedWasOvertaken /\ OneFieldKey

\* What validateShareFieldAndExpiry lets through.
LEMMA ScopeFacts ==
  ASSUME NEW scope \in Scopes
  PROVE  /\ scope.field \in SUBSET Fields /\ scope.attributes \in SUBSET Fields
         /\ scope.field = {} \/ scope.attributes = {}
         /\ \A f, g \in scope.field : f = g
BY DEF Scopes

\* A share's effective keys are fields.
LEMMA KeysAreFields ==
  ASSUME CreationTypeOK, NEW s \in Shares
  PROVE  EffectiveKeys(s) \in SUBSET Fields
BY DEF CreationTypeOK, EffectiveKeys

\* Buckets are finite, their sizes are numbers.
LEMMA BucketFinite ==
  ASSUME NEW B, B \subseteq Shares
  PROVE  IsFiniteSet(B) /\ Cardinality(B) \in Nat
BY SharesAssumption, FS_Subset, FS_CardinalityType

\* The cap survives a step that adds no link to any bucket.
LEMMA BucketsShrink ==
  ASSUME BucketsCapped, \A K \in SUBSET Fields : Bucket(K)' \subseteq Bucket(K)
  PROVE  BucketsCapped'
<1> SUFFICES ASSUME NEW K \in SUBSET Fields
             PROVE  Cardinality(Bucket(K)') <= PendingCap
  BY DEF BucketsCapped
<1>1. Bucket(K) \subseteq Shares /\ Bucket(K)' \subseteq Bucket(K)
  BY DEF Bucket
<1>2. Cardinality(Bucket(K)') <= Cardinality(Bucket(K))
  BY <1>1, BucketFinite, FS_Subset
<1>3. Cardinality(Bucket(K)) <= PendingCap
  BY DEF BucketsCapped
<1> QED  BY <1>1, <1>2, <1>3, BucketFinite, PendingCapAssumption

\* ... and an insert that found room in its own bucket under the advisory lock.
LEMMA InsertKeepsCap ==
  ASSUME CreationTypeOK, BucketsCapped, NEW s \in Shares, Insert(s)
  PROVE  BucketsCapped'
<1> SUFFICES ASSUME NEW K \in SUBSET Fields
             PROVE  Cardinality(Bucket(K)') <= PendingCap
  BY DEF BucketsCapped
<1>1. \A t \in Shares : EffectiveKeys(t)' = EffectiveKeys(t)
  BY DEF Insert, scopes, EffectiveKeys
<1>2. \A t \in Shares : t # s => (Pending(t)' <=> Pending(t))
  BY DEF Insert, scopes, Pending, CreationTypeOK
<1>3. CASE external[s] /\ EffectiveKeys(s) = K
  <2>1. Bucket(K)' \subseteq Bucket(K) \cup {s}
    BY <1>1, <1>2 DEF Bucket
  <2>2. Bucket(K) = {t \in Shares : Pending(t) /\ SameBucket(s, t)}
    BY <1>3 DEF Bucket, SameBucket
  <2>3. Cardinality(Bucket(K)) < PendingCap
    BY <1>3, <2>2 DEF Insert, CapHolds
  <2>4. Bucket(K) \subseteq Shares /\ Bucket(K)' \subseteq Shares
    BY DEF Bucket
  <2>5. Cardinality(Bucket(K) \cup {s}) <= Cardinality(Bucket(K)) + 1
    BY <2>4, BucketFinite, FS_AddElement
  <2>6. Cardinality(Bucket(K)') <= Cardinality(Bucket(K) \cup {s})
    BY <2>1, <2>4, BucketFinite, FS_Subset
  <2>7. Cardinality(Bucket(K) \cup {s}) \in Nat
    BY <2>4, BucketFinite
  <2> QED  BY <2>3, <2>4, <2>5, <2>6, <2>7, BucketFinite, PendingCapAssumption
<1>4. CASE ~(external[s] /\ EffectiveKeys(s) = K)
  <2>1. Bucket(K)' \subseteq Bucket(K)
    BY <1>1, <1>2, <1>4 DEF Bucket, Pending, Insert, scopes
  <2>2. Bucket(K) \subseteq Shares
    BY DEF Bucket
  <2>3. Cardinality(Bucket(K)') <= Cardinality(Bucket(K))
    BY <2>1, <2>2, BucketFinite, FS_Subset
  <2> QED  BY <2>1, <2>2, <2>3, BucketFinite, PendingCapAssumption DEF BucketsCapped
<1> QED  BY <1>3, <1>4

\* The initial state of a credential's shares satisfies the invariant.
LEMMA CreationInitInd == CreationInit => CreationInd
<1> SUFFICES ASSUME CreationInit PROVE CreationInd
  OBVIOUS
<1>1. CreationTypeOK
  BY DEF CreationInit, CreationTypeOK, Phases
<1>2. BucketsCapped
  <2>1. \A K \in SUBSET Fields : Bucket(K) = {}
    BY DEF CreationInit, Bucket, Pending
  <2> QED  BY <2>1, FS_EmptySet, PendingCapAssumption DEF BucketsCapped
<1>3. OnlyOvertakenOpen /\ CheckedWasOvertaken /\ OneFieldKey
  BY DEF CreationInit, OnlyOvertakenOpen, CheckedWasOvertaken, OneFieldKey
<1> QED  BY <1>1, <1>2, <1>3 DEF CreationInd

\* Every step keeps the invariant of a credential's shares.
LEMMA CreationPreserved ==
  ASSUME CreationInd, [CreationNext]_creationVars
  PROVE  CreationInd'
<1>1. /\ CreationTypeOK /\ BucketsCapped /\ OnlyOvertakenOpen
      /\ CheckedWasOvertaken /\ OneFieldKey
  BY DEF CreationInd
<1>2. ASSUME NEW s \in Shares, NEW scope \in Scopes,
             NEW guest \in BOOLEAN, Preflight(s, scope, guest)
      PROVE  CreationInd'
  <2>1. CreationTypeOK'
    BY <1>1, <1>2, ScopeFacts DEF Preflight, CreationTypeOK, Phases
  <2>2. BucketsCapped'
    <3>1. \A K \in SUBSET Fields : Bucket(K)' \subseteq Bucket(K)
      BY <1>1, <1>2 DEF Preflight, CreationTypeOK, Bucket, Pending,
         EffectiveKeys
    <3> QED  BY <1>1, <3>1, BucketsShrink
  <2>3. OnlyOvertakenOpen'
    BY <1>1, <1>2
       DEF Preflight, OnlyOvertakenOpen, CreationTypeOK, Phases,
           CheckedWasOvertaken
  <2>4. CheckedWasOvertaken'
    BY <1>1, <1>2 DEF Preflight, CheckedWasOvertaken, CreationTypeOK, Phases
  <2>5. OneFieldKey'
    BY <1>1, <1>2, ScopeFacts
       DEF Preflight, OneFieldKey, CreationTypeOK, Phases
  <2> QED  BY <2>1, <2>2, <2>3, <2>4, <2>5
              DEF CreationInd
<1>3. ASSUME NEW s \in Shares, Insert(s)
      PROVE  CreationInd'
  <2>1. CreationTypeOK'
    BY <1>1, <1>3 DEF Insert, scopes, CreationTypeOK, Phases
  <2>2. BucketsCapped'
    BY <1>1, <1>3, InsertKeepsCap
  <2>3. OnlyOvertakenOpen'
    BY <1>1, <1>3
       DEF Insert, scopes, OnlyOvertakenOpen, CreationTypeOK, Phases,
           CheckedWasOvertaken
  <2>4. CheckedWasOvertaken'
    BY <1>1, <1>3
       DEF Insert, scopes, CheckedWasOvertaken, CreationTypeOK, Phases
  <2>5. OneFieldKey'
    BY <1>1, <1>3 DEF Insert, scopes, OneFieldKey
  <2> QED  BY <2>1, <2>2, <2>3, <2>4, <2>5
              DEF CreationInd
<1>4. ASSUME NEW s \in Shares, CreationFails(s)
      PROVE  CreationInd'
  <2>1. CreationTypeOK'
    BY <1>1, <1>4 DEF CreationFails, CreationTypeOK, Phases
  <2>2. BucketsCapped'
    <3>1. \A K \in SUBSET Fields : Bucket(K)' \subseteq Bucket(K)
      BY <1>1, <1>4 DEF CreationFails, CreationTypeOK, Bucket, Pending,
         EffectiveKeys
    <3> QED  BY <1>1, <3>1, BucketsShrink
  <2>3. OnlyOvertakenOpen'
    BY <1>1, <1>4
       DEF CreationFails, OnlyOvertakenOpen, CreationTypeOK, Phases,
           CheckedWasOvertaken
  <2>4. CheckedWasOvertaken'
    BY <1>1, <1>4
       DEF CreationFails, CheckedWasOvertaken, CreationTypeOK, Phases
  <2>5. OneFieldKey'
    BY <1>1, <1>4 DEF CreationFails, OneFieldKey, CreationTypeOK, Phases
  <2> QED  BY <2>1, <2>2, <2>3, <2>4, <2>5
              DEF CreationInd
<1>5. ASSUME NEW s \in Shares, FallsDue(s)
      PROVE  CreationInd'
  <2>1. CreationTypeOK'
    BY <1>1, <1>5 DEF FallsDue, scopes, CreationTypeOK, Phases
  <2>2. BucketsCapped'
    <3>1. \A K \in SUBSET Fields : Bucket(K)' \subseteq Bucket(K)
      BY <1>1, <1>5 DEF FallsDue, scopes, CreationTypeOK, Bucket, Pending,
         EffectiveKeys
    <3> QED  BY <1>1, <3>1, BucketsShrink
  <2>3. OnlyOvertakenOpen' /\ CheckedWasOvertaken' /\ OneFieldKey'
    BY <1>1, <1>5
       DEF FallsDue, scopes, OnlyOvertakenOpen, CheckedWasOvertaken,
           OneFieldKey
  <2> QED  BY <2>1, <2>2, <2>3
              DEF CreationInd
<1>6. ASSUME NEW s \in Shares, NEW outcome \in {"viewed", "closed"}, Resolve(s, outcome)
      PROVE  CreationInd'
  <2>1. CreationTypeOK'
    BY <1>1, <1>6 DEF Resolve, scopes, CreationTypeOK, Phases
  <2>2. BucketsCapped'
    <3>1. \A K \in SUBSET Fields : Bucket(K)' \subseteq Bucket(K)
      BY <1>1, <1>6 DEF Resolve, scopes, CreationTypeOK, Bucket, Pending,
         EffectiveKeys
    <3> QED  BY <1>1, <3>1, BucketsShrink
  <2>3. OnlyOvertakenOpen'
    BY <1>1, <1>6
       DEF Resolve, scopes, OnlyOvertakenOpen, CreationTypeOK, Phases,
           CheckedWasOvertaken
  <2>4. CheckedWasOvertaken'
    BY <1>1, <1>6
       DEF Resolve, scopes, CheckedWasOvertaken, CreationTypeOK, Phases
  <2>5. OneFieldKey'
    BY <1>1, <1>6 DEF Resolve, scopes, OneFieldKey
  <2> QED  BY <2>1, <2>2, <2>3, <2>4, <2>5
              DEF CreationInd
<1>7. ASSUME NEW T \in SUBSET Fields, SupersedeOutstanding(T)
      PROVE  CreationInd'
  <2>1. CreationTypeOK'
    BY <1>1, <1>7
       DEF SupersedeOutstanding, InRotationScope, scopes, CreationTypeOK,
           Phases
  <2>2. BucketsCapped'
    <3>1. \A K \in SUBSET Fields : Bucket(K)' \subseteq Bucket(K)
      BY <1>1, <1>7 DEF SupersedeOutstanding, InRotationScope, scopes, CreationTypeOK, Bucket, Pending,
         EffectiveKeys
    <3> QED  BY <1>1, <3>1, BucketsShrink
  <2>3. OnlyOvertakenOpen'
    BY <1>1, <1>7
       DEF SupersedeOutstanding, InRotationScope, scopes, OnlyOvertakenOpen,
           CreationTypeOK, Phases, CheckedWasOvertaken
  <2>4. CheckedWasOvertaken'
    BY <1>1, <1>7
       DEF SupersedeOutstanding, InRotationScope, scopes,
           CheckedWasOvertaken, CreationTypeOK, Phases
  <2>5. OneFieldKey'
    BY <1>1, <1>7
       DEF SupersedeOutstanding, InRotationScope, scopes, OneFieldKey
  <2> QED  BY <2>1, <2>2, <2>3, <2>4, <2>5
              DEF CreationInd
<1>8. CASE ArchiveCredential
  <2>1. CreationTypeOK'
    BY <1>1, <1>8
       DEF ArchiveCredential, Checked, NoActiveShare, scopes, CreationTypeOK,
           Phases
  <2>2. OnlyOvertakenOpen'
    BY <1>1, <1>8
       DEF ArchiveCredential, Checked, NoActiveShare, scopes,
           OnlyOvertakenOpen, CreationTypeOK, Phases, CheckedWasOvertaken
  <2>3. CheckedWasOvertaken'
    BY <1>1, <1>8
       DEF ArchiveCredential, Checked, NoActiveShare, scopes,
           CheckedWasOvertaken, CreationTypeOK, Phases
  <2>4. BucketsCapped' /\ OneFieldKey'
    BY <1>1, <1>8
       DEF ArchiveCredential, Checked, NoActiveShare, scopes, BucketsCapped,
           Bucket, EffectiveKeys, Pending, OneFieldKey
  <2> QED  BY <2>1, <2>2, <2>3, <2>4
              DEF CreationInd
<1>9. CASE UnarchiveCredential
  <2>1. CreationTypeOK'
    BY <1>1, <1>9 DEF UnarchiveCredential, scopes, CreationTypeOK, Phases
  <2>2. OnlyOvertakenOpen'
    BY <1>1, <1>9
       DEF UnarchiveCredential, scopes, OnlyOvertakenOpen, CreationTypeOK,
           Phases, CheckedWasOvertaken
  <2>3. CheckedWasOvertaken'
    BY <1>1, <1>9
       DEF UnarchiveCredential, scopes, CheckedWasOvertaken, CreationTypeOK,
           Phases
  <2>4. BucketsCapped' /\ OneFieldKey'
    BY <1>1, <1>9
       DEF UnarchiveCredential, scopes, BucketsCapped, Bucket, EffectiveKeys,
           Pending, OneFieldKey
  <2> QED  BY <2>1, <2>2, <2>3, <2>4
              DEF CreationInd
<1>10. CASE DeactivateSharer
  <2>1. CreationTypeOK'
    BY <1>1, <1>10
       DEF DeactivateSharer, Checked, scopes, CreationTypeOK, Phases
  <2>2. BucketsCapped'
    <3>1. \A K \in SUBSET Fields : Bucket(K)' \subseteq Bucket(K)
      BY <1>1, <1>10 DEF DeactivateSharer, scopes, CreationTypeOK, Bucket, Pending,
         EffectiveKeys
    <3> QED  BY <1>1, <3>1, BucketsShrink
  <2>3. OnlyOvertakenOpen'
    BY <1>1, <1>10
       DEF DeactivateSharer, Checked, scopes, OnlyOvertakenOpen,
           CreationTypeOK, Phases, CheckedWasOvertaken
  <2>4. CheckedWasOvertaken'
    BY <1>1, <1>10
       DEF DeactivateSharer, Checked, scopes, CheckedWasOvertaken,
           CreationTypeOK, Phases
  <2>5. OneFieldKey'
    BY <1>1, <1>10 DEF DeactivateSharer, Checked, scopes, OneFieldKey
  <2> QED  BY <2>1, <2>2, <2>3, <2>4, <2>5
              DEF CreationInd
<1>11. CASE ReactivateSharer
  <2>1. CreationTypeOK'
    BY <1>1, <1>11 DEF ReactivateSharer, scopes, CreationTypeOK, Phases
  <2>2. OnlyOvertakenOpen'
    BY <1>1, <1>11
       DEF ReactivateSharer, scopes, OnlyOvertakenOpen, CreationTypeOK,
           Phases, CheckedWasOvertaken
  <2>3. CheckedWasOvertaken'
    BY <1>1, <1>11
       DEF ReactivateSharer, scopes, CheckedWasOvertaken, CreationTypeOK,
           Phases
  <2>4. BucketsCapped' /\ OneFieldKey'
    BY <1>1, <1>11
       DEF ReactivateSharer, scopes, BucketsCapped, Bucket, EffectiveKeys,
           Pending, OneFieldKey
  <2> QED  BY <2>1, <2>2, <2>3, <2>4
              DEF CreationInd
<1>12. CASE UNCHANGED creationVars
  BY <1>1, <1>12
     DEF creationVars, scopes, Bucket, BucketsCapped, CheckedWasOvertaken,
         CreationInd, CreationTypeOK, EffectiveKeys, OneFieldKey,
         OnlyOvertakenOpen, Pending, Phases
<1> QED  BY <1>2, <1>3, <1>4, <1>5, <1>6, <1>7, <1>8, <1>9, <1>10, <1>11,
            <1>12
            DEF CreationNext

\* The per-share form of the cap follows from the form per set of fields.
LEMMA CappedPerShare ==
  ASSUME CreationTypeOK, BucketsCapped
  PROVE  PendingCapRespected
<1> SUFFICES ASSUME NEW s \in Shares
             PROVE  Cardinality(Bucket(EffectiveKeys(s))) <= PendingCap
  BY DEF PendingCapRespected, Bucket
<1> QED  BY KeysAreFields DEF BucketsCapped

\* For every number of shares, every set of fields and every cap: no bucket of
\* pending guest links passes MAX_PENDING_EXTERNAL_SHARES_PER_FIELD, and on an
\* archived credential or of a deactivated sharer only overtaken creations are
\* open.
THEOREM CreationAlwaysSafe == CreationSpec => []CreationSafe
<1>1. CreationInd => CreationSafe
  BY CappedPerShare DEF CreationInd, CreationSafe
<1>2. CreationInd /\ [CreationNext]_creationVars => CreationInd'
  BY CreationPreserved
<1> QED  BY <1>1, <1>2, CreationInitInd, PTL DEF CreationSpec

\* After a promotion no outstanding share exposes a rotated field: a share whose
\* field_key lies outside the rotation names one field, and that one only.
THEOREM PromotionClosesRotatedFields == CreationSpec => RotatedFieldsClosed
<1> DEFINE Closed(T) ==
      SupersedeOutstanding(T) =>
        \A s \in Shares : phase'[s] \in {"active", "viewed"} =>
          T # {} /\ EffectiveKeys(s) # {} /\ EffectiveKeys(s) \cap T = {}
<1>1. ASSUME CreationInd, NEW T \in SUBSET Fields
      PROVE  Closed(T)
  <2> SUFFICES ASSUME SupersedeOutstanding(T), NEW s \in Shares,
                      phase'[s] \in {"active", "viewed"}
               PROVE  T # {} /\ EffectiveKeys(s) # {} /\ EffectiveKeys(s) \cap T = {}
    OBVIOUS
  <2>1. ~InRotationScope(s, T)
    BY <1>1 DEF SupersedeOutstanding
  <2>2. T # {} /\ fieldKey[s] # {} /\ ~(fieldKey[s] \subseteq T)
    BY <2>1 DEF InRotationScope
  <2>3. EffectiveKeys(s) = fieldKey[s]
    BY <1>1, <2>2 DEF EffectiveKeys, CreationInd, CreationTypeOK
  <2>4. fieldKey[s] \cap T = {}
    BY <1>1, <2>2 DEF CreationInd, OneFieldKey
  <2> QED  BY <2>2, <2>3, <2>4
<1>2. CreationInd => [\A T \in SUBSET Fields : Closed(T)]_creationVars
  BY <1>1
<1>3. CreationInd /\ [CreationNext]_creationVars => CreationInd'
  BY CreationPreserved
<1> QED  BY <1>2, <1>3, CreationInitInd, PTL DEF CreationSpec, RotatedFieldsClosed
=============================================================================
