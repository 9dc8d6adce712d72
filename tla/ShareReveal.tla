----------------------------- MODULE ShareReveal -----------------------------
(***************************************************************************)
(* The life of ONE credential share from its creation on:                  *)
(* apps/api/src/modules/credential-shares/service.ts (member shares),      *)
(* external-service.ts (links for a guest), external-verification-         *)
(* service.ts (the emailed code and the proof it buys) and the expiry      *)
(* sweep workers/credential-share-expire.ts.                               *)
(*                                                                         *)
(* A reveal reads the row without a lock, decrypts the current value, and  *)
(* only then claims the share with an UPDATE ... WHERE status = 'active':  *)
(* two steps, between which every other transaction may commit.  All other *)
(* writes of a share are one UPDATE (or an UPDATE followed by others under *)
(* its row lock) and therefore one step.  A losing reveal of an external   *)
(* share is answered first and counted later by a task that lives only in  *)
(* the process: a restart, or a failed write, drops it.                    *)
(*                                                                         *)
(* Abstractions.  A code is the number of the send that mailed it, a proof *)
(* the number of the code that bought it, 0 stands for a wrong one.  Each  *)
(* clock comparison is a flag that time may flip (due, codeExpired,        *)
(* cooling, proofFresh).  The recipient's own membership and the masking   *)
(* of answers are left out.                                                *)
(***************************************************************************)
EXTENDS Integers

CONSTANTS
  Requests,     \* concurrent reveal requests that hold the share's token
  MaxAttempts,  \* EXTERNAL_SHARE_MAX_REVEAL_ATTEMPTS
  MaxGuesses,   \* EXTERNAL_SHARE_VERIFICATION_MAX_ATTEMPTS
  MaxSends,     \* EXTERNAL_SHARE_VERIFICATION_MAX_SENDS
  MaxMisses,    \* bound: losing reveals that are ever counted
  MaxViews      \* bound: values ever delivered

ASSUME ShareAssumption ==
  /\ MaxAttempts \in Nat \ {0} /\ MaxGuesses \in Nat \ {0}
  /\ MaxSends \in Nat \ {0} /\ MaxMisses \in Nat /\ MaxViews \in Nat \ {0}

VARIABLES
  share,         \* [external, singleUse, gated]: fixed when it is created
  status,        \* credential_shares.status
  due,           \* expires_at has passed
  viewCount,     \* view_count
  lockedAt,      \* locked_at is set
  attempts,      \* reveal_attempt_count
  code,          \* verification_code_hash: the live code, 0 for NULL
  codeExpired,   \* verification_code_expires_at has passed
  sends,         \* verification_send_count
  cooling,       \* verification_sent_at is less than the cooldown ago
  guesses,       \* verification_attempt_count
  proof,         \* verification_proof_hash: the live proof, 0 for NULL
  proofFresh,    \* verified_at is less than the proof's lifetime ago
  holding,       \* requests between their read and their claim
  shownProof,    \* request -> the proof it presented
  outdated,      \* requests whose decrypted value a promotion replaced
  counting,      \* deferred losing attempts, by kind of task
  mailing,       \* a deferred verification-code send is scheduled
  delivered,     \* values that left the server
  viewedWith,    \* proof presented by the latest successful claim
  expiredAudits, \* CREDENTIAL_SHARE_EXPIRED rows of this share
  lockAudits     \* CREDENTIAL_SHARE_REVOKED rows with an attempt-cap reason

row == <<share, status, due, viewCount, lockedAt, attempts>>
verification == <<code, codeExpired, sends, cooling, guesses, proof, proofFresh>>
requests == <<holding, shownProof, outdated>>
tasks == <<counting, mailing>>
history == <<delivered, viewedWith, expiredAudits, lockAudits>>
revealVars == <<row, verification, requests, tasks, history>>

Statuses == {"active", "viewed", "expired", "revoked", "superseded"}

\* A guest link is always single-use, and gated unless an extension made it;
\* a member share is never gated.
Profiles ==
  { [external |-> TRUE,  singleUse |-> TRUE,  gated |-> TRUE],
    [external |-> TRUE,  singleUse |-> TRUE,  gated |-> FALSE],
    [external |-> FALSE, singleUse |-> TRUE,  gated |-> FALSE],
    [external |-> FALSE, singleUse |-> FALSE, gated |-> FALSE] }

\* DeferredLosingAttempt with and without expireIfDue.
TaskKinds == {"expiring", "plain"}

RevealInit ==
  /\ share \in Profiles /\ status = "active" /\ due = FALSE
  /\ viewCount = 0 /\ lockedAt = FALSE /\ attempts = 0
  /\ code = 0 /\ codeExpired = FALSE /\ sends = 0 /\ cooling = FALSE
  /\ guesses = 0 /\ proof = 0 /\ proofFresh = FALSE
  /\ holding = {} /\ shownProof = [q \in Requests |-> 0] /\ outdated = {}
  /\ counting = [kind \in TaskKinds |-> 0] /\ mailing = FALSE
  /\ delivered = 0 /\ viewedWith = 0 /\ expiredAudits = 0 /\ lockAudits = 0

-----------------------------------------------------------------------------
(* Expiry. *)

\* Mutant of ExpiryDue: a share that somebody opened is passed over.
ExpiryDueUnviewed == due /\ status = "active" /\ viewCount = 0

\* lazilyExpireShareIfDue: its check and the WHERE of its UPDATE.
ExpiryDue == due /\ status = "active"

\* Expiry found by a metadata read, a member's reveal or the hourly sweep; the
\* transaction that wins the UPDATE writes the audit row.
ExpireIfDue ==
  /\ ExpiryDue
  /\ status' = "expired"
  /\ expiredAudits' = expiredAudits + 1
  /\ UNCHANGED <<share, due, viewCount, lockedAt, attempts, verification,
                 requests, tasks, delivered, viewedWith, lockAudits>>

-----------------------------------------------------------------------------
(* Reveal. *)

\* hasValidVerificationProof for a gated share.
ProofAccepted(p) == ~share.gated \/ (proof # 0 /\ proofFresh /\ p = proof)

\* precheckShareClaimable and precheckExternalShareClaimable on the row read:
\* the former lets a viewed share through to the claim.
Claimable ==
  /\ ~due
  /\ status = "active" \/ (status = "viewed" /\ ~share.external)

\* revealShare / revealExternalShare up to serializeBounded: the row is read,
\* the value decrypted, nothing is written.
RevealRead(q, p) ==
  /\ q \notin holding
  /\ ProofAccepted(p) /\ Claimable
  /\ holding' = holding \cup {q}
  /\ shownProof' = [shownProof EXCEPT ![q] = p]
  /\ outdated' = outdated \ {q}
  /\ UNCHANGED <<row, verification, tasks, history>>

\* A losing reveal of an external share: answered now, counted later.
RevealMiss(p) ==
  /\ share.external
  /\ ~ProofAccepted(p) \/ ~Claimable
  /\ attempts + counting["expiring"] + counting["plain"] < MaxMisses
  /\ LET kind == IF ~ProofAccepted(p) \/ status = "active" THEN "expiring" ELSE "plain"
     IN  counting' = [counting EXCEPT ![kind] = @ + 1]
  /\ UNCHANGED <<row, verification, requests, mailing, history>>

\* Mutant of ClaimHolds: the claim is a plain UPDATE by id.
ClaimUnconditional == TRUE

\* claimSingleUseView and recordMultiView match a row.
ClaimHolds == status = "active"

\* The request is over.
Answered(q) ==
  /\ holding' = holding \ {q} /\ outdated' = outdated \ {q}
  /\ shownProof' = [shownProof EXCEPT ![q] = 0]

\* The claim with its audit row, in one transaction: the value is delivered.
RevealClaim(q) ==
  /\ q \in holding /\ ClaimHolds /\ delivered < MaxViews
  /\ status' = IF share.singleUse THEN "viewed" ELSE status
  /\ viewCount' = IF share.singleUse THEN 1 ELSE viewCount + 1
  /\ delivered' = delivered + 1
  /\ viewedWith' = shownProof[q]
  /\ Answered(q)
  /\ UNCHANGED <<share, due, lockedAt, attempts, verification, tasks,
                 expiredAudits, lockAudits>>

\* The claim matches no row: resolveLostClaim, resolveLostExternalClaim.
RevealLost(q) ==
  /\ q \in holding /\ ~ClaimHolds
  /\ Answered(q)
  /\ IF share.external
       THEN /\ attempts + counting["expiring"] + counting["plain"] < MaxMisses
            /\ counting' = [counting EXCEPT !["plain"] = @ + 1]
       ELSE UNCHANGED counting
  /\ UNCHANGED <<row, verification, mailing, history>>

\* serializeBounded finds the shared field gone, or the audit write fails:
\* nothing is claimed, the request ends.
RevealAborted(q) ==
  /\ q \in holding
  /\ Answered(q)
  /\ UNCHANGED <<row, verification, tasks, history>>

\* The >= of recordLosingAttempt and of the confirm's last failure.
CapReached(count, cap) == count >= cap

\* applyDeferredLosingAttempt: lazy expiry if due, then the counter, then
\* lockShareAfterAttemptCap unless the share is revoked already.
CountLosingAttempt(kind) ==
  LET expires == kind = "expiring" /\ ExpiryDue
      locks   == status # "revoked" /\ CapReached(attempts + 1, MaxAttempts)
  IN
  /\ counting[kind] > 0
  /\ counting' = [counting EXCEPT ![kind] = @ - 1]
  /\ attempts' = attempts + 1
  /\ expiredAudits' = IF expires THEN expiredAudits + 1 ELSE expiredAudits
  /\ status' = IF locks THEN "revoked" ELSE IF expires THEN "expired" ELSE status
  /\ lockedAt' = (lockedAt \/ locks)
  /\ code' = IF locks THEN 0 ELSE code
  /\ codeExpired' = IF locks THEN FALSE ELSE codeExpired
  /\ lockAudits' = IF locks THEN lockAudits + 1 ELSE lockAudits
  /\ UNCHANGED <<share, due, viewCount, sends, cooling, guesses, proof,
                 proofFresh, requests, mailing, delivered, viewedWith>>

-----------------------------------------------------------------------------
(* Verification of a gated share. *)

\* verifiableShareCondition, evaluated under the row lock.
Verifiable ==
  /\ share.gated /\ status = "active" /\ ~due /\ ~lockedAt
  /\ guesses < MaxGuesses

\* requestExternalShareVerification schedules the send whatever the status.
RequestCode ==
  /\ share.gated /\ ~mailing
  /\ mailing' = TRUE
  /\ UNCHANGED <<row, verification, requests, counting, history>>

\* sendVerificationCode replaces any previous code.
SendCode ==
  /\ mailing /\ Verifiable /\ sends < MaxSends /\ ~cooling
  /\ code' = sends + 1 /\ codeExpired' = FALSE
  /\ sends' = sends + 1 /\ cooling' = TRUE
  /\ mailing' = FALSE
  /\ UNCHANGED <<row, guesses, proof, proofFresh, requests, counting, history>>

\* The UPDATE's WHERE matches nothing, or the deferred write fails.
SendDropped ==
  /\ mailing
  /\ mailing' = FALSE
  /\ UNCHANGED <<row, verification, requests, counting, history>>

\* confirmExternalShareVerification with the right code: the reserved attempt
\* is refunded, the code is used up, a proof is issued.
ConfirmCode ==
  /\ Verifiable /\ code # 0 /\ ~codeExpired
  /\ proof' = code /\ proofFresh' = TRUE
  /\ code' = 0
  /\ UNCHANGED <<row, codeExpired, sends, cooling, guesses, requests, tasks, history>>

\* ... with a wrong code: the attempt stays counted, the last one locks.
GuessWrong ==
  LET locks == CapReached(guesses + 1, MaxGuesses) IN
  /\ Verifiable /\ code # 0 /\ ~codeExpired
  /\ guesses' = guesses + 1
  /\ status' = IF locks THEN "revoked" ELSE status
  /\ lockedAt' = locks
  /\ code' = IF locks THEN 0 ELSE code
  /\ lockAudits' = IF locks THEN lockAudits + 1 ELSE lockAudits
  /\ UNCHANGED <<share, due, viewCount, attempts, codeExpired, sends, cooling,
                 proof, proofFresh, requests, tasks, delivered, viewedWith,
                 expiredAudits>>

-----------------------------------------------------------------------------
(* Revocation, supersession, time and restarts. *)

\* revokeShare, and autoRevokeSharesForDeactivatedUser for the sharer.
Revoke ==
  /\ status = "active"
  /\ status' = "revoked"
  /\ UNCHANGED <<share, due, viewCount, lockedAt, attempts, verification,
                 requests, tasks, history>>

\* A promotion that covers the share's scope: the credential's current value
\* changes and, in the same transaction, supersedeOutstandingSharesForRotation.
Supersede ==
  /\ status \in {"active", "viewed"}
  /\ status' = "superseded"
  /\ outdated' = holding
  /\ UNCHANGED <<share, due, viewCount, lockedAt, attempts, verification,
                 holding, shownProof, tasks, history>>

ShareFallsDue ==
  /\ ~due
  /\ due' = TRUE
  /\ UNCHANGED <<share, status, viewCount, lockedAt, attempts, verification,
                 requests, tasks, history>>

CodeExpires ==
  /\ code # 0 /\ ~codeExpired
  /\ codeExpired' = TRUE
  /\ UNCHANGED <<row, code, sends, cooling, guesses, proof, proofFresh,
                 requests, tasks, history>>

CooldownEnds ==
  /\ cooling
  /\ cooling' = FALSE
  /\ UNCHANGED <<row, code, codeExpired, sends, guesses, proof, proofFresh,
                 requests, tasks, history>>

ProofExpires ==
  /\ proofFresh
  /\ proofFresh' = FALSE
  /\ UNCHANGED <<row, code, codeExpired, sends, cooling, guesses, proof,
                 requests, tasks, history>>

\* The process stops: open transactions roll back, pendingLosingAttempts and
\* scheduled sends are gone.
Restart ==
  /\ holding' = {} /\ outdated' = {}
  /\ shownProof' = [q \in Requests |-> 0]
  /\ counting' = [kind \in TaskKinds |-> 0] /\ mailing' = FALSE
  /\ UNCHANGED <<row, verification, history>>

-----------------------------------------------------------------------------
Proofs == 0 .. MaxSends

RevealNext ==
  \/ ExpireIfDue
  \/ \E q \in Requests, p \in Proofs : RevealRead(q, p)
  \/ \E p \in Proofs : RevealMiss(p)
  \/ \E q \in Requests : RevealClaim(q) \/ RevealLost(q) \/ RevealAborted(q)
  \/ \E kind \in TaskKinds : CountLosingAttempt(kind)
  \/ RequestCode \/ SendCode \/ SendDropped \/ ConfirmCode \/ GuessWrong
  \/ Revoke \/ Supersede
  \/ ShareFallsDue \/ CodeExpires \/ CooldownEnds \/ ProofExpires
  \/ Restart

RevealSpec == RevealInit /\ [][RevealNext]_revealVars

\* The expiry sweep is an hourly cron.
RevealFairness == WF_revealVars(ExpireIfDue)

-----------------------------------------------------------------------------
(* Properties. *)

\* Every column holds a value of its type; no send passes
\* EXTERNAL_SHARE_VERIFICATION_MAX_SENDS and no wrong guess
\* EXTERNAL_SHARE_VERIFICATION_MAX_ATTEMPTS.
RevealTypeOK ==
  /\ share \in Profiles /\ status \in Statuses
  /\ due \in BOOLEAN /\ lockedAt \in BOOLEAN
  /\ viewCount \in 0 .. MaxViews /\ attempts \in 0 .. MaxMisses
  /\ code \in Proofs /\ codeExpired \in BOOLEAN
  /\ sends \in 0 .. MaxSends /\ cooling \in BOOLEAN
  /\ guesses \in 0 .. MaxGuesses
  /\ proof \in Proofs /\ proofFresh \in BOOLEAN
  /\ holding \subseteq Requests /\ outdated \subseteq holding
  /\ shownProof \in [Requests -> Proofs]
  /\ counting \in [TaskKinds -> 0 .. MaxMisses] /\ mailing \in BOOLEAN
  /\ delivered \in 0 .. MaxViews /\ viewedWith \in Proofs
  /\ expiredAudits \in Nat /\ lockAudits \in Nat

\* However many reveals read the row before one of them claims it, a
\* single-use share delivers its value once, and view_count says how often a
\* value left the server.
DeliveriesAccounted ==
  /\ share.singleUse => delivered <= 1
  /\ viewCount = delivered

\* A gated share's value was delivered only to a request that presented a
\* proof bought with a mailed code.
OnlyVerifiedGuestServed ==
  share.gated /\ delivered > 0 => viewedWith \in 1 .. sends

\* A request that decrypted a value which a promotion has since replaced can
\* no longer deliver it: the promotion supersedes the share in the same
\* transaction, so the claim finds no active row.
OutdatedCannotClaim == outdated # {} => status # "active"

\* A spent budget closes the share for good: the last wrong guess and the
\* last losing reveal leave it revoked, and a locked share is revoked.
SpentBudgetCloses ==
  /\ guesses >= MaxGuesses => lockedAt
  /\ attempts >= MaxAttempts => status = "revoked"
  /\ lockedAt => status = "revoked"

\* Whichever of the sweep, a lazy check or a deferred task finds the share
\* due, CREDENTIAL_SHARE_EXPIRED is written once, and a burst that crosses
\* a cap locks and audits once.
AuditedOnce ==
  /\ expiredAudits <= 1 /\ (status = "expired" => expiredAudits = 1)
  /\ lockAudits = IF lockedAt THEN 1 ELSE 0

\* What one share guarantees in every state: each delivery has its claim, the value
\* went to an entitled reader only and never after it was replaced, a spent budget
\* closes the share, and its end is audited once (claimSingleUseReveal,
\* recordVerificationFailure, supersedeShares).
RevealSafe ==
    /\ RevealTypeOK
    /\ DeliveriesAccounted
    /\ OnlyVerifiedGuestServed
    /\ OutdatedCannotClaim
    /\ SpentBudgetCloses
    /\ AuditedOnce

\* A share nobody opens again still stops being active after its expiry.
DueEventuallyCloses == (due /\ status = "active") ~> (status # "active")
=============================================================================
