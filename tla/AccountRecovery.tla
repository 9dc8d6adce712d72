--------------------------- MODULE AccountRecovery ---------------------------
(* The second factor of one user and the ways back in without it             *)
(* (apps/api/src/modules/auth: mfa.ts, mfa-login.ts, recovery.ts): enrolment *)
(* of an authenticator, the login challenge, recovery codes, and the mailed  *)
(* recovery link that resets the password and may replace the authenticator. *)
(*                                                                           *)
(* A request whose first reads are outside the transaction that acts on them *)
(* is a call in flight (calls); what one transaction does under its row      *)
(* locks is one step.  A completed recovery is two steps: it lists the       *)
(* sessions without locking them, and what happens before the listed ones    *)
(* are revoked is seen by neither.  Secrets, batches of recovery codes (a    *)
(* batch is one code), links and passwords are numbered in the order they    *)
(* were made.                                                                *)
EXTENDS Integers, FiniteSets

CONSTANTS
    Calls,        \* requests in flight
    Window,       \* MFA_TOTP_WINDOW: steps accepted on either side of now
    UsedTtl,      \* TOTP_USED_CODES_TTL_MINUTES, in steps
    MaxGuesses,   \* MFA_LOGIN_MAX_ATTEMPTS
    MaxStep,      \* bound on the clock
    MaxSecrets,   \* bound on the secrets generated
    MaxBatches,   \* bound on the batches of recovery codes issued
    MaxLinks      \* bound on the recovery links created

\* validateEnv refuses a configuration that forgets used codes while they are valid.
ASSUME AccountConstants ==
    /\ Window \in Nat /\ UsedTtl \in Nat /\ UsedTtl > Window + 1
    /\ MaxGuesses \in Nat \ {0}
    /\ MaxStep \in Nat /\ MaxSecrets \in Nat /\ MaxBatches \in Nat /\ MaxLinks \in Nat

VARIABLES
    step,         \* the TOTP counter of the present
    secrets,      \* secrets generated so far
    staged,       \* secret of the row with status pending, or 0
    confirmed,    \* secret of the row with status confirmed, or 0
    enrolledAt,   \* users.mfa_enrolled_at is set
    usedCodes,    \* totp_used_codes: pairs of secret and counter
    batch,        \* batches of recovery codes issued
    unused,       \* recovery codes without used_at
    password,     \* the password in force
    sessions,     \* passwords from which a live session stems
    cliPasswords, \* replaced passwords from which a live CLI sign-in stems
    resetting,    \* the completion that listed the sessions and not yet committed
    challenge,    \* the row of pending_mfa_sessions
    made,         \* recovery links created so far
    live,         \* those neither used, superseded nor expired
    calls,        \* the call each request is in
    \* history
    accepted,     \* authenticator codes that were accepted
    replayed,     \* one of them was accepted twice
    spent,        \* recovery codes that bought a session, and those that did twice
    stranded,     \* a recovery promoted a row that was not staged
    overtakenPasswords \* passwords that a sign-in held, or a session stemmed from
                       \* that was opened or refreshed, while they were replaced

factor == <<secrets, staged, confirmed, enrolledAt>>
codes == <<batch, unused>>
totp == <<usedCodes, accepted, replayed>>
past == <<spent, stranded, overtakenPasswords>>
links == <<made, live>>
signedIn == <<sessions, cliPasswords, resetting>>
accountVars == <<step, factor, totp, codes, password, signedIn, challenge, links, calls, past>>

NoCall == [op |-> "none"]
NoChallenge == [pw |-> 0]
NoReset == [link |-> 0, listed |-> {}, late |-> {}]

AccountInit ==
    /\ step = 0 /\ secrets = 0 /\ staged = 0 /\ confirmed = 0 /\ enrolledAt = FALSE
    /\ usedCodes = {} /\ batch = 0 /\ unused = {}
    /\ password = 1 /\ sessions = {} /\ cliPasswords = {} /\ resetting = NoReset
    /\ challenge = NoChallenge
    /\ made = 0 /\ live = {} /\ calls = [c \in Calls |-> NoCall]
    /\ accepted = {} /\ replayed = FALSE
    /\ spent = [once |-> {}, twice |-> {}] /\ stranded = FALSE /\ overtakenPasswords = {}

Free(c) == calls[c] = NoCall
In(c, op) == calls[c].op = op
Enter(c, call) == calls' = [calls EXCEPT ![c] = call]
Leave(c) == calls' = [calls EXCEPT ![c] = NoCall]

\* A session of password p is inserted: a completion that has made its list
\* does not have it there.
OpenSession(p) ==
    /\ sessions' = sessions \cup {p}
    /\ resetting' = IF resetting = NoReset THEN NoReset
                    ELSE [resetting EXCEPT !.listed = @ \ {p}, !.late = @ \cup {p}]
    /\ UNCHANGED cliPasswords

-----------------------------------------------------------------------------
(* Authenticator codes: validateTotpCode and recordTotpUse. *)

Valid(secret) == {<<secret, n>> : n \in (step - Window)..(step + Window)}

\* A code is accepted when its row could be inserted; the row is the memory of it.
Accept(code) ==
    /\ code \notin usedCodes
    /\ usedCodes' = usedCodes \cup {code}
    /\ accepted' = accepted \cup {code}
    /\ replayed' = (replayed \/ code \in accepted)

-----------------------------------------------------------------------------
(* Sign-in with a password: loginUser reads the user row, then opens a       *)
(* session or, when the factor is enrolled, a challenge.                     *)

LoginUser(c) ==
    /\ Free(c)
    /\ Enter(c, [op |-> "login", pw |-> password, mfa |-> enrolledAt])
    /\ UNCHANGED <<step, factor, totp, codes, password, signedIn, challenge, links, past>>

CreateLoginSession(c) ==
    /\ In(c, "login") /\ ~calls[c].mfa
    /\ OpenSession(calls[c].pw)
    /\ Leave(c)
    /\ UNCHANGED <<step, factor, totp, codes, password, challenge, links, past>>

\* The new challenge replaces the one of an earlier sign-in.
CreatePendingMfaSession(c) ==
    /\ In(c, "login") /\ calls[c].mfa
    /\ challenge' = [pw |-> calls[c].pw, guesses |-> 0]
    /\ Leave(c)
    /\ UNCHANGED <<step, factor, totp, codes, password, signedIn, links, past>>

\* verifyLogin with a code that is accepted.
VerifyLogin ==
    /\ challenge # NoChallenge /\ confirmed # 0
    /\ \E code \in Valid(confirmed) : Accept(code)
    /\ OpenSession(challenge.pw)
    /\ challenge' = NoChallenge
    /\ UNCHANGED <<step, factor, codes, password, links, calls, past>>

\* consumeInvalidAttempt: the last attempt deletes the challenge.
ConsumeInvalidAttempt ==
    /\ challenge # NoChallenge /\ confirmed # 0
    /\ challenge' = IF challenge.guesses + 1 >= MaxGuesses THEN NoChallenge
                    ELSE [challenge EXCEPT !.guesses = @ + 1]
    /\ UNCHANGED <<step, factor, totp, codes, password, signedIn, links, calls, past>>

\* The challenge expires, which its deletion by verifyLogin or by the prune worker
\* only confirms, or verifyLogin finds no confirmed factor.
DeletePendingSession ==
    /\ challenge # NoChallenge
    /\ challenge' = NoChallenge
    /\ UNCHANGED <<step, factor, totp, codes, password, signedIn, links, calls, past>>

-----------------------------------------------------------------------------
(* Enrolment by a signed-in user. *)

EnrollCheck(c) ==
    /\ Free(c) /\ sessions # {} /\ ~enrolledAt
    /\ Enter(c, [op |-> "enroll"])
    /\ UNCHANGED <<step, factor, totp, codes, password, signedIn, challenge, links, past>>

\* The staged row is deleted and a new one inserted.
Stage ==
    /\ secrets < MaxSecrets
    /\ secrets' = secrets + 1 /\ staged' = secrets + 1
    /\ UNCHANGED <<confirmed, enrolledAt>>

EnrollMfa(c) ==
    /\ In(c, "enroll") /\ Stage /\ Leave(c)
    /\ UNCHANGED <<step, totp, codes, password, signedIn, challenge, links, past>>

\* verifyEnrollment took the staged row and the code is right; the unique index
\* on confirmed rows rolls it back when there is one already.
VerifyEnrollment ==
    /\ sessions # {} /\ staged # 0 /\ confirmed = 0
    /\ \E code \in Valid(staged) : Accept(code)
    /\ confirmed' = staged /\ staged' = 0 /\ enrolledAt' = TRUE
    /\ batch < MaxBatches /\ batch' = batch + 1 /\ unused' = unused \cup {batch + 1}
    /\ UNCHANGED <<step, secrets, password, signedIn, challenge, links, calls, past>>

\* A wrong code discards the staged row.
EnrollmentRefused ==
    /\ sessions # {} /\ staged # 0
    /\ staged' = 0
    /\ UNCHANGED <<step, secrets, confirmed, enrolledAt, totp, codes, password, signedIn,
                   challenge, links, calls, past>>

RegenerateRecoveryCodes ==
    /\ sessions # {} /\ confirmed # 0
    /\ \E code \in Valid(confirmed) : Accept(code)
    /\ batch < MaxBatches /\ batch' = batch + 1 /\ unused' = {batch + 1}
    /\ UNCHANGED <<step, factor, password, signedIn, challenge, links, calls, past>>

-----------------------------------------------------------------------------
(* A recovery code instead of the authenticator: user and password are read  *)
(* before the transaction, the code is matched and then claimed in it.       *)

RecoverCheck(c) ==
    /\ Free(c) /\ enrolledAt
    /\ \E k \in unused : Enter(c, [op |-> "recover", pw |-> password, code |-> k])
    /\ UNCHANGED <<step, factor, totp, codes, password, signedIn, challenge, links, past>>

\* Mutant of CodeClaimable: the row found earlier is not read again under its lock.
CodeClaimableUnlocked(k) == TRUE

\* The row is locked and must still have no used_at.
CodeClaimable(k) == k \in unused

RecoverWithCode(c) ==
    /\ In(c, "recover") /\ CodeClaimable(calls[c].code)
    /\ unused' = unused \ {calls[c].code}
    /\ spent' = [once |-> spent.once \cup {calls[c].code},
                 twice |-> spent.twice \cup (spent.once \cap {calls[c].code})]
    /\ OpenSession(calls[c].pw)
    /\ Leave(c)
    /\ UNCHANGED <<step, factor, totp, batch, password, challenge, links, stranded, overtakenPasswords>>

-----------------------------------------------------------------------------
(* The recovery link. *)

\* The UPDATE that supersedes earlier links sees those committed when it starts.
RequestLink(c) ==
    /\ Free(c)
    /\ Enter(c, [op |-> "link", seen |-> live])
    /\ UNCHANGED <<step, factor, totp, codes, password, signedIn, challenge, links, past>>

CreateRecoveryToken(c) ==
    /\ In(c, "link") /\ made < MaxLinks
    /\ made' = made + 1
    /\ live' = (live \ calls[c].seen) \cup {made + 1}
    /\ Leave(c)
    /\ UNCHANGED <<step, factor, totp, codes, password, signedIn, challenge, past>>

\* startRecoveryMfa: the link is looked up first, the row staged afterwards.
StartCheck(c) ==
    /\ Free(c) /\ live # {}
    /\ Enter(c, [op |-> "start"])
    /\ UNCHANGED <<step, factor, totp, codes, password, signedIn, challenge, links, past>>

StartRecoveryMfa(c) ==
    /\ In(c, "start") /\ Stage /\ Leave(c)
    /\ UNCHANGED <<step, totp, codes, password, signedIn, challenge, links, past>>

\* The old passwords that sign-ins still under way have checked.
HeldPasswords ==
    {calls[c].pw : c \in {d \in Calls : calls[d].op \in {"login", "recover"}}}
        \cup (IF challenge = NoChallenge THEN {} ELSE {challenge.pw})

\* revokeAllUserSessionsInOrg lists the sessions by an unlocked read.  The
\* password was updated before, so the user row keeps other completions out.
ListSessions(l) ==
    /\ resetting = NoReset
    /\ resetting' = [link |-> l, listed |-> sessions, late |-> {}]
    /\ UNCHANGED <<step, factor, totp, codes, password, sessions, cliPasswords, challenge,
                   links, calls, past>>

\* rotateRefreshToken on a listed session before it is revoked: its successor
\* is a row that is not on the list.
RefreshListed(p) ==
    /\ p \in sessions \cap resetting.listed /\ OpenSession(p)
    /\ UNCHANGED <<step, factor, totp, codes, password, challenge, links, calls, past>>

\* What every completion commits: the link is claimed, the password set and the
\* listed sessions of all organizations revoked.  Challenges are left alone, and
\* so are the user sessions of CLI sign-ins, of which there may be one.
ResetPassword ==
    /\ resetting.link \in live
    /\ live' = live \ {resetting.link} /\ UNCHANGED made
    /\ password' = password + 1
    /\ sessions' = sessions \ resetting.listed
    /\ resetting' = NoReset
    /\ overtakenPasswords' = overtakenPasswords \cup HeldPasswords \cup resetting.late
    /\ cliPasswords' \in {cliPasswords, cliPasswords \cup {password}}

CompleteAccountRecovery ==
    /\ ResetPassword
    /\ UNCHANGED <<step, factor, totp, codes, challenge, calls, spent, stranded>>

\* A wrong code, a failed audit write or a stopped process rolls it back.
RecoveryFails ==
    /\ resetting # NoReset /\ resetting' = NoReset
    /\ UNCHANGED <<step, factor, totp, codes, password, sessions, cliPasswords, challenge,
                   links, calls, past>>

\* loadPendingEnrollmentForUpdate selects by user only: with two rows either.
LoadedRow == {staged, confirmed} \ {0}

\* promoteStagedEnrollmentAndReissueCodes: the confirmed row is deleted, and then
\* the loaded one is updated if it is still there.
CompleteWithTotp ==
    /\ \E row \in LoadedRow :
        /\ \E code \in Valid(row) : Accept(code)
        /\ confirmed' = IF row = staged THEN staged ELSE 0
        /\ staged' = IF row = staged THEN 0 ELSE staged
        /\ stranded' = (stranded \/ row # staged)
    /\ enrolledAt' = TRUE
    /\ batch < MaxBatches /\ batch' = batch + 1 /\ unused' = {batch + 1}
    /\ ResetPassword
    /\ UNCHANGED <<step, secrets, challenge, calls, spent>>

-----------------------------------------------------------------------------
(* Requests that fail, time and the prune workers. *)

\* A call ends without effect: its row is gone, an index refuses it, or it fails.
Refused(c) ==
    /\ ~Free(c) /\ Leave(c)
    /\ UNCHANGED <<step, factor, totp, codes, password, signedIn, challenge, links, past>>

SignOut ==
    /\ \E p \in sessions : sessions' = sessions \ {p}
    /\ UNCHANGED <<step, factor, totp, codes, password, cliPasswords, resetting, challenge,
                   links, calls, past>>

\* exchangeOrgCredential: a CLI sign-in mints a session in an organization for
\* its user session, which a recovery does not revoke.
ExchangeOrgCredential ==
    /\ \E p \in cliPasswords \ sessions : OpenSession(p)
    /\ UNCHANGED <<step, factor, totp, codes, password, challenge, links, calls, past>>

Tick ==
    /\ step < MaxStep /\ step' = step + 1
    /\ UNCHANGED <<factor, totp, codes, password, signedIn, challenge, links, calls, past>>

LinkExpires(l) ==
    /\ live' = live \ {l} /\ UNCHANGED made
    /\ UNCHANGED <<step, factor, totp, codes, password, signedIn, challenge, calls, past>>

\* A row expires UsedTtl after the start of the step it belongs to.
PruneTotpUsedCodes ==
    /\ usedCodes' = {u \in usedCodes : u[2] + UsedTtl > step}
    /\ usedCodes' # usedCodes
    /\ UNCHANGED <<step, factor, accepted, replayed, codes, password, signedIn, challenge,
                   links, calls, past>>

PruneMfaPendingEnrollments ==
    /\ staged # 0 /\ staged' = 0
    /\ UNCHANGED <<step, secrets, confirmed, enrolledAt, totp, codes, password, signedIn,
                   challenge, links, calls, past>>

AccountNext ==
    \/ \E c \in Calls :
        \/ LoginUser(c) \/ CreateLoginSession(c) \/ CreatePendingMfaSession(c)
        \/ EnrollCheck(c) \/ EnrollMfa(c)
        \/ RecoverCheck(c) \/ RecoverWithCode(c)
        \/ RequestLink(c) \/ CreateRecoveryToken(c)
        \/ StartCheck(c) \/ StartRecoveryMfa(c)
        \/ Refused(c)
    \/ VerifyLogin \/ ConsumeInvalidAttempt \/ DeletePendingSession
    \/ VerifyEnrollment \/ EnrollmentRefused \/ RegenerateRecoveryCodes
    \/ \E l \in live : ListSessions(l) \/ LinkExpires(l)
    \/ \E p \in sessions : RefreshListed(p)
    \/ CompleteAccountRecovery \/ CompleteWithTotp \/ RecoveryFails
    \/ SignOut \/ ExchangeOrgCredential \/ Tick
    \/ PruneTotpUsedCodes \/ PruneMfaPendingEnrollments

AccountSpec == AccountInit /\ [][AccountNext]_accountVars

-----------------------------------------------------------------------------

CallTypes ==
    {NoCall} \cup [op : {"enroll", "start"}] \cup [op : {"link"}, seen : SUBSET (1..MaxLinks)]
        \cup [op : {"login"}, pw : 1..(MaxLinks + 1), mfa : BOOLEAN]
        \cup [op : {"recover"}, pw : 1..(MaxLinks + 1), code : 1..batch]

AccountTypeOK ==
    /\ step \in 0..MaxStep /\ secrets \in 0..MaxSecrets
    /\ staged \in 0..secrets /\ confirmed \in 0..secrets /\ enrolledAt \in BOOLEAN
    /\ usedCodes \subseteq accepted /\ batch \in 0..MaxBatches /\ unused \subseteq 1..batch
    /\ password \in 1..(MaxLinks + 1) /\ sessions \subseteq 1..password
    /\ challenge \in {NoChallenge}
         \cup [pw : 1..password, guesses : 0..(MaxGuesses - 1)]
    /\ made \in 0..MaxLinks /\ live \subseteq 1..made
    /\ cliPasswords \subseteq 1..password
    /\ resetting \in [link : 0..made, listed : SUBSET (1..password), late : SUBSET (1..password)]
    /\ calls \in [Calls -> CallTypes]

\* An authenticator code is good for one use although used codes are forgotten:
\* they are remembered longer than they are valid (recordTotpUse, the prune
\* worker and the check of TOTP_USED_CODES_TTL_MINUTES in env.ts).
NoTotpReplay == ~replayed

\* A recovery code buys one session, however many requests present it at once,
\* and unused codes all come from the newest batch (unless a recovery stranded
\* the enrolment).
RecoveryCodeOnce ==
    /\ spent.twice = {}
    /\ unused \subseteq {batch} \/ stranded

\* A session of a password that was reset belongs to a sign-in that had checked
\* that password, or was waiting for its code, when the reset committed, or was
\* opened or refreshed while the reset went through its list of sessions, or was
\* minted by a CLI sign-in, which completeAccountRecovery does not revoke.
OldPasswordOnlyOvertaken ==
    sessions \ {password} \subseteq overtakenPasswords \cup cliPasswords

\* A user marked as enrolled has an authenticator that can answer the challenge,
\* unless a recovery promoted a row that was not staged.
EnrolledCanAnswer == enrolledAt <=> confirmed # 0 \/ stranded

\* What the second factor and the ways around it guarantee: one use per code of
\* either kind, no session from a replaced password but by a sign-in or a
\* refresh under way or a CLI sign-in, and an enrolment that can be used.
AccountSafe ==
    /\ AccountTypeOK
    /\ NoTotpReplay
    /\ RecoveryCodeOnce
    /\ OldPasswordOnlyOvertaken
    /\ EnrolledCanAnswer

-----------------------------------------------------------------------------
(* What comments of the code say and TLC refutes. *)

\* recovery.ts and mfa.ts: the completion "locates the pending enrollment staged
\* by the recovery mfa/start endpoint", so that it never leaves a user who is
\* asked for a code without an authenticator.
RecoveryKeepsFactor == enrolledAt => confirmed # 0

\* recovery.ts: completeAccountRecovery is "password reset + optional MFA confirm
\* + multi-org session revocation", so that a replaced password leaves no
\* session but of what was signing in.
RecoveryEndsSessions == sessions \ {password} \subseteq overtakenPasswords

\* recovery-lookup.ts: "at most one link is ever simultaneously valid".
OneLiveLink == Cardinality(live) <= 1
=============================================================================
