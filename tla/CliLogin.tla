------------------------------ MODULE CliLogin ------------------------------
(***************************************************************************)
(* One browser-approved CLI sign-in: the device grant, the user session it *)
(* issues with its refresh tokens, and the organization credentials minted *)
(* from that session.  modules/auth/cli-device-service.ts,                 *)
(* cli-device-revoke.ts, user-session.ts, cli-user-session-routes.ts.      *)
(*                                                                         *)
(* A step is a transaction: poll and decide lock the grant, a refresh its  *)
(* token.  A transaction that throws is rolled back, whatever it wrote.    *)
(***************************************************************************)
EXTENDS Naturals, FiniteSets

CONSTANTS Browsers,        \* browser sessions that may decide on the grant
          Operators,       \* those whose user is a platform operator
          None,            \* no approver
          StepUpLimit,     \* CLI_DEVICE_STEP_UP_FAILURE_LIMIT
          MaxInterval,     \* CLI_DEVICE_MAX_INTERVAL_SECONDS in slow-down steps
          MaxTokens,       \* bound on the refresh tokens
          MaxCredentials,  \* bound on the organization credentials
          MaxExchanges     \* bound on the exchanges in flight

ASSUME CliBounds ==
    /\ Operators \subseteq Browsers /\ None \notin Browsers
    /\ StepUpLimit \in Nat \ {0} /\ MaxInterval \in Nat \ {0}
    /\ MaxTokens \in Nat /\ MaxCredentials \in Nat /\ MaxExchanges \in Nat

VARIABLES status,      \* cli_device_grants.status
          expired,     \* the grant's expires_at has passed
          failures,    \* step_up_failures
          interval,    \* interval_seconds, in steps of five
          soon,        \* a poll now comes before the interval has passed
          approver,    \* approver_session_id
          browser,     \* live browser sessions
          session,     \* the user session: none, live, revoked
          userIdle,        \* its last_active_at is older than the idle timeout
          tokens,      \* refresh tokens inserted
          used,        \* those with used_at
          late,        \* used longer ago than the reuse grace
          revokedTokens,\* those with revoked_at
          exchange,    \* exchanges verified and not yet committed
          credentials, \* organization credentials inserted and linked
          credRevoked, \* those whose organization session is revoked
          answer,      \* the last answer of refresh or verify
          issued,      \* history: user sessions issued from the grant
          overtaken    \* history: credentials of an exchange verified before
                       \* the user session was revoked and committed after

grant == <<status, expired, failures, interval, soon, approver>>
user  == <<session, userIdle, tokens, used, late, revokedTokens>>
creds == <<exchange, credentials, credRevoked, overtaken>>
cliVars  == <<grant, browser, user, creds, answer, issued>>

Tokens      == 1..tokens
Credentials == 1..credentials

CliInit ==
    /\ status = "pending" /\ expired = FALSE /\ failures = 0
    /\ interval = 1 /\ soon = FALSE /\ approver = None
    /\ browser = Browsers
    /\ session = "none" /\ userIdle = FALSE
    /\ tokens = 0 /\ used = {} /\ late = {} /\ revokedTokens = {}
    /\ exchange = 0 /\ credentials = 0 /\ credRevoked = {}
    /\ answer = "none" /\ issued = 0 /\ overtaken = {}

-----------------------------------------------------------------------------
(* decideDeviceGrant.  The request was authenticated before, so the deciding *)
(* session may have been revoked since.                                      *)
Decidable == status = "pending" /\ ~expired

Deny ==
    /\ Decidable
    /\ status' = "denied"
    /\ UNCHANGED <<expired, failures, interval, soon, approver, browser, user,
                   creds, answer, issued>>

(* applyStepUp with a wrong code; without an enrollment nothing is written.  *)
StepUpFails(b) ==
    /\ Decidable /\ b \in Operators
    /\ failures' = failures + 1
    /\ status' = IF failures' >= StepUpLimit THEN "denied" ELSE status
    /\ UNCHANGED <<expired, interval, soon, approver, browser, user, creds,
                   answer, issued>>

(* A member approves at once, an operator with a valid code.                 *)
Approve(b) ==
    /\ Decidable
    /\ status' = "approved" /\ approver' = b
    /\ UNCHANGED <<expired, failures, interval, soon, browser, user, creds,
                   answer, issued>>

(* The browser session is revoked, and with it the grant it approved, unless *)
(* that is consumed (revokeDeviceGrantsForSessions).                         *)
GrantsRevokedWith(b) == approver = b /\ status = "approved"

RevokeBrowser(b) ==
    /\ b \in browser /\ browser' = browser \ {b}
    /\ status' = IF GrantsRevokedWith(b) THEN "revoked" ELSE status
    /\ UNCHANGED <<expired, failures, interval, soon, approver, user, creds,
                   answer, issued>>

-----------------------------------------------------------------------------
(* pollDeviceGrant, under the lock of the grant.                             *)
TerminalPoll == expired \/ status \in {"consumed", "denied", "revoked"}

\* Mutant of ApproverSessionLive: an approval that names a session is enough.
ApproverSessionKnown == approver # None

ApproverSessionLive == approver \in browser

SlowDown ==
    /\ ~TerminalPoll /\ soon
    /\ interval' = IF interval < MaxInterval THEN interval + 1 ELSE MaxInterval
    /\ UNCHANGED <<status, expired, failures, soon, approver, browser, user,
                   creds, answer, issued>>

PollPending ==
    /\ ~TerminalPoll /\ ~soon /\ status = "pending"
    /\ soon' = TRUE
    /\ UNCHANGED <<status, expired, failures, interval, approver, browser, user,
                   creds, answer, issued>>

PollRevoked ==
    /\ ~TerminalPoll /\ ~soon /\ status # "pending" /\ ~ApproverSessionLive
    /\ status' = "revoked" /\ soon' = TRUE
    /\ UNCHANGED <<expired, failures, interval, approver, browser, user, creds,
                   answer, issued>>

(* issueFromGrant and issueUserSessionInTx.                                  *)
PollIssue ==
    /\ ~TerminalPoll /\ ~soon /\ status # "pending" /\ ApproverSessionLive
    /\ status' = "consumed" /\ soon' = TRUE
    /\ session' = "live" /\ tokens' = 1 /\ issued' = issued + 1
    /\ UNCHANGED <<expired, failures, interval, approver, browser, userIdle, used,
                   late, revokedTokens, creds, answer>>

-----------------------------------------------------------------------------
\* Mutant of RevokeUserSession: the links are not followed.
RevokeSessionOnly ==
    /\ session' = "revoked" /\ revokedTokens' = Tokens
    /\ UNCHANGED credRevoked

(* revokeUserSessionInTx: the session, its tokens, and the organization      *)
(* sessions linked to it when the links are read.                            *)
RevokeUserSession ==
    /\ session' = "revoked" /\ revokedTokens' = Tokens
    /\ credRevoked' = Credentials

(* revokeUserSessionById or, with any token of the session,                  *)
(* revokeUserSessionByRefresh.                                               *)
Revoke ==
    /\ session = "live"
    /\ RevokeUserSession
    /\ UNCHANGED <<grant, browser, userIdle, tokens, used, late, exchange,
                   credentials, overtaken, answer, issued>>

(* rotateUserRefresh.                                                        *)
Rotate(t) ==
    /\ t \in Tokens /\ t \notin revokedTokens /\ session = "live"
    /\ t \notin used /\ ~userIdle /\ tokens < MaxTokens
    /\ used' = used \cup {t} /\ tokens' = tokens + 1 /\ answer' = "issued"
    /\ UNCHANGED <<grant, browser, session, userIdle, late, revokedTokens, creds, issued>>

\* A token used before: within the grace it is refused; after it the session is
\* revoked and the refusal thrown, which rolls the revocation back.
RefreshReused(t) ==
    /\ t \in Tokens /\ t \notin revokedTokens /\ session = "live" /\ t \in used
    /\ answer' = IF t \in late THEN "refresh_token_revoked" ELSE "refresh_token_invalid"
    /\ UNCHANGED <<grant, browser, user, creds, issued>>

\* The idle session is revoked and the refusal thrown: rolled back as well, in
\* rotateUserRefresh and in verifyUserSession.
RefuseIdle ==
    /\ session = "live" /\ userIdle
    /\ answer' = "session_expired"
    /\ UNCHANGED <<grant, browser, user, creds, issued>>

-----------------------------------------------------------------------------
(* POST /cli/org verifies the session in one transaction (verifyUserSession) *)
(* and mints the credential in another (exchangeOrgCredential), which looks  *)
(* at the membership but not at the user session.                            *)
Verify ==
    /\ session = "live" /\ ~userIdle /\ exchange < MaxExchanges
    /\ exchange' = exchange + 1 /\ answer' = "verified"
    /\ UNCHANGED <<grant, browser, user, credentials, credRevoked, overtaken, issued>>

ExchangeCommit ==
    /\ exchange > 0 /\ credentials < MaxCredentials
    /\ credentials' = credentials + 1 /\ exchange' = exchange - 1
    /\ overtaken' = IF session = "live" THEN overtaken ELSE overtaken \cup {credentials + 1}
    /\ UNCHANGED <<grant, browser, user, credRevoked, answer, issued>>

(* Not a member, or no answer from the membership check.                     *)
ExchangeRefused ==
    /\ exchange > 0 /\ exchange' = exchange - 1
    /\ UNCHANGED <<grant, browser, user, credentials, credRevoked, overtaken,
                   answer, issued>>

(* The credential's own session is revoked by one of the org-side revokers.  *)
RevokeCredential(c) ==
    /\ c \in Credentials \ credRevoked /\ credRevoked' = credRevoked \cup {c}
    /\ UNCHANGED <<grant, browser, user, exchange, credentials, overtaken,
                   answer, issued>>

-----------------------------------------------------------------------------
(* Time.                                                                     *)
GrantExpires ==
    /\ ~expired /\ expired' = TRUE
    /\ UNCHANGED <<status, failures, interval, soon, approver, browser, user,
                   creds, answer, issued>>

(* The browser session passes its expiry or its idle timeout, not revoked.   *)
BrowserLapses(b) ==
    /\ b \in browser /\ browser' = browser \ {b}
    /\ UNCHANGED <<grant, user, creds, answer, issued>>

IntervalPasses ==
    /\ soon /\ soon' = FALSE
    /\ UNCHANGED <<status, expired, failures, interval, approver, browser, user,
                   creds, answer, issued>>

UserSessionIdles ==
    /\ session = "live" /\ ~userIdle /\ userIdle' = TRUE
    /\ UNCHANGED <<grant, browser, session, tokens, used, late, revokedTokens,
                   creds, answer, issued>>

ReuseGraceEnds(t) ==
    /\ t \in used \ late /\ late' = late \cup {t}
    /\ UNCHANGED <<grant, browser, session, userIdle, tokens, used, revokedTokens,
                   creds, answer, issued>>

CliNext ==
    \/ Deny
    \/ \E b \in Browsers :
          StepUpFails(b) \/ Approve(b) \/ RevokeBrowser(b) \/ BrowserLapses(b)
    \/ SlowDown \/ PollPending \/ PollRevoked \/ PollIssue
    \/ Revoke \/ RefuseIdle
    \/ \E t \in 1..MaxTokens : Rotate(t) \/ RefreshReused(t) \/ ReuseGraceEnds(t)
    \/ Verify \/ ExchangeCommit \/ ExchangeRefused
    \/ \E c \in 1..MaxCredentials : RevokeCredential(c)
    \/ GrantExpires \/ IntervalPasses \/ UserSessionIdles

CliSpec == CliInit /\ [][CliNext]_cliVars

-----------------------------------------------------------------------------
(* Properties                                                               *)

\* The variables have their types; the interval never passes its cap.
CliTypeOK ==
    /\ status \in {"pending", "approved", "denied", "consumed", "revoked"}
    /\ expired \in BOOLEAN /\ failures \in Nat /\ soon \in BOOLEAN
    /\ interval \in 1..MaxInterval
    /\ approver \in Browsers \cup {None} /\ browser \subseteq Browsers
    /\ session \in {"none", "live", "revoked"} /\ userIdle \in BOOLEAN
    /\ tokens \in Nat /\ used \subseteq Tokens /\ late \subseteq used
    /\ revokedTokens \subseteq Tokens
    /\ exchange \in 0..MaxExchanges /\ credentials \in Nat
    /\ credRevoked \subseteq Credentials /\ overtaken \subseteq Credentials
    /\ issued \in Nat

\* However often the device polls, a grant issues one user session
\* (pollDeviceGrant, terminalPoll).
IssuedOnce == issued <= 1

\* A session is issued only from a grant that is approved and not expired, and
\* whose approving browser session is live at that moment, even when the
\* approval was committed after that session had been revoked.
IssuedFromLiveApproval ==
    [][issued' # issued =>
          status = "approved" /\ ~expired /\ approver \in browser]_cliVars

\* Denied, consumed and revoked are final: no later decision, poll or revocation
\* of the browser session changes what the grant became.
OutcomeFinal ==
    [][(status \in {"denied", "consumed", "revoked"}) => status' = status]_cliVars

\* No step issues from an approval whose browser session is gone, and none changes
\* the outcome of a decided grant.
CliSteps ==
    /\ IssuedFromLiveApproval
    /\ OutcomeFinal

\* A grant that saw the limit of wrong codes is denied: a further guess, or an
\* approval by anybody else, finds it closed (applyStepUp).
StepUpGuessesBounded ==
    failures <= StepUpLimit /\ (failures = StepUpLimit => status = "denied")

\* The refresh tokens form a chain with one usable end, and none once the user
\* session is revoked (rotateUserRefresh, revokeUserSessionInTx).
OneUsableToken ==
    LET usable == Tokens \ (used \cup revokedTokens) IN
    CASE session = "none"    -> tokens = 0
      [] session = "live"    -> Cardinality(usable) = 1
      [] session = "revoked" -> usable = {}

\* Of a revoked user session only such credentials live as were being minted
\* when it was revoked (revokeUserSessionInTx, exchangeOrgCredential).
OnlyOvertakenCredential ==
    session = "revoked" => Credentials \ credRevoked \subseteq overtaken

\* A device grant yields one user session after a bounded number of step-up
\* guesses, a user session has one usable refresh token, and only a credential
\* that was being minted at the revocation survives it (cli-device-service.ts,
\* user-session.ts).
CliSafe ==
    /\ CliTypeOK
    /\ IssuedOnce
    /\ StepUpGuessesBounded
    /\ OneUsableToken
    /\ OnlyOvertakenCredential

\* packages/db/src/schema/user-sessions.ts: "revoking the user session also
\* revokes those credentials".
RevokedSessionHasNoCredential ==
    session = "revoked" => Credentials \subseteq credRevoked

\* docs/configuration.md: "Idle time after which a session is invalidated".
\* The revocation is rolled back by the error that reports it.
IdleSessionInvalidated ==
    answer = "session_expired" => session = "revoked"
=============================================================================
