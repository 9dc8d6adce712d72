----------------------------- MODULE OrgSession -----------------------------
(***************************************************************************)
(* The sessions of one user in one organization: login, refresh-token      *)
(* rotation with its grace window, the access check of every request, and  *)
(* the revokers (one session, the user's sessions, the organization's).    *)
(* modules/auth/service.ts, session-revoke.ts, plugins/authenticate.ts.    *)
(*                                                                         *)
(* A session is numbered in the order of its insert.  A login or a refresh *)
(* inserts one session with exactly one refresh token, so a token has the  *)
(* number of its session.  A step is a transaction, divided where a list   *)
(* is read before the rows on it are locked.                               *)
(***************************************************************************)
EXTENDS Naturals, FiniteSets

CONSTANTS MaxSessions,   \* bound on the inserts
          Cap            \* MAX_SESSIONS_PER_USER; 0 is no cap

ASSUME SessionBounds == MaxSessions \in Nat \ {0} /\ Cap \in Nat

Sessions == 1..MaxSessions

VARIABLES minted,        \* sessions inserted so far
          login,         \* login[s]: the session the chain of s began with
          revoked,       \* sessions.revoked_at is set
          tokenRevoked,  \* refresh_tokens.revoked_at is set
          successor,     \* refresh_tokens.new_session_id, 0 while unused
          blacklisted,   \* revoked_tokens has the session's jti
          idle,          \* last_active_at is older than the idle timeout
          graceOver,     \* the token was used longer ago than the grace window
          ended,         \* the access token and sessions.expires_at have passed
          member,        \* org_memberships.status is active
          entering,      \* the login in flight
          bulk,          \* the bulk revocation in flight
          request,       \* the request being authenticated
          given          \* the last grace answer: token presented, session named

sessionVars == <<minted, login, revoked, tokenRevoked, successor, blacklisted, idle,
          graceOver, ended, member, entering, bulk, request, given>>

rows == <<minted, login, revoked, tokenRevoked, successor, blacklisted>>

NoLogin   == [at |-> "none", drop |-> {}]
NoBulk    == [kind |-> "none", list |-> {}, upto |-> 0, keep |-> 0]
NoRequest == [at |-> "none", session |-> 0]
NoAnswer  == [token |-> 0, session |-> 0]

Minted == 1..minted
Live   == Minted \ revoked
LiveOf(l) == {s \in Live : login[s] = l}

SessionInit ==
    /\ minted = 0
    /\ login = [s \in Sessions |-> 0]
    /\ revoked = {} /\ tokenRevoked = {} /\ blacklisted = {}
    /\ successor = [s \in Sessions |-> 0]
    /\ idle = {} /\ graceOver = {} /\ ended = {}
    /\ member = TRUE
    /\ entering = NoLogin /\ bulk = NoBulk /\ request = NoRequest
    /\ given = NoAnswer

-----------------------------------------------------------------------------
(* revokeSessionById for each of S; one already revoked is left alone.      *)
RevokeSessions(S) ==
    /\ revoked' = revoked \cup S
    /\ tokenRevoked' = tokenRevoked \cup (S \ revoked)
    /\ blacklisted' = blacklisted \cup (S \ revoked)

(* loginUser, up to the transaction: the membership is read here.           *)
LoginCheck ==
    /\ entering.at = "none" /\ member /\ minted < MaxSessions
    /\ entering' = [NoLogin EXCEPT !.at = "checked"]
    /\ UNCHANGED <<rows, idle, graceOver, ended, member, bulk, request, given>>

(* The sessions activeSessionPredicate selects.                             *)
Counted == Live \ tokenRevoked

(* createLoginSessionInTx takes the organization's advisory lock, then      *)
(* enforceMaxSessionsForUser lists the least recently active sessions that  *)
(* must go.  Their order in time is left open.                              *)
DropCount == Cardinality(Counted) + 1 - Cap

LoginCap ==
    /\ entering.at = "checked" /\ bulk.kind # "org"
    /\ \E D \in SUBSET Counted :
          /\ IF Cap = 0 \/ Cardinality(Counted) < Cap THEN D = {}
             ELSE Cardinality(D) = DropCount
          /\ entering' = [at |-> "listed", drop |-> D]
    /\ UNCHANGED <<rows, idle, graceOver, ended, member, bulk, request, given>>

(* The listed sessions are locked and revoked, the new one inserted.        *)
LoginInsert ==
    /\ entering.at = "listed" /\ minted < MaxSessions
    /\ RevokeSessions(entering.drop)
    /\ minted' = minted + 1
    /\ login' = [login EXCEPT ![minted + 1] = minted + 1]
    /\ entering' = NoLogin
    /\ UNCHANGED <<successor, idle, graceOver, ended, member, bulk, request, given>>

(* A login that cannot insert (bound of the model, or a failed audit write) *)
(* rolls back and releases the lock.                                        *)
LoginRollback ==
    /\ entering.at \in {"checked", "listed"}
    /\ entering' = NoLogin
    /\ UNCHANGED <<rows, idle, graceOver, ended, member, bulk, request, given>>

-----------------------------------------------------------------------------
(* refreshSession, with the token and its session locked.                   *)
Refreshable(s) ==
    /\ successor[s] = 0
    /\ s \notin revoked /\ s \notin tokenRevoked /\ s \notin blacklisted

\* Mutant of RotateRefreshToken: the old session is not revoked.
RotateKeepingOld(s) ==
    /\ s \in Minted /\ Refreshable(s) /\ s \notin idle /\ minted < MaxSessions
    /\ minted' = minted + 1
    /\ login' = [login EXCEPT ![minted + 1] = login[s]]
    /\ successor' = [successor EXCEPT ![s] = minted + 1]
    /\ blacklisted' = blacklisted \cup {s}
    /\ UNCHANGED <<revoked, tokenRevoked, idle, graceOver, ended, member, entering,
                   bulk, request, given>>

\* rotateRefreshToken: the session is revoked, a new one inserted for the same
\* login, the token marked used; the old jti joins revoked_tokens.
RotateRefreshToken(s) ==
    /\ s \in Minted /\ Refreshable(s) /\ s \notin idle
    /\ minted < MaxSessions
    /\ minted' = minted + 1
    /\ login' = [login EXCEPT ![minted + 1] = login[s]]
    /\ successor' = [successor EXCEPT ![s] = minted + 1]
    /\ revoked' = revoked \cup {s}
    /\ blacklisted' = blacklisted \cup {s}
    /\ UNCHANGED <<tokenRevoked, idle, graceOver, ended, member, entering, bulk,
                   request, given>>

\* An idle session is cleaned up instead, and that commits.
RefreshIdle(s) ==
    /\ s \in Minted /\ Refreshable(s) /\ s \in idle
    /\ RevokeSessions({s})
    /\ UNCHANGED <<minted, login, successor, idle, graceOver, ended, member,
                   entering, bulk, request, given>>

(* handleGraceRefresh: the access claims of the successor are given again.  *)
GraceUsable(s) == successor[s] \notin revoked /\ successor[s] \notin ended

GraceRefresh(s) ==
    /\ s \in Minted /\ successor[s] # 0 /\ s \notin graceOver
    /\ GraceUsable(s)
    /\ given' = [token |-> s, session |-> successor[s]]
    /\ UNCHANGED <<rows, idle, graceOver, ended, member, entering, bulk, request>>

-----------------------------------------------------------------------------
(* Logout, or the deletion of one session.                                  *)
RevokeOne(s) ==
    /\ s \in Live
    /\ RevokeSessions({s})
    /\ UNCHANGED <<minted, login, successor, idle, graceOver, ended, member,
                   entering, bulk, request, given>>

(* The list of a bulk revocation is read before its rows are locked:        *)
(* revokeAllUserSessionsInOrg (also from the deactivation of the member),   *)
(* revokeAllOtherSessions, and the UPDATE of revokeAllSessionsForOrg, which *)
(* runs under the organization's advisory lock.                             *)
BulkKinds == {"user", "deactivate", "others", "org"}

BulkList(kind, keep) ==
    /\ bulk.kind = "none"
    /\ kind = "deactivate" => member
    /\ kind = "org" => entering.at # "listed"
    /\ IF kind = "others" THEN keep \in Live ELSE keep = 0
    /\ bulk' = [kind |-> kind, list |-> Live \ {keep}, upto |-> minted, keep |-> keep]
    /\ UNCHANGED <<rows, idle, graceOver, ended, member, entering, request, given>>

\* Mutant of BulkRevoke: sessions that look idle are skipped.
BulkRevokeActive ==
    /\ bulk.kind # "none"
    /\ RevokeSessions(bulk.list \ idle)
    /\ member' = (member /\ bulk.kind # "deactivate")
    /\ bulk' = NoBulk
    /\ UNCHANGED <<minted, login, successor, idle, graceOver, ended, entering,
                   request, given>>

\* The listed sessions are locked one by one, revoked, and all is committed.
BulkRevoke ==
    /\ bulk.kind # "none"
    /\ RevokeSessions(bulk.list)
    /\ member' = (member /\ bulk.kind # "deactivate")
    /\ bulk' = NoBulk
    /\ UNCHANGED <<minted, login, successor, idle, graceOver, ended, entering,
                   request, given>>

(* Service provisioning reactivates a deactivated membership.               *)
Reactivate ==
    /\ ~member /\ member' = TRUE
    /\ UNCHANGED <<rows, idle, graceOver, ended, entering, bulk, request, given>>

-----------------------------------------------------------------------------
(* authenticateRequest: the token, the session row, the role, in three      *)
(* transactions; then the activity is recorded.                             *)
RequestToken(s) ==
    /\ request.at = "none" /\ s \in Minted
    /\ s \notin ended /\ s \notin blacklisted
    /\ request' = [at |-> "token", session |-> s]
    /\ UNCHANGED <<rows, idle, graceOver, ended, member, entering, bulk, given>>

RequestSession ==
    /\ request.at = "token" /\ request.session \notin revoked
    /\ request.session \notin idle
    /\ request' = [request EXCEPT !.at = "session"]
    /\ UNCHANGED <<rows, idle, graceOver, ended, member, entering, bulk, given>>

RequestIdle ==
    /\ request.at = "token" /\ request.session \notin revoked
    /\ request.session \in idle
    /\ RevokeSessions({request.session})
    /\ request' = NoRequest
    /\ UNCHANGED <<minted, login, successor, idle, graceOver, ended, member,
                   entering, bulk, given>>

RequestServed ==
    /\ request.at = "session" /\ member
    /\ idle' = idle \ {request.session}
    /\ request' = NoRequest
    /\ UNCHANGED <<rows, graceOver, ended, member, entering, bulk, given>>

RequestRefused ==
    /\ \/ request.at = "token" /\ request.session \in revoked
       \/ request.at = "session" /\ ~member
    /\ request' = NoRequest
    /\ UNCHANGED <<rows, idle, graceOver, ended, member, entering, bulk, given>>

-----------------------------------------------------------------------------
(* Time, and the worker that prunes revoked_tokens past their expiry.       *)
BecomeIdle(s) ==
    /\ s \in Live \ idle /\ idle' = idle \cup {s}
    /\ UNCHANGED <<rows, graceOver, ended, member, entering, bulk, request, given>>

GraceEnds(s) ==
    /\ s \in Minted \ graceOver /\ successor[s] # 0
    /\ graceOver' = graceOver \cup {s}
    /\ UNCHANGED <<rows, idle, ended, member, entering, bulk, request, given>>

(* sessions.expires_at is one JWT_ACCESS_TTL_SECONDS after the insert, so   *)
(* sessions end in the order they were minted.                              *)
AccessEnds(s) ==
    /\ s \in Minted \ ended /\ 1..(s - 1) \subseteq ended
    /\ ended' = ended \cup {s}
    /\ UNCHANGED <<rows, idle, graceOver, member, entering, bulk, request, given>>

PruneRevokedTokens ==
    /\ blacklisted \cap ended # {}
    /\ blacklisted' = blacklisted \ ended
    /\ UNCHANGED <<minted, login, revoked, tokenRevoked, successor, idle,
                   graceOver, ended, member, entering, bulk, request, given>>

SessionNext ==
    \/ LoginCheck \/ LoginCap \/ LoginInsert \/ LoginRollback
    \/ \E s \in Sessions :
          \/ RotateRefreshToken(s) \/ RefreshIdle(s) \/ GraceRefresh(s)
          \/ RevokeOne(s) \/ RequestToken(s)
          \/ BecomeIdle(s) \/ GraceEnds(s) \/ AccessEnds(s)
    \/ \E kind \in BulkKinds, keep \in 0..MaxSessions : BulkList(kind, keep)
    \/ BulkRevoke \/ Reactivate
    \/ RequestSession \/ RequestIdle \/ RequestServed \/ RequestRefused
    \/ PruneRevokedTokens

SessionSpec == SessionInit /\ [][SessionNext]_sessionVars

-----------------------------------------------------------------------------
(* Properties                                                               *)

\* The variables have their types.
SessionTypeOK ==
    /\ minted \in 0..MaxSessions
    /\ login \in [Sessions -> 0..MaxSessions]
    /\ successor \in [Sessions -> 0..MaxSessions]
    /\ revoked \subseteq Minted /\ tokenRevoked \subseteq revoked
    /\ blacklisted \subseteq Minted
    /\ idle \subseteq Minted /\ graceOver \subseteq Minted /\ ended \subseteq Minted
    /\ member \in BOOLEAN
    /\ entering \in [at : {"none", "checked", "listed"}, drop : SUBSET Sessions]
    /\ bulk \in [kind : {"none"} \cup BulkKinds, list : SUBSET Sessions,
                 upto : 0..MaxSessions, keep : 0..MaxSessions]
    /\ request \in [at : {"none", "token", "session"}, session : 0..MaxSessions]
    /\ given \in [token : 0..MaxSessions, session : 0..MaxSessions]

\* A chain of refreshes never forks: however often a refresh token is presented,
\* inside or outside the grace window, one login has at most one live session
\* (rotateRefreshToken, handleGraceRefresh).
OneLivePerLogin == \A l \in Minted : Cardinality(LiveOf(l)) <= 1

\* Tokens, sessions and revocations agree, and a login has one live session
\* however often its refresh token is used (rotateRefreshToken).
SessionSafe ==
    /\ SessionTypeOK
    /\ OneLivePerLogin

\* A login whose sessions are all revoked is over: no token of it, used or not,
\* brings a session back (refreshSession's checks of both rows).
EndedLoginStaysEnded ==
    [][\A l \in Minted : LiveOf(l) = {} => LiveOf(l)' = {}]_sessionVars

\* A grace answer names a live session of the login whose token was presented
\* (handleGraceRefresh).
GraceNamesLive ==
    [][given' # given =>
          /\ given'.session \in Live
          /\ login[given'.session] = login[given'.token]]_sessionVars

\* Once the live session of a login is idle, and no request that was checked
\* before is still on its way, the login gets no further session and the idle
\* one is not used again (the idle checks of refresh and of every request).
IdleLoginEnds ==
    [][\A s \in Live \cap idle :
          request # [at |-> "session", session |-> s] =>
             /\ s \in idle'
             /\ LiveOf(login[s])' \subseteq {s}]_sessionVars

\* A bulk revocation leaves alive only what was inserted after it read its list
\* (and the session it keeps).  For an organization-wide one that is never a
\* login, which its advisory lock keeps out, but a refresh of a listed session.
RevocationReachesListed ==
    [][bulk.kind # "none" /\ bulk' = NoBulk =>
          \A s \in Live' :
             \/ s = bulk.keep
             \/ s > bulk.upto /\ (bulk.kind = "org" => login[s] # s)]_sessionVars

\* A login leaves at most Cap counted sessions, unless a session it had listed
\* for revocation was refreshed in between (enforceMaxSessionsForUser).
CapUnlessOvertaken ==
    [][entering.at = "listed" /\ minted' = minted + 1 /\ login'[minted'] = minted' =>
          \/ Cap = 0
          \/ Cardinality(Counted') <= Cap
          \/ \E s \in entering.drop : successor[s] # 0]_sessionVars

\* What no step does to a login: revive one that ended, answer a repeated refresh
\* with a dead session, keep an idle one going, miss a listed session in a bulk
\* revocation, or exceed the session cap without having been overtaken.
SessionSteps ==
    /\ EndedLoginStaysEnded
    /\ GraceNamesLive
    /\ IdleLoginEnds
    /\ RevocationReachesListed
    /\ CapUnlessOvertaken

\* session-revoke.ts: "No session created concurrently with a call to this route
\* is ever missed".  A refresh takes no organization lock and is missed.
NoSessionMissed ==
    [][bulk.kind = "org" /\ bulk' = NoBulk => Live' = {}]_sessionVars

\* docs/configuration.md calls MAX_SESSIONS_PER_USER the "Concurrent-session cap".
CapRespected == Cap # 0 => Cardinality(Counted) <= Cap
=============================================================================
