------------------------------- MODULE Erasure -------------------------------
(***************************************************************************)
(* The right-to-erasure workflow for one user who may belong to several    *)
(* organizations: requesting an erasure, executing it, and the requests of *)
(* the user and of other organizations that run beside it                  *)
(* (apps/api/src/modules/compliance).                                      *)
(*                                                                         *)
(* An execution reads the request, counts the user's other memberships     *)
(* over the admin connection, claims the request by compare-and-set and    *)
(* erases in one transaction, the sessions of its own organization only.   *)
(* Sign-ins, recovery links, MFA enrolments and invitation acceptances     *)
(* check the user first and insert their row in a later step; memberships  *)
(* and linked identities outlive an erasure, and so a sign-in through an   *)
(* identity provider, and an administrator's recovery link, can begin      *)
(* after it.                                                               *)
(***************************************************************************)
EXTENDS Naturals, FiniteSets

CONSTANTS
    Orgs,       \* organizations
    Home,       \* the organization the user belongs to at first
    Rows,       \* data_erasure_requests rows, inserted one by one
    Txs,        \* compliance requests in flight at once
    Writers     \* requests of the user in flight at once

ASSUME HomeAssumption ==
    Home \in Orgs /\ IsFiniteSet(Txs) /\ Orgs \cap {"token", "mfa"} = {}

VARIABLES
    member,     \* organizations with an org_memberships row for the user
    request,    \* data_erasure_requests: organization and status of each row
    erased,     \* users.email, password_hash and the display name are overwritten
    data,       \* kinds of rows that hold personal data of the user
    tx,         \* compliance requests in flight; since: history, joined after the count
    writer,     \* requests of the user in flight
    executed,   \* user.erasure_executed audit rows per request row
    late,       \* history: kinds of rows inserted after an erasure by a request begun before
    anew        \* history: kinds of rows inserted by a request begun after an erasure

erasureVars == <<member, request, erased, data, tx, writer, executed, late, anew>>

\* account_recovery_tokens, mfa rows, and for each organization the ip_address and
\* user_agent of the user's sessions there.
Kinds == {"token", "mfa"} \cup Orgs
NoTx == [op |-> "idle"]
NoRow == [o |-> "none", status |-> "none"]

(* Requests, rows and processes are well formed; in particular no committed row is
   ever left in_progress. *)
ErasureTypeOK ==
    /\ member \subseteq Orgs
    /\ request \in [Rows -> {NoRow} \cup [o: Orgs, status: {"pending", "completed"}]]
    /\ erased \in BOOLEAN
    /\ data \subseteq Kinds /\ late \subseteq Kinds /\ anew \subseteq Kinds
    /\ tx \in [Txs -> {NoTx} \cup [op: {"create"}, o: Orgs]
                        \cup [op: {"read"}, r: Rows]
                        \cup [op: {"counted", "claimed"}, r: Rows, since: SUBSET Orgs]]
    /\ writer \in [Writers -> {NoTx} \cup [op: {"write"}, kind: Kinds, overtaken: BOOLEAN]
                                    \cup [op: {"join"}, o: Orgs]]
    /\ executed \in [Rows -> 0 .. Cardinality(Txs)]

ErasureInit ==
    /\ member = {Home}
    /\ request = [r \in Rows |-> NoRow]
    /\ erased = FALSE
    /\ data = {"token", "mfa", Home}
    /\ tx = [t \in Txs |-> NoTx]
    /\ writer = [w \in Writers |-> NoTx]
    /\ executed = [r \in Rows |-> 0]
    /\ late = {} /\ anew = {}

Move(t, state) == tx' = [tx EXCEPT ![t] = state]

-----------------------------------------------------------------------------
(* Requesting *)

\* The user is a member here and no request of this organization exists.
CreateRead(t, o) ==
    /\ tx[t] = NoTx
    /\ o \in member
    /\ \A r \in Rows : request[r].o # o
    /\ Move(t, [op |-> "create", o |-> o])
    /\ UNCHANGED <<member, request, erased, data, writer, executed, late, anew>>

\* The partial unique index: one open request per user, whatever the organization.
Unique(o) == \A r \in Rows : request[r].status # "pending"

\* The insert, with its audit row.
CreateInsert(t) ==
    LET o == tx[t].o IN
    /\ tx[t].op = "create"
    /\ Unique(o)
    /\ \E r \in Rows :
         /\ request[r] = NoRow
         /\ request' = [request EXCEPT ![r] = [o |-> o, status |-> "pending"]]
    /\ Move(t, NoTx)
    /\ UNCHANGED <<member, erased, data, writer, executed, late, anew>>

-----------------------------------------------------------------------------
(* Executing *)

ExecRead(t, r) ==
    /\ tx[t] = NoTx
    /\ request[r].status = "pending"
    /\ Move(t, [op |-> "read", r |-> r])
    /\ UNCHANGED <<member, request, erased, data, writer, executed, late, anew>>

\* Mutant of OtherMemberships: counted over the tenant's connection.
OtherMembershipsInTenant(o) == (member \cap {o}) \ {o}

\* Memberships in other organizations, over the admin connection.
OtherMemberships(o) == member \ {o}

ExecCount(t) ==
    /\ tx[t].op = "read"
    /\ OtherMemberships(request[tx[t].r].o) = {}
    /\ Move(t, [op |-> "counted", r |-> tx[t].r, since |-> {}])
    /\ UNCHANGED <<member, request, erased, data, writer, executed, late, anew>>

\* The request row stays locked until the execution commits.
Locked(t, r) == \E s \in Txs \ {t} : tx[s].op = "claimed" /\ tx[s].r = r

\* Compare-and-set to in_progress, which no other session ever sees.
ExecClaim(t) ==
    /\ tx[t].op = "counted"
    /\ ~Locked(t, tx[t].r)
    /\ request[tx[t].r].status = "pending"
    /\ Move(t, [tx[t] EXCEPT !.op = "claimed"])
    /\ UNCHANGED <<member, request, erased, data, writer, executed, late, anew>>

\* Mutant of Erased: the recovery tokens are forgotten.
ErasedButTokens(o) == {"mfa", o}

\* Steps 4 to 7: MFA rows and recovery tokens go, and the sessions of the executing
\* organization are scrubbed and revoked.
Erased(o) == {"token", "mfa", o}

\* Steps 1 to 9 commit together.  The requests under way are overtaken.
ExecCommit(t) ==
    LET gone == Erased(request[tx[t].r].o) IN
    /\ tx[t].op = "claimed"
    /\ erased' = TRUE
    /\ data' = data \ gone /\ late' = late \ gone /\ anew' = anew \ gone
    /\ request' = [request EXCEPT ![tx[t].r].status = "completed"]
    /\ executed' = [executed EXCEPT ![tx[t].r] = @ + 1]
    /\ writer' = [w \in Writers |-> IF writer[w].op = "write"
                                    THEN [writer[w] EXCEPT !.overtaken = TRUE] ELSE writer[w]]
    /\ Move(t, NoTx)
    /\ UNCHANGED member

\* An error answer or a failed audit write: everything is rolled back.
Abort(t) ==
    /\ tx[t] # NoTx
    /\ Move(t, NoTx)
    /\ UNCHANGED <<member, request, erased, data, writer, executed, late, anew>>

-----------------------------------------------------------------------------
(* The user's own requests, and other organizations *)

Begin(w, k) ==
    /\ writer[w] = NoTx
    /\ writer' = [writer EXCEPT ![w] = [op |-> "write", kind |-> k, overtaken |-> FALSE]]
    /\ UNCHANGED <<member, request, erased, data, tx, executed, late, anew>>

\* A sign-in, by password while there is one or through a linked identity: the user
\* is a member.
SignInCheck(w, o) == o \in member /\ Begin(w, o)

\* A recovery link: the user asks for it by e-mail, or an administrator of an
\* organization of the user sends it.
RecoveryCheck(w) == (~erased \/ member # {}) /\ Begin(w, "token")

\* An MFA enrolment comes from a session that was not ended by an erasure.
EnrolCheck(w) == member \cap data # {} /\ Begin(w, "mfa")

\* The session, recovery token or MFA row is inserted.
WriteInsert(w) ==
    LET k == writer[w].kind IN
    /\ writer[w].op = "write"
    /\ data' = data \cup {k}
    /\ late' = IF writer[w].overtaken THEN late \cup {k} ELSE late
    /\ anew' = IF erased /\ ~writer[w].overtaken THEN anew \cup {k} ELSE anew
    /\ writer' = [writer EXCEPT ![w] = NoTx]
    /\ UNCHANGED <<member, request, erased, tx, executed>>

\* An invitation of another organization: the caller's e-mail is compared first.
JoinCheck(w, o) ==
    /\ writer[w] = NoTx
    /\ ~erased
    /\ o \notin member
    /\ writer' = [writer EXCEPT ![w] = [op |-> "join", o |-> o]]
    /\ UNCHANGED <<member, request, erased, data, tx, executed, late, anew>>

\* The membership is inserted.
Join(w) ==
    /\ writer[w].op = "join"
    /\ member' = member \cup {writer[w].o}
    /\ tx' = [t \in Txs |-> IF tx[t].op \in {"counted", "claimed"}
                            THEN [tx[t] EXCEPT !.since = @ \cup {writer[w].o}] ELSE tx[t]]
    /\ writer' = [writer EXCEPT ![w] = NoTx]
    /\ UNCHANGED <<request, erased, data, executed, late, anew>>

\* Removed from an organization by one of its administrators.
Leave(o) ==
    /\ o \in member
    /\ member' = member \ {o}
    /\ UNCHANGED <<request, erased, data, tx, writer, executed, late, anew>>

-----------------------------------------------------------------------------
ErasureNext ==
    \/ \E t \in Txs :
         \/ \E o \in Orgs : CreateRead(t, o)
         \/ \E r \in Rows : ExecRead(t, r)
         \/ CreateInsert(t) \/ ExecCount(t) \/ ExecClaim(t) \/ ExecCommit(t) \/ Abort(t)
    \/ \E w \in Writers :
         \/ \E o \in Orgs : SignInCheck(w, o) \/ JoinCheck(w, o)
         \/ RecoveryCheck(w) \/ EnrolCheck(w) \/ WriteInsert(w) \/ Join(w)
    \/ \E o \in Orgs : Leave(o)

ErasureSpec == ErasureInit /\ [][ErasureNext]_erasureVars

-----------------------------------------------------------------------------
(* Racing requests of two organizations leave one open request per user
   (idx_data_erasure_requests_one_pending_per_user). *)
OneOpenRequest == Cardinality({r \in Rows : request[r].status = "pending"}) <= 1

(* Racing executions of one request erase once: a completed request has exactly
   one user.erasure_executed row (D9 compare-and-set). *)
ExecutedOnce == \A r \in Rows : executed[r] = IF request[r].status = "completed" THEN 1 ELSE 0

(* What an erasure leaves of the time before it are the sessions of organizations
   that executed none; all else was inserted after it, by a request it overtook or
   by one that began later (executeErasure steps 4 to 7). *)
Covered == {request[r].o : r \in {q \in Rows : request[q].status = "completed"}}

LeftOrWrittenSince == erased => data \subseteq late \cup anew \cup (Orgs \ Covered)

(* A second factor is enrolled after an erasure only behind a session whose data
   the erasure did not reach: one it left, or one opened since. *)
EnrolledBehindSession == "mfa" \in anew => data \cap Orgs # {}

\* A person has one open erasure request, it is executed once, and personal data
\* that survives lies in sessions of other organizations, or was written later.
ErasureSafe ==
    /\ ErasureTypeOK
    /\ OneOpenRequest
    /\ ExecutedOnce
    /\ LeftOrWrittenSince
    /\ EnrolledBehindSession

(* A member of another organization is erased only when that membership was added
   after the execution had counted them (executeErasure counts before it claims,
   and over the admin connection, which sees every organization). *)
OtherOrgOnlyOvertaken ==
    [][\A t \in Txs : (tx[t].op = "claimed" /\ executed' # executed /\ tx'[t] = NoTx)
                        => member \subseteq {request[tx[t].r].o} \cup tx[t].since]_erasureVars

(* erasure-routes.ts: "This user belongs to other organizations; erasure cannot
   proceed". *)
OtherOrgSpared ==
    [][\A t \in Txs : (tx[t].op = "claimed" /\ executed' # executed /\ tx'[t] = NoTx)
                        => member \subseteq {request[tx[t].r].o}]_erasureVars

(* erasure-service.ts report: recovery tokens and MFA rows are "deleted", sessions
   "nulled in place": an erased user has no personal data in those tables. *)
NoPersonalDataLeft == erased => data = {}
=============================================================================
