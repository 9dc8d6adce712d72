--------------------------- MODULE ProjectLifecycle ---------------------------
(***************************************************************************)
(* Archive, soft delete, restore and purge of projects, and the            *)
(* invitations, shares and dependents those operations must settle         *)
(* (apps/api/src/modules/projects, modules/invitations,                    *)
(* workers/project-purge.ts).                                              *)
(*                                                                         *)
(* Every request runs in a READ COMMITTED transaction.  The four lifecycle *)
(* handlers lock the project row FOR UPDATE, so each is one step after the *)
(* deleted-project gate of the route; the other handlers read the project  *)
(* without a lock and write in a later step.  The purge worker reads its   *)
(* list of due projects once and then erases them one by one.              *)
(***************************************************************************)
EXTENDS Naturals, FiniteSets

CONSTANTS
    Projects,       \* projects of one organization
    Invitations,    \* invitation rows, inserted one by one
    Requests,       \* requests in flight at once
    Workers,        \* runs of the purge job that may overlap
    MaxFailures     \* bound: purge transactions that fail (audit write, lock)

ASSUME BoundsAssumption == MaxFailures \in Nat /\ IsFiniteSet(Workers)

VARIABLES
    row,        \* projects: archived_at, deleted_at, purged_at, purge_after <= now
    whole,      \* projects whose child rows are all there
    dep,        \* active dependents of a project: "hold" (rotation, API key), "share"
    inv,        \* project_invitations rows
    req,        \* requests in flight
    job,        \* job[w]: the due list a purge run still has to work on
    audits,     \* project.purged audit rows per project
    failures    \* purge transactions failed so far

projectVars == <<row, whole, dep, inv, req, job, audits, failures>>

GatedOps == {"archive", "unarchive", "delete", "restore", "invite", "hold", "share", "revoke"}
Ops == GatedOps \cup {"accept"}
NoInv == [p |-> "none", accepted |-> FALSE, revoked |-> FALSE]
Idle == [op |-> "idle", p |-> "none", i |-> "none", pc |-> "idle"]

(* Rows, requests in flight, due lists and audit rows are well formed; the purge
   columns of a project are only set while it is deleted. *)
ProjectTypeOK ==
    /\ row \in [Projects -> [archived: BOOLEAN, deleted: BOOLEAN, purged: BOOLEAN, due: BOOLEAN]]
    /\ \A p \in Projects : (row[p].due \/ row[p].purged) => row[p].deleted
    /\ whole \subseteq Projects
    /\ dep \in [Projects -> SUBSET {"hold", "share"}]
    /\ inv \in [Invitations -> [p: Projects \cup {"none"}, accepted: BOOLEAN, revoked: BOOLEAN]]
    /\ req \in [Requests -> {Idle} \cup
                 [op: Ops, p: Projects, i: Invitations \cup {"none"}, pc: {"handler", "checked"}]]
    /\ job \in [Workers -> SUBSET Projects]
    /\ audits \in [Projects -> 0 .. Cardinality(Workers)]
    /\ failures \in 0 .. MaxFailures

ProjectInit ==
    /\ row = [p \in Projects |->
                [archived |-> FALSE, deleted |-> FALSE, purged |-> FALSE, due |-> FALSE]]
    /\ whole = Projects
    /\ dep = [p \in Projects |-> {}]
    /\ inv = [i \in Invitations |-> NoInv]
    /\ req = [q \in Requests |-> Idle]
    /\ job = [w \in Workers |-> {}]
    /\ audits = [p \in Projects |-> 0]
    /\ failures = 0

Pending(i) == inv[i].p \in Projects /\ ~inv[i].accepted /\ ~inv[i].revoked
At(q, op, pc) == req[q].op = op /\ req[q].pc = pc
Done(q) == req' = [req EXCEPT ![q] = Idle]
Checked(q) == req' = [req EXCEPT ![q].pc = "checked"]

-----------------------------------------------------------------------------
(* The route pipeline *)

\* A route under :projectId answers 404 for a deleted project; restore opts out.
Gate(q, op, p) ==
    /\ req[q] = Idle
    /\ op = "restore" \/ ~row[p].deleted
    /\ op # "revoke"
    /\ req' = [req EXCEPT ![q] = [op |-> op, p |-> p, i |-> "none", pc |-> "handler"]]
    /\ UNCHANGED <<row, whole, dep, inv, job, audits, failures>>

\* The handler answers an error (404, 409, 410) or its audit write fails: nothing is kept.
Refuse(q) ==
    /\ req[q] # Idle
    /\ Done(q)
    /\ UNCHANGED <<row, whole, dep, inv, job, audits, failures>>

-----------------------------------------------------------------------------
(* Lifecycle handlers: the project row is locked FOR UPDATE to the commit *)

\* Blocked by active rotations, shares and machine-user keys alike.
Archive(q) ==
    LET p == req[q].p IN
    /\ At(q, "archive", "handler")
    /\ ~row[p].archived
    /\ dep[p] = {}
    /\ row' = [row EXCEPT ![p].archived = TRUE]
    /\ Done(q)
    /\ UNCHANGED <<whole, dep, inv, job, audits, failures>>

\* Only archived_at is looked at: a deletion that overtook the gate goes unnoticed.
Unarchive(q) ==
    LET p == req[q].p IN
    /\ At(q, "unarchive", "handler")
    /\ row[p].archived
    /\ row' = [row EXCEPT ![p].archived = FALSE]
    /\ Done(q)
    /\ UNCHANGED <<whole, dep, inv, job, audits, failures>>

\* revokePendingInvitations.
InvitationsAfterDelete(p) ==
    [i \in Invitations |->
        IF inv[i].p = p /\ Pending(i) THEN [inv[i] EXCEPT !.revoked = TRUE] ELSE inv[i]]

\* Shares do not block a delete: they are revoked, as is every pending invitation.
Delete(q) ==
    LET p == req[q].p IN
    /\ At(q, "delete", "handler")
    /\ "hold" \notin dep[p]
    /\ ~row[p].deleted
    /\ row' = [row EXCEPT ![p] = [archived |-> TRUE, deleted |-> TRUE, purged |-> FALSE, due |-> FALSE]]
    /\ dep' = [dep EXCEPT ![p] = @ \ {"share"}]
    /\ inv' = InvitationsAfterDelete(p)
    /\ Done(q)
    /\ UNCHANGED <<whole, job, audits, failures>>

\* The handler's checks and those of markProjectRestored.
Restorable(p) == row[p].deleted /\ ~row[p].purged

\* Clears the deletion markers and leaves archived_at as it is.
Restore(q) ==
    LET p == req[q].p IN
    /\ At(q, "restore", "handler")
    /\ Restorable(p)
    /\ row' = [row EXCEPT ![p].deleted = FALSE, ![p].due = FALSE]
    /\ Done(q)
    /\ UNCHANGED <<whole, dep, inv, job, audits, failures>>

-----------------------------------------------------------------------------
(* Writers that read the project without a lock *)

\* rejectIfProjectArchived; share creation asks only whether the project is deleted.
CheckWritable(q) ==
    LET p == req[q].p IN
    /\ req[q].op \in {"invite", "hold", "share"} /\ req[q].pc = "handler"
    /\ IF req[q].op = "share" THEN ~row[p].deleted ELSE ~row[p].archived
    /\ Checked(q)
    /\ UNCHANGED <<row, whole, dep, inv, job, audits, failures>>

\* A rotation is started, a machine-user key issued or a share created.
InsertDependent(q) ==
    /\ req[q].op \in {"hold", "share"} /\ req[q].pc = "checked"
    /\ dep' = [dep EXCEPT ![req[q].p] = @ \cup {req[q].op}]
    /\ Done(q)
    /\ UNCHANGED <<row, whole, inv, job, audits, failures>>

\* The rotation ends, the key is revoked, the share is consumed or expires.
EndDependent(p) ==
    /\ dep[p] # {}
    /\ \E d \in dep[p] : dep' = [dep EXCEPT ![p] = @ \ {d}]
    /\ UNCHANGED <<row, whole, inv, req, job, audits, failures>>

\* A pending invitation of the same e-mail is renewed in place, otherwise a row is inserted.
InsertInvitation(q) ==
    /\ At(q, "invite", "checked")
    /\ \/ /\ \E i \in Invitations : inv[i].p = req[q].p /\ Pending(i)
          /\ UNCHANGED inv
       \/ \E i \in Invitations :
            /\ inv[i].p = "none"
            /\ inv' = [inv EXCEPT ![i].p = req[q].p]
    /\ Done(q)
    /\ UNCHANGED <<row, whole, dep, job, audits, failures>>

\* DELETE invitations/:id reads the row; an accepted one is refused.
RevokeRead(q, i) ==
    /\ req[q] = Idle
    /\ inv[i].p \in Projects
    /\ ~row[inv[i].p].deleted
    /\ ~inv[i].accepted /\ ~inv[i].revoked
    /\ req' = [req EXCEPT ![q] = [op |-> "revoke", p |-> inv[i].p, i |-> i, pc |-> "handler"]]
    /\ UNCHANGED <<row, whole, dep, inv, job, audits, failures>>

\* The update names the row by its id alone.
Revoke(q) ==
    /\ At(q, "revoke", "handler")
    /\ inv' = [inv EXCEPT ![req[q].i].revoked = TRUE]
    /\ Done(q)
    /\ UNCHANGED <<row, whole, dep, job, audits, failures>>

\* The token is looked up outside any organization; a settled invitation is refused.
AcceptLoad(q, i) ==
    /\ req[q] = Idle
    /\ Pending(i)
    /\ req' = [req EXCEPT ![q] = [op |-> "accept", p |-> inv[i].p, i |-> i, pc |-> "handler"]]
    /\ UNCHANGED <<row, whole, dep, inv, job, audits, failures>>

AcceptCheck(q) ==
    /\ At(q, "accept", "handler")
    /\ ~row[req[q].p].archived
    /\ Checked(q)
    /\ UNCHANGED <<row, whole, dep, inv, job, audits, failures>>

\* Mutant of Claimable: the claim trusts the status read before the transaction.
ClaimableUnchecked(i) == inv[i].p \in Projects /\ ~inv[i].accepted

\* The conditional update of claimInvitation.
Claimable(i) == Pending(i)

\* The claim, the memberships and the audit row commit together.
AcceptClaim(q) ==
    /\ At(q, "accept", "checked")
    /\ Claimable(req[q].i)
    /\ inv' = [inv EXCEPT ![req[q].i].accepted = TRUE]
    /\ Done(q)
    /\ UNCHANGED <<row, whole, dep, job, audits, failures>>

-----------------------------------------------------------------------------
(* The purge worker *)

\* Grace days pass.  Assumption: no request outlives the grace period.
Elapse(p) ==
    /\ row[p].deleted /\ ~row[p].due
    /\ \A q \in Requests : req[q] = Idle
    /\ row' = [row EXCEPT ![p].due = TRUE]
    /\ UNCHANGED <<whole, dep, inv, req, job, audits, failures>>

\* The condition of the select and of the locked re-check.
PurgeDue(p) == row[p].deleted /\ ~row[p].purged /\ row[p].due

\* Mutant of PurgeSelect: the job is not started again after a failure.
PurgeSelectUnfailed(w) ==
    /\ job[w] = {} /\ failures = 0
    /\ \E p \in Projects : PurgeDue(p)
    /\ job' = [job EXCEPT ![w] = {p \in Projects : PurgeDue(p)}]
    /\ UNCHANGED <<row, whole, dep, inv, req, audits, failures>>

\* A run of the hourly job lists the projects that are due. The limit of 100 per
\* run is left out: what one run does not list, a later one does.
PurgeSelect(w) ==
    /\ job[w] = {}
    /\ \E p \in Projects : PurgeDue(p)
    /\ job' = [job EXCEPT ![w] = {p \in Projects : PurgeDue(p)}]
    /\ UNCHANGED <<row, whole, dep, inv, req, audits, failures>>

\* Mutant of Erasable: the due list is trusted.
ErasableListed(p) == ~row[p].purged

\* eraseProjectData locks the row and asks again.
Erasable(p) == PurgeDue(p)

\* The child rows, the tombstone and the audit row, in one transaction.
PurgeOne(w, p) ==
    /\ p \in job[w]
    /\ Erasable(p)
    /\ whole' = whole \ {p}
    /\ dep' = [dep EXCEPT ![p] = {}]
    /\ inv' = [i \in Invitations |-> IF inv[i].p = p THEN NoInv ELSE inv[i]]
    /\ row' = [row EXCEPT ![p].purged = TRUE]
    /\ audits' = [audits EXCEPT ![p] = @ + 1]
    /\ job' = [job EXCEPT ![w] = @ \ {p}]
    /\ UNCHANGED <<req, failures>>

\* Restored or purged meanwhile: nothing is changed.
PurgeSkip(w, p) ==
    /\ p \in job[w]
    /\ ~Erasable(p)
    /\ job' = [job EXCEPT ![w] = @ \ {p}]
    /\ UNCHANGED <<row, whole, dep, inv, req, audits, failures>>

\* The failed project is logged and skipped; the next hourly run finds it again.
PurgeFails(w, p) ==
    /\ p \in job[w]
    /\ failures < MaxFailures
    /\ failures' = failures + 1
    /\ job' = [job EXCEPT ![w] = @ \ {p}]
    /\ UNCHANGED <<row, whole, dep, inv, req, audits>>

-----------------------------------------------------------------------------
Handlers(q) ==
    \/ Refuse(q)
    \/ Archive(q) \/ Unarchive(q) \/ Delete(q) \/ Restore(q)
    \/ CheckWritable(q) \/ InsertDependent(q) \/ InsertInvitation(q)
    \/ Revoke(q) \/ AcceptCheck(q) \/ AcceptClaim(q)

Purge(w) ==
    \/ PurgeSelect(w)
    \/ \E p \in Projects : PurgeOne(w, p) \/ PurgeSkip(w, p) \/ PurgeFails(w, p)

ProjectNext ==
    \/ \E q \in Requests, op \in GatedOps, p \in Projects : Gate(q, op, p)
    \/ \E q \in Requests, i \in Invitations : RevokeRead(q, i) \/ AcceptLoad(q, i)
    \/ \E q \in Requests : Handlers(q)
    \/ \E p \in Projects : EndDependent(p) \/ Elapse(p)
    \/ \E w \in Workers : Purge(w)

ProjectSpec == ProjectInit /\ [][ProjectNext]_projectVars

\* A request is answered; the hourly job runs to the end of its list.
ProjectFairness ==
    /\ \A q \in Requests : WF_projectVars(Handlers(q))
    /\ \A w \in Workers : WF_projectVars(Purge(w))

-----------------------------------------------------------------------------
(* Safety *)

(* A project that is not deleted has all its data: no restore brings back a
   tombstone, and a purge whose list is stale never erases a restored project
   (eraseProjectData's locked re-check against markProjectRestored). *)
LiveProjectHasData == \A p \in Projects : ~row[p].deleted => p \in whole

(* A project's data is gone exactly when its row is a tombstone and exactly one
   project.purged audit row says so, even with overlapping runs of the job. *)
PurgeAuditedOnce ==
    \A p \in Projects :
        /\ p \notin whole <=> row[p].purged
        /\ audits[p] = IF row[p].purged THEN 1 ELSE 0

\* A project that is not deleted has its data, and the data is gone exactly when
\* one audit row and the tombstone say so.
ProjectSafe ==
    /\ ProjectTypeOK
    /\ LiveProjectHasData
    /\ PurgeAuditedOnce

(* Restoring within the grace period always finds the data: a purge only erases
   what was due under the deletion still in force (findPurgeDueProjectIds). *)
GraceRespected ==
    [][\A p \in Projects : (p \in whole /\ p \notin whole') => row[p].due]_projectVars

(* A token whose invitation is revoked, by hand or by the deletion of its
   project, no longer lets anyone join (claimInvitation). *)
RevokedNeverJoins ==
    [][\A i \in Invitations : (inv[i].revoked /\ inv'[i].p # "none") => inv'[i].accepted = inv[i].accepted]_projectVars

\* No step purges a project within its grace period or turns a revoked invitation
\* into a membership.
ProjectSteps ==
    /\ GraceRespected
    /\ RevokedNeverJoins

(* project-lifecycle.ts: "While deleted it is also archived (`archived_at` is set
   at delete time), so every archive-aware reader already hides it". *)
DeletedIsArchived == \A p \in Projects : row[p].deleted => row[p].archived

(* token-routes.ts: "a user invited before archival must not still be able to join
   after archival". *)
NoJoinAfterArchive ==
    [][\A i \in Invitations :
        (inv'[i].accepted /\ ~inv[i].accepted) => ~row[inv[i].p].archived]_projectVars

(* lookup.ts: the claim "Closes the TOCTOU window ... where a concurrent
   accept/revoke could otherwise both succeed". *)
NotBothAcceptedAndRevoked == \A i \in Invitations : ~(inv[i].accepted /\ inv[i].revoked)

(* routes.ts: "A pending invitation token must not join the project after a
   restore": a deleted project keeps no invitation that can still be accepted. *)
DeletedHasNoPending ==
    \A i \in Invitations : Pending(i) => ~row[inv[i].p].deleted

-----------------------------------------------------------------------------
(* Liveness *)

(* A project whose grace period ended is purged or restored, although a purge
   transaction may fail and the list of a run may be stale (runProjectPurgeJob). *)
EventuallyPurged ==
    \A p \in Projects : row[p].due ~> (row[p].purged \/ ~row[p].deleted)
===============================================================================
