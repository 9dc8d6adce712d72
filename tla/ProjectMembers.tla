--------------------------- MODULE ProjectMembers ---------------------------
(***************************************************************************)
(* Who belongs to a project and who owns it: adding, inviting, removing    *)
(* and re-ranking members, transferring ownership, and removing a user     *)
(* from the organization (apps/api/src/modules/projects/routes.ts,         *)
(* member-management.ts, modules/org/routes.ts, modules/invitations).      *)
(*                                                                         *)
(* One project.  A project starts with its creator as owner; no request    *)
(* adds a member with that role.  Requests are READ COMMITTED              *)
(* transactions: a plain read is a step of its own, a row lock is held     *)
(* from the step that takes it to the commit.                              *)
(***************************************************************************)
EXTENDS Naturals, FiniteSets

CONSTANTS
    Users,      \* users of the organization
    Creator,    \* the user who created the project
    Changes         \* transactions in flight at once

ASSUME CreatorAssumption == Creator \in Users

VARIABLES
    inOrg,      \* users with an org_memberships row
    role,       \* role[u]: the project_memberships row of u, or "none"
    memberTx,         \* transactions in flight
    stale       \* history: a transaction wrote on a role that had changed since it read it

membersVars == <<inOrg, role, memberTx, stale>>

\* AddMemberRole, the invitation role check and ProjectRoleChangeBodySchema exclude owner.
AddableRoles == {"admin", "member"}
NoChange == [op |-> "idle"]

\* What the guards tell apart in a role; a transaction keeps the one it has seen.
Standings == {"owner", "member", "none"}
Standing(u) == IF role[u] \in AddableRoles THEN "member" ELSE role[u]

\* Transactions by what they have read and locked so far.
TxStates ==
    {NoChange}
    \cup [op: {"transfer_target", "rank_read", "remove_read", "org_checked"}, u: Users,
          seen: Standings]
    \cup [op: {"transfer_found", "transfer_locked"}, u: Users, owner: Users, seen: Standings]
    \cup [op: {"org_locked"}, u: Users]
    \cup [op: {"accept_read"}, u: Users, existing: BOOLEAN]

(* Roles and transactions are well formed; the row a transfer has locked is the
   owner's until the transfer commits. *)
MembersTypeOK ==
    /\ inOrg \subseteq Users
    /\ role \in [Users -> AddableRoles \cup {"owner", "none"}]
    /\ memberTx \in [Changes -> TxStates]
    /\ \A t \in Changes : memberTx[t].op = "transfer_locked" => role[memberTx[t].owner] = "owner"
    /\ stale \in BOOLEAN

MembersInit ==
    /\ inOrg = Users
    /\ role = [u \in Users |-> IF u = Creator THEN "owner" ELSE "none"]
    /\ memberTx = [t \in Changes |-> NoChange]
    /\ stale = FALSE

Owners == {u \in Users : role[u] = "owner"}

\* The project_memberships row of u is locked by a transfer other than t.
RowLocked(t, u) ==
    \E s \in Changes \ {t} : memberTx[s].op = "transfer_locked" /\ memberTx[s].owner = u

\* The org_memberships row of u is locked by a removal other than t.
OrgRowLocked(t, u) ==
    \E s \in Changes \ {t} : memberTx[s].op \in {"org_locked", "org_checked"} /\ memberTx[s].u = u

\* Since t has seen its user, that user has become the owner.
BecameOwner(t) == role[memberTx[t].u] = "owner" /\ memberTx[t].seen # "owner"

Step(t, state) == memberTx' = [memberTx EXCEPT ![t] = state]
Commit(t) == Step(t, NoChange)

-----------------------------------------------------------------------------
(* Joining *)

\* The target's org row is share-locked until the insert commits, so a removal waits.
Add(t, u) ==
    /\ memberTx[t] = NoChange
    /\ ~OrgRowLocked(t, u)
    /\ u \in inOrg
    /\ role[u] = "none"
    /\ \E r \in AddableRoles : role' = [role EXCEPT ![u] = r]
    /\ UNCHANGED <<inOrg, memberTx, stale>>

\* The invitee's organization membership is read without a lock.
AcceptRead(t, u) ==
    /\ memberTx[t] = NoChange
    /\ Step(t, [op |-> "accept_read", u |-> u, existing |-> u \in inOrg])
    /\ UNCHANGED <<inOrg, role, stale>>

\* Inserts that conflict with an existing row do nothing.
AcceptInsert(t) ==
    LET u == memberTx[t].u IN
    /\ memberTx[t].op = "accept_read"
    /\ ~memberTx[t].existing => ~OrgRowLocked(t, u)
    /\ inOrg' = IF memberTx[t].existing THEN inOrg ELSE inOrg \cup {u}
    /\ \E r \in AddableRoles :
         role' = [role EXCEPT ![u] = IF @ = "none" THEN r ELSE @]
    /\ Commit(t)
    /\ UNCHANGED stale

-----------------------------------------------------------------------------
(* Leaving and changing role *)

\* Mutant of Removable: the last-owner guard is forgotten.
RemovableAny(u) == role[u] # "none"

\* With a single owner, the other owners the guard locks are never there: 409.
Removable(u) == role[u] # "none" /\ (role[u] = "owner" => Owners \ {u} # {})

RemoveRead(t, u) ==
    /\ memberTx[t] = NoChange
    /\ Removable(u)
    /\ Step(t, [op |-> "remove_read", u |-> u, seen |-> Standing(u)])
    /\ UNCHANGED <<inOrg, role, stale>>

\* The delete names the row by its key; it waits for a lock on it.
RemoveDelete(t) ==
    LET u == memberTx[t].u IN
    /\ memberTx[t].op = "remove_read"
    /\ ~RowLocked(t, u)
    /\ role' = [role EXCEPT ![u] = "none"]
    /\ stale' = (stale \/ BecameOwner(t))
    /\ Commit(t)
    /\ UNCHANGED inOrg

\* An owner can only be changed by a transfer.
RankRead(t, u) ==
    /\ memberTx[t] = NoChange
    /\ role[u] \in AddableRoles
    /\ Step(t, [op |-> "rank_read", u |-> u, seen |-> Standing(u)])
    /\ UNCHANGED <<inOrg, role, stale>>

RankUpdate(t) ==
    LET u == memberTx[t].u IN
    /\ memberTx[t].op = "rank_read"
    /\ ~RowLocked(t, u)
    /\ \E r \in AddableRoles :
         role' = [role EXCEPT ![u] = IF @ = "none" THEN @ ELSE r]
    /\ stale' = (stale \/ BecameOwner(t))
    /\ Commit(t)
    /\ UNCHANGED inOrg

\* Removal from the organization locks the target's org row first.
OrgLock(t, u) ==
    /\ memberTx[t] = NoChange
    /\ ~OrgRowLocked(t, u)
    /\ u \in inOrg
    /\ Step(t, [op |-> "org_locked", u |-> u])
    /\ UNCHANGED <<inOrg, role, stale>>

\* The sole owner of a project is refused; FOR UPDATE waits for a transfer of that row.
OrgCheck(t) ==
    LET u == memberTx[t].u IN
    /\ memberTx[t].op = "org_locked"
    /\ ~RowLocked(t, u)
    /\ Owners # {u}
    /\ Step(t, [op |-> "org_checked", u |-> u, seen |-> Standing(u)])
    /\ UNCHANGED <<inOrg, role, stale>>

\* removeUserFromOrgMemberships, with the sessions and the audit row.
OrgDelete(t) ==
    LET u == memberTx[t].u IN
    /\ memberTx[t].op = "org_checked"
    /\ ~RowLocked(t, u)
    /\ role' = [role EXCEPT ![u] = "none"]
    /\ inOrg' = inOrg \ {u}
    /\ stale' = (stale \/ BecameOwner(t))
    /\ Commit(t)

-----------------------------------------------------------------------------
(* Ownership transfer *)

\* The new owner must be a member who is not the owner yet; not locked.
TransferTarget(t, u) ==
    /\ memberTx[t] = NoChange
    /\ role[u] \in AddableRoles
    /\ Step(t, [op |-> "transfer_target", u |-> u, seen |-> Standing(u)])
    /\ UNCHANGED <<inOrg, role, stale>>

\* SELECT ... role = 'owner' FOR UPDATE LIMIT 1: the snapshot names a row.
TransferFind(t) ==
    /\ memberTx[t].op = "transfer_target"
    /\ \E o \in Owners :
         Step(t, [op |-> "transfer_found", u |-> memberTx[t].u, owner |-> o,
                  seen |-> memberTx[t].seen])
    /\ UNCHANGED <<inOrg, role, stale>>

\* Once the lock is granted the condition is evaluated again on the row.
StillOwner(o) == role[o] = "owner"

\* The lock is granted.
TransferLock(t) ==
    /\ memberTx[t].op = "transfer_found"
    /\ ~RowLocked(t, memberTx[t].owner)
    /\ StillOwner(memberTx[t].owner)
    /\ Step(t, [memberTx[t] EXCEPT !.op = "transfer_locked"])
    /\ UNCHANGED <<inOrg, role, stale>>

\* Demote, promote, audit.  The promotion matches no row when the target has left.
TransferCommit(t) ==
    LET u == memberTx[t].u
        o == memberTx[t].owner IN
    /\ memberTx[t].op = "transfer_locked"
    /\ ~RowLocked(t, u)
    /\ role' = [role EXCEPT ![o] = "admin",
                            ![u] = IF @ = "none" THEN @ ELSE "owner"]
    /\ stale' = (stale \/ (role[u] = "none" /\ memberTx[t].seen # "none"))
    /\ Commit(t)
    /\ UNCHANGED inOrg

\* An error answer, a deadlock victim or a failed audit write: everything is rolled back.
AbortChange(t) ==
    /\ memberTx[t] # NoChange
    /\ Commit(t)
    /\ UNCHANGED <<inOrg, role, stale>>

-----------------------------------------------------------------------------
MembersNext ==
    \E t \in Changes :
        \/ \E u \in Users :
             \/ Add(t, u) \/ AcceptRead(t, u)
             \/ RemoveRead(t, u) \/ RankRead(t, u)
             \/ OrgLock(t, u) \/ TransferTarget(t, u)
        \/ AcceptInsert(t) \/ RemoveDelete(t) \/ RankUpdate(t)
        \/ OrgCheck(t) \/ OrgDelete(t)
        \/ TransferFind(t) \/ TransferLock(t) \/ TransferCommit(t)
        \/ AbortChange(t)

MembersSpec == MembersInit /\ [][MembersNext]_membersVars

-----------------------------------------------------------------------------
(* Two racing transfers never leave two owners: the second finds the row it
   waited for no longer an owner's (resolveTransferTargets, FOR UPDATE). *)
AtMostOneOwner == Cardinality(Owners) <= 1

(* The project loses its owner only through a write based on a role that changed
   after it was read; the guards of removal, role change, organization removal
   and transfer keep it in every other case. *)
OwnerLostOnlyStale == stale \/ Owners # {}

\* A project never has two owners, and loses its last one only to a change that was
\* checked before the owner changed.
MembersSafe ==
    /\ MembersTypeOK
    /\ AtMostOneOwner
    /\ OwnerLostOnlyStale

(* projects/routes.ts: "never remove the last owner of a project (self-removal is
   no exception)". *)
ProjectHasOwner == Owners # {}

(* org/routes.ts: "remove a user from the organization (cascade project
   memberships + revoke sessions)": nobody outside the organization is a member. *)
MembersAreOrgMembers == \A u \in Users : role[u] # "none" => u \in inOrg
=============================================================================
