---------------------------- MODULE TenancyProofs ----------------------------
(***************************************************************************)
(* Proofs about ProjectLifecycle (deletion and purge of projects),         *)
(* ProjectMembers (roles and ownership) and Erasure (the right to          *)
(* erasure).  Each module gets one inductive invariant, a lemma that every *)
(* step keeps it, and the theorems that follow from it.                    *)
(***************************************************************************)
EXTENDS ProjectLifecycle, ProjectMembers, Erasure, FiniteSetTheorems, TLAPS

-----------------------------------------------------------------------------
(* ProjectLifecycle: ProjectSafe is inductive as it stands. *)

\* Rows of the projects, invitations and requests in flight.
ProjectRows == [archived : BOOLEAN, deleted : BOOLEAN, purged : BOOLEAN, due : BOOLEAN]
InvitationRows == [p : Projects \cup {"none"}, accepted : BOOLEAN, revoked : BOOLEAN]
RequestStates ==
  {Idle} \cup [op : Ops, p : Projects, i : Invitations \cup {"none"}, pc : {"handler", "checked"}]

\* The conjuncts of ProjectTypeOK, table by table.
RowsOK ==
  /\ row \in [Projects -> ProjectRows]
  /\ \A p \in Projects : (row[p].due \/ row[p].purged) => row[p].deleted
InvitationsOK == inv \in [Invitations -> InvitationRows]
RequestsOK == req \in [Requests -> RequestStates]
AuditsOK == audits \in [Projects -> 0 .. Cardinality(Workers)]
JobsOK ==
  /\ whole \subseteq Projects /\ dep \in [Projects -> SUBSET {"hold", "share"}]
  /\ job \in [Workers -> SUBSET Projects] /\ failures \in 0 .. MaxFailures

ProjectInd ==
  /\ RowsOK /\ InvitationsOK /\ RequestsOK /\ AuditsOK /\ JobsOK
  /\ LiveProjectHasData /\ PurgeAuditedOnce

\* The invariant is the safety property, table by table.
LEMMA ProjectIndIsSafe == ProjectInd <=> ProjectSafe
BY DEF ProjectInd, ProjectSafe, ProjectTypeOK, RowsOK, InvitationsOK, RequestsOK, AuditsOK,
   JobsOK, ProjectRows, InvitationRows, RequestStates

\* A request in flight is for a project.
LEMMA RequestFields ==
  /\ Idle \in RequestStates
  /\ Idle.op = "idle" /\ Idle.pc = "idle"
  /\ \A r \in RequestStates : r # Idle =>
       r.op \in Ops /\ r.p \in Projects /\ r.pc \in {"handler", "checked"}
<1>1. Idle \in RequestStates /\ Idle.op = "idle" /\ Idle.pc = "idle"
  BY DEF RequestStates, Idle
<1>2. \A r \in RequestStates : r # Idle =>
       r.op \in Ops /\ r.p \in Projects /\ r.pc \in {"handler", "checked"}
  BY DEF RequestStates
<1> QED  BY <1>1, <1>2

\* The request states that the actions make.
LEMMA RequestMade ==
  /\ \A op \in Ops, p \in Projects, i \in Invitations \cup {"none"} :
       [op |-> op, p |-> p, i |-> i, pc |-> "handler"] \in RequestStates
  /\ \A r \in RequestStates : r # Idle => [r EXCEPT !.pc = "checked"] \in RequestStates
<1>1. ASSUME NEW r \in RequestStates, r # Idle
      PROVE  [r EXCEPT !.pc = "checked"] \in RequestStates
  <2>1. r \in [op : Ops, p : Projects, i : Invitations \cup {"none"}, pc : {"handler", "checked"}]
    BY <1>1 DEF RequestStates
  <2> QED  BY <2>1 DEF RequestStates
<1> QED  BY <1>1 DEF RequestStates

\* A request that moves keeps the table of requests well formed.
LEMMA RequestMoved ==
  ASSUME RequestsOK, NEW q \in Requests, NEW r \in RequestStates,
         req' = [req EXCEPT ![q] = r]
  PROVE  RequestsOK'
BY DEF RequestsOK

\* The first state satisfies the invariant.
LEMMA ProjectInitInd == ProjectInit => ProjectInd
<1> SUFFICES ASSUME ProjectInit PROVE ProjectInd
  OBVIOUS
<1>1. RequestsOK
  BY RequestFields DEF ProjectInit, RequestsOK
<1>2. Cardinality(Workers) \in Nat
  BY BoundsAssumption, FS_CardinalityType
<1>3. AuditsOK /\ JobsOK
  BY <1>2, BoundsAssumption DEF ProjectInit, AuditsOK, JobsOK
<1>4. RowsOK
  BY DEF ProjectInit, RowsOK, ProjectRows
<1>5. InvitationsOK
  BY DEF ProjectInit, InvitationsOK, InvitationRows, NoInv
<1>6. LiveProjectHasData /\ PurgeAuditedOnce
  BY DEF ProjectInit, LiveProjectHasData, PurgeAuditedOnce
<1> QED  BY <1>1, <1>3, <1>4, <1>5, <1>6 DEF ProjectInd

\* Every step keeps the invariant of the projects.
LEMMA ProjectPreserved ==
  ASSUME ProjectInd, [ProjectNext]_projectVars
  PROVE  ProjectInd'
<1>1. /\ RowsOK /\ InvitationsOK /\ RequestsOK /\ AuditsOK /\ JobsOK
      /\ LiveProjectHasData /\ PurgeAuditedOnce
  BY DEF ProjectInd
<1>2. ASSUME NEW q \in Requests, NEW op \in GatedOps, NEW p \in Projects, Gate(q, op, p)
      PROVE  ProjectInd'
  <2>1. RequestsOK'
    <3> DEFINE r == [op |-> op, p |-> p, i |-> "none", pc |-> "handler"]
    <3>1. op \in Ops
      BY <1>2 DEF Ops, GatedOps
    <3>2. r \in RequestStates
      BY <3>1, RequestMade
    <3>3. req' = [req EXCEPT ![q] = r]
      BY <1>2 DEF Gate
    <3> QED  BY <1>1, <3>2, <3>3, RequestMoved
  <2>2. /\ RowsOK' /\ InvitationsOK' /\ AuditsOK' /\ JobsOK'
        /\ LiveProjectHasData' /\ PurgeAuditedOnce'
    BY <1>1, <1>2
       DEF Gate, RowsOK, ProjectRows, InvitationsOK, InvitationRows,
           AuditsOK, JobsOK, LiveProjectHasData, PurgeAuditedOnce
  <2> QED  BY <2>1, <2>2
              DEF ProjectInd
<1>3. ASSUME NEW q \in Requests, NEW i \in Invitations, RevokeRead(q, i)
      PROVE  ProjectInd'
  <2>1. RequestsOK'
    <3> DEFINE r == [op |-> "revoke", p |-> inv[i].p, i |-> i, pc |-> "handler"]
    <3>1. "revoke" \in Ops /\ inv[i].p \in Projects
      BY <1>3 DEF RevokeRead, Ops, GatedOps
    <3>2. r \in RequestStates
      BY <3>1, RequestMade
    <3>3. req' = [req EXCEPT ![q] = r]
      BY <1>3 DEF RevokeRead
    <3> QED  BY <1>1, <3>2, <3>3, RequestMoved
  <2>2. /\ RowsOK' /\ InvitationsOK' /\ AuditsOK' /\ JobsOK'
        /\ LiveProjectHasData' /\ PurgeAuditedOnce'
    BY <1>1, <1>3
       DEF RevokeRead, RowsOK, ProjectRows, InvitationsOK, InvitationRows,
           AuditsOK, JobsOK, LiveProjectHasData, PurgeAuditedOnce
  <2> QED  BY <2>1, <2>2
              DEF ProjectInd
<1>4. ASSUME NEW q \in Requests, NEW i \in Invitations, AcceptLoad(q, i)
      PROVE  ProjectInd'
  <2>1. RequestsOK'
    <3> DEFINE r == [op |-> "accept", p |-> inv[i].p, i |-> i, pc |-> "handler"]
    <3>1. "accept" \in Ops /\ inv[i].p \in Projects
      BY <1>4 DEF AcceptLoad, Pending, Ops
    <3>2. r \in RequestStates
      BY <3>1, RequestMade
    <3>3. req' = [req EXCEPT ![q] = r]
      BY <1>4 DEF AcceptLoad
    <3> QED  BY <1>1, <3>2, <3>3, RequestMoved
  <2>2. /\ RowsOK' /\ InvitationsOK' /\ AuditsOK' /\ JobsOK'
        /\ LiveProjectHasData' /\ PurgeAuditedOnce'
    BY <1>1, <1>4
       DEF AcceptLoad, Pending, RowsOK, ProjectRows, InvitationsOK,
           InvitationRows, AuditsOK, JobsOK, LiveProjectHasData,
           PurgeAuditedOnce
  <2> QED  BY <2>1, <2>2
              DEF ProjectInd
<1>5. ASSUME NEW q \in Requests, Refuse(q)
      PROVE  ProjectInd'
  <2>1. RequestsOK'
    <3>1. req' = [req EXCEPT ![q] = Idle]
      BY <1>5 DEF Refuse, Done
    <3> QED  BY <1>1, <3>1, RequestFields, RequestMoved
  <2>2. /\ RowsOK' /\ InvitationsOK' /\ AuditsOK' /\ JobsOK'
        /\ LiveProjectHasData' /\ PurgeAuditedOnce'
    BY <1>1, <1>5
       DEF Refuse, Done, RowsOK, ProjectRows, InvitationsOK, InvitationRows,
           AuditsOK, JobsOK, LiveProjectHasData, PurgeAuditedOnce
  <2> QED  BY <2>1, <2>2
              DEF ProjectInd
<1>6. ASSUME NEW q \in Requests, Archive(q)
      PROVE  ProjectInd'
  <2>1. RowsOK'
    <3>1. row' = [row EXCEPT ![req[q].p].archived = TRUE]
      BY <1>6 DEF Archive
    <3>2. row' \in [Projects -> ProjectRows]
      BY <1>1, <3>1 DEF RowsOK, ProjectRows
    <3>3. \A s \in Projects : /\ row'[s].due = row[s].due /\ row'[s].purged = row[s].purged
                              /\ row'[s].deleted = row[s].deleted
      BY <1>1, <3>1 DEF RowsOK, ProjectRows
    <3> QED  BY <1>1, <3>2, <3>3 DEF RowsOK
  <2>2. RequestsOK'
    <3>1. req' = [req EXCEPT ![q] = Idle]
      BY <1>6 DEF Archive, Done
    <3> QED  BY <1>1, <3>1, RequestFields, RequestMoved
  <2>3. LiveProjectHasData'
    BY <1>1, <1>6, BoundsAssumption, RequestFields
       DEF Archive, At, Done, LiveProjectHasData, RowsOK, ProjectRows,
           RequestsOK, PurgeAuditedOnce
  <2>4. PurgeAuditedOnce'
    BY <1>1, <1>6, BoundsAssumption, RequestFields
       DEF Archive, At, Done, PurgeAuditedOnce, RowsOK, ProjectRows,
           LiveProjectHasData, AuditsOK, JobsOK, RequestsOK
  <2>5. InvitationsOK' /\ AuditsOK' /\ JobsOK'
    BY <1>1, <1>6
       DEF Archive, At, Done, InvitationsOK, InvitationRows, AuditsOK, JobsOK
  <2> QED  BY <2>1, <2>2, <2>3, <2>4, <2>5
              DEF ProjectInd
<1>7. ASSUME NEW q \in Requests, Unarchive(q)
      PROVE  ProjectInd'
  <2>1. RowsOK'
    BY <1>1, <1>7, BoundsAssumption, RequestFields
       DEF Unarchive, At, Done, RowsOK, ProjectRows, RequestsOK
  <2>2. RequestsOK'
    <3>1. req' = [req EXCEPT ![q] = Idle]
      BY <1>7 DEF Unarchive, Done
    <3> QED  BY <1>1, <3>1, RequestFields, RequestMoved
  <2>3. LiveProjectHasData'
    BY <1>1, <1>7, BoundsAssumption, RequestFields
       DEF Unarchive, At, Done, LiveProjectHasData, RowsOK, ProjectRows,
           RequestsOK, PurgeAuditedOnce
  <2>4. PurgeAuditedOnce'
    BY <1>1, <1>7, BoundsAssumption, RequestFields
       DEF Unarchive, At, Done, PurgeAuditedOnce, RowsOK, ProjectRows,
           LiveProjectHasData, AuditsOK, JobsOK, RequestsOK
  <2>5. InvitationsOK' /\ AuditsOK' /\ JobsOK'
    BY <1>1, <1>7
       DEF Unarchive, At, Done, InvitationsOK, InvitationRows, AuditsOK,
           JobsOK
  <2> QED  BY <2>1, <2>2, <2>3, <2>4, <2>5
              DEF ProjectInd
<1>8. ASSUME NEW q \in Requests, Delete(q)
      PROVE  ProjectInd'
  <2>1. RowsOK'
    BY <1>1, <1>8, BoundsAssumption, RequestFields
       DEF Delete, At, Done, InvitationsAfterDelete, Pending, RowsOK,
           ProjectRows, RequestsOK
  <2>2. InvitationsOK'
    <3>1. inv' = InvitationsAfterDelete(req[q].p)
      BY <1>8 DEF Delete
    <3>2. ASSUME NEW i \in Invitations PROVE inv'[i] \in InvitationRows
      <4>1. inv[i] \in InvitationRows /\ [inv[i] EXCEPT !.revoked = TRUE] \in InvitationRows
        BY <1>1 DEF InvitationsOK, InvitationRows
      <4>2. inv'[i] \in {inv[i], [inv[i] EXCEPT !.revoked = TRUE]}
        BY <3>1 DEF InvitationsAfterDelete
      <4> QED  BY <4>1, <4>2
    <3> QED  BY <3>1, <3>2 DEF InvitationsOK, InvitationsAfterDelete
  <2>3. RequestsOK'
    <3>1. req' = [req EXCEPT ![q] = Idle]
      BY <1>8 DEF Delete, Done
    <3> QED  BY <1>1, <3>1, RequestFields, RequestMoved
  <2>4. JobsOK'
    BY <1>1, <1>8, BoundsAssumption, RequestFields
       DEF Delete, At, Done, InvitationsAfterDelete, Pending, JobsOK
  <2>5. LiveProjectHasData'
    BY <1>1, <1>8, BoundsAssumption, RequestFields
       DEF Delete, At, Done, InvitationsAfterDelete, Pending,
           LiveProjectHasData, RowsOK, ProjectRows, RequestsOK,
           PurgeAuditedOnce
  <2>6. PurgeAuditedOnce'
    BY <1>1, <1>8, BoundsAssumption, RequestFields
       DEF Delete, At, Done, InvitationsAfterDelete, Pending,
           PurgeAuditedOnce, RowsOK, ProjectRows, LiveProjectHasData,
           AuditsOK, JobsOK, RequestsOK
  <2>7. AuditsOK'
    BY <1>1, <1>8
       DEF Delete, At, Done, InvitationsAfterDelete, Pending, AuditsOK
  <2> QED  BY <2>1, <2>2, <2>3, <2>4, <2>5, <2>6, <2>7
              DEF ProjectInd
<1>9. ASSUME NEW q \in Requests, Restore(q)
      PROVE  ProjectInd'
  <2>1. RowsOK'
    BY <1>1, <1>9, BoundsAssumption, RequestFields, ZenonT(30)
       DEF Restore, At, Done, Restorable, RowsOK, ProjectRows, RequestsOK
  <2>2. RequestsOK'
    <3>1. req' = [req EXCEPT ![q] = Idle]
      BY <1>9 DEF Restore, Done
    <3> QED  BY <1>1, <3>1, RequestFields, RequestMoved
  <2>3. LiveProjectHasData'
    BY <1>1, <1>9, BoundsAssumption, RequestFields
       DEF Restore, At, Done, Restorable, LiveProjectHasData, RowsOK,
           ProjectRows, RequestsOK, PurgeAuditedOnce
  <2>4. PurgeAuditedOnce'
    BY <1>1, <1>9, BoundsAssumption, RequestFields
       DEF Restore, At, Done, Restorable, PurgeAuditedOnce, RowsOK,
           ProjectRows, LiveProjectHasData, AuditsOK, JobsOK, RequestsOK
  <2>5. InvitationsOK' /\ AuditsOK' /\ JobsOK'
    BY <1>1, <1>9
       DEF Restore, At, Done, Restorable, InvitationsOK, InvitationRows,
           AuditsOK, JobsOK
  <2> QED  BY <2>1, <2>2, <2>3, <2>4, <2>5
              DEF ProjectInd
<1>10. ASSUME NEW q \in Requests, CheckWritable(q)
      PROVE  ProjectInd'
  <2>1. RequestsOK'
    <3>1. req[q] \in RequestStates /\ req[q] # Idle
      BY <1>1, <1>10, RequestFields DEF RequestsOK, CheckWritable
    <3>2. req' = [req EXCEPT ![q] = [req[q] EXCEPT !.pc = "checked"]]
      BY <1>1, <1>10 DEF CheckWritable, Checked, RequestsOK
    <3> QED  BY <1>1, <3>1, <3>2, RequestMade, RequestMoved
  <2>2. /\ RowsOK' /\ InvitationsOK' /\ AuditsOK' /\ JobsOK'
        /\ LiveProjectHasData' /\ PurgeAuditedOnce'
    BY <1>1, <1>10
       DEF CheckWritable, Checked, RowsOK, ProjectRows, InvitationsOK,
           InvitationRows, AuditsOK, JobsOK, LiveProjectHasData,
           PurgeAuditedOnce
  <2> QED  BY <2>1, <2>2
              DEF ProjectInd
<1>11. ASSUME NEW q \in Requests, InsertDependent(q)
      PROVE  ProjectInd'
  <2>1. RequestsOK'
    <3>1. req' = [req EXCEPT ![q] = Idle]
      BY <1>11 DEF InsertDependent, Done
    <3> QED  BY <1>1, <3>1, RequestFields, RequestMoved
  <2>2. JobsOK'
    BY <1>1, <1>11, BoundsAssumption, RequestFields
       DEF InsertDependent, Done, JobsOK
  <2>3. /\ RowsOK' /\ InvitationsOK' /\ AuditsOK' /\ LiveProjectHasData'
        /\ PurgeAuditedOnce'
    BY <1>1, <1>11
       DEF InsertDependent, Done, RowsOK, ProjectRows, InvitationsOK,
           InvitationRows, AuditsOK, LiveProjectHasData, PurgeAuditedOnce
  <2> QED  BY <2>1, <2>2, <2>3
              DEF ProjectInd
<1>12. ASSUME NEW q \in Requests, InsertInvitation(q)
      PROVE  ProjectInd'
  <2>1. InvitationsOK'
    <3>1. CASE UNCHANGED inv
      BY <1>1, <3>1 DEF InvitationsOK
    <3>2. CASE \E i \in Invitations : inv' = [inv EXCEPT ![i].p = req[q].p]
      <4>1. PICK i \in Invitations : inv' = [inv EXCEPT ![i].p = req[q].p]
        BY <3>2
      <4>2. req[q].p \in Projects
        BY <1>1, <1>12, RequestFields DEF RequestsOK, InsertInvitation, At
      <4>3. [inv[i] EXCEPT !.p = req[q].p] \in InvitationRows
        BY <1>1, <4>2 DEF InvitationsOK, InvitationRows
      <4>4. inv' = [inv EXCEPT ![i] = [inv[i] EXCEPT !.p = req[q].p]]
        BY <1>1, <4>1 DEF InvitationsOK
      <4> QED  BY <1>1, <4>3, <4>4 DEF InvitationsOK
    <3> QED  BY <1>12, <3>1, <3>2 DEF InsertInvitation
  <2>2. RequestsOK'
    <3>1. req' = [req EXCEPT ![q] = Idle]
      BY <1>12 DEF InsertInvitation, Done
    <3> QED  BY <1>1, <3>1, RequestFields, RequestMoved
  <2>3. /\ RowsOK' /\ AuditsOK' /\ JobsOK' /\ LiveProjectHasData'
        /\ PurgeAuditedOnce'
    BY <1>1, <1>12
       DEF InsertInvitation, At, Done, Pending, RowsOK, ProjectRows,
           AuditsOK, JobsOK, LiveProjectHasData, PurgeAuditedOnce
  <2> QED  BY <2>1, <2>2, <2>3
              DEF ProjectInd
<1>13. ASSUME NEW q \in Requests, Revoke(q)
      PROVE  ProjectInd'
  <2>1. InvitationsOK'
    BY <1>1, <1>13, BoundsAssumption, RequestFields
       DEF Revoke, At, Done, InvitationsOK, InvitationRows
  <2>2. RequestsOK'
    <3>1. req' = [req EXCEPT ![q] = Idle]
      BY <1>13 DEF Revoke, Done
    <3> QED  BY <1>1, <3>1, RequestFields, RequestMoved
  <2>3. /\ RowsOK' /\ AuditsOK' /\ JobsOK' /\ LiveProjectHasData'
        /\ PurgeAuditedOnce'
    BY <1>1, <1>13
       DEF Revoke, At, Done, RowsOK, ProjectRows, AuditsOK, JobsOK,
           LiveProjectHasData, PurgeAuditedOnce
  <2> QED  BY <2>1, <2>2, <2>3
              DEF ProjectInd
<1>14. ASSUME NEW q \in Requests, AcceptCheck(q)
      PROVE  ProjectInd'
  <2>1. RequestsOK'
    <3>1. req[q] \in RequestStates /\ req[q] # Idle
      BY <1>1, <1>14, RequestFields DEF RequestsOK, AcceptCheck, At
    <3>2. req' = [req EXCEPT ![q] = [req[q] EXCEPT !.pc = "checked"]]
      BY <1>1, <1>14 DEF AcceptCheck, Checked, RequestsOK
    <3> QED  BY <1>1, <3>1, <3>2, RequestMade, RequestMoved
  <2>2. /\ RowsOK' /\ InvitationsOK' /\ AuditsOK' /\ JobsOK'
        /\ LiveProjectHasData' /\ PurgeAuditedOnce'
    BY <1>1, <1>14
       DEF AcceptCheck, At, Checked, RowsOK, ProjectRows, InvitationsOK,
           InvitationRows, AuditsOK, JobsOK, LiveProjectHasData,
           PurgeAuditedOnce
  <2> QED  BY <2>1, <2>2
              DEF ProjectInd
<1>15. ASSUME NEW q \in Requests, AcceptClaim(q)
      PROVE  ProjectInd'
  <2>1. InvitationsOK'
    <3> DEFINE i == req[q].i
    <3>1. inv' = [inv EXCEPT ![i].accepted = TRUE]
      BY <1>15 DEF AcceptClaim
    <3> HIDE DEF i
    <3> QED  BY <1>1, <3>1 DEF InvitationsOK, InvitationRows
  <2>2. RequestsOK'
    <3>1. req' = [req EXCEPT ![q] = Idle]
      BY <1>15 DEF AcceptClaim, Done
    <3> QED  BY <1>1, <3>1, RequestFields, RequestMoved
  <2>3. /\ RowsOK' /\ AuditsOK' /\ JobsOK' /\ LiveProjectHasData'
        /\ PurgeAuditedOnce'
    BY <1>1, <1>15
       DEF AcceptClaim, At, Claimable, Pending, Done, RowsOK, ProjectRows,
           AuditsOK, JobsOK, LiveProjectHasData, PurgeAuditedOnce
  <2> QED  BY <2>1, <2>2, <2>3
              DEF ProjectInd
<1>16. ASSUME NEW p \in Projects, EndDependent(p)
      PROVE  ProjectInd'
  <2>1. JobsOK'
    BY <1>1, <1>16, BoundsAssumption, RequestFields DEF EndDependent, JobsOK
  <2>2. /\ RowsOK' /\ InvitationsOK' /\ RequestsOK' /\ AuditsOK'
        /\ LiveProjectHasData' /\ PurgeAuditedOnce'
    BY <1>1, <1>16
       DEF EndDependent, RowsOK, ProjectRows, InvitationsOK, InvitationRows,
           RequestsOK, AuditsOK, LiveProjectHasData, PurgeAuditedOnce
  <2> QED  BY <2>1, <2>2
              DEF ProjectInd
<1>17. ASSUME NEW p \in Projects, Elapse(p)
      PROVE  ProjectInd'
  <2>1. RowsOK'
    BY <1>1, <1>17, BoundsAssumption, RequestFields
       DEF Elapse, RowsOK, ProjectRows, RequestsOK
  <2>2. LiveProjectHasData'
    BY <1>1, <1>17, BoundsAssumption, RequestFields
       DEF Elapse, LiveProjectHasData, RowsOK, ProjectRows, RequestsOK,
           PurgeAuditedOnce
  <2>3. PurgeAuditedOnce'
    BY <1>1, <1>17, BoundsAssumption, RequestFields
       DEF Elapse, PurgeAuditedOnce, RowsOK, ProjectRows, LiveProjectHasData,
           AuditsOK, JobsOK, RequestsOK
  <2>4. InvitationsOK' /\ RequestsOK' /\ AuditsOK' /\ JobsOK'
    BY <1>1, <1>17
       DEF Elapse, InvitationsOK, InvitationRows, RequestsOK, AuditsOK,
           JobsOK
  <2> QED  BY <2>1, <2>2, <2>3, <2>4
              DEF ProjectInd
<1>18. ASSUME NEW w \in Workers, PurgeSelect(w)
      PROVE  ProjectInd'
  <2>1. JobsOK'
    BY <1>1, <1>18, BoundsAssumption, RequestFields
       DEF PurgeSelect, PurgeDue, JobsOK
  <2>2. /\ RowsOK' /\ InvitationsOK' /\ RequestsOK' /\ AuditsOK'
        /\ LiveProjectHasData' /\ PurgeAuditedOnce'
    BY <1>1, <1>18
       DEF PurgeSelect, PurgeDue, RowsOK, ProjectRows, InvitationsOK,
           InvitationRows, RequestsOK, AuditsOK, LiveProjectHasData,
           PurgeAuditedOnce
  <2> QED  BY <2>1, <2>2
              DEF ProjectInd
<1>19. ASSUME NEW w \in Workers, NEW p \in Projects, PurgeOne(w, p)
      PROVE  ProjectInd'
  <2>1. RowsOK'
    BY <1>1, <1>19, BoundsAssumption, RequestFields
       DEF PurgeOne, Erasable, PurgeDue, NoInv, RowsOK, ProjectRows,
           RequestsOK
  <2>2. InvitationsOK'
    BY <1>1, <1>19, BoundsAssumption, RequestFields
       DEF PurgeOne, Erasable, PurgeDue, NoInv, InvitationsOK, InvitationRows
  <2>3. AuditsOK'
    <3>1. Cardinality(Workers) \in Nat /\ Cardinality(Workers) >= 1
      <4>1. Cardinality(Workers) \in Nat
        BY BoundsAssumption, FS_CardinalityType
      <4>2. Cardinality(Workers) # 0
        BY BoundsAssumption, FS_EmptySet
      <4> QED  BY <4>1, <4>2
    <3>2. audits[p] = 0 /\ audits' = [audits EXCEPT ![p] = @ + 1]
      BY <1>1, <1>19 DEF PurgeOne, Erasable, PurgeDue, PurgeAuditedOnce
    <3>3. audits'[p] = 1 /\ \A r \in Projects \ {p} : audits'[r] = audits[r]
      BY <1>1, <3>2 DEF AuditsOK
    <3> QED  BY <1>1, <3>1, <3>2, <3>3 DEF AuditsOK
  <2>4. JobsOK'
    BY <1>1, <1>19, BoundsAssumption, RequestFields
       DEF PurgeOne, Erasable, PurgeDue, NoInv, JobsOK
  <2>5. LiveProjectHasData'
    BY <1>1, <1>19, BoundsAssumption, RequestFields
       DEF PurgeOne, Erasable, PurgeDue, NoInv, LiveProjectHasData, RowsOK,
           ProjectRows, RequestsOK, PurgeAuditedOnce
  <2>6. PurgeAuditedOnce'
    BY <1>1, <1>19, BoundsAssumption, RequestFields
       DEF PurgeOne, Erasable, PurgeDue, NoInv, PurgeAuditedOnce, RowsOK,
           ProjectRows, LiveProjectHasData, AuditsOK, JobsOK, RequestsOK
  <2>7. RequestsOK'
    BY <1>1, <1>19 DEF PurgeOne, Erasable, PurgeDue, NoInv, RequestsOK
  <2> QED  BY <2>1, <2>2, <2>3, <2>4, <2>5, <2>6, <2>7
              DEF ProjectInd
<1>20. ASSUME NEW w \in Workers, NEW p \in Projects, PurgeSkip(w, p)
      PROVE  ProjectInd'
  <2>1. JobsOK'
    BY <1>1, <1>20, BoundsAssumption, RequestFields
       DEF PurgeSkip, Erasable, PurgeDue, JobsOK
  <2>2. /\ RowsOK' /\ InvitationsOK' /\ RequestsOK' /\ AuditsOK'
        /\ LiveProjectHasData' /\ PurgeAuditedOnce'
    BY <1>1, <1>20
       DEF PurgeSkip, Erasable, PurgeDue, RowsOK, ProjectRows, InvitationsOK,
           InvitationRows, RequestsOK, AuditsOK, LiveProjectHasData,
           PurgeAuditedOnce
  <2> QED  BY <2>1, <2>2
              DEF ProjectInd
<1>21. ASSUME NEW w \in Workers, NEW p \in Projects, PurgeFails(w, p)
      PROVE  ProjectInd'
  <2>1. JobsOK'
    BY <1>1, <1>21, BoundsAssumption, RequestFields DEF PurgeFails, JobsOK
  <2>2. /\ RowsOK' /\ InvitationsOK' /\ RequestsOK' /\ AuditsOK'
        /\ LiveProjectHasData' /\ PurgeAuditedOnce'
    BY <1>1, <1>21
       DEF PurgeFails, RowsOK, ProjectRows, InvitationsOK, InvitationRows,
           RequestsOK, AuditsOK, LiveProjectHasData, PurgeAuditedOnce
  <2> QED  BY <2>1, <2>2
              DEF ProjectInd
<1>22. CASE UNCHANGED projectVars
  BY <1>1, <1>22
     DEF projectVars, AuditsOK, InvitationRows, InvitationsOK, JobsOK,
         LiveProjectHasData, ProjectInd, ProjectRows, PurgeAuditedOnce,
         RequestsOK, RowsOK
<1> QED  BY <1>2, <1>3, <1>4, <1>5, <1>6, <1>7, <1>8, <1>9, <1>10, <1>11,
            <1>12, <1>13, <1>14, <1>15, <1>16, <1>17, <1>18, <1>19, <1>20,
            <1>21, <1>22
            DEF ProjectNext, Handlers, Purge

\* A project that is not deleted has its data, and the data of a project is gone
\* exactly when the tombstone and one audit row say so (project-purge.ts and
\* project-lifecycle.ts), for any number of projects, requests and overlapping
\* purge runs.
THEOREM ProjectAlwaysSafe == ProjectSpec => []ProjectSafe
<1>1. ProjectSpec => []ProjectInd
  BY ProjectInitInd, ProjectPreserved, PTL DEF ProjectSpec
<1> QED  BY <1>1, ProjectIndIsSafe, PTL

\* A step erases only a project that is due, and turns no revoked invitation
\* into a membership.
LEMMA ProjectStep ==
  ASSUME ProjectInd, [ProjectNext]_projectVars
  PROVE  /\ \A p \in Projects : (p \in whole /\ p \notin whole') => row[p].due
         /\ \A i \in Invitations :
              (inv[i].revoked /\ inv'[i].p # "none") => inv'[i].accepted = inv[i].accepted
<1>1. RowsOK /\ InvitationsOK /\ RequestsOK
  BY DEF ProjectInd
<1>2. CASE UNCHANGED <<whole, inv>>
  BY <1>2
<1>3. ASSUME NEW w \in Workers, NEW p \in Projects, PurgeOne(w, p)
      PROVE  /\ \A r \in Projects : (r \in whole /\ r \notin whole') => row[r].due
             /\ \A i \in Invitations :
                  (inv[i].revoked /\ inv'[i].p # "none") => inv'[i].accepted = inv[i].accepted
  <2>1. \A r \in Projects : (r \in whole /\ r \notin whole') => row[r].due
    BY <1>3 DEF PurgeOne, Erasable, PurgeDue
  <2>2. \A i \in Invitations : inv'[i] = IF inv[i].p = p THEN NoInv ELSE inv[i]
    BY <1>3 DEF PurgeOne
  <2> QED  BY <2>1, <2>2 DEF NoInv
<1>4. ASSUME NEW q \in Requests, AcceptClaim(q)
      PROVE  /\ \A r \in Projects : (r \in whole /\ r \notin whole') => row[r].due
             /\ \A i \in Invitations :
                  (inv[i].revoked /\ inv'[i].p # "none") => inv'[i].accepted = inv[i].accepted
  <2> DEFINE k == req[q].i
  <2>1. UNCHANGED whole /\ inv' = [inv EXCEPT ![k].accepted = TRUE] /\ ~inv[k].revoked
    BY <1>4 DEF AcceptClaim, Claimable, Pending
  <2> HIDE DEF k
  <2>2. \A i \in Invitations : inv[i].revoked => inv'[i] = inv[i]
    BY <1>1, <2>1 DEF InvitationsOK
  <2> QED  BY <2>1, <2>2
<1>5. ASSUME NEW q \in Requests, Delete(q) \/ Revoke(q) \/ InsertInvitation(q)
      PROVE  /\ \A r \in Projects : (r \in whole /\ r \notin whole') => row[r].due
             /\ \A i \in Invitations :
                  (inv[i].revoked /\ inv'[i].p # "none") => inv'[i].accepted = inv[i].accepted
  <2>1. UNCHANGED whole
    BY <1>5 DEF Delete, Revoke, InsertInvitation
  <2>2. ASSUME NEW i \in Invitations PROVE inv'[i].accepted = inv[i].accepted
    <3>1. CASE Delete(q)
      BY <1>1, <3>1 DEF Delete, InvitationsAfterDelete, InvitationsOK, InvitationRows
    <3>2. CASE Revoke(q)
      <4> DEFINE k == req[q].i
      <4>1. inv' = [inv EXCEPT ![k].revoked = TRUE]
        BY <3>2 DEF Revoke
      <4> HIDE DEF k
      <4> QED  BY <1>1, <4>1 DEF InvitationsOK, InvitationRows
    <3>3. CASE InsertInvitation(q)
      <4>1. CASE UNCHANGED inv
        BY <4>1
      <4>2. CASE \E k \in Invitations : inv' = [inv EXCEPT ![k].p = req[q].p]
        BY <1>1, <4>2 DEF InvitationsOK, InvitationRows
      <4> QED  BY <3>3, <4>1, <4>2 DEF InsertInvitation
    <3> QED  BY <1>5, <3>1, <3>2, <3>3
  <2> QED  BY <2>1, <2>2
<1>6. ASSUME NEW q \in Requests, Handlers(q),
             ~AcceptClaim(q), ~Delete(q), ~Revoke(q), ~InsertInvitation(q)
      PROVE  UNCHANGED <<whole, inv>>
  BY <1>6 DEF Handlers, Refuse, Archive, Unarchive, Restore, CheckWritable, InsertDependent,
     AcceptCheck
<1>7. ASSUME NEW w \in Workers, Purge(w), \A p \in Projects : ~PurgeOne(w, p)
      PROVE  UNCHANGED <<whole, inv>>
  BY <1>7 DEF Purge, PurgeSelect, PurgeSkip, PurgeFails
<1>8. ASSUME NEW q \in Requests, \/ \E op \in GatedOps, p \in Projects : Gate(q, op, p)
                                 \/ \E i \in Invitations : RevokeRead(q, i) \/ AcceptLoad(q, i)
      PROVE  UNCHANGED <<whole, inv>>
  BY <1>8 DEF Gate, RevokeRead, AcceptLoad
<1>9. ASSUME NEW p \in Projects, EndDependent(p) \/ Elapse(p)
      PROVE  UNCHANGED <<whole, inv>>
  BY <1>9 DEF EndDependent, Elapse
<1>10. CASE UNCHANGED projectVars
  BY <1>10 DEF projectVars
<1> QED  BY <1>2, <1>3, <1>4, <1>5, <1>6, <1>7, <1>8, <1>9, <1>10 DEF ProjectNext

\* The purge erases nothing within its grace period (findPurgeDueProjectIds and
\* the locked re-check), and a token whose invitation was revoked lets nobody
\* join (claimInvitation).
THEOREM ProjectStepsHold == ProjectSpec => ProjectSteps
<1>1. ProjectInd /\ [ProjectNext]_projectVars =>
        /\ [\A p \in Projects : (p \in whole /\ p \notin whole') => row[p].due]_projectVars
        /\ [\A i \in Invitations :
              (inv[i].revoked /\ inv'[i].p # "none") => inv'[i].accepted = inv[i].accepted]_projectVars
  BY ProjectStep
<1>2. ProjectSpec => []ProjectInd
  BY ProjectInitInd, ProjectPreserved, PTL DEF ProjectSpec
<1> QED  BY <1>1, <1>2, PTL DEF ProjectSpec, ProjectSteps, GraceRespected, RevokedNeverJoins

-----------------------------------------------------------------------------
(* ProjectMembers: the strengthening of MembersSafe. *)

\* There is at most one owner, as two candidates that coincide.
OneOwner == \A u, v \in Users : role[u] = "owner" /\ role[v] = "owner" => u = v

\* At most one transfer holds a row lock.
LockedAlone ==
  \A s, t \in Changes :
    memberTx[s].op = "transfer_locked" /\ memberTx[t].op = "transfer_locked" => s = t

\* The guards refuse the owner's removal and change of role and a transfer to
\* nobody, so a change under way has seen something else.
SeenAdmitted ==
  \A t \in Changes :
    /\ memberTx[t].op \in {"remove_read", "rank_read", "org_checked"} => memberTx[t].seen # "owner"
    /\ memberTx[t].op \in {"transfer_target", "transfer_found", "transfer_locked"} =>
         memberTx[t].seen # "none"

\* The types of MembersTypeOK, and what a lock guarantees.
RolesOK == inOrg \subseteq Users /\ role \in [Users -> AddableRoles \cup {"owner", "none"}]
ChangesOK == memberTx \in [Changes -> TxStates]
LockedIsOwner ==
  \A t \in Changes : memberTx[t].op = "transfer_locked" => role[memberTx[t].owner] = "owner"
StaleOK == stale \in BOOLEAN

MembersInd ==
  /\ RolesOK /\ ChangesOK /\ LockedIsOwner /\ StaleOK
  /\ OneOwner /\ LockedAlone /\ SeenAdmitted /\ OwnerLostOnlyStale

\* The fields of a transaction in flight, by what it has read.
LEMMA ChangeFields ==
  /\ NoChange \in TxStates /\ NoChange.op = "idle"
  /\ \A x \in TxStates :
       /\ x.op # "idle" => x.u \in Users
       /\ x.op \in {"transfer_found", "transfer_locked"} => x.owner \in Users
<1>1. NoChange \in TxStates /\ NoChange.op = "idle"
  BY DEF TxStates, NoChange
<1>2. ASSUME NEW x \in TxStates
      PROVE  /\ x.op # "idle" => x.u \in Users
             /\ x.op \in {"transfer_found", "transfer_locked"} => x.owner \in Users
  <2>1. CASE x = NoChange
    BY <2>1 DEF NoChange
  <2>2. CASE x \in [op : {"transfer_target", "rank_read", "remove_read", "org_checked"},
                    u : Users, seen : Standings]
    BY <2>2
  <2>3. CASE x \in [op : {"transfer_found", "transfer_locked"}, u : Users, owner : Users,
                    seen : Standings]
    BY <2>3
  <2>4. CASE x \in [op : {"org_locked"}, u : Users]
    BY <2>4
  <2>5. CASE x \in [op : {"accept_read"}, u : Users, existing : BOOLEAN]
    BY <2>5
  <2> QED  BY <2>1, <2>2, <2>3, <2>4, <2>5 DEF TxStates
<1> QED  BY <1>1, <1>2

\* The transaction states that the actions make.
LEMMA ChangeMade ==
  /\ \A u \in Users : [op |-> "org_locked", u |-> u] \in TxStates
  /\ \A u \in Users, p \in {"transfer_target", "rank_read", "remove_read", "org_checked"},
        g \in Standings : [op |-> p, u |-> u, seen |-> g] \in TxStates
  /\ \A u, o \in Users, g \in Standings :
       [op |-> "transfer_found", u |-> u, owner |-> o, seen |-> g] \in TxStates
  /\ \A u \in Users, b \in BOOLEAN :
       [op |-> "accept_read", u |-> u, existing |-> b] \in TxStates
<1>1. \A u \in Users : [op |-> "org_locked", u |-> u] \in TxStates
  BY DEF TxStates
<1>2. \A u \in Users, p \in {"transfer_target", "rank_read", "remove_read", "org_checked"},
        g \in Standings : [op |-> p, u |-> u, seen |-> g] \in TxStates
  BY DEF TxStates
<1>3. \A u, o \in Users, g \in Standings :
       [op |-> "transfer_found", u |-> u, owner |-> o, seen |-> g] \in TxStates
  BY DEF TxStates
<1>4. \A u \in Users, b \in BOOLEAN :
       [op |-> "accept_read", u |-> u, existing |-> b] \in TxStates
  BY DEF TxStates
<1> QED  BY <1>1, <1>2, <1>3, <1>4

\* The standing of a user, and what the guards make of it.
LEMMA StandingOf ==
  ASSUME RolesOK, NEW u \in Users
  PROVE  /\ Standing(u) \in Standings
         /\ Standing(u) = "owner" <=> role[u] = "owner"
         /\ Standing(u) = "none" <=> role[u] = "none"
BY DEF RolesOK, Standing, Standings, AddableRoles

\* A transfer has seen a standing.
LEMMA TransferSeen ==
  ASSUME NEW x \in TxStates, x.op = "transfer_target"
  PROVE  x.u \in Users /\ x.seen \in Standings
<1>1. x \in [op : {"transfer_target", "rank_read", "remove_read", "org_checked"},
             u : Users, seen : Standings]
  BY DEF TxStates, NoChange
<1> QED  BY <1>1

\* A transfer that found its row is one that may lock it.
LEMMA ChangeLocks ==
  ASSUME NEW x \in TxStates, x.op = "transfer_found"
  PROVE  LET y == [x EXCEPT !.op = "transfer_locked"]
         IN  y \in TxStates /\ y.op = "transfer_locked" /\ y.owner = x.owner /\ y.u = x.u /\ y.seen = x.seen
<1>1. x \in [op : {"transfer_found", "transfer_locked"}, u : Users, owner : Users,
             seen : Standings]
  BY DEF TxStates, NoChange
<1> QED  BY <1>1 DEF TxStates

\* A step of one transaction leaves the others alone.
LEMMA ChangeMoved ==
  ASSUME ChangesOK, NEW t \in Changes, NEW x \in TxStates, Step(t, x)
  PROVE  /\ ChangesOK' /\ memberTx'[t] = x
         /\ \A s \in Changes \ {t} : memberTx'[s] = memberTx[s]
BY DEF ChangesOK, Step

\* The first state satisfies the invariant.
LEMMA MembersInitInd == MembersInit => MembersInd
<1> SUFFICES ASSUME MembersInit PROVE MembersInd
  OBVIOUS
<1>1. RolesOK /\ OneOwner
  BY DEF MembersInit, RolesOK, OneOwner
<1>2. ChangesOK
  BY ChangeFields DEF MembersInit, ChangesOK
<1>3. \A t \in Changes : memberTx[t].op = "idle"
  BY ChangeFields DEF MembersInit
<1>4. LockedIsOwner /\ LockedAlone /\ SeenAdmitted
  BY <1>3 DEF LockedIsOwner, LockedAlone, SeenAdmitted
<1>5. StaleOK /\ OwnerLostOnlyStale
  BY CreatorAssumption DEF MembersInit, StaleOK, OwnerLostOnlyStale, Owners
<1> QED  BY <1>1, <1>2, <1>4, <1>5 DEF MembersInd

\* Every step keeps the invariant of the members.
LEMMA MembersPreserved ==
  ASSUME MembersInd, [MembersNext]_membersVars
  PROVE  MembersInd'
<1>1. /\ RolesOK /\ ChangesOK /\ LockedIsOwner /\ StaleOK /\ OneOwner
      /\ LockedAlone /\ SeenAdmitted /\ OwnerLostOnlyStale
  BY DEF MembersInd
<1>2. ASSUME NEW t \in Changes, NEW u \in Users, Add(t, u)
      PROVE  MembersInd'
  <2>1. RolesOK'
    BY <1>1, <1>2, ChangeFields
       DEF Add, AddableRoles, OrgRowLocked, RolesOK, ChangesOK, OneOwner,
           LockedIsOwner
  <2>2. LockedIsOwner'
    BY <1>1, <1>2, ChangeFields
       DEF Add, AddableRoles, OrgRowLocked, LockedIsOwner, RolesOK,
           ChangesOK, OneOwner
  <2>3. OneOwner'
    BY <1>1, <1>2, ChangeFields
       DEF Add, AddableRoles, OrgRowLocked, OneOwner, RolesOK, ChangesOK,
           LockedIsOwner
  <2>4. OwnerLostOnlyStale'
    BY <1>1, <1>2, ChangeFields
       DEF Add, AddableRoles, OrgRowLocked, OwnerLostOnlyStale, Owners,
           RolesOK, ChangesOK, OneOwner, LockedIsOwner
  <2>5. ChangesOK' /\ StaleOK' /\ LockedAlone' /\ SeenAdmitted'
    BY <1>1, <1>2
       DEF Add, AddableRoles, OrgRowLocked, ChangesOK, StaleOK, LockedAlone,
           SeenAdmitted
  <2> QED  BY <2>1, <2>2, <2>3, <2>4, <2>5
              DEF MembersInd
<1>3. ASSUME NEW t \in Changes, NEW u \in Users, AcceptRead(t, u)
      PROVE  MembersInd'
  <2> DEFINE x == [op |-> "accept_read", u |-> u, existing |-> u \in inOrg]
  <2>1. x \in TxStates /\ x.op = "accept_read"
    <3>1. \A b \in BOOLEAN : [op |-> "accept_read", u |-> u, existing |-> b] \in TxStates
      BY ChangeMade
    <3>2. (u \in inOrg) \in BOOLEAN
      OBVIOUS
    <3>3. x \in TxStates
      BY <3>1, <3>2, Zenon
    <3> QED  BY <3>3
  <2>2. Step(t, x) /\ UNCHANGED <<inOrg, role, stale>>
    BY <1>3 DEF AcceptRead
  <2> HIDE DEF x
  <2>3. /\ ChangesOK' /\ memberTx'[t] = x
        /\ \A s \in Changes \ {t} : memberTx'[s] = memberTx[s]
    BY <1>1, <2>1, <2>2, ChangeMoved
  <2>4. RolesOK'
    BY <1>1, <2>1, <2>2, <2>3 DEF RolesOK
  <2>5. ChangesOK'
    BY <2>3
  <2>6. LockedIsOwner'
    BY <1>1, <2>1, <2>2, <2>3 DEF LockedIsOwner
  <2>7. StaleOK'
    BY <1>1, <2>1, <2>2, <2>3 DEF StaleOK
  <2>8. OneOwner'
    BY <1>1, <2>1, <2>2, <2>3 DEF OneOwner
  <2>9. LockedAlone'
    BY <1>1, <2>1, <2>2, <2>3 DEF LockedAlone
  <2>10. SeenAdmitted'
    BY <1>1, <2>1, <2>2, <2>3 DEF SeenAdmitted
  <2>11. OwnerLostOnlyStale'
    BY <1>1, <2>1, <2>2, <2>3 DEF OwnerLostOnlyStale, Owners
  <2> QED  BY <2>4, <2>5, <2>6, <2>7, <2>8, <2>9, <2>10, <2>11
              DEF MembersInd
<1>4. ASSUME NEW t \in Changes, NEW u \in Users, RemoveRead(t, u)
      PROVE  MembersInd'
  <2> DEFINE x == [op |-> "remove_read", u |-> u, seen |-> Standing(u)]
  <2>1. x \in TxStates /\ x.op = "remove_read" /\ x.seen # "owner"
    <3>1. role[u] # "owner"
      BY <1>1, <1>4 DEF RemoveRead, Removable, Owners, OneOwner
    <3> QED  BY <1>1, <3>1, ChangeMade, StandingOf
  <2>2. Step(t, x) /\ UNCHANGED <<inOrg, role, stale>>
    BY <1>4 DEF RemoveRead
  <2> HIDE DEF x
  <2>3. /\ ChangesOK' /\ memberTx'[t] = x
        /\ \A s \in Changes \ {t} : memberTx'[s] = memberTx[s]
    BY <1>1, <2>1, <2>2, ChangeMoved
  <2>4. RolesOK'
    BY <1>1, <2>1, <2>2, <2>3 DEF RolesOK
  <2>5. ChangesOK'
    BY <2>3
  <2>6. LockedIsOwner'
    BY <1>1, <2>1, <2>2, <2>3 DEF LockedIsOwner
  <2>7. StaleOK'
    BY <1>1, <2>1, <2>2, <2>3 DEF StaleOK
  <2>8. OneOwner'
    BY <1>1, <2>1, <2>2, <2>3 DEF OneOwner
  <2>9. LockedAlone'
    BY <1>1, <2>1, <2>2, <2>3 DEF LockedAlone
  <2>10. SeenAdmitted'
    BY <1>1, <2>1, <2>2, <2>3 DEF SeenAdmitted
  <2>11. OwnerLostOnlyStale'
    BY <1>1, <2>1, <2>2, <2>3 DEF OwnerLostOnlyStale, Owners
  <2> QED  BY <2>4, <2>5, <2>6, <2>7, <2>8, <2>9, <2>10, <2>11
              DEF MembersInd
<1>5. ASSUME NEW t \in Changes, NEW u \in Users, RankRead(t, u)
      PROVE  MembersInd'
  <2> DEFINE x == [op |-> "rank_read", u |-> u, seen |-> Standing(u)]
  <2>1. x \in TxStates /\ x.op = "rank_read" /\ x.seen # "owner"
    <3>1. role[u] # "owner"
      BY <1>5 DEF RankRead, AddableRoles
    <3> QED  BY <1>1, <3>1, ChangeMade, StandingOf
  <2>2. Step(t, x) /\ UNCHANGED <<inOrg, role, stale>>
    BY <1>5 DEF RankRead
  <2> HIDE DEF x
  <2>3. /\ ChangesOK' /\ memberTx'[t] = x
        /\ \A s \in Changes \ {t} : memberTx'[s] = memberTx[s]
    BY <1>1, <2>1, <2>2, ChangeMoved
  <2>4. RolesOK'
    BY <1>1, <2>1, <2>2, <2>3 DEF RolesOK
  <2>5. ChangesOK'
    BY <2>3
  <2>6. LockedIsOwner'
    BY <1>1, <2>1, <2>2, <2>3 DEF LockedIsOwner
  <2>7. StaleOK'
    BY <1>1, <2>1, <2>2, <2>3 DEF StaleOK
  <2>8. OneOwner'
    BY <1>1, <2>1, <2>2, <2>3 DEF OneOwner
  <2>9. LockedAlone'
    BY <1>1, <2>1, <2>2, <2>3 DEF LockedAlone
  <2>10. SeenAdmitted'
    BY <1>1, <2>1, <2>2, <2>3 DEF SeenAdmitted
  <2>11. OwnerLostOnlyStale'
    BY <1>1, <2>1, <2>2, <2>3 DEF OwnerLostOnlyStale, Owners
  <2> QED  BY <2>4, <2>5, <2>6, <2>7, <2>8, <2>9, <2>10, <2>11
              DEF MembersInd
<1>6. ASSUME NEW t \in Changes, NEW u \in Users, OrgLock(t, u)
      PROVE  MembersInd'
  <2> DEFINE x == [op |-> "org_locked", u |-> u]
  <2>1. x \in TxStates /\ x.op = "org_locked"
    BY ChangeMade
  <2>2. Step(t, x) /\ UNCHANGED <<inOrg, role, stale>>
    BY <1>6 DEF OrgLock
  <2> HIDE DEF x
  <2>3. /\ ChangesOK' /\ memberTx'[t] = x
        /\ \A s \in Changes \ {t} : memberTx'[s] = memberTx[s]
    BY <1>1, <2>1, <2>2, ChangeMoved
  <2>4. RolesOK'
    BY <1>1, <2>1, <2>2, <2>3 DEF RolesOK
  <2>5. ChangesOK'
    BY <2>3
  <2>6. LockedIsOwner'
    BY <1>1, <2>1, <2>2, <2>3 DEF LockedIsOwner
  <2>7. StaleOK'
    BY <1>1, <2>1, <2>2, <2>3 DEF StaleOK
  <2>8. OneOwner'
    BY <1>1, <2>1, <2>2, <2>3 DEF OneOwner
  <2>9. LockedAlone'
    BY <1>1, <2>1, <2>2, <2>3 DEF LockedAlone
  <2>10. SeenAdmitted'
    BY <1>1, <2>1, <2>2, <2>3 DEF SeenAdmitted
  <2>11. OwnerLostOnlyStale'
    BY <1>1, <2>1, <2>2, <2>3 DEF OwnerLostOnlyStale, Owners
  <2> QED  BY <2>4, <2>5, <2>6, <2>7, <2>8, <2>9, <2>10, <2>11
              DEF MembersInd
<1>7. ASSUME NEW t \in Changes, NEW u \in Users, TransferTarget(t, u)
      PROVE  MembersInd'
  <2> DEFINE x == [op |-> "transfer_target", u |-> u, seen |-> Standing(u)]
  <2>1. x \in TxStates /\ x.op = "transfer_target" /\ x.seen # "none"
    <3>1. role[u] # "none"
      BY <1>7 DEF TransferTarget, AddableRoles
    <3> QED  BY <1>1, <3>1, ChangeMade, StandingOf
  <2>2. Step(t, x) /\ UNCHANGED <<inOrg, role, stale>>
    BY <1>7 DEF TransferTarget
  <2> HIDE DEF x
  <2>3. /\ ChangesOK' /\ memberTx'[t] = x
        /\ \A s \in Changes \ {t} : memberTx'[s] = memberTx[s]
    BY <1>1, <2>1, <2>2, ChangeMoved
  <2>4. RolesOK'
    BY <1>1, <2>1, <2>2, <2>3 DEF RolesOK
  <2>5. ChangesOK'
    BY <2>3
  <2>6. LockedIsOwner'
    BY <1>1, <2>1, <2>2, <2>3 DEF LockedIsOwner
  <2>7. StaleOK'
    BY <1>1, <2>1, <2>2, <2>3 DEF StaleOK
  <2>8. OneOwner'
    BY <1>1, <2>1, <2>2, <2>3 DEF OneOwner
  <2>9. LockedAlone'
    BY <1>1, <2>1, <2>2, <2>3 DEF LockedAlone
  <2>10. SeenAdmitted'
    BY <1>1, <2>1, <2>2, <2>3 DEF SeenAdmitted
  <2>11. OwnerLostOnlyStale'
    BY <1>1, <2>1, <2>2, <2>3 DEF OwnerLostOnlyStale, Owners
  <2> QED  BY <2>4, <2>5, <2>6, <2>7, <2>8, <2>9, <2>10, <2>11
              DEF MembersInd
<1>8. ASSUME NEW t \in Changes, AcceptInsert(t)
      PROVE  MembersInd'
  <2>1. Step(t, NoChange)
    BY <1>8 DEF AcceptInsert, Commit
  <2>2. /\ ChangesOK' /\ memberTx'[t] = NoChange /\ NoChange.op = "idle"
        /\ \A s \in Changes \ {t} : memberTx'[s] = memberTx[s]
    BY <1>1, <2>1, ChangeMoved, ChangeFields
  <2>3. memberTx[t] \in TxStates /\ memberTx[t].u \in Users
    BY <1>1, <1>8, ChangeFields DEF ChangesOK, AcceptInsert
  <2>4. PICK r \in AddableRoles :
          role' = [role EXCEPT ![memberTx[t].u] = IF @ = "none" THEN r ELSE @]
    BY <1>8 DEF AcceptInsert
  <2>5. \A v \in Users : role'[v] = role[v] \/ (role[v] = "none" /\ role'[v] \in AddableRoles)
    BY <1>1, <2>3, <2>4 DEF RolesOK
  <2>6. UNCHANGED stale /\ inOrg' \subseteq inOrg \cup {memberTx[t].u}
    BY <1>8 DEF AcceptInsert
  <2>7. RolesOK'
    BY <1>1, <2>1, <2>2, <2>3, <2>4, <2>5, <2>6
       DEF RolesOK
  <2>8. ChangesOK'
    BY <2>2
  <2>9. LockedIsOwner'
    BY <1>1, <2>1, <2>2, <2>3, <2>4, <2>5, <2>6
       DEF LockedIsOwner, AddableRoles
  <2>10. StaleOK'
    BY <1>1, <2>1, <2>2, <2>3, <2>4, <2>5, <2>6
       DEF StaleOK
  <2>11. OneOwner'
    BY <1>1, <2>1, <2>2, <2>3, <2>4, <2>5, <2>6
       DEF OneOwner, AddableRoles
  <2>12. LockedAlone'
    BY <1>1, <2>1, <2>2, <2>3, <2>4, <2>5, <2>6
       DEF LockedAlone
  <2>13. SeenAdmitted'
    BY <1>1, <2>1, <2>2, <2>3, <2>4, <2>5, <2>6
       DEF SeenAdmitted
  <2>14. OwnerLostOnlyStale'
    BY <1>1, <2>1, <2>2, <2>3, <2>4, <2>5, <2>6
       DEF OwnerLostOnlyStale, Owners, RolesOK, AddableRoles
  <2> QED  BY <2>7, <2>8, <2>9, <2>10, <2>11, <2>12, <2>13, <2>14
              DEF MembersInd
<1>9. ASSUME NEW t \in Changes, RemoveDelete(t)
      PROVE  MembersInd'
  <2>1. RolesOK'
    BY <1>1, <1>9, ChangeFields
       DEF RemoveDelete, Commit, Step, RowLocked, RolesOK, AddableRoles,
           ChangesOK, OneOwner, LockedIsOwner
  <2>2. ChangesOK'
    BY <1>1, <1>9, ChangeFields
       DEF RemoveDelete, Commit, Step, RowLocked, ChangesOK, RolesOK,
           AddableRoles, OneOwner, LockedIsOwner
  <2>3. LockedIsOwner'
    BY <1>1, <1>9, ChangeFields
       DEF RemoveDelete, Commit, Step, RowLocked, LockedIsOwner, RolesOK,
           AddableRoles, ChangesOK, OneOwner
  <2>4. StaleOK'
    BY <1>1, <1>9, ChangeFields
       DEF RemoveDelete, Commit, Step, RowLocked, StaleOK, RolesOK,
           AddableRoles, ChangesOK, OneOwner, LockedIsOwner
  <2>5. OneOwner'
    BY <1>1, <1>9, ChangeFields
       DEF RemoveDelete, Commit, Step, RowLocked, OneOwner, RolesOK,
           AddableRoles, ChangesOK, LockedIsOwner
  <2>6. LockedAlone'
    BY <1>1, <1>9, ChangeFields
       DEF RemoveDelete, Commit, Step, RowLocked, LockedAlone, RolesOK,
           AddableRoles, ChangesOK, OneOwner, LockedIsOwner
  <2>7. SeenAdmitted'
    BY <1>1, <1>9, ChangeFields
       DEF RemoveDelete, Commit, Step, RowLocked, SeenAdmitted, RolesOK,
           AddableRoles, ChangesOK, OneOwner, LockedIsOwner
  <2>8. OwnerLostOnlyStale'
    <3>1. stale' = (stale \/ (role[memberTx[t].u] = "owner" /\ memberTx[t].seen # "owner"))
      BY <1>9 DEF RemoveDelete, BecameOwner
    <3>2. (stale => stale') /\ ((role[memberTx[t].u] = "owner" /\ memberTx[t].seen # "owner") => stale')
      BY <3>1, Zenon
    <3>3. memberTx[t] \in TxStates /\ memberTx[t].u \in Users
      BY <1>1, <1>9, ChangeFields DEF ChangesOK, RemoveDelete
    <3>4. memberTx[t].seen # "owner" /\ role' = [role EXCEPT ![memberTx[t].u] = "none"]
      BY <1>1, <1>9 DEF RemoveDelete, SeenAdmitted
    <3>5. stale' \/ Owners' = Owners
      BY <1>1, <3>2, <3>3, <3>4 DEF Owners, RolesOK
    <3> QED  BY <1>1, <3>2, <3>5 DEF OwnerLostOnlyStale
  <2> QED  BY <2>1, <2>2, <2>3, <2>4, <2>5, <2>6, <2>7, <2>8
              DEF MembersInd
<1>10. ASSUME NEW t \in Changes, RankUpdate(t)
      PROVE  MembersInd'
  <2>1. RolesOK'
    BY <1>1, <1>10, ChangeFields
       DEF RankUpdate, AddableRoles, Commit, Step, RowLocked, RolesOK,
           ChangesOK, OneOwner, LockedIsOwner
  <2>2. ChangesOK'
    BY <1>1, <1>10, ChangeFields
       DEF RankUpdate, AddableRoles, Commit, Step, RowLocked, ChangesOK,
           RolesOK, OneOwner, LockedIsOwner
  <2>3. LockedIsOwner'
    BY <1>1, <1>10, ChangeFields
       DEF RankUpdate, AddableRoles, Commit, Step, RowLocked, LockedIsOwner,
           RolesOK, ChangesOK, OneOwner
  <2>4. StaleOK'
    BY <1>1, <1>10, ChangeFields
       DEF RankUpdate, AddableRoles, Commit, Step, RowLocked, StaleOK,
           RolesOK, ChangesOK, OneOwner, LockedIsOwner
  <2>5. OneOwner'
    BY <1>1, <1>10, ChangeFields
       DEF RankUpdate, AddableRoles, Commit, Step, RowLocked, OneOwner,
           RolesOK, ChangesOK, LockedIsOwner
  <2>6. LockedAlone'
    BY <1>1, <1>10, ChangeFields
       DEF RankUpdate, AddableRoles, Commit, Step, RowLocked, LockedAlone,
           RolesOK, ChangesOK, OneOwner, LockedIsOwner
  <2>7. SeenAdmitted'
    BY <1>1, <1>10, ChangeFields
       DEF RankUpdate, AddableRoles, Commit, Step, RowLocked,
           SeenAdmitted, RolesOK, ChangesOK, OneOwner, LockedIsOwner
  <2>8. OwnerLostOnlyStale'
    <3>0. stale' = (stale \/ (role[memberTx[t].u] = "owner" /\ memberTx[t].seen # "owner"))
      BY <1>10 DEF RankUpdate, BecameOwner
    <3>1. memberTx[t].seen # "owner"
      BY <1>1, <1>10 DEF RankUpdate, SeenAdmitted
    <3>2. (stale => stale') /\ (role[memberTx[t].u] = "owner" => stale')
      BY <3>0, <3>1, Zenon
    <3>3. memberTx[t] \in TxStates /\ memberTx[t].u \in Users
      BY <1>1, <1>10, ChangeFields DEF ChangesOK, RankUpdate
    <3>4. PICK r \in AddableRoles :
            role' = [role EXCEPT ![memberTx[t].u] = IF @ = "none" THEN @ ELSE r]
      BY <1>10 DEF RankUpdate
    <3>5. stale' \/ Owners' = Owners
      BY <1>1, <3>2, <3>3, <3>4 DEF Owners, RolesOK, AddableRoles
    <3> QED  BY <1>1, <3>2, <3>5 DEF OwnerLostOnlyStale
  <2> QED  BY <2>1, <2>2, <2>3, <2>4, <2>5, <2>6, <2>7, <2>8
              DEF MembersInd
<1>11. ASSUME NEW t \in Changes, OrgCheck(t)
      PROVE  MembersInd'
  <2>1. ChangesOK'
    <3>1. memberTx[t].u \in Users
      BY <1>1, <1>11, ChangeFields DEF ChangesOK, OrgCheck
    <3>2. [op |-> "org_checked", u |-> memberTx[t].u, seen |-> Standing(memberTx[t].u)] \in TxStates
      BY <1>1, <3>1, ChangeMade, StandingOf
    <3> QED  BY <1>1, <1>11, <3>2, ChangeMoved DEF OrgCheck
  <2>2. LockedIsOwner'
    BY <1>1, <1>11, ChangeFields
       DEF OrgCheck, Owners, RowLocked, Step, LockedIsOwner, RolesOK,
           AddableRoles, ChangesOK, OneOwner
  <2>3. LockedAlone'
    BY <1>1, <1>11, ChangeFields
       DEF OrgCheck, Owners, RowLocked, Step, LockedAlone, RolesOK,
           AddableRoles, ChangesOK, OneOwner, LockedIsOwner
  <2>4. SeenAdmitted'
    <3>1. memberTx[t].u \in Users /\ role[memberTx[t].u] # "owner"
      BY <1>1, <1>11, ChangeFields DEF ChangesOK, OrgCheck, Owners, OneOwner
    <3>2. /\ memberTx'[t].op = "org_checked" /\ memberTx'[t].seen # "owner"
          /\ \A s \in Changes \ {t} : memberTx'[s] = memberTx[s]
      BY <1>1, <1>11, <3>1, StandingOf DEF OrgCheck, Step, ChangesOK
    <3> QED  BY <1>1, <3>2 DEF SeenAdmitted
  <2>5. RolesOK' /\ StaleOK' /\ OneOwner' /\ OwnerLostOnlyStale'
    BY <1>1, <1>11
       DEF OrgCheck, Owners, RowLocked, Step, RolesOK, AddableRoles, StaleOK,
           OneOwner, OwnerLostOnlyStale
  <2> QED  BY <2>1, <2>2, <2>3, <2>4, <2>5
              DEF MembersInd
<1>12. ASSUME NEW t \in Changes, OrgDelete(t)
      PROVE  MembersInd'
  <2>1. RolesOK'
    BY <1>1, <1>12, ChangeFields
       DEF OrgDelete, Commit, Step, Owners, RowLocked, RolesOK, AddableRoles,
           ChangesOK, OneOwner, LockedIsOwner
  <2>2. ChangesOK'
    BY <1>1, <1>12, ChangeFields
       DEF OrgDelete, Commit, Step, Owners, RowLocked, ChangesOK, RolesOK,
           AddableRoles, OneOwner, LockedIsOwner
  <2>3. LockedIsOwner'
    BY <1>1, <1>12, ChangeFields
       DEF OrgDelete, Commit, Step, Owners, RowLocked, LockedIsOwner,
           RolesOK, AddableRoles, ChangesOK, OneOwner
  <2>4. StaleOK'
    BY <1>1, <1>12, ChangeFields
       DEF OrgDelete, Commit, Step, Owners, RowLocked, StaleOK, RolesOK,
           AddableRoles, ChangesOK, OneOwner, LockedIsOwner
  <2>5. OneOwner'
    BY <1>1, <1>12, ChangeFields
       DEF OrgDelete, Commit, Step, Owners, RowLocked, OneOwner, RolesOK,
           AddableRoles, ChangesOK, LockedIsOwner
  <2>6. LockedAlone'
    BY <1>1, <1>12, ChangeFields
       DEF OrgDelete, Commit, Step, Owners, RowLocked, LockedAlone, RolesOK,
           AddableRoles, ChangesOK, OneOwner, LockedIsOwner
  <2>7. SeenAdmitted'
    BY <1>1, <1>12, ChangeFields
       DEF OrgDelete, Commit, Step, Owners, RowLocked, SeenAdmitted,
           RolesOK, AddableRoles, ChangesOK, OneOwner, LockedIsOwner
  <2>8. OwnerLostOnlyStale'
    <3>0. stale' = (stale \/ (role[memberTx[t].u] = "owner" /\ memberTx[t].seen # "owner"))
      BY <1>12 DEF OrgDelete, BecameOwner
    <3>1. memberTx[t].seen # "owner"
      BY <1>1, <1>12 DEF OrgDelete, SeenAdmitted
    <3>2. (stale => stale') /\ (role[memberTx[t].u] = "owner" => stale')
      BY <3>0, <3>1, Zenon
    <3>3. memberTx[t] \in TxStates /\ memberTx[t].u \in Users
      BY <1>1, <1>12, ChangeFields DEF ChangesOK, OrgDelete
    <3>4. role' = [role EXCEPT ![memberTx[t].u] = "none"]
      BY <1>12 DEF OrgDelete
    <3>5. Owners' = Owners \ {memberTx[t].u}
      BY <1>1, <3>3, <3>4 DEF Owners, RolesOK
    <3>6. stale' \/ Owners' = Owners
      BY <3>2, <3>5 DEF Owners
    <3> QED  BY <1>1, <3>2, <3>6 DEF OwnerLostOnlyStale
  <2> QED  BY <2>1, <2>2, <2>3, <2>4, <2>5, <2>6, <2>7, <2>8
              DEF MembersInd
<1>13. ASSUME NEW t \in Changes, TransferFind(t)
      PROVE  MembersInd'
  <2>1. ChangesOK'
    <3>1. memberTx[t].u \in Users /\ memberTx[t].seen \in Standings
      BY <1>1, <1>13, TransferSeen DEF ChangesOK, TransferFind
    <3>2. PICK o \in Users : Step(t, [op |-> "transfer_found", u |-> memberTx[t].u, owner |-> o,
                                      seen |-> memberTx[t].seen])
      BY <1>13 DEF TransferFind, Owners
    <3>3. [op |-> "transfer_found", u |-> memberTx[t].u, owner |-> o,
           seen |-> memberTx[t].seen] \in TxStates
      BY <3>1, ChangeMade
    <3> QED  BY <1>1, <3>2, <3>3, ChangeMoved
  <2>2. LockedIsOwner'
    BY <1>1, <1>13, ChangeFields
       DEF TransferFind, Owners, Step, LockedIsOwner, RolesOK, AddableRoles,
           ChangesOK, OneOwner
  <2>3. LockedAlone'
    BY <1>1, <1>13, ChangeFields
       DEF TransferFind, Owners, Step, LockedAlone, RolesOK, AddableRoles,
           ChangesOK, OneOwner, LockedIsOwner
  <2>4. SeenAdmitted'
    BY <1>1, <1>13, ChangeFields
       DEF TransferFind, Owners, Step, SeenAdmitted, RolesOK,
           AddableRoles, ChangesOK, OneOwner, LockedIsOwner
  <2>5. RolesOK' /\ StaleOK' /\ OneOwner' /\ OwnerLostOnlyStale'
    BY <1>1, <1>13
       DEF TransferFind, Owners, Step, RolesOK, AddableRoles, StaleOK,
           OneOwner, OwnerLostOnlyStale
  <2> QED  BY <2>1, <2>2, <2>3, <2>4, <2>5
              DEF MembersInd
<1>14. ASSUME NEW t \in Changes, TransferLock(t)
      PROVE  MembersInd'
  <2>1. ChangesOK'
    <3>1. memberTx[t] \in TxStates /\ memberTx[t].op = "transfer_found"
      BY <1>1, <1>14 DEF ChangesOK, TransferLock
    <3>2. [memberTx[t] EXCEPT !.op = "transfer_locked"] \in TxStates
      BY <3>1, ChangeLocks
    <3> QED  BY <1>1, <1>14, <3>2, ChangeMoved DEF TransferLock
  <2>2. LockedIsOwner'
    BY <1>1, <1>14, ChangeFields
       DEF TransferLock, RowLocked, Step, StillOwner, LockedIsOwner, RolesOK,
           AddableRoles, ChangesOK, OneOwner
  <2>3. LockedAlone'
    BY <1>1, <1>14, ChangeFields
       DEF TransferLock, RowLocked, Step, StillOwner, LockedAlone, RolesOK,
           AddableRoles, ChangesOK, OneOwner, LockedIsOwner
  <2>4. SeenAdmitted'
    <3>1. memberTx[t] \in TxStates /\ memberTx[t].op = "transfer_found"
      BY <1>1, <1>14 DEF ChangesOK, TransferLock
    <3>2. /\ memberTx'[t].op = "transfer_locked" /\ memberTx'[t].seen = memberTx[t].seen
          /\ \A s \in Changes \ {t} : memberTx'[s] = memberTx[s]
      BY <1>1, <1>14, <3>1, ChangeLocks DEF TransferLock, Step, ChangesOK
    <3> QED  BY <1>1, <3>1, <3>2 DEF SeenAdmitted
  <2>5. RolesOK' /\ StaleOK' /\ OneOwner' /\ OwnerLostOnlyStale'
    BY <1>1, <1>14
       DEF TransferLock, RowLocked, Step, StillOwner, RolesOK, AddableRoles,
           StaleOK, OneOwner, OwnerLostOnlyStale, Owners
  <2> QED  BY <2>1, <2>2, <2>3, <2>4, <2>5
              DEF MembersInd
<1>15. ASSUME NEW t \in Changes, TransferCommit(t)
      PROVE  MembersInd'
  <2>1. RolesOK'
    BY <1>1, <1>15, ChangeFields
       DEF TransferCommit, Commit, Step, RowLocked, RolesOK, AddableRoles,
           ChangesOK, OneOwner, LockedIsOwner
  <2>2. ChangesOK'
    BY <1>1, <1>15, ChangeFields
       DEF TransferCommit, Commit, Step, RowLocked, ChangesOK, RolesOK,
           AddableRoles, OneOwner, LockedIsOwner
  <2>3. LockedIsOwner'
    <3>1. Step(t, NoChange) /\ memberTx[t].op = "transfer_locked"
      BY <1>15 DEF TransferCommit, Commit
    <3>2. /\ memberTx'[t] = NoChange /\ NoChange.op = "idle"
          /\ \A s \in Changes \ {t} : memberTx'[s] = memberTx[s]
      BY <1>1, <3>1, ChangeMoved, ChangeFields
    <3>3. \A s \in Changes : memberTx'[s].op # "transfer_locked"
      BY <1>1, <3>1, <3>2 DEF LockedAlone
    <3> QED  BY <3>3 DEF LockedIsOwner
  <2>4. StaleOK'
    BY <1>1, <1>15, ChangeFields
       DEF TransferCommit, Commit, Step, RowLocked, StaleOK, RolesOK,
           AddableRoles, ChangesOK, OneOwner, LockedIsOwner
  <2>5. OneOwner'
    BY <1>1, <1>15, ChangeFields
       DEF TransferCommit, Commit, Step, RowLocked, OneOwner, RolesOK,
           AddableRoles, ChangesOK, LockedIsOwner
  <2>6. LockedAlone'
    BY <1>1, <1>15, ChangeFields
       DEF TransferCommit, Commit, Step, RowLocked, LockedAlone, RolesOK,
           AddableRoles, ChangesOK, OneOwner, LockedIsOwner
  <2>7. SeenAdmitted'
    BY <1>1, <1>15, ChangeFields
       DEF TransferCommit, Commit, Step, RowLocked, SeenAdmitted,
           RolesOK, AddableRoles, ChangesOK, OneOwner, LockedIsOwner
  <2>8. OwnerLostOnlyStale'
    <3>0. stale' = (stale \/ (role[memberTx[t].u] = "none" /\ memberTx[t].seen # "none"))
      BY <1>15 DEF TransferCommit
    <3>1. memberTx[t].seen # "none"
      BY <1>1, <1>15 DEF TransferCommit, SeenAdmitted
    <3>2. role[memberTx[t].u] = "none" => stale'
      BY <3>0, <3>1, Zenon
    <3>3. memberTx[t].u \in Users /\ memberTx[t].owner \in Users
      BY <1>1, <1>15, ChangeFields DEF ChangesOK, TransferCommit
    <3>4. role' = [role EXCEPT ![memberTx[t].owner] = "admin",
                               ![memberTx[t].u] = IF @ = "none" THEN @ ELSE "owner"]
      BY <1>15 DEF TransferCommit
    <3>5. stale' \/ memberTx[t].u \in Owners'
      BY <1>1, <3>2, <3>3, <3>4 DEF Owners, RolesOK
    <3> QED  BY <3>5 DEF OwnerLostOnlyStale
  <2> QED  BY <2>1, <2>2, <2>3, <2>4, <2>5, <2>6, <2>7, <2>8
              DEF MembersInd
<1>16. ASSUME NEW t \in Changes, AbortChange(t)
      PROVE  MembersInd'
  <2>1. Step(t, NoChange)
    BY <1>16 DEF AbortChange, Commit
  <2>2. /\ ChangesOK' /\ memberTx'[t] = NoChange /\ NoChange.op = "idle"
        /\ \A s \in Changes \ {t} : memberTx'[s] = memberTx[s]
    BY <1>1, <2>1, ChangeMoved, ChangeFields
  <2>3. UNCHANGED <<inOrg, role, stale>>
    BY <1>16 DEF AbortChange
  <2>4. RolesOK'
    BY <1>1, <2>1, <2>2, <2>3 DEF RolesOK
  <2>5. ChangesOK'
    BY <2>2
  <2>6. LockedIsOwner'
    BY <1>1, <2>1, <2>2, <2>3 DEF LockedIsOwner
  <2>7. StaleOK'
    BY <1>1, <2>1, <2>2, <2>3 DEF StaleOK
  <2>8. OneOwner'
    BY <1>1, <2>1, <2>2, <2>3 DEF OneOwner
  <2>9. LockedAlone'
    BY <1>1, <2>1, <2>2, <2>3 DEF LockedAlone
  <2>10. SeenAdmitted'
    BY <1>1, <2>1, <2>2, <2>3 DEF SeenAdmitted
  <2>11. OwnerLostOnlyStale'
    BY <1>1, <2>1, <2>2, <2>3 DEF OwnerLostOnlyStale, Owners
  <2> QED  BY <2>4, <2>5, <2>6, <2>7, <2>8, <2>9, <2>10, <2>11
              DEF MembersInd
<1>17. CASE UNCHANGED membersVars
  BY <1>1, <1>17
     DEF membersVars, AddableRoles, ChangesOK, LockedAlone, LockedIsOwner,
         MembersInd, OneOwner, OwnerLostOnlyStale, Owners, SeenAdmitted,
         RolesOK, StaleOK
<1> QED  BY <1>2, <1>3, <1>4, <1>5, <1>6, <1>7, <1>8, <1>9, <1>10, <1>11,
            <1>12, <1>13, <1>14, <1>15, <1>16, <1>17
            DEF MembersNext

\* One owner at most, as a count.
LEMMA OneOwnerCounted == OneOwner => AtMostOneOwner
<1> SUFFICES ASSUME OneOwner PROVE AtMostOneOwner
  OBVIOUS
<1>1. CASE Owners = {}
  BY <1>1, FS_EmptySet DEF AtMostOneOwner
<1>2. CASE Owners # {}
  <2>1. PICK u \in Users : Owners = {u}
    BY <1>2 DEF OneOwner, Owners
  <2>2. Cardinality({u}) = 1
    BY FS_Singleton
  <2> QED  BY <2>1, <2>2 DEF AtMostOneOwner
<1> QED  BY <1>1, <1>2

\* However removals, rank changes, acceptances, removals from the organization
\* and transfers interleave, a project never has two owners, and loses its owner
\* only to a change that wrote on a role it had read before (projects/routes.ts,
\* org/routes.ts), for any number of users and transactions.
THEOREM MembersAlwaysSafe == MembersSpec => []MembersSafe
<1>1. MembersSpec => []MembersInd
  BY MembersInitInd, MembersPreserved, PTL DEF MembersSpec
<1>2. MembersInd => MembersSafe
  BY OneOwnerCounted DEF MembersInd, MembersSafe, MembersTypeOK, RolesOK, ChangesOK,
     LockedIsOwner, StaleOK
<1> QED  BY <1>1, <1>2, PTL

-----------------------------------------------------------------------------
(* Erasure: the strengthening of ErasureSafe. *)

\* The states of rows, compliance requests and the user's own requests.
RowStates == {NoRow} \cup [o : Orgs, status : {"pending", "completed"}]
TxKinds ==
  {NoTx} \cup [op : {"create"}, o : Orgs] \cup [op : {"read"}, r : Rows]
    \cup [op : {"counted", "claimed"}, r : Rows, since : SUBSET Orgs]
WriterKinds ==
  {NoTx} \cup [op : {"write"}, kind : Kinds, overtaken : BOOLEAN]
    \cup [op : {"join"}, o : Orgs]

\* The conjuncts of ErasureTypeOK.
PersonOK ==
  /\ member \subseteq Orgs /\ erased \in BOOLEAN
  /\ data \subseteq Kinds /\ late \subseteq Kinds /\ anew \subseteq Kinds
RowsWellFormed == request \in [Rows -> RowStates]
TxsOK == tx \in [Txs -> TxKinds]
WritersOK == writer \in [Writers -> WriterKinds]
ExecutedOK == executed \in [Rows -> 0 .. Cardinality(Txs)]

\* There is at most one open request, as two candidates that coincide.
OneOpen ==
  \A r, s \in Rows : request[r].status = "pending" /\ request[s].status = "pending" => r = s

\* An execution works on a row that was inserted.
ReadsInserted ==
  \A t \in Txs : tx[t].op \in {"read", "counted", "claimed"} =>
    request[tx[t].r].status # "none"

\* A row that an execution has claimed is open, and claimed by no other.
ClaimedAlone ==
  /\ \A t \in Txs : tx[t].op = "claimed" => request[tx[t].r].status = "pending"
  /\ \A s, t \in Txs :
       tx[s].op = "claimed" /\ tx[t].op = "claimed" /\ tx[s].r = tx[t].r => s = t

\* Once it has counted the memberships, an execution knows them all but those
\* added since.
CountedMembers ==
  \A t \in Txs : tx[t].op \in {"counted", "claimed"} =>
    member \subseteq {request[tx[t].r].o} \cup tx[t].since

\* LeftOrWrittenSince, kind by kind; before the first erasure no request has
\* completed.  An enrolment that no erasure overtook still has its session.
DataExplained ==
  /\ erased => \A k \in data : \/ k \in late \cup anew
                               \/ k \in Orgs /\ \A r \in Rows :
                                    request[r].status = "completed" => request[r].o # k
  /\ ~erased => \A r \in Rows : request[r].status # "completed"
  /\ "mfa" \in anew => data \cap Orgs # {}
  /\ \A w \in Writers :
       writer[w].op = "write" /\ writer[w].kind = "mfa" /\ ~writer[w].overtaken
         => data \cap Orgs # {}

ErasureInd ==
  /\ PersonOK /\ RowsWellFormed /\ TxsOK /\ WritersOK /\ ExecutedOK
  /\ OneOpen /\ ReadsInserted /\ ClaimedAlone /\ CountedMembers /\ ExecutedOnce
  /\ DataExplained

\* The fields of a row, a compliance request and a request of the user.
LEMMA ErasureFields ==
  /\ NoRow \in RowStates /\ NoRow.status = "none"
  /\ \A x \in RowStates : x.status # "none" => x.o \in Orgs /\ x.status \in {"pending", "completed"}
  /\ NoTx \in TxKinds /\ NoTx \in WriterKinds /\ NoTx.op = "idle"
  /\ \A x \in TxKinds : /\ x.op = "create" => x.o \in Orgs
                        /\ x.op \in {"read", "counted", "claimed"} => x.r \in Rows
                        /\ x.op \in {"counted", "claimed"} => x.since \in SUBSET Orgs
  /\ \A x \in WriterKinds : /\ x.op = "join" => x.o \in Orgs
                            /\ x.op = "write" => x.kind \in Kinds
<1>1. NoRow \in RowStates /\ NoRow.status = "none"
  BY DEF RowStates, NoRow
<1>2. \A x \in RowStates : x.status # "none" => x.o \in Orgs /\ x.status \in {"pending", "completed"}
  BY DEF RowStates, NoRow
<1>3. NoTx \in TxKinds /\ NoTx \in WriterKinds /\ NoTx.op = "idle"
  BY DEF TxKinds, WriterKinds, NoTx
<1>4. ASSUME NEW x \in TxKinds
      PROVE  /\ x.op = "create" => x.o \in Orgs
             /\ x.op \in {"read", "counted", "claimed"} => x.r \in Rows
             /\ x.op \in {"counted", "claimed"} => x.since \in SUBSET Orgs
  <2>1. CASE x \in {NoTx} \cup [op : {"create"}, o : Orgs]
    BY <2>1 DEF NoTx
  <2>2. CASE x \in [op : {"read"}, r : Rows]
    BY <2>2
  <2>3. CASE x \in [op : {"counted", "claimed"}, r : Rows, since : SUBSET Orgs]
    BY <2>3
  <2> QED  BY <2>1, <2>2, <2>3 DEF TxKinds
<1>5. ASSUME NEW x \in WriterKinds
      PROVE  /\ x.op = "join" => x.o \in Orgs
             /\ x.op = "write" => x.kind \in Kinds
  <2>1. CASE x = NoTx
    BY <2>1 DEF NoTx
  <2>2. CASE x \in [op : {"join"}, o : Orgs]
    BY <2>2
  <2>3. CASE x \in [op : {"write"}, kind : Kinds, overtaken : BOOLEAN]
    BY <2>3
  <2> QED  BY <2>1, <2>2, <2>3 DEF WriterKinds
<1> QED  BY <1>1, <1>2, <1>3, <1>4, <1>5

\* The states that the actions make.
LEMMA ErasureMade ==
  /\ \A o \in Orgs : [o |-> o, status |-> "pending"] \in RowStates
  /\ \A o \in Orgs : [op |-> "create", o |-> o] \in TxKinds
  /\ \A r \in Rows : /\ [op |-> "read", r |-> r] \in TxKinds
                     /\ [op |-> "counted", r |-> r, since |-> {}] \in TxKinds
  /\ \A k \in Kinds : [op |-> "write", kind |-> k, overtaken |-> FALSE] \in WriterKinds
  /\ \A o \in Orgs : [op |-> "join", o |-> o] \in WriterKinds
<1>1. \A o \in Orgs : [o |-> o, status |-> "pending"] \in RowStates
  BY DEF RowStates
<1>2. \A o \in Orgs : [op |-> "create", o |-> o] \in TxKinds
  BY DEF TxKinds
<1>3. \A r \in Rows : [op |-> "read", r |-> r] \in TxKinds
  BY DEF TxKinds
<1>4. \A r \in Rows : [op |-> "counted", r |-> r, since |-> {}] \in TxKinds
  BY DEF TxKinds
<1>5. \A k \in Kinds : [op |-> "write", kind |-> k, overtaken |-> FALSE] \in WriterKinds
  BY DEF WriterKinds
<1>6. \A o \in Orgs : [op |-> "join", o |-> o] \in WriterKinds
  BY DEF WriterKinds
<1> QED  BY <1>1, <1>2, <1>3, <1>4, <1>5, <1>6

\* A claim keeps what the execution knows; so does a membership that is added to it.
LEMMA ErasureMoved ==
  ASSUME NEW x \in TxKinds, x.op \in {"counted", "claimed"}
  PROVE  /\ LET y == [x EXCEPT !.op = "claimed"]
            IN  y \in TxKinds /\ y.op = "claimed" /\ y.r = x.r /\ y.since = x.since
         /\ \A o \in Orgs :
              LET y == [x EXCEPT !.since = @ \cup {o}]
              IN  y \in TxKinds /\ y.op = x.op /\ y.r = x.r /\ y.since = x.since \cup {o}
<1>1. x \in [op : {"counted", "claimed"}, r : Rows, since : SUBSET Orgs]
  BY DEF TxKinds, NoTx
<1>2. \A o \in Orgs : x.since \cup {o} \in SUBSET Orgs
  BY <1>1
<1> QED  BY <1>1, <1>2 DEF TxKinds

\* A request that completes keeps its organization.
LEMMA RowCompletes ==
  ASSUME NEW x \in RowStates, x.status = "pending"
  PROVE  LET y == [x EXCEPT !.status = "completed"]
         IN  y \in RowStates /\ y.status = "completed" /\ y.o = x.o
<1>1. x \in [o : Orgs, status : {"pending", "completed"}]
  BY DEF RowStates, NoRow
<1> QED  BY <1>1 DEF RowStates

\* An erasure overtakes a request of the user, which keeps what it is to insert.
LEMMA WriterOvertaken ==
  ASSUME NEW x \in WriterKinds, x.op = "write"
  PROVE  LET y == [x EXCEPT !.overtaken = TRUE]
         IN  y \in WriterKinds /\ y.op = "write" /\ y.overtaken = TRUE
<1>1. x \in [op : {"write"}, kind : Kinds, overtaken : BOOLEAN]
  BY DEF WriterKinds, NoTx
<1>2. [x EXCEPT !.overtaken = TRUE] \in [op : {"write"}, kind : Kinds, overtaken : BOOLEAN]
  BY <1>1
<1> QED  BY <1>1, <1>2 DEF WriterKinds

\* A step of one compliance request leaves the others alone.
LEMMA TxMoved ==
  ASSUME TxsOK, NEW t \in Txs, NEW x \in TxKinds, Move(t, x)
  PROVE  /\ TxsOK' /\ tx'[t] = x
         /\ \A s \in Txs \ {t} : tx'[s] = tx[s]
BY DEF TxsOK, Move

\* The first state satisfies the invariant.
LEMMA ErasureInitInd == ErasureInit => ErasureInd
<1> SUFFICES ASSUME ErasureInit PROVE ErasureInd
  OBVIOUS
<1>1. TxsOK /\ WritersOK /\ RowsWellFormed
  BY ErasureFields DEF ErasureInit, TxsOK, WritersOK, RowsWellFormed
<1>2. (\A t \in Txs : tx[t].op = "idle") /\ (\A r \in Rows : request[r].status = "none")
  BY ErasureFields DEF ErasureInit
<1>3. OneOpen /\ ReadsInserted /\ ClaimedAlone /\ CountedMembers
  BY <1>2 DEF OneOpen, ReadsInserted, ClaimedAlone, CountedMembers
<1>4. Cardinality(Txs) \in Nat
  BY HomeAssumption, FS_CardinalityType
<1>5. ExecutedOK /\ ExecutedOnce
  BY <1>2, <1>4 DEF ErasureInit, ExecutedOK, ExecutedOnce
<1>6. PersonOK /\ DataExplained
  <2>1. erased = FALSE
    BY Zenon DEF ErasureInit
  <2>2. erased \in BOOLEAN
    BY <2>1, Zenon
  <2>3. data \subseteq Kinds /\ anew = {} /\ late = {} /\ member \subseteq Orgs
    BY HomeAssumption DEF ErasureInit, Kinds
  <2>4. \A w \in Writers : writer[w].op = "idle"
    BY ErasureFields DEF ErasureInit
  <2> QED  BY <1>2, <2>1, <2>2, <2>3, <2>4 DEF PersonOK, DataExplained
<1> QED  BY <1>1, <1>3, <1>5, <1>6 DEF ErasureInd

\* Every step keeps the invariant of the erasure.
LEMMA ErasurePreserved ==
  ASSUME ErasureInd, [ErasureNext]_erasureVars
  PROVE  ErasureInd'
<1>1. /\ PersonOK /\ RowsWellFormed /\ TxsOK /\ WritersOK /\ ExecutedOK
      /\ OneOpen /\ ReadsInserted /\ ClaimedAlone /\ CountedMembers
      /\ ExecutedOnce /\ DataExplained
  BY DEF ErasureInd
<1>2. ASSUME NEW t \in Txs, NEW o \in Orgs, CreateRead(t, o)
      PROVE  ErasureInd'
  <2> DEFINE x == [op |-> "create", o |-> o]
  <2>1. x \in TxKinds /\ x.op = "create"
    BY ErasureMade
  <2>2. Move(t, x) /\ UNCHANGED <<member, request, erased, data, writer, executed, late, anew>>
    BY <1>2 DEF CreateRead
  <2> HIDE DEF x
  <2>3. /\ TxsOK' /\ tx'[t] = x
        /\ \A s \in Txs \ {t} : tx'[s] = tx[s]
    BY <1>1, <2>1, <2>2, TxMoved
  <2>4. PersonOK'
    BY <1>1, <2>1, <2>2, <2>3 DEF PersonOK
  <2>5. RowsWellFormed'
    BY <1>1, <2>1, <2>2, <2>3 DEF RowsWellFormed
  <2>6. TxsOK'
    BY <2>3
  <2>7. WritersOK'
    BY <1>1, <2>1, <2>2, <2>3 DEF WritersOK
  <2>8. ExecutedOK'
    BY <1>1, <2>1, <2>2, <2>3 DEF ExecutedOK
  <2>9. OneOpen'
    BY <1>1, <2>1, <2>2, <2>3 DEF OneOpen
  <2>10. ReadsInserted'
    BY <1>1, <2>1, <2>2, <2>3 DEF ReadsInserted
  <2>11. ClaimedAlone'
    BY <1>1, <2>1, <2>2, <2>3 DEF ClaimedAlone
  <2>12. CountedMembers'
    BY <1>1, <2>1, <2>2, <2>3 DEF CountedMembers
  <2>13. ExecutedOnce'
    BY <1>1, <2>1, <2>2, <2>3 DEF ExecutedOnce
  <2>14. DataExplained'
    BY <1>1, <2>1, <2>2, <2>3 DEF DataExplained
  <2> QED  BY <2>4, <2>5, <2>6, <2>7, <2>8, <2>9, <2>10, <2>11, <2>12, <2>13,
              <2>14
              DEF ErasureInd
<1>3. ASSUME NEW t \in Txs, NEW r \in Rows, ExecRead(t, r)
      PROVE  ErasureInd'
  <2> DEFINE x == [op |-> "read", r |-> r]
  <2>1. x \in TxKinds /\ x.op = "read" /\ x.r = r /\ request[r].status # "none"
    BY <1>3, ErasureMade DEF ExecRead
  <2>2. Move(t, x) /\ UNCHANGED <<member, request, erased, data, writer, executed, late, anew>>
    BY <1>3 DEF ExecRead
  <2> HIDE DEF x
  <2>3. /\ TxsOK' /\ tx'[t] = x
        /\ \A s \in Txs \ {t} : tx'[s] = tx[s]
    BY <1>1, <2>1, <2>2, TxMoved
  <2>4. PersonOK'
    BY <1>1, <2>1, <2>2, <2>3 DEF PersonOK
  <2>5. RowsWellFormed'
    BY <1>1, <2>1, <2>2, <2>3 DEF RowsWellFormed
  <2>6. TxsOK'
    BY <2>3
  <2>7. WritersOK'
    BY <1>1, <2>1, <2>2, <2>3 DEF WritersOK
  <2>8. ExecutedOK'
    BY <1>1, <2>1, <2>2, <2>3 DEF ExecutedOK
  <2>9. OneOpen'
    BY <1>1, <2>1, <2>2, <2>3 DEF OneOpen
  <2>10. ReadsInserted'
    BY <1>1, <2>1, <2>2, <2>3 DEF ReadsInserted
  <2>11. ClaimedAlone'
    BY <1>1, <2>1, <2>2, <2>3 DEF ClaimedAlone
  <2>12. CountedMembers'
    BY <1>1, <2>1, <2>2, <2>3 DEF CountedMembers
  <2>13. ExecutedOnce'
    BY <1>1, <2>1, <2>2, <2>3 DEF ExecutedOnce
  <2>14. DataExplained'
    BY <1>1, <2>1, <2>2, <2>3 DEF DataExplained
  <2> QED  BY <2>4, <2>5, <2>6, <2>7, <2>8, <2>9, <2>10, <2>11, <2>12, <2>13,
              <2>14
              DEF ErasureInd
<1>4. ASSUME NEW t \in Txs, CreateInsert(t)
      PROVE  ErasureInd'
  <2>1. RowsWellFormed'
    <3>1. PICK r \in Rows :
            /\ request[r] = NoRow
            /\ request' = [request EXCEPT ![r] = [o |-> tx[t].o, status |-> "pending"]]
      BY <1>4 DEF CreateInsert
    <3>2. tx[t].o \in Orgs
      BY <1>1, <1>4, ErasureFields DEF CreateInsert, TxsOK
    <3>3. [o |-> tx[t].o, status |-> "pending"] \in RowStates
      BY <3>2, ErasureMade
    <3> QED  BY <1>1, <3>1, <3>3 DEF RowsWellFormed
  <2>2. TxsOK'
    BY <1>1, <1>4, ErasureFields
       DEF CreateInsert, Move, Unique, TxsOK, RowsWellFormed
  <2>3. OneOpen'
    BY <1>1, <1>4, ErasureFields
       DEF CreateInsert, Move, Unique, OneOpen, TxsOK, RowsWellFormed
  <2>4. ReadsInserted'
    BY <1>1, <1>4, ErasureFields
       DEF CreateInsert, Move, Unique, ReadsInserted, TxsOK, RowsWellFormed
  <2>5. ClaimedAlone'
    BY <1>1, <1>4, ErasureFields
       DEF CreateInsert, Move, Unique, ClaimedAlone, TxsOK, RowsWellFormed
  <2>6. CountedMembers'
    <3>1. PICK r \in Rows :
            /\ request[r] = NoRow
            /\ request' = [request EXCEPT ![r] = [o |-> tx[t].o, status |-> "pending"]]
      BY <1>4 DEF CreateInsert
    <3>2. \A s \in Rows : request[s].status # "none" => request'[s] = request[s]
      BY <1>1, <3>1, ErasureFields DEF RowsWellFormed
    <3>3. Move(t, NoTx) /\ UNCHANGED member
      BY <1>4 DEF CreateInsert
    <3>4. /\ tx'[t] = NoTx /\ NoTx.op = "idle"
          /\ \A s \in Txs \ {t} : tx'[s] = tx[s]
      BY <1>1, <3>3, TxMoved, ErasureFields
    <3>5. \A s \in Txs : tx'[s].op \in {"counted", "claimed"} =>
            tx'[s] = tx[s] /\ tx[s].r \in Rows /\ request[tx[s].r].status # "none"
      BY <1>1, <3>4, ErasureFields DEF TxsOK, ReadsInserted
    <3> QED  BY <1>1, <3>2, <3>3, <3>5 DEF CountedMembers
  <2>7. ExecutedOnce'
    BY <1>1, <1>4, ErasureFields
       DEF CreateInsert, Move, Unique, ExecutedOnce, TxsOK, RowsWellFormed
  <2>8. PersonOK' /\ WritersOK' /\ ExecutedOK'
    BY <1>1, <1>4
       DEF CreateInsert, Move, Unique, PersonOK, WritersOK, ExecutedOK
  <2>9. DataExplained'
    <3>1. \A r \in Rows : request'[r].status = "completed" =>
            request[r].status = "completed" /\ request'[r].o = request[r].o
      BY <1>1, <1>4 DEF CreateInsert, RowsWellFormed
    <3>2. UNCHANGED <<erased, data, writer, late, anew>>
      BY <1>4 DEF CreateInsert
    <3> QED  BY <1>1, <3>1, <3>2 DEF DataExplained
  <2> QED  BY <2>1, <2>2, <2>3, <2>4, <2>5, <2>6, <2>7, <2>8, <2>9
              DEF ErasureInd
<1>5. ASSUME NEW t \in Txs, ExecCount(t)
      PROVE  ErasureInd'
  <2> DEFINE x == [op |-> "counted", r |-> tx[t].r, since |-> {}]
  <2>1. /\ x \in TxKinds /\ x.op = "counted" /\ x.r = tx[t].r
        /\ request[x.r].status # "none" /\ member \subseteq {request[x.r].o}
    <3>1. tx[t] \in TxKinds /\ tx[t].op = "read"
      BY <1>1, <1>5 DEF ExecCount, TxsOK
    <3>2. tx[t].r \in Rows
      BY <3>1, ErasureFields
    <3>3. x \in TxKinds
      BY <3>2, ErasureMade
    <3> QED  BY <1>1, <1>5, <3>1, <3>3 DEF ExecCount, OtherMemberships, ReadsInserted
  <2>2. Move(t, x) /\ UNCHANGED <<member, request, erased, data, writer, executed, late, anew>>
    BY <1>5 DEF ExecCount
  <2> HIDE DEF x
  <2>3. /\ TxsOK' /\ tx'[t] = x
        /\ \A s \in Txs \ {t} : tx'[s] = tx[s]
    BY <1>1, <2>1, <2>2, TxMoved
  <2>4. PersonOK'
    BY <1>1, <2>1, <2>2, <2>3 DEF PersonOK
  <2>5. RowsWellFormed'
    BY <1>1, <2>1, <2>2, <2>3 DEF RowsWellFormed
  <2>6. TxsOK'
    BY <2>3
  <2>7. WritersOK'
    BY <1>1, <2>1, <2>2, <2>3 DEF WritersOK
  <2>8. ExecutedOK'
    BY <1>1, <2>1, <2>2, <2>3 DEF ExecutedOK
  <2>9. OneOpen'
    BY <1>1, <2>1, <2>2, <2>3 DEF OneOpen
  <2>10. ReadsInserted'
    BY <1>1, <2>1, <2>2, <2>3 DEF ReadsInserted
  <2>11. ClaimedAlone'
    BY <1>1, <2>1, <2>2, <2>3 DEF ClaimedAlone
  <2>12. CountedMembers'
    BY <1>1, <2>1, <2>2, <2>3 DEF CountedMembers
  <2>13. ExecutedOnce'
    BY <1>1, <2>1, <2>2, <2>3 DEF ExecutedOnce
  <2>14. DataExplained'
    BY <1>1, <2>1, <2>2, <2>3 DEF DataExplained
  <2> QED  BY <2>4, <2>5, <2>6, <2>7, <2>8, <2>9, <2>10, <2>11, <2>12, <2>13,
              <2>14
              DEF ErasureInd
<1>6. ASSUME NEW t \in Txs, ExecClaim(t)
      PROVE  ErasureInd'
  <2> DEFINE x == [tx[t] EXCEPT !.op = "claimed"]
  <2>1. /\ x \in TxKinds /\ x.op = "claimed" /\ x.r = tx[t].r /\ x.since = tx[t].since
        /\ request[x.r].status = "pending" /\ tx[t].op = "counted"
        /\ \A s \in Txs \ {t} : tx[s].op = "claimed" => tx[s].r # x.r
    <3>1. tx[t] \in TxKinds /\ tx[t].op = "counted"
      BY <1>1, <1>6 DEF ExecClaim, TxsOK
    <3>2. x \in TxKinds /\ x.op = "claimed" /\ x.r = tx[t].r /\ x.since = tx[t].since
      BY <3>1, ErasureMoved
    <3> HIDE DEF x
    <3> QED  BY <1>1, <1>6, <3>1, <3>2 DEF ExecClaim, Locked
  <2>2. Move(t, x) /\ UNCHANGED <<member, request, erased, data, writer, executed, late, anew>>
    BY <1>6 DEF ExecClaim
  <2> HIDE DEF x
  <2>3. /\ TxsOK' /\ tx'[t] = x
        /\ \A s \in Txs \ {t} : tx'[s] = tx[s]
    BY <1>1, <2>1, <2>2, TxMoved
  <2>4. PersonOK'
    BY <1>1, <2>1, <2>2, <2>3 DEF PersonOK
  <2>5. RowsWellFormed'
    BY <1>1, <2>1, <2>2, <2>3 DEF RowsWellFormed
  <2>6. TxsOK'
    BY <2>3
  <2>7. WritersOK'
    BY <1>1, <2>1, <2>2, <2>3 DEF WritersOK
  <2>8. ExecutedOK'
    BY <1>1, <2>1, <2>2, <2>3 DEF ExecutedOK
  <2>9. OneOpen'
    BY <1>1, <2>1, <2>2, <2>3 DEF OneOpen
  <2>10. ReadsInserted'
    BY <1>1, <2>1, <2>2, <2>3 DEF ReadsInserted
  <2>11. ClaimedAlone'
    BY <1>1, <2>1, <2>2, <2>3 DEF ClaimedAlone
  <2>12. CountedMembers'
    BY <1>1, <2>1, <2>2, <2>3 DEF CountedMembers
  <2>13. ExecutedOnce'
    BY <1>1, <2>1, <2>2, <2>3 DEF ExecutedOnce
  <2>14. DataExplained'
    BY <1>1, <2>1, <2>2, <2>3 DEF DataExplained
  <2> QED  BY <2>4, <2>5, <2>6, <2>7, <2>8, <2>9, <2>10, <2>11, <2>12, <2>13,
              <2>14
              DEF ErasureInd
<1>7. ASSUME NEW t \in Txs, ExecCommit(t)
      PROVE  ErasureInd'
  <2>1. PersonOK'
    <3>1. erased' = TRUE
      BY <1>7 DEF ExecCommit
    <3>2. erased' \in BOOLEAN
      BY <3>1, Zenon
    <3> QED  BY <1>1, <1>7, <3>2 DEF ExecCommit, PersonOK
  <2>2. RowsWellFormed'
    <3>1. tx[t] \in TxKinds /\ tx[t].r \in Rows /\ tx[t].op = "claimed"
      BY <1>1, <1>7, ErasureFields DEF ExecCommit, TxsOK
    <3>2. request[tx[t].r].status = "pending" /\ request[tx[t].r] \in RowStates
      BY <1>1, <3>1 DEF ClaimedAlone, RowsWellFormed
    <3>3. request' = [request EXCEPT ![tx[t].r] = [request[tx[t].r] EXCEPT !.status = "completed"]]
      BY <1>1, <3>1, <1>7 DEF ExecCommit, RowsWellFormed
    <3>4. [request[tx[t].r] EXCEPT !.status = "completed"] \in RowStates
      BY <3>2, RowCompletes
    <3> QED  BY <1>1, <3>3, <3>4 DEF RowsWellFormed
  <2>3. TxsOK'
    BY <1>1, <1>7, ErasureFields
       DEF ExecCommit, Erased, Move, TxsOK, RowsWellFormed
  <2>4. ExecutedOK'
    <3>1. tx[t] \in TxKinds /\ tx[t].r \in Rows /\ tx[t].op = "claimed"
      BY <1>1, <1>7, ErasureFields DEF ExecCommit, TxsOK
    <3>2. request[tx[t].r].status = "pending" /\ request[tx[t].r] \in RowStates
      BY <1>1, <3>1 DEF ClaimedAlone, RowsWellFormed
    <3>3. executed[tx[t].r] = 0 /\ executed' = [executed EXCEPT ![tx[t].r] = @ + 1]
      BY <1>1, <1>7, <3>1, <3>2 DEF ExecCommit, ExecutedOnce
    <3>4. Cardinality(Txs) \in Nat /\ Cardinality(Txs) # 0
      BY HomeAssumption, FS_CardinalityType, FS_EmptySet
    <3>5. Cardinality(Txs) >= 1
      BY <3>4
    <3>6. /\ executed'[tx[t].r] = 1
          /\ \A r \in Rows \ {tx[t].r} : executed'[r] = executed[r]
      BY <1>1, <3>1, <3>3 DEF ExecutedOK
    <3> QED  BY <1>1, <3>3, <3>4, <3>5, <3>6 DEF ExecutedOK
  <2>5. OneOpen'
    BY <1>1, <1>7, ErasureFields
       DEF ExecCommit, Erased, Move, OneOpen, TxsOK, RowsWellFormed
  <2>6. ReadsInserted'
    BY <1>1, <1>7, ErasureFields
       DEF ExecCommit, Erased, Move, ReadsInserted, TxsOK, RowsWellFormed
  <2>7. ClaimedAlone'
    BY <1>1, <1>7, ErasureFields
       DEF ExecCommit, Erased, Move, ClaimedAlone, TxsOK, RowsWellFormed
  <2>8. CountedMembers'
    BY <1>1, <1>7, ErasureFields
       DEF ExecCommit, Erased, Move, CountedMembers, TxsOK, RowsWellFormed
  <2>9. ExecutedOnce'
    <3>1. tx[t] \in TxKinds /\ tx[t].r \in Rows /\ tx[t].op = "claimed"
      BY <1>1, <1>7, ErasureFields DEF ExecCommit, TxsOK
    <3>2. request[tx[t].r].status = "pending" /\ request[tx[t].r] \in RowStates
      BY <1>1, <3>1 DEF ClaimedAlone, RowsWellFormed
    <3>3. request' = [request EXCEPT ![tx[t].r] = [request[tx[t].r] EXCEPT !.status = "completed"]]
      BY <1>1, <3>1, <1>7 DEF ExecCommit, RowsWellFormed
    <3>4. executed[tx[t].r] = 0 /\ executed' = [executed EXCEPT ![tx[t].r] = @ + 1]
      BY <1>1, <1>7, <3>1, <3>2 DEF ExecCommit, ExecutedOnce
    <3>5. request'[tx[t].r].status = "completed" /\ executed'[tx[t].r] = 1
      BY <1>1, <3>1, <3>2, <3>3, <3>4, RowCompletes DEF RowsWellFormed, ExecutedOK
    <3>6. \A r \in Rows \ {tx[t].r} : executed'[r] = executed[r] /\ request'[r] = request[r]
      BY <1>1, <3>1, <3>3, <3>4 DEF RowsWellFormed, ExecutedOK
    <3> QED  BY <1>1, <3>5, <3>6 DEF ExecutedOnce
  <2>10. /\ WritersOK'
         /\ \A w \in Writers : writer'[w].op = "write" => writer'[w].overtaken = TRUE
    <3>1. writer' = [w \in Writers |-> IF writer[w].op = "write"
                        THEN [writer[w] EXCEPT !.overtaken = TRUE] ELSE writer[w]]
      BY <1>7 DEF ExecCommit
    <3>2. ASSUME NEW w \in Writers
          PROVE  /\ writer'[w] \in WriterKinds
                 /\ writer'[w].op = "write" => writer'[w].overtaken = TRUE
      <4>1. writer[w] \in WriterKinds
        BY <1>1 DEF WritersOK
      <4>2. CASE writer[w].op = "write"
        <5>1. writer'[w] = [writer[w] EXCEPT !.overtaken = TRUE]
          BY <3>1, <4>2
        <5> QED  BY <4>1, <4>2, <5>1, WriterOvertaken
      <4>3. CASE writer[w].op # "write"
        BY <3>1, <4>1, <4>3
      <4> QED  BY <4>2, <4>3
    <3> QED  BY <3>1, <3>2 DEF WritersOK
  <2>11. DataExplained'
    <3> DEFINE o == request[tx[t].r].o
    <3>1. tx[t] \in TxKinds /\ tx[t].r \in Rows /\ tx[t].op = "claimed"
      BY <1>1, <1>7, ErasureFields DEF ExecCommit, TxsOK
    <3>2. request[tx[t].r].status = "pending" /\ request[tx[t].r] \in RowStates
      BY <1>1, <3>1 DEF ClaimedAlone, RowsWellFormed
    <3>3. request' = [request EXCEPT ![tx[t].r] = [request[tx[t].r] EXCEPT !.status = "completed"]]
      BY <1>1, <3>1, <1>7 DEF ExecCommit, RowsWellFormed
    <3>4. request'[tx[t].r].o = o /\ \A r \in Rows \ {tx[t].r} : request'[r] = request[r]
      BY <1>1, <3>1, <3>2, <3>3, RowCompletes DEF RowsWellFormed
    <3>5. /\ erased' = TRUE /\ data' = data \ {"token", "mfa", o}
          /\ late' = late \ {"token", "mfa", o} /\ anew' = anew \ {"token", "mfa", o}
      BY <1>7 DEF ExecCommit, Erased
    <3> HIDE DEF o
    <3>6. ASSUME NEW k \in data'
          PROVE  \/ k \in late' \cup anew'
                 \/ k \in Orgs /\ \A r \in Rows :
                      request'[r].status = "completed" => request'[r].o # k
      <4>1. k \in data /\ k \notin {"token", "mfa", o}
        BY <3>5
      <4>2. k \in Orgs
        BY <1>1, <4>1 DEF PersonOK, Kinds
      <4>3. CASE erased
        BY <1>1, <3>4, <3>5, <4>1, <4>2, <4>3 DEF DataExplained
      <4>4. CASE ~erased
        BY <1>1, <3>4, <4>1, <4>2, <4>4 DEF DataExplained
      <4> QED  BY <4>3, <4>4
    <3>7. "mfa" \notin anew'
      BY <3>5
    <3> QED  BY <2>10, <3>5, <3>6, <3>7 DEF DataExplained
  <2> QED  BY <2>1, <2>2, <2>3, <2>4, <2>5, <2>6, <2>7, <2>8, <2>9, <2>10,
              <2>11
              DEF ErasureInd
<1>8. ASSUME NEW t \in Txs, Abort(t)
      PROVE  ErasureInd'
  <2>1. NoTx \in TxKinds /\ NoTx.op = "idle"
    BY ErasureFields
  <2>2. Move(t, NoTx) /\ UNCHANGED <<member, request, erased, data, writer, executed, late, anew>>
    BY <1>8 DEF Abort
  <2>3. /\ TxsOK' /\ tx'[t] = NoTx
        /\ \A s \in Txs \ {t} : tx'[s] = tx[s]
    BY <1>1, <2>1, <2>2, TxMoved
  <2>4. PersonOK'
    BY <1>1, <2>1, <2>2, <2>3 DEF PersonOK
  <2>5. RowsWellFormed'
    BY <1>1, <2>1, <2>2, <2>3 DEF RowsWellFormed
  <2>6. TxsOK'
    BY <2>3
  <2>7. WritersOK'
    BY <1>1, <2>1, <2>2, <2>3 DEF WritersOK
  <2>8. ExecutedOK'
    BY <1>1, <2>1, <2>2, <2>3 DEF ExecutedOK
  <2>9. OneOpen'
    BY <1>1, <2>1, <2>2, <2>3 DEF OneOpen
  <2>10. ReadsInserted'
    BY <1>1, <2>1, <2>2, <2>3 DEF ReadsInserted
  <2>11. ClaimedAlone'
    BY <1>1, <2>1, <2>2, <2>3 DEF ClaimedAlone
  <2>12. CountedMembers'
    BY <1>1, <2>1, <2>2, <2>3 DEF CountedMembers
  <2>13. ExecutedOnce'
    BY <1>1, <2>1, <2>2, <2>3 DEF ExecutedOnce
  <2>14. DataExplained'
    BY <1>1, <2>1, <2>2, <2>3 DEF DataExplained
  <2> QED  BY <2>4, <2>5, <2>6, <2>7, <2>8, <2>9, <2>10, <2>11, <2>12, <2>13,
              <2>14
              DEF ErasureInd
<1>9. ASSUME NEW w \in Writers, NEW k \in Kinds, Begin(w, k),
             k = "mfa" => data \cap Orgs # {}
      PROVE  ErasureInd'
  <2> DEFINE x == [op |-> "write", kind |-> k, overtaken |-> FALSE]
  <2>1. x \in WriterKinds /\ x.kind = k
    BY ErasureMade
  <2>2. /\ writer' = [writer EXCEPT ![w] = x]
        /\ UNCHANGED <<member, request, erased, data, tx, executed, late, anew>>
    BY <1>9 DEF Begin
  <2> HIDE DEF x
  <2>3. WritersOK' /\ writer'[w] = x /\ \A v \in Writers \ {w} : writer'[v] = writer[v]
    BY <1>1, <2>1, <2>2 DEF WritersOK
  <2>4. DataExplained'
    BY <1>1, <1>9, <2>1, <2>2, <2>3 DEF DataExplained
  <2>5. /\ PersonOK' /\ RowsWellFormed' /\ TxsOK' /\ ExecutedOK' /\ OneOpen'
        /\ ReadsInserted' /\ ClaimedAlone' /\ CountedMembers'
        /\ ExecutedOnce'
    BY <1>1, <2>2
       DEF PersonOK, RowsWellFormed, TxsOK, ExecutedOK, OneOpen,
           ReadsInserted, ClaimedAlone, CountedMembers, ExecutedOnce
  <2> QED  BY <2>3, <2>4, <2>5
              DEF ErasureInd
<1>10. ASSUME NEW w \in Writers, NEW o \in Orgs, JoinCheck(w, o)
      PROVE  ErasureInd'
  <2> DEFINE x == [op |-> "join", o |-> o]
  <2>1. x \in WriterKinds /\ x.op = "join"
    BY ErasureMade
  <2>2. /\ writer' = [writer EXCEPT ![w] = x]
        /\ UNCHANGED <<member, request, erased, data, tx, executed, late, anew>>
    BY <1>10 DEF JoinCheck
  <2> HIDE DEF x
  <2>3. WritersOK' /\ writer'[w] = x /\ \A v \in Writers \ {w} : writer'[v] = writer[v]
    BY <1>1, <2>1, <2>2 DEF WritersOK
  <2>4. DataExplained'
    BY <1>1, <2>1, <2>2, <2>3 DEF DataExplained
  <2>5. /\ PersonOK' /\ RowsWellFormed' /\ TxsOK' /\ ExecutedOK' /\ OneOpen'
        /\ ReadsInserted' /\ ClaimedAlone' /\ CountedMembers'
        /\ ExecutedOnce'
    BY <1>1, <2>2
       DEF PersonOK, RowsWellFormed, TxsOK, ExecutedOK, OneOpen,
           ReadsInserted, ClaimedAlone, CountedMembers, ExecutedOnce
  <2> QED  BY <2>3, <2>4, <2>5
              DEF ErasureInd
<1>11. ASSUME NEW w \in Writers, WriteInsert(w)
      PROVE  ErasureInd'
  <2> DEFINE k == writer[w].kind
  <2>1. writer[w] \in WriterKinds /\ writer[w].op = "write" /\ k \in Kinds
    BY <1>1, <1>11, ErasureFields DEF WriteInsert, WritersOK
  <2>2. /\ data' = data \cup {k}
        /\ late' = IF writer[w].overtaken THEN late \cup {k} ELSE late
        /\ anew' = IF erased /\ ~writer[w].overtaken THEN anew \cup {k} ELSE anew
        /\ writer' = [writer EXCEPT ![w] = NoTx]
        /\ UNCHANGED <<member, request, erased, tx, executed>>
    BY <1>11 DEF WriteInsert
  <2>3. PersonOK' /\ WritersOK'
    BY <1>1, <2>1, <2>2, ErasureFields DEF PersonOK, WritersOK
  <2>5. DataExplained'
    <3>1. writer'[w].op = "idle" /\ \A v \in Writers \ {w} : writer'[v] = writer[v]
      BY <1>1, <2>2, ErasureFields DEF WritersOK
    <3>2. data \subseteq data' /\ late \subseteq late' /\ anew \subseteq anew'
      BY <2>2
    <3>3. ASSUME erased, NEW j \in data'
          PROVE  \/ j \in late' \cup anew'
                 \/ j \in Orgs /\ \A r \in Rows :
                      request[r].status = "completed" => request[r].o # j
      BY <1>1, <2>2, <3>2, <3>3 DEF DataExplained
    <3>4. "mfa" \in anew' => data \cap Orgs # {}
      BY <1>1, <2>1, <2>2 DEF DataExplained
    <3>5. \A v \in Writers :
            writer'[v].op = "write" /\ writer'[v].kind = "mfa" /\ ~writer'[v].overtaken
              => data \cap Orgs # {}
      BY <1>1, <3>1 DEF DataExplained
    <3>6. ~erased => \A r \in Rows : request[r].status # "completed"
      BY <1>1 DEF DataExplained
    <3> QED  BY <2>2, <3>2, <3>3, <3>4, <3>5, <3>6 DEF DataExplained
  <2>4. /\ RowsWellFormed' /\ TxsOK' /\ ExecutedOK' /\ OneOpen'
        /\ ReadsInserted' /\ ClaimedAlone' /\ CountedMembers'
        /\ ExecutedOnce'
    BY <1>1, <1>11
       DEF WriteInsert, RowsWellFormed, TxsOK, ExecutedOK, OneOpen,
           ReadsInserted, ClaimedAlone, CountedMembers, ExecutedOnce
  <2> QED  BY <2>3, <2>4, <2>5
              DEF ErasureInd
<1>12. ASSUME NEW w \in Writers, Join(w)
      PROVE  ErasureInd'
  <2>1. PersonOK'
    <3>1. writer[w].o \in Orgs
      BY <1>1, <1>12, ErasureFields DEF Join, WritersOK
    <3> QED  BY <1>1, <1>12, <3>1 DEF Join, PersonOK
  <2>2. TxsOK'
    <3>1. writer[w].o \in Orgs
      BY <1>1, <1>12, ErasureFields DEF Join, WritersOK
    <3>2. ASSUME NEW t \in Txs PROVE tx'[t] \in TxKinds
      <4>1. tx[t] \in TxKinds
        BY <1>1 DEF TxsOK
      <4>2. CASE tx[t].op \in {"counted", "claimed"}
        <5>1. tx'[t] = [tx[t] EXCEPT !.since = @ \cup {writer[w].o}]
          BY <1>12, <4>2 DEF Join
        <5> QED  BY <3>1, <4>1, <4>2, <5>1, ErasureMoved
      <4>3. CASE tx[t].op \notin {"counted", "claimed"}
        BY <1>12, <4>1, <4>3 DEF Join
      <4> QED  BY <4>2, <4>3
    <3> QED  BY <1>12, <3>2 DEF Join, TxsOK
  <2>3. WritersOK'
    BY <1>1, <1>12, ErasureFields DEF Join, WritersOK, TxsOK, RowsWellFormed
  <2>4. ReadsInserted'
    BY <1>1, <1>12, ErasureFields
       DEF Join, ReadsInserted, TxsOK, RowsWellFormed
  <2>5. ClaimedAlone'
    BY <1>1, <1>12, ErasureFields
       DEF Join, ClaimedAlone, TxsOK, RowsWellFormed
  <2>6. CountedMembers'
    BY <1>1, <1>12, ErasureFields
       DEF Join, CountedMembers, TxsOK, RowsWellFormed
  <2>7. RowsWellFormed' /\ ExecutedOK' /\ OneOpen' /\ ExecutedOnce'
    BY <1>1, <1>12
       DEF Join, RowsWellFormed, ExecutedOK, OneOpen, ExecutedOnce
  <2>8. DataExplained'
    <3>1. /\ writer' = [writer EXCEPT ![w] = NoTx]
          /\ UNCHANGED <<request, erased, data, late, anew>>
      BY <1>12 DEF Join
    <3>2. writer'[w].op = "idle" /\ \A v \in Writers \ {w} : writer'[v] = writer[v]
      BY <1>1, <3>1, ErasureFields DEF WritersOK
    <3> QED  BY <1>1, <3>1, <3>2 DEF DataExplained
  <2> QED  BY <2>1, <2>2, <2>3, <2>4, <2>5, <2>6, <2>7, <2>8
              DEF ErasureInd
<1>13. ASSUME NEW o \in Orgs, Leave(o)
      PROVE  ErasureInd'
  <2>1. PersonOK'
    BY <1>1, <1>13, ErasureFields DEF Leave, PersonOK, TxsOK, RowsWellFormed
  <2>2. CountedMembers'
    BY <1>1, <1>13, ErasureFields
       DEF Leave, CountedMembers, TxsOK, RowsWellFormed
  <2>3. /\ RowsWellFormed' /\ TxsOK' /\ WritersOK' /\ ExecutedOK'
        /\ OneOpen' /\ ReadsInserted' /\ ClaimedAlone' /\ ExecutedOnce'
        /\ DataExplained'
    BY <1>1, <1>13
       DEF Leave, RowsWellFormed, TxsOK, WritersOK, ExecutedOK, OneOpen,
           ReadsInserted, ClaimedAlone, ExecutedOnce, DataExplained
  <2> QED  BY <2>1, <2>2, <2>3
              DEF ErasureInd
<1>14. CASE UNCHANGED erasureVars
  BY <1>1, <1>14
     DEF erasureVars, ClaimedAlone, CountedMembers, ErasureInd, ExecutedOK,
         ExecutedOnce, DataExplained, OneOpen, PersonOK, ReadsInserted,
         RowsWellFormed, TxsOK, WritersOK
<1>15. ASSUME NEW w \in Writers,
              RecoveryCheck(w) \/ EnrolCheck(w) \/ \E o \in Orgs : SignInCheck(w, o)
       PROVE  ErasureInd'
  <2>1. "token" # "mfa" /\ "token" \in Kinds /\ "mfa" \in Kinds /\ Orgs \subseteq Kinds
    BY DEF Kinds
  <2>2. CASE RecoveryCheck(w)
    BY <1>9, <2>1, <2>2 DEF RecoveryCheck
  <2>3. CASE EnrolCheck(w)
    <3>1. data \cap Orgs # {} /\ Begin(w, "mfa")
      BY <1>1, <2>3 DEF EnrolCheck, PersonOK
    <3> QED  BY <1>9, <2>1, <3>1
  <2>4. ASSUME NEW o \in Orgs, SignInCheck(w, o) PROVE ErasureInd'
    <3>1. Begin(w, o) /\ o \in Kinds /\ o # "mfa"
      BY <2>1, <2>4, HomeAssumption DEF SignInCheck
    <3> QED  BY <1>9, <3>1
  <2> QED  BY <1>15, <2>2, <2>3, <2>4
<1> QED  BY <1>2, <1>3, <1>4, <1>5, <1>6, <1>7, <1>8, <1>10, <1>11, <1>12,
            <1>13, <1>14, <1>15
            DEF ErasureNext

\* One open request at most, as a count.
LEMMA OneOpenCounted == OneOpen => OneOpenRequest
<1> SUFFICES ASSUME OneOpen PROVE OneOpenRequest
  OBVIOUS
<1> DEFINE Open == {r \in Rows : request[r].status = "pending"}
<1>1. CASE Open = {}
  BY <1>1, FS_EmptySet DEF OneOpenRequest
<1>2. CASE Open # {}
  <2>1. PICK r \in Rows : Open = {r}
    BY <1>2 DEF OneOpen
  <2>2. Cardinality({r}) = 1
    BY FS_Singleton
  <2> QED  BY <2>1, <2>2 DEF OneOpenRequest
<1> QED  BY <1>1, <1>2

\* However requests, executions, sign-ins and invitations interleave, a person
\* has one open erasure request, it is executed once, and the personal data that
\* survives lies in sessions of organizations that executed none, or was written
\* after the erasure (erasure-service.ts), for any number of organizations,
\* requests and processes.
THEOREM ErasureAlwaysSafe == ErasureSpec => []ErasureSafe
<1>1. ErasureSpec => []ErasureInd
  BY ErasureInitInd, ErasurePreserved, PTL DEF ErasureSpec
<1>2. DataExplained => LeftOrWrittenSince /\ EnrolledBehindSession
  BY DEF DataExplained, LeftOrWrittenSince, EnrolledBehindSession, Covered
<1>3. ErasureInd => ErasureSafe
  BY <1>2, OneOpenCounted DEF ErasureInd, ErasureSafe, ErasureTypeOK, PersonOK, RowsWellFormed, TxsOK,
     WritersOK, ExecutedOK, RowStates, TxKinds, WriterKinds
<1> QED  BY <1>1, <1>3, PTL

\* A member of another organization is erased only when that membership was
\* added after the execution had counted them (executeErasure).
THEOREM OtherOrgErasedOnlyOvertaken == ErasureSpec => OtherOrgOnlyOvertaken
<1>1. ErasureInd /\ [ErasureNext]_erasureVars =>
        [\A t \in Txs : (tx[t].op = "claimed" /\ executed' # executed /\ tx'[t] = NoTx)
                          => member \subseteq {request[tx[t].r].o} \cup tx[t].since]_erasureVars
  BY DEF ErasureInd, CountedMembers
<1>2. ErasureSpec => []ErasureInd
  BY ErasureInitInd, ErasurePreserved, PTL DEF ErasureSpec
<1> QED  BY <1>1, <1>2, PTL DEF ErasureSpec, OtherOrgOnlyOvertaken
=============================================================================
