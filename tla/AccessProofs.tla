---------------------------- MODULE AccessProofs ----------------------------
(***************************************************************************)
(* Proofs about OrgSession (the sessions and refresh tokens of a user),    *)
(* CliLogin (the device grant and the user session) and AccountRecovery    *)
(* (the second factor and the ways around it).  Each module gets one       *)
(* inductive invariant, a lemma that every step keeps it, and the theorems *)
(* that follow from it.                                                    *)
(***************************************************************************)
EXTENDS OrgSession, CliLogin, AccountRecovery, FiniteSetTheorems, TLAPS

-----------------------------------------------------------------------------
(* OrgSession: the strengthening of SessionSafe. *)

\* What a login, a bulk revocation and a request remember are sessions that
\* were inserted.
RemembersMinted ==
  /\ entering.drop \subseteq Minted
  /\ bulk.list \subseteq Minted
  /\ request.at # "none" => request.session \in Minted

\* A session's login is a session inserted no later, and a used token's session
\* is revoked and succeeded by one of the same login.
ChainsLinked ==
  /\ \A s \in Minted : login[s] \in Minted /\ login[s] <= s
  /\ \A s \in Minted : successor[s] # 0 =>
       s \in revoked /\ successor[s] \in Minted /\ login[successor[s]] = login[s]
  /\ \A s \in Sessions : s > minted => successor[s] = 0

\* Two live sessions belong to different logins.
LiveApart == \A s, t \in Minted : s \notin revoked /\ t \notin revoked /\ login[s] = login[t] => s = t

\* A bulk revocation in flight has listed every session that was live when it
\* read its list and is live still, but the one it keeps; and while it runs for
\* an organization, whose lock it holds, no login has inserted a session.
BulkListsLive ==
  bulk.kind # "none" =>
    /\ bulk.upto <= minted
    /\ \A s \in Minted : s <= bulk.upto /\ s \notin revoked /\ s # bulk.keep => s \in bulk.list
    /\ bulk.kind = "org" => /\ entering.at # "listed"
                            /\ \A s \in Minted : s > bulk.upto => login[s] # s

\* The login in flight has listed enough sessions to stay within the cap with
\* its own, whatever was revoked since, unless one of them was refreshed.
CapReserved ==
  entering.at = "listed" /\ Cap # 0 =>
    \/ \E s \in entering.drop : successor[s] # 0
    \/ Cardinality(Live \ entering.drop) < Cap

SessionInd ==
  /\ SessionTypeOK /\ RemembersMinted /\ ChainsLinked /\ LiveApart /\ BulkListsLive
  /\ CapReserved

\* No session satisfies the invariant.
LEMMA SessionInitInd == SessionInit => SessionInd
<1> SUFFICES ASSUME SessionInit PROVE SessionInd
  OBVIOUS
<1>1. SessionTypeOK
  <2>1. member \in BOOLEAN
    BY Zenon DEF SessionInit
  <2>2. minted \in 0 .. MaxSessions /\ 0 \in 0 .. MaxSessions
    BY SessionBounds DEF SessionInit
  <2>3. /\ login \in [Sessions -> 0 .. MaxSessions]
        /\ successor \in [Sessions -> 0 .. MaxSessions]
    BY <2>2 DEF SessionInit
  <2> QED  BY <2>1, <2>2, <2>3
              DEF SessionInit, SessionTypeOK, NoLogin, NoBulk, NoRequest, NoAnswer
<1>2. RemembersMinted /\ ChainsLinked /\ LiveApart /\ BulkListsLive /\ CapReserved
  BY DEF SessionInit, RemembersMinted, ChainsLinked, LiveApart, BulkListsLive,
     CapReserved, NoLogin, NoBulk, NoRequest, Minted
<1> QED  BY <1>1, <1>2 DEF SessionInd

\* The sessions inserted so far are finitely many, so cardinalities make sense.
LEMMA LiveFinite ==
  ASSUME SessionTypeOK, NEW S, S \subseteq Minted
  PROVE  IsFiniteSet(S) /\ Cardinality(S) \in Nat
<1>1. minted \in Int /\ 1 \in Int
  BY DEF SessionTypeOK
<1>2. IsFiniteSet(Minted)
  BY <1>1, FS_Interval DEF Minted
<1> QED  BY <1>2, FS_Subset, FS_CardinalityType

\* Nothing in flight is a legal state of each actor.
LEMMA SessionRecords ==
  /\ NoLogin \in [at : {"none", "checked", "listed"}, drop : SUBSET Sessions]
  /\ NoBulk \in [kind : {"none"} \cup BulkKinds, list : SUBSET Sessions,
                 upto : 0 .. MaxSessions, keep : 0 .. MaxSessions]
  /\ NoRequest \in [at : {"none", "token", "session"}, session : 0 .. MaxSessions]
<1>1. 0 \in 0 .. MaxSessions
  BY SessionBounds
<1> QED  BY <1>1 DEF NoLogin, NoBulk, NoRequest

\* Revoking sessions, of the list or not, keeps the place of the login in flight.
LEMMA CapSurvivesRevocation ==
  ASSUME SessionTypeOK, CapReserved, entering' = entering, successor' = successor,
         minted' = minted, revoked \subseteq revoked'
  PROVE  CapReserved'
<1>1. Live' \ entering.drop \subseteq Live \ entering.drop /\ Live \subseteq Minted
  BY DEF Live, Minted
<1>2. /\ IsFiniteSet(Live \ entering.drop)
      /\ Cardinality(Live \ entering.drop) \in Nat
  BY <1>1, LiveFinite
<1>3. /\ Cardinality(Live' \ entering.drop) <= Cardinality(Live \ entering.drop)
      /\ IsFiniteSet(Live' \ entering.drop)
  BY <1>1, <1>2, FS_Subset
<1>4. Cardinality(Live' \ entering.drop) \in Nat
  BY <1>3, FS_CardinalityType
<1> QED  BY <1>2, <1>3, <1>4, SessionBounds DEF CapReserved

\* Every step keeps the invariant of the sessions.
LEMMA SessionPreserved ==
  ASSUME SessionInd, [SessionNext]_sessionVars
  PROVE  SessionInd'
<1>1. /\ SessionTypeOK /\ RemembersMinted /\ ChainsLinked /\ LiveApart
      /\ BulkListsLive /\ CapReserved
  BY DEF SessionInd
<1>2. CASE LoginCheck
  <2>1. SessionTypeOK'
    BY <1>1, <1>2, SessionBounds
       DEF LoginCheck, NoLogin, rows, SessionTypeOK, BulkKinds, Minted,
           Sessions, RemembersMinted, ChainsLinked
  <2>2. RemembersMinted'
    BY <1>1, <1>2, SessionBounds
       DEF LoginCheck, NoLogin, rows, RemembersMinted, Minted, SessionTypeOK,
           BulkKinds, Sessions, ChainsLinked
  <2>3. BulkListsLive'
    BY <1>1, <1>2, SessionBounds
       DEF LoginCheck, NoLogin, rows, BulkListsLive, Minted, SessionTypeOK,
           BulkKinds, Sessions, RemembersMinted, ChainsLinked
  <2>4. CapReserved'
    BY <1>1, <1>2, SessionBounds
       DEF LoginCheck, NoLogin, rows, CapReserved, Live, Minted,
           SessionTypeOK, BulkKinds, Sessions, RemembersMinted, ChainsLinked
  <2>5. ChainsLinked' /\ LiveApart'
    BY <1>1, <1>2
       DEF LoginCheck, NoLogin, rows, ChainsLinked, Minted, Sessions,
           LiveApart
  <2> QED  BY <2>1, <2>2, <2>3, <2>4, <2>5
              DEF SessionInd
<1>3. CASE LoginCap
  <2>1. SessionTypeOK'
    <3>1. entering' \in [at : {"none", "checked", "listed"}, drop : SUBSET Sessions]
      BY <1>1, <1>3, SessionBounds DEF LoginCap, Counted, Live, Minted, Sessions, SessionTypeOK
    <3> QED  BY <1>1, <1>3, <3>1 DEF LoginCap, rows, SessionTypeOK, Minted
  <2>2. RemembersMinted'
    BY <1>1, <1>3, SessionBounds
       DEF LoginCap, Counted, Live, Minted, DropCount, rows, RemembersMinted,
           SessionTypeOK, BulkKinds, Sessions, ChainsLinked
  <2>3. BulkListsLive'
    BY <1>1, <1>3, SessionBounds
       DEF LoginCap, Counted, Live, Minted, DropCount, rows, BulkListsLive,
           SessionTypeOK, BulkKinds, Sessions, RemembersMinted, ChainsLinked
  <2>4. CapReserved'
    <3> SUFFICES ASSUME Cap # 0 PROVE CapReserved'
      BY DEF CapReserved
    <3>1. PICK D \in SUBSET Counted :
            /\ IF Cap = 0 \/ Cardinality(Counted) < Cap THEN D = {}
               ELSE Cardinality(D) = DropCount
            /\ entering' = [at |-> "listed", drop |-> D]
      BY <1>3 DEF LoginCap
    <3>2. Counted = Live /\ Live \subseteq Minted /\ D \subseteq Live
      BY <1>1 DEF Counted, Live, SessionTypeOK
    <3>3. IsFiniteSet(Live) /\ Cardinality(Live) \in Nat
      BY <1>1, <3>2, LiveFinite
    <3>4. /\ Cardinality(D) \in Nat
          /\ Cardinality(Live \ D) = Cardinality(Live) - Cardinality(D)
      <4>1. Live \cap D = D /\ D \in SUBSET Live
        BY <3>2
      <4>2. IsFiniteSet(D)
        BY <3>3, <4>1, FS_Subset
      <4>3. Cardinality(Live \ D) = Cardinality(Live) - Cardinality(Live \cap D)
        BY <3>3, FS_Difference
      <4> QED  BY <4>1, <4>2, <4>3, FS_CardinalityType
    <3>5. Live' = Live
      BY <1>3 DEF LoginCap, rows, Live, Minted
    <3>6. Cardinality(Live \ D) < Cap
      <4>1. CASE Cardinality(Counted) < Cap
        BY <3>1, <3>2, <3>3, <3>4, <4>1, SessionBounds
      <4>2. CASE ~(Cardinality(Counted) < Cap)
        BY <3>1, <3>2, <3>3, <3>4, <4>2, SessionBounds DEF DropCount
      <4> QED  BY <4>1, <4>2
    <3> QED  BY <3>1, <3>5, <3>6 DEF CapReserved
  <2>5. ChainsLinked' /\ LiveApart'
    BY <1>1, <1>3
       DEF LoginCap, Counted, Live, Minted, DropCount, rows, ChainsLinked,
           Sessions, LiveApart
  <2> QED  BY <2>1, <2>2, <2>3, <2>4, <2>5
              DEF SessionInd
<1>4. CASE LoginInsert
  <2>1. /\ minted \in Nat /\ minted + 1 \in Sessions /\ minted' = minted + 1
        /\ \A u : u \in Minted' <=> u \in Minted \/ u = minted + 1
        /\ minted + 1 \notin Minted /\ \A u \in Minted : u \in Sessions /\ u \in Nat /\ u <= minted
    <3>1. minted \in Nat /\ minted < MaxSessions /\ minted' = minted + 1
      BY <1>1, <1>4, SessionBounds DEF LoginInsert, SessionTypeOK
    <3> QED  BY <3>1, SessionBounds DEF Minted, Sessions
  <2>2. /\ login' \in [Sessions -> 0 .. MaxSessions] /\ login'[minted + 1] = minted + 1
        /\ \A u \in Minted : login'[u] = login[u]
    BY <1>1, <1>4, <2>1 DEF LoginInsert, SessionTypeOK, Sessions
  <2>3. /\ minted' \in 0 .. MaxSessions /\ Minted \subseteq Sessions
        /\ idle' \subseteq Minted' /\ graceOver' \subseteq Minted' /\ ended' \subseteq Minted'
        /\ \A u \in Sessions : u > minted' => u > minted
    BY <1>1, <1>4, <2>1 DEF LoginInsert, SessionTypeOK, Sessions
  <2>4. /\ revoked' = revoked \cup entering.drop
        /\ tokenRevoked' = tokenRevoked \cup (entering.drop \ revoked)
        /\ blacklisted' = blacklisted \cup (entering.drop \ revoked)
        /\ entering' = NoLogin /\ successor' = successor /\ bulk' = bulk /\ request' = request
        /\ member' = member /\ given' = given /\ entering.at = "listed"
        /\ entering.drop \subseteq Minted
    BY <1>1, <1>4 DEF LoginInsert, RevokeSessions, RemembersMinted
  <2>5. SessionTypeOK'
    BY <1>1, <2>1, <2>2, <2>3, <2>4, SessionRecords DEF SessionTypeOK
  <2>6. RemembersMinted'
    BY <1>1, <2>1, <2>4 DEF RemembersMinted, NoLogin
  <2>7. ChainsLinked'
    BY <1>1, <2>1, <2>2, <2>3, <2>4 DEF ChainsLinked
  <2>8. LiveApart'
    BY <1>1, <2>1, <2>2, <2>4 DEF LiveApart, ChainsLinked
  <2>9. BulkListsLive'
    BY <1>1, <2>1, <2>2, <2>4 DEF BulkListsLive, NoLogin, SessionTypeOK
  <2>10. CapReserved'
    BY <2>4 DEF CapReserved, NoLogin
  <2> QED  BY <2>5, <2>6, <2>7, <2>8, <2>9, <2>10
              DEF SessionInd
<1>5. CASE LoginRollback
  <2>1. SessionTypeOK'
    BY <1>1, <1>5, SessionBounds
       DEF LoginRollback, NoLogin, rows, SessionTypeOK, BulkKinds, Minted,
           Sessions, RemembersMinted, ChainsLinked
  <2>2. RemembersMinted'
    BY <1>1, <1>5, SessionBounds
       DEF LoginRollback, NoLogin, rows, RemembersMinted, Minted,
           SessionTypeOK, BulkKinds, Sessions, ChainsLinked
  <2>3. BulkListsLive'
    BY <1>1, <1>5, SessionBounds
       DEF LoginRollback, NoLogin, rows, BulkListsLive, Minted,
           SessionTypeOK, BulkKinds, Sessions, RemembersMinted, ChainsLinked
  <2>4. CapReserved'
    BY <1>1, <1>5, SessionBounds
       DEF LoginRollback, NoLogin, rows, CapReserved, Live, Minted,
           SessionTypeOK, BulkKinds, Sessions, RemembersMinted, ChainsLinked
  <2>5. ChainsLinked' /\ LiveApart'
    BY <1>1, <1>5
       DEF LoginRollback, NoLogin, rows, ChainsLinked, Minted, Sessions,
           LiveApart
  <2> QED  BY <2>1, <2>2, <2>3, <2>4, <2>5
              DEF SessionInd
<1>6. ASSUME NEW s \in Sessions, RotateRefreshToken(s)
      PROVE  SessionInd'
  <2>1. /\ minted \in Nat /\ minted + 1 \in Sessions /\ minted' = minted + 1
        /\ \A u : u \in Minted' <=> u \in Minted \/ u = minted + 1
        /\ minted + 1 \notin Minted /\ \A u \in Minted : u \in Sessions /\ u \in Nat /\ u <= minted
    <3>1. minted \in Nat /\ minted < MaxSessions /\ minted' = minted + 1
      BY <1>1, <1>6, SessionBounds DEF RotateRefreshToken, SessionTypeOK
    <3> QED  BY <3>1, SessionBounds DEF Minted, Sessions
  <2>2. /\ login' \in [Sessions -> 0 .. MaxSessions] /\ login'[minted + 1] = login[s]
        /\ \A u \in Minted : login'[u] = login[u]
    BY <1>1, <1>6, <2>1 DEF RotateRefreshToken, SessionTypeOK, Sessions
  <2>3. /\ minted' \in 0 .. MaxSessions /\ Minted \subseteq Sessions
        /\ idle' \subseteq Minted' /\ graceOver' \subseteq Minted' /\ ended' \subseteq Minted'
        /\ \A u \in Sessions : u > minted' => u > minted
    BY <1>1, <1>6, <2>1 DEF RotateRefreshToken, SessionTypeOK, Sessions
  <2>4. /\ revoked' = revoked \cup {s} /\ tokenRevoked' = tokenRevoked
        /\ blacklisted' = blacklisted \cup {s} /\ s \in Minted /\ s \notin revoked
        /\ entering' = entering /\ bulk' = bulk /\ request' = request /\ member' = member
        /\ given' = given
    BY <1>6 DEF RotateRefreshToken, Refreshable
  <2>5. /\ successor' \in [Sessions -> 0 .. MaxSessions] /\ successor'[s] = minted + 1
        /\ \A u \in Sessions : u # s => successor'[u] = successor[u]
    BY <1>1, <1>6, <2>1 DEF RotateRefreshToken, SessionTypeOK, Sessions
  <2>6. SessionTypeOK'
    BY <1>1, <2>1, <2>2, <2>3, <2>4, <2>5 DEF SessionTypeOK
  <2>7. RemembersMinted'
    BY <1>1, <2>1, <2>4 DEF RemembersMinted
  <2>8. ChainsLinked'
    <3>1. \A u \in Minted' : login'[u] \in Minted' /\ login'[u] <= u
      BY <1>1, <2>1, <2>2, <2>4 DEF ChainsLinked
    <3>2. \A u \in Minted : successor'[u] # 0 =>
            u \in revoked' /\ successor'[u] \in Minted' /\ login'[successor'[u]] = login'[u]
      BY <1>1, <2>1, <2>2, <2>4, <2>5 DEF ChainsLinked
    <3>3. successor'[minted + 1] = 0
      BY <1>1, <2>1, <2>4, <2>5 DEF ChainsLinked
    <3>4. \A u \in Sessions : u > minted' => successor'[u] = 0
      BY <1>1, <2>1, <2>3, <2>4, <2>5 DEF ChainsLinked
    <3> QED  BY <2>1, <3>1, <3>2, <3>3, <3>4 DEF ChainsLinked
  <2>9. LiveApart'
    BY <1>1, <2>1, <2>2, <2>4 DEF LiveApart, ChainsLinked
  <2>10. BulkListsLive'
    <3>1. login'[minted + 1] <= minted
      BY <1>1, <2>1, <2>2, <2>4 DEF ChainsLinked
    <3> QED  BY <1>1, <2>1, <2>2, <2>4, <3>1 DEF BulkListsLive, SessionTypeOK
  <2>11. CapReserved'
    <3> SUFFICES ASSUME entering.at = "listed", Cap # 0,
                        \A u \in entering.drop : successor'[u] = 0
                 PROVE  Cardinality(Live' \ entering.drop) < Cap
      BY <2>4 DEF CapReserved
    <3> DEFINE A == Live \ entering.drop
               B == A \ {s}
    <3>1. s \in A /\ A \subseteq Minted
      BY <2>1, <2>4, <2>5 DEF Live
    <3>2. Cardinality(A) < Cap
      <4>1. \A u \in entering.drop : u \in Sessions /\ u # s
        BY <1>1, <2>1, <2>5 DEF RemembersMinted
      <4> QED  BY <1>1, <2>5, <4>1 DEF CapReserved
    <3>3. Live' \ entering.drop = B \cup {minted + 1} /\ minted + 1 \notin B
      <4>1. Live' = (Live \ {s}) \cup {minted + 1} /\ minted + 1 \notin Live
        BY <1>1, <2>1, <2>4 DEF Live, SessionTypeOK
      <4>2. minted + 1 \notin entering.drop
        BY <1>1, <2>1 DEF RemembersMinted
      <4> QED  BY <4>1, <4>2
    <3> HIDE DEF A
    <3>4. IsFiniteSet(A) /\ Cardinality(A) \in Nat
      BY <1>1, <3>1, LiveFinite
    <3>5. IsFiniteSet(B) /\ Cardinality(B) = Cardinality(A) - 1
      BY <3>1, <3>4, FS_RemoveElement
    <3> HIDE DEF B
    <3>6. Cardinality(B \cup {minted + 1}) = Cardinality(B) + 1
      BY <3>3, <3>5, FS_AddElement
    <3>7. Cardinality(Live' \ entering.drop) = Cardinality(A)
      <4>1. Cardinality(Live' \ entering.drop) = Cardinality(B \cup {minted + 1})
        BY <3>3, Zenon
      <4> QED  BY <3>4, <3>5, <3>6, <4>1
    <3> QED  BY <3>2, <3>7
  <2> QED  BY <2>6, <2>7, <2>8, <2>9, <2>10, <2>11
              DEF SessionInd
<1>7. ASSUME NEW s \in Sessions, RefreshIdle(s)
      PROVE  SessionInd'
  <2>1. SessionTypeOK'
    BY <1>1, <1>7, SessionBounds
       DEF RefreshIdle, Minted, Refreshable, RevokeSessions, SessionTypeOK,
           BulkKinds, Sessions, RemembersMinted, ChainsLinked
  <2>2. ChainsLinked'
    BY <1>1, <1>7, SessionBounds
       DEF RefreshIdle, Minted, Refreshable, RevokeSessions, ChainsLinked,
           Sessions, SessionTypeOK, BulkKinds, RemembersMinted
  <2>3. LiveApart'
    BY <1>1, <1>7, SessionBounds
       DEF RefreshIdle, Minted, Refreshable, RevokeSessions, LiveApart,
           SessionTypeOK, BulkKinds, Sessions, RemembersMinted, ChainsLinked
  <2>4. BulkListsLive'
    BY <1>1, <1>7, SessionBounds
       DEF RefreshIdle, Minted, Refreshable, RevokeSessions, BulkListsLive,
           SessionTypeOK, BulkKinds, Sessions, RemembersMinted, ChainsLinked
  <2>5. CapReserved'
    <3>1. /\ entering' = entering /\ successor' = successor /\ minted' = minted
          /\ revoked \subseteq revoked'
      BY <1>7 DEF RefreshIdle, RevokeSessions
    <3> QED  BY <1>1, <3>1, CapSurvivesRevocation
  <2>6. RemembersMinted'
    BY <1>1, <1>7
       DEF RefreshIdle, Minted, Refreshable, RevokeSessions, RemembersMinted
  <2> QED  BY <2>1, <2>2, <2>3, <2>4, <2>5, <2>6
              DEF SessionInd
<1>8. ASSUME NEW s \in Sessions, GraceRefresh(s)
      PROVE  SessionInd'
  <2>1. SessionTypeOK'
    <3>1. s \in 0 .. MaxSessions /\ successor[s] \in 0 .. MaxSessions
      BY <1>1, SessionBounds DEF Sessions, SessionTypeOK
    <3>2. given' \in [token : 0 .. MaxSessions, session : 0 .. MaxSessions]
      BY <1>8, <3>1 DEF GraceRefresh
    <3> QED  BY <1>1, <1>8, <3>1, <3>2, SessionRecords
             DEF GraceRefresh, rows, SessionTypeOK, Minted
  <2>2. /\ RemembersMinted' /\ ChainsLinked' /\ LiveApart' /\ BulkListsLive'
        /\ CapReserved'
    BY <1>1, <1>8
       DEF GraceRefresh, GraceUsable, Minted, rows, RemembersMinted,
           ChainsLinked, Sessions, LiveApart, BulkListsLive, CapReserved,
           Live
  <2> QED  BY <2>1, <2>2
              DEF SessionInd
<1>9. ASSUME NEW s \in Sessions, RevokeOne(s)
      PROVE  SessionInd'
  <2>1. SessionTypeOK'
    BY <1>1, <1>9, SessionBounds
       DEF RevokeOne, Live, Minted, RevokeSessions, SessionTypeOK, BulkKinds,
           Sessions, RemembersMinted, ChainsLinked
  <2>2. ChainsLinked'
    BY <1>1, <1>9, SessionBounds
       DEF RevokeOne, Live, Minted, RevokeSessions, ChainsLinked, Sessions,
           SessionTypeOK, BulkKinds, RemembersMinted
  <2>3. LiveApart'
    BY <1>1, <1>9, SessionBounds
       DEF RevokeOne, Live, Minted, RevokeSessions, LiveApart, SessionTypeOK,
           BulkKinds, Sessions, RemembersMinted, ChainsLinked
  <2>4. BulkListsLive'
    BY <1>1, <1>9, SessionBounds
       DEF RevokeOne, Live, Minted, RevokeSessions, BulkListsLive,
           SessionTypeOK, BulkKinds, Sessions, RemembersMinted, ChainsLinked
  <2>5. CapReserved'
    <3>1. /\ entering' = entering /\ successor' = successor /\ minted' = minted
          /\ revoked \subseteq revoked'
      BY <1>9 DEF RevokeOne, RevokeSessions
    <3> QED  BY <1>1, <3>1, CapSurvivesRevocation
  <2>6. RemembersMinted'
    BY <1>1, <1>9 DEF RevokeOne, Live, Minted, RevokeSessions, RemembersMinted
  <2> QED  BY <2>1, <2>2, <2>3, <2>4, <2>5, <2>6
              DEF SessionInd
<1>10. ASSUME NEW s \in Sessions, RequestToken(s)
      PROVE  SessionInd'
  <2>1. SessionTypeOK'
    <3>1. s \in 0 .. MaxSessions
      BY SessionBounds DEF Sessions
    <3>2. request' \in [at : {"none", "token", "session"}, session : 0 .. MaxSessions]
      BY <1>10, <3>1 DEF RequestToken
    <3> QED  BY <1>1, <1>10, <3>1, <3>2, SessionRecords
             DEF RequestToken, rows, SessionTypeOK, Minted
  <2>2. RemembersMinted'
    BY <1>1, <1>10, SessionBounds
       DEF RequestToken, Minted, rows, RemembersMinted, SessionTypeOK,
           BulkKinds, Sessions, ChainsLinked
  <2>3. ChainsLinked' /\ LiveApart' /\ BulkListsLive' /\ CapReserved'
    BY <1>1, <1>10
       DEF RequestToken, Minted, rows, ChainsLinked, Sessions, LiveApart,
           BulkListsLive, CapReserved, Live
  <2> QED  BY <2>1, <2>2, <2>3
              DEF SessionInd
<1>11. ASSUME NEW s \in Sessions, BecomeIdle(s)
      PROVE  SessionInd'
  <2>1. SessionTypeOK'
    BY <1>1, <1>11, SessionBounds
       DEF BecomeIdle, Live, Minted, rows, SessionTypeOK, BulkKinds,
           Sessions, RemembersMinted, ChainsLinked
  <2>2. /\ RemembersMinted' /\ ChainsLinked' /\ LiveApart' /\ BulkListsLive'
        /\ CapReserved'
    BY <1>1, <1>11
       DEF BecomeIdle, Live, Minted, rows, RemembersMinted, ChainsLinked,
           Sessions, LiveApart, BulkListsLive, CapReserved
  <2> QED  BY <2>1, <2>2
              DEF SessionInd
<1>12. ASSUME NEW s \in Sessions, GraceEnds(s)
      PROVE  SessionInd'
  <2>1. SessionTypeOK'
    BY <1>1, <1>12, SessionBounds
       DEF GraceEnds, Minted, rows, SessionTypeOK, BulkKinds, Sessions,
           RemembersMinted, ChainsLinked
  <2>2. /\ RemembersMinted' /\ ChainsLinked' /\ LiveApart' /\ BulkListsLive'
        /\ CapReserved'
    BY <1>1, <1>12
       DEF GraceEnds, Minted, rows, RemembersMinted, ChainsLinked, Sessions,
           LiveApart, BulkListsLive, CapReserved, Live
  <2> QED  BY <2>1, <2>2
              DEF SessionInd
<1>13. ASSUME NEW s \in Sessions, AccessEnds(s)
      PROVE  SessionInd'
  <2>1. SessionTypeOK'
    BY <1>1, <1>13, SessionBounds
       DEF AccessEnds, Minted, rows, SessionTypeOK, BulkKinds, Sessions,
           RemembersMinted, ChainsLinked
  <2>2. /\ RemembersMinted' /\ ChainsLinked' /\ LiveApart' /\ BulkListsLive'
        /\ CapReserved'
    BY <1>1, <1>13
       DEF AccessEnds, Minted, rows, RemembersMinted, ChainsLinked, Sessions,
           LiveApart, BulkListsLive, CapReserved, Live
  <2> QED  BY <2>1, <2>2
              DEF SessionInd
<1>14. ASSUME NEW kind \in BulkKinds, NEW keep \in 0 .. MaxSessions, BulkList(kind, keep)
      PROVE  SessionInd'
  <2>1. SessionTypeOK'
    <3>1. Live \ {keep} \subseteq Sessions /\ minted \in 0 .. MaxSessions
      BY <1>1, SessionBounds DEF Live, Minted, Sessions, SessionTypeOK
    <3>2. bulk' \in [kind : {"none"} \cup BulkKinds, list : SUBSET Sessions,
                     upto : 0 .. MaxSessions, keep : 0 .. MaxSessions]
      BY <1>14, <3>1 DEF BulkList
    <3> QED  BY <1>1, <1>14, <3>1, <3>2, SessionRecords
             DEF BulkList, rows, SessionTypeOK, Minted
  <2>2. RemembersMinted'
    BY <1>1, <1>14, SessionBounds
       DEF BulkList, Live, Minted, rows, RemembersMinted, SessionTypeOK,
           BulkKinds, Sessions, ChainsLinked
  <2>3. BulkListsLive'
    BY <1>1, <1>14, SessionBounds
       DEF BulkList, Live, Minted, rows, BulkListsLive, SessionTypeOK,
           BulkKinds, Sessions, RemembersMinted, ChainsLinked
  <2>4. ChainsLinked' /\ LiveApart' /\ CapReserved'
    BY <1>1, <1>14
       DEF BulkList, Live, Minted, rows, ChainsLinked, Sessions, LiveApart,
           CapReserved
  <2> QED  BY <2>1, <2>2, <2>3, <2>4
              DEF SessionInd
<1>15. CASE BulkRevoke
  <2>1. SessionTypeOK'
    <3>1. revoked \subseteq revoked' /\ revoked' \subseteq Minted /\ tokenRevoked' \subseteq revoked'
          /\ blacklisted' \subseteq Minted /\ Minted' = Minted
      BY <1>1, <1>15 DEF BulkRevoke, RevokeSessions, SessionTypeOK, RemembersMinted, Minted, Live, rows
    <3>2. request' \in [at : {"none", "token", "session"}, session : 0 .. MaxSessions]
      BY <1>1, <1>15, SessionRecords DEF BulkRevoke, SessionTypeOK
    <3>3. member' \in BOOLEAN
      BY <1>15 DEF BulkRevoke
    <3>4. idle' \subseteq Minted' /\ graceOver' \subseteq Minted' /\ ended' \subseteq Minted'
      BY <1>1, <1>15, <3>1 DEF BulkRevoke, SessionTypeOK
    <3>5. /\ minted' = minted /\ login' = login /\ successor' = successor
          /\ entering' = entering /\ given' = given /\ bulk' = NoBulk
      BY <1>15 DEF BulkRevoke
    <3> QED  BY <1>1, <3>1, <3>2, <3>3, <3>4, <3>5, SessionRecords DEF SessionTypeOK
  <2>2. RemembersMinted'
    BY <1>1, <1>15, SessionBounds
       DEF BulkRevoke, NoBulk, RevokeSessions, RemembersMinted, Minted,
           SessionTypeOK, BulkKinds, Sessions, ChainsLinked
  <2>3. ChainsLinked'
    BY <1>1, <1>15, SessionBounds
       DEF BulkRevoke, NoBulk, RevokeSessions, ChainsLinked, Minted,
           Sessions, SessionTypeOK, BulkKinds, RemembersMinted
  <2>4. LiveApart'
    BY <1>1, <1>15, SessionBounds
       DEF BulkRevoke, NoBulk, RevokeSessions, LiveApart, Minted,
           SessionTypeOK, BulkKinds, Sessions, RemembersMinted, ChainsLinked
  <2>5. BulkListsLive'
    BY <1>1, <1>15, SessionBounds
       DEF BulkRevoke, NoBulk, RevokeSessions, BulkListsLive, Minted,
           SessionTypeOK, BulkKinds, Sessions, RemembersMinted, ChainsLinked
  <2>6. CapReserved'
    <3>1. /\ entering' = entering /\ successor' = successor /\ minted' = minted
          /\ revoked \subseteq revoked'
      BY <1>15 DEF BulkRevoke, RevokeSessions
    <3> QED  BY <1>1, <3>1, CapSurvivesRevocation
  <2> QED  BY <2>1, <2>2, <2>3, <2>4, <2>5, <2>6
              DEF SessionInd
<1>16. CASE Reactivate
  <2>1. SessionTypeOK'
    BY <1>1, <1>16, SessionBounds
       DEF Reactivate, rows, SessionTypeOK, BulkKinds, Minted, Sessions,
           RemembersMinted, ChainsLinked
  <2>2. /\ RemembersMinted' /\ ChainsLinked' /\ LiveApart' /\ BulkListsLive'
        /\ CapReserved'
    BY <1>1, <1>16
       DEF Reactivate, rows, RemembersMinted, Minted, ChainsLinked, Sessions,
           LiveApart, BulkListsLive, CapReserved, Live
  <2> QED  BY <2>1, <2>2
              DEF SessionInd
<1>17. CASE RequestSession
  <2>1. SessionTypeOK'
    BY <1>1, <1>17, SessionBounds
       DEF RequestSession, rows, SessionTypeOK, BulkKinds, Minted, Sessions,
           RemembersMinted, ChainsLinked
  <2>2. RemembersMinted'
    BY <1>1, <1>17, SessionBounds
       DEF RequestSession, rows, RemembersMinted, Minted, SessionTypeOK,
           BulkKinds, Sessions, ChainsLinked
  <2>3. ChainsLinked' /\ LiveApart' /\ BulkListsLive' /\ CapReserved'
    BY <1>1, <1>17
       DEF RequestSession, rows, ChainsLinked, Minted, Sessions, LiveApart,
           BulkListsLive, CapReserved, Live
  <2> QED  BY <2>1, <2>2, <2>3
              DEF SessionInd
<1>18. CASE RequestIdle
  <2>1. SessionTypeOK'
    <3>1. revoked \subseteq revoked' /\ revoked' \subseteq Minted /\ tokenRevoked' \subseteq revoked'
          /\ blacklisted' \subseteq Minted /\ Minted' = Minted
      BY <1>1, <1>18 DEF RequestIdle, RevokeSessions, SessionTypeOK, RemembersMinted, Minted, Live, rows
    <3>2. request' \in [at : {"none", "token", "session"}, session : 0 .. MaxSessions]
      BY <1>1, <1>18, SessionRecords DEF RequestIdle, SessionTypeOK
    <3> QED  BY <1>1, <1>18, <3>1, <3>2, SessionRecords
             DEF RequestIdle, rows, SessionTypeOK, Minted, RevokeSessions
  <2>2. RemembersMinted'
    BY <1>1, <1>18, SessionBounds
       DEF RequestIdle, NoRequest, RevokeSessions, RemembersMinted, Minted,
           SessionTypeOK, BulkKinds, Sessions, ChainsLinked
  <2>3. ChainsLinked'
    BY <1>1, <1>18, SessionBounds
       DEF RequestIdle, NoRequest, RevokeSessions, ChainsLinked, Minted,
           Sessions, SessionTypeOK, BulkKinds, RemembersMinted
  <2>4. LiveApart'
    BY <1>1, <1>18, SessionBounds
       DEF RequestIdle, NoRequest, RevokeSessions, LiveApart, Minted,
           SessionTypeOK, BulkKinds, Sessions, RemembersMinted, ChainsLinked
  <2>5. BulkListsLive'
    BY <1>1, <1>18, SessionBounds
       DEF RequestIdle, NoRequest, RevokeSessions, BulkListsLive, Minted,
           SessionTypeOK, BulkKinds, Sessions, RemembersMinted, ChainsLinked
  <2>6. CapReserved'
    <3>1. /\ entering' = entering /\ successor' = successor /\ minted' = minted
          /\ revoked \subseteq revoked'
      BY <1>18 DEF RequestIdle, RevokeSessions
    <3> QED  BY <1>1, <3>1, CapSurvivesRevocation
  <2> QED  BY <2>1, <2>2, <2>3, <2>4, <2>5, <2>6
              DEF SessionInd
<1>19. CASE RequestServed
  <2>1. SessionTypeOK'
    <3>1. revoked \subseteq revoked' /\ revoked' \subseteq Minted /\ tokenRevoked' \subseteq revoked'
          /\ blacklisted' \subseteq Minted /\ Minted' = Minted
      BY <1>1, <1>19 DEF RequestServed, RevokeSessions, SessionTypeOK, RemembersMinted, Minted, Live, rows
    <3>2. request' \in [at : {"none", "token", "session"}, session : 0 .. MaxSessions]
      BY <1>1, <1>19, SessionRecords DEF RequestServed, SessionTypeOK
    <3> QED  BY <1>1, <1>19, <3>1, <3>2, SessionRecords
             DEF RequestServed, rows, SessionTypeOK, Minted
  <2>2. RemembersMinted'
    BY <1>1, <1>19, SessionBounds
       DEF RequestServed, NoRequest, rows, RemembersMinted, Minted,
           SessionTypeOK, BulkKinds, Sessions, ChainsLinked
  <2>3. ChainsLinked' /\ LiveApart' /\ BulkListsLive' /\ CapReserved'
    BY <1>1, <1>19
       DEF RequestServed, NoRequest, rows, ChainsLinked, Minted, Sessions,
           LiveApart, BulkListsLive, CapReserved, Live
  <2> QED  BY <2>1, <2>2, <2>3
              DEF SessionInd
<1>20. CASE RequestRefused
  <2>1. SessionTypeOK'
    <3>1. revoked \subseteq revoked' /\ revoked' \subseteq Minted /\ tokenRevoked' \subseteq revoked'
          /\ blacklisted' \subseteq Minted /\ Minted' = Minted
      BY <1>1, <1>20 DEF RequestRefused, RevokeSessions, SessionTypeOK, RemembersMinted, Minted, Live, rows
    <3>2. request' \in [at : {"none", "token", "session"}, session : 0 .. MaxSessions]
      BY <1>1, <1>20, SessionRecords DEF RequestRefused, SessionTypeOK
    <3> QED  BY <1>1, <1>20, <3>1, <3>2, SessionRecords
             DEF RequestRefused, rows, SessionTypeOK, Minted
  <2>2. RemembersMinted'
    BY <1>1, <1>20, SessionBounds
       DEF RequestRefused, NoRequest, rows, RemembersMinted, Minted,
           SessionTypeOK, BulkKinds, Sessions, ChainsLinked
  <2>3. ChainsLinked' /\ LiveApart' /\ BulkListsLive' /\ CapReserved'
    BY <1>1, <1>20
       DEF RequestRefused, NoRequest, rows, ChainsLinked, Minted, Sessions,
           LiveApart, BulkListsLive, CapReserved, Live
  <2> QED  BY <2>1, <2>2, <2>3
              DEF SessionInd
<1>21. CASE PruneRevokedTokens
  <2>1. SessionTypeOK'
    BY <1>1, <1>21, SessionBounds
       DEF PruneRevokedTokens, SessionTypeOK, BulkKinds, Minted, Sessions,
           RemembersMinted, ChainsLinked
  <2>2. /\ RemembersMinted' /\ ChainsLinked' /\ LiveApart' /\ BulkListsLive'
        /\ CapReserved'
    BY <1>1, <1>21
       DEF PruneRevokedTokens, RemembersMinted, Minted, ChainsLinked,
           Sessions, LiveApart, BulkListsLive, CapReserved, Live
  <2> QED  BY <2>1, <2>2
              DEF SessionInd
<1>22. CASE UNCHANGED sessionVars
  BY <1>1, <1>22
     DEF sessionVars, BulkKinds, BulkListsLive, CapReserved, ChainsLinked,
         Live, LiveApart, Minted, RemembersMinted, SessionInd, SessionTypeOK,
         Sessions
<1> QED  BY <1>2, <1>3, <1>4, <1>5, <1>6, <1>7, <1>8, <1>9, <1>10, <1>11,
            <1>12, <1>13, <1>14, <1>15, <1>16, <1>17, <1>18, <1>19, <1>20,
            <1>21, <1>22
            DEF SessionNext

\* Two live sessions of different logins: a login has at most one.
LEMMA SessionIndSafe == SessionInd => SessionSafe
<1> SUFFICES ASSUME SessionInd PROVE SessionSafe
  OBVIOUS
<1>1. SessionTypeOK /\ LiveApart
  BY DEF SessionInd
<1>2. ASSUME NEW l \in Minted PROVE Cardinality(LiveOf(l)) <= 1
  <2>1. CASE LiveOf(l) = {}
    BY <2>1, FS_EmptySet
  <2>2. CASE LiveOf(l) # {}
    <3>1. PICK s \in LiveOf(l) : TRUE
      BY <2>2
    <3>2. LiveOf(l) = {s}
      BY <1>1, <3>1 DEF LiveOf, Live, LiveApart
    <3>3. Cardinality({s}) = 1
      BY FS_Singleton
    <3> QED  BY <3>2, <3>3
  <2> QED  BY <2>1, <2>2
<1> QED  BY <1>1, <1>2 DEF SessionSafe, OneLivePerLogin

\* However logins, refreshes, grace answers and revocations interleave, a login has
\* at most one live session (refreshSession), for any number of sessions and any cap.
THEOREM SessionAlwaysSafe == SessionSpec => []SessionSafe
<1>1. SessionInit => SessionInd
  BY SessionInitInd
<1>2. SessionInd /\ [SessionNext]_sessionVars => SessionInd'
  BY SessionPreserved
<1>3. SessionInd => SessionSafe
  BY SessionIndSafe
<1> QED  BY <1>1, <1>2, <1>3, PTL DEF SessionSpec

\* Only a login and a refresh insert a session; the refresh revokes the one it
\* continues, which was live and not idle.  No step revives a session or moves
\* one to another login.
LEMMA SessionStepShape ==
  ASSUME SessionInd, [SessionNext]_sessionVars
  PROVE  /\ revoked \subseteq revoked'
         /\ \A u \in Minted : login'[u] = login[u]
         /\ \/ minted' = minted
            \/ /\ minted' = minted + 1 /\ login'[minted + 1] = minted + 1 /\ LoginInsert
            \/ /\ minted' = minted + 1
               /\ \E s \in Minted : /\ s \notin revoked /\ s \notin idle /\ s \in revoked'
                                    /\ login'[minted + 1] = login[s]
<1>1. SessionTypeOK /\ RemembersMinted /\ minted \in Nat
  BY SessionBounds DEF SessionInd, SessionTypeOK
<1>2. CASE LoginInsert
  <2>1. minted + 1 \in Sessions /\ minted + 1 \notin Minted /\ Minted \subseteq Sessions
    BY <1>1, <1>2, SessionBounds DEF LoginInsert, Sessions, Minted
  <2>2. login'[minted + 1] = minted + 1 /\ \A u \in Minted : login'[u] = login[u]
    BY <1>1, <1>2, <2>1 DEF LoginInsert, SessionTypeOK
  <2> QED  BY <1>2, <2>2 DEF LoginInsert, RevokeSessions
<1>3. ASSUME NEW s \in Sessions, RotateRefreshToken(s)
      PROVE  /\ revoked \subseteq revoked' /\ \A u \in Minted : login'[u] = login[u]
             /\ minted' = minted + 1 /\ s \in Minted /\ s \notin revoked /\ s \notin idle
             /\ s \in revoked' /\ login'[minted + 1] = login[s]
  <2>1. minted + 1 \in Sessions /\ minted + 1 \notin Minted /\ Minted \subseteq Sessions
    BY <1>1, <1>3, SessionBounds DEF RotateRefreshToken, Sessions, Minted
  <2>2. login'[minted + 1] = login[s] /\ \A u \in Minted : login'[u] = login[u]
    BY <1>1, <1>3, <2>1 DEF RotateRefreshToken, SessionTypeOK
  <2> QED  BY <1>3, <2>2 DEF RotateRefreshToken, Refreshable
<1>4. CASE LoginCheck \/ LoginCap \/ LoginRollback \/ BulkRevoke \/ Reactivate \/ RequestSession
           \/ RequestIdle \/ RequestServed \/ RequestRefused \/ PruneRevokedTokens
  BY <1>4 DEF LoginCheck, LoginCap, LoginRollback, BulkRevoke, Reactivate, RequestSession,
     RequestIdle, RequestServed, RequestRefused, PruneRevokedTokens, RevokeSessions, rows
<1>5. ASSUME NEW s \in Sessions,
             RefreshIdle(s) \/ GraceRefresh(s) \/ RevokeOne(s) \/ RequestToken(s)
             \/ BecomeIdle(s) \/ GraceEnds(s) \/ AccessEnds(s)
      PROVE  minted' = minted /\ login' = login /\ revoked \subseteq revoked'
  BY <1>5 DEF RefreshIdle, GraceRefresh, RevokeOne, RequestToken, BecomeIdle, GraceEnds,
     AccessEnds, RevokeSessions, rows
<1>6. ASSUME NEW kind, NEW keep, BulkList(kind, keep)
      PROVE  minted' = minted /\ login' = login /\ revoked \subseteq revoked'
  BY <1>6 DEF BulkList, rows
<1>7. CASE UNCHANGED sessionVars
  BY <1>7 DEF sessionVars
<1> QED  BY <1>2, <1>3, <1>4, <1>5, <1>6, <1>7 DEF SessionNext

\* A live session after a step was live before, or is the inserted one.
LEMMA LiveAfter ==
  ASSUME SessionInd, [SessionNext]_sessionVars, NEW t \in Live'
  PROVE  \/ t \in Live /\ login'[t] = login[t]
         \/ t = minted + 1 /\ minted' = minted + 1
<1>1. minted \in Nat /\ minted' \in Nat
  BY SessionPreserved, SessionBounds DEF SessionInd, SessionTypeOK
<1> QED  BY <1>1, SessionStepShape DEF Live, Minted

\* No token brings back a login whose sessions are all revoked.
LEMMA EndedStep ==
  ASSUME SessionInd, [SessionNext]_sessionVars, NEW l \in Minted, LiveOf(l) = {}
  PROVE  LiveOf(l)' = {}
<1> SUFFICES ASSUME NEW t \in Live', login'[t] = l PROVE FALSE
  BY DEF LiveOf
<1>1. minted \in Nat /\ minted + 1 \notin Minted
  BY SessionBounds DEF SessionInd, SessionTypeOK, Minted
<1>2. t \notin Live
  <2> SUFFICES ASSUME t \in Live PROVE FALSE
    OBVIOUS
  <2>1. login'[t] = login[t]
    BY SessionStepShape DEF Live
  <2> QED  BY <2>1 DEF LiveOf
<1>3. t = minted + 1 /\ minted' = minted + 1
  BY <1>2, LiveAfter
<1>4. PICK s \in Minted : s \notin revoked /\ login'[minted + 1] = login[s]
  BY <1>1, <1>3, SessionStepShape
<1> QED  BY <1>3, <1>4 DEF LiveOf, Live

\* An idle session is the last of its login.
LEMMA IdleStep ==
  ASSUME SessionInd, [SessionNext]_sessionVars, NEW s \in Live \cap idle,
         request # [at |-> "session", session |-> s]
  PROVE  s \in idle' /\ LiveOf(login[s])' \subseteq {s}
<1>1. SessionTypeOK /\ ChainsLinked /\ LiveApart /\ s \in Minted /\ s \notin revoked
  BY DEF SessionInd, Live
<1>2. s \in idle'
  <2>1. CASE RequestServed
    <3>1. request = [at |-> request.at, session |-> request.session]
      BY <1>1 DEF SessionTypeOK
    <3>2. request.session # s
      BY <2>1, <3>1 DEF RequestServed
    <3> QED  BY <2>1, <3>2 DEF RequestServed
  <2>2. CASE LoginCheck \/ LoginCap \/ LoginInsert \/ LoginRollback \/ BulkRevoke \/ Reactivate
             \/ RequestSession \/ RequestIdle \/ RequestRefused \/ PruneRevokedTokens
    BY <2>2 DEF LoginCheck, LoginCap, LoginInsert, LoginRollback, BulkRevoke, Reactivate,
       RequestSession, RequestIdle, RequestRefused, PruneRevokedTokens
  <2>3. ASSUME NEW u \in Sessions,
               RotateRefreshToken(u) \/ RefreshIdle(u) \/ GraceRefresh(u) \/ RevokeOne(u)
               \/ RequestToken(u) \/ BecomeIdle(u) \/ GraceEnds(u) \/ AccessEnds(u)
        PROVE  s \in idle'
    BY <2>3 DEF RotateRefreshToken, RefreshIdle, GraceRefresh, RevokeOne, RequestToken,
       BecomeIdle, GraceEnds, AccessEnds
  <2>4. ASSUME NEW kind, NEW keep, BulkList(kind, keep) PROVE s \in idle'
    BY <2>4 DEF BulkList
  <2>5. CASE UNCHANGED sessionVars
    BY <2>5 DEF sessionVars
  <2> QED  BY <2>1, <2>2, <2>3, <2>4, <2>5 DEF SessionNext
<1>3. ASSUME NEW t \in Live', login'[t] = login'[s] PROVE t = s
  <2>1. login'[s] = login[s] /\ login[s] \in Minted
    BY <1>1, SessionStepShape DEF ChainsLinked
  <2>2. CASE t \in Live /\ login'[t] = login[t]
    BY <1>1, <1>3, <2>1, <2>2 DEF LiveApart, Live
  <2>3. CASE t = minted + 1 /\ minted' = minted + 1
    <3>1. minted \in Nat /\ minted + 1 \notin Minted
      BY <1>1, SessionBounds DEF SessionTypeOK, Minted
    <3>2. PICK u \in Minted : /\ u \notin revoked /\ u \notin idle
                              /\ login'[minted + 1] = login[u]
      BY <1>3, <2>1, <2>3, <3>1, SessionStepShape
    <3>3. u = s
      BY <1>1, <1>3, <2>1, <2>3, <3>2 DEF LiveApart
    <3> QED  BY <3>2, <3>3
  <2> QED  BY <2>2, <2>3, LiveAfter
<1>4. LiveOf(login[s])' \subseteq {s}
  BY <1>3 DEF LiveOf
<1> QED  BY <1>2, <1>4

\* A grace answer names a live session of the login whose token was presented.
LEMMA GraceStep ==
  ASSUME SessionInd, [SessionNext]_sessionVars, given' # given
  PROVE  /\ given'.session \in Live
         /\ login[given'.session] = login[given'.token]
<1>1. CASE LoginCheck \/ LoginCap \/ LoginInsert \/ LoginRollback \/ BulkRevoke \/ Reactivate
           \/ RequestSession \/ RequestIdle \/ RequestServed \/ RequestRefused
           \/ PruneRevokedTokens
  BY <1>1 DEF LoginCheck, LoginCap, LoginInsert, LoginRollback, BulkRevoke, Reactivate,
     RequestSession, RequestIdle, RequestServed, RequestRefused, PruneRevokedTokens
<1>2. ASSUME NEW u \in Sessions,
             RotateRefreshToken(u) \/ RefreshIdle(u) \/ RevokeOne(u)
             \/ RequestToken(u) \/ BecomeIdle(u) \/ GraceEnds(u) \/ AccessEnds(u)
      PROVE  FALSE
  BY <1>2 DEF RotateRefreshToken, RefreshIdle, RevokeOne, RequestToken,
     BecomeIdle, GraceEnds, AccessEnds
<1>3. ASSUME NEW kind, NEW keep, BulkList(kind, keep) PROVE FALSE
  BY <1>3 DEF BulkList
<1>4. CASE UNCHANGED sessionVars
  BY <1>4 DEF sessionVars
<1>5. ASSUME NEW s \in Sessions, GraceRefresh(s)
      PROVE  /\ given'.session \in Live
             /\ login[given'.session] = login[given'.token]
  BY <1>5 DEF GraceRefresh, GraceUsable, SessionInd, ChainsLinked, Live
<1> QED  BY <1>1, <1>2, <1>3, <1>4, <1>5 DEF SessionNext

\* A bulk revocation leaves alive what was inserted after it read its list and
\* the session it keeps; for an organization no login is among that.
LEMMA BulkStep ==
  ASSUME SessionInd, [SessionNext]_sessionVars, bulk.kind # "none", bulk' = NoBulk,
         NEW s \in Live'
  PROVE  \/ s = bulk.keep
         \/ s > bulk.upto /\ (bulk.kind = "org" => login[s] # s)
<1>1. bulk.kind # NoBulk.kind
  BY DEF NoBulk
<1>2. CASE LoginCheck \/ LoginCap \/ LoginInsert \/ LoginRollback \/ Reactivate
           \/ RequestSession \/ RequestIdle \/ RequestServed \/ RequestRefused
           \/ PruneRevokedTokens
  BY <1>1, <1>2 DEF LoginCheck, LoginCap, LoginInsert, LoginRollback, Reactivate,
     RequestSession, RequestIdle, RequestServed, RequestRefused, PruneRevokedTokens
<1>3. ASSUME NEW u \in Sessions,
             RotateRefreshToken(u) \/ RefreshIdle(u) \/ GraceRefresh(u) \/ RevokeOne(u)
             \/ RequestToken(u) \/ BecomeIdle(u) \/ GraceEnds(u) \/ AccessEnds(u)
      PROVE  FALSE
  BY <1>1, <1>3 DEF RotateRefreshToken, RefreshIdle, GraceRefresh, RevokeOne, RequestToken,
     BecomeIdle, GraceEnds, AccessEnds
<1>4. ASSUME NEW kind, NEW keep, BulkList(kind, keep) PROVE FALSE
  BY <1>4 DEF BulkList
<1>5. CASE UNCHANGED sessionVars
  BY <1>1, <1>5 DEF sessionVars
<1>6. CASE BulkRevoke
  <2>1. s \in Minted /\ s \notin revoked /\ s \notin bulk.list
    BY <1>6 DEF BulkRevoke, RevokeSessions, Live, Minted
  <2>2. s \in Nat /\ bulk.upto \in Nat
    BY <2>1, SessionBounds DEF SessionInd, SessionTypeOK, Minted
  <2> QED  BY <2>1, <2>2 DEF SessionInd, BulkListsLive
<1> QED  BY <1>2, <1>3, <1>4, <1>5, <1>6 DEF SessionNext

\* A login that lists its victims leaves at most Cap sessions unless one of them
\* was refreshed first.
LEMMA CapStep ==
  ASSUME SessionInd, [SessionNext]_sessionVars, entering.at = "listed",
         minted' = minted + 1, login'[minted'] = minted', Cap # 0,
         \A s \in entering.drop : successor[s] = 0
  PROVE  Cardinality(Counted') <= Cap
<1>1. SessionTypeOK /\ RemembersMinted /\ CapReserved /\ ChainsLinked
  BY DEF SessionInd
<1>2. minted \in Nat /\ minted # minted + 1 /\ minted + 1 \notin Minted
  BY <1>1, SessionBounds DEF SessionTypeOK, Minted
<1>3. LoginInsert
  <2>1. \A s \in Minted : login[s] # minted + 1
    BY <1>1, <1>2 DEF ChainsLinked, Minted
  <2> QED  BY <1>2, <2>1, SessionStepShape
<1> DEFINE A == Live \ entering.drop
<1>4. Cardinality(A) < Cap /\ A \subseteq Minted /\ minted + 1 \notin A
  BY <1>1, <1>2 DEF CapReserved, Live
<1>5. Counted' = A \cup {minted + 1}
  BY <1>1, <1>2, <1>3
     DEF LoginInsert, RevokeSessions, Counted, Live, SessionTypeOK, RemembersMinted, Minted
<1> HIDE DEF A
<1>6. IsFiniteSet(A) /\ Cardinality(A) \in Nat
  BY <1>1, <1>4, LiveFinite
<1>7. Cardinality(A \cup {minted + 1}) = Cardinality(A) + 1
  BY <1>4, <1>6, FS_AddElement
<1>8. Cardinality(Counted') = Cardinality(A) + 1
  BY <1>5, <1>7, Zenon
<1> QED  BY <1>4, <1>6, <1>8, SessionBounds

\* What no step of a login, a refresh, a request or a revocation does, for any
\* number of sessions and any cap.
THEOREM SessionStepsHold == SessionSpec => SessionSteps
<1>1. SessionInit => SessionInd
  BY SessionInitInd
<1>2. SessionInd /\ [SessionNext]_sessionVars => SessionInd'
  BY SessionPreserved
<1>3. SessionInd /\ [SessionNext]_sessionVars =>
        [\A l \in Minted : LiveOf(l) = {} => LiveOf(l)' = {}]_sessionVars
  BY EndedStep
<1>4. SessionInd /\ [SessionNext]_sessionVars =>
        [given' # given => /\ given'.session \in Live
                           /\ login[given'.session] = login[given'.token]]_sessionVars
  BY GraceStep
<1>5. SessionInd /\ [SessionNext]_sessionVars =>
        [\A s \in Live \cap idle :
           request # [at |-> "session", session |-> s] =>
             /\ s \in idle'
             /\ LiveOf(login[s])' \subseteq {s}]_sessionVars
  BY IdleStep
<1>6. SessionInd /\ [SessionNext]_sessionVars =>
        [bulk.kind # "none" /\ bulk' = NoBulk =>
           \A s \in Live' :
             \/ s = bulk.keep
             \/ s > bulk.upto /\ (bulk.kind = "org" => login[s] # s)]_sessionVars
  BY BulkStep
<1>7. SessionInd /\ [SessionNext]_sessionVars =>
        [entering.at = "listed" /\ minted' = minted + 1 /\ login'[minted'] = minted' =>
           \/ Cap = 0
           \/ Cardinality(Counted') <= Cap
           \/ \E s \in entering.drop : successor[s] # 0]_sessionVars
  BY CapStep
<1> QED  BY <1>1, <1>2, <1>3, <1>4, <1>5, <1>6, <1>7, PTL
            DEF SessionSpec, SessionSteps, EndedLoginStaysEnded, GraceNamesLive,
                IdleLoginEnds, RevocationReachesListed, CapUnlessOvertaken

-----------------------------------------------------------------------------
(* CliLogin: the strengthening of CliSafe. *)

\* The grant is consumed exactly when it has issued the user session, and it
\* issues once.
ConsumedByIssue ==
  /\ issued = IF status = "consumed" THEN 1 ELSE 0
  /\ session = "none" <=> status # "consumed"

\* Every refresh token but the newest was used, in the order they were issued;
\* revoking the session revokes them all.
TokensInLine ==
  /\ session = "none" => tokens = 0
  /\ session = "live" => /\ tokens > 0 /\ revokedTokens = {}
                         /\ \A t \in Tokens : t \in used <=> t # tokens
  /\ session = "revoked" => revokedTokens = Tokens

CliInd ==
  /\ CliTypeOK /\ ConsumedByIssue /\ TokensInLine /\ StepUpGuessesBounded
  /\ OnlyOvertakenCredential

\* A fresh grant satisfies the invariant.
LEMMA CliInitInd == CliInit => CliInd
<1> SUFFICES ASSUME CliInit PROVE CliInd
  OBVIOUS
<1>1. expired \in BOOLEAN /\ soon \in BOOLEAN /\ userIdle \in BOOLEAN
  BY Zenon DEF CliInit
<1>2. CliTypeOK
  BY <1>1, CliBounds DEF CliInit, CliTypeOK, Tokens, Credentials
<1>3. ConsumedByIssue /\ TokensInLine /\ StepUpGuessesBounded /\ OnlyOvertakenCredential
  BY CliBounds DEF CliInit, ConsumedByIssue, TokensInLine, StepUpGuessesBounded,
     OnlyOvertakenCredential
<1> QED  BY <1>2, <1>3 DEF CliInd

\* Every step keeps the invariant of the sign-in.
LEMMA CliPreserved ==
  ASSUME CliInd, [CliNext]_cliVars
  PROVE  CliInd'
<1>1. /\ CliTypeOK /\ ConsumedByIssue /\ TokensInLine
      /\ StepUpGuessesBounded /\ OnlyOvertakenCredential
  BY DEF CliInd
<1>2. CASE Deny
  <2>1. CliTypeOK'
    BY <1>1, <1>2, CliBounds
       DEF Deny, Decidable, creds, user, CliTypeOK, Credentials, Tokens,
           ConsumedByIssue, TokensInLine
  <2>2. ConsumedByIssue'
    BY <1>1, <1>2, CliBounds
       DEF Deny, Decidable, creds, user, ConsumedByIssue, CliTypeOK,
           Credentials, Tokens, TokensInLine
  <2>3. StepUpGuessesBounded'
    BY <1>1, <1>2, CliBounds
       DEF Deny, Decidable, creds, user, StepUpGuessesBounded, CliTypeOK,
           Credentials, Tokens, ConsumedByIssue, TokensInLine
  <2>4. TokensInLine' /\ OnlyOvertakenCredential'
    BY <1>1, <1>2
       DEF Deny, Decidable, creds, user, TokensInLine, Tokens,
           OnlyOvertakenCredential, Credentials
  <2> QED  BY <2>1, <2>2, <2>3, <2>4
              DEF CliInd
<1>3. ASSUME NEW b \in Browsers, StepUpFails(b)
      PROVE  CliInd'
  <2>1. CliTypeOK'
    BY <1>1, <1>3, CliBounds
       DEF StepUpFails, Decidable, creds, user, CliTypeOK, Credentials,
           Tokens, ConsumedByIssue, TokensInLine
  <2>2. ConsumedByIssue'
    BY <1>1, <1>3, CliBounds
       DEF StepUpFails, Decidable, creds, user, ConsumedByIssue, CliTypeOK,
           Credentials, Tokens, TokensInLine
  <2>3. StepUpGuessesBounded'
    BY <1>1, <1>3, CliBounds
       DEF StepUpFails, Decidable, creds, user, StepUpGuessesBounded,
           CliTypeOK, Credentials, Tokens, ConsumedByIssue, TokensInLine
  <2>4. TokensInLine' /\ OnlyOvertakenCredential'
    BY <1>1, <1>3
       DEF StepUpFails, Decidable, creds, user, TokensInLine, Tokens,
           OnlyOvertakenCredential, Credentials
  <2> QED  BY <2>1, <2>2, <2>3, <2>4
              DEF CliInd
<1>4. ASSUME NEW b \in Browsers, Approve(b)
      PROVE  CliInd'
  <2>1. CliTypeOK'
    BY <1>1, <1>4, CliBounds
       DEF Approve, Decidable, creds, user, CliTypeOK, Credentials, Tokens,
           ConsumedByIssue, TokensInLine
  <2>2. ConsumedByIssue'
    BY <1>1, <1>4, CliBounds
       DEF Approve, Decidable, creds, user, ConsumedByIssue, CliTypeOK,
           Credentials, Tokens, TokensInLine
  <2>3. StepUpGuessesBounded'
    BY <1>1, <1>4, CliBounds
       DEF Approve, Decidable, creds, user, StepUpGuessesBounded, CliTypeOK,
           Credentials, Tokens, ConsumedByIssue, TokensInLine
  <2>4. TokensInLine' /\ OnlyOvertakenCredential'
    BY <1>1, <1>4
       DEF Approve, Decidable, creds, user, TokensInLine, Tokens,
           OnlyOvertakenCredential, Credentials
  <2> QED  BY <2>1, <2>2, <2>3, <2>4
              DEF CliInd
<1>5. ASSUME NEW b \in Browsers, RevokeBrowser(b)
      PROVE  CliInd'
  <2>1. CliTypeOK'
    BY <1>1, <1>5, CliBounds
       DEF RevokeBrowser, GrantsRevokedWith, creds, user, CliTypeOK,
           Credentials, Tokens, ConsumedByIssue, TokensInLine
  <2>2. ConsumedByIssue'
    BY <1>1, <1>5, CliBounds
       DEF RevokeBrowser, GrantsRevokedWith, creds, user, ConsumedByIssue,
           CliTypeOK, Credentials, Tokens, TokensInLine
  <2>3. StepUpGuessesBounded'
    BY <1>1, <1>5, CliBounds
       DEF RevokeBrowser, GrantsRevokedWith, creds, user,
           StepUpGuessesBounded, CliTypeOK, Credentials, Tokens,
           ConsumedByIssue, TokensInLine
  <2>4. TokensInLine' /\ OnlyOvertakenCredential'
    BY <1>1, <1>5
       DEF RevokeBrowser, GrantsRevokedWith, creds, user, TokensInLine,
           Tokens, OnlyOvertakenCredential, Credentials
  <2> QED  BY <2>1, <2>2, <2>3, <2>4
              DEF CliInd
<1>6. ASSUME NEW b \in Browsers, BrowserLapses(b)
      PROVE  CliInd'
  <2>1. CliTypeOK'
    BY <1>1, <1>6, CliBounds
       DEF BrowserLapses, creds, grant, user, CliTypeOK, Credentials, Tokens,
           ConsumedByIssue, TokensInLine
  <2>2. /\ ConsumedByIssue' /\ TokensInLine' /\ StepUpGuessesBounded'
        /\ OnlyOvertakenCredential'
    BY <1>1, <1>6
       DEF BrowserLapses, creds, grant, user, ConsumedByIssue, TokensInLine,
           Tokens, StepUpGuessesBounded, OnlyOvertakenCredential, Credentials
  <2> QED  BY <2>1, <2>2
              DEF CliInd
<1>7. CASE SlowDown
  <2>1. CliTypeOK'
    BY <1>1, <1>7, CliBounds
       DEF SlowDown, TerminalPoll, creds, user, CliTypeOK, Credentials,
           Tokens, ConsumedByIssue, TokensInLine
  <2>2. /\ ConsumedByIssue' /\ TokensInLine' /\ StepUpGuessesBounded'
        /\ OnlyOvertakenCredential'
    BY <1>1, <1>7
       DEF SlowDown, TerminalPoll, creds, user, ConsumedByIssue,
           TokensInLine, Tokens, StepUpGuessesBounded,
           OnlyOvertakenCredential, Credentials
  <2> QED  BY <2>1, <2>2
              DEF CliInd
<1>8. CASE PollPending
  <2>1. CliTypeOK'
    BY <1>1, <1>8, CliBounds
       DEF PollPending, TerminalPoll, creds, user, CliTypeOK, Credentials,
           Tokens, ConsumedByIssue, TokensInLine
  <2>2. /\ ConsumedByIssue' /\ TokensInLine' /\ StepUpGuessesBounded'
        /\ OnlyOvertakenCredential'
    BY <1>1, <1>8
       DEF PollPending, TerminalPoll, creds, user, ConsumedByIssue,
           TokensInLine, Tokens, StepUpGuessesBounded,
           OnlyOvertakenCredential, Credentials
  <2> QED  BY <2>1, <2>2
              DEF CliInd
<1>9. CASE PollRevoked
  <2>1. CliTypeOK'
    BY <1>1, <1>9, CliBounds
       DEF PollRevoked, ApproverSessionLive, TerminalPoll, creds, user,
           CliTypeOK, Credentials, Tokens, ConsumedByIssue, TokensInLine
  <2>2. ConsumedByIssue'
    BY <1>1, <1>9, CliBounds
       DEF PollRevoked, ApproverSessionLive, TerminalPoll, creds, user,
           ConsumedByIssue, CliTypeOK, Credentials, Tokens, TokensInLine
  <2>3. StepUpGuessesBounded'
    BY <1>1, <1>9, CliBounds
       DEF PollRevoked, ApproverSessionLive, TerminalPoll, creds, user,
           StepUpGuessesBounded, CliTypeOK, Credentials, Tokens,
           ConsumedByIssue, TokensInLine
  <2>4. TokensInLine' /\ OnlyOvertakenCredential'
    BY <1>1, <1>9
       DEF PollRevoked, ApproverSessionLive, TerminalPoll, creds, user,
           TokensInLine, Tokens, OnlyOvertakenCredential, Credentials
  <2> QED  BY <2>1, <2>2, <2>3, <2>4
              DEF CliInd
<1>10. CASE PollIssue
  <2>1. CliTypeOK'
    BY <1>1, <1>10, CliBounds
       DEF PollIssue, ApproverSessionLive, TerminalPoll, creds, CliTypeOK,
           Credentials, Tokens, ConsumedByIssue, TokensInLine
  <2>2. ConsumedByIssue'
    BY <1>1, <1>10, CliBounds
       DEF PollIssue, ApproverSessionLive, TerminalPoll, creds,
           ConsumedByIssue, CliTypeOK, Credentials, Tokens, TokensInLine
  <2>3. TokensInLine'
    BY <1>1, <1>10, CliBounds
       DEF PollIssue, ApproverSessionLive, TerminalPoll, creds, TokensInLine,
           Tokens, CliTypeOK, Credentials, ConsumedByIssue
  <2>4. StepUpGuessesBounded'
    BY <1>1, <1>10, CliBounds
       DEF PollIssue, ApproverSessionLive, TerminalPoll, creds,
           StepUpGuessesBounded, CliTypeOK, Credentials, Tokens,
           ConsumedByIssue, TokensInLine
  <2>5. OnlyOvertakenCredential'
    BY <1>1, <1>10, CliBounds
       DEF PollIssue, ApproverSessionLive, TerminalPoll, creds,
           OnlyOvertakenCredential, Credentials, CliTypeOK, Tokens,
           ConsumedByIssue, TokensInLine
  <2> QED  BY <2>1, <2>2, <2>3, <2>4, <2>5
              DEF CliInd
<1>11. CASE Revoke
  <2>1. CliTypeOK'
    BY <1>1, <1>11, CliBounds
       DEF Revoke, RevokeUserSession, Credentials, Tokens, grant, CliTypeOK,
           ConsumedByIssue, TokensInLine
  <2>2. ConsumedByIssue'
    BY <1>1, <1>11, CliBounds
       DEF Revoke, RevokeUserSession, Credentials, Tokens, grant,
           ConsumedByIssue, CliTypeOK, TokensInLine
  <2>3. TokensInLine'
    BY <1>1, <1>11, CliBounds
       DEF Revoke, RevokeUserSession, Credentials, Tokens, grant,
           TokensInLine, CliTypeOK, ConsumedByIssue
  <2>4. OnlyOvertakenCredential'
    BY <1>1, <1>11, CliBounds
       DEF Revoke, RevokeUserSession, Credentials, Tokens, grant,
           OnlyOvertakenCredential, CliTypeOK, ConsumedByIssue, TokensInLine
  <2>5. StepUpGuessesBounded'
    BY <1>1, <1>11
       DEF Revoke, RevokeUserSession, Credentials, Tokens, grant,
           StepUpGuessesBounded
  <2> QED  BY <2>1, <2>2, <2>3, <2>4, <2>5
              DEF CliInd
<1>12. CASE RefuseIdle
  <2>1. CliTypeOK'
    BY <1>1, <1>12, CliBounds
       DEF RefuseIdle, creds, grant, user, CliTypeOK, Credentials, Tokens,
           ConsumedByIssue, TokensInLine
  <2>2. /\ ConsumedByIssue' /\ TokensInLine' /\ StepUpGuessesBounded'
        /\ OnlyOvertakenCredential'
    BY <1>1, <1>12
       DEF RefuseIdle, creds, grant, user, ConsumedByIssue, TokensInLine,
           Tokens, StepUpGuessesBounded, OnlyOvertakenCredential, Credentials
  <2> QED  BY <2>1, <2>2
              DEF CliInd
<1>13. ASSUME NEW t \in 1 .. MaxTokens, Rotate(t)
      PROVE  CliInd'
  <2>1. CliTypeOK'
    BY <1>1, <1>13, CliBounds
       DEF Rotate, Tokens, creds, grant, CliTypeOK, Credentials,
           ConsumedByIssue, TokensInLine
  <2>2. TokensInLine'
    BY <1>1, <1>13, CliBounds
       DEF Rotate, Tokens, creds, grant, TokensInLine, CliTypeOK,
           Credentials, ConsumedByIssue
  <2>3. /\ ConsumedByIssue' /\ StepUpGuessesBounded'
        /\ OnlyOvertakenCredential'
    BY <1>1, <1>13
       DEF Rotate, Tokens, creds, grant, ConsumedByIssue,
           StepUpGuessesBounded, OnlyOvertakenCredential, Credentials
  <2> QED  BY <2>1, <2>2, <2>3
              DEF CliInd
<1>14. ASSUME NEW t \in 1 .. MaxTokens, RefreshReused(t)
      PROVE  CliInd'
  <2>1. CliTypeOK'
    BY <1>1, <1>14, CliBounds
       DEF RefreshReused, Tokens, creds, grant, user, CliTypeOK, Credentials,
           ConsumedByIssue, TokensInLine
  <2>2. /\ ConsumedByIssue' /\ TokensInLine' /\ StepUpGuessesBounded'
        /\ OnlyOvertakenCredential'
    BY <1>1, <1>14
       DEF RefreshReused, Tokens, creds, grant, user, ConsumedByIssue,
           TokensInLine, StepUpGuessesBounded, OnlyOvertakenCredential,
           Credentials
  <2> QED  BY <2>1, <2>2
              DEF CliInd
<1>15. ASSUME NEW t \in 1 .. MaxTokens, ReuseGraceEnds(t)
      PROVE  CliInd'
  <2>1. CliTypeOK'
    BY <1>1, <1>15, CliBounds
       DEF ReuseGraceEnds, creds, grant, CliTypeOK, Credentials, Tokens,
           ConsumedByIssue, TokensInLine
  <2>2. /\ ConsumedByIssue' /\ TokensInLine' /\ StepUpGuessesBounded'
        /\ OnlyOvertakenCredential'
    BY <1>1, <1>15
       DEF ReuseGraceEnds, creds, grant, ConsumedByIssue, TokensInLine,
           Tokens, StepUpGuessesBounded, OnlyOvertakenCredential, Credentials
  <2> QED  BY <2>1, <2>2
              DEF CliInd
<1>16. CASE Verify
  <2>1. CliTypeOK'
    BY <1>1, <1>16, CliBounds
       DEF Verify, grant, user, CliTypeOK, Credentials, Tokens,
           ConsumedByIssue, TokensInLine
  <2>2. /\ ConsumedByIssue' /\ TokensInLine' /\ StepUpGuessesBounded'
        /\ OnlyOvertakenCredential'
    BY <1>1, <1>16
       DEF Verify, grant, user, ConsumedByIssue, TokensInLine, Tokens,
           StepUpGuessesBounded, OnlyOvertakenCredential, Credentials
  <2> QED  BY <2>1, <2>2
              DEF CliInd
<1>17. CASE ExchangeCommit
  <2>1. CliTypeOK'
    BY <1>1, <1>17, CliBounds
       DEF ExchangeCommit, grant, user, CliTypeOK, Credentials, Tokens,
           ConsumedByIssue, TokensInLine
  <2>2. OnlyOvertakenCredential'
    BY <1>1, <1>17, CliBounds
       DEF ExchangeCommit, grant, user, OnlyOvertakenCredential, Credentials,
           CliTypeOK, Tokens, ConsumedByIssue, TokensInLine
  <2>3. ConsumedByIssue' /\ TokensInLine' /\ StepUpGuessesBounded'
    BY <1>1, <1>17
       DEF ExchangeCommit, grant, user, ConsumedByIssue, TokensInLine,
           Tokens, StepUpGuessesBounded
  <2> QED  BY <2>1, <2>2, <2>3
              DEF CliInd
<1>18. CASE ExchangeRefused
  <2>1. CliTypeOK'
    BY <1>1, <1>18, CliBounds
       DEF ExchangeRefused, grant, user, CliTypeOK, Credentials, Tokens,
           ConsumedByIssue, TokensInLine
  <2>2. /\ ConsumedByIssue' /\ TokensInLine' /\ StepUpGuessesBounded'
        /\ OnlyOvertakenCredential'
    BY <1>1, <1>18
       DEF ExchangeRefused, grant, user, ConsumedByIssue, TokensInLine,
           Tokens, StepUpGuessesBounded, OnlyOvertakenCredential, Credentials
  <2> QED  BY <2>1, <2>2
              DEF CliInd
<1>19. ASSUME NEW c \in 1 .. MaxCredentials, RevokeCredential(c)
      PROVE  CliInd'
  <2>1. CliTypeOK'
    BY <1>1, <1>19, CliBounds
       DEF RevokeCredential, Credentials, grant, user, CliTypeOK, Tokens,
           ConsumedByIssue, TokensInLine
  <2>2. OnlyOvertakenCredential'
    BY <1>1, <1>19, CliBounds
       DEF RevokeCredential, Credentials, grant, user,
           OnlyOvertakenCredential, CliTypeOK, Tokens, ConsumedByIssue,
           TokensInLine
  <2>3. ConsumedByIssue' /\ TokensInLine' /\ StepUpGuessesBounded'
    BY <1>1, <1>19
       DEF RevokeCredential, Credentials, grant, user, ConsumedByIssue,
           TokensInLine, Tokens, StepUpGuessesBounded
  <2> QED  BY <2>1, <2>2, <2>3
              DEF CliInd
<1>20. CASE GrantExpires
  <2>1. CliTypeOK'
    BY <1>1, <1>20, CliBounds
       DEF GrantExpires, creds, user, CliTypeOK, Credentials, Tokens,
           ConsumedByIssue, TokensInLine
  <2>2. /\ ConsumedByIssue' /\ TokensInLine' /\ StepUpGuessesBounded'
        /\ OnlyOvertakenCredential'
    BY <1>1, <1>20
       DEF GrantExpires, creds, user, ConsumedByIssue, TokensInLine, Tokens,
           StepUpGuessesBounded, OnlyOvertakenCredential, Credentials
  <2> QED  BY <2>1, <2>2
              DEF CliInd
<1>21. CASE IntervalPasses
  <2>1. CliTypeOK'
    BY <1>1, <1>21, CliBounds
       DEF IntervalPasses, creds, user, CliTypeOK, Credentials, Tokens,
           ConsumedByIssue, TokensInLine
  <2>2. /\ ConsumedByIssue' /\ TokensInLine' /\ StepUpGuessesBounded'
        /\ OnlyOvertakenCredential'
    BY <1>1, <1>21
       DEF IntervalPasses, creds, user, ConsumedByIssue, TokensInLine,
           Tokens, StepUpGuessesBounded, OnlyOvertakenCredential, Credentials
  <2> QED  BY <2>1, <2>2
              DEF CliInd
<1>22. CASE UserSessionIdles
  <2>1. CliTypeOK'
    BY <1>1, <1>22, CliBounds
       DEF UserSessionIdles, creds, grant, CliTypeOK, Credentials, Tokens,
           ConsumedByIssue, TokensInLine
  <2>2. /\ ConsumedByIssue' /\ TokensInLine' /\ StepUpGuessesBounded'
        /\ OnlyOvertakenCredential'
    BY <1>1, <1>22
       DEF UserSessionIdles, creds, grant, ConsumedByIssue, TokensInLine,
           Tokens, StepUpGuessesBounded, OnlyOvertakenCredential, Credentials
  <2> QED  BY <2>1, <2>2
              DEF CliInd
<1>23. CASE UNCHANGED cliVars
  BY <1>1, <1>23
     DEF cliVars, creds, grant, user, CliInd, CliTypeOK, ConsumedByIssue,
         Credentials, OnlyOvertakenCredential, StepUpGuessesBounded, Tokens,
         TokensInLine
<1> QED  BY <1>2, <1>3, <1>4, <1>5, <1>6, <1>7, <1>8, <1>9, <1>10, <1>11,
            <1>12, <1>13, <1>14, <1>15, <1>16, <1>17, <1>18, <1>19, <1>20,
            <1>21, <1>22, <1>23
            DEF CliNext

\* The one usable token is the newest.
LEMMA CliIndSafe == CliInd => CliSafe
<1> SUFFICES ASSUME CliInd PROVE CliSafe
  OBVIOUS
<1>1. CliTypeOK /\ ConsumedByIssue /\ TokensInLine
  BY DEF CliInd
<1>2. IssuedOnce
  BY <1>1 DEF ConsumedByIssue, IssuedOnce
<1>3. OneUsableToken
  <2> DEFINE usable == Tokens \ (used \cup revokedTokens)
  <2>1. CASE session = "none"
    BY <1>1, <2>1 DEF TokensInLine, OneUsableToken
  <2>2. CASE session = "live"
    <3>1. tokens \in Tokens
      BY <1>1, <2>2 DEF TokensInLine, CliTypeOK, Tokens
    <3>2. usable = {tokens}
      BY <1>1, <2>2, <3>1 DEF TokensInLine
    <3>3. Cardinality({tokens}) = 1
      BY FS_Singleton
    <3>4. Cardinality(usable) = 1
      BY <3>2, <3>3
    <3> QED  BY <2>2, <3>4 DEF OneUsableToken
  <2>3. CASE session = "revoked"
    <3>1. usable = {}
      BY <1>1, <2>3 DEF TokensInLine
    <3> QED  BY <2>3, <3>1 DEF OneUsableToken
  <2> QED  BY <1>1, <2>1, <2>2, <2>3 DEF CliTypeOK
<1> QED  BY <1>1, <1>2, <1>3 DEF CliInd, CliSafe

\* A grant issues one user session after boundedly many guesses, its refresh
\* tokens have one usable end, and only an overtaken credential survives the
\* revocation: for any browsers, limits and numbers of tokens and credentials.
THEOREM CliAlwaysSafe == CliSpec => []CliSafe
<1>1. CliInit => CliInd
  BY CliInitInd
<1>2. CliInd /\ [CliNext]_cliVars => CliInd'
  BY CliPreserved
<1>3. CliInd => CliSafe
  BY CliIndSafe
<1> QED  BY <1>1, <1>2, <1>3, PTL DEF CliSpec

\* A step issues only from a live approval, and no step changes a final outcome.
LEMMA CliStep ==
  ASSUME CliInd, [CliNext]_cliVars
  PROVE  /\ issued' # issued => status = "approved" /\ ~expired /\ approver \in browser
         /\ status \in {"denied", "consumed", "revoked"} => status' = status
<1>1. CliTypeOK
  BY DEF CliInd
<1>2. CASE PollIssue
  BY <1>1, <1>2 DEF PollIssue, TerminalPoll, ApproverSessionLive, CliTypeOK
<1>3. CASE Deny \/ SlowDown \/ PollPending \/ PollRevoked \/ Revoke \/ RefuseIdle \/ Verify
           \/ ExchangeCommit \/ ExchangeRefused \/ GrantExpires \/ IntervalPasses
           \/ UserSessionIdles
  BY <1>3 DEF Deny, SlowDown, PollPending, PollRevoked, Revoke, RefuseIdle, Verify,
     ExchangeCommit, ExchangeRefused, GrantExpires, IntervalPasses, UserSessionIdles,
     Decidable, TerminalPoll, grant
<1>4. ASSUME NEW b \in Browsers,
             StepUpFails(b) \/ Approve(b) \/ RevokeBrowser(b) \/ BrowserLapses(b)
      PROVE  /\ issued' = issued
             /\ status \in {"denied", "consumed", "revoked"} => status' = status
  BY <1>4 DEF StepUpFails, Approve, RevokeBrowser, BrowserLapses, Decidable,
     GrantsRevokedWith, grant
<1>5. ASSUME NEW t \in 1 .. MaxTokens, Rotate(t) \/ RefreshReused(t) \/ ReuseGraceEnds(t)
      PROVE  issued' = issued /\ status' = status
  BY <1>5 DEF Rotate, RefreshReused, ReuseGraceEnds, grant
<1>6. ASSUME NEW c \in 1 .. MaxCredentials, RevokeCredential(c)
      PROVE  issued' = issued /\ status' = status
  BY <1>6 DEF RevokeCredential, grant
<1>7. CASE UNCHANGED cliVars
  BY <1>7 DEF cliVars, grant
<1> QED  BY <1>2, <1>3, <1>4, <1>5, <1>6, <1>7 DEF CliNext

\* Sessions are issued only from an approval whose browser session is live at
\* that moment, and what a grant became is final.
THEOREM CliStepsHold == CliSpec => CliSteps
<1>1. CliInit => CliInd
  BY CliInitInd
<1>2. CliInd /\ [CliNext]_cliVars => CliInd'
  BY CliPreserved
<1>3. CliInd /\ [CliNext]_cliVars =>
        [issued' # issued => status = "approved" /\ ~expired /\ approver \in browser]_cliVars
  BY CliStep
<1>4. CliInd /\ [CliNext]_cliVars =>
        [(status \in {"denied", "consumed", "revoked"}) => status' = status]_cliVars
  BY CliStep
<1> QED  BY <1>1, <1>2, <1>3, <1>4, PTL
            DEF CliSpec, CliSteps, IssuedFromLiveApproval, OutcomeFinal

-----------------------------------------------------------------------------
(* AccountRecovery: the strengthening of AccountSafe. *)

\* The types of AccountTypeOK in three parts.
ChallengeTypes(p) == [pw : 1 .. p, guesses : 0 .. (MaxGuesses - 1)]
NumbersOK ==
  /\ step \in 0 .. MaxStep /\ secrets \in 0 .. MaxSecrets
  /\ staged \in 0 .. secrets /\ confirmed \in 0 .. secrets /\ enrolledAt \in BOOLEAN
  /\ usedCodes \subseteq accepted /\ batch \in 0 .. MaxBatches /\ unused \subseteq 1 .. batch
  /\ password \in Nat /\ password > 0 /\ sessions \subseteq 1 .. password
  /\ made \in 0 .. MaxLinks /\ live \subseteq 1 .. made
ChallengeOK == challenge \in {NoChallenge} \cup ChallengeTypes(password)
CallsOK == calls \in [Calls -> CallTypes]

\* Each reset of the password spends a link: the passwords beyond the first and
\* the links still live are no more than the links made.
LinksPayResets == password + Cardinality(live) <= made + 1

\* An accepted code is forgotten only when its time to live has passed.
RecentCodesKept ==
  \A code \in accepted :
    code[2] \in Int /\ (code[2] + UsedTtl > step => code \in usedCodes)

\* A recovery code that bought a session is of a batch issued, and not unused.
SpentCodesGone ==
  spent.twice = {} /\ \A k \in spent.once : k \in 1 .. batch /\ k \notin unused

\* Unused codes are of the newest batch, and there are none without a confirmed
\* authenticator, unless a recovery stranded the enrolment.
CodesFromNewest ==
  stranded \/ (unused \subseteq {batch} /\ (confirmed = 0 => unused = {}))

\* A sign-in under way has checked the password in force, or one that was
\* replaced while it was under way.
HeldCurrent ==
  /\ \A c \in Calls : calls[c].op \in {"login", "recover"} =>
       calls[c].pw = password \/ calls[c].pw \in overtakenPasswords
  /\ challenge # NoChallenge =>
       challenge.pw = password \/ challenge.pw \in overtakenPasswords

\* No call holds a password that does not exist yet.
HeldBounded == \A c \in Calls : calls[c].op \in {"login", "recover"} => calls[c].pw <= password

\* A completion that has its list of sessions: the live ones are on it, or came
\* after it was made.
ResetOK ==
  /\ resetting \in [link : 0 .. made, listed : SUBSET (1 .. password), late : SUBSET (1 .. password)]
  /\ cliPasswords \subseteq 1 .. password
  /\ resetting # NoReset => sessions \subseteq resetting.listed \cup resetting.late

AccountCore ==
  /\ NumbersOK /\ ChallengeOK /\ CallsOK /\ HeldBounded /\ LinksPayResets /\ RecentCodesKept
  /\ NoTotpReplay /\ SpentCodesGone /\ CodesFromNewest /\ HeldCurrent
  /\ OldPasswordOnlyOvertaken /\ EnrolledCanAnswer

AccountInd == AccountCore /\ ResetOK

\* The calls in flight have the fields of their kind.
LEMMA CallFields ==
  /\ NoCall \in CallTypes /\ NoCall.op = "none"
  /\ \A k \in CallTypes :
       /\ k.op = "login" => k.pw \in 1 .. (MaxLinks + 1)
       /\ k.op = "recover" => k.pw \in 1 .. (MaxLinks + 1) /\ k.code \in 1 .. batch
<1>1. NoCall \in CallTypes /\ NoCall.op = "none"
  BY DEF CallTypes, NoCall
<1>2. ASSUME NEW k \in CallTypes
      PROVE  /\ k.op = "login" => k.pw \in 1 .. (MaxLinks + 1)
             /\ k.op = "recover" => k.pw \in 1 .. (MaxLinks + 1) /\ k.code \in 1 .. batch
  <2>1. CASE k \in {NoCall} \cup [op : {"enroll", "start"}] \cup [op : {"link"}, seen : SUBSET (1 .. MaxLinks)]
    BY <2>1 DEF NoCall
  <2>2. CASE k \in [op : {"login"}, pw : 1 .. (MaxLinks + 1), mfa : BOOLEAN]
    BY <2>2
  <2>3. CASE k \in [op : {"recover"}, pw : 1 .. (MaxLinks + 1), code : 1 .. batch]
    BY <2>3
  <2> QED  BY <2>1, <2>2, <2>3 DEF CallTypes
<1> QED  BY <1>1, <1>2

\* The calls that the first step of each request makes.
LEMMA CallsMade ==
  /\ [op |-> "enroll"] \in CallTypes /\ [op |-> "start"] \in CallTypes
  /\ \A S \in SUBSET (1 .. MaxLinks) : [op |-> "link", seen |-> S] \in CallTypes
  /\ \A p \in 1 .. (MaxLinks + 1), m \in BOOLEAN :
       [op |-> "login", pw |-> p, mfa |-> m] \in CallTypes
  /\ \A p \in 1 .. (MaxLinks + 1), k \in 1 .. batch :
       [op |-> "recover", pw |-> p, code |-> k] \in CallTypes
<1>1. [op |-> "enroll"] \in CallTypes /\ [op |-> "start"] \in CallTypes
  BY DEF CallTypes
<1>2. \A S \in SUBSET (1 .. MaxLinks) : [op |-> "link", seen |-> S] \in CallTypes
  BY DEF CallTypes
<1>3. \A p \in 1 .. (MaxLinks + 1), m \in BOOLEAN :
       [op |-> "login", pw |-> p, mfa |-> m] \in CallTypes
  BY DEF CallTypes
<1>4. \A p \in 1 .. (MaxLinks + 1), k \in 1 .. batch :
       [op |-> "recover", pw |-> p, code |-> k] \in CallTypes
  BY DEF CallTypes
<1> QED  BY <1>1, <1>2, <1>3, <1>4

\* Entering and leaving a call change that call only.
LEMMA CallEntered ==
  ASSUME CallsOK, NEW c \in Calls, NEW k \in CallTypes,
         calls' = [calls EXCEPT ![c] = k], batch' = batch
  PROVE  /\ CallsOK' /\ calls'[c] = k
         /\ \A d \in Calls \ {c} : calls'[d] = calls[d]
<1>1. CallTypes' = CallTypes
  BY DEF CallTypes
<1> QED  BY <1>1 DEF CallsOK

\* A new batch leaves the calls in flight as they are.
LEMMA CallsKept ==
  ASSUME CallsOK, calls' = calls, batch \in Nat, batch' \in Nat, batch <= batch'
  PROVE  CallsOK'
<1>1. CallTypes \subseteq CallTypes'
  <2>1. 1 .. batch \subseteq 1 .. batch'
    OBVIOUS
  <2> QED  BY <2>1 DEF CallTypes
<1> QED  BY <1>1 DEF CallsOK

\* The challenge of a sign-in has its fields, whatever the password in force.
LEMMA ChallengeFields ==
  /\ \A p : NoChallenge \notin ChallengeTypes(p)
  /\ \A p : \A h \in ChallengeTypes(p) : h.pw \in 1 .. p /\ h.guesses \in 0 .. (MaxGuesses - 1)
  /\ \A p \in Nat : ChallengeTypes(p) \subseteq ChallengeTypes(p + 1)
  /\ \A p \in Nat : \A q \in 1 .. p : [pw |-> q, guesses |-> 0] \in ChallengeTypes(p)
  /\ \A p : \A h \in ChallengeTypes(p) : h.guesses + 1 < MaxGuesses =>
       LET g == [h EXCEPT !.guesses = @ + 1]
       IN  g \in ChallengeTypes(p) /\ g.pw = h.pw
<1>1. \A p : NoChallenge \notin ChallengeTypes(p)
  BY DEF NoChallenge, ChallengeTypes
<1>2. \A p : \A h \in ChallengeTypes(p) : h.pw \in 1 .. p /\ h.guesses \in 0 .. (MaxGuesses - 1)
  BY DEF ChallengeTypes
<1>3. ASSUME NEW p \in Nat PROVE ChallengeTypes(p) \subseteq ChallengeTypes(p + 1)
  <2>1. 1 .. p \subseteq 1 .. (p + 1)
    OBVIOUS
  <2> QED  BY <2>1 DEF ChallengeTypes
<1>4. \A p \in Nat : \A q \in 1 .. p : [pw |-> q, guesses |-> 0] \in ChallengeTypes(p)
  BY AccountConstants DEF ChallengeTypes
<1>5. ASSUME NEW p, NEW h \in ChallengeTypes(p), h.guesses + 1 < MaxGuesses
      PROVE  LET g == [h EXCEPT !.guesses = @ + 1]
             IN  g \in ChallengeTypes(p) /\ g.pw = h.pw
  BY <1>5, AccountConstants DEF ChallengeTypes
<1> QED  BY <1>1, <1>2, <1>3, <1>4, <1>5

\* Live links are finitely many.
LEMMA LinksFinite ==
  ASSUME NumbersOK
  PROVE  IsFiniteSet(live) /\ Cardinality(live) \in Nat
<1>1. made \in Int /\ 1 \in Int
  BY DEF NumbersOK
<1>2. IsFiniteSet(1 .. made)
  BY <1>1, FS_Interval
<1> QED  BY <1>2, FS_Subset, FS_CardinalityType DEF NumbersOK

\* A link that is used or expires is one fewer.
LEMMA LinkGone ==
  ASSUME NumbersOK, NEW l \in live, live' = live \ {l}
  PROVE  Cardinality(live') = Cardinality(live) - 1
BY LinksFinite, FS_RemoveElement

\* A code that is valid now and was accepted before is still remembered.
LEMMA ValidNotForgotten ==
  ASSUME NumbersOK, RecentCodesKept, NEW secret, NEW code \in Valid(secret),
         code \notin usedCodes
  PROVE  code \notin accepted /\ code[2] \in Int
<1>1. PICK n \in (step - Window) .. (step + Window) : code = <<secret, n>>
  BY DEF Valid
<1>2. step \in Int /\ n \in Int /\ n >= step - Window /\ code[2] = n
  BY <1>1, AccountConstants DEF NumbersOK
<1>3. n + UsedTtl > step
  BY <1>2, AccountConstants
<1> QED  BY <1>2, <1>3 DEF RecentCodesKept

\* The first state satisfies the invariant.
LEMMA AccountInitInd == AccountInit => AccountInd
<1> SUFFICES ASSUME AccountInit PROVE AccountInd
  OBVIOUS
<1>1. NumbersOK /\ ChallengeOK /\ CallsOK
  <2>1. enrolledAt \in BOOLEAN
    BY Zenon DEF AccountInit
  <2>2. CallsOK
    BY CallFields DEF AccountInit, CallsOK
  <2> QED  BY <2>1, <2>2, AccountConstants DEF AccountInit, NumbersOK, ChallengeOK
<1>2. LinksPayResets
  BY FS_EmptySet DEF AccountInit, LinksPayResets
<1>3. RecentCodesKept /\ SpentCodesGone /\ CodesFromNewest /\ OldPasswordOnlyOvertaken
  BY DEF AccountInit, RecentCodesKept, SpentCodesGone, CodesFromNewest,
     OldPasswordOnlyOvertaken
<1>4. HeldCurrent /\ HeldBounded
  BY CallFields DEF AccountInit, HeldCurrent, HeldBounded
<1>5. NoTotpReplay /\ EnrolledCanAnswer
  BY DEF AccountInit, NoTotpReplay, EnrolledCanAnswer
<1>6. ResetOK
  BY DEF AccountInit, ResetOK, NoReset
<1> QED  BY <1>1, <1>2, <1>3, <1>4, <1>5, <1>6 DEF AccountInd, AccountCore

\* Every step keeps the invariant of the account, the list of a completion apart.
LEMMA AccountCorePreserved ==
  ASSUME AccountInd, [AccountNext]_accountVars
  PROVE  AccountCore'
<1> USE DEF signedIn
<1>1. /\ NumbersOK /\ ChallengeOK /\ CallsOK /\ HeldBounded
      /\ LinksPayResets /\ RecentCodesKept /\ NoTotpReplay /\ SpentCodesGone
      /\ CodesFromNewest /\ HeldCurrent /\ OldPasswordOnlyOvertaken
      /\ EnrolledCanAnswer /\ ResetOK
  BY DEF AccountInd, AccountCore
<1>2. ASSUME NEW c \in Calls, LoginUser(c)
      PROVE  AccountCore'
  <2>1. NumbersOK'
    BY <1>1, <1>2, AccountConstants, CallFields
       DEF LoginUser, Enter, Free, codes, factor, links, past, totp,
           NumbersOK, RecentCodesKept, HeldCurrent, HeldBounded, CallsOK
  <2>2. CallsOK'
    <3> DEFINE k == [op |-> "login", pw |-> password, mfa |-> enrolledAt]
    <3>1. k \in CallTypes
      <4>1. /\ password \in 1 .. (MaxLinks + 1) /\ live \in SUBSET (1 .. MaxLinks)
            /\ enrolledAt \in BOOLEAN
        BY <1>1, AccountConstants, LinksFinite DEF NumbersOK, LinksPayResets
      <4> QED  BY <4>1, CallsMade
    <3> HIDE DEF k
    <3>2. calls' = [calls EXCEPT ![c] = k] /\ batch' = batch
      BY <1>2 DEF LoginUser, Enter, codes, k
    <3> QED  BY <1>1, <3>1, <3>2, CallEntered
  <2>3. HeldBounded'
    BY <1>1, <1>2, AccountConstants, CallFields
       DEF LoginUser, Enter, Free, codes, factor, links, past, totp,
           HeldBounded, NumbersOK, RecentCodesKept, HeldCurrent, CallsOK
  <2>4. HeldCurrent'
    BY <1>1, <1>2, AccountConstants, CallFields
       DEF LoginUser, Enter, Free, codes, factor, links, past, totp,
           HeldCurrent, NumbersOK, RecentCodesKept, HeldBounded, CallsOK
  <2>5. /\ ChallengeOK' /\ LinksPayResets' /\ RecentCodesKept'
        /\ NoTotpReplay' /\ SpentCodesGone' /\ CodesFromNewest'
        /\ OldPasswordOnlyOvertaken' /\ EnrolledCanAnswer'
    BY <1>1, <1>2
       DEF LoginUser, Enter, Free, codes, factor, links, past, totp,
           ChallengeOK, LinksPayResets, RecentCodesKept, NoTotpReplay,
           SpentCodesGone, CodesFromNewest, OldPasswordOnlyOvertaken,
           EnrolledCanAnswer
  <2> QED  BY <2>1, <2>2, <2>3, <2>4, <2>5
              DEF AccountCore
<1>3. ASSUME NEW c \in Calls, CreateLoginSession(c)
      PROVE  AccountCore'
  <2>1. NumbersOK'
    <3>1. calls[c].pw \in 1 .. password
      <4>1. calls[c] \in CallTypes /\ calls[c].op = "login"
        BY <1>1, <1>3 DEF CallsOK, CreateLoginSession, In
      <4>2. calls[c].pw \in Nat /\ calls[c].pw >= 1 /\ calls[c].pw <= password
        BY <1>1, <4>1, CallFields, AccountConstants DEF HeldBounded
      <4> QED  BY <1>1, <4>2 DEF NumbersOK
    <3> QED  BY <1>1, <1>3, <3>1 DEF NumbersOK, CreateLoginSession, OpenSession, factor, totp, codes, links
  <2>2. CallsOK'
    <3>1. calls' = [calls EXCEPT ![c] = NoCall] /\ batch' = batch
      BY <1>3 DEF CreateLoginSession, OpenSession, Leave, codes, links
    <3> QED  BY <1>1, <3>1, CallEntered, CallFields
  <2>3. HeldBounded'
    BY <1>1, <1>3, AccountConstants, CallFields
       DEF CreateLoginSession, OpenSession, In, Leave, codes, factor, links, past, totp,
           HeldBounded, NumbersOK, RecentCodesKept, HeldCurrent, CallsOK
  <2>4. HeldCurrent'
    BY <1>1, <1>3, AccountConstants, CallFields
       DEF CreateLoginSession, OpenSession, In, Leave, codes, factor, links, past, totp,
           HeldCurrent, NumbersOK, RecentCodesKept, HeldBounded, CallsOK
  <2>5. OldPasswordOnlyOvertaken'
    BY <1>1, <1>3, AccountConstants, CallFields
       DEF CreateLoginSession, OpenSession, In, Leave, codes, factor, links, past, totp,
           OldPasswordOnlyOvertaken, NumbersOK, RecentCodesKept, HeldCurrent,
           HeldBounded, CallsOK
  <2>6. /\ ChallengeOK' /\ LinksPayResets' /\ RecentCodesKept'
        /\ NoTotpReplay' /\ SpentCodesGone' /\ CodesFromNewest'
        /\ EnrolledCanAnswer'
    BY <1>1, <1>3
       DEF CreateLoginSession, OpenSession, In, Leave, codes, factor, links, past, totp,
           ChallengeOK, LinksPayResets, RecentCodesKept, NoTotpReplay,
           SpentCodesGone, CodesFromNewest, EnrolledCanAnswer
  <2> QED  BY <2>1, <2>2, <2>3, <2>4, <2>5, <2>6
              DEF AccountCore
<1>4. ASSUME NEW c \in Calls, CreatePendingMfaSession(c)
      PROVE  AccountCore'
  <2>1. NumbersOK'
    BY <1>1, <1>4, AccountConstants, CallFields
       DEF CreatePendingMfaSession, In, Leave, codes, factor, links, past,
           totp, NumbersOK, RecentCodesKept, HeldCurrent, HeldBounded,
           CallsOK
  <2>2. ChallengeOK'
    <3>1. calls[c].pw \in 1 .. password
      <4>1. calls[c] \in CallTypes /\ calls[c].op = "login"
        BY <1>1, <1>4 DEF CallsOK, CreatePendingMfaSession, In
      <4>2. calls[c].pw \in Nat /\ calls[c].pw >= 1 /\ calls[c].pw <= password
        BY <1>1, <4>1, CallFields, AccountConstants DEF HeldBounded
      <4> QED  BY <1>1, <4>2 DEF NumbersOK
    <3>2. challenge' = [pw |-> calls[c].pw, guesses |-> 0] /\ password' = password
      BY <1>4 DEF CreatePendingMfaSession
    <3> QED  BY <1>1, <3>1, <3>2, ChallengeFields DEF NumbersOK, ChallengeOK
  <2>3. CallsOK'
    <3>1. calls' = [calls EXCEPT ![c] = NoCall] /\ batch' = batch
      BY <1>4 DEF CreatePendingMfaSession, Leave, codes, links
    <3> QED  BY <1>1, <3>1, CallEntered, CallFields
  <2>4. HeldBounded'
    BY <1>1, <1>4, AccountConstants, CallFields
       DEF CreatePendingMfaSession, In, Leave, codes, factor, links, past,
           totp, HeldBounded, NumbersOK, RecentCodesKept, HeldCurrent,
           CallsOK
  <2>5. HeldCurrent'
    BY <1>1, <1>4, AccountConstants, CallFields
       DEF CreatePendingMfaSession, In, Leave, codes, factor, links, past,
           totp, HeldCurrent, NumbersOK, RecentCodesKept, HeldBounded,
           CallsOK
  <2>6. /\ LinksPayResets' /\ RecentCodesKept' /\ NoTotpReplay'
        /\ SpentCodesGone' /\ CodesFromNewest' /\ OldPasswordOnlyOvertaken'
        /\ EnrolledCanAnswer'
    BY <1>1, <1>4
       DEF CreatePendingMfaSession, In, Leave, codes, factor, links, past,
           totp, LinksPayResets, RecentCodesKept, NoTotpReplay,
           SpentCodesGone, CodesFromNewest, OldPasswordOnlyOvertaken,
           EnrolledCanAnswer
  <2> QED  BY <2>1, <2>2, <2>3, <2>4, <2>5, <2>6
              DEF AccountCore
<1>5. ASSUME NEW c \in Calls, EnrollCheck(c)
      PROVE  AccountCore'
  <2>1. NumbersOK'
    BY <1>1, <1>5, AccountConstants, CallFields
       DEF EnrollCheck, Enter, Free, codes, factor, links, past, totp,
           NumbersOK, RecentCodesKept, HeldCurrent, HeldBounded, CallsOK
  <2>2. CallsOK'
    <3> DEFINE k == [op |-> "enroll"]
    <3>1. k \in CallTypes
      <4>1. /\ password \in 1 .. (MaxLinks + 1) /\ live \in SUBSET (1 .. MaxLinks)
            /\ enrolledAt \in BOOLEAN
        BY <1>1, AccountConstants, LinksFinite DEF NumbersOK, LinksPayResets
      <4> QED  BY <4>1, CallsMade
    <3> HIDE DEF k
    <3>2. calls' = [calls EXCEPT ![c] = k] /\ batch' = batch
      BY <1>5 DEF EnrollCheck, Enter, codes, k
    <3> QED  BY <1>1, <3>1, <3>2, CallEntered
  <2>3. HeldBounded'
    BY <1>1, <1>5, AccountConstants, CallFields
       DEF EnrollCheck, Enter, Free, codes, factor, links, past, totp,
           HeldBounded, NumbersOK, RecentCodesKept, HeldCurrent, CallsOK
  <2>4. HeldCurrent'
    BY <1>1, <1>5, AccountConstants, CallFields
       DEF EnrollCheck, Enter, Free, codes, factor, links, past, totp,
           HeldCurrent, NumbersOK, RecentCodesKept, HeldBounded, CallsOK
  <2>5. /\ ChallengeOK' /\ LinksPayResets' /\ RecentCodesKept'
        /\ NoTotpReplay' /\ SpentCodesGone' /\ CodesFromNewest'
        /\ OldPasswordOnlyOvertaken' /\ EnrolledCanAnswer'
    BY <1>1, <1>5
       DEF EnrollCheck, Enter, Free, codes, factor, links, past, totp,
           ChallengeOK, LinksPayResets, RecentCodesKept, NoTotpReplay,
           SpentCodesGone, CodesFromNewest, OldPasswordOnlyOvertaken,
           EnrolledCanAnswer
  <2> QED  BY <2>1, <2>2, <2>3, <2>4, <2>5
              DEF AccountCore
<1>6. ASSUME NEW c \in Calls, EnrollMfa(c)
      PROVE  AccountCore'
  <2>1. NumbersOK'
    BY <1>1, <1>6, AccountConstants, CallFields
       DEF EnrollMfa, In, Leave, Stage, codes, links, past, totp, NumbersOK,
           RecentCodesKept, HeldCurrent, HeldBounded, CallsOK
  <2>2. CallsOK'
    <3>1. calls' = [calls EXCEPT ![c] = NoCall] /\ batch' = batch
      BY <1>6 DEF EnrollMfa, Leave, codes, links
    <3> QED  BY <1>1, <3>1, CallEntered, CallFields
  <2>3. HeldBounded'
    BY <1>1, <1>6, AccountConstants, CallFields
       DEF EnrollMfa, In, Leave, Stage, codes, links, past, totp,
           HeldBounded, NumbersOK, RecentCodesKept, HeldCurrent, CallsOK
  <2>4. HeldCurrent'
    BY <1>1, <1>6, AccountConstants, CallFields
       DEF EnrollMfa, In, Leave, Stage, codes, links, past, totp,
           HeldCurrent, NumbersOK, RecentCodesKept, HeldBounded, CallsOK
  <2>5. /\ ChallengeOK' /\ LinksPayResets' /\ RecentCodesKept'
        /\ NoTotpReplay' /\ SpentCodesGone' /\ CodesFromNewest'
        /\ OldPasswordOnlyOvertaken' /\ EnrolledCanAnswer'
    BY <1>1, <1>6
       DEF EnrollMfa, In, Leave, Stage, codes, links, past, totp,
           ChallengeOK, LinksPayResets, RecentCodesKept, NoTotpReplay,
           SpentCodesGone, CodesFromNewest, OldPasswordOnlyOvertaken,
           EnrolledCanAnswer
  <2> QED  BY <2>1, <2>2, <2>3, <2>4, <2>5
              DEF AccountCore
<1>7. ASSUME NEW c \in Calls, RecoverCheck(c)
      PROVE  AccountCore'
  <2>1. NumbersOK'
    BY <1>1, <1>7, AccountConstants, CallFields
       DEF RecoverCheck, Enter, Free, codes, factor, links, past, totp,
           NumbersOK, RecentCodesKept, HeldCurrent, HeldBounded, CallsOK
  <2>2. CallsOK'
    <3>1. PICK j \in unused : calls' = [calls EXCEPT ![c] = [op |-> "recover", pw |-> password, code |-> j]]
      BY <1>7 DEF RecoverCheck, Enter
    <3> DEFINE k == [op |-> "recover", pw |-> password, code |-> j]
    <3>2. k \in CallTypes
      <4>1. password \in 1 .. (MaxLinks + 1) /\ j \in 1 .. batch
        BY <1>1, AccountConstants, LinksFinite DEF NumbersOK, LinksPayResets
      <4> QED  BY <4>1, CallsMade
    <3> HIDE DEF k
    <3>3. calls' = [calls EXCEPT ![c] = k] /\ batch' = batch
      BY <1>7, <3>1 DEF RecoverCheck, codes, k
    <3> QED  BY <1>1, <3>2, <3>3, CallEntered
  <2>3. HeldBounded'
    BY <1>1, <1>7, AccountConstants, CallFields
       DEF RecoverCheck, Enter, Free, codes, factor, links, past, totp,
           HeldBounded, NumbersOK, RecentCodesKept, HeldCurrent, CallsOK
  <2>4. HeldCurrent'
    BY <1>1, <1>7, AccountConstants, CallFields
       DEF RecoverCheck, Enter, Free, codes, factor, links, past, totp,
           HeldCurrent, NumbersOK, RecentCodesKept, HeldBounded, CallsOK
  <2>5. /\ ChallengeOK' /\ LinksPayResets' /\ RecentCodesKept'
        /\ NoTotpReplay' /\ SpentCodesGone' /\ CodesFromNewest'
        /\ OldPasswordOnlyOvertaken' /\ EnrolledCanAnswer'
    BY <1>1, <1>7
       DEF RecoverCheck, Enter, Free, codes, factor, links, past, totp,
           ChallengeOK, LinksPayResets, RecentCodesKept, NoTotpReplay,
           SpentCodesGone, CodesFromNewest, OldPasswordOnlyOvertaken,
           EnrolledCanAnswer
  <2> QED  BY <2>1, <2>2, <2>3, <2>4, <2>5
              DEF AccountCore
<1>8. ASSUME NEW c \in Calls, RecoverWithCode(c)
      PROVE  AccountCore'
  <2>1. NumbersOK'
    <3>1. calls[c].pw \in 1 .. password
      <4>1. calls[c] \in CallTypes /\ calls[c].op = "recover"
        BY <1>1, <1>8 DEF CallsOK, RecoverWithCode, In
      <4>2. calls[c].pw \in Nat /\ calls[c].pw >= 1 /\ calls[c].pw <= password
        BY <1>1, <4>1, CallFields, AccountConstants DEF HeldBounded
      <4> QED  BY <1>1, <4>2 DEF NumbersOK
    <3> QED  BY <1>1, <1>8, <3>1 DEF NumbersOK, RecoverWithCode, OpenSession, factor, totp, links
  <2>2. CallsOK'
    <3>1. calls' = [calls EXCEPT ![c] = NoCall] /\ batch' = batch
      BY <1>8 DEF RecoverWithCode, OpenSession, Leave, codes, links
    <3> QED  BY <1>1, <3>1, CallEntered, CallFields
  <2>3. HeldBounded'
    BY <1>1, <1>8, AccountConstants, CallFields
       DEF RecoverWithCode, OpenSession, CodeClaimable, In, Leave, factor, links, totp,
           HeldBounded, NumbersOK, RecentCodesKept, HeldCurrent, CallsOK
  <2>4. SpentCodesGone'
    BY <1>1, <1>8, AccountConstants, CallFields
       DEF RecoverWithCode, OpenSession, CodeClaimable, In, Leave, factor, links, totp,
           SpentCodesGone, NumbersOK, RecentCodesKept, HeldCurrent,
           HeldBounded, CallsOK
  <2>5. CodesFromNewest'
    BY <1>1, <1>8, AccountConstants, CallFields
       DEF RecoverWithCode, OpenSession, CodeClaimable, In, Leave, factor, links, totp,
           CodesFromNewest, NumbersOK, RecentCodesKept, HeldCurrent,
           HeldBounded, CallsOK
  <2>6. HeldCurrent'
    BY <1>1, <1>8, AccountConstants, CallFields
       DEF RecoverWithCode, OpenSession, CodeClaimable, In, Leave, factor, links, totp,
           HeldCurrent, NumbersOK, RecentCodesKept, HeldBounded, CallsOK
  <2>7. OldPasswordOnlyOvertaken'
    BY <1>1, <1>8, AccountConstants, CallFields
       DEF RecoverWithCode, OpenSession, CodeClaimable, In, Leave, factor, links, totp,
           OldPasswordOnlyOvertaken, NumbersOK, RecentCodesKept, HeldCurrent,
           HeldBounded, CallsOK
  <2>8. /\ ChallengeOK' /\ LinksPayResets' /\ RecentCodesKept'
        /\ NoTotpReplay' /\ EnrolledCanAnswer'
    BY <1>1, <1>8
       DEF RecoverWithCode, OpenSession, CodeClaimable, In, Leave, factor, links, totp,
           ChallengeOK, LinksPayResets, RecentCodesKept, NoTotpReplay,
           EnrolledCanAnswer
  <2> QED  BY <2>1, <2>2, <2>3, <2>4, <2>5, <2>6, <2>7, <2>8
              DEF AccountCore
<1>9. ASSUME NEW c \in Calls, RequestLink(c)
      PROVE  AccountCore'
  <2>1. NumbersOK'
    BY <1>1, <1>9, AccountConstants, CallFields
       DEF RequestLink, Enter, Free, codes, factor, links, past, totp,
           NumbersOK, RecentCodesKept, HeldCurrent, HeldBounded, CallsOK
  <2>2. CallsOK'
    <3> DEFINE k == [op |-> "link", seen |-> live]
    <3>1. k \in CallTypes
      <4>1. /\ password \in 1 .. (MaxLinks + 1) /\ live \in SUBSET (1 .. MaxLinks)
            /\ enrolledAt \in BOOLEAN
        BY <1>1, AccountConstants, LinksFinite DEF NumbersOK, LinksPayResets
      <4> QED  BY <4>1, CallsMade
    <3> HIDE DEF k
    <3>2. calls' = [calls EXCEPT ![c] = k] /\ batch' = batch
      BY <1>9 DEF RequestLink, Enter, codes, k
    <3> QED  BY <1>1, <3>1, <3>2, CallEntered
  <2>3. HeldBounded'
    BY <1>1, <1>9, AccountConstants, CallFields
       DEF RequestLink, Enter, Free, codes, factor, links, past, totp,
           HeldBounded, NumbersOK, RecentCodesKept, HeldCurrent, CallsOK
  <2>4. HeldCurrent'
    BY <1>1, <1>9, AccountConstants, CallFields
       DEF RequestLink, Enter, Free, codes, factor, links, past, totp,
           HeldCurrent, NumbersOK, RecentCodesKept, HeldBounded, CallsOK
  <2>5. /\ ChallengeOK' /\ LinksPayResets' /\ RecentCodesKept'
        /\ NoTotpReplay' /\ SpentCodesGone' /\ CodesFromNewest'
        /\ OldPasswordOnlyOvertaken' /\ EnrolledCanAnswer'
    BY <1>1, <1>9
       DEF RequestLink, Enter, Free, codes, factor, links, past, totp,
           ChallengeOK, LinksPayResets, RecentCodesKept, NoTotpReplay,
           SpentCodesGone, CodesFromNewest, OldPasswordOnlyOvertaken,
           EnrolledCanAnswer
  <2> QED  BY <2>1, <2>2, <2>3, <2>4, <2>5
              DEF AccountCore
<1>10. ASSUME NEW c \in Calls, CreateRecoveryToken(c)
      PROVE  AccountCore'
  <2>1. NumbersOK'
    <3>1. live' \subseteq 1 .. made'
      <4>1. /\ live \subseteq 1 .. made /\ made \in Nat /\ made' = made + 1
            /\ live' = (live \ calls[c].seen) \cup {made + 1}
        BY <1>1, <1>10, AccountConstants DEF NumbersOK, CreateRecoveryToken
      <4>2. live' \subseteq live \cup {made + 1}
        BY <4>1
      <4>3. 1 .. made \subseteq 1 .. made' /\ made + 1 \in 1 .. made'
        BY <4>1
      <4> QED  BY <4>1, <4>2, <4>3
    <3> QED  BY <1>1, <1>10, <3>1, AccountConstants DEF NumbersOK, CreateRecoveryToken, factor, totp, codes
  <2>2. CallsOK'
    <3>1. calls' = [calls EXCEPT ![c] = NoCall] /\ batch' = batch
      BY <1>10 DEF CreateRecoveryToken, Leave, codes, links
    <3> QED  BY <1>1, <3>1, CallEntered, CallFields
  <2>3. HeldBounded'
    BY <1>1, <1>10, AccountConstants, CallFields
       DEF CreateRecoveryToken, In, Leave, codes, factor, past, totp,
           HeldBounded, NumbersOK, RecentCodesKept, HeldCurrent, CallsOK
  <2>4. LinksPayResets'
    <3> DEFINE A == live \ calls[c].seen
    <3>1. IsFiniteSet(live) /\ Cardinality(live) \in Nat
      BY <1>1, LinksFinite
    <3>2. IsFiniteSet(A) /\ Cardinality(A) <= Cardinality(live) /\ Cardinality(A) \in Nat
      <4>1. A \in SUBSET live
        OBVIOUS
      <4>2. IsFiniteSet(A) /\ Cardinality(A) <= Cardinality(live)
        BY <3>1, <4>1, FS_Subset
      <4> QED  BY <4>2, FS_CardinalityType
    <3>3. live' = A \cup {made + 1} /\ made' = made + 1 /\ password' = password
      BY <1>10 DEF CreateRecoveryToken
    <3> HIDE DEF A
    <3>4. /\ Cardinality(A \cup {made + 1}) <= Cardinality(A) + 1
          /\ Cardinality(A \cup {made + 1}) \in Nat
      BY <3>2, FS_AddElement
    <3>5. Cardinality(live') <= Cardinality(A) + 1 /\ Cardinality(live') \in Nat
      BY <3>3, <3>4
    <3> QED  BY <1>1, <3>1, <3>2, <3>3, <3>5 DEF LinksPayResets, NumbersOK
  <2>5. HeldCurrent'
    BY <1>1, <1>10, AccountConstants, CallFields
       DEF CreateRecoveryToken, In, Leave, codes, factor, past, totp,
           HeldCurrent, NumbersOK, RecentCodesKept, HeldBounded, CallsOK
  <2>6. /\ ChallengeOK' /\ RecentCodesKept' /\ NoTotpReplay'
        /\ SpentCodesGone' /\ CodesFromNewest' /\ OldPasswordOnlyOvertaken'
        /\ EnrolledCanAnswer'
    BY <1>1, <1>10
       DEF CreateRecoveryToken, In, Leave, codes, factor, past, totp,
           ChallengeOK, RecentCodesKept, NoTotpReplay, SpentCodesGone,
           CodesFromNewest, OldPasswordOnlyOvertaken, EnrolledCanAnswer
  <2> QED  BY <2>1, <2>2, <2>3, <2>4, <2>5, <2>6
              DEF AccountCore
<1>11. ASSUME NEW c \in Calls, StartCheck(c)
      PROVE  AccountCore'
  <2>1. NumbersOK'
    BY <1>1, <1>11, AccountConstants, CallFields
       DEF StartCheck, Enter, Free, codes, factor, links, past, totp,
           NumbersOK, RecentCodesKept, HeldCurrent, HeldBounded, CallsOK
  <2>2. CallsOK'
    <3> DEFINE k == [op |-> "start"]
    <3>1. k \in CallTypes
      <4>1. /\ password \in 1 .. (MaxLinks + 1) /\ live \in SUBSET (1 .. MaxLinks)
            /\ enrolledAt \in BOOLEAN
        BY <1>1, AccountConstants, LinksFinite DEF NumbersOK, LinksPayResets
      <4> QED  BY <4>1, CallsMade
    <3> HIDE DEF k
    <3>2. calls' = [calls EXCEPT ![c] = k] /\ batch' = batch
      BY <1>11 DEF StartCheck, Enter, codes, k
    <3> QED  BY <1>1, <3>1, <3>2, CallEntered
  <2>3. HeldBounded'
    BY <1>1, <1>11, AccountConstants, CallFields
       DEF StartCheck, Enter, Free, codes, factor, links, past, totp,
           HeldBounded, NumbersOK, RecentCodesKept, HeldCurrent, CallsOK
  <2>4. HeldCurrent'
    BY <1>1, <1>11, AccountConstants, CallFields
       DEF StartCheck, Enter, Free, codes, factor, links, past, totp,
           HeldCurrent, NumbersOK, RecentCodesKept, HeldBounded, CallsOK
  <2>5. /\ ChallengeOK' /\ LinksPayResets' /\ RecentCodesKept'
        /\ NoTotpReplay' /\ SpentCodesGone' /\ CodesFromNewest'
        /\ OldPasswordOnlyOvertaken' /\ EnrolledCanAnswer'
    BY <1>1, <1>11
       DEF StartCheck, Enter, Free, codes, factor, links, past, totp,
           ChallengeOK, LinksPayResets, RecentCodesKept, NoTotpReplay,
           SpentCodesGone, CodesFromNewest, OldPasswordOnlyOvertaken,
           EnrolledCanAnswer
  <2> QED  BY <2>1, <2>2, <2>3, <2>4, <2>5
              DEF AccountCore
<1>12. ASSUME NEW c \in Calls, StartRecoveryMfa(c)
      PROVE  AccountCore'
  <2>1. NumbersOK'
    BY <1>1, <1>12, AccountConstants, CallFields
       DEF StartRecoveryMfa, In, Leave, Stage, codes, links, past, totp,
           NumbersOK, RecentCodesKept, HeldCurrent, HeldBounded, CallsOK
  <2>2. CallsOK'
    <3>1. calls' = [calls EXCEPT ![c] = NoCall] /\ batch' = batch
      BY <1>12 DEF StartRecoveryMfa, Leave, codes, links
    <3> QED  BY <1>1, <3>1, CallEntered, CallFields
  <2>3. HeldBounded'
    BY <1>1, <1>12, AccountConstants, CallFields
       DEF StartRecoveryMfa, In, Leave, Stage, codes, links, past, totp,
           HeldBounded, NumbersOK, RecentCodesKept, HeldCurrent, CallsOK
  <2>4. HeldCurrent'
    BY <1>1, <1>12, AccountConstants, CallFields
       DEF StartRecoveryMfa, In, Leave, Stage, codes, links, past, totp,
           HeldCurrent, NumbersOK, RecentCodesKept, HeldBounded, CallsOK
  <2>5. /\ ChallengeOK' /\ LinksPayResets' /\ RecentCodesKept'
        /\ NoTotpReplay' /\ SpentCodesGone' /\ CodesFromNewest'
        /\ OldPasswordOnlyOvertaken' /\ EnrolledCanAnswer'
    BY <1>1, <1>12
       DEF StartRecoveryMfa, In, Leave, Stage, codes, links, past, totp,
           ChallengeOK, LinksPayResets, RecentCodesKept, NoTotpReplay,
           SpentCodesGone, CodesFromNewest, OldPasswordOnlyOvertaken,
           EnrolledCanAnswer
  <2> QED  BY <2>1, <2>2, <2>3, <2>4, <2>5
              DEF AccountCore
<1>13. ASSUME NEW c \in Calls, Refused(c)
      PROVE  AccountCore'
  <2>1. NumbersOK'
    BY <1>1, <1>13, AccountConstants, CallFields
       DEF Refused, Free, Leave, codes, factor, links, past, totp, NumbersOK,
           RecentCodesKept, HeldCurrent, HeldBounded, CallsOK
  <2>2. CallsOK'
    <3>1. calls' = [calls EXCEPT ![c] = NoCall] /\ batch' = batch
      BY <1>13 DEF Refused, Leave, codes, links
    <3> QED  BY <1>1, <3>1, CallEntered, CallFields
  <2>3. HeldBounded'
    BY <1>1, <1>13, AccountConstants, CallFields
       DEF Refused, Free, Leave, codes, factor, links, past, totp,
           HeldBounded, NumbersOK, RecentCodesKept, HeldCurrent, CallsOK
  <2>4. HeldCurrent'
    BY <1>1, <1>13, AccountConstants, CallFields
       DEF Refused, Free, Leave, codes, factor, links, past, totp,
           HeldCurrent, NumbersOK, RecentCodesKept, HeldBounded, CallsOK
  <2>5. /\ ChallengeOK' /\ LinksPayResets' /\ RecentCodesKept'
        /\ NoTotpReplay' /\ SpentCodesGone' /\ CodesFromNewest'
        /\ OldPasswordOnlyOvertaken' /\ EnrolledCanAnswer'
    BY <1>1, <1>13
       DEF Refused, Free, Leave, codes, factor, links, past, totp,
           ChallengeOK, LinksPayResets, RecentCodesKept, NoTotpReplay,
           SpentCodesGone, CodesFromNewest, OldPasswordOnlyOvertaken,
           EnrolledCanAnswer
  <2> QED  BY <2>1, <2>2, <2>3, <2>4, <2>5
              DEF AccountCore
<1>14. CASE VerifyLogin
  <2>1. NumbersOK'
    <3>1. challenge.pw \in 1 .. password
      BY <1>1, <1>14, ChallengeFields DEF ChallengeOK, VerifyLogin
    <3>2. PICK code \in Valid(confirmed) : Accept(code)
      BY <1>14 DEF VerifyLogin
    <3> QED  BY <1>1, <1>14, <3>1, <3>2 DEF NumbersOK, VerifyLogin, OpenSession, Accept, factor, codes, links
  <2>2. ChallengeOK'
    BY <1>1, <1>14, AccountConstants, CallFields
       DEF VerifyLogin, OpenSession, Accept, Valid, codes, factor, links, past,
           ChallengeOK, NumbersOK, RecentCodesKept, HeldCurrent, HeldBounded,
           CallsOK
  <2>3. CallsOK'
    <3>1. calls' = calls /\ batch' = batch
      BY <1>14 DEF VerifyLogin, OpenSession, codes
    <3>2. batch \in Nat /\ batch' \in Nat /\ batch <= batch'
      BY <1>1, <3>1, AccountConstants DEF NumbersOK
    <3> QED  BY <1>1, <3>1, <3>2, CallsKept
  <2>4. RecentCodesKept'
    BY <1>1, <1>14, AccountConstants, CallFields
       DEF VerifyLogin, OpenSession, Accept, Valid, codes, factor, links, past,
           RecentCodesKept, NumbersOK, HeldCurrent, HeldBounded, CallsOK
  <2>5. NoTotpReplay'
    <3>1. PICK code \in Valid(confirmed) : Accept(code)
      BY <1>14 DEF VerifyLogin
    <3>2. code \notin accepted
      BY <1>1, <3>1, ValidNotForgotten DEF Accept
    <3> QED  BY <1>1, <3>1, <3>2 DEF Accept, NoTotpReplay
  <2>6. HeldCurrent'
    BY <1>1, <1>14, AccountConstants, CallFields
       DEF VerifyLogin, OpenSession, Accept, Valid, codes, factor, links, past,
           HeldCurrent, NumbersOK, RecentCodesKept, HeldBounded, CallsOK
  <2>7. OldPasswordOnlyOvertaken'
    BY <1>1, <1>14, AccountConstants, CallFields
       DEF VerifyLogin, OpenSession, Accept, Valid, codes, factor, links, past,
           OldPasswordOnlyOvertaken, NumbersOK, RecentCodesKept, HeldCurrent,
           HeldBounded, CallsOK
  <2>8. /\ HeldBounded' /\ LinksPayResets' /\ SpentCodesGone'
        /\ CodesFromNewest' /\ EnrolledCanAnswer'
    BY <1>1, <1>14
       DEF VerifyLogin, OpenSession, Accept, Valid, codes, factor, links, past,
           HeldBounded, LinksPayResets, SpentCodesGone, CodesFromNewest,
           EnrolledCanAnswer
  <2> QED  BY <2>1, <2>2, <2>3, <2>4, <2>5, <2>6, <2>7, <2>8
              DEF AccountCore
<1>15. CASE ConsumeInvalidAttempt
  <2>1. NumbersOK'
    BY <1>1, <1>15, AccountConstants, CallFields
       DEF ConsumeInvalidAttempt, codes, factor, links, past, totp,
           NumbersOK, RecentCodesKept, HeldCurrent, HeldBounded, CallsOK
  <2>2. ChallengeOK'
    <3>1. challenge \in ChallengeTypes(password) /\ password' = password
      BY <1>1, <1>15 DEF ChallengeOK, ConsumeInvalidAttempt
    <3>2. CASE challenge.guesses + 1 >= MaxGuesses
      BY <1>15, <3>2 DEF ChallengeOK, ConsumeInvalidAttempt
    <3>3. CASE ~(challenge.guesses + 1 >= MaxGuesses)
      <4>1. challenge.guesses + 1 < MaxGuesses
        BY <3>1, <3>3, ChallengeFields, AccountConstants
      <4>2. challenge' = [challenge EXCEPT !.guesses = @ + 1]
        BY <1>15, <3>3 DEF ConsumeInvalidAttempt
      <4>3. challenge' \in ChallengeTypes(password)
        BY <3>1, <4>1, <4>2, ChallengeFields
      <4> QED  BY <3>1, <4>3 DEF ChallengeOK
    <3> QED  BY <3>2, <3>3
  <2>3. CallsOK'
    <3>1. calls' = calls /\ batch' = batch
      BY <1>15 DEF ConsumeInvalidAttempt, codes
    <3>2. batch \in Nat /\ batch' \in Nat /\ batch <= batch'
      BY <1>1, <3>1, AccountConstants DEF NumbersOK
    <3> QED  BY <1>1, <3>1, <3>2, CallsKept
  <2>4. HeldCurrent'
    BY <1>1, <1>15, AccountConstants, CallFields
       DEF ConsumeInvalidAttempt, codes, factor, links, past, totp,
           HeldCurrent, NumbersOK, RecentCodesKept, HeldBounded, CallsOK
  <2>5. /\ HeldBounded' /\ LinksPayResets' /\ RecentCodesKept'
        /\ NoTotpReplay' /\ SpentCodesGone' /\ CodesFromNewest'
        /\ OldPasswordOnlyOvertaken' /\ EnrolledCanAnswer'
    BY <1>1, <1>15
       DEF ConsumeInvalidAttempt, codes, factor, links, past, totp,
           HeldBounded, LinksPayResets, RecentCodesKept, NoTotpReplay,
           SpentCodesGone, CodesFromNewest, OldPasswordOnlyOvertaken,
           EnrolledCanAnswer
  <2> QED  BY <2>1, <2>2, <2>3, <2>4, <2>5
              DEF AccountCore
<1>16. CASE DeletePendingSession
  <2>1. NumbersOK'
    BY <1>1, <1>16, AccountConstants, CallFields
       DEF DeletePendingSession, codes, factor, links, past, totp, NumbersOK,
           RecentCodesKept, HeldCurrent, HeldBounded, CallsOK
  <2>2. ChallengeOK'
    BY <1>1, <1>16, AccountConstants, CallFields
       DEF DeletePendingSession, codes, factor, links, past, totp,
           ChallengeOK, NumbersOK, RecentCodesKept, HeldCurrent, HeldBounded,
           CallsOK
  <2>3. CallsOK'
    <3>1. calls' = calls /\ batch' = batch
      BY <1>16 DEF DeletePendingSession, codes
    <3>2. batch \in Nat /\ batch' \in Nat /\ batch <= batch'
      BY <1>1, <3>1, AccountConstants DEF NumbersOK
    <3> QED  BY <1>1, <3>1, <3>2, CallsKept
  <2>4. HeldCurrent'
    BY <1>1, <1>16, AccountConstants, CallFields
       DEF DeletePendingSession, codes, factor, links, past, totp,
           HeldCurrent, NumbersOK, RecentCodesKept, HeldBounded, CallsOK
  <2>5. /\ HeldBounded' /\ LinksPayResets' /\ RecentCodesKept'
        /\ NoTotpReplay' /\ SpentCodesGone' /\ CodesFromNewest'
        /\ OldPasswordOnlyOvertaken' /\ EnrolledCanAnswer'
    BY <1>1, <1>16
       DEF DeletePendingSession, codes, factor, links, past, totp,
           HeldBounded, LinksPayResets, RecentCodesKept, NoTotpReplay,
           SpentCodesGone, CodesFromNewest, OldPasswordOnlyOvertaken,
           EnrolledCanAnswer
  <2> QED  BY <2>1, <2>2, <2>3, <2>4, <2>5
              DEF AccountCore
<1>17. CASE VerifyEnrollment
  <2>1. NumbersOK'
    BY <1>1, <1>17, AccountConstants, CallFields
       DEF VerifyEnrollment, Accept, Valid, links, past, NumbersOK,
           RecentCodesKept, HeldCurrent, HeldBounded, CallsOK
  <2>2. CallsOK'
    <3>1. calls' = calls /\ batch' = batch + 1
      BY <1>17 DEF VerifyEnrollment
    <3>2. batch \in Nat /\ batch' \in Nat /\ batch <= batch'
      BY <1>1, <3>1, AccountConstants DEF NumbersOK
    <3> QED  BY <1>1, <3>1, <3>2, CallsKept
  <2>3. RecentCodesKept'
    BY <1>1, <1>17, AccountConstants, CallFields
       DEF VerifyEnrollment, Accept, Valid, links, past, RecentCodesKept,
           NumbersOK, HeldCurrent, HeldBounded, CallsOK
  <2>4. NoTotpReplay'
    <3>1. PICK code \in Valid(staged) : Accept(code)
      BY <1>17 DEF VerifyEnrollment
    <3>2. code \notin accepted
      BY <1>1, <3>1, ValidNotForgotten DEF Accept
    <3> QED  BY <1>1, <3>1, <3>2 DEF Accept, NoTotpReplay
  <2>5. SpentCodesGone'
    BY <1>1, <1>17, AccountConstants, CallFields
       DEF VerifyEnrollment, Accept, Valid, links, past, SpentCodesGone,
           NumbersOK, RecentCodesKept, HeldCurrent, HeldBounded, CallsOK
  <2>6. CodesFromNewest'
    BY <1>1, <1>17, AccountConstants, CallFields
       DEF VerifyEnrollment, Accept, Valid, links, past, CodesFromNewest,
           NumbersOK, RecentCodesKept, HeldCurrent, HeldBounded, CallsOK
  <2>7. EnrolledCanAnswer'
    BY <1>1, <1>17, AccountConstants, CallFields
       DEF VerifyEnrollment, Accept, Valid, links, past, EnrolledCanAnswer,
           NumbersOK, RecentCodesKept, HeldCurrent, HeldBounded, CallsOK
  <2>8. /\ ChallengeOK' /\ HeldBounded' /\ LinksPayResets' /\ HeldCurrent'
        /\ OldPasswordOnlyOvertaken'
    BY <1>1, <1>17
       DEF VerifyEnrollment, Accept, Valid, links, past, ChallengeOK,
           HeldBounded, LinksPayResets, HeldCurrent, OldPasswordOnlyOvertaken
  <2> QED  BY <2>1, <2>2, <2>3, <2>4, <2>5, <2>6, <2>7, <2>8
              DEF AccountCore
<1>18. CASE EnrollmentRefused
  <2>1. NumbersOK'
    BY <1>1, <1>18, AccountConstants, CallFields
       DEF EnrollmentRefused, codes, links, past, totp, NumbersOK,
           RecentCodesKept, HeldCurrent, HeldBounded, CallsOK
  <2>2. CallsOK'
    <3>1. calls' = calls /\ batch' = batch
      BY <1>18 DEF EnrollmentRefused, codes
    <3>2. batch \in Nat /\ batch' \in Nat /\ batch <= batch'
      BY <1>1, <3>1, AccountConstants DEF NumbersOK
    <3> QED  BY <1>1, <3>1, <3>2, CallsKept
  <2>3. /\ ChallengeOK' /\ HeldBounded' /\ LinksPayResets'
        /\ RecentCodesKept' /\ NoTotpReplay' /\ SpentCodesGone'
        /\ CodesFromNewest' /\ HeldCurrent' /\ OldPasswordOnlyOvertaken'
        /\ EnrolledCanAnswer'
    BY <1>1, <1>18
       DEF EnrollmentRefused, codes, links, past, totp, ChallengeOK,
           HeldBounded, LinksPayResets, RecentCodesKept, NoTotpReplay,
           SpentCodesGone, CodesFromNewest, HeldCurrent,
           OldPasswordOnlyOvertaken, EnrolledCanAnswer
  <2> QED  BY <2>1, <2>2, <2>3
              DEF AccountCore
<1>19. CASE RegenerateRecoveryCodes
  <2>1. NumbersOK'
    BY <1>1, <1>19, AccountConstants, CallFields
       DEF RegenerateRecoveryCodes, Accept, Valid, factor, links, past,
           NumbersOK, RecentCodesKept, HeldCurrent, HeldBounded, CallsOK
  <2>2. CallsOK'
    <3>1. calls' = calls /\ batch' = batch + 1
      BY <1>19 DEF RegenerateRecoveryCodes
    <3>2. batch \in Nat /\ batch' \in Nat /\ batch <= batch'
      BY <1>1, <3>1, AccountConstants DEF NumbersOK
    <3> QED  BY <1>1, <3>1, <3>2, CallsKept
  <2>3. RecentCodesKept'
    BY <1>1, <1>19, AccountConstants, CallFields
       DEF RegenerateRecoveryCodes, Accept, Valid, factor, links, past,
           RecentCodesKept, NumbersOK, HeldCurrent, HeldBounded, CallsOK
  <2>4. NoTotpReplay'
    <3>1. PICK code \in Valid(confirmed) : Accept(code)
      BY <1>19 DEF RegenerateRecoveryCodes
    <3>2. code \notin accepted
      BY <1>1, <3>1, ValidNotForgotten DEF Accept
    <3> QED  BY <1>1, <3>1, <3>2 DEF Accept, NoTotpReplay
  <2>5. SpentCodesGone'
    BY <1>1, <1>19, AccountConstants, CallFields
       DEF RegenerateRecoveryCodes, Accept, Valid, factor, links, past,
           SpentCodesGone, NumbersOK, RecentCodesKept, HeldCurrent,
           HeldBounded, CallsOK
  <2>6. CodesFromNewest'
    BY <1>1, <1>19, AccountConstants, CallFields
       DEF RegenerateRecoveryCodes, Accept, Valid, factor, links, past,
           CodesFromNewest, NumbersOK, RecentCodesKept, HeldCurrent,
           HeldBounded, CallsOK
  <2>7. /\ ChallengeOK' /\ HeldBounded' /\ LinksPayResets' /\ HeldCurrent'
        /\ OldPasswordOnlyOvertaken' /\ EnrolledCanAnswer'
    BY <1>1, <1>19
       DEF RegenerateRecoveryCodes, Accept, Valid, factor, links, past,
           ChallengeOK, HeldBounded, LinksPayResets, HeldCurrent,
           OldPasswordOnlyOvertaken, EnrolledCanAnswer
  <2> QED  BY <2>1, <2>2, <2>3, <2>4, <2>5, <2>6, <2>7
              DEF AccountCore
<1>20. CASE CompleteAccountRecovery
  <2>1. NumbersOK'
    <3>1. /\ password' = password + 1 /\ sessions' \subseteq sessions
          /\ made' = made /\ live' \subseteq live
      BY <1>20 DEF CompleteAccountRecovery, ResetPassword
    <3>2. 1 .. password \subseteq 1 .. password'
      BY <1>1, <3>1 DEF NumbersOK
    <3>3. sessions' \subseteq 1 .. password' /\ live' \subseteq 1 .. made'
      BY <1>1, <3>1, <3>2 DEF NumbersOK
    <3> QED  BY <1>1, <1>20, <3>1, <3>3, AccountConstants
                DEF CompleteAccountRecovery, codes, factor, totp, NumbersOK
  <2>2. ChallengeOK'
    <3>1. challenge' = challenge /\ password' = password + 1 /\ password \in Nat
      BY <1>1, <1>20 DEF CompleteAccountRecovery, ResetPassword, NumbersOK
    <3> QED  BY <1>1, <3>1, ChallengeFields DEF ChallengeOK
  <2>3. CallsOK'
    <3>1. calls' = calls /\ batch' = batch
      BY <1>20 DEF CompleteAccountRecovery, codes
    <3>2. batch \in Nat /\ batch' \in Nat /\ batch <= batch'
      BY <1>1, <3>1, AccountConstants DEF NumbersOK
    <3> QED  BY <1>1, <3>1, <3>2, CallsKept
  <2>4. HeldBounded'
    BY <1>1, <1>20, AccountConstants, CallFields
       DEF CompleteAccountRecovery, ResetPassword, HeldPasswords, codes,
           factor, totp, HeldBounded, NumbersOK, RecentCodesKept,
           HeldCurrent, CallsOK
  <2>5. LinksPayResets'
    <3>1. /\ resetting.link \in live /\ live' = live \ {resetting.link} /\ made' = made
          /\ password' = password + 1
      BY <1>20 DEF CompleteAccountRecovery, ResetPassword
    <3>2. Cardinality(live') = Cardinality(live) - 1 /\ Cardinality(live) \in Nat
      BY <1>1, <3>1, LinkGone, LinksFinite
    <3> QED  BY <1>1, <3>1, <3>2 DEF LinksPayResets, NumbersOK
  <2>6. HeldCurrent'
    BY <1>1, <1>20, AccountConstants, CallFields
       DEF CompleteAccountRecovery, ResetPassword, HeldPasswords, codes,
           factor, totp, HeldCurrent, NumbersOK, RecentCodesKept,
           HeldBounded, CallsOK
  <2>7. OldPasswordOnlyOvertaken'
    <3>1. resetting # NoReset
      BY <1>1, <1>20 DEF CompleteAccountRecovery, ResetPassword, NoReset, NumbersOK
    <3>2. sessions' \subseteq resetting.late /\ resetting.late \subseteq overtakenPasswords'
      BY <1>1, <1>20, <3>1 DEF CompleteAccountRecovery, ResetPassword, ResetOK
    <3> QED  BY <3>2 DEF OldPasswordOnlyOvertaken
  <2>8. /\ RecentCodesKept' /\ NoTotpReplay' /\ SpentCodesGone'
        /\ CodesFromNewest' /\ EnrolledCanAnswer'
    BY <1>1, <1>20
       DEF CompleteAccountRecovery, ResetPassword, HeldPasswords, codes,
           factor, totp, RecentCodesKept, NoTotpReplay, SpentCodesGone,
           CodesFromNewest, EnrolledCanAnswer
  <2> QED  BY <2>1, <2>2, <2>3, <2>4, <2>5, <2>6, <2>7, <2>8
              DEF AccountCore
<1>21. CASE CompleteWithTotp
  <2>1. NumbersOK'
    <3>1. /\ password' = password + 1 /\ sessions' \subseteq sessions
          /\ made' = made /\ live' \subseteq live
      BY <1>21 DEF CompleteWithTotp, ResetPassword
    <3>2. 1 .. password \subseteq 1 .. password'
      BY <1>1, <3>1 DEF NumbersOK
    <3>3. sessions' \subseteq 1 .. password' /\ live' \subseteq 1 .. made'
      BY <1>1, <3>1, <3>2 DEF NumbersOK
    <3> QED  BY <1>1, <1>21, <3>1, <3>3, AccountConstants
                DEF CompleteWithTotp, Accept, LoadedRow, Valid, NumbersOK
  <2>2. ChallengeOK'
    <3>1. challenge' = challenge /\ password' = password + 1 /\ password \in Nat
      BY <1>1, <1>21 DEF CompleteWithTotp, ResetPassword, NumbersOK
    <3> QED  BY <1>1, <3>1, ChallengeFields DEF ChallengeOK
  <2>3. CallsOK'
    <3>1. calls' = calls /\ batch' = batch + 1
      BY <1>21 DEF CompleteWithTotp
    <3>2. batch \in Nat /\ batch' \in Nat /\ batch <= batch'
      BY <1>1, <3>1, AccountConstants DEF NumbersOK
    <3> QED  BY <1>1, <3>1, <3>2, CallsKept
  <2>4. HeldBounded'
    BY <1>1, <1>21, AccountConstants, CallFields
       DEF CompleteWithTotp, Accept, LoadedRow, ResetPassword, HeldPasswords,
           Valid, HeldBounded, NumbersOK, RecentCodesKept, HeldCurrent,
           CallsOK
  <2>5. LinksPayResets'
    <3>1. /\ resetting.link \in live /\ live' = live \ {resetting.link} /\ made' = made
          /\ password' = password + 1
      BY <1>21 DEF CompleteWithTotp, ResetPassword
    <3>2. Cardinality(live') = Cardinality(live) - 1 /\ Cardinality(live) \in Nat
      BY <1>1, <3>1, LinkGone, LinksFinite
    <3> QED  BY <1>1, <3>1, <3>2 DEF LinksPayResets, NumbersOK
  <2>6. RecentCodesKept'
    BY <1>1, <1>21, AccountConstants, CallFields
       DEF CompleteWithTotp, Accept, LoadedRow, ResetPassword, HeldPasswords,
           Valid, RecentCodesKept, NumbersOK, HeldCurrent, HeldBounded,
           CallsOK
  <2>7. NoTotpReplay'
    <3>1. PICK row \in LoadedRow : \E code \in Valid(row) : Accept(code)
      BY <1>21 DEF CompleteWithTotp
    <3>2. PICK code \in Valid(row) : Accept(code)
      BY <3>1
    <3>3. code \notin accepted
      BY <1>1, <3>2, ValidNotForgotten DEF Accept
    <3> QED  BY <1>1, <3>2, <3>3 DEF Accept, NoTotpReplay
  <2>8. SpentCodesGone'
    BY <1>1, <1>21, AccountConstants, CallFields
       DEF CompleteWithTotp, Accept, LoadedRow, ResetPassword, HeldPasswords,
           Valid, SpentCodesGone, NumbersOK, RecentCodesKept, HeldCurrent,
           HeldBounded, CallsOK
  <2>9. CodesFromNewest'
    BY <1>1, <1>21, AccountConstants, CallFields
       DEF CompleteWithTotp, Accept, LoadedRow, ResetPassword, HeldPasswords,
           Valid, CodesFromNewest, NumbersOK, RecentCodesKept, HeldCurrent,
           HeldBounded, CallsOK
  <2>10. HeldCurrent'
    BY <1>1, <1>21, AccountConstants, CallFields
       DEF CompleteWithTotp, Accept, LoadedRow, ResetPassword, HeldPasswords,
           Valid, HeldCurrent, NumbersOK, RecentCodesKept, HeldBounded,
           CallsOK
  <2>11. OldPasswordOnlyOvertaken'
    <3>1. resetting # NoReset
      BY <1>1, <1>21 DEF CompleteWithTotp, ResetPassword, NoReset, NumbersOK
    <3>2. sessions' \subseteq resetting.late /\ resetting.late \subseteq overtakenPasswords'
      BY <1>1, <1>21, <3>1 DEF CompleteWithTotp, ResetPassword, ResetOK
    <3> QED  BY <3>2 DEF OldPasswordOnlyOvertaken
  <2>12. EnrolledCanAnswer'
    BY <1>1, <1>21, AccountConstants, CallFields
       DEF CompleteWithTotp, Accept, LoadedRow, ResetPassword, HeldPasswords,
           Valid, EnrolledCanAnswer, NumbersOK, RecentCodesKept, HeldCurrent,
           HeldBounded, CallsOK
  <2> QED  BY <2>1, <2>2, <2>3, <2>4, <2>5, <2>6, <2>7, <2>8, <2>9, <2>10,
              <2>11, <2>12
              DEF AccountCore
<1>22. ASSUME NEW l \in live, LinkExpires(l)
      PROVE  AccountCore'
  <2>1. NumbersOK'
    BY <1>1, <1>22, AccountConstants, CallFields
       DEF LinkExpires, codes, factor, past, totp, NumbersOK,
           RecentCodesKept, HeldCurrent, HeldBounded, CallsOK
  <2>2. CallsOK'
    <3>1. calls' = calls /\ batch' = batch
      BY <1>22 DEF LinkExpires, codes
    <3>2. batch \in Nat /\ batch' \in Nat /\ batch <= batch'
      BY <1>1, <3>1, AccountConstants DEF NumbersOK
    <3> QED  BY <1>1, <3>1, <3>2, CallsKept
  <2>3. LinksPayResets'
    <3>1. /\ live' = live \ {l} /\ made' = made
          /\ password' = password 
      BY <1>22 DEF LinkExpires
    <3>2. Cardinality(live') = Cardinality(live) - 1 /\ Cardinality(live) \in Nat
      BY <1>1, <3>1, LinkGone, LinksFinite
    <3> QED  BY <1>1, <3>1, <3>2 DEF LinksPayResets, NumbersOK
  <2>4. /\ ChallengeOK' /\ HeldBounded' /\ RecentCodesKept' /\ NoTotpReplay'
        /\ SpentCodesGone' /\ CodesFromNewest' /\ HeldCurrent'
        /\ OldPasswordOnlyOvertaken' /\ EnrolledCanAnswer'
    BY <1>1, <1>22
       DEF LinkExpires, codes, factor, past, totp, ChallengeOK, HeldBounded,
           RecentCodesKept, NoTotpReplay, SpentCodesGone, CodesFromNewest,
           HeldCurrent, OldPasswordOnlyOvertaken, EnrolledCanAnswer
  <2> QED  BY <2>1, <2>2, <2>3, <2>4
              DEF AccountCore
<1>23. CASE SignOut
  <2>1. NumbersOK'
    BY <1>1, <1>23, AccountConstants, CallFields
       DEF SignOut, codes, factor, links, past, totp, NumbersOK,
           RecentCodesKept, HeldCurrent, HeldBounded, CallsOK
  <2>2. CallsOK'
    <3>1. calls' = calls /\ batch' = batch
      BY <1>23 DEF SignOut, codes
    <3>2. batch \in Nat /\ batch' \in Nat /\ batch <= batch'
      BY <1>1, <3>1, AccountConstants DEF NumbersOK
    <3> QED  BY <1>1, <3>1, <3>2, CallsKept
  <2>3. OldPasswordOnlyOvertaken'
    BY <1>1, <1>23, AccountConstants, CallFields
       DEF SignOut, codes, factor, links, past, totp,
           OldPasswordOnlyOvertaken, NumbersOK, RecentCodesKept, HeldCurrent,
           HeldBounded, CallsOK
  <2>4. /\ ChallengeOK' /\ HeldBounded' /\ LinksPayResets'
        /\ RecentCodesKept' /\ NoTotpReplay' /\ SpentCodesGone'
        /\ CodesFromNewest' /\ HeldCurrent' /\ EnrolledCanAnswer'
    BY <1>1, <1>23
       DEF SignOut, codes, factor, links, past, totp, ChallengeOK,
           HeldBounded, LinksPayResets, RecentCodesKept, NoTotpReplay,
           SpentCodesGone, CodesFromNewest, HeldCurrent, EnrolledCanAnswer
  <2> QED  BY <2>1, <2>2, <2>3, <2>4
              DEF AccountCore
<1>24. CASE Tick
  <2>1. NumbersOK'
    BY <1>1, <1>24, AccountConstants, CallFields
       DEF Tick, codes, factor, links, past, totp, NumbersOK,
           RecentCodesKept, HeldCurrent, HeldBounded, CallsOK
  <2>2. CallsOK'
    <3>1. calls' = calls /\ batch' = batch
      BY <1>24 DEF Tick, codes
    <3>2. batch \in Nat /\ batch' \in Nat /\ batch <= batch'
      BY <1>1, <3>1, AccountConstants DEF NumbersOK
    <3> QED  BY <1>1, <3>1, <3>2, CallsKept
  <2>3. RecentCodesKept'
    BY <1>1, <1>24, AccountConstants, CallFields
       DEF Tick, codes, factor, links, past, totp, RecentCodesKept,
           NumbersOK, HeldCurrent, HeldBounded, CallsOK
  <2>4. /\ ChallengeOK' /\ HeldBounded' /\ LinksPayResets' /\ NoTotpReplay'
        /\ SpentCodesGone' /\ CodesFromNewest' /\ HeldCurrent'
        /\ OldPasswordOnlyOvertaken' /\ EnrolledCanAnswer'
    BY <1>1, <1>24
       DEF Tick, codes, factor, links, past, totp, ChallengeOK, HeldBounded,
           LinksPayResets, NoTotpReplay, SpentCodesGone, CodesFromNewest,
           HeldCurrent, OldPasswordOnlyOvertaken, EnrolledCanAnswer
  <2> QED  BY <2>1, <2>2, <2>3, <2>4
              DEF AccountCore
<1>25. CASE PruneTotpUsedCodes
  <2>1. NumbersOK'
    BY <1>1, <1>25, AccountConstants, CallFields
       DEF PruneTotpUsedCodes, codes, factor, links, past, NumbersOK,
           RecentCodesKept, HeldCurrent, HeldBounded, CallsOK
  <2>2. CallsOK'
    <3>1. calls' = calls /\ batch' = batch
      BY <1>25 DEF PruneTotpUsedCodes, codes
    <3>2. batch \in Nat /\ batch' \in Nat /\ batch <= batch'
      BY <1>1, <3>1, AccountConstants DEF NumbersOK
    <3> QED  BY <1>1, <3>1, <3>2, CallsKept
  <2>3. RecentCodesKept'
    BY <1>1, <1>25, AccountConstants, CallFields
       DEF PruneTotpUsedCodes, codes, factor, links, past, RecentCodesKept,
           NumbersOK, HeldCurrent, HeldBounded, CallsOK
  <2>4. /\ ChallengeOK' /\ HeldBounded' /\ LinksPayResets' /\ NoTotpReplay'
        /\ SpentCodesGone' /\ CodesFromNewest' /\ HeldCurrent'
        /\ OldPasswordOnlyOvertaken' /\ EnrolledCanAnswer'
    BY <1>1, <1>25
       DEF PruneTotpUsedCodes, codes, factor, links, past, ChallengeOK,
           HeldBounded, LinksPayResets, NoTotpReplay, SpentCodesGone,
           CodesFromNewest, HeldCurrent, OldPasswordOnlyOvertaken,
           EnrolledCanAnswer
  <2> QED  BY <2>1, <2>2, <2>3, <2>4
              DEF AccountCore
<1>26. CASE PruneMfaPendingEnrollments
  <2>1. NumbersOK'
    BY <1>1, <1>26, AccountConstants, CallFields
       DEF PruneMfaPendingEnrollments, codes, links, past, totp, NumbersOK,
           RecentCodesKept, HeldCurrent, HeldBounded, CallsOK
  <2>2. CallsOK'
    <3>1. calls' = calls /\ batch' = batch
      BY <1>26 DEF PruneMfaPendingEnrollments, codes
    <3>2. batch \in Nat /\ batch' \in Nat /\ batch <= batch'
      BY <1>1, <3>1, AccountConstants DEF NumbersOK
    <3> QED  BY <1>1, <3>1, <3>2, CallsKept
  <2>3. /\ ChallengeOK' /\ HeldBounded' /\ LinksPayResets'
        /\ RecentCodesKept' /\ NoTotpReplay' /\ SpentCodesGone'
        /\ CodesFromNewest' /\ HeldCurrent' /\ OldPasswordOnlyOvertaken'
        /\ EnrolledCanAnswer'
    BY <1>1, <1>26
       DEF PruneMfaPendingEnrollments, codes, links, past, totp, ChallengeOK,
           HeldBounded, LinksPayResets, RecentCodesKept, NoTotpReplay,
           SpentCodesGone, CodesFromNewest, HeldCurrent,
           OldPasswordOnlyOvertaken, EnrolledCanAnswer
  <2> QED  BY <2>1, <2>2, <2>3
              DEF AccountCore
<1>27. CASE UNCHANGED accountVars
  BY <1>1, <1>27
     DEF accountVars, codes, factor, links, past, totp, AccountCore, CallsOK,
         ChallengeOK, CodesFromNewest, EnrolledCanAnswer, HeldBounded,
         HeldCurrent, LinksPayResets, NoTotpReplay, NumbersOK,
         OldPasswordOnlyOvertaken, RecentCodesKept, SpentCodesGone, CallTypes
<1>28. ASSUME NEW l \in live, ListSessions(l)
       PROVE  AccountCore'
  <2>1. NumbersOK'
    BY <1>1, <1>28 DEF ListSessions, codes, factor, links, past, totp, NumbersOK, ResetOK
  <2>2. CallsOK'
    <3>1. calls' = calls /\ batch' = batch
      BY <1>28 DEF ListSessions, codes
    <3>2. batch \in Nat /\ batch' \in Nat /\ batch <= batch'
      BY <1>1, <3>1, AccountConstants DEF NumbersOK
    <3> QED  BY <1>1, <3>1, <3>2, CallsKept
  <2>3. OldPasswordOnlyOvertaken'
    BY <1>1, <1>28 DEF ListSessions, past, OldPasswordOnlyOvertaken
  <2>4. /\ ChallengeOK' /\ HeldBounded' /\ LinksPayResets'
        /\ RecentCodesKept' /\ NoTotpReplay' /\ SpentCodesGone'
        /\ CodesFromNewest' /\ HeldCurrent' /\ EnrolledCanAnswer'
    BY <1>1, <1>28
       DEF ListSessions, codes, factor, links, past, totp, ChallengeOK,
           HeldBounded, LinksPayResets, RecentCodesKept, NoTotpReplay,
           SpentCodesGone, CodesFromNewest, HeldCurrent, EnrolledCanAnswer
  <2> QED  BY <2>1, <2>2, <2>3, <2>4 DEF AccountCore
<1>29. ASSUME NEW p \in sessions, RefreshListed(p)
       PROVE  AccountCore'
  <2>1. NumbersOK'
    BY <1>1, <1>29 DEF RefreshListed, OpenSession, codes, factor, links, past, totp, NumbersOK, ResetOK
  <2>2. CallsOK'
    <3>1. calls' = calls /\ batch' = batch
      BY <1>29 DEF RefreshListed, codes
    <3>2. batch \in Nat /\ batch' \in Nat /\ batch <= batch'
      BY <1>1, <3>1, AccountConstants DEF NumbersOK
    <3> QED  BY <1>1, <3>1, <3>2, CallsKept
  <2>3. OldPasswordOnlyOvertaken'
    BY <1>1, <1>29 DEF RefreshListed, OpenSession, past, OldPasswordOnlyOvertaken
  <2>4. /\ ChallengeOK' /\ HeldBounded' /\ LinksPayResets'
        /\ RecentCodesKept' /\ NoTotpReplay' /\ SpentCodesGone'
        /\ CodesFromNewest' /\ HeldCurrent' /\ EnrolledCanAnswer'
    BY <1>1, <1>29
       DEF RefreshListed, OpenSession, codes, factor, links, past, totp, ChallengeOK,
           HeldBounded, LinksPayResets, RecentCodesKept, NoTotpReplay,
           SpentCodesGone, CodesFromNewest, HeldCurrent, EnrolledCanAnswer
  <2> QED  BY <2>1, <2>2, <2>3, <2>4 DEF AccountCore
<1>30. CASE RecoveryFails
  <2>1. NumbersOK'
    BY <1>1, <1>30 DEF RecoveryFails, codes, factor, links, past, totp, NumbersOK, ResetOK
  <2>2. CallsOK'
    <3>1. calls' = calls /\ batch' = batch
      BY <1>30 DEF RecoveryFails, codes
    <3>2. batch \in Nat /\ batch' \in Nat /\ batch <= batch'
      BY <1>1, <3>1, AccountConstants DEF NumbersOK
    <3> QED  BY <1>1, <3>1, <3>2, CallsKept
  <2>3. OldPasswordOnlyOvertaken'
    BY <1>1, <1>30 DEF RecoveryFails, past, OldPasswordOnlyOvertaken
  <2>4. /\ ChallengeOK' /\ HeldBounded' /\ LinksPayResets'
        /\ RecentCodesKept' /\ NoTotpReplay' /\ SpentCodesGone'
        /\ CodesFromNewest' /\ HeldCurrent' /\ EnrolledCanAnswer'
    BY <1>1, <1>30
       DEF RecoveryFails, codes, factor, links, past, totp, ChallengeOK,
           HeldBounded, LinksPayResets, RecentCodesKept, NoTotpReplay,
           SpentCodesGone, CodesFromNewest, HeldCurrent, EnrolledCanAnswer
  <2> QED  BY <2>1, <2>2, <2>3, <2>4 DEF AccountCore
<1>31. CASE ExchangeOrgCredential
  <2>1. NumbersOK'
    BY <1>1, <1>31 DEF ExchangeOrgCredential, OpenSession, codes, factor, links, past, totp, NumbersOK, ResetOK
  <2>2. CallsOK'
    <3>1. calls' = calls /\ batch' = batch
      BY <1>31 DEF ExchangeOrgCredential, codes
    <3>2. batch \in Nat /\ batch' \in Nat /\ batch <= batch'
      BY <1>1, <3>1, AccountConstants DEF NumbersOK
    <3> QED  BY <1>1, <3>1, <3>2, CallsKept
  <2>3. OldPasswordOnlyOvertaken'
    BY <1>1, <1>31 DEF ExchangeOrgCredential, OpenSession, past, OldPasswordOnlyOvertaken
  <2>4. /\ ChallengeOK' /\ HeldBounded' /\ LinksPayResets'
        /\ RecentCodesKept' /\ NoTotpReplay' /\ SpentCodesGone'
        /\ CodesFromNewest' /\ HeldCurrent' /\ EnrolledCanAnswer'
    BY <1>1, <1>31
       DEF ExchangeOrgCredential, OpenSession, codes, factor, links, past, totp, ChallengeOK,
           HeldBounded, LinksPayResets, RecentCodesKept, NoTotpReplay,
           SpentCodesGone, CodesFromNewest, HeldCurrent, EnrolledCanAnswer
  <2> QED  BY <2>1, <2>2, <2>3, <2>4 DEF AccountCore
<1> QED  BY <1>2, <1>3, <1>4, <1>5, <1>6, <1>7, <1>8, <1>9, <1>10, <1>11,
            <1>12, <1>13, <1>14, <1>15, <1>16, <1>17, <1>18, <1>19, <1>20,
            <1>21, <1>22, <1>23, <1>24, <1>25, <1>26, <1>27, <1>28, <1>29,
            <1>30, <1>31
            DEF AccountNext

\* The steps after a completion has listed the sessions: what they open is late.
LEMMA ResetPreserved ==
  ASSUME AccountInd, [AccountNext]_accountVars
  PROVE  ResetOK'
<1>1. NumbersOK /\ ChallengeOK /\ CallsOK /\ HeldBounded /\ LinksPayResets /\ ResetOK
  BY DEF AccountInd, AccountCore
<1>2. ASSUME NEW p \in 1 .. password, OpenSession(p), password' = password, made' = made
      PROVE  ResetOK'
  <2>1. CASE resetting = NoReset
    BY <1>1, <1>2, <2>1 DEF OpenSession, ResetOK
  <2>2. CASE resetting # NoReset
    <3>1. resetting' = [resetting EXCEPT !.listed = @ \ {p}, !.late = @ \cup {p}]
      BY <1>2, <2>2 DEF OpenSession
    <3> QED  BY <1>1, <1>2, <2>2, <3>1 DEF OpenSession, ResetOK
  <2> QED  BY <2>1, <2>2
<1>3. ASSUME NEW c \in Calls, CreateLoginSession(c) \/ RecoverWithCode(c)
      PROVE  ResetOK'
  <2>1. calls[c] \in CallTypes /\ calls[c].op \in {"login", "recover"}
    BY <1>1, <1>3 DEF CallsOK, CreateLoginSession, RecoverWithCode, In
  <2>2. calls[c].pw \in 1 .. password
    BY <1>1, <2>1, CallFields, AccountConstants DEF HeldBounded, NumbersOK
  <2>3. OpenSession(calls[c].pw) /\ password' = password /\ made' = made
    BY <1>3 DEF CreateLoginSession, RecoverWithCode, links
  <2> QED  BY <1>2, <2>2, <2>3
<1>4. CASE VerifyLogin
  <2>1. challenge.pw \in 1 .. password
    BY <1>1, <1>4, ChallengeFields DEF VerifyLogin, ChallengeOK
  <2>2. OpenSession(challenge.pw) /\ password' = password /\ made' = made
    BY <1>4 DEF VerifyLogin, links
  <2> QED  BY <1>2, <2>1, <2>2
<1>5. ASSUME NEW p \in sessions, RefreshListed(p)
      PROVE  ResetOK'
  <2>1. p \in 1 .. password /\ OpenSession(p) /\ password' = password /\ made' = made
    BY <1>1, <1>5 DEF RefreshListed, links, NumbersOK
  <2> QED  BY <1>2, <2>1
<1>6. CASE ExchangeOrgCredential
  <2>1. PICK p \in cliPasswords \ sessions : OpenSession(p)
    BY <1>6 DEF ExchangeOrgCredential
  <2>2. p \in 1 .. password /\ password' = password /\ made' = made
    BY <1>1, <1>6 DEF ExchangeOrgCredential, links, ResetOK
  <2> QED  BY <1>2, <2>1, <2>2
<1>7. ASSUME NEW l \in live, ListSessions(l)
      PROVE  ResetOK'
  BY <1>1, <1>7 DEF ListSessions, links, NumbersOK, ResetOK
<1>8. CASE RecoveryFails
  BY <1>1, <1>8 DEF RecoveryFails, links, NumbersOK, ResetOK, NoReset
<1>9. CASE CompleteAccountRecovery \/ CompleteWithTotp
  <2>1. /\ made' = made /\ password' = password + 1 /\ resetting' = NoReset
        /\ cliPasswords' \subseteq cliPasswords \cup {password}
    BY <1>9 DEF CompleteAccountRecovery, CompleteWithTotp, ResetPassword
  <2> QED  BY <1>1, <2>1 DEF NumbersOK, ResetOK, NoReset
<1>10. CASE SignOut
  BY <1>1, <1>10 DEF SignOut, links, ResetOK
<1>11. ASSUME NEW c \in Calls, CreateRecoveryToken(c)
       PROVE  ResetOK'
  BY <1>1, <1>11, AccountConstants DEF CreateRecoveryToken, signedIn, NumbersOK, ResetOK
<1>12. CASE UNCHANGED <<signedIn, password, made>>
  BY <1>1, <1>12 DEF signedIn, ResetOK
<1>13. ASSUME NEW c \in Calls,
              \/ LoginUser(c) \/ CreatePendingMfaSession(c) \/ EnrollCheck(c)
              \/ EnrollMfa(c) \/ RecoverCheck(c) \/ RequestLink(c)
              \/ StartCheck(c) \/ StartRecoveryMfa(c) \/ Refused(c)
       PROVE  ResetOK'
  BY <1>12, <1>13
     DEF LoginUser, CreatePendingMfaSession, EnrollCheck, EnrollMfa,
         RecoverCheck, RequestLink, StartCheck, StartRecoveryMfa, Refused, links
<1>14. CASE \/ ConsumeInvalidAttempt \/ DeletePendingSession \/ VerifyEnrollment
            \/ EnrollmentRefused \/ RegenerateRecoveryCodes \/ Tick
            \/ PruneTotpUsedCodes \/ PruneMfaPendingEnrollments
            \/ UNCHANGED accountVars
  BY <1>12, <1>14
     DEF ConsumeInvalidAttempt, DeletePendingSession, VerifyEnrollment,
         EnrollmentRefused, RegenerateRecoveryCodes, Tick, PruneTotpUsedCodes,
         PruneMfaPendingEnrollments, accountVars, links
<1>15. ASSUME NEW l \in live, LinkExpires(l)
       PROVE  ResetOK'
  BY <1>12, <1>15 DEF LinkExpires
<1> QED  BY <1>3, <1>4, <1>5, <1>6, <1>7, <1>8, <1>9, <1>10, <1>11, <1>13,
            <1>14, <1>15
            DEF AccountNext

\* The invariant implies the safety of the account.
LEMMA AccountIndSafe == AccountInd => AccountSafe
<1> SUFFICES ASSUME AccountInd PROVE AccountSafe
  OBVIOUS
<1>1. /\ NumbersOK /\ ChallengeOK /\ CallsOK /\ LinksPayResets
      /\ NoTotpReplay /\ SpentCodesGone /\ CodesFromNewest
      /\ OldPasswordOnlyOvertaken /\ EnrolledCanAnswer /\ ResetOK
  BY DEF AccountInd, AccountCore
<1>2. password \in 1 .. (MaxLinks + 1)
  BY <1>1, LinksFinite, AccountConstants DEF NumbersOK, LinksPayResets
<1>3. AccountTypeOK
  BY <1>1, <1>2 DEF AccountTypeOK, NumbersOK, ChallengeOK, ChallengeTypes, CallsOK,
                      ResetOK
<1>4. RecoveryCodeOnce
  BY <1>1 DEF RecoveryCodeOnce, SpentCodesGone, CodesFromNewest
<1> QED  BY <1>1, <1>3, <1>4 DEF AccountSafe

\* However requests, resets and prunings of used codes interleave, each
\* authenticator code and each recovery code serves once, a session of a replaced
\* password belongs to a sign-in or a refresh that was under way, or to a CLI
\* sign-in, and an enrolled user has an authenticator unless a recovery promoted
\* the wrong row (mfa.ts, mfa-login.ts, recovery.ts, session-revoke.ts), for every number of requests, every acceptance window and every
\* retention of used codes that the configuration check admits.
THEOREM AccountAlwaysSafe == AccountSpec => []AccountSafe
<1>1. AccountSpec => []AccountInd
  <2>1. AccountInd /\ [AccountNext]_accountVars => AccountInd'
    BY AccountCorePreserved, ResetPreserved DEF AccountInd
  <2> QED  BY <2>1, AccountInitInd, PTL DEF AccountSpec
<1> QED  BY <1>1, AccountIndSafe, PTL
=============================================================================
