--------------------------- MODULE AlertingProofs ---------------------------
(***************************************************************************)
(* Proofs about NotificationDelivery (one row of the notification queue)   *)
(* and HealthCheck (a monitored endpoint and its alerts).  Each module     *)
(* gets one inductive invariant, a lemma that every step keeps it, and the *)
(* theorems that follow from it.                                           *)
(***************************************************************************)
EXTENDS NotificationDelivery, HealthCheck, FiniteSetTheorems, SequenceTheorems, TLAPS

-----------------------------------------------------------------------------
(* NotificationDelivery: the strengthening of DeliverySafe. *)

\* A handler between its mark and the result of its send.
Sender == {"sending", "resolved", "rejected"}

\* Only a digest row is sent by the digest.
DigestKind == digest # "idle" => kind = "digest"

\* No two handlers hold the same attempt.
ClaimsApart == \A v, w \in Workers : v # w /\ mine[v] = mine[w] => mine[v] = 0

\* An attempt that is held has been counted.
ClaimsCounted ==
  \A w \in Workers : mine[w] <= attempts /\ (pc[w] = "claimed" => mine[w] > 0)

\* A sender holds the newest attempt, and the row carries its mark.
SenderOwns ==
  \A w \in Workers : pc[w] \in Sender => started /\ mine[w] = attempts /\ attempts > 0

\* Once the message of an external row was accepted, the row is marked and no
\* handler that could send or release holds the newest attempt.
AcceptedSettled ==
  External /\ accepted > 0 =>
    /\ started /\ accepted = 1
    /\ \A w \in Workers :
         pc[w] \in {"claimed", "sending", "rejected", "failing"} => mine[w] # attempts

\* Whoever may record a delivery knows of an accepted message.
RecordsFollow ==
  /\ messageId => accepted > 0
  /\ digest = "sent" => accepted > 0
  /\ \A w \in Workers : pc[w] = "resolved" => accepted > 0

\* Each attempt makes at most one message, and the newest none before its send.
SendsCounted ==
  External =>
    /\ accepted + disowned <= attempts
    /\ \A w \in Workers : pc[w] \in {"claimed", "sending"} /\ mine[w] = attempts =>
          accepted + disowned < attempts

DeliveryCore ==
  /\ TypeOK /\ DigestKind /\ ClaimsApart /\ ClaimsCounted /\ SenderOwns
  /\ AcceptedSettled /\ RecordsFollow /\ RecordedMeansDone

DeliveryInd == DeliveryCore /\ SendsCounted

\* A status is only replaced by one of the same or a higher rank.
LEMMA AppliedForward ==
  ASSUME NEW s \in Statuses, status \in Statuses
  PROVE  Applied(s) \in {s, status} /\ Rank(Applied(s)) >= Rank(status)
<1>1. Rank(s) \in Nat /\ Rank(status) \in Nat
  BY DEF Rank, Statuses
<1> QED  BY <1>1 DEF Applied

\* The first state satisfies the invariant.
LEMMA DeliveryInitInd == Init => DeliveryInd
<1> SUFFICES ASSUME Init PROVE DeliveryInd
  OBVIOUS
<1>1. due \in BOOLEAN /\ started = FALSE /\ messageId = FALSE
  BY Zenon DEF Init
<1>2. started \in BOOLEAN /\ messageId \in BOOLEAN /\ graceOver \in BOOLEAN /\ aged \in BOOLEAN
      /\ dlq \in BOOLEAN
  BY Zenon DEF Init
<1>3. TypeOK
  BY <1>1, <1>2, DeliveryBounds DEF Init, TypeOK, Statuses
<1>4. DigestKind /\ ClaimsApart /\ ClaimsCounted /\ SenderOwns
  BY DEF Init, DigestKind, ClaimsApart, ClaimsCounted, SenderOwns, Sender
<1>5. AcceptedSettled /\ RecordsFollow /\ RecordedMeansDone /\ SendsCounted
  BY <1>1 DEF Init, AcceptedSettled, RecordsFollow, RecordedMeansDone, SendsCounted
<1> QED  BY <1>3, <1>4, <1>5 DEF DeliveryInd, DeliveryCore

\* Every step keeps the invariant of the row.
LEMMA DeliveryCorePreserved ==
  ASSUME DeliveryCore, [Next]_vars
  PROVE  DeliveryCore'
<1>1. /\ TypeOK /\ DigestKind /\ ClaimsApart /\ ClaimsCounted /\ SenderOwns
      /\ AcceptedSettled /\ RecordsFollow /\ RecordedMeansDone
  BY DEF DeliveryCore
<1>2. ASSUME NEW w \in Workers, TakeJob(w)
      PROVE  DeliveryCore'
  <2>1. TypeOK'
    BY <1>1, <1>2, DeliveryBounds
       DEF TakeJob, Goto, clock, outside, row, TypeOK, Statuses
  <2>2. ClaimsCounted'
    BY <1>1, <1>2, DeliveryBounds
       DEF TakeJob, Goto, clock, outside, row, ClaimsCounted, TypeOK, Statuses
  <2>3. SenderOwns'
    BY <1>1, <1>2, DeliveryBounds
       DEF TakeJob, Goto, clock, outside, row, SenderOwns, Sender, TypeOK, Statuses,
           ClaimsCounted, ClaimsApart
  <2>4. AcceptedSettled'
    BY <1>1, <1>2, DeliveryBounds
       DEF TakeJob, Goto, clock, outside, row, AcceptedSettled, External, TypeOK,
           Statuses, SenderOwns, Sender, ClaimsCounted, ClaimsApart
  <2>5. RecordsFollow'
    BY <1>1, <1>2, DeliveryBounds
       DEF TakeJob, Goto, clock, outside, row, RecordsFollow, TypeOK, Statuses,
           SenderOwns, Sender, ClaimsCounted, ClaimsApart
  <2>6. DigestKind' /\ ClaimsApart' /\ RecordedMeansDone'
    BY <1>1, <1>2
       DEF TakeJob, Goto, clock, outside, row, DigestKind, ClaimsApart,
           RecordedMeansDone
  <2> QED  BY <2>1, <2>2, <2>3, <2>4, <2>5, <2>6
              DEF DeliveryCore
<1>3. ASSUME NEW w \in Workers, SuppressUnrouted(w)
      PROVE  DeliveryCore'
  <2>1. TypeOK'
    <3>1. status' \in {status, "suppressed"} /\ status' \in Statuses
      <4>1. "suppressed" \in Statuses /\ status \in Statuses
        BY <1>1 DEF TypeOK, Statuses
      <4> QED  BY <1>3, <4>1, AppliedForward DEF SuppressUnrouted
    <3> QED  BY <1>1, <1>3, <3>1 DEF SuppressUnrouted, Goto, clock, outside, TypeOK
  <2>2. ClaimsCounted'
    BY <1>1, <1>3, DeliveryBounds
       DEF SuppressUnrouted, Goto, clock, outside, ClaimsCounted, TypeOK, Statuses
  <2>3. SenderOwns'
    BY <1>1, <1>3, DeliveryBounds
       DEF SuppressUnrouted, Goto, clock, outside, SenderOwns, Sender, TypeOK,
           Statuses, ClaimsCounted, ClaimsApart
  <2>4. AcceptedSettled'
    BY <1>1, <1>3, DeliveryBounds
       DEF SuppressUnrouted, Goto, clock, outside, AcceptedSettled, External, TypeOK,
           Statuses, SenderOwns, Sender, ClaimsCounted, ClaimsApart
  <2>5. RecordsFollow'
    BY <1>1, <1>3, DeliveryBounds
       DEF SuppressUnrouted, Goto, clock, outside, RecordsFollow, TypeOK, Statuses,
           SenderOwns, Sender, ClaimsCounted, ClaimsApart
  <2>6. RecordedMeansDone'
    <3>1. status' \in {status, "suppressed"} /\ status' \in Statuses
      <4>1. "suppressed" \in Statuses /\ status \in Statuses
        BY <1>1 DEF TypeOK, Statuses
      <4> QED  BY <1>3, <4>1, AppliedForward DEF SuppressUnrouted
    <3> QED  BY <1>1, <1>3, <3>1 DEF SuppressUnrouted, outside, RecordedMeansDone
  <2>7. DigestKind' /\ ClaimsApart'
    BY <1>1, <1>3 DEF SuppressUnrouted, Goto, clock, outside, DigestKind, ClaimsApart
  <2> QED  BY <2>1, <2>2, <2>3, <2>4, <2>5, <2>6, <2>7
              DEF DeliveryCore
<1>4. ASSUME NEW w \in Workers, Claim(w)
      PROVE  DeliveryCore'
  <2>1. TypeOK'
    <3>1. /\ attempts < MaxAttempts /\ attempts' = attempts + 1 /\ attempts \in 0 .. MaxAttempts
          /\ mine' = [mine EXCEPT ![w] = attempts + 1] /\ mine \in [Workers -> 0 .. MaxAttempts]
      BY <1>1, <1>4 DEF Claim, Claimable, TypeOK
    <3>2. attempts' \in 0 .. MaxAttempts /\ mine' \in [Workers -> 0 .. MaxAttempts]
      BY <3>1, DeliveryBounds
    <3>3. graceOver' \in BOOLEAN /\ lease' = "live"
      BY <1>4, Zenon DEF Claim
    <3> QED  BY <1>1, <1>4, <3>2, <3>3 DEF Claim, outside, Goto, TypeOK
  <2>2. ClaimsApart'
    <3>1. /\ attempts < MaxAttempts /\ attempts' = attempts + 1 /\ attempts \in 0 .. MaxAttempts
          /\ mine' = [mine EXCEPT ![w] = attempts + 1] /\ mine \in [Workers -> 0 .. MaxAttempts]
      BY <1>1, <1>4 DEF Claim, Claimable, TypeOK
    <3>2. attempts' \in 0 .. MaxAttempts /\ mine' \in [Workers -> 0 .. MaxAttempts]
      BY <3>1, DeliveryBounds
    <3>3. mine'[w] = attempts + 1 /\ \A v \in Workers \ {w} : mine'[v] = mine[v]
      BY <3>1
    <3>4. \A v \in Workers : mine[v] \in Nat /\ mine[v] < attempts + 1
      BY <1>1, <3>1, DeliveryBounds DEF ClaimsCounted
    <3>5. \A v \in Workers \ {w} : mine'[v] # mine'[w]
      BY <3>3, <3>4
    <3> QED  BY <1>1, <3>3, <3>5 DEF ClaimsApart
  <2>3. ClaimsCounted'
    BY <1>1, <1>4, DeliveryBounds
       DEF Claim, Claimable, outside, Goto, ClaimsCounted, TypeOK, Statuses
  <2>4. SenderOwns'
    BY <1>1, <1>4, DeliveryBounds
       DEF Claim, Claimable, outside, Goto, SenderOwns, Sender, TypeOK, Statuses,
           ClaimsCounted, ClaimsApart
  <2>5. AcceptedSettled'
    BY <1>1, <1>4, DeliveryBounds
       DEF Claim, Claimable, outside, Goto, AcceptedSettled, External, TypeOK,
           Statuses, SenderOwns, Sender, ClaimsCounted, ClaimsApart
  <2>6. RecordsFollow'
    BY <1>1, <1>4, DeliveryBounds
       DEF Claim, Claimable, outside, Goto, RecordsFollow, TypeOK, Statuses,
           SenderOwns, Sender, ClaimsCounted, ClaimsApart
  <2>7. DigestKind' /\ RecordedMeansDone'
    BY <1>1, <1>4 DEF Claim, Claimable, outside, Goto, DigestKind, RecordedMeansDone
  <2> QED  BY <2>1, <2>2, <2>3, <2>4, <2>5, <2>6, <2>7
              DEF DeliveryCore
<1>5. ASSUME NEW w \in Workers, ClaimLost(w)
      PROVE  DeliveryCore'
  <2>1. TypeOK'
    BY <1>1, <1>5, DeliveryBounds
       DEF ClaimLost, Claimable, Goto, clock, outside, row, TypeOK, Statuses
  <2>2. ClaimsCounted'
    BY <1>1, <1>5, DeliveryBounds
       DEF ClaimLost, Claimable, Goto, clock, outside, row, ClaimsCounted, TypeOK,
           Statuses
  <2>3. SenderOwns'
    BY <1>1, <1>5, DeliveryBounds
       DEF ClaimLost, Claimable, Goto, clock, outside, row, SenderOwns, Sender,
           TypeOK, Statuses, ClaimsCounted, ClaimsApart
  <2>4. AcceptedSettled'
    BY <1>1, <1>5, DeliveryBounds
       DEF ClaimLost, Claimable, Goto, clock, outside, row, AcceptedSettled, External,
           TypeOK, Statuses, SenderOwns, Sender, ClaimsCounted, ClaimsApart
  <2>5. RecordsFollow'
    BY <1>1, <1>5, DeliveryBounds
       DEF ClaimLost, Claimable, Goto, clock, outside, row, RecordsFollow, TypeOK,
           Statuses, SenderOwns, Sender, ClaimsCounted, ClaimsApart
  <2>6. DigestKind' /\ ClaimsApart' /\ RecordedMeansDone'
    BY <1>1, <1>5
       DEF ClaimLost, Claimable, Goto, clock, outside, row, DigestKind, ClaimsApart,
           RecordedMeansDone
  <2> QED  BY <2>1, <2>2, <2>3, <2>4, <2>5, <2>6
              DEF DeliveryCore
<1>6. ASSUME NEW w \in Workers, Suppress(w)
      PROVE  DeliveryCore'
  <2>1. TypeOK'
    <3>1. status' \in {status, "suppressed"} /\ status' \in Statuses
      <4>1. "suppressed" \in Statuses /\ status \in Statuses
        BY <1>1 DEF TypeOK, Statuses
      <4> QED  BY <1>6, <4>1, AppliedForward DEF Suppress
    <3> QED  BY <1>1, <1>6, <3>1 DEF Suppress, Goto, clock, outside, TypeOK
  <2>2. ClaimsCounted'
    BY <1>1, <1>6, DeliveryBounds
       DEF Suppress, Goto, clock, outside, ClaimsCounted, TypeOK, Statuses
  <2>3. SenderOwns'
    BY <1>1, <1>6, DeliveryBounds
       DEF Suppress, Goto, clock, outside, SenderOwns, Sender, TypeOK, Statuses,
           ClaimsCounted, ClaimsApart
  <2>4. AcceptedSettled'
    BY <1>1, <1>6, DeliveryBounds
       DEF Suppress, Goto, clock, outside, AcceptedSettled, External, TypeOK,
           Statuses, SenderOwns, Sender, ClaimsCounted, ClaimsApart
  <2>5. RecordsFollow'
    BY <1>1, <1>6, DeliveryBounds
       DEF Suppress, Goto, clock, outside, RecordsFollow, TypeOK, Statuses,
           SenderOwns, Sender, ClaimsCounted, ClaimsApart
  <2>6. RecordedMeansDone'
    <3>1. status' \in {status, "suppressed"} /\ status' \in Statuses
      <4>1. "suppressed" \in Statuses /\ status \in Statuses
        BY <1>1 DEF TypeOK, Statuses
      <4> QED  BY <1>6, <4>1, AppliedForward DEF Suppress
    <3> QED  BY <1>1, <1>6, <3>1 DEF Suppress, outside, RecordedMeansDone
  <2>7. DigestKind' /\ ClaimsApart'
    BY <1>1, <1>6 DEF Suppress, Goto, clock, outside, DigestKind, ClaimsApart
  <2> QED  BY <2>1, <2>2, <2>3, <2>4, <2>5, <2>6, <2>7
              DEF DeliveryCore
<1>7. ASSUME NEW w \in Workers, PrepareFails(w)
      PROVE  DeliveryCore'
  <2>1. TypeOK'
    BY <1>1, <1>7, DeliveryBounds
       DEF PrepareFails, Goto, clock, outside, row, TypeOK, Statuses
  <2>2. ClaimsCounted'
    BY <1>1, <1>7, DeliveryBounds
       DEF PrepareFails, Goto, clock, outside, row, ClaimsCounted, TypeOK, Statuses
  <2>3. SenderOwns'
    BY <1>1, <1>7, DeliveryBounds
       DEF PrepareFails, Goto, clock, outside, row, SenderOwns, Sender, TypeOK,
           Statuses, ClaimsCounted, ClaimsApart
  <2>4. AcceptedSettled'
    BY <1>1, <1>7, DeliveryBounds
       DEF PrepareFails, Goto, clock, outside, row, AcceptedSettled, External, TypeOK,
           Statuses, SenderOwns, Sender, ClaimsCounted, ClaimsApart
  <2>5. RecordsFollow'
    BY <1>1, <1>7, DeliveryBounds
       DEF PrepareFails, Goto, clock, outside, row, RecordsFollow, TypeOK, Statuses,
           SenderOwns, Sender, ClaimsCounted, ClaimsApart
  <2>6. DigestKind' /\ ClaimsApart' /\ RecordedMeansDone'
    BY <1>1, <1>7
       DEF PrepareFails, Goto, clock, outside, row, DigestKind, ClaimsApart,
           RecordedMeansDone
  <2> QED  BY <2>1, <2>2, <2>3, <2>4, <2>5, <2>6
              DEF DeliveryCore
<1>8. ASSUME NEW w \in Workers, MarkStarted(w)
      PROVE  DeliveryCore'
  <2>1. TypeOK'
    <3>1. started' \in BOOLEAN
      BY <1>1, <1>8, Zenon DEF MarkStarted, TypeOK
    <3>2. pc' \in [Workers -> {"idle", "read", "claimed", "sending", "resolved", "rejected",
                               "failing"}]
      BY <1>1, <1>8 DEF MarkStarted, Goto, TypeOK
    <3>3. /\ UNCHANGED <<kind, status, attempts, lease, messageId, jobs, mine, dlq, digest>>
          /\ UNCHANGED <<accepted, disowned, inboxRows, graceOver, due, aged>>
      BY <1>8 DEF MarkStarted, clock, outside
    <3> QED  BY <1>1, <3>1, <3>2, <3>3, Zenon DEF TypeOK
  <2>2. ClaimsCounted'
    BY <1>1, <1>8, DeliveryBounds
       DEF MarkStarted, Goto, Owned, clock, outside, ClaimsCounted, TypeOK, Statuses
  <2>3. SenderOwns'
    BY <1>1, <1>8, DeliveryBounds
       DEF MarkStarted, Goto, Owned, clock, outside, SenderOwns, Sender, TypeOK,
           Statuses, ClaimsCounted, ClaimsApart
  <2>4. AcceptedSettled'
    BY <1>1, <1>8, DeliveryBounds
       DEF MarkStarted, Goto, Owned, clock, outside, AcceptedSettled, External,
           TypeOK, Statuses, SenderOwns, Sender, ClaimsCounted, ClaimsApart
  <2>5. RecordsFollow'
    BY <1>1, <1>8, DeliveryBounds
       DEF MarkStarted, Goto, Owned, clock, outside, RecordsFollow, TypeOK, Statuses,
           SenderOwns, Sender, ClaimsCounted, ClaimsApart
  <2>6. DigestKind' /\ ClaimsApart' /\ RecordedMeansDone'
    BY <1>1, <1>8
       DEF MarkStarted, Goto, Owned, clock, outside, DigestKind, ClaimsApart,
           RecordedMeansDone
  <2> QED  BY <2>1, <2>2, <2>3, <2>4, <2>5, <2>6
              DEF DeliveryCore
<1>9. ASSUME NEW w \in Workers, SendResolves(w)
      PROVE  DeliveryCore'
  <2>1. TypeOK'
    BY <1>1, <1>9, DeliveryBounds
       DEF SendResolves, Goto, clock, outside, row, TypeOK, Statuses
  <2>2. ClaimsCounted'
    BY <1>1, <1>9, DeliveryBounds
       DEF SendResolves, Goto, clock, outside, row, ClaimsCounted, TypeOK, Statuses
  <2>3. SenderOwns'
    BY <1>1, <1>9, DeliveryBounds
       DEF SendResolves, Goto, clock, outside, row, SenderOwns, Sender, TypeOK,
           Statuses, ClaimsCounted, ClaimsApart
  <2>4. AcceptedSettled'
    BY <1>1, <1>9, DeliveryBounds
       DEF SendResolves, Goto, clock, outside, row, AcceptedSettled, External, TypeOK,
           Statuses, SenderOwns, Sender, ClaimsCounted, ClaimsApart
  <2>5. RecordsFollow'
    BY <1>1, <1>9, DeliveryBounds
       DEF SendResolves, Goto, clock, outside, row, RecordsFollow, TypeOK, Statuses,
           SenderOwns, Sender, ClaimsCounted, ClaimsApart
  <2>6. RecordedMeansDone'
    BY <1>1, <1>9, DeliveryBounds
       DEF SendResolves, Goto, clock, outside, row, RecordedMeansDone, TypeOK,
           Statuses
  <2>7. DigestKind' /\ ClaimsApart'
    BY <1>1, <1>9 DEF SendResolves, Goto, clock, outside, row, DigestKind, ClaimsApart
  <2> QED  BY <2>1, <2>2, <2>3, <2>4, <2>5, <2>6, <2>7
              DEF DeliveryCore
<1>10. ASSUME NEW w \in Workers, SendThrows(w)
      PROVE  DeliveryCore'
  <2>1. TypeOK'
    BY <1>1, <1>10, DeliveryBounds
       DEF SendThrows, Goto, clock, outside, row, TypeOK, Statuses
  <2>2. ClaimsCounted'
    BY <1>1, <1>10, DeliveryBounds
       DEF SendThrows, Goto, clock, outside, row, ClaimsCounted, TypeOK, Statuses
  <2>3. SenderOwns'
    BY <1>1, <1>10, DeliveryBounds
       DEF SendThrows, Goto, clock, outside, row, SenderOwns, Sender, TypeOK,
           Statuses, ClaimsCounted, ClaimsApart
  <2>4. AcceptedSettled'
    BY <1>1, <1>10, DeliveryBounds
       DEF SendThrows, Goto, clock, outside, row, AcceptedSettled, External, TypeOK,
           Statuses, SenderOwns, Sender, ClaimsCounted, ClaimsApart
  <2>5. RecordsFollow'
    BY <1>1, <1>10, DeliveryBounds
       DEF SendThrows, Goto, clock, outside, row, RecordsFollow, TypeOK, Statuses,
           SenderOwns, Sender, ClaimsCounted, ClaimsApart
  <2>6. DigestKind' /\ ClaimsApart' /\ RecordedMeansDone'
    BY <1>1, <1>10
       DEF SendThrows, Goto, clock, outside, row, DigestKind, ClaimsApart,
           RecordedMeansDone
  <2> QED  BY <2>1, <2>2, <2>3, <2>4, <2>5, <2>6
              DEF DeliveryCore
<1>11. ASSUME NEW w \in Workers, RecordPermanentFailure(w)
      PROVE  DeliveryCore'
  <2>1. TypeOK'
    <3>1. status' \in {status, "failed"} /\ status' \in Statuses
      <4>1. "failed" \in Statuses /\ status \in Statuses
        BY <1>1 DEF TypeOK, Statuses
      <4> QED  BY <1>11, <4>1, AppliedForward DEF RecordPermanentFailure
    <3> QED  BY <1>1, <1>11, <3>1 DEF RecordPermanentFailure, Goto, clock, outside, TypeOK
  <2>2. ClaimsCounted'
    BY <1>1, <1>11, DeliveryBounds
       DEF RecordPermanentFailure, Goto, clock, outside, ClaimsCounted, TypeOK,
           Statuses
  <2>3. SenderOwns'
    BY <1>1, <1>11, DeliveryBounds
       DEF RecordPermanentFailure, Goto, clock, outside, SenderOwns, Sender, TypeOK,
           Statuses, ClaimsCounted, ClaimsApart
  <2>4. AcceptedSettled'
    BY <1>1, <1>11, DeliveryBounds
       DEF RecordPermanentFailure, Goto, clock, outside, AcceptedSettled, External,
           TypeOK, Statuses, SenderOwns, Sender, ClaimsCounted, ClaimsApart
  <2>5. RecordsFollow'
    BY <1>1, <1>11, DeliveryBounds
       DEF RecordPermanentFailure, Goto, clock, outside, RecordsFollow, TypeOK,
           Statuses, SenderOwns, Sender, ClaimsCounted, ClaimsApart
  <2>6. RecordedMeansDone'
    <3>1. status' \in {status, "failed"} /\ status' \in Statuses
      <4>1. "failed" \in Statuses /\ status \in Statuses
        BY <1>1 DEF TypeOK, Statuses
      <4> QED  BY <1>11, <4>1, AppliedForward DEF RecordPermanentFailure
    <3> QED  BY <1>1, <1>11, <3>1 DEF RecordPermanentFailure, outside, RecordedMeansDone
  <2>7. DigestKind' /\ ClaimsApart'
    BY <1>1, <1>11
       DEF RecordPermanentFailure, Goto, clock, outside, DigestKind, ClaimsApart
  <2> QED  BY <2>1, <2>2, <2>3, <2>4, <2>5, <2>6, <2>7
              DEF DeliveryCore
<1>12. ASSUME NEW w \in Workers, RecordSend(w)
      PROVE  DeliveryCore'
  <2>1. TypeOK'
    <3>1. status' \in {status, "sent", "delivered"} /\ status' \in Statuses
      <4>1. "sent" \in Statuses /\ "delivered" \in Statuses /\ status \in Statuses
        BY <1>1 DEF TypeOK, Statuses
      <4> QED  BY <1>12, <4>1, AppliedForward DEF RecordSend
    <3>2. messageId' \in BOOLEAN
      BY <1>12, Zenon DEF RecordSend
    <3> QED  BY <1>1, <1>12, <3>1, <3>2 DEF RecordSend, Goto, clock, outside, TypeOK
  <2>2. ClaimsCounted'
    BY <1>1, <1>12, DeliveryBounds
       DEF RecordSend, Goto, clock, outside, ClaimsCounted, TypeOK, Statuses
  <2>3. SenderOwns'
    BY <1>1, <1>12, DeliveryBounds
       DEF RecordSend, Goto, clock, outside, SenderOwns, Sender, TypeOK, Statuses,
           ClaimsCounted, ClaimsApart
  <2>4. AcceptedSettled'
    BY <1>1, <1>12, DeliveryBounds
       DEF RecordSend, Goto, clock, outside, AcceptedSettled, External, TypeOK,
           Statuses, SenderOwns, Sender, ClaimsCounted, ClaimsApart
  <2>5. RecordsFollow'
    BY <1>1, <1>12, DeliveryBounds
       DEF RecordSend, Goto, clock, outside, RecordsFollow, TypeOK, Statuses,
           SenderOwns, Sender, ClaimsCounted, ClaimsApart
  <2>6. RecordedMeansDone'
    <3>1. accepted > 0 /\ accepted' = accepted
      BY <1>1, <1>12 DEF RecordSend, RecordsFollow, outside
    <3> QED  BY <3>1 DEF RecordedMeansDone
  <2>7. DigestKind' /\ ClaimsApart'
    BY <1>1, <1>12 DEF RecordSend, Goto, clock, outside, DigestKind, ClaimsApart
  <2> QED  BY <2>1, <2>2, <2>3, <2>4, <2>5, <2>6, <2>7
              DEF DeliveryCore
<1>13. ASSUME NEW w \in Workers, RecordFails(w)
      PROVE  DeliveryCore'
  <2>1. TypeOK'
    BY <1>1, <1>13, DeliveryBounds
       DEF RecordFails, Goto, Retried, clock, outside, row, TypeOK, Statuses
  <2>2. ClaimsCounted'
    BY <1>1, <1>13, DeliveryBounds
       DEF RecordFails, Goto, Retried, clock, outside, row, ClaimsCounted, TypeOK,
           Statuses
  <2>3. SenderOwns'
    BY <1>1, <1>13, DeliveryBounds
       DEF RecordFails, Goto, Retried, clock, outside, row, SenderOwns, Sender,
           TypeOK, Statuses, ClaimsCounted, ClaimsApart
  <2>4. AcceptedSettled'
    BY <1>1, <1>13, DeliveryBounds
       DEF RecordFails, Goto, Retried, clock, outside, row, AcceptedSettled, External,
           TypeOK, Statuses, SenderOwns, Sender, ClaimsCounted, ClaimsApart
  <2>5. RecordsFollow'
    BY <1>1, <1>13, DeliveryBounds
       DEF RecordFails, Goto, Retried, clock, outside, row, RecordsFollow, TypeOK,
           Statuses, SenderOwns, Sender, ClaimsCounted, ClaimsApart
  <2>6. DigestKind' /\ ClaimsApart' /\ RecordedMeansDone'
    BY <1>1, <1>13
       DEF RecordFails, Goto, Retried, clock, outside, row, DigestKind, ClaimsApart,
           RecordedMeansDone
  <2> QED  BY <2>1, <2>2, <2>3, <2>4, <2>5, <2>6
              DEF DeliveryCore
<1>14. ASSUME NEW w \in Workers, Release(w)
      PROVE  DeliveryCore'
  <2>1. TypeOK'
    <3>1. started' \in BOOLEAN
      <4>1. CASE started' = (started /\ ~Owned(w))
        BY <4>1, Zenon
      <4>2. CASE UNCHANGED started
        BY <1>1, <4>2 DEF TypeOK
      <4> QED  BY <1>14, <4>1, <4>2 DEF Release
    <3>2. lease' \in {lease, "none"} /\ jobs' \in 0 .. MaxJobs
      BY <1>1, <1>14, DeliveryBounds DEF Release, Retried, TypeOK
    <3> QED  BY <1>1, <1>14, <3>1, <3>2 DEF Release, Goto, clock, outside, TypeOK
  <2>2. ClaimsCounted'
    BY <1>1, <1>14, DeliveryBounds
       DEF Release, Goto, Owned, Retried, clock, outside, ClaimsCounted, TypeOK,
           Statuses
  <2>3. SenderOwns'
    BY <1>1, <1>14, DeliveryBounds
       DEF Release, Goto, Owned, Retried, clock, outside, SenderOwns, Sender, TypeOK,
           Statuses, ClaimsCounted, ClaimsApart
  <2>4. AcceptedSettled'
    BY <1>1, <1>14, DeliveryBounds
       DEF Release, Goto, Owned, Retried, clock, outside, AcceptedSettled, External,
           TypeOK, Statuses, SenderOwns, Sender, ClaimsCounted, ClaimsApart
  <2>5. RecordsFollow'
    BY <1>1, <1>14, DeliveryBounds
       DEF Release, Goto, Owned, Retried, clock, outside, RecordsFollow, TypeOK,
           Statuses, SenderOwns, Sender, ClaimsCounted, ClaimsApart
  <2>6. DigestKind' /\ ClaimsApart' /\ RecordedMeansDone'
    BY <1>1, <1>14
       DEF Release, Goto, Owned, Retried, clock, outside, DigestKind, ClaimsApart,
           RecordedMeansDone
  <2> QED  BY <2>1, <2>2, <2>3, <2>4, <2>5, <2>6
              DEF DeliveryCore
<1>15. ASSUME NEW w \in Workers, InboxWrite(w)
      PROVE  DeliveryCore'
  <2>1. TypeOK'
    BY <1>1, <1>15, DeliveryBounds
       DEF InboxWrite, Goto, clock, outside, TypeOK, Statuses
  <2>2. ClaimsCounted'
    BY <1>1, <1>15, DeliveryBounds
       DEF InboxWrite, Goto, clock, outside, ClaimsCounted, TypeOK, Statuses
  <2>3. SenderOwns'
    BY <1>1, <1>15, DeliveryBounds
       DEF InboxWrite, Goto, clock, outside, SenderOwns, Sender, TypeOK, Statuses,
           ClaimsCounted, ClaimsApart
  <2>4. AcceptedSettled'
    BY <1>1, <1>15, DeliveryBounds
       DEF InboxWrite, Goto, clock, outside, AcceptedSettled, External, TypeOK,
           Statuses, SenderOwns, Sender, ClaimsCounted, ClaimsApart
  <2>5. RecordsFollow'
    BY <1>1, <1>15, DeliveryBounds
       DEF InboxWrite, Goto, clock, outside, RecordsFollow, TypeOK, Statuses,
           SenderOwns, Sender, ClaimsCounted, ClaimsApart
  <2>6. RecordedMeansDone'
    BY <1>1, <1>15, DeliveryBounds
       DEF InboxWrite, Goto, clock, outside, RecordedMeansDone, TypeOK, Statuses
  <2>7. DigestKind' /\ ClaimsApart'
    BY <1>1, <1>15 DEF InboxWrite, Goto, clock, outside, DigestKind, ClaimsApart
  <2> QED  BY <2>1, <2>2, <2>3, <2>4, <2>5, <2>6, <2>7
              DEF DeliveryCore
<1>16. ASSUME NEW w \in Workers, Crash(w)
      PROVE  DeliveryCore'
  <2>1. TypeOK'
    BY <1>1, <1>16, DeliveryBounds
       DEF Crash, Goto, Retried, clock, outside, row, TypeOK, Statuses
  <2>2. ClaimsCounted'
    BY <1>1, <1>16, DeliveryBounds
       DEF Crash, Goto, Retried, clock, outside, row, ClaimsCounted, TypeOK, Statuses
  <2>3. SenderOwns'
    BY <1>1, <1>16, DeliveryBounds
       DEF Crash, Goto, Retried, clock, outside, row, SenderOwns, Sender, TypeOK,
           Statuses, ClaimsCounted, ClaimsApart
  <2>4. AcceptedSettled'
    BY <1>1, <1>16, DeliveryBounds
       DEF Crash, Goto, Retried, clock, outside, row, AcceptedSettled, External,
           TypeOK, Statuses, SenderOwns, Sender, ClaimsCounted, ClaimsApart
  <2>5. RecordsFollow'
    BY <1>1, <1>16, DeliveryBounds
       DEF Crash, Goto, Retried, clock, outside, row, RecordsFollow, TypeOK, Statuses,
           SenderOwns, Sender, ClaimsCounted, ClaimsApart
  <2>6. RecordedMeansDone'
    BY <1>1, <1>16, DeliveryBounds
       DEF Crash, Goto, Retried, clock, outside, row, RecordedMeansDone, TypeOK,
           Statuses
  <2>7. DigestKind' /\ ClaimsApart'
    BY <1>1, <1>16
       DEF Crash, Goto, Retried, clock, outside, row, DigestKind, ClaimsApart
  <2> QED  BY <2>1, <2>2, <2>3, <2>4, <2>5, <2>6, <2>7
              DEF DeliveryCore
<1>17. CASE Catchup
  <2>1. TypeOK'
    BY <1>1, <1>17, DeliveryBounds
       DEF Catchup, Claimable, clock, outside, row, TypeOK, Statuses
  <2>2. /\ DigestKind' /\ ClaimsApart' /\ ClaimsCounted' /\ SenderOwns'
        /\ AcceptedSettled' /\ RecordsFollow' /\ RecordedMeansDone'
    BY <1>1, <1>17
       DEF Catchup, Claimable, clock, outside, row, DigestKind, ClaimsApart,
           ClaimsCounted, SenderOwns, Sender, AcceptedSettled, External,
           RecordsFollow, RecordedMeansDone
  <2> QED  BY <2>1, <2>2
              DEF DeliveryCore
<1>18. CASE DlqSelect
  <2>1. TypeOK'
    BY <1>1, <1>18, DeliveryBounds
       DEF DlqSelect, Exhausted, OutcomeUnknown, clock, outside, row, TypeOK, Statuses
  <2>2. /\ DigestKind' /\ ClaimsApart' /\ ClaimsCounted' /\ SenderOwns'
        /\ AcceptedSettled' /\ RecordsFollow' /\ RecordedMeansDone'
    BY <1>1, <1>18
       DEF DlqSelect, Exhausted, OutcomeUnknown, clock, outside, row, DigestKind,
           ClaimsApart, ClaimsCounted, SenderOwns, Sender, AcceptedSettled,
           External, RecordsFollow, RecordedMeansDone
  <2> QED  BY <2>1, <2>2
              DEF DeliveryCore
<1>19. CASE DlqFail
  <2>1. TypeOK'
    <3>1. status' \in {status, "failed"} /\ status' \in Statuses
      <4>1. "failed" \in Statuses /\ status \in Statuses
        BY <1>1 DEF TypeOK, Statuses
      <4> QED  BY <1>19, <4>1, AppliedForward DEF DlqFail
    <3> QED  BY <1>1, <1>19, <3>1 DEF DlqFail, clock, outside, TypeOK
  <2>2. RecordedMeansDone'
    <3>1. status' \in {status, "failed"} /\ status' \in Statuses
      <4>1. "failed" \in Statuses /\ status \in Statuses
        BY <1>1 DEF TypeOK, Statuses
      <4> QED  BY <1>19, <4>1, AppliedForward DEF DlqFail
    <3> QED  BY <1>1, <1>19, <3>1 DEF DlqFail, outside, RecordedMeansDone
  <2>3. /\ DigestKind' /\ ClaimsApart' /\ ClaimsCounted' /\ SenderOwns'
        /\ AcceptedSettled' /\ RecordsFollow'
    BY <1>1, <1>19
       DEF DlqFail, clock, outside, DigestKind, ClaimsApart, ClaimsCounted,
           SenderOwns, Sender, AcceptedSettled, External, RecordsFollow
  <2> QED  BY <2>1, <2>2, <2>3
              DEF DeliveryCore
<1>20. CASE DigestRead
  <2>1. TypeOK'
    BY <1>1, <1>20, DeliveryBounds
       DEF DigestRead, clock, outside, row, TypeOK, Statuses
  <2>2. DigestKind'
    BY <1>1, <1>20, DeliveryBounds
       DEF DigestRead, clock, outside, row, DigestKind, TypeOK, Statuses
  <2>3. RecordsFollow'
    BY <1>1, <1>20, DeliveryBounds
       DEF DigestRead, clock, outside, row, RecordsFollow, TypeOK, Statuses,
           SenderOwns, Sender, ClaimsCounted, ClaimsApart
  <2>4. /\ ClaimsApart' /\ ClaimsCounted' /\ SenderOwns' /\ AcceptedSettled'
        /\ RecordedMeansDone'
    BY <1>1, <1>20
       DEF DigestRead, clock, outside, row, ClaimsApart, ClaimsCounted, SenderOwns,
           Sender, AcceptedSettled, External, RecordedMeansDone
  <2> QED  BY <2>1, <2>2, <2>3, <2>4
              DEF DeliveryCore
<1>21. CASE DigestSend
  <2>1. TypeOK'
    BY <1>1, <1>21, DeliveryBounds
       DEF DigestSend, clock, outside, row, TypeOK, Statuses
  <2>2. DigestKind'
    BY <1>1, <1>21, DeliveryBounds
       DEF DigestSend, clock, outside, row, DigestKind, TypeOK, Statuses
  <2>3. AcceptedSettled'
    <3>1. kind = "digest" /\ kind' = kind
      BY <1>1, <1>21 DEF DigestSend, DigestKind, row
    <3> QED  BY <3>1 DEF AcceptedSettled, External
  <2>4. RecordsFollow'
    BY <1>1, <1>21, DeliveryBounds
       DEF DigestSend, clock, outside, row, RecordsFollow, TypeOK, Statuses,
           SenderOwns, Sender, ClaimsCounted, ClaimsApart
  <2>5. RecordedMeansDone'
    BY <1>1, <1>21, DeliveryBounds
       DEF DigestSend, clock, outside, row, RecordedMeansDone, TypeOK, Statuses
  <2>6. ClaimsApart' /\ ClaimsCounted' /\ SenderOwns'
    BY <1>1, <1>21
       DEF DigestSend, clock, outside, row, ClaimsApart, ClaimsCounted, SenderOwns,
           Sender
  <2> QED  BY <2>1, <2>2, <2>3, <2>4, <2>5, <2>6
              DEF DeliveryCore
<1>22. CASE DigestCommit
  <2>1. TypeOK'
    BY <1>1, <1>22, DeliveryBounds DEF DigestCommit, clock, outside, TypeOK, Statuses
  <2>2. DigestKind'
    BY <1>1, <1>22, DeliveryBounds
       DEF DigestCommit, clock, outside, DigestKind, TypeOK, Statuses
  <2>3. RecordsFollow'
    BY <1>1, <1>22, DeliveryBounds
       DEF DigestCommit, clock, outside, RecordsFollow, TypeOK, Statuses, SenderOwns,
           Sender, ClaimsCounted, ClaimsApart
  <2>4. RecordedMeansDone'
    <3>1. status' \in {"sent", "delivered"} => status' = status \/ digest = "sent"
      BY <1>22 DEF DigestCommit
    <3> QED  BY <1>1, <1>22, <3>1 DEF DigestCommit, outside, RecordsFollow, RecordedMeansDone
  <2>5. ClaimsApart' /\ ClaimsCounted' /\ SenderOwns' /\ AcceptedSettled'
    BY <1>1, <1>22
       DEF DigestCommit, clock, outside, ClaimsApart, ClaimsCounted, SenderOwns,
           Sender, AcceptedSettled, External
  <2> QED  BY <2>1, <2>2, <2>3, <2>4, <2>5
              DEF DeliveryCore
<1>23. ASSUME NEW s \in Statuses \ {"pending"}, Webhook(s)
      PROVE  DeliveryCore'
  <2>1. TypeOK'
    <3>1. status' \in {status, s} /\ status' \in Statuses
      <4>1. s \in Statuses /\ status \in Statuses
        BY <1>1 DEF TypeOK, Statuses
      <4> QED  BY <1>23, <4>1, AppliedForward DEF Webhook
    <3> QED  BY <1>1, <1>23, <3>1 DEF Webhook, clock, outside, TypeOK
  <2>2. RecordedMeansDone'
    <3>1. accepted > 0 /\ accepted' = accepted
      BY <1>1, <1>23 DEF Webhook, RecordsFollow, outside
    <3> QED  BY <3>1 DEF RecordedMeansDone
  <2>3. /\ DigestKind' /\ ClaimsApart' /\ ClaimsCounted' /\ SenderOwns'
        /\ AcceptedSettled' /\ RecordsFollow'
    BY <1>1, <1>23
       DEF Webhook, clock, outside, DigestKind, ClaimsApart, ClaimsCounted,
           SenderOwns, Sender, AcceptedSettled, External, RecordsFollow
  <2> QED  BY <2>1, <2>2, <2>3
              DEF DeliveryCore
<1>24. CASE LeaseExpires
  <2>1. TypeOK'
    BY <1>1, <1>24, DeliveryBounds DEF LeaseExpires, clock, outside, TypeOK, Statuses
  <2>2. /\ DigestKind' /\ ClaimsApart' /\ ClaimsCounted' /\ SenderOwns'
        /\ AcceptedSettled' /\ RecordsFollow' /\ RecordedMeansDone'
    BY <1>1, <1>24
       DEF LeaseExpires, clock, outside, DigestKind, ClaimsApart, ClaimsCounted,
           SenderOwns, Sender, AcceptedSettled, External, RecordsFollow,
           RecordedMeansDone
  <2> QED  BY <2>1, <2>2
              DEF DeliveryCore
<1>25. CASE DeadLetterGraceEnds
  <2>1. TypeOK'
    BY <1>1, <1>25, DeliveryBounds
       DEF DeadLetterGraceEnds, outside, row, TypeOK, Statuses
  <2>2. /\ DigestKind' /\ ClaimsApart' /\ ClaimsCounted' /\ SenderOwns'
        /\ AcceptedSettled' /\ RecordsFollow' /\ RecordedMeansDone'
    BY <1>1, <1>25
       DEF DeadLetterGraceEnds, outside, row, DigestKind, ClaimsApart, ClaimsCounted,
           SenderOwns, Sender, AcceptedSettled, External, RecordsFollow,
           RecordedMeansDone
  <2> QED  BY <2>1, <2>2
              DEF DeliveryCore
<1>26. CASE BecomesDue
  <2>1. TypeOK'
    BY <1>1, <1>26, DeliveryBounds DEF BecomesDue, outside, row, TypeOK, Statuses
  <2>2. /\ DigestKind' /\ ClaimsApart' /\ ClaimsCounted' /\ SenderOwns'
        /\ AcceptedSettled' /\ RecordsFollow' /\ RecordedMeansDone'
    BY <1>1, <1>26
       DEF BecomesDue, outside, row, DigestKind, ClaimsApart, ClaimsCounted,
           SenderOwns, Sender, AcceptedSettled, External, RecordsFollow,
           RecordedMeansDone
  <2> QED  BY <2>1, <2>2
              DEF DeliveryCore
<1>27. CASE Ages
  <2>1. TypeOK'
    BY <1>1, <1>27, DeliveryBounds DEF Ages, outside, row, TypeOK, Statuses
  <2>2. /\ DigestKind' /\ ClaimsApart' /\ ClaimsCounted' /\ SenderOwns'
        /\ AcceptedSettled' /\ RecordsFollow' /\ RecordedMeansDone'
    BY <1>1, <1>27
       DEF Ages, outside, row, DigestKind, ClaimsApart, ClaimsCounted, SenderOwns,
           Sender, AcceptedSettled, External, RecordsFollow,
           RecordedMeansDone
  <2> QED  BY <2>1, <2>2
              DEF DeliveryCore
<1>28. CASE UNCHANGED vars
  BY <1>1, <1>28
     DEF vars, clock, outside, row, AcceptedSettled, ClaimsApart, ClaimsCounted,
         DeliveryCore, DigestKind, External, RecordedMeansDone, RecordsFollow,
         Sender, SenderOwns, Statuses, TypeOK
<1>29. CASE DlqThrows
  <2>1. TypeOK'
    BY <1>1, <1>29, DeliveryBounds
       DEF DlqThrows, clock, outside, row, TypeOK, Statuses
  <2>2. /\ DigestKind' /\ ClaimsApart' /\ ClaimsCounted' /\ SenderOwns'
        /\ AcceptedSettled' /\ RecordsFollow' /\ RecordedMeansDone'
    BY <1>1, <1>29
       DEF DlqThrows, clock, outside, row, DigestKind, ClaimsApart,
           ClaimsCounted, SenderOwns, Sender, AcceptedSettled, External,
           RecordsFollow, RecordedMeansDone
  <2> QED  BY <2>1, <2>2
              DEF DeliveryCore
<1> QED  BY <1>2, <1>3, <1>4, <1>5, <1>6, <1>7, <1>8, <1>9, <1>10, <1>11,
            <1>12, <1>13, <1>14, <1>15, <1>16, <1>17, <1>18, <1>19, <1>20,
            <1>21, <1>22, <1>23, <1>24, <1>25, <1>26, <1>27, <1>28, <1>29
            DEF Next, Worker, Time

\* No step makes a message beyond its attempt.
LEMMA SendsCountedPreserved ==
  ASSUME DeliveryCore, SendsCounted, [Next]_vars
  PROVE  SendsCounted'
<1>1. /\ TypeOK /\ DigestKind /\ ClaimsApart /\ ClaimsCounted /\ SenderOwns
  BY DEF DeliveryCore
<1>2. /\ attempts \in Nat /\ accepted \in Nat /\ disowned \in Nat
      /\ \A w \in Workers : mine[w] \in Nat
  BY <1>1, DeliveryBounds DEF TypeOK
<1>3. CASE /\ UNCHANGED <<kind, attempts, mine, accepted, disowned>>
           /\ \A w \in Workers : pc'[w] \in {"claimed", "sending"} =>
                                   pc[w] \in {"claimed", "sending"}
  BY <1>3 DEF SendsCounted, External
<1>4. ASSUME NEW w \in Workers, Claim(w) PROVE SendsCounted'
  <2>1. /\ attempts' = attempts + 1 /\ mine' = [mine EXCEPT ![w] = attempts + 1]
        /\ UNCHANGED <<kind, accepted, disowned>>
    BY <1>4 DEF Claim, outside
  <2>2. External => accepted + disowned < attempts + 1
    BY <1>2 DEF SendsCounted
  <2> QED  BY <1>2, <2>1, <2>2 DEF SendsCounted, External
<1>5. ASSUME NEW w \in Workers, SendResolves(w) \/ SendThrows(w) \/ Crash(w)
      PROVE  SendsCounted'
  <2>1. /\ UNCHANGED <<kind, attempts, mine>>
        /\ \A v \in Workers \ {w} : pc'[v] = pc[v]
        /\ pc'[w] \notin {"claimed", "sending"}
    BY <1>1, <1>5 DEF SendResolves, SendThrows, Crash, Goto, row, TypeOK
  <2>2. CASE UNCHANGED <<accepted, disowned>>
    <3>1. \A v \in Workers : pc'[v] \in {"claimed", "sending"} =>
                              pc[v] \in {"claimed", "sending"}
      BY <2>1
    <3> QED  BY <1>3, <2>1, <2>2, <3>1
  <2>3. CASE pc[w] = "sending" /\ accepted' + disowned' = accepted + disowned + 1
    <3>1. mine[w] = attempts /\ attempts > 0
      BY <1>1, <2>3 DEF SenderOwns, Sender
    <3>2. \A v \in Workers \ {w} : mine[v] # attempts
      BY <1>1, <1>2, <3>1 DEF ClaimsApart
    <3>3. External => accepted + disowned < attempts
      BY <2>3, <3>1 DEF SendsCounted
    <3> QED  BY <1>2, <2>1, <2>3, <3>2, <3>3 DEF SendsCounted, External
  <2> QED  BY <1>2, <1>5, <2>2, <2>3 DEF SendResolves, SendThrows, Crash
<1>6. ASSUME NEW w \in Workers, Worker(w) PROVE SendsCounted'
  <2>1. CASE \/ TakeJob(w) \/ SuppressUnrouted(w) \/ ClaimLost(w) \/ Suppress(w)
             \/ PrepareFails(w) \/ RecordPermanentFailure(w) \/ RecordSend(w)
             \/ RecordFails(w) \/ Release(w) \/ InboxWrite(w)
    <3>1. UNCHANGED <<kind, attempts, mine, accepted, disowned>>
      BY <2>1 DEF TakeJob, SuppressUnrouted, ClaimLost, Suppress, PrepareFails,
         RecordPermanentFailure, RecordSend, RecordFails, Release, InboxWrite, row, outside
    <3>2. /\ \A v \in Workers \ {w} : pc'[v] = pc[v]
          /\ pc'[w] \notin {"claimed", "sending"}
      BY <1>1, <2>1 DEF TakeJob, SuppressUnrouted, ClaimLost, Suppress, PrepareFails,
         RecordPermanentFailure, RecordSend, RecordFails, Release, InboxWrite, Goto, TypeOK
    <3>3. \A v \in Workers : pc'[v] \in {"claimed", "sending"} =>
                              pc[v] \in {"claimed", "sending"}
      BY <3>2
    <3> QED  BY <1>3, <3>1, <3>3
  <2>2. CASE MarkStarted(w)
    <3>1. UNCHANGED <<kind, attempts, mine, accepted, disowned>>
      BY <2>2 DEF MarkStarted, outside
    <3>2. \A v \in Workers : pc'[v] \in {"claimed", "sending"} =>
                              pc[v] \in {"claimed", "sending"}
      BY <1>1, <2>2 DEF MarkStarted, Goto, TypeOK
    <3> QED  BY <1>3, <3>1, <3>2
  <2> QED  BY <1>4, <1>5, <1>6, <2>1, <2>2 DEF Worker
<1>7. CASE DigestSend
  BY <1>1, <1>7 DEF DigestSend, DigestKind, SendsCounted, External, row
<1>8. CASE \/ Catchup \/ DlqSelect \/ DlqFail \/ DlqThrows \/ DigestRead \/ DigestCommit
           \/ Time \/ UNCHANGED vars
  <2>1. UNCHANGED <<kind, attempts, mine, accepted, disowned, pc>>
    BY <1>8 DEF Catchup, DlqSelect, DlqFail, DlqThrows, DigestRead, DigestCommit, Time,
       LeaseExpires, DeadLetterGraceEnds, BecomesDue, Ages, vars, row, outside
  <2> QED  BY <1>3, <2>1
<1>9. ASSUME NEW s \in Statuses, Webhook(s) PROVE SendsCounted'
  BY <1>3, <1>9 DEF Webhook, outside
<1> QED  BY <1>5, <1>6, <1>7, <1>8, <1>9 DEF Next

\* Every step keeps the whole invariant.
LEMMA DeliveryPreserved ==
  ASSUME DeliveryInd, [Next]_vars
  PROVE  DeliveryInd'
BY DeliveryCorePreserved, SendsCountedPreserved DEF DeliveryInd

\* A step never lowers the rank of the status of an external row.
LEMMA DeliveryStep ==
  ASSUME DeliveryInd, [Next]_vars, External
  PROVE  Rank(status') >= Rank(status)
<1>1. TypeOK /\ DigestKind /\ Rank(status) \in Nat
  BY DEF DeliveryInd, DeliveryCore, TypeOK, Rank, Statuses
<1>2. CASE UNCHANGED status
  BY <1>1, <1>2
<1>3. ASSUME NEW s \in Statuses, status' = Applied(s)
      PROVE  Rank(status') >= Rank(status)
  BY <1>1, <1>3, AppliedForward DEF TypeOK
<1>4. ASSUME NEW w \in Workers, Worker(w)
      PROVE  UNCHANGED status \/ \E s \in Statuses : status' = Applied(s)
  <2>1. CASE TakeJob(w) \/ Claim(w) \/ ClaimLost(w) \/ PrepareFails(w) \/ MarkStarted(w)
             \/ SendResolves(w) \/ SendThrows(w) \/ RecordFails(w) \/ Release(w)
    BY <2>1 DEF TakeJob, Claim, ClaimLost, PrepareFails, MarkStarted, SendResolves, SendThrows,
       RecordFails, Release, row
  <2>2. CASE SuppressUnrouted(w) \/ Suppress(w) \/ RecordPermanentFailure(w) \/ RecordSend(w)
    <3>1. "suppressed" \in Statuses /\ "failed" \in Statuses
          /\ "sent" \in Statuses /\ "delivered" \in Statuses
      BY DEF Statuses
    <3>2. CASE RecordSend(w)
      BY <3>1, <3>2 DEF RecordSend
    <3> QED  BY <2>2, <3>1, <3>2 DEF SuppressUnrouted, Suppress, RecordPermanentFailure
  <2>3. CASE InboxWrite(w)
    BY <2>3 DEF InboxWrite, External
  <2> QED  BY <1>4, <2>1, <2>2, <2>3 DEF Worker
<1>5. ASSUME NEW w \in Workers, Crash(w) PROVE UNCHANGED status
  BY <1>5 DEF Crash, row
<1>6. CASE Catchup \/ DlqSelect \/ DlqThrows \/ DigestRead \/ DigestSend \/ Time
  BY <1>2, <1>6 DEF Catchup, DlqSelect, DlqThrows, DigestRead, DigestSend, Time, LeaseExpires,
     DeadLetterGraceEnds, BecomesDue, Ages, row
<1>7. CASE DlqFail
  BY <1>3, <1>7 DEF DlqFail, Statuses
<1>8. CASE DigestCommit
  BY <1>1, <1>8 DEF DigestCommit, DigestKind, External
<1>9. ASSUME NEW s \in Statuses \ {"pending"}, Webhook(s)
      PROVE  Rank(status') >= Rank(status)
  BY <1>3, <1>9 DEF Webhook
<1>10. CASE UNCHANGED vars
  BY <1>2, <1>10 DEF vars, row
<1> QED  BY <1>2, <1>3, <1>4, <1>5, <1>6, <1>7, <1>8, <1>9, <1>10 DEF Next

\* The senders of an external row are at most one.
LEMMA OneSenderCounted == DeliveryInd => OneSender
<1> SUFFICES ASSUME DeliveryInd, External PROVE OneSender
  BY DEF OneSender
<1> DEFINE S == {w \in Workers : pc[w] \in {"sending", "resolved", "rejected"}}
<1>1. \A v, w \in S : v = w
  BY DEF DeliveryInd, DeliveryCore, SenderOwns, Sender, ClaimsApart, TypeOK
<1>2. CASE S = {}
  BY <1>2, FS_EmptySet DEF OneSender
<1>3. CASE S # {}
  <2>1. PICK w \in S : S = {w}
    BY <1>1, <1>3
  <2>2. Cardinality({w}) = 1
    BY FS_Singleton
  <2> QED  BY <2>1, <2>2 DEF OneSender
<1> QED  BY <1>2, <1>3

\* Whatever leases lapse, handlers crash or commits fail, at most one message of
\* an external row is accepted by a send that did not throw, nobody sends after
\* it, and a copy more needs a send that threw after its acceptance and an attempt
\* of its own; there is one sender at a time, such a send keeps its mark, and a
\* recorded delivery took place (notification-claim.ts,
\* notification-queue-ops.ts), for any number of handlers, attempts and jobs.
THEOREM DeliveryAlwaysSafe == Spec => []DeliverySafe
<1>1. Spec => []DeliveryInd
  BY DeliveryInitInd, DeliveryPreserved, PTL DEF Spec
<1>2. DeliveryInd => DeliverySafe
  <2> SUFFICES ASSUME DeliveryInd PROVE DeliverySafe
    OBVIOUS
  <2>1. TypeOK /\ AcceptedSettled /\ RecordedMeansDone /\ SenderOwns /\ SendsCounted
    BY DEF DeliveryInd, DeliveryCore
  <2>2. SentOnce /\ AcceptedStaysMarked
    BY <2>1 DEF SentOnce, AcceptedStaysMarked, AcceptedSettled, SenderOwns, Sender, SendsCounted,
       TypeOK
  <2> QED  BY <2>1, <2>2, OneSenderCounted DEF DeliverySafe
<1> QED  BY <1>1, <1>2, PTL

\* The status of an external row only moves forward, however late a result, the
\* cleanup or a webhook comes (applyDeliveryStatusUpdate).
THEOREM RankOnlyForward == Spec => RankForward
<1>1. DeliveryInd /\ [Next]_vars => [External => Rank(status') >= Rank(status)]_vars
  BY DeliveryStep
<1>2. Spec => []DeliveryInd
  BY DeliveryInitInd, DeliveryPreserved, PTL DEF Spec
<1> QED  BY <1>1, <1>2, PTL DEF Spec, RankForward

-----------------------------------------------------------------------------
(* HealthCheck: the strengthening of HealthSafe. *)

\* The states of the endpoint's row, of a tick and of a member's request.
EndpointRows == [exists : BOOLEAN, health : {"healthy", "degraded", "down"},
                 failures : 0 .. MaxThreshold, episode : 0 .. MaxAlerts]
TickStates ==
  {AtRest}
    \cup [at : {"probing"}, row : EndpointRows, limit : 1 .. MaxThreshold]
    \cup [at : {"writing"}, row : EndpointRows, limit : 1 .. MaxThreshold, healthy : BOOLEAN]
MemberStates ==
  {AtRest}
    \cup [at : {"deleting"}, seen : SUBSET (1 .. MaxAlerts), queued : SUBSET (1 .. MaxAlerts)]
    \cup [at : {"snoozing"}, alert : 1 .. MaxAlerts]

\* The variables of HealthCheck have these types.
EndpointOK == endpoint \in EndpointRows
SettingsOK == paused \in BOOLEAN /\ raised \in BOOLEAN /\ threshold \in 1 .. MaxThreshold
TicksOK == ticks \in [Ticks -> TickStates]
MembersOK == members \in [Members -> MemberStates]
AlertsOK == alerts \in Seq(AlertType) /\ Len(alerts) <= MaxAlerts
MarksOK ==
  /\ unsent \subseteq DOMAIN alerts /\ missed \subseteq DOMAIN alerts
  /\ reopened \subseteq DOMAIN alerts

\* Episodes are numbered without gaps: neither the row nor an alert names one
\* that has not begun, and each has at least one alert.
EpisodesOK ==
  /\ episodes \in Nat /\ episodes <= Len(alerts) /\ endpoint.episode <= episodes
  /\ \A a \in DOMAIN alerts : alerts[a].episode <= episodes

\* The advisory lock keeps ticks apart, so that the row a tick has read is the
\* row it overwrites.
OneTick == \A t, u \in Ticks : ticks[t] # AtRest /\ ticks[u] # AtRest => t = u
RowKept ==
  \A t \in Ticks : ticks[t] # AtRest =>
    /\ ticks[t].row.health = endpoint.health /\ ticks[t].row.failures = endpoint.failures
    /\ ticks[t].row.episode = endpoint.episode

\* Unless the threshold was raised, an endpoint that is down has failed often
\* enough for the threshold in force and for the one a tick has read.
StaysDown ==
  ~raised =>
    /\ endpoint.health = "down" => endpoint.failures >= threshold
    /\ \A t \in Ticks : ticks[t] # AtRest =>
         /\ ticks[t].limit >= threshold
         /\ endpoint.health = "down" => endpoint.failures >= ticks[t].limit

\* Unless the threshold was raised, the number of alerts tells whether the
\* endpoint is down and which episode it is in.
TurnsCounted ==
  ~raised =>
    \/ /\ Len(alerts) % 2 = 0 /\ 2 * episodes = Len(alerts)
       /\ endpoint.health # "down" /\ endpoint.episode = 0
    \/ /\ Len(alerts) % 2 = 1 /\ 2 * episodes = Len(alerts) + 1
       /\ endpoint.health = "down" /\ endpoint.episode = episodes

\* DownIsAnnounced, for a row that is deleted as well.
DownAnnounced ==
  endpoint.health = "down" =>
    /\ \E a \in DOMAIN alerts : alerts[a].type = "down" /\ alerts[a].episode = endpoint.episode
    /\ \A a \in DOMAIN alerts : alerts[a].type = "recovery" => alerts[a].episode # endpoint.episode

\* A deletion under way has listed all there is to close, but what was opened
\* since; the alert that is being snoozed exists.
RequestsOK ==
  \A m \in Members :
    /\ members[m].at = "deleting" =>
         /\ \A a \in DOMAIN alerts : Open(a) => a \in members[m].seen \cup missed \cup reopened
         /\ unsent \subseteq members[m].queued \cup missed
    /\ members[m].at = "snoozing" => members[m].alert \in DOMAIN alerts

HealthInd ==
  /\ EndpointOK /\ SettingsOK /\ TicksOK /\ MembersOK /\ AlertsOK /\ MarksOK
  /\ EpisodesOK /\ OneTick /\ RowKept /\ StaysDown /\ TurnsCounted /\ AlertsTakeTurns
  /\ DownAnnounced /\ RequestsOK /\ DeletedLeavesOnlyMissed

\* The fields of a tick and of a member's request.
LEMMA HealthFields ==
  /\ AtRest \in TickStates /\ AtRest \in MemberStates /\ AtRest.at = "idle"
  /\ \A x \in TickStates :
       /\ x.at \in {"idle", "probing", "writing"} /\ (x.at = "idle" <=> x = AtRest)
       /\ x # AtRest => x.row \in EndpointRows /\ x.limit \in 1 .. MaxThreshold
       /\ x.at = "writing" => x.healthy \in BOOLEAN
  /\ \A x \in MemberStates :
       /\ x.at \in {"idle", "deleting", "snoozing"}
       /\ x.at = "snoozing" => x.alert \in 1 .. MaxAlerts
<1>1. AtRest \in TickStates /\ AtRest \in MemberStates /\ AtRest.at = "idle"
  BY DEF TickStates, MemberStates, AtRest
<1>2. ASSUME NEW x \in TickStates
      PROVE  /\ x.at \in {"idle", "probing", "writing"} /\ (x.at = "idle" <=> x = AtRest)
             /\ x # AtRest => x.row \in EndpointRows /\ x.limit \in 1 .. MaxThreshold
             /\ x.at = "writing" => x.healthy \in BOOLEAN
  <2>1. CASE x = AtRest
    BY <1>1, <2>1
  <2>2. CASE x \in [at : {"probing"}, row : EndpointRows, limit : 1 .. MaxThreshold]
    BY <1>1, <2>2
  <2>3. CASE x \in [at : {"writing"}, row : EndpointRows, limit : 1 .. MaxThreshold, healthy : BOOLEAN]
    BY <1>1, <2>3
  <2> QED  BY <2>1, <2>2, <2>3 DEF TickStates
<1>3. ASSUME NEW x \in MemberStates
      PROVE  /\ x.at \in {"idle", "deleting", "snoozing"}
             /\ x.at = "snoozing" => x.alert \in 1 .. MaxAlerts
  <2>1. CASE x = AtRest
    BY <1>1, <2>1
  <2>2. CASE x \in [at : {"deleting"}, seen : SUBSET (1 .. MaxAlerts), queued : SUBSET (1 .. MaxAlerts)]
    BY <2>2
  <2>3. CASE x \in [at : {"snoozing"}, alert : 1 .. MaxAlerts]
    BY <2>3
  <2> QED  BY <2>1, <2>2, <2>3 DEF MemberStates
<1> QED  BY <1>1, <1>2, <1>3

\* The states of ticks and requests that the actions make.
LEMMA HealthMade ==
  /\ \A r \in EndpointRows, n \in 1 .. MaxThreshold :
       [at |-> "probing", row |-> r, limit |-> n] \in TickStates
  /\ \A r \in EndpointRows, n \in 1 .. MaxThreshold, b \in BOOLEAN :
       [at |-> "writing", row |-> r, limit |-> n, healthy |-> b] \in TickStates
  /\ \A S, Q \in SUBSET (1 .. MaxAlerts) :
       [at |-> "deleting", seen |-> S, queued |-> Q] \in MemberStates
  /\ \A a \in 1 .. MaxAlerts : [at |-> "snoozing", alert |-> a] \in MemberStates
<1>1. \A r \in EndpointRows, n \in 1 .. MaxThreshold :
       [at |-> "probing", row |-> r, limit |-> n] \in TickStates
  BY DEF TickStates
<1>2. \A r \in EndpointRows, n \in 1 .. MaxThreshold, b \in BOOLEAN :
       [at |-> "writing", row |-> r, limit |-> n, healthy |-> b] \in TickStates
  BY DEF TickStates
<1>3. \A S, Q \in SUBSET (1 .. MaxAlerts) :
       [at |-> "deleting", seen |-> S, queued |-> Q] \in MemberStates
  BY DEF MemberStates
<1>4. \A a \in 1 .. MaxAlerts : [at |-> "snoozing", alert |-> a] \in MemberStates
  BY DEF MemberStates
<1> QED  BY <1>1, <1>2, <1>3, <1>4

\* Alerts are numbered from one.
LEMMA AlertsNumbered ==
  ASSUME AlertsOK
  PROVE  /\ Len(alerts) \in Nat /\ DOMAIN alerts = 1 .. Len(alerts)
         /\ \A a \in DOMAIN alerts : alerts[a] \in AlertType /\ a \in 1 .. MaxAlerts
BY HealthConstants DEF AlertsOK

\* What an alert that is inserted adds to the others.
LEMMA AlertAppended ==
  ASSUME AlertsOK, NEW x \in AlertType, alerts' = Append(alerts, x)
  PROVE  /\ alerts' \in Seq(AlertType) /\ Len(alerts') = Len(alerts) + 1
         /\ DOMAIN alerts' = DOMAIN alerts \cup {Len(alerts) + 1}
         /\ Len(alerts) + 1 \notin DOMAIN alerts
         /\ alerts'[Len(alerts) + 1] = x
         /\ \A a \in DOMAIN alerts : alerts'[a] = alerts[a]
<1>1. alerts \in Seq(AlertType) /\ Len(alerts) \in Nat
  BY DEF AlertsOK
<1>2. alerts' \in Seq(AlertType) /\ Len(alerts') = Len(alerts) + 1
  BY <1>1
<1>3. DOMAIN alerts' = 1 .. (Len(alerts) + 1) /\ DOMAIN alerts = 1 .. Len(alerts)
  BY <1>1, <1>2
<1>4. DOMAIN alerts' = DOMAIN alerts \cup {Len(alerts) + 1} /\ Len(alerts) + 1 \notin DOMAIN alerts
  BY <1>1, <1>3
<1>5. alerts'[Len(alerts) + 1] = x /\ \A a \in DOMAIN alerts : alerts'[a] = alerts[a]
  BY <1>1, <1>3
<1> QED  BY <1>2, <1>4, <1>5

\* The alerts tell the same story: only statuses change.
SameStory ==
  /\ DOMAIN alerts' = DOMAIN alerts /\ Len(alerts') = Len(alerts)
  /\ \A a \in DOMAIN alerts :
       alerts'[a].type = alerts[a].type /\ alerts'[a].episode = alerts[a].episode

\* The alerts of S are closed, and none is opened.
Closed(S) == \A a \in DOMAIN alerts : Open(a)' => a \notin S /\ Open(a)

\* Closing or snoozing alerts leaves the story as it is.
LEMMA StatusChanged ==
  ASSUME AlertsOK, NEW S, NEW s \in {"snoozed", "dismissed", "resolved_by_deletion"},
         alerts' = [a \in DOMAIN alerts |->
                      IF a \in S THEN [alerts[a] EXCEPT !.status = s] ELSE alerts[a]]
  PROVE  /\ AlertsOK' /\ SameStory
         /\ s # "snoozed" => Closed(S)
         /\ \A a \in DOMAIN alerts : a \notin S => alerts'[a] = alerts[a]
<1>1. Len(alerts) \in Nat /\ DOMAIN alerts = 1 .. Len(alerts)
  BY AlertsNumbered
<1>2. ASSUME NEW a \in DOMAIN alerts
      PROVE  /\ alerts'[a] \in AlertType
             /\ alerts'[a].type = alerts[a].type /\ alerts'[a].episode = alerts[a].episode
             /\ a \in S => alerts'[a].status = s
             /\ a \notin S => alerts'[a] = alerts[a]
  <2>1. alerts[a] \in AlertType
    BY AlertsNumbered
  <2>2. CASE a \in S
    <3>1. alerts'[a] = [alerts[a] EXCEPT !.status = s]
      BY <2>2
    <3> QED  BY <2>1, <3>1 DEF AlertType
  <2>3. CASE a \notin S
    BY <2>1, <2>3
  <2> QED  BY <2>2, <2>3
<1>3. DOMAIN alerts' = 1 .. Len(alerts)
  BY <1>1
<1>4. alerts' \in [1 .. Len(alerts) -> AlertType]
  BY <1>1, <1>2
<1>5. alerts' \in Seq(AlertType) /\ Len(alerts') = Len(alerts)
  BY <1>1, <1>3, <1>4
<1>6. s # "snoozed" => Closed(S)
  BY <1>2 DEF Closed, Open
<1> QED  BY <1>1, <1>2, <1>3, <1>5, <1>6 DEF AlertsOK, SameStory

\* What one check makes of a row.
LEMMA CheckOutcome ==
  ASSUME NEW r \in EndpointRows, NEW limit \in 1 .. MaxThreshold, NEW healthy \in BOOLEAN
  PROVE  LET n == NextFailures(r, healthy)
             h == NextHealth(r, limit, healthy)
             f == AlertFired(r, limit, healthy)
         IN  /\ n \in 0 .. MaxThreshold /\ h \in {"healthy", "degraded", "down"}
             /\ h = "down" => n >= limit
             /\ r.health = "down" /\ r.failures >= limit => h \in {"down", "healthy"}
             /\ f \in {"none", "down", "recovery"}
             /\ f = "down" <=> r.health # "down" /\ h = "down"
             /\ f = "recovery" <=> r.health = "down" /\ h = "healthy"
<1> DEFINE n == NextFailures(r, healthy)
           h == NextHealth(r, limit, healthy)
           f == AlertFired(r, limit, healthy)
<1>1. r.failures \in 0 .. MaxThreshold /\ MaxThreshold \in Nat /\ limit \in Nat /\ limit >= 1
      /\ limit <= MaxThreshold
  BY HealthConstants DEF EndpointRows
<1>2. n \in 0 .. MaxThreshold /\ (r.failures >= limit => n = 0 \/ n >= limit)
  BY <1>1 DEF NextFailures
<1>3. h = IF n = 0 THEN "healthy" ELSE IF n >= limit THEN "down" ELSE "degraded"
  BY DEF NextHealth, StatusFor
<1>4. f = IF r.health # "down" /\ h = "down" THEN "down"
          ELSE IF r.health = "down" /\ h = "healthy" THEN "recovery" ELSE "none"
  BY <1>3 DEF AlertFired
<1> HIDE DEF n, h, f
<1>5. /\ h \in {"healthy", "degraded", "down"} /\ (h = "down" => n >= limit)
      /\ r.health = "down" /\ r.failures >= limit => h \in {"down", "healthy"}
  BY <1>1, <1>2, <1>3
<1>6. /\ f \in {"none", "down", "recovery"}
      /\ f = "down" <=> r.health # "down" /\ h = "down"
      /\ f = "recovery" <=> r.health = "down" /\ h = "healthy"
  BY <1>4
<1> QED  BY <1>2, <1>5, <1>6 DEF n, h, f

\* What the write of a tick does: it fires nothing, announces an outage in a new
\* episode, or announces the recovery from the one under way.
Inserted(type, key) ==
  /\ Len(alerts) < MaxAlerts
  /\ alerts' = Append(alerts, [type |-> type, episode |-> key, status |-> "active"])
  /\ unsent' = unsent \cup {Len(alerts) + 1}
  /\ missed' = IF Deleting THEN missed \cup {Len(alerts) + 1} ELSE missed
FiresNothing ==
  /\ UNCHANGED <<alerts, unsent, episodes, missed>>
  /\ endpoint'.episode = endpoint.episode
  /\ endpoint'.health = "down" => endpoint.health = "down"
  /\ ~raised /\ endpoint.health = "down" => endpoint'.health = "down"
FiresDown ==
  /\ Inserted("down", episodes + 1) /\ episodes' = episodes + 1
  /\ endpoint.health # "down" /\ endpoint'.health = "down"
  /\ endpoint'.episode = episodes + 1
FiresRecovery ==
  /\ Inserted("recovery", endpoint.episode) /\ UNCHANGED episodes
  /\ endpoint.health = "down" /\ endpoint'.health # "down"
  /\ endpoint'.episode = 0 /\ endpoint.episode > 0

\* The write of a tick has one of these three effects.
LEMMA ApplyEffect ==
  ASSUME HealthInd, NEW t \in Ticks, ApplyHealthCheckResult(t)
  PROVE  /\ endpoint.exists /\ endpoint' \in EndpointRows /\ endpoint'.exists = TRUE
         /\ endpoint'.health = "down" => endpoint'.failures >= ticks[t].limit
         /\ ticks[t] # AtRest /\ ticks' = [ticks EXCEPT ![t] = AtRest]
         /\ UNCHANGED <<paused, threshold, members, raised>>
         /\ FiresNothing \/ FiresDown \/ FiresRecovery
<1> DEFINE r == ticks[t].row
           n == NextFailures(r, ticks[t].healthy)
           h == NextHealth(r, ticks[t].limit, ticks[t].healthy)
           f == AlertFired(r, ticks[t].limit, ticks[t].healthy)
           key == EpisodeKey(r, f)
           e == CASE f = "down" -> key [] f = "recovery" -> NoEpisode [] OTHER -> r.episode
<1>1. /\ EndpointOK /\ TicksOK /\ AlertsOK /\ EpisodesOK /\ RowKept /\ StaysDown /\ DownAnnounced
  BY DEF HealthInd
<1>2. /\ endpoint.exists /\ ticks[t].at = "writing"
      /\ endpoint' = [exists |-> TRUE, health |-> h, failures |-> n, episode |-> e]
      /\ ticks' = [ticks EXCEPT ![t] = AtRest]
      /\ UNCHANGED <<paused, threshold, members, raised>>
  BY DEF ApplyHealthCheckResult
<1>3. \/ (f = "none" \/ Deduped(f, key)) /\ UNCHANGED <<alerts, unsent, episodes, missed>>
      \/ /\ f # "none" /\ ~Deduped(f, key)
         /\ Len(alerts) + 1 <= MaxAlerts
         /\ alerts' = Append(alerts, [type |-> f, episode |-> key, status |-> "active"])
         /\ unsent' = unsent \cup {Len(alerts) + 1}
         /\ episodes' = IF key > episodes THEN key ELSE episodes
         /\ missed' = IF Deleting THEN missed \cup {Len(alerts) + 1} ELSE missed
  BY DEF ApplyHealthCheckResult
<1>4. /\ ticks[t] # AtRest /\ r \in EndpointRows /\ ticks[t].limit \in 1 .. MaxThreshold
      /\ ticks[t].healthy \in BOOLEAN
  BY <1>1, <1>2, HealthFields DEF TicksOK
<1>5. /\ r.health = endpoint.health /\ r.failures = endpoint.failures
      /\ r.episode = endpoint.episode
  BY <1>1, <1>4 DEF RowKept
<1>6. /\ n \in 0 .. MaxThreshold /\ h \in {"healthy", "degraded", "down"}
      /\ h = "down" => n >= ticks[t].limit
      /\ r.health = "down" /\ r.failures >= ticks[t].limit => h \in {"down", "healthy"}
      /\ f \in {"none", "down", "recovery"}
      /\ f = "down" <=> r.health # "down" /\ h = "down"
      /\ f = "recovery" <=> r.health = "down" /\ h = "healthy"
  BY <1>4, CheckOutcome
<1>7. key = IF f = "down" \/ r.episode = 0 THEN episodes + 1 ELSE r.episode
  BY DEF EpisodeKey, NoEpisode
<1>8. e = IF f = "down" THEN key ELSE IF f = "recovery" THEN 0 ELSE r.episode
  BY <1>6 DEF NoEpisode
<1>9. /\ episodes \in Nat /\ endpoint.episode \in 0 .. MaxAlerts /\ endpoint.episode <= episodes
      /\ Len(alerts) \in Nat /\ episodes <= Len(alerts) /\ MaxAlerts \in Nat /\ Len(alerts) <= MaxAlerts
  BY <1>1, HealthConstants DEF EpisodesOK, EndpointOK, EndpointRows, AlertsOK
<1>10. Deduped(f, key) => f = "down" /\ \E a \in DOMAIN alerts : alerts[a].episode = key
  BY DEF Deduped
<1> HIDE DEF r, n, h, f, key, e
<1>11. ~Deduped(f, key)
  <2>1. \A a \in DOMAIN alerts : alerts[a].episode <= episodes
    BY <1>1 DEF EpisodesOK
  <2> QED  BY <1>7, <1>9, <1>10, <2>1
<1>12. /\ endpoint'.exists = TRUE /\ endpoint'.health = h /\ endpoint'.failures = n
       /\ endpoint'.episode = e
  BY <1>2
<1>13. f = "none" => FiresNothing
  <2>1. ~raised /\ endpoint.health = "down" => r.failures >= ticks[t].limit
    BY <1>1, <1>4, <1>5 DEF StaysDown
  <2> QED  BY <1>3, <1>5, <1>6, <1>8, <1>11, <1>12, <2>1 DEF FiresNothing
<1>14. f = "down" => FiresDown
  <2> SUFFICES ASSUME f = "down" PROVE FiresDown
    OBVIOUS
  <2>1. key = episodes + 1 /\ e = episodes + 1 /\ Len(alerts) < MaxAlerts /\ episodes' = episodes + 1
    BY <1>3, <1>7, <1>8, <1>9, <1>11
  <2> QED  BY <1>3, <1>5, <1>6, <1>11, <1>12, <2>1 DEF FiresDown, Inserted
<1>15. f = "recovery" => FiresRecovery
  <2> SUFFICES ASSUME f = "recovery" PROVE FiresRecovery
    OBVIOUS
  <2>1. endpoint.health = "down" /\ h = "healthy"
    BY <1>5, <1>6
  <2>2. endpoint.episode > 0
    <3>1. PICK a \in DOMAIN alerts : alerts[a].episode = endpoint.episode
      BY <1>1, <2>1 DEF DownAnnounced
    <3> QED  BY <1>1, <3>1, AlertsNumbered, HealthConstants DEF AlertType
  <2>3. key = endpoint.episode /\ e = 0 /\ Len(alerts) < MaxAlerts /\ episodes' = episodes
    BY <1>3, <1>5, <1>7, <1>8, <1>9, <1>11, <2>2
  <2> QED  BY <1>3, <1>11, <1>12, <2>1, <2>2, <2>3 DEF FiresRecovery, Inserted
<1>16. endpoint' \in EndpointRows
  <2>1. e \in 0 .. MaxAlerts
    BY <1>3, <1>5, <1>6, <1>7, <1>8, <1>9, <1>11
  <2> QED  BY <1>2, <1>6, <2>1 DEF EndpointRows
<1> QED  BY <1>2, <1>4, <1>6, <1>12, <1>13, <1>14, <1>15, <1>16

\* The first state satisfies the invariant.
LEMMA HealthInitInd == HealthInit => HealthInd
<1> SUFFICES ASSUME HealthInit PROVE HealthInd
  OBVIOUS
<1>1. /\ endpoint = [exists |-> TRUE, health |-> "healthy", failures |-> 0, episode |-> 0]
      /\ alerts = <<>> /\ unsent = {} /\ missed = {} /\ reopened = {} /\ episodes = 0
      /\ \A t \in Ticks : ticks[t] = AtRest
      /\ \A m \in Members : members[m].at = "idle"
  BY HealthFields DEF HealthInit, NoEpisode
<1>2. EndpointOK
  BY <1>1, HealthConstants DEF EndpointOK, EndpointRows
<1>3. SettingsOK
  <2>1. paused \in BOOLEAN /\ raised \in BOOLEAN
    BY Zenon DEF HealthInit
  <2> QED  BY <2>1 DEF HealthInit, SettingsOK
<1>4. TicksOK /\ MembersOK
  BY HealthFields DEF HealthInit, TicksOK, MembersOK
<1>5. alerts \in Seq(AlertType) /\ Len(alerts) = 0 /\ DOMAIN alerts = {}
  BY <1>1
<1>6. AlertsOK /\ MarksOK /\ EpisodesOK
  BY <1>1, <1>5, HealthConstants DEF AlertsOK, MarksOK, EpisodesOK
<1>7. OneTick /\ RowKept /\ StaysDown
  BY <1>1 DEF OneTick, RowKept, StaysDown
<1>8. TurnsCounted /\ AlertsTakeTurns /\ DownAnnounced
  BY <1>1, <1>5 DEF TurnsCounted, AlertsTakeTurns, DownAnnounced
<1>9. RequestsOK /\ DeletedLeavesOnlyMissed
  BY <1>1 DEF RequestsOK, DeletedLeavesOnlyMissed
<1> QED  BY <1>2, <1>3, <1>4, <1>6, <1>7, <1>8, <1>9 DEF HealthInd

\* The alerts after one was inserted.
Added(type, key) ==
  /\ alerts' \in Seq(AlertType) /\ Len(alerts') = Len(alerts) + 1 /\ Len(alerts') <= MaxAlerts
  /\ DOMAIN alerts' = DOMAIN alerts \cup {Len(alerts) + 1} /\ Len(alerts) + 1 \notin DOMAIN alerts
  /\ alerts'[Len(alerts) + 1].type = type /\ alerts'[Len(alerts) + 1].episode = key
  /\ \A a \in DOMAIN alerts : alerts'[a] = alerts[a]

\* An alert that is inserted is the last one.
LEMMA InsertedAdds ==
  ASSUME AlertsOK, NEW type \in {"down", "recovery"}, NEW key \in 1 .. MaxAlerts,
         Inserted(type, key)
  PROVE  Added(type, key)
<1> DEFINE x == [type |-> type, episode |-> key, status |-> "active"]
<1>1. x \in AlertType /\ x.type = type /\ x.episode = key
  BY DEF AlertType
<1>2. alerts' = Append(alerts, x) /\ Len(alerts) < MaxAlerts /\ Len(alerts) \in Nat
  BY DEF Inserted, AlertsOK
<1> HIDE DEF x
<1>3. /\ alerts' \in Seq(AlertType) /\ Len(alerts') = Len(alerts) + 1
      /\ DOMAIN alerts' = DOMAIN alerts \cup {Len(alerts) + 1}
      /\ Len(alerts) + 1 \notin DOMAIN alerts
      /\ alerts'[Len(alerts) + 1] = x
      /\ \A a \in DOMAIN alerts : alerts'[a] = alerts[a]
  BY <1>1, <1>2, AlertAppended
<1>4. Len(alerts') <= MaxAlerts
  BY <1>2, <1>3, HealthConstants
<1> QED  BY <1>1, <1>3, <1>4 DEF Added

\* Every step keeps the invariant of the endpoint.
LEMMA HealthPreserved ==
  ASSUME HealthInd, [HealthNext]_healthVars
  PROVE  HealthInd'
<1>1. /\ EndpointOK /\ SettingsOK /\ TicksOK /\ MembersOK /\ AlertsOK
      /\ MarksOK /\ EpisodesOK /\ OneTick /\ RowKept /\ StaysDown
      /\ TurnsCounted /\ AlertsTakeTurns /\ DownAnnounced /\ RequestsOK
      /\ DeletedLeavesOnlyMissed
  BY DEF HealthInd
<1>2. ASSUME NEW t \in Ticks, TickStart(t)
      PROVE  HealthInd'
  <2>1. TicksOK'
    <3>1. [at |-> "probing", row |-> endpoint, limit |-> threshold] \in TickStates
      BY <1>1, HealthMade DEF EndpointOK, SettingsOK
    <3> QED  BY <1>1, <1>2, <3>1 DEF TickStart, TicksOK
  <2>2. OneTick'
    BY <1>1, <1>2, HealthConstants, HealthFields
       DEF TickStart, LockFree, OneTick, TicksOK, MembersOK
  <2>3. RowKept'
    BY <1>1, <1>2, HealthConstants, HealthFields
       DEF TickStart, LockFree, RowKept, TicksOK, MembersOK
  <2>4. StaysDown'
    <3>1. /\ ticks' = [ticks EXCEPT ![t] = [at |-> "probing", row |-> endpoint, limit |-> threshold]]
          /\ UNCHANGED <<endpoint, threshold, raised>>
      BY <1>2 DEF TickStart
    <3>2. ticks'[t].limit = threshold /\ \A u \in Ticks \ {t} : ticks'[u] = ticks[u]
      BY <1>1, <3>1 DEF TicksOK
    <3>3. threshold \in Nat
      BY <1>1, HealthConstants DEF SettingsOK
    <3> QED  BY <1>1, <3>1, <3>2, <3>3 DEF StaysDown
  <2>5. /\ EndpointOK' /\ SettingsOK' /\ MembersOK' /\ AlertsOK' /\ MarksOK'
        /\ EpisodesOK' /\ TurnsCounted' /\ AlertsTakeTurns'
        /\ DownAnnounced' /\ RequestsOK' /\ DeletedLeavesOnlyMissed'
    BY <1>1, <1>2
       DEF late, Open, TickStart, LockFree, EndpointOK, SettingsOK, MembersOK, AlertsOK,
           MarksOK, EpisodesOK, TurnsCounted, AlertsTakeTurns, DownAnnounced,
           RequestsOK, DeletedLeavesOnlyMissed
  <2> QED  BY <2>1, <2>2, <2>3, <2>4, <2>5
              DEF HealthInd
<1>3. ASSUME NEW t \in Ticks, ApplyHealthCheckResult(t)
      PROVE  HealthInd'
  <2>1. /\ endpoint.exists /\ endpoint' \in EndpointRows /\ endpoint'.exists = TRUE
        /\ endpoint'.health = "down" => endpoint'.failures >= ticks[t].limit
        /\ ticks[t] # AtRest /\ ticks' = [ticks EXCEPT ![t] = AtRest]
        /\ UNCHANGED <<paused, threshold, members, raised>>
        /\ FiresNothing \/ FiresDown \/ FiresRecovery
    BY <1>3, ApplyEffect
  <2>2. \A u \in Ticks : ticks'[u] = AtRest
    BY <1>1, <2>1 DEF TicksOK, OneTick
  <2>3. /\ episodes \in Nat /\ Len(alerts) \in Nat /\ MaxAlerts \in Nat
        /\ endpoint.episode \in 0 .. MaxAlerts /\ DOMAIN alerts = 1 .. Len(alerts)
        /\ endpoint'.episode \in Nat /\ endpoint.episode <= episodes
        /\ episodes <= Len(alerts) /\ Len(alerts) <= MaxAlerts
        /\ \A a \in DOMAIN alerts : alerts[a].episode \in Nat /\ alerts[a].episode <= episodes
    BY <1>1, <2>1, AlertsNumbered, HealthConstants
       DEF EpisodesOK, EndpointOK, EndpointRows, AlertsOK, AlertType
  <2>4. FiresDown => Added("down", episodes + 1)
    <3>1. FiresDown => episodes + 1 \in 1 .. MaxAlerts
      BY <2>3 DEF FiresDown, Inserted
    <3> QED  BY <1>1, <3>1, InsertedAdds DEF FiresDown
  <2>5. FiresRecovery => Added("recovery", endpoint.episode)
    <3>1. FiresRecovery => endpoint.episode \in 1 .. MaxAlerts
      BY <2>3 DEF FiresRecovery
    <3> QED  BY <1>1, <3>1, InsertedAdds DEF FiresRecovery
  <2>6. EndpointOK'
    BY <2>1 DEF EndpointOK
  <2>7. SettingsOK'
    BY <1>1, <2>1 DEF SettingsOK
  <2>8. TicksOK'
    BY <1>1, <2>1, HealthFields DEF TicksOK
  <2>9. MembersOK'
    BY <1>1, <2>1 DEF MembersOK
  <2>10. AlertsOK'
    BY <1>1, <2>1, <2>4, <2>5 DEF AlertsOK, FiresNothing, Added
  <2>11. MarksOK'
    <3> reopened' = reopened
      BY <1>3 DEF ApplyHealthCheckResult
    <3>1. CASE FiresNothing
      BY <1>1, <3>1 DEF FiresNothing, MarksOK
    <3>2. CASE FiresDown
      BY <1>1, <2>4, <3>2 DEF FiresDown, Inserted, Added, MarksOK
    <3>3. CASE FiresRecovery
      BY <1>1, <2>5, <3>3 DEF FiresRecovery, Inserted, Added, MarksOK
    <3> QED  BY <2>1, <3>1, <3>2, <3>3
  <2>12. EpisodesOK'
    <3>1. CASE FiresNothing
      BY <1>1, <3>1 DEF FiresNothing, EpisodesOK
    <3>2. CASE FiresDown
      <4>1. /\ episodes' = episodes + 1 /\ Len(alerts') = Len(alerts) + 1
            /\ endpoint'.episode = episodes + 1
        BY <2>4, <3>2 DEF FiresDown, Added
      <4>2. ASSUME NEW a \in DOMAIN alerts' PROVE alerts'[a].episode <= episodes + 1
        <5>1. CASE a \in DOMAIN alerts
          BY <2>3, <2>4, <3>2, <5>1 DEF Added
        <5>2. CASE a = Len(alerts) + 1
          BY <2>3, <2>4, <3>2, <5>2 DEF Added
        <5>3. DOMAIN alerts' = DOMAIN alerts \cup {Len(alerts) + 1}
          BY <2>4, <3>2, Zenon DEF Added
        <5>4. a \in DOMAIN alerts \/ a = Len(alerts) + 1
          BY <5>3, Zenon
        <5> QED  BY <5>1, <5>2, <5>4
      <4> QED  BY <2>3, <4>1, <4>2 DEF EpisodesOK
    <3>3. CASE FiresRecovery
      <4>1. /\ episodes' = episodes /\ Len(alerts') = Len(alerts) + 1 /\ endpoint'.episode = 0
        BY <2>5, <3>3 DEF FiresRecovery, Added
      <4>2. ASSUME NEW a \in DOMAIN alerts' PROVE alerts'[a].episode <= episodes
        <5>1. CASE a \in DOMAIN alerts
          BY <2>3, <2>5, <3>3, <5>1 DEF Added
        <5>2. CASE a = Len(alerts) + 1
          BY <2>3, <2>5, <3>3, <5>2 DEF Added
        <5>3. DOMAIN alerts' = DOMAIN alerts \cup {Len(alerts) + 1}
          BY <2>5, <3>3, Zenon DEF Added
        <5>4. a \in DOMAIN alerts \/ a = Len(alerts) + 1
          BY <5>3, Zenon
        <5> QED  BY <5>1, <5>2, <5>4
      <4> QED  BY <2>3, <4>1, <4>2 DEF EpisodesOK
    <3> QED  BY <2>1, <3>1, <3>2, <3>3
  <2>13. OneTick'
    BY <2>2 DEF OneTick
  <2>14. RowKept'
    BY <2>2 DEF RowKept
  <2>15. StaysDown'
    <3>1. ~raised => ticks[t].limit >= threshold
      BY <1>1, <2>1 DEF StaysDown
    <3>2. ticks[t].limit \in Nat /\ threshold \in Nat /\ endpoint'.failures \in Nat
      BY <1>1, <2>1, HealthFields, HealthConstants DEF TicksOK, SettingsOK, EndpointRows
    <3>3. ~raised /\ endpoint'.health = "down" => endpoint'.failures >= threshold
      BY <2>1, <3>1, <3>2
    <3> QED  BY <2>1, <2>2, <3>3 DEF StaysDown
  <2>16. TurnsCounted'
    <3> SUFFICES ASSUME ~raised PROVE TurnsCounted'
      BY <2>1 DEF TurnsCounted
    <3>1. CASE FiresNothing
      BY <1>1, <3>1 DEF FiresNothing, TurnsCounted
    <3>2. CASE FiresDown
      <4>1. endpoint.health # "down" /\ endpoint'.health = "down" /\ episodes' = episodes + 1
            /\ endpoint'.episode = episodes + 1 /\ Len(alerts') = Len(alerts) + 1
        BY <2>4, <3>2 DEF FiresDown, Added
      <4>2. Len(alerts) % 2 = 0 /\ 2 * episodes = Len(alerts)
        BY <1>1, <4>1 DEF TurnsCounted
      <4>3. (Len(alerts) + 1) % 2 = 1 /\ 2 * (episodes + 1) = Len(alerts) + 2
        BY <2>3, <4>2
      <4> QED  BY <2>3, <4>1, <4>3 DEF TurnsCounted
    <3>3. CASE FiresRecovery
      <4>1. endpoint.health = "down" /\ endpoint'.health # "down" /\ episodes' = episodes
            /\ endpoint'.episode = 0 /\ Len(alerts') = Len(alerts) + 1
        BY <2>5, <3>3 DEF FiresRecovery, Added
      <4>2. Len(alerts) % 2 = 1 /\ 2 * episodes = Len(alerts) + 1
        BY <1>1, <4>1 DEF TurnsCounted
      <4>3. (Len(alerts) + 1) % 2 = 0
        BY <2>3, <4>2
      <4> QED  BY <4>1, <4>2, <4>3 DEF TurnsCounted
    <3> QED  BY <2>1, <3>1, <3>2, <3>3
  <2>17. AlertsTakeTurns'
    <3> SUFFICES ASSUME ~raised, NEW a \in DOMAIN alerts'
                 PROVE  IF a % 2 = 1
                        THEN alerts'[a].type = "down" /\ alerts'[a].episode = (a + 1) \div 2
                        ELSE alerts'[a].type = "recovery" /\ alerts'[a].episode = alerts'[a - 1].episode
      BY <2>1 DEF AlertsTakeTurns
    <3>1. ASSUME a \in DOMAIN alerts, alerts'[a] = alerts[a],
                 a % 2 # 1 => alerts'[a - 1] = alerts[a - 1]
          PROVE  IF a % 2 = 1
                 THEN alerts'[a].type = "down" /\ alerts'[a].episode = (a + 1) \div 2
                 ELSE alerts'[a].type = "recovery" /\ alerts'[a].episode = alerts'[a - 1].episode
      BY <1>1, <3>1 DEF AlertsTakeTurns
    <3>2. a \in DOMAIN alerts /\ a % 2 # 1 => a - 1 \in DOMAIN alerts
      BY <2>3
    <3>3. CASE FiresNothing
      BY <1>1, <3>1, <3>3 DEF FiresNothing
    <3>4. CASE FiresDown
      <4>1. CASE a \in DOMAIN alerts
        BY <2>4, <3>1, <3>2, <3>4, <4>1 DEF Added
      <4>2. CASE a = Len(alerts) + 1
        <5>1. Len(alerts) % 2 = 0 /\ 2 * episodes = Len(alerts)
          BY <1>1, <3>4 DEF TurnsCounted, FiresDown
        <5>2. a % 2 = 1 /\ (a + 1) \div 2 = episodes + 1
          <6>1. a = 2 * episodes + 1 /\ episodes \in Nat
            BY <1>1, <2>3, <4>2, <5>1 DEF EpisodesOK
          <6>2. \A k \in Nat : (2 * k + 1) % 2 = 1 /\ ((2 * k + 1) + 1) \div 2 = k + 1
            OBVIOUS
          <6> QED  BY <6>1, <6>2
        <5> QED  BY <2>4, <3>4, <4>2, <5>2 DEF Added
      <4> QED  BY <2>4, <3>4, <4>1, <4>2 DEF Added
    <3>5. CASE FiresRecovery
      <4>1. CASE a \in DOMAIN alerts
        BY <2>5, <3>1, <3>2, <3>5, <4>1 DEF Added
      <4>2. CASE a = Len(alerts) + 1
        <5>1. Len(alerts) % 2 = 1 /\ 2 * episodes = Len(alerts) + 1 /\ endpoint.episode = episodes
          BY <1>1, <3>5 DEF TurnsCounted, FiresRecovery
        <5>2. a % 2 # 1 /\ a - 1 = Len(alerts) /\ Len(alerts) \in DOMAIN alerts
          BY <2>3, <4>2, <5>1
        <5>3. alerts[Len(alerts)].episode = (Len(alerts) + 1) \div 2
          BY <1>1, <5>1, <5>2 DEF AlertsTakeTurns
        <5>4. (Len(alerts) + 1) \div 2 = episodes
          BY <2>3, <5>1
        <5>5. alerts'[a - 1].episode = episodes
          BY <2>5, <3>5, <5>2, <5>3, <5>4 DEF Added
        <5> QED  BY <2>5, <3>5, <4>2, <5>1, <5>2, <5>5 DEF Added
      <4> QED  BY <2>5, <3>5, <4>1, <4>2 DEF Added
    <3> QED  BY <2>1, <3>3, <3>4, <3>5
  <2>18. DownAnnounced'
    <3>1. CASE FiresNothing
      BY <1>1, <3>1 DEF FiresNothing, DownAnnounced
    <3>2. CASE FiresDown
      <4>1. endpoint'.episode = episodes + 1
        BY <3>2 DEF FiresDown
      <4>2. \E a \in DOMAIN alerts' : alerts'[a].type = "down" /\ alerts'[a].episode = episodes + 1
        BY <2>4, <3>2 DEF Added
      <4>3. ASSUME NEW a \in DOMAIN alerts', alerts'[a].type = "recovery"
            PROVE  alerts'[a].episode # episodes + 1
        <5>1. a \in DOMAIN alerts /\ alerts'[a] = alerts[a]
          BY <2>4, <3>2, <4>3 DEF Added
        <5> QED  BY <2>3, <5>1
      <4> QED  BY <4>1, <4>2, <4>3 DEF DownAnnounced
    <3>3. CASE FiresRecovery
      BY <3>3 DEF FiresRecovery, DownAnnounced
    <3> QED  BY <2>1, <3>1, <3>2, <3>3
  <2>19. RequestsOK'
    <3> SUFFICES ASSUME NEW m \in Members, members[m].at = "deleting"
                 PROVE  /\ \A a \in DOMAIN alerts' :
                             Open(a)' => a \in members[m].seen \cup missed' \cup reopened
                        /\ unsent' \subseteq members[m].queued \cup missed'
      <4>1. \A m \in Members : members[m].at = "snoozing" => members[m].alert \in DOMAIN alerts'
        BY <1>1, <2>1, <2>4, <2>5 DEF RequestsOK, FiresNothing, Added
      <4> QED  BY <1>3, <2>1, <4>1 DEF RequestsOK, ApplyHealthCheckResult
    <3>1. /\ \A a \in DOMAIN alerts : Open(a) => a \in members[m].seen \cup missed \cup reopened
          /\ unsent \subseteq members[m].queued \cup missed
      BY <1>1 DEF RequestsOK
    <3>2. Deleting
      BY DEF Deleting
    <3>3. CASE FiresNothing
      BY <3>1, <3>3 DEF FiresNothing, Open
    <3>4. CASE FiresDown
      BY <2>4, <3>1, <3>2, <3>4 DEF FiresDown, Inserted, Added, Open
    <3>5. CASE FiresRecovery
      BY <2>5, <3>1, <3>2, <3>5 DEF FiresRecovery, Inserted, Added, Open
    <3> QED  BY <2>1, <3>3, <3>4, <3>5
  <2>20. DeletedLeavesOnlyMissed'
    BY <2>1 DEF DeletedLeavesOnlyMissed
  <2> QED  BY <2>6, <2>7, <2>8, <2>9, <2>10, <2>11, <2>12, <2>13, <2>14,
              <2>15, <2>16, <2>17, <2>18, <2>19, <2>20
              DEF HealthInd
<1>4. ASSUME NEW t \in Ticks, RowFails(t)
      PROVE  HealthInd'
  <2>1. TicksOK'
    BY <1>1, <1>4, HealthConstants, HealthFields
       DEF RowFails, TicksOK, MembersOK
  <2>2. OneTick'
    BY <1>1, <1>4, HealthConstants, HealthFields
       DEF RowFails, OneTick, TicksOK, MembersOK
  <2>3. RowKept'
    BY <1>1, <1>4, HealthConstants, HealthFields
       DEF RowFails, RowKept, TicksOK, MembersOK
  <2>4. StaysDown'
    BY <1>1, <1>4, HealthConstants, HealthFields
       DEF RowFails, StaysDown, TicksOK, MembersOK
  <2>5. /\ EndpointOK' /\ SettingsOK' /\ MembersOK' /\ AlertsOK' /\ MarksOK'
        /\ EpisodesOK' /\ TurnsCounted' /\ AlertsTakeTurns'
        /\ DownAnnounced' /\ RequestsOK' /\ DeletedLeavesOnlyMissed'
    BY <1>1, <1>4
       DEF late, Open, RowFails, EndpointOK, SettingsOK, MembersOK, AlertsOK, MarksOK,
           EpisodesOK, TurnsCounted, AlertsTakeTurns, DownAnnounced,
           RequestsOK, DeletedLeavesOnlyMissed
  <2> QED  BY <2>1, <2>2, <2>3, <2>4, <2>5
              DEF HealthInd
<1>5. ASSUME NEW t \in Ticks, NEW healthy \in BOOLEAN, Recheck(t, healthy)
      PROVE  HealthInd'
  <2>1. TicksOK'
    <3>1. ticks[t] \in TickStates /\ ticks[t] # AtRest
      BY <1>1, <1>5, HealthFields DEF Recheck, TicksOK
    <3>2. [at |-> "writing", row |-> ticks[t].row, limit |-> ticks[t].limit, healthy |-> healthy]
            \in TickStates
      BY <3>1, HealthFields, HealthMade
    <3>3. ticks' = [ticks EXCEPT ![t] =
            IF endpoint.exists /\ ~paused
            THEN [at |-> "writing", row |-> ticks[t].row, limit |-> ticks[t].limit, healthy |-> healthy]
            ELSE AtRest]
      BY <1>1, <1>5 DEF Recheck, TicksOK
    <3> QED  BY <1>1, <3>2, <3>3, HealthFields DEF TicksOK
  <2>2. OneTick'
    BY <1>1, <1>5, HealthConstants, HealthFields
       DEF Recheck, OneTick, TicksOK, MembersOK
  <2>3. RowKept'
    BY <1>1, <1>5, HealthConstants, HealthFields
       DEF Recheck, RowKept, TicksOK, MembersOK
  <2>4. StaysDown'
    BY <1>1, <1>5, HealthConstants, HealthFields
       DEF Recheck, StaysDown, TicksOK, MembersOK
  <2>5. /\ EndpointOK' /\ SettingsOK' /\ MembersOK' /\ AlertsOK' /\ MarksOK'
        /\ EpisodesOK' /\ TurnsCounted' /\ AlertsTakeTurns'
        /\ DownAnnounced' /\ RequestsOK' /\ DeletedLeavesOnlyMissed'
    BY <1>1, <1>5
       DEF late, Open, Recheck, EndpointOK, SettingsOK, MembersOK, AlertsOK, MarksOK,
           EpisodesOK, TurnsCounted, AlertsTakeTurns, DownAnnounced,
           RequestsOK, DeletedLeavesOnlyMissed
  <2> QED  BY <2>1, <2>2, <2>3, <2>4, <2>5
              DEF HealthInd
<1>6. ASSUME NEW a \in DOMAIN alerts, NotificationSent(a)
      PROVE  HealthInd'
  <2>1. MarksOK'
    BY <1>1, <1>6, HealthConstants, HealthFields
       DEF late, Open, NotificationSent, MarksOK, TicksOK, MembersOK
  <2>2. RequestsOK'
    BY <1>1, <1>6, HealthConstants, HealthFields
       DEF late, Open, NotificationSent, RequestsOK, TicksOK, MembersOK
  <2>3. DeletedLeavesOnlyMissed'
    BY <1>1, <1>6, HealthConstants, HealthFields
       DEF late, Open, NotificationSent, DeletedLeavesOnlyMissed, TicksOK, MembersOK
  <2>4. /\ EndpointOK' /\ SettingsOK' /\ TicksOK' /\ MembersOK' /\ AlertsOK'
        /\ EpisodesOK' /\ OneTick' /\ RowKept' /\ StaysDown'
        /\ TurnsCounted' /\ AlertsTakeTurns' /\ DownAnnounced'
    BY <1>1, <1>6
       DEF NotificationSent, EndpointOK, SettingsOK, TicksOK, MembersOK,
           AlertsOK, EpisodesOK, OneTick, RowKept, StaysDown, TurnsCounted,
           AlertsTakeTurns, DownAnnounced
  <2> QED  BY <2>1, <2>2, <2>3, <2>4
              DEF HealthInd
<1>7. ASSUME NEW a \in DOMAIN alerts, Dismiss(a)
      PROVE  HealthInd'
  <2>1. AlertsOK' /\ SameStory /\ Closed({a})
    <3> DEFINE b == a
    <3>1. alerts' = [alerts EXCEPT ![b].status = "dismissed"]
      BY <1>7 DEF Dismiss
    <3> HIDE DEF b
    <3>2. alerts' = [i \in DOMAIN alerts |->
                      IF i \in {b} THEN [alerts[i] EXCEPT !.status = "dismissed"] ELSE alerts[i]]
      BY <1>1, <3>1 DEF AlertsOK
    <3>3. AlertsOK' /\ SameStory /\ Closed({b})
      BY <1>1, <3>2, StatusChanged
    <3> QED  BY <3>3 DEF b
  <2>2. UNCHANGED <<endpoint, paused, threshold, ticks, members, unsent, episodes, raised, late>>
    BY <1>7 DEF Dismiss
  <2>3. EndpointOK'
    BY <1>1, <2>2 DEF EndpointOK
  <2>4. SettingsOK'
    BY <1>1, <2>2 DEF SettingsOK
  <2>5. TicksOK'
    BY <1>1, <2>2 DEF TicksOK
  <2>6. MembersOK'
    BY <1>1, <2>2 DEF MembersOK
  <2>7. AlertsOK'
    BY <2>1
  <2>8. MarksOK'
    BY <1>1, <2>1, <2>2 DEF SameStory, late, MarksOK
  <2>9. EpisodesOK'
    BY <1>1, <2>1, <2>2 DEF SameStory, EpisodesOK
  <2>10. OneTick'
    BY <1>1, <2>2 DEF OneTick
  <2>11. RowKept'
    BY <1>1, <2>2 DEF RowKept
  <2>12. StaysDown'
    BY <1>1, <2>2 DEF StaysDown
  <2>13. TurnsCounted'
    BY <1>1, <2>1, <2>2 DEF SameStory, TurnsCounted
  <2>14. AlertsTakeTurns'
    <3>1. DOMAIN alerts = 1 .. Len(alerts) /\ Len(alerts) \in Nat
      BY <1>1, AlertsNumbered
    <3>2. \A b \in DOMAIN alerts : b % 2 # 1 => b - 1 \in DOMAIN alerts
      BY <3>1
    <3> QED  BY <1>1, <2>1, <2>2, <3>2 DEF SameStory, AlertsTakeTurns
  <2>15. DownAnnounced'
    BY <1>1, <2>1, <2>2 DEF SameStory, DownAnnounced
  <2>16. RequestsOK'
    BY <1>1, <2>1, <2>2 DEF SameStory, Closed, late, RequestsOK
  <2>17. DeletedLeavesOnlyMissed'
    BY <1>1, <2>1, <2>2 DEF SameStory, Closed, late, DeletedLeavesOnlyMissed
  <2> QED  BY <2>3, <2>4, <2>5, <2>6, <2>7, <2>8, <2>9, <2>10, <2>11, <2>12,
              <2>13, <2>14, <2>15, <2>16, <2>17
              DEF HealthInd
<1>8. ASSUME NEW p \in BOOLEAN, SetPaused(p)
      PROVE  HealthInd'
  <2>1. SettingsOK'
    BY <1>1, <1>8, HealthConstants, HealthFields
       DEF SetPaused, SettingsOK, TicksOK, MembersOK
  <2>2. /\ EndpointOK' /\ TicksOK' /\ MembersOK' /\ AlertsOK' /\ MarksOK'
        /\ EpisodesOK' /\ OneTick' /\ RowKept' /\ StaysDown'
        /\ TurnsCounted' /\ AlertsTakeTurns' /\ DownAnnounced'
        /\ RequestsOK' /\ DeletedLeavesOnlyMissed'
    BY <1>1, <1>8
       DEF late, Open, SetPaused, EndpointOK, TicksOK, MembersOK, AlertsOK, MarksOK,
           EpisodesOK, OneTick, RowKept, StaysDown, TurnsCounted,
           AlertsTakeTurns, DownAnnounced, RequestsOK,
           DeletedLeavesOnlyMissed
  <2> QED  BY <2>1, <2>2
              DEF HealthInd
<1>9. ASSUME NEW n \in 1 .. MaxThreshold, SetThreshold(n)
      PROVE  HealthInd'
  <2>1. SettingsOK'
    BY <1>1, <1>9, HealthConstants, HealthFields
       DEF SetThreshold, NoEpisode, SettingsOK, TicksOK, MembersOK
  <2>2. StaysDown'
    <3> DEFINE up == n > threshold /\ (endpoint.episode # NoEpisode \/ \E t \in Ticks : ticks[t] # AtRest)
    <3>1. raised' = (raised \/ up) /\ threshold' = n /\ UNCHANGED <<endpoint, ticks>>
      BY <1>9 DEF SetThreshold
    <3> HIDE DEF up
    <3>2. ~raised' => ~raised /\ ~up
      BY <3>1, Zenon
    <3>3. threshold \in Nat /\ n \in Nat /\ endpoint.failures \in Nat
          /\ \A t \in Ticks : ticks[t] # AtRest => ticks[t].limit \in Nat
      BY <1>1, HealthFields, HealthConstants DEF SettingsOK, EndpointOK, EndpointRows, TicksOK
    <3>4. endpoint.health = "down" => endpoint.episode # NoEpisode
      <4>1. \A a \in DOMAIN alerts : alerts[a].episode \in 1 .. MaxAlerts
        BY <1>1, AlertsNumbered DEF AlertType
      <4> QED  BY <1>1, <4>1, HealthConstants DEF DownAnnounced, NoEpisode
    <3>5. ~raised' /\ n > threshold => endpoint.health # "down" /\ \A t \in Ticks : ticks[t] = AtRest
      BY <3>2, <3>4 DEF up
    <3>6. CASE n > threshold
      BY <3>1, <3>5, <3>6 DEF StaysDown
    <3>7. CASE ~(n > threshold)
      <4> SUFFICES ASSUME ~raised'
                   PROVE  /\ endpoint.health = "down" => endpoint.failures >= n
                          /\ \A t \in Ticks : ticks[t] # AtRest =>
                               /\ ticks[t].limit >= n
                               /\ endpoint.health = "down" => endpoint.failures >= ticks[t].limit
        BY <3>1 DEF StaysDown
      <4> QED  BY <1>1, <3>2, <3>3, <3>7 DEF StaysDown
    <3> QED  BY <3>6, <3>7
  <2>3. TurnsCounted'
    BY <1>1, <1>9, HealthConstants, HealthFields
       DEF SetThreshold, NoEpisode, TurnsCounted, TicksOK, MembersOK
  <2>4. AlertsTakeTurns'
    BY <1>1, <1>9, HealthConstants, HealthFields
       DEF SetThreshold, NoEpisode, AlertsTakeTurns, TicksOK, MembersOK
  <2>5. /\ EndpointOK' /\ TicksOK' /\ MembersOK' /\ AlertsOK' /\ MarksOK'
        /\ EpisodesOK' /\ OneTick' /\ RowKept' /\ DownAnnounced'
        /\ RequestsOK' /\ DeletedLeavesOnlyMissed'
    BY <1>1, <1>9
       DEF late, Open, SetThreshold, NoEpisode, EndpointOK, TicksOK, MembersOK, AlertsOK,
           MarksOK, EpisodesOK, OneTick, RowKept, DownAnnounced,
           RequestsOK, DeletedLeavesOnlyMissed
  <2> QED  BY <2>1, <2>2, <2>3, <2>4, <2>5
              DEF HealthInd
<1>10. ASSUME NEW m \in Members, DeleteStart(m)
      PROVE  HealthInd'
  <2>1. MembersOK'
    <3>1. /\ {a \in DOMAIN alerts : Open(a)} \in SUBSET (1 .. MaxAlerts)
          /\ unsent \in SUBSET (1 .. MaxAlerts)
      BY <1>1, AlertsNumbered DEF MarksOK
    <3>2. [at |-> "deleting", seen |-> {a \in DOMAIN alerts : Open(a)}, queued |-> unsent]
            \in MemberStates
      BY <3>1, HealthMade
    <3> QED  BY <1>1, <1>10, <3>2 DEF DeleteStart, MembersOK
  <2>2. RequestsOK'
    BY <1>1, <1>10, HealthConstants, HealthFields
       DEF late, DeleteStart, Open, RequestsOK, TicksOK, MembersOK
  <2>3. /\ EndpointOK' /\ SettingsOK' /\ TicksOK' /\ AlertsOK' /\ MarksOK'
        /\ EpisodesOK' /\ OneTick' /\ RowKept' /\ StaysDown'
        /\ TurnsCounted' /\ AlertsTakeTurns' /\ DownAnnounced'
        /\ DeletedLeavesOnlyMissed'
    BY <1>1, <1>10
       DEF late, DeleteStart, Open, EndpointOK, SettingsOK, TicksOK, AlertsOK,
           MarksOK, EpisodesOK, OneTick, RowKept, StaysDown, TurnsCounted,
           AlertsTakeTurns, DownAnnounced, DeletedLeavesOnlyMissed
  <2> QED  BY <2>1, <2>2, <2>3
              DEF HealthInd
<1>11. ASSUME NEW m \in Members, DeleteCommit(m)
      PROVE  HealthInd'
  <2>1. /\ AlertsOK' /\ SameStory
        /\ Closed(members[m].seen)
    BY <1>1, <1>11, StatusChanged DEF DeleteCommit, Resolve
  <2>2. /\ endpoint' = [endpoint EXCEPT !.exists = FALSE] /\ members[m].at = "deleting"
        /\ unsent' = unsent \ members[m].queued
        /\ members' = [members EXCEPT ![m] = AtRest]
        /\ UNCHANGED <<paused, threshold, ticks, episodes, raised, late>>
    BY <1>11 DEF DeleteCommit
  <2>3. /\ endpoint' \in EndpointRows /\ endpoint'.health = endpoint.health
        /\ endpoint'.failures = endpoint.failures /\ endpoint'.episode = endpoint.episode
    BY <1>1, <2>2 DEF EndpointOK, EndpointRows
  <2>4. AtRest \in MemberStates /\ \A k \in Members : members'[k] = members[k] \/ members'[k].at = "idle"
    BY <1>1, <2>2, HealthFields DEF MembersOK
  <2>5. EndpointOK'
    BY <2>3 DEF EndpointOK
  <2>6. SettingsOK'
    BY <1>1, <2>2 DEF SettingsOK
  <2>7. TicksOK'
    BY <1>1, <2>2 DEF TicksOK
  <2>8. MembersOK'
    BY <1>1, <2>2, <2>4 DEF MembersOK
  <2>9. AlertsOK'
    BY <2>1
  <2>10. MarksOK'
    BY <1>1, <2>1, <2>2 DEF SameStory, late, MarksOK
  <2>11. EpisodesOK'
    BY <1>1, <2>1, <2>2, <2>3 DEF SameStory, EpisodesOK
  <2>12. OneTick'
    BY <1>1, <2>2 DEF OneTick
  <2>13. RowKept'
    BY <1>1, <2>2, <2>3 DEF RowKept
  <2>14. StaysDown'
    BY <1>1, <2>2, <2>3 DEF StaysDown
  <2>15. TurnsCounted'
    BY <1>1, <2>1, <2>2, <2>3 DEF SameStory, TurnsCounted
  <2>16. AlertsTakeTurns'
    <3>1. DOMAIN alerts = 1 .. Len(alerts) /\ Len(alerts) \in Nat
      BY <1>1, AlertsNumbered
    <3>2. \A b \in DOMAIN alerts : b % 2 # 1 => b - 1 \in DOMAIN alerts
      BY <3>1
    <3> QED  BY <1>1, <2>1, <2>2, <3>2 DEF SameStory, AlertsTakeTurns
  <2>17. DownAnnounced'
    BY <1>1, <2>1, <2>3 DEF SameStory, DownAnnounced
  <2>18. RequestsOK'
    BY <1>1, <2>1, <2>2, <2>4 DEF SameStory, Closed, late, RequestsOK
  <2>19. DeletedLeavesOnlyMissed'
    <3>1. \A a \in DOMAIN alerts : Open(a) => a \in members[m].seen \cup missed \cup reopened
      BY <1>1, <2>2 DEF RequestsOK
    <3>2. unsent \subseteq members[m].queued \cup missed
      BY <1>1, <2>2 DEF RequestsOK
    <3>3. \A a \in DOMAIN alerts' : Open(a)' => a \in missed \cup reopened
      BY <2>1, <3>1 DEF SameStory, Closed
    <3> QED  BY <2>2, <3>2, <3>3 DEF late, DeletedLeavesOnlyMissed
  <2> QED  BY <2>5, <2>6, <2>7, <2>8, <2>9, <2>10, <2>11, <2>12, <2>13,
              <2>14, <2>15, <2>16, <2>17, <2>18, <2>19
              DEF HealthInd
<1>12. ASSUME NEW m \in Members, SnoozeWrite(m)
      PROVE  HealthInd'
  <2>1. /\ AlertsOK' /\ SameStory /\ members[m].alert \in DOMAIN alerts
        /\ \A a \in DOMAIN alerts : a # members[m].alert => alerts'[a] = alerts[a]
    <3> DEFINE b == members[m].alert
    <3>1. alerts' = [alerts EXCEPT ![b].status = "snoozed"]
      BY <1>12 DEF SnoozeWrite
    <3> HIDE DEF b
    <3>2. alerts' = [i \in DOMAIN alerts |->
                      IF i \in {b} THEN [alerts[i] EXCEPT !.status = "snoozed"] ELSE alerts[i]]
      BY <1>1, <3>1 DEF AlertsOK
    <3>3. /\ AlertsOK' /\ SameStory
          /\ \A a \in DOMAIN alerts : a \notin {b} => alerts'[a] = alerts[a]
      BY <1>1, <3>2, StatusChanged
    <3>4. members[m].alert \in DOMAIN alerts
      BY <1>1, <1>12 DEF SnoozeWrite, RequestsOK
    <3> QED  BY <3>3, <3>4 DEF b
  <2>2. /\ members' = [members EXCEPT ![m] = AtRest]
        /\ reopened' = IF ~Open(members[m].alert) /\ (Deleting \/ ~endpoint.exists)
                       THEN reopened \cup {members[m].alert} ELSE reopened
        /\ UNCHANGED <<endpoint, paused, threshold, ticks, unsent, episodes, raised, missed>>
    BY <1>12 DEF SnoozeWrite
  <2>3. AtRest \in MemberStates /\ \A k \in Members : members'[k] = members[k] \/ members'[k].at = "idle"
    BY <1>1, <2>2, HealthFields DEF MembersOK
  <2>4. EndpointOK'
    BY <1>1, <2>2 DEF EndpointOK
  <2>5. SettingsOK'
    BY <1>1, <2>2 DEF SettingsOK
  <2>6. TicksOK'
    BY <1>1, <2>2 DEF TicksOK
  <2>7. MembersOK'
    BY <1>1, <2>2, <2>3 DEF MembersOK
  <2>8. AlertsOK'
    BY <2>1
  <2>9. MarksOK'
    BY <1>1, <2>1, <2>2 DEF SameStory, MarksOK
  <2>10. EpisodesOK'
    BY <1>1, <2>1, <2>2 DEF SameStory, EpisodesOK
  <2>11. OneTick'
    BY <1>1, <2>2 DEF OneTick
  <2>12. RowKept'
    BY <1>1, <2>2 DEF RowKept
  <2>13. StaysDown'
    BY <1>1, <2>2 DEF StaysDown
  <2>14. TurnsCounted'
    BY <1>1, <2>1, <2>2 DEF SameStory, TurnsCounted
  <2>15. AlertsTakeTurns'
    <3>1. DOMAIN alerts = 1 .. Len(alerts) /\ Len(alerts) \in Nat
      BY <1>1, AlertsNumbered
    <3>2. \A b \in DOMAIN alerts : b % 2 # 1 => b - 1 \in DOMAIN alerts
      BY <3>1
    <3> QED  BY <1>1, <2>1, <2>2, <3>2 DEF SameStory, AlertsTakeTurns
  <2>16. DownAnnounced'
    BY <1>1, <2>1, <2>2 DEF SameStory, DownAnnounced
  <2>17. Deleting \/ ~endpoint.exists =>
           \A a \in DOMAIN alerts : Open(a)' => Open(a) \/ a \in reopened'
    BY <2>1, <2>2 DEF Open
  <2>18. RequestsOK'
    <3> SUFFICES ASSUME NEW k \in Members
                 PROVE  /\ members'[k].at = "deleting" =>
                             /\ \A a \in DOMAIN alerts' :
                                  Open(a)' => a \in members'[k].seen \cup missed' \cup reopened'
                             /\ unsent' \subseteq members'[k].queued \cup missed'
                        /\ members'[k].at = "snoozing" => members'[k].alert \in DOMAIN alerts'
      BY DEF RequestsOK
    <3>1. members'[k] = members[k] \/ members'[k].at = "idle"
      BY <2>3
    <3>2. members'[k].at = "deleting" => Deleting /\ members'[k] = members[k]
      BY <3>1 DEF Deleting
    <3>3. reopened \subseteq reopened' /\ DOMAIN alerts' = DOMAIN alerts
      BY <2>1, <2>2 DEF SameStory
    <3> QED  BY <1>1, <2>2, <2>17, <3>1, <3>2, <3>3 DEF RequestsOK
  <2>19. DeletedLeavesOnlyMissed'
    <3>1. reopened \subseteq reopened' /\ DOMAIN alerts' = DOMAIN alerts
      BY <2>1, <2>2 DEF SameStory
    <3> QED  BY <1>1, <2>2, <2>17, <3>1 DEF DeletedLeavesOnlyMissed
  <2> QED  BY <2>4, <2>5, <2>6, <2>7, <2>8, <2>9, <2>10, <2>11, <2>12, <2>13,
              <2>14, <2>15, <2>16, <2>18, <2>19
              DEF HealthInd
<1>13. ASSUME NEW m \in Members, RequestFails(m)
      PROVE  HealthInd'
  <2>1. MembersOK'
    BY <1>1, <1>13, HealthConstants, HealthFields
       DEF RequestFails, MembersOK, TicksOK
  <2>2. RequestsOK'
    BY <1>1, <1>13, HealthConstants, HealthFields
       DEF late, Open, RequestFails, RequestsOK, TicksOK, MembersOK
  <2>3. /\ EndpointOK' /\ SettingsOK' /\ TicksOK' /\ AlertsOK' /\ MarksOK'
        /\ EpisodesOK' /\ OneTick' /\ RowKept' /\ StaysDown'
        /\ TurnsCounted' /\ AlertsTakeTurns' /\ DownAnnounced'
        /\ DeletedLeavesOnlyMissed'
    BY <1>1, <1>13
       DEF late, Open, RequestFails, EndpointOK, SettingsOK, TicksOK, AlertsOK, MarksOK,
           EpisodesOK, OneTick, RowKept, StaysDown, TurnsCounted,
           AlertsTakeTurns, DownAnnounced, DeletedLeavesOnlyMissed
  <2> QED  BY <2>1, <2>2, <2>3
              DEF HealthInd
<1>14. ASSUME NEW m \in Members, NEW a \in DOMAIN alerts, SnoozeRead(m, a)
      PROVE  HealthInd'
  <2>1. MembersOK'
    <3>1. [at |-> "snoozing", alert |-> a] \in MemberStates
      BY <1>1, AlertsNumbered, HealthMade
    <3> QED  BY <1>1, <1>14, <3>1 DEF SnoozeRead, MembersOK
  <2>2. RequestsOK'
    BY <1>1, <1>14, HealthConstants, HealthFields
       DEF late, Open, SnoozeRead, RequestsOK, TicksOK, MembersOK
  <2>3. /\ EndpointOK' /\ SettingsOK' /\ TicksOK' /\ AlertsOK' /\ MarksOK'
        /\ EpisodesOK' /\ OneTick' /\ RowKept' /\ StaysDown'
        /\ TurnsCounted' /\ AlertsTakeTurns' /\ DownAnnounced'
        /\ DeletedLeavesOnlyMissed'
    BY <1>1, <1>14
       DEF late, Open, SnoozeRead, EndpointOK, SettingsOK, TicksOK, AlertsOK, MarksOK,
           EpisodesOK, OneTick, RowKept, StaysDown, TurnsCounted,
           AlertsTakeTurns, DownAnnounced, DeletedLeavesOnlyMissed
  <2> QED  BY <2>1, <2>2, <2>3
              DEF HealthInd
<1>15. CASE CleanupForProjectDeletion
  <2>1. AlertsOK' /\ SameStory /\ Closed({a \in DOMAIN alerts : Open(a)})
    BY <1>1, <1>15, StatusChanged DEF CleanupForProjectDeletion, Resolve
  <2>2. unsent' = {} /\ UNCHANGED <<endpoint, paused, threshold, ticks, members, episodes, raised, late>>
    BY <1>15 DEF CleanupForProjectDeletion
  <2>3. EndpointOK'
    BY <1>1, <2>2 DEF EndpointOK
  <2>4. SettingsOK'
    BY <1>1, <2>2 DEF SettingsOK
  <2>5. TicksOK'
    BY <1>1, <2>2 DEF TicksOK
  <2>6. MembersOK'
    BY <1>1, <2>2 DEF MembersOK
  <2>7. AlertsOK'
    BY <2>1
  <2>8. MarksOK'
    BY <1>1, <2>1, <2>2 DEF SameStory, late, MarksOK
  <2>9. EpisodesOK'
    BY <1>1, <2>1, <2>2 DEF SameStory, EpisodesOK
  <2>10. OneTick'
    BY <1>1, <2>2 DEF OneTick
  <2>11. RowKept'
    BY <1>1, <2>2 DEF RowKept
  <2>12. StaysDown'
    BY <1>1, <2>2 DEF StaysDown
  <2>13. TurnsCounted'
    BY <1>1, <2>1, <2>2 DEF SameStory, TurnsCounted
  <2>14. AlertsTakeTurns'
    <3>1. DOMAIN alerts = 1 .. Len(alerts) /\ Len(alerts) \in Nat
      BY <1>1, AlertsNumbered
    <3>2. \A b \in DOMAIN alerts : b % 2 # 1 => b - 1 \in DOMAIN alerts
      BY <3>1
    <3> QED  BY <1>1, <2>1, <2>2, <3>2 DEF SameStory, AlertsTakeTurns
  <2>15. DownAnnounced'
    BY <1>1, <2>1, <2>2 DEF SameStory, DownAnnounced
  <2>16. RequestsOK'
    BY <1>1, <2>1, <2>2 DEF SameStory, Closed, late, RequestsOK
  <2>17. DeletedLeavesOnlyMissed'
    BY <1>1, <2>1, <2>2 DEF SameStory, Closed, late, DeletedLeavesOnlyMissed
  <2> QED  BY <2>3, <2>4, <2>5, <2>6, <2>7, <2>8, <2>9, <2>10, <2>11, <2>12,
              <2>13, <2>14, <2>15, <2>16, <2>17
              DEF HealthInd
<1>16. CASE UNCHANGED healthVars
  BY <1>1, <1>16
     DEF healthVars, late, Open, AlertsOK, AlertsTakeTurns, DeletedLeavesOnlyMissed,
         RequestsOK, DownAnnounced, EndpointOK, EpisodesOK, HealthInd,
         MarksOK, MembersOK, OneTick, RowKept, SettingsOK, StaysDown,
         TicksOK, TurnsCounted
<1> QED  BY <1>2, <1>3, <1>4, <1>5, <1>6, <1>7, <1>8, <1>9, <1>10, <1>11,
            <1>12, <1>13, <1>14, <1>15, <1>16
            DEF HealthNext

\* The invariant gives the guarantees of HealthSafe.
LEMMA HealthIndImplies ==
  HealthInd => HealthSafe
<1> SUFFICES ASSUME HealthInd PROVE HealthSafe
  OBVIOUS
<1>1. /\ EndpointOK /\ SettingsOK /\ TicksOK /\ MembersOK /\ AlertsOK /\ MarksOK
      /\ EpisodesOK /\ AlertsTakeTurns /\ DownAnnounced /\ DeletedLeavesOnlyMissed
  BY DEF HealthInd
<1>2. HealthTypeOK
  <2>1. endpoint \in [exists : BOOLEAN, health : {"healthy", "degraded", "down"},
                      failures : 0 .. MaxThreshold, episode : 0 .. MaxAlerts]
    BY <1>1 DEF EndpointOK, EndpointRows
  <2>2. paused \in BOOLEAN /\ threshold \in 1 .. MaxThreshold
    BY <1>1 DEF SettingsOK
  <2>3. \A t \in Ticks : ticks[t].at \in {"idle", "probing", "writing"}
    BY <1>1, HealthFields DEF TicksOK
  <2>4. \A m \in Members : members[m].at \in {"idle", "deleting", "snoozing"}
    BY <1>1, HealthFields DEF MembersOK
  <2>5. \A a \in DOMAIN alerts : alerts[a] \in AlertType
    BY <1>1, AlertsNumbered
  <2>6. episodes \in 0 .. MaxAlerts
    BY <1>1, HealthConstants DEF EpisodesOK, AlertsOK
  <2> QED  BY <1>1, <2>1, <2>2, <2>3, <2>4, <2>5, <2>6 DEF HealthTypeOK, MarksOK
<1>3. DownIsAnnounced
  BY <1>1 DEF DownAnnounced, DownIsAnnounced
<1> QED  BY <1>1, <1>2, <1>3 DEF HealthSafe

\* Whatever ticks, members and deletions do between a reading of the endpoint and
\* the write that follows it, alerts take turns, an outage shown is announced once,
\* and a deleted endpoint leaves open, active or snoozed, only the alerts that were
\* inserted or snoozed after its deletion had listed those to close.
THEOREM HealthAlwaysSafe == HealthSpec => []HealthSafe
<1>1. HealthInit => HealthInd
  BY HealthInitInd
<1>2. HealthInd /\ [HealthNext]_healthVars => HealthInd'
  BY HealthPreserved
<1> QED  BY <1>1, <1>2, HealthIndImplies, PTL DEF HealthSpec

=============================================================================
