------------------------ MODULE NotificationDelivery ------------------------
(***************************************************************************)
(* One row of notification_queue, from its insert to its terminal status:  *)
(* the delivery jobs and their retries, the claim with its lease and fence,*)
(* the external send, the catch-up, the dead-letter cleanup, the digest    *)
(* and the provider's webhook.  workers/notification-*.ts,                 *)
(* notifications/delivery-status.ts, notifications/dispatcher.ts.          *)
(*                                                                         *)
(* A step is a transaction or one external call.  A worker may crash       *)
(* between any two steps; a send that was interrupted may or may not have  *)
(* been accepted, and so may one that threw (a timeout).                   *)
(***************************************************************************)
EXTENDS Naturals, FiniteSets

CONSTANTS Workers,       \* concurrent job handlers
          Kinds,         \* the routes a row may have in this instance
          MaxAttempts,   \* NOTIFICATION_MAX_ATTEMPTS
          MaxJobs,       \* bound on the jobs queued for the row
          MaxSends       \* bound on the sends of the unclaimed digest

Routes == {"smtp", "provider", "unrouted", "inbox", "digest"}
Statuses == {"pending", "sent", "delivered", "bounced", "suppressed", "failed"}

ASSUME DeliveryBounds ==
    /\ IsFiniteSet(Workers) /\ Kinds \subseteq Routes
    /\ MaxAttempts \in Nat \ {0} /\ MaxJobs \in Nat \ {0} /\ MaxSends \in Nat

VARIABLES kind,       \* channel and transport of the row
          status,     \* notification_queue.status
          attempts,   \* attempt_count
          lease,      \* claim_expires_at: none, live, expired
          started,    \* send_started_at is set
          graceOver,  \* last_attempt_at is older than the dead-letter grace
          due,        \* deliver_at is null or past
          aged,       \* the row is older than the catch-up's five minutes
          jobs,       \* notification/deliver jobs queued for the row
          pc,         \* where each worker is
          mine,       \* the attempt number each worker claimed
          dlq,        \* the cleanup selected the row
          digest,     \* the digest: idle, read, sent
          messageId,  \* provider_message_id is set
          accepted,   \* history: messages accepted by a send that resolved, or
                      \* of which no result is known
          disowned,   \* history: messages accepted although their send threw
          inboxRows   \* rows of notification_inbox written for it

row   == <<kind, status, attempts, lease, started, messageId>>
clock == <<graceOver, due, aged>>
outside == <<accepted, disowned, inboxRows>>
vars  == <<row, clock, jobs, pc, mine, dlq, digest, outside>>

External == kind \in {"smtp", "provider"}

Init ==
    /\ kind \in Kinds /\ status = "pending" /\ attempts = 0
    /\ lease = "none" /\ started = FALSE /\ messageId = FALSE
    /\ graceOver = FALSE /\ aged = FALSE /\ due = (kind # "digest")
    /\ jobs \in {0, 1}        \* the dispatch after the commit is best effort
    /\ (kind = "digest" => jobs = 0)
    /\ pc = [w \in Workers |-> "idle"] /\ mine = [w \in Workers |-> 0]
    /\ dlq = FALSE /\ digest = "idle"
    /\ accepted = 0 /\ disowned = 0 /\ inboxRows = 0

-----------------------------------------------------------------------------
(* DELIVERY_STATUS_RANK.                                                     *)
Rank(s) == CASE s = "pending" -> 0 [] s = "sent" -> 1 [] s = "delivered" -> 2
             [] s \in {"bounced", "suppressed", "failed"} -> 3

\* Mutant of Applied: the rank is not compared.
AppliedAlways(new) == new

(* applyDeliveryStatusUpdate, under the lock of the row: forward, or to      *)
(* another status of the same rank.                                          *)
Applied(new) == IF Rank(new) >= Rank(status) THEN new ELSE status

(* A handler that throws is retried by pg-boss while its retries last.       *)
Retried == jobs' \in {jobs} \cup (IF jobs < MaxJobs THEN {jobs + 1} ELSE {})

Goto(w, at) == pc' = [pc EXCEPT ![w] = at]

-----------------------------------------------------------------------------
(* deliverNotification takes a job and looks at the row.                     *)
TakeJob(w) ==
    /\ pc[w] = "idle" /\ jobs > 0
    /\ jobs' = jobs - 1
    /\ Goto(w, IF status = "pending" /\ due THEN "read" ELSE "idle")
    /\ UNCHANGED <<row, clock, mine, dlq, digest, outside>>

(* Slack without a webhook is suppressed before the claim.                   *)
SuppressUnrouted(w) ==
    /\ pc[w] = "read" /\ kind = "unrouted"
    /\ status' = Applied("suppressed")
    /\ Goto(w, "idle")
    /\ UNCHANGED <<kind, attempts, lease, started, messageId, clock, jobs, mine,
                   dlq, digest, outside>>

\* Mutant of Claimable: a lapsed lease is enough, also when a send was started.
ClaimableLapsed ==
    /\ status = "pending" /\ attempts < MaxAttempts /\ due /\ lease # "live"

(* claimPendingNotificationEntry.                                            *)
Claimable ==
    /\ status = "pending" /\ attempts < MaxAttempts /\ due
    /\ lease # "live" /\ ~started

Claim(w) ==
    /\ pc[w] = "read" /\ kind # "unrouted" /\ Claimable
    /\ attempts' = attempts + 1 /\ lease' = "live" /\ graceOver' = FALSE
    /\ mine' = [mine EXCEPT ![w] = attempts + 1]
    /\ Goto(w, "claimed")
    /\ UNCHANGED <<kind, status, started, messageId, due, aged, jobs, dlq,
                   digest, outside>>

ClaimLost(w) ==
    /\ pc[w] = "read" /\ kind # "unrouted" /\ ~Claimable
    /\ Goto(w, "idle")
    /\ UNCHANGED <<row, clock, jobs, mine, dlq, digest, outside>>

(* deliverClaimedEmail without a transport or an address.                    *)
Suppress(w) ==
    /\ pc[w] = "claimed" /\ kind \in {"smtp", "provider", "digest"}
    /\ status' = Applied("suppressed")
    /\ Goto(w, "idle")
    /\ UNCHANGED <<kind, attempts, lease, started, messageId, clock, jobs, mine,
                   dlq, digest, outside>>

(* Reading the address, the template or the settings throws.                 *)
PrepareFails(w) ==
    /\ pc[w] = "claimed" /\ Goto(w, "failing")
    /\ UNCHANGED <<row, clock, jobs, mine, dlq, digest, outside>>

(* The fence of markNotificationSendStarted and releaseNotificationClaim.    *)
Owned(w) == status = "pending" /\ attempts = mine[w]

MarkStarted(w) ==
    /\ pc[w] = "claimed" /\ kind # "inbox"
    /\ IF Owned(w) /\ ~started
       THEN started' = TRUE /\ Goto(w, "sending")
       ELSE UNCHANGED started /\ Goto(w, "failing")
    /\ UNCHANGED <<kind, status, attempts, lease, messageId, clock, jobs, mine,
                   dlq, digest, outside>>

SendResolves(w) ==
    /\ pc[w] = "sending" /\ accepted < MaxSends
    /\ accepted' = accepted + 1
    /\ Goto(w, "resolved")
    /\ UNCHANGED <<row, clock, jobs, mine, dlq, digest, disowned, inboxRows>>

(* The send throws, the message accepted or not; a provider may also say     *)
(* that it will never take it (DeliveryProviderPermanentError, by contract   *)
(* only of a message it did not accept).                                     *)
SendThrows(w) ==
    /\ pc[w] = "sending"
    /\ \/ Goto(w, "failing")
          /\ disowned' \in {disowned} \cup
                (IF disowned < MaxAttempts THEN {disowned + 1} ELSE {})
       \/ kind = "provider" /\ Goto(w, "rejected") /\ UNCHANGED disowned
    /\ UNCHANGED <<row, clock, jobs, mine, dlq, digest, accepted, inboxRows>>

RecordPermanentFailure(w) ==
    /\ pc[w] = "rejected"
    /\ \/ status' = Applied("failed") /\ Goto(w, "idle")
       \/ UNCHANGED status /\ Goto(w, "failing")
    /\ UNCHANGED <<kind, attempts, lease, started, messageId, clock, jobs, mine,
                   dlq, digest, outside>>

(* The status of a resolved send: "sent" with the provider's message id, or  *)
(* "delivered".                                                              *)
RecordSend(w) ==
    /\ pc[w] = "resolved"
    /\ status' = Applied(IF kind = "provider" THEN "sent" ELSE "delivered")
    /\ messageId' = (messageId \/ (kind = "provider" /\ status = "pending"))
    /\ Goto(w, "idle")
    /\ UNCHANGED <<kind, attempts, lease, started, clock, jobs, mine, dlq,
                   digest, outside>>

(* That commit fails: a resolved send is not released.                       *)
RecordFails(w) ==
    /\ pc[w] = "resolved" /\ Goto(w, "idle") /\ Retried
    /\ UNCHANGED <<row, clock, mine, dlq, digest, outside>>

(* releaseOrLog; the error is rethrown either way.                           *)
Release(w) ==
    /\ pc[w] = "failing"
    /\ \/ lease' = (IF Owned(w) THEN "none" ELSE lease)
          /\ started' = (started /\ ~Owned(w))
       \/ UNCHANGED <<lease, started>>
    /\ Goto(w, "idle") /\ Retried
    /\ UNCHANGED <<kind, status, attempts, messageId, clock, mine, dlq, digest,
                   outside>>

(* writeClaimedInboxEntry: the inbox row and the status in one transaction,  *)
(* without the fence.                                                        *)
InboxWrite(w) ==
    /\ pc[w] = "claimed" /\ kind = "inbox"
    /\ inboxRows' = inboxRows + 1 /\ status' = "delivered"
    /\ Goto(w, "idle")
    /\ UNCHANGED <<kind, attempts, lease, started, messageId, clock, jobs, mine,
                   dlq, digest, accepted, disowned>>

(* The process dies, or pg-boss expires the job.                             *)
Crash(w) ==
    /\ pc[w] # "idle" /\ Goto(w, "idle") /\ Retried
    /\ accepted' \in {accepted} \cup
          (IF pc[w] = "sending" /\ accepted < MaxSends THEN {accepted + 1} ELSE {})
    /\ UNCHANGED <<row, clock, mine, dlq, digest, disowned, inboxRows>>

-----------------------------------------------------------------------------
(* runNotificationCatchup.                                                   *)
Catchup ==
    /\ aged /\ Claimable /\ jobs < MaxJobs
    /\ jobs' = jobs + 1
    /\ UNCHANGED <<row, clock, pc, mine, dlq, digest, outside>>

(* selectOutcomeUnknownSends and selectExhaustedAttempts.                    *)
OutcomeUnknown == status = "pending" /\ started /\ lease # "live"

\* Mutant of Exhausted: one attempt more than is ever made.
ExhaustedLate ==
    status = "pending" /\ attempts > MaxAttempts /\ ~started /\ graceOver

Exhausted ==
    status = "pending" /\ attempts >= MaxAttempts /\ ~started /\ graceOver

DlqSelect ==
    /\ ~dlq /\ (OutcomeUnknown \/ Exhausted)
    /\ dlq' = TRUE
    /\ UNCHANGED <<row, clock, jobs, pc, mine, digest, outside>>

(* failCandidate: only the rank is looked at again.                          *)
DlqFail ==
    /\ dlq /\ dlq' = FALSE
    /\ status' = Applied("failed")
    /\ UNCHANGED <<kind, attempts, lease, started, messageId, clock, jobs, pc,
                   mine, digest, outside>>

(* A failed cleanup leaves the row to its next run.                          *)
DlqThrows ==
    /\ dlq /\ dlq' = FALSE
    /\ UNCHANGED <<row, clock, jobs, pc, mine, digest, outside>>

(* runDigestSend lists the due rows, sends without a claim, and writes the   *)
(* status in the transaction that surrounds the send.                        *)
DigestRead ==
    /\ kind = "digest" /\ digest = "idle" /\ status = "pending" /\ due
    /\ digest' = "read"
    /\ UNCHANGED <<row, clock, jobs, pc, mine, dlq, outside>>

DigestSend ==
    /\ digest = "read" /\ accepted < MaxSends
    /\ accepted' = accepted + 1 /\ digest' = "sent"
    /\ UNCHANGED <<row, clock, jobs, pc, mine, dlq, disowned, inboxRows>>

DigestCommit ==
    /\ \/ digest = "sent" /\ status' = "delivered"
       \/ digest = "read" /\ status' = "suppressed"     \* no address
       \/ digest # "idle" /\ UNCHANGED status           \* failed or crashed
    /\ digest' = "idle"
    /\ UNCHANGED <<kind, attempts, lease, started, messageId, clock, jobs, pc,
                   mine, dlq, outside>>

(* handleDeliveryWebhook: events of an unknown message id change nothing.    *)
Webhook(s) ==
    /\ messageId /\ status' = Applied(s)
    /\ UNCHANGED <<kind, attempts, lease, started, messageId, clock, jobs, pc,
                   mine, dlq, digest, outside>>

-----------------------------------------------------------------------------
(* Time.                                                                     *)
LeaseExpires ==
    /\ lease = "live" /\ lease' = "expired"
    /\ UNCHANGED <<kind, status, attempts, started, messageId, clock, jobs, pc,
                   mine, dlq, digest, outside>>

DeadLetterGraceEnds ==
    /\ attempts > 0 /\ lease # "live" /\ ~graceOver /\ graceOver' = TRUE
    /\ UNCHANGED <<row, due, aged, jobs, pc, mine, dlq, digest, outside>>

BecomesDue ==
    /\ ~due /\ due' = TRUE
    /\ UNCHANGED <<row, graceOver, aged, jobs, pc, mine, dlq, digest, outside>>

Ages ==
    /\ ~aged /\ aged' = TRUE
    /\ UNCHANGED <<row, graceOver, due, jobs, pc, mine, dlq, digest, outside>>

Worker(w) ==
    \/ TakeJob(w) \/ SuppressUnrouted(w) \/ Claim(w) \/ ClaimLost(w)
    \/ Suppress(w) \/ PrepareFails(w) \/ MarkStarted(w)
    \/ SendResolves(w) \/ SendThrows(w) \/ RecordPermanentFailure(w)
    \/ RecordSend(w) \/ RecordFails(w) \/ Release(w) \/ InboxWrite(w)

Time == LeaseExpires \/ DeadLetterGraceEnds \/ BecomesDue \/ Ages

Next ==
    \/ \E w \in Workers : Worker(w) \/ Crash(w)
    \/ Catchup \/ DlqSelect \/ DlqFail \/ DlqThrows
    \/ DigestRead \/ DigestSend \/ DigestCommit
    \/ \E s \in Statuses \ {"pending"} : Webhook(s)
    \/ Time

Spec == Init /\ [][Next]_vars

\* The catch-up and the cleanup are cron jobs, the handlers end or are expired
\* by pg-boss, and time passes; the digest and the webhook may never come.  A
\* process may crash at every attempt, but not each time just before its claim,
\* and the cleanup's write does not fail each time.
FairSpec ==
    /\ Spec
    /\ SF_vars(\E w \in Workers : Claim(w) \/ SuppressUnrouted(w))
    /\ \A w \in Workers : WF_vars(Worker(w))
    /\ WF_vars(Catchup) /\ WF_vars(DlqSelect) /\ SF_vars(DlqFail)
    /\ WF_vars(LeaseExpires) /\ WF_vars(DeadLetterGraceEnds)
    /\ WF_vars(BecomesDue) /\ WF_vars(Ages)

-----------------------------------------------------------------------------
(* Properties                                                               *)

\* The variables have their types.
TypeOK ==
    /\ kind \in Kinds /\ status \in Statuses /\ attempts \in 0..MaxAttempts
    /\ lease \in {"none", "live", "expired"}
    /\ started \in BOOLEAN /\ graceOver \in BOOLEAN /\ due \in BOOLEAN
    /\ aged \in BOOLEAN /\ jobs \in 0..MaxJobs
    /\ pc \in [Workers -> {"idle", "read", "claimed", "sending", "resolved",
                           "rejected", "failing"}]
    /\ mine \in [Workers -> 0..MaxAttempts]
    /\ dlq \in BOOLEAN /\ digest \in {"idle", "read", "sent"}
    /\ messageId \in BOOLEAN /\ accepted \in 0..MaxSends
    /\ disowned \in 0..MaxAttempts /\ inboxRows \in Nat

\* Whatever leases lapse, workers crash or commits fail, at most one message of a
\* claimed row is accepted by a send that did not throw, and once there is one,
\* nobody sends again (queueRowId: PV calls send() again "only after an earlier
\* send() for it rejected").  Each further message is one whose own send threw
\* after its acceptance, and costs an attempt of its own.
SentOnce ==
    External =>
        /\ accepted <= 1
        /\ accepted > 0 => \A w \in Workers : pc[w] # "sending"
        /\ accepted + disowned <= attempts

\* Of the workers of one row at most one is between its mark and its result: a
\* late worker neither sends nor releases the claim of a newer attempt.
OneSender ==
    External => Cardinality({w \in Workers :
                    pc[w] \in {"sending", "resolved", "rejected"}}) <= 1

\* A row says sent or delivered only if something was accepted or written.
RecordedMeansDone ==
    status \in {"sent", "delivered"} => accepted > 0 \/ inboxRows > 0

\* The status of a row on an external channel only moves forward, however late a
\* worker's result, the cleanup or a webhook comes (applyDeliveryStatusUpdate).
RankForward ==
    [][External => Rank(status') >= Rank(status)]_vars

\* A row whose send resolved, or was cut off with its result unknown, keeps its
\* mark for good, so no claim and no catch-up takes it up again, also when
\* recording the send failed or the worker died (markNotificationSendStarted, externalSend).
AcceptedStaysMarked == External /\ accepted > 0 => started

\* A claimed row is sent by the one handler that owns it, and again only after a
\* send that threw; a recorded outcome is backed by an accepted message, and a
\* send that resolved keeps its marker (notification-claim.ts, notification-queue-ops.ts).
DeliverySafe ==
    /\ TypeOK
    /\ SentOnce
    /\ OneSender
    /\ RecordedMeansDone
    /\ AcceptedStaysMarked

\* Every row leaves pending: it is delivered, suppressed or dead-lettered, though
\* its first job is lost and workers crash at any point.
EventuallySettled == (status = "pending") ~> (status # "pending")

\* notification-worker-common.ts: "so the DLQ can never fail a row whose lease is
\* still live".  The candidate is chosen before the row is locked.
DlqSparesLiveLease ==
    [][dlq /\ ~dlq' /\ lease = "live" => status' = status]_vars

\* notification-claim.ts: "If `send` throws, that is a definite failure".  A send
\* that times out after the message was accepted (delivery-provider.ts:35) is
\* released, and its retry delivers a second copy.
ThrowIsDefinite == External => accepted + disowned <= 1

\* notification-email.ts: "a resolved send is never repeated".  The digest sends
\* due rows that the catch-up hands to the claiming workers too.
NeverRepeated == accepted <= 1

\* notification-inbox.ts: the retry "writes exactly one inbox row".
OneInboxRow == inboxRows <= 1
=============================================================================
