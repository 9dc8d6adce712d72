# Project Vault: TLA+ verification

Project Vault is a multi-tenant secret manager: a Fastify API over PostgreSQL
(`apps/api`), background workers on a job queue, a web application and several
client packages. This directory models the parts of the API in which several
requests, workers and the passage of time act on the same rows, checks the
models with TLC and proves their safety properties with TLAPS.

## 1. Inventory

| Part | State | Operations | Interacts with | What is hard |
|---|---|---|---|---|
| Credential versions (`modules/credentials`) | `credentials.archived_at`, `credential_versions` (number, `promoted_at`, `abandoned_at`, `purged_at`, `rotation_locked_at`, overlap expiry) | create, add version, reveal, list, archive, unarchive | rotation, shares, retention worker | which version is "current" is computed in several places; some checks read without a lock |
| Rotation (`modules/rotation`) | `rotations` (status, version counter), checklist items | initiate, confirm / fail / retry item, complete, promote, retire, resume, abandon, break-glass | version rows, shares (promotion supersedes), workers | two families of advisory locks; compare-and-swap on a version loaded earlier |
| Rotation and retention workers | none of their own | recover stale, expire overlap, alert stale staged, prune versions | the rows above | candidate lists go stale; try-locks may lose |
| Shares (`modules/credential-shares`) | `credential_shares`, in-process deferred tasks | create, reveal, verify, revoke, expire, supersede | credentials, rotation, org membership, mail | read, decrypt, then claim; counting after the answer; process restarts |
| Machine users | `api_keys`, `machine_users` | issue, rotate with overlap, emergency revoke, deactivate, exchange | overlap worker, org-wide revocation | three revokers of one key |
| Sessions, CLI device | `sessions`, `refresh_tokens`, `user_sessions`, device grants | login, refresh, revoke, approve, poll, exchange | org revocation | grace windows, one-time claims, revocation between two transactions |
| Second factor and recovery | `mfa_enrollments`, recovery codes, used codes, recovery tokens, pending sessions | enrol, verify, recover, reset | sessions | user read before the transaction; memory of used codes is pruned |
| Vault key service | process-local keys and seal status | init, unseal, zero | everything that encrypts, `main.ts` | check-then-act across `await` |
| Audit logs | hash chain, usage counters, retention and quota settings | append, verify, purge with attested gap, reconcile | every write path | order of the chain under concurrent appends and purges; a sum written back later |
| Notifications | `notification_queue` with leases | enqueue, claim, send, record, release, catch up, dead-letter, webhook | workers, mail, Slack | crash between send and record |
| Projects, members, erasure | lifecycle columns, memberships, invitations, erasure requests | archive, delete, restore, purge, invite, transfer, erase | all of the above | guards evaluated before the rows they guard are locked |
| Monitoring | `service_endpoints`, `monitoring_alerts` | tick, probe, pause, snooze, dismiss, delete | notifications | a row read before a probe of seconds and written after it |
| Extensions | scheduled-task runs and attempts, watchdog episodes | tick, invoke, time out, page, resolve | extension code | handlers that outlive their time-out, failed writes of an outcome |
| Backup | `backup_runs`, files and sidecars, advisory lock | trigger, run, prune, restore, reconcile | job queue, file system, vault seal | crash between two of the steps, repeated jobs |

`PROJECT.json` lists every component with its status, and the hazards at the
lines where they bite.

## 2. Modules

A module models one component; its variables are columns, rows between two
steps of a request, and a few histories that only properties read. A step is a
database transaction, divided wherever the code reads without the lock its
writers take, awaits something outside, or commits. Requests may fail between
two steps, processes may die.

| Module | Models |
|---|---|
| `CredentialRotation` | one credential: versions, rotations, checklist, archival, four workers |
| `RotationSpec`, `RotationRefinement` | what a caller of reveal is promised, and the mapping under which `CredentialRotation` implements it |
| `ShareReveal`, `ShareCreation` | one share from insert to end; all shares of a credential with caps and mass closing |
| `OrgSession` | one user's sessions in one organization |
| `CliLogin` | one device grant, its user session and the credentials minted from it |
| `AccountRecovery` | one user's second factor and the ways back in without it |
| `MachineKeys` | the API keys of one machine user |
| `VaultSeal` | seal status and the four derived keys of one process |
| `AuditChain`, `AuditQuota` | one organization's hash chain; its write rate and storage quota |
| `NotificationDelivery` | one row of the notification queue |
| `HealthCheck` | one monitored endpoint and its alerts |
| `BackupRestore` | backups and restores of the instance |
| `ProjectLifecycle`, `ProjectMembers`, `Erasure` | projects with their invitations; who belongs to a project; the erasure of a person |
| `ScheduledTasks` | an extension's scheduled task and its watchdog |
| `CredentialRotationProofs`, `ShareProofs`, `AccessProofs`, `CustodyProofs`, `AuditProofs`, `AlertingProofs`, `JobProofs`, `TenancyProofs` | theorems about the modules above (section 5) |

### CredentialRotation

A version is its number; a rotation is named by the version it inserts
(`initiateRotation` and `breakGlassRotation` insert exactly one each).
`promotedAt` is an instant of a clock that advances with each promotion, because
`revealCurrentValue` orders by it; `abandoned`, `purged`, `rotationLocked` and
`overlap` are the versions whose column of that name is set. `itemStatus` and
`retryCount` are the checklist of the latest rotation.

* **Human operations** load a rotation under the rotation-scoped advisory lock
  (`LoadRotation`, `LoadItem`) and write it with a compare-and-swap on
  `rotations.version` (`ConfirmChecklistItem` ... `AbandonRotation`, or
  `CasLost`), or fail and release it (`RollBack`). A request that is refused with
  409 has taken the lock too, and holds it to the end of its transaction
  (`RefuseUnderLock`; on rotation 0 it is a refused initiation or break-glass
  under the credential-scoped lock). The operation in between is `op`; `op.fresh`
  says whether the comparison will succeed. Workers that only try the same lock
  (`RecoverStaleRotation`, `AlertStaleStaged`) are kept out by
  `RotationLockFree`; break-glass takes the credential-scoped lock and is not.
  One operation at a time is in flight: operations on the same rotation exclude
  each other by the lock, and at most one rotation of a credential is active.
* **Retention** lists (`PruneScan`), then re-checks and purges (`PrunePurge`) or
  rolls back (`PruneRollback`).
* **Add version** reads `archived_at` (`AddVersionCheck`) before the insert
  locks the credential (`AddVersionInsert`).

`Init` is a credential with its first version, or one that migration 0050 found
with a `stale_recovery` rotation: those exist in migrated databases and are the
only way to reach `in_progress` today.

**The promise.** `RotationSpec` knows no statuses, checklists, locks or workers.
It has the values a caller can obtain, the one that waits for its promotion, the
change under way and the values in an overlap window. Its steps publish, stage,
promote, settle, give up, replace, close a window and purge; a purge never takes
a protected value and never the last. `RotationRefinement` maps the served
values to the promoted versions that are neither purged nor abandoned and the
change to the active rotation; the run checks `ImplementsPromise` and
`CredentialRotationProofs` proves it, so every of the twenty-odd operations is one of those eight steps or changes nothing a
caller can see.

### Shares

`ShareReveal`: `share` fixes the kind of share; the other variables are the
columns of its row, the requests between read and claim (`holding`), the deferred
tasks of the process (`counting` by the two kinds of `expireIfDue`, `mailing`) and
a history. `RevealRead` is the
unlocked read and the decryption, `RevealClaim` / `RevealLost` the conditional
UPDATE that matches or does not. `CountLosingAttempt` is the deferred task,
`Restart` loses it. Codes and proofs are numbered by the mail that carried them.

`ShareCreation`: `phase` runs from `checked` (the preflight has passed) to the
share's status. `Preflight` and `Insert` are separate steps; the cap's count and
the insert are one, because the advisory lock of the bucket is held until commit.

### Access: OrgSession, CliLogin, AccountRecovery

In `OrgSession` a session and its refresh token have one number, the order of
insert. A login checks, drops sessions above the cap (`LoginCap` lists without
locking) and inserts; a refresh replaces the session (`RotateRefreshToken`) and a
repeated one is answered from the successor while the grace window lasts
(`GraceRefresh`). `BulkList` and `BulkRevoke` are the two halves of the mass
revocations. A request is checked in the order of `authenticate.ts`: token,
session, idle time, membership.

`CliLogin` follows the grant (`Deny`, `Approve` with step-up, the four poll
answers), the user session with its rotating token, and the exchange, which
verifies the session in one transaction (`Verify`) and mints in the next
(`ExchangeCommit`).

`AccountRecovery` numbers secrets, batches of recovery codes, links and
passwords. Codes of the authenticator are pairs of a secret and a counter; the
memory of used ones is pruned by age against the clock `step`, under the
configuration check of `env.ts` that the ASSUME repeats. Sign-ins and recoveries
that have checked a password are calls in flight, and so a reset can overtake
them. A completed recovery lists the sessions without a lock (`ListSessions`) and
revokes what it listed when it commits (`ResetPassword`): a session refreshed or
opened in between is not on the list, and user sessions of the CLI
(`cliPasswords`) are on none. `LoadedRow` is a choice where the query has no order
and two rows match.

### Custody: MachineKeys, VaultSeal

`MachineKeys`: a rotation holds the row lock of its key from `LockKey` to
`RotateKey` or `EmergencyRevoke`; the overlap worker and the alert job list first
(`RevokeSelect`, `AlertSelect`) and claim each key by a conditional update;
`BulkScan` and `RevokeOrgKeys` are the organization-wide revocation, which does
not see an uncommitted successor.

`VaultSeal`: module variables of one process, requests that run to their next
`await`, the hook of `main.ts` that starts the job queue and registers workers,
shutdown, kill and restart. A derivation is the pair of credential and salt.

### Audit: AuditChain, AuditQuota

A row's hash is its position in the chain; `created_at` is the start of its
transaction and may run against the position. `PurgeRead`, `PurgeDelete` and
`PurgeCommit` follow the retention job with its tombstone, `Vanish` is a row lost
behind the program's back. A verification fetches its range (`VerifyFetch`), looks
up the row before it (`VerifyLookBack`) and evaluates with the purge boundaries it
then reads: three statements at READ COMMITTED, between which writers and the
purge commit.
`AuditQuota` charges writers in their own transaction (`Gate`, `Commit`,
`Abort`), reconciles counters (`ReconSum`, `WriteBack`), raises alert episodes
and lets operators change the settings by read-merge-write. The gate reserves an
estimate (`Sizes`), the row is stored with the size it has (`StoredSizes`) and the
reconciliation sums what is stored; `since`, `short` and `undone` account for the
difference.

### NotificationDelivery, HealthCheck, ScheduledTasks, BackupRestore

`NotificationDelivery`: a handler claims with a lease and a fence, marks the send
as started, sends, records or releases; it may crash between any two. An
interrupted send may or may not have been accepted, and so may one that throws:
the claim is then released and the retry sends again (`disowned` counts the
messages a throw denied). Catch-up, dead-letter
cleanup, digest and the provider's webhook act on the same row.

`HealthCheck`: a tick reads the endpoint's row under an advisory lock, probes,
reads the row again without a lock (`Recheck`) and writes what the first reading
makes of the answer (`ApplyHealthCheckResult`), with the alert and its queued
message in the same transaction. Members pause, change the threshold, delete
(`DeleteStart` chooses the alerts to resolve, `DeleteCommit` deletes), snooze
(read, then write) and dismiss. A snooze refuses dismissed alerts only, so it may
open one that a deletion resolved (`reopened`).

`ScheduledTasks`: a tick reads the due organizations once and invokes under a
concurrency limit and a time-out; a handler that timed out keeps running
(`LateEnds`); writes of the outcome may fail; the watchdog is a job of its own.

`BackupRestore`: a backup dumps, writes the file, then its sidecar, then settles
its row; a restore replaces the database under an advisory lock. An unlock that
throws returns a pooled connection that still holds the lock (`Leaked`), which
then refuses those that are not handed that connection until the process ends. `Crash` and
`Boot` may come between any two steps, and pg-boss repeats jobs.

### ProjectLifecycle, ProjectMembers, Erasure

The four lifecycle handlers lock the project row; the other handlers pass the
deleted-project gate and write in a later step. The purge worker works from a
list. `ProjectMembers` divides every change at its unlocked reads and keeps the
row locks that the code takes; a change carries the standing of the member that
its guards saw. In `Erasure` an execution reads, counts memberships elsewhere,
claims and erases, while requests of the same user have checked and not yet
inserted. Sessions are kept by organization, because an erasure scrubs those of
the executing one only. A sign-in through a linked identity and an
administrator's recovery link also begin after the erasure.

## 3. Runs

Modules that share no row are checked together in one run: `component` is
chosen initially and says which of them moves, the others stay as they were.
The reachable states are the disjoint union of what each module alone would
reach, so each module is explored in full (two exceptions follow) and no interleaving is lost that
could matter, because none of their actions reads a variable of another. A
module with several initial states has one of them while another module moves.
Fairness is guarded by `component` and is void for a module that does not move.
Constant and variable names are unique over the modules of a run.

| Run | Module | Bounds | Checks |
|---|---|---|---|
| `rotation_safety` | `MCCredentialRotation` | 4 versions, 1 dependency, 1 retry, retention 1 | `IndInv`, `AlwaysServable`, `FallbackProtected`, `GivenUpStaysGivenUp`, `CurrentNotPurgedInOrder`, `ImplementsPromise` |
| `rotation_liveness` | `MCCredentialRotation` | 3 versions, else the same | `WorkersProgress` |
| `custody` | `MCCustody` | 2 reveal requests, budgets of 2; 2 shares, 2 fields, cap 1; 2 vault requests, 2 credentials, 1 restart; 2 keys, 2 jobs | `RevealSafe`, `CreationSafe`, `VaultSafe`, `MachineSafe`, `RotatedFieldsClosed`, `RefusalHarmless`, `DueEventuallyCloses`, `HookRegistersOrFails`, `OverlapEnds` |
| `access` | `MCAccess` | 3 sessions, cap 1; 2 browsers, 3 tokens, 2 credentials; 2 requests, 2 secrets, 2 batches, 1 link, clock to 2 | `SessionSafe`, `SessionSteps`, `CliSafe`, `CliSteps`, `AccountSafe` |
| `unattended` | `MCUnattended` | 2 administrators, 3 keys, 1 job; 2 ticks, 2 members, thresholds to 2, 2 alerts | `MachineSafe`, `HealthSafe` |
| `audit` | `MCAudit` | 2 writers, 4 rows, 1 loss, one verification; 2 charged writers, estimates of 2 for stored sizes 1 and 3, quotas 3 and 4, 1 operator, 1 change of settings | `ChainSafe`, `QuotaSafe`, `QuotaSteps` |
| `notification` | `MCNotificationDelivery` | 2 handlers, 5 kinds of row, 3 attempts, 2 sends | `DeliverySafe`, `RankForward`, `EventuallySettled` |
| `backup_restore` | `BackupRestore` | 2 runs, 2 executions, 1 restore, 1 crash, 1 retry | `BackupSafe`, `SlotFreedAfterCrash` |
| `tenancy` | `MCTenancy` | 1 project, 2 invitations, 2 requests, 2 purge runs; 3 users, 2 changes; 2 organizations, 2 erasures, 1 writer | `ProjectSafe`, `ProjectSteps`, `EventuallyPurged`, `MembersSafe`, `ErasureSafe`, `OtherOrgOnlyOvertaken` |
| `scheduled_tasks` | `MCScheduledTasks` | 2 organizations, 2 ticks, 1 fault | `ScheduleSafe`, `IntervalRespected`, `ScheduleProgress` |
| `rotation_prune_current` | `MCCredentialRotation` | 4 versions, no dependencies | violated: finding 1 |
| `recovery_factor` | `AccountRecovery` | 1 request, 2 secrets, 1 link | violated: finding 2 |

The `...Safe` invariants and `...Steps` action properties are conjunctions of
parts defined just before them, each with its own comment: for instance
`AccountSafe` is `AccountTypeOK`, `NoTotpReplay`, `RecoveryCodeOnce`,
`OldPasswordOnlyOvertaken` and `EnrolledCanAnswer`.

**Why the bounds are enough to be interesting.** Four versions allow a rotation
on top of a break-glass on top of an added version, which is where fallback,
overlap and retention meet; with retention 1 everything that can be purged is.
One dependency distinguishes empty, pending and confirmed checklists, and one
retry reaches both sides of the limit. Two of anything that competes (requests,
handlers, administrators, ticks, worker runs, changes) make every pairwise
race; budgets of two have a last-but-one attempt. Three sessions are a session,
its successor and a second login at a cap of one. Three keys are a key, its
successor and the successor of that. Four rows of the chain allow a purge, a
survivor, a loss and an append behind it. Two alerts are an outage and its
recovery, a threshold of two has a degraded state in between. Three TOTP
steps (0 to 2) let a used code be forgotten after it ceased to be valid. A stored size on
each side of the estimate lets the counter err in both directions.

Some branches lie outside these bounds. One restore is never refused by another,
one fault leaves one of two organizations readable to the watchdog, and one writer
of `Erasure` meets erasures and no second writer. The proofs of section 5 cover
these cases for the safety properties.

`audit` and `unattended` check one module in two restrictions, to keep within
these bounds: the chain with all writers and no verification, and with a verification
beside one writer at a time and the purge, which ends in the tick it began in;
health checks with changing settings and one member's request at a time, and with
fixed settings and two requests. The proofs are of the modules without them.

Symmetry is used for interchangeable writers, administrators and requests, in
runs without liveness properties only. Deadlock is checked where the system
never stops; the other configurations bound counters, and their models end when
the bounds are used up.

**Fairness.**

* *Rotation.* `WorkerFairness`: the cron-driven workers run again and again, and a
  loaded operation ends, because its transaction commits or is rolled back.
  `RecoverStaleRotation` and the overlap worker skip a row whose lock is taken.
  Operations that commit run out: retries are bounded and a confirmed item is not
  confirmed twice. Requests that are refused or fail do not, and could hold the
  lock at every run of a worker; `WorkersProgress` therefore names as its premise
  that they end (`EmptyHandsEnd`). Without it TLC shows the starvation. Nothing
  obliges a person to act.
* *Shares.* The hourly sweep runs (`ExpireIfDue`).
* *Machine keys.* The overlap worker runs every five minutes; the claim of a row
  another transaction holds waits and comes through (strong fairness), since
  those transactions end; overlap windows elapse.
* *Vault.* A request in flight is answered by its own continuation.
* *Notifications.* Catch-up and cleanup are cron jobs, handlers end or are expired
  by pg-boss, leases lapse. A process may crash at every attempt, but not each
  time just before its claim (strong fairness of the claim). A run of the cleanup
  may fail, but not every run (strong fairness of `DlqFail`). Digest and webhook
  may never come.
* *Backup.* Requests and handlers run on, the supervisor restarts a dead process
  and an operator unseals it.
* *Projects.* A request is answered; the hourly purge runs to the end of its list.
* *Scheduled tasks.* Only the watchdog and the clock are sure to run, the tick
  may hang or never start; the property that a due organization is attempted
  names the tick's fairness as its premise.

## 4. Findings

Two runs are expected to fail, each on a sentence of the repository:

1. `PruneKeepsCurrent` (`workers/prune-credential-versions.ts:66`): initiate
   (version 2 staged), add version 3, promote version 2. Reveal now serves
   version 2 (latest `promoted_at`), the retention worker protects version 3
   (highest number) and purges version 2. `CurrentNotPurgedInOrder` shows that
   promotion out of order is the only way.
2. `RecoveryKeepsFactor` (`modules/auth/mfa.ts:239`): the query for the staged
   enrolment names the user and not the status. When a confirmed row exists, alone
   or beside a staged one, the completion of a recovery may load it, delete it as the old enrolment and
   then update nothing: the user is marked as enrolled and has no authenticator.

The modules state further expectations taken from comments and documents, under
a heading of their own or beside the property that holds instead. TLC refutes
each of them when it replaces the properties of the run that covers the module
(`PartialUpdateKeepsOther` needs two operators and two changes, `OneLiveLink`
two links). Where one fails because a transaction was overtaken between check
and write, a checked property says that this is the only way (`...Overtaken`,
`OwnerLostOnlyStale`, `DeletedLeavesOnlyMissed`, `LeftOrWrittenSince`,
`NoFalseAlarm`, `StoredCovered`).

| Expectation | Where | What happens |
|---|---|---|
| `ListAgreesWithReveal` | `credentials/service.ts:231` | in the state of finding 1 the credential list reports version 3 |
| `ArchivedNotModified` | `credentials/archive-guards.ts:7` | break-glass, and an add-version request past its check, insert a version into an archived credential |
| `InProgressNotCurrent` | `rotation/service.ts:2157` | a migrated stale rotation that is resumed is in_progress with its new version current; break-glass abandons a served value |
| `NoShareOfArchived` | `credential-shares/service.ts:182` | an archival between a share's preflight and its insert leaves an active share |
| `UnrelatedShareUntouched` | `credential-shares/service.ts:884` | a field-scoped rotation supersedes every share scoped by attribute_keys, related or not |
| `NoSessionMissed` | `auth/session-revoke.ts:412` | a refresh that commits while the bulk UPDATE waits for the old row leaves its new session live |
| `CapRespected` | `docs/configuration.md:54` | a session refreshed between the list and its revocation is replaced by one the login does not count |
| `RevokedSessionHasNoCredential` | `user-sessions.ts:53` | an exchange verified before the revocation mints after it |
| `IdleSessionInvalidated` | `docs/configuration.md:52` | the error that reports an idle user session rolls back the revocation written before it |
| `OneLiveLink` | `auth/recovery-lookup.ts:95` | two requests at once each supersede the links they see and both insert |
| `RecoveryEndsSessions` | `auth/recovery.ts:428` | the user sessions of the CLI are on no organization's list and outlive the password |
| `ThrowIsDefinite` | `notification-claim.ts:17` | a send that times out after the message was accepted is released and repeated |
| `DlqSparesLiveLease` | `notification-worker-common.ts:12` | the cleanup re-checks the rank of the status, not the lease |
| `NeverRepeated` | `notification-email.ts:368` | the digest sends a due row without claiming it, the catch-up hands the same row to a worker |
| `OneInboxRow` | `notification-inbox.ts:24` | a handler that outlives its lease inserts after the next claimer has |
| `EmptyPurgeLeavesNoGap` | `audit-retention-prune.ts:40` | an append that read the chain head before a purge of everything links to a purged row |
| `PurgeOrphansOneHash` | `audit-retention-prune.ts:36` | the purge selects by created_at, the survivor is the first by chain_seq |
| `PurgeNeverReported` | `audit/verify.ts:360` | a row purged between its fetch and the look-back has lost its predecessor, and no boundary names its link |
| `DriftOneDirectional` | `docs/design/audit-quota.md:209` | a row larger than its estimate; a write committed between the sum and its write-back, which forgets it |
| `RunCorrectsCounter` | `docs/design/audit-quota.md:121` | an organization without entries is in no group of the sum |
| `EpisodeAnnounced` | `lib/threshold-alerts.ts:22` | the episode is stored in one transaction and its message queued in another |
| `PartialUpdateKeepsOther` | `audit/quota-config.ts:113` | of two operators who each change one field, the later restores the other's old value |
| `NullFallsBack` | `audit/quota-config.ts:63` | a stored null quota means unlimited to the storage gate, whatever the default |
| `BulkReachesAll` | `auth/session-revoke.ts:476` | the revocation does not see a successor key not yet committed |
| `NoKeyAfterDeactivation` | `docs/machine-users.md:360` | rotation and emergency revocation issue keys for a deactivated machine user (they cannot be exchanged) |
| `UnsealAllOrNothing` | `docs/runbooks/vault-lifecycle.md:276` | a failing hook fails the request and leaves the vault unsealed |
| `RegisteredOnce` | `main.ts:218` | two concurrent unseals both register the workers |
| `NoKeysAtExit` | `vault/key-service.ts:654` | an unseal in flight at shutdown caches the keys again |
| `RestoreExcludesBackup` | `docs/runbooks/backup-restore.md:109` | a manual backup's job outlives the process whose row was reconciled |
| `RunningIsAlive` | `docs/runbooks/backup-restore.md:52` | a slot is taken and its job never sent; triggers are refused until the next start |
| `NoLeakedLock` | `backup/service.ts:266` | an unlock that throws leaves the lock with the pooled connection |
| `DeletedIsArchived` | `projects/project-lifecycle.ts:32` | an unarchive past the gate clears archived_at of a project deleted meanwhile |
| `NoJoinAfterArchive` | `invitations/token-routes.ts:143` | archived check and membership insert are two statements without a lock |
| `NotBothAcceptedAndRevoked` | `invitations/lookup.ts:65` | the revocation's UPDATE names the id only |
| `DeletedHasNoPending` | `projects/routes.ts:1691` | an invitation past its check is inserted after the delete revoked the pending ones |
| `ProjectHasOwner` | `projects/routes.ts:1276` | a transfer makes the member owner between the role's read and the delete |
| `MembersAreOrgMembers` | `org/routes.ts:690` | an acceptance saw the organization membership that a removal deletes |
| `OtherOrgSpared` | `compliance/erasure-routes.ts:194` | a membership added between the count and the claim is erased with the account |
| `NoPersonalDataLeft` | `compliance/erasure-service.ts:388` | sessions of organizations the user left keep their data; a sign-in, recovery or enrolment past its checks, or begun later, inserts its row |
| `NoOverlappingHandlers` | `packages/extension-api/README.md:96` | a handler that timed out keeps running and is invoked again |
| `HealthyHasNoEpisode` | `monitoring/service.ts:813` | raising the threshold in an outage leads from down through degraded to healthy without a recovery |
| `PausedStaysQuiet` | `monitoring/service.ts:838` | a pause between the second reading, which takes no lock, and the update |
| `ResolvedIsTerminal` | `monitoring/service.ts:701` | a snooze refuses dismissed alerts only |
| `NoDanglingSnooze` | `monitoring/service.ts:701` | a snooze commits after the deletion resolved its alert |
| `DismissedIsPermanent` | `monitoring/service.ts:1026` | a snooze that read the alert before writes over the dismissal |

## 5. Proofs

Every safety invariant and every action property that a passing run checks is also
proved, for every value of the constants that the named ASSUMEs admit. For
each module the argument is the same: an inductive invariant (`...Ind`, `IndInv`)
that the initial states satisfy and every action keeps, one step per action and
under it one per conjunct the action can disturb; the run's invariant follows
from it, the action properties follow from it step by step.

| Module | Theorem | Property |
|---|---|---|
| `CredentialRotationProofs` | `InductiveInvariant`, `TypeCorrect`, `CredentialAlwaysServable`, `FallbackAlwaysProtected`, `OverlapAlwaysProtected`, `ArchivedIsQuiet` | `IndInv` and its parts |
| | `StatusAlongGraph`, `GivenUpForGood`, `CurrentKeptInOrder` | action properties |
| | `RotationKeepsPromise` | `ImplementsPromise`, the refinement of `RotationSpec` |
| `ShareProofs` | `RevealAlwaysSafe`, `CreationAlwaysSafe`, `PromotionClosesRotatedFields` | `RevealSafe`, `CreationSafe`, `RotatedFieldsClosed` |
| `AccessProofs` | `SessionAlwaysSafe`, `SessionStepsHold`, `CliAlwaysSafe`, `CliStepsHold`, `AccountAlwaysSafe` | `SessionSafe`, `SessionSteps`, `CliSafe`, `CliSteps`, `AccountSafe` |
| `CustodyProofs` | `VaultAlwaysSafe`, `RefusalIsHarmless`, `MachineAlwaysSafe` | `VaultSafe`, `RefusalHarmless`, `MachineSafe` |
| `AuditProofs` | `ChainAlwaysSafe`, `QuotaAlwaysSafe`, `QuotaStepsHold` | `ChainSafe`, `QuotaSafe`, `QuotaSteps` |
| `AlertingProofs` | `DeliveryAlwaysSafe`, `RankOnlyForward`, `HealthAlwaysSafe` | `DeliverySafe`, `RankForward`, `HealthSafe` |
| `JobProofs` | `ScheduleAlwaysSafe`, `IntervalAlwaysRespected`, `BackupAlwaysSafe` | `ScheduleSafe`, `IntervalRespected`, `BackupSafe` |
| `TenancyProofs` | `ProjectAlwaysSafe`, `ProjectStepsHold`, `MembersAlwaysSafe`, `ErasureAlwaysSafe`, `OtherOrgErasedOnlyOvertaken` | `ProjectSafe`, `ProjectSteps`, `MembersSafe`, `ErasureSafe`, `OtherOrgOnlyOvertaken` |

**Assumptions.** Bounds and limits are natural numbers, positive where zero would
leave nothing to model or the configuration forbids it, and at least two versions,
because a migrated credential has two. The sets of processes that a history counts are finite. The used-code
retention exceeds the acceptance window, as `env.ts` enforces. The value "none"
that marks a free advisory lock is no writer (`AuditChain`, `AuditQuota`), and 0,
which marks a free restore lock, no restore (`BackupRestore`).

### Rotation

`IndInv` adds to the invariants:

* `OneActive`: at most one rotation is active. The partial unique index says so
  for inserts; the proof needs it to know whose fallback a step touches.
* `FallbackBefore`: the fallback precedes the new version, nothing live lies
  between them, and it is not on the retention worker's list. Without the last
  part a stale list could purge it after the unlock at `retire`.
* `UnpromotedIsStaged`: only a staged rotation's version is live and unpromoted,
  so whatever `lockCurrentNonPurgedVersion` picks is servable.
* `NewVersionOrNewer`: a rotation's new version was not given up, and if the
  retention worker purged it, a newer servable one exists. This is what carries
  `AlwaysServable` through `retire`.
* `OverlapSuperseded`: a version in its overlap window is live and outranked.
* `CandidatesOutranked`: every live version on the retention worker's list, however
  old the list, is outranked by a servable version that is not on it. This is why the
  purge cannot empty the history, and the reason for the worker's special
  treatment of the first version that is not abandoned.
* `LoadedStillHolds`: if the compare-and-swap will succeed, the status is still
  one the operation accepts.

The existence of a highest version (`MaxExists`) rests on the well-foundedness of
`<` on the naturals. `CurrentKeptInOrder` follows from `CandidatesOutranked` and
`NewVersionOrNewer`: whatever a purge or a retirement takes is outranked by a
servable version with a higher number, and then is not the current one as long as
promotions follow the numbers.

The refinement needs one more fact, `FutureUnpromoted` (a number not given out
carries no promotion), so that `initiateRotation` inserts a version nobody can
obtain. Each writing action is shown to be one action of `RotationSpec` over the
mapped variables `Served`, `Waiting` and `Changes` (`AddIsPublish`,
`InitiateIsStage`, ... `PruneIsPurge`), the others leave those alone
(`QuietForPromise`); that a settlement or a purge leaves something to serve is
`AlwaysServable` after the step.

### Shares

`RevealInd`: an active share was not expired before and, if single-use, has
delivered nothing (`ActiveIsUntouched`), which is all the claim's
`WHERE status = 'active'` can rely on after a stale read; a request that passed the
gate holds a proof from a mail (`ProofsWereMailed`); attempts counted and attempts
still deferred stay within the bound (`MissesBounded`). `CreationInd`: the cap holds
per set of fields, whether or not a share of that scope exists (`BucketsCapped`,
since a preflight may move a share to any bucket), and a creation checked before
an archival or a deactivation is marked as overtaken (`CheckedWasOvertaken`).

### Access

`SessionInd`: a used token's session is revoked and succeeded within its login
(`ChainsLinked`), live sessions belong to different logins (`LiveApart`), a mass
revocation has listed all that was live when it read (`BulkListsLive`), and a login
that has listed enough to drop keeps its place under the cap unless one of those
was refreshed (`CapReserved`). `CliInd`: the grant is consumed exactly when it has
issued (`ConsumedByIssue`), refresh tokens are used in the order of issue
(`TokensInLine`). `AccountInd`: an accepted code is forgotten only after its time to
live (`RecentCodesKept`, from which `NoTotpReplay`), unused recovery codes are of
the newest batch (`CodesFromNewest`), a sign-in under way checked the password in
force or was overtaken (`HeldCurrent`), a completion that has listed the sessions
knows all but those opened or refreshed since (`ResetOK`), and each reset spends a link
(`LinksPayResets`), which bounds the passwords.

### Custody

`VaultInd`: a request between deriving and committing holds a derivation, and the
init that stored the row holds the row's own (`HeldKeysMatch`). `MachineInd`: the row
lock is exclusive and what was checked under it still holds (`LockExclusive`), a
selected key's window is over for good (`SelectionsIssued`), and exactly the replaced
keys have a successor (`ReplacedHasSuccessor`), from which `OneSuccessor` and
`ZeroDowntime`.

### Audit

`ChainInd`: a row points at or behind every earlier row that is present
(`LinksClimb`), the holder of the lock has read the tail (`LockedSeesTail`), unless the
log was disturbed every link is present or attested (`LinksKnown`), and what the
retention job read stays true until it commits (`PurgeKnows`). For a verification
under way (`VerifyOK`) the fetched rows climb, the row found before them is still
the nearest present one before each that is, and what was lost before the fetch is
in neither; hence a fetched row that is still there raises no alarm, whatever was
purged between the statements. `QuotaInd`: the reservation in flight is part of the
counter (`ReservationHeld`), the sum to be written back covers what is stored but
for the entries written since, at their estimates and what they exceed them by
(`SumBounds`), and the counter is the last sum with what came since
(`DriftBounded`); admitted writes are among the counted ones (`AdmittedCounted`).

### Alerting

`DeliveryInd`: attempts are fences, so no two handlers hold the same one
(`ClaimsApart`), a sender holds the newest and the row carries its mark
(`SenderOwns`), and once a message was accepted nobody who could send or release
holds the newest attempt (`AcceptedSettled`); messages, denied ones included, never
outnumber the attempts (`SendsCounted`). `HealthInd`: the lock makes the row a
tick read the row it overwrites (`OneTick`, `RowKept`); unless the threshold was
raised, the parity of the alerts tells whether the endpoint is down
(`TurnsCounted`); a deletion has listed all that is open, active or snoozed, but
what came or was reopened since (`RequestsOK`).

### Jobs

`ScheduleInd`: ticks exclude each other (`TicksApart`) and an organization on a due
list is still due (`TodoIsDue`), from which `IntervalRespected`. `BackupInd`: the lock
is held by exactly the restore past taking it (`LockExact`), which sees no row
running (`NoneRunning`); a trigger that has not sent its job has nobody executing its
run (`TriggerFirst`); while no job was repeated and no restore rolled rows back, an
execution's files are its own (`OwnFiles`), retention has selected only what it
would select now (`PruneOnlyOld`) and what it keeps has file and sidecar
(`KeptHasFiles`).

### Tenancy

`ProjectSafe` is inductive as it stands. `MembersInd`: at most one transfer holds the
owner's row (`LockedAlone`), and a change under way has seen a standing its guards
admit (`SeenAdmitted`). `ErasureInd`: a claimed row is open and claimed once
(`ClaimedAlone`), an execution that has counted knows all memberships but those
added since (`CountedMembers`), and each kind of remaining data has its reason
(`DataExplained`), where an enrolment under way that no erasure overtook still has
the session it came from.

### Only model-checked

The prover handles neither fairness nor ENABLED, so the liveness properties stay
with TLC: `WorkersProgress`, `DueEventuallyCloses`, `HookRegistersOrFails`,
`OverlapEnds`, `EventuallySettled`, `SlotFreedAfterCrash`, `EventuallyPurged` and
`ScheduleProgress`. The two findings and the refuted expectations of section 4 are
counterexamples and need no proof.

## 6. Not modelled

Most of the repository's lines are not in any module's map, and most of those
have no behaviour a model checker could tell apart. The web application (pages,
components, composition registry), request and response schemas, OpenAPI
generation, route registration and its exemption lists, configuration parsing,
e-mail templates, translations, migrations and generated types are declarative
or a single function of their input. Within the modelled files, validation of
input, serialization, audit payloads and logging are left out.

Left out throughout: cryptography, field values and their normalisation,
authorization rules, row-level security (each module is one organization, or one
project of it), wording. The audit row written beside each transition is in the
same transaction and fails it; its effect on a model is a step that does not
happen, which every action allows.

* *Rotation.* A deactivated initiator's rotations use `abandonRotation` under the
  same locks and are not a separate action.
* *Locks on a connection.* A restore and a scheduled tick hold an advisory lock on
  a connection of their own. The loss of that connection while the body runs, which
  would admit a second one, is not modelled.
* *Purge of projects.* The limit of 100 projects per run is left out; a later run
  takes the rest.
* *Project export and import.* An import is one transaction after validation; the
  interesting part is the mapping of a file, not an order of steps.
* *SSO, handoff, delegation.* External identity providers; one-time claims of the
  same shape as the device grant's.
* *Audit forwarding and export, platform audit.* Readers of the chain; the platform
  log repeats `AuditChain` without organizations.
* *Failed-auth throttling.* A count per window in one statement.
* *Monitoring records, status pages, dashboard, search.* Create, update and read of
  single rows.
* *Extension loader and API.* External code; only the scheduled tasks act on rows.
* *Agent, CLI.* Clients of the API.

## 7. Plan

1. Abstract specifications for further components, of the kind `RotationSpec` is for
   rotation: at-most-once delivery for `NotificationDelivery`, a one-time secret for
   `ShareReveal`; each checked as a PROPERTY and then proved from the inductive
   invariants above.
2. Action properties of `MachineKeys`, `HealthCheck` and `BackupRestore`, which have
   invariants and liveness only.
3. The parts marked partly modelled in `PROJECT.json`, where they have state that
   several actors share.
