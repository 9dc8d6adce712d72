----------------------------- MODULE AuditQuota -----------------------------
(***************************************************************************)
(* The gates every audited write of one organization passes, inside the    *)
(* writer's own transaction: the write rate of the current window, then    *)
(* the storage quota, both counters of the organization's usage row; the   *)
(* weekly reconciliation of the counters with the stored rows, its tiered  *)
(* alert, and the operator's change of quota and rate.                     *)
(* modules/audit/quota-gate.ts, modules/audit/quota-config.ts,             *)
(* workers/audit-org-usage-reconcile.ts, lib/threshold-alerts.ts.          *)
(*                                                                         *)
(* The usage row stays locked from the first gate to the end of the        *)
(* transaction.  Both kill switches are on.  The gate reserves an estimate *)
(* of the entry's size; what is stored is pg_column_size of the row, which *)
(* may be more or less, and is what the reconciliation sums.  The pre-auth *)
(* counters, which no decision reads, are left out, and so a pre-auth      *)
(* write is one that changes nothing here.                                 *)
(***************************************************************************)
EXTENDS Naturals, FiniteSets

CONSTANTS Charges,        \* transactions that write audit entries
          Operators,      \* platform operators who change quota and rate
          Sizes,          \* estimated sizes of an entry
          StoredSizes,    \* sizes of a stored entry
          Quotas,         \* quota_bytes an operator may set
          Rates,          \* write_rate_per_minute an operator may set
          DefaultQuota,   \* AUDIT_ORG_DEFAULT_STORAGE_QUOTA_MB, 0 for none
          DefaultRate,    \* AUDIT_ORG_DEFAULT_WRITE_RATE_PER_MIN, 0 for none
          EntrySize,      \* estimate of the entry that records a quota change
          MaxUsed,        \* bound on the counters
          MaxCount,       \* bound on the writes of one window
          MaxChanges      \* bound on the operator's changes

Null == 0                 \* a null column; no quota or rate is 0
Keep == {}                \* the field is absent from the request
Given(values) == {{v} : v \in values \cup {Null}}

ASSUME QuotaBounds ==
    /\ IsFiniteSet(Charges) /\ IsFiniteSet(Operators) /\ "none" \notin Charges
    /\ Sizes \subseteq Nat \ {0} /\ StoredSizes \subseteq Nat \ {0}
    /\ Quotas \subseteq Nat \ {0} /\ Rates \subseteq Nat \ {0}
    /\ DefaultQuota \in Nat /\ DefaultRate \in Nat /\ EntrySize \in Nat \ {0}
    /\ MaxUsed \in Nat /\ MaxCount \in Nat /\ MaxChanges \in Nat

VARIABLES used,       \* audit_org_storage_usage.bytes_used
          count,      \* rate_window_count
          window,     \* rate_window_reset_at lies ahead
          config,     \* the audit_storage_quota_config row
          stored,     \* bytes of the committed entries
          charge,         \* each writer's transaction
          locked,     \* the transaction that holds the usage row's lock
          operator,   \* each operator's transaction
          recon,      \* the reconciliation
          warning,    \* threshold of the active warning episode, 0 for none
          critical,   \* the critical episode is active
          changes,    \* bound: operator changes made
          summed,     \* history: the last sum that was written back
          since,      \* history: estimates of the entries committed after it
          short,      \* history: what those entries exceed their estimates by
          undone,     \* history: estimates the write-back took out of the counter
          told,       \* history: the episodes whose message was queued
          admitted    \* history: ordinary writes admitted in the window

usage == <<used, count, window>>
drift == <<summed, since, short, undone>>
alertVars == <<warning, critical, told>>
quotaVars == <<usage, config, stored, charge, locked, operator, recon, alertVars, changes,
          drift, admitted>>

NoGate == [at |-> "idle"]
NoRow == [row |-> FALSE, quota |-> Null, rate |-> Null]

QuotaInit ==
    /\ used = 0 /\ count = 0 /\ window = FALSE /\ config = NoRow /\ stored = 0
    /\ charge = [w \in Charges |-> NoGate] /\ locked = "none"
    /\ operator = [o \in Operators |-> NoGate]
    /\ recon = NoGate /\ warning = 0 /\ critical = FALSE /\ changes = 0
    /\ summed = 0 /\ since = 0 /\ short = 0 /\ undone = 0 /\ told = {} /\ admitted = 0

-----------------------------------------------------------------------------
\* The value that stands for "unlimited".
Unlimited == MaxUsed + 1

(* The storage gate: a configuration row wins outright, its null included.   *)
EffectiveQuota(cfg) ==
    CASE cfg.row /\ cfg.quota # Null -> cfg.quota
      [] cfg.row /\ cfg.quota = Null -> Unlimited
      [] ~cfg.row /\ DefaultQuota > 0 -> DefaultQuota
      [] OTHER -> Unlimited

(* The rate gate: a null rate in the row falls back to the default.          *)
EffectiveRate(cfg) ==
    CASE cfg.rate # Null -> cfg.rate
      [] cfg.rate = Null /\ DefaultRate > 0 -> DefaultRate
      [] OTHER -> Unlimited

(* The bounds of the instance.                                               *)
Bounded(n) == used + n <= MaxUsed /\ count < MaxCount

Classes == {"ordinary", "exempt"}

NewCount == IF window THEN count + 1 ELSE 1

RateAdmits(class) == class = "exempt" \/ NewCount <= EffectiveRate(config)

\* Mutant of StorageAdmits: the size of the new entry is not counted.
StorageAdmitsFull(class, n) == class = "exempt" \/ used <= EffectiveQuota(config)

StorageAdmits(class, n) ==
    class = "exempt" \/ used + n <= EffectiveQuota(config)

-----------------------------------------------------------------------------
(* assertOrgMayWriteAuditGates: the rate gate, then the storage gate; the    *)
(* window starts over when it has ended.                                     *)
Gate(w, class, n) ==
    /\ charge[w] = NoGate /\ locked = "none" /\ Bounded(n)
    /\ RateAdmits(class) /\ StorageAdmits(class, n)
    /\ charge' = [charge EXCEPT ![w] = [at |-> "gated", class |-> class, size |-> n,
                 count |-> count, window |-> window, admitted |-> admitted]]
    /\ locked' = w
    /\ used' = used + n /\ count' = NewCount /\ window' = TRUE
    /\ admitted' = (IF window THEN admitted ELSE 0) + (IF class = "ordinary" THEN 1 ELSE 0)
    /\ UNCHANGED <<config, stored, operator, recon, alertVars, changes, drift>>

(* An entry with this estimate is stored; the sums still to be written back  *)
(* do not hold it.                                                           *)
Over(m, n) == IF m > n THEN m - n ELSE 0

Stored(n) ==
    \E m \in StoredSizes :
        /\ stored + m <= MaxUsed /\ stored' = stored + m
        /\ since' = since + n /\ short' = short + Over(m, n)
        /\ recon' = IF recon = NoGate THEN recon
                    ELSE [recon EXCEPT !.since = @ + n, !.short = @ + Over(m, n)]
        /\ UNCHANGED <<summed, undone>>

(* The writer's transaction commits with its entry.                          *)
Commit(w) ==
    /\ charge[w].at = "gated"
    /\ Stored(charge[w].size)
    /\ charge' = [charge EXCEPT ![w] = NoGate] /\ locked' = "none"
    /\ UNCHANGED <<usage, config, operator, alertVars, changes, admitted>>

\* Mutant of Abort: the reservation outlives the transaction.
AbortKeeping(w) ==
    /\ charge[w].at = "gated"
    /\ charge' = [charge EXCEPT ![w] = NoGate] /\ locked' = "none"
    /\ UNCHANGED <<usage, config, stored, operator, recon, alertVars, changes,
                   drift, admitted>>

(* The writer's transaction fails after its gates: what they counted is      *)
(* rolled back with it.                                                      *)
Abort(w) ==
    /\ charge[w].at = "gated"
    /\ used' = used - charge[w].size /\ count' = charge[w].count /\ window' = charge[w].window
    /\ admitted' = charge[w].admitted
    /\ charge' = [charge EXCEPT ![w] = NoGate] /\ locked' = "none"
    /\ UNCHANGED <<config, stored, operator, recon, alertVars, changes, drift>>

(* The window's time is over; a transaction that runs sees the time of its   *)
(* start.                                                                    *)
WindowEnds ==
    /\ window /\ locked = "none"
    /\ window' = FALSE
    /\ UNCHANGED <<used, count, config, stored, charge, locked, operator, recon,
                   alertVars, changes, drift, admitted>>

(* The retention purge removes stored entries and leaves the counters.       *)
Purge ==
    /\ \E n \in StoredSizes \cup {stored} :
         n <= stored /\ n > 0 /\ stored' = stored - n
    /\ UNCHANGED <<usage, config, charge, locked, operator, recon, alertVars,
                   changes, drift, admitted>>

-----------------------------------------------------------------------------
(* resolveUnchangedField.                                                    *)
Merged(input, existing) == IF input = Keep THEN existing ELSE CHOOSE v \in input : TRUE

(* setOrgAuditQuota reads the existing row before it writes.                 *)
QuotaRead(o, q, r) ==
    /\ operator[o] = NoGate /\ changes < MaxChanges
    /\ <<q, r>> # <<Keep, Keep>>
    /\ operator' = [operator EXCEPT ![o] = [at |-> "read",
          quota |-> Merged(q, config.quota), keepQuota |-> q = Keep,
          rate |-> Merged(r, config.rate), keepRate |-> r = Keep]]
    /\ changes' = changes + 1
    /\ UNCHANGED <<usage, config, stored, charge, locked, recon, alertVars, drift, admitted>>

(* The upsert, and the entry audit.quota_configured, which no gate refuses.  *)
QuotaWrite(o) ==
    /\ operator[o].at = "read" /\ locked = "none" /\ Bounded(EntrySize)
    /\ config' = [row |-> TRUE, quota |-> operator[o].quota, rate |-> operator[o].rate]
    /\ operator' = [operator EXCEPT ![o] = NoGate]
    /\ used' = used + EntrySize /\ Stored(EntrySize)
    /\ count' = NewCount /\ window' = TRUE
    /\ admitted' = IF window THEN admitted ELSE 0
    /\ UNCHANGED <<charge, locked, alertVars, changes>>

-----------------------------------------------------------------------------
(* runReconcileAggregate: the sums of the committed entries; an organization *)
(* without entries has no group.                                             *)
ReconSum ==
    /\ recon = NoGate
    /\ recon' = [at |-> IF stored = 0 THEN "done" ELSE "summed",
                 bytes |-> stored, since |-> 0, short |-> 0, failed |-> FALSE]
    /\ UNCHANGED <<usage, config, stored, charge, locked, operator, alertVars, changes,
                   drift, admitted>>

(* thresholdFor.                                                             *)
Threshold(bytes, quota) ==
    CASE bytes * 100 >= 95 * quota -> 95 [] bytes * 100 >= 90 * quota -> 90
      [] bytes * 100 >= 80 * quota -> 80 [] OTHER -> 0

(* evaluateOrgQuotaAlert with upsertThresholdAlert and                       *)
(* clearThresholdAlertEpisode, each in a transaction of its own.             *)
Level == IF EffectiveQuota(config) = Unlimited THEN 0
         ELSE Threshold(recon.bytes, EffectiveQuota(config))
NewWarning == CASE Level = 0 -> 0
                [] Level \in {80, 90} /\ warning < Level -> Level
                [] OTHER -> warning
NewCritical == Level = 95
NewEpisode == (Level \in {80, 90} /\ warning < Level) \/ (Level = 95 /\ ~critical)

(* writeBackOneOrg: the counter becomes the sum, whatever was written since. *)
WriteBack ==
    /\ recon.at = "summed" /\ locked = "none"
    /\ used' = recon.bytes /\ summed' = recon.bytes
    /\ since' = recon.since /\ short' = recon.short /\ undone' = recon.since
    /\ warning' = NewWarning /\ critical' = NewCritical
    /\ told' = IF NewEpisode THEN told \cup {Level} ELSE told
    /\ recon' = [recon EXCEPT !.at = "done"]
    /\ UNCHANGED <<count, window, config, stored, charge, locked, operator, changes,
                   admitted>>

(* The write-back fails after the episode was stored: the counter is rolled  *)
(* back, the episode is not, and its message is not queued.                  *)
WriteBackFails ==
    /\ recon.at = "summed"
    /\ recon' = [recon EXCEPT !.at = "done", !.failed = TRUE]
    /\ \/ UNCHANGED alertVars
       \/ /\ locked = "none"
          /\ warning' = NewWarning /\ critical' = NewCritical
          /\ told' = IF NewEpisode THEN told \ {Level} ELSE told
    /\ UNCHANGED <<usage, config, stored, charge, locked, operator, changes, drift, admitted>>

(* The run is over: the next one is a week away.                             *)
ReconEnd ==
    /\ recon.at = "done"
    /\ recon' = NoGate
    /\ UNCHANGED <<usage, config, stored, charge, locked, operator, alertVars, changes,
                   drift, admitted>>

QuotaNext ==
    \/ \E w \in Charges :
         \/ \E c \in Classes, n \in Sizes : Gate(w, c, n)
         \/ Commit(w) \/ Abort(w)
    \/ WindowEnds \/ Purge
    \/ \E o \in Operators :
         \/ \E q \in Given(Quotas) \cup {Keep}, r \in Given(Rates) \cup {Keep} :
              QuotaRead(o, q, r)
         \/ QuotaWrite(o)
    \/ ReconSum \/ WriteBack \/ WriteBackFails \/ ReconEnd

QuotaSpec == QuotaInit /\ [][QuotaNext]_quotaVars

-----------------------------------------------------------------------------
InFlight == IF locked = "none" THEN 0 ELSE charge[locked].size

(* The variables keep their types: the columns of the usage and              *)
(* configuration rows.                                                       *)
QuotaTypeOK ==
    /\ used \in 0 .. MaxUsed /\ count \in Nat /\ window \in BOOLEAN
    /\ config.quota \in Quotas \cup {Null} /\ config.rate \in Rates \cup {Null}
    /\ stored \in Nat /\ locked \in Charges \cup {"none"}
    /\ \A w \in Charges : charge[w].at = "gated" <=> locked = w
    /\ recon.at \in {"idle", "summed", "done"} /\ warning \in {0, 80, 90}

(* The counter is the last sum that was written back, with the estimates of  *)
(* the entries committed since that sum was read and of the one in flight,   *)
(* less those the write-back undid.  Aborted transactions leave nothing      *)
(* behind (the gates run in the writer's transaction).                       *)
CounterExplained == used + undone = summed + since + InFlight

(* What is stored exceeds the counter at most by what the entries since the  *)
(* last sum exceed their estimates, and by what the write-back undid: each   *)
(* reconciliation takes the earlier errors out ("periodic reconciliation     *)
(* keeps that estimate honest", audit-quota.md).                             *)
StoredCovered == stored + InFlight <= used + short + undone

(* No ordinary write is admitted when what is stored would pass the quota in *)
(* force with its estimate, but for those two errors (runGateStatement under *)
(* concurrent writers and reconciliations).                                  *)
QuotaRespected ==
    [][\A w \in Charges : charge[w] = NoGate /\ charge'[w] # NoGate
          /\ charge'[w].class = "ordinary"
          => stored + charge'[w].size <= EffectiveQuota(config) + short + undone]_quotaVars

(* In one window an ordinary write is admitted only while the ordinary       *)
(* writes of the window are within the rate in force                         *)
(* (runRateGateStatement, aborted writes not counted).                       *)
RateRespected ==
    [][\A w \in Charges : charge[w] = NoGate /\ charge'[w] # NoGate /\ charge'[w].class = "ordinary"
          => admitted' <= EffectiveRate(config)]_quotaVars

\* However writes, aborts, purges and reconciliation interleave, the counter is
\* the last sum with the reservations since, and the stored bytes pass it only by
\* the errors of the estimates since that sum.
QuotaSafe ==
    /\ QuotaTypeOK
    /\ CounterExplained
    /\ StoredCovered

\* Concurrent writers are not admitted beyond the quota, as far as the estimates
\* can tell, or beyond the rate.
QuotaSteps ==
    /\ QuotaRespected
    /\ RateRespected

(* threshold-alerts.ts: a newly crossed threshold must alert, so the message *)
(* of an active episode has been queued.                                     *)
EpisodeAnnounced ==
    /\ warning # 0 => warning \in told
    /\ critical => 95 \in told

(* docs/design/audit-quota.md: the drift of the counter is one-directional,  *)
(* it never falls below what is stored.                                      *)
DriftOneDirectional == stored <= used

(* docs/design/audit-quota.md: the counter is corrected on every run, so a   *)
(* run that did not fail leaves its sum in it.                               *)
RunCorrectsCounter == recon.at = "done" /\ ~recon.failed => summed = recon.bytes

(* quota-config.ts: an update that touches one field never clobbers the      *)
(* other's stored override.                                                  *)
PartialUpdateKeepsOther ==
    [][\A o \in Operators : operator[o].at = "read" /\ operator'[o] = NoGate =>
          /\ operator[o].keepQuota => config'.quota = config.quota
          /\ operator[o].keepRate => config'.rate = config.rate]_quotaVars

(* quota-config.ts: a null quota means no override, so the default applies.  *)
NullFallsBack == config.quota = Null => EffectiveQuota(config) = EffectiveQuota(NoRow)
=============================================================================
