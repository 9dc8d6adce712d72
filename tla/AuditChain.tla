----------------------------- MODULE AuditChain -----------------------------
(***************************************************************************)
(* The hash chain of one organization's audit_log_entries: transactions    *)
(* that append under the chain's advisory lock, the retention purge with   *)
(* its attested boundary row, rows that vanish behind the program's back,  *)
(* and the verification of a range of the log.  modules/audit/             *)
(* write-entry.ts, human-entry.ts, verify.ts, retention.ts and             *)
(* workers/audit-retention-prune.ts.                                       *)
(*                                                                         *)
(* A row's hmac is its position chain_seq: two rows have the same hmac     *)
(* only if their content and their predecessor are the same.  created_at   *)
(* is the start of the inserting transaction, so it may run against the    *)
(* order of chain_seq.                                                     *)
(*                                                                         *)
(* Verification is a transaction of READ COMMITTED statements: the rows of *)
(* the range, the predecessor of the first, and for each mismatch the      *)
(* boundary rows; writers and the purge commit in between.                 *)
(***************************************************************************)
EXTENDS Naturals, FiniteSets, FiniteSetsExt

CONSTANTS Writers,      \* transactions that write audit entries
          Retentions,   \* the retention_days an admin may choose, in ticks
          Untils,       \* the ends of the ranges that are verified
          MaxSeq,       \* bound on the rows ever written
          MaxTime,      \* bound on the clock
          MaxLost       \* bound on the rows that vanish

ASSUME ChainBounds ==
    /\ IsFiniteSet(Writers) /\ "none" \notin Writers
    /\ Retentions \subseteq Nat \ {0} /\ Untils \subseteq Nat
    /\ MaxSeq \in Nat /\ MaxTime \in Nat /\ MaxLost \in Nat

Genesis == 0            \* previous_entry_hmac is null, or there is no tail
Forever == 0            \* retention_days is null
NoWrite == [at |-> "idle"]

VARIABLES chain,       \* the rows: [seq, prev, created, gap]
          next,        \* the next value of the chain_seq sequence
          now,         \* the clock
          retention,   \* audit_retention_config.retention_days
          tx,          \* each writer's transaction
          holder,      \* who holds the chain's advisory lock
          purge,       \* the retention job's transaction
          verify,      \* a verification: its rows and expected predecessor
          lost,        \* history: rows removed outside the purge
          newest,      \* history: the largest created_at appended
          inverted,    \* history: a row was appended with an older created_at
          overtaken    \* history: an append overlapped a purge of everything

history == <<lost, newest, inverted, overtaken>>
log == <<chain, next, now, retention, tx, holder, purge, history>>
chainVars == <<log, verify>>

ChainInit ==
    /\ chain = {} /\ next = 1 /\ now = 0 /\ retention = Forever
    /\ tx = [w \in Writers |-> NoWrite] /\ holder = "none"
    /\ purge = NoWrite /\ verify = NoWrite
    /\ lost = {} /\ newest = 0 /\ inverted = FALSE /\ overtaken = FALSE

-----------------------------------------------------------------------------
(* The hmac of the row with the largest chain_seq, null for an empty chain.  *)
TailOf(rows) == IF rows = {} THEN Genesis ELSE Max({r.seq : r \in rows})

Row(prev, created, gap) ==
    [seq |-> next, prev |-> prev, created |-> created, gap |-> gap]

-----------------------------------------------------------------------------
(* A request or job opens its transaction: now() is fixed.                   *)
Begin(w) ==
    /\ tx[w] = NoWrite
    /\ tx' = [tx EXCEPT ![w] = [at |-> "open", start |-> now, prev |-> Genesis]]
    /\ UNCHANGED <<chain, next, now, retention, holder, purge, history>>

(* readAuditChainHead: the lock is held to the end of the transaction.       *)
ReadChainHead(w) ==
    /\ tx[w].at = "open" /\ holder = "none"
    /\ holder' = w
    /\ tx' = [tx EXCEPT ![w].at = "locked", ![w].prev = TailOf(chain)]
    /\ UNCHANGED <<chain, next, now, retention, purge, history>>

Released(w) == IF holder = w THEN "none" ELSE holder

(* The insert of writeHumanAuditEntry and its siblings, and the commit.      *)
Append(w) ==
    /\ tx[w].at = "locked" /\ next <= MaxSeq
    /\ chain' = chain \cup {Row(tx[w].prev, tx[w].start, Genesis)}
    /\ next' = next + 1
    /\ holder' = Released(w) /\ tx' = [tx EXCEPT ![w] = NoWrite]
    /\ newest' = Max({newest, tx[w].start})
    /\ inverted' = (inverted \/ tx[w].start < newest)
    /\ UNCHANGED <<now, retention, purge, lost, overtaken>>

(* The caller's transaction fails; a chain_seq it took is not given back.    *)
Rollback(w) ==
    /\ tx[w].at \in {"open", "locked"}
    /\ next' \in {next} \cup (IF tx[w].at = "locked" /\ next < MaxSeq
                                THEN {next + 1} ELSE {})
    /\ holder' = Released(w) /\ tx' = [tx EXCEPT ![w] = NoWrite]
    /\ UNCHANGED <<chain, now, retention, purge, history>>

-----------------------------------------------------------------------------
(* configureRetention.                                                       *)
ConfigureRetention(days) ==
    /\ retention # days
    /\ retention' = days
    /\ UNCHANGED <<chain, next, now, tx, holder, purge, history>>

Survivors(rows, cutoff) == {r \in rows : r.created >= cutoff}

\* Mutant of OrphanedBy: the hash of the last row to be deleted is not read
\* from the survivor, the newest one is.
OrphanedByNewest(cutoff) ==
    LET kept == Survivors(chain, cutoff)
    IN  IF kept = {} THEN Genesis
        ELSE (CHOOSE r \in kept : \A s \in kept : s.seq <= r.seq).prev

(* previous_entry_hmac of the oldest row that will survive the purge.        *)
OrphanedBy(cutoff) ==
    LET kept == Survivors(chain, cutoff)
    IN  IF kept = {} THEN Genesis
        ELSE (CHOOSE r \in kept : \A s \in kept : r.seq <= s.seq).prev

(* The job reads the retention and, before the purge, the hash it orphans.   *)
PurgeRead ==
    /\ purge = NoWrite /\ retention # Forever /\ now >= retention
    /\ purge' = [at |-> "read", start |-> now, cutoff |-> now - retention,
                 gap |-> OrphanedBy(now - retention), deleted |-> {},
                 all |-> Survivors(chain, now - retention) = {}]
    /\ UNCHANGED <<chain, next, now, retention, tx, holder, history>>

(* purge_expired_audit_log_entries, not yet committed.                       *)
PurgeDelete ==
    /\ purge.at = "read"
    /\ purge' = [purge EXCEPT !.at = "deleted",
          !.deleted = chain \ Survivors(chain, purge.cutoff)]
    /\ UNCHANGED <<chain, next, now, retention, tx, holder, history>>

Attests == purge.deleted # {} /\ purge.gap # Genesis

(* The boundary row chains onto the tail under the lock; then the commit.    *)
PurgeCommit ==
    LET kept == chain \ purge.deleted
    IN  /\ purge.at = "deleted"
        /\ purge' = NoWrite
        /\ \/ /\ Attests /\ holder = "none" /\ next <= MaxSeq
              /\ chain' = kept \cup {Row(TailOf(kept), purge.start, purge.gap)}
              /\ next' = next + 1
              /\ newest' = Max({newest, purge.start})
              /\ inverted' = (inverted \/ purge.start < newest)
           \/ /\ ~Attests
              /\ chain' = kept
              /\ UNCHANGED <<next, newest, inverted>>
        /\ overtaken' = (overtaken \/
              /\ purge.deleted # {} /\ purge.all
              /\ kept # {} \/ \E w \in Writers : tx[w].at = "locked")
        /\ UNCHANGED <<now, retention, tx, holder, lost>>

(* The job fails: its deletes are rolled back.                               *)
PurgeRollback ==
    /\ purge.at \in {"read", "deleted"}
    /\ purge' = NoWrite
    /\ UNCHANGED <<chain, next, now, retention, tx, holder, history>>

-----------------------------------------------------------------------------
(* A row disappears by other means than the purge.                           *)
Vanish ==
    /\ Cardinality(lost) < MaxLost
    /\ \E r \in chain :
         /\ r.seq \notin {s.seq : s \in IF purge = NoWrite THEN {} ELSE purge.deleted}
         /\ chain' = chain \ {r} /\ lost' = lost \cup {r.seq}
    /\ UNCHANGED <<next, now, retention, tx, holder, purge, newest, inverted, overtaken>>

(* Time passes.  A transaction is shorter than any retention period: it      *)
(* lives through one tick at most.                                           *)
Tick ==
    /\ now < MaxTime
    /\ \A w \in Writers : tx[w] # NoWrite => tx[w].start = now
    /\ purge # NoWrite => purge.start = now
    /\ now' = now + 1
    /\ UNCHANGED <<chain, next, retention, tx, holder, purge, history>>

LogNext ==
    \/ \E w \in Writers : Begin(w) \/ ReadChainHead(w) \/ Append(w) \/ Rollback(w)
    \/ \E d \in Retentions \cup {Forever} : ConfigureRetention(d)
    \/ PurgeRead \/ PurgeDelete \/ PurgeCommit \/ PurgeRollback
    \/ Vanish \/ Tick

-----------------------------------------------------------------------------
InRange(since, until) == {r \in chain : since <= r.created /\ r.created < until}

(* verifyAuditRange fetches the rows of a range; no rows, nothing to verify. *)
(* The rows lost so far are kept for the properties.                         *)
VerifyFetch(since, until) ==
    /\ verify = NoWrite /\ InRange(since, until) # {}
    /\ verify' = [at |-> "fetched", rows |-> InRange(since, until),
                  first |-> Genesis, lost |-> lost]
    /\ UNCHANGED log

(* The present predecessor of the first fetched row, wherever it lies.       *)
Predecessor(rows) == TailOf({s \in chain : \A r \in rows : s.seq < r.seq})

VerifyLookBack ==
    /\ verify.at = "fetched"
    /\ verify' = [verify EXCEPT !.at = "looked", !.first = Predecessor(verify.rows)]
    /\ UNCHANGED log

(* The answer is given, or the request fails.                                *)
VerifyEnd == verify # NoWrite /\ verify' = NoWrite /\ UNCHANGED log

(* The row before it among the fetched ones; for the first, what was found.  *)
ExpectedPrevious(r) ==
    LET before == {s \in verify.rows : s.seq < r.seq}
    IN  IF before = {} THEN verify.first ELSE TailOf(before)

(* hasAttestedGap: a boundary row names the orphaned hash.                   *)
HasAttestedGap(hash) == \E r \in chain : r.gap = hash

(* evaluateAuditRow: the chain link matches or its gap is attested.          *)
ChainOk(r) ==
    \/ r.prev = ExpectedPrevious(r)
    \/ r.prev # Genesis /\ HasAttestedGap(r.prev)

(* The rows that are reported as chain_break if they are evaluated now; each *)
(* is evaluated by a statement of its own, at some moment after the lookup.  *)
Reported == {r \in IF verify.at = "looked" THEN verify.rows ELSE {} : ~ChainOk(r)}

VerifyNext ==
    \/ \E since \in 0 .. MaxTime, until \in Untils : VerifyFetch(since, until)
    \/ VerifyLookBack \/ VerifyEnd

ChainNext == (LogNext /\ UNCHANGED verify) \/ VerifyNext

ChainSpec == ChainInit /\ [][ChainNext]_chainVars

-----------------------------------------------------------------------------
(* The variables keep their types: modules/audit and the schema.             *)
RowType == [seq : 1 .. MaxSeq, prev : 0 .. MaxSeq, created : 0 .. MaxTime,
            gap : 0 .. MaxSeq]
LogTypeOK ==
    /\ chain \subseteq RowType /\ next \in 1 .. MaxSeq + 1 /\ now \in 0 .. MaxTime
    /\ retention \in Retentions \cup {Forever}
    /\ \A w \in Writers : tx[w].at \in {"idle", "open", "locked"}
    /\ holder \in Writers \cup {"none"}
    /\ purge.at \in {"idle", "read", "deleted"}
    /\ lost \subseteq 1 .. MaxSeq /\ newest \in 0 .. MaxTime
    /\ inverted \in BOOLEAN /\ overtaken \in BOOLEAN
    /\ \A r \in chain : r.prev < r.seq /\ r.gap < r.seq
ChainTypeOK == LogTypeOK /\ verify.at \in {"idle", "fetched", "looked"}

(* While no row was lost, verification reports no row that is still there,   *)
(* for every range of the log and whatever is appended and purged between    *)
(* its statements, unless created_at ran against chain_seq or an append      *)
(* overlapped a purge of the whole log: a reported row means tampering, or   *)
(* the purge has deleted it since it was fetched.                            *)
NoFalseAlarm ==
    lost = {} /\ ~inverted /\ ~overtaken => Reported \cap chain = {}

(* The chain never forks: two rows never continue the same row, and only one *)
(* present row starts a chain (getPreviousEntryHmac's lock across concurrent *)
(* writers and the purge), also after rows vanished.                         *)
NoFork == \A r, s \in chain : r.prev = s.prev => r = s

(* The successor of a row that disappeared before the verification began is  *)
(* reported, unless a purge boundary names the hash that is gone             *)
(* (evaluateAuditRow, with the look-back of verifyAuditRange).               *)
LostRowReported ==
    verify.at = "looked" =>
        \A r \in verify.rows :
            r.prev \in verify.lost /\ ~HasAttestedGap(r.prev) => r \in Reported

\* The hash chain does not fork under concurrent appends, and verification tells
\* the truth: a row that is there raises no alarm because of a purge, and a lost
\* row does.
ChainSafe ==
    /\ ChainTypeOK
    /\ NoFork
    /\ NoFalseAlarm
    /\ LostRowReported

(* audit-retention-prune.ts: a purge of the entire history leaves no gap to  *)
(* attest.                                                                   *)
EmptyPurgeLeavesNoGap ==
    lost = {} /\ ~inverted => Reported \cap chain = {}

(* audit-retention-prune.ts: the hash the purge orphans is the one the       *)
(* oldest surviving row points at.                                           *)
PurgeOrphansOneHash ==
    lost = {} /\ ~overtaken => Reported \cap chain = {}

(* verify.ts: a purge is "an expected, attested consequence of a legitimate   *)
(* purge - not tampering".  A row that is purged between its fetch and the    *)
(* look-back has lost its predecessor, and no boundary row names its link.    *)
PurgeNeverReported ==
    lost = {} /\ ~inverted /\ ~overtaken => Reported = {}
=============================================================================
