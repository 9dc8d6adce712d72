--------------------------- MODULE BackupRestore ---------------------------
(***************************************************************************)
(* Backups and restores of the whole instance.  A row of backup_runs with   *)
(* status running is the marker that excludes other backups and restores;   *)
(* an advisory lock, held for the short check-and-insert of a backup and    *)
(* for the whole of a restore, closes the race between the two.  A backup   *)
(* dumps the database (its own running row included), encrypts the dump,    *)
(* writes the file and then its sidecar, and settles its row.  A restore    *)
(* replaces the database by the dump and seals the vault.  pg-boss keeps    *)
(* the jobs of manual backups and repeats those that expire or die with     *)
(* the process; the rows a dead process left running are failed when the    *)
(* next one is unsealed.                                                    *)
(***************************************************************************)
EXTENDS Naturals, FiniteSets

CONSTANTS
    MaxRuns,      \* bound on backup_runs rows ever inserted
    MaxExecs,     \* bound on executions of the snapshot pipeline
    Restores,     \* restore requests
    MaxCrashes,   \* bound on crashes of the process
    RetryLimit,   \* repetitions pg-boss grants a job
    Retention     \* BACKUP_RETENTION_COUNT

ASSUME BackupAssumption ==
    /\ MaxRuns \in Nat \ {0} /\ MaxExecs \in Nat /\ MaxCrashes \in Nat
    /\ RetryLimit \in Nat /\ Retention \in Nat /\ 0 \notin Restores

Runs == 1..MaxRuns
Execs == 1..MaxExecs
None == 0
Statuses == {"absent", "running", "succeeded", "failed"}

VARIABLES
    rows,      \* backup_runs: the status of each run
    jobs,      \* manual jobs waiting in pg-boss
    tries,     \* repetitions a job has used
    trigger,   \* where the manual trigger of each run stands
    exec,      \* executions: their run, phase, dump, hold on the job, prune list
    file,      \* the execution whose ciphertext is stored for each run
    meta,      \* the execution whose checksum the sidecar of each run carries
    pruned,    \* runs whose files retention removed
    restore,   \* restore requests: their run, phase and the file they read
    lock,      \* the restore whose request holds the session-level advisory lock
    restored,  \* a restore has replaced the database
    sealed,    \* the vault is sealed
    up,        \* the process runs and its workers are registered
    crashes,
    runsUsed, execsUsed

vars == <<rows, jobs, tries, trigger, exec, file, meta, pruned, restore, lock,
          restored, sealed, up, crashes, runsUsed, execsUsed>>

Snapshot == [rows : [Runs -> Statuses], jobs : SUBSET Runs]
ExecPhases == {"unused", "dumping", "encrypting", "writeFile", "writeMeta", "settle",
               "prune", "done"}
RestorePhases == {"new", "locking", "checking", "reading", "comparing", "decrypting",
                  "applying", "sealing", "releasing", "leaked", "done"}

Empty == [rows |-> [r \in Runs |-> "absent"], jobs |-> {}]

\* One type invariant for the module.
TypeOK ==
    /\ rows \in [Runs -> Statuses]
    /\ jobs \subseteq Runs
    /\ tries \in [Runs -> 0..RetryLimit]
    /\ trigger \in [Runs -> {"none", "audit", "send", "done"}]
    /\ \A e \in Execs :
         /\ exec[e].run \in Runs \cup {None} /\ exec[e].phase \in ExecPhases
         /\ exec[e].dump.rows \in [Runs -> Statuses] /\ exec[e].dump.jobs \subseteq Runs
         /\ exec[e].owns \in BOOLEAN /\ exec[e].prune \subseteq Runs
    /\ file \in [Runs -> Execs \cup {None}]
    /\ meta \in [Runs -> Execs \cup {None}]
    /\ pruned \subseteq Runs
    /\ restore \in [Restores -> [run : Runs, phase : RestorePhases, file : Execs \cup {None}]]
    /\ lock \in Restores \cup {None}
    /\ restored \in BOOLEAN /\ sealed \in BOOLEAN /\ up \in BOOLEAN
    /\ crashes \in 0..MaxCrashes /\ runsUsed \in 0..MaxRuns /\ execsUsed \in 0..MaxExecs

\* A fresh, unsealed instance.
Init ==
    /\ rows = Empty.rows /\ jobs = {} /\ tries = [r \in Runs |-> 0]
    /\ trigger = [r \in Runs |-> "none"]
    /\ exec = [e \in Execs |->
                 [run |-> None, phase |-> "unused", dump |-> Empty, owns |-> FALSE, prune |-> {}]]
    /\ file = [r \in Runs |-> None] /\ meta = [r \in Runs |-> None]
    /\ pruned = {}
    /\ restore \in [Restores -> [run : {1}, phase : {"new"}, file : {None}]]
    /\ lock = None
    /\ restored = FALSE /\ sealed = FALSE /\ up = TRUE
    /\ crashes = 0 /\ runsUsed = 0 /\ execsUsed = 0

Requests == <<trigger, restore, lock>>
Storage == <<file, meta, pruned>>
Bounds == <<crashes, runsUsed, execsUsed>>
Flags == <<restored, sealed, up>>

-----------------------------------------------------------------------------
(* Taking a slot *)

\* Mutant of SlotFree: the advisory lock is not tried.
SlotFreeUnlocked == \A r \in Runs : rows[r] # "running"

\* acquireBackupSlot under its transaction lock: the lock is free, or was leaked by
\* the very connection that tries it, and no row is running.
SlotFree == lock = None /\ \A r \in Runs : rows[r] # "running"

\* The running row is inserted.
TakeSlot(r) ==
    /\ r = runsUsed + 1
    /\ SlotFree
    /\ runsUsed' = r
    /\ rows' = [rows EXCEPT ![r] = "running"]

\* POST /backup/trigger reserves a slot.
Trigger(r) ==
    /\ up /\ ~sealed
    /\ TakeSlot(r)
    /\ trigger' = [trigger EXCEPT ![r] = "audit"]
    /\ UNCHANGED <<jobs, tries, exec, Storage, restore, lock, Flags, crashes, execsUsed>>

\* The platform audit entry is written, or its failure releases the slot.
TriggerAudit(r) ==
    /\ up /\ trigger[r] = "audit"
    /\ \/ /\ trigger' = [trigger EXCEPT ![r] = "send"]
          /\ UNCHANGED rows
       \/ /\ trigger' = [trigger EXCEPT ![r] = "done"]
          /\ rows' = [rows EXCEPT ![r] = IF @ = "absent" THEN @ ELSE "failed"]
    /\ UNCHANGED <<jobs, tries, exec, Storage, restore, lock, Flags, Bounds>>

\* The job is sent, or sending throws and the request fails.
TriggerSend(r) ==
    /\ up /\ trigger[r] = "send"
    /\ trigger' = [trigger EXCEPT ![r] = "done"]
    /\ jobs' \in {jobs, jobs \cup {r}}
    /\ UNCHANGED <<rows, tries, exec, Storage, restore, lock, Flags, Bounds>>

\* pg-boss hands the worker one job at a time.
WorkerFree == \A e \in Execs : exec[e].phase \in {"unused", "done"} \/ ~exec[e].owns

Started(e, r, owns) ==
    /\ e = execsUsed + 1
    /\ execsUsed' = e
    /\ exec' = [exec EXCEPT ![e].run = r, ![e].phase = "dumping", ![e].owns = owns]

\* The worker takes the job of a manual backup and runs it whatever its row says.
TakeJob(e, r) ==
    /\ up /\ r \in jobs /\ WorkerFree
    /\ jobs' = jobs \ {r}
    /\ Started(e, r, TRUE)
    /\ UNCHANGED <<rows, tries, Requests, Storage, Flags, crashes, runsUsed>>

\* A scheduled fire takes its own slot, also while the vault is sealed.
ScheduledFire(e, r) ==
    /\ up /\ WorkerFree
    /\ TakeSlot(r)
    /\ Started(e, r, TRUE)
    /\ UNCHANGED <<jobs, tries, Requests, Storage, Flags, crashes>>

-----------------------------------------------------------------------------
(* executeBackupSnapshot and retention *)

Active(e) == up /\ exec[e].phase \notin {"unused", "done"}
At(e, p) == up /\ exec[e].phase = p
Step(e, p) == exec' = [exec EXCEPT ![e].phase = p]

\* The manual job of execution e is still pg-boss's active job of its run.
OwnJob(e) == {r \in {exec[e].run} : exec[e].owns /\ trigger[r] = "done"}

\* pg_dump sees the database as it is, the run's own row and active job included.
Dump(e) ==
    /\ At(e, "dumping")
    /\ exec' = [exec EXCEPT ![e].phase = "encrypting",
                            ![e].dump = [rows |-> rows, jobs |-> jobs \cup OwnJob(e)]]
    /\ UNCHANGED <<rows, jobs, tries, Requests, Storage, Flags, Bounds>>

\* The dump is encrypted under the backup key, which a sealed vault refuses.
Encrypt(e) ==
    /\ At(e, "encrypting") /\ ~sealed
    /\ Step(e, "writeFile")
    /\ UNCHANGED <<rows, jobs, tries, Requests, Storage, Flags, Bounds>>

\* The encrypted file is put in place atomically.
WriteFile(e) ==
    /\ At(e, "writeFile")
    /\ file' = [file EXCEPT ![exec[e].run] = e]
    /\ Step(e, "writeMeta")
    /\ UNCHANGED <<rows, jobs, tries, Requests, meta, pruned, Flags, Bounds>>

\* Then its sidecar with the checksum.
WriteMeta(e) ==
    /\ At(e, "writeMeta")
    /\ meta' = [meta EXCEPT ![exec[e].run] = e]
    /\ Step(e, "settle")
    /\ UNCHANGED <<rows, jobs, tries, Requests, file, pruned, Flags, Bounds>>

\* All but the newest Retention succeeded runs.
ToPrune(all) == {r \in all : Cardinality({s \in all : s > r}) >= Retention}

\* The row is marked succeeded and retention selects what to delete.
Succeed(e) ==
    /\ At(e, "settle")
    /\ rows' = [rows EXCEPT ![exec[e].run] = IF @ = "absent" THEN @ ELSE "succeeded"]
    /\ exec' = [exec EXCEPT ![e].phase = "prune",
                            ![e].prune = ToPrune({r \in Runs : rows'[r] = "succeeded"})]
    /\ UNCHANGED <<jobs, tries, Requests, Storage, Flags, Bounds>>

\* A selected backup's file is deleted, then its sidecar.
Prune(e, r) ==
    /\ At(e, "prune") /\ r \in exec[e].prune
    /\ pruned' = pruned \cup {r}
    /\ \/ /\ file[r] # None
          /\ file' = [file EXCEPT ![r] = None]
          /\ UNCHANGED <<meta, exec>>
       \/ /\ file[r] = None
          /\ meta' = [meta EXCEPT ![r] = None]
          /\ exec' = [exec EXCEPT ![e].prune = @ \ {r}]
          /\ UNCHANGED file
    /\ UNCHANGED <<rows, jobs, tries, Requests, Flags, Bounds>>

\* Nothing is left to delete, or deleting throws: the job ends.
ExecEnds(e) ==
    /\ At(e, "prune")
    /\ Step(e, "done")
    /\ UNCHANGED <<rows, jobs, tries, Requests, Storage, Flags, Bounds>>

\* Any step throws: the row is marked failed, unless that update throws too.
ExecFails(e) ==
    /\ Active(e) /\ exec[e].phase # "prune"
    /\ rows' \in {rows, [rows EXCEPT ![exec[e].run] = IF @ = "absent" THEN @ ELSE "failed"]}
    /\ Step(e, "done")
    /\ UNCHANGED <<jobs, tries, Requests, Storage, Flags, Bounds>>

\* pg-boss repeats the manual job of an execution that outlived its time, or
\* died, while repetitions are left.
Repeatable(e) == {r \in OwnJob(e) : tries[r] < RetryLimit}

\* The job expires; the execution goes on without it.
JobExpires(e) ==
    /\ Active(e) /\ exec[e].owns
    /\ exec' = [exec EXCEPT ![e].owns = FALSE]
    /\ jobs' = jobs \cup Repeatable(e)
    /\ tries' = [r \in Runs |-> IF r \in Repeatable(e) THEN tries[r] + 1 ELSE tries[r]]
    /\ UNCHANGED <<rows, Requests, Storage, Flags, Bounds>>

-----------------------------------------------------------------------------
(* Restore *)

AtRestore(q, p) == up /\ restore[q].phase = p
RestoreStep(q, p) == restore' = [restore EXCEPT ![q].phase = p]

\* The confirmed restore of run r has its initiation audited.
RestoreStart(q, r) ==
    /\ AtRestore(q, "new") /\ ~sealed
    /\ restore' = [restore EXCEPT ![q].phase = "locking", ![q].run = r]
    /\ UNCHANGED <<rows, jobs, tries, trigger, exec, Storage, lock, Flags, Bounds>>

\* The lock belongs to the session of a connection.  When pg_advisory_unlock
\* throws, the connection returns to the pool and may still hold it: the phase is
\* then "leaked".  Whoever is handed that connection passes, others may not.
Leaked == \E q \in Restores : restore[q].phase = "leaked"

\* The session lock is tried once; a holder means 409.
RestoreLock(q) ==
    /\ AtRestore(q, "locking")
    /\ lock' \in {h \in {q, lock} : IF h = q THEN lock = None ELSE lock # None \/ Leaked}
    /\ RestoreStep(q, IF lock' = q THEN "checking" ELSE "done")
    /\ UNCHANGED <<rows, jobs, tries, trigger, exec, Storage, Flags, Bounds>>

\* unlockAndRelease: the request is done with the lock, its connection perhaps not.
Unlock(q) ==
    /\ lock' = None
    /\ RestoreStep(q, "done") \/ RestoreStep(q, "leaked")

\* A running backup refuses the restore, as does a check that throws; both
\* unlock first.
RestoreCheck(q) ==
    /\ AtRestore(q, "checking")
    /\ \/ /\ \A r \in Runs : rows[r] # "running"
          /\ RestoreStep(q, "reading")
          /\ UNCHANGED lock
       \/ Unlock(q)
    /\ UNCHANGED <<rows, jobs, tries, trigger, exec, Storage, Flags, Bounds>>

\* The file is read; a missing one ends the restore.
RestoreRead(q) ==
    /\ AtRestore(q, "reading")
    /\ restore' = [restore EXCEPT
         ![q].file = file[restore[q].run],
         ![q].phase = IF file[restore[q].run] = None THEN "releasing" ELSE "comparing"]
    /\ UNCHANGED <<rows, jobs, tries, trigger, exec, Storage, lock, Flags, Bounds>>

\* The sidecar is read and its checksum compared.
RestoreCompare(q) ==
    /\ AtRestore(q, "comparing")
    /\ RestoreStep(q, IF meta[restore[q].run] = restore[q].file
                      THEN "decrypting" ELSE "releasing")
    /\ UNCHANGED <<rows, jobs, tries, trigger, exec, Storage, lock, Flags, Bounds>>

\* Decryption needs the backup key of an unsealed vault; it may fail.
RestoreDecrypt(q) ==
    /\ AtRestore(q, "decrypting")
    /\ \/ ~sealed /\ RestoreStep(q, "applying")
       \/ RestoreStep(q, "releasing")
    /\ UNCHANGED <<rows, jobs, tries, trigger, exec, Storage, lock, Flags, Bounds>>

\* psql replaces the database in one transaction, or fails and changes nothing.
RestoreApply(q) ==
    /\ AtRestore(q, "applying")
    /\ \/ /\ rows' = exec[restore[q].file].dump.rows
          /\ jobs' = {r \in exec[restore[q].file].dump.jobs : tries[r] < RetryLimit}
          /\ restored' = TRUE
          /\ RestoreStep(q, "sealing")
       \/ /\ RestoreStep(q, "releasing")
          /\ UNCHANGED <<rows, jobs, restored>>
    /\ UNCHANGED <<tries, trigger, exec, Storage, lock, sealed, up, Bounds>>

\* zeroKeys seals the vault.
RestoreSeal(q) ==
    /\ AtRestore(q, "sealing")
    /\ sealed' = TRUE
    /\ RestoreStep(q, "releasing")
    /\ UNCHANGED <<rows, jobs, tries, trigger, exec, Storage, lock, restored, up, Bounds>>

\* The lock is released in the finally block, before the answer.
RestoreRelease(q) ==
    /\ AtRestore(q, "releasing")
    /\ Unlock(q)
    /\ UNCHANGED <<rows, jobs, tries, trigger, exec, Storage, Flags, Bounds>>

-----------------------------------------------------------------------------
(* The process *)

\* An operator unseals the running process: its workers are registered already.
Unseal ==
    /\ up /\ sealed
    /\ sealed' = FALSE
    /\ UNCHANGED <<rows, jobs, tries, Requests, exec, Storage, restored, up, Bounds>>

\* The process dies: requests and executions are gone, its connections' locks are
\* freed, pg-boss will repeat the jobs it was running.
Crash ==
    /\ up /\ crashes < MaxCrashes
    /\ crashes' = crashes + 1
    /\ up' = FALSE /\ sealed' = TRUE /\ lock' = None
    /\ trigger' = [r \in Runs |-> IF trigger[r] = "none" THEN "none" ELSE "done"]
    /\ restore' = [q \in Restores |->
         [restore[q] EXCEPT !.phase = IF @ = "new" THEN "new" ELSE "done"]]
    /\ LET lost == {e \in Execs : Active(e)}
           again == UNION {Repeatable(e) : e \in lost}
       IN /\ exec' = [e \in Execs |->
                        IF e \in lost THEN [exec[e] EXCEPT !.phase = "done"] ELSE exec[e]]
          /\ jobs' = jobs \cup again
          /\ tries' = [r \in Runs |-> IF r \in again THEN tries[r] + 1 ELSE tries[r]]
    /\ UNCHANGED <<rows, Storage, restored, runsUsed, execsUsed>>

\* Mutant of Boot: stale rows are not reconciled.
BootWithoutReconcile ==
    /\ ~up
    /\ up' = TRUE /\ sealed' = FALSE
    /\ UNCHANGED <<rows, jobs, tries, Requests, exec, Storage, restored, Bounds>>

\* The next process is unsealed: rows still running are failed, then the
\* workers are registered.
Boot ==
    /\ ~up
    /\ up' = TRUE /\ sealed' = FALSE
    /\ rows' = [r \in Runs |-> IF rows[r] = "running" THEN "failed" ELSE rows[r]]
    /\ UNCHANGED <<jobs, tries, Requests, exec, Storage, restored, Bounds>>

ExecStep(e) ==
    \/ Dump(e) \/ Encrypt(e) \/ WriteFile(e) \/ WriteMeta(e) \/ Succeed(e)
    \/ ExecEnds(e) \/ ExecFails(e) \/ \E r \in Runs : Prune(e, r)
RestoreSteps(q) ==
    \/ RestoreLock(q) \/ RestoreCheck(q) \/ RestoreRead(q) \/ RestoreCompare(q)
    \/ RestoreDecrypt(q) \/ RestoreApply(q) \/ RestoreSeal(q) \/ RestoreRelease(q)

Next ==
    \/ \E r \in Runs : Trigger(r) \/ TriggerAudit(r) \/ TriggerSend(r)
    \/ \E e \in Execs, r \in Runs : TakeJob(e, r) \/ ScheduledFire(e, r)
    \/ \E e \in Execs : ExecStep(e) \/ JobExpires(e)
    \/ \E q \in Restores, r \in Runs : RestoreStart(q, r)
    \/ \E q \in Restores : RestoreSteps(q)
    \/ Unseal \/ Crash \/ Boot

Spec == Init /\ [][Next]_vars

\* Requests and handlers run on; the supervisor restarts a dead process and an
\* operator unseals it.
FairSpec ==
    /\ Spec
    /\ \A q \in Restores : WF_vars(RestoreSteps(q))
    /\ \A e \in Execs : WF_vars(ExecStep(e))
    /\ \A r \in Runs : WF_vars(TriggerAudit(r) \/ TriggerSend(r))
    /\ \A e \in Execs : WF_vars(\E r \in Runs : TakeJob(e, r))
    /\ WF_vars(Boot)

-----------------------------------------------------------------------------
(* Properties *)

Holding == {"checking", "reading", "comparing", "decrypting", "applying", "sealing",
            "releasing"}

\* The advisory lock is held for the restore that is past taking it and for no
\* other: no refusal, failure or crash ends a request that still counts as its
\* holder, and two restores never run at once.
LockFollowsRestore == \A q \in Restores : up => (lock = q <=> restore[q].phase \in Holding)

\* A sidecar without its file is only ever left behind by retention: a crash
\* while writing leaves at worst a file without sidecar.
SidecarHasFile == \A r \in Runs : meta[r] # None => file[r] # None \/ r \in pruned

ExecutedOnce ==
    \A e1, e2 \in Execs : exec[e1].run = exec[e2].run /\ exec[e1].run # None => e1 = e2

\* Each of the newest Retention succeeded backups can be restored: its file and
\* sidecar are present and agree (no job was repeated, no restore has rolled
\* the rows back).
KeptBackupRestorable ==
    LET succeeded == {r \in Runs : rows[r] = "succeeded"}
    IN ExecutedOnce /\ ~restored =>
         \A r \in succeeded : r \in ToPrune(succeeded) \/ (file[r] # None /\ meta[r] = file[r])

\* Documentation: a restore and a backup never run concurrently against the
\* same database.
RestoreExcludesBackup ==
    ~ \E q \in Restores, e \in Execs :
        AtRestore(q, "applying") /\ exec[e].phase = "dumping"

\* Comment of acquireRestoreLock: any failure unlocks before it is reported, so
\* that no leaked lock refuses every later backup and restore.
NoLeakedLock == ~Leaked

\* A restore and a backup overlap only when the row of the backup is no longer
\* running: a restart fails the row (reconcileStaleRunningBackups) and pg-boss
\* still runs the job.  As long as the row says running, the exclusion holds.
RunningExcludesRestore ==
    \A q \in Restores, e \in Execs :
        AtRestore(q, "applying") /\ exec[e].phase = "dumping" =>
            rows[exec[e].run] # "running"

\* Whatever crashes between its steps, the advisory lock is held by a running
\* restore only, sidecars describe files, kept backups can be restored, and a row
\* that says running excludes a restore.
BackupSafe ==
    /\ TypeOK
    /\ LockFollowsRestore
    /\ SidecarHasFile
    /\ KeptBackupRestorable
    /\ RunningExcludesRestore

\* Rows that a crash left running are settled in the end: no slot stays blocked
\* by a crash, wherever in a trigger, an execution or a restore it happened.
SlotFreedAfterCrash == ~up ~> \A r \in Runs : rows[r] # "running"

\* Answer of the trigger route: a backup is in progress whenever a row is running.
RunningIsAlive ==
    \A r \in Runs : up /\ rows[r] = "running" =>
        \/ trigger[r] \in {"audit", "send"} \/ r \in jobs
        \/ \E e \in Execs : exec[e].run = r /\ exec[e].phase \notin {"unused", "done"}
=============================================================================
