---------------------------- MODULE ScheduledTasks ----------------------------
(***************************************************************************)
(* The runner of an extension's scheduled task and the watchdog that       *)
(* alerts when the task stops being attempted                              *)
(* (apps/api/src/workers/extension-scheduled-tasks.ts, -watchdog.ts).      *)
(*                                                                         *)
(* One declared task, one row of bookkeeping per organization.  A tick     *)
(* holds an advisory lock, reads the due organizations once, and invokes   *)
(* the handler for each under a concurrency limit and a timeout; a handler *)
(* that timed out keeps running.  The watchdog is a job of its own with    *)
(* its own lock.  Ages are database times, counted in steps of the clock   *)
(* and capped where no condition tells them apart any more.                *)
(***************************************************************************)
EXTENDS Naturals, FiniteSets

CONSTANTS
    Orgs,           \* organizations
    Ticks,          \* runs of the tick job that may overlap
    Interval,       \* interval_minutes of the task
    Window,         \* missed-tick window: threshold times interval, with its floor
    Concurrency,    \* SCHEDULED_TASK_MAX_CONCURRENCY
    MaxFaults       \* bound: failed database reads and writes

ASSUME TimesAssumption ==
    /\ IsFiniteSet(Orgs) /\ Interval \in Nat \ {0} /\ Window \in Nat \ {0}
    /\ Concurrency \in Nat \ {0} /\ MaxFaults \in Nat

VARIABLES
    loaded,     \* the extension is loaded and declares the task
    ran,        \* ran[o]: age of last_run_at, capped at Interval
    tried,      \* tried[o]: age of the latest attempt, capped at Window + 1
    tick,       \* tick[k]: a tick's organizations to do and being invoked
    late,       \* organizations with a handler still running after its timeout
    armed,      \* age of watchdogArmedAt, capped at Window + 1, or Unset
    dog,        \* the watchdog tick: verdict reached and not yet acted upon
    episode,    \* an admin alert of type extension_scheduled_task.missed is active
    faults      \* database operations failed so far

scheduleVars == <<loaded, ran, tried, tick, late, armed, dog, episode, faults>>

Verdicts == {"idle", "healthy", "grace", "missed", "inconclusive", "undeclared"}
NoTick == [pc |-> "idle", todo |-> {}, busy |-> {}]
Unset == Window + 2
NoDog == [verdict |-> "idle", recent |-> {}]

(* Bookkeeping and processes are well formed; a tick never has more invocations
   under way than the limit allows. *)
ScheduleTypeOK ==
    /\ loaded \in BOOLEAN /\ episode \in BOOLEAN
    /\ ran \in [Orgs -> 0 .. Interval]
    /\ tried \in [Orgs -> 0 .. Window + 1]
    /\ tick \in [Ticks -> [pc: {"idle", "run"}, todo: SUBSET Orgs, busy: SUBSET Orgs]]
    /\ \A k \in Ticks : Cardinality(tick[k].busy) <= Concurrency
    /\ late \subseteq Orgs
    /\ armed \in 0 .. Unset
    /\ dog \in [verdict: Verdicts, recent: SUBSET Orgs]
    /\ faults \in 0 .. MaxFaults

ScheduleInit ==
    /\ loaded = TRUE
    /\ ran = [o \in Orgs |-> Interval]
    /\ tried = [o \in Orgs |-> Window + 1]
    /\ tick = [k \in Ticks |-> NoTick]
    /\ late = {}
    /\ armed = Unset
    /\ dog = NoDog
    /\ episode = FALSE
    /\ faults = 0

Older(age, cap) == IF age < cap THEN age + 1 ELSE cap

-----------------------------------------------------------------------------
(* The tick *)

\* Never run, or the interval has elapsed on the database clock.
Due == {o \in Orgs : ran[o] = Interval}

\* Mutant of LockFree: overlapping ticks are not excluded.
LockFreeAlways(k) == TRUE

\* pg_try_advisory_xact_lock; a tick that does not get it does nothing.
LockFree(k) == \A j \in Ticks : tick[j].pc = "idle"

\* The due list, from one query per organization; a failed query skips its organization.
TickStart(k) ==
    /\ tick[k].pc = "idle"
    /\ LockFree(k)
    /\ loaded
    /\ \E failed \in SUBSET Orgs :
         /\ faults + Cardinality(failed) <= MaxFaults
         /\ faults' = faults + Cardinality(failed)
         /\ Due \ failed # {}
         /\ tick' = [tick EXCEPT ![k] = [pc |-> "run", todo |-> Due \ failed, busy |-> {}]]
    /\ UNCHANGED <<loaded, ran, tried, late, armed, dog, episode>>

\* The extension is looked up again: one that is gone is skipped, not invoked.
Invoke(k, o) ==
    /\ o \in tick[k].todo
    /\ Cardinality(tick[k].busy) < Concurrency
    /\ tick' = [tick EXCEPT ![k].todo = @ \ {o},
                            ![k].busy = IF loaded THEN @ \cup {o} ELSE @]
    /\ UNCHANGED <<loaded, ran, tried, late, armed, dog, episode, faults>>

\* recordAttempt: a write that fails is logged and lost.
RecordAttempt(o, outcome) ==
    \/ /\ tried' = [tried EXCEPT ![o] = 0]
       /\ ran' = IF outcome = "success" THEN [ran EXCEPT ![o] = 0] ELSE ran
       /\ UNCHANGED faults
    \/ /\ faults < MaxFaults
       /\ faults' = faults + 1
       /\ UNCHANGED <<ran, tried>>

\* One organization's failure never reaches the others.
Settled(k, o, outcome) == [tick[k] EXCEPT !.busy = @ \ {o}]

\* The handler resolves, rejects, or outlasts EXTENSION_CALLOUT_TIMEOUT_MS.
Settle(k, o, outcome) ==
    /\ o \in tick[k].busy
    /\ RecordAttempt(o, outcome)
    /\ late' = IF outcome = "timeout" THEN late \cup {o} ELSE late
    /\ tick' = [tick EXCEPT ![k] = Settled(k, o, outcome)]
    /\ UNCHANGED <<loaded, armed, dog, episode>>

\* Everything settled: the transaction ends and with it the lock.
TickEnd(k) ==
    /\ tick[k].pc = "run" /\ tick[k].todo = {} /\ tick[k].busy = {}
    /\ tick' = [tick EXCEPT ![k] = NoTick]
    /\ UNCHANGED <<loaded, ran, tried, late, armed, dog, episode, faults>>

\* A handler that lost the race against the timeout ends; its result is never read.
LateEnds(o) ==
    /\ o \in late
    /\ late' = late \ {o}
    /\ UNCHANGED <<loaded, ran, tried, tick, armed, dog, episode, faults>>

-----------------------------------------------------------------------------
(* The watchdog *)

Recent == {o \in Orgs : tried[o] <= Window}

\* Mutant of Evaluate: an alert is raised on partial evidence.
EvaluatePartial(age, failed) ==
    IF Recent \ failed # {} THEN "healthy"
    ELSE IF age <= Window THEN "grace"
    ELSE "missed"

\* evaluatePair over the organizations that could be read, with the partial-read downgrade.
Evaluate(age, failed) ==
    IF Recent \ failed # {} THEN "healthy"
    ELSE IF age <= Window THEN "grace"
    ELSE IF failed # {} THEN "inconclusive"
    ELSE "missed"

\* Mutant of ArmedNow: every tick arms the watchdog anew.
ArmedNowAlways == 0

\* watchdogArmedAt is set by the first tick of the process and kept.
ArmedNow == IF armed = Unset THEN 0 ELSE armed

\* The clock, the active alerts and each organization's attempts are read.
DogRead ==
    /\ dog.verdict = "idle"
    /\ armed' = ArmedNow
    /\ \E failed \in SUBSET Orgs :
         /\ faults + Cardinality(failed) <= MaxFaults
         /\ faults' = faults + Cardinality(failed)
         /\ dog' = [verdict |-> IF ~loaded THEN "undeclared"
                                ELSE IF failed = Orgs THEN "inconclusive"
                                ELSE Evaluate(ArmedNow, failed),
                    recent |-> Recent]
    /\ UNCHANGED <<loaded, ran, tried, tick, late, episode>>

Resolves(verdict) == verdict \in {"healthy", "undeclared"}

\* Raise, resolve or leave the episode; one operator notification per new episode.
DogAct ==
    /\ dog.verdict # "idle"
    /\ episode' = (dog.verdict = "missed" \/ (episode /\ ~Resolves(dog.verdict)))
    /\ dog' = NoDog
    /\ UNCHANGED <<loaded, ran, tried, tick, late, armed, faults>>

\* The write of the episode fails: the error is logged, the next tick tries again.
DogFails ==
    /\ dog.verdict # "idle"
    /\ faults < MaxFaults
    /\ faults' = faults + 1
    /\ dog' = NoDog
    /\ UNCHANGED <<loaded, ran, tried, tick, late, armed, episode>>

-----------------------------------------------------------------------------
(* Environment *)

\* The database clock advances.
Clock ==
    /\ ran' = [o \in Orgs |-> Older(ran[o], Interval)]
    /\ tried' = [o \in Orgs |-> Older(tried[o], Window + 1)]
    /\ armed' = IF armed = Unset THEN armed ELSE Older(armed, Window + 1)
    /\ UNCHANGED <<loaded, tick, late, dog, episode, faults>>

\* The extension is uninstalled, fails, or is loaded again.
Reload ==
    /\ loaded' = ~loaded
    /\ UNCHANGED <<ran, tried, tick, late, armed, dog, episode, faults>>

\* The process dies: its ticks end, the alert row stays, the watchdog is unarmed.
Restart ==
    /\ faults < MaxFaults
    /\ faults' = faults + 1
    /\ tick' = [k \in Ticks |-> NoTick]
    /\ late' = {}
    /\ armed' = Unset
    /\ dog' = NoDog
    /\ UNCHANGED <<loaded, ran, tried, episode>>

Tick(k) ==
    \/ TickStart(k)
    \/ TickEnd(k)
    \/ \E o \in Orgs :
         \/ Invoke(k, o)
         \/ \E outcome \in {"success", "reject", "timeout"} : Settle(k, o, outcome)

ScheduleNext ==
    \/ \E k \in Ticks : Tick(k)
    \/ \E o \in Orgs : LateEnds(o)
    \/ DogRead \/ DogAct \/ DogFails
    \/ Clock \/ Reload \/ Restart

ScheduleSpec == ScheduleInit /\ [][ScheduleNext]_scheduleVars

\* pg-boss starts the tick job again and again; a callout ends by its timeout.
TickFairness == \A k \in Ticks : WF_scheduleVars(Tick(k))

\* Only the watchdog is sure to run: the tick job may hang or never be started.
ScheduleFairSpec ==
    /\ ScheduleSpec
    /\ WF_scheduleVars(DogRead) /\ WF_scheduleVars(DogAct) /\ WF_scheduleVars(Clock)

-----------------------------------------------------------------------------
(* Safety *)

(* No handler is invoked within the interval of a recorded success: the due list
   of a tick cannot go stale, because no other tick runs (the advisory lock). *)
IntervalRespected ==
    [][\A k \in Ticks, o \in Orgs :
        (o \in tick'[k].busy /\ o \notin tick[k].busy) => ran[o] = Interval]_scheduleVars

(* An operator is paged only when no organization at all had an attempt within the
   window at the time of the reads, although some reads may fail (AC5). *)
PagedOnFullEvidence == dog.verdict = "missed" => dog.recent = {}

\* Ticks and the watchdog keep their records, and a missed task is reported only
\* on the evidence of all organizations.
ScheduleSafe ==
    /\ ScheduleTypeOK
    /\ PagedOnFullEvidence

(* packages/extension-api/README.md: "invokes `onScheduledTask` once per org that
   has the extension active, on each task's declared interval": an organization
   never has two handlers running. *)
NoOverlappingHandlers == \A k \in Ticks : tick[k].busy \cap late = {}

-----------------------------------------------------------------------------
(* Liveness *)

(* While ticks are started, a due organization is attempted, however often another one's handler fails or
   times out, unless the extension goes away (invokeOneTask's isolation). *)
DueIsAttempted ==
    TickFairness => \A o \in Orgs :
        (loaded /\ o \in Due) ~> (~loaded \/ \E k \in Ticks : o \in tick[k].busy)

(* A task that nobody attempts for the whole window raises an episode, although
   reads and writes of the watchdog may fail and the process may restart. *)
MissedIsRaised ==
    (loaded /\ Recent = {}) ~> (episode \/ ~loaded \/ Recent # {})

(* An episode of a task that is no longer declared is resolved (AC4b). *)
UndeclaredIsResolved == (episode /\ ~loaded) ~> (~episode \/ loaded)

\* A due organization is attempted, a declared task that nobody attempts is reported
\* in the end, and the report of a task that is no longer declared is closed.
ScheduleProgress ==
    /\ DueIsAttempted
    /\ MissedIsRaised
    /\ UndeclaredIsResolved
===============================================================================
