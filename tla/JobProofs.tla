------------------------------ MODULE JobProofs ------------------------------
(***************************************************************************)
(* Proofs about ScheduledTasks (the runner and the watchdog of an          *)
(* extension's task) and BackupRestore (backups and restores of the        *)
(* instance).  Each module gets one inductive invariant, a lemma that      *)
(* every step keeps it, and the theorems that follow from it.              *)
(***************************************************************************)
EXTENDS ScheduledTasks, BackupRestore, FiniteSetTheorems, TLAPS

-----------------------------------------------------------------------------
(* ScheduledTasks: the strengthening of ScheduleSafe. *)

\* The advisory lock keeps ticks apart, and a tick that has ended holds nothing.
TicksApart ==
  \A j, k \in Ticks : tick[j].pc = "run" /\ tick[k].pc = "run" => j = k
EndedHoldsNothing ==
  \A k \in Ticks : tick[k].pc = "idle" => tick[k].todo = {} /\ tick[k].busy = {}

\* An organization waiting in a due list is still due, and is not being invoked.
TodoIsDue ==
  \A k \in Ticks : \A o \in tick[k].todo : ran[o] = Interval /\ o \notin tick[k].busy

ScheduleInd ==
  /\ ScheduleTypeOK /\ TicksApart /\ EndedHoldsNothing /\ TodoIsDue /\ PagedOnFullEvidence

\* Organizations are finitely many, so what a tick or a failure names can be counted.
LEMMA OrgsCounted ==
  \A S \in SUBSET Orgs : IsFiniteSet(S) /\ Cardinality(S) \in Nat
BY TimesAssumption, FS_Subset, FS_CardinalityType

\* The invariant holds before the first tick.
LEMMA ScheduleInitInd == ScheduleInit => ScheduleInd
<1> SUFFICES ASSUME ScheduleInit PROVE ScheduleInd
  OBVIOUS
<1>1. NoTick \in [pc: {"idle", "run"}, todo: SUBSET Orgs, busy: SUBSET Orgs]
      /\ NoTick.pc = "idle" /\ NoTick.todo = {} /\ NoTick.busy = {}
  BY DEF NoTick
<1>2. \A k \in Ticks : tick[k] = NoTick
  BY DEF ScheduleInit
<1>3. tick \in [Ticks -> [pc: {"idle", "run"}, todo: SUBSET Orgs, busy: SUBSET Orgs]]
  BY <1>1 DEF ScheduleInit
<1>4. Cardinality({}) <= Concurrency
  BY FS_EmptySet, TimesAssumption
<1>5. dog \in [verdict: Verdicts, recent: SUBSET Orgs] /\ dog.verdict = "idle"
  BY DEF ScheduleInit, NoDog, Verdicts
<1>6. /\ ran \in [Orgs -> 0 .. Interval] /\ tried \in [Orgs -> 0 .. Window + 1]
      /\ armed \in 0 .. Unset /\ faults \in 0 .. MaxFaults
  BY TimesAssumption DEF ScheduleInit, Unset
<1>7. ScheduleTypeOK
  BY <1>1, <1>2, <1>3, <1>4, <1>5, <1>6 DEF ScheduleInit, ScheduleTypeOK
<1> QED  BY <1>1, <1>2, <1>5, <1>7
         DEF ScheduleInd, TicksApart, EndedHoldsNothing, TodoIsDue, PagedOnFullEvidence

\* Every step keeps the invariant of the task.
LEMMA SchedulePreserved ==
  ASSUME ScheduleInd, [ScheduleNext]_scheduleVars
  PROVE  ScheduleInd'
<1>1. /\ ScheduleTypeOK /\ TicksApart /\ EndedHoldsNothing /\ TodoIsDue
      /\ PagedOnFullEvidence
  BY DEF ScheduleInd
<1>2. ASSUME NEW k \in Ticks, TickStart(k)
      PROVE  ScheduleInd'
  <2>1. ScheduleTypeOK'
    <3>1. PICK failed \in SUBSET Orgs :
             /\ faults + Cardinality(failed) <= MaxFaults
             /\ faults' = faults + Cardinality(failed)
             /\ tick' = [tick EXCEPT ![k] = [pc |-> "run", todo |-> Due \ failed, busy |-> {}]]
      BY <1>2 DEF TickStart
    <3>2. faults' \in 0 .. MaxFaults
      BY <1>1, <3>1, OrgsCounted, TimesAssumption DEF ScheduleTypeOK
    <3>3. [pc |-> "run", todo |-> Due \ failed, busy |-> {}]
            \in [pc: {"idle", "run"}, todo: SUBSET Orgs, busy: SUBSET Orgs]
      BY DEF Due
    <3>4. tick' \in [Ticks -> [pc: {"idle", "run"}, todo: SUBSET Orgs, busy: SUBSET Orgs]]
      BY <1>1, <3>1, <3>3 DEF ScheduleTypeOK
    <3>5. \A j \in Ticks : Cardinality(tick'[j].busy) <= Concurrency
      BY <1>1, <3>1, FS_EmptySet, TimesAssumption DEF ScheduleTypeOK
    <3> QED  BY <1>1, <1>2, <3>2, <3>4, <3>5 DEF TickStart, ScheduleTypeOK
  <2>2. TicksApart'
    BY <1>1, <1>2, TimesAssumption
       DEF TickStart, Due, LockFree, TicksApart, ScheduleTypeOK, Unset
  <2>3. EndedHoldsNothing'
    BY <1>1, <1>2, TimesAssumption
       DEF TickStart, Due, LockFree, EndedHoldsNothing, ScheduleTypeOK, Unset
  <2>4. TodoIsDue'
    BY <1>1, <1>2, TimesAssumption
       DEF TickStart, Due, LockFree, TodoIsDue, ScheduleTypeOK, Unset
  <2>5. PagedOnFullEvidence'
    BY <1>1, <1>2 DEF TickStart, Due, LockFree, PagedOnFullEvidence
  <2> QED  BY <2>1, <2>2, <2>3, <2>4, <2>5
              DEF ScheduleInd
<1>3. ASSUME NEW k \in Ticks, TickEnd(k)
      PROVE  ScheduleInd'
  <2>1. ScheduleTypeOK'
    BY <1>1, <1>3, TimesAssumption DEF TickEnd, NoTick, ScheduleTypeOK, Unset
  <2>2. TicksApart'
    BY <1>1, <1>3, TimesAssumption
       DEF TickEnd, NoTick, TicksApart, ScheduleTypeOK, Unset
  <2>3. EndedHoldsNothing'
    BY <1>1, <1>3, TimesAssumption
       DEF TickEnd, NoTick, EndedHoldsNothing, ScheduleTypeOK, Unset
  <2>4. TodoIsDue'
    BY <1>1, <1>3, TimesAssumption
       DEF TickEnd, NoTick, TodoIsDue, ScheduleTypeOK, Unset
  <2>5. PagedOnFullEvidence'
    BY <1>1, <1>3 DEF TickEnd, NoTick, PagedOnFullEvidence
  <2> QED  BY <2>1, <2>2, <2>3, <2>4, <2>5
              DEF ScheduleInd
<1>4. ASSUME NEW k \in Ticks, NEW o \in Orgs, Invoke(k, o)
      PROVE  ScheduleInd'
  <2>1. ScheduleTypeOK'
    <3> DEFINE b == IF loaded THEN tick[k].busy \cup {o} ELSE tick[k].busy
    <3>1. tick[k] \in [pc: {"idle", "run"}, todo: SUBSET Orgs, busy: SUBSET Orgs]
      BY <1>1 DEF ScheduleTypeOK
    <3>2. tick' = [tick EXCEPT ![k] = [tick[k] EXCEPT !.todo = tick[k].todo \ {o}, !.busy = b]]
      BY <1>1, <1>4, <3>1 DEF Invoke, ScheduleTypeOK
    <3>3. [tick[k] EXCEPT !.todo = tick[k].todo \ {o}, !.busy = b]
            \in [pc: {"idle", "run"}, todo: SUBSET Orgs, busy: SUBSET Orgs]
      BY <3>1
    <3>4. Cardinality(b) <= Concurrency
      <4>1. IsFiniteSet(tick[k].busy) /\ Cardinality(tick[k].busy) \in Nat
            /\ Cardinality(tick[k].busy) < Concurrency
        BY <1>4, <3>1, OrgsCounted DEF Invoke
      <4>2. Cardinality(tick[k].busy \cup {o}) \in {Cardinality(tick[k].busy), Cardinality(tick[k].busy) + 1}
        BY <4>1, FS_AddElement
      <4> QED  BY <4>1, <4>2, TimesAssumption
    <3> HIDE DEF b
    <3>5. tick' \in [Ticks -> [pc: {"idle", "run"}, todo: SUBSET Orgs, busy: SUBSET Orgs]]
      BY <1>1, <3>2, <3>3 DEF ScheduleTypeOK
    <3>6. \A j \in Ticks : tick'[j].busy = IF j = k THEN b ELSE tick[j].busy
      BY <1>1, <3>1, <3>2 DEF ScheduleTypeOK
    <3>7. \A j \in Ticks : Cardinality(tick'[j].busy) <= Concurrency
      BY <1>1, <3>4, <3>6 DEF ScheduleTypeOK
    <3> QED  BY <1>1, <1>4, <3>5, <3>7 DEF Invoke, ScheduleTypeOK
  <2>2. TicksApart'
    BY <1>1, <1>4, TimesAssumption
       DEF Invoke, TicksApart, ScheduleTypeOK, Unset
  <2>3. EndedHoldsNothing'
    BY <1>1, <1>4, TimesAssumption
       DEF Invoke, EndedHoldsNothing, ScheduleTypeOK, Unset
  <2>4. TodoIsDue'
    BY <1>1, <1>4, TimesAssumption
       DEF Invoke, TodoIsDue, ScheduleTypeOK, Unset
  <2>5. PagedOnFullEvidence'
    BY <1>1, <1>4 DEF Invoke, PagedOnFullEvidence
  <2> QED  BY <2>1, <2>2, <2>3, <2>4, <2>5
              DEF ScheduleInd
<1>5. ASSUME NEW k \in Ticks, NEW o \in Orgs, NEW outcome \in {"success", "reject", "timeout"}, Settle(k, o, outcome)
      PROVE  ScheduleInd'
  <2>1. ScheduleTypeOK'
    <3>1. tick[k] \in [pc: {"idle", "run"}, todo: SUBSET Orgs, busy: SUBSET Orgs]
      BY <1>1 DEF ScheduleTypeOK
    <3>2. tick' = [tick EXCEPT ![k] = [tick[k] EXCEPT !.busy = tick[k].busy \ {o}]]
      BY <1>1, <1>5, <3>1 DEF Settle, Settled
    <3>3. [tick[k] EXCEPT !.busy = tick[k].busy \ {o}]
            \in [pc: {"idle", "run"}, todo: SUBSET Orgs, busy: SUBSET Orgs]
      BY <3>1
    <3>4. Cardinality(tick[k].busy \ {o}) <= Concurrency
      <4>1. IsFiniteSet(tick[k].busy) /\ Cardinality(tick[k].busy) \in Nat
            /\ Cardinality(tick[k].busy) <= Concurrency
        BY <1>1, <3>1, OrgsCounted DEF ScheduleTypeOK
      <4>2. Cardinality(tick[k].busy \ {o}) \in {Cardinality(tick[k].busy), Cardinality(tick[k].busy) - 1}
        BY <4>1, FS_RemoveElement
      <4> QED  BY <4>1, <4>2, TimesAssumption
    <3>5. tick' \in [Ticks -> [pc: {"idle", "run"}, todo: SUBSET Orgs, busy: SUBSET Orgs]]
      BY <1>1, <3>2, <3>3 DEF ScheduleTypeOK
    <3>6. \A j \in Ticks : tick'[j].busy = IF j = k THEN tick[k].busy \ {o} ELSE tick[j].busy
      BY <1>1, <3>1, <3>2 DEF ScheduleTypeOK
    <3>7. \A j \in Ticks : Cardinality(tick'[j].busy) <= Concurrency
      BY <1>1, <3>4, <3>6 DEF ScheduleTypeOK
    <3>8. /\ ran' \in [Orgs -> 0 .. Interval] /\ tried' \in [Orgs -> 0 .. Window + 1]
          /\ faults' \in 0 .. MaxFaults
      BY <1>1, <1>5, TimesAssumption DEF Settle, RecordAttempt, ScheduleTypeOK
    <3>9. late' \subseteq Orgs /\ UNCHANGED <<loaded, armed, dog, episode>>
      BY <1>1, <1>5 DEF Settle, ScheduleTypeOK
    <3> QED  BY <1>1, <3>5, <3>7, <3>8, <3>9 DEF ScheduleTypeOK
  <2>2. TicksApart'
    BY <1>1, <1>5, TimesAssumption
       DEF Settle, RecordAttempt, Settled, TicksApart, ScheduleTypeOK, Unset
  <2>3. EndedHoldsNothing'
    BY <1>1, <1>5, TimesAssumption
       DEF Settle, RecordAttempt, Settled, EndedHoldsNothing, ScheduleTypeOK,
           Unset
  <2>4. TodoIsDue'
    <3>1. tick[k] \in [pc: {"idle", "run"}, todo: SUBSET Orgs, busy: SUBSET Orgs]
      BY <1>1 DEF ScheduleTypeOK
    <3>2. tick' = [tick EXCEPT ![k] = [tick[k] EXCEPT !.busy = tick[k].busy \ {o}]]
      BY <1>1, <1>5, <3>1 DEF Settle, Settled
    <3>3. \A j \in Ticks : tick'[j].todo = tick[j].todo /\ tick'[j].busy \subseteq tick[j].busy
      BY <1>1, <3>1, <3>2 DEF ScheduleTypeOK
    <3>4. \A p \in Orgs \ {o} : ran'[p] = ran[p]
      BY <1>1, <1>5 DEF Settle, RecordAttempt, ScheduleTypeOK
    <3>5. \A j \in Ticks : o \notin tick[j].todo
      <4>1. o \in tick[k].busy /\ tick[k].pc = "run"
        BY <1>1, <1>5, <3>1 DEF Settle, EndedHoldsNothing
      <4>2. \A j \in Ticks : tick[j].pc \in {"idle", "run"}
        BY <1>1 DEF ScheduleTypeOK
      <4> QED  BY <1>1, <4>1, <4>2 DEF TicksApart, EndedHoldsNothing, TodoIsDue
    <3>6. \A j \in Ticks : tick[j].todo \subseteq Orgs
      BY <1>1 DEF ScheduleTypeOK
    <3> QED  BY <1>1, <3>3, <3>4, <3>5, <3>6 DEF TodoIsDue
  <2>5. PagedOnFullEvidence'
    BY <1>1, <1>5 DEF Settle, RecordAttempt, Settled, PagedOnFullEvidence
  <2> QED  BY <2>1, <2>2, <2>3, <2>4, <2>5
              DEF ScheduleInd
<1>6. ASSUME NEW o \in Orgs, LateEnds(o)
      PROVE  ScheduleInd'
  <2>1. ScheduleTypeOK'
    BY <1>1, <1>6, TimesAssumption DEF LateEnds, ScheduleTypeOK, Unset
  <2>2. /\ TicksApart' /\ EndedHoldsNothing' /\ TodoIsDue'
        /\ PagedOnFullEvidence'
    BY <1>1, <1>6
       DEF LateEnds, TicksApart, EndedHoldsNothing, TodoIsDue,
           PagedOnFullEvidence
  <2> QED  BY <2>1, <2>2
              DEF ScheduleInd
<1>7. CASE DogRead
  <2>1. ScheduleTypeOK'
    <3>1. PICK failed \in SUBSET Orgs :
             /\ faults + Cardinality(failed) <= MaxFaults
             /\ faults' = faults + Cardinality(failed)
             /\ dog' = [verdict |-> IF ~loaded THEN "undeclared"
                                    ELSE IF failed = Orgs THEN "inconclusive"
                                    ELSE Evaluate(ArmedNow, failed),
                        recent |-> Recent]
      BY <1>7 DEF DogRead
    <3>2. faults' \in 0 .. MaxFaults
      BY <1>1, <3>1, OrgsCounted, TimesAssumption DEF ScheduleTypeOK
    <3>3. Evaluate(ArmedNow, failed) \in Verdicts
      BY DEF Evaluate, Verdicts
    <3>4. dog' \in [verdict: Verdicts, recent: SUBSET Orgs]
      BY <3>1, <3>3 DEF Verdicts, Recent
    <3>5. armed' \in 0 .. Unset
      BY <1>1, <1>7, TimesAssumption DEF DogRead, ArmedNow, Unset, ScheduleTypeOK
    <3> QED  BY <1>1, <1>7, <3>2, <3>4, <3>5 DEF DogRead, ScheduleTypeOK
  <2>2. PagedOnFullEvidence'
    BY <1>1, <1>7, TimesAssumption
       DEF DogRead, ArmedNow, Unset, Evaluate, Recent, PagedOnFullEvidence,
           ScheduleTypeOK
  <2>3. TicksApart' /\ EndedHoldsNothing' /\ TodoIsDue'
    BY <1>1, <1>7
       DEF DogRead, ArmedNow, Unset, Evaluate, Recent, TicksApart,
           EndedHoldsNothing, TodoIsDue
  <2> QED  BY <2>1, <2>2, <2>3
              DEF ScheduleInd
<1>8. CASE DogAct
  <2>1. ScheduleTypeOK'
    <3>1. dog' \in [verdict: Verdicts, recent: SUBSET Orgs]
      BY <1>8 DEF DogAct, NoDog, Verdicts
    <3>2. episode' \in BOOLEAN
      BY <1>8, Zenon DEF DogAct
    <3> QED  BY <1>1, <1>8, <3>1, <3>2 DEF DogAct, ScheduleTypeOK
  <2>2. PagedOnFullEvidence'
    BY <1>1, <1>8, TimesAssumption
       DEF DogAct, NoDog, Resolves, PagedOnFullEvidence, ScheduleTypeOK,
           Unset
  <2>3. TicksApart' /\ EndedHoldsNothing' /\ TodoIsDue'
    BY <1>1, <1>8
       DEF DogAct, NoDog, Resolves, TicksApart, EndedHoldsNothing, TodoIsDue
  <2> QED  BY <2>1, <2>2, <2>3
              DEF ScheduleInd
<1>9. CASE DogFails
  <2>1. ScheduleTypeOK'
    <3>1. dog' \in [verdict: Verdicts, recent: SUBSET Orgs]
      BY <1>9 DEF DogFails, NoDog, Verdicts
    <3>2. faults' \in 0 .. MaxFaults
      BY <1>1, <1>9, TimesAssumption DEF DogFails, ScheduleTypeOK
    <3> QED  BY <1>1, <1>9, <3>1, <3>2 DEF DogFails, ScheduleTypeOK
  <2>2. PagedOnFullEvidence'
    BY <1>1, <1>9, TimesAssumption
       DEF DogFails, NoDog, PagedOnFullEvidence, ScheduleTypeOK, Unset
  <2>3. TicksApart' /\ EndedHoldsNothing' /\ TodoIsDue'
    BY <1>1, <1>9
       DEF DogFails, NoDog, TicksApart, EndedHoldsNothing, TodoIsDue
  <2> QED  BY <2>1, <2>2, <2>3
              DEF ScheduleInd
<1>10. CASE Clock
  <2>1. ScheduleTypeOK'
    BY <1>1, <1>10, TimesAssumption DEF Clock, Older, Unset, ScheduleTypeOK
  <2>2. TodoIsDue'
    BY <1>1, <1>10, TimesAssumption
       DEF Clock, Older, Unset, TodoIsDue, ScheduleTypeOK
  <2>3. TicksApart' /\ EndedHoldsNothing' /\ PagedOnFullEvidence'
    BY <1>1, <1>10
       DEF Clock, Older, Unset, TicksApart, EndedHoldsNothing,
           PagedOnFullEvidence
  <2> QED  BY <2>1, <2>2, <2>3
              DEF ScheduleInd
<1>11. CASE Reload
  <2>1. ScheduleTypeOK'
    BY <1>1, <1>11, TimesAssumption DEF Reload, ScheduleTypeOK, Unset
  <2>2. /\ TicksApart' /\ EndedHoldsNothing' /\ TodoIsDue'
        /\ PagedOnFullEvidence'
    BY <1>1, <1>11
       DEF Reload, TicksApart, EndedHoldsNothing, TodoIsDue,
           PagedOnFullEvidence
  <2> QED  BY <2>1, <2>2
              DEF ScheduleInd
<1>12. CASE Restart
  <2>1. ScheduleTypeOK'
    <3>1. dog' \in [verdict: Verdicts, recent: SUBSET Orgs]
      BY <1>12 DEF Restart, NoDog, Verdicts
    <3>2. NoTick \in [pc: {"idle", "run"}, todo: SUBSET Orgs, busy: SUBSET Orgs] /\ NoTick.busy = {}
      BY DEF NoTick
    <3>3. tick' \in [Ticks -> [pc: {"idle", "run"}, todo: SUBSET Orgs, busy: SUBSET Orgs]]
      BY <1>12, <3>2 DEF Restart
    <3>4. \A j \in Ticks : Cardinality(tick'[j].busy) <= Concurrency
      BY <1>12, <3>2, FS_EmptySet, TimesAssumption DEF Restart
    <3>5. faults' \in 0 .. MaxFaults /\ armed' \in 0 .. Unset
      BY <1>1, <1>12, TimesAssumption DEF Restart, Unset, ScheduleTypeOK
    <3> QED  BY <1>1, <1>12, <3>1, <3>3, <3>4, <3>5 DEF Restart, ScheduleTypeOK
  <2>2. TicksApart'
    BY <1>1, <1>12, TimesAssumption
       DEF Restart, NoDog, NoTick, Unset, TicksApart, ScheduleTypeOK
  <2>3. EndedHoldsNothing'
    BY <1>1, <1>12, TimesAssumption
       DEF Restart, NoDog, NoTick, Unset, EndedHoldsNothing, ScheduleTypeOK
  <2>4. TodoIsDue'
    BY <1>1, <1>12, TimesAssumption
       DEF Restart, NoDog, NoTick, Unset, TodoIsDue, ScheduleTypeOK
  <2>5. PagedOnFullEvidence'
    BY <1>1, <1>12, TimesAssumption
       DEF Restart, NoDog, NoTick, Unset, PagedOnFullEvidence, ScheduleTypeOK
  <2> QED  BY <2>1, <2>2, <2>3, <2>4, <2>5
              DEF ScheduleInd
<1>13. CASE UNCHANGED scheduleVars
  BY <1>1, <1>13
     DEF scheduleVars, EndedHoldsNothing, PagedOnFullEvidence, ScheduleInd,
         ScheduleTypeOK, TicksApart, TodoIsDue, Unset
<1> QED  BY <1>2, <1>3, <1>4, <1>5, <1>6, <1>7, <1>8, <1>9, <1>10, <1>11,
            <1>12, <1>13
            DEF ScheduleNext, Tick

\* An invocation that begins is of an organization that is due.
LEMMA InvokedIsDue ==
  ASSUME ScheduleInd, [ScheduleNext]_scheduleVars, NEW k \in Ticks, NEW o \in Orgs,
         o \in tick'[k].busy, o \notin tick[k].busy
  PROVE  ran[o] = Interval
<1>1. ScheduleTypeOK /\ TodoIsDue
  BY DEF ScheduleInd
<1>2. ASSUME NEW j \in Ticks, TickStart(j) PROVE FALSE
  BY <1>1, <1>2 DEF TickStart, ScheduleTypeOK
<1>3. ASSUME NEW j \in Ticks, TickEnd(j) PROVE FALSE
  BY <1>1, <1>3 DEF TickEnd, NoTick, ScheduleTypeOK
<1>4. ASSUME NEW j \in Ticks, NEW p \in Orgs, Invoke(j, p) PROVE ran[o] = Interval
  <2>1. j = k /\ p = o
    BY <1>1, <1>4 DEF Invoke, ScheduleTypeOK
  <2> QED  BY <1>1, <1>4, <2>1 DEF Invoke, TodoIsDue
<1>5. ASSUME NEW j \in Ticks, NEW p \in Orgs, NEW outcome, Settle(j, p, outcome) PROVE FALSE
  BY <1>1, <1>5 DEF Settle, Settled, ScheduleTypeOK
<1>6. ASSUME UNCHANGED tick PROVE FALSE
  BY <1>6
<1>7. CASE Restart
  BY <1>7 DEF Restart, NoTick
<1> QED  BY <1>2, <1>3, <1>4, <1>5, <1>6, <1>7
         DEF ScheduleNext, Tick, LateEnds, DogRead, DogAct, DogFails, Clock, Reload, scheduleVars

\* Ticks and the watchdog keep their records within the limits, and a missed task
\* is reported only on the evidence of every organization, whatever reads fail
\* (evaluatePair), for any number of organizations and any window.
THEOREM ScheduleAlwaysSafe == ScheduleSpec => []ScheduleSafe
<1>1. ScheduleInd => ScheduleSafe
  BY DEF ScheduleInd, ScheduleSafe
<1> QED  BY <1>1, ScheduleInitInd, SchedulePreserved, PTL DEF ScheduleSpec

\* No handler is invoked within the interval of a recorded success: the due list a
\* tick works through does not go stale (runScheduledTasksTick).
THEOREM IntervalAlwaysRespected == ScheduleSpec => IntervalRespected
<1>1. ScheduleInd /\ [ScheduleNext]_scheduleVars =>
        [\A k \in Ticks, o \in Orgs :
           (o \in tick'[k].busy /\ o \notin tick[k].busy) => ran[o] = Interval]_scheduleVars
  BY InvokedIsDue
<1>2. ScheduleSpec => []ScheduleInd
  BY ScheduleInitInd, SchedulePreserved, PTL DEF ScheduleSpec
<1> QED  BY <1>1, <1>2, PTL DEF ScheduleSpec, IntervalRespected

-----------------------------------------------------------------------------
(* BackupRestore: the strengthening of BackupSafe. *)

\* The states of an execution.
ExecStates == [run : Runs \cup {None}, phase : ExecPhases, dump : Snapshot,
               owns : BOOLEAN, prune : SUBSET Runs]

\* The variables of BackupRestore have these types.
TablesOK ==
  /\ rows \in [Runs -> Statuses] /\ jobs \subseteq Runs /\ tries \in [Runs -> 0 .. RetryLimit]
  /\ trigger \in [Runs -> {"none", "audit", "send", "done"}]
ExecsOK == exec \in [Execs -> ExecStates]
FilesOK ==
  /\ file \in [Runs -> Execs \cup {None}] /\ meta \in [Runs -> Execs \cup {None}]
  /\ pruned \subseteq Runs
RestoresOK ==
  /\ restore \in [Restores -> [run : Runs, phase : RestorePhases, file : Execs \cup {None}]]
  /\ lock \in Restores \cup {None}
ProcessOK ==
  /\ restored \in BOOLEAN /\ sealed \in BOOLEAN /\ up \in BOOLEAN
  /\ crashes \in 0 .. MaxCrashes /\ runsUsed \in 0 .. MaxRuns /\ execsUsed \in 0 .. MaxExecs

\* Executions are used in order: the others have no run, those in use have one.
ExecsNumbered ==
  /\ \A e \in Execs : e > execsUsed => exec[e].run = None /\ exec[e].phase = "unused"
  /\ \A e \in Execs : exec[e].phase # "unused" => exec[e].run # None

\* The lock is held by the restore that is past taking it, in a dead process too.
LockExact == \A q \in Restores : lock = q <=> restore[q].phase \in Holding

\* From its check until it replaces the database a restore sees no row running.
NoneRunning ==
  \A q \in Restores : restore[q].phase \in {"reading", "comparing", "decrypting", "applying"} =>
    \A r \in Runs : rows[r] # "running"

\* A restore that compares, decrypts or applies a file has read one.
FileRead ==
  \A q \in Restores : restore[q].phase \in {"comparing", "decrypting", "applying"} =>
    restore[q].file # None

\* An execution that has written its file finds it there, unless retention took it.
FileBeforeSidecar ==
  \A e \in Execs : exec[e].phase = "writeMeta" =>
    file[exec[e].run] # None \/ exec[e].run \in pruned

\* Before a restore, runs are used in order, and a trigger that has not sent its
\* job yet has nobody executing the run.
RunsNumbered ==
  ~restored => \A r \in Runs : r > runsUsed =>
    trigger[r] = "none" /\ r \notin jobs /\ \A e \in Execs : exec[e].run # r
TriggerFirst ==
  ~restored => \A r \in Runs : trigger[r] \in {"audit", "send"} =>
    r \notin jobs /\ \A e \in Execs : exec[e].run # r

\* No job was repeated and no restore has rolled the rows back.
Regular == ExecutedOnce /\ ~restored

\* Then an execution under way has not succeeded, and the file and the sidecar it
\* has written are its own.
OwnFiles ==
  Regular => \A e \in Execs :
    /\ exec[e].phase \notin {"unused", "prune", "done"} => rows[exec[e].run] # "succeeded"
    /\ exec[e].phase \in {"writeMeta", "settle"} => file[exec[e].run] = e
    /\ exec[e].phase = "settle" => meta[exec[e].run] = e

\* A run that has succeeded was executed to its end.
SucceededExecuted ==
  Regular => \A r \in Runs : rows[r] = "succeeded" => \E e \in Execs : exec[e].run = r

\* Retention has selected only runs it would select now.
Successes == {r \in Runs : rows[r] = "succeeded"}
PruneOnlyOld ==
  Regular => \A e \in Execs : exec[e].prune \subseteq ToPrune(Successes)

\* Each succeeded backup that retention keeps has its file and its sidecar.
KeptHasFiles ==
  Regular => \A r \in Successes :
    r \in ToPrune(Successes) \/ (file[r] # None /\ meta[r] = file[r])

BackupInd ==
  /\ TablesOK /\ ExecsOK /\ FilesOK /\ RestoresOK /\ ProcessOK
  /\ ExecsNumbered /\ LockExact /\ NoneRunning /\ FileRead /\ FileBeforeSidecar
  /\ SidecarHasFile /\ RunsNumbered /\ TriggerFirst /\ OwnFiles /\ SucceededExecuted /\ PruneOnlyOld
  /\ KeptHasFiles

\* Runs and executions are numbered from one.
LEMMA BackupNumbers ==
  /\ \A r \in Runs : r \in Nat /\ r # None /\ r <= MaxRuns
  /\ \A e \in Execs : e \in Nat /\ e # None /\ e <= MaxExecs
  /\ None \notin Restores /\ 1 \in Runs /\ None \notin Runs
BY BackupAssumption DEF Runs, Execs, None

\* A set of runs can be counted.
LEMMA RunsCounted ==
  \A S \in SUBSET Runs : IsFiniteSet(S) /\ Cardinality(S) \in Nat
<1>1. IsFiniteSet(Runs)
  BY BackupAssumption, FS_Interval DEF Runs
<1> QED  BY <1>1, FS_Subset, FS_CardinalityType

\* A success more never takes a run off the list of those to delete.
LEMMA ToPruneGrows ==
  ASSUME NEW S \in SUBSET Runs, NEW T \in SUBSET Runs, S \subseteq T
  PROVE  ToPrune(S) \subseteq ToPrune(T)
<1> SUFFICES ASSUME NEW r \in ToPrune(S) PROVE r \in ToPrune(T)
  OBVIOUS
<1> DEFINE A == {s \in S : s > r}
           B == {s \in T : s > r}
<1>1. r \in S /\ Cardinality(A) >= Retention
  BY DEF ToPrune
<1>2. A \subseteq B /\ A \in SUBSET Runs /\ B \in SUBSET Runs
  OBVIOUS
<1>3. IsFiniteSet(B) /\ Cardinality(A) \in Nat /\ Cardinality(B) \in Nat
  BY <1>2, RunsCounted
<1>4. Cardinality(A) <= Cardinality(B)
  BY <1>2, <1>3, FS_Subset
<1>5. Cardinality(B) >= Retention
  BY <1>1, <1>3, <1>4, BackupAssumption
<1> QED  BY <1>1, <1>5 DEF ToPrune

\* What a step of an execution leaves alone.
SameRuns == \A e \in Execs : exec'[e].run = exec[e].run /\ exec'[e].prune = exec[e].prune

\* A step of an execution moves its phase only.
LEMMA ExecStepped ==
  ASSUME ExecsOK, NEW e \in Execs, NEW p \in ExecPhases, Step(e, p)
  PROVE  /\ ExecsOK' /\ SameRuns
         /\ \A d \in Execs : exec'[d].phase = IF d = e THEN p ELSE exec[d].phase
<1>1. exec' = [exec EXCEPT ![e] = [exec[e] EXCEPT !.phase = p]] /\ exec[e] \in ExecStates
  BY DEF Step, ExecsOK
<1>2. /\ [exec[e] EXCEPT !.phase = p] \in ExecStates
      /\ [exec[e] EXCEPT !.phase = p].phase = p
      /\ [exec[e] EXCEPT !.phase = p].run = exec[e].run
      /\ [exec[e] EXCEPT !.phase = p].prune = exec[e].prune
  BY <1>1 DEF ExecStates
<1> QED  BY <1>1, <1>2 DEF ExecsOK, SameRuns

\* A step of a restore moves its phase only.
LEMMA RestoreStepped ==
  ASSUME RestoresOK, NEW q \in Restores, NEW p \in RestorePhases, RestoreStep(q, p)
  PROVE  /\ restore' \in [Restores -> [run : Runs, phase : RestorePhases, file : Execs \cup {None}]]
         /\ \A s \in Restores : restore'[s].phase = IF s = q THEN p ELSE restore[s].phase
         /\ \A s \in Restores : restore'[s].file = restore[s].file
BY DEF RestoreStep, RestoresOK

\* A job that starts is given to the next execution.
LEMMA ExecStarted ==
  ASSUME ExecsOK, ExecsNumbered, NEW e \in Execs, NEW r \in Runs, ProcessOK, Started(e, r, TRUE)
  PROVE  /\ ExecsOK' /\ execsUsed' \in 0 .. MaxExecs /\ exec[e].run = None /\ exec[e].phase = "unused"
         /\ exec'[e].run = r /\ exec'[e].phase = "dumping" /\ exec'[e].prune = exec[e].prune
         /\ \A d \in Execs \ {e} : exec'[d] = exec[d]
         /\ ExecsNumbered'
<1> DEFINE x == [exec[e] EXCEPT !.run = r, !.phase = "dumping", !.owns = TRUE]
<1>1. exec[e] \in ExecStates /\ exec' = [exec EXCEPT ![e] = x] /\ e = execsUsed + 1 /\ execsUsed' = e
  BY DEF Started, ExecsOK
<1>2. x \in ExecStates /\ x.run = r /\ x.phase = "dumping" /\ x.prune = exec[e].prune
  BY <1>1 DEF ExecStates, ExecPhases
<1> HIDE DEF x
<1>3. ExecsOK' /\ exec'[e] = x /\ \A d \in Execs \ {e} : exec'[d] = exec[d]
  BY <1>1, <1>2 DEF ExecsOK
<1>4. execsUsed \in Nat /\ e > execsUsed
  BY <1>1, BackupAssumption DEF ProcessOK
<1>5. execsUsed' \in 0 .. MaxExecs
  BY <1>1, <1>4, BackupNumbers, BackupAssumption DEF ProcessOK
<1>6. \A d \in Execs \ {e} : d > execsUsed' => d > execsUsed
  BY <1>1, <1>4, BackupNumbers
<1>7. ~(e > execsUsed')
  BY <1>1, <1>4
<1>8. r # None
  BY BackupNumbers
<1>9. ExecsNumbered'
  BY <1>2, <1>3, <1>6, <1>7, <1>8 DEF ExecsNumbered
<1> QED  BY <1>2, <1>3, <1>4, <1>5, <1>9 DEF ExecsNumbered

\* An execution that has begun has a run.
LEMMA ExecHasRun ==
  ASSUME ExecsOK, ExecsNumbered, NEW e \in Execs, exec[e].phase # "unused"
  PROVE  exec[e].run \in Runs
BY DEF ExecsOK, ExecsNumbered, ExecStates

\* Whether jobs were repeated depends on the runs of the executions only.
LEMMA RegularKept ==
  ASSUME SameRuns, restored' = restored
  PROVE  Regular' <=> Regular
BY DEF SameRuns, Regular, ExecutedOnce

\* Nothing about succeeded backups changes when the successes, the selections of
\* retention and the files of the backups kept stay as they are.
LEMMA HistoryKept ==
  ASSUME SucceededExecuted, PruneOnlyOld, KeptHasFiles,
         Regular' => Regular /\ Successes' = Successes,
         \A e \in Execs : exec'[e].prune \subseteq exec[e].prune,
         \A e \in Execs : exec[e].run # None => exec'[e].run = exec[e].run,
         Regular' => \A r \in Successes \ ToPrune(Successes) : file'[r] = file[r] /\ meta'[r] = meta[r]
  PROVE  SucceededExecuted' /\ PruneOnlyOld' /\ KeptHasFiles'
<1> SUFFICES ASSUME Regular'
             PROVE  /\ \A r \in Successes' : \E e \in Execs : exec'[e].run = r
                    /\ \A e \in Execs : exec'[e].prune \subseteq ToPrune(Successes')
                    /\ \A r \in Successes' :
                         r \in ToPrune(Successes') \/ (file'[r] # None /\ meta'[r] = file'[r])
  BY DEF SucceededExecuted, PruneOnlyOld, KeptHasFiles, Successes, ToPrune
<1>1. Regular /\ Successes' = Successes
  OBVIOUS
<1>2. \A r \in Successes' : \E e \in Execs : exec'[e].run = r
  BY <1>1, BackupNumbers DEF SucceededExecuted, Successes
<1>3. \A e \in Execs : exec'[e].prune \subseteq ToPrune(Successes')
  BY <1>1 DEF PruneOnlyOld
<1>4. \A r \in Successes' :
        r \in ToPrune(Successes') \/ (file'[r] # None /\ meta'[r] = file'[r])
  BY <1>1 DEF KeptHasFiles
<1> QED  BY <1>2, <1>3, <1>4

\* Every step keeps the invariant of backups and restores.
LEMMA BackupPreserved ==
  ASSUME BackupInd, [Next]_vars
  PROVE  BackupInd'
<1>1. /\ TablesOK /\ ExecsOK /\ FilesOK /\ RestoresOK /\ ProcessOK
      /\ ExecsNumbered /\ LockExact /\ NoneRunning /\ FileRead
      /\ FileBeforeSidecar /\ SidecarHasFile /\ RunsNumbered /\ TriggerFirst
      /\ OwnFiles /\ SucceededExecuted /\ PruneOnlyOld /\ KeptHasFiles
  BY DEF BackupInd
<1>2. ASSUME NEW r \in Runs, Trigger(r)
      PROVE  BackupInd'
  <2>1. /\ r = runsUsed + 1 /\ lock = None /\ runsUsed' = r
        /\ rows' = [rows EXCEPT ![r] = "running"] /\ trigger' = [trigger EXCEPT ![r] = "audit"]
        /\ UNCHANGED <<jobs, tries, exec, file, meta, pruned, restore, lock, restored, sealed, up,
                       crashes, execsUsed>>
    BY <1>2 DEF Trigger, TakeSlot, SlotFree, Storage, Flags
  <2>2. runsUsed \in Nat /\ r > runsUsed /\ \A x \in Runs : x > r => x > runsUsed
    BY <1>1, <2>1, BackupNumbers, BackupAssumption DEF ProcessOK
  <2>3. ~restored => trigger[r] = "none" /\ r \notin jobs /\ \A d \in Execs : exec[d].run # r
    BY <1>1, <2>2 DEF RunsNumbered
  <2>4. \A q \in Restores : restore[q].phase \notin Holding
    BY <1>1, <2>1, BackupNumbers DEF LockExact
  <2>5. rows' \in [Runs -> Statuses] /\ \A x \in Runs : rows'[x] = IF x = r THEN "running" ELSE rows[x]
    BY <1>1, <2>1 DEF TablesOK, Statuses
  <2>6. Regular => Successes' = Successes
    BY <1>1, <2>3, <2>5 DEF SucceededExecuted, Successes, Regular
  <2>7. Regular' <=> Regular
    BY <2>1, RegularKept DEF SameRuns
  <2>8. trigger' \in [Runs -> {"none", "audit", "send", "done"}]
        /\ \A x \in Runs : trigger'[x] = IF x = r THEN "audit" ELSE trigger[x]
    BY <1>1, <2>1 DEF TablesOK
  <2>9. SucceededExecuted' /\ PruneOnlyOld' /\ KeptHasFiles'
    BY <1>1, <2>1, <2>6, <2>7, HistoryKept
  <2>10. TablesOK'
    BY <1>1, <2>1, <2>5, <2>8 DEF TablesOK
  <2>11. ExecsOK'
    BY <1>1, <2>1, <2>2, <2>3, <2>4, <2>5, <2>6, <2>7, <2>8, <2>9
       DEF ExecsOK
  <2>12. ProcessOK'
    BY <1>1, <2>1, <2>2, BackupNumbers, BackupAssumption DEF ProcessOK
  <2>13. NoneRunning'
    BY <2>1, <2>4 DEF NoneRunning, Holding
  <2>14. RunsNumbered'
    BY <1>1, <2>1, <2>2, <2>8, BackupNumbers DEF RunsNumbered
  <2>15. TriggerFirst'
    BY <1>1, <2>1, <2>3, <2>8 DEF TriggerFirst
  <2>16. OwnFiles'
    <3>1. Regular => \A x \in Runs : rows'[x] = "succeeded" => rows[x] = "succeeded"
      BY <2>5
    <3> QED  BY <1>1, <2>1, <2>7, <3>1, ExecHasRun DEF OwnFiles
  <2>17. SucceededExecuted'
    BY <2>9
  <2>18. PruneOnlyOld'
    BY <2>9
  <2>19. KeptHasFiles'
    BY <2>9
  <2>20. /\ FilesOK' /\ RestoresOK' /\ ExecsNumbered' /\ LockExact'
        /\ FileRead' /\ FileBeforeSidecar' /\ SidecarHasFile'
    BY <1>1, <1>2
       DEF Trigger, Flags, Storage, TakeSlot, SlotFree, FilesOK, RestoresOK,
           ExecsNumbered, LockExact, FileRead, FileBeforeSidecar,
           SidecarHasFile
  <2> QED  BY <2>10, <2>11, <2>12, <2>13, <2>14, <2>15, <2>16, <2>17, <2>18,
              <2>19, <2>20
              DEF BackupInd
<1>3. ASSUME NEW r \in Runs, TriggerAudit(r)
      PROVE  BackupInd'
  <2>1. /\ trigger[r] = "audit" /\ (trigger' = [trigger EXCEPT ![r] = "send"] \/ trigger' = [trigger EXCEPT ![r] = "done"])
        /\ rows' \in {rows, [rows EXCEPT ![r] = IF rows[r] = "absent" THEN rows[r] ELSE "failed"]}
        /\ UNCHANGED <<jobs, tries, exec, file, meta, pruned, restore, lock, restored, sealed, up,
                       crashes, runsUsed, execsUsed>>
    BY <1>1, <1>3 DEF TriggerAudit, TablesOK, Storage, Flags, Bounds
  <2>2. ~restored => r \notin jobs /\ \A d \in Execs : exec[d].run # r
    BY <1>1, <2>1 DEF TriggerFirst
  <2>3. /\ rows' \in [Runs -> Statuses]
        /\ \A x \in Runs : rows'[x] = rows[x] \/ (x = r /\ rows'[x] = "failed")
    BY <1>1, <2>1 DEF TablesOK, Statuses
  <2>4. /\ trigger' \in [Runs -> {"none", "audit", "send", "done"}]
        /\ \A x \in Runs : x # r => trigger'[x] = trigger[x]
        /\ trigger'[r] \in {"send", "done"}
    BY <1>1, <2>1 DEF TablesOK
  <2>5. Regular => Successes' = Successes
    BY <1>1, <2>2, <2>3 DEF SucceededExecuted, Successes, Regular
  <2>6. Regular' <=> Regular
    BY <2>1, RegularKept DEF SameRuns
  <2>7. SucceededExecuted' /\ PruneOnlyOld' /\ KeptHasFiles'
    BY <1>1, <2>1, <2>5, <2>6, HistoryKept
  <2>8. TablesOK'
    BY <1>1, <2>1, <2>3, <2>4 DEF TablesOK
  <2>9. ExecsOK'
    BY <1>1, <2>1, <2>2, <2>3, <2>4, <2>5, <2>6, <2>7
       DEF ExecsOK
  <2>10. NoneRunning'
    BY <1>1, <2>1, <2>3 DEF NoneRunning
  <2>11. RunsNumbered'
    BY <1>1, <2>1, <2>4 DEF RunsNumbered
  <2>12. TriggerFirst'
    BY <1>1, <2>1, <2>2, <2>4 DEF TriggerFirst
  <2>13. OwnFiles'
    <3>1. \A x \in Runs : rows'[x] = "succeeded" => rows[x] = "succeeded"
      BY <2>3
    <3> QED  BY <1>1, <2>1, <2>6, <3>1, ExecHasRun DEF OwnFiles
  <2>14. SucceededExecuted'
    BY <2>7
  <2>15. PruneOnlyOld'
    BY <2>7
  <2>16. KeptHasFiles'
    BY <2>7
  <2>17. /\ FilesOK' /\ RestoresOK' /\ ProcessOK' /\ ExecsNumbered'
        /\ LockExact' /\ FileRead' /\ FileBeforeSidecar' /\ SidecarHasFile'
    BY <1>1, <1>3
       DEF TriggerAudit, Bounds, Flags, Storage, FilesOK, RestoresOK,
           ProcessOK, ExecsNumbered, LockExact, FileRead, FileBeforeSidecar,
           SidecarHasFile
  <2> QED  BY <2>8, <2>9, <2>10, <2>11, <2>12, <2>13, <2>14, <2>15, <2>16,
              <2>17
              DEF BackupInd
<1>4. ASSUME NEW r \in Runs, TriggerSend(r)
      PROVE  BackupInd'
  <2>1. TablesOK'
    BY <1>1, <1>4, BackupNumbers
       DEF TriggerSend, Bounds, Flags, Storage, TablesOK
  <2>2. ExecsOK'
    BY <1>1, <1>4, BackupNumbers
       DEF TriggerSend, Bounds, Flags, Storage, ExecsOK
  <2>3. RunsNumbered'
    BY <1>1, <1>4, BackupNumbers
       DEF TriggerSend, Bounds, Flags, Storage, RunsNumbered
  <2>4. TriggerFirst'
    <3>1. /\ jobs' \subseteq jobs \cup {r} /\ UNCHANGED <<exec, restored>>
          /\ trigger' = [trigger EXCEPT ![r] = "done"]
      BY <1>4 DEF TriggerSend, Flags
    <3>2. trigger'[r] = "done" /\ \A x \in Runs : x # r => trigger'[x] = trigger[x]
      BY <1>1, <3>1 DEF TablesOK
    <3> QED  BY <1>1, <3>1, <3>2 DEF TriggerFirst
  <2>5. /\ FilesOK' /\ RestoresOK' /\ ProcessOK' /\ ExecsNumbered'
        /\ LockExact' /\ NoneRunning' /\ FileRead' /\ FileBeforeSidecar'
        /\ SidecarHasFile' /\ OwnFiles' /\ SucceededExecuted'
        /\ PruneOnlyOld' /\ KeptHasFiles'
    BY <1>1, <1>4
       DEF TriggerSend, Bounds, Flags, Storage, FilesOK, RestoresOK,
           ProcessOK, ExecsNumbered, LockExact, NoneRunning, FileRead,
           FileBeforeSidecar, SidecarHasFile, OwnFiles, Regular,
           ExecutedOnce, SucceededExecuted, PruneOnlyOld, Successes,
           KeptHasFiles
  <2> QED  BY <2>1, <2>2, <2>3, <2>4, <2>5
              DEF BackupInd
<1>5. ASSUME NEW e \in Execs, NEW r \in Runs, TakeJob(e, r)
      PROVE  BackupInd'
  <2>1. /\ r \in jobs /\ jobs' = jobs \ {r}
        /\ UNCHANGED <<rows, tries, trigger, restore, lock, file, meta, pruned, restored, sealed, up,
                       crashes, runsUsed>>
    BY <1>5 DEF TakeJob, Storage, Requests, Flags
  <2>2. ~restored => ~(r > runsUsed) /\ trigger[r] \notin {"audit", "send"}
    BY <1>1, <2>1 DEF RunsNumbered, TriggerFirst
  <2>3. /\ ExecsOK' /\ execsUsed' \in 0 .. MaxExecs /\ exec[e].run = None /\ exec[e].phase = "unused"
        /\ exec'[e].run = r /\ exec'[e].phase = "dumping" /\ exec'[e].prune = exec[e].prune
        /\ \A d \in Execs \ {e} : exec'[d] = exec[d]
        /\ ExecsNumbered'
    BY <1>1, <1>5, ExecStarted DEF TakeJob
  <2>4. Regular' => Regular /\ \A d \in Execs \ {e} : exec[d].run # r
    <3> SUFFICES ASSUME Regular' PROVE Regular /\ \A d \in Execs \ {e} : exec[d].run # r
      OBVIOUS
    <3>1. ~restored /\ \A c, d \in Execs : exec'[c].run = exec'[d].run /\ exec'[c].run # None => c = d
      BY <2>1 DEF Regular, ExecutedOnce
    <3>2. \A d \in Execs \ {e} : exec[d].run # r
      BY <2>3, <3>1, BackupNumbers
    <3>3. ASSUME NEW c \in Execs, NEW d \in Execs, exec[c].run = exec[d].run, exec[c].run # None
          PROVE  c = d
      <4>1. c # e /\ d # e
        BY <2>3, <3>3
      <4> QED  BY <2>3, <3>1, <3>3, <4>1
    <3> QED  BY <3>1, <3>2, <3>3 DEF Regular, ExecutedOnce
  <2>5. Regular' => rows[r] # "succeeded"
    BY <1>1, <2>3, <2>4, BackupNumbers DEF SucceededExecuted
  <2>6. SucceededExecuted' /\ PruneOnlyOld' /\ KeptHasFiles'
    <3>1. \A d \in Execs : exec'[d].prune \subseteq exec[d].prune
      BY <2>3
    <3>2. \A d \in Execs : exec[d].run # None => exec'[d].run = exec[d].run
      BY <2>3
    <3>3. Successes' = Successes
      BY <2>1 DEF Successes
    <3> QED  BY <1>1, <2>1, <2>4, <3>1, <3>2, <3>3, HistoryKept
  <2>7. TablesOK'
    BY <1>1, <2>1 DEF TablesOK
  <2>8. ExecsOK'
    BY <2>3
  <2>9. ProcessOK'
    BY <1>1, <2>1, <2>3 DEF ProcessOK
  <2>10. ExecsNumbered'
    BY <2>3
  <2>11. FileBeforeSidecar'
    BY <1>1, <2>1, <2>3 DEF FileBeforeSidecar
  <2>12. RunsNumbered'
    BY <1>1, <2>1, <2>2, <2>3 DEF RunsNumbered
  <2>13. TriggerFirst'
    BY <1>1, <2>1, <2>2, <2>3 DEF TriggerFirst
  <2>14. OwnFiles'
    BY <1>1, <2>1, <2>3, <2>4, <2>5 DEF OwnFiles
  <2>15. SucceededExecuted'
    BY <2>6
  <2>16. PruneOnlyOld'
    BY <2>6
  <2>17. KeptHasFiles'
    BY <2>6
  <2>18. /\ FilesOK' /\ RestoresOK' /\ LockExact' /\ NoneRunning'
        /\ FileRead' /\ SidecarHasFile'
    BY <1>1, <1>5
       DEF TakeJob, Flags, Requests, Started, Storage, WorkerFree, FilesOK,
           RestoresOK, LockExact, NoneRunning, FileRead, SidecarHasFile
  <2> QED  BY <2>7, <2>8, <2>9, <2>10, <2>11, <2>12, <2>13, <2>14, <2>15,
              <2>16, <2>17, <2>18
              DEF BackupInd
<1>6. ASSUME NEW e \in Execs, NEW r \in Runs, ScheduledFire(e, r)
      PROVE  BackupInd'
  <2>1. /\ r = runsUsed + 1 /\ lock = None /\ runsUsed' = r /\ rows' = [rows EXCEPT ![r] = "running"]
        /\ UNCHANGED <<jobs, tries, trigger, restore, lock, file, meta, pruned, restored, sealed, up,
                       crashes>>
    BY <1>6 DEF ScheduledFire, TakeSlot, SlotFree, Storage, Requests, Flags
  <2>2. /\ ExecsOK' /\ execsUsed' \in 0 .. MaxExecs /\ exec[e].run = None /\ exec[e].phase = "unused"
        /\ exec'[e].run = r /\ exec'[e].phase = "dumping" /\ exec'[e].prune = exec[e].prune
        /\ \A d \in Execs \ {e} : exec'[d] = exec[d]
        /\ ExecsNumbered'
    BY <1>1, <1>6, ExecStarted DEF ScheduledFire
  <2>3. Regular' => Regular
    <3> SUFFICES ASSUME Regular' PROVE Regular
      OBVIOUS
    <3>1. ~restored /\ \A c, d \in Execs : exec'[c].run = exec'[d].run /\ exec'[c].run # None => c = d
      BY <2>1 DEF Regular, ExecutedOnce
    <3>2. ASSUME NEW c \in Execs, NEW d \in Execs, exec[c].run = exec[d].run, exec[c].run # None
          PROVE  c = d
      <4>1. c # e /\ d # e
        BY <2>2, <3>2
      <4> QED  BY <2>2, <3>1, <3>2, <4>1
    <3> QED  BY <3>1, <3>2 DEF Regular, ExecutedOnce
  <2>4. runsUsed \in Nat /\ r > runsUsed /\ \A x \in Runs : x > r => x > runsUsed
    BY <1>1, <2>1, BackupNumbers, BackupAssumption DEF ProcessOK
  <2>5. ~restored => trigger[r] = "none" /\ r \notin jobs /\ \A d \in Execs : exec[d].run # r
    BY <1>1, <2>4 DEF RunsNumbered
  <2>6. \A q \in Restores : restore[q].phase \notin Holding
    BY <1>1, <2>1, BackupNumbers DEF LockExact
  <2>7. rows' \in [Runs -> Statuses] /\ \A x \in Runs : rows'[x] = IF x = r THEN "running" ELSE rows[x]
    BY <1>1, <2>1 DEF TablesOK, Statuses
  <2>8. Regular => Successes' = Successes
    BY <1>1, <2>5, <2>7 DEF SucceededExecuted, Successes, Regular
  <2>9. SucceededExecuted' /\ PruneOnlyOld' /\ KeptHasFiles'
    <3>1. \A d \in Execs : exec'[d].prune \subseteq exec[d].prune
      BY <2>2
    <3>2. \A d \in Execs : exec[d].run # None => exec'[d].run = exec[d].run
      BY <2>2
    <3> QED  BY <1>1, <2>1, <2>3, <2>8, <3>1, <3>2, HistoryKept
  <2>10. TablesOK'
    BY <1>1, <2>1, <2>7 DEF TablesOK
  <2>11. ExecsOK'
    BY <2>2
  <2>12. ProcessOK'
    BY <1>1, <2>1, <2>2, <2>4, BackupNumbers, BackupAssumption DEF ProcessOK
  <2>13. ExecsNumbered'
    BY <2>2
  <2>14. NoneRunning'
    BY <2>1, <2>6 DEF NoneRunning, Holding
  <2>15. FileBeforeSidecar'
    BY <1>1, <2>1, <2>2 DEF FileBeforeSidecar
  <2>16. RunsNumbered'
    BY <1>1, <2>1, <2>2, <2>4, BackupNumbers DEF RunsNumbered
  <2>17. TriggerFirst'
    BY <1>1, <2>1, <2>2, <2>5 DEF TriggerFirst
  <2>18. OwnFiles'
    <3>1. \A x \in Runs : rows'[x] = "succeeded" => rows[x] = "succeeded"
      BY <2>7
    <3>2. rows'[r] # "succeeded"
      BY <2>7
    <3> QED  BY <1>1, <2>1, <2>2, <2>3, <3>1, <3>2, ExecHasRun DEF OwnFiles
  <2>19. SucceededExecuted'
    BY <2>9
  <2>20. PruneOnlyOld'
    BY <2>9
  <2>21. KeptHasFiles'
    BY <2>9
  <2>22. /\ FilesOK' /\ RestoresOK' /\ LockExact' /\ FileRead'
        /\ SidecarHasFile'
    BY <1>1, <1>6
       DEF ScheduledFire, Flags, Requests, Started, Storage, TakeSlot,
           SlotFree, WorkerFree, FilesOK, RestoresOK, LockExact, FileRead,
           SidecarHasFile
  <2> QED  BY <2>10, <2>11, <2>12, <2>13, <2>14, <2>15, <2>16, <2>17, <2>18,
              <2>19, <2>20, <2>21, <2>22
              DEF BackupInd
<1>7. ASSUME NEW e \in Execs, Dump(e)
      PROVE  BackupInd'
  <2>1. /\ ExecsOK' /\ SameRuns
        /\ \A d \in Execs : exec'[d].phase = IF d = e THEN "encrypting" ELSE exec[d].phase
    <3> DEFINE D == [rows |-> rows, jobs |-> jobs \cup OwnJob(e)]
               x == [exec[e] EXCEPT !.phase = "encrypting", !.dump = D]
    <3>1. exec[e] \in ExecStates /\ exec[e].phase = "dumping" /\ exec' = [exec EXCEPT ![e] = x]
      BY <1>1, <1>7 DEF Dump, At, ExecsOK
    <3>2. exec[e].run \in Runs
      BY <1>1, <3>1, ExecHasRun
    <3>3. D \in Snapshot
      BY <1>1, <3>2 DEF TablesOK, Snapshot, OwnJob
    <3>4. x \in ExecStates /\ x.phase = "encrypting" /\ x.run = exec[e].run /\ x.prune = exec[e].prune
      BY <3>1, <3>3 DEF ExecStates, ExecPhases
    <3> HIDE DEF x
    <3> QED  BY <1>1, <3>1, <3>4 DEF ExecsOK, SameRuns
  <2>2. /\ exec[e].phase = "dumping"
        /\ UNCHANGED <<rows, file, meta, pruned, jobs, tries, trigger, restore, lock, restored, sealed, up, crashes, runsUsed, execsUsed>>
    BY <1>7 DEF Dump, At, Active, Storage, Requests, Flags, Bounds
  <2>3. exec[e].run \in Runs
    BY <1>1, <2>2, ExecHasRun
  <2>4. Regular' <=> Regular
    BY <2>1, <2>2, RegularKept
  <2>5. SucceededExecuted' /\ PruneOnlyOld' /\ KeptHasFiles'
    <3>1. Successes' = Successes
      BY <2>2 DEF Successes
    <3> QED  BY <1>1, <2>1, <2>2, <2>4, <3>1, HistoryKept DEF SameRuns
  <2>6. ExecsOK'
    BY <2>1
  <2>7. ExecsNumbered'
    BY <1>1, <2>1, <2>2 DEF ExecsNumbered, SameRuns
  <2>8. FileBeforeSidecar'
    BY <1>1, <2>1, <2>2 DEF FileBeforeSidecar, SameRuns
  <2>9. RunsNumbered'
    BY <1>1, <2>1, <2>2 DEF RunsNumbered, SameRuns
  <2>10. TriggerFirst'
    BY <1>1, <2>1, <2>2 DEF TriggerFirst, SameRuns
  <2>11. OwnFiles'
    BY <1>1, <2>1, <2>2, <2>4 DEF OwnFiles, SameRuns
  <2>12. SucceededExecuted'
    BY <2>5
  <2>13. PruneOnlyOld'
    BY <2>5
  <2>14. KeptHasFiles'
    BY <2>5
  <2>15. /\ TablesOK' /\ FilesOK' /\ RestoresOK' /\ ProcessOK' /\ LockExact'
        /\ NoneRunning' /\ FileRead' /\ SidecarHasFile'
    BY <1>1, <1>7
       DEF Dump, At, Bounds, Flags, OwnJob, Requests, Storage, TablesOK,
           FilesOK, RestoresOK, ProcessOK, LockExact, NoneRunning, FileRead,
           SidecarHasFile
  <2> QED  BY <2>6, <2>7, <2>8, <2>9, <2>10, <2>11, <2>12, <2>13, <2>14,
              <2>15
              DEF BackupInd
<1>8. ASSUME NEW e \in Execs, Encrypt(e)
      PROVE  BackupInd'
  <2>1. ExecsOK'
    <3>1. Step(e, "writeFile") /\ "writeFile" \in ExecPhases
      BY <1>8 DEF Encrypt, ExecPhases
    <3> QED  BY <1>1, <3>1, ExecStepped
  <2>2. ExecsNumbered'
    BY <1>1, <1>8, BackupNumbers
       DEF Encrypt, At, Bounds, Flags, Requests, Step, Storage, ExecsNumbered
  <2>3. FileBeforeSidecar'
    BY <1>1, <1>8, BackupNumbers
       DEF Encrypt, At, Bounds, Flags, Requests, Step, Storage,
           FileBeforeSidecar
  <2>4. RunsNumbered'
    BY <1>1, <1>8, BackupNumbers
       DEF Encrypt, At, Bounds, Flags, Requests, Step, Storage, RunsNumbered
  <2>5. TriggerFirst'
    BY <1>1, <1>8, BackupNumbers
       DEF Encrypt, At, Bounds, Flags, Requests, Step, Storage, TriggerFirst
  <2>6. OwnFiles'
    BY <1>1, <1>8, BackupNumbers
       DEF Encrypt, At, Bounds, Flags, Requests, Step, Storage, OwnFiles,
           Regular, ExecutedOnce
  <2>7. SucceededExecuted'
    BY <1>1, <1>8, BackupNumbers
       DEF Encrypt, At, Bounds, Flags, Requests, Step, Storage,
           SucceededExecuted, Regular, ExecutedOnce
  <2>8. PruneOnlyOld'
    BY <1>1, <1>8, BackupNumbers
       DEF Encrypt, At, Bounds, Flags, Requests, Step, Storage, PruneOnlyOld,
           Regular, ExecutedOnce, Successes
  <2>9. KeptHasFiles'
    BY <1>1, <1>8, BackupNumbers
       DEF Encrypt, At, Bounds, Flags, Requests, Step, Storage, KeptHasFiles,
           Regular, ExecutedOnce, Successes
  <2>10. /\ TablesOK' /\ FilesOK' /\ RestoresOK' /\ ProcessOK' /\ LockExact'
        /\ NoneRunning' /\ FileRead' /\ SidecarHasFile'
    BY <1>1, <1>8
       DEF Encrypt, At, Bounds, Flags, Requests, Step, Storage, TablesOK,
           FilesOK, RestoresOK, ProcessOK, LockExact, NoneRunning, FileRead,
           SidecarHasFile
  <2> QED  BY <2>1, <2>2, <2>3, <2>4, <2>5, <2>6, <2>7, <2>8, <2>9, <2>10
              DEF BackupInd
<1>9. ASSUME NEW e \in Execs, WriteFile(e)
      PROVE  BackupInd'
  <2>1. /\ ExecsOK' /\ SameRuns
        /\ \A d \in Execs : exec'[d].phase = IF d = e THEN "writeMeta" ELSE exec[d].phase
    <3>1. Step(e, "writeMeta") /\ "writeMeta" \in ExecPhases
      BY <1>9 DEF WriteFile, ExecPhases
    <3> QED  BY <1>1, <3>1, ExecStepped
  <2>2. /\ exec[e].phase = "writeFile" /\ file' = [file EXCEPT ![exec[e].run] = e]
        /\ UNCHANGED <<rows, meta, pruned, jobs, tries, trigger, restore, lock, restored, sealed, up, crashes, runsUsed, execsUsed>>
    BY <1>9 DEF WriteFile, At, Active, Storage, Requests, Flags, Bounds
  <2>3. exec[e].run \in Runs
    BY <1>1, <2>2, ExecHasRun
  <2>4. Regular' <=> Regular
    BY <2>1, <2>2, RegularKept
  <2>5. file' \in [Runs -> Execs \cup {None}] /\ \A x \in Runs : file'[x] = IF x = exec[e].run THEN e ELSE file[x]
    BY <1>1, <2>2, <2>3 DEF FilesOK
  <2>6. Regular => \A d \in Execs : d # e /\ exec[d].run # None => exec[d].run # exec[e].run
    BY <2>3, BackupNumbers DEF Regular, ExecutedOnce
  <2>7. SucceededExecuted' /\ PruneOnlyOld' /\ KeptHasFiles'
    <3>1. Successes' = Successes
      BY <2>2 DEF Successes
    <3>2. Regular => exec[e].run \notin Successes
      BY <1>1, <2>2 DEF OwnFiles, Successes
    <3>3. Regular' => \A x \in Successes \ ToPrune(Successes) : file'[x] = file[x] /\ meta'[x] = meta[x]
      BY <2>2, <2>4, <2>5, <3>2 DEF Successes
    <3> QED  BY <1>1, <2>1, <2>4, <3>1, <3>3, HistoryKept DEF SameRuns
  <2>8. ExecsOK'
    BY <2>1
  <2>9. FilesOK'
    BY <1>1, <2>2, <2>5 DEF FilesOK
  <2>10. RestoresOK'
    BY <1>1, <2>1, <2>2, <2>3, <2>4, <2>5, <2>6, <2>7
       DEF RestoresOK
  <2>11. ExecsNumbered'
    BY <1>1, <2>1, <2>2 DEF ExecsNumbered, SameRuns
  <2>12. FileBeforeSidecar'
    <3>1. \A x \in Runs : IF x = exec[e].run THEN file'[x] # None ELSE file'[x] = file[x]
      BY <2>5, BackupNumbers
    <3>2. \A d \in Execs : exec[d].phase = "writeMeta" => exec[d].run \in Runs
      BY <1>1, ExecHasRun
    <3> QED  BY <1>1, <2>1, <2>2, <2>3, <3>1, <3>2 DEF FileBeforeSidecar, SameRuns
  <2>13. SidecarHasFile'
    BY <1>1, <2>2, <2>5, BackupNumbers DEF SidecarHasFile
  <2>14. RunsNumbered'
    BY <1>1, <2>1, <2>2 DEF RunsNumbered, SameRuns
  <2>15. TriggerFirst'
    BY <1>1, <2>1, <2>2 DEF TriggerFirst, SameRuns
  <2>16. OwnFiles'
    <3> SUFFICES ASSUME Regular, NEW d \in Execs
                 PROVE  /\ exec'[d].phase \notin {"unused", "prune", "done"} => rows[exec[d].run] # "succeeded"
                        /\ exec'[d].phase \in {"writeMeta", "settle"} => file'[exec[d].run] = d
                        /\ exec'[d].phase = "settle" => meta'[exec[d].run] = d
      BY <2>1, <2>2, <2>4 DEF OwnFiles, SameRuns
    <3>1. CASE d = e
      BY <1>1, <2>1, <2>2, <2>3, <2>5, <3>1 DEF OwnFiles
    <3>2. CASE d # e
      <4>1. exec'[d].phase = exec[d].phase
        BY <2>1, <3>2
      <4>2. exec[d].phase # "unused" => exec[d].run \in Runs /\ exec[d].run # exec[e].run
        BY <1>1, <2>6, <3>2, ExecHasRun, BackupNumbers
      <4> QED  BY <1>1, <2>2, <2>5, <4>1, <4>2 DEF OwnFiles
    <3> QED  BY <3>1, <3>2
  <2>17. SucceededExecuted'
    BY <2>7
  <2>18. PruneOnlyOld'
    BY <2>7
  <2>19. KeptHasFiles'
    BY <2>7
  <2>20. TablesOK' /\ ProcessOK' /\ LockExact' /\ NoneRunning' /\ FileRead'
    BY <1>1, <1>9
       DEF WriteFile, At, Bounds, Flags, Requests, Step, TablesOK, ProcessOK,
           LockExact, NoneRunning, FileRead
  <2> QED  BY <2>8, <2>9, <2>10, <2>11, <2>12, <2>13, <2>14, <2>15, <2>16,
              <2>17, <2>18, <2>19, <2>20
              DEF BackupInd
<1>10. ASSUME NEW e \in Execs, WriteMeta(e)
      PROVE  BackupInd'
  <2>1. /\ ExecsOK' /\ SameRuns
        /\ \A d \in Execs : exec'[d].phase = IF d = e THEN "settle" ELSE exec[d].phase
    <3>1. Step(e, "settle") /\ "settle" \in ExecPhases
      BY <1>10 DEF WriteMeta, ExecPhases
    <3> QED  BY <1>1, <3>1, ExecStepped
  <2>2. /\ exec[e].phase = "writeMeta" /\ meta' = [meta EXCEPT ![exec[e].run] = e]
        /\ UNCHANGED <<rows, file, pruned, jobs, tries, trigger, restore, lock, restored, sealed, up, crashes, runsUsed, execsUsed>>
    BY <1>10 DEF WriteMeta, At, Active, Storage, Requests, Flags, Bounds
  <2>3. exec[e].run \in Runs
    BY <1>1, <2>2, ExecHasRun
  <2>4. Regular' <=> Regular
    BY <2>1, <2>2, RegularKept
  <2>5. meta' \in [Runs -> Execs \cup {None}] /\ \A x \in Runs : meta'[x] = IF x = exec[e].run THEN e ELSE meta[x]
    BY <1>1, <2>2, <2>3 DEF FilesOK
  <2>6. Regular => \A d \in Execs : d # e /\ exec[d].run # None => exec[d].run # exec[e].run
    BY <2>3, BackupNumbers DEF Regular, ExecutedOnce
  <2>7. SucceededExecuted' /\ PruneOnlyOld' /\ KeptHasFiles'
    <3>1. Successes' = Successes
      BY <2>2 DEF Successes
    <3>2. Regular => exec[e].run \notin Successes
      BY <1>1, <2>2 DEF OwnFiles, Successes
    <3>3. Regular' => \A x \in Successes \ ToPrune(Successes) : file'[x] = file[x] /\ meta'[x] = meta[x]
      BY <2>2, <2>4, <2>5, <3>2 DEF Successes
    <3> QED  BY <1>1, <2>1, <2>4, <3>1, <3>3, HistoryKept DEF SameRuns
  <2>8. ExecsOK'
    BY <2>1
  <2>9. FilesOK'
    BY <1>1, <2>2, <2>5 DEF FilesOK
  <2>10. ExecsNumbered'
    BY <1>1, <2>1, <2>2 DEF ExecsNumbered, SameRuns
  <2>11. FileBeforeSidecar'
    BY <1>1, <2>1, <2>2 DEF FileBeforeSidecar, SameRuns
  <2>12. SidecarHasFile'
    BY <1>1, <2>2, <2>5 DEF SidecarHasFile, FileBeforeSidecar
  <2>13. RunsNumbered'
    BY <1>1, <2>1, <2>2 DEF RunsNumbered, SameRuns
  <2>14. TriggerFirst'
    BY <1>1, <2>1, <2>2 DEF TriggerFirst, SameRuns
  <2>15. OwnFiles'
    <3> SUFFICES ASSUME Regular, NEW d \in Execs
                 PROVE  /\ exec'[d].phase \notin {"unused", "prune", "done"} => rows[exec[d].run] # "succeeded"
                        /\ exec'[d].phase \in {"writeMeta", "settle"} => file'[exec[d].run] = d
                        /\ exec'[d].phase = "settle" => meta'[exec[d].run] = d
      BY <2>1, <2>2, <2>4 DEF OwnFiles, SameRuns
    <3>1. CASE d = e
      BY <1>1, <2>1, <2>2, <2>3, <2>5, <3>1 DEF OwnFiles
    <3>2. CASE d # e
      <4>1. exec'[d].phase = exec[d].phase
        BY <2>1, <3>2
      <4>2. exec[d].phase # "unused" => exec[d].run \in Runs /\ exec[d].run # exec[e].run
        BY <1>1, <2>6, <3>2, ExecHasRun, BackupNumbers
      <4> QED  BY <1>1, <2>2, <2>5, <4>1, <4>2 DEF OwnFiles
    <3> QED  BY <3>1, <3>2
  <2>16. SucceededExecuted'
    BY <2>7
  <2>17. PruneOnlyOld'
    BY <2>7
  <2>18. KeptHasFiles'
    BY <2>7
  <2>19. /\ TablesOK' /\ RestoresOK' /\ ProcessOK' /\ LockExact'
        /\ NoneRunning' /\ FileRead'
    BY <1>1, <1>10
       DEF WriteMeta, At, Bounds, Flags, Requests, Step, TablesOK,
           RestoresOK, ProcessOK, LockExact, NoneRunning, FileRead
  <2> QED  BY <2>8, <2>9, <2>10, <2>11, <2>12, <2>13, <2>14, <2>15, <2>16,
              <2>17, <2>18, <2>19
              DEF BackupInd
<1>11. ASSUME NEW e \in Execs, Succeed(e)
      PROVE  BackupInd'
  <2> DEFINE P == ToPrune({r \in Runs : rows'[r] = "succeeded"})
             x == [exec[e] EXCEPT !.phase = "prune", !.prune = P]
  <2>1. /\ exec[e].phase = "settle" /\ exec' = [exec EXCEPT ![e] = x] /\ exec[e] \in ExecStates
        /\ rows' = [rows EXCEPT ![exec[e].run] = IF rows[exec[e].run] = "absent" THEN rows[exec[e].run] ELSE "succeeded"]
        /\ UNCHANGED <<file, meta, pruned, jobs, tries, trigger, restore, lock, restored, sealed, up,
                       crashes, runsUsed, execsUsed>>
    BY <1>1, <1>11 DEF Succeed, At, ExecsOK, Storage, Requests, Flags, Bounds
  <2>2. exec[e].run \in Runs
    BY <1>1, <2>1, ExecHasRun
  <2>3. /\ rows' \in [Runs -> Statuses]
        /\ \A s \in Runs : s # exec[e].run => rows'[s] = rows[s]
        /\ rows'[exec[e].run] \in {rows[exec[e].run], "succeeded"}
    BY <1>1, <2>1, <2>2 DEF TablesOK, Statuses
  <2>4. P = ToPrune(Successes') /\ P \in SUBSET Runs
    BY DEF Successes, ToPrune
  <2>5. x \in ExecStates /\ x.phase = "prune" /\ x.run = exec[e].run /\ x.prune = P
    BY <2>1, <2>4 DEF ExecStates, ExecPhases
  <2> HIDE DEF x, P
  <2>6. ExecsOK' /\ exec'[e] = x /\ \A d \in Execs \ {e} : exec'[d] = exec[d]
    BY <1>1, <2>1, <2>5 DEF ExecsOK
  <2>7. \A d \in Execs : exec'[d].run = exec[d].run
    BY <2>5, <2>6
  <2>8. Regular' <=> Regular
    BY <2>1, <2>7 DEF Regular, ExecutedOnce
  <2>9. ToPrune(Successes) \subseteq ToPrune(Successes')
    <3>1. Successes \in SUBSET Runs /\ Successes' \in SUBSET Runs /\ Successes \subseteq Successes'
      BY <2>3 DEF Successes
    <3> QED  BY <3>1, ToPruneGrows
  <2>10. TablesOK'
    BY <1>1, <2>1, <2>3 DEF TablesOK
  <2>11. ExecsOK'
    BY <2>6
  <2>12. ExecsNumbered'
    BY <1>1, <2>1, <2>5, <2>6 DEF ExecsNumbered
  <2>13. NoneRunning'
    BY <1>1, <2>1, <2>2, <2>3 DEF NoneRunning
  <2>14. FileBeforeSidecar'
    BY <1>1, <2>1, <2>5, <2>6 DEF FileBeforeSidecar
  <2>15. RunsNumbered'
    BY <1>1, <2>1, <2>7 DEF RunsNumbered
  <2>16. TriggerFirst'
    BY <1>1, <2>1, <2>7 DEF TriggerFirst
  <2>17. OwnFiles'
    <3> SUFFICES ASSUME Regular, NEW d \in Execs
                 PROVE  /\ exec'[d].phase \notin {"unused", "prune", "done"} => rows'[exec[d].run] # "succeeded"
                        /\ exec'[d].phase \in {"writeMeta", "settle"} => file[exec[d].run] = d
                        /\ exec'[d].phase = "settle" => meta[exec[d].run] = d
      BY <2>1, <2>7, <2>8 DEF OwnFiles
    <3>1. CASE d = e
      BY <2>5, <2>6, <3>1
    <3>2. CASE d # e
      <4>1. exec'[d] = exec[d]
        BY <2>6, <3>2
      <4>2. exec[d].phase # "unused" => exec[d].run \in Runs /\ exec[d].run # exec[e].run
        BY <1>1, <2>2, <3>2, ExecHasRun, BackupNumbers DEF Regular, ExecutedOnce
      <4> QED  BY <1>1, <2>3, <4>1, <4>2 DEF OwnFiles
    <3> QED  BY <3>1, <3>2
  <2>18. SucceededExecuted'
    BY <1>1, <2>2, <2>3, <2>7, <2>8 DEF SucceededExecuted
  <2>19. PruneOnlyOld'
    <3>1. Regular => \A d \in Execs : exec[d].prune \subseteq ToPrune(Successes)
      BY <1>1 DEF PruneOnlyOld
    <3>2. Regular' => \A d \in Execs : exec'[d].prune \subseteq ToPrune(Successes')
      BY <2>4, <2>5, <2>6, <2>8, <2>9, <3>1
    <3> QED  BY <3>2 DEF PruneOnlyOld, ToPrune, Successes
  <2>20. KeptHasFiles'
    <3> SUFFICES ASSUME Regular, NEW r \in Successes'
                 PROVE  r \in ToPrune(Successes') \/ (file[r] # None /\ meta[r] = file[r])
      BY <2>1, <2>8 DEF KeptHasFiles, ToPrune, Successes
    <3>1. CASE r = exec[e].run
      BY <1>1, <2>1, <3>1, BackupNumbers DEF OwnFiles
    <3>2. CASE r # exec[e].run
      <4>1. r \in Successes
        BY <2>3, <3>2 DEF Successes
      <4> QED  BY <1>1, <2>9, <4>1 DEF KeptHasFiles
    <3> QED  BY <3>1, <3>2
  <2>21. /\ FilesOK' /\ RestoresOK' /\ ProcessOK' /\ LockExact' /\ FileRead'
        /\ SidecarHasFile'
    BY <1>1, <1>11
       DEF Succeed, At, Bounds, Flags, Requests, Storage, FilesOK,
           RestoresOK, ProcessOK, LockExact, FileRead, SidecarHasFile
  <2> QED  BY <2>10, <2>11, <2>12, <2>13, <2>14, <2>15, <2>16, <2>17, <2>18,
              <2>19, <2>20, <2>21
              DEF BackupInd
<1>12. ASSUME NEW e \in Execs, ExecEnds(e)
      PROVE  BackupInd'
  <2>1. ExecsOK'
    <3>1. Step(e, "done") /\ "done" \in ExecPhases
      BY <1>12 DEF ExecEnds, ExecPhases
    <3> QED  BY <1>1, <3>1, ExecStepped
  <2>2. ExecsNumbered'
    BY <1>1, <1>12, BackupNumbers
       DEF ExecEnds, At, Bounds, Flags, Requests, Step, Storage,
           ExecsNumbered
  <2>3. FileBeforeSidecar'
    BY <1>1, <1>12, BackupNumbers
       DEF ExecEnds, At, Bounds, Flags, Requests, Step, Storage,
           FileBeforeSidecar
  <2>4. RunsNumbered'
    BY <1>1, <1>12, BackupNumbers
       DEF ExecEnds, At, Bounds, Flags, Requests, Step, Storage, RunsNumbered
  <2>5. TriggerFirst'
    BY <1>1, <1>12, BackupNumbers
       DEF ExecEnds, At, Bounds, Flags, Requests, Step, Storage, TriggerFirst
  <2>6. OwnFiles'
    BY <1>1, <1>12, BackupNumbers
       DEF ExecEnds, At, Bounds, Flags, Requests, Step, Storage, OwnFiles,
           Regular, ExecutedOnce
  <2>7. SucceededExecuted'
    BY <1>1, <1>12, BackupNumbers
       DEF ExecEnds, At, Bounds, Flags, Requests, Step, Storage,
           SucceededExecuted, Regular, ExecutedOnce
  <2>8. PruneOnlyOld'
    BY <1>1, <1>12, BackupNumbers
       DEF ExecEnds, At, Bounds, Flags, Requests, Step, Storage,
           PruneOnlyOld, Regular, ExecutedOnce, Successes
  <2>9. KeptHasFiles'
    BY <1>1, <1>12, BackupNumbers
       DEF ExecEnds, At, Bounds, Flags, Requests, Step, Storage,
           KeptHasFiles, Regular, ExecutedOnce, Successes
  <2>10. /\ TablesOK' /\ FilesOK' /\ RestoresOK' /\ ProcessOK' /\ LockExact'
        /\ NoneRunning' /\ FileRead' /\ SidecarHasFile'
    BY <1>1, <1>12
       DEF ExecEnds, At, Bounds, Flags, Requests, Step, Storage, TablesOK,
           FilesOK, RestoresOK, ProcessOK, LockExact, NoneRunning, FileRead,
           SidecarHasFile
  <2> QED  BY <2>1, <2>2, <2>3, <2>4, <2>5, <2>6, <2>7, <2>8, <2>9, <2>10
              DEF BackupInd
<1>13. ASSUME NEW e \in Execs, ExecFails(e)
      PROVE  BackupInd'
  <2>1. /\ ExecsOK' /\ SameRuns
        /\ \A d \in Execs : exec'[d].phase = IF d = e THEN "done" ELSE exec[d].phase
    <3>1. Step(e, "done") /\ "done" \in ExecPhases
      BY <1>13 DEF ExecFails, ExecPhases
    <3> QED  BY <1>1, <3>1, ExecStepped
  <2>2. /\ exec[e].phase \notin {"unused", "done", "prune"} /\ rows' \in {rows, [rows EXCEPT ![exec[e].run] = IF @ = "absent" THEN @ ELSE "failed"]}
        /\ UNCHANGED <<file, meta, pruned, jobs, tries, trigger, restore, lock, restored, sealed, up, crashes, runsUsed, execsUsed>>
    BY <1>13 DEF ExecFails, At, Active, Storage, Requests, Flags, Bounds
  <2>3. exec[e].run \in Runs
    BY <1>1, <2>2, ExecHasRun
  <2>4. Regular' <=> Regular
    BY <2>1, <2>2, RegularKept
  <2>5. /\ rows' \in [Runs -> Statuses]
        /\ \A x \in Runs : rows'[x] = rows[x] \/ (x = exec[e].run /\ rows'[x] = "failed")
    BY <1>1, <2>2, <2>3 DEF TablesOK, Statuses
  <2>6. Regular => Successes' = Successes
    BY <1>1, <2>2, <2>5 DEF OwnFiles, Successes
  <2>7. SucceededExecuted' /\ PruneOnlyOld' /\ KeptHasFiles'
    BY <1>1, <2>1, <2>2, <2>4, <2>6, HistoryKept DEF SameRuns
  <2>8. TablesOK'
    BY <1>1, <2>2, <2>5 DEF TablesOK
  <2>9. ExecsOK'
    BY <2>1
  <2>10. ExecsNumbered'
    BY <1>1, <2>1, <2>2 DEF ExecsNumbered, SameRuns
  <2>11. NoneRunning'
    BY <1>1, <2>2, <2>5 DEF NoneRunning
  <2>12. FileBeforeSidecar'
    BY <1>1, <2>1, <2>2 DEF FileBeforeSidecar, SameRuns
  <2>13. RunsNumbered'
    BY <1>1, <2>1, <2>2 DEF RunsNumbered, SameRuns
  <2>14. TriggerFirst'
    BY <1>1, <2>1, <2>2 DEF TriggerFirst, SameRuns
  <2>15. OwnFiles'
    <3>1. \A x \in Runs : rows'[x] = "succeeded" => rows[x] = "succeeded"
      BY <2>5
    <3> QED  BY <1>1, <2>1, <2>2, <2>4, <3>1, ExecHasRun DEF OwnFiles, SameRuns
  <2>16. SucceededExecuted'
    BY <2>7
  <2>17. PruneOnlyOld'
    BY <2>7
  <2>18. KeptHasFiles'
    BY <2>7
  <2>19. /\ FilesOK' /\ RestoresOK' /\ ProcessOK' /\ LockExact' /\ FileRead'
        /\ SidecarHasFile'
    BY <1>1, <1>13
       DEF ExecFails, Active, Bounds, Flags, Requests, Step, Storage,
           FilesOK, RestoresOK, ProcessOK, LockExact, FileRead,
           SidecarHasFile
  <2> QED  BY <2>8, <2>9, <2>10, <2>11, <2>12, <2>13, <2>14, <2>15, <2>16,
              <2>17, <2>18, <2>19
              DEF BackupInd
<1>14. ASSUME NEW e \in Execs, NEW r \in Runs, Prune(e, r)
      PROVE  BackupInd'
  <2>1. /\ exec[e].phase = "prune" /\ r \in exec[e].prune /\ pruned' = pruned \cup {r}
        /\ exec' \in {exec, [exec EXCEPT ![e] = [exec[e] EXCEPT !.prune = exec[e].prune \ {r}]]}
        /\ \/ file' = [file EXCEPT ![r] = None] /\ meta' = meta
           \/ meta' = [meta EXCEPT ![r] = None] /\ file' = file
        /\ UNCHANGED <<rows, jobs, tries, trigger, restore, lock, restored, sealed, up,
                       crashes, runsUsed, execsUsed>>
    BY <1>1, <1>14 DEF Prune, At, ExecsOK, Requests, Flags, Bounds
  <2>2. /\ ExecsOK'
        /\ \A d \in Execs : /\ exec'[d].run = exec[d].run /\ exec'[d].phase = exec[d].phase
                            /\ exec'[d].prune \subseteq exec[d].prune
    <3>1. CASE exec' = exec
      BY <1>1, <3>1 DEF ExecsOK
    <3>2. CASE exec' = [exec EXCEPT ![e] = [exec[e] EXCEPT !.prune = exec[e].prune \ {r}]]
      BY <1>1, <3>2 DEF ExecsOK, ExecStates
    <3> QED  BY <2>1, <3>1, <3>2
  <2>3. /\ file' \in [Runs -> Execs \cup {None}] /\ meta' \in [Runs -> Execs \cup {None}]
        /\ \A x \in Runs \ {r} : file'[x] = file[x] /\ meta'[x] = meta[x]
    BY <1>1, <2>1 DEF FilesOK
  <2>4. Regular' <=> Regular
    BY <2>1, <2>2 DEF Regular, ExecutedOnce
  <2>5. Regular => r \in Successes /\ r \in ToPrune(Successes)
    BY <1>1, <2>1 DEF PruneOnlyOld, ToPrune
  <2>6. SucceededExecuted' /\ PruneOnlyOld' /\ KeptHasFiles'
    <3>1. Successes' = Successes
      BY <2>1 DEF Successes
    <3>2. Regular' => \A s \in Successes \ ToPrune(Successes) : file'[s] = file[s] /\ meta'[s] = meta[s]
      BY <2>3, <2>4, <2>5 DEF Successes
    <3> QED  BY <1>1, <2>2, <2>4, <3>1, <3>2, HistoryKept
  <2>7. ExecsOK'
    BY <2>2
  <2>8. FilesOK'
    BY <1>1, <2>1, <2>3 DEF FilesOK
  <2>9. RestoresOK'
    BY <1>1, <2>1, <2>2, <2>3, <2>4, <2>5, <2>6
       DEF RestoresOK
  <2>10. ExecsNumbered'
    BY <1>1, <2>1, <2>2 DEF ExecsNumbered
  <2>11. FileBeforeSidecar'
    BY <1>1, <2>1, <2>2, <2>3, ExecHasRun DEF FileBeforeSidecar
  <2>12. SidecarHasFile'
    BY <1>1, <2>1, <2>3 DEF SidecarHasFile
  <2>13. RunsNumbered'
    BY <1>1, <2>1, <2>2 DEF RunsNumbered
  <2>14. TriggerFirst'
    BY <1>1, <2>1, <2>2 DEF TriggerFirst
  <2>15. OwnFiles'
    <3>1. Regular => \A d \in Execs : exec[d].phase \notin {"unused", "prune", "done"} =>
             exec[d].run \in Runs /\ exec[d].run # r
      BY <1>1, <2>5, ExecHasRun DEF OwnFiles, Successes
    <3> QED  BY <1>1, <2>1, <2>2, <2>3, <2>4, <3>1 DEF OwnFiles
  <2>16. SucceededExecuted'
    BY <2>6
  <2>17. PruneOnlyOld'
    BY <2>6
  <2>18. KeptHasFiles'
    BY <2>6
  <2>19. TablesOK' /\ ProcessOK' /\ LockExact' /\ NoneRunning' /\ FileRead'
    BY <1>1, <1>14
       DEF Prune, At, Bounds, Flags, Requests, TablesOK, ProcessOK,
           LockExact, NoneRunning, FileRead
  <2> QED  BY <2>7, <2>8, <2>9, <2>10, <2>11, <2>12, <2>13, <2>14, <2>15,
              <2>16, <2>17, <2>18, <2>19
              DEF BackupInd
<1>15. ASSUME NEW e \in Execs, JobExpires(e)
      PROVE  BackupInd'
  <2>1. TablesOK'
    <3>1. exec[e].run \in Runs
      BY <1>1, <1>15, ExecHasRun DEF JobExpires, Active
    <3>2. Repeatable(e) \subseteq Runs /\ \A r \in Repeatable(e) : tries[r] < RetryLimit
      BY <3>1 DEF Repeatable, OwnJob
    <3>3. /\ jobs' = jobs \cup Repeatable(e) /\ UNCHANGED <<rows, trigger>>
          /\ tries' = [r \in Runs |-> IF r \in Repeatable(e) THEN tries[r] + 1 ELSE tries[r]]
      BY <1>15 DEF JobExpires, Requests
    <3>4. tries' \in [Runs -> 0 .. RetryLimit]
      BY <1>1, <3>2, <3>3, BackupAssumption DEF TablesOK
    <3> QED  BY <1>1, <3>2, <3>3, <3>4 DEF TablesOK
  <2>2. ExecsOK'
    <3>1. exec' = [exec EXCEPT ![e] = [exec[e] EXCEPT !.owns = FALSE]] /\ exec[e] \in ExecStates
      BY <1>1, <1>15 DEF JobExpires, ExecsOK
    <3> QED  BY <1>1, <3>1 DEF ExecsOK, ExecStates
  <2>3. ExecsNumbered'
    BY <1>1, <1>15, BackupNumbers
       DEF JobExpires, Active, Bounds, Flags, Repeatable, OwnJob, Requests,
           Storage, ExecsNumbered
  <2>4. FileBeforeSidecar'
    BY <1>1, <1>15, BackupNumbers
       DEF JobExpires, Active, Bounds, Flags, Repeatable, OwnJob, Requests,
           Storage, FileBeforeSidecar
  <2>5. RunsNumbered'
    BY <1>1, <1>15, BackupNumbers
       DEF JobExpires, Active, Bounds, Flags, Repeatable, OwnJob, Requests,
           Storage, RunsNumbered
  <2>6. TriggerFirst'
    BY <1>1, <1>15, BackupNumbers
       DEF JobExpires, Active, Bounds, Flags, Repeatable, OwnJob, Requests,
           Storage, TriggerFirst
  <2>7. OwnFiles'
    BY <1>1, <1>15, BackupNumbers
       DEF JobExpires, Active, Bounds, Flags, Repeatable, OwnJob, Requests,
           Storage, OwnFiles, Regular, ExecutedOnce
  <2>8. SucceededExecuted'
    BY <1>1, <1>15, BackupNumbers
       DEF JobExpires, Active, Bounds, Flags, Repeatable, OwnJob, Requests,
           Storage, SucceededExecuted, Regular, ExecutedOnce
  <2>9. PruneOnlyOld'
    BY <1>1, <1>15, BackupNumbers
       DEF JobExpires, Active, Bounds, Flags, Repeatable, OwnJob, Requests,
           Storage, PruneOnlyOld, Regular, ExecutedOnce, Successes
  <2>10. KeptHasFiles'
    BY <1>1, <1>15, BackupNumbers
       DEF JobExpires, Active, Bounds, Flags, Repeatable, OwnJob, Requests,
           Storage, KeptHasFiles, Regular, ExecutedOnce, Successes
  <2>11. /\ FilesOK' /\ RestoresOK' /\ ProcessOK' /\ LockExact'
        /\ NoneRunning' /\ FileRead' /\ SidecarHasFile'
    BY <1>1, <1>15
       DEF JobExpires, Active, Bounds, Flags, Repeatable, OwnJob, Requests,
           Storage, FilesOK, RestoresOK, ProcessOK, LockExact, NoneRunning,
           FileRead, SidecarHasFile
  <2> QED  BY <2>1, <2>2, <2>3, <2>4, <2>5, <2>6, <2>7, <2>8, <2>9, <2>10,
              <2>11
              DEF BackupInd
<1>16. ASSUME NEW q \in Restores, NEW r \in Runs, RestoreStart(q, r)
      PROVE  BackupInd'
  <2>1. /\ restore[q].phase = "new" /\ restore' = [restore EXCEPT ![q].phase = "locking", ![q].run = r]
        /\ UNCHANGED <<rows, lock>>
    BY <1>16 DEF RestoreStart, AtRestore
  <2>2. /\ restore' \in [Restores -> [run : Runs, phase : RestorePhases, file : Execs \cup {None}]]
        /\ \A s \in Restores : restore'[s].phase = IF s = q THEN "locking" ELSE restore[s].phase
        /\ \A s \in Restores : restore'[s].file = restore[s].file
    BY <1>1, <2>1 DEF RestoresOK, RestorePhases
  <2>3. RestoresOK'
    BY <1>1, <2>1, <2>2 DEF RestoresOK
  <2>4. LockExact'
    BY <1>1, <2>1, <2>2 DEF LockExact, Holding
  <2>5. NoneRunning'
    BY <1>1, <2>1, <2>2 DEF NoneRunning
  <2>6. FileRead'
    BY <1>1, <2>1, <2>2 DEF FileRead
  <2>7. /\ TablesOK' /\ ExecsOK' /\ FilesOK' /\ ProcessOK' /\ ExecsNumbered'
        /\ FileBeforeSidecar' /\ SidecarHasFile' /\ RunsNumbered'
        /\ TriggerFirst' /\ OwnFiles' /\ SucceededExecuted' /\ PruneOnlyOld'
        /\ KeptHasFiles'
    BY <1>1, <1>16
       DEF RestoreStart, AtRestore, Bounds, Flags, Storage, TablesOK,
           ExecsOK, FilesOK, ProcessOK, ExecsNumbered, FileBeforeSidecar,
           SidecarHasFile, RunsNumbered, TriggerFirst, OwnFiles, Regular,
           ExecutedOnce, SucceededExecuted, PruneOnlyOld, Successes,
           KeptHasFiles
  <2> QED  BY <2>3, <2>4, <2>5, <2>6, <2>7
              DEF BackupInd
<1>17. ASSUME NEW q \in Restores, RestoreLock(q)
      PROVE  BackupInd'
  <2>1. /\ restore[q].phase = "locking" /\ UNCHANGED rows
        /\ \/ lock = None /\ lock' = q /\ RestoreStep(q, "checking")
           \/ lock' = lock /\ RestoreStep(q, "done")
    BY <1>17 DEF RestoreLock, AtRestore, Storage, Flags, Bounds
  <2>2. PICK p \in {"checking", "done"} : RestoreStep(q, p) /\ (p = "checking" => lock = None /\ lock' = q)
                                          /\ (p = "done" => lock' = lock)
    BY <2>1
  <2>3. /\ restore' \in [Restores -> [run : Runs, phase : RestorePhases, file : Execs \cup {None}]]
        /\ \A s \in Restores : restore'[s].phase = IF s = q THEN p ELSE restore[s].phase
        /\ \A s \in Restores : restore'[s].file = restore[s].file
    <3>1. p \in RestorePhases
      BY DEF RestorePhases
    <3> QED  BY <1>1, <2>2, <3>1, RestoreStepped
  <2>4. \A s \in Restores : lock = s <=> restore[s].phase \in Holding
    BY <1>1 DEF LockExact
  <2>5. RestoresOK'
    BY <1>1, <2>2, <2>3 DEF RestoresOK
  <2>6. LockExact'
    <3>1. CASE p = "checking"
      BY <2>1, <2>2, <2>3, <2>4, <3>1, BackupNumbers DEF LockExact, Holding
    <3>2. CASE p = "done"
      BY <2>1, <2>2, <2>3, <2>4, <3>2 DEF LockExact, Holding
    <3> QED  BY <3>1, <3>2
  <2>7. NoneRunning'
    BY <1>1, <2>1, <2>2, <2>3 DEF NoneRunning
  <2>8. FileRead'
    BY <1>1, <2>1, <2>2, <2>3 DEF FileRead
  <2>9. /\ TablesOK' /\ ExecsOK' /\ FilesOK' /\ ProcessOK' /\ ExecsNumbered'
        /\ FileBeforeSidecar' /\ SidecarHasFile' /\ RunsNumbered'
        /\ TriggerFirst' /\ OwnFiles' /\ SucceededExecuted' /\ PruneOnlyOld'
        /\ KeptHasFiles'
    BY <1>1, <1>17
       DEF RestoreLock, AtRestore, Bounds, Flags, RestoreStep, Storage,
           TablesOK, ExecsOK, FilesOK, ProcessOK, ExecsNumbered,
           FileBeforeSidecar, SidecarHasFile, RunsNumbered, TriggerFirst,
           OwnFiles, Regular, ExecutedOnce, SucceededExecuted, PruneOnlyOld,
           Successes, KeptHasFiles
  <2> QED  BY <2>5, <2>6, <2>7, <2>8, <2>9
              DEF BackupInd
<1>18. ASSUME NEW q \in Restores, RestoreCheck(q)
      PROVE  BackupInd'
  <2>1. /\ restore[q].phase = "checking" /\ UNCHANGED rows
        /\ \/ (\A r \in Runs : rows[r] # "running") /\ lock' = lock /\ RestoreStep(q, "reading")
           \/ lock' = None /\ (RestoreStep(q, "done") \/ RestoreStep(q, "leaked"))
    BY <1>18 DEF RestoreCheck, AtRestore, Unlock
  <2>2. PICK p \in {"reading", "done", "leaked"} :
           /\ RestoreStep(q, p) /\ (p # "reading" => lock' = None)
           /\ p = "reading" => lock' = lock /\ \A r \in Runs : rows[r] # "running"
    BY <2>1
  <2>3. /\ restore' \in [Restores -> [run : Runs, phase : RestorePhases, file : Execs \cup {None}]]
        /\ \A s \in Restores : restore'[s].phase = IF s = q THEN p ELSE restore[s].phase
        /\ \A s \in Restores : restore'[s].file = restore[s].file
    <3>1. p \in RestorePhases
      BY DEF RestorePhases
    <3> QED  BY <1>1, <2>2, <3>1, RestoreStepped
  <2>4. \A s \in Restores : lock = s <=> restore[s].phase \in Holding
    BY <1>1 DEF LockExact
  <2>5. RestoresOK'
    BY <1>1, <2>2, <2>3 DEF RestoresOK
  <2>6. LockExact'
    <3>1. CASE p = "reading"
      BY <2>1, <2>2, <2>3, <2>4, <3>1 DEF LockExact, Holding
    <3>2. CASE p # "reading"
      BY <2>1, <2>2, <2>3, <2>4, <3>2, BackupNumbers DEF LockExact, Holding
    <3> QED  BY <3>1, <3>2
  <2>7. NoneRunning'
    BY <1>1, <2>1, <2>2, <2>3 DEF NoneRunning
  <2>8. FileRead'
    BY <1>1, <2>1, <2>2, <2>3 DEF FileRead
  <2>9. /\ TablesOK' /\ ExecsOK' /\ FilesOK' /\ ProcessOK' /\ ExecsNumbered'
        /\ FileBeforeSidecar' /\ SidecarHasFile' /\ RunsNumbered'
        /\ TriggerFirst' /\ OwnFiles' /\ SucceededExecuted' /\ PruneOnlyOld'
        /\ KeptHasFiles'
    BY <1>1, <1>18
       DEF RestoreCheck, Unlock, AtRestore, Bounds, Flags, RestoreStep, Storage,
           TablesOK, ExecsOK, FilesOK, ProcessOK, ExecsNumbered,
           FileBeforeSidecar, SidecarHasFile, RunsNumbered, TriggerFirst,
           OwnFiles, Regular, ExecutedOnce, SucceededExecuted, PruneOnlyOld,
           Successes, KeptHasFiles
  <2> QED  BY <2>5, <2>6, <2>7, <2>8, <2>9
              DEF BackupInd
<1>19. ASSUME NEW q \in Restores, RestoreRead(q)
      PROVE  BackupInd'
  <2>1. /\ restore[q].phase = "reading" /\ UNCHANGED <<rows, lock>>
        /\ restore' = [restore EXCEPT
             ![q].file = file[restore[q].run],
             ![q].phase = IF file[restore[q].run] = None THEN "releasing" ELSE "comparing"]
    BY <1>19 DEF RestoreRead, AtRestore
  <2>2. restore[q].run \in Runs /\ file[restore[q].run] \in Execs \cup {None}
    BY <1>1 DEF RestoresOK, FilesOK
  <2>3. /\ restore' \in [Restores -> [run : Runs, phase : RestorePhases, file : Execs \cup {None}]]
        /\ \A s \in Restores : s # q => restore'[s].phase = restore[s].phase /\ restore'[s].file = restore[s].file
        /\ restore'[q].phase \in {"releasing", "comparing"}
        /\ restore'[q].phase = "comparing" => restore'[q].file # None
    BY <1>1, <2>1, <2>2 DEF RestoresOK, RestorePhases
  <2>4. RestoresOK'
    BY <1>1, <2>1, <2>3 DEF RestoresOK
  <2>5. LockExact'
    BY <1>1, <2>1, <2>3 DEF LockExact, Holding
  <2>6. NoneRunning'
    BY <1>1, <2>1, <2>3 DEF NoneRunning
  <2>7. FileRead'
    BY <1>1, <2>1, <2>3 DEF FileRead
  <2>8. /\ TablesOK' /\ ExecsOK' /\ FilesOK' /\ ProcessOK' /\ ExecsNumbered'
        /\ FileBeforeSidecar' /\ SidecarHasFile' /\ RunsNumbered'
        /\ TriggerFirst' /\ OwnFiles' /\ SucceededExecuted' /\ PruneOnlyOld'
        /\ KeptHasFiles'
    BY <1>1, <1>19
       DEF RestoreRead, AtRestore, Bounds, Flags, Storage, TablesOK, ExecsOK,
           FilesOK, ProcessOK, ExecsNumbered, FileBeforeSidecar,
           SidecarHasFile, RunsNumbered, TriggerFirst, OwnFiles, Regular,
           ExecutedOnce, SucceededExecuted, PruneOnlyOld, Successes,
           KeptHasFiles
  <2> QED  BY <2>4, <2>5, <2>6, <2>7, <2>8
              DEF BackupInd
<1>20. ASSUME NEW q \in Restores, RestoreCompare(q)
      PROVE  BackupInd'
  <2>1. PICK p \in {"decrypting", "releasing"} : RestoreStep(q, p)
    BY <1>20 DEF RestoreCompare
  <2>2. /\ restore' \in [Restores -> [run : Runs, phase : RestorePhases, file : Execs \cup {None}]]
        /\ \A s \in Restores : restore'[s].phase = IF s = q THEN p ELSE restore[s].phase
        /\ \A s \in Restores : restore'[s].file = restore[s].file
    <3>1. p \in RestorePhases
      BY DEF RestorePhases
    <3> QED  BY <1>1, <2>1, <3>1, RestoreStepped
  <2>3. /\ restore[q].phase = "comparing"
        /\ UNCHANGED <<rows, lock>>
    BY <1>20 DEF RestoreCompare, AtRestore, Storage, Flags, Bounds
  <2>4. \A s \in Restores : lock = s <=> restore[s].phase \in Holding
    BY <1>1 DEF LockExact
  <2>5. RestoresOK'
    BY <1>1, <2>2, <2>3 DEF RestoresOK
  <2>6. LockExact'
    BY <2>2, <2>3, <2>4, BackupNumbers DEF LockExact, Holding
  <2>7. NoneRunning'
    BY <1>1, <2>2, <2>3 DEF NoneRunning
  <2>8. FileRead'
    BY <1>1, <2>2, <2>3 DEF FileRead
  <2>9. /\ TablesOK' /\ ExecsOK' /\ FilesOK' /\ ProcessOK' /\ ExecsNumbered'
        /\ FileBeforeSidecar' /\ SidecarHasFile' /\ RunsNumbered'
        /\ TriggerFirst' /\ OwnFiles' /\ SucceededExecuted' /\ PruneOnlyOld'
        /\ KeptHasFiles'
    BY <1>1, <1>20
       DEF RestoreCompare, AtRestore, Bounds, Flags, RestoreStep, Storage,
           TablesOK, ExecsOK, FilesOK, ProcessOK, ExecsNumbered,
           FileBeforeSidecar, SidecarHasFile, RunsNumbered, TriggerFirst,
           OwnFiles, Regular, ExecutedOnce, SucceededExecuted, PruneOnlyOld,
           Successes, KeptHasFiles
  <2> QED  BY <2>5, <2>6, <2>7, <2>8, <2>9
              DEF BackupInd
<1>21. ASSUME NEW q \in Restores, RestoreDecrypt(q)
      PROVE  BackupInd'
  <2>1. PICK p \in {"applying", "releasing"} : RestoreStep(q, p)
    BY <1>21 DEF RestoreDecrypt
  <2>2. /\ restore' \in [Restores -> [run : Runs, phase : RestorePhases, file : Execs \cup {None}]]
        /\ \A s \in Restores : restore'[s].phase = IF s = q THEN p ELSE restore[s].phase
        /\ \A s \in Restores : restore'[s].file = restore[s].file
    <3>1. p \in RestorePhases
      BY DEF RestorePhases
    <3> QED  BY <1>1, <2>1, <3>1, RestoreStepped
  <2>3. /\ restore[q].phase = "decrypting"
        /\ UNCHANGED <<rows, lock>>
    BY <1>21 DEF RestoreDecrypt, AtRestore, Storage, Flags, Bounds
  <2>4. \A s \in Restores : lock = s <=> restore[s].phase \in Holding
    BY <1>1 DEF LockExact
  <2>5. RestoresOK'
    BY <1>1, <2>2, <2>3 DEF RestoresOK
  <2>6. LockExact'
    BY <2>2, <2>3, <2>4, BackupNumbers DEF LockExact, Holding
  <2>7. NoneRunning'
    BY <1>1, <2>2, <2>3 DEF NoneRunning
  <2>8. FileRead'
    BY <1>1, <2>2, <2>3 DEF FileRead
  <2>9. /\ TablesOK' /\ ExecsOK' /\ FilesOK' /\ ProcessOK' /\ ExecsNumbered'
        /\ FileBeforeSidecar' /\ SidecarHasFile' /\ RunsNumbered'
        /\ TriggerFirst' /\ OwnFiles' /\ SucceededExecuted' /\ PruneOnlyOld'
        /\ KeptHasFiles'
    BY <1>1, <1>21
       DEF RestoreDecrypt, AtRestore, Bounds, Flags, RestoreStep, Storage,
           TablesOK, ExecsOK, FilesOK, ProcessOK, ExecsNumbered,
           FileBeforeSidecar, SidecarHasFile, RunsNumbered, TriggerFirst,
           OwnFiles, Regular, ExecutedOnce, SucceededExecuted, PruneOnlyOld,
           Successes, KeptHasFiles
  <2> QED  BY <2>5, <2>6, <2>7, <2>8, <2>9
              DEF BackupInd
<1>22. ASSUME NEW q \in Restores, RestoreApply(q)
      PROVE  BackupInd'
  <2>1. /\ restore[q].phase = "applying" /\ UNCHANGED <<tries, trigger, exec, file, meta, pruned, lock, sealed, up,
                                                         crashes, runsUsed, execsUsed>>
        /\ \/ /\ rows' = exec[restore[q].file].dump.rows
              /\ jobs' = {r \in exec[restore[q].file].dump.jobs : tries[r] < RetryLimit}
              /\ restored' = TRUE /\ RestoreStep(q, "sealing")
           \/ RestoreStep(q, "releasing") /\ UNCHANGED <<rows, jobs, restored>>
    BY <1>22 DEF RestoreApply, AtRestore, Storage, Bounds
  <2>2. PICK p \in {"sealing", "releasing"} : RestoreStep(q, p)
    BY <2>1
  <2>3. /\ restore' \in [Restores -> [run : Runs, phase : RestorePhases, file : Execs \cup {None}]]
        /\ \A s \in Restores : restore'[s].phase = IF s = q THEN p ELSE restore[s].phase
        /\ \A s \in Restores : restore'[s].file = restore[s].file
    <3>1. p \in RestorePhases
      BY DEF RestorePhases
    <3> QED  BY <1>1, <2>2, <3>1, RestoreStepped
  <2>4. \A s \in Restores : lock = s <=> restore[s].phase \in Holding
    BY <1>1 DEF LockExact
  <2>5. lock = q /\ \A s \in Restores : s # q => restore[s].phase \notin Holding
    BY <2>1, <2>4 DEF Holding
  <2>6. restored' = TRUE \/ UNCHANGED <<rows, jobs, restored>>
    BY <2>1
  <2>7. TablesOK'
    <3>1. restore[q].file \in Execs
      BY <1>1, <2>1 DEF FileRead, RestoresOK
    <3>2. exec[restore[q].file].dump \in Snapshot
      BY <1>1, <3>1 DEF ExecsOK, ExecStates
    <3>3. exec[restore[q].file].dump.rows \in [Runs -> Statuses] /\ exec[restore[q].file].dump.jobs \subseteq Runs
      BY <3>2 DEF Snapshot
    <3> QED  BY <1>1, <2>1, <3>3 DEF TablesOK
  <2>8. ExecsOK'
    BY <1>1, <2>1, <2>2, <2>3, <2>4, <2>5, <2>6
       DEF ExecsOK
  <2>9. RestoresOK'
    BY <1>1, <2>1, <2>3 DEF RestoresOK
  <2>10. ProcessOK'
    BY <1>1, <2>1, <2>6 DEF ProcessOK
  <2>11. LockExact'
    BY <2>1, <2>2, <2>3, <2>5 DEF LockExact, Holding
  <2>12. NoneRunning'
    BY <2>2, <2>3, <2>5 DEF NoneRunning, Holding
  <2>13. FileRead'
    BY <1>1, <2>2, <2>3 DEF FileRead
  <2>14. RunsNumbered'
    BY <1>1, <2>1, <2>6 DEF RunsNumbered
  <2>15. TriggerFirst'
    BY <1>1, <2>1, <2>6 DEF TriggerFirst
  <2>16. OwnFiles'
    BY <1>1, <2>1, <2>6 DEF OwnFiles, Regular, ExecutedOnce
  <2>17. SucceededExecuted'
    BY <1>1, <2>1, <2>6 DEF SucceededExecuted, Regular, ExecutedOnce
  <2>18. PruneOnlyOld'
    BY <1>1, <2>1, <2>6 DEF PruneOnlyOld, Regular, ExecutedOnce, Successes
  <2>19. KeptHasFiles'
    BY <1>1, <2>1, <2>6 DEF KeptHasFiles, Regular, ExecutedOnce, Successes
  <2>20. FilesOK' /\ ExecsNumbered' /\ FileBeforeSidecar' /\ SidecarHasFile'
    BY <1>1, <1>22
       DEF RestoreApply, AtRestore, Bounds, RestoreStep, Storage, FilesOK,
           ExecsNumbered, FileBeforeSidecar, SidecarHasFile
  <2> QED  BY <2>7, <2>8, <2>9, <2>10, <2>11, <2>12, <2>13, <2>14, <2>15,
              <2>16, <2>17, <2>18, <2>19, <2>20
              DEF BackupInd
<1>23. ASSUME NEW q \in Restores, RestoreSeal(q)
      PROVE  BackupInd'
  <2>1. PICK p \in {"releasing"} : RestoreStep(q, p)
    BY <1>23 DEF RestoreSeal
  <2>2. /\ restore' \in [Restores -> [run : Runs, phase : RestorePhases, file : Execs \cup {None}]]
        /\ \A s \in Restores : restore'[s].phase = IF s = q THEN p ELSE restore[s].phase
        /\ \A s \in Restores : restore'[s].file = restore[s].file
    <3>1. p \in RestorePhases
      BY DEF RestorePhases
    <3> QED  BY <1>1, <2>1, <3>1, RestoreStepped
  <2>3. /\ restore[q].phase = "sealing"
        /\ UNCHANGED <<rows, lock>>
    BY <1>23 DEF RestoreSeal, AtRestore, Storage, Flags, Bounds
  <2>4. \A s \in Restores : lock = s <=> restore[s].phase \in Holding
    BY <1>1 DEF LockExact
  <2>5. RestoresOK'
    BY <1>1, <2>2, <2>3 DEF RestoresOK
  <2>6. ProcessOK'
    BY <1>1, <1>23 DEF RestoreSeal, ProcessOK, Bounds
  <2>7. LockExact'
    BY <2>2, <2>3, <2>4, BackupNumbers DEF LockExact, Holding
  <2>8. NoneRunning'
    BY <1>1, <2>2, <2>3 DEF NoneRunning
  <2>9. FileRead'
    BY <1>1, <2>2, <2>3 DEF FileRead
  <2>10. /\ TablesOK' /\ ExecsOK' /\ FilesOK' /\ ExecsNumbered'
        /\ FileBeforeSidecar' /\ SidecarHasFile' /\ RunsNumbered'
        /\ TriggerFirst' /\ OwnFiles' /\ SucceededExecuted' /\ PruneOnlyOld'
        /\ KeptHasFiles'
    BY <1>1, <1>23
       DEF RestoreSeal, AtRestore, Bounds, RestoreStep, Storage, TablesOK,
           ExecsOK, FilesOK, ExecsNumbered, FileBeforeSidecar,
           SidecarHasFile, RunsNumbered, TriggerFirst, OwnFiles, Regular,
           ExecutedOnce, SucceededExecuted, PruneOnlyOld, Successes,
           KeptHasFiles
  <2> QED  BY <2>5, <2>6, <2>7, <2>8, <2>9, <2>10
              DEF BackupInd
<1>24. ASSUME NEW q \in Restores, RestoreRelease(q)
      PROVE  BackupInd'
  <2>1. PICK p \in {"done", "leaked"} : RestoreStep(q, p)
    BY <1>24 DEF RestoreRelease, Unlock
  <2>2. /\ restore' \in [Restores -> [run : Runs, phase : RestorePhases, file : Execs \cup {None}]]
        /\ \A s \in Restores : restore'[s].phase = IF s = q THEN p ELSE restore[s].phase
        /\ \A s \in Restores : restore'[s].file = restore[s].file
    <3>1. p \in RestorePhases
      BY DEF RestorePhases
    <3> QED  BY <1>1, <2>1, <3>1, RestoreStepped
  <2>3. /\ restore[q].phase = "releasing" /\ lock' = None
        /\ UNCHANGED <<rows>>
    BY <1>24 DEF RestoreRelease, Unlock, AtRestore, Storage, Flags, Bounds
  <2>4. \A s \in Restores : lock = s <=> restore[s].phase \in Holding
    BY <1>1 DEF LockExact
  <2>5. RestoresOK'
    BY <1>1, <2>2, <2>3 DEF RestoresOK
  <2>6. LockExact'
    BY <2>2, <2>3, <2>4, BackupNumbers DEF LockExact, Holding
  <2>7. NoneRunning'
    BY <1>1, <2>2, <2>3 DEF NoneRunning
  <2>8. FileRead'
    BY <1>1, <2>2, <2>3 DEF FileRead
  <2>9. /\ TablesOK' /\ ExecsOK' /\ FilesOK' /\ ProcessOK' /\ ExecsNumbered'
        /\ FileBeforeSidecar' /\ SidecarHasFile' /\ RunsNumbered'
        /\ TriggerFirst' /\ OwnFiles' /\ SucceededExecuted' /\ PruneOnlyOld'
        /\ KeptHasFiles'
    BY <1>1, <1>24
       DEF RestoreRelease, Unlock, AtRestore, Bounds, Flags, RestoreStep, Storage,
           TablesOK, ExecsOK, FilesOK, ProcessOK, ExecsNumbered,
           FileBeforeSidecar, SidecarHasFile, RunsNumbered, TriggerFirst,
           OwnFiles, Regular, ExecutedOnce, SucceededExecuted, PruneOnlyOld,
           Successes, KeptHasFiles
  <2> QED  BY <2>5, <2>6, <2>7, <2>8, <2>9
              DEF BackupInd
<1>25. CASE Unseal
  <2>1. ProcessOK'
    BY <1>1, <1>25, BackupNumbers
       DEF Unseal, Bounds, Requests, Storage, ProcessOK
  <2>2. /\ TablesOK' /\ ExecsOK' /\ FilesOK' /\ RestoresOK'
        /\ ExecsNumbered' /\ LockExact' /\ NoneRunning' /\ FileRead'
        /\ FileBeforeSidecar' /\ SidecarHasFile' /\ RunsNumbered'
        /\ TriggerFirst' /\ OwnFiles' /\ SucceededExecuted' /\ PruneOnlyOld'
        /\ KeptHasFiles'
    BY <1>1, <1>25
       DEF Unseal, Bounds, Requests, Storage, TablesOK, ExecsOK, FilesOK,
           RestoresOK, ExecsNumbered, LockExact, NoneRunning, FileRead,
           FileBeforeSidecar, SidecarHasFile, RunsNumbered, TriggerFirst,
           OwnFiles, Regular, ExecutedOnce, SucceededExecuted, PruneOnlyOld,
           Successes, KeptHasFiles
  <2> QED  BY <2>1, <2>2
              DEF BackupInd
<1>26. CASE Crash
  <2> DEFINE lost == {e \in Execs : Active(e)}
             again == UNION {Repeatable(e) : e \in lost}
  <2>1. /\ crashes < MaxCrashes /\ crashes' = crashes + 1 /\ up' = FALSE /\ sealed' = TRUE /\ lock' = None
        /\ trigger' = [r \in Runs |-> IF trigger[r] = "none" THEN "none" ELSE "done"]
        /\ restore' = [q \in Restores |->
             [restore[q] EXCEPT !.phase = IF restore[q].phase = "new" THEN "new" ELSE "done"]]
        /\ exec' = [e \in Execs |-> IF e \in lost THEN [exec[e] EXCEPT !.phase = "done"] ELSE exec[e]]
        /\ jobs' = jobs \cup again
        /\ tries' = [r \in Runs |-> IF r \in again THEN tries[r] + 1 ELSE tries[r]]
        /\ UNCHANGED <<rows, file, meta, pruned, restored, runsUsed, execsUsed>>
    BY <1>1, <1>26 DEF Crash, RestoresOK, Storage
  <2>2. /\ again \subseteq Runs /\ \A r \in again : tries[r] < RetryLimit /\ trigger[r] = "done"
        /\ \A r \in again : \E e \in Execs : exec[e].run = r
    <3>1. ASSUME NEW e \in lost, NEW r \in Repeatable(e)
          PROVE  /\ r \in Runs /\ tries[r] < RetryLimit /\ trigger[r] = "done" /\ exec[e].run = r
      BY <1>1, <3>1, ExecHasRun DEF Repeatable, OwnJob, Active
    <3> QED  BY <3>1
  <2>3. \A e \in lost : exec[e].phase \notin {"unused", "done"}
    BY DEF Active
  <2> HIDE DEF lost, again
  <2>4. /\ ExecsOK' /\ SameRuns
        /\ \A e \in Execs : exec'[e].phase = IF e \in lost THEN "done" ELSE exec[e].phase
    BY <1>1, <2>1 DEF ExecsOK, ExecStates, ExecPhases, SameRuns
  <2>5. /\ restore' \in [Restores -> [run : Runs, phase : RestorePhases, file : Execs \cup {None}]]
        /\ \A q \in Restores : restore'[q].phase \in {"new", "done"}
    BY <1>1, <2>1 DEF RestoresOK, RestorePhases
  <2>6. /\ trigger' \in [Runs -> {"none", "audit", "send", "done"}]
        /\ \A r \in Runs : trigger'[r] = IF trigger[r] = "none" THEN "none" ELSE "done"
    BY <1>1, <2>1 DEF TablesOK
  <2>7. Regular' <=> Regular
    BY <2>1, <2>4, RegularKept
  <2>8. SucceededExecuted' /\ PruneOnlyOld' /\ KeptHasFiles'
    <3>1. Successes' = Successes
      BY <2>1 DEF Successes
    <3> QED  BY <1>1, <2>1, <2>4, <2>7, <3>1, HistoryKept DEF SameRuns
  <2>9. TablesOK'
    <3>1. tries' \in [Runs -> 0 .. RetryLimit]
      BY <1>1, <2>1, <2>2, BackupAssumption DEF TablesOK
    <3> QED  BY <1>1, <2>1, <2>2, <2>6, <3>1 DEF TablesOK
  <2>10. ExecsOK'
    BY <2>4
  <2>11. FilesOK'
    BY <1>1, <2>1, <2>2, <2>3, <2>4, <2>5, <2>6, <2>7, <2>8
       DEF FilesOK
  <2>12. RestoresOK'
    BY <2>1, <2>5 DEF RestoresOK
  <2>13. ProcessOK'
    <3>1. crashes' \in 0 .. MaxCrashes
      BY <1>1, <2>1, BackupAssumption DEF ProcessOK
    <3> QED  BY <1>1, <2>1, <3>1 DEF ProcessOK
  <2>14. ExecsNumbered'
    BY <1>1, <2>1, <2>3, <2>4 DEF ExecsNumbered, SameRuns
  <2>15. LockExact'
    BY <2>1, <2>5, BackupNumbers DEF LockExact, Holding
  <2>16. NoneRunning'
    BY <2>5 DEF NoneRunning
  <2>17. FileRead'
    BY <2>5 DEF FileRead
  <2>18. FileBeforeSidecar'
    BY <1>1, <2>1, <2>4 DEF FileBeforeSidecar, SameRuns
  <2>19. SidecarHasFile'
    BY <1>1, <2>1 DEF SidecarHasFile
  <2>20. RunsNumbered'
    <3>1. ~restored => \A r \in Runs : r > runsUsed => r \notin again
      BY <1>1, <2>2 DEF RunsNumbered
    <3> QED  BY <1>1, <2>1, <2>4, <2>6, <3>1 DEF RunsNumbered, SameRuns
  <2>21. TriggerFirst'
    BY <2>6 DEF TriggerFirst
  <2>22. OwnFiles'
    BY <1>1, <2>1, <2>4, <2>7 DEF OwnFiles, SameRuns
  <2>23. SucceededExecuted'
    BY <2>8
  <2>24. PruneOnlyOld'
    BY <2>8
  <2>25. KeptHasFiles'
    BY <2>8
  <2> QED  BY <2>9, <2>10, <2>11, <2>12, <2>13, <2>14, <2>15, <2>16, <2>17,
              <2>18, <2>19, <2>20, <2>21, <2>22, <2>23, <2>24, <2>25
              DEF BackupInd
<1>27. CASE Boot
  <2>1. /\ rows' = [r \in Runs |-> IF rows[r] = "running" THEN "failed" ELSE rows[r]]
        /\ up' = TRUE /\ sealed' = FALSE
        /\ UNCHANGED <<jobs, tries, trigger, restore, lock, exec, file, meta, pruned, restored,
                       crashes, runsUsed, execsUsed>>
    BY <1>27 DEF Boot, Storage, Requests, Bounds
  <2>2. /\ rows' \in [Runs -> Statuses] /\ \A r \in Runs : rows'[r] # "running"
        /\ \A r \in Runs : rows'[r] = "succeeded" <=> rows[r] = "succeeded"
    BY <1>1, <2>1 DEF TablesOK, Statuses
  <2>3. Successes' = Successes
    BY <2>2 DEF Successes
  <2>4. Regular' <=> Regular
    BY <2>1, RegularKept DEF SameRuns
  <2>5. SucceededExecuted' /\ PruneOnlyOld' /\ KeptHasFiles'
    BY <1>1, <2>1, <2>3, <2>4, HistoryKept
  <2>6. TablesOK'
    BY <1>1, <2>1, <2>2 DEF TablesOK
  <2>7. ExecsOK'
    BY <1>1, <2>1, <2>2, <2>3, <2>4, <2>5 DEF ExecsOK
  <2>8. ProcessOK'
    BY <1>1, <2>1 DEF ProcessOK
  <2>9. NoneRunning'
    BY <2>2 DEF NoneRunning
  <2>10. OwnFiles'
    BY <1>1, <2>1, <2>2, <2>4, ExecHasRun DEF OwnFiles
  <2>11. SucceededExecuted'
    BY <2>5
  <2>12. PruneOnlyOld'
    BY <2>5
  <2>13. KeptHasFiles'
    BY <2>5
  <2>14. /\ FilesOK' /\ RestoresOK' /\ ExecsNumbered' /\ LockExact'
        /\ FileRead' /\ FileBeforeSidecar' /\ SidecarHasFile'
        /\ RunsNumbered' /\ TriggerFirst'
    BY <1>1, <1>27
       DEF Boot, Bounds, Requests, Storage, FilesOK, RestoresOK,
           ExecsNumbered, LockExact, FileRead, FileBeforeSidecar,
           SidecarHasFile, RunsNumbered, TriggerFirst
  <2> QED  BY <2>6, <2>7, <2>8, <2>9, <2>10, <2>11, <2>12, <2>13, <2>14
              DEF BackupInd
<1>28. CASE UNCHANGED vars
  BY <1>1, <1>28
     DEF vars, BackupInd, ExecsNumbered, ExecsOK, ExecutedOnce,
         FileBeforeSidecar, FileRead, FilesOK, KeptHasFiles, LockExact,
         NoneRunning, OwnFiles, ProcessOK, PruneOnlyOld, Regular, RestoresOK,
         RunsNumbered, SidecarHasFile, SucceededExecuted, Successes,
         TablesOK, TriggerFirst
<1> QED  BY <1>2, <1>3, <1>4, <1>5, <1>6, <1>7, <1>8, <1>9, <1>10, <1>11,
            <1>12, <1>13, <1>14, <1>15, <1>16, <1>17, <1>18, <1>19, <1>20,
            <1>21, <1>22, <1>23, <1>24, <1>25, <1>26, <1>27, <1>28
            DEF Next, ExecStep, RestoreSteps

\* A fresh instance satisfies the invariant.
LEMMA BackupInitInd == Init => BackupInd
<1> SUFFICES ASSUME Init PROVE BackupInd
  OBVIOUS
<1> DEFINE x == [run |-> None, phase |-> "unused", dump |-> Empty, owns |-> FALSE, prune |-> {}]
<1>1. Empty \in Snapshot /\ Empty.rows \in [Runs -> Statuses] /\ \A r \in Runs : Empty.rows[r] = "absent"
  BY DEF Empty, Snapshot, Statuses
<1>2. x \in ExecStates /\ x.run = None /\ x.phase = "unused" /\ x.prune = {}
  BY <1>1 DEF ExecStates, ExecPhases
<1>3. /\ rows = Empty.rows /\ jobs = {} /\ tries = [r \in Runs |-> 0]
      /\ trigger = [r \in Runs |-> "none"] /\ exec = [e \in Execs |-> x]
      /\ file = [r \in Runs |-> None] /\ meta = [r \in Runs |-> None] /\ pruned = {}
      /\ restore \in [Restores -> [run : {1}, phase : {"new"}, file : {None}]] /\ lock = None
      /\ restored = FALSE /\ sealed = FALSE /\ up = TRUE
      /\ crashes = 0 /\ runsUsed = 0 /\ execsUsed = 0
  BY DEF Init
<1> HIDE DEF x
<1>4. /\ exec \in [Execs -> ExecStates]
      /\ \A e \in Execs : exec[e].run = None /\ exec[e].phase = "unused" /\ exec[e].prune = {}
  BY <1>2, <1>3
<1>5. \A q \in Restores : restore[q] \in [run : {1}, phase : {"new"}, file : {None}]
  BY <1>3
<1>6. /\ restore \in [Restores -> [run : Runs, phase : RestorePhases, file : Execs \cup {None}]]
      /\ \A q \in Restores : restore[q].phase = "new"
  BY <1>3, <1>5, BackupNumbers DEF RestorePhases
<1>7. \A r \in Runs : rows[r] = "absent" /\ meta[r] = None /\ trigger[r] = "none"
  BY <1>1, <1>3
<1>8. TablesOK /\ ExecsOK /\ FilesOK /\ RestoresOK /\ ProcessOK
  <2>1. tries \in [Runs -> 0 .. RetryLimit] /\ 0 \in 0 .. MaxCrashes /\ 0 \in 0 .. MaxRuns /\ 0 \in 0 .. MaxExecs
    BY <1>3, BackupAssumption
  <2>2. TablesOK
    BY <1>1, <1>3, <2>1 DEF TablesOK
  <2> QED  BY <1>3, <1>4, <1>6, <2>1, <2>2 DEF ExecsOK, FilesOK, RestoresOK, ProcessOK
<1>9. ExecsNumbered /\ LockExact /\ NoneRunning /\ FileRead /\ FileBeforeSidecar /\ SidecarHasFile
  BY <1>3, <1>4, <1>6, <1>7, BackupNumbers
     DEF ExecsNumbered, LockExact, NoneRunning, FileRead, FileBeforeSidecar, SidecarHasFile, Holding
<1>10. RunsNumbered /\ TriggerFirst /\ OwnFiles /\ SucceededExecuted /\ PruneOnlyOld /\ KeptHasFiles
  BY <1>3, <1>4, <1>7, BackupNumbers
     DEF RunsNumbered, TriggerFirst, OwnFiles, SucceededExecuted, PruneOnlyOld, KeptHasFiles, Successes
<1> QED  BY <1>8, <1>9, <1>10 DEF BackupInd

\* The invariant gives the guarantees of BackupSafe.
LEMMA BackupIndImplies == BackupInd => BackupSafe
<1> SUFFICES ASSUME BackupInd PROVE BackupSafe
  OBVIOUS
<1>1. /\ TablesOK /\ ExecsOK /\ FilesOK /\ RestoresOK /\ ProcessOK
      /\ ExecsNumbered /\ LockExact /\ NoneRunning /\ SidecarHasFile /\ KeptHasFiles
  BY DEF BackupInd
<1>2. TypeOK
  <2>1. \A e \in Execs :
          /\ exec[e].run \in Runs \cup {None} /\ exec[e].phase \in ExecPhases
          /\ exec[e].dump.rows \in [Runs -> Statuses] /\ exec[e].dump.jobs \subseteq Runs
          /\ exec[e].owns \in BOOLEAN /\ exec[e].prune \subseteq Runs
    BY <1>1 DEF ExecsOK, ExecStates, Snapshot
  <2> QED  BY <1>1, <2>1 DEF TypeOK, TablesOK, FilesOK, RestoresOK, ProcessOK
<1>3. LockFollowsRestore
  BY <1>1 DEF LockExact, LockFollowsRestore
<1>4. KeptBackupRestorable
  BY <1>1 DEF KeptHasFiles, Regular, Successes, KeptBackupRestorable
<1>5. RunningExcludesRestore
  BY <1>1, ExecHasRun DEF NoneRunning, RunningExcludesRestore, AtRestore
<1> QED  BY <1>1, <1>2, <1>3, <1>4, <1>5 DEF BackupSafe

\* Whatever crashes, expires or is repeated between the steps of backups and
\* restores, the advisory lock is held by a running restore only, a sidecar has its
\* file unless retention took it, a row that says running excludes a restore, and
\* the newest backups can be restored while no job was repeated and no restore has
\* rolled the rows back (acquireBackupSlot, executeBackupSnapshot,
\* restoreFromBackup), for any number of runs, executions, restores and crashes.
THEOREM BackupAlwaysSafe == Spec => []BackupSafe
<1> QED  BY BackupInitInd, BackupPreserved, BackupIndImplies, PTL DEF Spec
=============================================================================
