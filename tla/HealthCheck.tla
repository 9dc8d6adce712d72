----------------------------- MODULE HealthCheck ----------------------------
(* The health of one monitored endpoint and the alerts about it              *)
(* (workers/monitoring-health-check.ts, monitoring-alert-shared.ts and       *)
(* modules/monitoring/service.ts).                                           *)
(*                                                                           *)
(* A tick holds an advisory lock, reads the endpoint's row, probes the URL   *)
(* for seconds, reads the row again without a lock and then writes what the  *)
(* first reading makes of the result.  Members meanwhile pause the checks,   *)
(* change the threshold, delete the endpoint, snooze and dismiss alerts.     *)
(* Alerts and episodes are numbered in the order they come.                  *)
EXTENDS Integers, Sequences

CONSTANTS
    Ticks,        \* runs of the tick job
    Members,      \* concurrent requests of members
    MaxThreshold, \* largest downThresholdFailures
    MaxAlerts     \* bound on the alerts ever inserted

ASSUME HealthConstants == MaxThreshold \in Nat \ {0} /\ MaxAlerts \in Nat

VARIABLES
    endpoint,     \* the row of service_endpoints; exists is FALSE once deleted
    paused,       \* health_check_paused_at is set
    threshold,    \* down_threshold_failures
    ticks,        \* what each run is doing
    members,      \* what each request is doing
    alerts,       \* the rows of monitoring_alerts
    unsent,       \* alerts with a pending row in notification_queue
    episodes,     \* down transitions so far
    \* history
    raised,       \* the threshold was raised during an episode or a probe
    missed,       \* alerts inserted after a deletion had listed those to resolve
    reopened      \* alerts closed by then and snoozed after

late == <<missed, reopened>>
healthVars == <<endpoint, paused, threshold, ticks, members, alerts, unsent, episodes,
                raised, late>>

AtRest == [at |-> "idle"]
NoEpisode == 0

HealthInit ==
    /\ endpoint = [exists |-> TRUE, health |-> "healthy", failures |-> 0, episode |-> NoEpisode]
    /\ paused = FALSE /\ threshold \in 1..MaxThreshold
    /\ ticks = [t \in Ticks |-> AtRest] /\ members = [m \in Members |-> AtRest]
    /\ alerts = <<>> /\ unsent = {} /\ episodes = 0
    /\ raised = FALSE /\ missed = {} /\ reopened = {}

-----------------------------------------------------------------------------
(* The transition of one check. *)

\* statusForConsecutiveFailures
StatusFor(failures, limit) ==
    CASE failures = 0 -> "healthy"
      [] failures >= limit -> "down"
      [] OTHER -> "degraded"

\* computeStatusTransition; failures above the largest threshold are not told apart.
NextFailures(row, healthy) ==
    IF healthy THEN 0 ELSE IF row.failures < MaxThreshold THEN row.failures + 1 ELSE row.failures

NextHealth(row, limit, healthy) == StatusFor(NextFailures(row, healthy), limit)

AlertFired(row, limit, healthy) ==
    LET after == NextHealth(row, limit, healthy)
    IN  CASE row.health # "down" /\ after = "down" -> "down"
          [] row.health = "down" /\ after = "healthy" -> "recovery"
          [] OTHER -> "none"

\* The episode an alert belongs to: a new one when it goes down.
EpisodeKey(row, fired) ==
    IF fired = "down" \/ row.episode = NoEpisode THEN episodes + 1 ELSE row.episode

Open(a) == alerts[a].status \in {"active", "snoozed"}

\* createMonitoringAlertIfNotDeduped: an open alert of the episode blocks a down alert.
Deduped(fired, key) ==
    fired = "down" /\ \E a \in DOMAIN alerts : alerts[a].episode = key /\ Open(a)

-----------------------------------------------------------------------------
(* The tick. *)

\* Mutant of LockFree: overlapping runs are not kept out.
LockIgnored(t) == TRUE

\* pg_try_advisory_xact_lock: no other run is under way.
LockFree(t) == \A u \in Ticks \ {t} : ticks[u] = AtRest

\* runHealthCheckTick with fetchDueServiceEndpoints: the row is read, the probe starts.
TickStart(t) ==
    /\ ticks[t] = AtRest /\ LockFree(t)
    /\ endpoint.exists /\ ~paused
    /\ ticks' = [ticks EXCEPT ![t] = [at |-> "probing", row |-> endpoint, limit |-> threshold]]
    /\ UNCHANGED <<endpoint, paused, threshold, members, alerts, unsent, episodes, raised, late>>

\* The probe is answered and applyHealthCheckResult reads the row again: a paused or
\* deleted endpoint ends the work on it.
Recheck(t, healthy) ==
    /\ ticks[t].at = "probing"
    /\ ticks' = [ticks EXCEPT ![t] =
           IF endpoint.exists /\ ~paused
           THEN [at |-> "writing", row |-> @.row, limit |-> @.limit, healthy |-> healthy]
           ELSE AtRest]
    /\ UNCHANGED <<endpoint, paused, threshold, members, alerts, unsent, episodes, raised, late>>

\* A deletion that has chosen the alerts to resolve.
Deleting == \E m \in Members : members[m].at = "deleting"

\* The rest of the transaction, with the values of the first reading.
ApplyHealthCheckResult(t) ==
    LET row == ticks[t].row
        healthy == ticks[t].healthy
        fired == AlertFired(row, ticks[t].limit, healthy)
        key == EpisodeKey(row, fired)
        id == Len(alerts) + 1
    IN  /\ ticks[t].at = "writing" /\ endpoint.exists
        /\ endpoint' = [exists |-> TRUE,
                        health |-> NextHealth(row, ticks[t].limit, healthy),
                        failures |-> NextFailures(row, healthy),
                        episode |-> CASE fired = "down" -> key
                                      [] fired = "recovery" -> NoEpisode
                                      [] OTHER -> row.episode]
        /\ IF fired = "none" \/ Deduped(fired, key)
           THEN UNCHANGED <<alerts, unsent, episodes, missed>>
           ELSE /\ id <= MaxAlerts
                /\ alerts' = Append(alerts, [type |-> fired, episode |-> key, status |-> "active"])
                /\ unsent' = unsent \cup {id}
                /\ episodes' = IF key > episodes THEN key ELSE episodes
                /\ missed' = IF Deleting THEN missed \cup {id} ELSE missed
        /\ ticks' = [ticks EXCEPT ![t] = AtRest]
        /\ UNCHANGED <<paused, threshold, members, raised, reopened>>

\* processDueEndpoint logs an error and goes on: nothing was written.
RowFails(t) ==
    /\ ticks[t] # AtRest
    /\ ticks' = [ticks EXCEPT ![t] = AtRest]
    /\ UNCHANGED <<endpoint, paused, threshold, members, alerts, unsent, episodes, raised, late>>

\* The notification worker sends what is pending.
NotificationSent(a) ==
    /\ a \in unsent /\ unsent' = unsent \ {a}
    /\ UNCHANGED <<endpoint, paused, threshold, ticks, members, alerts, episodes, raised, late>>

-----------------------------------------------------------------------------
(* What members do. *)

\* updateServiceEndpoint with healthCheckPaused.
SetPaused(p) ==
    /\ endpoint.exists /\ paused # p /\ paused' = p
    /\ UNCHANGED <<endpoint, threshold, ticks, members, alerts, unsent, episodes, raised, late>>

\* updateServiceEndpoint with downThresholdFailures: the status is not computed anew.
SetThreshold(n) ==
    /\ endpoint.exists /\ threshold' = n
    /\ raised' = (raised \/ (n > threshold /\ (endpoint.episode # NoEpisode
                                                 \/ \E t \in Ticks : ticks[t] # AtRest)))
    /\ UNCHANGED <<endpoint, paused, ticks, members, alerts, unsent, episodes, late>>

\* deleteServiceEndpoint updates the open alerts and the pending notifications it sees.
DeleteStart(m) ==
    /\ members[m] = AtRest /\ endpoint.exists
    /\ members' = [members EXCEPT ![m] =
           [at |-> "deleting", seen |-> {a \in DOMAIN alerts : Open(a)}, queued |-> unsent]]
    /\ UNCHANGED <<endpoint, paused, threshold, ticks, alerts, unsent, episodes, raised, late>>

\* resolveMonitoringAlertsForEndpointDeletion
Resolve(as) ==
    alerts' = [a \in DOMAIN alerts |->
        IF a \in as THEN [alerts[a] EXCEPT !.status = "resolved_by_deletion"] ELSE alerts[a]]

\* ... and then deletes the row, once no other transaction holds it.
DeleteCommit(m) ==
    /\ members[m].at = "deleting" /\ endpoint.exists
    /\ endpoint' = [endpoint EXCEPT !.exists = FALSE]
    /\ Resolve(members[m].seen)
    /\ unsent' = unsent \ members[m].queued
    /\ members' = [members EXCEPT ![m] = AtRest]
    /\ UNCHANGED <<paused, threshold, ticks, episodes, raised, late>>

\* cleanupServiceEndpointsForProjectDeletion: the same for a project, the rows stay.
CleanupForProjectDeletion ==
    /\ endpoint.exists /\ ~Deleting
    /\ Resolve({a \in DOMAIN alerts : Open(a)}) /\ unsent' = {}
    /\ UNCHANGED <<endpoint, paused, threshold, ticks, members, episodes, raised, late>>

\* Rows a deletion has updated and not committed.
Held(a) == \E m \in Members : members[m].at = "deleting" /\ a \in members[m].seen

\* snoozeMonitoringAlert reads the alert and refuses a dismissed one, then writes.
SnoozeRead(m, a) ==
    /\ members[m] = AtRest /\ alerts[a].status # "dismissed"
    /\ members' = [members EXCEPT ![m] = [at |-> "snoozing", alert |-> a]]
    /\ UNCHANGED <<endpoint, paused, threshold, ticks, alerts, unsent, episodes, raised, late>>

SnoozeWrite(m) ==
    /\ members[m].at = "snoozing" /\ ~Held(members[m].alert)
    /\ alerts' = [alerts EXCEPT ![members[m].alert].status = "snoozed"]
    /\ reopened' = IF ~Open(members[m].alert) /\ (Deleting \/ ~endpoint.exists)
                   THEN reopened \cup {members[m].alert} ELSE reopened
    /\ members' = [members EXCEPT ![m] = AtRest]
    /\ UNCHANGED <<endpoint, paused, threshold, ticks, unsent, episodes, raised, missed>>

\* dismissMonitoringAlert
Dismiss(a) ==
    /\ ~Held(a) /\ alerts[a].status # "dismissed"
    /\ alerts' = [alerts EXCEPT ![a].status = "dismissed"]
    /\ UNCHANGED <<endpoint, paused, threshold, ticks, members, unsent, episodes, raised, late>>

\* A request fails or finds the endpoint gone: its transaction is rolled back.
RequestFails(m) ==
    /\ members[m] # AtRest
    /\ members' = [members EXCEPT ![m] = AtRest]
    /\ UNCHANGED <<endpoint, paused, threshold, ticks, alerts, unsent, episodes, raised, late>>

HealthNext ==
    \/ \E t \in Ticks :
        \/ TickStart(t) \/ ApplyHealthCheckResult(t) \/ RowFails(t)
        \/ \E healthy \in BOOLEAN : Recheck(t, healthy)
    \/ \E a \in DOMAIN alerts : NotificationSent(a) \/ Dismiss(a)
    \/ \E p \in BOOLEAN : SetPaused(p)
    \/ \E n \in 1..MaxThreshold : SetThreshold(n)
    \/ \E m \in Members :
        \/ DeleteStart(m) \/ DeleteCommit(m) \/ SnoozeWrite(m) \/ RequestFails(m)
        \/ \E a \in DOMAIN alerts : SnoozeRead(m, a)
    \/ CleanupForProjectDeletion

HealthSpec == HealthInit /\ [][HealthNext]_healthVars

-----------------------------------------------------------------------------
AlertType == [type : {"down", "recovery"}, episode : 1..MaxAlerts,
              status : {"active", "snoozed", "dismissed", "resolved_by_deletion"}]

HealthTypeOK ==
    /\ endpoint \in [exists : BOOLEAN, health : {"healthy", "degraded", "down"},
                     failures : 0..MaxThreshold, episode : 0..MaxAlerts]
    /\ paused \in BOOLEAN /\ threshold \in 1..MaxThreshold
    /\ \A t \in Ticks : ticks[t].at \in {"idle", "probing", "writing"}
    /\ \A m \in Members : members[m].at \in {"idle", "deleting", "snoozing"}
    /\ \A a \in DOMAIN alerts : alerts[a] \in AlertType
    /\ unsent \subseteq DOMAIN alerts
    /\ missed \subseteq DOMAIN alerts /\ reopened \subseteq DOMAIN alerts
    /\ episodes \in 0..MaxAlerts

\* The alerts tell a story: down and recovery take turns, a recovery names the
\* episode of the down before it, and each episode is announced once, whatever is
\* paused, failed or changed between two checks.  Raising the threshold during an
\* outage breaks it (computeStatusTransition).
AlertsTakeTurns ==
    ~raised =>
        \A a \in DOMAIN alerts :
            IF a % 2 = 1
            THEN alerts[a].type = "down" /\ alerts[a].episode = (a + 1) \div 2
            ELSE alerts[a].type = "recovery" /\ alerts[a].episode = alerts[a - 1].episode

\* An endpoint shown as down has been announced, in the episode its row names, and
\* its recovery has not.
DownIsAnnounced ==
    endpoint.exists /\ endpoint.health = "down" =>
        /\ \E a \in DOMAIN alerts :
            alerts[a].type = "down" /\ alerts[a].episode = endpoint.episode
        /\ ~\E a \in DOMAIN alerts :
            alerts[a].type = "recovery" /\ alerts[a].episode = endpoint.episode

\* The alerts of a deleted endpoint are closed, neither active nor snoozed, and no
\* message about it is left to send, except for an alert inserted after the deletion
\* had listed them; only a snooze of a closed alert opens one again.
DeletedLeavesOnlyMissed ==
    ~endpoint.exists =>
        /\ {a \in DOMAIN alerts : Open(a)} \subseteq missed \cup reopened
        /\ unsent \subseteq missed

\* What monitoring guarantees: alerts that take turns, none missing for an endpoint
\* that is down, and none open for one that is gone, but for those that a check or
\* a snooze opens behind the deletion's back.
HealthSafe ==
    /\ HealthTypeOK
    /\ AlertsTakeTurns
    /\ DownIsAnnounced
    /\ DeletedLeavesOnlyMissed

-----------------------------------------------------------------------------
(* What comments of the code say and TLC refutes. *)

\* applyHealthCheckResult: the episode is "cleared on recovery".
HealthyHasNoEpisode == endpoint.health = "healthy" => endpoint.episode = NoEpisode

\* applyHealthCheckResult: "a paused endpoint cannot acquire a post-pause history row,
\* status transition, alert".
PausedStaysQuiet == [][paused /\ paused' => Len(alerts') = Len(alerts)]_healthVars

\* deleteServiceEndpoint: "a terminal resolved_by_deletion status".
ResolvedIsTerminal ==
    [][\A a \in DOMAIN alerts :
        alerts[a].status = "resolved_by_deletion" => alerts'[a] = alerts[a]]_healthVars

\* deleteServiceEndpoint: "so a dangling snoozed alert never references a deleted
\* endpoint".
NoDanglingSnooze ==
    ~endpoint.exists => \A a \in DOMAIN alerts : alerts[a].status # "snoozed"

\* dismissMonitoringAlert: "permanently dismisses an alert".
DismissedIsPermanent ==
    [][\A a \in DOMAIN alerts :
        alerts[a].status = "dismissed" => alerts'[a] = alerts[a]]_healthVars
=============================================================================
