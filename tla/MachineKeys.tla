----------------------------- MODULE MachineKeys ----------------------------
(***************************************************************************)
(* The API keys of one machine user: issue, rotation with an overlap       *)
(* window, emergency and plain revocation, the overlap worker and its      *)
(* alert, the organization-wide revocation, deactivation and the token     *)
(* exchange.  modules/machine-users/routes.ts, rotation.ts,                *)
(* token-exchange-routes.ts, workers/machine-key-overlap-revoke.ts and     *)
(* modules/auth/session-revoke.ts.                                         *)
(*                                                                         *)
(* Keys are numbered in the order of their insert.  A rotation holds the   *)
(* row lock of its key from the check to the commit; an update of a locked *)
(* row waits for it.                                                       *)
(***************************************************************************)
EXTENDS Naturals, FiniteSets

CONSTANTS Admins,         \* concurrent administrators
          Jobs,           \* concurrent runs of each worker
          MaxKeys,        \* bound on the keys ever issued
          MaxKeyUses      \* bound on the token exchanges

ASSUME KeyBounds ==
    /\ IsFiniteSet(Admins) /\ IsFiniteSet(Jobs)
    /\ MaxKeys \in Nat \ {0} /\ MaxKeyUses \in Nat

Keys == 1 .. MaxKeys
Idle == [at |-> "idle"]

VARIABLES keyCount,       \* number of rows of api_keys
          from,           \* rotated_from_key_id, 0 for none
          revokedBy,      \* revoked_at with its cause, "no" while null
          overlap,        \* overlap_expires_at: none, ahead, soon, past
          expiry,         \* expires_at: never, ahead, past
          alerted,        \* overlap_alert_sent
          everUsed,       \* last_used_at is set
          deactivated,    \* machine_users.deactivated_at is set
          admin,          \* each administrator's open transaction
          revoker,        \* keys each run of the overlap worker selected
          alerter,        \* keys each run of the alert job selected
          orgRevocation,  \* the organization-wide revocation
          keyUse,         \* the token exchange under way
          keyUses,        \* bound: exchanges started
          audits,         \* history: revocations audited for each key
          overlapAlerts,  \* history: overlap alerts queued for each key
          anomalies,      \* history: exchanges reported as anomalous
          lateKeys        \* history: keys inserted after deactivation

keys == <<keyCount, from, revokedBy, overlap, expiry, alerted, everUsed>>
work == <<admin, revoker, alerter, orgRevocation, keyUse>>
machineVars == <<keys, deactivated, work, keyUses, audits, overlapAlerts, anomalies, lateKeys>>

Rows == 1 .. keyCount
Locked(k) == \E a \in Admins : admin[a].at = "locked" /\ admin[a].key = k

MachineInit ==
    /\ keyCount = 1 /\ from = [k \in Keys |-> 0]
    /\ revokedBy = [k \in Keys |-> "no"] /\ overlap = [k \in Keys |-> "none"]
    /\ expiry \in {[k \in Keys |-> "never"], [k \in Keys |-> IF k = 1 THEN "ahead" ELSE "never"]}
    /\ alerted = [k \in Keys |-> FALSE] /\ everUsed = [k \in Keys |-> FALSE]
    /\ deactivated = FALSE
    /\ admin = [a \in Admins |-> Idle]
    /\ revoker = [j \in Jobs |-> {}] /\ alerter = [j \in Jobs |-> {}]
    /\ orgRevocation = Idle /\ keyUse = Idle /\ keyUses = 0
    /\ audits = [k \in Keys |-> 0] /\ overlapAlerts = [k \in Keys |-> 0]
    /\ anomalies = {} /\ lateKeys = {}

(* A revocation and the audit entry of its transaction.                      *)
RevokeAs(ks, cause) ==
    /\ revokedBy' = [k \in Keys |-> IF k \in ks THEN cause ELSE revokedBy[k]]
    /\ audits' = [k \in Keys |-> IF k \in ks THEN audits[k] + 1 ELSE audits[k]]

(* The insert of a key.                                                      *)
InsertKey(predecessor) ==
    /\ keyCount < MaxKeys
    /\ keyCount' = keyCount + 1
    /\ from' = [from EXCEPT ![keyCount + 1] = predecessor]
    /\ lateKeys' = IF deactivated THEN lateKeys \cup {keyCount + 1} ELSE lateKeys

-----------------------------------------------------------------------------
(* Issue: the machine user is read, then the key inserted.                   *)
IssueRead(a) ==
    /\ admin[a] = Idle /\ ~deactivated /\ keyCount < MaxKeys
    /\ admin' = [admin EXCEPT ![a] = [at |-> "issuing"]]
    /\ UNCHANGED <<keys, deactivated, revoker, alerter, orgRevocation, keyUse, keyUses,
                   audits, overlapAlerts, anomalies, lateKeys>>

Issue(a) ==
    /\ admin[a].at = "issuing"
    /\ InsertKey(0)
    /\ admin' = [admin EXCEPT ![a] = Idle]
    /\ UNCHANGED <<revokedBy, overlap, expiry, alerted, everUsed, deactivated, revoker,
                   alerter, orgRevocation, keyUse, keyUses, audits, overlapAlerts, anomalies>>

\* Mutant of Actionable: a key in its overlap window may be rotated again.
ActionableTwice(k) == revokedBy[k] = "no"

(* lockAndRejectIfRevoked: neither revoked nor already rotated.              *)
Actionable(k) == revokedBy[k] = "no" /\ overlap[k] = "none"

(* Rotate and emergency-revoke lock the row and check it.                    *)
LockKey(a, k, op) ==
    /\ admin[a] = Idle /\ k \in Rows /\ ~Locked(k)
    /\ Actionable(k) /\ keyCount < MaxKeys
    /\ admin' = [admin EXCEPT ![a] = [at |-> "locked", key |-> k, op |-> op]]
    /\ UNCHANGED <<keys, deactivated, revoker, alerter, orgRevocation, keyUse, keyUses,
                   audits, overlapAlerts, anomalies, lateKeys>>

(* rotateApiKey: the successor, and the overlap of the old key.              *)
RotateKey(a) ==
    /\ admin[a].at = "locked" /\ admin[a].op = "rotate"
    /\ InsertKey(admin[a].key)
    /\ overlap' = [overlap EXCEPT ![admin[a].key] = "ahead"]
    /\ admin' = [admin EXCEPT ![a] = Idle]
    /\ UNCHANGED <<revokedBy, expiry, alerted, everUsed, deactivated, revoker, alerter,
                   orgRevocation, keyUse, keyUses, audits, overlapAlerts, anomalies>>

(* emergencyRevokeApiKey: revoke and replace in one transaction.             *)
EmergencyRevoke(a) ==
    /\ admin[a].at = "locked" /\ admin[a].op = "emergency"
    /\ RevokeAs({admin[a].key}, "emergency")
    /\ InsertKey(admin[a].key)
    /\ admin' = [admin EXCEPT ![a] = Idle]
    /\ UNCHANGED <<overlap, expiry, alerted, everUsed, deactivated, revoker, alerter,
                   orgRevocation, keyUse, keyUses, overlapAlerts, anomalies>>

(* The transaction fails, for instance at its audit entry.                   *)
AdminFails(a) ==
    /\ admin[a] # Idle
    /\ admin' = [admin EXCEPT ![a] = Idle]
    /\ UNCHANGED <<keys, deactivated, revoker, alerter, orgRevocation, keyUse, keyUses,
                   audits, overlapAlerts, anomalies, lateKeys>>

(* DELETE of a key: a conditional update that waits for the row.             *)
RevokeKey(k) ==
    /\ k \in Rows /\ ~Locked(k) /\ revokedBy[k] = "no"
    /\ RevokeAs({k}, "manual")
    /\ UNCHANGED <<keyCount, from, overlap, expiry, alerted, everUsed, deactivated,
                   work, keyUses, overlapAlerts, anomalies, lateKeys>>

(* Deactivation touches the machine user only.                               *)
Deactivate ==
    /\ ~deactivated
    /\ deactivated' = TRUE
    /\ UNCHANGED <<keys, work, keyUses, audits, overlapAlerts, anomalies, lateKeys>>

-----------------------------------------------------------------------------
\* Mutant of RevokeSelect: only keys that were announced.
RevokeSelectAlerted(j) ==
    /\ revoker[j] = {}
    /\ revoker' = [revoker EXCEPT
          ![j] = {k \in Rows : overlap[k] = "past" /\ revokedBy[k] = "no" /\ alerted[k]}]
    /\ revoker'[j] # {}
    /\ UNCHANGED <<keys, deactivated, admin, alerter, orgRevocation, keyUse, keyUses,
                   audits, overlapAlerts, anomalies, lateKeys>>

(* runMachineKeyOverlapRevokeJob selects, then revokes one key after the     *)
(* other, each if it is not revoked yet.                                     *)
RevokeSelect(j) ==
    /\ revoker[j] = {}
    /\ revoker' = [revoker EXCEPT
          ![j] = {k \in Rows : overlap[k] = "past" /\ revokedBy[k] = "no"}]
    /\ revoker'[j] # {}
    /\ UNCHANGED <<keys, deactivated, admin, alerter, orgRevocation, keyUse, keyUses,
                   audits, overlapAlerts, anomalies, lateKeys>>

RevokeClaim(j) ==
    \E k \in revoker[j] :
       /\ ~Locked(k)
       /\ revoker' = [revoker EXCEPT ![j] = @ \ {k}]
       /\ IF revokedBy[k] = "no" THEN RevokeAs({k}, "overlap")
          ELSE UNCHANGED <<revokedBy, audits>>
       /\ UNCHANGED <<keyCount, from, overlap, expiry, alerted, everUsed, deactivated,
                      admin, alerter, orgRevocation, keyUse, keyUses, overlapAlerts, anomalies, lateKeys>>

(* The transaction of one key fails: the key waits for the next run.         *)
RevokeRowFails(j) ==
    \E k \in revoker[j] :
       /\ revoker' = [revoker EXCEPT ![j] = @ \ {k}]
       /\ UNCHANGED <<keys, deactivated, admin, alerter, orgRevocation, keyUse, keyUses,
                      audits, overlapAlerts, anomalies, lateKeys>>

(* runMachineKeyOverlapAlertJob selects keys whose overlap ends within the   *)
(* hour.                                                                     *)
AlertSelect(j) ==
    /\ alerter[j] = {}
    /\ alerter' = [alerter EXCEPT
          ![j] = {k \in Rows : overlap[k] = "soon" /\ revokedBy[k] = "no" /\ ~alerted[k]}]
    /\ alerter'[j] # {}
    /\ UNCHANGED <<keys, deactivated, admin, revoker, orgRevocation, keyUse, keyUses,
                   audits, overlapAlerts, anomalies, lateKeys>>

\* Mutant of AlertClaim: the flag is set, not claimed.
AlertClaimAlways(j) ==
    \E k \in alerter[j] :
       /\ ~Locked(k)
       /\ alerter' = [alerter EXCEPT ![j] = @ \ {k}]
       /\ alerted' = [alerted EXCEPT ![k] = TRUE]
       /\ overlapAlerts' = [overlapAlerts EXCEPT ![k] = @ + 1]
       /\ UNCHANGED <<keyCount, from, revokedBy, overlap, expiry, everUsed, deactivated,
                      admin, revoker, orgRevocation, keyUse, keyUses, audits, anomalies, lateKeys>>

(* The claim of the flag and the alert, in one transaction.                  *)
AlertClaim(j) ==
    \E k \in alerter[j] :
       /\ ~Locked(k)
       /\ alerter' = [alerter EXCEPT ![j] = @ \ {k}]
       /\ alerted' = [alerted EXCEPT ![k] = TRUE]
       /\ overlapAlerts' = [overlapAlerts EXCEPT ![k] = IF alerted[k] THEN @ ELSE @ + 1]
       /\ UNCHANGED <<keyCount, from, revokedBy, overlap, expiry, everUsed, deactivated,
                      admin, revoker, orgRevocation, keyUse, keyUses, audits, anomalies, lateKeys>>

-----------------------------------------------------------------------------
(* revokeAllSessionsForOrg: the update of api_keys sees the rows committed   *)
(* when it starts and waits for those that are locked.                       *)
BulkScan ==
    /\ orgRevocation = Idle
    /\ orgRevocation' = [at |-> "scan", keys |-> {k \in Rows : revokedBy[k] = "no"}]
    /\ UNCHANGED <<keys, deactivated, admin, revoker, alerter, keyUse, keyUses,
                   audits, overlapAlerts, anomalies, lateKeys>>

RevokeOrgKeys ==
    /\ orgRevocation.at = "scan" /\ \A k \in orgRevocation.keys : ~Locked(k)
    /\ RevokeAs({k \in orgRevocation.keys : revokedBy[k] = "no"}, "bulk")
    /\ orgRevocation' = [at |-> "done"]
    /\ UNCHANGED <<keyCount, from, overlap, expiry, alerted, everUsed, deactivated,
                   admin, revoker, alerter, keyUse, keyUses, overlapAlerts, anomalies, lateKeys>>

-----------------------------------------------------------------------------
(* isMachineKeyLive.                                                         *)
LiveKeys(k) == revokedBy[k] = "no" /\ ~deactivated /\ expiry[k] # "past"

(* POST /machine-token: the lookup and the check, then the touch of          *)
(* last_used_at with checkRotationAnomaly, which may fail silently.          *)
ExchangeLookup(k) ==
    /\ keyUse = Idle /\ keyUses < MaxKeyUses
    /\ k \in Rows /\ LiveKeys(k)
    /\ keyUse' = [at |-> "checked", key |-> k] /\ keyUses' = keyUses + 1
    /\ UNCHANGED <<keys, deactivated, admin, revoker, alerter, orgRevocation, audits,
                   overlapAlerts, anomalies, lateKeys>>

Adopted(k) == \E s \in Rows : from[s] = k /\ everUsed[s]

ExchangeFinish ==
    /\ keyUse.at = "checked"
    /\ everUsed' = [everUsed EXCEPT ![keyUse.key] = TRUE]
    /\ anomalies' \in {anomalies} \cup
          {anomalies \cup {k} : k \in {x \in {keyUse.key} : Adopted(x)}}
    /\ keyUse' = Idle
    /\ UNCHANGED <<keyCount, from, revokedBy, overlap, expiry, alerted, deactivated,
                   admin, revoker, alerter, orgRevocation, keyUses, audits, overlapAlerts, lateKeys>>

(* Time: an overlap comes within the hour of its end, then ends.             *)
Later(k) ==
    /\ k \in Rows
    /\ \/ /\ overlap[k] \in {"ahead", "soon"}
          /\ overlap' = [overlap EXCEPT ![k] = IF @ = "ahead" THEN "soon" ELSE "past"]
          /\ UNCHANGED expiry
       \/ /\ expiry[k] = "ahead"
          /\ expiry' = [expiry EXCEPT ![k] = "past"]
          /\ UNCHANGED overlap
    /\ UNCHANGED <<keyCount, from, revokedBy, alerted, everUsed, deactivated, work, keyUses,
                   audits, overlapAlerts, anomalies, lateKeys>>

MachineNext ==
    \/ \E a \in Admins :
         \/ IssueRead(a) \/ Issue(a) \/ RotateKey(a) \/ EmergencyRevoke(a) \/ AdminFails(a)
         \/ \E k \in Keys, op \in {"rotate", "emergency"} : LockKey(a, k, op)
    \/ \E k \in Keys : RevokeKey(k) \/ ExchangeLookup(k) \/ Later(k)
    \/ \E j \in Jobs : RevokeSelect(j) \/ RevokeClaim(j) \/ RevokeRowFails(j)
                       \/ AlertSelect(j) \/ AlertClaim(j)
    \/ Deactivate \/ BulkScan \/ RevokeOrgKeys \/ ExchangeFinish

MachineSpec == MachineInit /\ [][MachineNext]_machineVars

(* The worker runs every five minutes and a row that failed is tried again;  *)
(* its update waits for a transaction that holds the row, which ends.        *)
MachineFairness ==
    /\ \A j \in Jobs : WF_machineVars(RevokeSelect(j)) /\ SF_machineVars(RevokeClaim(j))
    /\ \A a \in Admins : WF_machineVars(AdminFails(a))
    /\ \A k \in Keys : WF_machineVars(Later(k))

-----------------------------------------------------------------------------
Causes == {"manual", "overlap", "emergency", "bulk"}

(* The variables keep their types: columns of api_keys and machine_users.    *)
MachineTypeOK ==
    /\ keyCount \in Keys /\ from \in [Keys -> 0 .. MaxKeys]
    /\ revokedBy \in [Keys -> Causes \cup {"no"}]
    /\ overlap \in [Keys -> {"none", "ahead", "soon", "past"}]
    /\ expiry \in [Keys -> {"never", "ahead", "past"}]
    /\ alerted \in [Keys -> BOOLEAN] /\ everUsed \in [Keys -> BOOLEAN]
    /\ \A k \in Keys : k > keyCount => revokedBy[k] = "no" /\ from[k] = 0
    /\ \A k \in Rows : from[k] < k

(* A key has one successor, however many administrators rotate or replace it *)
(* at once: a second one would be issued without a trace of the first        *)
(* (lockAndRejectIfRevoked under the row lock).                              *)
OneSuccessor == \A k, s \in Rows : from[k] = from[s] /\ from[k] # 0 => k = s

(* Of a manual revocation, the worker, an emergency and the organization's   *)
(* revocation on the same key exactly one takes effect and is audited, and a *)
(* revoked key stays revoked for that cause.                                 *)
RevokedOnce == \A k \in Rows : audits[k] = (IF revokedBy[k] = "no" THEN 0 ELSE 1)

(* Rotation and emergency revocation never leave the machine user without a  *)
(* key: unless a key was revoked by hand or for the organization, some key   *)
(* is not revoked (rotateApiKey, emergencyRevokeApiKey and the worker).      *)
ZeroDowntime ==
    (\A k \in Rows : revokedBy[k] \notin {"manual", "bulk"}) =>
        \E k \in Rows : revokedBy[k] = "no"

(* The worker only revokes keys that were replaced and whose window is over, *)
(* also when its selection is old.                                           *)
AutoRevokedWasReplaced ==
    \A k \in Rows : revokedBy[k] = "overlap" =>
        overlap[k] = "past" /\ \E s \in Rows : from[s] = k

(* Overlapping runs of the alert job send one alert for a key.               *)
AlertedOnce == \A k \in Rows : overlapAlerts[k] <= 1

\* The keys of a machine user under concurrent administrators and worker runs: one
\* successor, one revocation and one alert per key, and nothing revoked for its
\* age without a replacement.
MachineSafe ==
    /\ MachineTypeOK
    /\ OneSuccessor
    /\ RevokedOnce
    /\ ZeroDowntime
    /\ AutoRevokedWasReplaced
    /\ AlertedOnce

(* A rotated key stops working in the end: its window ends and the worker    *)
(* revokes it, in spite of rows that fail.                                   *)
OverlapEnds == \A k \in Keys : overlap[k] # "none" ~> revokedBy[k] # "no"

(* session-revoke.ts: every active key of the organization is revoked, so    *)
(* after the revocation a key that descends from one it saw is not live.     *)
BulkReachesAll ==
    orgRevocation.at = "done" => \A s \in Rows :
        from[s] # 0 /\ revokedBy[from[s]] = "bulk" => revokedBy[s] # "no"

(* docs/machine-users.md: deactivation blocks new key issuance.              *)
NoKeyAfterDeactivation == lateKeys = {}
=============================================================================
