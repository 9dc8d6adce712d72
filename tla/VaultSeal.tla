----------------------------- MODULE VaultSeal -----------------------------
(***************************************************************************)
(* The vault's seal state and its four derived keys.  The single API        *)
(* process keeps the status and the keys in module variables of             *)
(* key-service.ts; the database keeps one vault_state row whose sentinel    *)
(* only the right primary key decrypts.  Concurrent init and unseal         *)
(* requests run up to their next await in turn; committing keys fires a     *)
(* hook that starts pg-boss and registers the workers (main.ts).  The       *)
(* process may be shut down, may fault or be killed at any point, and       *)
(* starts again sealed.  A derivation is the pair of the credential and the *)
(* salt (or wrapped data key) made by the init request that stored it.      *)
(***************************************************************************)
EXTENDS Naturals

CONSTANTS
    VaultRequests, \* init and unseal requests
    Credentials,   \* passphrases or key files a caller may present
    MaxRestarts    \* bound on process starts after the first

ASSUME VaultAssumption == MaxRestarts \in Nat

VARIABLES
    vaultRow,      \* vault_state: the derivation whose sentinel is stored
    process,       \* "up", "closing", "exited" (zeroed on purpose) or "killed"
    vaultStatus,   \* _status
    vaultKeys,     \* _primaryKey, _auditKey, _backupKey, _platformAuditKey
    vaultPhase,    \* where each request is waiting
    derived,       \* the derivation each request holds
    answer,        \* what each request answered
    committed,     \* requests that committed their keys
    boss,          \* BossService.#boss: the request whose client it holds
    registered,    \* bossRegistered
    registrations, \* how often this process registered the workers
    restarts

vaultVars == <<vaultRow, process, vaultStatus, vaultKeys, vaultPhase, derived, answer,
               committed, boss, registered, registrations, restarts>>

KeyNames == {"primary", "audit", "backup", "platformAudit"}
NoDerivation == [cred |-> "none"]
NoBoss == "no boss"
Derivation == [cred : Credentials, salt : VaultRequests]
VaultPhases == {"new", "initInsert", "initCommit", "unsealRead", "unsealCheck",
                "hook", "bossStarting", "registering", "done"}
Answers == {"none", "ok", "refused", "error", "lost"}

\* One type invariant for the module.
VaultTypeOK ==
    /\ vaultRow \in Derivation \cup {NoDerivation}
    /\ process \in {"up", "closing", "exited", "killed"}
    /\ vaultStatus \in {"uninitialized", "sealed", "unsealed"}
    /\ vaultKeys \in [KeyNames -> Derivation \cup {NoDerivation}]
    /\ vaultPhase \in [VaultRequests -> VaultPhases]
    /\ derived \in [VaultRequests -> Derivation \cup {NoDerivation}]
    /\ answer \in [VaultRequests -> Answers]
    /\ committed \subseteq VaultRequests
    /\ boss \in VaultRequests \cup {NoBoss}
    /\ registered \in BOOLEAN
    /\ registrations \in Nat
    /\ restarts \in 0..MaxRestarts

NoKeys == [k \in KeyNames |-> NoDerivation]

\* loadInitialVaultState on an empty database, before any request.
VaultInit ==
    /\ vaultRow = NoDerivation
    /\ process = "up"
    /\ vaultStatus = "uninitialized"
    /\ vaultKeys = NoKeys
    /\ vaultPhase = [r \in VaultRequests |-> "new"]
    /\ derived = [r \in VaultRequests |-> NoDerivation]
    /\ answer = [r \in VaultRequests |-> "none"]
    /\ committed = {}
    /\ boss = NoBoss
    /\ registered = FALSE
    /\ registrations = 0
    /\ restarts = 0

\* The process still runs its event loop: a closing one finishes what it serves.
Running == process \in {"up", "closing"}

\* Request r ends with answer a.
Ends(r, a) ==
    /\ vaultPhase' = [vaultPhase EXCEPT ![r] = "done"]
    /\ answer' = [answer EXCEPT ![r] = a]

Memory == <<vaultStatus, vaultKeys, committed>>
Boss == <<boss, registered, registrations>>

-----------------------------------------------------------------------------
(* Init and unseal *)

\* Init: an existing row refuses; otherwise the keys are derived, or deriving
\* fails.  The existence check is only a fast path.
InitStart(r, c) ==
    /\ process = "up" /\ vaultPhase[r] = "new"
    /\ \/ /\ vaultRow # NoDerivation
          /\ Ends(r, "refused")
          /\ UNCHANGED derived
       \/ /\ vaultRow = NoDerivation
          /\ vaultPhase' = [vaultPhase EXCEPT ![r] = "initInsert"]
          /\ derived' = [derived EXCEPT ![r] = [cred |-> c, salt |-> r]]
          /\ UNCHANGED answer
       \/ /\ vaultRow = NoDerivation
          /\ Ends(r, "error")
          /\ UNCHANGED derived
    /\ UNCHANGED <<vaultRow, process, Memory, Boss, restarts>>

\* The sentinel row is inserted ON CONFLICT DO NOTHING: the loser drops its keys.
InitInsert(r) ==
    /\ Running /\ vaultPhase[r] = "initInsert"
    /\ IF vaultRow = NoDerivation
       THEN /\ vaultRow' = derived[r]
            /\ vaultPhase' = [vaultPhase EXCEPT ![r] = "initCommit"]
            /\ UNCHANGED <<derived, answer>>
       ELSE /\ Ends(r, "refused")
            /\ derived' = [derived EXCEPT ![r] = NoDerivation]
            /\ UNCHANGED vaultRow
    /\ UNCHANGED <<process, Memory, Boss, restarts>>

\* The insert fails in the database: the derived keys are dropped.
InitInsertFails(r) ==
    /\ Running /\ vaultPhase[r] = "initInsert"
    /\ Ends(r, "error")
    /\ derived' = [derived EXCEPT ![r] = NoDerivation]
    /\ UNCHANGED <<vaultRow, process, Memory, Boss, restarts>>

\* commitUnsealedKeys up to its await: all four keys are replaced, the former
\* buffers zeroed, and the status flips before the hook is called.
Commit(r) ==
    /\ vaultKeys' = [k \in KeyNames |-> derived[r]]
    /\ vaultStatus' = "unsealed"
    /\ committed' = committed \cup {r}
    /\ vaultPhase' = [vaultPhase EXCEPT ![r] = "hook"]

\* The init request that stored the row commits its keys.
InitCommit(r) ==
    /\ Running /\ vaultPhase[r] = "initCommit"
    /\ Commit(r)
    /\ UNCHANGED <<vaultRow, process, derived, answer, Boss, restarts>>

\* Unseal: refused when already unsealed, otherwise the row is read.
UnsealStart(r) ==
    /\ process = "up" /\ vaultPhase[r] = "new"
    /\ IF vaultStatus = "unsealed"
       THEN Ends(r, "refused")
       ELSE /\ vaultPhase' = [vaultPhase EXCEPT ![r] = "unsealRead"]
            /\ UNCHANGED answer
    /\ UNCHANGED <<vaultRow, process, Memory, derived, Boss, restarts>>

\* Without a row there is nothing to unseal; with one the keys are derived
\* from the presented credential and the stored salt, or deriving fails.
UnsealRead(r, c) ==
    /\ Running /\ vaultPhase[r] = "unsealRead"
    /\ \/ /\ vaultRow # NoDerivation
          /\ derived' = [derived EXCEPT ![r] = [cred |-> c, salt |-> vaultRow.salt]]
          /\ vaultPhase' = [vaultPhase EXCEPT ![r] = "unsealCheck"]
          /\ UNCHANGED answer
       \/ /\ Ends(r, "refused")
          /\ UNCHANGED derived
    /\ UNCHANGED <<vaultRow, process, Memory, Boss, restarts>>

\* Mutant of UnsealCheck: the sentinel is not compared.
UnsealCheckAny(r) ==
    /\ Running /\ vaultPhase[r] = "unsealCheck"
    /\ Commit(r)
    /\ UNCHANGED <<vaultRow, process, derived, answer, Boss, restarts>>

\* Mutant of UnsealCheck: a failed unseal clears the cached keys and seals.
UnsealCheckReseals(r) ==
    /\ Running /\ vaultPhase[r] = "unsealCheck"
    /\ IF derived[r] = vaultRow
       THEN Commit(r) /\ UNCHANGED <<derived, answer>>
       ELSE /\ Ends(r, "refused")
            /\ derived' = [derived EXCEPT ![r] = NoDerivation]
            /\ vaultKeys' = NoKeys
            /\ vaultStatus' = "sealed"
            /\ UNCHANGED committed
    /\ UNCHANGED <<vaultRow, process, Boss, restarts>>

\* The sentinel decrypts under the derived primary key, and the keys are
\* committed without looking at the status again; or it does not, and only
\* this request's keys are zeroed.
UnsealCheck(r) ==
    /\ Running /\ vaultPhase[r] = "unsealCheck"
    /\ IF derived[r] = vaultRow
       THEN Commit(r) /\ UNCHANGED <<derived, answer>>
       ELSE /\ Ends(r, "refused")
            /\ derived' = [derived EXCEPT ![r] = NoDerivation]
            /\ UNCHANGED Memory
    /\ UNCHANGED <<vaultRow, process, Boss, restarts>>

-----------------------------------------------------------------------------
(* The hook: startBossAndRegisterWorkers *)

\* After boss.start: registered workers end the hook, others are registered.
AfterStart(r) ==
    IF registered
    THEN Ends(r, "ok")
    ELSE /\ vaultPhase' = [vaultPhase EXCEPT ![r] = "registering"]
         /\ UNCHANGED answer

\* Mutant of HookStart: a started client is taken to mean registered workers.
HookStartTrustsBoss(r) ==
    /\ Running /\ vaultPhase[r] = "hook"
    /\ IF boss # NoBoss
       THEN Ends(r, "ok")
       ELSE /\ vaultPhase' = [vaultPhase EXCEPT ![r] = "bossStarting"]
            /\ UNCHANGED answer
    /\ UNCHANGED <<vaultRow, process, Memory, derived, Boss, restarts>>

\* A started client is kept; otherwise one is made and its start awaited.
HookStart(r) ==
    /\ Running /\ vaultPhase[r] = "hook"
    /\ IF boss # NoBoss
       THEN AfterStart(r)
       ELSE /\ vaultPhase' = [vaultPhase EXCEPT ![r] = "bossStarting"]
            /\ UNCHANGED answer
    /\ UNCHANGED <<vaultRow, process, Memory, derived, Boss, restarts>>

\* The awaited start stores this client over whatever is there.
BossStarted(r) ==
    /\ Running /\ vaultPhase[r] = "bossStarting"
    /\ boss' = r
    /\ AfterStart(r)
    /\ UNCHANGED <<vaultRow, process, Memory, derived, registered, registrations, restarts>>

\* Stale backups are reconciled, schedules and workers registered, the
\* startup jobs sent; only then is the flag set.
WorkersRegistered(r) ==
    /\ Running /\ vaultPhase[r] = "registering"
    /\ registered' = TRUE
    /\ registrations' = registrations + 1
    /\ Ends(r, "ok")
    /\ UNCHANGED <<vaultRow, process, Memory, derived, boss, restarts>>

\* A step of the hook throws: the request fails, the keys stay committed.
HookFails(r) ==
    /\ Running /\ vaultPhase[r] \in {"bossStarting", "registering"}
    /\ Ends(r, "error")
    /\ UNCHANGED <<vaultRow, process, Memory, derived, Boss, restarts>>

-----------------------------------------------------------------------------
(* Sealing, shutdown and restart *)

\* zeroKeys: every key is zeroed and dropped, the vault is sealed.
ZeroKeys ==
    /\ vaultKeys' = NoKeys
    /\ vaultStatus' = "sealed"

\* A completed restore seals the vault of the running process.
RestoreSeals ==
    /\ process = "up" /\ vaultStatus = "unsealed"
    /\ ZeroKeys
    /\ UNCHANGED <<vaultRow, process, vaultPhase, derived, answer, committed, Boss, restarts>>

\* A signal, or a fatal fault: keys are zeroed first, then the server closes.
Shutdown ==
    /\ process = "up"
    /\ process' = "closing"
    /\ ZeroKeys
    /\ UNCHANGED <<vaultRow, vaultPhase, derived, answer, committed, Boss, restarts>>

\* The server has finished its requests, boss.stop has run, the process exits.
Exit ==
    /\ process = "closing"
    /\ \A r \in VaultRequests : vaultPhase[r] \in {"new", "done"}
    /\ process' = "exited"
    /\ boss' = NoBoss
    /\ UNCHANGED <<vaultRow, Memory, vaultPhase, derived, answer, registered, registrations, restarts>>

\* Closing fails: the keys are zeroed once more before the exit.
ShutdownFails ==
    /\ process = "closing"
    /\ process' = "exited"
    /\ ZeroKeys
    /\ UNCHANGED <<vaultRow, vaultPhase, derived, answer, committed, Boss, restarts>>

\* The process is killed (out of memory, power).
Kill ==
    /\ Running
    /\ process' = "killed"
    /\ UNCHANGED <<vaultRow, Memory, vaultPhase, derived, answer, Boss, restarts>>

\* A new process: loadInitialVaultState reads the row, nothing is in memory and
\* the requests of the former process are gone.
RestartProcess ==
    /\ process \in {"exited", "killed"} /\ restarts < MaxRestarts
    /\ process' = "up"
    /\ restarts' = restarts + 1
    /\ vaultStatus' = IF vaultRow = NoDerivation THEN "uninitialized" ELSE "sealed"
    /\ vaultKeys' = NoKeys
    /\ vaultPhase' = [r \in VaultRequests |-> IF vaultPhase[r] = "new" THEN "new" ELSE "done"]
    /\ answer' = [r \in VaultRequests |-> IF vaultPhase[r] \in {"new", "done"} THEN answer[r] ELSE "lost"]
    /\ derived' = [r \in VaultRequests |-> NoDerivation]
    /\ boss' = NoBoss
    /\ registered' = FALSE
    /\ registrations' = 0
    /\ UNCHANGED <<vaultRow, committed>>

VaultNext ==
    \/ \E r \in VaultRequests, c \in Credentials : InitStart(r, c) \/ UnsealRead(r, c)
    \/ \E r \in VaultRequests :
          \/ InitInsert(r) \/ InitInsertFails(r) \/ InitCommit(r)
          \/ UnsealStart(r) \/ UnsealCheck(r)
          \/ HookStart(r) \/ BossStarted(r) \/ WorkersRegistered(r) \/ HookFails(r)
    \/ RestoreSeals \/ Shutdown \/ Exit \/ ShutdownFails \/ Kill \/ RestartProcess

VaultSpec == VaultInit /\ [][VaultNext]_vaultVars

\* A request in flight is answered by its own continuation.
Progress(r) ==
    \/ \E c \in Credentials : UnsealRead(r, c)
    \/ InitInsert(r) \/ InitCommit(r) \/ UnsealCheck(r)
    \/ HookStart(r) \/ BossStarted(r) \/ WorkersRegistered(r)
VaultFairness == \A r \in VaultRequests : WF_vaultVars(Progress(r))

-----------------------------------------------------------------------------
(* Properties *)

\* While the process is unsealed, all four cached keys are the ones whose
\* sentinel is stored: no wrong credential, losing init or half-replaced set
\* of keys is ever used to encrypt or sign.
KeysMatchRow ==
    Running /\ vaultStatus = "unsealed" => vaultRow # NoDerivation /\ \A k \in KeyNames : vaultKeys[k] = vaultRow

\* A process that does not report itself unsealed holds no key, whatever was
\* in flight when it was sealed.
SealedHoldsNoKey == Running /\ vaultStatus # "unsealed" => vaultKeys = NoKeys

\* The keys in memory are the ones of the stored row, and a process that says it is
\* sealed holds none (initVault, unsealVault, zeroKeys).
VaultSafe ==
    /\ VaultTypeOK
    /\ KeysMatchRow
    /\ SealedHoldsNoKey

\* An unseal that is refused disturbs neither the status nor the keys, also
\* when another unseal has committed meanwhile.
RefusalHarmless ==
    [][\A r \in VaultRequests :
         (answer[r] = "none" /\ answer'[r] = "refused") => UNCHANGED <<vaultStatus, vaultKeys, vaultRow>>]_vaultVars

\* The hook of every commit ends with the workers registered or reports its
\* failure: an unseal that follows a failed hook tries the registration again.
HookRegistersOrFails ==
    \A r \in VaultRequests :
        (vaultPhase[r] = "hook") ~> (registered \/ answer[r] = "error" \/ ~Running)

\* Documentation: an unseal either succeeds or leaves the vault sealed exactly
\* as it was, so a request that failed did not commit keys.
UnsealAllOrNothing == \A r \in committed : answer[r] # "error"

\* Comment in main.ts: the registration runs once per process lifetime.
RegisteredOnce == registrations <= 1

\* Comment in key-service.ts: the keys in memory are zeroed before the exit.
NoKeysAtExit == process = "exited" => vaultKeys = NoKeys
=============================================================================
