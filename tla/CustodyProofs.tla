---------------------------- MODULE CustodyProofs ----------------------------
(***************************************************************************)
(* Proofs about VaultSeal (the seal state and the derived keys) and        *)
(* MachineKeys (the API keys of a machine user).  Each module gets one     *)
(* inductive invariant, a lemma that every step keeps it, and the theorems *)
(* that follow from it.                                                    *)
(***************************************************************************)
EXTENDS VaultSeal, MachineKeys, TLAPS

-----------------------------------------------------------------------------
(* VaultSeal: the strengthening of VaultSafe. *)

\* A request that waits between deriving its keys and using them holds a
\* derivation, and the init request that stored the row holds the row's own.
\* Rows are never replaced, so this survives whatever the others do.
HeldKeysMatch ==
  \A r \in VaultRequests :
    /\ vaultPhase[r] \in {"initInsert", "unsealCheck"} => derived[r] \in Derivation
    /\ vaultPhase[r] = "initCommit" => derived[r] = vaultRow /\ vaultRow \in Derivation

VaultInd == VaultSafe /\ HeldKeysMatch

\* A derivation has a salt, NoDerivation has none.
LEMMA DerivationFacts ==
  /\ NoDerivation \notin Derivation
  /\ \A d \in Derivation : d.salt \in VaultRequests
  /\ \A c \in Credentials, r \in VaultRequests : [cred |-> c, salt |-> r] \in Derivation
BY DEF NoDerivation, Derivation

\* A sealed process's keys are of their type.
LEMMA NoKeysFacts ==
  /\ NoKeys \in [KeyNames -> Derivation \cup {NoDerivation}]
  /\ \A k \in KeyNames : NoKeys[k] = NoDerivation
BY DEF NoKeys

\* An empty database satisfies the invariant.
LEMMA VaultInitInd == VaultInit => VaultInd
<1> SUFFICES ASSUME VaultInit PROVE VaultInd
  OBVIOUS
<1>1. VaultTypeOK
  <2>1. /\ vaultPhase \in [VaultRequests -> VaultPhases]
        /\ answer \in [VaultRequests -> Answers]
        /\ derived \in [VaultRequests -> Derivation \cup {NoDerivation}]
    BY DEF VaultInit, VaultPhases, Answers
  <2>2. restarts \in 0 .. MaxRestarts /\ registrations \in Nat
    BY VaultAssumption DEF VaultInit
  <2>3. registered \in BOOLEAN /\ boss \in VaultRequests \cup {NoBoss}
    BY Zenon DEF VaultInit
  <2> QED  BY <2>1, <2>2, <2>3, NoKeysFacts DEF VaultInit, VaultTypeOK
<1>2. KeysMatchRow /\ SealedHoldsNoKey /\ HeldKeysMatch
  BY DEF VaultInit, KeysMatchRow, SealedHoldsNoKey, HeldKeysMatch
<1> QED  BY <1>1, <1>2 DEF VaultInd, VaultSafe

\* Every step of the vault keeps the invariant.
LEMMA VaultPreserved ==
  ASSUME VaultInd, [VaultNext]_vaultVars
  PROVE  VaultInd'
<1>1. VaultTypeOK /\ KeysMatchRow /\ SealedHoldsNoKey /\ HeldKeysMatch
  BY DEF VaultInd, VaultSafe
<1>2. ASSUME NEW r \in VaultRequests, NEW c \in Credentials, InitStart(r, c)
      PROVE  VaultInd'
  <2>1. VaultTypeOK'
    <3>1. [cred |-> c, salt |-> r] \in Derivation
      BY DerivationFacts
    <3>2. derived' \in [VaultRequests -> Derivation \cup {NoDerivation}]
      BY <1>1, <1>2, <3>1 DEF InitStart, VaultTypeOK
    <3>3. /\ vaultPhase' \in [VaultRequests -> VaultPhases]
          /\ answer' \in [VaultRequests -> Answers]
      BY <1>1, <1>2 DEF InitStart, Ends, VaultTypeOK, VaultPhases, Answers
    <3> QED  BY <1>1, <1>2, <3>2, <3>3 DEF InitStart, VaultTypeOK, Memory, Boss
  <2>2. HeldKeysMatch'
    <3>1. [cred |-> c, salt |-> r] \in Derivation
      BY DerivationFacts
    <3>2. vaultRow' = vaultRow /\ \A q \in VaultRequests \ {r} :
            vaultPhase'[q] = vaultPhase[q] /\ derived'[q] = derived[q]
      BY <1>1, <1>2 DEF InitStart, Ends, VaultTypeOK
    <3>3. vaultPhase'[r] = "done" \/ (vaultPhase'[r] = "initInsert" /\ derived'[r] \in Derivation)
      BY <1>1, <1>2, <3>1 DEF InitStart, Ends, VaultTypeOK
    <3> QED  BY <1>1, <3>2, <3>3 DEF HeldKeysMatch
  <2>3. KeysMatchRow' /\ SealedHoldsNoKey'
    BY <1>1, <1>2
       DEF InitStart, Boss, Ends, Memory, KeysMatchRow, KeyNames, Running,
           SealedHoldsNoKey
  <2> QED  BY <2>1, <2>2, <2>3
              DEF VaultInd, VaultSafe
<1>3. ASSUME NEW r \in VaultRequests, NEW c \in Credentials, UnsealRead(r, c)
      PROVE  VaultInd'
  <2>1. VaultTypeOK'
    <3>1. vaultRow # NoDerivation => [cred |-> c, salt |-> vaultRow.salt] \in Derivation
      BY <1>1, DerivationFacts DEF VaultTypeOK
    <3>2. derived' \in [VaultRequests -> Derivation \cup {NoDerivation}]
      BY <1>1, <1>3, <3>1 DEF UnsealRead, VaultTypeOK
    <3>3. /\ vaultPhase' \in [VaultRequests -> VaultPhases]
          /\ answer' \in [VaultRequests -> Answers]
      BY <1>1, <1>3 DEF UnsealRead, Ends, VaultTypeOK, VaultPhases, Answers
    <3> QED  BY <1>1, <1>3, <3>2, <3>3 DEF UnsealRead, VaultTypeOK, Memory, Boss
  <2>2. HeldKeysMatch'
    <3>1. vaultRow # NoDerivation => [cred |-> c, salt |-> vaultRow.salt] \in Derivation
      BY <1>1, DerivationFacts DEF VaultTypeOK
    <3>2. vaultRow' = vaultRow /\ \A q \in VaultRequests \ {r} :
            vaultPhase'[q] = vaultPhase[q] /\ derived'[q] = derived[q]
      BY <1>1, <1>3 DEF UnsealRead, Ends, VaultTypeOK
    <3>3. vaultPhase'[r] = "done" \/ (vaultPhase'[r] = "unsealCheck" /\ derived'[r] \in Derivation)
      BY <1>1, <1>3, <3>1 DEF UnsealRead, Ends, VaultTypeOK
    <3> QED  BY <1>1, <3>2, <3>3 DEF HeldKeysMatch
  <2>3. KeysMatchRow' /\ SealedHoldsNoKey'
    BY <1>1, <1>3
       DEF UnsealRead, Boss, Ends, Memory, Running, KeysMatchRow, KeyNames,
           SealedHoldsNoKey
  <2> QED  BY <2>1, <2>2, <2>3
              DEF VaultInd, VaultSafe
<1>4. ASSUME NEW r \in VaultRequests, InitInsert(r)
      PROVE  VaultInd'
  <2>1. VaultTypeOK'
    BY <1>1, <1>4, DerivationFacts, NoKeysFacts
       DEF InitInsert, Boss, Ends, Memory, Running, VaultTypeOK, Answers,
           KeyNames, NoBoss, VaultPhases, HeldKeysMatch
  <2>2. KeysMatchRow'
    BY <1>1, <1>4, DerivationFacts, NoKeysFacts
       DEF InitInsert, Boss, Ends, Memory, Running, KeysMatchRow, KeyNames,
           VaultTypeOK, Answers, NoBoss, VaultPhases, HeldKeysMatch
  <2>3. HeldKeysMatch'
    BY <1>1, <1>4, DerivationFacts, NoKeysFacts, ZenonT(30)
       DEF InitInsert, Boss, Ends, Memory, Running, HeldKeysMatch,
           VaultTypeOK, Answers, KeyNames, NoBoss, VaultPhases
  <2>4. SealedHoldsNoKey'
    BY <1>1, <1>4
       DEF InitInsert, Boss, Ends, Memory, Running, SealedHoldsNoKey
  <2> QED  BY <2>1, <2>2, <2>3, <2>4
              DEF VaultInd, VaultSafe
<1>5. ASSUME NEW r \in VaultRequests, InitInsertFails(r)
      PROVE  VaultInd'
  <2>1. VaultTypeOK'
    BY <1>1, <1>5, DerivationFacts, NoKeysFacts
       DEF InitInsertFails, Boss, Ends, Memory, Running, VaultTypeOK,
           Answers, KeyNames, NoBoss, VaultPhases, HeldKeysMatch
  <2>2. HeldKeysMatch'
    BY <1>1, <1>5, DerivationFacts, NoKeysFacts
       DEF InitInsertFails, Boss, Ends, Memory, Running, HeldKeysMatch,
           VaultTypeOK, Answers, KeyNames, NoBoss, VaultPhases
  <2>3. KeysMatchRow' /\ SealedHoldsNoKey'
    BY <1>1, <1>5
       DEF InitInsertFails, Boss, Ends, Memory, Running, KeysMatchRow,
           KeyNames, SealedHoldsNoKey
  <2> QED  BY <2>1, <2>2, <2>3
              DEF VaultInd, VaultSafe
<1>6. ASSUME NEW r \in VaultRequests, InitCommit(r)
      PROVE  VaultInd'
  <2>1. VaultTypeOK'
    BY <1>1, <1>6, DerivationFacts, NoKeysFacts
       DEF InitCommit, Boss, Commit, KeyNames, Running, VaultTypeOK, Answers,
           NoBoss, VaultPhases, HeldKeysMatch
  <2>2. KeysMatchRow'
    BY <1>1, <1>6, DerivationFacts, NoKeysFacts
       DEF InitCommit, Boss, Commit, KeyNames, Running, KeysMatchRow,
           VaultTypeOK, Answers, NoBoss, VaultPhases, HeldKeysMatch
  <2>3. SealedHoldsNoKey'
    BY <1>1, <1>6, DerivationFacts, NoKeysFacts
       DEF InitCommit, Boss, Commit, KeyNames, Running, SealedHoldsNoKey,
           VaultTypeOK, Answers, NoBoss, VaultPhases
  <2>4. HeldKeysMatch'
    BY <1>1, <1>6, DerivationFacts, NoKeysFacts
       DEF InitCommit, Boss, Commit, KeyNames, Running, HeldKeysMatch,
           VaultTypeOK, Answers, NoBoss, VaultPhases
  <2> QED  BY <2>1, <2>2, <2>3, <2>4
              DEF VaultInd, VaultSafe
<1>7. ASSUME NEW r \in VaultRequests, UnsealStart(r)
      PROVE  VaultInd'
  <2>1. VaultTypeOK'
    BY <1>1, <1>7, DerivationFacts, NoKeysFacts
       DEF UnsealStart, Boss, Ends, Memory, VaultTypeOK, Answers, KeyNames,
           NoBoss, VaultPhases, HeldKeysMatch
  <2>2. HeldKeysMatch'
    BY <1>1, <1>7, DerivationFacts, NoKeysFacts
       DEF UnsealStart, Boss, Ends, Memory, HeldKeysMatch, VaultTypeOK,
           Answers, KeyNames, NoBoss, VaultPhases
  <2>3. KeysMatchRow' /\ SealedHoldsNoKey'
    BY <1>1, <1>7
       DEF UnsealStart, Boss, Ends, Memory, KeysMatchRow, KeyNames, Running,
           SealedHoldsNoKey
  <2> QED  BY <2>1, <2>2, <2>3
              DEF VaultInd, VaultSafe
<1>8. ASSUME NEW r \in VaultRequests, UnsealCheck(r)
      PROVE  VaultInd'
  <2>1. VaultTypeOK'
    BY <1>1, <1>8, DerivationFacts, NoKeysFacts, ZenonT(30)
       DEF UnsealCheck, Boss, Commit, KeyNames, Ends, Memory, Running,
           VaultTypeOK, Answers, NoBoss, VaultPhases, HeldKeysMatch
  <2>2. KeysMatchRow'
    <3>1. CASE derived[r] = vaultRow
      <4>1. vaultRow \in Derivation
        BY <1>1, <1>8, <3>1 DEF UnsealCheck, HeldKeysMatch
      <4>2. vaultRow' = vaultRow /\ vaultKeys' = [k \in KeyNames |-> vaultRow]
        BY <1>8, <3>1 DEF UnsealCheck, Commit
      <4> QED  BY <4>1, <4>2, DerivationFacts DEF KeysMatchRow
    <3>2. CASE derived[r] # vaultRow
      BY <1>1, <1>8, <3>2 DEF UnsealCheck, KeysMatchRow, Running, Memory
    <3> QED  BY <3>1, <3>2
  <2>3. SealedHoldsNoKey'
    BY <1>1, <1>8, DerivationFacts, NoKeysFacts
       DEF UnsealCheck, Boss, Commit, KeyNames, Ends, Memory, Running,
           SealedHoldsNoKey, VaultTypeOK, Answers, NoBoss, VaultPhases
  <2>4. HeldKeysMatch'
    BY <1>1, <1>8, DerivationFacts, NoKeysFacts, ZenonT(30)
       DEF UnsealCheck, Boss, Commit, KeyNames, Ends, Memory, Running,
           HeldKeysMatch, VaultTypeOK, Answers, NoBoss, VaultPhases
  <2> QED  BY <2>1, <2>2, <2>3, <2>4
              DEF VaultInd, VaultSafe
<1>9. ASSUME NEW r \in VaultRequests, HookStart(r)
      PROVE  VaultInd'
  <2>1. VaultTypeOK'
    BY <1>1, <1>9, DerivationFacts, NoKeysFacts
       DEF HookStart, AfterStart, Ends, Boss, Memory, NoBoss, Running,
           VaultTypeOK, Answers, KeyNames, VaultPhases, HeldKeysMatch
  <2>2. HeldKeysMatch'
    BY <1>1, <1>9, DerivationFacts, NoKeysFacts
       DEF HookStart, AfterStart, Ends, Boss, Memory, NoBoss, Running,
           HeldKeysMatch, VaultTypeOK, Answers, KeyNames, VaultPhases
  <2>3. KeysMatchRow' /\ SealedHoldsNoKey'
    BY <1>1, <1>9
       DEF HookStart, AfterStart, Ends, Boss, Memory, NoBoss, Running,
           KeysMatchRow, KeyNames, SealedHoldsNoKey
  <2> QED  BY <2>1, <2>2, <2>3
              DEF VaultInd, VaultSafe
<1>10. ASSUME NEW r \in VaultRequests, BossStarted(r)
      PROVE  VaultInd'
  <2>1. VaultTypeOK'
    BY <1>1, <1>10, DerivationFacts, NoKeysFacts
       DEF BossStarted, AfterStart, Ends, Memory, Running, VaultTypeOK,
           Answers, KeyNames, NoBoss, VaultPhases, HeldKeysMatch
  <2>2. HeldKeysMatch'
    BY <1>1, <1>10, DerivationFacts, NoKeysFacts
       DEF BossStarted, AfterStart, Ends, Memory, Running, HeldKeysMatch,
           VaultTypeOK, Answers, KeyNames, NoBoss, VaultPhases
  <2>3. KeysMatchRow' /\ SealedHoldsNoKey'
    BY <1>1, <1>10
       DEF BossStarted, AfterStart, Ends, Memory, Running, KeysMatchRow,
           KeyNames, SealedHoldsNoKey
  <2> QED  BY <2>1, <2>2, <2>3
              DEF VaultInd, VaultSafe
<1>11. ASSUME NEW r \in VaultRequests, WorkersRegistered(r)
      PROVE  VaultInd'
  <2>1. VaultTypeOK'
    <3>1. /\ vaultPhase' \in [VaultRequests -> VaultPhases]
          /\ answer' \in [VaultRequests -> Answers] /\ registrations' \in Nat
      BY <1>1, <1>11 DEF WorkersRegistered, Ends, VaultTypeOK, VaultPhases, Answers
    <3>2. registered' \in BOOLEAN
      BY <1>11 DEF WorkersRegistered
    <3> QED  BY <1>1, <1>11, <3>1, <3>2 DEF WorkersRegistered, VaultTypeOK, Memory
  <2>2. HeldKeysMatch'
    BY <1>1, <1>11, DerivationFacts, NoKeysFacts
       DEF WorkersRegistered, Ends, Memory, Running, HeldKeysMatch,
           VaultTypeOK, Answers, KeyNames, NoBoss, VaultPhases
  <2>3. KeysMatchRow' /\ SealedHoldsNoKey'
    BY <1>1, <1>11
       DEF WorkersRegistered, Ends, Memory, Running, KeysMatchRow, KeyNames,
           SealedHoldsNoKey
  <2> QED  BY <2>1, <2>2, <2>3
              DEF VaultInd, VaultSafe
<1>12. ASSUME NEW r \in VaultRequests, HookFails(r)
      PROVE  VaultInd'
  <2>1. VaultTypeOK'
    BY <1>1, <1>12, DerivationFacts, NoKeysFacts
       DEF HookFails, Boss, Ends, Memory, Running, VaultTypeOK, Answers,
           KeyNames, NoBoss, VaultPhases, HeldKeysMatch
  <2>2. HeldKeysMatch'
    BY <1>1, <1>12, DerivationFacts, NoKeysFacts
       DEF HookFails, Boss, Ends, Memory, Running, HeldKeysMatch,
           VaultTypeOK, Answers, KeyNames, NoBoss, VaultPhases
  <2>3. KeysMatchRow' /\ SealedHoldsNoKey'
    BY <1>1, <1>12
       DEF HookFails, Boss, Ends, Memory, Running, KeysMatchRow, KeyNames,
           SealedHoldsNoKey
  <2> QED  BY <2>1, <2>2, <2>3
              DEF VaultInd, VaultSafe
<1>13. CASE RestoreSeals
  <2>1. VaultTypeOK'
    BY <1>1, <1>13, DerivationFacts, NoKeysFacts
       DEF RestoreSeals, Boss, ZeroKeys, VaultTypeOK, Answers, KeyNames,
           NoBoss, VaultPhases, HeldKeysMatch
  <2>2. KeysMatchRow'
    BY <1>1, <1>13, DerivationFacts, NoKeysFacts
       DEF RestoreSeals, Boss, ZeroKeys, KeysMatchRow, KeyNames, Running,
           VaultTypeOK, Answers, NoBoss, VaultPhases, HeldKeysMatch
  <2>3. SealedHoldsNoKey'
    BY <1>1, <1>13, DerivationFacts, NoKeysFacts
       DEF RestoreSeals, Boss, ZeroKeys, SealedHoldsNoKey, Running,
           VaultTypeOK, Answers, KeyNames, NoBoss, VaultPhases
  <2>4. HeldKeysMatch'
    BY <1>1, <1>13 DEF RestoreSeals, Boss, ZeroKeys, HeldKeysMatch
  <2> QED  BY <2>1, <2>2, <2>3, <2>4
              DEF VaultInd, VaultSafe
<1>14. CASE Shutdown
  <2>1. VaultTypeOK'
    BY <1>1, <1>14, DerivationFacts, NoKeysFacts
       DEF Shutdown, Boss, ZeroKeys, VaultTypeOK, Answers, KeyNames, NoBoss,
           VaultPhases, HeldKeysMatch
  <2>2. KeysMatchRow'
    BY <1>1, <1>14, DerivationFacts, NoKeysFacts
       DEF Shutdown, Boss, ZeroKeys, KeysMatchRow, KeyNames, Running,
           VaultTypeOK, Answers, NoBoss, VaultPhases, HeldKeysMatch
  <2>3. SealedHoldsNoKey'
    BY <1>1, <1>14, DerivationFacts, NoKeysFacts
       DEF Shutdown, Boss, ZeroKeys, SealedHoldsNoKey, Running, VaultTypeOK,
           Answers, KeyNames, NoBoss, VaultPhases
  <2>4. HeldKeysMatch'
    BY <1>1, <1>14 DEF Shutdown, Boss, ZeroKeys, HeldKeysMatch
  <2> QED  BY <2>1, <2>2, <2>3, <2>4
              DEF VaultInd, VaultSafe
<1>15. CASE Exit
  <2>1. VaultTypeOK'
    BY <1>1, <1>15, DerivationFacts, NoKeysFacts
       DEF Exit, Memory, NoBoss, VaultTypeOK, Answers, KeyNames, VaultPhases,
           HeldKeysMatch
  <2>2. KeysMatchRow'
    BY <1>1, <1>15, DerivationFacts, NoKeysFacts
       DEF Exit, Memory, NoBoss, KeysMatchRow, KeyNames, Running,
           VaultTypeOK, Answers, VaultPhases, HeldKeysMatch
  <2>3. SealedHoldsNoKey'
    BY <1>1, <1>15, DerivationFacts, NoKeysFacts
       DEF Exit, Memory, NoBoss, SealedHoldsNoKey, Running, VaultTypeOK,
           Answers, KeyNames, VaultPhases
  <2>4. HeldKeysMatch'
    BY <1>1, <1>15 DEF Exit, Memory, NoBoss, HeldKeysMatch
  <2> QED  BY <2>1, <2>2, <2>3, <2>4
              DEF VaultInd, VaultSafe
<1>16. CASE ShutdownFails
  <2>1. VaultTypeOK'
    BY <1>1, <1>16, DerivationFacts, NoKeysFacts
       DEF ShutdownFails, Boss, ZeroKeys, VaultTypeOK, Answers, KeyNames,
           NoBoss, VaultPhases, HeldKeysMatch
  <2>2. KeysMatchRow'
    BY <1>1, <1>16, DerivationFacts, NoKeysFacts
       DEF ShutdownFails, Boss, ZeroKeys, KeysMatchRow, KeyNames, Running,
           VaultTypeOK, Answers, NoBoss, VaultPhases, HeldKeysMatch
  <2>3. SealedHoldsNoKey'
    BY <1>1, <1>16, DerivationFacts, NoKeysFacts
       DEF ShutdownFails, Boss, ZeroKeys, SealedHoldsNoKey, Running,
           VaultTypeOK, Answers, KeyNames, NoBoss, VaultPhases
  <2>4. HeldKeysMatch'
    BY <1>1, <1>16 DEF ShutdownFails, Boss, ZeroKeys, HeldKeysMatch
  <2> QED  BY <2>1, <2>2, <2>3, <2>4
              DEF VaultInd, VaultSafe
<1>17. CASE Kill
  <2>1. VaultTypeOK'
    BY <1>1, <1>17, DerivationFacts, NoKeysFacts
       DEF Kill, Boss, Memory, Running, VaultTypeOK, Answers, KeyNames,
           NoBoss, VaultPhases, HeldKeysMatch
  <2>2. KeysMatchRow'
    BY <1>1, <1>17, DerivationFacts, NoKeysFacts
       DEF Kill, Boss, Memory, Running, KeysMatchRow, KeyNames, VaultTypeOK,
           Answers, NoBoss, VaultPhases, HeldKeysMatch
  <2>3. SealedHoldsNoKey'
    BY <1>1, <1>17, DerivationFacts, NoKeysFacts
       DEF Kill, Boss, Memory, Running, SealedHoldsNoKey, VaultTypeOK,
           Answers, KeyNames, NoBoss, VaultPhases
  <2>4. HeldKeysMatch'
    BY <1>1, <1>17 DEF Kill, Boss, Memory, Running, HeldKeysMatch
  <2> QED  BY <2>1, <2>2, <2>3, <2>4
              DEF VaultInd, VaultSafe
<1>18. CASE RestartProcess
  <2>1. VaultTypeOK'
    <3>1. /\ vaultPhase' \in [VaultRequests -> VaultPhases]
          /\ answer' \in [VaultRequests -> Answers]
      BY <1>1, <1>18 DEF RestartProcess, VaultTypeOK, VaultPhases, Answers
    <3>2. /\ derived' \in [VaultRequests -> Derivation \cup {NoDerivation}]
          /\ vaultKeys' \in [KeyNames -> Derivation \cup {NoDerivation}]
      BY <1>18, NoKeysFacts DEF RestartProcess
    <3>3. restarts' \in 0 .. MaxRestarts /\ registrations' \in Nat
      BY <1>1, <1>18, VaultAssumption DEF RestartProcess, VaultTypeOK
    <3>4. registered' \in BOOLEAN /\ boss' \in VaultRequests \cup {NoBoss}
      BY <1>18, Zenon DEF RestartProcess
    <3> QED  BY <1>1, <1>18, <3>1, <3>2, <3>3, <3>4 DEF RestartProcess, VaultTypeOK
  <2>2. KeysMatchRow'
    BY <1>1, <1>18, DerivationFacts, NoKeysFacts
       DEF RestartProcess, NoBoss, KeysMatchRow, KeyNames, Running,
           VaultTypeOK, Answers, VaultPhases, HeldKeysMatch
  <2>3. SealedHoldsNoKey'
    BY <1>1, <1>18, DerivationFacts, NoKeysFacts
       DEF RestartProcess, NoBoss, SealedHoldsNoKey, Running, VaultTypeOK,
           Answers, KeyNames, VaultPhases
  <2>4. HeldKeysMatch'
    BY <1>1, <1>18, DerivationFacts, NoKeysFacts
       DEF RestartProcess, NoBoss, HeldKeysMatch, VaultTypeOK, Answers,
           KeyNames, VaultPhases
  <2> QED  BY <2>1, <2>2, <2>3, <2>4
              DEF VaultInd, VaultSafe
<1>19. CASE UNCHANGED vaultVars
  BY <1>1, <1>19
     DEF vaultVars, Answers, HeldKeysMatch, KeyNames, KeysMatchRow, NoBoss,
         Running, SealedHoldsNoKey, VaultInd, VaultPhases, VaultSafe,
         VaultTypeOK
<1> QED  BY <1>2, <1>3, <1>4, <1>5, <1>6, <1>7, <1>8, <1>9, <1>10, <1>11,
            <1>12, <1>13, <1>14, <1>15, <1>16, <1>17, <1>18, <1>19
            DEF VaultNext

\* Whatever credentials are presented, however init and unseal requests
\* interleave and wherever the process stops: the keys in use are those of the
\* stored row, and a sealed process holds none.
THEOREM VaultAlwaysSafe == VaultSpec => []VaultSafe
<1>1. VaultInd => VaultSafe
  BY DEF VaultInd
<1>2. VaultInd /\ [VaultNext]_vaultVars => VaultInd'
  BY VaultPreserved
<1> QED  BY <1>1, <1>2, VaultInitInd, PTL DEF VaultSpec

\* What a step that refuses a request leaves alone.
LEMMA RefusedStep ==
  ASSUME VaultTypeOK, [VaultNext]_vaultVars, NEW r \in VaultRequests,
         answer[r] = "none", answer'[r] = "refused"
  PROVE  UNCHANGED <<vaultStatus, vaultKeys, vaultRow>>
<1>1. ASSUME NEW q \in VaultRequests, NEW c \in Credentials,
             InitStart(q, c) \/ UnsealRead(q, c)
      PROVE  UNCHANGED <<vaultStatus, vaultKeys, vaultRow>>
  BY <1>1 DEF InitStart, UnsealRead, Memory
<1>2. ASSUME NEW q \in VaultRequests, InitInsert(q)
      PROVE  UNCHANGED <<vaultStatus, vaultKeys, vaultRow>>
  BY <1>2 DEF InitInsert, Memory
<1>3. ASSUME NEW q \in VaultRequests, UnsealCheck(q)
      PROVE  UNCHANGED <<vaultStatus, vaultKeys, vaultRow>>
  BY <1>3 DEF UnsealCheck, Memory
<1>4. ASSUME NEW q \in VaultRequests,
             \/ InitInsertFails(q) \/ UnsealStart(q) \/ HookStart(q)
             \/ BossStarted(q) \/ WorkersRegistered(q) \/ HookFails(q)
      PROVE  UNCHANGED <<vaultStatus, vaultKeys, vaultRow>>
  BY <1>4 DEF InitInsertFails, UnsealStart, HookStart, BossStarted,
              WorkersRegistered, HookFails, Memory
<1>5. ASSUME NEW q \in VaultRequests, InitCommit(q) PROVE FALSE
  BY <1>5 DEF InitCommit
<1>6. CASE RestoreSeals \/ Shutdown \/ ShutdownFails
  BY <1>6 DEF RestoreSeals, Shutdown, ShutdownFails
<1>7. CASE Exit \/ Kill \/ UNCHANGED vaultVars
  BY <1>7 DEF Exit, Kill, Memory, vaultVars
<1>8. CASE RestartProcess
  BY <1>8 DEF RestartProcess, VaultTypeOK
<1> QED  BY <1>1, <1>2, <1>3, <1>4, <1>5, <1>6, <1>7, <1>8 DEF VaultNext

\* An unseal or init that is refused disturbs neither the status nor the keys nor
\* the row, also when another request has committed since it started.
THEOREM RefusalIsHarmless == VaultSpec => RefusalHarmless
<1> DEFINE Step ==
      \A r \in VaultRequests : answer[r] = "none" /\ answer'[r] = "refused" =>
        UNCHANGED <<vaultStatus, vaultKeys, vaultRow>>
<1>1. VaultInd /\ [VaultNext]_vaultVars => [Step]_vaultVars
  BY RefusedStep DEF VaultInd, VaultSafe
<1>2. VaultInd /\ [VaultNext]_vaultVars => VaultInd'
  BY VaultPreserved
<1> QED  BY <1>1, <1>2, VaultInitInd, PTL DEF VaultSpec, RefusalHarmless

-----------------------------------------------------------------------------
(* MachineKeys: the strengthening of MachineSafe. *)

\* The states of an administrator's transaction and of the organization-wide
\* revocation.
AdminStates ==
  {Idle} \cup {[at |-> "issuing"]}
    \cup [at : {"locked"}, key : Keys, op : {"rotate", "emergency"}]
RevocationStates == {Idle} \cup [at : {"scan"}, keys : SUBSET Keys] \cup {[at |-> "done"]}
UseStates == {Idle} \cup [at : {"checked"}, key : Keys]

\* The types of the variables MachineTypeOK does not mention.
WorkTypeOK ==
  /\ admin \in [Admins -> AdminStates] /\ orgRevocation \in RevocationStates
  /\ keyUse \in UseStates
  /\ revoker \in [Jobs -> SUBSET Keys] /\ alerter \in [Jobs -> SUBSET Keys]
  /\ audits \in [Keys -> Nat] /\ overlapAlerts \in [Keys -> Nat]

\* Nothing happened yet to a key that is not issued.
UnissuedUntouched ==
  \A k \in Keys : k > keyCount =>
    overlap[k] = "none" /\ ~alerted[k] /\ audits[k] = 0 /\ overlapAlerts[k] = 0

\* What an open transaction or a worker's selection names are issued keys, and a
\* selected key's window is over for good, however old the selection.
SelectionsIssued ==
  /\ \A a \in Admins : admin[a].at = "locked" => admin[a].key \in Rows
  /\ orgRevocation.at = "scan" => orgRevocation.keys \subseteq Rows
  /\ \A j \in Jobs : alerter[j] \subseteq Rows
  /\ \A j \in Jobs : \A k \in revoker[j] : k \in Rows /\ overlap[k] = "past"

\* The row lock: one transaction at a time, and what lockAndRejectIfRevoked
\* checked still holds when the transaction writes.
LockExclusive ==
  \A a \in Admins : admin[a].at = "locked" =>
    /\ Actionable(admin[a].key)
    /\ \A b \in Admins : admin[b].at = "locked" /\ admin[b].key = admin[a].key => a = b

\* Exactly the keys in an overlap window and the emergency-revoked ones have a
\* successor.
ReplacedHasSuccessor ==
  \A k \in Rows :
    (overlap[k] # "none" \/ revokedBy[k] = "emergency") <=> \E s \in Rows : from[s] = k

\* The alert flag counts the alerts.
FlagCountsAlerts == \A k \in Keys : overlapAlerts[k] <= (IF alerted[k] THEN 1 ELSE 0)

MachineInd ==
  /\ MachineTypeOK /\ WorkTypeOK /\ UnissuedUntouched /\ SelectionsIssued
  /\ LockExclusive /\ ReplacedHasSuccessor /\ OneSuccessor /\ RevokedOnce
  /\ AutoRevokedWasReplaced /\ FlagCountsAlerts

\* The fields of those states.
LEMMA WorkStateFacts ==
  /\ Idle \in AdminStates /\ Idle \in RevocationStates /\ Idle \in UseStates
  /\ Idle.at = "idle"
  /\ [at |-> "issuing"] \in AdminStates
  /\ \A k \in Keys, op \in {"rotate", "emergency"} :
       [at |-> "locked", key |-> k, op |-> op] \in AdminStates
  /\ \A s \in AdminStates : s.at = "locked" => s.key \in Keys
  /\ \A K \in SUBSET Keys : [at |-> "scan", keys |-> K] \in RevocationStates
  /\ [at |-> "done"] \in RevocationStates
  /\ \A s \in RevocationStates : s.at = "scan" => s.keys \in SUBSET Keys
  /\ \A k \in Keys : [at |-> "checked", key |-> k] \in UseStates
  /\ \A s \in UseStates : s.at = "checked" => s.key \in Keys
BY DEF Idle, AdminStates, RevocationStates, UseStates

\* Rows are keys.
LEMMA RowFacts ==
  ASSUME MachineTypeOK
  PROVE  keyCount \in Nat /\ keyCount >= 1 /\ Rows \subseteq Keys
BY KeyBounds DEF MachineTypeOK, Keys, Rows

\* The insert of a key after predecessor p.
LEMMA InsertFacts ==
  ASSUME MachineTypeOK, NEW p \in 0 .. keyCount, InsertKey(p)
  PROVE  /\ keyCount' = keyCount + 1 /\ keyCount' \in Keys
         /\ Rows' = Rows \cup {keyCount'} /\ keyCount' \notin Rows
         /\ from' \in [Keys -> 0 .. MaxKeys] /\ from'[keyCount'] = p
         /\ \A k \in Keys : k # keyCount' => from'[k] = from[k]
         /\ \A s \in Rows : from[s] # keyCount'
         /\ \A k \in Keys : k > keyCount' => from'[k] = 0
         /\ \A k \in Rows' : from'[k] < k
<1>1. /\ keyCount \in Nat /\ keyCount' = keyCount + 1 /\ keyCount' \in Keys
      /\ keyCount' \notin Rows /\ Rows' = Rows \cup {keyCount'}
  BY KeyBounds DEF MachineTypeOK, InsertKey, Keys, Rows
<1>2. /\ from' \in [Keys -> 0 .. MaxKeys] /\ from'[keyCount'] = p
      /\ \A k \in Keys : k # keyCount' => from'[k] = from[k]
  BY <1>1, KeyBounds DEF MachineTypeOK, InsertKey, Keys
<1>3. \A s \in Rows : from[s] < s /\ s <= keyCount /\ from[s] \in Nat
  BY <1>1, KeyBounds DEF MachineTypeOK, Keys, Rows
<1>4. \A k \in Keys : k > keyCount' => from'[k] = 0
  BY <1>1, <1>2, KeyBounds DEF MachineTypeOK, Keys
<1>5. \A s \in Rows : s \in Keys /\ from[s] # keyCount'
  BY <1>1, <1>3, KeyBounds DEF MachineTypeOK, Keys, Rows
<1>6. \A k \in Rows' : from'[k] < k
  <2>1. from'[keyCount'] < keyCount'
    BY <1>1, <1>2
  <2>2. \A k \in Rows : from'[k] < k
    BY <1>1, <1>2, <1>3, <1>5
  <2> QED  BY <1>1, <2>1, <2>2
<1> QED  BY <1>1, <1>2, <1>4, <1>5, <1>6

\* A revocation of keys that are not revoked, with its audit entry.
LEMMA RevokeFacts ==
  ASSUME MachineTypeOK, WorkTypeOK, NEW ks \in SUBSET Rows, NEW cause \in Causes,
         RevokeAs(ks, cause)
  PROVE  /\ revokedBy' \in [Keys -> Causes \cup {"no"}] /\ audits' \in [Keys -> Nat]
         /\ \A k \in Keys :
              /\ revokedBy'[k] = IF k \in ks THEN cause ELSE revokedBy[k]
              /\ audits'[k] = IF k \in ks THEN audits[k] + 1 ELSE audits[k]
BY DEF MachineTypeOK, WorkTypeOK, RevokeAs

\* The end of a transaction releases its lock and no other.
LEMMA ReleaseFacts ==
  ASSUME WorkTypeOK, NEW a \in Admins, admin' = [admin EXCEPT ![a] = Idle]
  PROVE  /\ admin' \in [Admins -> AdminStates]
         /\ \A b \in Admins : admin'[b].at = "locked" => b # a /\ admin'[b] = admin[b]
BY WorkStateFacts DEF WorkTypeOK

\* Keys a transaction holds are typed; a key nobody holds is not among them.
LEMMA LockFacts ==
  ASSUME WorkTypeOK, NEW a \in Admins, admin[a].at = "locked"
  PROVE  admin[a].key \in Keys /\ Locked(admin[a].key)
BY WorkStateFacts DEF WorkTypeOK, Locked

\* The parts of the invariant that a revocation which issues no key can disturb:
\* a manual one, the worker's or the organization's, on rows nobody has locked.
LEMMA PlainRevocation ==
  ASSUME MachineInd, NEW ks \in SUBSET Rows,
         NEW cause \in {"manual", "overlap", "bulk"}, RevokeAs(ks, cause),
         \A k \in ks : ~Locked(k) /\ revokedBy[k] = "no",
         cause = "overlap" => \A k \in ks : overlap[k] = "past",
         UNCHANGED <<keyCount, from, overlap, expiry, alerted, everUsed, admin>>
  PROVE  /\ MachineTypeOK' /\ LockExclusive' /\ ReplacedHasSuccessor'
         /\ RevokedOnce' /\ AutoRevokedWasReplaced' /\ audits' \in [Keys -> Nat]
         /\ \A k \in Keys : k > keyCount => audits'[k] = audits[k]
<1>1. /\ MachineTypeOK /\ WorkTypeOK /\ LockExclusive /\ ReplacedHasSuccessor
      /\ RevokedOnce /\ AutoRevokedWasReplaced
  BY DEF MachineInd
<1>2. Rows \subseteq Keys /\ keyCount \in Nat /\ Rows' = Rows
  BY <1>1, RowFacts DEF Rows
<1>3. cause \in Causes
  BY DEF Causes
<1>4. /\ revokedBy' \in [Keys -> Causes \cup {"no"}] /\ audits' \in [Keys -> Nat]
      /\ \A k \in Keys :
           /\ revokedBy'[k] = IF k \in ks THEN cause ELSE revokedBy[k]
           /\ audits'[k] = IF k \in ks THEN audits[k] + 1 ELSE audits[k]
  BY <1>1, <1>3, RevokeFacts
<1>5. \A k \in Keys : k > keyCount => k \notin ks
  <2>1. \A k \in Rows : k \in Nat /\ ~(k > keyCount)
    BY <1>2 DEF Rows
  <2> QED  BY <2>1
<1>6. MachineTypeOK'
  BY <1>1, <1>2, <1>4, <1>5 DEF MachineTypeOK
<1>7. LockExclusive'
  <2>1. ASSUME NEW a \in Admins, admin[a].at = "locked"
        PROVE  admin[a].key \in Keys \ ks
    BY <1>1, <2>1, LockFacts
  <2> QED  BY <1>1, <1>4, <2>1 DEF LockExclusive, Actionable
<1>8. ReplacedHasSuccessor'
  BY <1>1, <1>2, <1>4 DEF ReplacedHasSuccessor
<1>9. RevokedOnce'
  BY <1>1, <1>2, <1>3, <1>4 DEF RevokedOnce, WorkTypeOK, Causes
<1>10. AutoRevokedWasReplaced'
  BY <1>1, <1>2, <1>4 DEF AutoRevokedWasReplaced, ReplacedHasSuccessor
<1> QED  BY <1>4, <1>5, <1>6, <1>7, <1>8, <1>9, <1>10

\* The parts of the invariant that relate keys and successors, when a locked key k
\* gets its successor: by rotation, which opens k's window, or by an emergency,
\* which revokes k.
LEMMA Replacement ==
  ASSUME MachineInd, NEW a \in Admins, admin[a].at = "locked",
         InsertKey(admin[a].key), admin' = [admin EXCEPT ![a] = Idle],
         \/ /\ overlap' = [overlap EXCEPT ![admin[a].key] = "ahead"]
            /\ UNCHANGED <<revokedBy, audits>>
         \/ /\ RevokeAs({admin[a].key}, "emergency")
            /\ UNCHANGED overlap,
         UNCHANGED <<expiry, alerted, everUsed, revoker, alerter, orgRevocation,
                     keyUse, overlapAlerts>>
  PROVE  MachineInd'
<1> DEFINE k == admin[a].key
<1>1. /\ MachineTypeOK /\ WorkTypeOK /\ UnissuedUntouched /\ SelectionsIssued
      /\ LockExclusive /\ ReplacedHasSuccessor /\ OneSuccessor /\ RevokedOnce
      /\ AutoRevokedWasReplaced /\ FlagCountsAlerts
  BY DEF MachineInd
<1>2. /\ Rows \subseteq Keys /\ keyCount \in Nat /\ k \in Rows /\ k \in Keys
      /\ k \in 0 .. keyCount
  BY <1>1, RowFacts DEF SelectionsIssued, Rows
<1>3. /\ keyCount' = keyCount + 1 /\ keyCount' \in Keys
      /\ Rows' = Rows \cup {keyCount'} /\ keyCount' \notin Rows
      /\ from' \in [Keys -> 0 .. MaxKeys] /\ from'[keyCount'] = k
      /\ \A x \in Keys : x # keyCount' => from'[x] = from[x]
      /\ \A s \in Rows : from[s] # keyCount'
      /\ \A x \in Keys : x > keyCount' => from'[x] = 0
      /\ \A x \in Rows' : from'[x] < x
  BY <1>1, <1>2, InsertFacts
<1>4. /\ admin' \in [Admins -> AdminStates]
      /\ \A b \in Admins : admin'[b].at = "locked" => b # a /\ admin'[b] = admin[b]
  BY <1>1, ReleaseFacts
<1>5. revokedBy[k] = "no" /\ overlap[k] = "none" /\ \A s \in Rows : from[s] # k
  BY <1>1, <1>2 DEF LockExclusive, Actionable, ReplacedHasSuccessor
<1>6. /\ \/ /\ overlap'[k] = "ahead" /\ revokedBy'[k] = "no" /\ audits'[k] = audits[k]
         \/ /\ overlap'[k] = "none" /\ revokedBy'[k] = "emergency"
            /\ audits'[k] = audits[k] + 1
      /\ \A x \in Keys : x # k =>
           /\ overlap'[x] = overlap[x] /\ revokedBy'[x] = revokedBy[x]
           /\ audits'[x] = audits[x]
      /\ overlap' \in [Keys -> {"none", "ahead", "soon", "past"}]
      /\ revokedBy' \in [Keys -> Causes \cup {"no"}] /\ audits' \in [Keys -> Nat]
  <2>1. "emergency" \in Causes /\ {k} \in SUBSET Rows
    BY <1>2 DEF Causes
  <2>2. CASE RevokeAs({k}, "emergency") /\ UNCHANGED overlap
    <3>1. /\ revokedBy' \in [Keys -> Causes \cup {"no"}] /\ audits' \in [Keys -> Nat]
          /\ \A x \in Keys :
               /\ revokedBy'[x] = IF x \in {k} THEN "emergency" ELSE revokedBy[x]
               /\ audits'[x] = IF x \in {k} THEN audits[x] + 1 ELSE audits[x]
      BY <1>1, <2>1, <2>2, RevokeFacts, ZenonT(30)
    <3> QED  BY <1>1, <1>2, <1>5, <2>2, <3>1 DEF MachineTypeOK
  <2>3. CASE overlap' = [overlap EXCEPT ![k] = "ahead"] /\ UNCHANGED <<revokedBy, audits>>
    BY <1>1, <1>2, <1>5, <2>3 DEF MachineTypeOK, WorkTypeOK
  <2> QED  BY <2>2, <2>3
<1> HIDE DEF k
<1>7. \A x \in Keys : x > keyCount' => x > keyCount /\ x # k
  BY <1>2, <1>3 DEF Rows, Keys
<1>8. MachineTypeOK'
  BY <1>1, <1>3, <1>6, <1>7 DEF MachineTypeOK
<1>9. WorkTypeOK'
  BY <1>1, <1>4, <1>6 DEF WorkTypeOK
<1>10. UnissuedUntouched'
  BY <1>1, <1>6, <1>7 DEF UnissuedUntouched
<1>11. SelectionsIssued'
  <2>1. \A j \in Jobs : \A x \in revoker'[j] : x \in Rows' /\ overlap'[x] = "past"
    <3> SUFFICES ASSUME NEW j \in Jobs, NEW x \in revoker[j]
                 PROVE  x \in Rows' /\ overlap'[x] = "past"
      OBVIOUS
    <3>1. x \in Rows /\ overlap[x] = "past"
      BY <1>1 DEF SelectionsIssued
    <3> QED  BY <1>2, <1>3, <1>5, <1>6, <3>1
  <2> QED  BY <1>1, <1>3, <1>4, <2>1 DEF SelectionsIssued
<1>12. LockExclusive'
  <2>1. ASSUME NEW b \in Admins, admin'[b].at = "locked"
        PROVE  admin[b].key \in Keys /\ admin[b].key # k
    BY <1>1, <1>4, <2>1, LockFacts DEF LockExclusive, k
  <2> QED  BY <1>1, <1>4, <1>6, <2>1 DEF LockExclusive, Actionable
<1>13. ReplacedHasSuccessor'
  <2> SUFFICES ASSUME NEW x \in Rows'
               PROVE  (overlap'[x] # "none" \/ revokedBy'[x] = "emergency")
                        <=> \E s \in Rows' : from'[s] = x
    BY DEF ReplacedHasSuccessor
  <2>1. CASE x = k
    BY <1>3, <1>6, <2>1
  <2>2. CASE x = keyCount'
    <3>1. overlap[x] = "none" /\ revokedBy[x] = "no" /\ x # k
      BY <1>1, <1>2, <1>3, <2>2 DEF UnissuedUntouched, MachineTypeOK
    <3>2. \A s \in Rows' : from'[s] # x
      BY <1>2, <1>3, <2>2, <3>1
    <3> QED  BY <1>3, <1>6, <2>2, <3>1, <3>2
  <2>3. CASE x # k /\ x # keyCount'
    <3>1. x \in Rows /\ ((\E s \in Rows' : from'[s] = x) <=> \E s \in Rows : from[s] = x)
      BY <1>2, <1>3, <2>3
    <3> QED  BY <1>1, <1>2, <1>6, <2>3, <3>1 DEF ReplacedHasSuccessor
  <2> QED  BY <2>1, <2>2, <2>3
<1>14. OneSuccessor'
  BY <1>1, <1>2, <1>3, <1>5 DEF OneSuccessor
<1>15. RevokedOnce'
  BY <1>1, <1>2, <1>3, <1>5, <1>6 DEF RevokedOnce, UnissuedUntouched, MachineTypeOK, WorkTypeOK
<1>16. AutoRevokedWasReplaced'
  BY <1>1, <1>2, <1>3, <1>6, <1>13
     DEF AutoRevokedWasReplaced, ReplacedHasSuccessor, MachineTypeOK
<1>17. FlagCountsAlerts'
  BY <1>1 DEF FlagCountsAlerts
<1> QED  BY <1>8, <1>9, <1>10, <1>11, <1>12, <1>13, <1>14, <1>15, <1>16, <1>17
            DEF MachineInd

\* A machine user with its first key satisfies the invariant.
LEMMA MachineInitInd == MachineInit => MachineInd
<1> SUFFICES ASSUME MachineInit PROVE MachineInd
  OBVIOUS
<1>0. 1 \in Keys /\ Rows = {1}
  BY KeyBounds DEF MachineInit, Keys, Rows
<1>1. MachineTypeOK
  BY <1>0, KeyBounds DEF MachineInit, MachineTypeOK, Keys, Causes
<1>2. WorkTypeOK
  BY WorkStateFacts DEF MachineInit, WorkTypeOK
<1>3. UnissuedUntouched /\ SelectionsIssued /\ LockExclusive
  BY WorkStateFacts
     DEF MachineInit, UnissuedUntouched, SelectionsIssued, LockExclusive
<1>4. /\ ReplacedHasSuccessor /\ OneSuccessor /\ RevokedOnce
      /\ AutoRevokedWasReplaced /\ FlagCountsAlerts
  BY <1>0 DEF MachineInit, ReplacedHasSuccessor, OneSuccessor, RevokedOnce,
              AutoRevokedWasReplaced, FlagCountsAlerts
<1> QED  BY <1>1, <1>2, <1>3, <1>4 DEF MachineInd

\* Every step keeps the invariant of the keys.
LEMMA MachinePreserved ==
  ASSUME MachineInd, [MachineNext]_machineVars
  PROVE  MachineInd'
<1>1. /\ MachineTypeOK /\ WorkTypeOK /\ UnissuedUntouched
      /\ SelectionsIssued /\ LockExclusive /\ ReplacedHasSuccessor
      /\ OneSuccessor /\ RevokedOnce /\ AutoRevokedWasReplaced
      /\ FlagCountsAlerts
  BY DEF MachineInd
<1>2. ASSUME NEW a \in Admins, IssueRead(a)
      PROVE  MachineInd'
  <2>1. MachineTypeOK'
    BY <1>1, <1>2, KeyBounds, WorkStateFacts, RowFacts
       DEF IssueRead, keys, MachineTypeOK, Causes, Keys, Rows, WorkTypeOK,
           SelectionsIssued
  <2>2. WorkTypeOK'
    BY <1>1, <1>2, KeyBounds, WorkStateFacts, RowFacts
       DEF IssueRead, keys, WorkTypeOK, Keys, MachineTypeOK, Causes, Rows,
           SelectionsIssued, UnissuedUntouched
  <2>3. SelectionsIssued'
    BY <1>1, <1>2, KeyBounds, WorkStateFacts, RowFacts
       DEF IssueRead, keys, SelectionsIssued, Rows, MachineTypeOK, Causes,
           Keys, WorkTypeOK, UnissuedUntouched, LockExclusive, Actionable,
           ReplacedHasSuccessor
  <2>4. LockExclusive'
    BY <1>1, <1>2, KeyBounds, WorkStateFacts, RowFacts
       DEF IssueRead, keys, LockExclusive, Actionable, MachineTypeOK, Causes,
           Keys, Rows, WorkTypeOK, SelectionsIssued, UnissuedUntouched,
           ReplacedHasSuccessor
  <2>5. /\ UnissuedUntouched' /\ ReplacedHasSuccessor' /\ OneSuccessor'
        /\ RevokedOnce' /\ AutoRevokedWasReplaced' /\ FlagCountsAlerts'
    BY <1>1, <1>2
       DEF IssueRead, keys, UnissuedUntouched, Keys, ReplacedHasSuccessor,
           Rows, OneSuccessor, RevokedOnce, AutoRevokedWasReplaced,
           FlagCountsAlerts
  <2> QED  BY <2>1, <2>2, <2>3, <2>4, <2>5
              DEF MachineInd
<1>3. ASSUME NEW a \in Admins, Issue(a)
      PROVE  MachineInd'
  <2>1. 0 \in 0 .. keyCount /\ Rows \subseteq Keys
    BY <1>1, RowFacts
  <2>2. /\ keyCount' = keyCount + 1 /\ keyCount' \in Keys
        /\ Rows' = Rows \cup {keyCount'} /\ keyCount' \notin Rows
        /\ from' \in [Keys -> 0 .. MaxKeys] /\ from'[keyCount'] = 0
        /\ \A x \in Keys : x # keyCount' => from'[x] = from[x]
        /\ \A s \in Rows : from[s] # keyCount'
        /\ \A x \in Keys : x > keyCount' => from'[x] = 0
        /\ \A x \in Rows' : from'[x] < x
    BY <1>1, <1>3, <2>1, InsertFacts DEF Issue
  <2>3. /\ admin' \in [Admins -> AdminStates]
        /\ \A b \in Admins : admin'[b].at = "locked" => b # a /\ admin'[b] = admin[b]
    BY <1>1, <1>3, ReleaseFacts DEF Issue
  <2>4. UNCHANGED <<revokedBy, overlap, expiry, alerted, everUsed, revoker, alerter,
                    orgRevocation, keyUse, audits, overlapAlerts>>
    BY <1>3 DEF Issue
  <2>5. /\ \A x \in Keys : x > keyCount' => x > keyCount
        /\ \A x \in Rows : x # 0 /\ ~(x = keyCount') /\ keyCount' > keyCount /\ keyCount' # 0
    BY <1>1, <2>2, RowFacts DEF Rows, Keys
  <2>6. MachineTypeOK' /\ WorkTypeOK' /\ UnissuedUntouched'
    BY <1>1, <2>2, <2>3, <2>4, <2>5 DEF MachineTypeOK, WorkTypeOK, UnissuedUntouched
  <2>7. SelectionsIssued' /\ LockExclusive' /\ FlagCountsAlerts'
    BY <1>1, <2>2, <2>3, <2>4
       DEF SelectionsIssued, LockExclusive, Actionable, FlagCountsAlerts
  <2>8. \A x \in Rows' : (\E s \in Rows' : from'[s] = x) <=> (\E s \in Rows : from[s] = x)
    BY <2>1, <2>2, <2>5
  <2>9. /\ \A s \in Rows : from[s] # keyCount'
        /\ overlap[keyCount'] = "none" /\ revokedBy[keyCount'] = "no" /\ audits[keyCount'] = 0
    <3>1. keyCount' > keyCount
      BY <1>1, <2>2, RowFacts
    <3> QED  BY <1>1, <2>2, <3>1 DEF UnissuedUntouched, MachineTypeOK
  <2>10. ReplacedHasSuccessor' /\ RevokedOnce' /\ AutoRevokedWasReplaced'
    BY <1>1, <2>1, <2>2, <2>4, <2>8, <2>9
       DEF ReplacedHasSuccessor, RevokedOnce, AutoRevokedWasReplaced
  <2>11. OneSuccessor'
    BY <1>1, <2>1, <2>2 DEF OneSuccessor
  <2> QED  BY <2>6, <2>7, <2>10, <2>11 DEF MachineInd
<1>4. ASSUME NEW a \in Admins, RotateKey(a)
      PROVE  MachineInd'
  BY <1>4, Replacement DEF RotateKey
<1>5. ASSUME NEW a \in Admins, EmergencyRevoke(a)
      PROVE  MachineInd'
  BY <1>5, Replacement DEF EmergencyRevoke
<1>6. ASSUME NEW a \in Admins, AdminFails(a)
      PROVE  MachineInd'
  <2>1. /\ admin' \in [Admins -> AdminStates]
        /\ \A b \in Admins : admin'[b].at = "locked" => b # a /\ admin'[b] = admin[b]
    BY <1>1, <1>6, ReleaseFacts DEF AdminFails
  <2>2. UNCHANGED <<keys, revoker, alerter, orgRevocation, keyUse, audits, overlapAlerts>>
    BY <1>6 DEF AdminFails
  <2>3. /\ MachineTypeOK' /\ UnissuedUntouched' /\ ReplacedHasSuccessor'
        /\ OneSuccessor' /\ RevokedOnce' /\ AutoRevokedWasReplaced'
        /\ FlagCountsAlerts'
    BY <1>1, <2>2
       DEF MachineTypeOK, UnissuedUntouched, ReplacedHasSuccessor, OneSuccessor,
           RevokedOnce, AutoRevokedWasReplaced, FlagCountsAlerts, Rows, keys
  <2>4. WorkTypeOK' /\ SelectionsIssued' /\ LockExclusive'
    BY <1>1, <2>1, <2>2
       DEF WorkTypeOK, SelectionsIssued, LockExclusive, Actionable, Rows, keys
  <2> QED  BY <2>3, <2>4 DEF MachineInd
<1>7. ASSUME NEW a \in Admins, NEW k \in Keys,
             NEW op \in {"rotate", "emergency"}, LockKey(a, k, op)
      PROVE  MachineInd'
  <2>1. MachineTypeOK'
    BY <1>1, <1>7, KeyBounds, WorkStateFacts, RowFacts
       DEF LockKey, Actionable, Locked, Rows, keys, MachineTypeOK, Causes,
           Keys, WorkTypeOK, SelectionsIssued
  <2>2. WorkTypeOK'
    BY <1>1, <1>7, KeyBounds, WorkStateFacts, RowFacts
       DEF LockKey, Actionable, Locked, Rows, keys, WorkTypeOK, Keys,
           MachineTypeOK, Causes, SelectionsIssued, UnissuedUntouched
  <2>3. SelectionsIssued'
    BY <1>1, <1>7, KeyBounds, WorkStateFacts, RowFacts, SMTT(20)
       DEF LockKey, Actionable, Locked, Rows, keys, SelectionsIssued,
           MachineTypeOK, Causes, Keys, WorkTypeOK, UnissuedUntouched,
           LockExclusive, ReplacedHasSuccessor
  <2>4. LockExclusive'
    BY <1>1, <1>7, KeyBounds, WorkStateFacts, RowFacts
       DEF LockKey, Actionable, Locked, Rows, keys, LockExclusive,
           MachineTypeOK, Causes, Keys, WorkTypeOK, SelectionsIssued,
           UnissuedUntouched, ReplacedHasSuccessor
  <2>5. /\ UnissuedUntouched' /\ ReplacedHasSuccessor' /\ OneSuccessor'
        /\ RevokedOnce' /\ AutoRevokedWasReplaced' /\ FlagCountsAlerts'
    BY <1>1, <1>7
       DEF LockKey, Actionable, Locked, Rows, keys, UnissuedUntouched, Keys,
           ReplacedHasSuccessor, OneSuccessor, RevokedOnce,
           AutoRevokedWasReplaced, FlagCountsAlerts
  <2> QED  BY <2>1, <2>2, <2>3, <2>4, <2>5
              DEF MachineInd
<1>8. ASSUME NEW k \in Keys, RevokeKey(k)
      PROVE  MachineInd'
  <2>1. {k} \in SUBSET Rows /\ RevokeAs({k}, "manual")
        /\ \A x \in {k} : ~Locked(x) /\ revokedBy[x] = "no"
    BY <1>8 DEF RevokeKey
  <2>2. /\ MachineTypeOK' /\ LockExclusive' /\ ReplacedHasSuccessor'
        /\ RevokedOnce' /\ AutoRevokedWasReplaced' /\ audits' \in [Keys -> Nat]
        /\ \A x \in Keys : x > keyCount => audits'[x] = audits[x]
    BY <1>8, <2>1, PlainRevocation DEF RevokeKey, work
  <2>3. WorkTypeOK' /\ SelectionsIssued'
    BY <1>1, <1>8, <2>2 DEF RevokeKey, work, WorkTypeOK, SelectionsIssued, Rows
  <2>4. UnissuedUntouched' /\ OneSuccessor' /\ FlagCountsAlerts'
    BY <1>1, <1>8, <2>2
       DEF RevokeKey, UnissuedUntouched, OneSuccessor, FlagCountsAlerts, Rows
  <2> QED  BY <2>2, <2>3, <2>4 DEF MachineInd
<1>9. ASSUME NEW k \in Keys, ExchangeLookup(k)
      PROVE  MachineInd'
  <2>1. MachineTypeOK'
    BY <1>1, <1>9, KeyBounds, WorkStateFacts, RowFacts
       DEF ExchangeLookup, LiveKeys, Rows, keys, MachineTypeOK, Causes, Keys,
           WorkTypeOK, SelectionsIssued
  <2>2. WorkTypeOK'
    BY <1>1, <1>9, KeyBounds, WorkStateFacts, RowFacts
       DEF ExchangeLookup, LiveKeys, Rows, keys, WorkTypeOK, Keys,
           MachineTypeOK, Causes, SelectionsIssued, UnissuedUntouched
  <2>3. /\ UnissuedUntouched' /\ SelectionsIssued' /\ LockExclusive'
        /\ ReplacedHasSuccessor' /\ OneSuccessor' /\ RevokedOnce'
        /\ AutoRevokedWasReplaced' /\ FlagCountsAlerts'
    BY <1>1, <1>9
       DEF ExchangeLookup, LiveKeys, Rows, keys, UnissuedUntouched, Keys,
           SelectionsIssued, LockExclusive, Actionable, ReplacedHasSuccessor,
           OneSuccessor, RevokedOnce, AutoRevokedWasReplaced,
           FlagCountsAlerts
  <2> QED  BY <2>1, <2>2, <2>3
              DEF MachineInd
<1>10. ASSUME NEW k \in Keys, Later(k)
      PROVE  MachineInd'
  <2>1. /\ overlap' \in [Keys -> {"none", "ahead", "soon", "past"}]
        /\ expiry' \in [Keys -> {"never", "ahead", "past"}]
        /\ \A x \in Keys : overlap[x] = "none" <=> overlap'[x] = "none"
        /\ \A x \in Keys : overlap[x] = "past" => overlap'[x] = "past"
    BY <1>1, <1>10 DEF Later, MachineTypeOK
  <2>2. UNCHANGED <<keyCount, from, revokedBy, alerted, everUsed, work, audits,
                    overlapAlerts>>
    BY <1>10 DEF Later
  <2>3. Rows \subseteq Keys /\ Rows' = Rows
    BY <1>1, <2>2, RowFacts DEF Rows
  <2>4. MachineTypeOK' /\ WorkTypeOK' /\ UnissuedUntouched' /\ FlagCountsAlerts'
    BY <1>1, <2>1, <2>2, <2>3
       DEF MachineTypeOK, WorkTypeOK, UnissuedUntouched, FlagCountsAlerts, work
  <2>5. SelectionsIssued'
    BY <1>1, <2>1, <2>2, <2>3 DEF SelectionsIssued, work
  <2>6. LockExclusive'
    <3>1. \A a \in Admins : admin[a].at = "locked" => admin[a].key \in Keys
      BY <1>1, LockFacts
    <3> QED  BY <1>1, <2>1, <2>2, <3>1 DEF LockExclusive, Actionable, work
  <2>7. OneSuccessor' /\ RevokedOnce' /\ ReplacedHasSuccessor' /\ AutoRevokedWasReplaced'
    BY <1>1, <2>1, <2>2, <2>3
       DEF OneSuccessor, RevokedOnce, ReplacedHasSuccessor, AutoRevokedWasReplaced
  <2> QED  BY <2>4, <2>5, <2>6, <2>7 DEF MachineInd
<1>11. ASSUME NEW j \in Jobs, RevokeSelect(j)
      PROVE  MachineInd'
  <2>1. /\ revoker' \in [Jobs -> SUBSET Keys]
        /\ \A i \in Jobs : \A x \in revoker'[i] :
             x \in revoker[i] \/ (x \in Rows /\ overlap[x] = "past")
    BY <1>1, <1>11, RowFacts DEF RevokeSelect, WorkTypeOK
  <2>2. UNCHANGED <<keys, admin, alerter, orgRevocation, keyUse, audits, overlapAlerts>>
    BY <1>11 DEF RevokeSelect
  <2>3. WorkTypeOK' /\ SelectionsIssued'
    BY <1>1, <2>1, <2>2 DEF WorkTypeOK, SelectionsIssued, Rows, keys
  <2>4. /\ MachineTypeOK' /\ UnissuedUntouched' /\ LockExclusive'
        /\ ReplacedHasSuccessor' /\ OneSuccessor' /\ RevokedOnce'
        /\ AutoRevokedWasReplaced' /\ FlagCountsAlerts'
    BY <1>1, <2>2
       DEF MachineTypeOK, UnissuedUntouched, LockExclusive, Actionable,
           ReplacedHasSuccessor, OneSuccessor, RevokedOnce,
           AutoRevokedWasReplaced, FlagCountsAlerts, Rows, keys
  <2> QED  BY <2>3, <2>4 DEF MachineInd
<1>12. ASSUME NEW j \in Jobs, RevokeClaim(j)
      PROVE  MachineInd'
  <2>1. PICK k \in revoker[j] :
          /\ ~Locked(k)
          /\ revoker' = [revoker EXCEPT ![j] = @ \ {k}]
          /\ IF revokedBy[k] = "no" THEN RevokeAs({k}, "overlap")
             ELSE UNCHANGED <<revokedBy, audits>>
          /\ UNCHANGED <<keyCount, from, overlap, expiry, alerted, everUsed,
                         deactivated, admin, alerter, orgRevocation, keyUse,
                         keyUses, overlapAlerts, anomalies, lateKeys>>
    BY <1>12 DEF RevokeClaim
  <2>2. k \in Rows /\ overlap[k] = "past"
    BY <1>1 DEF SelectionsIssued
  <2>3. /\ revoker' \in [Jobs -> SUBSET Keys]
        /\ \A i \in Jobs : revoker'[i] \subseteq revoker[i]
    BY <1>1, <2>1 DEF WorkTypeOK
  <2>4. SelectionsIssued'
    BY <1>1, <2>1, <2>3 DEF SelectionsIssued, Rows
  <2>5. OneSuccessor' /\ FlagCountsAlerts'
    BY <1>1, <2>1 DEF OneSuccessor, FlagCountsAlerts, Rows
  <2>6. CASE revokedBy[k] = "no"
    <3>1. /\ MachineTypeOK' /\ LockExclusive' /\ ReplacedHasSuccessor'
          /\ RevokedOnce' /\ AutoRevokedWasReplaced' /\ audits' \in [Keys -> Nat]
          /\ \A x \in Keys : x > keyCount => audits'[x] = audits[x]
      BY <2>1, <2>2, <2>6, PlainRevocation
    <3>2. WorkTypeOK' /\ UnissuedUntouched'
      BY <1>1, <2>1, <2>3, <3>1 DEF WorkTypeOK, UnissuedUntouched
    <3> QED  BY <2>4, <2>5, <3>1, <3>2 DEF MachineInd
  <2>7. CASE revokedBy[k] # "no"
    <3>1. UNCHANGED <<revokedBy, audits>>
      BY <2>1, <2>7
    <3>2. MachineTypeOK' /\ WorkTypeOK' /\ UnissuedUntouched'
      BY <1>1, <2>1, <2>3, <3>1
         DEF MachineTypeOK, WorkTypeOK, UnissuedUntouched, Rows
    <3>3. /\ LockExclusive' /\ ReplacedHasSuccessor'
          /\ RevokedOnce' /\ AutoRevokedWasReplaced'
      BY <1>1, <2>1, <3>1
         DEF LockExclusive, Actionable, ReplacedHasSuccessor, RevokedOnce,
             AutoRevokedWasReplaced, Rows
    <3> QED  BY <2>4, <2>5, <3>2, <3>3 DEF MachineInd
  <2> QED  BY <2>6, <2>7
<1>13. ASSUME NEW j \in Jobs, RevokeRowFails(j)
      PROVE  MachineInd'
  <2>1. PICK k \in revoker[j] : revoker' = [revoker EXCEPT ![j] = @ \ {k}]
    BY <1>13 DEF RevokeRowFails
  <2>2. UNCHANGED <<keys, admin, alerter, orgRevocation, keyUse, audits, overlapAlerts>>
    BY <1>13 DEF RevokeRowFails
  <2>3. /\ revoker' \in [Jobs -> SUBSET Keys]
        /\ \A i \in Jobs : revoker'[i] \subseteq revoker[i]
    BY <1>1, <2>1 DEF WorkTypeOK
  <2>4. WorkTypeOK' /\ SelectionsIssued'
    BY <1>1, <2>2, <2>3 DEF WorkTypeOK, SelectionsIssued, Rows, keys
  <2>5. /\ MachineTypeOK' /\ UnissuedUntouched' /\ LockExclusive'
        /\ ReplacedHasSuccessor' /\ OneSuccessor' /\ RevokedOnce'
        /\ AutoRevokedWasReplaced' /\ FlagCountsAlerts'
    BY <1>1, <2>2
       DEF MachineTypeOK, UnissuedUntouched, LockExclusive, Actionable,
           ReplacedHasSuccessor, OneSuccessor, RevokedOnce,
           AutoRevokedWasReplaced, FlagCountsAlerts, Rows, keys
  <2> QED  BY <2>4, <2>5 DEF MachineInd
<1>14. ASSUME NEW j \in Jobs, AlertSelect(j)
      PROVE  MachineInd'
  <2>1. /\ alerter' \in [Jobs -> SUBSET Keys]
        /\ \A i \in Jobs : \A x \in alerter'[i] :
             x \in alerter[i] \/ (x \in Rows)
    BY <1>1, <1>14, RowFacts DEF AlertSelect, WorkTypeOK
  <2>2. UNCHANGED <<keys, admin, revoker, orgRevocation, keyUse, audits, overlapAlerts>>
    BY <1>14 DEF AlertSelect
  <2>3. WorkTypeOK' /\ SelectionsIssued'
    BY <1>1, <2>1, <2>2 DEF WorkTypeOK, SelectionsIssued, Rows, keys
  <2>4. /\ MachineTypeOK' /\ UnissuedUntouched' /\ LockExclusive'
        /\ ReplacedHasSuccessor' /\ OneSuccessor' /\ RevokedOnce'
        /\ AutoRevokedWasReplaced' /\ FlagCountsAlerts'
    BY <1>1, <2>2
       DEF MachineTypeOK, UnissuedUntouched, LockExclusive, Actionable,
           ReplacedHasSuccessor, OneSuccessor, RevokedOnce,
           AutoRevokedWasReplaced, FlagCountsAlerts, Rows, keys
  <2> QED  BY <2>3, <2>4 DEF MachineInd
<1>15. ASSUME NEW j \in Jobs, AlertClaim(j)
      PROVE  MachineInd'
  <2>1. PICK k \in alerter[j] :
          /\ alerter' = [alerter EXCEPT ![j] = @ \ {k}]
          /\ alerted' = [alerted EXCEPT ![k] = TRUE]
          /\ overlapAlerts' = [overlapAlerts EXCEPT ![k] = IF alerted[k] THEN @ ELSE @ + 1]
    BY <1>15 DEF AlertClaim
  <2>2. UNCHANGED <<keyCount, from, revokedBy, overlap, expiry, everUsed, admin,
                    revoker, orgRevocation, keyUse, audits>>
    BY <1>15 DEF AlertClaim
  <2>3. k \in Rows /\ k \in Keys /\ ~(k > keyCount)
    BY <1>1, <2>1, RowFacts DEF SelectionsIssued, Rows
  <2>4. /\ alerter' \in [Jobs -> SUBSET Keys]
        /\ \A i \in Jobs : alerter'[i] \subseteq alerter[i]
    BY <1>1, <2>1 DEF WorkTypeOK
  <2>5. /\ alerted' \in [Keys -> BOOLEAN] /\ alerted'[k] = TRUE
        /\ \A x \in Keys : x # k => alerted'[x] = alerted[x]
    BY <1>1, <2>1, <2>3 DEF MachineTypeOK
  <2>6. /\ overlapAlerts' \in [Keys -> Nat]
        /\ overlapAlerts'[k] = IF alerted[k] THEN overlapAlerts[k] ELSE overlapAlerts[k] + 1
        /\ \A x \in Keys : x # k => overlapAlerts'[x] = overlapAlerts[x]
    BY <1>1, <2>1, <2>3 DEF WorkTypeOK
  <2>7. MachineTypeOK' /\ WorkTypeOK'
    BY <1>1, <2>2, <2>4, <2>5, <2>6 DEF MachineTypeOK, WorkTypeOK, Rows
  <2>8. UnissuedUntouched' /\ SelectionsIssued'
    BY <1>1, <2>2, <2>3, <2>4, <2>5, <2>6 DEF UnissuedUntouched, SelectionsIssued, Rows
  <2>9. FlagCountsAlerts'
    <3>1. overlapAlerts'[k] <= 1
      BY <1>1, <2>3, <2>6 DEF FlagCountsAlerts, WorkTypeOK
    <3> QED  BY <1>1, <2>5, <2>6, <3>1 DEF FlagCountsAlerts
  <2>10. /\ LockExclusive' /\ ReplacedHasSuccessor' /\ OneSuccessor'
         /\ RevokedOnce' /\ AutoRevokedWasReplaced'
    BY <1>1, <2>2
       DEF LockExclusive, Actionable, ReplacedHasSuccessor, OneSuccessor,
           RevokedOnce, AutoRevokedWasReplaced, Rows
  <2> QED  BY <2>7, <2>8, <2>9, <2>10 DEF MachineInd
<1>16. CASE Deactivate
  <2>1. MachineTypeOK'
    BY <1>1, <1>16, KeyBounds, WorkStateFacts, RowFacts
       DEF Deactivate, keys, work, MachineTypeOK, Causes, Keys, Rows,
           WorkTypeOK, SelectionsIssued
  <2>2. /\ WorkTypeOK' /\ UnissuedUntouched' /\ SelectionsIssued'
        /\ LockExclusive' /\ ReplacedHasSuccessor' /\ OneSuccessor'
        /\ RevokedOnce' /\ AutoRevokedWasReplaced' /\ FlagCountsAlerts'
    BY <1>1, <1>16
       DEF Deactivate, keys, work, WorkTypeOK, Keys, UnissuedUntouched,
           SelectionsIssued, Rows, LockExclusive, Actionable,
           ReplacedHasSuccessor, OneSuccessor, RevokedOnce,
           AutoRevokedWasReplaced, FlagCountsAlerts
  <2> QED  BY <2>1, <2>2
              DEF MachineInd
<1>17. CASE BulkScan
  <2>1. MachineTypeOK'
    BY <1>1, <1>17, KeyBounds, WorkStateFacts, RowFacts
       DEF BulkScan, Rows, keys, MachineTypeOK, Causes, Keys, WorkTypeOK,
           SelectionsIssued
  <2>2. WorkTypeOK'
    BY <1>1, <1>17, KeyBounds, WorkStateFacts, RowFacts
       DEF BulkScan, Rows, keys, WorkTypeOK, Keys, MachineTypeOK, Causes,
           SelectionsIssued, UnissuedUntouched
  <2>3. SelectionsIssued'
    BY <1>1, <1>17, KeyBounds, WorkStateFacts, RowFacts
       DEF BulkScan, Rows, keys, SelectionsIssued, MachineTypeOK, Causes,
           Keys, WorkTypeOK, UnissuedUntouched, LockExclusive, Actionable,
           ReplacedHasSuccessor
  <2>4. /\ UnissuedUntouched' /\ LockExclusive' /\ ReplacedHasSuccessor'
        /\ OneSuccessor' /\ RevokedOnce' /\ AutoRevokedWasReplaced'
        /\ FlagCountsAlerts'
    BY <1>1, <1>17
       DEF BulkScan, Rows, keys, UnissuedUntouched, Keys, LockExclusive,
           Actionable, ReplacedHasSuccessor, OneSuccessor, RevokedOnce,
           AutoRevokedWasReplaced, FlagCountsAlerts
  <2> QED  BY <2>1, <2>2, <2>3, <2>4
              DEF MachineInd
<1>18. CASE RevokeOrgKeys
  <2> DEFINE ks == {k \in orgRevocation.keys : revokedBy[k] = "no"}
  <2>1. ks \in SUBSET Rows /\ RevokeAs(ks, "bulk")
        /\ \A x \in ks : ~Locked(x) /\ revokedBy[x] = "no"
    BY <1>1, <1>18 DEF RevokeOrgKeys, SelectionsIssued
  <2> HIDE DEF ks
  <2>2. /\ MachineTypeOK' /\ LockExclusive' /\ ReplacedHasSuccessor'
        /\ RevokedOnce' /\ AutoRevokedWasReplaced' /\ audits' \in [Keys -> Nat]
        /\ \A x \in Keys : x > keyCount => audits'[x] = audits[x]
    BY <1>18, <2>1, PlainRevocation DEF RevokeOrgKeys
  <2>3. WorkTypeOK' /\ SelectionsIssued'
    BY <1>1, <1>18, <2>2, WorkStateFacts
       DEF RevokeOrgKeys, WorkTypeOK, SelectionsIssued, Rows
  <2>4. UnissuedUntouched' /\ OneSuccessor' /\ FlagCountsAlerts'
    BY <1>1, <1>18, <2>2
       DEF RevokeOrgKeys, UnissuedUntouched, OneSuccessor, FlagCountsAlerts, Rows
  <2> QED  BY <2>2, <2>3, <2>4 DEF MachineInd
<1>19. CASE ExchangeFinish
  <2>1. MachineTypeOK'
    BY <1>1, <1>19, KeyBounds, WorkStateFacts, RowFacts
       DEF ExchangeFinish, Adopted, Rows, MachineTypeOK, Causes, Keys,
           WorkTypeOK, SelectionsIssued
  <2>2. WorkTypeOK'
    BY <1>1, <1>19, KeyBounds, WorkStateFacts, RowFacts
       DEF ExchangeFinish, Adopted, Rows, WorkTypeOK, Keys, MachineTypeOK,
           Causes, SelectionsIssued, UnissuedUntouched
  <2>3. /\ UnissuedUntouched' /\ SelectionsIssued' /\ LockExclusive'
        /\ ReplacedHasSuccessor' /\ OneSuccessor' /\ RevokedOnce'
        /\ AutoRevokedWasReplaced' /\ FlagCountsAlerts'
    BY <1>1, <1>19
       DEF ExchangeFinish, Adopted, Rows, UnissuedUntouched, Keys,
           SelectionsIssued, LockExclusive, Actionable, ReplacedHasSuccessor,
           OneSuccessor, RevokedOnce, AutoRevokedWasReplaced,
           FlagCountsAlerts
  <2> QED  BY <2>1, <2>2, <2>3
              DEF MachineInd
<1>20. CASE UNCHANGED machineVars
  BY <1>1, <1>20
     DEF machineVars, keys, work, Actionable, AutoRevokedWasReplaced, Causes,
         FlagCountsAlerts, Keys, LockExclusive, MachineInd, MachineTypeOK,
         OneSuccessor, ReplacedHasSuccessor, RevokedOnce, Rows,
         SelectionsIssued, UnissuedUntouched, WorkTypeOK
<1> QED  BY <1>2, <1>3, <1>4, <1>5, <1>6, <1>7, <1>8, <1>9, <1>10, <1>11,
            <1>12, <1>13, <1>14, <1>15, <1>16, <1>17, <1>18, <1>19, <1>20
            DEF MachineNext

\* The newest key has no successor, so neither the worker nor an emergency
\* revoked it.
LEMMA NewestKeyLives == MachineInd => ZeroDowntime
<1> SUFFICES ASSUME MachineInd,
                    \A k \in Rows : revokedBy[k] \notin {"manual", "bulk"}
             PROVE  \E k \in Rows : revokedBy[k] = "no"
  BY DEF ZeroDowntime
<1>1. MachineTypeOK /\ AutoRevokedWasReplaced /\ ReplacedHasSuccessor
  BY DEF MachineInd
<1>2. keyCount \in Rows /\ keyCount \in Keys
  BY <1>1, RowFacts DEF Rows
<1>3. \A s \in Rows : from[s] # keyCount
  <2>1. \A s \in Rows : s \in Nat /\ s <= keyCount /\ from[s] < s /\ from[s] \in Nat
    BY <1>1, RowFacts DEF MachineTypeOK, Rows
  <2> QED  BY <1>1, <2>1, RowFacts
<1>4. revokedBy[keyCount] \notin {"overlap", "emergency"}
  BY <1>1, <1>2, <1>3 DEF AutoRevokedWasReplaced, ReplacedHasSuccessor
<1>5. revokedBy[keyCount] \in {"manual", "overlap", "emergency", "bulk", "no"}
  BY <1>1, <1>2 DEF MachineTypeOK, Causes
<1> QED  BY <1>2, <1>4, <1>5

\* For every number of administrators, worker runs and keys: one successor, one
\* audited revocation and one alert per key, no key revoked for its age without a
\* replacement, and no rotation that leaves the machine user without a key.
THEOREM MachineAlwaysSafe == MachineSpec => []MachineSafe
<1>1. MachineInd => MachineSafe
  <2>1. MachineInd => AlertedOnce
    <3> SUFFICES ASSUME MachineInd, NEW k \in Rows PROVE overlapAlerts[k] <= 1
      BY DEF AlertedOnce
    <3>1. k \in Keys /\ overlapAlerts[k] \in Nat
      BY RowFacts DEF MachineInd, WorkTypeOK
    <3> QED  BY <3>1 DEF MachineInd, FlagCountsAlerts
  <2> QED  BY <2>1, NewestKeyLives DEF MachineInd, MachineSafe
<1>2. MachineInd /\ [MachineNext]_machineVars => MachineInd'
  BY MachinePreserved
<1> QED  BY <1>1, <1>2, MachineInitInd, PTL DEF MachineSpec
=============================================================================
