SPECIFICATION AccountSpec
CONSTANTS
  Calls = {c1}
  Window = 0
  UsedTtl = 2
  MaxGuesses = 2
  MaxStep = 2
  MaxSecrets = 2
  MaxBatches = 2
  MaxLinks = 1
CHECK_DEADLOCK FALSE
INVARIANT
  RecoveryKeepsFactor
