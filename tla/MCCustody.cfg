SPECIFICATION Spec
CONSTANTS
  Requests = {q1, q2}
  MaxAttempts = 2
  MaxGuesses = 2
  MaxSends = 2
  MaxMisses = 3
  MaxViews = 2
  Shares = {s1, s2}
  Fields = {"user", "password"}
  PendingCap = 1
  VaultRequests = {r1, r2}
  Credentials = {c1, c2}
  MaxRestarts = 1
  Admins = {a1}
  Jobs = {j1, j2}
  MaxKeys = 2
  MaxKeyUses = 1
CHECK_DEADLOCK FALSE
INVARIANTS
  RevealSafe
  CreationSafe
  VaultSafe
  MachineSafe
PROPERTIES
  RotatedFieldsClosed
  DueEventuallyCloses
  RefusalHarmless
  HookRegistersOrFails
  OverlapEnds
