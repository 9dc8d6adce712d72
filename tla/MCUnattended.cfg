SPECIFICATION Spec
CONSTANTS
  Admins = {a1, a2}
  Jobs = {j1}
  MaxKeys = 3
  MaxKeyUses = 1
  Ticks = {t1, t2}
  Members = {m1, m2}
  MaxThreshold = 2
  MaxAlerts = 2
CHECK_DEADLOCK FALSE
SYMMETRY Symmetry
INVARIANTS
  MachineSafe
  HealthSafe
