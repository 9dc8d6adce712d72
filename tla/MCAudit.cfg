SPECIFICATION Spec
CONSTANTS
  Writers = {w1, w2}
  Retentions = {1}
  Untils = {4}
  MaxSeq = 4
  MaxTime = 3
  MaxLost = 1
  Charges = {c1, c2}
  Operators = {o1}
  Sizes = {2}
  StoredSizes = {1, 3}
  Quotas = {4}
  Rates = {1}
  DefaultQuota = 3
  DefaultRate = 2
  EntrySize = 1
  MaxUsed = 4
  MaxCount = 2
  MaxChanges = 1
CHECK_DEADLOCK FALSE
SYMMETRY Symmetry
INVARIANTS
  ChainSafe
  QuotaSafe
PROPERTIES
  QuotaSteps
