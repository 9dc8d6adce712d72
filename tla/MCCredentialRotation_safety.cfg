SPECIFICATION Spec
CONSTANTS
  Deps = {d1}
  MaxVersions = 4
  MaxRetries = 1
  RetentionCount = 1
INVARIANTS
  IndInv
  AlwaysServable
  FallbackProtected
PROPERTIES
  GivenUpStaysGivenUp
  CurrentNotPurgedInOrder
  ImplementsPromise
