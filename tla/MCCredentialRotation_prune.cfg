SPECIFICATION Spec
CONSTANTS
  Deps = {}
  MaxVersions = 4
  MaxRetries = 1
  RetentionCount = 1
PROPERTIES
  PruneKeepsCurrent
