SPECIFICATION FairSpec
CONSTANTS
  Deps = {d1}
  MaxVersions = 3
  MaxRetries = 1
  RetentionCount = 1
PROPERTIES
  WorkersProgress
