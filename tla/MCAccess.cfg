SPECIFICATION Spec
CONSTANTS
  MaxSessions = 3
  Cap = 1
  memberBrowser = memberBrowser
  operatorBrowser = operatorBrowser
  Browsers = {memberBrowser, operatorBrowser}
  Operators = {operatorBrowser}
  None = None
  StepUpLimit = 2
  MaxInterval = 3
  MaxTokens = 3
  MaxCredentials = 2
  MaxExchanges = 2
  Calls = {c1, c2}
  Window = 0
  UsedTtl = 2
  MaxGuesses = 2
  MaxStep = 2
  MaxSecrets = 2
  MaxBatches = 2
  MaxLinks = 1
CHECK_DEADLOCK FALSE
SYMMETRY Symmetry
INVARIANTS
  SessionSafe
  CliSafe
  AccountSafe
PROPERTIES
  SessionSteps
  CliSteps
