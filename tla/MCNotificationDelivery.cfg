SPECIFICATION FairSpec
CONSTANTS
  w1 = w1
  w2 = w2
  Workers = {w1, w2}
  Kinds = {"smtp", "provider", "unrouted", "inbox", "digest"}
  MaxAttempts = 3
  MaxJobs = 2
  MaxSends = 2
CHECK_DEADLOCK FALSE
INVARIANTS
  DeliverySafe
PROPERTIES
  RankForward
  EventuallySettled
