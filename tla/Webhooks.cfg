\* Two processes retry the deliveries of one subscription beside one request at
\* a time, which may die: events, replays, resuming and pausing.
SPECIFICATION FairSpec
CONSTANTS
  s1 = s1
  s2 = s2
  c1 = c1
  c2 = c2
  r1 = r1
  Subscriptions <- TwoSubscriptions
  CronJobs <- TwoCronJobs
  Requests <- OneRequest
  MaxAttempts = 2
  Threshold = 2
  RetryLimit = 1
  MaxDeliveries = 2
  Administered = {s1}
  Mortal = {r1}
  MaxCrashes = 1
INVARIANTS
  AcceptedOnce
  GivenUpAfterAllAttempts
  PausedWhileFailing
PROPERTY FailuresSettle
