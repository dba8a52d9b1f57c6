\* One process retries the deliveries of a subscription, and nothing overlaps.
SPECIFICATION SequentialSpec
CONSTANTS
  s1 = s1
  s2 = s2
  c1 = c1
  c2 = c2
  r1 = r1
  Subscriptions <- OneSubscription
  CronJobs <- OneCronJob
  Requests <- OneRequest
  MaxAttempts = 2
  Threshold = 1
  RetryLimit = 2
  MaxDeliveries = 2
  Administered = {s1}
  Mortal = {}
  MaxCrashes = 0
INVARIANT
  ResumedByForceOnly
