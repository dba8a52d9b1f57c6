\* A paid order that is delivered.
SPECIFICATION DeliveriesSpec
CONSTANTS
  o1 = o1
  r1 = r1
  r2 = r2
  None = None
  Orders <- OneOrder
  Workers <- TwoWorkers
  ItemCount = 1
  Methods <- EbirrOnly
  ItemStatuses <- AdminStatuses
  MaxHandlers = 2
CONSTRAINT SomeOrderIntact
SYMMETRY SameWorkers
INVARIANT EarnsOnce
CHECK_DEADLOCK FALSE
