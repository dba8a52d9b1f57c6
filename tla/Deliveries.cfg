\* An order of two items, two requests at a time, a dispute.
SPECIFICATION DeliveriesSpec
CONSTANTS
  o1 = o1
  r1 = r1
  r2 = r2
  None = None
  Orders <- OneOrder
  Workers <- TwoWorkers
  ItemCount = 2
  Methods <- EbirrAndMpesa
  ItemStatuses <- AdminStatuses
  MaxHandlers = 4
CONSTRAINT SomeOrderIntact
SYMMETRY SameWorkers
INVARIANTS
  ReservationKept
  CancelledHoldsNothing
  CreditedOncePaid
  RefundedOncePerDispute
PROPERTIES
  PaidStaysPaid
CHECK_DEADLOCK FALSE
