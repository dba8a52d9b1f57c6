\* One order, up to three partial receipts, one request at a time on the
\* order and one on its receipt events.
SPECIFICATION Spec
CONSTANTS
  o1 = o1
  o2 = o2
  i1 = i1
  i2 = i2
  p1 = p1
  b1 = b1
  r1 = r1
  r2 = r2
  Idle = Idle
  Products = {p1}
  Branches = {b1}
  PurchaseOrderIds <- OneOrder
  BranchOf <- OneBranch
  Items <- OneLine
  ProductOf <- OneLineProduct
  UnitPrice <- OneLinePrice
  Quantities = {0, 1, 2}
  Defects = {0, 1, 2}
  Roles = {"ADMIN", "BUYER", "SUPPLIER"}
  OrderRequests = {1}
  EventRequests = {1}
  MaxEvents = 3
\* Orders end: the system may stop.
CHECK_DEADLOCK FALSE
INVARIANTS
  NeverOverReceived
  ReceiptsPostedOnce
  EventsExplainOrder
PROPERTIES
  ReconciledOnlyWhenSettled
  EndedOrdersAreFrozen
