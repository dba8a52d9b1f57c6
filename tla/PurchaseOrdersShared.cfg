\* Two orders of one branch, two lines each, that all share an inventory row;
\* one request at a time.
SPECIFICATION Spec
CONSTANTS
  o1 = o1
  o2 = o2
  i1 = i1
  i2 = i2
  p1 = p1
  b1 = b1
  r1 = r1
  r2 = r2
  Idle = Idle
  Products = {p1}
  Branches = {b1}
  PurchaseOrderIds <- TwoOrders
  BranchOf <- SameBranch
  Items <- TwoLines
  ProductOf <- TwoLinesProduct
  UnitPrice <- TwoLinesPrice
  Quantities = {0, 1}
  Defects = {0, 1}
  Roles = {"ADMIN", "BUYER", "SUPPLIER"}
  OrderRequests = {1}
  EventRequests = {}
  MaxEvents = 2
SYMMETRY OrderSymmetry
\* Orders end: the system may stop.
CHECK_DEADLOCK FALSE
INVARIANTS
  InboundMatchesOpenOrders
  PayablesMatchReceipts
