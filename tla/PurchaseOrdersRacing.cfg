\* Two requests on the same order overlap in every way.
SPECIFICATION Spec
CONSTANTS
  o1 = o1
  o2 = o2
  i1 = i1
  i2 = i2
  p1 = p1
  b1 = b1
  r1 = r1
  r2 = r2
  Idle = Idle
  Products = {p1}
  Branches = {b1}
  PurchaseOrderIds <- OneOrder
  BranchOf <- OneBranch
  Items <- OneLine
  ProductOf <- OneLineProduct
  UnitPrice <- OneLinePrice
  Quantities = {0, 1}
  Defects = {0, 1}
  Roles = {"ADMIN", "BUYER", "SUPPLIER"}
  OrderRequests <- TwoRequests
  EventRequests = {}
  MaxEvents = 2
SYMMETRY RequestSymmetry
\* Orders end: the system may stop.
CHECK_DEADLOCK FALSE
INVARIANTS
  TypeOK
  StockCoversReceipts
  PostingsAgree
