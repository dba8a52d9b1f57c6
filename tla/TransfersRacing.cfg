\* Handlers of two transfers, a restock and a sale overlap.
SPECIFICATION TransfersSpec
CONSTANTS
  b1 = b1
  b2 = b2
  p1 = p1
  p2 = p2
  t1 = t1
  t2 = t2
  t3 = t3
  x1 = x1
  x2 = x2
  None = None
  Branches = {b1, b2}
  Products = {p1}
  Transactions <- ThreeTransactions
  Programs <- RestockAndSale
  InitialRows <- OneUnitEach
  TransferIds = {x1, x2}
  TransferQuantities = {1}
  ReorderQuantity = 1
SYMMETRY Symmetry
\* Every transaction runs once: the system may stop.
CHECK_DEADLOCK FALSE
INVARIANTS
  MovedWhenReceived
  TransfersConserveUnits
  OutboundMatchesDispatched
  UnitsOnTheirWayAreInStock
