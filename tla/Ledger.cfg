\* Two transactions with the calls of any of the ledger's callers, over two
\* products and three branches: races, refusals, rollbacks and deadlocks.
SPECIFICATION LedgerSpec
CONSTANTS
  b1 = b1
  b2 = b2
  b3 = b3
  p1 = p1
  p2 = p2
  t1 = t1
  t2 = t2
  None = None
  Branches = {b1, b2, b3}
  Products = {p1, p2}
  Transactions <- TwoTransactions
  Programs <- AllPrograms
  InitialRows <- StockedRows
\* Every transaction runs once: the system may stop.
CHECK_DEADLOCK FALSE
INVARIANTS
  LedgerTypeOK
  AvailabilityCurrent
  OnHandExplained
  StockQuantityCurrent
PROPERTIES
  TransactionsEnd
