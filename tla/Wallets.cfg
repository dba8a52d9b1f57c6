\* Four requests on one wallet: credits, purchases, balance reads, a top-up and
\* two withdrawals, approved or rejected, an automatic payout, with crashes.
SPECIFICATION PayoutsSpec
CONSTANTS
  u1 = u1
  r1 = r1
  r2 = r2
  r3 = r3
  r4 = r4
  t1 = t1
  w1 = w1
  w2 = w2
  i1 = i1
  None = None
  Users <- OneUser
  Workers <- FourWorkers
  Credits <- Earnings
  Payments <- Purchases
  TopUps <- OneTopUp
  Withdrawals <- TwoWithdrawals
  AmountOf <- Amounts
  UserOf <- Owners
  PayoutItems <- OneItem
  PayoutOf <- ItemAmounts
  VendorOf <- Vendors
  MaxLogs = 3
  Methods <- PayoutMethods
SYMMETRY SameWorkers
INVARIANTS
  BalanceExplained
  NeverOverspent
  DepositedOnce
  PaidOnce
  PayoutsReachTheBooks
CHECK_DEADLOCK FALSE
