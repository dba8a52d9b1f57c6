\* Two requests in a register session that opens and closes.
SPECIFICATION PosFairSpec
CONSTANTS
  sale = sale
  credit = credit
  return = return
  cart = cart
  session = session
  register = register
  r1 = r1
  r2 = r2
  r3 = r3
  r4 = r4
  clerk = clerk
  clerk2 = clerk2
  settle = settle
  None = None
  NoEntry = NoEntry
  Sessions = {session}
  RegisterOf <- Registers
  Carts = {}
  Clerks = {clerk}
  Checkouts = {sale, return}
  EntryKeys <- Keys
  Accounts <- ChartOfAccounts
  Requests = {r1, r2}
  Dto <- ThreeCheckouts
  Costs = {60}
  Settlements <- NoSettlement
\* Every request runs once: the shop may close.
CHECK_DEADLOCK FALSE
PROPERTIES
  CheckoutsSettle
