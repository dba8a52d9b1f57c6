\* Three requests, and a clerk who edits the suspended cart that two sales want; part of the sale on
\* credit is settled.
SPECIFICATION PosSpec
CONSTANTS
  sale = sale
  credit = credit
  return = return
  cart = cart
  session = session
  register = register
  r1 = r1
  r2 = r2
  r3 = r3
  r4 = r4
  clerk = clerk
  clerk2 = clerk2
  settle = settle
  None = None
  NoEntry = NoEntry
  Sessions = {}
  RegisterOf <- Registers
  Carts = {cart}
  Clerks = {clerk}
  Checkouts = {sale, credit, return}
  EntryKeys <- Keys
  Accounts <- ChartOfAccounts
  Requests = {r1, r2, r3}
  Dto <- ThreeCheckouts
  Costs = {60}
  Settlements <- PartOfTheCredit
SYMMETRY Symmetry
\* Every request runs once: the shop may close.
CHECK_DEADLOCK FALSE
INVARIANTS
  MovedOnce
  CartSoldOnce
  ProcessedIsBooked
  VoidedIsReversed
  AccountsAgree
PROPERTIES
  KeepsPromise
