# A verification project for suuq-backend

suuq-backend is the NestJS/TypeORM/PostgreSQL backend of a marketplace with a
retail (point of sale) product. At its core are stock (what a branch holds, what is
promised, what is on its way, and the documents that move it) and money (what
registers book, what customers pay, what vendors earn and are paid). This directory
holds TLA+ models of that core, the TLC configurations that check them, and TLAPS
proofs of the most important properties of purchase orders, the stock ledger, checkouts,
wallets, online orders and procurement webhooks.

Paths are relative to the repository, whose sources are under `src/src/`.

## 1. The system

### Components, their state and how they interact

| Component | State | Operations | Correct when | Model |
|---|---|---|---|---|
| Branch inventory ledger (`branches/inventory-ledger.service.ts`) | `branch_inventory` (one row per branch and product), `stock_movements`, `product.stockQuantity` | `recordMovement`, `adjustInboundOpenPo`, `adjustReservedOnline`, `adjustOutboundTransfers` | no count is negative; on-hand is explained by the movements; availability and the product's total are current | `BranchInventory`, `InventoryLedger` |
| Purchase orders (`purchase-orders/`) | orders, lines, receipt events | `create`, `updateStatus`, `recordReceiptEvent`, acknowledge / resolve / approve / force-close of a discrepancy | receipts stay within the order and reach stock, payables and the receipt log once; an order is settled before it is reconciled, and frozen afterwards | `PurchaseOrders` |
| Branch transfers (`branches/branch-transfers.service.ts`) | transfers and their items | `create`, `dispatch`, `receive`, `cancel` | units leave one branch and arrive in the other, once; what is on its way is reserved | `BranchTransfers` |
| POS checkout (`pos-sync/pos-checkout.service.ts`) | checkouts | `ingest`, `voidCheckout`, `settleReceivable` | goods move once, whatever the client repeats; books follow goods | `PosCheckouts`, `GoodsAndBooks` |
| POS register (`pos-sync/pos-register.service.ts`) | sessions, suspended carts | open, close; suspend, resume, update, discard | a cart is sold once | `PosRegister` |
| General ledger (`accounting/general-ledger.service.ts`) | journal entries and lines | `post`, `reverse`, `balance` | every entry balances, is posted once per key and reversed at most once | `GeneralLedger` |
| Online orders (`orders/orders.service.ts`) | orders, items, `onlineReservationReleasedAt`, disputes | create, pay, decline, cancel, delete, update, dispute, resolve, refund | what is reserved is what open orders need, released once; a payment is never taken back; credits and refunds happen once | `OnlineOrders` |
| Deliverers (`deliverer/deliverer.service.ts`) | the order's deliverer and status | assign, accept, reject, pick up, deliver, fail | the same, with deliveries among them | `Deliveries` |
| Wallet, withdrawals (`wallet/`, `withdrawals/`) | balances, transactions, top-ups, withdrawals | credit, debit, pay, read, approve, reject | the balance is the sum of the transactions; nothing is deposited, paid or spent twice | `Wallets` |
| Vendor payouts (`orders/orders.service.ts`, `wallet/`) | `payout_log` | automatic payout, retry, reconciliation | what the provider paid is debited or flagged | `VendorPayouts` |
| Procurement webhooks (`procurement-webhooks/`) | subscriptions, deliveries | dispatch, retry, replay, pause, resume | a delivery is accepted once or given up after its retries; a failing subscription is paused | `ProcurementWebhooks` |
| Replenishment (`branches/replenishment.service.ts`) | draft purchase orders | create, merge, submit drafts | one draft per supplier; nothing ordered twice | its effect on rows only |
| Variant inventory, POS sync, credit | rows per variant; sync jobs; credit usage | | | not modelled, see 6 |

`PROJECT.json` lists the remaining components (catalogue, users, notifications,
dashboards, ...) with the reason each is left out.

How they meet. *Stock*: purchase orders, transfers and POS checkouts call the ledger
inside a database transaction of their own (they pass an `EntityManager`); online
orders call it without one, so every statement of such a call commits by itself.
Dispatching a transfer may trigger replenishment, which may submit a purchase order,
which calls the ledger again, all in the transfer's transaction. *Books*: receipts of
purchase orders post to the general ledger in their transaction, checkouts after it,
best effort. *Money*: a payment callback credits the vendors of an order and may pay
them out at once; a delivery credits them too; disputes charge them back and refund
the buyer; withdrawals and payouts go to an external provider that may pay and not be
heard. Several Node processes run this code (`ecosystem.production.config.js:7`,
`instances: 'max'`), each with its own copy of every `@Cron` job.

### What is hard in it

* **Unlocked read, decide, save.** Almost every handler loads an entity without a
  lock, checks and changes it in memory, and saves it later. PostgreSQL runs
  READ COMMITTED. There is no optimistic lock: `branch_inventory.version` is an
  ordinary column that is incremented and never compared.
* **`save()` is not an UPDATE of the row.** TypeORM's `save()` selects the row
  again and updates only the columns in which the entity differs from what it
  then finds. Overlapping saves therefore neither overwrite nor fail: they *merge*
  column by column, write back columns the handler never meant to touch, or write
  nothing at all. Rows of several counts model the merge itself (`Column`,
  `SavedRecord` in `BranchInventory`); where the two halves of `save()` may be one step,
  the row becomes the copy, stale columns included.
* **Derived state kept by deltas**: inbound units, reserved units, availability
  and the product's total are all maintained step by step.
* **Two queries before one save**, as in the reconciliation of an order.
* **Locks in the callers' order** of lines, hence deadlocks.
* **Failures half-way**: requests that throw, lose their connection or die
  between statements, inside a transaction or outside one; payments made before
  they are recorded, or recorded before they are made.
* **Repetition**: registers repeat checkouts, providers repeat callbacks, admins
  approve twice, cron jobs of several processes retry the same rows.

The hazards are listed, each at its line, in `PROJECT.json`.

## 2. The modules

    Sums                     pure: the sum of a column over a finite set of rows
    BranchInventory          pure: one row, what a ledger call computes, save()
      CommonTheorems         lemmas about sums and about one row
      PurchaseOrders         order life cycle, receipts, discrepancies
        MCPurchaseOrders         constants for TLC
        PurchaseOrdersProofs     types; receipts, postings, payables, inbound units
      InventoryLedger        database transactions over the rows
        MCInventoryLedger        constants for TLC
        InventoryLedgerProofs    types; availability, on-hand units, product.stockQuantity
        BranchTransfers      transfers as transactions of InventoryLedger
          MCBranchTransfers      constants for TLC
          BranchTransfersProofs  units are conserved, move once, are reserved, in stock
    PosRegister              sessions and suspended carts
    GeneralLedger            the journal
      PosCheckouts           (both) checkouts, voids, their postings
        GoodsAndBooks            what they promise; implemented by PosCheckouts
        MCPosCheckouts           constants for TLC
        PosCheckoutsProofs       goods, carts, voids; the implementation of GoodsAndBooks
    OnlineOrders             orders, payments, disputes
      Deliveries             with the deliverers' handlers
        MCDeliveries             constants for TLC
        DeliveriesProofs         types; reservations, credits, refunds; payments stay
    Wallets                  balances, top-ups, withdrawals
      VendorPayouts          automatic payouts from the same wallets
        MCVendorPayouts          constants for TLC
        VendorPayoutsProofs      types; papers settled once; balances; payouts
    ProcurementWebhooks      deliveries, retries, pausing
      MCProcurementWebhooks      constants for TLC
      WebhooksProofs             types; accepted once; all attempts; failing is paused

Operators whose comment starts with "Mutant:" are not part of the models. Each
is a plausible mistake in the code, and the property it is paired with in
`PROJECT.json` is violated when it replaces the definition after it.

### PurchaseOrders

A handler is split where the code gives control away: `Load...` (the order is read
outside any transaction, checked and changed in memory), `CheckEvents` (the second
query of a reconciliation), `SelectOrder` (the SELECT of `save(order)`), `LockOrder`
(its UPDATE, which locks the order), `Commit`. `Abandon` is an exception or a crash
at any of these points. Discrepancy handlers are `EditEvent` then `SaveEvent`.
`orderRequests` and `eventRequests` hold what the requests in flight have in memory.

| Code | Model |
|---|---|
| `PURCHASE_ORDER_TRANSITIONS`, `assertRoleAllowedForStatus` | the relation of that name, `RoleAllowedForStatus` |
| `applyReceiptSideEffects` | `ReceiptSummary`, `ApplyReceipt`, `FitsOrder` |
| `buildInboundOpenPoProjection`, `syncInboundOpenPoProjection` | `InboundOpenPoProjection`, `InboundDelta`, `WriteInventory` |
| `persistReceiptEvent`, `postReceiptEventToLedger` | `RecordReceipt` |
| `assertReadyForReconciliation` | guard of `LoadForStatus`, `CheckEvents` |

Abstractions. Dates, notes, prices' formatting and status metadata other than
`receivedAt` and `latestReceipt` are left out. Inventory rows exist from the start.
The statements between LockOrder and the commit are one step that sees the rows as
they were at LockOrder or as they are now; the full interleaving on one row is the
subject of InventoryLedger, and in the instances checked here the order's lock
serialises the writers of the row, so `staleRow` stays FALSE. The payable of a receipt
is posted in the receipt's own transaction, as in the code; of the journal entry only
its amount is kept.

The history variable `staleOrder` records that a save used an outdated load. Most
safety properties are stated for orders where that has not happened, which is what
the handlers guarantee by themselves; section 3 says what happens otherwise.

### InventoryLedger

`Transactions` run `Programs`: the sequences of ledger calls the callers make. A
call is `ReadRow` (the unlocked `findOne` and the change in memory) or `Refuse`,
`SelectRow` and `UpdateRow` (the two halves of `save()`), or `SkipUpdate` when
`save()` finds nothing to change, or `Collide` when another transaction has
inserted the row; then `SumRows` and `UpdateProduct` (`syncProductStockQuantity`).
`View` is what a READ COMMITTED statement sees, `WaitsFor` the row lock an UPDATE
needs, `AbortDeadlock` PostgreSQL's detector, which aborts a transaction that
`WaitsInTurnFor` itself (all external to the repository and
modelled from its documented behaviour). `Rollback` is an error or a crash at any
time. `EndTransaction` drops what has not been committed; for autocommitted
programs everything done so far stays.

Abstractions. `version`, `lastReceivedAt` and `updatedAt` are left out; an UPDATE
that would change only those is a step that leaves the row as it is and locks it.
The INSERT of a movement is part of `UpdateRow`: nobody reads movements in between.
Columns nothing writes (`reservedQuantity`, `reservedStoreOps`) are 0 throughout.
`recordMovement` with quantity 0, which at most creates an empty row, is left out,
and so is `transferStock`, which nothing calls.

`staleRow` marks rows written from an outdated read; `disturbed` says that
transactions overlapped or that an autocommitted sequence was cut short.

### BranchTransfers

Each handler is a transaction of InventoryLedger: `Dispatch`, `Receive` and `Cancel`
load the transfer and begin, `CallStep` makes the ledger calls of its items in any
order of the items, `SaveTransfer` writes the status and commits. Everything that
can happen to a transaction there happens to a handler here. `OtherCaller` runs
restocks and sales beside them; `TransfersAssumption` says that nobody else calls
`adjustOutboundTransfers`, as is the case in the code. `TakenByOthers` are their movements
that took units away: `recordMovement` lets a sale take what a transfer has reserved. `Calls` is the set of sequences a
handler may make, a recursive function over the sets of items still to be handled.

Abstractions. Replenishment during a dispatch is its effect on the branch's rows:
no reorder, or a submitted order for the dispatched product and possibly others
(`Reorders`). The SELECT and UPDATE of `save(transfer)` are one step with the
commit; the handler's decision is taken from the unlocked load long before.

### PosRegister, GeneralLedger, PosCheckouts

`PosRegister` holds the sessions and suspended carts; each handler is a `Load...` step
(`findSession`, `findSuspendedCart` and the checks) and `SaveSession` or `SaveCart`.
`UpdateSuspendedCart` stands for `updateSuspendedCart` and `ackKitchenCancellations`:
what they change is left out, but they save the whole cart as they loaded it.

`GeneralLedger` has no actions: `Posted` and `Reversed` are the journal after `post()`
and `reverse()`, each one transaction that the unique index on the key serialises.
Amounts are whole cents. No caller puts two lines of one account into an entry, so an
entry's lines are one amount per account: debits positive, credits negative, 0 for none.

`PosCheckouts` runs both. `ingest` is `Ingest` (the lookup of the key), `InsertCheckout`,
`AssertUsable` (session, cart, source sale), `Process` or `Refuse` (the transaction),
`Fail`, `PostSale`, `PostCogs`; `voidCheckout` is `VoidCheckout`, `UpdateVoided`,
`ReverseSale`. `Process` may commit and still go to `Fail`: the connection broke after
the commit. `Crash` ends a request between any two steps. `SplitTenders` and
`SaleLines` compute the entry to the cent, with rounding. Revenue is the total without
tax and never negative; a sale taxed above its total therefore does not balance and, like
one that is overpaid and names no change, is never posted: `ProcessedIsBooked` says so.

Abstractions. The stock movements of a checkout are one counter (`movements`): how the
ledger makes them is the subject of `InventoryLedger`. Prices, items and the promotion
engine are in the constant `Dto`. The three reads of `AssertUsable` are one step.

`GoodsAndBooks` is what a shop may expect: the goods of a checkout move at most once, a
return's after its sale's, and a checkout enters the books at most once, after its
goods, and leaves them at most once. `KeepsPromise` states that `PosCheckouts`
implements it, with `movements` as `goods` and the state of the sale's entry as `books`.

### Wallets, VendorPayouts

A request (`workers`) runs one handler. `debitWallet`, `payWithWallet` and `approveTopUp`
hold the wallet's row lock from read to commit and are one step (`Move`). `creditWallet`
and `recalculateBalance` read and write without it: `ReadForCredit`, `Credit`;
`GetWallet`, `RecalculateBalance`. Top-ups and withdrawals are tested when they are loaded
and never again. `SendPayout` is the external provider: it pays and says so, pays and is
not heard, or refuses. `transactions` is the sum of a wallet's rows, `meant` what the
handlers that wrote them meant to add. A negative credit is the clawback of a refunded
dispute (`orders.service.ts:3146`): `Credit` lowers the balance but writes the absolute
amount as a row (`clawedBack` sums them up), so that the next `RecalculateBalance` pays it
back; `clawedSince` is what no recalculation has paid back yet.

`VendorPayouts` adds the automatic payouts of order items to the same requests and
wallets: `TryPayout` (`tryAutoEbirrPayoutForItem`, `retryFailedAutoPayout`), `LogPayout`,
`SendItemPayout`, `SavePayout`, `DebitPayout`; a refused debit saves the flag, and then the
FAILED row (`LogRefusal`), in two commits. `WriteFails` is the outer catch: a save that
fails after the provider paid turns the row to FAILED and clears a flag already set.
`LoadForReconciliation`, `DebitException` and `ClearException` are
`reconcilePayoutDebitException`.

Abstractions. One currency: conversion is a pure function applied before these steps.
Descriptions and references are left out; of `failureReason` only whether it asks for
reconciliation is kept.

### OnlineOrders, Deliveries

A handler loads the row of an order, works on the copy (`copy`) and saves it (`Save`).
Between load and save it may reserve (`Reserve`), release (`Release`), credit
(`CreditVendor`, `CreditDelivery`) or refund (`Clawback`, `RefundBuyer`), item by item;
every one of these commits by itself, and `Crash` may come between any two.
`ProviderApproves`, `ProviderDeclines` and `ProviderPends` are the answers of the
background EBIRR request that `createFromCart` starts; `PaymentCallback` is M-Pesa's.
`Deliveries` adds the deliverers' handlers and the specification of both.

Abstractions. An item's status is abstracted to the order's aggregate (`ItemStatuses`
bounds what an admin may make of it). Amounts are left out: how *often* an item is
credited, charged back or refunded is what can go wrong here; what it does to a balance
is the subject of `Wallets`. Item quantities are 1.

The histories `lost` (a handler saved over a version it had not read) and `cut` (one
died or failed half-way) delimit what the handlers guarantee by themselves. Once every
order has met one of them the properties say nothing more; the constraint
`SomeOrderIntact` stops the search there.

### ProcurementWebhooks

`Dispatch` and `ReplayDelivery` create a delivery and attempt it; `RetryFailedDeliveries`
(the cron job) and `ReplayTerminalFailures` load a list once and then go through it.
An attempt is `Post`, `SaveDelivery`, `SaveSubscription`, and after a terminal failure
`CountFailures` and `AutoPause`; each save writes back the whole copy that was loaded with
the list. `LoadForStatus` and `SaveStatus` are `updateSubscriptionStatus`.

Abstractions. Time is what it decides: a retry becomes due (`BackoffEnds`), a failure
stops being recent (`DayEnds`). Payloads, signatures, alerts and reports are left out.
A scan takes `RetryLimit` rows (50 in the code), oldest `nextRetryAt` first; of these times
the order is kept, as the set of due rows `ahead` of each due row. The page of terminal
failures that is replayed is any set of them, in any order.

What a scan skips it leaves as it is, so that the due rows of a paused subscription stay
first: `RetryLimit` of them keep every scan from reaching the failures of other
subscriptions (`Starved`), for as long as nobody resumes it. `FailuresSettle` excepts
exactly this, and without the exception TLC finds it violated.

## 3. The runs

Constants are small sets of model values. Where TLC may stop because every request,
transaction or order has ended, the configuration says `CHECK_DEADLOCK FALSE`.

| Run | Instance | Shows |
|---|---|---|
| `receipts` | one order, one line, quantities up to 2, three receipt events, one order request beside one event request | receipts fit, are posted once, are explained by the events; reconciled only when settled; ended orders frozen |
| `orders` | two orders of one branch, two lines each, all of one product, prices 2 and 5; one request at a time | inbound column of the shared row agrees with the orders, payables with receipts |
| `racing` | two requests on one order, any overlap | types; stock covers receipts; stock, payables and events agree |
| `ledger` | two transactions, two products, three branches (one has no row yet), twelve programs: sales, restocks, transfers, reservations, baskets in opposite orders | no negative count; availability and `product.stockQuantity` current; no stock invented; every transaction ends |
| `transfers_racing` | two transfers, three handlers, a restock or a sale | transfers move, conserve and reserve units |
| `checkouts` | a sale, a sale partly on credit and a return; three requests; a clerk editing the cart both sales want; a settlement | goods move once, a cart is sold once, books follow goods and voids leave them, accounts add up, and `GoodsAndBooks` is implemented |
| `settling` | a sale and its return, two requests, a register session | no checkout stays RECEIVED unless its request was cut off |
| `wallets` | one wallet, four requests, a top-up, two withdrawals, an item to be paid out | balances explained, nothing overspent, papers settled once, payouts debited or flagged |
| `online_orders` | an order of two items paid by EBIRR or M-Pesa, two requests at a time, four handlers after its creation | reservations kept and released once, credits and refunds once, payments not taken back |
| `webhooks` | two subscriptions, one of them administered; two processes whose scans take one row each; one request that may die; two deliveries of two attempts | accepted once, given up after all attempts, paused while failing, no failure forgotten or starved but by rows of a paused subscription |

Bounds. *Purchase orders*: two units per line are enough for a partial receipt, a
discrepancy and an excess; three events for a receipt after a receipt after a receipt.
Two requests suffice for every lost update between a load and a save. *Ledger*: every
transaction runs once, a retry is another transaction; two are enough for every pair of
callers, a refusal, a deadlock and a merge. The third writer a merge of three versions
needs is in `transfers_racing`. *Checkouts*: three requests allow an ingestion, its
repetition and a void to overlap, and amounts are chosen so that change, rounding, tax
and credit all occur (118 cash and 2 card for 115). *Transfers*: a branch has its safety
stock and one unit, which two transfers and a sale want. *Wallets*: four handlers are a
credit, a read, a withdrawal and a payout on one balance; credits are 3 and a clawback of
2, which alone takes a balance below zero; `MaxLogs` = 3 rows per item allow a failure, a retry and the row that flags it. *Online orders*: `MaxHandlers` = 4
after creation reach payment, cancellation, dispute and refund in any order; two items
tell a whole loop from half of one. *Webhooks*: `MaxAttempts` = 2 and `Threshold` = 2 tell
the first failure, the last one, and the one that pauses apart. `RetryLimit` = 1 lets one
row of a paused subscription fill a scan; scans of several rows are in `resumed_silently`
and in the proofs. An admin changes one subscription (`Administered`), the failures of
the other pause it.

`SYMMETRY` is declared on requests, transactions, orders and transfers, in runs without
liveness properties only; no definition distinguishes their elements.

Fairness. Three properties need it.
* `TransactionsEnd`: `LedgerFairness` is strong fairness of each transaction's own next
  step: Node's event loop resumes a handler whose query returned, and PostgreSQL
  serves the waiters of a lock in order and aborts one transaction of every cycle.
* `CheckoutsSettle`: weak fairness of every request's next step. A crash is never
  forced and never prevented; a request that crashed is the property's exception.
* `FailuresSettle`: weak fairness of the processes' next steps, of the retry job, which
  `@Cron(EVERY_10_MINUTES)` starts again and again in every process, and of the
  passing of a backoff. Nothing forces an event, an answer, an admin or a crash.

Nothing forces a caller to begin or an operation to fail.

### Disagreements found

Two `violation` runs each check one property that the repository states and the code
does not keep. Neither needs an overlap.

| Run | Stated | What happens |
|---|---|---|
| `earns_twice` | vendors are credited when an order is marked PAID (`OPS_PAYOUTS.md:9-11`) | `onOrderDelivered` credits the same items again |
| `resumed_silently` | a failing subscription resumes only with `forceResume` | the next delivery of the same scan saves the copy loaded while the subscription was ACTIVE; the run lets a handler start only when all others are idle (`SequentialSpec`) |

More follow from the gaps the models show; no run is spent on them, and the properties
that would fail are checked with the exception that excludes them.

* *Purchase orders.* An order is reconciled while a discrepancy is being reopened (the
  events are checked before the transaction); two receipts merge column by column and
  exceed the order; a transition loaded before a cancellation commits overwrites
  CANCELLED (`purchase-orders.service.ts:985`); an approved discrepancy can be resolved
  again (`:560`).
* *Ledger and transfers.* Two sales of the last unit are both recorded; two sums over
  different branches each miss the other, and `product.stockQuantity` stays wrong; two
  receipts of a transfer both see DISPATCHED; two dispatches both pass the availability
  check before either reserves.
* *Checkouts.* A request that dies after its insert leaves a RECEIVED checkout no retry
  can process. A void that overlaps the ingestion can be overwritten by PROCESSED, or
  find nothing to reverse, after which the sale is posted. When the reply to a commit is
  lost, the checkout is FAILED although its goods have moved and its cart is sold, and
  it is never posted. Goods and cost of a voided checkout stay where they are.
* *Wallets.* A credit overlapping a debit, or a read of the balance overlapping either,
  writes back what was spent, and the money can then be spent again. Two approvals of
  one top-up deposit twice. A withdrawal whose debit is refused after the provider paid
  stays PENDING and can be paid again; so can an item whose payout row the newer FAILED
  row hides, and the debit of one of its payouts is then taken for that of both. A
  clawback's row carries the absolute amount, and the next read of the balance pays the
  vendor what he was charged.
* *Orders.* After a crash between PAID and the credits, the vendors are never credited.
  A seller's cancellation (`CANCELLED_BY_SELLER` by `VendorService`) and a hard deletion
  leave the stock reserved. A late M-Pesa refusal undoes a payment.
* *Webhooks.* Two processes retry one row and post twice. A process that dies between the
  insert and the first attempt's save leaves a PENDING delivery that no job picks up.
  Fifty due rows of a paused subscription fill every scan, and no other subscription's
  failure is retried until it is resumed (`procurement-webhooks.service.ts:1574`).
  An admin's resumption that was allowed before the subscription failed can be saved after
  it failed, was paused and was resumed by force: `reverted` notes it (two requests).

## 4. The proofs

All hold for arbitrary values of the constants. Those about purchase orders are proved
from `ConstantsAssumption` alone (the maps of the constants have the right domains,
quantities are natural numbers, orders and lines are finitely many), those about the ledger from
`LedgerAssumption` (programs are sequences of calls, the rows at the start have a current
availability, branches are finitely many), those about transfers from `TransfersAssumption`
too (quantities are positive, products and transfers finitely many, no other caller changes
`outboundTransfers`),
those about checkouts from `PosAssumption`, `AmountsAssumption` and `JournalAssumption` (only a
return names a source, which is a checkout; keys are keys and `None` is nothing else; amounts
are natural numbers, accounts finitely many and those of a sale among them),
those about wallets from `WalletsAssumption` and `VendorPayoutsAssumption` (payments and papers
have natural amounts, credits any integers, the kinds of papers are disjoint), those about online orders from
`OnlineOrdersAssumption` (an order has an item, `None` is no order), those about webhooks from
`WebhooksAssumption` (there is a subscription, at least one attempt and a threshold of
at least one, processes that may die are processes). What concerns a single row of stock
is proved once, in `CommonTheorems`, and so is what concerns sums.
The sets that are summed over are assumed finite because they are: the rows of a table.

`CommonTheorems`. A total (`reduce` in the services, `SUM` in the database) is `SumOver`, a
fold of the community modules, and a fold chooses an order of the elements. That the
order does not matter needs an induction over finite sets, for which the library's
theorem takes an operator and cannot be used. `SubsetInduction` replaces it: the
property is a *set* of subsets, and a minimal subset outside it exists because strict
inclusion is well founded (`FS_StrictSubsetOrderingWellFounded`). From it follow the
equations the other modules cite: one element more or less (`SumAdd`, `SumRemove`), one
term changed (`SumChange`), term by term (`SumPlus`, `SumSame`, `SumZero`), two disjoint
sets (`SumUnion`), a sequence and its last element (`SumAppend`).

`PurchaseOrdersProofs`
* `TypeCorrect`: `Spec => []TypeOK`. Inductive as it stands. Its weight is in
  "natural number": no count of a line, an event or a row goes negative, however
  saves merge columns.
* `ReceiptsAreCovered`: `Spec => []StockCoversReceipts`, an order never claims a
  received unit that was not posted to stock, *even when requests overlap*. The
  property says nothing of what requests hold in memory, so it is not inductive;
  `CoverInvariant` adds `RequestsCovered`: no version of the order in memory claims
  a unit that is not posted or that the request is not about to post. A merge takes
  each column from one of those versions, and movements never shrink.

* `ReceiptsFit`, `PostedOnce`, `EndIsFinal`, `SettledWhenReconciled`: from
  `AccountingInvariant`. An order whose saves were never stale has totals within the order,
  equal to its movements, and zero before its first receipt; and every request in flight
  is sound, that is, its entity is what the handler computes from the version it loaded.
  A commit that is not stale saves exactly that entity (`FreshCommit`).
* `ReceiptsArePosted`, `SuppliersAreOwedReceipts`: a receipt appends one event and posts one
  movement and one payable per line in its transaction (`RecordReceipt`), any other step
  leaves the counts of the log alone (`KeepsLog`), whatever it edits in it; so the totals
  move together even when requests overlap, and the payable's amount with the totals.
* `OrdersAreExplained`: from `EventsInvariant`, `AccountingInvariant` with the order's
  columns as totals of its log. A commit that is not stale adds to both what the request's
  event says.
* `InboundIsOpenOrders`: from `InboundInvariant`. A commit writes to the row the difference
  between what the order had and has open; the sum over all orders changes by the term of
  that order (`SumChange`), and only for its branch and products.

`InventoryLedgerProofs`
* `AvailabilityStaysCurrent`: `LedgerSpec => []AvailabilityCurrent`, for any number of
  transactions and any programs. The property speaks of stored rows only; `AvailabilityInvariant`
  adds the rows a transaction has written and not committed, and the entities it is
  about to save. The step that matters is `UpdateRowStep`: a save that selects what it
  loaded stores exactly the entity (`FreshSave`), any other marks the row. All other
  actions are instances of `OneTransaction`.
* `StoredRowsAreCounts`: no column of a stored row is ever negative. `LedgerTypeCorrect`:
  `LedgerSpec => []LedgerTypeOK`, which adds that no product's quantity is, whichever sum of
  rows, committed and not, it was written from.
* `StockQuantityStaysCurrent`: from `StockInvariant`. While transactions follow each other the
  one at work sees quantities (`SeenStock`) that agree with the rows it sees, except for the
  product whose row it has just saved; before it commits, the tables agree too, unless it
  commits every statement.
* `OnHandStaysExplained`: from `OnHandInvariant`, for transactions that overlap as they like.
  A row that a transaction has read, or written and not committed, is explained by movements
  that it can see; on a row where nobody saved from an outdated read, by all of them. A
  save keeps the entity's column or the stored one, never a mixture (`SavedOnHand`), so it adds
  its own movement to an explanation or keeps one; a commit adds the movements of the one
  transaction that holds the row's lock, and those of a transaction that does not hold it
  are of no units (`CommittedOnHand`).
  Both rest on `LedgerShape`: what a transaction holds in each phase, that a row is locked by one
  (`RowsLocked`), and that movements in the table are of committed transactions.

`BranchTransfersProofs`, for any branches, products, transfers, other callers and number of
transactions. For the ledger a handler is a caller like any other (`TransfersCall`), so what
is proved there (`LedgerShape`) holds here; `TransfersShape` adds what a handler knows of its
transfer. `HandlersStart` says what the calls of a handler amount to, for any number of
items in any order (`CallsOfItems`): what they add to each column of each row, and that
a call that takes units away comes right after the one that prepares it. `Calls` is a
recursive function; that it keeps such facts (`CallsKeep`) is an induction over sets of items,
by `SubsetInduction` as above.
* `UnitsAreConserved`: from `HandlersMove`. What a handler has posted and what its remaining
  calls will post add up to what it is to move, nothing per product; a commit adds all of
  it at once, any other end adds nothing.
* `UnitsMoveOnce`: `ReceivedOnce` adds that a transfer no two handlers of which overlapped was
  received by one transaction at most, and is RECEIVED exactly if it was.
* `OutboundIsDispatched`: from `OutboundInvariant`. `AllReserve`: on a row nobody raced on, what a
  transaction sees reserved, plus what its remaining calls reserve, is what is stored plus
  what its handler is to reserve (`Planned`). So a commit moves the column by `Planned`,
  which is the change of the transfer's term in the sum of the dispatched (`AmountsMove`).
* `UnitsStayInStock`: `TransfersSpec => []UnitsOnTheirWayAreInStock`, whatever the stock at the
  start and whatever other callers sell: a row may lack what it lacked at the start
  (`InitialShortfall`) and what the movements of others took from it (`TakenByOthers`), and
  nothing more. From `CoverInvariant`: the transaction at work sees rows that, with what they may
  lack (`SeenLacks`, its own uncommitted movements included), cover what leaves, the
  safety stock and, in a handler, the units its next call takes (`Slack`): those
  `dispatch` has found available and reserves next, those `receive` has released and
  removes next. A sale makes its row lack as many units more as it takes (`LacksAfter`,
  `OtherCallCovers`); who has made a movement never changes, since a handler that begins
  has none (`SameLacks`).

`PosCheckoutsProofs`, for any checkouts, carts, clerks and number of requests, all from
`PosInvariant`
* `GoodsMoveOnce`: `PosSpec => []MovedOnce`. The property says nothing of requests; the
  invariant adds that one request at most *owns* a checkout, the one whose insert the
  unique index let through (`OneOwner`), and what the owner has done with the goods at
  each of its steps (`GoodsOK`).
* `CartsAreSoldOnce`: `CartsOK` adds that nobody but the consuming checkout writes a
  consumer, and that what a clerk or a request has loaded has none.
* `VoidsAreReversed`: `VoidsOK` adds that after a void that overlapped nothing no
  ingestion begins any more, since the checkout is stored; so a reversal that is done is
  final. `EntriesOK` ties the sale's entry to that of its void.
* `AccountsAreExplained`: `PosSpec => []AccountsAgree`. The property is its own invariant once
  `JournalOK` says what the entry of a sale contains. What an entry's lines add to the five
  accounts is what `post()` or `reverse()` adds to the sums over checkouts and settlements
  (`AccountsMove`, with `SaleAddsUp`, `CogsAddUp`, `SettlementAddsUp`, `VoidAddsUp`); for a
  sale this rests on the split of its tenders, whose parts are never negative and add up to
  what the register kept, however they are rounded (`SharesStayWithin`, `SplitAddsUp`).
* `CheckoutsReachTheBooks`: `PosSpec => []ProcessedIsBooked`. `PostingsOK` adds that goods which
  moved and are not in the books have a request that is still to post them, or failed
  or died; the entry is never refused, because it balances (`SaleBalances`).
* `CheckoutsKeepPromise`: `PosSpec => KeepsPromise`, the step simulation
  (`PromiseInit`, `PromiseStep`). `Process` is `MoveGoods`, a `PostSale` that adds an entry
  is `Book`, a `ReverseSale` that adds one is `Unbook`, every other step is a stutter
  (`BooksEffect`).

`VendorPayoutsProofs`, for any users, papers, items and number of requests
* `PayoutsTypeCorrect`: `PayoutsSpec => []PayoutsTypeOK`, with `TargetOK`: what a request
  works on suits its task.
* `TopUpsAreDepositedOnce`, `WithdrawalsArePaidOnce`: from `PapersKept`. The properties
  say nothing of the request between the load of a paper and the save of its status;
  the invariant does. For a paper no two handlers of which overlapped there is at most
  one request on it (`Alone`), and how far that request has come says how often the
  paper was paid and debited (`Progress`, `TopUpKept`, `WithdrawalKept`). A load marks
  a paper that is being handled; every other step of another request leaves the paper
  alone (`Bystander`).
* `BalancesStayExplained`, `NobodyOverspends`: from `BalancesKept`, for any credits, clawbacks
  included. It ties the histories to each other (a balance that is stale now was
  written stale once) and to the clawbacks: rows exceed what was meant by twice all of
  them, a balance that is not stale falls short of the rows by twice those since the
  last recalculation. Steps that move money are instances of `MoveKept`, `CreditKept` and
  `RecalculateKept`; all others of `MoneyUntouched`.
* `PayoutsAreBooked`: from `ItemsKept`. For an item no two handlers of which overlapped there is at
  most one handler on it, and `PayoutAt` says at each of its steps how many payouts are not
  debited yet and which rows are flagged (`Booked`, `RowFlagged`). The proof found the
  limit of what the code keeps: that *every* payout without a debit stays flagged is
  false. A payout whose debit fails is flagged; the FAILED row written after it lets the
  item be paid again; if that payout is debited, reconciling the flagged row finds the
  debit, answers `already_debited` and clears the flag (`wallet.service.ts`,
  `reconcilePayoutDebitException`). It takes six requests, more than run `wallets` has; the
  property now says what holds: until the first debit every payout is flagged, and debits
  and flags together are never more than the payouts.

`DeliveriesProofs`, for any orders, items, handlers and number of requests; it covers what
run `online_orders` leaves out, several orders over the same reserved units included
* `OnlineTypeCorrect`: `DeliveriesSpec => []OnlineTypeOK`. Beside types, a copy has the
  method, payment and release of the row it was read from, according to the step its
  handler is at (`WorkOK`), and a cancelled row is released (`RowOK`), from which
  `CancelledOrdersHoldNothing` follows.
* `ReservationsAreKept`, `VendorsAreCreditedOnce`, `DisputesAreRefundedOnce`: all from
  `OnlineInvariant`. The properties speak of orders that nobody works on; the invariant
  says what of an order is held, credited and refunded while its handlers are at any of their
  steps (`HeldKept`, `CreditKept`, `RefundKept`). Two handlers may both release, or both
  refund, and no mark tells so until the second one saves; such an order is `Doomed`:
  whatever its handlers do, the next of them to save overwrites what it did not read, or
  is cut off. Every step of the specification is one of a few kinds as a single order
  sees it (`OrderStep`), and each conjunct has one lemma per kind that disturbs it.
* `PaymentsAreKept`: `DeliveriesSpec => PaidStaysPaid`, from the types alone.

`WebhooksProofs`, for any subscriptions, processes, requests, attempts and threshold, so
also for the several admin requests run `webhooks` does not have
* `WebhooksTypeCorrect`: `Spec => []WebhooksTypeOK`. Beside types, a handler knows a
  delivery from its first post to its last save and at no other time (`WorkOK`), and
  what a scan has left to retry had failed and was due when loaded (`TodoOK`).
* `DeliveriesAreAcceptedOnce`, `DeliveriesGetAllAttempts`: from `DeliveriesKept`. The
  properties speak of deliveries nobody attempts; the invariant adds that an undisturbed
  delivery has one handler at most, and what was posted and answered at each of its steps
  (`UnderWay`). Most steps are instances of `OtherWork`: one handler gets other work and
  no row changes. What a handler goes on to post it marks, unless the row is what it
  loaded and nobody else's, which makes it `Settled`, failed and due: one post fewer
  than `MaxAttempts`.
* `FailingIsPaused`: `Spec => []PausedWhileFailing`. Between the save that makes a
  subscription fail and its pause there is a handler that `WillPause` it, and
  `PausedOrSoon` says so. A copy that is saved later is the status there is, or
  marks it `reverted`.

Only model-checked: liveness under fairness (`TransactionsEnd`, `CheckoutsSettle`,
`FailuresSettle`), which is outside what the proof system can do here. Every invariant and
action property the passing runs check is a theorem, from the assumptions on constants
alone.

## 5. Plan

1. *(done)* Purchase orders with their receipts, types and accounting proved.
2. *(done)* The ledger statement by statement; transfers composed with it.
3. *(done)* Checkouts with register and journal, implementing `GoodsAndBooks`, proved.
4. *(done)* Online orders and deliveries, wallets, withdrawals and payouts, proved.
5. *(done)* Procurement webhooks, with liveness, proved.
6. POS sync: batches whose refused entries leave what they wrote, replays, jobs whose
   keys no unique index protects.
7. Replenishment over purchase orders: merging into drafts, automatic submission, the
   partial collection its open-order query loads.
8. Credit, with orders that are paid by it.
9. Variant inventory as a refinement of the product's row.
10. *(done)* Proofs: the invariants of transfers, from `LedgerShape`.

## 6. Not modelled

* *POS sync, replenishment's drafts, credit, variant inventory*: the next modules of the
  plan. Their effects on stock rows are calls of the ledger, which is modelled for all
  callers; what is missing are their own tables.
* *Admin overrides*: `updatePayoutStatus`, `deletePayout`, `deleteWithdrawal` overwrite or
  remove rows by hand. A payout or withdrawal deleted or reset while it is being paid
  can be paid again; no property of `VendorPayouts` holds across them.
* *Orders on CREDIT and the Telebirr callback*: the former need the credit component; the
  latter writes the payment status as M-Pesa's does.
* *Currency conversion, prices, promotions, tax rates*: pure functions of their input,
  applied before the steps modelled here.
* *Confirmation tokens of replays* (stateless signatures), *`transferStock` and movements
  of quantity 0* (no caller; at most an empty row).
* Everything `PROJECT.json` lists as `not_modelled`: catalogue, users, dashboards, feeds,
  notifications and the like, which read the components above or keep rows of one user.
