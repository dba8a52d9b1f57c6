---------------------------- MODULE InventoryLedger ----------------------------
(***************************************************************************)
(* InventoryLedgerService on PostgreSQL, statement by statement: database  *)
(* transactions that make one ledger call after the other, under the READ  *)
(* COMMITTED isolation the application uses.                               *)
(*                                                                         *)
(* A call reads a row without a lock, changes it in memory, save()s it     *)
(* (a SELECT and an UPDATE that locks the row until the transaction ends), *)
(* sums the product's rows and writes product.stockQuantity, which locks   *)
(* the product.  A caller that passes no EntityManager makes every         *)
(* statement a transaction of its own ("autocommit"): that is what         *)
(* adjustReservedOnline does for online orders.                            *)
(***************************************************************************)
EXTENDS BranchInventory, Sequences, Relation

CONSTANTS
  Branches, Products,
  Transactions,     \* bound: every transaction runs once
  Programs,         \* the sequences of ledger calls the callers make
  InitialRows,      \* table branch_inventory at the start, None: no row yet
  None

Keys == Branches \X Products

Columns == {"quantityOnHand", "inboundOpenPo", "reservedOnline", "outboundTransfers"}

\* "availableToSell" is dispatch's own check, made between two ledger calls.
LedgerCall == [column : Columns \cup {"availableToSell"}, row : Keys, delta : Int]

InCall(column, branch, product, delta) ==
  [column |-> column, row |-> <<branch, product>>, delta |-> delta]

Program == [atomic : BOOLEAN, calls : Seq(LedgerCall)]

\* A movement always runs in a transaction: recordMovement opens one itself.
ASSUME LedgerAssumption ==
  /\ IsFiniteSet(Branches)
  /\ None \notin Row \cup Nat
  /\ Programs \subseteq Program
  /\ \A g \in Programs : ~g.atomic =>
       \A n \in DOMAIN g.calls : g.calls[n].column # "quantityOnHand"
  /\ InitialRows \in [Keys -> Row \cup {None}]
  /\ \A k \in Keys : InitialRows[k] # None =>
       InitialRows[k].availableToSell = AvailableToSell(InitialRows[k])

VARIABLES
  inventory,        \* table branch_inventory, as committed
  stockQuantity,    \* column product.stockQuantity, as committed
  stockMovements,   \* table stock_movements, as committed
  transactions,     \* what every transaction holds in memory and has not committed
  staleRow,         \* history: a row was saved from an outdated read
  disturbed         \* history: transactions overlapped, or a sequence of
                    \* autocommitted statements was cut short

ledgerTables == <<inventory, stockQuantity, stockMovements>>
ledgerHistory == <<staleRow, disturbed>>
ledgerVars == <<ledgerTables, transactions, ledgerHistory>>

StockMovement == [transaction : Transactions, call : Nat, row : Keys, delta : Int]

Transaction ==
  [status   : {"ready", "running", "committed", "aborted"},
   atomic   : BOOLEAN,
   calls    : Seq(LedgerCall),           \* still to be made, the current one first
   phase    : {"read", "select", "update", "sum", "product"},
   absent   : BOOLEAN,                   \* the row read did not exist
   loaded   : Row,                       \* the row as read
   entity   : Row,                       \* the entity handed to save()
   selected : Row,                       \* the row as save() found it stored
   total    : Nat,                       \* the sum for product.stockQuantity
   rows     : [Keys -> Row \cup {None}],     \* uncommitted rows: locked
   stock    : [Products -> Nat \cup {None}], \* uncommitted products: locked
   posted   : SUBSET StockMovement]          \* uncommitted movements

Outside(status) ==
  [status |-> status, atomic |-> TRUE, calls |-> <<>>, phase |-> "read",
   absent |-> FALSE, loaded |-> NewRow(0), entity |-> NewRow(0),
   selected |-> NewRow(0), total |-> 0, rows |-> [k \in Keys |-> None],
   stock |-> [p \in Products |-> None], posted |-> {}]

OrNew(row) == IF row = None THEN NewRow(0) ELSE row

LedgerInit ==
  /\ inventory = InitialRows
  /\ stockQuantity = [p \in Products |->
       ProductStock([k \in Keys |-> OrNew(InitialRows[k])], Branches, p)]
  /\ stockMovements = {}
  /\ transactions = [t \in Transactions |-> Outside("ready")]
  /\ staleRow = [k \in Keys |-> FALSE]
  /\ disturbed = FALSE

-------------------------------------------------------------------------------
(* What a transaction sees and waits for *)

Running(t) == transactions[t].status = "running"
Done(t)    == transactions[t].calls = <<>>
Current(t) == Head(transactions[t].calls)
At(t, phase) == Running(t) /\ ~Done(t) /\ transactions[t].phase = phase

\* READ COMMITTED: its own writes, and what others have committed.
View(t) == [k \in Keys |->
  IF transactions[t].rows[k] # None THEN transactions[t].rows[k] ELSE inventory[k]]

Found(t, k) == OrNew(View(t)[k])

\* The UPDATE t is about to make needs a lock that u holds.
WaitsFor(t, u) ==
  /\ u # t
  /\ \/ At(t, "update") /\ transactions[u].rows[Current(t).row] # None
     \/ At(t, "product") /\ transactions[u].stock[Current(t).row[2]] # None

MayLock(t) == \A u \in Transactions : ~WaitsFor(t, u)

-------------------------------------------------------------------------------
(* One ledger call *)

Begin(t, program) ==
  /\ transactions[t].status = "ready"
  /\ transactions' = [transactions EXCEPT
       ![t].status = "running", ![t].atomic = program.atomic, ![t].calls = program.calls]
  /\ disturbed' = (disturbed \/ \E u \in Transactions : Running(u))
  /\ UNCHANGED <<ledgerTables, staleRow>>

CallAllowed(call, row) ==
  CASE call.column = "availableToSell" -> AvailableToSell(row) >= call.delta
    [] call.column = "quantityOnHand"  -> MovementAllowed(row, call.delta)
    [] OTHER -> BucketAllowed(row, call.column, call.delta)

Changed(call, row) ==
  IF call.column = "quantityOnHand" THEN RecordMovement(row, call.delta)
                                    ELSE AdjustProjectionBucket(row, call.column, call.delta)

\* A transaction that ends releases its locks.  What it has not committed is
\* lost; what it has autocommitted stays.
EndTransaction(t, status) ==
  /\ transactions' = [transactions EXCEPT ![t] = Outside(status)]
  /\ disturbed' = (disturbed \/ (status = "aborted" /\ ~transactions[t].atomic))

\* The row is read, and changed in memory.
ReadRow(t) ==
  LET call == Current(t)
      row  == Found(t, call.row)
  IN  /\ At(t, "read")
      /\ call.column # "availableToSell"
      /\ CallAllowed(call, row)
      /\ transactions' = [transactions EXCEPT
           ![t].phase = "select", ![t].loaded = row, ![t].entity = Changed(call, row),
           ![t].absent = (View(t)[call.row] = None)]
      /\ UNCHANGED <<ledgerTables, ledgerHistory>>

CheckAvailability(t) ==
  /\ At(t, "read")
  /\ Current(t).column = "availableToSell"
  /\ CallAllowed(Current(t), Found(t, Current(t).row))
  /\ transactions' = [transactions EXCEPT ![t].calls = Tail(@)]
  /\ UNCHANGED <<ledgerTables, ledgerHistory>>

\* Mutant: a refused call leaves its transaction open.
RefuseWithoutEnding(t) ==
  /\ At(t, "read")
  /\ ~CallAllowed(Current(t), Found(t, Current(t).row))
  /\ UNCHANGED ledgerVars

\* BadRequest: "... cannot go negative", "has only ... units available".
Refuse(t) ==
  /\ At(t, "read")
  /\ ~CallAllowed(Current(t), Found(t, Current(t).row))
  /\ EndTransaction(t, "aborted")
  /\ UNCHANGED <<ledgerTables, staleRow>>

\* save() reads the row again; an entity without an id is inserted instead.
SelectRow(t) ==
  /\ At(t, "select")
  /\ transactions' = [transactions EXCEPT
       ![t].phase = "update", ![t].selected = Found(t, Current(t).row)]
  /\ UNCHANGED <<ledgerTables, ledgerHistory>>

Posted(t) ==
  IF Current(t).column = "quantityOnHand"
  THEN {[transaction |-> t, call |-> Len(transactions[t].calls),
         row |-> Current(t).row, delta |-> Current(t).delta]}
  ELSE {}

\* Mutant: the row is saved without the caller's EntityManager.
SaveRowOutside(t, row) ==
  LET k == Current(t).row
  IN  /\ inventory' = [inventory EXCEPT ![k] = row]
      /\ transactions' = [transactions EXCEPT
           ![t].phase = "sum", ![t].posted = @ \cup Posted(t)]

SaveRow(t, row) ==
  LET k == Current(t).row
  IN  IF transactions[t].atomic
      THEN /\ inventory' = inventory
           /\ transactions' = [transactions EXCEPT
                ![t].phase = "sum", ![t].rows[k] = row, ![t].posted = @ \cup Posted(t)]
      ELSE /\ inventory' = [inventory EXCEPT ![k] = row]
           /\ transactions' = [transactions EXCEPT ![t].phase = "sum"]

\* The INSERT or UPDATE of the row, and the INSERT of the movement.
UpdateRow(t) ==
  LET q == transactions[t]
      k == Current(t).row
  IN  /\ At(t, "update")
      /\ MayLock(t)
      /\ q.absent => View(t)[k] = None
      /\ SaveRow(t, IF q.absent THEN q.entity
                    ELSE SavedRecord(q.entity, q.selected, Found(t, k)))
      /\ staleRow' = [staleRow EXCEPT
           ![k] = @ \/ q.loaded # Found(t, k) \/ q.selected # Found(t, k)]
      /\ UNCHANGED <<stockQuantity, stockMovements, disturbed>>

\* save() finds nothing to change (another transaction has meanwhile written
\* the same values): it updates, and locks, nothing.
SkipUpdate(t) ==
  LET q == transactions[t]
      k == Current(t).row
  IN  /\ At(t, "update")
      /\ ~q.absent
      /\ q.entity = q.selected
      /\ transactions' = [transactions EXCEPT
           ![t].phase = "sum", ![t].posted = @ \cup Posted(t)]
      /\ staleRow' = [staleRow EXCEPT ![k] = @ \/ q.loaded # q.selected]
      /\ UNCHANGED <<ledgerTables, disturbed>>

\* Another transaction has inserted the row: unique index on branch, product.
Collide(t) ==
  /\ At(t, "update")
  /\ MayLock(t)
  /\ transactions[t].absent /\ View(t)[Current(t).row] # None
  /\ EndTransaction(t, "aborted")
  /\ UNCHANGED <<ledgerTables, staleRow>>

\* Mutant: the rows are summed without the caller's EntityManager.
SumRowsOutside(t) ==
  /\ At(t, "sum")
  /\ transactions' = [transactions EXCEPT
       ![t].phase = "product",
       ![t].total = ProductStock([k \in Keys |-> OrNew(inventory[k])],
                                 Branches, Current(t).row[2])]
  /\ UNCHANGED <<ledgerTables, ledgerHistory>>

\* syncProductStockQuantity: two statements.
SumRows(t) ==
  /\ At(t, "sum")
  /\ transactions' = [transactions EXCEPT
       ![t].phase = "product",
       ![t].total = ProductStock([k \in Keys |-> Found(t, k)],
                                 Branches, Current(t).row[2])]
  /\ UNCHANGED <<ledgerTables, ledgerHistory>>

UpdateProduct(t) ==
  LET q == transactions[t]
      p == Current(t).row[2]
      next == [q EXCEPT !.phase = "read", !.calls = Tail(@)]
  IN  /\ At(t, "product")
      /\ MayLock(t)
      /\ IF q.atomic
         THEN /\ transactions' = [transactions EXCEPT ![t] = [next EXCEPT !.stock[p] = q.total]]
              /\ UNCHANGED stockQuantity
         ELSE /\ transactions' = [transactions EXCEPT ![t] = next]
              /\ stockQuantity' = [stockQuantity EXCEPT ![p] = q.total]
      /\ UNCHANGED <<inventory, stockMovements, ledgerHistory>>

-------------------------------------------------------------------------------
(* The end of a transaction *)

Commit(t) ==
  LET q == transactions[t]
  IN  /\ Running(t) /\ Done(t)
      /\ inventory' = View(t)
      /\ stockQuantity' = [p \in Products |->
           IF q.stock[p] # None THEN q.stock[p] ELSE stockQuantity[p]]
      /\ stockMovements' = stockMovements \cup q.posted
      /\ EndTransaction(t, "committed")
      /\ UNCHANGED staleRow

\* An error, a lost connection or a crash, at any time.
Rollback(t) ==
  /\ Running(t)
  /\ EndTransaction(t, "aborted")
  /\ UNCHANGED <<ledgerTables, staleRow>>

\* t waits for u, directly or through others.
WaitsInTurnFor(t, u) ==
  TransitiveClosure([e \in Transactions \X Transactions |-> WaitsFor(e[1], e[2])],
                    Transactions)[t, u]

\* PostgreSQL aborts one of the transactions that wait for each other.
AbortDeadlock(t) ==
  /\ \E u \in Transactions : WaitsFor(t, u) /\ WaitsInTurnFor(u, t)
  /\ EndTransaction(t, "aborted")
  /\ UNCHANGED <<ledgerTables, staleRow>>

CallStep(t) ==
  \/ ReadRow(t)   \/ CheckAvailability(t) \/ Refuse(t)
  \/ SelectRow(t) \/ UpdateRow(t) \/ SkipUpdate(t) \/ Collide(t)
  \/ SumRows(t)   \/ UpdateProduct(t)
  \/ AbortDeadlock(t)

LedgerNext ==
  \E t \in Transactions :
    \/ \E program \in Programs : Begin(t, program)
    \/ CallStep(t)
    \/ Commit(t)
    \/ Rollback(t)

\* A transaction is carried on by Node's event loop and by PostgreSQL, which
\* serves the waiters for a lock in their order; a caller need never begin one,
\* and nothing has to fail.
LedgerFairness == \A t \in Transactions : SF_ledgerVars(CallStep(t) \/ Commit(t))

LedgerSpec == LedgerInit /\ [][LedgerNext]_ledgerVars /\ LedgerFairness

-------------------------------------------------------------------------------
(* Properties *)

\* Every column stays in its type: whatever overlaps, no stored or uncommitted
\* count is negative.
LedgerTypeOK ==
  /\ inventory \in [Keys -> Row \cup {None}]
  /\ stockQuantity \in [Products -> Nat]
  /\ stockMovements \subseteq StockMovement
  /\ transactions \in [Transactions -> Transaction]
  /\ staleRow \in [Keys -> BOOLEAN]
  /\ disturbed \in BOOLEAN

\* availableToSell is what applyAvailabilityProjection computes from the other
\* columns of the row, unless a save merged two rows.
AvailabilityCurrent ==
  \A k \in Keys : inventory[k] # None /\ ~staleRow[k] =>
    inventory[k].availableToSell = AvailableToSell(inventory[k])

\* The on-hand column is the initial stock plus movements of stock_movements:
\* all of them, or fewer where transactions raced on the row.  A race loses
\* movements, and a failed transaction leaves none: units are never invented.
OnHandExplained ==
  \A k \in Keys : inventory[k] # None =>
    LET entries == {e \in stockMovements : e.row = k}
        onHand(E) == OrNew(InitialRows[k]).quantityOnHand + SumOver(E, LAMBDA e : e.delta)
    IN  IF staleRow[k]
        THEN \E E \in SUBSET entries : inventory[k].quantityOnHand = onHand(E)
        ELSE inventory[k].quantityOnHand = onHand(entries)

\* When nothing runs, product.stockQuantity is the sum of what the branches can
\* sell, after commits, refusals and rollbacks in any order (syncProductStockQuantity
\* works inside the caller's transaction).
Quiescent == \A t \in Transactions : ~Running(t)

StockQuantityCurrent ==
  Quiescent /\ ~disturbed =>
    \A p \in Products : stockQuantity[p] =
      ProductStock([k \in Keys |-> OrNew(inventory[k])], Branches, p)

\* Transactions lock rows and products in the order of their callers' lines, so
\* they can wait for each other; every one that begins ends nevertheless.
TransactionsEnd == \A t \in Transactions : Running(t) ~> ~Running(t)

=============================================================================
