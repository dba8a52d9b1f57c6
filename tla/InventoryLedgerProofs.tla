------------------------ MODULE InventoryLedgerProofs ------------------------
(***************************************************************************)
(* Theorems about InventoryLedger, for any branches, products, callers and *)
(* number of overlapping transactions.                                     *)
(***************************************************************************)
EXTENDS InventoryLedger, CommonTheorems, FiniteSetTheorems, SequenceTheorems

-----------------------------------------------------------------------------
(* Callers                                                                 *)

\* What anyone may call: transfers run programs that are not among Programs.
Callable ==
  {g \in Program : ~g.atomic => \A n \in DOMAIN g.calls : g.calls[n].column # "quantityOnHand"}

CallerStep(t) ==
  CallStep(t) \/ Commit(t) \/ Rollback(t) \/ \E program \in Callable : Begin(t, program)

AnyCallers == \E t \in Transactions : CallerStep(t)

\* The callers of LedgerNext are some of them.
LEMMA CallersAreAny == [LedgerNext]_ledgerVars => [AnyCallers]_ledgerVars
BY LedgerAssumption DEF LedgerNext, AnyCallers, CallerStep, Callable

-----------------------------------------------------------------------------
(* The inductive invariant                                                 *)

\* A transaction, as far as rows are concerned.  What it has summed and posted
\* is in some set T.
AnyTransaction(T) ==
  [status   : {"ready", "running", "committed", "aborted"},
   atomic   : BOOLEAN,
   calls    : Seq(LedgerCall),
   phase    : {"read", "select", "update", "sum", "product"},
   absent   : BOOLEAN,
   loaded   : Row, entity : Row, selected : Row,
   rows     : [Keys -> Row \cup {None}],
   total    : T, stock : T, posted : T]

RowsTyped ==
  /\ inventory \in [Keys -> Row \cup {None}]
  /\ staleRow \in [Keys -> BOOLEAN]
  /\ \E T : transactions \in [Transactions -> AnyTransaction(T)]

\* What a transaction is about to save has a current availability ...
EntitiesCurrent == \A t \in Transactions : Projected(transactions[t].entity)

\* ... and so has what it has saved and not committed, unless it was raced on.
UncommittedCurrent ==
  \A t \in Transactions, k \in Keys :
    transactions[t].rows[k] # None /\ ~staleRow[k] => Projected(transactions[t].rows[k])

AvailabilityInvariant ==
  RowsTyped /\ AvailabilityCurrent /\ EntitiesCurrent /\ UncommittedCurrent

-----------------------------------------------------------------------------
(* What a transaction reads and writes                                     *)

\* A transaction that has not begun, or has ended.
LEMMA OutsideType ==
  ASSUME NEW status \in {"ready", "committed", "aborted"}
  PROVE  /\ \E T : Outside(status) \in AnyTransaction(T)
         /\ Projected(Outside(status).entity)
         /\ \A k \in Keys : Outside(status).rows[k] = None
<1> DEFINE o == Outside(status)
<1>1. NewRow(0) \in Row
  BY NewRowType
<1>2. o \in AnyTransaction({o.total, o.stock, o.posted})
  BY <1>1 DEF Outside, AnyTransaction
<1>3. Projected(o.entity)
  BY NewRowIsCurrent DEF Outside
<1>4. QED
  BY <1>2, <1>3 DEF Outside

\* What a READ COMMITTED statement sees is a row, or a new row.
LEMMA FoundType ==
  ASSUME RowsTyped, NEW t \in Transactions
  PROVE  /\ View(t) \in [Keys -> Row \cup {None}]
         /\ \A k \in Keys : Found(t, k) \in Row
<1>1. transactions[t].rows \in [Keys -> Row \cup {None}]
  BY DEF RowsTyped, AnyTransaction
<1>2. View(t) \in [Keys -> Row \cup {None}]
  BY <1>1 DEF View, RowsTyped
<1>3. QED
  BY <1>2, NewRowType DEF Found, OrNew

\* A transaction that has written a row and posted a movement.
LEMMA WrittenType ==
  ASSUME NEW T, NEW q \in AnyTransaction(T),
         NEW written \in [Keys -> Row \cup {None}], NEW movements
  PROVE  [q EXCEPT !.phase = "sum", !.rows = written, !.posted = movements]
           \in AnyTransaction(T \cup {movements})
<1>1. q \in AnyTransaction(T \cup {movements})
  BY DEF AnyTransaction
<1>2. [q EXCEPT !.rows = written] \in AnyTransaction(T \cup {movements})
  BY <1>1 DEF AnyTransaction
<1>3. [q EXCEPT !.phase = "sum", !.rows = written, !.posted = movements]
        = [[q EXCEPT !.rows = written] EXCEPT !.phase = "sum", !.posted = movements]
  BY <1>1 DEF AnyTransaction
<1>4. QED
  BY <1>2, <1>3 DEF AnyTransaction

\* The call a transaction is at.
LEMMA CurrentType ==
  ASSUME RowsTyped, NEW t \in Transactions, ~Done(t)
  PROVE  Current(t) \in LedgerCall /\ Current(t).row \in Keys
<1>1. transactions[t].calls \in Seq(LedgerCall) /\ transactions[t].calls # <<>>
  BY DEF RowsTyped, AnyTransaction, Done
<1>2. Head(transactions[t].calls) \in LedgerCall
  BY <1>1
<1>3. QED
  BY <1>2 DEF Current, LedgerCall

\* A call that is not refused computes a row with a current availability.
LEMMA ChangedRow ==
  ASSUME NEW call \in LedgerCall, NEW row \in Row, CallAllowed(call, row),
         call.column # "availableToSell"
  PROVE  Changed(call, row) \in Row /\ Projected(Changed(call, row))
<1>1. CASE call.column = "quantityOnHand"
  BY <1>1, RecordMovementType, MovementIsCurrent DEF CallAllowed, Changed
<1>2. CASE call.column # "quantityOnHand"
  <2>1. call.column \in Buckets
    BY <1>2 DEF LedgerCall, Columns, Buckets
  <2>2. BucketAllowed(row, call.column, call.delta)
    BY <1>2 DEF CallAllowed
  <2>3. QED
    BY <1>2, <2>1, <2>2, AdjustBucketType, AdjustmentIsCurrent DEF Changed
<1>3. QED
  BY <1>1, <1>2

-----------------------------------------------------------------------------
(* Every step changes one transaction, and perhaps the stored rows.        *)

\* What is left to show of a step that changes one transaction.
LEMMA OneTransaction ==
  ASSUME AvailabilityInvariant,
         NEW t \in Transactions, NEW q, NEW U,
         q \in AnyTransaction(U),
         transactions' = [transactions EXCEPT ![t] = q],
         inventory' \in [Keys -> Row \cup {None}],
         staleRow' \in [Keys -> BOOLEAN],
         \A k \in Keys : staleRow[k] => staleRow'[k],
         Projected(q.entity),
         \A k \in Keys : q.rows[k] # None /\ ~staleRow'[k] => Projected(q.rows[k]),
         \A k \in Keys : inventory'[k] # None /\ ~staleRow'[k] => Projected(inventory'[k])
  PROVE  AvailabilityInvariant'
<1>1. PICK T : transactions \in [Transactions -> AnyTransaction(T)]
  BY DEF AvailabilityInvariant, RowsTyped
<1>2. AnyTransaction(T) \subseteq AnyTransaction(T \cup U)
      /\ AnyTransaction(U) \subseteq AnyTransaction(T \cup U)
  BY DEF AnyTransaction
<1>3. transactions' \in [Transactions -> AnyTransaction(T \cup U)]
  BY <1>1, <1>2
<1>4. RowsTyped'
  BY <1>3 DEF RowsTyped
<1>5. \A u \in Transactions : transactions'[u] = IF u = t THEN q ELSE transactions[u]
  BY <1>1
<1>6. EntitiesCurrent'
  <2>1. \A u \in Transactions : Projected(transactions'[u].entity)
    BY <1>5 DEF AvailabilityInvariant, EntitiesCurrent
  <2>2. QED
    BY <2>1 DEF EntitiesCurrent, Projected, AvailableToSell
<1>7. UncommittedCurrent'
  <2>1. ASSUME NEW u \in Transactions, NEW k \in Keys,
               transactions'[u].rows[k] # None, ~staleRow'[k]
        PROVE  Projected(transactions'[u].rows[k])
    BY <1>5, <2>1 DEF AvailabilityInvariant, UncommittedCurrent
  <2>2. QED
    BY <2>1 DEF UncommittedCurrent, Projected, AvailableToSell
<1>8. AvailabilityCurrent'
  BY DEF AvailabilityCurrent, Projected
<1>9. QED
  BY <1>4, <1>6, <1>7, <1>8 DEF AvailabilityInvariant

\* A step in which a transaction only reads, or begins.
LEMMA QuietStep ==
  ASSUME AvailabilityInvariant,
         NEW t \in Transactions, NEW q, NEW U,
         q \in AnyTransaction(U),
         transactions' = [transactions EXCEPT ![t] = q],
         UNCHANGED inventory,
         staleRow' \in [Keys -> BOOLEAN],
         \A k \in Keys : staleRow[k] => staleRow'[k],
         Projected(q.entity),
         \A k \in Keys : q.rows[k] = None \/ q.rows[k] = transactions[t].rows[k]
  PROVE  AvailabilityInvariant'
<1>1. inventory' \in [Keys -> Row \cup {None}]
  BY DEF AvailabilityInvariant, RowsTyped
<1>2. \A k \in Keys : q.rows[k] # None /\ ~staleRow'[k] => Projected(q.rows[k])
  BY DEF AvailabilityInvariant, UncommittedCurrent
<1>3. \A k \in Keys : inventory'[k] # None /\ ~staleRow'[k] => Projected(inventory'[k])
  BY DEF AvailabilityInvariant, AvailabilityCurrent, Projected
<1>4. QED
  BY <1>1, <1>2, <1>3, OneTransaction

\* A transaction ends without a commit: refused, failed or aborted.
LEMMA EndStep ==
  ASSUME AvailabilityInvariant, NEW t \in Transactions,
         NEW status \in {"committed", "aborted"},
         EndTransaction(t, status), UNCHANGED <<inventory, staleRow>>
  PROVE  AvailabilityInvariant'
<1> DEFINE q == Outside(status)
<1>1. PICK U : q \in AnyTransaction(U)
  BY OutsideType
<1>2. Projected(q.entity) /\ \A k \in Keys : q.rows[k] = None
  BY OutsideType
<1>3. transactions' = [transactions EXCEPT ![t] = q]
  BY DEF EndTransaction
<1>4. UNCHANGED inventory /\ staleRow' = staleRow /\ staleRow' \in [Keys -> BOOLEAN]
  BY DEF AvailabilityInvariant, RowsTyped
<1> HIDE DEF q
<1>5. \A k \in Keys : q.rows[k] = None \/ q.rows[k] = transactions[t].rows[k]
  BY <1>2
<1>6. \A k \in Keys : staleRow[k] => staleRow'[k]
  BY <1>4
<1>7. Projected(q.entity)
  BY <1>2
<1>8. UNCHANGED inventory
  BY <1>4
<1>9. staleRow' \in [Keys -> BOOLEAN]
  BY <1>4
<1>10. QED
  BY ONLY AvailabilityInvariant, t \in Transactions, <1>1, <1>3, <1>5, <1>6, <1>7, <1>8, <1>9,
     QuietStep, ZenonT(60)

-----------------------------------------------------------------------------
(* One step per action                                                     *)

\* Begin: no row is read or written.
LEMMA BeginStep ==
  ASSUME AvailabilityInvariant, NEW t \in Transactions,
         NEW program \in Callable, Begin(t, program)
  PROVE  AvailabilityInvariant'
<1> DEFINE q == [transactions[t] EXCEPT
                   !.status = "running", !.atomic = program.atomic, !.calls = program.calls]
<1>1. PICK T : transactions \in [Transactions -> AnyTransaction(T)]
  BY DEF AvailabilityInvariant, RowsTyped
<1>2. program.atomic \in BOOLEAN /\ program.calls \in Seq(LedgerCall)
  BY DEF Program, Callable
<1>3. q \in AnyTransaction(T) /\ q.rows = transactions[t].rows
      /\ q.entity = transactions[t].entity
  BY <1>1, <1>2 DEF AnyTransaction
<1>4. transactions' = [transactions EXCEPT ![t] = q]
  BY <1>1 DEF Begin
<1>5. UNCHANGED <<inventory, staleRow>>
  BY DEF Begin, ledgerTables
<1>6. staleRow' \in [Keys -> BOOLEAN] /\ Projected(q.entity)
  BY <1>3, <1>5 DEF AvailabilityInvariant, RowsTyped, EntitiesCurrent
<1> HIDE DEF q
<1>7. QED
  BY <1>3, <1>4, <1>5, <1>6, QuietStep

\* ReadRow: the entity in memory is current, whatever row was read.
LEMMA ReadRowStep ==
  ASSUME AvailabilityInvariant, NEW t \in Transactions, ReadRow(t)
  PROVE  AvailabilityInvariant'
<1> DEFINE call == Current(t)
           row  == Found(t, call.row)
           q == [transactions[t] EXCEPT
                   !.phase = "select", !.loaded = row, !.entity = Changed(call, row),
                   !.absent = (View(t)[call.row] = None)]
<1>1. PICK T : transactions \in [Transactions -> AnyTransaction(T)]
  BY DEF AvailabilityInvariant, RowsTyped
<1>2. call \in LedgerCall /\ row \in Row
  BY CurrentType, FoundType DEF AvailabilityInvariant, ReadRow, At
<1>3. Changed(call, row) \in Row /\ Projected(Changed(call, row))
  BY <1>2, ChangedRow DEF ReadRow
<1>4. (View(t)[call.row] = None) \in BOOLEAN
  OBVIOUS
<1>5. transactions' = [transactions EXCEPT ![t] = q]
  BY <1>1 DEF ReadRow
<1> HIDE DEF row, call
<1>6. q \in AnyTransaction(T) /\ q.rows = transactions[t].rows
      /\ q.entity = Changed(call, row)
  BY <1>1, <1>2, <1>3, <1>4 DEF AnyTransaction
<1>7. UNCHANGED <<inventory, staleRow>>
  BY DEF ReadRow, ledgerTables, ledgerHistory
<1>8. staleRow' \in [Keys -> BOOLEAN] /\ Projected(q.entity)
  BY <1>3, <1>6, <1>7 DEF AvailabilityInvariant, RowsTyped
<1> HIDE DEF q
<1>9. QED
  BY <1>5, <1>6, <1>7, <1>8, QuietStep

\* The steps that change neither the rows nor the entity of a transaction.
LEMMA OtherReadStep ==
  ASSUME AvailabilityInvariant, NEW t \in Transactions,
         CheckAvailability(t) \/ SelectRow(t) \/ SumRows(t)
  PROVE  AvailabilityInvariant'
<1>1. PICK T : transactions \in [Transactions -> AnyTransaction(T)]
  BY DEF AvailabilityInvariant, RowsTyped
<1>2. ~Done(t) /\ UNCHANGED <<inventory, staleRow>>
  BY DEF CheckAvailability, SelectRow, SumRows, At, ledgerTables, ledgerHistory
<1>3. transactions[t].calls \in Seq(LedgerCall) /\ transactions[t].calls # <<>>
  BY <1>1, <1>2 DEF AnyTransaction, Done
<1>4. Found(t, Current(t).row) \in Row
  BY <1>2, CurrentType, FoundType DEF AvailabilityInvariant
<1>5. SUFFICES ASSUME NEW q, NEW U, q \in AnyTransaction(U),
                      transactions' = [transactions EXCEPT ![t] = q],
                      q.rows = transactions[t].rows, q.entity = transactions[t].entity
               PROVE  AvailabilityInvariant'
  <2>1. CASE CheckAvailability(t)
    <3> DEFINE q == [transactions[t] EXCEPT !.calls = Tail(@)]
    <3>0. Tail(transactions[t].calls) \in Seq(LedgerCall)
      BY <1>3
    <3>1. q \in AnyTransaction(T) /\ q.rows = transactions[t].rows
          /\ q.entity = transactions[t].entity
      BY <1>1, <3>0 DEF AnyTransaction
    <3>2. transactions' = [transactions EXCEPT ![t] = q]
      BY <1>1, <2>1 DEF CheckAvailability
    <3>3. QED
      BY <1>5, <3>1, <3>2
  <2>2. CASE SelectRow(t)
    <3> DEFINE q == [transactions[t] EXCEPT
                       !.phase = "update", !.selected = Found(t, Current(t).row)]
    <3>1. q \in AnyTransaction(T) /\ q.rows = transactions[t].rows
          /\ q.entity = transactions[t].entity
      BY <1>1, <1>4 DEF AnyTransaction
    <3>2. transactions' = [transactions EXCEPT ![t] = q]
      BY <1>1, <2>2 DEF SelectRow
    <3>3. QED
      BY <1>5, <3>1, <3>2
  <2>3. CASE SumRows(t)
    <3> DEFINE total == ProductStock([k \in Keys |-> Found(t, k)], Branches,
                                     Current(t).row[2])
               q == [transactions[t] EXCEPT !.phase = "product", !.total = total]
    <3>1. transactions' = [transactions EXCEPT ![t] = q]
      BY <1>1, <2>3 DEF SumRows
    <3> HIDE DEF total
    <3>2. q \in AnyTransaction(T \cup {total}) /\ q.rows = transactions[t].rows
          /\ q.entity = transactions[t].entity
      BY <1>1 DEF AnyTransaction
    <3>3. QED
      BY <1>5, <3>1, <3>2
  <2>4. QED
    BY <2>1, <2>2, <2>3
<1>6. staleRow' \in [Keys -> BOOLEAN] /\ Projected(q.entity)
  BY <1>2, <1>5 DEF AvailabilityInvariant, RowsTyped, EntitiesCurrent
<1>7. QED
  BY <1>2, <1>5, <1>6, QuietStep

\* save(row): the entity as it is when what was loaded and selected is still
\* stored; otherwise the row is marked as raced on.
LEMMA UpdateRowStep ==
  ASSUME AvailabilityInvariant, NEW t \in Transactions, UpdateRow(t)
  PROVE  AvailabilityInvariant'
<1> DEFINE k == Current(t).row
           stored == Found(t, k)
           row == IF transactions[t].absent THEN transactions[t].entity
                  ELSE SavedRecord(transactions[t].entity, transactions[t].selected, stored)
<1>1. PICK T : transactions \in [Transactions -> AnyTransaction(T)]
  BY DEF AvailabilityInvariant, RowsTyped
<1>2. k \in Keys /\ stored \in Row
  BY CurrentType, FoundType DEF AvailabilityInvariant, UpdateRow, At
<1>3. /\ transactions[t].entity \in Row
      /\ transactions[t].selected \in Row
      /\ Projected(transactions[t].entity)
  BY <1>1 DEF AnyTransaction, AvailabilityInvariant, EntitiesCurrent
<1>4. /\ staleRow' = [staleRow EXCEPT
           ![k] = @ \/ transactions[t].loaded # stored \/ transactions[t].selected # stored]
      /\ SaveRow(t, row)
  BY DEF UpdateRow
<1> HIDE DEF stored
<1>5. /\ staleRow' \in [Keys -> BOOLEAN]
      /\ \A j \in Keys : staleRow[j] => staleRow'[j]
      /\ ~staleRow'[k] => transactions[t].selected = stored
  BY <1>2, <1>4 DEF AvailabilityInvariant, RowsTyped
<1>6. row \in Row
  BY <1>2, <1>3, SavedRowType
<1>7. ~staleRow'[k] => Projected(row)
  BY <1>2, <1>3, <1>5, FreshSave
<1> HIDE DEF row, k
<1>8. CASE transactions[t].atomic
  <2> DEFINE q == [transactions[t] EXCEPT !.phase = "sum", !.rows[k] = row,
                                          !.posted = @ \cup Posted(t)]
  <2>1. transactions' = [transactions EXCEPT ![t] = q] /\ inventory' = inventory
    BY <1>1, <1>4, <1>8 DEF SaveRow, k
  <2>2. q \in AnyTransaction(T \cup {transactions[t].posted \cup Posted(t)})
    <3> DEFINE written == [transactions[t].rows EXCEPT ![k] = row]
               movements == transactions[t].posted \cup Posted(t)
    <3>1. transactions[t] \in AnyTransaction(T)
      BY <1>1
    <3>2. transactions[t].rows \in [Keys -> Row \cup {None}]
      BY <3>1 DEF AnyTransaction
    <3>3. written \in [Keys -> Row \cup {None}]
      BY <1>2, <1>6, <3>2
    <3>4. q = [transactions[t] EXCEPT !.phase = "sum", !.rows = written,
                                      !.posted = movements]
      OBVIOUS
    <3> HIDE DEF q, written, movements
    <3>5. [transactions[t] EXCEPT !.phase = "sum", !.rows = written, !.posted = movements]
            \in AnyTransaction(T \cup {movements})
      BY <3>1, <3>3, WrittenType
    <3>6. q \in AnyTransaction(T \cup {movements})
      BY <3>4, <3>5
    <3>7. QED
      BY <3>6 DEF movements
  <2>3. Projected(q.entity)
    BY <1>1, <1>3 DEF AnyTransaction
  <2>4. \A j \in Keys : q.rows[j] = IF j = k THEN row ELSE transactions[t].rows[j]
    BY <1>1, <1>2 DEF AnyTransaction
  <2> HIDE DEF q
  <2>5. \A j \in Keys : q.rows[j] # None /\ ~staleRow'[j] => Projected(q.rows[j])
    BY <1>5, <1>7, <2>4 DEF AvailabilityInvariant, UncommittedCurrent
  <2>6. /\ inventory' \in [Keys -> Row \cup {None}]
        /\ \A j \in Keys : inventory'[j] # None /\ ~staleRow'[j] => Projected(inventory'[j])
    BY <1>5, <2>1 DEF AvailabilityInvariant, RowsTyped, AvailabilityCurrent, Projected
  <2>7. QED
    BY <1>5, <2>1, <2>2, <2>3, <2>5, <2>6, OneTransaction
<1>9. CASE ~transactions[t].atomic
  <2> DEFINE q == [transactions[t] EXCEPT !.phase = "sum"]
  <2>1. /\ transactions' = [transactions EXCEPT ![t] = q]
        /\ inventory' = [inventory EXCEPT ![k] = row]
    BY <1>1, <1>4, <1>9 DEF SaveRow, k
  <2>2. q \in AnyTransaction(T) /\ q.entity = transactions[t].entity
        /\ q.rows = transactions[t].rows
    BY <1>1 DEF AnyTransaction
  <2> HIDE DEF q
  <2>3. \A j \in Keys : q.rows[j] # None /\ ~staleRow'[j] => Projected(q.rows[j])
    BY <1>5, <2>2 DEF AvailabilityInvariant, UncommittedCurrent
  <2>4. inventory' \in [Keys -> Row \cup {None}]
    BY <1>2, <1>6, <2>1 DEF AvailabilityInvariant, RowsTyped
  <2>5. \A j \in Keys : inventory'[j] = IF j = k THEN row ELSE inventory[j]
    BY <1>2, <2>1 DEF AvailabilityInvariant, RowsTyped
  <2>6. \A j \in Keys : inventory'[j] # None /\ ~staleRow'[j] => Projected(inventory'[j])
    BY <1>5, <1>7, <2>5 DEF AvailabilityInvariant, AvailabilityCurrent, Projected
  <2>7. Projected(q.entity)
    BY <1>3, <2>2
  <2>8. QED
    BY <1>5, <2>1, <2>2, <2>3, <2>4, <2>6, <2>7, OneTransaction
<1>10. QED
  BY <1>8, <1>9

\* SkipUpdate: the row stays as it is stored.
LEMMA SkipUpdateStep ==
  ASSUME AvailabilityInvariant, NEW t \in Transactions, SkipUpdate(t)
  PROVE  AvailabilityInvariant'
<1> DEFINE k == Current(t).row
           q == [transactions[t] EXCEPT !.phase = "sum", !.posted = @ \cup Posted(t)]
<1>1. PICK T : transactions \in [Transactions -> AnyTransaction(T)]
  BY DEF AvailabilityInvariant, RowsTyped
<1>2. k \in Keys
  BY CurrentType DEF AvailabilityInvariant, SkipUpdate, At
<1>3. staleRow' \in [Keys -> BOOLEAN] /\ \A j \in Keys : staleRow[j] => staleRow'[j]
  BY <1>2 DEF AvailabilityInvariant, RowsTyped, SkipUpdate
<1>4. q \in AnyTransaction(T \cup {q.posted}) /\ q.entity = transactions[t].entity
      /\ q.rows = transactions[t].rows
  BY <1>1 DEF AnyTransaction
<1>5. transactions' = [transactions EXCEPT ![t] = q] /\ UNCHANGED inventory
  BY <1>1 DEF SkipUpdate, ledgerTables
<1>6. Projected(q.entity)
  BY <1>4 DEF AvailabilityInvariant, EntitiesCurrent
<1> HIDE DEF q
<1>7. QED
  BY <1>3, <1>4, <1>5, <1>6, QuietStep

\* UpdateProduct: no row is written.
LEMMA UpdateProductStep ==
  ASSUME AvailabilityInvariant, NEW t \in Transactions, UpdateProduct(t)
  PROVE  AvailabilityInvariant'
<1> DEFINE p == Current(t).row[2]
           next == [transactions[t] EXCEPT !.phase = "read", !.calls = Tail(@)]
           q == IF transactions[t].atomic
                THEN [next EXCEPT !.stock[p] = transactions[t].total] ELSE next
<1>1. PICK T : transactions \in [Transactions -> AnyTransaction(T)]
  BY DEF AvailabilityInvariant, RowsTyped
<1>2. transactions[t].calls \in Seq(LedgerCall) /\ transactions[t].calls # <<>>
  BY <1>1 DEF AnyTransaction, UpdateProduct, At, Done
<1>3. Tail(transactions[t].calls) \in Seq(LedgerCall)
  BY <1>2
<1>4. next \in AnyTransaction(T) /\ next.entity = transactions[t].entity
      /\ next.rows = transactions[t].rows
  BY <1>1, <1>3 DEF AnyTransaction
<1>5. transactions' = [transactions EXCEPT ![t] = q]
  BY DEF UpdateProduct
<1> HIDE DEF next
<1>6. q \in AnyTransaction(T \cup {q.stock}) /\ q.entity = transactions[t].entity
      /\ q.rows = transactions[t].rows
  BY <1>4 DEF AnyTransaction
<1>7. UNCHANGED inventory /\ staleRow' = staleRow /\ staleRow' \in [Keys -> BOOLEAN]
  BY DEF UpdateProduct, ledgerHistory, AvailabilityInvariant, RowsTyped
<1>8. Projected(q.entity)
  BY <1>6 DEF AvailabilityInvariant, EntitiesCurrent
<1> HIDE DEF q
<1>9. QED
  BY <1>5, <1>6, <1>7, <1>8, QuietStep

\* A commit makes the rows of the transaction the stored ones.
LEMMA CommitStep ==
  ASSUME AvailabilityInvariant, NEW t \in Transactions, Commit(t)
  PROVE  AvailabilityInvariant'
<1> DEFINE q == Outside("committed")
<1>1. PICK U : q \in AnyTransaction(U)
  BY OutsideType
<1>2. Projected(q.entity) /\ \A k \in Keys : q.rows[k] = None
  BY OutsideType
<1>3. transactions' = [transactions EXCEPT ![t] = q]
  BY DEF Commit, EndTransaction
<1>4. inventory' = View(t) /\ inventory' \in [Keys -> Row \cup {None}]
  BY FoundType DEF Commit, AvailabilityInvariant
<1>5. staleRow' = staleRow /\ staleRow' \in [Keys -> BOOLEAN]
  BY DEF Commit, AvailabilityInvariant, RowsTyped
<1>6. \A k \in Keys : inventory'[k] # None /\ ~staleRow'[k] => Projected(inventory'[k])
  BY <1>4, <1>5 DEF View, AvailabilityInvariant, AvailabilityCurrent, UncommittedCurrent, Projected
<1> HIDE DEF q
<1>7. \A k \in Keys : staleRow[k] => staleRow'[k]
  BY <1>5
<1>8. \A k \in Keys : q.rows[k] # None /\ ~staleRow'[k] => Projected(q.rows[k])
  BY <1>2
<1>9. Projected(q.entity)
  BY <1>2
<1>10. QED
  BY <1>1, <1>3, <1>4, <1>5, <1>6, <1>7, <1>8, <1>9, OneTransaction

-----------------------------------------------------------------------------
(* The invariant                                                           *)

\* At the start every stored row is current (LedgerAssumption).
LEMMA InitAvailability == LedgerInit => AvailabilityInvariant
<1> SUFFICES ASSUME LedgerInit PROVE AvailabilityInvariant
  OBVIOUS
<1>1. PICK T : Outside("ready") \in AnyTransaction(T)
  BY OutsideType
<1>2. Projected(Outside("ready").entity) /\ \A k \in Keys : Outside("ready").rows[k] = None
  BY OutsideType
<1>3. \A t \in Transactions : transactions[t] = Outside("ready")
  BY DEF LedgerInit
<1>4. transactions \in [Transactions -> AnyTransaction(T)]
  BY <1>1 DEF LedgerInit
<1>5. RowsTyped
  BY <1>4, LedgerAssumption DEF RowsTyped, LedgerInit
<1>6. AvailabilityCurrent
  BY LedgerAssumption DEF AvailabilityCurrent, LedgerInit
<1>7. EntitiesCurrent /\ UncommittedCurrent
  BY <1>2, <1>3 DEF EntitiesCurrent, UncommittedCurrent
<1>8. QED
  BY <1>5, <1>6, <1>7 DEF AvailabilityInvariant

\* Every step.
LEMMA NextAvailability ==
  AvailabilityInvariant /\ [AnyCallers]_ledgerVars => AvailabilityInvariant'
<1> SUFFICES ASSUME AvailabilityInvariant, [AnyCallers]_ledgerVars
             PROVE  AvailabilityInvariant'
  OBVIOUS
<1>1. CASE UNCHANGED ledgerVars
  BY <1>1 DEF ledgerVars, ledgerTables, ledgerHistory, AvailabilityInvariant, RowsTyped,
     AvailabilityCurrent, EntitiesCurrent, UncommittedCurrent, Projected, AvailableToSell
<1>2. ASSUME NEW t \in Transactions, NEW program \in Callable, Begin(t, program)
      PROVE  AvailabilityInvariant'
  BY <1>2, BeginStep
<1>3. ASSUME NEW t \in Transactions, CallStep(t)
      PROVE  AvailabilityInvariant'
  <2>1. CASE ReadRow(t)
    BY <2>1, ReadRowStep
  <2>2. CASE CheckAvailability(t) \/ SelectRow(t) \/ SumRows(t)
    BY <2>2, OtherReadStep
  <2>3. CASE Refuse(t) \/ Collide(t) \/ AbortDeadlock(t)
    <3>1. EndTransaction(t, "aborted") /\ UNCHANGED <<inventory, staleRow>>
      BY <2>3 DEF Refuse, Collide, AbortDeadlock, ledgerTables
    <3>2. QED
      BY <3>1, EndStep
  <2>4. CASE UpdateRow(t)
    BY <2>4, UpdateRowStep
  <2>5. CASE SkipUpdate(t)
    BY <2>5, SkipUpdateStep
  <2>6. CASE UpdateProduct(t)
    BY <2>6, UpdateProductStep
  <2>7. QED
    BY <1>3, <2>1, <2>2, <2>3, <2>4, <2>5, <2>6 DEF CallStep
<1>4. ASSUME NEW t \in Transactions, Commit(t)
      PROVE  AvailabilityInvariant'
  BY <1>4, CommitStep
<1>5. ASSUME NEW t \in Transactions, Rollback(t)
      PROVE  AvailabilityInvariant'
  <2>1. EndTransaction(t, "aborted") /\ UNCHANGED <<inventory, staleRow>>
    BY <1>5 DEF Rollback, ledgerTables
  <2>2. QED
    BY <2>1, EndStep
<1>6. QED
  BY <1>1, <1>2, <1>3, <1>4, <1>5 DEF AnyCallers, CallerStep

\* What the theorems below rest on.
LEMMA AvailabilityHolds == LedgerSpec => []AvailabilityInvariant
<1>1. QED
  BY InitAvailability, NextAvailability, CallersAreAny, PTL DEF LedgerSpec

\* However many transactions overlap, commit and fail, availableToSell of a
\* stored row is what applyAvailabilityProjection computes from its other
\* columns, unless the row was saved from an outdated read.
THEOREM AvailabilityStaysCurrent == LedgerSpec => []AvailabilityCurrent
<1>1. AvailabilityInvariant => AvailabilityCurrent
  BY DEF AvailabilityInvariant
<1>2. QED
  BY <1>1, AvailabilityHolds, PTL

\* Whatever overlaps and however save() merges columns, no column of a stored
\* row is ever negative: each value was computed by a call that was not refused.
THEOREM StoredRowsAreCounts == LedgerSpec => [](inventory \in [Keys -> Row \cup {None}])
<1>1. AvailabilityInvariant => inventory \in [Keys -> Row \cup {None}]
  BY DEF AvailabilityInvariant, RowsTyped
<1>2. QED
  BY <1>1, AvailabilityHolds, PTL

-----------------------------------------------------------------------------
(* What one step does to the transaction that takes it, column by column.   *)

\* A transaction in memory, and what it will commit.
Typed == RowsTyped /\ LedgerTypeOK

OnlyOf(t) == \A u \in Transactions \ {t} : transactions'[u] = transactions[u]

SameCaller(n, q) == n.status = q.status /\ n.atomic = q.atomic
SameRead(n, q) == /\ n.absent = q.absent /\ n.loaded = q.loaded
                  /\ n.entity = q.entity /\ n.selected = q.selected
SameWrites(n, q) == n.rows = q.rows /\ n.stock = q.stock /\ n.posted = q.posted

\* Begin: the calls of the caller's program.
LEMMA BeginEffect ==
  ASSUME Typed, NEW t \in Transactions, NEW program \in Callable, Begin(t, program)
  PROVE  LET n == transactions'[t]  q == transactions[t]
         IN  /\ OnlyOf(t) /\ q.status = "ready"
             /\ n.status = "running" /\ n.atomic = program.atomic /\ n.calls = program.calls
             /\ n.phase = q.phase /\ n.total = q.total /\ SameRead(n, q) /\ SameWrites(n, q)
<1>1. transactions[t] \in Transaction
  BY DEF Typed, LedgerTypeOK
<1> DEFINE n == [transactions[t] EXCEPT
                   !.status = "running", !.atomic = program.atomic, !.calls = program.calls]
<1>2. transactions' = [transactions EXCEPT ![t] = n]
  BY DEF Begin, Typed, LedgerTypeOK
<1>3. /\ n.status = "running" /\ n.atomic = program.atomic /\ n.calls = program.calls
      /\ n.phase = transactions[t].phase /\ n.total = transactions[t].total
      /\ SameRead(n, transactions[t]) /\ SameWrites(n, transactions[t])
  BY <1>1 DEF Transaction, SameRead, SameWrites
<1> HIDE DEF n
<1>4. OnlyOf(t) /\ transactions'[t] = n
  BY <1>2 DEF OnlyOf, Typed, LedgerTypeOK
<1>5. QED
  BY <1>3, <1>4 DEF Begin

\* The first SELECT: the row as it is seen, and what the call makes of it.
LEMMA ReadEffect ==
  ASSUME Typed, NEW t \in Transactions, ReadRow(t)
  PROVE  LET n == transactions'[t]  q == transactions[t]
         IN  /\ OnlyOf(t) /\ SameCaller(n, q) /\ n.calls = q.calls /\ n.phase = "select" /\ n.total = q.total
             /\ n.loaded = Found(t, Current(t).row) /\ n.entity = Changed(Current(t), n.loaded)
             /\ SameWrites(n, q)
<1>1. transactions[t] \in Transaction
  BY DEF Typed, LedgerTypeOK
<1> DEFINE row == Found(t, Current(t).row)
           made == Changed(Current(t), row)
           gone == View(t)[Current(t).row] = None
           n == [transactions[t] EXCEPT !.phase = "select", !.loaded = row, !.entity = made,
                                        !.absent = gone]
<1>2. transactions' = [transactions EXCEPT ![t] = n]
  BY DEF ReadRow, Typed, LedgerTypeOK
<1> HIDE DEF made, gone
<1>3. /\ SameCaller(n, transactions[t]) /\ n.calls = transactions[t].calls /\ n.phase = "select"
      /\ n.total = transactions[t].total
      /\ n.loaded = row /\ n.entity = made /\ SameWrites(n, transactions[t])
  BY <1>1 DEF Transaction, SameCaller, SameWrites
<1> HIDE DEF n
<1>4. OnlyOf(t) /\ transactions'[t] = n
  BY <1>2 DEF OnlyOf, Typed, LedgerTypeOK
<1>5. QED
  BY <1>3, <1>4 DEF made

\* dispatch's check lets the next call go on.
LEMMA CheckEffect ==
  ASSUME Typed, NEW t \in Transactions, CheckAvailability(t)
  PROVE  LET n == transactions'[t]  q == transactions[t]
         IN  /\ OnlyOf(t) /\ SameCaller(n, q) /\ n.calls = Tail(q.calls) /\ n.phase = q.phase
             /\ n.total = q.total /\ SameRead(n, q) /\ SameWrites(n, q)
<1>1. transactions[t] \in Transaction
  BY DEF Typed, LedgerTypeOK
<1> DEFINE n == [transactions[t] EXCEPT !.calls = Tail(transactions[t].calls)]
<1>2. transactions' = [transactions EXCEPT ![t] = n]
  BY DEF CheckAvailability, Typed, LedgerTypeOK
<1>3. /\ SameCaller(n, transactions[t]) /\ n.calls = Tail(transactions[t].calls)
      /\ n.phase = transactions[t].phase /\ n.total = transactions[t].total
      /\ SameRead(n, transactions[t]) /\ SameWrites(n, transactions[t])
  BY <1>1 DEF Transaction, SameCaller, SameRead, SameWrites
<1> HIDE DEF n
<1>4. OnlyOf(t) /\ transactions'[t] = n
  BY <1>2 DEF OnlyOf, Typed, LedgerTypeOK
<1>5. QED
  BY <1>3, <1>4

\* The second SELECT.
LEMMA SelectEffect ==
  ASSUME Typed, NEW t \in Transactions, SelectRow(t)
  PROVE  LET n == transactions'[t]  q == transactions[t]
         IN  /\ OnlyOf(t) /\ SameCaller(n, q) /\ n.calls = q.calls /\ n.phase = "update"
             /\ n.loaded = q.loaded /\ n.entity = q.entity /\ n.total = q.total
             /\ n.selected = Found(t, Current(t).row) /\ SameWrites(n, q)
<1>1. transactions[t] \in Transaction
  BY DEF Typed, LedgerTypeOK
<1> DEFINE row == Found(t, Current(t).row)
           n == [transactions[t] EXCEPT !.phase = "update", !.selected = row]
<1>2. transactions' = [transactions EXCEPT ![t] = n]
  BY DEF SelectRow, Typed, LedgerTypeOK
<1>3. /\ SameCaller(n, transactions[t]) /\ n.calls = transactions[t].calls /\ n.phase = "update"
      /\ n.loaded = transactions[t].loaded /\ n.entity = transactions[t].entity
      /\ n.total = transactions[t].total
      /\ n.selected = row /\ SameWrites(n, transactions[t])
  BY <1>1 DEF Transaction, SameCaller, SameWrites
<1> HIDE DEF n
<1>4. OnlyOf(t) /\ transactions'[t] = n
  BY <1>2 DEF OnlyOf, Typed, LedgerTypeOK
<1>5. QED
  BY <1>3, <1>4

\* The row a call leaves: a new one, or the columns save() found changed.
RowSaved(t) ==
  LET q == transactions[t]
  IN  IF q.absent THEN q.entity ELSE SavedRecord(q.entity, q.selected, Found(t, Current(t).row))

\* The INSERT or UPDATE of a caller's transaction: locked, not committed.
LEMMA UpdateEffect ==
  ASSUME Typed, NEW t \in Transactions, UpdateRow(t), transactions[t].atomic
  PROVE  LET n == transactions'[t]  q == transactions[t]
         IN  /\ OnlyOf(t) /\ SameCaller(n, q) /\ n.calls = q.calls /\ n.phase = "sum" /\ n.total = q.total
             /\ n.rows = [q.rows EXCEPT ![Current(t).row] = RowSaved(t)]
             /\ n.stock = q.stock /\ n.posted = q.posted \cup Posted(t)
             /\ inventory' = inventory
<1>1. transactions[t] \in Transaction
  BY DEF Typed, LedgerTypeOK
<1> DEFINE k == Current(t).row
           row == RowSaved(t)
           movements == transactions[t].posted \cup Posted(t)
           n == [transactions[t] EXCEPT !.phase = "sum", !.rows[k] = row, !.posted = movements]
<1>2. transactions' = [transactions EXCEPT ![t] = n] /\ inventory' = inventory
  BY DEF UpdateRow, SaveRow, RowSaved, Typed, LedgerTypeOK
<1> HIDE DEF k, row, movements
<1>3. /\ SameCaller(n, transactions[t]) /\ n.calls = transactions[t].calls /\ n.phase = "sum"
      /\ n.total = transactions[t].total
      /\ n.rows = [transactions[t].rows EXCEPT ![k] = row]
      /\ n.stock = transactions[t].stock /\ n.posted = movements
  BY <1>1 DEF Transaction, SameCaller
<1> HIDE DEF n
<1>4. OnlyOf(t) /\ transactions'[t] = n
  BY <1>2 DEF OnlyOf, Typed, LedgerTypeOK
<1>5. QED
  BY <1>2, <1>3, <1>4 DEF k, row, movements

\* The same statement as a transaction of its own.
LEMMA AutocommitEffect ==
  ASSUME Typed, NEW t \in Transactions, UpdateRow(t), ~transactions[t].atomic
  PROVE  LET n == transactions'[t]  q == transactions[t]
         IN  /\ OnlyOf(t) /\ SameCaller(n, q) /\ n.calls = q.calls /\ n.phase = "sum" /\ n.total = q.total
             /\ SameWrites(n, q)
             /\ inventory' = [inventory EXCEPT ![Current(t).row] = RowSaved(t)]
<1>1. transactions[t] \in Transaction
  BY DEF Typed, LedgerTypeOK
<1> DEFINE n == [transactions[t] EXCEPT !.phase = "sum"]
<1>2. /\ transactions' = [transactions EXCEPT ![t] = n]
      /\ inventory' = [inventory EXCEPT ![Current(t).row] = RowSaved(t)]
  BY DEF UpdateRow, SaveRow, RowSaved, Typed, LedgerTypeOK
<1>3. /\ SameCaller(n, transactions[t]) /\ n.calls = transactions[t].calls /\ n.phase = "sum"
      /\ n.total = transactions[t].total
      /\ SameWrites(n, transactions[t])
  BY <1>1 DEF Transaction, SameCaller, SameWrites
<1> HIDE DEF n
<1>4. OnlyOf(t) /\ transactions'[t] = n
  BY <1>2 DEF OnlyOf, Typed, LedgerTypeOK
<1>5. QED
  BY <1>2, <1>3, <1>4

\* A save that finds nothing to change posts its movement all the same.
LEMMA SkipEffect ==
  ASSUME Typed, NEW t \in Transactions, SkipUpdate(t)
  PROVE  LET n == transactions'[t]  q == transactions[t]
         IN  /\ OnlyOf(t) /\ SameCaller(n, q) /\ n.calls = q.calls /\ n.phase = "sum" /\ n.total = q.total
             /\ n.rows = q.rows /\ n.stock = q.stock /\ n.posted = q.posted \cup Posted(t)
<1>1. transactions[t] \in Transaction
  BY DEF Typed, LedgerTypeOK
<1> DEFINE movements == transactions[t].posted \cup Posted(t)
           n == [transactions[t] EXCEPT !.phase = "sum", !.posted = movements]
<1>2. transactions' = [transactions EXCEPT ![t] = n]
  BY DEF SkipUpdate, Typed, LedgerTypeOK
<1> HIDE DEF movements
<1>3. /\ SameCaller(n, transactions[t]) /\ n.calls = transactions[t].calls /\ n.phase = "sum"
      /\ n.total = transactions[t].total
      /\ n.rows = transactions[t].rows
      /\ n.stock = transactions[t].stock /\ n.posted = movements
  BY <1>1 DEF Transaction, SameCaller
<1> HIDE DEF n
<1>4. OnlyOf(t) /\ transactions'[t] = n
  BY <1>2 DEF OnlyOf, Typed, LedgerTypeOK
<1>5. QED
  BY <1>3, <1>4 DEF movements

\* What the transaction sees of all rows.
SeenRows(t) == [k \in Keys |-> Found(t, k)]

\* syncProductStockQuantity: the sum ...
LEMMA SumEffect ==
  ASSUME Typed, NEW t \in Transactions, SumRows(t)
  PROVE  LET n == transactions'[t]  q == transactions[t]
         IN  /\ OnlyOf(t) /\ SameCaller(n, q) /\ n.calls = q.calls /\ n.phase = "product"
             /\ n.total = ProductStock(SeenRows(t), Branches, Current(t).row[2])
             /\ SameWrites(n, q)
<1>1. transactions[t] \in Transaction
  BY DEF Typed, LedgerTypeOK
<1> DEFINE sum == ProductStock(SeenRows(t), Branches, Current(t).row[2])
           n == [transactions[t] EXCEPT !.phase = "product", !.total = sum]
<1>2. transactions' = [transactions EXCEPT ![t] = n]
  BY DEF SumRows, SeenRows, Typed, LedgerTypeOK
<1> HIDE DEF sum
<1>3. /\ SameCaller(n, transactions[t]) /\ n.calls = transactions[t].calls /\ n.phase = "product"
      /\ n.total = sum /\ SameWrites(n, transactions[t])
  BY <1>1 DEF Transaction, SameCaller, SameWrites
<1> HIDE DEF n
<1>4. OnlyOf(t) /\ transactions'[t] = n
  BY <1>2 DEF OnlyOf, Typed, LedgerTypeOK
<1>5. QED
  BY <1>3, <1>4 DEF sum

\* ... and the UPDATE of the product.
LEMMA ProductEffect ==
  ASSUME Typed, NEW t \in Transactions, UpdateProduct(t)
  PROVE  LET n == transactions'[t]  q == transactions[t]  p == Current(t).row[2]
         IN  /\ OnlyOf(t) /\ SameCaller(n, q) /\ n.calls = Tail(q.calls) /\ n.phase = "read"
             /\ n.rows = q.rows /\ n.posted = q.posted /\ n.total = q.total
             /\ q.atomic => /\ n.stock = [q.stock EXCEPT ![p] = q.total]
                            /\ stockQuantity' = stockQuantity
             /\ ~q.atomic => /\ n.stock = q.stock
                             /\ stockQuantity' = [stockQuantity EXCEPT ![p] = q.total]
<1>1. transactions[t] \in Transaction
  BY DEF Typed, LedgerTypeOK
<1> DEFINE p == Current(t).row[2]
           rest == Tail(transactions[t].calls)
           sum == transactions[t].total
           next == [transactions[t] EXCEPT !.phase = "read", !.calls = rest]
           n == IF transactions[t].atomic THEN [next EXCEPT !.stock[p] = sum] ELSE next
<1>2. /\ transactions' = [transactions EXCEPT ![t] = n]
      /\ IF transactions[t].atomic THEN stockQuantity' = stockQuantity
         ELSE stockQuantity' = [stockQuantity EXCEPT ![p] = sum]
  BY DEF UpdateProduct, Typed, LedgerTypeOK
<1> HIDE DEF p, sum, rest
<1>3. /\ SameCaller(next, transactions[t]) /\ next.calls = rest /\ next.phase = "read"
      /\ next.rows = transactions[t].rows /\ next.posted = transactions[t].posted
      /\ next.total = transactions[t].total
      /\ next.stock = transactions[t].stock
      /\ DOMAIN next = DOMAIN transactions[t] /\ "stock" \in DOMAIN next
  BY <1>1 DEF Transaction, SameCaller
<1> HIDE DEF next
<1>4. /\ SameCaller(n, transactions[t]) /\ n.calls = rest /\ n.phase = "read"
      /\ n.rows = transactions[t].rows /\ n.posted = transactions[t].posted
      /\ n.total = transactions[t].total
      /\ n.stock = IF transactions[t].atomic THEN [transactions[t].stock EXCEPT ![p] = sum]
                                             ELSE transactions[t].stock
  BY <1>3 DEF SameCaller
<1> HIDE DEF n
<1>5. OnlyOf(t) /\ transactions'[t] = n
  BY <1>2 DEF OnlyOf, Typed, LedgerTypeOK
<1>6. QED
  BY <1>2, <1>4, <1>5 DEF p, sum, rest

\* The end: nothing is held any more.
LEMMA EndEffect ==
  ASSUME Typed, NEW t \in Transactions, NEW status, EndTransaction(t, status)
  PROVE  OnlyOf(t) /\ transactions'[t] = Outside(status)
BY DEF EndTransaction, OnlyOf, Typed, LedgerTypeOK

\* A transaction that has not begun, or has ended, holds nothing.
LEMMA OutsideFields ==
  ASSUME NEW status
  PROVE  LET o == Outside(status)
         IN  /\ o.status = status /\ o.atomic /\ o.calls = <<>> /\ o.phase = "read"
             /\ o.total = 0 /\ o.posted = {}
             /\ o.rows = [k \in Keys |-> None] /\ o.stock = [p \in Products |-> None]
BY DEF Outside

\* The ways a transaction ends without a commit.
Aborts(t) == Refuse(t) \/ Collide(t) \/ AbortDeadlock(t) \/ Rollback(t)

\* Nothing is committed.
LEMMA AbortEffect ==
  ASSUME NEW t \in Transactions, Aborts(t)
  PROVE  EndTransaction(t, "aborted") /\ UNCHANGED <<ledgerTables, staleRow>>
BY DEF Aborts, Refuse, Collide, AbortDeadlock, Rollback

-----------------------------------------------------------------------------
(* Type correctness                                                        *)

\* The sum of a product's rows is a count (syncProductStockQuantity).
LEMMA StockIsCount ==
  ASSUME NEW rows \in [Keys -> Row], NEW p \in Products
  PROVE  ProductStock(rows, Branches, p) \in Nat
<1> DEFINE F == [b \in Branches |-> NonNegative(rows[b, p].availableToSell)]
<1>1. ASSUME NEW b \in Branches PROVE F[b] \in Nat
  <2>1. rows[b, p] \in Row
    BY DEF Keys
  <2>2. rows[b, p].availableToSell \in Int
    <3>1. \A row \in Row : row.availableToSell \in Int
      BY DEF Row
    <3>2. QED
      BY <2>1, <3>1
  <2>3. QED
    BY <2>2, NonNegativeType
<1>2. ProductStock(rows, Branches, p) = SumFunctionOnSet(F, Branches)
  BY DEF ProductStock, SumOver
<1> HIDE DEF F
<1>3. QED
  BY <1>1, <1>2, SumNat, LedgerAssumption

\* It depends on the product's rows only.
LEMMA StockOfSameRows ==
  ASSUME NEW rows, NEW others, NEW p, \A b \in Branches : rows[b, p] = others[b, p]
  PROVE  ProductStock(rows, Branches, p) = ProductStock(others, Branches, p)
<1> DEFINE F == [b \in Branches |-> NonNegative(rows[b, p].availableToSell)]
           G == [b \in Branches |-> NonNegative(others[b, p].availableToSell)]
<1>1. \A b \in Branches : F[b] = G[b]
  OBVIOUS
<1>2. /\ ProductStock(rows, Branches, p) = SumFunctionOnSet(F, Branches)
      /\ ProductStock(others, Branches, p) = SumFunctionOnSet(G, Branches)
  BY DEF ProductStock, SumOver
<1> HIDE DEF F, G
<1>3. SumFunctionOnSet(F, Branches) = SumFunctionOnSet(G, Branches)
  <2>1. IsFiniteSet(Branches)
    BY LedgerAssumption
  <2>2. QED
    BY <1>1, <2>1, SumSame
<1>4. QED
  BY <1>2, <1>3

\* A movement names its transaction, its place in the program and its row.
LEMMA PostedType ==
  ASSUME Typed, NEW t \in Transactions, ~Done(t)
  PROVE  Posted(t) \subseteq StockMovement
<1>1. Current(t) \in LedgerCall
  BY CurrentType DEF Typed
<1>2. transactions[t].calls \in Seq(LedgerCall)
  BY DEF Typed, LedgerTypeOK, Transaction
<1>3. Len(transactions[t].calls) \in Nat
  BY <1>2
<1>4. QED
  BY <1>1, <1>3 DEF Posted, StockMovement, LedgerCall

\* The columns that RowsTyped leaves open.
LEMMA TransactionType ==
  ASSUME NEW T, NEW q \in AnyTransaction(T), q.total \in Nat,
         q.stock \in [Products -> Nat \cup {None}], q.posted \subseteq StockMovement
  PROVE  q \in Transaction
BY DEF AnyTransaction, Transaction

\* One transaction moves.
LEMMA TypeStep ==
  ASSUME Typed, RowsTyped', NEW t \in Transactions, OnlyOf(t),
         transactions'[t].total \in Nat,
         transactions'[t].stock \in [Products -> Nat \cup {None}],
         transactions'[t].posted \subseteq StockMovement,
         stockQuantity' \in [Products -> Nat], stockMovements' \subseteq StockMovement,
         disturbed' \in BOOLEAN
  PROVE  LedgerTypeOK'
<1>1. PICK T : transactions' \in [Transactions -> AnyTransaction(T)]
  BY DEF RowsTyped
<1>2. transactions'[t] \in Transaction
  BY <1>1, TransactionType
<1>3. \A u \in Transactions : transactions'[u] \in Transaction
  BY <1>2 DEF OnlyOf, Typed, LedgerTypeOK
<1>4. transactions' \in [Transactions -> Transaction]
  BY <1>1, <1>3
<1>5. QED
  BY <1>4 DEF RowsTyped, LedgerTypeOK

\* Every step keeps the types; what it does to rows is AvailabilityInvariant's.
LEMMA NextType ==
  Typed /\ RowsTyped' /\ [AnyCallers]_ledgerVars => LedgerTypeOK'
<1> SUFFICES ASSUME Typed, RowsTyped', [AnyCallers]_ledgerVars PROVE LedgerTypeOK'
  OBVIOUS
<1>1. CASE UNCHANGED ledgerVars
  BY <1>1 DEF ledgerVars, ledgerTables, ledgerHistory, Typed, LedgerTypeOK
<1>2. ASSUME NEW t \in Transactions
      PROVE  /\ transactions[t].total \in Nat
             /\ transactions[t].stock \in [Products -> Nat \cup {None}]
             /\ transactions[t].posted \subseteq StockMovement
             /\ stockQuantity \in [Products -> Nat] /\ stockMovements \subseteq StockMovement
             /\ disturbed \in BOOLEAN
  BY DEF Typed, LedgerTypeOK, Transaction
<1>3. ASSUME NEW t \in Transactions, NEW program \in Callable, Begin(t, program)
      PROVE  LedgerTypeOK'
  <2>1. /\ OnlyOf(t) /\ transactions'[t].total = transactions[t].total
        /\ SameWrites(transactions'[t], transactions[t])
    BY <1>3, BeginEffect
  <2>2. /\ stockQuantity' = stockQuantity /\ stockMovements' = stockMovements
        /\ disturbed' \in BOOLEAN
    BY <1>3 DEF Begin, ledgerTables
  <2>3. QED
    BY <1>2, <2>1, <2>2, TypeStep DEF SameWrites
<1>4. ASSUME NEW t \in Transactions, ReadRow(t) \/ CheckAvailability(t) \/ SelectRow(t)
      PROVE  LedgerTypeOK'
  <2>1. /\ OnlyOf(t) /\ transactions'[t].total = transactions[t].total
        /\ SameWrites(transactions'[t], transactions[t])
    BY <1>4, ReadEffect, CheckEffect, SelectEffect
  <2>2. UNCHANGED <<stockQuantity, stockMovements, disturbed>>
    BY <1>4 DEF ReadRow, CheckAvailability, SelectRow, ledgerTables, ledgerHistory
  <2>3. QED
    BY <1>2, <2>1, <2>2, TypeStep DEF SameWrites
<1>5. ASSUME NEW t \in Transactions, UpdateRow(t) \/ SkipUpdate(t)
      PROVE  LedgerTypeOK'
  <2>1. Posted(t) \subseteq StockMovement
    BY <1>5, PostedType DEF UpdateRow, SkipUpdate, At
  <2>2. /\ OnlyOf(t) /\ transactions'[t].total = transactions[t].total
        /\ transactions'[t].stock = transactions[t].stock
        /\ transactions'[t].posted \in {transactions[t].posted, transactions[t].posted \cup Posted(t)}
    BY <1>5, UpdateEffect, AutocommitEffect, SkipEffect DEF SameWrites
  <2>3. UNCHANGED <<stockQuantity, stockMovements, disturbed>>
    BY <1>5 DEF UpdateRow, SkipUpdate, ledgerTables
  <2>4. QED
    BY <1>2, <2>1, <2>2, <2>3, TypeStep
<1>6. ASSUME NEW t \in Transactions, SumRows(t)
      PROVE  LedgerTypeOK'
  <2>1. SeenRows(t) \in [Keys -> Row]
    BY FoundType DEF SeenRows, Typed
  <2>2. Current(t).row[2] \in Products
    BY <1>6, CurrentType DEF Typed, SumRows, At, Keys
  <2>3. /\ OnlyOf(t) /\ transactions'[t].total \in Nat
        /\ SameWrites(transactions'[t], transactions[t])
    BY <1>6, <2>1, <2>2, SumEffect, StockIsCount
  <2>4. UNCHANGED <<stockQuantity, stockMovements, disturbed>>
    BY <1>6 DEF SumRows, ledgerTables, ledgerHistory
  <2>5. QED
    BY <1>2, <2>3, <2>4, TypeStep DEF SameWrites
<1>7. ASSUME NEW t \in Transactions, UpdateProduct(t)
      PROVE  LedgerTypeOK'
  <2> DEFINE p == Current(t).row[2]
             sum == transactions[t].total
  <2>1. /\ OnlyOf(t) /\ transactions'[t].total = sum
        /\ transactions'[t].posted = transactions[t].posted
        /\ transactions'[t].stock \in {transactions[t].stock, [transactions[t].stock EXCEPT ![p] = sum]}
        /\ stockQuantity' \in {stockQuantity, [stockQuantity EXCEPT ![p] = sum]}
    BY <1>7, ProductEffect
  <2>2. sum \in Nat
    BY <1>2
  <2> HIDE DEF p, sum
  <2>3. /\ transactions'[t].stock \in [Products -> Nat \cup {None}]
        /\ stockQuantity' \in [Products -> Nat]
    BY <1>2, <2>1, <2>2
  <2>4. UNCHANGED <<stockMovements, disturbed>>
    BY <1>7 DEF UpdateProduct, ledgerHistory
  <2>5. QED
    BY <1>2, <2>1, <2>2, <2>3, <2>4, TypeStep
<1>8. ASSUME NEW t \in Transactions, NEW status, EndTransaction(t, status),
             stockQuantity' \in [Products -> Nat], stockMovements' \subseteq StockMovement
      PROVE  LedgerTypeOK'
  <2>1. OnlyOf(t) /\ transactions'[t] = Outside(status)
    BY <1>8, EndEffect
  <2>2. /\ transactions'[t].total \in Nat
        /\ transactions'[t].stock \in [Products -> Nat \cup {None}]
        /\ transactions'[t].posted \subseteq StockMovement
    BY <2>1, OutsideFields
  <2>3. disturbed' \in BOOLEAN
    BY <1>8 DEF EndTransaction
  <2>4. QED
    BY <1>8, <2>1, <2>2, <2>3, TypeStep
<1>9. ASSUME NEW t \in Transactions, Aborts(t)
      PROVE  LedgerTypeOK'
  BY <1>2, <1>8, <1>9, AbortEffect DEF ledgerTables
<1>10. ASSUME NEW t \in Transactions, Commit(t)
      PROVE  LedgerTypeOK'
  <2>1. /\ EndTransaction(t, "committed")
        /\ stockQuantity' \in [Products -> Nat]
        /\ stockMovements' \subseteq StockMovement
    BY <1>2, <1>10 DEF Commit
  <2>2. QED
    BY <1>8, <2>1
<1>11. QED
  BY <1>1, <1>3, <1>4, <1>5, <1>6, <1>7, <1>9, <1>10 DEF AnyCallers, CallerStep, CallStep, Aborts

\* At the start.
LEMMA InitType == LedgerInit => LedgerTypeOK
<1> SUFFICES ASSUME LedgerInit PROVE LedgerTypeOK
  OBVIOUS
<1>1. PICK T : transactions \in [Transactions -> AnyTransaction(T)]
  BY InitAvailability DEF AvailabilityInvariant, RowsTyped
<1>2. ASSUME NEW t \in Transactions PROVE transactions[t] \in Transaction
  <2>1. transactions[t] = Outside("ready")
    BY DEF LedgerInit
  <2>2. /\ transactions[t].total \in Nat
        /\ transactions[t].stock \in [Products -> Nat \cup {None}]
        /\ transactions[t].posted \subseteq StockMovement
    BY <2>1, OutsideFields
  <2>3. QED
    BY <1>1, <2>2, TransactionType
<1>3. transactions \in [Transactions -> Transaction]
  BY <1>1, <1>2
<1>4. stockQuantity \in [Products -> Nat]
  <2> DEFINE rows == [k \in Keys |-> OrNew(InitialRows[k])]
  <2>1. rows \in [Keys -> Row]
    BY LedgerAssumption, NewRowType DEF OrNew
  <2>2. stockQuantity = [p \in Products |-> ProductStock(rows, Branches, p)]
    BY DEF LedgerInit
  <2> HIDE DEF rows
  <2>3. QED
    BY <2>1, <2>2, StockIsCount
<1>5. QED
  BY <1>3, <1>4, LedgerAssumption DEF LedgerInit, LedgerTypeOK

LedgerTyped == AvailabilityInvariant /\ LedgerTypeOK

\* Types and availability hold together.
LEMMA LedgerStaysTyped == LedgerSpec => []LedgerTyped
<1>1. LedgerInit => LedgerTyped
  BY InitAvailability, InitType DEF LedgerTyped
<1>2. LedgerTyped /\ [AnyCallers]_ledgerVars => LedgerTyped'
  BY NextAvailability, NextType DEF LedgerTyped, Typed, AvailabilityInvariant
<1>3. QED
  BY <1>1, <1>2, CallersAreAny, PTL DEF LedgerSpec

\* Every column stays in its type: whatever overlaps, no stored or uncommitted
\* count is negative (recordMovement and adjustProjectionBucket refuse, save()
\* merges columns of two rows that are both counts).
THEOREM LedgerTypeCorrect == LedgerSpec => []LedgerTypeOK
<1>1. LedgerTyped => LedgerTypeOK
  BY DEF LedgerTyped
<1>2. QED
  BY <1>1, LedgerStaysTyped, PTL

-----------------------------------------------------------------------------
(* Where a transaction is: what its columns hold in each phase.            *)

\* A transaction and what it holds, phase by phase.
Shape(t, q) ==
  /\ q.status # "running" => q = Outside(q.status)
  /\ q.phase # "read" => q.calls # <<>>
  /\ q.phase \in {"select", "update"} =>
       /\ Head(q.calls).column # "availableToSell"
       /\ q.entity = Changed(Head(q.calls), q.loaded)
  /\ ~q.atomic =>
       /\ q.rows = [k \in Keys |-> None] /\ q.stock = [p \in Products |-> None] /\ q.posted = {}
       /\ \A n \in DOMAIN q.calls : q.calls[n].column # "quantityOnHand"
  /\ \A e \in q.posted :
       /\ e.transaction = t
       /\ e.call > Len(q.calls) \/ (q.phase \in {"sum", "product"} /\ e.call = Len(q.calls))

Shapes == \A t \in Transactions : Shape(t, transactions[t])

\* Only committed transactions have movements in the table.
MovementsCommitted ==
  \A e \in stockMovements : transactions[e.transaction].status = "committed"

\* A row is locked by one transaction.
RowsLocked ==
  \A t, u \in Transactions, k \in Keys :
    transactions[t].rows[k] # None /\ transactions[u].rows[k] # None => t = u

\* Nothing is finite but what has been written.
Finite == IsFiniteSet(stockMovements) /\ \A t \in Transactions : IsFiniteSet(transactions[t].posted)

LedgerShape == LedgerTyped /\ Shapes /\ MovementsCommitted /\ RowsLocked /\ Finite

\* What is left of a program after one call.
LEMMA RestOfCalls ==
  ASSUME NEW calls \in Seq(LedgerCall), calls # <<>>
  PROVE  /\ Len(calls) \in Nat /\ Tail(calls) \in Seq(LedgerCall)
         /\ Len(Tail(calls)) = Len(calls) - 1
         /\ Head(calls) \in LedgerCall /\ 1 \in DOMAIN calls /\ Head(calls) = calls[1]
         /\ \A n \in DOMAIN Tail(calls) : n + 1 \in DOMAIN calls /\ Tail(calls)[n] = calls[n + 1]
  OBVIOUS

\* The columns of a typed transaction.
LEMMA TransactionColumns ==
  ASSUME LedgerTyped, NEW t \in Transactions
  PROVE  LET q == transactions[t]
         IN  /\ q \in Transaction
             /\ q.status \in {"ready", "running", "committed", "aborted"} /\ q.atomic \in BOOLEAN
             /\ q.calls \in Seq(LedgerCall) /\ Len(q.calls) \in Nat
             /\ q.phase \in {"read", "select", "update", "sum", "product"}
             /\ q.loaded \in Row /\ q.entity \in Row /\ q.selected \in Row /\ q.total \in Nat
             /\ q.rows \in [Keys -> Row \cup {None}]
             /\ q.stock \in [Products -> Nat \cup {None}]
             /\ q.posted \subseteq StockMovement
<1>1. transactions[t] \in Transaction
  BY DEF LedgerTyped, LedgerTypeOK
<1>2. transactions[t].calls \in Seq(LedgerCall)
  BY <1>1 DEF Transaction
<1>3. Len(transactions[t].calls) \in Nat
  BY <1>2
<1>4. QED
  BY <1>1, <1>3 DEF Transaction

\* Only a transaction that runs makes a step, and it is not at its end.
LEMMA StepsRun ==
  ASSUME NEW t \in Transactions
  PROVE  /\ ReadRow(t) \/ CheckAvailability(t) => At(t, "read")
         /\ SelectRow(t) => At(t, "select")
         /\ UpdateRow(t) \/ SkipUpdate(t) => At(t, "update")
         /\ SumRows(t) => At(t, "sum")
         /\ UpdateProduct(t) => At(t, "product")
         /\ Aborts(t) => Running(t)
         /\ \A phase : At(t, phase) => /\ Running(t) /\ transactions[t].calls # <<>>
                                       /\ transactions[t].phase = phase
                                       /\ transactions[t].status = "running"
<1>1. \A u : WaitsFor(t, u) => Running(t)
  BY DEF WaitsFor, At
<1>2. AbortDeadlock(t) => Running(t)
  BY <1>1 DEF AbortDeadlock
<1>3. Refuse(t) \/ Collide(t) \/ Rollback(t) => Running(t)
  BY DEF Refuse, Collide, Rollback, At
<1>4. QED
  BY <1>2, <1>3 DEF Aborts, ReadRow, CheckAvailability, SelectRow, UpdateRow, SkipUpdate,
    SumRows, UpdateProduct, At, Running, Done

\* A transaction outside has its shape.
LEMMA OutsideShape ==
  ASSUME NEW t, NEW status \in {"ready", "committed", "aborted"}
  PROVE  Shape(t, Outside(status))
<1> DEFINE o == Outside(status)
<1>1. /\ o.status = status /\ o.atomic /\ o.phase = "read" /\ o.posted = {}
  BY OutsideFields
<1>2. o = Outside(o.status)
  BY <1>1
<1> HIDE DEF o
<1>3. QED
  BY <1>1, <1>2 DEF Shape, o

\* The caller's columns and what has been read and written stay: so does the shape.
LEMMA SameShape ==
  ASSUME NEW t, NEW q, NEW n, Shape(t, q), q.status = "running", SameCaller(n, q),
         n.calls = q.calls, n.rows = q.rows, n.stock = q.stock,
         n.phase \in {"select", "update"} =>
           Head(q.calls).column # "availableToSell" /\ n.entity = Changed(Head(q.calls), n.loaded),
         n.phase # "read" => q.calls # <<>>,
         \A e \in n.posted :
           /\ e.transaction = t
           /\ e.call > Len(q.calls) \/ (n.phase \in {"sum", "product"} /\ e.call = Len(q.calls)),
         ~q.atomic => n.posted = {}
  PROVE  Shape(t, n)
BY DEF Shape, SameCaller

\* A row can be written only by the one transaction that locks it.
LEMMA LockedRow ==
  ASSUME Typed, NEW t \in Transactions, UpdateRow(t), NEW u \in Transactions, u # t
  PROVE  transactions[u].rows[Current(t).row] = None
BY DEF UpdateRow, MayLock, WaitsFor

\* One call is finished: the next one comes.
LEMMA NextCallShape ==
  ASSUME LedgerTyped, NEW t \in Transactions, Shape(t, transactions[t]), Running(t),
         transactions[t].calls # <<>>, NEW n, SameCaller(n, transactions[t]),
         n.calls = Tail(transactions[t].calls), n.phase = "read",
         n.rows = transactions[t].rows, n.posted = transactions[t].posted,
         ~transactions[t].atomic => n.stock = transactions[t].stock
  PROVE  Shape(t, n)
<1> DEFINE q == transactions[t]
<1>1. /\ q.calls \in Seq(LedgerCall) /\ q.posted \subseteq StockMovement
      /\ Len(n.calls) \in Nat /\ Len(q.calls) \in Nat /\ Len(n.calls) < Len(q.calls)
      /\ \A m \in DOMAIN n.calls : m + 1 \in DOMAIN q.calls /\ n.calls[m] = q.calls[m + 1]
  BY TransactionColumns, RestOfCalls
<1>2. \A e \in n.posted : e.transaction = t /\ e.call > Len(n.calls)
  <2>1. \A e \in q.posted : e.transaction = t /\ e.call \in Nat /\ e.call >= Len(q.calls)
    BY <1>1 DEF Shape, StockMovement
  <2>2. QED
    BY <1>1, <2>1
<1>3. ~q.atomic => \A m \in DOMAIN n.calls : n.calls[m].column # "quantityOnHand"
  BY <1>1 DEF Shape
<1>4. q.status = "running" /\ n.status = "running" /\ n.atomic = q.atomic
  BY DEF Running, SameCaller
<1> HIDE DEF q
<1>5. ~n.atomic => n.rows = [k \in Keys |-> None] /\ n.stock = [p \in Products |-> None] /\ n.posted = {}
  BY <1>4 DEF Shape, q
<1>6. QED
  BY <1>2, <1>3, <1>4, <1>5 DEF Shape

\* The movement a call posts is about the transaction and the call at hand.
LEMMA PostedShape ==
  ASSUME NEW t
  PROVE  /\ \A e \in Posted(t) : /\ e.transaction = t /\ e.call = Len(transactions[t].calls)
                                 /\ e.row = Current(t).row /\ e.delta = Current(t).delta
                                 /\ Current(t).column = "quantityOnHand"
         /\ IsFiniteSet(Posted(t))
<1>1. CASE Current(t).column = "quantityOnHand"
  <2> DEFINE e == [transaction |-> t, call |-> Len(transactions[t].calls),
                   row |-> Current(t).row, delta |-> Current(t).delta]
  <2>1. Posted(t) = {e}
    BY <1>1 DEF Posted
  <2>2. IsFiniteSet({e})
    BY FS_Singleton
  <2>3. QED
    BY <1>1, <2>1, <2>2
<1>2. CASE Current(t).column # "quantityOnHand"
  BY <1>2, FS_EmptySet DEF Posted
<1>3. QED
  BY <1>1, <1>2

\* Every step keeps the shape of the transaction that takes it.
LEMMA StepShape ==
  ASSUME LedgerTyped, Typed, NEW t \in Transactions, Shape(t, transactions[t]), CallerStep(t)
  PROVE  OnlyOf(t) /\ Shape(t, transactions'[t])
<1> DEFINE q == transactions[t]
           n == transactions'[t]
<1>0. q.posted \subseteq StockMovement /\ Len(q.calls) \in Nat
  BY TransactionColumns
<1>1. ASSUME NEW program \in Callable, Begin(t, program) PROVE OnlyOf(t) /\ Shape(t, n)
  <2>1. /\ OnlyOf(t) /\ q.status = "ready"
        /\ n.status = "running" /\ n.atomic = program.atomic /\ n.calls = program.calls
        /\ n.phase = q.phase /\ SameWrites(n, q)
    BY <1>1, BeginEffect
  <2>2. q = Outside("ready")
    BY <2>1 DEF Shape
  <2>3. /\ n.phase = "read" /\ n.posted = {}
        /\ n.rows = [k \in Keys |-> None] /\ n.stock = [p \in Products |-> None]
    BY <2>1, <2>2, OutsideFields DEF SameWrites
  <2>4. ~program.atomic => \A m \in DOMAIN program.calls : program.calls[m].column # "quantityOnHand"
    BY DEF Callable
  <2> HIDE DEF n, q
  <2>5. QED
    BY <2>1, <2>3, <2>4 DEF Shape
<1>2. CASE ReadRow(t)
  <2>1. At(t, "read") /\ Current(t).column # "availableToSell"
    BY <1>2 DEF ReadRow
  <2>2. q.status = "running" /\ q.calls # <<>> /\ q.phase = "read"
    BY <2>1, StepsRun
  <2>3. /\ OnlyOf(t) /\ SameCaller(n, q) /\ n.calls = q.calls /\ n.phase = "select"
        /\ n.entity = Changed(Current(t), n.loaded) /\ SameWrites(n, q)
    BY <1>2, ReadEffect
  <2>4. Current(t) = Head(q.calls)
    BY DEF Current
  <2>5. /\ \A e \in q.posted : e.transaction = t /\ e.call > Len(q.calls)
        /\ ~q.atomic => q.posted = {}
    BY <2>2 DEF Shape
  <2> HIDE DEF n, q
  <2>6. Shape(t, n)
    BY <2>1, <2>2, <2>3, <2>4, <2>5, SameShape DEF SameWrites, q
  <2>7. QED
    BY <2>3, <2>6 DEF n
<1>3. CASE SelectRow(t)
  <2>1. q.status = "running" /\ q.calls # <<>> /\ q.phase = "select"
    BY <1>3, StepsRun
  <2>2. /\ OnlyOf(t) /\ SameCaller(n, q) /\ n.calls = q.calls /\ n.phase = "update"
        /\ n.entity = q.entity /\ n.loaded = q.loaded /\ SameWrites(n, q)
    BY <1>3, SelectEffect
  <2>3. /\ \A e \in q.posted : e.transaction = t /\ e.call > Len(q.calls)
        /\ ~q.atomic => q.posted = {}
        /\ Head(q.calls).column # "availableToSell" /\ q.entity = Changed(Head(q.calls), q.loaded)
    BY <2>1 DEF Shape
  <2> HIDE DEF n, q
  <2>4. Shape(t, n)
    BY <2>1, <2>2, <2>3, SameShape DEF SameWrites, q
  <2>5. QED
    BY <2>2, <2>4 DEF n
<1>4. CASE SumRows(t)
  <2>1. q.status = "running" /\ q.calls # <<>> /\ q.phase = "sum"
    BY <1>4, StepsRun
  <2>2. /\ OnlyOf(t) /\ SameCaller(n, q) /\ n.calls = q.calls /\ n.phase = "product"
        /\ SameWrites(n, q)
    BY <1>4, SumEffect
  <2>3. /\ \A e \in q.posted : e.transaction = t /\ (e.call > Len(q.calls) \/ e.call = Len(q.calls))
        /\ ~q.atomic => q.posted = {}
    BY <2>1 DEF Shape
  <2> HIDE DEF n, q
  <2>4. Shape(t, n)
    BY <2>1, <2>2, <2>3, SameShape DEF SameWrites, q
  <2>5. QED
    BY <2>2, <2>4 DEF n
<1>5. CASE UpdateRow(t) \/ SkipUpdate(t)
  <2>1. q.status = "running" /\ q.calls # <<>> /\ q.phase = "update"
    BY <1>5, StepsRun
  <2>2. /\ \A e \in q.posted : e.transaction = t /\ e.call > Len(q.calls)
        /\ ~q.atomic => /\ q.posted = {} /\ q.rows = [k \in Keys |-> None]
                        /\ Head(q.calls).column # "quantityOnHand"
    <3>1. Head(q.calls) = q.calls[1] /\ 1 \in DOMAIN q.calls
      BY <2>1, TransactionColumns, RestOfCalls
    <3>2. QED
      BY <2>1, <3>1 DEF Shape
  <2>3. \A e \in Posted(t) : e.transaction = t /\ e.call = Len(q.calls)
    BY PostedShape
  <2>4. ~q.atomic => Posted(t) = {}
    BY <2>2 DEF Posted, Current
  <2>5. /\ OnlyOf(t) /\ SameCaller(n, q) /\ n.calls = q.calls /\ n.phase = "sum"
        /\ n.stock = q.stock /\ n.posted \subseteq q.posted \cup Posted(t)
        /\ ~q.atomic => n.rows = q.rows
    BY <1>5, <2>4, UpdateEffect, AutocommitEffect, SkipEffect DEF SameWrites
  <2>6. n.status = "running" /\ n.atomic = q.atomic /\ n.phase = "sum"
    BY <2>1, <2>5 DEF SameCaller
  <2>7. ~q.atomic => /\ q.stock = [p \in Products |-> None]
                     /\ \A m \in DOMAIN q.calls : q.calls[m].column # "quantityOnHand"
    BY DEF Shape
  <2> HIDE DEF n, q
  <2>8. Shape(t, n)
    BY <2>1, <2>2, <2>3, <2>4, <2>5, <2>6, <2>7 DEF Shape
  <2>9. QED
    BY <2>5, <2>8 DEF n
<1>6. CASE CheckAvailability(t) \/ UpdateProduct(t)
  <2>1. Running(t) /\ q.calls # <<>> /\ (CheckAvailability(t) => q.phase = "read")
    BY <1>6, StepsRun
  <2>2. /\ OnlyOf(t) /\ SameCaller(n, q) /\ n.calls = Tail(q.calls) /\ n.phase = "read"
        /\ n.rows = q.rows /\ n.posted = q.posted
        /\ ~q.atomic => n.stock = q.stock
    BY <1>6, <2>1, CheckEffect, ProductEffect DEF SameWrites
  <2>3. Shape(t, n)
    BY <2>1, <2>2, NextCallShape
  <2>4. QED
    BY <2>2, <2>3
<1>7. CASE Aborts(t) \/ Commit(t)
  <2>1. PICK status \in {"committed", "aborted"} : EndTransaction(t, status)
    BY <1>7, AbortEffect DEF Commit
  <2>2. QED
    BY <2>1, EndEffect, OutsideShape
<1>8. QED
  BY <1>1, <1>2, <1>3, <1>4, <1>5, <1>6, <1>7 DEF CallerStep, CallStep, Aborts

\* How the tables and the columns of a transaction move in a step: only the
\* end clears them, only a save adds to them.
LEMMA StepWrites ==
  ASSUME LedgerTyped, Typed, NEW t \in Transactions, Shape(t, transactions[t]), CallerStep(t)
  PROVE  LET n == transactions'[t]  q == transactions[t]
         IN  /\ n.rows = q.rows \/ n.rows = [k \in Keys |-> None]
                \/ (UpdateRow(t) /\ n.rows = [q.rows EXCEPT ![Current(t).row] = RowSaved(t)])
             /\ n.posted \in {q.posted, {}, q.posted \cup Posted(t)}
             /\ Commit(t) \/ stockMovements' = stockMovements
             /\ q.status # "committed" /\ (Commit(t) => n.status = "committed")
<1> DEFINE n == transactions'[t]
           q == transactions[t]
<1>1. CASE \E program \in Callable : Begin(t, program)
  <2>1. PICK program \in Callable : Begin(t, program)
    BY <1>1
  <2>2. q.status = "ready" /\ n.rows = q.rows /\ n.posted = q.posted
    BY <2>1, BeginEffect DEF SameWrites
  <2>3. stockMovements' = stockMovements
    BY <2>1 DEF Begin, ledgerTables
  <2>4. ~Commit(t)
    BY <2>2 DEF Commit, Running
  <2>5. QED
    BY <2>2, <2>3, <2>4
<1>2. CASE ReadRow(t) \/ CheckAvailability(t) \/ SelectRow(t) \/ SumRows(t) \/ UpdateProduct(t)
  <2>1. n.rows = q.rows /\ n.posted = q.posted /\ ~Commit(t)
    <3>1. ~Done(t)
      BY <1>2 DEF ReadRow, CheckAvailability, SelectRow, SumRows, UpdateProduct, At
    <3>2. QED
      BY <1>2, <3>1, ReadEffect, CheckEffect, SelectEffect, SumEffect, ProductEffect
         DEF SameWrites, Commit
  <2>2. stockMovements' = stockMovements
    BY <1>2 DEF ReadRow, CheckAvailability, SelectRow, SumRows, UpdateProduct, ledgerTables
  <2>3. q.status = "running"
    BY <1>2, StepsRun
  <2>4. QED
    BY <2>1, <2>2, <2>3
<1>3. CASE UpdateRow(t) \/ SkipUpdate(t)
  <2>1. q.status = "running" /\ ~Commit(t) /\ stockMovements' = stockMovements
    <3>1. ~Done(t) /\ stockMovements' = stockMovements
      BY <1>3 DEF UpdateRow, SkipUpdate, At, ledgerTables
    <3>2. QED
      BY <1>3, <3>1, StepsRun DEF Commit
  <2>2. CASE UpdateRow(t) /\ q.atomic
    BY <2>1, <2>2, UpdateEffect
  <2>3. CASE UpdateRow(t) /\ ~q.atomic
    BY <2>1, <2>3, AutocommitEffect DEF SameWrites
  <2>4. CASE SkipUpdate(t)
    BY <2>1, <2>4, SkipEffect
  <2>5. QED
    BY <1>3, <2>2, <2>3, <2>4
<1>4. CASE Aborts(t)
  <2>1. n = Outside("aborted") /\ stockMovements' = stockMovements /\ q.status = "running"
    BY <1>4, AbortEffect, EndEffect, StepsRun DEF ledgerTables, Running
  <2>2. n.rows = [k \in Keys |-> None] /\ n.posted = {}
    BY <2>1, OutsideFields
  <2>3. CASE Commit(t)
    <3>1. n = Outside("committed")
      BY <2>3, EndEffect DEF Commit
    <3>2. QED
      BY <2>1, <2>2, <3>1, OutsideFields
  <2>4. QED
    BY <2>1, <2>2, <2>3
<1>5. CASE Commit(t)
  <2>1. n = Outside("committed") /\ q.status = "running"
    BY <1>5, EndEffect DEF Commit, Running
  <2>2. QED
    BY <1>5, <2>1, OutsideFields
<1>6. QED
  BY <1>1, <1>2, <1>3, <1>4, <1>5 DEF CallerStep, CallStep, Aborts

\* Every step keeps where the transactions are.
LEMMA NextShape ==
  LedgerShape /\ LedgerTyped' /\ [AnyCallers]_ledgerVars => LedgerShape'
<1> SUFFICES ASSUME LedgerShape, LedgerTyped', [AnyCallers]_ledgerVars PROVE LedgerShape'
  OBVIOUS
<1>0. Typed
  BY DEF LedgerShape, LedgerTyped, Typed, AvailabilityInvariant
<1>1. CASE UNCHANGED ledgerVars
  BY <1>1 DEF ledgerVars, ledgerTables, ledgerHistory, LedgerShape, Shapes,
    MovementsCommitted, RowsLocked, Finite
<1>2. CASE AnyCallers
  <2>1. PICK t \in Transactions : CallerStep(t)
    BY <1>2 DEF AnyCallers
  <2>2. Shape(t, transactions[t])
    BY DEF LedgerShape, Shapes
  <2>3. OnlyOf(t) /\ Shape(t, transactions'[t])
    BY <1>0, <2>1, <2>2, StepShape DEF LedgerShape
  <2> DEFINE n == transactions'[t]
             q == transactions[t]
  <2>4. /\ n.rows = q.rows \/ n.rows = [k \in Keys |-> None]
           \/ (UpdateRow(t) /\ n.rows = [q.rows EXCEPT ![Current(t).row] = RowSaved(t)])
        /\ n.posted \in {q.posted, {}, q.posted \cup Posted(t)}
        /\ Commit(t) \/ stockMovements' = stockMovements
        /\ q.status # "committed" /\ (Commit(t) => n.status = "committed")
    BY <1>0, <2>1, <2>2, StepWrites DEF LedgerShape
  <2>5. Shapes'
    <3>1. \A u \in Transactions : Shape(u, transactions'[u])
      BY <2>3 DEF OnlyOf, LedgerShape, Shapes
    <3>2. QED
      BY <3>1 DEF Shapes, Shape
  <2>6. MovementsCommitted'
    <3>1. \A e \in stockMovements : e.transaction # t /\ e.transaction \in Transactions
      BY <2>4 DEF LedgerShape, MovementsCommitted, LedgerTyped, LedgerTypeOK, StockMovement
    <3>2. \A e \in stockMovements : transactions'[e.transaction].status = "committed"
      BY <2>3, <3>1 DEF OnlyOf, LedgerShape, MovementsCommitted
    <3>3. CASE stockMovements' = stockMovements
      BY <3>2, <3>3 DEF MovementsCommitted
    <3>4. CASE Commit(t)
      <4>1. stockMovements' = stockMovements \cup q.posted
        BY <3>4 DEF Commit
      <4>2. \A e \in q.posted : e.transaction = t
        BY <2>2 DEF Shape
      <4>3. QED
        BY <2>4, <3>2, <3>4, <4>1, <4>2 DEF MovementsCommitted
    <3>5. QED
      BY <2>4, <3>3, <3>4
  <2>7. RowsLocked'
    <3> DEFINE k == Current(t).row
    <3>1. CASE n.rows = q.rows \/ n.rows = [j \in Keys |-> None]
      <4>1. \A u \in Transactions, j \in Keys :
              transactions'[u].rows[j] # None => transactions[u].rows[j] # None
        BY <2>3, <3>1 DEF OnlyOf
      <4>2. QED
        BY <4>1 DEF LedgerShape, RowsLocked
    <3>2. CASE UpdateRow(t) /\ n.rows = [q.rows EXCEPT ![k] = RowSaved(t)]
      <4>1. \A u \in Transactions \ {t} : transactions[u].rows[k] = None
        BY <1>0, <3>2, LockedRow
      <4>2. q.rows \in [Keys -> Row \cup {None}]
        BY TransactionColumns DEF LedgerShape
      <4>3. \A j \in Keys : j # k /\ n.rows[j] # None => q.rows[j] # None
        BY <3>2, <4>2
      <4> HIDE DEF k, n, q
      <4>4. ASSUME NEW u \in Transactions, NEW v \in Transactions, NEW j \in Keys,
                   transactions'[u].rows[j] # None, transactions'[v].rows[j] # None
            PROVE  u = v
        <5>1. CASE j = k
          BY <2>3, <4>1, <4>4, <5>1 DEF OnlyOf
        <5>2. CASE j # k
          <6>1. transactions[u].rows[j] # None /\ transactions[v].rows[j] # None
            BY <2>3, <4>3, <4>4, <5>2 DEF OnlyOf, n, q
          <6>2. QED
            BY <6>1 DEF LedgerShape, RowsLocked
        <5>3. QED
          BY <5>1, <5>2
      <4>5. QED
        BY <4>4 DEF RowsLocked
    <3>3. QED
      BY <2>4, <3>1, <3>2
  <2>8. Finite'
    <3>1. IsFiniteSet(q.posted) /\ IsFiniteSet(stockMovements) /\ IsFiniteSet(Posted(t)) /\ IsFiniteSet({})
      BY PostedShape, FS_EmptySet DEF LedgerShape, Finite
    <3>2. IsFiniteSet(q.posted \cup Posted(t)) /\ IsFiniteSet(stockMovements \cup q.posted)
      BY <3>1, FS_Union
    <3>3. IsFiniteSet(n.posted)
      BY <2>4, <3>1, <3>2
    <3>4. IsFiniteSet(stockMovements')
      BY <2>4, <3>1, <3>2 DEF Commit
    <3>5. \A u \in Transactions : IsFiniteSet(transactions'[u].posted)
      BY <2>3, <3>3 DEF OnlyOf, LedgerShape, Finite
    <3>6. QED
      BY <3>4, <3>5 DEF Finite
  <2>9. QED
    BY <2>5, <2>6, <2>7, <2>8 DEF LedgerShape
<1>3. QED
  BY <1>1, <1>2

\* At the start.
LEMMA InitShape == LedgerInit => LedgerShape
<1> SUFFICES ASSUME LedgerInit PROVE LedgerShape
  OBVIOUS
<1>1. \A t \in Transactions : transactions[t] = Outside("ready")
  BY DEF LedgerInit
<1>2. Shapes
  BY <1>1, OutsideShape DEF Shapes
<1>3. \A t \in Transactions : /\ transactions[t].posted = {}
                              /\ transactions[t].rows = [k \in Keys |-> None]
  BY <1>1, OutsideFields
<1>4. RowsLocked /\ MovementsCommitted /\ Finite
  BY <1>3, FS_EmptySet DEF RowsLocked, MovementsCommitted, Finite, LedgerInit
<1>5. QED
  BY <1>2, <1>4, InitAvailability, InitType DEF LedgerShape, LedgerTyped

\* Where the transactions are, in every state.
LEMMA LedgerKeepsShape == LedgerSpec => []LedgerShape
<1>1. LedgerShape /\ LedgerTyped' /\ [AnyCallers]_ledgerVars => LedgerShape'
  BY NextShape
<1>2. QED
  BY <1>1, InitShape, LedgerStaysTyped, CallersAreAny, PTL DEF LedgerSpec

-----------------------------------------------------------------------------
(* product.stockQuantity.  While transactions follow each other, the one at  *)
(* work sees quantities that agree with the rows it sees, but for the        *)
(* product whose row it has just saved; what it has not committed does not   *)
(* disturb the tables, unless it commits every statement.                    *)

\* The committed rows, and the quantities a transaction sees.
Stored == [k \in Keys |-> OrNew(inventory[k])]

SeenStock(t, p) ==
  IF transactions[t].stock[p] # None THEN transactions[t].stock[p] ELSE stockQuantity[p]

SeenAgrees(t, p) == SeenStock(t, p) = ProductStock(SeenRows(t), Branches, p)
StoredAgrees == \A p \in Products : stockQuantity[p] = ProductStock(Stored, Branches, p)

StockKept(t) ==
  LET q == transactions[t]
  IN  /\ \A p \in Products :
           (q.phase \in {"sum", "product"} /\ p = Current(t).row[2]) \/ SeenAgrees(t, p)
      /\ q.phase = "product" => q.total = ProductStock(SeenRows(t), Branches, Current(t).row[2])

StockInvariant ==
  ~disturbed =>
    /\ \A t, u \in Transactions : Running(t) /\ Running(u) => t = u
    /\ (\A t \in Transactions : Running(t) => transactions[t].atomic) => StoredAgrees
    /\ \A t \in Transactions : Running(t) => StockKept(t)

\* The transaction at work goes on or ends.
LEMMA StockStep ==
  ASSUME StockInvariant, ~disturbed, NEW t \in Transactions, Running(t), OnlyOf(t),
         Running(t)' => StockKept(t)',
         (Running(t)' /\ ~transactions'[t].atomic) \/ StoredAgrees'
  PROVE  StockInvariant'
<1>1. \A u \in Transactions \ {t} : ~Running(u)'
  BY DEF StockInvariant, OnlyOf, Running
<1>2. (\A u \in Transactions : Running(u)' => transactions'[u].atomic) => StoredAgrees'
  OBVIOUS
<1>3. QED
  BY <1>1, <1>2 DEF StockInvariant

\* What it sees depends on what it has written and on the tables.
LEMMA SeenSame ==
  ASSUME NEW t \in Transactions, inventory' = inventory, stockQuantity' = stockQuantity,
         transactions'[t].rows = transactions[t].rows
  PROVE  /\ SeenRows(t)' = SeenRows(t)
         /\ transactions'[t].stock = transactions[t].stock =>
              /\ \A p \in Products : SeenStock(t, p)' = SeenStock(t, p)
              /\ \A p \in Products : SeenAgrees(t, p) => SeenAgrees(t, p)'
<1>1. SeenRows(t)' = SeenRows(t)
  BY DEF SeenRows, Found, View
<1>2. transactions'[t].stock = transactions[t].stock =>
        \A p \in Products : SeenStock(t, p)' = SeenStock(t, p)
  BY DEF SeenStock
<1>3. \A p \in Products : ProductStock(SeenRows(t), Branches, p)' = ProductStock(SeenRows(t), Branches, p)
  BY <1>1 DEF ProductStock, SumOver
<1>4. QED
  BY <1>1, <1>2, <1>3 DEF SeenAgrees

\* What is committed depends on the tables.
LEMMA StoredSame ==
  ASSUME inventory' = inventory, stockQuantity' = stockQuantity
  PROVE  StoredAgrees => StoredAgrees'
<1>1. Stored' = Stored
  BY DEF Stored
<1>2. \A p \in Products : ProductStock(Stored, Branches, p)' = ProductStock(Stored, Branches, p)
  BY <1>1 DEF ProductStock, SumOver
<1>3. QED
  BY <1>2 DEF StoredAgrees

\* A transaction that holds nothing sees what is committed.
LEMMA OutsideSees ==
  ASSUME NEW t \in Transactions,
         transactions[t].rows = [k \in Keys |-> None], transactions[t].stock = [p \in Products |-> None]
  PROVE  /\ SeenRows(t) = Stored
         /\ \A p \in Products : SeenStock(t, p) = stockQuantity[p]
BY DEF SeenRows, Found, View, Stored, SeenStock

\* Reading a row, and saving what is there already, disturb nothing.
LEMMA QuietStock ==
  ASSUME LedgerShape, StockInvariant, ~disturbed, NEW t \in Transactions,
         ReadRow(t) \/ CheckAvailability(t) \/ SelectRow(t) \/ SkipUpdate(t)
  PROVE  StockInvariant'
<1> DEFINE n == transactions'[t]
           q == transactions[t]
<1>0. Typed /\ Shape(t, q)
  BY DEF LedgerShape, LedgerTyped, Typed, AvailabilityInvariant, Shapes
<1>1. Running(t) /\ q.phase \notin {"sum", "product"}
  BY StepsRun
<1>2. /\ OnlyOf(t) /\ SameCaller(n, q) /\ n.rows = q.rows /\ n.stock = q.stock
      /\ n.phase # "product"
  BY <1>0, <1>1, ReadEffect, CheckEffect, SelectEffect, SkipEffect DEF SameWrites
<1>3. inventory' = inventory /\ stockQuantity' = stockQuantity
  BY DEF ReadRow, CheckAvailability, SelectRow, SkipUpdate, ledgerTables
<1>4. \A p \in Products : SeenAgrees(t, p)
  BY <1>1 DEF StockInvariant, StockKept
<1>5. \A p \in Products : SeenAgrees(t, p)'
  BY <1>2, <1>3, <1>4, SeenSame
<1>6. StockKept(t)'
  BY <1>2, <1>5 DEF StockKept
<1>7. n.atomic => StoredAgrees'
  <2>1. n.atomic => StoredAgrees
    BY <1>1, <1>2 DEF StockInvariant, SameCaller
  <2>2. QED
    BY <1>3, <2>1, StoredSame
<1>8. Running(t)'
  BY <1>1, <1>2 DEF Running, SameCaller
<1>9. QED
  BY <1>1, <1>2, <1>6, <1>7, <1>8, StockStep

\* A saved row counts for its product alone.
LEMMA SavedStock ==
  ASSUME LedgerShape, StockInvariant, ~disturbed, NEW t \in Transactions, UpdateRow(t)
  PROVE  StockInvariant'
<1> DEFINE n == transactions'[t]
           q == transactions[t]
           k == Current(t).row
<1>0. Typed /\ Shape(t, q)
  BY DEF LedgerShape, LedgerTyped, Typed, AvailabilityInvariant, Shapes
<1>1. Running(t) /\ q.phase = "update" /\ q.calls # <<>>
  BY StepsRun
<1>2. k \in Keys
  BY <1>0, <1>1, CurrentType DEF Done, Typed
<1>3. /\ OnlyOf(t) /\ SameCaller(n, q) /\ n.stock = q.stock /\ n.calls = q.calls /\ n.phase = "sum"
      /\ q.atomic => inventory' = inventory /\ n.rows = [q.rows EXCEPT ![k] = RowSaved(t)]
      /\ ~q.atomic => n.rows = q.rows /\ inventory' = [inventory EXCEPT ![k] = RowSaved(t)]
  BY <1>0, UpdateEffect, AutocommitEffect DEF SameWrites
<1>4. stockQuantity' = stockQuantity
  BY DEF UpdateRow
<1>5. Current(t)' = Current(t)
  BY <1>3 DEF Current
<1>6. q.rows \in [Keys -> Row \cup {None}] /\ inventory \in [Keys -> Row \cup {None}]
  BY TransactionColumns DEF LedgerShape, LedgerTyped, LedgerTypeOK
<1>7. \A j \in Keys : j # k => SeenRows(t)'[j] = SeenRows(t)[j]
  <2>1. \A j \in Keys : j # k => n.rows[j] = q.rows[j] /\ inventory'[j] = inventory[j]
    BY <1>3, <1>6
  <2> HIDE DEF k
  <2>2. QED
    BY <2>1 DEF SeenRows, Found, View
<1>8. ASSUME NEW p \in Products, p # k[2] PROVE SeenAgrees(t, p)'
  <2>1. SeenAgrees(t, p)
    BY <1>1 DEF StockInvariant, StockKept
  <2>2. SeenStock(t, p)' = SeenStock(t, p)
    BY <1>3, <1>4 DEF SeenStock
  <2>3. \A b \in Branches : <<b, p>> \in Keys /\ <<b, p>> # k
    BY <1>8 DEF Keys
  <2>4. PICK after : after = SeenRows(t)'
    OBVIOUS
  <2>5. \A b \in Branches : after[b, p] = SeenRows(t)[b, p]
    BY <1>7, <2>3, <2>4
  <2>6. ProductStock(after, Branches, p) = ProductStock(SeenRows(t), Branches, p)
    BY <2>5, StockOfSameRows
  <2>7. ProductStock(SeenRows(t), Branches, p)' = ProductStock(after, Branches, p)
    BY <2>4 DEF ProductStock, SumOver
  <2>8. QED
    BY <2>1, <2>2, <2>6, <2>7 DEF SeenAgrees
<1>9. StockKept(t)'
  BY <1>3, <1>5, <1>8 DEF StockKept
<1>10. q.atomic => StoredAgrees'
  <2>1. q.atomic => StoredAgrees
    BY <1>1 DEF StockInvariant
  <2>2. QED
    BY <1>3, <1>4, <2>1, StoredSame
<1>11. Running(t)'
  BY <1>1, <1>3 DEF Running, SameCaller
<1>12. n.atomic = q.atomic
  BY <1>3 DEF SameCaller
<1>13. QED
  BY <1>1, <1>3, <1>9, <1>10, <1>11, <1>12, StockStep

\* The sum is that of the rows the transaction sees.
LEMMA SummedStock ==
  ASSUME LedgerShape, StockInvariant, ~disturbed, NEW t \in Transactions, SumRows(t)
  PROVE  StockInvariant'
<1> DEFINE n == transactions'[t]
           q == transactions[t]
           p == Current(t).row[2]
<1>0. Typed /\ Shape(t, q)
  BY DEF LedgerShape, LedgerTyped, Typed, AvailabilityInvariant, Shapes
<1>1. Running(t) /\ q.phase = "sum"
  BY StepsRun
<1>2. /\ OnlyOf(t) /\ SameCaller(n, q) /\ n.rows = q.rows /\ n.stock = q.stock /\ n.calls = q.calls
      /\ n.phase = "product" /\ n.total = ProductStock(SeenRows(t), Branches, p)
  BY <1>0, SumEffect DEF SameWrites
<1>3. inventory' = inventory /\ stockQuantity' = stockQuantity
  BY DEF SumRows, ledgerTables
<1>4. Current(t)' = Current(t)
  BY <1>2 DEF Current
<1>5. \A r \in Products : r = p \/ SeenAgrees(t, r)'
  <2>1. \A r \in Products : r = p \/ SeenAgrees(t, r)
    BY <1>1 DEF StockInvariant, StockKept
  <2>2. QED
    BY <1>2, <1>3, <2>1, SeenSame
<1>6. n.total = ProductStock(SeenRows(t), Branches, p)'
  <2>1. SeenRows(t)' = SeenRows(t)
    BY <1>2, <1>3, SeenSame
  <2>2. p' = p
    BY <1>4
  <2>3. ProductStock(SeenRows(t), Branches, p)' = ProductStock(SeenRows(t), Branches, p)
    BY <2>1, <2>2 DEF ProductStock, SumOver
  <2>4. QED
    BY <1>2, <2>3
<1>7. StockKept(t)'
  BY <1>2, <1>4, <1>5, <1>6 DEF StockKept
<1>8. q.atomic => StoredAgrees'
  <2>1. q.atomic => StoredAgrees
    BY <1>1 DEF StockInvariant
  <2>2. QED
    BY <1>3, <2>1, StoredSame
<1>9. Running(t)' /\ n.atomic = q.atomic
  BY <1>1, <1>2 DEF Running, SameCaller
<1>10. QED
  BY <1>1, <1>2, <1>7, <1>8, <1>9, StockStep

\* With the product's quantity written, every product agrees.
LEMMA WrittenStock ==
  ASSUME LedgerShape, StockInvariant, ~disturbed, NEW t \in Transactions, UpdateProduct(t)
  PROVE  StockInvariant'
<1> DEFINE n == transactions'[t]
           q == transactions[t]
<1>p. PICK p : p = Current(t).row[2]
  OBVIOUS
<1>0. Typed /\ Shape(t, q)
  BY DEF LedgerShape, LedgerTyped, Typed, AvailabilityInvariant, Shapes
<1>1. Running(t) /\ q.phase = "product" /\ q.calls # <<>>
  BY StepsRun
<1>2. /\ OnlyOf(t) /\ SameCaller(n, q) /\ n.rows = q.rows /\ n.phase = "read"
      /\ q.atomic => n.stock = [q.stock EXCEPT ![p] = q.total] /\ stockQuantity' = stockQuantity
      /\ ~q.atomic => n.stock = q.stock /\ stockQuantity' = [stockQuantity EXCEPT ![p] = q.total]
  BY <1>0, <1>p, ProductEffect
<1>3. inventory' = inventory
  BY DEF UpdateProduct
<1>4. /\ q.total \in Nat /\ q.stock \in [Products -> Nat \cup {None}]
      /\ stockQuantity \in [Products -> Nat] /\ None \notin Nat
      /\ ~q.atomic => q.stock = [r \in Products |-> None]
  BY <1>0, TransactionColumns, LedgerAssumption DEF LedgerShape, LedgerTyped, LedgerTypeOK, Shape
<1>5. p \in Products
  BY <1>0, <1>1, <1>p, CurrentType DEF Done, Typed, Keys
<1>6. /\ SeenStock(t, p)' = q.total
      /\ \A r \in Products \ {p} : SeenStock(t, r)' = SeenStock(t, r)
  <2>1. CASE q.atomic
    BY <1>2, <1>4, <1>5, <2>1 DEF SeenStock
  <2>2. CASE ~q.atomic
    BY <1>2, <1>4, <1>5, <2>2 DEF SeenStock
  <2>3. QED
    BY <2>1, <2>2
<1>7. \A r \in Products : ProductStock(SeenRows(t), Branches, r)' = ProductStock(SeenRows(t), Branches, r)
  <2>1. SeenRows(t)' = SeenRows(t)
    BY <1>2, <1>3 DEF SeenRows, Found, View
  <2>2. QED
    BY <2>1 DEF ProductStock, SumOver
<1>8. /\ q.total = ProductStock(SeenRows(t), Branches, p)
      /\ \A r \in Products \ {p} : SeenAgrees(t, r)
  BY <1>1, <1>p DEF StockInvariant, StockKept
<1>9. \A r \in Products : SeenAgrees(t, r)'
  <2>1. ASSUME NEW r \in Products PROVE SeenStock(t, r)' = ProductStock(SeenRows(t), Branches, r)
    <3>1. CASE r = p
      BY <1>6, <1>8, <3>1
    <3>2. CASE r # p
      BY <1>6, <1>8, <3>2 DEF SeenAgrees
    <3>3. QED
      BY <3>1, <3>2
  <2>2. QED
    BY <1>7, <2>1 DEF SeenAgrees
<1>10. StockKept(t)'
  BY <1>2, <1>9 DEF StockKept
<1>11. q.atomic => StoredAgrees'
  <2>1. q.atomic => StoredAgrees
    BY <1>1 DEF StockInvariant
  <2>2. QED
    BY <1>2, <1>3, <2>1, StoredSame
<1>12. Running(t)' /\ n.atomic = q.atomic
  BY <1>1, <1>2 DEF Running, SameCaller
<1>13. QED
  BY <1>1, <1>2, <1>10, <1>11, <1>12, StockStep

\* What a transaction commits is what it has seen; one that fails leaves what
\* was committed, unless it had committed every statement.
LEMMA EndedStock ==
  ASSUME LedgerShape, StockInvariant, ~disturbed, ~disturbed',
         NEW t \in Transactions, Commit(t) \/ Aborts(t)
  PROVE  StockInvariant'
<1> DEFINE q == transactions[t]
<1>0. Typed /\ Shape(t, q)
  BY DEF LedgerShape, LedgerTyped, Typed, AvailabilityInvariant, Shapes
<1>1. Running(t)
  BY StepsRun DEF Commit
<1>2. PICK status \in {"committed", "aborted"} :
        EndTransaction(t, status) /\ (Aborts(t) /\ ~Commit(t) => status = "aborted")
  BY AbortEffect DEF Commit
<1>3. OnlyOf(t) /\ ~Running(t)'
  BY <1>0, <1>2, EndEffect, OutsideFields DEF Running
<1>4. CASE Commit(t)
  <2>1. \A p \in Products : SeenAgrees(t, p)
    <3>1. q.phase = "read"
      BY <1>0, <1>4 DEF Shape, Commit, Done
    <3>2. QED
      BY <1>1, <3>1 DEF StockInvariant, StockKept
  <2>2. Stored' = SeenRows(t)
    BY <1>4 DEF Commit, Stored, SeenRows, Found
  <2>3. \A p \in Products : stockQuantity'[p] = SeenStock(t, p)
    BY <1>4 DEF Commit, SeenStock
  <2>4. \A p \in Products : ProductStock(Stored, Branches, p)' = ProductStock(SeenRows(t), Branches, p)
    BY <2>2 DEF ProductStock, SumOver
  <2>5. StoredAgrees'
    BY <2>1, <2>3, <2>4 DEF SeenAgrees, StoredAgrees
  <2>6. QED
    BY <1>1, <1>3, <2>5, StockStep
<1>5. CASE Aborts(t) /\ ~Commit(t)
  <2>1. q.atomic
    BY <1>2, <1>5 DEF EndTransaction
  <2>2. StoredAgrees
    BY <1>1, <2>1 DEF StockInvariant
  <2>3. inventory' = inventory /\ stockQuantity' = stockQuantity
    BY <1>5, AbortEffect DEF ledgerTables
  <2>4. StoredAgrees'
    BY <2>2, <2>3, StoredSame
  <2>5. QED
    BY <1>1, <1>3, <2>4, StockStep
<1>6. QED
  BY <1>4, <1>5

\* A transaction that begins undisturbed is alone, and sees what is committed.
LEMMA BegunStock ==
  ASSUME LedgerShape, StockInvariant, ~disturbed, ~disturbed',
         NEW t \in Transactions, NEW program \in Callable, Begin(t, program)
  PROVE  StockInvariant'
<1> DEFINE n == transactions'[t]
           q == transactions[t]
<1>0. Typed /\ Shape(t, q)
  BY DEF LedgerShape, LedgerTyped, Typed, AvailabilityInvariant, Shapes
<1>1. \A u \in Transactions : ~Running(u)
  BY DEF Begin
<1>2. StoredAgrees
  BY <1>1 DEF StockInvariant
<1>3. inventory' = inventory /\ stockQuantity' = stockQuantity
  BY DEF Begin, ledgerTables
<1>4. /\ OnlyOf(t) /\ q.status = "ready" /\ n.phase = q.phase /\ SameWrites(n, q)
  BY <1>0, BeginEffect
<1>5. q = Outside("ready")
  BY <1>0, <1>4 DEF Shape
<1>6. /\ n.phase = "read" /\ n.rows = [k \in Keys |-> None] /\ n.stock = [p \in Products |-> None]
  BY <1>4, <1>5, OutsideFields DEF SameWrites
<1>7. /\ SeenRows(t)' = Stored'
      /\ \A p \in Products : SeenStock(t, p)' = stockQuantity'[p]
  BY <1>6 DEF SeenRows, Found, View, Stored, SeenStock
<1>8. StoredAgrees'
  BY <1>2, <1>3, StoredSame
<1>9. \A p \in Products : SeenAgrees(t, p)'
  <2>1. \A p \in Products : ProductStock(SeenRows(t), Branches, p)' = ProductStock(Stored, Branches, p)'
    BY <1>7 DEF ProductStock, SumOver
  <2>2. QED
    BY <1>7, <1>8, <2>1 DEF SeenAgrees, StoredAgrees
<1>10. StockKept(t)'
  BY <1>6, <1>9 DEF StockKept
<1>11. \A u \in Transactions \ {t} : ~Running(u)'
  BY <1>1, <1>4 DEF OnlyOf, Running
<1>12. QED
  BY <1>8, <1>10, <1>11 DEF StockInvariant

\* Every step.
LEMMA NextStock == LedgerShape /\ StockInvariant /\ [AnyCallers]_ledgerVars => StockInvariant'
<1> SUFFICES ASSUME LedgerShape, StockInvariant, [AnyCallers]_ledgerVars, ~disturbed'
             PROVE  StockInvariant'
  BY DEF StockInvariant
<1>1. CASE UNCHANGED ledgerVars
  <2>1. UNCHANGED <<inventory, stockQuantity, transactions, disturbed>>
    BY <1>1 DEF ledgerVars, ledgerTables, ledgerHistory
  <2>2. \A t \in Transactions : /\ Running(t)' = Running(t)
                                /\ \A p \in Products : SeenAgrees(t, p) => SeenAgrees(t, p)'
    BY <2>1, SeenSame DEF Running
  <2>3. \A t \in Transactions : \A p : ProductStock(SeenRows(t), Branches, p)' = ProductStock(SeenRows(t), Branches, p)
    BY <2>1 DEF ProductStock, SumOver, SeenRows, Found, View
  <2>4. \A t \in Transactions : Current(t)' = Current(t)
    BY <2>1 DEF Current
  <2>5. StoredAgrees => StoredAgrees'
    BY <2>1, StoredSame
  <2>6. \A t \in Transactions : StockKept(t) => StockKept(t)'
    BY <2>1, <2>2, <2>3, <2>4 DEF StockKept
  <2>7. QED
    BY <2>1, <2>2, <2>5, <2>6 DEF StockInvariant
<1>2. CASE AnyCallers
  <2>1. PICK t \in Transactions : CallerStep(t)
    BY <1>2 DEF AnyCallers
  <2>2. CASE ReadRow(t) \/ CheckAvailability(t) \/ SelectRow(t) \/ SkipUpdate(t)
    <3>1. ~disturbed
      BY <2>2 DEF ReadRow, CheckAvailability, SelectRow, SkipUpdate, ledgerHistory
    <3>2. QED
      BY <2>2, <3>1, QuietStock
  <2>3. CASE UpdateRow(t) \/ SumRows(t) \/ UpdateProduct(t)
    <3>1. ~disturbed
      BY <2>3 DEF UpdateRow, SumRows, UpdateProduct, ledgerHistory
    <3>2. QED
      BY <2>3, <3>1, SavedStock, SummedStock, WrittenStock
  <2>4. CASE Aborts(t) \/ Commit(t)
    <3>1. ~disturbed
      BY <2>4, AbortEffect DEF Commit, EndTransaction
    <3>2. QED
      BY <2>4, <3>1, EndedStock
  <2>5. CASE \E program \in Callable : Begin(t, program)
    <3>1. PICK program \in Callable : Begin(t, program)
      BY <2>5
    <3>2. ~disturbed
      BY <3>1 DEF Begin
    <3>3. QED
      BY <3>1, <3>2, BegunStock
  <2>6. QED
    BY <2>1, <2>2, <2>3, <2>4, <2>5 DEF CallerStep, CallStep, Aborts
<1>3. QED
  BY <1>1, <1>2

\* At the start every quantity is the sum of its rows.
LEMMA InitStock == LedgerInit => StockInvariant
<1> SUFFICES ASSUME LedgerInit PROVE StockInvariant
  OBVIOUS
<1>1. \A t \in Transactions : ~Running(t)
  BY OutsideFields DEF LedgerInit, Running
<1>2. StoredAgrees
  <2>1. Stored = [k \in Keys |-> OrNew(InitialRows[k])]
    BY DEF Stored, LedgerInit
  <2>2. \A p \in Products : stockQuantity[p] =
          ProductStock([k \in Keys |-> OrNew(InitialRows[k])], Branches, p)
    BY DEF LedgerInit
  <2>3. \A p \in Products : ProductStock(Stored, Branches, p) =
          ProductStock([k \in Keys |-> OrNew(InitialRows[k])], Branches, p)
    BY <2>1 DEF ProductStock, SumOver
  <2>4. QED
    BY <2>2, <2>3 DEF StoredAgrees
<1>3. QED
  BY <1>1, <1>2 DEF StockInvariant

\* When nothing runs, product.stockQuantity is the sum of what the branches can
\* sell, after commits, refusals and rollbacks in any order, as long as no two
\* transactions overlapped and no sequence of statements that commit by
\* themselves was cut short (syncProductStockQuantity sums and writes inside the
\* caller's transaction).
THEOREM StockQuantityStaysCurrent == LedgerSpec => []StockQuantityCurrent
<1>1. StockInvariant => StockQuantityCurrent
  <2> SUFFICES ASSUME StockInvariant, Quiescent, ~disturbed, NEW p \in Products
               PROVE  stockQuantity[p] =
                        ProductStock([k \in Keys |-> OrNew(inventory[k])], Branches, p)
    BY DEF StockQuantityCurrent
  <2>1. stockQuantity[p] = ProductStock(Stored, Branches, p)
    BY DEF StockInvariant, StoredAgrees, Quiescent
  <2>2. QED
    BY <2>1 DEF Stored, ProductStock, SumOver
<1>2. QED
  BY <1>1, InitStock, NextStock, LedgerKeepsShape, CallersAreAny, PTL DEF LedgerSpec

-----------------------------------------------------------------------------
(* The on-hand column and the movements.  Whatever a transaction has read or *)
(* written is explained by movements it can see; where no row was saved from *)
(* an outdated read, by all of them.                                         *)

DeltaSum(E) == SumOver(E, LAMBDA e : e.delta)

InitialOnHand(k) == OrNew(InitialRows[k]).quantityOnHand

\* The movements of a row, in the table and not yet committed.
Entries(k) == {e \in stockMovements : e.row = k}
PostedAt(t, k) == {e \in transactions[t].posted : e.row = k}

Explained(k, n, S) == \E E \in SUBSET S : n = InitialOnHand(k) + DeltaSum(E)

StoredKept(k) ==
  /\ Explained(k, Stored[k].quantityOnHand, Entries(k))
  /\ ~staleRow[k] => Stored[k].quantityOnHand = InitialOnHand(k) + DeltaSum(Entries(k))

PendingKept(t, k) ==
  LET q == transactions[t]
  IN  /\ q.rows[k] # None => Explained(k, q.rows[k].quantityOnHand, Entries(k) \cup PostedAt(t, k))
      /\ q.phase \in {"select", "update"} /\ Current(t).row = k =>
           Explained(k, q.loaded.quantityOnHand, Entries(k) \cup PostedAt(t, k))
      /\ ~staleRow[k] /\ q.rows[k] = None => \A e \in PostedAt(t, k) : e.delta = 0
      /\ ~staleRow[k] /\ q.rows[k] # None =>
           q.rows[k].quantityOnHand =
             InitialOnHand(k) + DeltaSum(Entries(k)) + DeltaSum(PostedAt(t, k))

OnHandInvariant ==
  \A k \in Keys : StoredKept(k) /\ \A t \in Transactions : PendingKept(t, k)

\* Sums of movements.
LEMMA DeltaSums ==
  ASSUME NEW E, IsFiniteSet(E), E \subseteq StockMovement
  PROVE  /\ DeltaSum(E) \in Int
         /\ (\A e \in E : e.delta = 0) => DeltaSum(E) = 0
<1> DEFINE F == [e \in E |-> e.delta]
<1>1. DeltaSum(E) = SumFunctionOnSet(F, E)
  BY DEF DeltaSum, SumOver
<1>2. \A e \in E : F[e] = e.delta /\ F[e] \in Int
  BY DEF StockMovement
<1> HIDE DEF F
<1>3. SumFunctionOnSet(F, E) \in Int
  BY <1>2, SumType
<1>4. ASSUME \A e \in E : e.delta = 0 PROVE SumFunctionOnSet(F, E) = 0
  BY <1>2, <1>4, SumZero
<1>5. QED
  BY <1>1, <1>3, <1>4

\* The movements of two sets without a common one.
LEMMA DeltaSumUnion ==
  ASSUME NEW D, NEW E, IsFiniteSet(D), IsFiniteSet(E), D \cap E = {},
         D \subseteq StockMovement, E \subseteq StockMovement
  PROVE  DeltaSum(D \cup E) = DeltaSum(D) + DeltaSum(E)
<1> DEFINE F == [e \in D \cup E |-> e.delta]
           FD == [e \in D |-> e.delta]
           FE == [e \in E |-> e.delta]
<1>1. /\ DeltaSum(D \cup E) = SumFunctionOnSet(F, D \cup E)
      /\ DeltaSum(D) = SumFunctionOnSet(FD, D)
      /\ DeltaSum(E) = SumFunctionOnSet(FE, E)
  BY DEF DeltaSum, SumOver
<1>2. /\ \A e \in D \cup E : F[e] \in Int
      /\ \A e \in D : FD[e] = F[e]
      /\ \A e \in E : FE[e] = F[e]
  BY DEF StockMovement
<1> HIDE DEF F, FD, FE
<1>3. SumFunctionOnSet(F, D \cup E) = SumFunctionOnSet(F, D) + SumFunctionOnSet(F, E)
  BY <1>2, SumUnion
<1>4. SumFunctionOnSet(FD, D) = SumFunctionOnSet(F, D)
  BY <1>2, SumSame
<1>5. SumFunctionOnSet(FE, E) = SumFunctionOnSet(F, E)
  BY <1>2, SumSame
<1>6. QED
  BY <1>1, <1>3, <1>4, <1>5

\* One movement more.
LEMMA DeltaSumAdd ==
  ASSUME NEW E, IsFiniteSet(E), E \subseteq StockMovement, NEW e \in StockMovement, e \notin E
  PROVE  DeltaSum(E \cup {e}) = DeltaSum(E) + e.delta
<1>1. IsFiniteSet({e}) /\ E \cap {e} = {}
  BY FS_Singleton
<1>2. DeltaSum(E \cup {e}) = DeltaSum(E) + DeltaSum({e})
  BY <1>1, DeltaSumUnion
<1> DEFINE F == [x \in {e} |-> x.delta]
<1>3. DeltaSum({e}) = SumFunctionOnSet(F, {e})
  BY DEF DeltaSum, SumOver
<1>4. F[e] = e.delta /\ e.delta \in Int
  BY DEF StockMovement
<1> HIDE DEF F
<1>5. SumFunctionOnSet(F, {} \cup {e}) = F[e] + SumFunctionOnSet(F, {})
  BY <1>4, SumAdd, FS_EmptySet
<1>6. {} \cup {e} = {e}
  OBVIOUS
<1>7. SumFunctionOnSet(F, {e}) = e.delta
  BY <1>4, <1>5, <1>6, SumEmpty
<1>8. QED
  BY <1>2, <1>3, <1>7

\* More movements explain at least as much.
LEMMA ExplainedMore ==
  ASSUME NEW k, NEW n, NEW S, NEW U, S \subseteq U, Explained(k, n, S)
  PROVE  Explained(k, n, U)
BY DEF Explained

\* The movements of a row are finitely many, and those of a transaction that
\* runs are not in the table.
LEMMA EntriesType ==
  ASSUME LedgerShape, NEW t \in Transactions, NEW k \in Keys
  PROVE  /\ Entries(k) \subseteq StockMovement /\ IsFiniteSet(Entries(k))
         /\ PostedAt(t, k) \subseteq StockMovement /\ IsFiniteSet(PostedAt(t, k))
         /\ DeltaSum(Entries(k)) \in Int /\ DeltaSum(PostedAt(t, k)) \in Int
         /\ Running(t) => Entries(k) \cap PostedAt(t, k) = {}
         /\ InitialOnHand(k) \in Nat
<1>1. Entries(k) \subseteq stockMovements /\ PostedAt(t, k) \subseteq transactions[t].posted
  BY DEF Entries, PostedAt
<1>2. stockMovements \subseteq StockMovement /\ transactions[t].posted \subseteq StockMovement
  BY TransactionColumns DEF LedgerShape, LedgerTyped, LedgerTypeOK
<1>3. IsFiniteSet(stockMovements) /\ IsFiniteSet(transactions[t].posted)
  BY DEF LedgerShape, Finite
<1>4. IsFiniteSet(Entries(k)) /\ IsFiniteSet(PostedAt(t, k))
  BY <1>1, <1>3, FS_Subset
<1>5. DeltaSum(Entries(k)) \in Int /\ DeltaSum(PostedAt(t, k)) \in Int
  BY <1>1, <1>2, <1>4, DeltaSums
<1>6. ASSUME Running(t), NEW e \in stockMovements PROVE e \notin transactions[t].posted
  <2>1. transactions[e.transaction].status = "committed"
    BY <1>6 DEF LedgerShape, MovementsCommitted
  <2>2. \A f \in transactions[t].posted : f.transaction = t
    BY DEF LedgerShape, Shapes, Shape
  <2>3. QED
    BY <1>6, <2>1, <2>2 DEF Running
<1>7. InitialOnHand(k) \in Nat
  <2>1. OrNew(InitialRows[k]) \in Row
    BY LedgerAssumption, NewRowType DEF OrNew
  <2>2. QED
    BY <2>1 DEF InitialOnHand, Row
<1>8. QED
  BY <1>1, <1>2, <1>4, <1>5, <1>6, <1>7

\* What a transaction sees of a row is explained by what it can see.
LEMMA FoundExplained ==
  ASSUME LedgerShape, OnHandInvariant, NEW t \in Transactions, NEW k \in Keys
  PROVE  /\ Explained(k, Found(t, k).quantityOnHand, Entries(k) \cup PostedAt(t, k))
         /\ ~staleRow[k] => Found(t, k).quantityOnHand =
              InitialOnHand(k) + DeltaSum(Entries(k)) + DeltaSum(PostedAt(t, k))
<1>0. StoredKept(k) /\ PendingKept(t, k)
  BY DEF OnHandInvariant
<1>1. CASE transactions[t].rows[k] # None
  <2>1. Found(t, k) = transactions[t].rows[k]
    BY <1>1 DEF Found, View, OrNew
  <2>2. QED
    BY <1>0, <1>1, <2>1 DEF PendingKept
<1>2. CASE transactions[t].rows[k] = None
  <2>1. Found(t, k) = Stored[k]
    BY <1>2 DEF Found, View, Stored
  <2>2. Explained(k, Found(t, k).quantityOnHand, Entries(k))
    BY <1>0, <2>1 DEF StoredKept
  <2>3. Explained(k, Found(t, k).quantityOnHand, Entries(k) \cup PostedAt(t, k))
    BY <2>2, ExplainedMore
  <2>4. ~staleRow[k] => DeltaSum(PostedAt(t, k)) = 0
    BY <1>0, <1>2, EntriesType, DeltaSums DEF PendingKept
  <2>5. InitialOnHand(k) \in Nat /\ DeltaSum(Entries(k)) \in Int
    BY EntriesType
  <2>6. ~staleRow[k] => Stored[k].quantityOnHand = InitialOnHand(k) + DeltaSum(Entries(k))
    BY <1>0 DEF StoredKept
  <2>7. QED
    BY <2>1, <2>3, <2>4, <2>5, <2>6
<1>3. QED
  BY <1>1, <1>2

\* What a call makes of the on-hand column.
DeltaOf(call) == IF call.column = "quantityOnHand" THEN call.delta ELSE 0

\* A movement moves quantityOnHand; a bucket leaves it alone.
LEMMA ChangedOnHand ==
  ASSUME NEW call \in LedgerCall, NEW row \in Row, call.column # "availableToSell",
         Changed(call, row) \in Row
  PROVE  Changed(call, row).quantityOnHand = row.quantityOnHand + DeltaOf(call)
<1>1. CASE call.column = "quantityOnHand"
  BY <1>1 DEF Changed, RecordMovement, ApplyAvailabilityProjection, Row, DeltaOf
<1>2. CASE call.column # "quantityOnHand"
  <2>1. call.column \in Buckets
    BY <1>2 DEF LedgerCall, Columns, Buckets
  <2> DEFINE bucket == call.column
             after == [row EXCEPT ![bucket] = row[bucket] + call.delta]
  <2>2. Changed(call, row) = ApplyAvailabilityProjection(after)
    BY <1>2 DEF Changed, AdjustProjectionBucket
  <2>3. after.quantityOnHand = row.quantityOnHand /\ "quantityOnHand" \in DOMAIN after
    BY <1>2 DEF Row
  <2> HIDE DEF after
  <2>4. Changed(call, row).quantityOnHand = row.quantityOnHand
    BY <2>2, <2>3 DEF ApplyAvailabilityProjection
  <2>5. row.quantityOnHand \in Nat
    BY DEF Row
  <2>6. QED
    BY <1>2, <2>4, <2>5 DEF DeltaOf
<1>3. QED
  BY <1>1, <1>2

\* The call a transaction is about to save.
LEMMA SavedCall ==
  ASSUME LedgerShape, NEW t \in Transactions, UpdateRow(t) \/ SkipUpdate(t)
  PROVE  LET q == transactions[t]  call == Current(t)
         IN  /\ Running(t) /\ q.phase = "update" /\ q.calls # <<>> /\ call \in LedgerCall
             /\ call.row \in Keys /\ call.delta \in Int /\ DeltaOf(call) \in Int
             /\ q.loaded.quantityOnHand \in Nat
             /\ q.entity.quantityOnHand = q.loaded.quantityOnHand + DeltaOf(call)
             /\ \A e \in q.posted : e.call # Len(q.calls)
<1> DEFINE q == transactions[t]
           call == Current(t)
<1>0. Typed /\ Shape(t, q)
  BY DEF LedgerShape, LedgerTyped, Typed, AvailabilityInvariant, Shapes
<1>1. Running(t) /\ q.phase = "update" /\ q.calls # <<>>
  BY StepsRun
<1>2. call \in LedgerCall /\ call.row \in Keys
  BY <1>0, <1>1, CurrentType DEF Done, Typed
<1>3. /\ q.loaded \in Row /\ q.entity \in Row /\ Len(q.calls) \in Nat /\ q.posted \subseteq StockMovement
  BY TransactionColumns DEF LedgerShape
<1>4. call.column # "availableToSell" /\ q.entity = Changed(call, q.loaded)
  BY <1>0, <1>1 DEF Shape, Current
<1>5. q.entity.quantityOnHand = q.loaded.quantityOnHand + DeltaOf(call)
  BY <1>2, <1>3, <1>4, ChangedOnHand
<1>6. call.delta \in Int /\ DeltaOf(call) \in Int
  BY <1>2 DEF LedgerCall, DeltaOf
<1>7. \A e \in q.posted : e.call # Len(q.calls)
  BY <1>0, <1>1, <1>3 DEF Shape, StockMovement
<1>8. q.loaded.quantityOnHand \in Nat
  BY <1>3 DEF Row
<1>9. QED
  BY <1>1, <1>2, <1>5, <1>6, <1>7, <1>8

\* The movement it posts is a new one, and moves what the call moves.
LEMMA PostedMoves ==
  ASSUME LedgerShape, NEW t \in Transactions, UpdateRow(t) \/ SkipUpdate(t)
  PROVE  /\ Posted(t) \subseteq StockMovement /\ IsFiniteSet(Posted(t))
         /\ Posted(t) \cap stockMovements = {} /\ Posted(t) \cap transactions[t].posted = {}
         /\ \A e \in Posted(t) : e.row = Current(t).row
         /\ \/ Posted(t) = {} /\ DeltaOf(Current(t)) = 0
            \/ \E e \in StockMovement : Posted(t) = {e} /\ DeltaOf(Current(t)) = e.delta
<1> DEFINE q == transactions[t]
<1>0. Typed
  BY DEF LedgerShape, LedgerTyped, Typed, AvailabilityInvariant
<1>1. Running(t) /\ q.calls # <<>> /\ \A e \in q.posted : e.call # Len(q.calls)
  BY SavedCall
<1>2. Posted(t) \subseteq StockMovement
  BY <1>0, <1>1, PostedType DEF Done
<1>3. /\ IsFiniteSet(Posted(t))
      /\ \A e \in Posted(t) : e.transaction = t /\ e.call = Len(q.calls) /\ e.row = Current(t).row
  BY PostedShape
<1>4. Posted(t) \cap q.posted = {}
  BY <1>1, <1>3
<1>5. Posted(t) \cap stockMovements = {}
  BY <1>1, <1>3 DEF LedgerShape, MovementsCommitted, Running
<1>6. CASE Current(t).column = "quantityOnHand"
  <2> DEFINE e == [transaction |-> t, call |-> Len(q.calls),
                   row |-> Current(t).row, delta |-> Current(t).delta]
  <2>1. Posted(t) = {e} /\ DeltaOf(Current(t)) = e.delta
    BY <1>6 DEF Posted, DeltaOf
  <2>2. e \in StockMovement
    BY <1>2, <2>1
  <2>3. QED
    BY <1>2, <1>3, <1>4, <1>5, <2>1, <2>2
<1>7. CASE Current(t).column # "quantityOnHand"
  <2>1. Posted(t) = {} /\ DeltaOf(Current(t)) = 0
    BY <1>7 DEF Posted, DeltaOf
  <2>2. QED
    BY <1>2, <1>3, <1>4, <1>5, <2>1
<1>8. QED
  BY <1>6, <1>7

\* The on-hand column a save leaves: explained by the movements the transaction
\* sees and the one it posts, by all of them when it read what is stored.
LEMMA SavedOnHand ==
  ASSUME LedgerShape, OnHandInvariant, NEW t \in Transactions, UpdateRow(t),
         NEW k \in Keys, k = Current(t).row
  PROVE  LET n == RowSaved(t).quantityOnHand
         IN  /\ RowSaved(t) # None
             /\ Explained(k, n, Entries(k) \cup PostedAt(t, k) \cup Posted(t))
             /\ ~staleRow'[k] => /\ ~staleRow[k]
                                 /\ n = Found(t, k).quantityOnHand + DeltaOf(Current(t))
<1> DEFINE q == transactions[t]
           call == Current(t)
           S == Entries(k) \cup PostedAt(t, k)
           n == RowSaved(t).quantityOnHand
<1>0. Typed
  BY DEF LedgerShape, LedgerTyped, Typed, AvailabilityInvariant
<1>1. /\ q.phase = "update" /\ DeltaOf(call) \in Int /\ q.loaded.quantityOnHand \in Nat
      /\ q.entity.quantityOnHand = q.loaded.quantityOnHand + DeltaOf(call)
  BY SavedCall
<1>2. q.entity \in Row /\ q.selected \in Row /\ Found(t, k) \in Row
  BY <1>0, TransactionColumns, FoundType DEF LedgerShape, Typed
<1>3. RowSaved(t) \in Row
  BY <1>2, SavedRowType DEF RowSaved
<1>4. \/ n = q.entity.quantityOnHand
      \/ /\ ~q.absent /\ q.entity.quantityOnHand = q.selected.quantityOnHand
         /\ n = Found(t, k).quantityOnHand
  <2>1. "quantityOnHand" \in DOMAIN q.entity
    BY <1>2 DEF Row
  <2>2. ~q.absent => n = Column(q.entity.quantityOnHand, q.selected.quantityOnHand,
                                Found(t, k).quantityOnHand)
    BY <2>1 DEF RowSaved, SavedRecord
  <2>3. q.absent => n = q.entity.quantityOnHand
    BY DEF RowSaved
  <2>4. QED
    BY <2>2, <2>3 DEF Column
<1>5. Explained(k, n, S \cup Posted(t))
  <2>1. CASE n = Found(t, k).quantityOnHand
    <3>1. Explained(k, n, S)
      BY <2>1, FoundExplained
    <3>2. QED
      BY <3>1, ExplainedMore
  <2>2. CASE n = q.entity.quantityOnHand
    <3>1. PendingKept(t, k)
      BY DEF OnHandInvariant
    <3>2. Explained(k, q.loaded.quantityOnHand, S)
      BY <1>1, <3>1 DEF PendingKept
    <3>3. PICK E \in SUBSET S : q.loaded.quantityOnHand = InitialOnHand(k) + DeltaSum(E)
      BY <3>2 DEF Explained
    <3>4. /\ S \subseteq StockMovement /\ IsFiniteSet(S) /\ InitialOnHand(k) \in Nat
          /\ S \subseteq stockMovements \cup q.posted
      BY EntriesType, FS_Union DEF Entries, PostedAt
    <3>5. IsFiniteSet(E) /\ E \subseteq StockMovement
      BY <3>4, FS_Subset
    <3>6. DeltaSum(E) \in Int
      BY <3>5, DeltaSums
    <3>7. CASE Posted(t) = {} /\ DeltaOf(call) = 0
      <4>1. n = InitialOnHand(k) + DeltaSum(E)
        BY <1>1, <2>2, <3>3, <3>7
      <4>2. QED
        BY <4>1 DEF Explained
    <3>8. CASE \E e \in StockMovement : Posted(t) = {e} /\ DeltaOf(call) = e.delta
      <4>1. PICK e \in StockMovement : Posted(t) = {e} /\ DeltaOf(call) = e.delta
        BY <3>8
      <4>2. e \notin E
        BY <3>4, <4>1, PostedMoves
      <4>3. DeltaSum(E \cup {e}) = DeltaSum(E) + e.delta
        BY <3>5, <4>2, DeltaSumAdd
      <4>4. n = InitialOnHand(k) + DeltaSum(E \cup {e})
        BY <1>1, <2>2, <3>3, <3>4, <3>6, <4>1, <4>3
      <4>5. E \cup {e} \in SUBSET (S \cup Posted(t))
        BY <4>1
      <4>6. QED
        BY <4>4, <4>5 DEF Explained
    <3>9. QED
      BY <3>7, <3>8, PostedMoves
  <2>3. QED
    BY <1>4, <2>1, <2>2
<1>6. ASSUME ~staleRow'[k]
      PROVE  ~staleRow[k] /\ n = Found(t, k).quantityOnHand + DeltaOf(call)
  <2>1. staleRow \in [Keys -> BOOLEAN]
    BY DEF LedgerShape, LedgerTyped, LedgerTypeOK
  <2>2. ~staleRow[k] /\ q.loaded = Found(t, k) /\ q.selected = Found(t, k)
    BY <1>6, <2>1 DEF UpdateRow
  <2>3. QED
    BY <1>1, <1>4, <2>2
<1>7. RowSaved(t) # None
  BY <1>3, LedgerAssumption
<1>8. QED
  BY <1>5, <1>6, <1>7

\* A key and a transaction that the step is not about.
LEMMA PendingStays ==
  ASSUME NEW u \in Transactions, NEW k \in Keys, PendingKept(u, k),
         transactions'[u].rows[k] = transactions[u].rows[k],
         PostedAt(u, k)' = PostedAt(u, k),
         Entries(k) \subseteq Entries(k)', staleRow[k] => staleRow'[k],
         transactions'[u].phase \in {"select", "update"} /\ Current(u)'.row = k =>
           Explained(k, transactions'[u].loaded.quantityOnHand, Entries(k) \cup PostedAt(u, k)),
         ~staleRow'[k] /\ transactions[u].rows[k] # None => DeltaSum(Entries(k))' = DeltaSum(Entries(k))
  PROVE  PendingKept(u, k)'
<1>1. Entries(k) \cup PostedAt(u, k) \subseteq Entries(k)' \cup PostedAt(u, k)'
  OBVIOUS
<1>2. \A n : Explained(k, n, Entries(k) \cup PostedAt(u, k)) => Explained(k, n, Entries(k)' \cup PostedAt(u, k)')
  BY <1>1, ExplainedMore
<1>3. DeltaSum(PostedAt(u, k))' = DeltaSum(PostedAt(u, k))
  BY DEF DeltaSum, SumOver
<1>4. transactions'[u].rows[k] # None =>
        Explained(k, transactions'[u].rows[k].quantityOnHand, Entries(k)' \cup PostedAt(u, k)')
  BY <1>2 DEF PendingKept
<1>5. transactions'[u].phase \in {"select", "update"} /\ Current(u)'.row = k =>
        Explained(k, transactions'[u].loaded.quantityOnHand, Entries(k)' \cup PostedAt(u, k)')
  BY <1>2
<1>6. ~staleRow'[k] /\ transactions'[u].rows[k] = None => \A e \in PostedAt(u, k)' : e.delta = 0
  BY DEF PendingKept
<1>7. ~staleRow'[k] /\ transactions'[u].rows[k] # None =>
        transactions'[u].rows[k].quantityOnHand =
          InitialOnHand(k) + DeltaSum(Entries(k))' + DeltaSum(PostedAt(u, k))'
  BY <1>3 DEF PendingKept
<1>8. QED
  BY <1>4, <1>5, <1>6, <1>7 DEF PendingKept, Explained, DeltaSum, SumOver

\* A transaction that does not move.
LEMMA OtherPending ==
  ASSUME NEW u \in Transactions, NEW k \in Keys, PendingKept(u, k),
         transactions'[u] = transactions[u], Entries(k)' = Entries(k), staleRow[k] => staleRow'[k]
  PROVE  PendingKept(u, k)'
<1>1. PostedAt(u, k)' = PostedAt(u, k) /\ Current(u)' = Current(u)
  BY DEF PostedAt, Current
<1>2. DeltaSum(Entries(k))' = DeltaSum(Entries(k))
  BY DEF DeltaSum, SumOver
<1>3. transactions'[u].phase \in {"select", "update"} /\ Current(u)'.row = k =>
        Explained(k, transactions'[u].loaded.quantityOnHand, Entries(k) \cup PostedAt(u, k))
  BY <1>1 DEF PendingKept
<1>4. QED
  BY <1>1, <1>2, <1>3, PendingStays

\* A row that the step neither saves nor posts movements of.
LEMMA StoredStays ==
  ASSUME NEW k \in Keys, StoredKept(k), inventory'[k] = inventory[k],
         Entries(k)' = Entries(k), staleRow[k] => staleRow'[k]
  PROVE  StoredKept(k)'
<1>1. Stored'[k] = Stored[k]
  BY DEF Stored
<1>2. DeltaSum(Entries(k))' = DeltaSum(Entries(k))
  BY DEF DeltaSum, SumOver
<1>3. /\ Explained(k, Stored'[k].quantityOnHand, Entries(k)')
      /\ ~staleRow'[k] => Stored'[k].quantityOnHand = InitialOnHand(k) + DeltaSum(Entries(k))'
  BY <1>1, <1>2 DEF StoredKept
<1>4. QED
  BY <1>3 DEF StoredKept, Explained, DeltaSum, SumOver

\* Steps that write no row.
LEMMA QuietOnHand ==
  ASSUME LedgerShape, OnHandInvariant, NEW t \in Transactions,
         \/ \E program \in Callable : Begin(t, program)
         \/ ReadRow(t) \/ CheckAvailability(t) \/ SelectRow(t) \/ SumRows(t) \/ UpdateProduct(t)
  PROVE  OnHandInvariant'
<1> DEFINE n == transactions'[t]
           q == transactions[t]
<1>0. Typed /\ Shape(t, q)
  BY DEF LedgerShape, LedgerTyped, Typed, AvailabilityInvariant, Shapes
<1>1. inventory' = inventory /\ stockMovements' = stockMovements /\ staleRow' = staleRow
  BY DEF Begin, ReadRow, CheckAvailability, SelectRow, SumRows, UpdateProduct, ledgerTables, ledgerHistory
<1>2. /\ OnlyOf(t) /\ n.rows = q.rows /\ n.posted = q.posted
      /\ \/ n.phase \notin {"select", "update"}
         \/ /\ q.phase = "read" /\ n.calls = q.calls /\ n.loaded = Found(t, Current(t).row)
            /\ Current(t).row \in Keys
         \/ q.phase = "select" /\ n.calls = q.calls /\ n.loaded = q.loaded
  <2>1. CASE \E program \in Callable : Begin(t, program)
    <3>1. PICK program \in Callable : Begin(t, program)
      BY <2>1
    <3>2. OnlyOf(t) /\ q.status = "ready" /\ SameWrites(n, q) /\ n.phase = q.phase
      BY <1>0, <3>1, BeginEffect
    <3>3. q.phase = "read"
      BY <1>0, <3>2, OutsideFields DEF Shape
    <3>4. QED
      BY <3>2, <3>3 DEF SameWrites
  <2>2. CASE ReadRow(t)
    <3>1. q.phase = "read" /\ Current(t).row \in Keys
      BY <1>0, <2>2, StepsRun, CurrentType DEF Done, Typed
    <3>2. QED
      BY <1>0, <2>2, <3>1, ReadEffect DEF SameWrites
  <2>3. CASE CheckAvailability(t) \/ SumRows(t) \/ UpdateProduct(t)
    <3>1. CheckAvailability(t) => q.phase = "read"
      BY StepsRun
    <3>2. QED
      BY <1>0, <2>3, <3>1, CheckEffect, SumEffect, ProductEffect DEF SameWrites
  <2>4. CASE SelectRow(t)
    <3>1. q.phase = "select"
      BY <2>4, StepsRun
    <3>2. QED
      BY <1>0, <2>4, <3>1, SelectEffect DEF SameWrites
  <2>5. QED
    BY <2>1, <2>2, <2>3, <2>4
<1>3. \A k \in Keys : Entries(k)' = Entries(k) /\ PostedAt(t, k)' = PostedAt(t, k)
  BY <1>1, <1>2 DEF Entries, PostedAt
<1>4. ASSUME NEW k \in Keys PROVE StoredKept(k)' /\ \A u \in Transactions : PendingKept(u, k)'
  <2>1. StoredKept(k) /\ \A u \in Transactions : PendingKept(u, k)
    BY DEF OnHandInvariant
  <2>2. StoredKept(k)'
    BY <1>1, <1>3, <2>1, StoredStays
  <2>3. \A u \in Transactions \ {t} : PendingKept(u, k)'
    BY <1>1, <1>2, <1>3, <2>1, OtherPending DEF OnlyOf
  <2>4. n.phase \in {"select", "update"} /\ Current(t)'.row = k =>
          Explained(k, n.loaded.quantityOnHand, Entries(k) \cup PostedAt(t, k))
    <3>1. n.calls = q.calls => Current(t)' = Current(t)
      BY DEF Current
    <3>2. QED
      BY <1>2, <2>1, <3>1, FoundExplained DEF PendingKept
  <2>5. DeltaSum(Entries(k))' = DeltaSum(Entries(k))
    BY <1>3 DEF DeltaSum, SumOver
  <2>6. PendingKept(t, k)'
    BY <1>1, <1>2, <1>3, <2>1, <2>4, <2>5, PendingStays
  <2>7. QED
    BY <2>2, <2>3, <2>6
<1>5. QED
  BY <1>4 DEF OnHandInvariant

\* A transaction ends and nothing is committed.
LEMMA AbortedOnHand ==
  ASSUME LedgerShape, OnHandInvariant, NEW t \in Transactions, Aborts(t)
  PROVE  OnHandInvariant'
<1> DEFINE n == transactions'[t]
<1>0. Typed
  BY DEF LedgerShape, LedgerTyped, Typed, AvailabilityInvariant
<1>1. inventory' = inventory /\ stockMovements' = stockMovements /\ staleRow' = staleRow
  BY AbortEffect DEF ledgerTables
<1>2. OnlyOf(t) /\ n = Outside("aborted")
  BY <1>0, AbortEffect, EndEffect
<1>3. n.phase = "read" /\ n.rows = [k \in Keys |-> None] /\ n.posted = {}
  BY <1>2, OutsideFields
<1>4. ASSUME NEW k \in Keys PROVE StoredKept(k)' /\ \A u \in Transactions : PendingKept(u, k)'
  <2>1. StoredKept(k) /\ \A u \in Transactions : PendingKept(u, k)
    BY DEF OnHandInvariant
  <2>2. Entries(k)' = Entries(k)
    BY <1>1 DEF Entries
  <2>3. StoredKept(k)'
    BY <1>1, <2>1, <2>2, StoredStays
  <2>4. \A u \in Transactions \ {t} : PendingKept(u, k)'
    BY <1>1, <1>2, <2>1, <2>2, OtherPending DEF OnlyOf
  <2>5. PendingKept(t, k)'
    BY <1>3 DEF PendingKept, PostedAt
  <2>6. QED
    BY <2>3, <2>4, <2>5
<1>5. QED
  BY <1>4 DEF OnHandInvariant

\* A save that writes nothing posts a movement all the same: of no units, unless
\* it read what was not stored any more.
LEMMA SkippedOnHand ==
  ASSUME LedgerShape, OnHandInvariant, NEW t \in Transactions, SkipUpdate(t)
  PROVE  OnHandInvariant'
<1> DEFINE n == transactions'[t]
           q == transactions[t]
<1>0. Typed
  BY DEF LedgerShape, LedgerTyped, Typed, AvailabilityInvariant
<1>c. PICK call : call = Current(t)
  OBVIOUS
<1>1. inventory' = inventory /\ stockMovements' = stockMovements
  BY DEF SkipUpdate, ledgerTables
<1>2. /\ OnlyOf(t) /\ n.rows = q.rows /\ n.posted = q.posted \cup Posted(t) /\ n.phase = "sum"
  BY <1>0, SkipEffect
<1>3. /\ \A k \in Keys : staleRow[k] => staleRow'[k]
      /\ ~staleRow'[call.row] => q.loaded = q.selected /\ q.entity = q.selected
  BY <1>c, SavedCall DEF SkipUpdate, LedgerShape, LedgerTyped, LedgerTypeOK
<1>4. /\ q.entity.quantityOnHand = q.loaded.quantityOnHand + DeltaOf(call)
      /\ DeltaOf(call) \in Int /\ q.loaded.quantityOnHand \in Nat
  BY <1>c, SavedCall
<1>5. ~staleRow'[call.row] => DeltaOf(call) = 0
  BY <1>3, <1>4
<1>6. \A e \in Posted(t) : e.row = call.row /\ e.delta = DeltaOf(call)
  BY <1>c, PostedMoves
<1>7. ASSUME NEW k \in Keys PROVE StoredKept(k)' /\ \A u \in Transactions : PendingKept(u, k)'
  <2>1. StoredKept(k) /\ \A u \in Transactions : PendingKept(u, k)
    BY DEF OnHandInvariant
  <2>2. Entries(k)' = Entries(k)
    BY <1>1 DEF Entries
  <2>3. StoredKept(k)'
    BY <1>1, <1>3, <2>1, <2>2, StoredStays
  <2>4. \A u \in Transactions \ {t} : PendingKept(u, k)'
    BY <1>2, <1>3, <2>1, <2>2, OtherPending DEF OnlyOf
  <2> DEFINE old == PostedAt(t, k)
             more == {e \in Posted(t) : e.row = k}
  <2>5. PostedAt(t, k)' = old \cup more
    BY <1>2 DEF PostedAt
  <2>6. ~staleRow'[k] => \A e \in more : e.delta = 0
    BY <1>5, <1>6
  <2>7. DeltaSum(Entries(k))' = DeltaSum(Entries(k))
    BY <2>2 DEF DeltaSum, SumOver
  <2>8. ~staleRow'[k] => DeltaSum(PostedAt(t, k))' = DeltaSum(old)
    <3>1. more \subseteq Posted(t) /\ old \subseteq q.posted
      BY DEF PostedAt
    <3>2. more \subseteq StockMovement /\ IsFiniteSet(more) /\ old \cap more = {}
      BY <3>1, PostedMoves, FS_Subset
    <3>3. old \subseteq StockMovement /\ IsFiniteSet(old) /\ DeltaSum(old) \in Int
      BY EntriesType
    <3>4. DeltaSum(old \cup more) = DeltaSum(old) + DeltaSum(more)
      BY <3>2, <3>3, DeltaSumUnion
    <3>5. ~staleRow'[k] => DeltaSum(more) = 0
      BY <2>6, <3>2, DeltaSums
    <3>6. DeltaSum(PostedAt(t, k))' = DeltaSum(old \cup more)
      BY <2>5 DEF DeltaSum, SumOver
    <3>7. QED
      BY <3>3, <3>4, <3>5, <3>6
  <2>9. n.rows[k] # None => Explained(k, n.rows[k].quantityOnHand, Entries(k)' \cup PostedAt(t, k)')
    <3>1. q.rows[k] # None => Explained(k, q.rows[k].quantityOnHand, Entries(k) \cup old)
      BY <2>1 DEF PendingKept
    <3>2. Entries(k) \cup old \subseteq Entries(k)' \cup PostedAt(t, k)'
      BY <2>2, <2>5
    <3>3. QED
      BY <1>2, <3>1, <3>2, ExplainedMore
  <2>10. ~staleRow'[k] /\ n.rows[k] = None => \A e \in PostedAt(t, k)' : e.delta = 0
    BY <1>2, <1>3, <2>1, <2>5, <2>6 DEF PendingKept
  <2>11. ~staleRow'[k] /\ n.rows[k] # None =>
           n.rows[k].quantityOnHand =
             InitialOnHand(k) + DeltaSum(Entries(k))' + DeltaSum(PostedAt(t, k))'
    <3>1. ~staleRow'[k] /\ n.rows[k] # None =>
            q.rows[k].quantityOnHand = InitialOnHand(k) + DeltaSum(Entries(k)) + DeltaSum(old)
      BY <1>2, <1>3, <2>1 DEF PendingKept
    <3>2. QED
      BY <1>2, <2>7, <2>8, <3>1
  <2> HIDE DEF old, more, n
  <2>12. PendingKept(t, k)'
    BY <1>2, <2>9, <2>10, <2>11 DEF PendingKept, Explained, DeltaSum, SumOver, n
  <2>13. QED
    BY <2>3, <2>4, <2>12
<1>8. QED
  BY <1>7 DEF OnHandInvariant

\* What a save adds to the movements it has posted.
LEMMA PostedAdds ==
  ASSUME LedgerShape, NEW t \in Transactions, UpdateRow(t), NEW k \in Keys, k = Current(t).row
  PROVE  /\ DeltaSum(PostedAt(t, k) \cup Posted(t)) = DeltaSum(PostedAt(t, k)) + DeltaOf(Current(t))
         /\ DeltaOf(Current(t)) \in Int
<1> DEFINE old == PostedAt(t, k)
<1>1. DeltaOf(Current(t)) \in Int
  BY SavedCall
<1>2. /\ Posted(t) \subseteq StockMovement /\ Posted(t) \cap transactions[t].posted = {}
      /\ \/ Posted(t) = {} /\ DeltaOf(Current(t)) = 0
         \/ \E e \in StockMovement : Posted(t) = {e} /\ DeltaOf(Current(t)) = e.delta
  BY PostedMoves
<1>3. old \subseteq transactions[t].posted
  BY DEF PostedAt
<1>4. old \subseteq StockMovement /\ IsFiniteSet(old) /\ DeltaSum(old) \in Int
  BY EntriesType
<1> HIDE DEF old
<1>5. CASE Posted(t) = {} /\ DeltaOf(Current(t)) = 0
  <2>1. old \cup Posted(t) = old
    BY <1>5
  <2>2. DeltaSum(old \cup Posted(t)) = DeltaSum(old)
    BY <2>1
  <2>3. QED
    BY <1>4, <1>5, <2>2 DEF old
<1>6. CASE \E e \in StockMovement : Posted(t) = {e} /\ DeltaOf(Current(t)) = e.delta
  <2>1. PICK e \in StockMovement : Posted(t) = {e} /\ DeltaOf(Current(t)) = e.delta
    BY <1>6
  <2>2. e \notin old
    BY <1>2, <1>3, <2>1
  <2>3. DeltaSum(old \cup {e}) = DeltaSum(old) + e.delta
    BY <1>4, <2>2, DeltaSumAdd
  <2>4. QED
    BY <1>1, <2>1, <2>3 DEF old
<1>7. QED
  BY <1>1, <1>2, <1>5, <1>6

\* A save inside a transaction: the row is locked, its movement posted.
LEMMA UpdatedOnHand ==
  ASSUME LedgerShape, OnHandInvariant, NEW t \in Transactions, UpdateRow(t),
         transactions[t].atomic
  PROVE  OnHandInvariant'
<1> DEFINE n == transactions'[t]
           q == transactions[t]
<1>0. Typed
  BY DEF LedgerShape, LedgerTyped, Typed, AvailabilityInvariant
<1>c. PICK c \in Keys : c = Current(t).row
  BY SavedCall
<1>r. PICK r : r = RowSaved(t)
  OBVIOUS
<1>1. stockMovements' = stockMovements
  BY DEF UpdateRow
<1>2. /\ OnlyOf(t) /\ n.rows = [q.rows EXCEPT ![c] = r] /\ n.posted = q.posted \cup Posted(t)
      /\ n.phase = "sum" /\ inventory' = inventory
  BY <1>0, <1>c, <1>r, UpdateEffect
<1>3. q.rows \in [Keys -> Row \cup {None}]
  BY TransactionColumns DEF LedgerShape
<1>4. \A k \in Keys : staleRow[k] => staleRow'[k]
  BY DEF UpdateRow, LedgerShape, LedgerTyped, LedgerTypeOK
<1>5. \A e \in Posted(t) : e.row = c
  BY <1>c, PostedMoves
<1> HIDE DEF n, q
<1>6. ASSUME NEW k \in Keys PROVE StoredKept(k)' /\ \A u \in Transactions : PendingKept(u, k)'
  <2>1. StoredKept(k) /\ \A u \in Transactions : PendingKept(u, k)
    BY DEF OnHandInvariant
  <2>2. Entries(k)' = Entries(k)
    BY <1>1 DEF Entries
  <2>3. StoredKept(k)'
    BY <1>2, <1>4, <2>1, <2>2, StoredStays
  <2>4. \A u \in Transactions \ {t} : PendingKept(u, k)'
    BY <1>2, <1>4, <2>1, <2>2, OtherPending DEF OnlyOf
  <2>5. DeltaSum(Entries(k))' = DeltaSum(Entries(k))
    BY <2>2 DEF DeltaSum, SumOver
  <2>6. CASE k # c
    <3>1. PostedAt(t, k)' = PostedAt(t, k)
      BY <1>2, <1>5, <2>6 DEF PostedAt, n, q
    <3>2. n.rows[k] = q.rows[k]
      BY <1>2, <1>3, <2>6
    <3>3. PendingKept(t, k)'
      BY <1>2, <1>4, <2>1, <2>2, <2>5, <3>1, <3>2, PendingStays DEF n, q
    <3>4. QED
      BY <2>3, <2>4, <3>3
  <2>7. CASE k = c
    <3>1. PostedAt(t, k)' = PostedAt(t, k) \cup Posted(t)
      BY <1>2, <1>5, <2>7 DEF PostedAt, n, q
    <3>2. n.rows[k] = r
      BY <1>2, <1>3, <2>7
    <3>3. /\ r # None
          /\ Explained(k, r.quantityOnHand, Entries(k) \cup PostedAt(t, k) \cup Posted(t))
          /\ ~staleRow'[k] => ~staleRow[k] /\ r.quantityOnHand = Found(t, k).quantityOnHand + DeltaOf(Current(t))
      BY <1>c, <1>r, <2>7, SavedOnHand
    <3>4. ~staleRow[k] => Found(t, k).quantityOnHand =
            InitialOnHand(k) + DeltaSum(Entries(k)) + DeltaSum(PostedAt(t, k))
      BY FoundExplained
    <3>5. /\ DeltaSum(PostedAt(t, k) \cup Posted(t)) = DeltaSum(PostedAt(t, k)) + DeltaOf(Current(t))
          /\ DeltaOf(Current(t)) \in Int
      BY <1>c, <2>7, PostedAdds
    <3>6. InitialOnHand(k) \in Nat /\ DeltaSum(Entries(k)) \in Int /\ DeltaSum(PostedAt(t, k)) \in Int
      BY EntriesType
    <3>7. DeltaSum(PostedAt(t, k))' = DeltaSum(PostedAt(t, k) \cup Posted(t))
      BY <3>1 DEF DeltaSum, SumOver
    <3>8. ~staleRow'[k] => r.quantityOnHand =
            InitialOnHand(k) + DeltaSum(Entries(k))' + DeltaSum(PostedAt(t, k))'
      BY <2>5, <3>3, <3>4, <3>5, <3>6, <3>7
    <3>9. Explained(k, r.quantityOnHand, Entries(k)' \cup PostedAt(t, k)')
      <4>1. Entries(k) \cup PostedAt(t, k) \cup Posted(t) \subseteq Entries(k)' \cup PostedAt(t, k)'
        BY <2>2, <3>1
      <4>2. QED
        BY <3>3, <4>1, ExplainedMore
    <3>10. /\ n.rows[k] # None => Explained(k, n.rows[k].quantityOnHand, Entries(k)' \cup PostedAt(t, k)')
           /\ n.phase \notin {"select", "update"}
           /\ n.rows[k] # None
           /\ ~staleRow'[k] /\ n.rows[k] # None => n.rows[k].quantityOnHand =
                InitialOnHand(k) + DeltaSum(Entries(k))' + DeltaSum(PostedAt(t, k))'
      BY <1>2, <3>2, <3>3, <3>8, <3>9
    <3>11. PendingKept(t, k)'
      BY <3>10 DEF PendingKept, Explained, DeltaSum, SumOver, n
    <3>12. QED
      BY <2>3, <2>4, <3>11
  <2>8. QED
    BY <2>6, <2>7
<1>7. QED
  BY <1>6 DEF OnHandInvariant

\* A save that commits by itself moves no units.
LEMMA AutocommittedOnHand ==
  ASSUME LedgerShape, OnHandInvariant, NEW t \in Transactions, UpdateRow(t),
         ~transactions[t].atomic
  PROVE  OnHandInvariant'
<1> DEFINE n == transactions'[t]
           q == transactions[t]
<1>0. Typed /\ Shape(t, q)
  BY DEF LedgerShape, LedgerTyped, Typed, AvailabilityInvariant, Shapes
<1>c. PICK c \in Keys : c = Current(t).row
  BY SavedCall
<1>r. PICK r : r = RowSaved(t)
  OBVIOUS
<1>1. stockMovements' = stockMovements
  BY DEF UpdateRow
<1>2. /\ OnlyOf(t) /\ n.rows = q.rows /\ n.posted = q.posted
      /\ n.phase = "sum" /\ inventory' = [inventory EXCEPT ![c] = r]
  BY <1>0, <1>c, <1>r, AutocommitEffect DEF SameWrites
<1>3. q.rows = [k \in Keys |-> None] /\ q.posted = {}
  BY <1>0 DEF Shape
<1>4. /\ \A k \in Keys : staleRow[k] => staleRow'[k]
      /\ inventory \in [Keys -> Row \cup {None}]
  BY DEF UpdateRow, LedgerShape, LedgerTyped, LedgerTypeOK
<1>5. Posted(t) = {} /\ DeltaOf(Current(t)) = 0
  <2>1. q.calls # <<>> /\ q.calls \in Seq(LedgerCall)
    BY SavedCall, TransactionColumns DEF LedgerShape
  <2>2. 1 \in DOMAIN q.calls /\ Head(q.calls) = q.calls[1]
    BY <2>1, RestOfCalls
  <2>3. Current(t).column # "quantityOnHand"
    BY <1>0, <2>2 DEF Shape, Current
  <2>4. QED
    BY <2>3 DEF Posted, DeltaOf
<1> HIDE DEF n, q
<1>6. ASSUME NEW k \in Keys PROVE StoredKept(k)' /\ \A u \in Transactions : PendingKept(u, k)'
  <2>1. StoredKept(k) /\ \A u \in Transactions : PendingKept(u, k)
    BY DEF OnHandInvariant
  <2>2. Entries(k)' = Entries(k) /\ PostedAt(t, k)' = PostedAt(t, k) /\ PostedAt(t, k) = {}
    BY <1>1, <1>2, <1>3 DEF Entries, PostedAt, n, q
  <2>4. \A u \in Transactions \ {t} : PendingKept(u, k)'
    BY <1>2, <1>4, <2>1, <2>2, OtherPending DEF OnlyOf
  <2>5. DeltaSum(Entries(k))' = DeltaSum(Entries(k))
    BY <2>2 DEF DeltaSum, SumOver
  <2>6. PendingKept(t, k)'
    BY <1>2, <1>4, <2>1, <2>2, <2>5, PendingStays DEF n, q
  <2>7. CASE k # c
    <3>1. inventory'[k] = inventory[k]
      BY <1>2, <1>4, <2>7
    <3>2. StoredKept(k)'
      BY <1>4, <2>1, <2>2, <3>1, StoredStays
    <3>3. QED
      BY <2>4, <2>6, <3>2
  <2>8. CASE k = c
    <3>1. inventory'[k] = r
      BY <1>2, <1>4, <2>8
    <3>2. /\ r # None
          /\ Explained(k, r.quantityOnHand, Entries(k) \cup PostedAt(t, k) \cup Posted(t))
          /\ ~staleRow'[k] => ~staleRow[k] /\ r.quantityOnHand = Found(t, k).quantityOnHand + DeltaOf(Current(t))
      BY <1>c, <1>r, <2>8, SavedOnHand
    <3>3. Found(t, k) = Stored[k]
      BY <1>3 DEF Found, View, Stored, q
    <3>4. InitialOnHand(k) \in Nat /\ DeltaSum(Entries(k)) \in Int
      BY EntriesType
    <3>5. ~staleRow'[k] => r.quantityOnHand = InitialOnHand(k) + DeltaSum(Entries(k))
      BY <1>5, <2>1, <3>2, <3>3, <3>4 DEF StoredKept
    <3>6. Stored'[k] = r
      BY <3>1, <3>2 DEF Stored, OrNew
    <3>7. Explained(k, r.quantityOnHand, Entries(k))
      <4>1. Entries(k) \cup PostedAt(t, k) \cup Posted(t) = Entries(k)
        BY <1>5, <2>2
      <4>2. QED
        BY <3>2, <4>1
    <3>8. /\ Explained(k, Stored'[k].quantityOnHand, Entries(k)')
          /\ ~staleRow'[k] => Stored'[k].quantityOnHand = InitialOnHand(k) + DeltaSum(Entries(k))'
      BY <2>2, <2>5, <3>5, <3>6, <3>7
    <3>9. StoredKept(k)'
      BY <3>8 DEF StoredKept, Explained, DeltaSum, SumOver
    <3>10. QED
      BY <2>4, <2>6, <3>9
  <2>9. QED
    BY <2>7, <2>8
<1>7. QED
  BY <1>6 DEF OnHandInvariant

\* A commit stores the rows the transaction saw, with its movements.
LEMMA CommittedOnHand ==
  ASSUME LedgerShape, OnHandInvariant, NEW t \in Transactions, Commit(t)
  PROVE  OnHandInvariant'
<1> DEFINE n == transactions'[t]
           q == transactions[t]
<1>0. Typed /\ Running(t)
  BY DEF LedgerShape, LedgerTyped, Typed, AvailabilityInvariant, Commit
<1>1. inventory' = View(t) /\ stockMovements' = stockMovements \cup q.posted /\ staleRow' = staleRow
  BY DEF Commit
<1>2. OnlyOf(t) /\ n = Outside("committed")
  BY <1>0, EndEffect DEF Commit
<1>3. n.phase = "read" /\ n.rows = [k \in Keys |-> None] /\ n.posted = {}
  BY <1>2, OutsideFields
<1>4. ASSUME NEW k \in Keys PROVE StoredKept(k)' /\ \A u \in Transactions : PendingKept(u, k)'
  <2>1. StoredKept(k) /\ \A u \in Transactions : PendingKept(u, k)
    BY DEF OnHandInvariant
  <2>2. Entries(k)' = Entries(k) \cup PostedAt(t, k)
    BY <1>1 DEF Entries, PostedAt
  <2>3. DeltaSum(Entries(k))' = DeltaSum(Entries(k)) + DeltaSum(PostedAt(t, k))
    <3>1. DeltaSum(Entries(k) \cup PostedAt(t, k)) = DeltaSum(Entries(k)) + DeltaSum(PostedAt(t, k))
      BY <1>0, EntriesType, DeltaSumUnion
    <3>2. DeltaSum(Entries(k))' = DeltaSum(Entries(k) \cup PostedAt(t, k))
      BY <2>2 DEF DeltaSum, SumOver
    <3>3. QED
      BY <3>1, <3>2
  <2>4. /\ DeltaSum(Entries(k)) \in Int /\ DeltaSum(PostedAt(t, k)) \in Int
        /\ InitialOnHand(k) \in Nat
    BY EntriesType
  <2>5. StoredKept(k)'
    <3>1. Stored'[k] = Found(t, k)
      BY <1>1 DEF Stored, Found
    <3>2. /\ Explained(k, Found(t, k).quantityOnHand, Entries(k) \cup PostedAt(t, k))
          /\ ~staleRow[k] => Found(t, k).quantityOnHand =
               InitialOnHand(k) + DeltaSum(Entries(k)) + DeltaSum(PostedAt(t, k))
      BY FoundExplained
    <3>3. Explained(k, Stored'[k].quantityOnHand, Entries(k)')
      BY <2>2, <3>1, <3>2
    <3>4. ~staleRow'[k] => Stored'[k].quantityOnHand = InitialOnHand(k) + DeltaSum(Entries(k))'
      BY <1>1, <2>3, <2>4, <3>1, <3>2
    <3>5. QED
      BY <3>3, <3>4 DEF StoredKept, Explained, DeltaSum, SumOver
  <2>6. PendingKept(t, k)'
    BY <1>3 DEF PendingKept, PostedAt
  <2>7. ASSUME NEW u \in Transactions \ {t} PROVE PendingKept(u, k)'
    <3>1. transactions'[u] = transactions[u] /\ PostedAt(u, k)' = PostedAt(u, k) /\ Current(u)' = Current(u)
      BY <1>2, <2>7 DEF OnlyOf, PostedAt, Current
    <3>2. ~staleRow'[k] /\ transactions[u].rows[k] # None => DeltaSum(Entries(k))' = DeltaSum(Entries(k))
      <4>1. transactions[u].rows[k] # None => q.rows[k] = None
        BY <2>7 DEF LedgerShape, RowsLocked
      <4>2. ~staleRow'[k] /\ q.rows[k] = None => DeltaSum(PostedAt(t, k)) = 0
        BY <1>1, <2>1, EntriesType, DeltaSums DEF PendingKept
      <4>3. QED
        BY <2>3, <2>4, <4>1, <4>2
    <3>3. transactions'[u].phase \in {"select", "update"} /\ Current(u)'.row = k =>
            Explained(k, transactions'[u].loaded.quantityOnHand, Entries(k) \cup PostedAt(u, k))
      BY <2>1, <2>7, <3>1 DEF PendingKept
    <3>4. QED
      BY <1>1, <2>1, <2>2, <2>7, <3>1, <3>2, <3>3, PendingStays
  <2>8. QED
    BY <2>5, <2>6, <2>7
<1>5. QED
  BY <1>4 DEF OnHandInvariant

\* Every step.
LEMMA NextOnHand == LedgerShape /\ OnHandInvariant /\ [AnyCallers]_ledgerVars => OnHandInvariant'
<1> SUFFICES ASSUME LedgerShape, OnHandInvariant, [AnyCallers]_ledgerVars PROVE OnHandInvariant'
  OBVIOUS
<1>1. CASE UNCHANGED ledgerVars
  <2>1. UNCHANGED <<inventory, stockMovements, transactions, staleRow>>
    BY <1>1 DEF ledgerVars, ledgerTables, ledgerHistory
  <2>2. \A k \in Keys : Entries(k)' = Entries(k)
    BY <2>1 DEF Entries
  <2>3. \A k \in Keys : StoredKept(k)'
    BY <2>1, <2>2, StoredStays DEF OnHandInvariant
  <2>4. \A k \in Keys, u \in Transactions : PendingKept(u, k)'
    BY <2>1, <2>2, OtherPending DEF OnHandInvariant
  <2>5. QED
    BY <2>3, <2>4 DEF OnHandInvariant
<1>2. CASE AnyCallers
  <2>1. PICK t \in Transactions : CallerStep(t)
    BY <1>2 DEF AnyCallers
  <2>2. CASE \/ \E program \in Callable : Begin(t, program)
             \/ ReadRow(t) \/ CheckAvailability(t) \/ SelectRow(t) \/ SumRows(t) \/ UpdateProduct(t)
    BY <2>2, QuietOnHand
  <2>3. CASE UpdateRow(t)
    BY <2>3, UpdatedOnHand, AutocommittedOnHand
  <2>4. CASE SkipUpdate(t)
    BY <2>4, SkippedOnHand
  <2>5. CASE Aborts(t)
    BY <2>5, AbortedOnHand
  <2>6. CASE Commit(t)
    BY <2>6, CommittedOnHand
  <2>7. QED
    BY <2>1, <2>2, <2>3, <2>4, <2>5, <2>6 DEF CallerStep, CallStep, Aborts
<1>3. QED
  BY <1>1, <1>2

\* At the start no movement is posted.
LEMMA InitOnHand == LedgerInit => OnHandInvariant
<1> SUFFICES ASSUME LedgerInit, NEW k \in Keys
             PROVE  StoredKept(k) /\ \A t \in Transactions : PendingKept(t, k)
  BY DEF OnHandInvariant
<1>1. DeltaSum({}) = 0
  <2>1. IsFiniteSet({}) /\ {} \subseteq StockMovement
    BY FS_EmptySet
  <2>2. QED
    BY <2>1, DeltaSums
<1>2. LedgerShape
  BY InitShape
<1>3. Entries(k) = {}
  BY DEF LedgerInit, Entries
<1>4. Stored[k].quantityOnHand = InitialOnHand(k) /\ InitialOnHand(k) \in Nat
  <2>1. OrNew(InitialRows[k]) \in Row
    BY LedgerAssumption, NewRowType DEF OrNew
  <2>2. QED
    BY <2>1 DEF LedgerInit, Stored, InitialOnHand, Row
<1>5. DeltaSum(Entries(k)) = 0
  BY <1>1, <1>3
<1>6. Explained(k, Stored[k].quantityOnHand, Entries(k))
  <2>1. Stored[k].quantityOnHand = InitialOnHand(k) + DeltaSum({})
    BY <1>1, <1>4
  <2>2. QED
    BY <2>1 DEF Explained
<1>7. StoredKept(k)
  BY <1>4, <1>5, <1>6 DEF StoredKept
<1>8. ASSUME NEW t \in Transactions PROVE PendingKept(t, k)
  <2>1. /\ transactions[t].phase = "read" /\ transactions[t].posted = {}
        /\ transactions[t].rows = [j \in Keys |-> None]
    BY OutsideFields DEF LedgerInit
  <2>2. QED
    BY <2>1 DEF PendingKept, PostedAt
<1>9. QED
  BY <1>7, <1>8

\* Units are never invented: the on-hand column of a stored row is its initial
\* stock plus movements of stock_movements, all of them unless transactions
\* raced on the row, however transactions interleave, fail or commit
\* (recordMovement writes the row and the movement in one transaction).
THEOREM OnHandStaysExplained == LedgerSpec => []OnHandExplained
<1>1. OnHandInvariant => OnHandExplained
  <2> SUFFICES ASSUME OnHandInvariant, NEW k \in Keys, inventory[k] # None
               PROVE  LET entries == {e \in stockMovements : e.row = k}
                          onHand(E) == OrNew(InitialRows[k]).quantityOnHand + SumOver(E, LAMBDA e : e.delta)
                      IN  IF staleRow[k]
                          THEN \E E \in SUBSET entries : inventory[k].quantityOnHand = onHand(E)
                          ELSE inventory[k].quantityOnHand = onHand(entries)
    BY DEF OnHandExplained
  <2>1. Stored[k] = inventory[k]
    BY DEF Stored, OrNew
  <2>2. StoredKept(k)
    BY DEF OnHandInvariant
  <2>3. /\ Explained(k, inventory[k].quantityOnHand, Entries(k))
        /\ ~staleRow[k] => inventory[k].quantityOnHand = InitialOnHand(k) + DeltaSum(Entries(k))
    BY <2>1, <2>2 DEF StoredKept
  <2>4. QED
    BY <2>3 DEF Explained, Entries, InitialOnHand, DeltaSum
<1>2. QED
  BY <1>1, InitOnHand, NextOnHand, LedgerKeepsShape, CallersAreAny, PTL DEF LedgerSpec
=============================================================================
