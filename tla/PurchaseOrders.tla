---------------------------- MODULE PurchaseOrders ----------------------------
(***************************************************************************)
(* PurchaseOrdersService: the life cycle of a purchase order, incremental  *)
(* goods receipts, receipt discrepancies, and their effect on the branch   *)
(* inventory, the stock movements and the supplier payables.               *)
(*                                                                         *)
(* Every handler is the code's own sequence of database interactions:      *)
(*   1. load the order (findOneById, outside any transaction), check the   *)
(*      request against what was loaded and mutate the loaded entity;      *)
(*   2. for RECONCILED, a second query reads the receipt events;           *)
(*   3. the transaction starts with save(order), which reads the stored    *)
(*      order again to find the columns that differ from the entity;       *)
(*   4. the UPDATE of those columns locks the order's row, and the         *)
(*      inventory rows to change are read without a lock;                  *)
(*   5. the transaction commits.                                           *)
(* Other requests may run between any two of these, and a request may stop *)
(* after any of them.                                                      *)
(***************************************************************************)
EXTENDS BranchInventory, Sequences

CONSTANTS
  PurchaseOrderIds,   \* orders that may be created
  Items,              \* line positions; every order has one line per position
  Products,
  ProductOf,          \* the product of a line; two lines may share one
  Branches,
  BranchOf,           \* the branch an order is placed for
  UnitPrice,          \* unit price of a line
  Quantities,         \* ordered and received quantities a client may send
  Defects,            \* short and damaged quantities a client may send
  Roles,              \* roles of the callers: subset of "ADMIN","BUYER","SUPPLIER"
  OrderRequests,      \* slots for in-flight requests on orders
  EventRequests,      \* slots for in-flight requests on receipt events
  MaxEvents,          \* bound: receipt events per order
  Idle                \* a slot without a request

ASSUME ConstantsAssumption ==
  /\ IsFiniteSet(Items) /\ IsFiniteSet(PurchaseOrderIds)
  /\ ProductOf \in [Items -> Products]
  /\ BranchOf \in [PurchaseOrderIds -> Branches]
  /\ UnitPrice \in [Items -> Nat]
  /\ Quantities \subseteq Nat
  /\ Defects \subseteq Nat
  /\ Roles \subseteq {"ADMIN", "BUYER", "SUPPLIER"}

VARIABLES
  purchaseOrders,     \* tables purchase_orders and purchase_order_items
  receiptEvents,      \* table purchase_order_receipt_events, oldest first
  inventory,          \* table branch_inventory
  stockQuantity,      \* column product.stockQuantity
  movements,          \* units posted to stock_movements for each order line
  payables,           \* balance posted to SUPPLIER_PAYABLES for each order
  orderRequests,      \* what each in-flight order request holds in memory
  eventRequests,      \* what each in-flight event request holds in memory
  staleOrder,         \* history: a save of the order used an outdated load
  staleRow            \* history: a save of the row used an outdated read

orderTables == <<purchaseOrders, receiptEvents, movements, payables>>
stockTables == <<inventory, stockQuantity>>
history     == <<staleOrder, staleRow>>
vars == <<orderTables, stockTables, orderRequests, eventRequests, history>>

-------------------------------------------------------------------------------
(* Data *)

Status == {"NONE", "DRAFT", "SUBMITTED", "ACKNOWLEDGED", "SHIPPED",
           "RECEIVED", "RECONCILED", "CANCELLED"}

PURCHASE_ORDER_TRANSITIONS ==
  {<<"DRAFT", "SUBMITTED">>,        <<"DRAFT", "CANCELLED">>,
   <<"SUBMITTED", "ACKNOWLEDGED">>, <<"SUBMITTED", "CANCELLED">>,
   <<"ACKNOWLEDGED", "SHIPPED">>,   <<"ACKNOWLEDGED", "CANCELLED">>,
   <<"SHIPPED", "RECEIVED">>,       <<"RECEIVED", "RECONCILED">>}

Item == [orderedQuantity : Nat, receivedQuantity : Nat,
         shortageQuantity : Nat, damagedQuantity : Nat]

ReceiptLine == [receivedQuantity : Nat, shortageQuantity : Nat,
                damagedQuantity : Nat]

\* receivedAt: is that column set?  latestReceipt: the lines kept in
\* statusMeta.latestReceipt (all 0 when there are none).
Document == [status : Status, receivedAt : BOOLEAN,
             latestReceipt : [Items -> ReceiptLine], items : [Items -> Item]]

ReceiptEvent == [lines : [Items -> ReceiptLine],
                 discrepancyStatus : {"NONE", "OPEN", "RESOLVED", "APPROVED"},
                 acknowledged : BOOLEAN]

OrderedItem(n) == [orderedQuantity |-> n, receivedQuantity |-> 0,
                   shortageQuantity |-> 0, damagedQuantity |-> 0]

NoReceipt == [i \in Items |-> [receivedQuantity |-> 0, shortageQuantity |-> 0,
                               damagedQuantity |-> 0]]

NewDocument(status, ordered) ==
  [status |-> status, receivedAt |-> FALSE, latestReceipt |-> NoReceipt,
   items |-> [i \in Items |-> OrderedItem(ordered[i])]]

NoDocument == NewDocument("NONE", [i \in Items |-> 0])

Accounted(item) ==
  item.receivedQuantity + item.shortageQuantity + item.damagedQuantity

\* Mutant: not bounded below by 0.
OutstandingUnbounded(item) == item.orderedQuantity - Accounted(item)

Outstanding(item) == NonNegative(item.orderedQuantity - Accounted(item))

-------------------------------------------------------------------------------
(* Receipts *)

\* The lines a client may send: any subset of the order's lines.
ReceiptDtos ==
  UNION {[L -> [receivedQuantity : Quantities, shortageQuantity : Defects,
                damagedQuantity : Defects]] : L \in SUBSET Items}

\* A line the client left out counts as everything still outstanding.
ReceiptSummary(doc, dto) ==
  [i \in Items |->
     IF i \in DOMAIN dto THEN dto[i]
     ELSE [receivedQuantity |-> Outstanding(doc.items[i]),
           shortageQuantity |-> 0, damagedQuantity |-> 0]]

\* Mutant: every receipt replaces the totals.
ReceivedReplacing(item, line, incremental) ==
  [item EXCEPT !.receivedQuantity = line.receivedQuantity,
               !.shortageQuantity = line.shortageQuantity,
               !.damagedQuantity  = line.damagedQuantity]

\* Mutant: only received units accumulate.
ReceivedForgettingDefects(item, line, incremental) ==
  [item EXCEPT !.receivedQuantity = @ + line.receivedQuantity,
               !.shortageQuantity = line.shortageQuantity,
               !.damagedQuantity  = line.damagedQuantity]

\* applyReceiptSideEffects: a receipt event adds to the line's totals, the
\* RECEIVED transition replaces them.
Received(item, line, incremental) ==
  LET base == IF incremental THEN item ELSE OrderedItem(item.orderedQuantity)
  IN  [base EXCEPT !.receivedQuantity = @ + line.receivedQuantity,
                   !.shortageQuantity = @ + line.shortageQuantity,
                   !.damagedQuantity  = @ + line.damagedQuantity]

ApplyReceipt(doc, lines, incremental) ==
  [status |-> "RECEIVED", receivedAt |-> TRUE, latestReceipt |-> lines,
   items  |-> [i \in Items |-> Received(doc.items[i], lines[i], incremental)]]

\* Mutant: damaged units are not counted.
FitsOrderIgnoringDamage(doc) ==
  \A i \in Items : doc.items[i].receivedQuantity + doc.items[i].shortageQuantity
                    <= doc.items[i].orderedQuantity

\* "Receipt totals exceed ordered quantity" is not thrown.
FitsOrder(doc) ==
  \A i \in Items : Accounted(doc.items[i]) <= doc.items[i].orderedQuantity

Discrepant(lines) ==
  \E i \in Items : lines[i].shortageQuantity > 0 \/ lines[i].damagedQuantity > 0

\* Mutant: two lines of one product overwrite each other.
InboundOfOneLine(doc) ==
  [p \in Products |->
     IF doc.status \in {"SUBMITTED", "ACKNOWLEDGED", "SHIPPED", "RECEIVED"}
     THEN Outstanding(doc.items[CHOOSE i \in Items : ProductOf[i] = p])
     ELSE 0]

\* buildInboundOpenPoProjection: what an order still has on its way.
InboundOpenPoProjection(doc) ==
  [p \in Products |->
     IF doc.status \in {"SUBMITTED", "ACKNOWLEDGED", "SHIPPED", "RECEIVED"}
     THEN SumOver({i \in Items : ProductOf[i] = p},
                  LAMBDA i : Outstanding(doc.items[i]))
     ELSE 0]

-------------------------------------------------------------------------------
(* Roles *)

RoleAllowedForStatus(role, status) ==
  \/ role = "ADMIN"
  \/ role = "BUYER" /\ status \in {"SUBMITTED", "RECEIVED", "RECONCILED", "CANCELLED"}
  \/ role = "SUPPLIER" /\ status \in {"ACKNOWLEDGED", "SHIPPED", "CANCELLED"}

MayApproveReceipt(role) == role \in {"ADMIN", "BUYER"}
MayForceClose(role) == role = "ADMIN"

-------------------------------------------------------------------------------
(* In-flight requests *)

Inventory == [Branches \X Products -> Row]

OrderRequest ==
  [phase   : {"checking", "loaded", "saving", "writing"},
   po      : PurchaseOrderIds,
   loaded  : Document,              \* the order as it was read
   saved   : Document,              \* the mutated entity handed to save()
   selected: Document,              \* the order as save() found it stored
   receipt : BOOLEAN,               \* does it record a receipt?
   lines   : [Items -> ReceiptLine],
   events  : Seq(ReceiptEvent),     \* the receipt events, as last read
   rows    : Inventory]             \* the inventory rows, as last read

EventRequest ==
  [po : PurchaseOrderIds, index : Nat, loaded : ReceiptEvent, saved : ReceiptEvent]

\* Every row exists: two transactions that both create one collide on the
\* unique index of branch and product, and one of them fails.
NoRows == [k \in Branches \X Products |-> NewRow(0)]

Init ==
  /\ purchaseOrders = [po \in PurchaseOrderIds |-> NoDocument]
  /\ receiptEvents = [po \in PurchaseOrderIds |-> <<>>]
  /\ inventory = NoRows
  /\ stockQuantity = [p \in Products |-> 0]
  /\ movements = [po \in PurchaseOrderIds |-> [i \in Items |-> 0]]
  /\ payables = [po \in PurchaseOrderIds |-> 0]
  /\ orderRequests = [r \in OrderRequests |-> Idle]
  /\ eventRequests = [r \in EventRequests |-> Idle]
  /\ staleOrder = [po \in PurchaseOrderIds |-> FALSE]
  /\ staleRow = [k \in Branches \X Products |-> FALSE]

\* create: a single insert, after checks on data that does not change here
\* (branch, approved supplier, products, offers).
Create(po) ==
  /\ purchaseOrders[po].status = "NONE"
  /\ \E ordered \in [Items -> Quantities \ {0}] :
       purchaseOrders' = [purchaseOrders EXCEPT ![po] = NewDocument("DRAFT", ordered)]
  /\ UNCHANGED <<receiptEvents, movements, payables, stockTables,
                 orderRequests, eventRequests, history>>

\* A request keeps the order as loaded, the entity it will save, and the
\* receipt lines it will post.
Begin(r, po, phase, saved, receipt, lines) ==
  /\ orderRequests[r] = Idle
  /\ orderRequests' = [orderRequests EXCEPT ![r] =
       [phase |-> phase, po |-> po, loaded |-> purchaseOrders[po], saved |-> saved,
        selected |-> NoDocument, receipt |-> receipt, lines |-> lines,
        events |-> <<>>, rows |-> NoRows]]
  /\ UNCHANGED <<orderTables, stockTables, eventRequests, history>>

\* Mutant: a reconciled order still takes receipts.
LoadForLateReceipt(r, po, role, dto) ==
  LET doc   == purchaseOrders[po]
      lines == ReceiptSummary(doc, dto)
      saved == ApplyReceipt(doc, lines, TRUE)
  IN  /\ doc.status \in {"SHIPPED", "RECEIVED", "RECONCILED"}
      /\ RoleAllowedForStatus(role, "RECEIVED")
      /\ FitsOrder(saved)
      /\ Begin(r, po, "loaded", saved, TRUE, lines)

\* recordReceiptEvent, up to the transaction.
LoadForReceipt(r, po, role, dto) ==
  LET doc   == purchaseOrders[po]
      lines == ReceiptSummary(doc, dto)
      saved == ApplyReceipt(doc, lines, TRUE)
  IN  /\ doc.status \in {"SHIPPED", "RECEIVED"}
      /\ RoleAllowedForStatus(role, "RECEIVED")
      /\ FitsOrder(saved)
      /\ Begin(r, po, "loaded", saved, TRUE, lines)

\* updateStatus -> updateLoadedStatus, up to the transaction, except RECEIVED.
\* A request for the status the order already has changes nothing.
LoadForStatus(r, po, role, next) ==
  LET doc == purchaseOrders[po]
  IN  /\ <<doc.status, next>> \in PURCHASE_ORDER_TRANSITIONS
      /\ next # "RECEIVED"
      /\ RoleAllowedForStatus(role, next)
      /\ next = "RECONCILED" =>
           \A i \in Items : Accounted(doc.items[i]) = doc.items[i].orderedQuantity
      /\ Begin(r, po, IF next = "RECONCILED" THEN "checking" ELSE "loaded",
               [doc EXCEPT !.status = next], FALSE, NoReceipt)

\* The same handler for SHIPPED -> RECEIVED, which also applies receipt lines,
\* unless receivedAt is set: then it posts the lines of the last receipt.
LoadForReceived(r, po, role, dto) ==
  LET doc   == purchaseOrders[po]
      lines == IF doc.receivedAt THEN doc.latestReceipt ELSE ReceiptSummary(doc, dto)
      saved == IF doc.receivedAt THEN [doc EXCEPT !.status = "RECEIVED"]
                                 ELSE ApplyReceipt(doc, lines, FALSE)
  IN  /\ <<doc.status, "RECEIVED">> \in PURCHASE_ORDER_TRANSITIONS
      /\ RoleAllowedForStatus(role, "RECEIVED")
      /\ doc.receivedAt \/ FitsOrder(saved)
      /\ Begin(r, po, "loaded", saved, TRUE, lines)

\* Mutant: a resolved discrepancy does not block.
CheckOpenEvents(r) ==
  /\ orderRequests[r] # Idle
  /\ orderRequests[r].phase = "checking"
  /\ LET events == receiptEvents[orderRequests[r].po]
     IN  /\ \A n \in DOMAIN events : events[n].discrepancyStatus # "OPEN"
         /\ orderRequests' = [orderRequests EXCEPT ![r].phase = "loaded",
                                                   ![r].events = events]
  /\ UNCHANGED <<orderTables, stockTables, eventRequests, history>>

\* assertReadyForReconciliation: the second query, on the receipt events.
CheckEvents(r) ==
  /\ orderRequests[r] # Idle
  /\ orderRequests[r].phase = "checking"
  /\ LET events == receiptEvents[orderRequests[r].po]
     IN  /\ \A n \in DOMAIN events :
              events[n].discrepancyStatus \notin {"OPEN", "RESOLVED"}
         /\ orderRequests' = [orderRequests EXCEPT ![r].phase = "loaded",
                                                   ![r].events = events]
  /\ UNCHANGED <<orderTables, stockTables, eventRequests, history>>

\* The transaction begins: save() re-reads what is stored.
SelectOrder(r) ==
  /\ orderRequests[r] # Idle
  /\ orderRequests[r].phase = "loaded"
  /\ orderRequests' = [orderRequests EXCEPT
       ![r].phase = "saving", ![r].selected = purchaseOrders[orderRequests[r].po]]
  /\ UNCHANGED <<orderTables, stockTables, eventRequests, history>>

\* The UPDATE locks the order's row: a second transaction on the same order
\* waits here.  Then the inventory rows are read without a lock.
LockOrder(r) ==
  /\ orderRequests[r] # Idle
  /\ orderRequests[r].phase = "saving"
  /\ \A q \in OrderRequests : orderRequests[q] # Idle =>
       ~(orderRequests[q].phase = "writing"
           /\ orderRequests[q].po = orderRequests[r].po)
  /\ orderRequests' = [orderRequests EXCEPT ![r].phase = "writing",
                                            ![r].rows = inventory]
  /\ UNCHANGED <<orderTables, stockTables, eventRequests, history>>

\* save() of an order, column by column.  The entity's statusMeta and a
\* receivedAt it has just set hold a new time stamp: they always differ.
SavedItem(entity, selected, stored) ==
  [orderedQuantity  |-> Column(entity.orderedQuantity, selected.orderedQuantity,
                               stored.orderedQuantity),
   receivedQuantity |-> Column(entity.receivedQuantity, selected.receivedQuantity,
                               stored.receivedQuantity),
   shortageQuantity |-> Column(entity.shortageQuantity, selected.shortageQuantity,
                               stored.shortageQuantity),
   damagedQuantity  |-> Column(entity.damagedQuantity, selected.damagedQuantity,
                               stored.damagedQuantity)]

SavedOrder(q) ==
  LET stored == purchaseOrders[q.po]
  IN  [status |-> Column(q.saved.status, q.selected.status, stored.status),
       receivedAt |->
         \/ q.saved.receivedAt /\ ~q.loaded.receivedAt
         \/ Column(q.saved.receivedAt, q.selected.receivedAt, stored.receivedAt),
       latestReceipt |-> q.saved.latestReceipt,
       items  |-> [i \in Items |->
                     SavedItem(q.saved.items[i], q.selected.items[i], stored.items[i])]]

\* syncInboundOpenPoProjection and persistReceiptSideEffects on one row.
InboundDelta(q, p) ==
  InboundOpenPoProjection(q.saved)[p] - InboundOpenPoProjection(q.loaded)[p]

ArrivedUnits(q, p) ==
  IF q.receipt
  THEN SumOver({i \in Items : ProductOf[i] = p},
               LAMBDA i : q.lines[i].receivedQuantity)
  ELSE 0

RowTouched(q, k) ==
  /\ k[1] = BranchOf[q.po]
  /\ InboundDelta(q, k[2]) # 0 \/ ArrivedUnits(q, k[2]) # 0

\* The first call on a row works from an unlocked read.  Its UPDATE locks the
\* row, so a movement that follows reads what is stored then.
FirstCall(q, k) ==
  IF InboundDelta(q, k[2]) # 0
  THEN AdjustProjectionBucket(q.rows[k], "inboundOpenPo", InboundDelta(q, k[2]))
  ELSE RecordMovement(q.rows[k], ArrivedUnits(q, k[2]))

AfterFirstCall(q, k, selected) ==
  SavedRecord(FirstCall(q, k), selected[k], inventory[k])

\* A call throws when its column would go negative.
RowAllowed(q, k, selected) ==
  IF InboundDelta(q, k[2]) # 0
  THEN /\ BucketAllowed(q.rows[k], "inboundOpenPo", InboundDelta(q, k[2]))
       /\ MovementAllowed(AfterFirstCall(q, k, selected), ArrivedUnits(q, k[2]))
  ELSE MovementAllowed(q.rows[k], ArrivedUnits(q, k[2]))

RowWritten(q, k, selected) ==
  IF InboundDelta(q, k[2]) # 0 /\ ArrivedUnits(q, k[2]) # 0
  THEN RecordMovement(AfterFirstCall(q, k, selected), ArrivedUnits(q, k[2]))
  ELSE AfterFirstCall(q, k, selected)

\* What save() selects is the row as read, or the row as a transaction that
\* committed after the read left it.
WriteInventory(q) ==
  /\ \E selected \in {q.rows, inventory} :
       /\ \A k \in Branches \X Products : RowTouched(q, k) => RowAllowed(q, k, selected)
       /\ inventory' = [k \in Branches \X Products |->
            IF RowTouched(q, k) THEN RowWritten(q, k, selected) ELSE inventory[k]]
  /\ stockQuantity' = [p \in Products |->
       IF RowTouched(q, <<BranchOf[q.po], p>>)
       THEN ProductStock(inventory', Branches, p) ELSE stockQuantity[p]]
  /\ staleRow' = [k \in Branches \X Products |->
       staleRow[k] \/ (RowTouched(q, k) /\ q.rows[k] # inventory[k])]

\* persistReceiptEvent and postReceiptEventToLedger (Dr inventory, Cr payables).
NewEvent(lines) ==
  [lines |-> lines, acknowledged |-> FALSE,
   discrepancyStatus |-> IF Discrepant(lines) THEN "OPEN" ELSE "NONE"]

ReceivedValue(lines) ==
  SumOver(Items, LAMBDA i : UnitPrice[i] * lines[i].receivedQuantity)

\* Mutant: only the first receipt of an order is posted to stock.
RecordReceiptPostingOnce(q) ==
  /\ Len(receiptEvents[q.po]) < MaxEvents
  /\ receiptEvents' = [receiptEvents EXCEPT ![q.po] = Append(@, NewEvent(q.lines))]
  /\ movements' = [movements EXCEPT ![q.po] = [i \in Items |->
       IF q.loaded.receivedAt THEN @[i] ELSE @[i] + q.lines[i].receivedQuantity]]
  /\ payables' = [payables EXCEPT ![q.po] = @ + ReceivedValue(q.lines)]

\* Mutant: each accrual is for the order's total.
RecordReceiptAccruingTotals(q) ==
  /\ Len(receiptEvents[q.po]) < MaxEvents
  /\ receiptEvents' = [receiptEvents EXCEPT ![q.po] = Append(@, NewEvent(q.lines))]
  /\ movements' = [movements EXCEPT ![q.po] =
                     [i \in Items |-> @[i] + q.lines[i].receivedQuantity]]
  /\ payables' = [payables EXCEPT ![q.po] = @ + ReceivedValue(q.saved.items)]

RecordReceipt(q) ==
  /\ Len(receiptEvents[q.po]) < MaxEvents
  /\ receiptEvents' = [receiptEvents EXCEPT ![q.po] = Append(@, NewEvent(q.lines))]
  /\ movements' = [movements EXCEPT ![q.po] =
                     [i \in Items |-> @[i] + q.lines[i].receivedQuantity]]
  /\ payables' = [payables EXCEPT ![q.po] = @ + ReceivedValue(q.lines)]

Commit(r) ==
  LET q == orderRequests[r]
  IN  /\ q # Idle
      /\ q.phase = "writing"
      /\ purchaseOrders' = [purchaseOrders EXCEPT ![q.po] = SavedOrder(q)]
      /\ WriteInventory(q)
      /\ IF q.receipt THEN RecordReceipt(q)
                      ELSE UNCHANGED <<receiptEvents, movements, payables>>
      /\ staleOrder' = [staleOrder EXCEPT ![q.po] =
           \/ @
           \/ purchaseOrders[q.po] # q.loaded \/ q.selected # q.loaded
           \/ q.saved.status = "RECONCILED" /\ receiptEvents[q.po] # q.events]
      /\ orderRequests' = [orderRequests EXCEPT ![r] = Idle]
      /\ UNCHANGED eventRequests

\* A request that throws (blocking discrepancy, a bucket that would go
\* negative, a lost connection, a crash) leaves nothing behind.
Abandon(r) ==
  /\ orderRequests[r] # Idle
  /\ orderRequests' = [orderRequests EXCEPT ![r] = Idle]
  /\ UNCHANGED <<orderTables, stockTables, eventRequests, history>>

-------------------------------------------------------------------------------
(* Receipt events: each handler loads the event, edits it and saves it.      *)

EditEvent(r, po, n, edited) ==
  /\ eventRequests[r] = Idle
  /\ eventRequests' = [eventRequests EXCEPT ![r] =
       [po |-> po, index |-> n, loaded |-> receiptEvents[po][n], saved |-> edited]]
  /\ UNCHANGED <<orderTables, stockTables, orderRequests, history>>

AcknowledgeReceiptEvent(r, po, n) ==
  LET event == receiptEvents[po][n]
  IN  /\ ~event.acknowledged
      /\ EditEvent(r, po, n, [event EXCEPT !.acknowledged = TRUE])

\* Any of the three roles may resolve, in any discrepancy status and whatever
\* the status of the order.
ResolveReceiptEventDiscrepancy(r, po, n) ==
  LET event == receiptEvents[po][n]
  IN  /\ Discrepant(event.lines)
      /\ EditEvent(r, po, n, [event EXCEPT !.discrepancyStatus = "RESOLVED"])

ApproveReceiptEventDiscrepancy(r, po, n, role) ==
  LET event == receiptEvents[po][n]
  IN  /\ MayApproveReceipt(role)
      /\ event.discrepancyStatus = "RESOLVED"
      /\ EditEvent(r, po, n, [event EXCEPT !.discrepancyStatus = "APPROVED"])

ForceCloseReceiptEventDiscrepancy(r, po, n, role) ==
  LET event == receiptEvents[po][n]
  IN  /\ MayForceClose(role)
      /\ Discrepant(event.lines)
      /\ event.discrepancyStatus # "APPROVED"
      /\ EditEvent(r, po, n, [event EXCEPT !.discrepancyStatus = "APPROVED"])

SaveEvent(r) ==
  LET q == eventRequests[r]
  IN  /\ q # Idle
      /\ \E selected \in {q.loaded, receiptEvents[q.po][q.index]} :
           receiptEvents' = [receiptEvents EXCEPT ![q.po][q.index] =
                               SavedRecord(q.saved, selected, @)]
      /\ staleOrder' = [staleOrder EXCEPT ![q.po] =
                          @ \/ receiptEvents[q.po][q.index] # q.loaded]
      /\ eventRequests' = [eventRequests EXCEPT ![r] = Idle]
      /\ UNCHANGED <<purchaseOrders, movements, payables, stockTables,
                     orderRequests, staleRow>>

-------------------------------------------------------------------------------
OrderRequestStep(r) ==
  \/ \E po \in PurchaseOrderIds, role \in Roles :
       \/ \E next \in Status : LoadForStatus(r, po, role, next)
       \/ \E dto \in ReceiptDtos : LoadForReceipt(r, po, role, dto)
       \/ \E dto \in ReceiptDtos : LoadForReceived(r, po, role, dto)
  \/ CheckEvents(r)
  \/ SelectOrder(r)
  \/ LockOrder(r)
  \/ Commit(r)
  \/ Abandon(r)

EventRequestStep(r) ==
  \/ \E po \in PurchaseOrderIds : \E n \in DOMAIN receiptEvents[po] :
       \/ AcknowledgeReceiptEvent(r, po, n)
       \/ ResolveReceiptEventDiscrepancy(r, po, n)
       \/ \E role \in Roles :
            \/ ApproveReceiptEventDiscrepancy(r, po, n, role)
            \/ ForceCloseReceiptEventDiscrepancy(r, po, n, role)
  \/ SaveEvent(r)

Next ==
  \/ \E po \in PurchaseOrderIds : Create(po)
  \/ \E r \in OrderRequests : OrderRequestStep(r)
  \/ \E r \in EventRequests : EventRequestStep(r)

Spec == Init /\ [][Next]_vars

-------------------------------------------------------------------------------
(* Properties.  "Stale" below is what a version check on save would detect:   *)
(* purchase orders and inventory rows are saved without one.                  *)

\* Every column stays in its type: no count of an order line, an event or an
\* inventory row is ever negative.
TypeOK ==
  /\ purchaseOrders \in [PurchaseOrderIds -> Document]
  /\ receiptEvents \in [PurchaseOrderIds -> Seq(ReceiptEvent)]
  /\ inventory \in Inventory
  /\ DOMAIN stockQuantity = Products
  /\ movements \in [PurchaseOrderIds -> [Items -> Nat]]
  /\ DOMAIN payables = PurchaseOrderIds
  /\ orderRequests \in [OrderRequests -> OrderRequest \cup {Idle}]
  /\ eventRequests \in [EventRequests -> EventRequest \cup {Idle}]
  /\ staleOrder \in [PurchaseOrderIds -> BOOLEAN]
  /\ staleRow \in [Branches \X Products -> BOOLEAN]

\* However requests on one order overlap, the order never claims a received
\* unit that was not posted to stock: a lost update of the order may forget
\* units, the stock movements keep them (applyReceiptSideEffects and
\* persistReceiptSideEffects work from the same lines).
StockCoversReceipts ==
  \A po \in PurchaseOrderIds, i \in Items :
    purchaseOrders[po].items[i].receivedQuantity <= movements[po][i]

\* Why: no version of the order that a request holds in memory claims a unit
\* that is not posted or that the request is not about to post.
Claims(doc, po, i) == doc.items[i].receivedQuantity <= movements[po][i]

RequestCovered(q) ==
  \A i \in Items :
    /\ Claims(q.loaded, q.po, i)
    /\ Claims(q.selected, q.po, i)
    /\ q.saved.items[i].receivedQuantity
         <= movements[q.po][i] + q.lines[i].receivedQuantity
    /\ ~q.receipt => q.lines[i].receivedQuantity = 0

RequestsCovered ==
  \A r \in OrderRequests : orderRequests[r] # Idle => RequestCovered(orderRequests[r])

\* Stock, ledger and receipt log are written in one transaction: however
\* requests overlap, the payables and the receipt events of an order account
\* for exactly the units that were posted to stock.
PostingsAgree ==
  \A po \in PurchaseOrderIds :
    /\ payables[po] = SumOver(Items, LAMBDA i : UnitPrice[i] * movements[po][i])
    /\ \A i \in Items :
         movements[po][i] = SumOver(DOMAIN receiptEvents[po], LAMBDA n :
                              receiptEvents[po][n].lines[i].receivedQuantity)

\* "Receipt totals exceed ordered quantity": received, short and damaged units
\* of a line never add up to more than was ordered, unless requests on the
\* order overlapped.
NeverOverReceived ==
  \A po \in PurchaseOrderIds : ~staleOrder[po] =>
    \A i \in Items : Accounted(purchaseOrders[po].items[i])
                       <= purchaseOrders[po].items[i].orderedQuantity

\* Every received unit is posted to stock exactly once, over any sequence of
\* partial receipts, unless requests on the order overlapped.
ReceiptsPostedOnce ==
  \A po \in PurchaseOrderIds : ~staleOrder[po] =>
    \A i \in Items :
      purchaseOrders[po].items[i].receivedQuantity = movements[po][i]

\* The supplier is owed exactly what the order's received units are worth,
\* accrued one receipt event at a time (postReceiptEventToLedger).
PayablesMatchReceipts ==
  \A po \in PurchaseOrderIds : ~staleOrder[po] =>
    payables[po] = SumOver(Items, LAMBDA i :
      UnitPrice[i] * purchaseOrders[po].items[i].receivedQuantity)

\* branch_inventory.inboundOpenPo, maintained by deltas in every transaction,
\* equals what the branch's open orders still have to deliver.
InboundMatchesOpenOrders ==
  \A b \in Branches, p \in Products :
    LET orders == {po \in PurchaseOrderIds : BranchOf[po] = b}
    IN  ~staleRow[b, p] /\ (\A po \in orders : ~staleOrder[po]) =>
          inventory[b, p].inboundOpenPo =
            SumOver(orders, LAMBDA po :
              IF purchaseOrders[po].status \in {"NONE", "DRAFT", "RECONCILED", "CANCELLED"}
              THEN 0
              ELSE SumOver({i \in Items : ProductOf[i] = p},
                           LAMBDA i : Outstanding(purchaseOrders[po].items[i])))

\* The receipt events of an order tell its whole history: they add up to the
\* totals of its lines, for received, short and damaged units alike.
EventsExplainOrder ==
  \A po \in PurchaseOrderIds : ~staleOrder[po] =>
    LET total(i, c) == SumOver(DOMAIN receiptEvents[po],
                               LAMBDA n : receiptEvents[po][n].lines[i][c])
    IN  \A i \in Items :
          \A c \in {"receivedQuantity", "shortageQuantity", "damagedQuantity"} :
            purchaseOrders[po].items[i][c] = total(i, c)

\* An order enters RECONCILED only when every unit is accounted for and no
\* discrepancy is open or awaiting approval at that moment
\* (assertReadyForReconciliation, two queries before the save).
ReconciledOnlyWhenSettled ==
  [][\A po \in PurchaseOrderIds :
       /\ purchaseOrders'[po].status = "RECONCILED"
       /\ purchaseOrders[po].status # "RECONCILED"
       /\ ~staleOrder'[po]
       => /\ \A n \in DOMAIN receiptEvents[po] :
               receiptEvents[po][n].discrepancyStatus \notin {"OPEN", "RESOLVED"}
          /\ \A i \in Items : Outstanding(purchaseOrders[po].items[i]) = 0]_vars

\* An order that ended stays as it ended: neither its status nor its lines
\* change after RECONCILED or CANCELLED, unless requests on it overlapped.
EndedOrdersAreFrozen ==
  [][\A po \in PurchaseOrderIds :
       purchaseOrders[po].status \in {"RECONCILED", "CANCELLED"} /\ ~staleOrder'[po]
       => purchaseOrders'[po] = purchaseOrders[po]
          /\ movements'[po] = movements[po]]_vars

=============================================================================
