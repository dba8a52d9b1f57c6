------------------------ MODULE PurchaseOrdersProofs ------------------------
(***************************************************************************)
(* Theorems about PurchaseOrders, for any number of orders, lines,         *)
(* branches, concurrent requests and receipt events.                       *)
(***************************************************************************)
EXTENDS PurchaseOrders, CommonTheorems, SequenceTheorems

-----------------------------------------------------------------------------
(* What the operators of PurchaseOrders return.                            *)

\* Mixing the columns of three versions of a receipt event gives an event.
LEMMA SavedEventType ==
  ASSUME NEW entity \in ReceiptEvent, NEW selected \in ReceiptEvent,
         NEW stored \in ReceiptEvent
  PROVE  SavedRecord(entity, selected, stored) \in ReceiptEvent
BY DEF SavedRecord, Column, ReceiptEvent

\* The same for an order line.
LEMMA SavedItemType ==
  ASSUME NEW entity \in Item, NEW selected \in Item, NEW stored \in Item
  PROVE  SavedItem(entity, selected, stored) \in Item
BY DEF SavedItem, Column, Item

\* What is outstanding on a line is a count.
LEMMA OutstandingType == \A item \in Item : Outstanding(item) \in Nat
BY NonNegativeType DEF Outstanding, Accounted, Item

\* The values a request or a new order starts with.
LEMMA NewRecordTypes ==
  /\ NoReceipt \in [Items -> ReceiptLine]
  /\ NoDocument \in Document
  /\ NoRows \in Inventory
  /\ \A ordered \in [Items -> Nat] : NewDocument("DRAFT", ordered) \in Document
<1>1. NoReceipt \in [Items -> ReceiptLine]
  BY DEF NoReceipt, ReceiptLine
<1>2. \A n \in Nat : OrderedItem(n) \in Item
  BY DEF OrderedItem, Item
<1>3. \A s \in Status, ordered \in [Items -> Nat] : NewDocument(s, ordered) \in Document
  BY <1>1, <1>2 DEF NewDocument, Document
<1>4. NoRows \in Inventory
  BY DEF NoRows, Inventory, NewRow, Row
<1>5. QED
  BY <1>1, <1>3, <1>4 DEF NoDocument, Status

\* The lines of a receipt are counts, sent by the client or outstanding.
LEMMA ReceiptSummaryType ==
  ASSUME NEW doc \in Document, NEW dto \in ReceiptDtos
  PROVE  ReceiptSummary(doc, dto) \in [Items -> ReceiptLine]
<1>1. \A i \in DOMAIN dto : dto[i] \in ReceiptLine
  <2>1. PICK L \in SUBSET Items :
          dto \in [L -> [receivedQuantity : Quantities, shortageQuantity : Defects,
                         damagedQuantity : Defects]]
    BY DEF ReceiptDtos
  <2>2. QED
    BY <2>1, ConstantsAssumption DEF ReceiptLine
<1>2. \A i \in Items : doc.items[i] \in Item
  BY DEF Document
<1>3. QED
  BY <1>1, <1>2, OutstandingType DEF ReceiptSummary, ReceiptLine

\* A receipt turns an order into a received order (applyReceiptSideEffects).
LEMMA ApplyReceiptType ==
  ASSUME NEW doc \in Document, NEW lines \in [Items -> ReceiptLine],
         NEW incremental \in BOOLEAN
  PROVE  ApplyReceipt(doc, lines, incremental) \in Document
<1>1. \A item \in Item, line \in ReceiptLine : Received(item, line, incremental) \in Item
  <2> TAKE item \in Item, line \in ReceiptLine
  <2> DEFINE base == IF incremental THEN item ELSE OrderedItem(item.orderedQuantity)
  <2>1. base \in Item
    BY DEF OrderedItem, Item
  <2>2. base.receivedQuantity + line.receivedQuantity \in Nat
        /\ base.shortageQuantity + line.shortageQuantity \in Nat
        /\ base.damagedQuantity + line.damagedQuantity \in Nat
    BY <2>1 DEF Item, ReceiptLine
  <2>3. QED
    BY <2>1, <2>2 DEF Received, Item
<1>2. \A i \in Items : Received(doc.items[i], lines[i], incremental) \in Item
  BY <1>1 DEF Document
<1>3. QED
  BY <1>2 DEF ApplyReceipt, Document, Status

\* What save() leaves in the tables is an order.
LEMMA SavedOrderType ==
  ASSUME TypeOK, NEW q \in OrderRequest
  PROVE  SavedOrder(q) \in Document
<1>1. /\ purchaseOrders[q.po] \in Document
      /\ q.saved \in Document
      /\ q.selected \in Document
      /\ q.loaded \in Document
  BY DEF TypeOK, OrderRequest
<1>2. \A i \in Items : SavedItem(q.saved.items[i], q.selected.items[i],
                                 purchaseOrders[q.po].items[i]) \in Item
  BY <1>1, SavedItemType DEF Document
<1>3. Column(q.saved.status, q.selected.status, purchaseOrders[q.po].status) \in Status
  BY <1>1 DEF Document, Column
<1>4. QED
  BY <1>1, <1>2, <1>3 DEF SavedOrder, Document

\* What the ledger calls of a transaction leave of a row is a row.
LEMMA RowWrittenType ==
  ASSUME TypeOK, NEW q \in OrderRequest, NEW k \in Branches \X Products,
         NEW selected \in Inventory, RowAllowed(q, k, selected)
  PROVE  RowWritten(q, k, selected) \in Row
<1>1. q.rows[k] \in Row /\ selected[k] \in Row /\ inventory[k] \in Row
  BY DEF TypeOK, OrderRequest, Inventory
<1>2. FirstCall(q, k) \in Row
  BY <1>1, RecordMovementType, AdjustBucketType DEF FirstCall, RowAllowed, Buckets
<1>3. AfterFirstCall(q, k, selected) \in Row
  BY <1>1, <1>2, SavedRowType DEF AfterFirstCall
<1>4. QED
  BY <1>3, RecordMovementType DEF RowWritten, RowAllowed

-----------------------------------------------------------------------------
(* Type correctness.                                                       *)

\* The first state is of the right type.
LEMMA InitTypeOK == Init => TypeOK
<1> SUFFICES ASSUME Init PROVE TypeOK
  OBVIOUS
<1>1. purchaseOrders \in [PurchaseOrderIds -> Document]
  BY NewRecordTypes DEF Init
<1>2. receiptEvents \in [PurchaseOrderIds -> Seq(ReceiptEvent)]
  BY DEF Init
<1>3. inventory \in Inventory
  BY NewRecordTypes DEF Init
<1>4. QED
  BY <1>1, <1>2, <1>3 DEF Init, TypeOK

\* A request that has loaded an order is of the right type.
LEMMA BeginTypeOK ==
  ASSUME TypeOK, NEW r \in OrderRequests, NEW po \in PurchaseOrderIds,
         NEW phase \in {"checking", "loaded", "saving", "writing"},
         NEW saved \in Document, NEW receipt \in BOOLEAN,
         NEW lines \in [Items -> ReceiptLine],
         Begin(r, po, phase, saved, receipt, lines)
  PROVE  TypeOK'
<1> DEFINE request ==
      [phase |-> phase, po |-> po, loaded |-> purchaseOrders[po], saved |-> saved,
       selected |-> NoDocument, receipt |-> receipt, lines |-> lines,
       events |-> <<>>, rows |-> NoRows]
<1>1. request \in OrderRequest
  BY NewRecordTypes DEF TypeOK, OrderRequest
<1>2. orderRequests' = [orderRequests EXCEPT ![r] = request]
  BY DEF Begin
<1>3. orderRequests' \in [OrderRequests -> OrderRequest \cup {Idle}]
  <2> HIDE DEF request
  <2> QED
    BY <1>1, <1>2 DEF TypeOK
<1>4. QED
  BY <1>3 DEF TypeOK, Begin, orderTables, stockTables, history

\* Each of the three handlers that load an order keeps the types.
LEMMA LoadTypeOK ==
  ASSUME TypeOK, NEW r \in OrderRequests, NEW po \in PurchaseOrderIds,
         NEW role \in Roles
  PROVE  /\ \A next \in Status : LoadForStatus(r, po, role, next) => TypeOK'
         /\ \A dto \in ReceiptDtos : LoadForReceipt(r, po, role, dto) => TypeOK'
         /\ \A dto \in ReceiptDtos : LoadForReceived(r, po, role, dto) => TypeOK'
<1> DEFINE doc == purchaseOrders[po]
<1>0. doc \in Document
  BY DEF TypeOK
<1>1. ASSUME NEW next \in Status, LoadForStatus(r, po, role, next)
      PROVE  TypeOK'
  <2> DEFINE saved == [doc EXCEPT !.status = next]
             phase == IF next = "RECONCILED" THEN "checking" ELSE "loaded"
  <2>1. saved \in Document
    BY <1>0 DEF Document
  <2>2. Begin(r, po, phase, saved, FALSE, NoReceipt)
    BY <1>1 DEF LoadForStatus
  <2>3. phase \in {"checking", "loaded", "saving", "writing"}
    OBVIOUS
  <2> HIDE DEF saved, phase
  <2>4. QED
    BY <2>1, <2>2, <2>3, BeginTypeOK, NewRecordTypes
<1>2. ASSUME NEW dto \in ReceiptDtos, LoadForReceipt(r, po, role, dto)
      PROVE  TypeOK'
  <2> DEFINE lines == ReceiptSummary(doc, dto)
             saved == ApplyReceipt(doc, lines, TRUE)
  <2>1. lines \in [Items -> ReceiptLine]
    BY <1>0, ReceiptSummaryType
  <2>2. saved \in Document
    BY <1>0, <2>1, ApplyReceiptType
  <2>3. Begin(r, po, "loaded", saved, TRUE, lines)
    BY <1>2 DEF LoadForReceipt
  <2> HIDE DEF saved, lines
  <2>4. QED
    BY <2>1, <2>2, <2>3, BeginTypeOK
<1>3. ASSUME NEW dto \in ReceiptDtos, LoadForReceived(r, po, role, dto)
      PROVE  TypeOK'
  <2> DEFINE lines == IF doc.receivedAt THEN doc.latestReceipt
                                        ELSE ReceiptSummary(doc, dto)
             saved == IF doc.receivedAt THEN [doc EXCEPT !.status = "RECEIVED"]
                                        ELSE ApplyReceipt(doc, lines, FALSE)
  <2>1. lines \in [Items -> ReceiptLine]
    BY <1>0, ReceiptSummaryType DEF Document
  <2>2. saved \in Document
    <3>1. [doc EXCEPT !.status = "RECEIVED"] \in Document
      BY <1>0 DEF Document, Status
    <3>2. ApplyReceipt(doc, lines, FALSE) \in Document
      BY <1>0, <2>1, ApplyReceiptType
    <3>3. QED
      BY <3>1, <3>2
  <2>3. Begin(r, po, "loaded", saved, TRUE, lines)
    BY <1>3 DEF LoadForReceived
  <2> HIDE DEF saved, lines
  <2>4. QED
    BY <2>1, <2>2, <2>3, BeginTypeOK
<1>4. QED
  BY <1>1, <1>2, <1>3

\* So does every later step of the request, the commit in particular.
LEMMA OrderRequestTypeOK ==
  ASSUME TypeOK, NEW r \in OrderRequests
  PROVE  /\ CheckEvents(r) => TypeOK'
         /\ SelectOrder(r) => TypeOK'
         /\ LockOrder(r) => TypeOK'
         /\ Abandon(r) => TypeOK'
<1> DEFINE q == orderRequests[r]
<1>0. q # Idle => q \in OrderRequest
  BY DEF TypeOK
<1>1. ASSUME CheckEvents(r) PROVE TypeOK'
  <2>1. receiptEvents[q.po] \in Seq(ReceiptEvent)
    BY <1>0, <1>1 DEF CheckEvents, TypeOK, OrderRequest
  <2>2. [q EXCEPT !.phase = "loaded", !.events = receiptEvents[q.po]] \in OrderRequest
    BY <1>0, <1>1, <2>1 DEF CheckEvents, OrderRequest
  <2>3. orderRequests' \in [OrderRequests -> OrderRequest \cup {Idle}]
    BY <1>1, <2>2 DEF CheckEvents, TypeOK
  <2>4. QED
    BY <1>1, <2>3 DEF CheckEvents, TypeOK, orderTables, stockTables, history
<1>2. ASSUME SelectOrder(r) PROVE TypeOK'
  <2>1. purchaseOrders[q.po] \in Document
    BY <1>0, <1>2 DEF SelectOrder, TypeOK, OrderRequest
  <2>2. [q EXCEPT !.phase = "saving", !.selected = purchaseOrders[q.po]] \in OrderRequest
    BY <1>0, <1>2, <2>1 DEF SelectOrder, OrderRequest
  <2>3. orderRequests' \in [OrderRequests -> OrderRequest \cup {Idle}]
    BY <1>2, <2>2 DEF SelectOrder, TypeOK
  <2>4. QED
    BY <1>2, <2>3 DEF SelectOrder, TypeOK, orderTables, stockTables, history
<1>3. ASSUME LockOrder(r) PROVE TypeOK'
  <2>1. [q EXCEPT !.phase = "writing", !.rows = inventory] \in OrderRequest
    BY <1>0, <1>3 DEF LockOrder, TypeOK, OrderRequest
  <2>2. orderRequests' \in [OrderRequests -> OrderRequest \cup {Idle}]
    BY <1>3, <2>1 DEF LockOrder, TypeOK
  <2>3. QED
    BY <1>3, <2>2 DEF LockOrder, TypeOK, orderTables, stockTables, history
<1>4. ASSUME Abandon(r) PROVE TypeOK'
  BY <1>4 DEF Abandon, TypeOK, orderTables, stockTables, history
<1>5. QED
  BY <1>1, <1>2, <1>3, <1>4

\* The commit writes rows, an order, an event and postings of the right type.
LEMMA CommitTypeOK ==
  ASSUME TypeOK, NEW r \in OrderRequests, Commit(r)
  PROVE  TypeOK'
<1> DEFINE q == orderRequests[r]
<1>1. q \in OrderRequest
  BY DEF Commit, TypeOK
<1>2. purchaseOrders' \in [PurchaseOrderIds -> Document]
  BY <1>1, SavedOrderType DEF Commit, TypeOK
<1>3. inventory' \in Inventory /\ DOMAIN stockQuantity' = Products
  <2>1. PICK selected \in {q.rows, inventory} :
          /\ \A k \in Branches \X Products :
               RowTouched(q, k) => RowAllowed(q, k, selected)
          /\ inventory' = [k \in Branches \X Products |->
               IF RowTouched(q, k) THEN RowWritten(q, k, selected) ELSE inventory[k]]
    BY DEF Commit, WriteInventory
  <2>2. selected \in Inventory
    BY <1>1 DEF TypeOK, OrderRequest
  <2>3. \A k \in Branches \X Products : RowTouched(q, k) =>
          RowWritten(q, k, selected) \in Row
    BY <1>1, <2>1, <2>2, RowWrittenType
  <2>4. inventory' \in Inventory
    BY <2>1, <2>3 DEF TypeOK, Inventory
  <2>5. DOMAIN stockQuantity' = Products
    BY DEF Commit, WriteInventory
  <2>6. QED
    BY <2>4, <2>5
<1>4. CASE q.receipt
  <2>1. RecordReceipt(q)
    BY <1>4 DEF Commit
  <2>2. NewEvent(q.lines) \in ReceiptEvent
    BY <1>1 DEF NewEvent, ReceiptEvent, OrderRequest
  <2>3. receiptEvents' \in [PurchaseOrderIds -> Seq(ReceiptEvent)]
    <3> DEFINE event == NewEvent(q.lines)
    <3> HIDE DEF event
    <3>1. /\ receiptEvents[q.po] \in Seq(ReceiptEvent)
          /\ q.po \in PurchaseOrderIds
      BY <1>1 DEF TypeOK, OrderRequest
    <3>2. Append(receiptEvents[q.po], event) \in Seq(ReceiptEvent)
      BY <2>2, <3>1 DEF event
    <3>3. receiptEvents' = [receiptEvents EXCEPT ![q.po] =
                              Append(receiptEvents[q.po], event)]
      BY <2>1 DEF RecordReceipt, event
    <3>4. QED
      BY <3>2, <3>3 DEF TypeOK
  <2>4. movements' \in [PurchaseOrderIds -> [Items -> Nat]]
    <3>1. \A i \in Items : movements[q.po][i] + q.lines[i].receivedQuantity \in Nat
      BY <1>1 DEF TypeOK, OrderRequest, ReceiptLine
    <3>2. QED
      BY <2>1, <3>1 DEF RecordReceipt, TypeOK
  <2>5. DOMAIN payables' = PurchaseOrderIds
    BY <2>1 DEF RecordReceipt, TypeOK
  <2>6. QED
    BY <1>2, <1>3, <2>3, <2>4, <2>5 DEF Commit, WriteInventory, TypeOK
<1>5. CASE ~q.receipt
  BY <1>2, <1>3, <1>5 DEF Commit, WriteInventory, TypeOK
<1>6. QED
  BY <1>4, <1>5

\* The requests on receipt events keep the types.
LEMMA EventRequestTypeOK ==
  ASSUME TypeOK, NEW r \in EventRequests, EventRequestStep(r)
  PROVE  TypeOK'
<1>1. ASSUME NEW po \in PurchaseOrderIds, NEW n \in DOMAIN receiptEvents[po],
             NEW edited \in ReceiptEvent, EditEvent(r, po, n, edited)
      PROVE  TypeOK'
  <2>1. receiptEvents[po][n] \in ReceiptEvent /\ n \in Nat
    BY DEF TypeOK
  <2>2. [po |-> po, index |-> n, loaded |-> receiptEvents[po][n], saved |-> edited]
          \in EventRequest
    BY <2>1 DEF EventRequest
  <2>3. QED
    BY <1>1, <2>2 DEF EditEvent, TypeOK, orderTables, stockTables, history
<1>2. ASSUME NEW po \in PurchaseOrderIds, NEW n \in DOMAIN receiptEvents[po]
      PROVE  /\ AcknowledgeReceiptEvent(r, po, n) => TypeOK'
             /\ ResolveReceiptEventDiscrepancy(r, po, n) => TypeOK'
             /\ \A role \in Roles :
                  /\ ApproveReceiptEventDiscrepancy(r, po, n, role) => TypeOK'
                  /\ ForceCloseReceiptEventDiscrepancy(r, po, n, role) => TypeOK'
  <2> DEFINE event == receiptEvents[po][n]
  <2>1. event \in ReceiptEvent
    BY DEF TypeOK
  <2>2. /\ [event EXCEPT !.acknowledged = TRUE] \in ReceiptEvent
        /\ [event EXCEPT !.discrepancyStatus = "RESOLVED"] \in ReceiptEvent
        /\ [event EXCEPT !.discrepancyStatus = "APPROVED"] \in ReceiptEvent
    BY <2>1 DEF ReceiptEvent
  <2>3. QED
    BY <1>1, <2>2 DEF AcknowledgeReceiptEvent, ResolveReceiptEventDiscrepancy,
      ApproveReceiptEventDiscrepancy, ForceCloseReceiptEventDiscrepancy
<1>3. ASSUME SaveEvent(r) PROVE TypeOK'
  <2> DEFINE q == eventRequests[r]
  <2>1. q \in EventRequest
    BY <1>3 DEF SaveEvent, TypeOK
  <2>2. PICK selected \in {q.loaded, receiptEvents[q.po][q.index]} :
          receiptEvents' = [receiptEvents EXCEPT ![q.po][q.index] =
                              SavedRecord(q.saved, selected, @)]
    BY <1>3 DEF SaveEvent
  <2>3. CASE q.index \in DOMAIN receiptEvents[q.po]
    <3>1. /\ receiptEvents[q.po] \in Seq(ReceiptEvent)
          /\ receiptEvents[q.po][q.index] \in ReceiptEvent
      BY <2>1, <2>3 DEF TypeOK, EventRequest
    <3>2. SavedRecord(q.saved, selected, receiptEvents[q.po][q.index]) \in ReceiptEvent
      BY <2>1, <3>1, SavedEventType DEF EventRequest
    <3>3. receiptEvents' \in [PurchaseOrderIds -> Seq(ReceiptEvent)]
      BY <2>1, <2>2, <2>3, <3>1, <3>2 DEF TypeOK, EventRequest
    <3>4. QED
      BY <1>3, <3>3 DEF SaveEvent, TypeOK, stockTables
  <2>4. CASE q.index \notin DOMAIN receiptEvents[q.po]
    <3>1. receiptEvents' = receiptEvents
      BY <2>1, <2>2, <2>4 DEF TypeOK, EventRequest
    <3>2. QED
      BY <1>3, <3>1 DEF SaveEvent, TypeOK, stockTables
  <2>5. QED
    BY <2>3, <2>4
<1>4. QED
  BY <1>2, <1>3 DEF EventRequestStep

\* A new order is of the right type.
LEMMA CreateTypeOK ==
  ASSUME TypeOK, NEW po \in PurchaseOrderIds, Create(po)
  PROVE  TypeOK'
<1>1. PICK ordered \in [Items -> Quantities \ {0}] :
        purchaseOrders' = [purchaseOrders EXCEPT ![po] = NewDocument("DRAFT", ordered)]
  BY DEF Create
<1>2. ordered \in [Items -> Nat]
  BY ConstantsAssumption
<1>3. NewDocument("DRAFT", ordered) \in Document
  BY <1>2, NewRecordTypes
<1>4. purchaseOrders' \in [PurchaseOrderIds -> Document]
  BY <1>1, <1>3 DEF TypeOK
<1>5. QED
  BY <1>4 DEF Create, TypeOK, stockTables, history

\* Every step keeps the types.
LEMMA NextTypeOK == TypeOK /\ [Next]_vars => TypeOK'
<1> SUFFICES ASSUME TypeOK, [Next]_vars PROVE TypeOK'
  OBVIOUS
<1>1. CASE \E po \in PurchaseOrderIds : Create(po)
  BY <1>1, CreateTypeOK
<1>2. CASE \E r \in OrderRequests : OrderRequestStep(r)
  BY <1>2, LoadTypeOK, OrderRequestTypeOK, CommitTypeOK DEF OrderRequestStep
<1>3. CASE \E r \in EventRequests : EventRequestStep(r)
  BY <1>3, EventRequestTypeOK
<1>4. CASE UNCHANGED vars
  BY <1>4 DEF vars, orderTables, stockTables, history, TypeOK
<1>5. QED
  BY <1>1, <1>2, <1>3, <1>4 DEF Next

\* No count of an order, a receipt event or an inventory row ever becomes
\* negative, however many requests overlap.
THEOREM TypeCorrect == Spec => []TypeOK
BY InitTypeOK, NextTypeOK, PTL DEF Spec

-----------------------------------------------------------------------------
(* Stock covers receipts.  Two requests that overlap may overwrite each      *)
(* other's columns, so what is stored says too little about what a commit    *)
(* will write.  The invariant is inductive once it also speaks of the        *)
(* requests: whatever version of the order a request holds in memory claims  *)
(* no more received units than are posted, plus, in the entity it will save, *)
(* the units it is going to post itself.                                     *)

CoverInvariant == TypeOK /\ StockCoversReceipts /\ RequestsCovered

\* The requests of the other slots stay covered when movements only grow.
LEMMA CoveredWhenMovementsGrow ==
  ASSUME TypeOK, TypeOK', NEW q \in OrderRequest, RequestCovered(q),
         \A i \in Items : movements[q.po][i] <= movements'[q.po][i]
  PROVE  RequestCovered(q)'
<1>1. /\ q.po \in PurchaseOrderIds
      /\ \A i \in Items : /\ q.loaded.items[i].receivedQuantity \in Nat
                         /\ q.selected.items[i].receivedQuantity \in Nat
                         /\ q.saved.items[i].receivedQuantity \in Nat
                         /\ q.lines[i].receivedQuantity \in Nat
  BY DEF OrderRequest, Document, Item, ReceiptLine
<1>2. \A i \in Items : movements[q.po][i] \in Nat /\ movements'[q.po][i] \in Nat
  BY <1>1 DEF TypeOK
<1>3. QED
  BY <1>1, <1>2 DEF RequestCovered, Claims

\* The entity a request will save claims what is posted and what it will post.
WillPost(po, saved, receipt, lines) ==
  \A i \in Items :
    /\ saved.items[i].receivedQuantity <= movements[po][i] + lines[i].receivedQuantity
    /\ ~receipt => lines[i].receivedQuantity = 0

\* A request that starts with such an entity is covered.
LEMMA BeginCovered ==
  ASSUME CoverInvariant, NEW r \in OrderRequests, NEW po \in PurchaseOrderIds,
         NEW phase \in {"checking", "loaded", "saving", "writing"},
         NEW saved \in Document, NEW receipt \in BOOLEAN,
         NEW lines \in [Items -> ReceiptLine],
         Begin(r, po, phase, saved, receipt, lines),
         WillPost(po, saved, receipt, lines)
  PROVE  CoverInvariant'
<1> USE DEF WillPost
<1>1. TypeOK'
  BY BeginTypeOK DEF CoverInvariant
<1>2. StockCoversReceipts'
  BY DEF CoverInvariant, StockCoversReceipts, Begin, orderTables
<1>3. ASSUME NEW s \in OrderRequests, (orderRequests[s] # Idle)'
      PROVE  RequestCovered(orderRequests[s])'
  <2>1. movements' = movements
    BY DEF Begin, orderTables
  <2>2. CASE s = r
    <3>1. /\ orderRequests'[s].po = po
          /\ orderRequests'[s].loaded = purchaseOrders[po]
          /\ orderRequests'[s].saved = saved
          /\ orderRequests'[s].selected = NoDocument
          /\ orderRequests'[s].receipt = receipt
          /\ orderRequests'[s].lines = lines
      BY <2>2 DEF Begin, CoverInvariant, TypeOK
    <3>2. \A i \in Items : /\ NoDocument.items[i].receivedQuantity = 0
                         /\ movements[po][i] \in Nat
      BY DEF NoDocument, NewDocument, OrderedItem, CoverInvariant, TypeOK
    <3>3. \A i \in Items : purchaseOrders[po].items[i].receivedQuantity <= movements[po][i]
      BY DEF CoverInvariant, StockCoversReceipts
    <3>4. QED
      BY <2>1, <3>1, <3>2, <3>3 DEF RequestCovered, Claims
  <2>3. CASE s # r
    <3>1. orderRequests'[s] = orderRequests[s]
      BY <2>3 DEF Begin, CoverInvariant, TypeOK
    <3>2. RequestCovered(orderRequests[s])
      BY <1>3, <3>1 DEF CoverInvariant, RequestsCovered
    <3>3. QED
      BY <2>1, <3>1, <3>2 DEF RequestCovered, Claims
  <2>4. QED
    BY <2>2, <2>3
<1>4. QED
  BY <1>1, <1>2, <1>3 DEF CoverInvariant, RequestsCovered

\* The handlers that load an order: receipts add, to the totals of a line,
\* exactly the units they will post.
LEMMA LoadCovered ==
  ASSUME CoverInvariant, NEW r \in OrderRequests, NEW po \in PurchaseOrderIds,
         NEW role \in Roles
  PROVE  /\ \A next \in Status : LoadForStatus(r, po, role, next) => CoverInvariant'
         /\ \A dto \in ReceiptDtos : LoadForReceipt(r, po, role, dto) => CoverInvariant'
         /\ \A dto \in ReceiptDtos : LoadForReceived(r, po, role, dto) => CoverInvariant'
<1> DEFINE doc == purchaseOrders[po]
<1>0. /\ TypeOK
      /\ doc \in Document
      /\ \A i \in Items : /\ doc.items[i] \in Item
                         /\ movements[po][i] \in Nat
                         /\ doc.items[i].receivedQuantity <= movements[po][i]
  BY DEF CoverInvariant, StockCoversReceipts, TypeOK, Document
<1>2. ASSUME NEW next \in Status, LoadForStatus(r, po, role, next)
      PROVE  CoverInvariant'
  <2> DEFINE saved == [doc EXCEPT !.status = next]
             phase == IF next = "RECONCILED" THEN "checking" ELSE "loaded"
  <2>1. saved \in Document
    BY <1>0 DEF Document
  <2>2. WillPost(po, saved, FALSE, NoReceipt)
    <3>1. \A i \in Items : NoReceipt[i].receivedQuantity = 0
      BY DEF NoReceipt
    <3>2. saved.items = doc.items
      BY <1>0 DEF Document
    <3>3. QED
      BY <1>0, <3>1, <3>2 DEF WillPost, Item
  <2>3. Begin(r, po, phase, saved, FALSE, NoReceipt)
    BY <1>2 DEF LoadForStatus
  <2>4. phase \in {"checking", "loaded", "saving", "writing"}
    OBVIOUS
  <2> HIDE DEF saved, phase
  <2>5. QED
    BY <2>1, <2>2, <2>3, <2>4, BeginCovered, NewRecordTypes
<1>3. ASSUME NEW lines \in [Items -> ReceiptLine], NEW incremental \in BOOLEAN,
             NEW i \in Items
      PROVE  ApplyReceipt(doc, lines, incremental).items[i].receivedQuantity
               <= movements[po][i] + lines[i].receivedQuantity
  <2> DEFINE item == doc.items[i]
             base == IF incremental THEN item ELSE OrderedItem(item.orderedQuantity)
  <2>1. /\ base \in Item
        /\ base.receivedQuantity <= item.receivedQuantity
    BY <1>0 DEF OrderedItem, Item
  <2>2. ApplyReceipt(doc, lines, incremental).items[i].receivedQuantity
          = base.receivedQuantity + lines[i].receivedQuantity
    BY <2>1 DEF ApplyReceipt, Received, Item
  <2>3. lines[i].receivedQuantity \in Nat
    BY DEF ReceiptLine
  <2>4. /\ base.receivedQuantity \in Nat
        /\ item.receivedQuantity \in Nat
        /\ movements[po][i] \in Nat
        /\ item.receivedQuantity <= movements[po][i]
    BY <1>0, <2>1 DEF Item
  <2> HIDE DEF base, item
  <2>5. QED
    BY <2>1, <2>2, <2>3, <2>4
<1>4. ASSUME NEW dto \in ReceiptDtos, LoadForReceipt(r, po, role, dto)
      PROVE  CoverInvariant'
  <2> DEFINE lines == ReceiptSummary(doc, dto)
             saved == ApplyReceipt(doc, lines, TRUE)
  <2>1. lines \in [Items -> ReceiptLine]
    BY <1>0, ReceiptSummaryType
  <2>2. saved \in Document
    BY <1>0, <2>1, ApplyReceiptType
  <2>3. WillPost(po, saved, TRUE, lines)
    BY <1>3, <2>1 DEF WillPost
  <2>4. Begin(r, po, "loaded", saved, TRUE, lines)
    BY <1>4 DEF LoadForReceipt
  <2> HIDE DEF saved, lines
  <2>5. QED
    BY <2>1, <2>2, <2>3, <2>4, BeginCovered
<1>5. ASSUME NEW dto \in ReceiptDtos, LoadForReceived(r, po, role, dto)
      PROVE  CoverInvariant'
  <2> DEFINE lines == IF doc.receivedAt THEN doc.latestReceipt
                                        ELSE ReceiptSummary(doc, dto)
             saved == IF doc.receivedAt THEN [doc EXCEPT !.status = "RECEIVED"]
                                        ELSE ApplyReceipt(doc, lines, FALSE)
  <2>1. lines \in [Items -> ReceiptLine]
    BY <1>0, ReceiptSummaryType DEF Document
  <2>2. saved \in Document
    <3>1. [doc EXCEPT !.status = "RECEIVED"] \in Document
      BY <1>0 DEF Document, Status
    <3>2. ApplyReceipt(doc, lines, FALSE) \in Document
      BY <1>0, <2>1, ApplyReceiptType
    <3>3. QED
      BY <3>1, <3>2
  <2>3. WillPost(po, saved, TRUE, lines)
    <3>1. CASE doc.receivedAt
      <4>1. saved.items = doc.items
        BY <1>0, <3>1 DEF Document
      <4>2. \A i \in Items : lines[i].receivedQuantity \in Nat
        BY <2>1 DEF ReceiptLine
      <4> HIDE DEF saved, lines
      <4>3. QED
        BY <1>0, <4>1, <4>2 DEF Item, WillPost
    <3>2. CASE ~doc.receivedAt
      BY <1>3, <2>1, <3>2 DEF WillPost
    <3>3. QED
      BY <3>1, <3>2
  <2>4. Begin(r, po, "loaded", saved, TRUE, lines)
    BY <1>5 DEF LoadForReceived
  <2> HIDE DEF saved, lines
  <2>5. QED
    BY <2>1, <2>2, <2>3, <2>4, BeginCovered
<1>6. QED
  BY <1>2, <1>4, <1>5

\* The steps of a request before its commit change no order and no movement.
LEMMA OrderRequestCovered ==
  ASSUME CoverInvariant, NEW r \in OrderRequests,
         CheckEvents(r) \/ SelectOrder(r) \/ LockOrder(r) \/ Abandon(r)
  PROVE  CoverInvariant'
<1> DEFINE q == orderRequests[r]
<1>1. TypeOK'
  BY OrderRequestTypeOK DEF CoverInvariant
<1>2. /\ purchaseOrders' = purchaseOrders
      /\ movements' = movements
  BY DEF CheckEvents, SelectOrder, LockOrder, Abandon, orderTables
<1>3. StockCoversReceipts'
  BY <1>2 DEF CoverInvariant, StockCoversReceipts
<1>4. ASSUME NEW s \in OrderRequests, (orderRequests[s] # Idle)'
      PROVE  RequestCovered(orderRequests[s])'
  <2>1. CASE s # r
    <3>1. orderRequests'[s] = orderRequests[s]
      BY <2>1 DEF CheckEvents, SelectOrder, LockOrder, Abandon, CoverInvariant, TypeOK
    <3>2. RequestCovered(orderRequests[s])
      BY <1>4, <3>1 DEF CoverInvariant, RequestsCovered
    <3>3. QED
      BY <1>2, <3>1, <3>2 DEF RequestCovered, Claims
  <2>2. CASE s = r
    <3>1. /\ q # Idle
          /\ q \in OrderRequest
          /\ RequestCovered(q)
      BY DEF CheckEvents, SelectOrder, LockOrder, Abandon, CoverInvariant,
        RequestsCovered, TypeOK
    <3>2. /\ orderRequests'[s].po = q.po
          /\ orderRequests'[s].loaded = q.loaded
          /\ orderRequests'[s].saved = q.saved
          /\ orderRequests'[s].receipt = q.receipt
          /\ orderRequests'[s].lines = q.lines
          /\ orderRequests'[s].selected \in {q.selected, purchaseOrders[q.po]}
      BY <1>4, <2>2, <3>1 DEF CheckEvents, SelectOrder, LockOrder, Abandon,
        CoverInvariant, TypeOK, OrderRequest
    <3>3. \A i \in Items : Claims(purchaseOrders[q.po], q.po, i)
      BY <3>1 DEF CoverInvariant, StockCoversReceipts, Claims, OrderRequest
    <3>4. QED
      BY <1>2, <3>1, <3>2, <3>3 DEF RequestCovered, Claims
  <2>3. QED
    BY <2>1, <2>2
<1>5. QED
  BY <1>1, <1>3, <1>4 DEF CoverInvariant, RequestsCovered

\* The commit: what it writes in the column of received units is its own claim
\* or what is stored, and it posts its own units.
LEMMA CommitCovered ==
  ASSUME CoverInvariant, NEW r \in OrderRequests, Commit(r)
  PROVE  CoverInvariant'
<1> DEFINE q == orderRequests[r]
<1>1. /\ TypeOK
      /\ TypeOK'
      /\ q # Idle
      /\ q \in OrderRequest
      /\ RequestCovered(q)
  <2>1. TypeOK /\ TypeOK' /\ q # Idle
    BY CommitTypeOK DEF CoverInvariant, Commit
  <2>2. q \in OrderRequest
    BY <2>1 DEF TypeOK
  <2>3. RequestCovered(q)
    BY <2>1 DEF CoverInvariant, RequestsCovered
  <2>4. QED
    BY <2>1, <2>2, <2>3
<1>2. \A i \in Items : /\ movements[q.po][i] \in Nat
                      /\ q.lines[i].receivedQuantity \in Nat
                      /\ q.saved.items[i].receivedQuantity \in Nat
                      /\ purchaseOrders[q.po].items[i].receivedQuantity \in Nat
  <2>1. /\ q.po \in PurchaseOrderIds
        /\ q.lines \in [Items -> ReceiptLine]
        /\ q.saved \in Document
    BY <1>1 DEF OrderRequest
  <2>2. /\ purchaseOrders[q.po] \in Document
        /\ movements[q.po] \in [Items -> Nat]
    BY <1>1, <2>1 DEF TypeOK
  <2> HIDE DEF q
  <2>3. QED
    BY <2>1, <2>2 DEF Document, Item, ReceiptLine
<1>3. \A i \in Items : movements'[q.po][i] = movements[q.po][i] + q.lines[i].receivedQuantity
  <2>1. CASE q.receipt
    BY <1>1, <2>1 DEF Commit, RecordReceipt, TypeOK, OrderRequest
  <2>2. CASE ~q.receipt
    BY <1>1, <1>2, <2>2 DEF Commit, RequestCovered
  <2>3. QED
    BY <2>1, <2>2
<1>4. \A po \in PurchaseOrderIds \ {q.po} : /\ purchaseOrders'[po] = purchaseOrders[po]
                                           /\ movements'[po] = movements[po]
  BY <1>1 DEF Commit, RecordReceipt, TypeOK
<1>5. StockCoversReceipts'
  <2>1. ASSUME NEW po \in PurchaseOrderIds, NEW i \in Items
        PROVE  purchaseOrders'[po].items[i].receivedQuantity <= movements'[po][i]
    <3>1. CASE po = q.po
      <4>1. purchaseOrders'[po].items[i].receivedQuantity
              \in {q.saved.items[i].receivedQuantity,
                   purchaseOrders[po].items[i].receivedQuantity}
        BY <1>1, <3>1 DEF Commit, SavedOrder, SavedItem, Column, TypeOK
      <4>2. q.saved.items[i].receivedQuantity
              <= movements[q.po][i] + q.lines[i].receivedQuantity
        BY <1>1 DEF RequestCovered
      <4>3. purchaseOrders[po].items[i].receivedQuantity <= movements[po][i]
        BY DEF CoverInvariant, StockCoversReceipts
      <4>4. /\ movements[po][i] \in Nat /\ q.lines[i].receivedQuantity \in Nat
            /\ q.saved.items[i].receivedQuantity \in Nat
            /\ purchaseOrders[po].items[i].receivedQuantity \in Nat
            /\ movements'[po][i] = movements[po][i] + q.lines[i].receivedQuantity
        BY <1>2, <1>3, <3>1
      <4>5. q.saved.items[i].receivedQuantity <= movements'[po][i]
        BY <3>1, <4>2, <4>4
      <4>6. purchaseOrders[po].items[i].receivedQuantity <= movements'[po][i]
        BY <4>3, <4>4
      <4>7. QED
        BY <4>1, <4>5, <4>6
    <3>2. CASE po # q.po
      BY <1>4, <3>2 DEF CoverInvariant, StockCoversReceipts
    <3>3. QED
      BY <3>1, <3>2
  <2>2. QED
    BY <2>1 DEF StockCoversReceipts
<1>6. ASSUME NEW s \in OrderRequests, (orderRequests[s] # Idle)'
      PROVE  RequestCovered(orderRequests[s])'
  <2>1. /\ s # r
        /\ orderRequests'[s] = orderRequests[s]
    BY <1>1, <1>6 DEF Commit, TypeOK
  <2>2. /\ orderRequests[s] \in OrderRequest
        /\ RequestCovered(orderRequests[s])
    BY <1>1, <1>6, <2>1 DEF CoverInvariant, RequestsCovered, TypeOK
  <2>3. \A i \in Items :
          movements[orderRequests[s].po][i] <= movements'[orderRequests[s].po][i]
    <3>1. orderRequests[s].po \in PurchaseOrderIds
      BY <2>2 DEF OrderRequest
    <3>2. CASE orderRequests[s].po = q.po
      BY <1>2, <1>3, <3>2
    <3>3. CASE orderRequests[s].po # q.po
      <4>1. movements'[orderRequests[s].po] = movements[orderRequests[s].po]
        BY <1>4, <3>1, <3>3
      <4>2. \A i \in Items : movements[orderRequests[s].po][i] \in Nat
        BY <1>1, <3>1 DEF TypeOK
      <4>3. QED
        BY <4>1, <4>2
    <3>4. QED
      BY <3>2, <3>3
  <2>4. RequestCovered(orderRequests[s])'
    <3>1. \A t \in OrderRequest :
            /\ RequestCovered(t)
            /\ \A i \in Items : movements[t.po][i] <= movements'[t.po][i]
            => RequestCovered(t)'
      BY <1>1, CoveredWhenMovementsGrow
    <3>2. QED
      BY <2>1, <2>2, <2>3, <3>1 DEF RequestCovered, Claims
  <2>5. QED
    BY <2>4
<1>7. QED
  BY <1>1, <1>5, <1>6 DEF CoverInvariant, RequestsCovered

\* A new order claims no unit; requests on receipt events change no quantity.
LEMMA CreateCovered ==
  ASSUME CoverInvariant, NEW po \in PurchaseOrderIds, Create(po)
  PROVE  CoverInvariant'
<1>1. PICK ordered \in [Items -> Quantities \ {0}] :
        purchaseOrders' = [purchaseOrders EXCEPT ![po] = NewDocument("DRAFT", ordered)]
  BY DEF Create
<1>2. /\ TypeOK
      /\ TypeOK'
      /\ movements' = movements
      /\ orderRequests' = orderRequests
  BY CreateTypeOK DEF Create, CoverInvariant
<1>3. \A i \in Items : NewDocument("DRAFT", ordered).items[i].receivedQuantity = 0
  BY DEF NewDocument, OrderedItem
<1>4. StockCoversReceipts'
  BY <1>1, <1>2, <1>3 DEF CoverInvariant, StockCoversReceipts, TypeOK
<1>5. RequestsCovered'
  BY <1>2 DEF CoverInvariant, RequestsCovered, RequestCovered, Claims
<1>6. QED
  BY <1>2, <1>4, <1>5 DEF CoverInvariant

\* Every step keeps the invariant.
LEMMA NextCovered == CoverInvariant /\ [Next]_vars => CoverInvariant'
<1> SUFFICES ASSUME CoverInvariant, [Next]_vars PROVE CoverInvariant'
  OBVIOUS
<1>1. CASE \E po \in PurchaseOrderIds : Create(po)
  BY <1>1, CreateCovered
<1>2. CASE \E r \in OrderRequests : OrderRequestStep(r)
  BY <1>2, LoadCovered, OrderRequestCovered, CommitCovered DEF OrderRequestStep
<1>3. CASE \E r \in EventRequests : EventRequestStep(r)
  <2>1. PICK r \in EventRequests : EventRequestStep(r)
    BY <1>3
  <2>2. /\ purchaseOrders' = purchaseOrders
        /\ movements' = movements
        /\ orderRequests' = orderRequests
    BY <2>1 DEF EventRequestStep, AcknowledgeReceiptEvent,
      ResolveReceiptEventDiscrepancy, ApproveReceiptEventDiscrepancy,
      ForceCloseReceiptEventDiscrepancy, EditEvent, SaveEvent, orderTables
  <2>3. TypeOK'
    BY <2>1, EventRequestTypeOK DEF CoverInvariant
  <2>4. QED
    BY <2>2, <2>3 DEF CoverInvariant, StockCoversReceipts, RequestsCovered,
      RequestCovered, Claims
<1>4. CASE UNCHANGED vars
  <2>1. TypeOK'
    BY NextTypeOK DEF CoverInvariant
  <2>2. QED
    BY <1>4, <2>1 DEF vars, orderTables, CoverInvariant, StockCoversReceipts,
      RequestsCovered, RequestCovered, Claims
<1>5. QED
  BY <1>1, <1>2, <1>3, <1>4 DEF Next

\* However many requests on an order overlap, and whatever they overwrite, the
\* order never claims a received unit that was not posted to stock.
THEOREM ReceiptsAreCovered == Spec => []StockCoversReceipts
<1>1. Init => CoverInvariant
  <2> SUFFICES ASSUME Init PROVE CoverInvariant
    OBVIOUS
  <2>1. TypeOK
    BY InitTypeOK
  <2>2. StockCoversReceipts
    BY DEF Init, StockCoversReceipts, NoDocument, NewDocument, OrderedItem
  <2>3. RequestsCovered
    BY DEF Init, RequestsCovered
  <2>4. QED
    BY <2>1, <2>2, <2>3 DEF CoverInvariant
<1>2. CoverInvariant => StockCoversReceipts
  BY DEF CoverInvariant
<1>3. QED
  BY <1>1, <1>2, NextCovered, PTL DEF Spec
-----------------------------------------------------------------------------
(***************************************************************************)
(* Orders on which no two requests overlapped: receipts never exceed the   *)
(* order and are posted exactly once, an order is reconciled only when it  *)
(* is settled, and an order that ended is frozen.                          *)
(*                                                                         *)
(* The argument is the same for the four of them.  What a request holds in *)
(* memory never changes between its load and its commit, so it suffices to *)
(* say, once and without mentioning the tables, how the entity it will     *)
(* save relates to the order it loaded (SoundRequest).  A commit that is   *)
(* not stale finds in the tables what the request loaded, and replaces it  *)
(* by the entity, whole.                                                   *)
(***************************************************************************)

\* An order nothing was received for has no counts and no receivedAt.
Early(doc) ==
  doc.status \notin {"RECEIVED", "RECONCILED"} =>
    /\ ~doc.receivedAt
    /\ \A i \in Items : Accounted(doc.items[i]) = 0

Within(doc) ==
  \A i \in Items : Accounted(doc.items[i]) <= doc.items[i].orderedQuantity

Settled(events) ==
  \A n \in DOMAIN events : events[n].discrepancyStatus \notin {"OPEN", "RESOLVED"}

\* The counts of a line that receipts add to.
Counts == {"receivedQuantity", "shortageQuantity", "damagedQuantity"}

SoundRequest(q) ==
  /\ q.loaded.status \notin {"RECONCILED", "CANCELLED"}
  /\ Early(q.loaded) /\ Within(q.loaded) =>
       /\ Early(q.saved)
       /\ Within(q.saved)
       /\ \A i \in Items, c \in Counts :
            q.saved.items[i][c]
              = q.loaded.items[i][c] + (IF q.receipt THEN q.lines[i][c] ELSE 0)
  /\ q.saved.status = "RECONCILED" =>
       /\ \A i \in Items : Accounted(q.loaded.items[i]) = q.loaded.items[i].orderedQuantity
       /\ q.phase = "checking" \/ Settled(q.events)

SoundRequests ==
  \A r \in OrderRequests : orderRequests[r] # Idle => SoundRequest(orderRequests[r])

AccountingInvariant ==
  /\ TypeOK
  /\ SoundRequests
  /\ \A po \in PurchaseOrderIds : ~staleOrder[po] =>
       /\ Early(purchaseOrders[po])
       /\ Within(purchaseOrders[po])
       /\ \A i \in Items :
            purchaseOrders[po].items[i].receivedQuantity = movements[po][i]

-----------------------------------------------------------------------------
(* Requests are sound from the load on.                                    *)

\* A request that starts sound keeps all requests sound.
LEMMA BeginSound ==
  ASSUME AccountingInvariant, NEW r \in OrderRequests, NEW po \in PurchaseOrderIds,
         NEW phase, NEW saved, NEW receipt, NEW lines,
         Begin(r, po, phase, saved, receipt, lines),
         SoundRequest([phase |-> phase, po |-> po, loaded |-> purchaseOrders[po],
                       saved |-> saved, selected |-> NoDocument, receipt |-> receipt,
                       lines |-> lines, events |-> <<>>, rows |-> NoRows])
  PROVE  SoundRequests'
<1> DEFINE request ==
      [phase |-> phase, po |-> po, loaded |-> purchaseOrders[po], saved |-> saved,
       selected |-> NoDocument, receipt |-> receipt, lines |-> lines,
       events |-> <<>>, rows |-> NoRows]
<1>1. orderRequests' = [orderRequests EXCEPT ![r] = request]
  BY DEF Begin
<1>2. SoundRequest(request)
  OBVIOUS
<1> HIDE DEF request
<1>3. ASSUME NEW s \in OrderRequests, orderRequests'[s] # Idle
      PROVE  SoundRequest(orderRequests'[s])
  <2>1. CASE s = r
    BY <1>1, <1>2, <2>1 DEF AccountingInvariant, TypeOK
  <2>2. CASE s # r
    BY <1>1, <1>3, <2>2 DEF AccountingInvariant, SoundRequests, TypeOK
  <2>3. QED
    BY <2>1, <2>2
<1>4. QED
  BY <1>3 DEF SoundRequests

\* A status update takes over the lines of the order as they are.
LEMMA StatusSound ==
  ASSUME AccountingInvariant, NEW r \in OrderRequests, NEW po \in PurchaseOrderIds,
         NEW role \in Roles, NEW next \in Status, LoadForStatus(r, po, role, next)
  PROVE  SoundRequests'
<1> DEFINE doc   == purchaseOrders[po]
           saved == [doc EXCEPT !.status = next]
           phase == IF next = "RECONCILED" THEN "checking" ELSE "loaded"
<1>1. doc \in Document /\ \A i \in Items : doc.items[i] \in Item
  BY DEF AccountingInvariant, TypeOK, Document
<1>2. /\ saved.status = next
      /\ saved.items = doc.items
      /\ saved.receivedAt = doc.receivedAt
  BY <1>1 DEF Document
<1>3. /\ <<doc.status, next>> \in PURCHASE_ORDER_TRANSITIONS
      /\ next # "RECEIVED"
      /\ next = "RECONCILED" =>
           \A i \in Items : Accounted(doc.items[i]) = doc.items[i].orderedQuantity
      /\ Begin(r, po, phase, saved, FALSE, NoReceipt)
  BY DEF LoadForStatus
<1>4. /\ doc.status \notin {"RECONCILED", "CANCELLED"}
      /\ next # "RECONCILED" => doc.status \notin {"RECEIVED", "RECONCILED"}
  BY <1>3 DEF PURCHASE_ORDER_TRANSITIONS
<1>5. Early(doc) /\ Within(doc) => Early(saved) /\ Within(saved)
  BY <1>2, <1>4 DEF Early, Within
<1>6. \A i \in Items, c \in Counts : saved.items[i][c] = doc.items[i][c] + 0
  BY <1>1, <1>2 DEF Item, Counts
<1>7. next = "RECONCILED" => phase = "checking"
  OBVIOUS
<1> HIDE DEF doc, saved, phase
<1>8. SoundRequest([phase |-> phase, po |-> po, loaded |-> doc, saved |-> saved,
                    selected |-> NoDocument, receipt |-> FALSE, lines |-> NoReceipt,
                    events |-> <<>>, rows |-> NoRows])
  BY <1>2, <1>3, <1>4, <1>5, <1>6, <1>7 DEF SoundRequest
<1>9. QED
  BY <1>3, <1>8, BeginSound DEF doc

\* What a receipt does to the counts of a line.
LEMMA ReceivedCounts ==
  ASSUME NEW item \in Item, NEW line \in ReceiptLine, NEW incremental \in BOOLEAN,
         ~incremental => Accounted(item) = 0
  PROVE  \A c \in Counts : Received(item, line, incremental)[c] = item[c] + line[c]
<1> DEFINE base == IF incremental THEN item ELSE OrderedItem(item.orderedQuantity)
<1>1. base \in Item
  BY DEF OrderedItem, Item
<1>2. /\ base.receivedQuantity = item.receivedQuantity
      /\ base.shortageQuantity = item.shortageQuantity
      /\ base.damagedQuantity = item.damagedQuantity
  BY DEF OrderedItem, Item, Accounted
<1>3. /\ Received(item, line, incremental).receivedQuantity
           = item.receivedQuantity + line.receivedQuantity
      /\ Received(item, line, incremental).shortageQuantity
           = item.shortageQuantity + line.shortageQuantity
      /\ Received(item, line, incremental).damagedQuantity
           = item.damagedQuantity + line.damagedQuantity
  BY <1>1, <1>2 DEF Received, Item
<1>4. QED
  BY <1>3 DEF Counts

\* A receipt on an order in transit or received so far: the counts of a line
\* grow by the receipt, within the order.
LEMMA ReceiptSound ==
  ASSUME AccountingInvariant, NEW r \in OrderRequests, NEW po \in PurchaseOrderIds,
         NEW lines \in [Items -> ReceiptLine], NEW incremental \in BOOLEAN,
         purchaseOrders[po].status \in {"SHIPPED", "RECEIVED"},
         ~incremental => purchaseOrders[po].status = "SHIPPED",
         FitsOrder(ApplyReceipt(purchaseOrders[po], lines, incremental)),
         Begin(r, po, "loaded", ApplyReceipt(purchaseOrders[po], lines, incremental),
               TRUE, lines)
  PROVE  SoundRequests'
<1> DEFINE doc   == purchaseOrders[po]
           saved == ApplyReceipt(doc, lines, incremental)
<1>1. doc \in Document /\ \A i \in Items : doc.items[i] \in Item
  BY DEF AccountingInvariant, TypeOK, Document
<1>2. /\ saved.status = "RECEIVED"
      /\ saved.items = [i \in Items |-> Received(doc.items[i], lines[i], incremental)]
  BY DEF ApplyReceipt
<1>3. Early(saved) /\ Within(saved)
  BY <1>2 DEF Early, Within, FitsOrder
<1>4. ASSUME Early(doc), NEW i \in Items, NEW c \in Counts
      PROVE  saved.items[i][c] = doc.items[i][c] + lines[i][c]
  <2>1. ~incremental => Accounted(doc.items[i]) = 0
    BY <1>4 DEF Early
  <2>2. QED
    BY <1>1, <1>2, <2>1, ReceivedCounts
<1>5. /\ doc.status \notin {"RECONCILED", "CANCELLED"}
      /\ Begin(r, po, "loaded", saved, TRUE, lines)
  OBVIOUS
<1> HIDE DEF doc, saved
<1>6. SoundRequest([phase |-> "loaded", po |-> po, loaded |-> doc, saved |-> saved,
                    selected |-> NoDocument, receipt |-> TRUE, lines |-> lines,
                    events |-> <<>>, rows |-> NoRows])
  BY <1>2, <1>3, <1>4, <1>5 DEF SoundRequest
<1>7. QED
  BY <1>5, <1>6, BeginSound DEF doc

\* The three handlers that load an order.
LEMMA LoadSound ==
  ASSUME AccountingInvariant, NEW r \in OrderRequests, NEW po \in PurchaseOrderIds,
         NEW role \in Roles
  PROVE  /\ \A next \in Status : LoadForStatus(r, po, role, next) => SoundRequests'
         /\ \A dto \in ReceiptDtos : LoadForReceipt(r, po, role, dto) => SoundRequests'
         /\ \A dto \in ReceiptDtos : LoadForReceived(r, po, role, dto) => SoundRequests'
<1> DEFINE doc == purchaseOrders[po]
<1>0. doc \in Document
  BY DEF AccountingInvariant, TypeOK
<1>1. ASSUME NEW dto \in ReceiptDtos, LoadForReceipt(r, po, role, dto)
      PROVE  SoundRequests'
  <2> DEFINE lines == ReceiptSummary(doc, dto)
  <2>1. lines \in [Items -> ReceiptLine]
    BY <1>0, ReceiptSummaryType
  <2>2. /\ doc.status \in {"SHIPPED", "RECEIVED"}
        /\ FitsOrder(ApplyReceipt(doc, lines, TRUE))
        /\ Begin(r, po, "loaded", ApplyReceipt(doc, lines, TRUE), TRUE, lines)
    BY <1>1 DEF LoadForReceipt
  <2> HIDE DEF lines
  <2>3. QED
    BY <2>1, <2>2, ReceiptSound
<1>2. ASSUME NEW dto \in ReceiptDtos, LoadForReceived(r, po, role, dto), ~doc.receivedAt
      PROVE  SoundRequests'
  <2> DEFINE lines == ReceiptSummary(doc, dto)
  <2>1. lines \in [Items -> ReceiptLine]
    BY <1>0, ReceiptSummaryType
  <2>2. /\ doc.status = "SHIPPED"
        /\ FitsOrder(ApplyReceipt(doc, lines, FALSE))
        /\ Begin(r, po, "loaded", ApplyReceipt(doc, lines, FALSE), TRUE, lines)
    BY <1>2 DEF LoadForReceived, PURCHASE_ORDER_TRANSITIONS
  <2> HIDE DEF lines
  <2>3. QED
    BY <2>1, <2>2, ReceiptSound
<1>3. ASSUME NEW dto \in ReceiptDtos, LoadForReceived(r, po, role, dto), doc.receivedAt
      PROVE  SoundRequests'
  <2> DEFINE saved == [doc EXCEPT !.status = "RECEIVED"]
  <2>1. /\ doc.status = "SHIPPED"
        /\ Begin(r, po, "loaded", saved, TRUE, doc.latestReceipt)
    BY <1>3 DEF LoadForReceived, PURCHASE_ORDER_TRANSITIONS
  <2>2. saved.status = "RECEIVED" /\ ~Early(doc)
    BY <1>0, <1>3, <2>1 DEF Early, Document
  <2>3. SoundRequest([phase |-> "loaded", po |-> po, loaded |-> doc, saved |-> saved,
                      selected |-> NoDocument, receipt |-> TRUE,
                      lines |-> doc.latestReceipt, events |-> <<>>, rows |-> NoRows])
    BY <2>1, <2>2 DEF SoundRequest
  <2> HIDE DEF saved
  <2>4. QED
    BY <2>1, <2>3, BeginSound
<1>4. QED
  BY <1>1, <1>2, <1>3, StatusSound

\* A request stays sound until it ends: for a reconciliation the check of the
\* events is what lets it go on.
LEMMA StepSound ==
  ASSUME AccountingInvariant, NEW r \in OrderRequests,
         CheckEvents(r) \/ SelectOrder(r) \/ LockOrder(r) \/ Abandon(r) \/ Commit(r)
  PROVE  SoundRequests'
<1> DEFINE q == orderRequests[r]
<1>1. /\ q # Idle
      /\ q \in OrderRequest
      /\ SoundRequest(q)
      /\ orderRequests \in [OrderRequests -> OrderRequest \cup {Idle}]
  <2>1. q # Idle
    BY DEF CheckEvents, SelectOrder, LockOrder, Abandon, Commit
  <2>2. QED
    BY <2>1 DEF AccountingInvariant, SoundRequests, TypeOK
<1>2. ASSUME NEW s \in OrderRequests, orderRequests'[s] # Idle
      PROVE  SoundRequest(orderRequests'[s])
  <2>1. CASE s # r
    <3>1. orderRequests'[s] = orderRequests[s]
      BY <1>1, <2>1 DEF CheckEvents, SelectOrder, LockOrder, Abandon, Commit
    <3>2. QED
      BY <1>2, <3>1 DEF AccountingInvariant, SoundRequests
  <2>2. CASE s = r
    <3> DEFINE next == orderRequests'[s]
    <3>1. ~Abandon(r) /\ ~Commit(r)
      BY <1>1, <1>2, <2>2 DEF Abandon, Commit
    <3>2. /\ next.loaded = q.loaded
          /\ next.saved = q.saved
          /\ next.receipt = q.receipt
          /\ next.lines = q.lines
      BY <1>1, <2>2, <3>1 DEF CheckEvents, SelectOrder, LockOrder, OrderRequest
    <3>3. \/ next.phase = q.phase /\ next.events = q.events
          \/ Settled(next.events)
          \/ q.phase # "checking" /\ next.events = q.events
      BY <1>1, <2>2, <3>1 DEF CheckEvents, SelectOrder, LockOrder, OrderRequest, Settled
    <3> HIDE DEF next
    <3>4. QED
      BY <1>1, <3>2, <3>3 DEF SoundRequest, next
  <2>3. QED
    BY <2>1, <2>2
<1>3. QED
  BY <1>2 DEF SoundRequests

-----------------------------------------------------------------------------
(* Commits.                                                                *)

\* A commit that is not stale: the order was as the request loaded it, and
\* becomes the entity the request saved.
LEMMA FreshCommit ==
  ASSUME TypeOK, NEW r \in OrderRequests, Commit(r),
         ~staleOrder'[orderRequests[r].po]
  PROVE  LET q == orderRequests[r]
         IN  /\ ~staleOrder[q.po]
             /\ purchaseOrders[q.po] = q.loaded
             /\ q.saved.status = "RECONCILED" => receiptEvents[q.po] = q.events
             /\ purchaseOrders'[q.po].status = q.saved.status
             /\ purchaseOrders'[q.po].items = q.saved.items
             /\ purchaseOrders'[q.po].receivedAt = q.saved.receivedAt
<1> DEFINE q == orderRequests[r]
<1>1. q \in OrderRequest /\ q.po \in PurchaseOrderIds
  BY DEF Commit, TypeOK, OrderRequest
<1>2. /\ ~staleOrder[q.po]
      /\ purchaseOrders[q.po] = q.loaded
      /\ q.selected = q.loaded
      /\ q.saved.status = "RECONCILED" => receiptEvents[q.po] = q.events
  BY <1>1 DEF Commit, TypeOK
<1>3. purchaseOrders'[q.po] = SavedOrder(q)
  BY <1>1 DEF Commit, TypeOK
<1>4. SavedOrder(q).status = q.saved.status
  BY <1>2 DEF SavedOrder, Column
<1>5. SavedOrder(q).items = q.saved.items
  <2>1. q.saved \in Document
    BY <1>1 DEF OrderRequest
  <2>2. \A e \in Item, d \in Item : SavedItem(e, d, d) = e
    BY DEF SavedItem, Column, Item
  <2>3. q.loaded \in Document
    BY <1>1 DEF OrderRequest
  <2>4. \A i \in Items : SavedItem(q.saved.items[i], q.selected.items[i],
                                   purchaseOrders[q.po].items[i]) = q.saved.items[i]
    BY <1>2, <2>1, <2>2, <2>3 DEF Document
  <2>5. SavedOrder(q).items = [i \in Items |-> q.saved.items[i]]
    BY <2>4 DEF SavedOrder
  <2>6. QED
    BY <2>1, <2>5 DEF Document
<1>6. SavedOrder(q).receivedAt = q.saved.receivedAt
  BY <1>1, <1>2 DEF SavedOrder, Column, OrderRequest, Document
<1>7. QED
  BY <1>2, <1>3, <1>4, <1>5, <1>6

\* A commit keeps the accounts of orders without overlapping requests.
LEMMA CommitAccounting ==
  ASSUME AccountingInvariant, NEW r \in OrderRequests, Commit(r)
  PROVE  AccountingInvariant'
<1> DEFINE q == orderRequests[r]
<1>1. /\ TypeOK
      /\ TypeOK'
      /\ SoundRequests'
      /\ q \in OrderRequest
      /\ SoundRequest(q)
  <2>1. TypeOK /\ TypeOK' /\ SoundRequests'
    BY CommitTypeOK, StepSound DEF AccountingInvariant
  <2>2. q \in OrderRequest /\ SoundRequest(q)
    BY <2>1 DEF Commit, AccountingInvariant, SoundRequests, TypeOK
  <2>3. QED
    BY <2>1, <2>2
<1>2. ASSUME NEW po \in PurchaseOrderIds, ~staleOrder'[po]
      PROVE  /\ Early(purchaseOrders'[po])
             /\ Within(purchaseOrders'[po])
             /\ \A i \in Items :
                  purchaseOrders'[po].items[i].receivedQuantity = movements'[po][i]
  <2>1. CASE po = q.po
    <3>1. /\ ~staleOrder[po]
          /\ purchaseOrders[po] = q.loaded
          /\ purchaseOrders'[po].status = q.saved.status
          /\ purchaseOrders'[po].items = q.saved.items
          /\ purchaseOrders'[po].receivedAt = q.saved.receivedAt
      BY <1>1, <1>2, <2>1, FreshCommit
    <3>2. /\ Early(q.loaded)
          /\ Within(q.loaded)
          /\ \A i \in Items : q.loaded.items[i].receivedQuantity = movements[po][i]
      BY <1>2, <3>1 DEF AccountingInvariant
    <3>3. /\ Early(q.saved)
          /\ Within(q.saved)
          /\ \A i \in Items :
               q.saved.items[i].receivedQuantity
                 = q.loaded.items[i].receivedQuantity
                     + (IF q.receipt THEN q.lines[i].receivedQuantity ELSE 0)
      BY <1>1, <3>2 DEF SoundRequest, Counts
    <3>4. \A i \in Items :
            movements'[po][i] = movements[po][i]
                                  + (IF q.receipt THEN q.lines[i].receivedQuantity ELSE 0)
      <4>1. CASE q.receipt
        BY <1>1, <2>1, <4>1 DEF Commit, RecordReceipt, TypeOK, OrderRequest
      <4>2. CASE ~q.receipt
        <5>1. \A i \in Items : movements[po][i] \in Nat
          BY <1>1, <1>2 DEF TypeOK
        <5>2. movements' = movements
          BY <4>2 DEF Commit
        <5>3. QED
          BY <4>2, <5>1, <5>2
      <4>3. QED
        BY <4>1, <4>2
    <3>5. QED
      BY <3>1, <3>2, <3>3, <3>4 DEF Early, Within
  <2>2. CASE po # q.po
    <3>1. /\ purchaseOrders'[po] = purchaseOrders[po]
          /\ movements'[po] = movements[po]
          /\ staleOrder'[po] = staleOrder[po]
      BY <1>1, <1>2, <2>2 DEF Commit, RecordReceipt, TypeOK
    <3>2. QED
      BY <1>2, <3>1 DEF AccountingInvariant
  <2>3. QED
    BY <2>1, <2>2
<1>3. QED
  BY <1>1, <1>2 DEF AccountingInvariant, Early, Within

\* A new order has no counts.
LEMMA CreateAccounting ==
  ASSUME AccountingInvariant, NEW po \in PurchaseOrderIds, Create(po)
  PROVE  AccountingInvariant'
<1>1. PICK ordered \in [Items -> Quantities \ {0}] :
        purchaseOrders' = [purchaseOrders EXCEPT ![po] = NewDocument("DRAFT", ordered)]
  BY DEF Create
<1> DEFINE doc == NewDocument("DRAFT", ordered)
<1>2. /\ TypeOK /\ TypeOK'
      /\ movements' = movements /\ staleOrder' = staleOrder
      /\ orderRequests' = orderRequests
  BY CreateTypeOK DEF Create, AccountingInvariant, history
<1>3. /\ doc.status = "DRAFT"
      /\ ~doc.receivedAt
      /\ \A i \in Items : /\ doc.items[i].receivedQuantity = 0
                         /\ doc.items[i].orderedQuantity \in Nat
                         /\ Accounted(doc.items[i]) = 0
  <2>1. \A i \in Items : ordered[i] \in Nat
    BY ConstantsAssumption
  <2>2. \A i \in Items : doc.items[i] = OrderedItem(ordered[i])
    BY DEF NewDocument
  <2>3. doc.status = "DRAFT" /\ ~doc.receivedAt
    BY DEF NewDocument
  <2>4. \A n \in Nat : /\ OrderedItem(n).receivedQuantity = 0
                      /\ OrderedItem(n).orderedQuantity = n
                      /\ Accounted(OrderedItem(n)) = 0
    BY DEF OrderedItem, Accounted
  <2> HIDE DEF doc
  <2>5. QED
    BY <2>1, <2>2, <2>3, <2>4
<1>4. Early(doc) /\ Within(doc)
  BY <1>3 DEF Early, Within
<1>5. purchaseOrders[po].status = "NONE"
  BY DEF Create
<1> HIDE DEF doc
<1>6. ASSUME NEW o \in PurchaseOrderIds, ~staleOrder'[o]
      PROVE  /\ Early(purchaseOrders'[o])
             /\ Within(purchaseOrders'[o])
             /\ \A i \in Items :
                  purchaseOrders'[o].items[i].receivedQuantity = movements'[o][i]
  <2>1. CASE o = po
    <3>1. purchaseOrders'[o] = doc
      BY <1>1, <1>2, <2>1 DEF doc, TypeOK
    <3>2. ASSUME NEW i \in Items PROVE movements[po][i] = 0
      <4>1. /\ Early(purchaseOrders[po])
            /\ purchaseOrders[po].items[i].receivedQuantity = movements[po][i]
            /\ purchaseOrders[po].items[i] \in Item
        BY <1>2, <1>6, <2>1 DEF AccountingInvariant, TypeOK, Document
      <4>2. Accounted(purchaseOrders[po].items[i]) = 0
        BY <1>5, <4>1 DEF Early
      <4>3. \A item \in Item : Accounted(item) = 0 => item.receivedQuantity = 0
        BY DEF Accounted, Item
      <4>4. QED
        BY <4>1, <4>2, <4>3
    <3>3. QED
      BY <1>2, <1>3, <1>4, <2>1, <3>1, <3>2
  <2>2. CASE o # po
    BY <1>1, <1>2, <1>6, <2>2 DEF AccountingInvariant, TypeOK
  <2>3. QED
    BY <2>1, <2>2
<1>7. SoundRequests'
  BY <1>2 DEF AccountingInvariant, SoundRequests
<1>8. QED
  BY <1>2, <1>6, <1>7 DEF AccountingInvariant

\* Steps that change neither orders nor movements.
LEMMA QuietAccounting ==
  ASSUME AccountingInvariant, TypeOK', SoundRequests',
         purchaseOrders' = purchaseOrders, movements' = movements,
         \A po \in PurchaseOrderIds : staleOrder[po] => staleOrder'[po]
  PROVE  AccountingInvariant'
BY DEF AccountingInvariant, Early, Within

\* Every step keeps the accounts.
LEMMA NextAccounting == AccountingInvariant /\ [Next]_vars => AccountingInvariant'
<1> SUFFICES ASSUME AccountingInvariant, [Next]_vars PROVE AccountingInvariant'
  OBVIOUS
<1>0. TypeOK /\ TypeOK'
  BY NextTypeOK DEF AccountingInvariant
<1>1. CASE \E po \in PurchaseOrderIds : Create(po)
  BY <1>1, CreateAccounting
<1>2. ASSUME NEW r \in OrderRequests, OrderRequestStep(r)
      PROVE  AccountingInvariant'
  <2>1. CASE Commit(r)
    BY <2>1, CommitAccounting
  <2>2. CASE CheckEvents(r) \/ SelectOrder(r) \/ LockOrder(r) \/ Abandon(r)
    <3>1. SoundRequests'
      BY <2>2, StepSound
    <3>2. /\ purchaseOrders' = purchaseOrders /\ movements' = movements
          /\ staleOrder' = staleOrder
      BY <2>2 DEF CheckEvents, SelectOrder, LockOrder, Abandon, orderTables, history
    <3>3. QED
      BY <1>0, <3>1, <3>2, QuietAccounting
  <2>3. ASSUME NEW po \in PurchaseOrderIds, NEW role \in Roles,
               \/ \E next \in Status : LoadForStatus(r, po, role, next)
               \/ \E dto \in ReceiptDtos : LoadForReceipt(r, po, role, dto)
               \/ \E dto \in ReceiptDtos : LoadForReceived(r, po, role, dto)
        PROVE  AccountingInvariant'
    <3>1. SoundRequests'
      BY <2>3, LoadSound
    <3>2. /\ purchaseOrders' = purchaseOrders /\ movements' = movements
          /\ staleOrder' = staleOrder
      BY <2>3 DEF LoadForStatus, LoadForReceipt, LoadForReceived, Begin, orderTables,
        history
    <3>3. QED
      BY <1>0, <3>1, <3>2, QuietAccounting
  <2>4. QED
    BY <1>2, <2>1, <2>2, <2>3 DEF OrderRequestStep
<1>3. ASSUME NEW r \in EventRequests, EventRequestStep(r)
      PROVE  AccountingInvariant'
  <2>1. /\ purchaseOrders' = purchaseOrders /\ movements' = movements
        /\ orderRequests' = orderRequests
        /\ \A po \in PurchaseOrderIds : staleOrder[po] => staleOrder'[po]
    BY <1>0, <1>3 DEF EventRequestStep, AcknowledgeReceiptEvent,
      ResolveReceiptEventDiscrepancy, ApproveReceiptEventDiscrepancy,
      ForceCloseReceiptEventDiscrepancy, EditEvent, SaveEvent, orderTables, history,
      TypeOK
  <2>2. SoundRequests'
    BY <2>1 DEF AccountingInvariant, SoundRequests
  <2>3. QED
    BY <1>0, <2>1, <2>2, QuietAccounting
<1>4. CASE UNCHANGED vars
  BY <1>0, <1>4, QuietAccounting DEF vars, orderTables, history, AccountingInvariant,
    SoundRequests
<1>5. QED
  BY <1>1, <1>2, <1>3, <1>4 DEF Next

\* The first state has no orders and no requests.
LEMMA InitAccounting == Init => AccountingInvariant
<1> SUFFICES ASSUME Init PROVE AccountingInvariant
  OBVIOUS
<1>1. SoundRequests
  BY DEF Init, SoundRequests
<1>2. /\ ~NoDocument.receivedAt
      /\ \A i \in Items : /\ NoDocument.items[i].receivedQuantity = 0
                         /\ NoDocument.items[i].orderedQuantity = 0
                         /\ Accounted(NoDocument.items[i]) = 0
  BY DEF NoDocument, NewDocument, OrderedItem, Accounted
<1>3. QED
  BY <1>1, <1>2, InitTypeOK DEF Init, AccountingInvariant, Early, Within

\* The accounts of every order without overlapping requests are right.
LEMMA AccountingHolds == Spec => []AccountingInvariant
BY InitAccounting, NextAccounting, PTL DEF Spec

-----------------------------------------------------------------------------
(* What follows.                                                           *)

\* Received, short and damaged units never exceed what was ordered
\* (applyReceiptSideEffects), as long as no requests on the order overlap.
THEOREM ReceiptsFit == Spec => []NeverOverReceived
<1>1. AccountingInvariant => NeverOverReceived
  BY DEF AccountingInvariant, NeverOverReceived, Within
<1>2. QED
  BY <1>1, AccountingHolds, PTL

\* Every received unit is posted to stock exactly once, as long as no requests
\* on the order overlap (persistReceiptSideEffects posts the lines of this
\* receipt, not the totals).
THEOREM PostedOnce == Spec => []ReceiptsPostedOnce
<1>1. AccountingInvariant => ReceiptsPostedOnce
  BY DEF AccountingInvariant, ReceiptsPostedOnce
<1>2. QED
  BY <1>1, AccountingHolds, PTL

\* Only a commit changes a stored order or the movements of one.
LEMMA OnlyCommitsChange ==
  ASSUME TypeOK, [Next]_vars, NEW po \in PurchaseOrderIds,
         purchaseOrders[po].status # "NONE" \/ purchaseOrders'[po].status = "RECONCILED",
         purchaseOrders'[po] # purchaseOrders[po] \/ movements'[po] # movements[po]
  PROVE  \E r \in OrderRequests : Commit(r) /\ orderRequests[r].po = po
<1>1. CASE \E o \in PurchaseOrderIds : Create(o)
  BY <1>1 DEF Create, TypeOK, NewDocument
<1>2. ASSUME NEW r \in OrderRequests, OrderRequestStep(r)
      PROVE  Commit(r) /\ orderRequests[r].po = po
  <2>1. Commit(r)
    BY <1>2 DEF OrderRequestStep, LoadForStatus, LoadForReceipt, LoadForReceived,
      Begin, CheckEvents, SelectOrder, LockOrder, Abandon, orderTables
  <2>2. orderRequests[r].po = po
    BY <2>1 DEF Commit, RecordReceipt, TypeOK, OrderRequest
  <2>3. QED
    BY <2>1, <2>2
<1>3. ASSUME NEW r \in EventRequests, EventRequestStep(r)
      PROVE  FALSE
  BY <1>3 DEF EventRequestStep, AcknowledgeReceiptEvent,
    ResolveReceiptEventDiscrepancy, ApproveReceiptEventDiscrepancy,
    ForceCloseReceiptEventDiscrepancy, EditEvent, SaveEvent, orderTables
<1>4. CASE UNCHANGED vars
  BY <1>4 DEF vars, orderTables
<1>5. QED
  BY <1>1, <1>2, <1>3, <1>4 DEF Next

\* An order that was reconciled or cancelled never changes again, as long as no
\* requests on it overlap: no handler accepts a request on it.
THEOREM EndIsFinal == Spec => EndedOrdersAreFrozen
<1>1. AccountingInvariant /\ [Next]_vars =>
        [\A po \in PurchaseOrderIds :
           purchaseOrders[po].status \in {"RECONCILED", "CANCELLED"} /\ ~staleOrder'[po]
           => purchaseOrders'[po] = purchaseOrders[po]
              /\ movements'[po] = movements[po]]_vars
  <2> SUFFICES ASSUME AccountingInvariant, [Next]_vars, NEW po \in PurchaseOrderIds,
                      purchaseOrders[po].status \in {"RECONCILED", "CANCELLED"},
                      ~staleOrder'[po],
                      \/ purchaseOrders'[po] # purchaseOrders[po]
                      \/ movements'[po] # movements[po]
               PROVE  FALSE
    OBVIOUS
  <2>1. TypeOK
    BY DEF AccountingInvariant
  <2>2. PICK r \in OrderRequests : Commit(r) /\ orderRequests[r].po = po
    BY <2>1, OnlyCommitsChange
  <2>3. purchaseOrders[po] = orderRequests[r].loaded
    BY <2>1, <2>2, FreshCommit
  <2>4. orderRequests[r].loaded.status \notin {"RECONCILED", "CANCELLED"}
    BY <2>2 DEF Commit, AccountingInvariant, SoundRequests, SoundRequest
  <2>5. QED
    BY <2>3, <2>4
<1>2. QED
  BY <1>1, AccountingHolds, PTL DEF EndedOrdersAreFrozen, Spec

\* An order becomes RECONCILED only with every unit accounted for and no
\* discrepancy open or awaiting approval, as long as neither the order nor its
\* receipt events change under the request (assertReadyForReconciliation).
THEOREM SettledWhenReconciled == Spec => ReconciledOnlyWhenSettled
<1>1. AccountingInvariant /\ [Next]_vars =>
        [\A po \in PurchaseOrderIds :
           /\ purchaseOrders'[po].status = "RECONCILED"
           /\ purchaseOrders[po].status # "RECONCILED"
           /\ ~staleOrder'[po]
           => /\ \A n \in DOMAIN receiptEvents[po] :
                   receiptEvents[po][n].discrepancyStatus \notin {"OPEN", "RESOLVED"}
              /\ \A i \in Items : Outstanding(purchaseOrders[po].items[i]) = 0]_vars
  <2> SUFFICES ASSUME AccountingInvariant, [Next]_vars, NEW po \in PurchaseOrderIds,
                      purchaseOrders'[po].status = "RECONCILED",
                      purchaseOrders[po].status # "RECONCILED",
                      ~staleOrder'[po]
               PROVE  /\ \A n \in DOMAIN receiptEvents[po] :
                           receiptEvents[po][n].discrepancyStatus
                             \notin {"OPEN", "RESOLVED"}
                      /\ \A i \in Items : Outstanding(purchaseOrders[po].items[i]) = 0
    OBVIOUS
  <2>1. TypeOK
    BY DEF AccountingInvariant
  <2>2. PICK r \in OrderRequests : Commit(r) /\ orderRequests[r].po = po
    BY <2>1, OnlyCommitsChange
  <2> DEFINE q == orderRequests[r]
  <2>3. /\ purchaseOrders[po] = q.loaded
        /\ q.saved.status = "RECONCILED"
        /\ receiptEvents[po] = q.events
    BY <2>1, <2>2, FreshCommit
  <2>4. SoundRequest(q) /\ q.phase = "writing" /\ q \in OrderRequest
    BY <2>1, <2>2 DEF Commit, AccountingInvariant, SoundRequests, TypeOK
  <2>5. /\ Settled(receiptEvents[po])
        /\ \A i \in Items : Accounted(purchaseOrders[po].items[i])
                             = purchaseOrders[po].items[i].orderedQuantity
    BY <2>3, <2>4 DEF SoundRequest
  <2>6. \A item \in Item : Accounted(item) = item.orderedQuantity => Outstanding(item) = 0
    BY DEF Outstanding, NonNegative, Item
  <2>7. \A i \in Items : purchaseOrders[po].items[i] \in Item
    BY <2>1 DEF TypeOK, Document
  <2>8. QED
    BY <2>5, <2>6, <2>7 DEF Settled
<1>2. QED
  BY <1>1, AccountingHolds, PTL DEF ReconciledOnlyWhenSettled, Spec

-----------------------------------------------------------------------------
(***************************************************************************)
(* Receipts add up.  The stock movements, the payables and the receipt log *)
(* of an order change together, in the commit of a receipt; what must be   *)
(* shown is that no request on a receipt event changes the lines of the    *)
(* event (LinesKept), and how a sum over the log moves when one event is   *)
(* appended.                                                               *)
(***************************************************************************)

\* What the receipt log says of one count of one line.
EventTotal(events, i, c) == SumOver(DOMAIN events, LAMBDA n : events[n].lines[i][c])

\* A request on a receipt event holds the event's lines as they are stored.
LinesKept ==
  \A r \in EventRequests : eventRequests[r] # Idle =>
    LET q == eventRequests[r]
    IN  /\ q.index \in DOMAIN receiptEvents[q.po]
        /\ q.loaded.lines = receiptEvents[q.po][q.index].lines
        /\ q.saved.lines = receiptEvents[q.po][q.index].lines

PostingsInvariant == TypeOK /\ LinesKept /\ PostingsAgree

\* The counts of an event are counts.
LEMMA EventCounts ==
  ASSUME NEW events \in Seq(ReceiptEvent), NEW i \in Items, NEW c \in Counts
  PROVE  \A n \in DOMAIN events : events[n].lines[i][c] \in Nat
<1> SUFFICES ASSUME NEW n \in DOMAIN events PROVE events[n].lines[i][c] \in Nat
  OBVIOUS
<1>1. events[n] \in ReceiptEvent
  OBVIOUS
<1>2. events[n].lines[i] \in ReceiptLine
  BY <1>1 DEF ReceiptEvent
<1>3. QED
  BY <1>2 DEF ReceiptLine, Counts

\* What a receipt log adds up to is a count.
LEMMA EventTotalType ==
  ASSUME NEW events \in Seq(ReceiptEvent), NEW i \in Items, NEW c \in Counts
  PROVE  EventTotal(events, i, c) \in Nat
<1> DEFINE F == [n \in DOMAIN events |-> events[n].lines[i][c]]
<1>1. IsFiniteSet(DOMAIN events)
  BY FS_Interval
<1>2. \A n \in DOMAIN events : F[n] \in Nat
  BY EventCounts
<1> HIDE DEF F
<1>3. SumFunctionOnSet(F, DOMAIN events) \in Nat
  BY <1>1, <1>2, SumNat
<1>4. QED
  BY <1>3 DEF EventTotal, SumOver, F

\* It depends on the lines of the events only.
LEMMA EventTotalSame ==
  ASSUME NEW events \in Seq(ReceiptEvent), NEW edited \in Seq(ReceiptEvent),
         DOMAIN edited = DOMAIN events,
         \A n \in DOMAIN events : edited[n].lines = events[n].lines,
         NEW i \in Items, NEW c \in Counts
  PROVE  EventTotal(edited, i, c) = EventTotal(events, i, c)
<1>1. [n \in DOMAIN edited |-> edited[n].lines[i][c]]
        = [n \in DOMAIN events |-> events[n].lines[i][c]]
  OBVIOUS
<1>2. QED
  BY <1>1 DEF EventTotal, SumOver

\* One event more adds what its line says.
LEMMA EventTotalAppend ==
  ASSUME NEW events \in Seq(ReceiptEvent), NEW event \in ReceiptEvent,
         NEW i \in Items, NEW c \in Counts
  PROVE  EventTotal(Append(events, event), i, c)
           = EventTotal(events, i, c) + event.lines[i][c]
<1> DEFINE longer == Append(events, event)
           n == Len(events)
           F == [m \in DOMAIN events |-> events[m].lines[i][c]]
           G == [m \in DOMAIN longer |-> longer[m].lines[i][c]]
<1>1. /\ n \in Nat /\ DOMAIN events = 1..n /\ DOMAIN longer = 1..(n + 1)
      /\ longer[n + 1] = event
      /\ \A m \in 1..n : longer[m] = events[m]
      /\ longer \in Seq(ReceiptEvent)
  OBVIOUS
<1> HIDE DEF longer, n
<1>2. \A m \in 1..n : F[m] \in Int /\ G[m] = F[m]
  BY <1>1, EventCounts
<1>3. G[n + 1] = event.lines[i][c] /\ G[n + 1] \in Int
  BY <1>1, EventCounts
<1> HIDE DEF F, G
<1>4. SumFunctionOnSet(G, 1..(n + 1)) = SumFunctionOnSet(F, 1..n) + G[n + 1]
  BY <1>1, <1>2, <1>3, SumAppend
<1>5. /\ EventTotal(longer, i, c) = SumFunctionOnSet(G, 1..(n + 1))
      /\ EventTotal(events, i, c) = SumFunctionOnSet(F, 1..n)
  BY <1>1 DEF EventTotal, SumOver, F, G
<1>6. QED
  BY <1>3, <1>4, <1>5 DEF longer

-----------------------------------------------------------------------------
(* How a step changes the log of an order.                                 *)

\* The log says the same of every line, and nothing is posted.
KeepsLog(po) ==
  /\ DOMAIN receiptEvents'[po] = DOMAIN receiptEvents[po]
  /\ \A n \in DOMAIN receiptEvents[po] :
       receiptEvents'[po][n].lines = receiptEvents[po][n].lines
  /\ movements'[po] = movements[po]
  /\ payables'[po] = payables[po]

\* Or one receipt is recorded.
RecordsReceipt(po, lines) ==
  /\ lines \in [Items -> ReceiptLine]
  /\ receiptEvents'[po] = Append(receiptEvents[po], NewEvent(lines))
  /\ movements'[po] = [i \in Items |-> movements[po][i] + lines[i].receivedQuantity]
  /\ payables'[po] = payables[po] + ReceivedValue(lines)

\* The commit of an order request records one receipt of its order, or none.
LEMMA CommitLog ==
  ASSUME TypeOK, NEW r \in OrderRequests, Commit(r), NEW po \in PurchaseOrderIds
  PROVE  IF orderRequests[r].receipt /\ po = orderRequests[r].po
         THEN RecordsReceipt(po, orderRequests[r].lines)
         ELSE KeepsLog(po)
<1> DEFINE q == orderRequests[r]
<1>1. q \in OrderRequest
  BY DEF Commit, TypeOK
<1>2. CASE q.receipt
  <2>1. RecordReceipt(q)
    BY <1>2 DEF Commit
  <2>2. q.lines \in [Items -> ReceiptLine] /\ q.po \in PurchaseOrderIds
    BY <1>1 DEF OrderRequest
  <2> HIDE DEF q
  <2>3. po = q.po => RecordsReceipt(po, q.lines)
    BY <2>1, <2>2 DEF RecordReceipt, RecordsReceipt, TypeOK
  <2>4. po # q.po => KeepsLog(po)
    BY <2>1, <2>2 DEF RecordReceipt, KeepsLog, TypeOK
  <2>5. QED
    BY <1>2, <2>3, <2>4 DEF q
<1>3. CASE ~q.receipt
  <2>1. UNCHANGED <<receiptEvents, movements, payables>>
    BY <1>3 DEF Commit
  <2>2. QED
    BY <1>3, <2>1 DEF KeepsLog
<1>4. QED
  BY <1>2, <1>3

\* Saving an edited event leaves the lines of every event as they were.
LEMMA SaveEventLog ==
  ASSUME TypeOK, LinesKept, NEW r \in EventRequests, SaveEvent(r),
         NEW po \in PurchaseOrderIds
  PROVE  KeepsLog(po)
<1> DEFINE q == eventRequests[r]
<1>1. q # Idle /\ q \in EventRequest /\ q.po \in PurchaseOrderIds
  BY DEF SaveEvent, TypeOK, EventRequest
<1>2. PICK selected \in {q.loaded, receiptEvents[q.po][q.index]} :
        receiptEvents' = [receiptEvents EXCEPT ![q.po][q.index] =
                            SavedRecord(q.saved, selected, @)]
  BY DEF SaveEvent
<1>3. /\ q.index \in DOMAIN receiptEvents[q.po]
      /\ q.loaded.lines = receiptEvents[q.po][q.index].lines
      /\ q.saved.lines = receiptEvents[q.po][q.index].lines
  BY <1>1 DEF LinesKept
<1>4. q.saved \in ReceiptEvent
  BY <1>1 DEF EventRequest
<1> DEFINE stored == receiptEvents[q.po][q.index]
           new == SavedRecord(q.saved, selected, stored)
<1>5. new.lines = stored.lines
  <2>1. "lines" \in DOMAIN q.saved
    BY <1>4 DEF ReceiptEvent
  <2>2. new.lines = Column(q.saved.lines, selected.lines, stored.lines)
    BY <2>1 DEF SavedRecord
  <2>3. QED
    BY <1>3, <2>2 DEF Column
<1>6. UNCHANGED <<movements, payables>>
  BY DEF SaveEvent
<1> HIDE DEF new
<1>7. receiptEvents' = [receiptEvents EXCEPT ![q.po] =
                          [receiptEvents[q.po] EXCEPT ![q.index] = new]]
  BY <1>1, <1>2, <1>3 DEF TypeOK, new
<1> HIDE DEF q
<1>8. po # q.po => receiptEvents'[po] = receiptEvents[po]
  BY <1>7 DEF TypeOK
<1>9. po = q.po => /\ DOMAIN receiptEvents'[po] = DOMAIN receiptEvents[po]
                   /\ \A n \in DOMAIN receiptEvents[po] :
                        receiptEvents'[po][n].lines = receiptEvents[po][n].lines
  <2>1. receiptEvents'[q.po] = [receiptEvents[q.po] EXCEPT ![q.index] = new]
    BY <1>1, <1>7 DEF TypeOK
  <2>2. QED
    BY <1>3, <1>5, <2>1
<1>10. QED
  BY <1>6, <1>8, <1>9 DEF KeepsLog

\* Every other step leaves log and postings alone.
LEMMA LogStep ==
  ASSUME TypeOK, LinesKept, [Next]_vars, NEW po \in PurchaseOrderIds
  PROVE  KeepsLog(po) \/ \E lines \in [Items -> ReceiptLine] : RecordsReceipt(po, lines)
<1>1. ASSUME UNCHANGED <<receiptEvents, movements, payables>>
      PROVE  KeepsLog(po)
  BY <1>1 DEF KeepsLog
<1>2. CASE \E o \in PurchaseOrderIds : Create(o)
  BY <1>1, <1>2 DEF Create
<1>3. ASSUME NEW r \in OrderRequests, OrderRequestStep(r), ~Commit(r)
      PROVE  UNCHANGED <<receiptEvents, movements, payables>>
  BY <1>3 DEF OrderRequestStep, LoadForStatus, LoadForReceipt, LoadForReceived,
    Begin, CheckEvents, SelectOrder, LockOrder, Abandon, orderTables
<1>4. ASSUME NEW r \in OrderRequests, Commit(r)
      PROVE  KeepsLog(po) \/ \E lines \in [Items -> ReceiptLine] : RecordsReceipt(po, lines)
  BY <1>4, CommitLog DEF RecordsReceipt
<1>5. ASSUME NEW r \in EventRequests, EventRequestStep(r), ~SaveEvent(r)
      PROVE  UNCHANGED <<receiptEvents, movements, payables>>
  BY <1>5 DEF EventRequestStep, AcknowledgeReceiptEvent, ResolveReceiptEventDiscrepancy,
    ApproveReceiptEventDiscrepancy, ForceCloseReceiptEventDiscrepancy, EditEvent,
    orderTables
<1>6. CASE UNCHANGED vars
  BY <1>1, <1>6 DEF vars, orderTables
<1>7. QED
  BY <1>1, <1>2, <1>3, <1>4, <1>5, <1>6, SaveEventLog DEF Next

\* Requests on receipt events hold the lines of the events.
LEMMA NextLinesKept ==
  ASSUME TypeOK, LinesKept, [Next]_vars
  PROVE  LinesKept'
<1>0. TypeOK'
  BY NextTypeOK
<1>1. ASSUME NEW r \in EventRequests, eventRequests'[r] # Idle,
             eventRequests'[r] = eventRequests[r]
      PROVE  LET q == eventRequests'[r]
             IN  /\ q.index \in DOMAIN receiptEvents'[q.po]
                 /\ q.loaded.lines = receiptEvents'[q.po][q.index].lines
                 /\ q.saved.lines = receiptEvents'[q.po][q.index].lines
  <2> DEFINE q == eventRequests[r]
  <2>1. /\ q.po \in PurchaseOrderIds
        /\ q.index \in DOMAIN receiptEvents[q.po]
        /\ q.loaded.lines = receiptEvents[q.po][q.index].lines
        /\ q.saved.lines = receiptEvents[q.po][q.index].lines
    BY <1>1 DEF LinesKept, TypeOK, EventRequest
  <2> HIDE DEF q
  <2>2. /\ q.index \in DOMAIN receiptEvents'[q.po]
        /\ receiptEvents'[q.po][q.index].lines = receiptEvents[q.po][q.index].lines
    <3>1. CASE KeepsLog(q.po)
      BY <2>1, <3>1 DEF KeepsLog
    <3>2. ASSUME NEW lines \in [Items -> ReceiptLine], RecordsReceipt(q.po, lines)
          PROVE  /\ q.index \in DOMAIN receiptEvents'[q.po]
                 /\ receiptEvents'[q.po][q.index] = receiptEvents[q.po][q.index]
      <4> DEFINE events == receiptEvents[q.po]
                 event == NewEvent(lines)
      <4>1. events \in Seq(ReceiptEvent)
        BY <2>1 DEF TypeOK
      <4>2. receiptEvents'[q.po] = Append(events, event)
        BY <3>2 DEF RecordsReceipt
      <4> HIDE DEF events, event
      <4>3. /\ DOMAIN Append(events, event) = 1..(Len(events) + 1)
            /\ \A m \in 1..Len(events) : Append(events, event)[m] = events[m]
            /\ DOMAIN events = 1..Len(events) /\ Len(events) \in Nat
        BY <4>1
      <4>4. q.index \in 1..Len(events)
        BY <2>1, <4>3 DEF events
      <4>5. QED
        BY <4>2, <4>3, <4>4 DEF events
    <3>3. QED
      BY <2>1, <3>1, <3>2, LogStep
  <2>3. QED
    BY <1>1, <2>1, <2>2 DEF q
<1>2. ASSUME NEW r \in EventRequests, NEW po \in PurchaseOrderIds,
             NEW n \in DOMAIN receiptEvents[po], NEW edited,
             edited.lines = receiptEvents[po][n].lines,
             EditEvent(r, po, n, edited)
      PROVE  LinesKept'
  <2> DEFINE request == [po |-> po, index |-> n, loaded |-> receiptEvents[po][n],
                         saved |-> edited]
  <2>1. /\ eventRequests' = [eventRequests EXCEPT ![r] = request]
        /\ receiptEvents' = receiptEvents
    BY <1>2 DEF EditEvent, orderTables
  <2>2. /\ request.po = po /\ request.index = n
        /\ request.loaded.lines = receiptEvents[po][n].lines
        /\ request.saved.lines = receiptEvents[po][n].lines
    BY <1>2
  <2> HIDE DEF request
  <2>3. eventRequests'[r] = request
        /\ \A s \in EventRequests \ {r} : eventRequests'[s] = eventRequests[s]
    BY <2>1 DEF TypeOK
  <2>4. QED
    BY <1>1, <2>1, <2>2, <2>3 DEF LinesKept
<1>3. ASSUME NEW r \in EventRequests, NEW po \in PurchaseOrderIds,
             NEW n \in DOMAIN receiptEvents[po],
             \/ AcknowledgeReceiptEvent(r, po, n)
             \/ ResolveReceiptEventDiscrepancy(r, po, n)
             \/ \E role \in Roles :
                  \/ ApproveReceiptEventDiscrepancy(r, po, n, role)
                  \/ ForceCloseReceiptEventDiscrepancy(r, po, n, role)
      PROVE  LinesKept'
  <2> DEFINE event == receiptEvents[po][n]
  <2>1. event \in ReceiptEvent
    BY DEF TypeOK
  <2>2. /\ [event EXCEPT !.acknowledged = TRUE].lines = event.lines
        /\ [event EXCEPT !.discrepancyStatus = "RESOLVED"].lines = event.lines
        /\ [event EXCEPT !.discrepancyStatus = "APPROVED"].lines = event.lines
    BY <2>1 DEF ReceiptEvent
  <2>3. QED
    BY <1>2, <1>3, <2>2 DEF AcknowledgeReceiptEvent, ResolveReceiptEventDiscrepancy,
      ApproveReceiptEventDiscrepancy, ForceCloseReceiptEventDiscrepancy
<1>4. ASSUME NEW r \in EventRequests, SaveEvent(r)
      PROVE  LinesKept'
  <2>1. eventRequests' = [eventRequests EXCEPT ![r] = Idle]
    BY <1>4 DEF SaveEvent
  <2>2. \A s \in EventRequests :
          eventRequests'[s] # Idle => eventRequests'[s] = eventRequests[s]
    BY <2>1 DEF TypeOK
  <2>3. QED
    BY <1>1, <2>2 DEF LinesKept
<1>5. ASSUME eventRequests' = eventRequests
      PROVE  LinesKept'
  BY <1>1, <1>5 DEF LinesKept
<1>6. CASE \E o \in PurchaseOrderIds : Create(o)
  BY <1>5, <1>6 DEF Create
<1>7. ASSUME NEW r \in OrderRequests, OrderRequestStep(r)
      PROVE  LinesKept'
  <2>1. CASE Commit(r)
    BY <1>5, <2>1 DEF Commit
  <2>2. CASE ~Commit(r)
    <3>1. eventRequests' = eventRequests
      BY <1>7, <2>2 DEF OrderRequestStep, LoadForStatus, LoadForReceipt, LoadForReceived,
        Begin, CheckEvents, SelectOrder, LockOrder, Abandon
    <3>2. QED
      BY <1>5, <3>1
  <2>3. QED
    BY <2>1, <2>2
<1>8. CASE UNCHANGED vars
  BY <1>5, <1>8 DEF vars
<1>9. ASSUME NEW r \in EventRequests, EventRequestStep(r), ~SaveEvent(r)
      PROVE  \E po \in PurchaseOrderIds : \E n \in DOMAIN receiptEvents[po] :
                \/ AcknowledgeReceiptEvent(r, po, n)
                \/ ResolveReceiptEventDiscrepancy(r, po, n)
                \/ \E role \in Roles :
                     \/ ApproveReceiptEventDiscrepancy(r, po, n, role)
                     \/ ForceCloseReceiptEventDiscrepancy(r, po, n, role)
  BY <1>9 DEF EventRequestStep
<1>10. QED
  BY <1>3, <1>4, <1>6, <1>7, <1>8, <1>9 DEF Next

-----------------------------------------------------------------------------
(* Stock, payables and receipt log agree.                                  *)

\* What the units of the lines of an order are worth.
Worth(counts) == SumOver(Items, LAMBDA i : UnitPrice[i] * counts[i])

\* What a receipt is worth, added to what was received before.
LEMMA ReceivedValueAdds ==
  ASSUME NEW before \in [Items -> Nat], NEW lines \in [Items -> ReceiptLine]
  PROVE  Worth([i \in Items |-> before[i] + lines[i].receivedQuantity])
           = Worth(before) + ReceivedValue(lines)
<1> DEFINE F == [i \in Items |-> UnitPrice[i] * before[i]]
           G == [i \in Items |-> UnitPrice[i] * lines[i].receivedQuantity]
           after == [i \in Items |-> before[i] + lines[i].receivedQuantity]
           H == [i \in Items |-> UnitPrice[i] * after[i]]
<1>1. ASSUME NEW i \in Items
      PROVE  F[i] \in Int /\ G[i] \in Int /\ H[i] = F[i] + G[i]
  <2>1. \A a, b, c \in Nat : a * b \in Nat /\ a * (b + c) = a * b + a * c
    OBVIOUS
  <2>2. UnitPrice[i] \in Nat /\ before[i] \in Nat /\ lines[i].receivedQuantity \in Nat
    BY ConstantsAssumption DEF ReceiptLine
  <2>3. QED
    BY <2>1, <2>2
<1> HIDE DEF F, G, H
<1>2. SumFunctionOnSet(H, Items) = SumFunctionOnSet(F, Items) + SumFunctionOnSet(G, Items)
  BY <1>1, SumPlus, ConstantsAssumption
<1>3. QED
  BY <1>2 DEF Worth, ReceivedValue, SumOver, F, G, H

\* A step keeps the postings of an order in agreement with its log.
LEMMA PostingsStep ==
  ASSUME PostingsInvariant, [Next]_vars, NEW po \in PurchaseOrderIds
  PROVE  /\ payables'[po] = Worth(movements'[po])
         /\ \A i \in Items :
              movements'[po][i] = EventTotal(receiptEvents'[po], i, "receivedQuantity")
<1>1. /\ TypeOK /\ TypeOK' /\ LinesKept
      /\ payables[po] = Worth(movements[po])
      /\ \A i \in Items :
           movements[po][i] = EventTotal(receiptEvents[po], i, "receivedQuantity")
  BY NextTypeOK DEF PostingsInvariant, PostingsAgree, EventTotal, Worth
<1>2. /\ receiptEvents[po] \in Seq(ReceiptEvent) /\ receiptEvents'[po] \in Seq(ReceiptEvent)
      /\ movements[po] \in [Items -> Nat]
      /\ "receivedQuantity" \in Counts
  BY <1>1 DEF TypeOK, Counts
<1>3. CASE KeepsLog(po)
  <2>1. \A i \in Items : EventTotal(receiptEvents'[po], i, "receivedQuantity")
                           = EventTotal(receiptEvents[po], i, "receivedQuantity")
    BY <1>2, <1>3, EventTotalSame DEF KeepsLog
  <2>2. movements'[po] = movements[po] /\ payables'[po] = payables[po]
    BY <1>3 DEF KeepsLog
  <2>3. QED
    BY <1>1, <2>1, <2>2
<1>4. ASSUME NEW lines \in [Items -> ReceiptLine], RecordsReceipt(po, lines)
      PROVE  /\ payables'[po] = Worth(movements'[po])
             /\ \A i \in Items :
                  movements'[po][i] = EventTotal(receiptEvents'[po], i, "receivedQuantity")
  <2>1. /\ receiptEvents'[po] = Append(receiptEvents[po], NewEvent(lines))
        /\ payables'[po] = payables[po] + ReceivedValue(lines)
        /\ movements'[po] = [i \in Items |-> movements[po][i] + lines[i].receivedQuantity]
    BY <1>4 DEF RecordsReceipt
  <2>2. NewEvent(lines) \in ReceiptEvent /\ NewEvent(lines).lines = lines
    BY DEF NewEvent, ReceiptEvent
  <2>3. \A i \in Items :
          EventTotal(receiptEvents'[po], i, "receivedQuantity")
            = EventTotal(receiptEvents[po], i, "receivedQuantity")
                + lines[i].receivedQuantity
    BY <1>2, <2>1, <2>2, EventTotalAppend
  <2>4. movements[po] \in [Items -> Nat]
    BY <1>2
  <2>5. Worth([i \in Items |-> movements[po][i] + lines[i].receivedQuantity])
          = Worth(movements[po]) + ReceivedValue(lines)
    BY <2>4, ReceivedValueAdds
  <2>6. Worth(movements'[po]) = Worth(movements[po]) + ReceivedValue(lines)
    BY <2>1, <2>5
  <2>7. payables'[po] = Worth(movements'[po])
    BY <1>1, <2>1, <2>6
  <2>8. QED
    BY <1>1, <2>1, <2>3, <2>7
<1>5. QED
  BY <1>1, <1>3, <1>4, LogStep

\* No order has a log before it is created.
LEMMA InitPostings == Init => PostingsInvariant
<1> SUFFICES ASSUME Init PROVE PostingsInvariant
  OBVIOUS
<1>1. LinesKept
  BY DEF Init, LinesKept
<1>2. ASSUME NEW po \in PurchaseOrderIds
      PROVE  /\ payables[po] = SumOver(Items, LAMBDA i : UnitPrice[i] * movements[po][i])
             /\ \A i \in Items :
                  movements[po][i] = SumOver(DOMAIN receiptEvents[po], LAMBDA n :
                                       receiptEvents[po][n].lines[i].receivedQuantity)
  <2>1. payables[po] = 0 /\ movements[po] = [i \in Items |-> 0]
        /\ receiptEvents[po] = <<>>
    BY DEF Init
  <2>2. DOMAIN receiptEvents[po] = {}
    BY <2>1
  <2> DEFINE F == [i \in Items |-> UnitPrice[i] * movements[po][i]]
  <2>3. \A i \in Items : F[i] = 0
    BY <2>1, ConstantsAssumption
  <2> HIDE DEF F
  <2>4. SumFunctionOnSet(F, Items) = 0
    BY <2>3, SumZero, ConstantsAssumption
  <2>5. payables[po] = SumOver(Items, LAMBDA i : UnitPrice[i] * movements[po][i])
    BY <2>1, <2>4 DEF SumOver, F
  <2>6. \A i \in Items : SumOver(DOMAIN receiptEvents[po], LAMBDA n :
                           receiptEvents[po][n].lines[i].receivedQuantity) = 0
    BY <2>2, SumEmpty DEF SumOver
  <2>7. QED
    BY <2>1, <2>5, <2>6
<1>3. QED
  BY <1>1, <1>2, InitTypeOK DEF PostingsInvariant, PostingsAgree

\* Every step keeps the agreement.
LEMMA NextPostings == PostingsInvariant /\ [Next]_vars => PostingsInvariant'
<1> SUFFICES ASSUME PostingsInvariant, [Next]_vars PROVE PostingsInvariant'
  OBVIOUS
<1>1. TypeOK' /\ LinesKept'
  BY NextTypeOK, NextLinesKept DEF PostingsInvariant
<1>2. \A po \in PurchaseOrderIds :
        /\ payables'[po] = Worth(movements'[po])
        /\ \A i \in Items :
             movements'[po][i] = EventTotal(receiptEvents'[po], i, "receivedQuantity")
  BY PostingsStep
<1>3. PostingsAgree'
  BY <1>2 DEF PostingsAgree, EventTotal, Worth, SumOver
<1>4. QED
  BY <1>1, <1>3 DEF PostingsInvariant

\* Postings agree with the log in every state.
LEMMA PostingsHold == Spec => []PostingsInvariant
BY InitPostings, NextPostings, PTL DEF Spec

\* However requests overlap, the stock movements of an order are what its
\* receipt events received, and its payables what those units are worth.
THEOREM ReceiptsArePosted == Spec => []PostingsAgree
<1>1. PostingsInvariant => PostingsAgree
  BY DEF PostingsInvariant
<1>2. QED
  BY <1>1, PostingsHold, PTL

\* The supplier is owed what the order's received units are worth, unless
\* requests on the order overlapped.
THEOREM SuppliersAreOwedReceipts == Spec => []PayablesMatchReceipts
<1>1. PostingsInvariant /\ AccountingInvariant => PayablesMatchReceipts
  <2> SUFFICES ASSUME PostingsInvariant, AccountingInvariant,
                      NEW po \in PurchaseOrderIds, ~staleOrder[po]
               PROVE  payables[po] = SumOver(Items, LAMBDA i :
                        UnitPrice[i] * purchaseOrders[po].items[i].receivedQuantity)
    BY DEF PayablesMatchReceipts
  <2>1. payables[po] = SumOver(Items, LAMBDA i : UnitPrice[i] * movements[po][i])
    BY DEF PostingsInvariant, PostingsAgree
  <2>2. \A i \in Items : purchaseOrders[po].items[i].receivedQuantity = movements[po][i]
    BY DEF AccountingInvariant
  <2>3. [i \in Items |-> UnitPrice[i] * movements[po][i]]
          = [i \in Items |-> UnitPrice[i] * purchaseOrders[po].items[i].receivedQuantity]
    BY <2>2
  <2>4. QED
    BY <2>1, <2>3 DEF SumOver
<1>2. QED
  BY <1>1, PostingsHold, AccountingHolds, PTL

-----------------------------------------------------------------------------
(***************************************************************************)
(* The receipt log explains the order.  Step by step, an order is created, *)
(* is saved by the commit of a request on it, or stays as it is together   *)
(* with its log; a request on another order does not touch either.         *)
(***************************************************************************)

\* An order is stale for good.
LEMMA StaleStays ==
  ASSUME TypeOK, [Next]_vars, NEW po \in PurchaseOrderIds, staleOrder[po]
  PROVE  staleOrder'[po]
<1>1. ASSUME staleOrder' = staleOrder
      PROVE  staleOrder'[po]
  BY <1>1
<1>2. ASSUME NEW o \in PurchaseOrderIds, Create(o)
      PROVE  staleOrder' = staleOrder
  BY <1>2 DEF Create, history
<1>3. ASSUME NEW r \in OrderRequests, OrderRequestStep(r)
      PROVE  staleOrder'[po]
  <2>1. CASE Commit(r)
    BY <2>1 DEF Commit, TypeOK
  <2>2. CASE ~Commit(r)
    <3>1. staleOrder' = staleOrder
      BY <1>3, <2>2 DEF OrderRequestStep, LoadForStatus, LoadForReceipt, LoadForReceived,
        Begin, CheckEvents, SelectOrder, LockOrder, Abandon, history
    <3>2. QED
      BY <1>1, <3>1
  <2>3. QED
    BY <2>1, <2>2
<1>4. ASSUME NEW r \in EventRequests, EventRequestStep(r)
      PROVE  staleOrder'[po]
  <2>1. CASE SaveEvent(r)
    BY <2>1 DEF SaveEvent, TypeOK
  <2>2. CASE ~SaveEvent(r)
    <3>1. staleOrder' = staleOrder
      BY <1>4, <2>2 DEF EventRequestStep, AcknowledgeReceiptEvent,
        ResolveReceiptEventDiscrepancy, ApproveReceiptEventDiscrepancy,
        ForceCloseReceiptEventDiscrepancy, EditEvent, history
    <3>2. QED
      BY <1>1, <3>1
  <2>3. QED
    BY <2>1, <2>2
<1>5. CASE UNCHANGED vars
  BY <1>1, <1>5 DEF vars, history
<1>6. QED
  BY <1>1, <1>2, <1>3, <1>4, <1>5 DEF Next

\* What a step does to one order.
LEMMA OrderStep ==
  ASSUME TypeOK, LinesKept, [Next]_vars, NEW po \in PurchaseOrderIds
  PROVE  \/ purchaseOrders'[po] = purchaseOrders[po] /\ KeepsLog(po)
         \/ Create(po) /\ KeepsLog(po)
         \/ \E r \in OrderRequests : Commit(r) /\ orderRequests[r].po = po
<1>1. ASSUME purchaseOrders' = purchaseOrders,
             receiptEvents' = receiptEvents, movements' = movements, payables' = payables
      PROVE  purchaseOrders'[po] = purchaseOrders[po] /\ KeepsLog(po)
  BY <1>1 DEF KeepsLog
<1>2. ASSUME NEW o \in PurchaseOrderIds, Create(o)
      PROVE  /\ KeepsLog(po)
             /\ o = po \/ purchaseOrders'[po] = purchaseOrders[po]
  BY <1>2 DEF Create, KeepsLog, TypeOK
<1>3. ASSUME NEW r \in OrderRequests, OrderRequestStep(r)
      PROVE  \/ purchaseOrders'[po] = purchaseOrders[po] /\ KeepsLog(po)
             \/ Commit(r) /\ orderRequests[r].po = po
  <2>1. CASE Commit(r) /\ orderRequests[r].po # po
    <3>1. KeepsLog(po)
      BY <2>1, CommitLog
    <3>2. purchaseOrders'[po] = purchaseOrders[po]
      BY <2>1 DEF Commit, TypeOK
    <3>3. QED
      BY <3>1, <3>2
  <2>2. CASE ~Commit(r)
    <3>1. /\ purchaseOrders' = purchaseOrders
          /\ receiptEvents' = receiptEvents /\ movements' = movements
          /\ payables' = payables
      BY <1>3, <2>2 DEF OrderRequestStep, LoadForStatus, LoadForReceipt, LoadForReceived,
        Begin, CheckEvents, SelectOrder, LockOrder, Abandon, orderTables
    <3>2. QED
      BY <1>1, <3>1
  <2>3. QED
    BY <2>1, <2>2
<1>4. ASSUME NEW r \in EventRequests, EventRequestStep(r)
      PROVE  purchaseOrders'[po] = purchaseOrders[po] /\ KeepsLog(po)
  <2>1. CASE SaveEvent(r)
    <3>1. purchaseOrders' = purchaseOrders
      BY <2>1 DEF SaveEvent
    <3>2. QED
      BY <2>1, <3>1, SaveEventLog
  <2>2. CASE ~SaveEvent(r)
    <3>1. UNCHANGED orderTables
      BY <1>4, <2>2 DEF EventRequestStep, AcknowledgeReceiptEvent,
        ResolveReceiptEventDiscrepancy, ApproveReceiptEventDiscrepancy,
        ForceCloseReceiptEventDiscrepancy, EditEvent
    <3>2. QED
      BY <1>1, <3>1 DEF orderTables
  <2>3. QED
    BY <2>1, <2>2
<1>5. CASE UNCHANGED vars
  BY <1>1, <1>5 DEF vars, orderTables
<1>6. QED
  BY <1>2, <1>3, <1>4, <1>5 DEF Next

\* The lines of the order are what its log adds up to.
Explained(po) ==
  \A i \in Items, c \in Counts :
    purchaseOrders[po].items[i][c] = EventTotal(receiptEvents[po], i, c)

EventsInvariant ==
  /\ AccountingInvariant
  /\ LinesKept
  /\ \A po \in PurchaseOrderIds : ~staleOrder[po] => Explained(po)

\* A log that says the same still explains an order that counts the same.
LEMMA ExplainedStays ==
  ASSUME TypeOK, TypeOK', NEW po \in PurchaseOrderIds, Explained(po), KeepsLog(po),
         \A i \in Items, c \in Counts :
           purchaseOrders'[po].items[i][c] = purchaseOrders[po].items[i][c]
  PROVE  Explained(po)'
<1>1. /\ receiptEvents[po] \in Seq(ReceiptEvent)
      /\ receiptEvents'[po] \in Seq(ReceiptEvent)
  BY DEF TypeOK
<1>2. \A i \in Items, c \in Counts :
        EventTotal(receiptEvents'[po], i, c) = EventTotal(receiptEvents[po], i, c)
  BY <1>1, EventTotalSame DEF KeepsLog
<1>3. QED
  BY <1>2 DEF Explained

\* A commit that is not stale adds to log and order alike.
LEMMA CommitExplained ==
  ASSUME EventsInvariant, NEW r \in OrderRequests, Commit(r),
         NEW po \in PurchaseOrderIds, po = orderRequests[r].po, ~staleOrder'[po]
  PROVE  Explained(po)'
<1> DEFINE q == orderRequests[r]
<1>1. /\ TypeOK /\ TypeOK'
      /\ q \in OrderRequest
      /\ SoundRequest(q)
  <2>1. TypeOK /\ TypeOK'
    BY CommitTypeOK DEF EventsInvariant, AccountingInvariant
  <2>2. q \in OrderRequest /\ SoundRequest(q)
    BY <2>1 DEF Commit, EventsInvariant, AccountingInvariant, SoundRequests, TypeOK
  <2>3. QED
    BY <2>1, <2>2
<1>2. /\ ~staleOrder[po]
      /\ purchaseOrders[po] = q.loaded
      /\ purchaseOrders'[po].items = q.saved.items
  BY <1>1, FreshCommit
<1>3. Early(q.loaded) /\ Within(q.loaded) /\ Explained(po)
  BY <1>2 DEF EventsInvariant, AccountingInvariant
<1>4. \A i \in Items, c \in Counts :
        purchaseOrders'[po].items[i][c]
          = purchaseOrders[po].items[i][c] + (IF q.receipt THEN q.lines[i][c] ELSE 0)
  BY <1>1, <1>2, <1>3 DEF SoundRequest
<1>5. CASE q.receipt
  <2>1. RecordsReceipt(po, q.lines)
    BY <1>1, <1>5, CommitLog
  <2>2. /\ receiptEvents[po] \in Seq(ReceiptEvent)
        /\ receiptEvents'[po] = Append(receiptEvents[po], NewEvent(q.lines))
        /\ q.lines \in [Items -> ReceiptLine]
    BY <1>1, <2>1 DEF RecordsReceipt, TypeOK
  <2> HIDE DEF q
  <2>3. NewEvent(q.lines) \in ReceiptEvent /\ NewEvent(q.lines).lines = q.lines
    BY <2>2 DEF NewEvent, ReceiptEvent
  <2>4. \A i \in Items, c \in Counts :
          EventTotal(receiptEvents'[po], i, c)
            = EventTotal(receiptEvents[po], i, c) + q.lines[i][c]
    BY <2>2, <2>3, EventTotalAppend
  <2>5. QED
    BY <1>3, <1>4, <1>5, <2>4 DEF Explained
<1>6. CASE ~q.receipt
  <2>1. KeepsLog(po)
    BY <1>1, <1>6, CommitLog
  <2>2. \A i \in Items, c \in Counts : purchaseOrders[po].items[i][c] \in Nat
    BY <1>1 DEF TypeOK, Document, Item, Counts
  <2>3. \A i \in Items, c \in Counts :
          purchaseOrders'[po].items[i][c] = purchaseOrders[po].items[i][c]
    BY <1>4, <1>6, <2>2
  <2>4. QED
    BY <1>1, <1>3, <2>1, <2>3, ExplainedStays
<1>7. QED
  BY <1>5, <1>6

\* A new order starts where an order that does not exist yet ended: at nothing.
LEMMA CreateCountsNothing ==
  ASSUME TypeOK, NEW po \in PurchaseOrderIds, Create(po), Early(purchaseOrders[po])
  PROVE  \A i \in Items, c \in Counts :
           purchaseOrders'[po].items[i][c] = purchaseOrders[po].items[i][c]
<1>1. PICK ordered \in [Items -> Quantities \ {0}] :
        purchaseOrders' = [purchaseOrders EXCEPT ![po] = NewDocument("DRAFT", ordered)]
  BY DEF Create
<1>2. purchaseOrders'[po] = NewDocument("DRAFT", ordered)
  BY <1>1 DEF TypeOK
<1>3. \A i \in Items : purchaseOrders'[po].items[i] = OrderedItem(ordered[i])
  BY <1>2 DEF NewDocument
<1>4. ASSUME NEW i \in Items, NEW c \in Counts
      PROVE  purchaseOrders[po].items[i][c] = 0
  <2>1. Accounted(purchaseOrders[po].items[i]) = 0
    BY DEF Create, Early
  <2>2. PICK item \in Item : item = purchaseOrders[po].items[i]
    BY DEF TypeOK, Document
  <2>3. Accounted(item) = 0
    BY <2>1, <2>2
  <2>4. /\ item.receivedQuantity = 0 /\ item.shortageQuantity = 0
        /\ item.damagedQuantity = 0
    BY <2>3 DEF Accounted, Item
  <2>5. item[c] = 0
    BY <2>4 DEF Counts
  <2>6. QED
    BY <2>2, <2>5
<1>5. \A i \in Items, c \in Counts : OrderedItem(ordered[i])[c] = 0
  BY DEF OrderedItem, Counts
<1>6. QED
  BY <1>3, <1>4, <1>5

\* Every step keeps the orders explained.
LEMMA NextEvents == EventsInvariant /\ [Next]_vars => EventsInvariant'
<1> SUFFICES ASSUME EventsInvariant, [Next]_vars PROVE EventsInvariant'
  OBVIOUS
<1>1. /\ TypeOK /\ TypeOK' /\ LinesKept /\ LinesKept'
      /\ AccountingInvariant /\ AccountingInvariant'
  BY NextTypeOK, NextLinesKept, NextAccounting DEF EventsInvariant, AccountingInvariant
<1>2. ASSUME NEW po \in PurchaseOrderIds, ~staleOrder'[po]
      PROVE  Explained(po)'
  <2>1. ~staleOrder[po] /\ Explained(po) /\ Early(purchaseOrders[po])
    BY <1>1, <1>2, StaleStays DEF EventsInvariant, AccountingInvariant
  <2>2. CASE purchaseOrders'[po] = purchaseOrders[po] /\ KeepsLog(po)
    BY <1>1, <2>1, <2>2, ExplainedStays
  <2>3. CASE Create(po) /\ KeepsLog(po)
    BY <1>1, <2>1, <2>3, CreateCountsNothing, ExplainedStays
  <2>4. CASE \E r \in OrderRequests : Commit(r) /\ orderRequests[r].po = po
    BY <1>2, <2>4, CommitExplained
  <2>5. QED
    BY <1>1, <2>2, <2>3, <2>4, OrderStep
<1>3. QED
  BY <1>1, <1>2 DEF EventsInvariant

\* An order that does not exist has an empty log.
LEMMA InitEvents == Init => EventsInvariant
<1> SUFFICES ASSUME Init PROVE EventsInvariant
  OBVIOUS
<1>1. AccountingInvariant /\ LinesKept
  BY InitAccounting DEF Init, LinesKept
<1>2. ASSUME NEW po \in PurchaseOrderIds, NEW i \in Items, NEW c \in Counts
      PROVE  purchaseOrders[po].items[i][c] = EventTotal(receiptEvents[po], i, c)
  <2>1. DOMAIN receiptEvents[po] = {}
    BY DEF Init
  <2>2. EventTotal(receiptEvents[po], i, c) = 0
    BY <2>1, SumEmpty DEF EventTotal, SumOver
  <2>3. purchaseOrders[po].items[i] = OrderedItem(0)
    BY DEF Init, NoDocument, NewDocument
  <2>4. OrderedItem(0)[c] = 0
    BY DEF OrderedItem, Counts
  <2>5. QED
    BY <2>2, <2>3, <2>4
<1>3. QED
  BY <1>1, <1>2 DEF EventsInvariant, Explained

\* The receipt events of an order add up to the received, short and damaged
\* units of its lines, unless requests on the order overlapped.
THEOREM OrdersAreExplained == Spec => []EventsExplainOrder
<1>1. EventsInvariant => EventsExplainOrder
  <2> SUFFICES ASSUME EventsInvariant, NEW po \in PurchaseOrderIds, ~staleOrder[po],
                      NEW i \in Items, NEW c \in Counts
               PROVE  purchaseOrders[po].items[i][c] = EventTotal(receiptEvents[po], i, c)
    BY DEF EventsExplainOrder, Counts, EventTotal
  <2>1. QED
    BY DEF EventsInvariant, Explained
<1>2. QED
  BY <1>1, InitEvents, NextEvents, PTL DEF Spec

-----------------------------------------------------------------------------
(***************************************************************************)
(* Inbound units.  A branch's column inboundOpenPo is a sum over all its   *)
(* orders that no transaction ever computes: each commit adds the          *)
(* difference its own order makes, to the row as it read it.  It is the    *)
(* sum nevertheless, because the difference is taken between the two       *)
(* versions of the order that the same commit replaces one by the other.   *)
(***************************************************************************)

OrdersOf(b) == {po \in PurchaseOrderIds : BranchOf[po] = b}

\* What an order still has on its way, as InboundMatchesOpenOrders says it.
OpenUnits(doc, p) ==
  IF doc.status \in {"NONE", "DRAFT", "RECONCILED", "CANCELLED"} THEN 0
  ELSE SumOver({i \in Items : ProductOf[i] = p}, LAMBDA i : Outstanding(doc.items[i]))

\* The same for all orders of a branch.
OpenTotal(docs, b, p) == SumOver(OrdersOf(b), LAMBDA po : OpenUnits(docs[po], p))

\* Neither the row nor an order of the branch was saved over an outdated read.
Fresh(b, p) ==
  ~staleRow[<<b, p>>] /\ \A po \in OrdersOf(b) : ~staleOrder[po]

InboundInvariant ==
  /\ TypeOK
  /\ \A b \in Branches, p \in Products : Fresh(b, p) =>
       inventory[<<b, p>>].inboundOpenPo = OpenTotal(purchaseOrders, b, p)

\* A movement leaves the inbound units alone, an adjustment moves them.
LEMMA InboundOfRow ==
  ASSUME NEW row \in Row, NEW delta
  PROVE  /\ RecordMovement(row, delta).inboundOpenPo = row.inboundOpenPo
         /\ AdjustProjectionBucket(row, "inboundOpenPo", delta).inboundOpenPo
              = row.inboundOpenPo + delta
<1>1. /\ [row EXCEPT !.quantityOnHand = @ + delta].inboundOpenPo = row.inboundOpenPo
      /\ [row EXCEPT !["inboundOpenPo"] = @ + delta].inboundOpenPo
           = row.inboundOpenPo + delta
  BY DEF Row
<1>2. DOMAIN row = {"quantityOnHand", "reservedOnline", "inboundOpenPo",
                    "outboundTransfers", "safetyStock", "availableToSell"}
  BY DEF Row
<1>3. /\ \A any : DOMAIN any = DOMAIN row =>
           ApplyAvailabilityProjection(any).inboundOpenPo = any.inboundOpenPo
  BY <1>2 DEF ApplyAvailabilityProjection
<1>4. /\ DOMAIN [row EXCEPT !.quantityOnHand = @ + delta] = DOMAIN row
      /\ DOMAIN [row EXCEPT !["inboundOpenPo"] = @ + delta] = DOMAIN row
  OBVIOUS
<1>5. QED
  BY <1>1, <1>3, <1>4 DEF RecordMovement, AdjustProjectionBucket

\* What is on its way is a count, and what buildInboundOpenPoProjection computes.
LEMMA OpenUnitsType ==
  ASSUME NEW doc \in Document, NEW p \in Products
  PROVE  /\ OpenUnits(doc, p) \in Nat
         /\ InboundOpenPoProjection(doc)[p] = OpenUnits(doc, p)
<1> DEFINE S == {i \in Items : ProductOf[i] = p}
           F == [i \in S |-> Outstanding(doc.items[i])]
<1>1. IsFiniteSet(S)
  BY FS_Subset, ConstantsAssumption
<1>2. \A i \in S : F[i] \in Nat
  BY OutstandingType DEF Document
<1> HIDE DEF F
<1>3. SumFunctionOnSet(F, S) \in Nat
  BY <1>1, <1>2, SumNat
<1>4. SumOver(S, LAMBDA i : Outstanding(doc.items[i])) \in Nat
  BY <1>3 DEF SumOver, F
<1>5. OpenUnits(doc, p) \in Nat
  BY <1>4 DEF OpenUnits
<1>6. InboundOpenPoProjection(doc)[p] = OpenUnits(doc, p)
  BY DEF InboundOpenPoProjection, OpenUnits, Document, Status
<1>7. QED
  BY <1>5, <1>6

\* One order replaced moves the total of its branch by the difference.
LEMMA OpenTotalMoves ==
  ASSUME NEW docs \in [PurchaseOrderIds -> Document],
         NEW new \in [PurchaseOrderIds -> Document],
         NEW po \in PurchaseOrderIds, \A o \in PurchaseOrderIds \ {po} : new[o] = docs[o],
         NEW b, NEW p \in Products
  PROVE  OpenTotal(new, b, p) = OpenTotal(docs, b, p)
           + (IF b = BranchOf[po] THEN OpenUnits(new[po], p) - OpenUnits(docs[po], p)
              ELSE 0)
<1> DEFINE S == OrdersOf(b)
           F == [o \in S |-> OpenUnits(docs[o], p)]
           G == [o \in S |-> OpenUnits(new[o], p)]
<1>1. IsFiniteSet(S) /\ S \subseteq PurchaseOrderIds
  BY FS_Subset, ConstantsAssumption DEF OrdersOf
<1>2. \A o \in S : F[o] \in Nat /\ G[o] \in Nat
  BY <1>1, OpenUnitsType
<1>3. \A o \in S \ {po} : F[o] = G[o]
  BY <1>1
<1>4. po \in S <=> b = BranchOf[po]
  BY DEF OrdersOf
<1>5. po \in S => F[po] = OpenUnits(docs[po], p) /\ G[po] = OpenUnits(new[po], p)
  OBVIOUS
<1> HIDE DEF F, G, S
<1>6. OpenTotal(docs, b, p) = SumFunctionOnSet(F, S)
      /\ OpenTotal(new, b, p) = SumFunctionOnSet(G, S)
  BY DEF OpenTotal, SumOver, F, G, S
<1>7. SumFunctionOnSet(F, S) \in Int
  BY <1>1, <1>2, SumType
<1>8. CASE po \in S
  <2>1. \A o \in S : F[o] \in Int /\ G[o] \in Int
    BY <1>2
  <2>2. SumFunctionOnSet(G, S) = SumFunctionOnSet(F, S) + (G[po] - F[po])
    BY <1>1, <1>3, <1>8, <2>1, SumChange
  <2>3. QED
    BY <1>4, <1>5, <1>6, <1>8, <2>2
<1>9. CASE po \notin S
  <2>1. SumFunctionOnSet(F, S) = SumFunctionOnSet(G, S)
    BY <1>1, <1>3, <1>9, SumSame
  <2>2. QED
    BY <1>4, <1>6, <1>7, <1>9, <2>1
<1>10. QED
  BY <1>8, <1>9

\* The calls of a transaction on a row that it read as it is stored add the
\* order's difference to the inbound units.
LEMMA RowWrittenInbound ==
  ASSUME TypeOK, NEW q \in OrderRequest, NEW k \in Branches \X Products,
         RowAllowed(q, k, inventory), q.rows[k] = inventory[k],
         InboundDelta(q, k[2]) \in Int
  PROVE  RowWritten(q, k, inventory).inboundOpenPo
           = inventory[k].inboundOpenPo + InboundDelta(q, k[2])
<1> DEFINE row == inventory[k]
           delta == InboundDelta(q, k[2])
           arrived == ArrivedUnits(q, k[2])
<1>1. row \in Row
  BY DEF TypeOK, Inventory
<1>2. row.inboundOpenPo \in Nat
  BY <1>1 DEF Row
<1>3. CASE delta # 0
  <2>1. BucketAllowed(row, "inboundOpenPo", delta)
    BY <1>3 DEF RowAllowed
  <2> DEFINE first == AdjustProjectionBucket(row, "inboundOpenPo", delta)
  <2>2. first \in Row /\ first.inboundOpenPo = row.inboundOpenPo + delta
    BY <1>1, <2>1, AdjustBucketType, InboundOfRow DEF Buckets
  <2>3. FirstCall(q, k) = first
    BY <1>3 DEF FirstCall
  <2>4. AfterFirstCall(q, k, inventory) = first
    <3> HIDE DEF first, row
    <3>1. AfterFirstCall(q, k, inventory) = SavedRecord(first, row, row)
      BY <2>3 DEF AfterFirstCall, row
    <3>2. QED
      BY <1>1, <2>2, <3>1, FreshSave
  <2>5. RecordMovement(first, arrived).inboundOpenPo = first.inboundOpenPo
    BY <2>2, InboundOfRow
  <2> HIDE DEF first, delta, arrived, row
  <2>6. RowWritten(q, k, inventory) = first
        \/ RowWritten(q, k, inventory) = RecordMovement(first, arrived)
    BY <2>4 DEF RowWritten, arrived
  <2>7. QED
    BY <2>2, <2>5, <2>6 DEF delta, row
<1>4. CASE delta = 0
  <2> DEFINE first == RecordMovement(row, arrived)
  <2>1. MovementAllowed(row, arrived)
    BY <1>4 DEF RowAllowed
  <2>2. first \in Row /\ first.inboundOpenPo = row.inboundOpenPo
    BY <1>1, <2>1, RecordMovementType, InboundOfRow
  <2>3. FirstCall(q, k) = first
    BY <1>4 DEF FirstCall
  <2>4. AfterFirstCall(q, k, inventory) = first
    <3> HIDE DEF first, row
    <3>1. AfterFirstCall(q, k, inventory) = SavedRecord(first, row, row)
      BY <2>3 DEF AfterFirstCall, row
    <3>2. QED
      BY <1>1, <2>2, <3>1, FreshSave
  <2>5. RowWritten(q, k, inventory) = first
    BY <1>4, <2>4 DEF RowWritten
  <2>6. QED
    BY <1>2, <1>4, <2>2, <2>5
<1>5. QED
  BY <1>3, <1>4

\* What a commit does to the inbound units of a row it does not leave stale.
LEMMA CommitInbound ==
  ASSUME TypeOK, NEW r \in OrderRequests, Commit(r),
         NEW b \in Branches, NEW p \in Products, ~staleRow'[<<b, p>>]
  PROVE  LET q == orderRequests[r]
         IN  inventory'[<<b, p>>].inboundOpenPo = inventory[<<b, p>>].inboundOpenPo
               + (IF b = BranchOf[q.po]
                  THEN OpenUnits(q.saved, p) - OpenUnits(q.loaded, p) ELSE 0)
<1>1. PICK q \in OrderRequest : q = orderRequests[r]
  BY DEF Commit, TypeOK
<1>2. PICK k \in Branches \X Products : k = <<b, p>>
  OBVIOUS
<1>3. InboundDelta(q, p) = OpenUnits(q.saved, p) - OpenUnits(q.loaded, p)
      /\ InboundDelta(q, p) \in Int
  <2>1. q.saved \in Document /\ q.loaded \in Document
    BY DEF OrderRequest
  <2>2. QED
    BY <2>1, OpenUnitsType DEF InboundDelta
<1>4. inventory[k] \in Row /\ inventory[k].inboundOpenPo \in Nat
  BY DEF TypeOK, Inventory, Row
<1>5. PICK selected \in {q.rows, inventory} :
        /\ \A n \in Branches \X Products : RowTouched(q, n) => RowAllowed(q, n, selected)
        /\ inventory' = [n \in Branches \X Products |->
             IF RowTouched(q, n) THEN RowWritten(q, n, selected) ELSE inventory[n]]
  BY <1>1 DEF Commit, WriteInventory
<1>6. CASE RowTouched(q, k)
  <2>1. q.rows[k] = inventory[k]
    BY <1>1, <1>2, <1>6 DEF Commit, WriteInventory
  <2>2. selected[k] = inventory[k]
    BY <1>5, <2>1
  <2>3. /\ RowAllowed(q, k, inventory)
        /\ inventory'[k] = RowWritten(q, k, inventory)
    BY <1>5, <1>6, <2>2 DEF RowAllowed, RowWritten, AfterFirstCall
  <2>4. inventory'[k].inboundOpenPo = inventory[k].inboundOpenPo + InboundDelta(q, p)
    BY <1>2, <1>3, <2>1, <2>3, RowWrittenInbound
  <2>5. b = BranchOf[q.po]
    BY <1>2, <1>6 DEF RowTouched
  <2>6. QED
    BY <1>1, <1>2, <1>3, <2>4, <2>5
<1>7. CASE ~RowTouched(q, k)
  <2>1. inventory'[k] = inventory[k]
    BY <1>5, <1>7
  <2>2. b = BranchOf[q.po] => InboundDelta(q, p) = 0
    BY <1>2, <1>7 DEF RowTouched
  <2>3. QED
    BY <1>1, <1>2, <1>3, <1>4, <2>1, <2>2
<1>8. QED
  BY <1>6, <1>7

\* Orders and stock change only when an order is created or committed.
LEMMA OtherStepsLeave ==
  ASSUME [Next]_vars, ~\E r \in OrderRequests : Commit(r)
  PROVE  /\ inventory' = inventory /\ staleRow' = staleRow
         /\ (\E po \in PurchaseOrderIds : Create(po)) \/ purchaseOrders' = purchaseOrders
<1>1. CASE \E po \in PurchaseOrderIds : Create(po)
  BY <1>1 DEF Create, stockTables, history
<1>2. ASSUME NEW r \in OrderRequests, OrderRequestStep(r)
      PROVE  inventory' = inventory /\ staleRow' = staleRow /\ purchaseOrders' = purchaseOrders
  BY <1>2 DEF OrderRequestStep, LoadForStatus, LoadForReceipt, LoadForReceived, Begin,
    CheckEvents, SelectOrder, LockOrder, Abandon, orderTables, stockTables, history
<1>3. ASSUME NEW r \in EventRequests, EventRequestStep(r)
      PROVE  inventory' = inventory /\ staleRow' = staleRow /\ purchaseOrders' = purchaseOrders
  BY <1>3 DEF EventRequestStep, AcknowledgeReceiptEvent, ResolveReceiptEventDiscrepancy,
    ApproveReceiptEventDiscrepancy, ForceCloseReceiptEventDiscrepancy, EditEvent, SaveEvent,
    orderTables, stockTables, history
<1>4. CASE UNCHANGED vars
  BY <1>4 DEF vars, orderTables, stockTables, history
<1>5. QED
  BY <1>1, <1>2, <1>3, <1>4 DEF Next

\* A row is stale for good.
LEMMA StaleRowStays ==
  ASSUME TypeOK, [Next]_vars, NEW k \in Branches \X Products, staleRow[k]
  PROVE  staleRow'[k]
<1>1. CASE \E r \in OrderRequests : Commit(r)
  BY <1>1 DEF Commit, WriteInventory
<1>2. CASE ~\E r \in OrderRequests : Commit(r)
  BY <1>2, OtherStepsLeave
<1>3. QED
  BY <1>1, <1>2

\* The inbound units of a row are what its branch's orders have on their way.
InboundAgrees(b, p) ==
  inventory[<<b, p>>].inboundOpenPo = OpenTotal(purchaseOrders, b, p)

\* A commit that is not stale moves both sides by the difference it makes.
LEMMA CommitKeepsInbound ==
  ASSUME TypeOK, TypeOK', NEW r \in OrderRequests, Commit(r),
         NEW b \in Branches, NEW p \in Products, Fresh(b, p)', InboundAgrees(b, p)
  PROVE  InboundAgrees(b, p)'
<1>1. PICK q \in OrderRequest : q = orderRequests[r]
  BY DEF Commit, TypeOK
<1>2. q.po \in PurchaseOrderIds /\ q.loaded \in Document /\ q.saved \in Document
  BY DEF OrderRequest
<1> DEFINE new == purchaseOrders'
<1>3. /\ purchaseOrders \in [PurchaseOrderIds -> Document]
      /\ new \in [PurchaseOrderIds -> Document]
      /\ \A o \in PurchaseOrderIds \ {q.po} : new[o] = purchaseOrders[o]
  BY <1>1, <1>2 DEF TypeOK, Commit
<1>4. OpenTotal(new, b, p) = OpenTotal(purchaseOrders, b, p)
        + (IF b = BranchOf[q.po]
           THEN OpenUnits(new[q.po], p) - OpenUnits(purchaseOrders[q.po], p) ELSE 0)
  BY <1>2, <1>3, OpenTotalMoves
<1>5. inventory'[<<b, p>>].inboundOpenPo = inventory[<<b, p>>].inboundOpenPo
        + (IF b = BranchOf[q.po]
           THEN OpenUnits(q.saved, p) - OpenUnits(q.loaded, p) ELSE 0)
  BY <1>1, CommitInbound DEF Fresh
<1>6. CASE b = BranchOf[q.po]
  <2>1. ~staleOrder'[q.po]
    BY <1>2, <1>6 DEF Fresh, OrdersOf
  <2>2. /\ purchaseOrders[q.po] = q.loaded
        /\ new[q.po].status = q.saved.status
        /\ new[q.po].items = q.saved.items
    BY <1>1, <2>1, FreshCommit
  <2>3. OpenUnits(new[q.po], p) = OpenUnits(q.saved, p)
    BY <2>2 DEF OpenUnits
  <2> HIDE DEF new
  <2>4. OpenTotal(new, b, p) = inventory'[<<b, p>>].inboundOpenPo
    BY <1>4, <1>5, <2>2, <2>3 DEF InboundAgrees
  <2>5. QED
    BY <2>4 DEF InboundAgrees, new
<1>7. CASE b # BranchOf[q.po]
  <2> HIDE DEF new
  <2>1. OpenTotal(new, b, p) = inventory'[<<b, p>>].inboundOpenPo
    BY <1>4, <1>5, <1>7 DEF InboundAgrees
  <2>2. QED
    BY <2>1 DEF InboundAgrees, new
<1>8. QED
  BY <1>6, <1>7

\* A draft has nothing on its way, nor has an order that does not exist.
LEMMA CreateKeepsInbound ==
  ASSUME TypeOK, TypeOK', NEW po \in PurchaseOrderIds, Create(po),
         NEW b \in Branches, NEW p \in Products, InboundAgrees(b, p)
  PROVE  InboundAgrees(b, p)'
<1> DEFINE new == purchaseOrders'
<1>1. /\ purchaseOrders \in [PurchaseOrderIds -> Document]
      /\ new \in [PurchaseOrderIds -> Document]
      /\ \A o \in PurchaseOrderIds \ {po} : new[o] = purchaseOrders[o]
      /\ purchaseOrders[po].status = "NONE"
      /\ new[po].status = "DRAFT"
  BY DEF TypeOK, Create, NewDocument
<1>2. OpenUnits(purchaseOrders[po], p) = 0 /\ OpenUnits(new[po], p) = 0
  BY <1>1 DEF OpenUnits
<1>3. OpenTotal(new, b, p) = OpenTotal(purchaseOrders, b, p)
        + (IF b = BranchOf[po]
           THEN OpenUnits(new[po], p) - OpenUnits(purchaseOrders[po], p) ELSE 0)
  BY <1>1, OpenTotalMoves
<1>4. /\ inventory' = inventory
      /\ inventory[<<b, p>>].inboundOpenPo \in Nat
  BY DEF Create, stockTables, TypeOK, Inventory, Row
<1> HIDE DEF new
<1>5. OpenTotal(new, b, p) = inventory'[<<b, p>>].inboundOpenPo
  BY <1>2, <1>3, <1>4 DEF InboundAgrees
<1>6. QED
  BY <1>5 DEF InboundAgrees, new

\* Every step keeps the inbound units in agreement.
LEMMA NextInbound == InboundInvariant /\ [Next]_vars => InboundInvariant'
<1> SUFFICES ASSUME InboundInvariant, [Next]_vars PROVE InboundInvariant'
  OBVIOUS
<1>1. TypeOK /\ TypeOK'
  BY NextTypeOK DEF InboundInvariant
<1>2. ASSUME NEW b \in Branches, NEW p \in Products, Fresh(b, p)'
      PROVE  InboundAgrees(b, p)'
  <2>1. InboundAgrees(b, p)
    <3>1. ~staleRow[<<b, p>>]
      BY <1>1, <1>2, StaleRowStays DEF Fresh
    <3>2. \A po \in OrdersOf(b) : ~staleOrder[po]
      BY <1>1, <1>2, StaleStays DEF Fresh, OrdersOf
    <3>3. QED
      BY <3>1, <3>2 DEF InboundInvariant, InboundAgrees, Fresh
  <2>2. CASE \E r \in OrderRequests : Commit(r)
    BY <1>1, <1>2, <2>1, <2>2, CommitKeepsInbound
  <2>3. CASE \E po \in PurchaseOrderIds : Create(po)
    BY <1>1, <2>1, <2>3, CreateKeepsInbound
  <2>4. CASE ~(\E r \in OrderRequests : Commit(r)) /\ ~\E po \in PurchaseOrderIds : Create(po)
    <3>1. purchaseOrders' = purchaseOrders /\ inventory' = inventory
      BY <2>4, OtherStepsLeave
    <3>2. QED
      BY <2>1, <3>1 DEF InboundAgrees
  <2>5. QED
    BY <2>2, <2>3, <2>4
<1>3. QED
  BY <1>1, <1>2 DEF InboundInvariant, InboundAgrees

\* Before the first order nothing is on its way.
LEMMA InitInbound == Init => InboundInvariant
<1> SUFFICES ASSUME Init PROVE InboundInvariant
  OBVIOUS
<1>1. ASSUME NEW b \in Branches, NEW p \in Products
      PROVE  inventory[<<b, p>>].inboundOpenPo = OpenTotal(purchaseOrders, b, p)
  <2> DEFINE S == OrdersOf(b)
             F == [o \in S |-> OpenUnits(purchaseOrders[o], p)]
  <2>1. IsFiniteSet(S) /\ S \subseteq PurchaseOrderIds
    BY FS_Subset, ConstantsAssumption DEF OrdersOf
  <2>2. \A o \in S : F[o] = 0
    BY <2>1 DEF Init, NoDocument, NewDocument, OpenUnits
  <2> HIDE DEF F, S
  <2>3. SumFunctionOnSet(F, S) = 0
    BY <2>1, <2>2, SumZero
  <2>4. OpenTotal(purchaseOrders, b, p) = 0
    BY <2>3 DEF OpenTotal, SumOver, F, S
  <2>5. inventory[<<b, p>>].inboundOpenPo = 0
    BY DEF Init, NoRows, NewRow
  <2>6. QED
    BY <2>4, <2>5
<1>2. QED
  BY <1>1, InitTypeOK DEF InboundInvariant

\* A branch's inbound units, maintained by differences in every transaction,
\* are what its open orders still have to deliver, for any number of branches,
\* orders and lines, unless a request overlapped on the row or on an order.
THEOREM InboundIsOpenOrders == Spec => []InboundMatchesOpenOrders
<1>1. InboundInvariant => InboundMatchesOpenOrders
  <2> SUFFICES ASSUME InboundInvariant, NEW b \in Branches, NEW p \in Products, Fresh(b, p)
               PROVE  inventory[b, p].inboundOpenPo = OpenTotal(purchaseOrders, b, p)
    BY DEF InboundMatchesOpenOrders, Fresh, OrdersOf, OpenTotal, OpenUnits
  <2>1. QED
    BY DEF InboundInvariant
<1>2. QED
  BY <1>1, InitInbound, NextInbound, PTL DEF Spec
=============================================================================
