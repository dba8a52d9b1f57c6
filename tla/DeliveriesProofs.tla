---------------------------- MODULE DeliveriesProofs ----------------------------
(***************************************************************************)
(* Online orders for any orders, items, requests and number of handlers:   *)
(* what an order holds of the stock, what its vendors are credited, what   *)
(* its buyer is refunded.                                                  *)
(***************************************************************************)
EXTENDS Deliveries, TLAPS

DisputeStatus == {"NONE", "OPEN", "RESOLVED", "REFUNDED"}
DisputeSteps == {"clawback", "refundBuyer", "closeDispute"}
\* Where a handler is about to write what it made of the row it read.
CopySteps == {"save", "release", "saveReleased"} \cup DisputeSteps
Steps == {"idle", "reserve", "provider", "credit", "earn"} \cup CopySteps
Jobs == {"none", "create", "pay", "simple", "cancel", "deliver", "resolve", "refund"}
Work == [at : Steps, job : Jobs, of : Orders \cup {None}, read : Row, copy : Row,
         dispute : DisputeStatus, next : Items]

\* A copy has its order's method, and its payment if that was made.
CopyOf(copy, read) ==
  /\ copy.status \notin Absent
  /\ copy.method = read.method
  /\ read.released => copy.released
  /\ read.pay = "PAID" /\ read.method # "MPESA" => copy.pay = "PAID"

\* Only a payment makes a copy paid.
Unpaid(copy, read) == copy.pay = "PAID" /\ read.method # "MPESA" => read.pay = "PAID"

RowOK(row) == row.status = "CANCELLED" => row.released

WorkOK(w) ==
  /\ w.at = "idle" <=> w.of = None
  /\ w.at \in CopySteps => w.read.status \notin Absent /\ CopyOf(w.copy, w.read) /\ w.job \notin {"none", "create"}
  /\ w.at = "save" =>
       /\ RowOK(w.copy)
       /\ w.job = "deliver" => w.copy.released = w.read.released
       /\ IF w.job = "pay" THEN w.read.pay # "PAID" /\ w.copy.pay = "PAID" /\ w.copy.released = w.read.released
          ELSE Unpaid(w.copy, w.read)
  /\ w.at = "release" => ~w.copy.released /\ ~w.read.released /\ w.job # "pay" /\ Unpaid(w.copy, w.read)
                         /\ (w.job = "deliver" => w.copy = w.read)
  /\ w.at = "saveReleased" => w.job = "deliver" /\ w.copy = Released(w.read) /\ ~w.read.released
  /\ w.at \in DisputeSteps => w.job \in {"resolve", "refund"} /\ w.copy = w.read /\ w.dispute = "OPEN"
  /\ w.at \in {"clawback", "refundBuyer"} => w.job = "refund"
  /\ w.at \in {"refundBuyer", "closeDispute"} => w.next = 1

Counts(S) == [Orders -> [Items -> S]]

\* The types of what is stored, and of what is in memory and counted.
TablesTyped ==
  /\ orders \in [Orders -> Row]
  /\ \A o \in Orders : RowOK(orders[o])
  /\ reserved \in [Items -> Nat]
  /\ disputes \in [Orders -> DisputeStatus]
WorkersTyped ==
  /\ workers \in [Workers -> Work]
  /\ \A r \in Workers : WorkOK(workers[r])
HistoryTyped ==
  /\ held \in Counts(Int)
  /\ credited \in Counts(Nat) /\ delivered \in Counts(Nat) /\ clawed \in Counts(Nat)
  /\ refunds \in [Orders -> Nat]
  /\ lost \in [Orders -> BOOLEAN] /\ cut \in [Orders -> BOOLEAN]
OnlineTypeOK == TablesTyped /\ WorkersTyped /\ HistoryTyped

-------------------------------------------------------------------------------
(* What handlers become *)

\* Rows that do not exist are rows.
LEMMA NoRowType ==
  ASSUME NEW why \in Absent
  PROVE  NoRow(why) \in Row /\ NoRow(why).status = why /\ ~NoRow(why).released /\ NoRow(why).pay = "UNPAID"
BY DEF NoRow, Row, Payments, Statuses, Absent, Drivers

\* Nothing to do is a kind of work.
LEMMA IdleType == Idle \in Work /\ WorkOK(Idle) /\ Idle.at = "idle" /\ Idle.of = None
<1>1. NoRow("NOT_PLACED") \in Row
  BY NoRowType DEF Absent
<1>2. 1 \in Items
  BY OnlineOrdersAssumption DEF Items
<1>3. /\ Idle.at = "idle" /\ Idle.job = "none" /\ Idle.of = None
      /\ Idle.read = NoRow("NOT_PLACED") /\ Idle.copy = NoRow("NOT_PLACED")
      /\ Idle.dispute = "NONE" /\ Idle.next = 1
  BY DEF Idle
<1>4. Idle \in Work
  BY <1>1, <1>2 DEF Idle, Work, Steps, Jobs, DisputeStatus
<1>5. WorkOK(Idle)
  BY <1>3 DEF WorkOK, CopySteps, DisputeSteps
<1>6. QED
  BY <1>3, <1>4, <1>5

\* The handler that becomes something else is the only one that changes.
LEMMA BecomeEffect ==
  ASSUME WorkersTyped, NEW r \in Workers, NEW w \in Work, Become(r, w)
  PROVE  /\ workers' \in [Workers -> Work] /\ workers'[r] = w
         /\ \A q \in Workers \ {r} : workers'[q] = workers[q]
BY DEF Become, WorkersTyped

\* Typed handlers stay typed when one begins typed work.
LEMMA BecomeTyped ==
  ASSUME WorkersTyped, NEW r \in Workers, NEW w \in Work, Become(r, w), WorkOK(w)
  PROVE  WorkersTyped'
<1>1. /\ workers' \in [Workers -> Work] /\ workers'[r] = w
      /\ \A q \in Workers \ {r} : workers'[q] = workers[q]
  BY BecomeEffect
<1>2. \A q \in Workers : WorkOK(workers'[q])
  BY <1>1 DEF WorkersTyped
<1>3. QED
  BY <1>1, <1>2 DEF WorkersTyped

\* A handler begins, or resumes after the provider's answer, with a copy of the
\* row as it is; a dispute may be opened first.
Suits(o, job, step, copy) ==
  /\ copy \in Row /\ CopyOf(copy, orders[o]) /\ copy.released = orders[o].released
  /\ \/ /\ step = "save" /\ RowOK(copy) /\ job \in {"pay", "simple", "cancel", "deliver"}
        /\ IF job = "pay" THEN orders[o].pay # "PAID" /\ copy.pay = "PAID" ELSE Unpaid(copy, orders[o])
     \/ step = "release" /\ ~copy.released /\ job = "cancel" /\ Unpaid(copy, orders[o])
     \/ /\ copy = orders[o] /\ disputes[o] = "OPEN"
        /\ (step = "closeDispute" /\ job = "resolve") \/ (step = "clawback" /\ job = "refund")

Begins(r, o) ==
  /\ Exists(o)
  /\ workers[r].at \in {"idle", "provider"} /\ workers[r].of \in {None, o}
  /\ \E w \in Work :
       /\ WorkOK(w) /\ Become(r, w) /\ w.of = o /\ w.next = 1
       /\ w.at \in {"save", "release", "clawback", "closeDispute"}
       /\ w.at = "save" => w.copy.released = w.read.released
       /\ w.at \in DisputeSteps => disputes[o] = "OPEN" /\ (w.job = "refund" => w.at = "clawback")
  /\ UNCHANGED <<orders, reserved, held, postings, accidents>>
  /\ disputes' = disputes \/ (disputes[o] = "NONE" /\ disputes' = [disputes EXCEPT ![o] = "OPEN"])

\* What a handler begins with suits its step.
LEMMA BeginWork ==
  ASSUME OnlineTypeOK, NEW o \in Orders, Exists(o), NEW job \in Jobs, NEW step \in Steps, NEW copy,
         Suits(o, job, step, copy), NEW w,
         w = Handling(o, job, step, copy)
  PROVE  /\ w \in Work /\ WorkOK(w) /\ w.of = o /\ w.next = 1
         /\ w.at \in {"save", "release", "clawback", "closeDispute"}
         /\ w.at = "save" => w.copy.released = w.read.released
         /\ w.at \in DisputeSteps => disputes[o] = "OPEN" /\ (w.job = "refund" => w.at = "clawback")
<1>1. orders[o] \in Row /\ disputes[o] \in DisputeStatus /\ 1 \in Items /\ o # None
  BY OnlineOrdersAssumption DEF OnlineTypeOK, TablesTyped, Items
<1>2. copy \in Row
  BY DEF Suits
<1>3. w \in Work
  BY <1>1, <1>2 DEF Work, Handling
<1>4. /\ w.at = step /\ w.job = job /\ w.of = o /\ w.read = orders[o] /\ w.copy = copy
      /\ w.dispute = disputes[o] /\ w.next = 1
  BY DEF Handling
<1>5. orders[o].status \notin Absent
  BY DEF Exists
<1>6. step \in {"save", "release", "clawback", "closeDispute"}
  BY DEF Suits
<1>7. WorkOK(w)
  <2>1. CASE step = "save"
    BY <1>1, <1>4, <1>5, <2>1 DEF Suits, WorkOK, CopySteps, DisputeSteps, CopyOf
  <2>2. CASE step = "release"
    BY <1>1, <1>4, <1>5, <2>2 DEF Suits, WorkOK, CopySteps, DisputeSteps, CopyOf
  <2>3. CASE step \in {"clawback", "closeDispute"}
    BY <1>1, <1>4, <1>5, <2>3 DEF Suits, WorkOK, CopySteps, DisputeSteps, CopyOf
  <2>4. QED
    BY <1>6, <2>1, <2>2, <2>3
<1>8. QED
  BY <1>3, <1>4, <1>6, <1>7 DEF Suits, DisputeSteps

\* A load,
LEMMA LoadBegins ==
  ASSUME OnlineTypeOK, NEW r \in Workers, NEW o \in Orders, NEW job \in Jobs, NEW step \in Steps, NEW copy,
         Suits(o, job, step, copy), Load(r, o, job, step, copy)
  PROVE  Begins(r, o)
<1> DEFINE w == Handling(o, job, step, copy)
<1>1. Exists(o) /\ At(r, "idle") /\ Become(r, w) /\ UNCHANGED <<onlineTables, held, postings, accidents>>
  BY DEF Load, Start
<1>2. WorkOK(workers[r])
  BY DEF OnlineTypeOK, WorkersTyped
<1> HIDE DEF w
<1>3. /\ w \in Work /\ WorkOK(w) /\ w.of = o /\ w.next = 1
      /\ w.at \in {"save", "release", "clawback", "closeDispute"}
      /\ w.at = "save" => w.copy.released = w.read.released
      /\ w.at \in DisputeSteps => disputes[o] = "OPEN" /\ (w.job = "refund" => w.at = "clawback")
  BY <1>1, BeginWork DEF w
<1>4. workers[r].at = "idle" /\ workers[r].of = None
  BY <1>1, <1>2 DEF At, WorkOK
<1>5. QED
  BY <1>1, <1>3, <1>4 DEF Begins, onlineTables

\* that changes the copy's status and nothing else.
LEMMA StatusOnlyCopy ==
  ASSUME OnlineTypeOK, NEW o \in Orders, NEW status \in Statuses, NEW copy,
         copy = [orders[o] EXCEPT !.status = status]
  PROVE  /\ copy \in Row /\ CopyOf(copy, orders[o]) /\ copy.released = orders[o].released
         /\ Unpaid(copy, orders[o]) /\ copy.status = status
<1>1. orders[o] \in Row
  BY DEF OnlineTypeOK, TablesTyped
<1>2. /\ copy \in Row /\ copy.status = status /\ copy.released = orders[o].released
      /\ copy.pay = orders[o].pay /\ copy.method = orders[o].method
  BY <1>1 DEF Row
<1>3. QED
  BY <1>2 DEF CopyOf, Unpaid, Statuses, Absent

\* A status of an order that exists.
LEMMA ExistingStatus ==
  ASSUME OnlineTypeOK, NEW o \in Orders, Exists(o)
  PROVE  orders[o] \in Row /\ orders[o].status \in Statuses /\ RowOK(orders[o])
BY DEF OnlineTypeOK, TablesTyped, Exists, Row

\* Simple handlers save what they changed and do not cancel.
LEMMA SimpleBegins ==
  ASSUME OnlineTypeOK, NEW r \in Workers, NEW o \in Orders, NEW job \in {"simple", "deliver"},
         NEW status \in Statuses, NEW driver \in Drivers, NEW copy,
         \/ copy = [orders[o] EXCEPT !.driver = driver, !.status = status]
         \/ copy = [orders[o] EXCEPT !.status = status],
         status = "CANCELLED" => orders[o].status = "CANCELLED",
         Load(r, o, job, "save", copy)
  PROVE  Begins(r, o)
<1>1. /\ copy \in Row /\ CopyOf(copy, orders[o]) /\ copy.released = orders[o].released
      /\ Unpaid(copy, orders[o]) /\ copy.status = status
  <2>1. CASE copy = [orders[o] EXCEPT !.driver = driver, !.status = status]
    <3>1. orders[o] \in Row
      BY DEF OnlineTypeOK, TablesTyped
    <3>2. /\ copy \in Row /\ copy.status = status /\ copy.released = orders[o].released
          /\ copy.pay = orders[o].pay /\ copy.method = orders[o].method
      BY <2>1, <3>1 DEF Row
    <3>3. QED
      BY <3>2 DEF CopyOf, Unpaid, Statuses, Absent
  <2>2. CASE copy = [orders[o] EXCEPT !.status = status]
    BY <2>2, StatusOnlyCopy
  <2>3. QED
    BY <2>1, <2>2
<1>2. RowOK(orders[o])
  BY DEF OnlineTypeOK, TablesTyped
<1>3. Suits(o, job, "save", copy)
  BY <1>1, <1>2 DEF Suits, RowOK
<1>4. job \in Jobs /\ "save" \in Steps
  BY DEF Jobs, Steps, CopySteps
<1>5. QED
  BY <1>3, <1>4, LoadBegins

\* A cancellation, or an admin's update that ends an order, releases first.
LEMMA CancelBegins ==
  ASSUME OnlineTypeOK, NEW r \in Workers, NEW o \in Orders, NEW status \in Statuses, NEW copy,
         copy = [orders[o] EXCEPT !.status = status],
         NEW step \in {"save", "release"}, step = "release" => ~copy.released,
         step = "save" /\ status = "CANCELLED" => copy.released,
         Load(r, o, "cancel", step, copy)
  PROVE  Begins(r, o)
<1>1. /\ copy \in Row /\ CopyOf(copy, orders[o]) /\ copy.released = orders[o].released
      /\ Unpaid(copy, orders[o]) /\ copy.status = status
  BY StatusOnlyCopy
<1>2. Suits(o, "cancel", step, copy)
  BY <1>1 DEF Suits, RowOK
<1>3. "cancel" \in Jobs /\ step \in Steps
  BY DEF Jobs, Steps, CopySteps
<1>4. QED
  BY <1>2, <1>3, LoadBegins

\* triggerPostPaymentProcessing.
LEMMA PaidCopy ==
  ASSUME NEW row \in Row, row.pay # "PAID", NEW o \in Orders, orders[o] = row
  PROVE  Suits(o, "pay", "save", Paid(row))
<1>1. /\ Paid(row) \in Row /\ Paid(row).status = "PROCESSING" /\ Paid(row).pay = "PAID"
      /\ Paid(row).released = row.released /\ Paid(row).method = row.method
  BY DEF Paid, Row, Statuses, Payments
<1>2. QED
  BY <1>1 DEF Suits, CopyOf, RowOK, Absent

\* A confirmed payment begins from an unpaid row.
LEMMA LoadForPaymentBegins ==
  ASSUME OnlineTypeOK, NEW r \in Workers, NEW o \in Orders, LoadForPayment(r, o)
  PROVE  Begins(r, o)
<1>1. orders[o] \in Row /\ orders[o].pay # "PAID" /\ Load(r, o, "pay", "save", Paid(orders[o]))
  BY DEF LoadForPayment, OnlineTypeOK, TablesTyped
<1>2. Suits(o, "pay", "save", Paid(orders[o]))
  BY <1>1, PaidCopy
<1>3. "pay" \in Jobs /\ "save" \in Steps
  BY DEF Jobs, Steps, CopySteps
<1>4. QED
  BY <1>1, <1>2, <1>3, LoadBegins

\* M-Pesa's callback.
LEMMA PaymentCallbackBegins ==
  ASSUME OnlineTypeOK, NEW r \in Workers, NEW o \in Orders, PaymentCallback(r, o)
  PROVE  Begins(r, o)
<1>1. PICK result \in {"PAID", "FAILED"} : Load(r, o, "simple", "save", [orders[o] EXCEPT !.pay = result])
  BY DEF PaymentCallback
<1>2. Exists(o) /\ orders[o].method = "MPESA"
  BY DEF PaymentCallback
<1>3. orders[o] \in Row /\ RowOK(orders[o]) /\ orders[o].status \notin Absent
  BY <1>2 DEF OnlineTypeOK, TablesTyped, Exists
<1> DEFINE copy == [orders[o] EXCEPT !.pay = result]
<1>4. /\ copy \in Row /\ copy.status = orders[o].status /\ copy.released = orders[o].released
      /\ copy.method = orders[o].method
  BY <1>3 DEF Row, Payments
<1> HIDE DEF copy
<1>5. Suits(o, "simple", "save", copy)
  BY <1>2, <1>3, <1>4 DEF Suits, CopyOf, RowOK, Unpaid
<1>6. "simple" \in Jobs /\ "save" \in Steps
  BY DEF Jobs, Steps, CopySteps
<1>7. QED
  BY <1>1, <1>5, <1>6, LoadBegins DEF copy

\* resolveDispute and refundDispute read a row that nothing is changed of yet.
LEMMA DisputeLoadBegins ==
  ASSUME OnlineTypeOK, NEW r \in Workers, NEW o \in Orders, LoadForResolution(r, o) \/ LoadForRefund(r, o)
  PROVE  Begins(r, o)
<1>1. /\ disputes[o] = "OPEN"
      /\ \/ Load(r, o, "resolve", "closeDispute", orders[o])
         \/ Load(r, o, "refund", "clawback", orders[o])
  BY DEF LoadForResolution, LoadForRefund
<1>2. orders[o] \in Row /\ orders[o].status \notin Absent
  BY <1>1 DEF OnlineTypeOK, TablesTyped, Load, Exists
<1>3. CopyOf(orders[o], orders[o])
  BY <1>2 DEF CopyOf
<1>4. Suits(o, "resolve", "closeDispute", orders[o]) /\ Suits(o, "refund", "clawback", orders[o])
  BY <1>1, <1>2, <1>3 DEF Suits
<1>5. {"resolve", "refund"} \subseteq Jobs /\ {"closeDispute", "clawback"} \subseteq Steps
  BY DEF Jobs, Steps, CopySteps, DisputeSteps
<1>6. QED
  BY <1>1, <1>4, <1>5, LoadBegins

\* disputeOrder opens a dispute on its way.
LEMMA DisputeOrderBegins ==
  ASSUME OnlineTypeOK, NEW r \in Workers, NEW o \in Orders, DisputeOrder(r, o)
  PROVE  Begins(r, o)
<1> DEFINE copy == [orders[o] EXCEPT !.status = "DISPUTED"]
           w == Handling(o, "simple", "save", copy)
<1>1. /\ Exists(o) /\ At(r, "idle") /\ Become(r, w) /\ disputes[o] = "NONE"
      /\ disputes' = [disputes EXCEPT ![o] = "OPEN"]
      /\ UNCHANGED <<orders, reserved, held, postings, accidents>>
  BY DEF DisputeOrder, Start
<1>2. /\ copy \in Row /\ CopyOf(copy, orders[o]) /\ copy.released = orders[o].released
      /\ Unpaid(copy, orders[o]) /\ copy.status = "DISPUTED"
  BY StatusOnlyCopy DEF Statuses
<1>3. w = Handling(o, "simple", "save", copy)
  OBVIOUS
<1> HIDE DEF copy
<1> HIDE DEF w
<1>4. Suits(o, "simple", "save", copy)
  BY <1>2 DEF Suits, RowOK
<1>5. "simple" \in Jobs /\ "save" \in Steps
  BY DEF Jobs, Steps, CopySteps
<1>6. /\ w \in Work /\ WorkOK(w) /\ w.of = o /\ w.next = 1
      /\ w.at \in {"save", "release", "clawback", "closeDispute"}
      /\ w.at = "save" => w.copy.released = w.read.released
      /\ w.at \in DisputeSteps => disputes[o] = "OPEN" /\ (w.job = "refund" => w.at = "clawback")
  BY <1>1, <1>3, <1>4, <1>5, BeginWork
<1>7. workers[r].at = "idle" /\ workers[r].of = None
  BY <1>1 DEF At, WorkOK, OnlineTypeOK, WorkersTyped
<1>8. QED
  BY <1>1, <1>6, <1>7 DEF Begins

\* Every handler that loads a row begins with a copy of it.
LEMMA LoadsBegin ==
  ASSUME OnlineTypeOK, NEW r \in Workers, NEW o \in Orders,
         \/ LoadForPayment(r, o) \/ PaymentCallback(r, o)
         \/ CancelOrder(r, o) \/ UpdateItemStatus(r, o) \/ VendorUpdate(r, o)
         \/ DisputeOrder(r, o) \/ LoadForResolution(r, o) \/ LoadForRefund(r, o)
         \/ AssignDeliverer(r, o) \/ AcceptAssignment(r, o) \/ ConfirmPickup(r, o)
         \/ FailDelivery(r, o) \/ Deliver(r, o) \/ UpdateDeliveryStatus(r, o)
  PROVE  Begins(r, o)
<1>1. CASE CancelOrder(r, o)
  BY <1>1, CancelBegins DEF CancelOrder, ToRelease, Statuses
<1>2. CASE UpdateItemStatus(r, o)
  <2>1. PICK aggregate \in ItemStatuses :
          LET copy == [orders[o] EXCEPT !.status = aggregate]
          IN  Load(r, o, "cancel", IF Ending(aggregate) THEN ToRelease(copy) ELSE "save", copy)
    BY <1>2 DEF UpdateItemStatus
  <2>2. aggregate \in Statuses
    BY OnlineOrdersAssumption DEF Statuses
  <2> DEFINE copy == [orders[o] EXCEPT !.status = aggregate]
             step == IF Ending(aggregate) THEN ToRelease(copy) ELSE "save"
  <2>3. /\ step \in {"save", "release"} /\ (step = "release" => ~copy.released)
        /\ step = "save" /\ aggregate = "CANCELLED" => copy.released
    BY DEF Ending, ToRelease
  <2>4. Load(r, o, "cancel", step, copy)
    BY <2>1
  <2> HIDE DEF step
  <2>5. QED
    BY <2>2, <2>3, <2>4, CancelBegins
<1>3. CASE VendorUpdate(r, o)
  <2>1. PICK status \in Statuses : /\ <<orders[o].status, status>> \in VendorEdges
                                   /\ Load(r, o, "simple", "save", [orders[o] EXCEPT !.status = status])
    BY <1>3 DEF VendorUpdate
  <2>2. status # "CANCELLED"
    BY <2>1 DEF VendorEdges
  <2>3. QED
    BY <2>1, <2>2, SimpleBegins DEF Drivers
<1>4. CASE AssignDeliverer(r, o)
  BY <1>4, SimpleBegins DEF AssignDeliverer, Statuses, Drivers
<1>5. CASE AcceptAssignment(r, o)
  <2> DEFINE status == IF orders[o].status = "PENDING" THEN "PROCESSING" ELSE orders[o].status
  <2>1. Exists(o) /\ Load(r, o, "simple", "save", [orders[o] EXCEPT !.driver = "ACCEPTED", !.status = status])
    BY <1>5 DEF AcceptAssignment
  <2>2. status \in Statuses /\ (status = "CANCELLED" => orders[o].status = "CANCELLED")
    BY <2>1, ExistingStatus DEF Statuses
  <2> HIDE DEF status
  <2>3. QED
    BY <2>1, <2>2, SimpleBegins DEF Drivers
<1>6. CASE ConfirmPickup(r, o)
  BY <1>6, SimpleBegins DEF ConfirmPickup, Statuses, Drivers
<1>7. CASE FailDelivery(r, o)
  BY <1>7, SimpleBegins DEF FailDelivery, Statuses, Drivers
<1>8. CASE Deliver(r, o)
  BY <1>8, SimpleBegins DEF Deliver, Statuses, Drivers
<1>9. CASE UpdateDeliveryStatus(r, o)
  <2>1. PICK status \in {"OUT_FOR_DELIVERY", "DELIVERY_FAILED"} :
          Load(r, o, "simple", "save", [orders[o] EXCEPT !.status = status])
    BY <1>9 DEF UpdateDeliveryStatus
  <2>2. status \in Statuses /\ status # "CANCELLED"
    BY DEF Statuses
  <2>3. QED
    BY <2>1, <2>2, SimpleBegins DEF Drivers
<1>10. QED
  BY <1>1, <1>2, <1>3, <1>4, <1>5, <1>6, <1>7, <1>8, <1>9, LoadForPaymentBegins, PaymentCallbackBegins,
     DisputeLoadBegins, DisputeOrderBegins

\* processEbirrPaymentAsync reads the row again once the provider answered.
LEMMA AnswerEffect ==
  ASSUME OnlineTypeOK, NEW r \in Workers, ProviderDeclines(r) \/ ProviderApproves(r) \/ ProviderPends(r)
  PROVE  \/ \E o \in Orders : Begins(r, o)
         \/ workers[r].at = "provider" /\ Become(r, Idle) /\ UNCHANGED <<onlineTables, held, postings, accidents>>
<1> DEFINE o == workers[r].of
<1>1. workers[r].at = "provider" /\ UNCHANGED <<onlineTables, held, postings, accidents>>
  BY DEF ProviderDeclines, ProviderApproves, ProviderPends, At
<1>2. workers[r] \in Work /\ WorkOK(workers[r])
  BY DEF OnlineTypeOK, WorkersTyped
<1>3. o \in Orders
  BY <1>1, <1>2 DEF Work, WorkOK
<1>4. CASE Become(r, Idle)
  BY <1>1, <1>4
<1>5. CASE ~Become(r, Idle)
  <2>1. Exists(o) /\ orders[o].pay # "PAID"
    BY <1>5 DEF ProviderDeclines, ProviderApproves, ProviderPends, End, Of
  <2>2. \/ Become(r, Handling(o, "cancel", ToRelease(orders[o]), Declined(orders[o])))
        \/ Become(r, Handling(o, "pay", "save", Paid(orders[o])))
    BY <1>5 DEF ProviderDeclines, ProviderApproves, ProviderPends, End, Of
  <2> HIDE DEF o
  <2>3. orders[o] \in Row /\ orders[o].status \notin Absent
    BY <1>3, <2>1 DEF OnlineTypeOK, TablesTyped, Exists
  <2>4. Suits(o, "pay", "save", Paid(orders[o]))
    BY <1>3, <2>1, <2>3, PaidCopy
  <2>5. Suits(o, "cancel", ToRelease(orders[o]), Declined(orders[o]))
    <3>1. /\ Declined(orders[o]) \in Row
          /\ Declined(orders[o]).status = "CANCELLED" /\ Declined(orders[o]).pay = "FAILED"
          /\ Declined(orders[o]).released = orders[o].released /\ Declined(orders[o]).method = orders[o].method
      BY <2>3 DEF Declined, Row, Statuses, Payments
    <3>2. CopyOf(Declined(orders[o]), orders[o]) /\ Unpaid(Declined(orders[o]), orders[o])
      BY <2>1, <3>1 DEF CopyOf, Unpaid, Absent
    <3>3. CASE orders[o].released
      BY <3>1, <3>2, <3>3 DEF Suits, RowOK, ToRelease
    <3>4. CASE ~orders[o].released
      BY <3>1, <3>2, <3>4 DEF Suits, ToRelease
    <3>5. QED
      BY <3>3, <3>4
  <2>6. {"pay", "cancel"} \subseteq Jobs /\ {"save", "release"} \subseteq Steps /\ ToRelease(orders[o]) \in {"save", "release"}
    BY DEF Jobs, Steps, CopySteps, ToRelease
  <2>7. workers[r].at = "provider" /\ workers[r].of = o
    BY <1>1 DEF o
  <2>8. UNCHANGED <<orders, reserved, disputes, held, postings, accidents>>
    BY <1>1 DEF onlineTables
  <2>9. ASSUME NEW w, NEW job \in Jobs, NEW step \in Steps, NEW copy, Suits(o, job, step, copy),
               w = Handling(o, job, step, copy), Become(r, w)
        PROVE  Begins(r, o)
    <3>1. /\ w \in Work /\ WorkOK(w) /\ w.of = o /\ w.next = 1
          /\ w.at \in {"save", "release", "clawback", "closeDispute"}
          /\ w.at = "save" => w.copy.released = w.read.released
          /\ w.at \in DisputeSteps => disputes[o] = "OPEN" /\ (w.job = "refund" => w.at = "clawback")
      BY <1>3, <2>1, <2>9, BeginWork
    <3>2. QED
      BY <2>1, <2>7, <2>8, <2>9, <3>1 DEF Begins
  <2>10. Begins(r, o)
    BY <2>2, <2>4, <2>5, <2>6, <2>9
  <2>11. QED
    BY <1>3, <2>10
<1>6. QED
  BY <1>4, <1>5

\* What stays of a handler's work from one step to the next.
SameWork(w, v) ==
  w.of = v.of /\ w.job = v.job /\ w.read = v.read /\ w.copy = v.copy /\ w.dispute = v.dispute

\* Going to another step keeps what a handler works on.
LEMMA GotoEffect ==
  ASSUME OnlineTypeOK, NEW r \in Workers, NEW step \in Steps, Goto(r, step)
  PROVE  \E w \in Work : Become(r, w) /\ SameWork(w, workers[r]) /\ w.at = step /\ w.next = 1
<1> DEFINE w == [workers[r] EXCEPT !.at = step, !.next = 1]
<1>1. workers[r] \in Work /\ 1 \in Items /\ workers \in [Workers -> Work]
  BY OnlineOrdersAssumption DEF OnlineTypeOK, WorkersTyped, Items
<1>2. w \in Work /\ SameWork(w, workers[r]) /\ w.at = step /\ w.next = 1
  BY <1>1 DEF Work, SameWork
<1>3. Become(r, w)
  BY <1>1 DEF Goto, Become
<1>4. QED
  BY <1>2, <1>3

\* A pass of a loop over the items.
LEMMA StepEffect ==
  ASSUME OnlineTypeOK, NEW r \in Workers, NEW after \in Steps \cup {"end"}, Step(r, after)
  PROVE  \E w \in Work :
           /\ Become(r, w)
           /\ \/ /\ workers[r].next < ItemCount /\ SameWork(w, workers[r])
                 /\ w.at = workers[r].at /\ w.next = workers[r].next + 1
              \/ workers[r].next = ItemCount /\ after = "end" /\ w = Idle
              \/ workers[r].next = ItemCount /\ after # "end" /\ SameWork(w, workers[r]) /\ w.at = after /\ w.next = 1
<1>1. workers[r] \in Work /\ ItemCount \in Nat
  BY OnlineOrdersAssumption DEF OnlineTypeOK, WorkersTyped
<1>2. workers[r].next \in 1..ItemCount
  BY <1>1 DEF Work, Items
<1>3. CASE workers[r].next < ItemCount
  <2> DEFINE w == [workers[r] EXCEPT !.next = @ + 1]
  <2>1. workers[r].next + 1 \in Items
    BY <1>1, <1>2, <1>3 DEF Items
  <2>2. w \in Work /\ SameWork(w, workers[r]) /\ w.at = workers[r].at /\ w.next = workers[r].next + 1
    BY <1>1, <2>1 DEF Work, SameWork
  <2>3. Become(r, w)
    BY <1>3 DEF Step, Become
  <2>4. QED
    BY <1>3, <2>2, <2>3
<1>4. CASE ~(workers[r].next < ItemCount)
  <2>1. workers[r].next = ItemCount
    BY <1>1, <1>2, <1>4
  <2>2. CASE after = "end"
    BY <1>4, <2>1, <2>2, IdleType DEF Step, End
  <2>3. CASE after # "end"
    BY <1>4, <2>1, <2>3, GotoEffect DEF Step
  <2>4. QED
    BY <2>2, <2>3
<1>5. QED
  BY <1>3, <1>4

\* A handler that saved its copy ends, or goes on with the row it saved.
LEMMA SaveEffect ==
  ASSUME OnlineTypeOK, NEW r \in Workers, Save(r), NEW v, v = workers[r]
  PROVE  /\ v \in Work /\ WorkOK(v) /\ v.of \in Orders /\ v.at = "save"
         /\ orders' = [orders EXCEPT ![v.of] = v.copy]
         /\ lost' = [lost EXCEPT ![v.of] = @ \/ orders[v.of] # v.read]
         /\ UNCHANGED <<reserved, disputes, held, postings, cut>>
         /\ \E w \in Work :
              /\ Become(r, w) /\ WorkOK(w)
              /\ \/ w = Idle /\ v.job # "pay"
                 \/ w.at = "credit" /\ w.of = v.of /\ w.next = 1 /\ v.job = "pay"
                 \/ w.at \in {"earn", "release"} /\ w.of = v.of /\ w.next = 1 /\ v.job = "deliver"
<1>1. v \in Work /\ WorkOK(v) /\ v.at = "save" /\ 1 \in Items
  BY OnlineOrdersAssumption DEF OnlineTypeOK, WorkersTyped, Save, Items
<1>2. v.of \in Orders
  BY <1>1 DEF Work, WorkOK
<1>3. /\ orders' = [orders EXCEPT ![v.of] = v.copy]
      /\ lost' = [lost EXCEPT ![v.of] = @ \/ orders[v.of] # v.read]
      /\ UNCHANGED <<reserved, disputes, held, postings, cut>>
  BY DEF Save, Lose
<1>4. ASSUME NEW step \in Steps, Become(r, [v EXCEPT !.at = step, !.read = v.copy, !.next = 1])
      PROVE  \E w \in Work : /\ Become(r, w) /\ w.at = step /\ w.of = v.of /\ w.next = 1
                             /\ w.job = v.job /\ w.read = v.copy /\ w.copy = v.copy
  <2> DEFINE w == [v EXCEPT !.at = step, !.read = v.copy, !.next = 1]
  <2>1. /\ w \in Work /\ w.at = step /\ w.of = v.of /\ w.next = 1
        /\ w.job = v.job /\ w.read = v.copy /\ w.copy = v.copy
    BY <1>1 DEF Work
  <2>2. QED
    BY <1>4, <2>1
<1>5. CASE v.job = "pay"
  <2>1. Become(r, [v EXCEPT !.at = "credit", !.read = v.copy, !.next = 1])
    BY <1>5 DEF Save, AfterSave
  <2>2. PICK w \in Work : Become(r, w) /\ w.at = "credit" /\ w.of = v.of /\ w.next = 1
    BY <1>4, <2>1 DEF Steps
  <2>3. WorkOK(w)
    BY <1>2, <2>2, OnlineOrdersAssumption DEF WorkOK, CopySteps, DisputeSteps
  <2>4. QED
    BY <1>1, <1>2, <1>3, <1>5, <2>2, <2>3
<1>6. CASE v.job = "deliver"
  <2> DEFINE step == IF v.copy.released THEN "earn" ELSE "release"
  <2>1. Become(r, [v EXCEPT !.at = step, !.read = v.copy, !.next = 1])
    BY <1>6 DEF Save, AfterSave
  <2>2. step \in Steps /\ step \in {"earn", "release"} /\ (step = "release" => ~v.copy.released)
    BY DEF Steps, CopySteps
  <2> HIDE DEF step
  <2>3. PICK w \in Work : /\ Become(r, w) /\ w.at = step /\ w.of = v.of /\ w.next = 1
                          /\ w.job = v.job /\ w.read = v.copy /\ w.copy = v.copy
    BY <1>4, <2>1, <2>2
  <2>4. v.copy.status \notin Absent
    BY <1>1 DEF WorkOK, CopySteps, CopyOf
  <2>5. WorkOK(w)
    BY <1>2, <1>6, <2>2, <2>3, <2>4, OnlineOrdersAssumption DEF WorkOK, CopySteps, DisputeSteps, CopyOf, Unpaid
  <2>6. QED
    BY <1>1, <1>2, <1>3, <1>6, <2>2, <2>3, <2>5
<1>7. CASE v.job \notin {"pay", "deliver"}
  <2>1. Become(r, Idle)
    BY <1>7 DEF Save, AfterSave, End
  <2>2. QED
    BY <1>1, <1>2, <1>3, <1>7, <2>1, IdleType
<1>8. QED
  BY <1>5, <1>6, <1>7

\* A release of one item that the ledger does not refuse.
LEMMA ReleaseEffect ==
  ASSUME OnlineTypeOK, NEW r \in Workers, Release(r), NEW v, v = workers[r]
  PROVE  /\ v \in Work /\ WorkOK(v) /\ v.of \in Orders /\ v.at = "release"
         /\ lost' = [lost EXCEPT ![v.of] = @ \/ orders[v.of] # v.read
                       \/ \E s \in Workers \ {r} : Of(s) = v.of /\ At(s, "release")]
         /\ UNCHANGED <<orders, disputes, postings>>
         /\ \/ Become(r, Idle) /\ cut' = [cut EXCEPT ![v.of] = TRUE] /\ UNCHANGED <<reserved, held>>
            \/ /\ UNCHANGED cut
               /\ reserved[v.next] # 0 /\ reserved' = [reserved EXCEPT ![v.next] = @ - 1]
               /\ held' = [held EXCEPT ![v.of][v.next] = @ - 1]
               /\ \E w \in Work :
                    /\ Become(r, w) /\ WorkOK(w) /\ w.of = v.of
                    /\ \/ v.next < ItemCount /\ w.at = "release" /\ w.next = v.next + 1
                       \/ /\ v.next = ItemCount /\ w.at \in {"save", "saveReleased"}
                          /\ w.copy.released /\ ~w.read.released
<1>1. v \in Work /\ WorkOK(v) /\ v.at = "release" /\ 1 \in Items /\ ItemCount \in Nat
  BY OnlineOrdersAssumption DEF OnlineTypeOK, WorkersTyped, Release, Items
<1>2. v.of \in Orders /\ v.next \in 1..ItemCount /\ v.copy \in Row
  BY <1>1 DEF Work, WorkOK, Items
<1>3. lost' = [lost EXCEPT ![v.of] = @ \/ orders[v.of] # v.read
                 \/ \E s \in Workers \ {r} : Of(s) = v.of /\ At(s, "release")]
  BY DEF Release, Lose
<1>4. UNCHANGED <<orders, disputes, postings>>
  BY DEF Release
<1>5. CASE reserved[v.next] = 0
  BY <1>1, <1>2, <1>3, <1>4, <1>5 DEF Release, End, Cut
<1>6. CASE reserved[v.next] # 0
  <2>1. /\ reserved' = [reserved EXCEPT ![v.next] = @ - 1]
        /\ held' = [held EXCEPT ![v.of][v.next] = @ - 1]
        /\ UNCHANGED cut
    BY <1>6 DEF Release
  <2>2. CASE v.next < ItemCount
    <3> DEFINE w == [v EXCEPT !.next = @ + 1]
    <3>1. Become(r, w)
      BY <1>6, <2>2 DEF Release
    <3>2. v.next + 1 \in Items
      BY <1>1, <1>2, <2>2 DEF Items
    <3>3. /\ w \in Work /\ w.at = v.at /\ w.next = v.next + 1 /\ w.of = v.of /\ w.job = v.job
          /\ w.read = v.read /\ w.copy = v.copy
      BY <1>1, <3>2 DEF Work
    <3> HIDE DEF w
    <3>4. WorkOK(w)
      BY <1>1, <3>3 DEF WorkOK, CopySteps, DisputeSteps
    <3>5. QED
      BY <1>1, <1>2, <1>3, <1>4, <1>6, <2>1, <2>2, <3>1, <3>3, <3>4
  <2>3. CASE v.next = ItemCount
    <3> DEFINE step == IF v.job = "deliver" THEN "saveReleased" ELSE "save"
               copy == Released(v.copy)
               w == [v EXCEPT !.copy = copy, !.next = 1, !.at = step]
    <3>1. Become(r, w)
      BY <1>1, <1>2, <1>6, <2>3 DEF Release
    <3>2. /\ copy \in Row /\ copy.released /\ copy.status = v.copy.status /\ copy.pay = v.copy.pay
          /\ copy.method = v.copy.method
      BY <1>2 DEF Released, Row
    <3>3. step \in Steps /\ step \in {"save", "saveReleased"}
      BY DEF Steps, CopySteps
    <3>4. v.job = "deliver" => step = "saveReleased" /\ copy = Released(v.read)
      BY <1>1 DEF WorkOK
    <3>5. v.job # "deliver" => step = "save"
      OBVIOUS
    <3> HIDE DEF step, copy
    <3>6. /\ w \in Work /\ w.at = step /\ w.next = 1 /\ w.of = v.of /\ w.job = v.job
          /\ w.read = v.read /\ w.copy = copy
      BY <1>1, <3>2, <3>3 DEF Work
    <3> HIDE DEF w
    <3>7. /\ v.of # None /\ v.read.status \notin Absent /\ CopyOf(v.copy, v.read)
          /\ v.job \notin {"none", "create", "pay"} /\ Unpaid(v.copy, v.read) /\ ~v.read.released
      BY <1>1 DEF WorkOK, CopySteps
    <3>8. CopyOf(copy, v.read) /\ Unpaid(copy, v.read) /\ RowOK(copy)
      BY <3>2, <3>7 DEF CopyOf, Unpaid, RowOK
    <3>9. WorkOK(w)
      BY <3>2, <3>3, <3>4, <3>5, <3>6, <3>7, <3>8 DEF WorkOK, CopySteps, DisputeSteps
    <3>10. QED
      BY <1>1, <1>2, <1>3, <1>4, <1>6, <2>1, <2>3, <3>1, <3>2, <3>3, <3>6, <3>7, <3>9
  <2>4. QED
    BY <1>1, <1>2, <2>2, <2>3
<1>7. QED
  BY <1>5, <1>6

\* The deliverer's handler saves what it released.
LEMMA SaveReleasedEffect ==
  ASSUME OnlineTypeOK, NEW r \in Workers, SaveReleased(r), NEW v, v = workers[r]
  PROVE  /\ v \in Work /\ WorkOK(v) /\ v.of \in Orders /\ v.at = "saveReleased"
         /\ orders' = [orders EXCEPT ![v.of] = v.copy]
         /\ lost' = [lost EXCEPT ![v.of] = @ \/ orders[v.of] # v.read]
         /\ UNCHANGED <<reserved, disputes, held, postings, cut>>
         /\ \E w \in Work : Become(r, w) /\ WorkOK(w) /\ w.at = "earn" /\ w.of = v.of
<1>1. v \in Work /\ WorkOK(v) /\ v.at = "saveReleased" /\ Goto(r, "earn")
  BY DEF OnlineTypeOK, WorkersTyped, SaveReleased
<1>2. v.of \in Orders
  BY <1>1 DEF Work, WorkOK
<1>3. /\ orders' = [orders EXCEPT ![v.of] = v.copy]
      /\ lost' = [lost EXCEPT ![v.of] = @ \/ orders[v.of] # v.read]
      /\ UNCHANGED <<reserved, disputes, held, postings, cut>>
  BY DEF SaveReleased, Lose
<1>4. PICK w \in Work : Become(r, w) /\ SameWork(w, v) /\ w.at = "earn"
  BY <1>1, GotoEffect DEF Steps
<1>5. WorkOK(w) /\ w.of = v.of
  BY <1>2, <1>4, OnlineOrdersAssumption DEF WorkOK, SameWork, CopySteps, DisputeSteps
<1>6. QED
  BY <1>1, <1>2, <1>3, <1>4, <1>5

\* A dispute is closed before its order is saved.
LEMMA CloseDisputeEffect ==
  ASSUME OnlineTypeOK, NEW r \in Workers, CloseDispute(r), NEW v, v = workers[r]
  PROVE  /\ v \in Work /\ WorkOK(v) /\ v.of \in Orders /\ v.at = "closeDispute" /\ v.dispute = "OPEN"
         /\ disputes' = [disputes EXCEPT ![v.of] = IF v.job = "refund" THEN "REFUNDED" ELSE "RESOLVED"]
         /\ lost' = [lost EXCEPT ![v.of] = @ \/ disputes[v.of] # v.dispute]
         /\ UNCHANGED <<orders, reserved, held, postings, cut>>
         /\ \E w \in Work : /\ Become(r, w) /\ WorkOK(w) /\ w.of = v.of /\ w.at \in {"save", "release"}
                            /\ w.next = 1 /\ w.copy.released = w.read.released
<1>1. v \in Work /\ WorkOK(v) /\ v.at = "closeDispute"
  BY DEF OnlineTypeOK, WorkersTyped, CloseDispute
<1>2. /\ v.of \in Orders /\ v.dispute = "OPEN" /\ v.copy = v.read /\ v.copy \in Row /\ v.next = 1
      /\ v.job \in {"resolve", "refund"} /\ v.read.status \notin Absent
  BY <1>1 DEF Work, WorkOK, CopySteps, DisputeSteps
<1>3. /\ disputes' = [disputes EXCEPT ![v.of] = IF v.job = "refund" THEN "REFUNDED" ELSE "RESOLVED"]
      /\ lost' = [lost EXCEPT ![v.of] = @ \/ disputes[v.of] # v.dispute]
      /\ UNCHANGED <<orders, reserved, held, postings, cut>>
  BY DEF CloseDispute, Lose
<1> DEFINE copy == [v.copy EXCEPT !.status = IF v.job = "refund" THEN "CANCELLED" ELSE "DELIVERED"]
           step == ToRelease(copy)
           w == [v EXCEPT !.at = step, !.copy = copy]
<1>4. Become(r, w)
  BY DEF CloseDispute
<1>5. /\ copy \in Row /\ copy.status \in {"CANCELLED", "DELIVERED"} /\ copy.released = v.read.released
      /\ copy.pay = v.read.pay /\ copy.method = v.read.method
  BY <1>2 DEF Row, Statuses
<1>6. step \in Steps /\ step = (IF copy.released THEN "save" ELSE "release")
  BY DEF ToRelease, Steps, CopySteps
<1> HIDE DEF copy, step
<1>7. /\ w \in Work /\ w.at = step /\ w.next = 1 /\ w.of = v.of /\ w.job = v.job
      /\ w.read = v.read /\ w.copy = copy
  BY <1>1, <1>2, <1>5, <1>6 DEF Work
<1> HIDE DEF w
<1>8. CopyOf(copy, v.read) /\ Unpaid(copy, v.read) /\ (copy.released => RowOK(copy))
  BY <1>5 DEF CopyOf, Unpaid, RowOK, Absent
<1>9. WorkOK(w)
  BY <1>2, <1>5, <1>6, <1>7, <1>8, OnlineOrdersAssumption DEF WorkOK, CopySteps, DisputeSteps
<1>10. QED
  BY <1>1, <1>2, <1>3, <1>4, <1>5, <1>6, <1>7, <1>9

\* createFromCart inserts the row and reserves what it orders.
LEMMA PlaceOrderEffect ==
  ASSUME OnlineTypeOK, NEW r \in Workers, NEW o \in Orders, PlaceOrder(r, o)
  PROVE  /\ orders[o].status = "NOT_PLACED" /\ workers[r].at = "idle" /\ workers[r].of = None
         /\ UNCHANGED <<reserved, disputes, held, postings, accidents>>
         /\ \E row \in Row : /\ orders' = [orders EXCEPT ![o] = row]
                             /\ row.status = "PENDING" /\ ~row.released /\ row.pay = "UNPAID"
         /\ \E w \in Work : Become(r, w) /\ WorkOK(w) /\ w.at = "reserve" /\ w.of = o /\ w.next = 1
<1>1. PICK method \in Methods : /\ Start(r, o, "create", "reserve", NewRow(method))
                                /\ orders' = [orders EXCEPT ![o] = NewRow(method)]
  BY DEF PlaceOrder
<1>2. /\ NewRow(method) \in Row /\ NewRow(method).status = "PENDING" /\ ~NewRow(method).released
      /\ NewRow(method).pay = "UNPAID"
  BY DEF NewRow, NoRow, Row, Payments, Statuses, Drivers
<1>3. orders[o] \in Row /\ disputes[o] \in DisputeStatus /\ 1 \in Items /\ o # None
  BY OnlineOrdersAssumption DEF OnlineTypeOK, TablesTyped, Items
<1> DEFINE w == Handling(o, "create", "reserve", NewRow(method))
<1>4. w \in Work /\ w.at = "reserve" /\ w.of = o /\ w.next = 1
  BY <1>2, <1>3 DEF Handling, Work, Jobs, Steps
<1>5. Become(r, w) /\ At(r, "idle")
  BY <1>1 DEF Start
<1> HIDE DEF w
<1>6. WorkOK(w)
  BY <1>3, <1>4 DEF WorkOK, CopySteps, DisputeSteps
<1>7. workers[r].at = "idle" /\ workers[r].of = None
  BY <1>5 DEF At, WorkOK, OnlineTypeOK, WorkersTyped
<1>8. orders[o].status = "NOT_PLACED" /\ UNCHANGED <<reserved, disputes, held, postings, accidents>>
  BY DEF PlaceOrder
<1>9. QED
  BY <1>1, <1>2, <1>4, <1>5, <1>6, <1>7, <1>8

\* A pass of one of the loops: the next one follows, or the step after the loop.
Passes(r, step, after) ==
  /\ workers[r].at = step /\ workers[r].of \in Orders /\ workers[r].next \in Items
  /\ \E w \in Work :
       /\ Become(r, w) /\ WorkOK(w)
       /\ \/ /\ workers[r].next < ItemCount /\ SameWork(w, workers[r])
             /\ w.at = step /\ w.next = workers[r].next + 1
          \/ workers[r].next = ItemCount /\ after = "end" /\ w = Idle
          \/ workers[r].next = ItemCount /\ after # "end" /\ SameWork(w, workers[r]) /\ w.at = after /\ w.next = 1

\* Every loop over the items is one of passes.
LEMMA StepPasses ==
  ASSUME OnlineTypeOK, NEW r \in Workers, NEW step, NEW after, Step(r, after), workers[r].at = step,
         \/ step = "reserve" /\ after \in {"provider", "end"}
         \/ step \in {"credit", "earn"} /\ after = "end"
         \/ step = "clawback" /\ after = "refundBuyer"
  PROVE  Passes(r, step, after)
<1>1. workers[r] \in Work /\ WorkOK(workers[r]) /\ after \in Steps \cup {"end"}
  BY DEF OnlineTypeOK, WorkersTyped, Steps, CopySteps, DisputeSteps
<1>2. workers[r].of \in Orders /\ workers[r].next \in Items
  BY <1>1 DEF Work, WorkOK
<1>3. PICK w \in Work :
        /\ Become(r, w)
        /\ \/ /\ workers[r].next < ItemCount /\ SameWork(w, workers[r])
              /\ w.at = workers[r].at /\ w.next = workers[r].next + 1
           \/ workers[r].next = ItemCount /\ after = "end" /\ w = Idle
           \/ workers[r].next = ItemCount /\ after # "end" /\ SameWork(w, workers[r]) /\ w.at = after /\ w.next = 1
  BY <1>1, StepEffect
<1>4. CASE w = Idle
  BY <1>2, <1>3, <1>4, IdleType DEF Passes
<1>5. CASE SameWork(w, workers[r]) /\ w.at = step
  <2>1. WorkOK(w)
    BY <1>1, <1>2, <1>5, OnlineOrdersAssumption DEF WorkOK, SameWork, CopySteps, DisputeSteps
  <2>2. QED
    BY <1>2, <1>3, <1>5, <2>1 DEF Passes
<1>6. CASE SameWork(w, workers[r]) /\ after # "end" /\ w.at = after /\ w.next = 1
  <2>1. WorkOK(w)
    BY <1>1, <1>2, <1>6, OnlineOrdersAssumption DEF WorkOK, SameWork, CopySteps, DisputeSteps
  <2>2. QED
    BY <1>2, <1>3, <1>6, <2>1 DEF Passes
<1>7. QED
  BY <1>3, <1>4, <1>5, <1>6

\* A pass of the reservation.
LEMMA ReserveEffect ==
  ASSUME OnlineTypeOK, NEW r \in Workers, Reserve(r), NEW v, v = workers[r]
  PROVE  /\ reserved' = [reserved EXCEPT ![v.next] = @ + 1]
         /\ held' = [held EXCEPT ![v.of][v.next] = @ + 1]
         /\ UNCHANGED <<orders, disputes, postings, accidents>>
         /\ Passes(r, "reserve", "provider") \/ Passes(r, "reserve", "end")
<1>1. workers[r].at = "reserve" /\ (Step(r, "provider") \/ Step(r, "end"))
  BY DEF Reserve, At
<1>2. Passes(r, "reserve", "provider") \/ Passes(r, "reserve", "end")
  BY <1>1, StepPasses
<1>3. QED
  BY <1>2 DEF Reserve, Of

\* Where the clawbacks end the buyer is refunded.
LEMMA RefundBuyerEffect ==
  ASSUME OnlineTypeOK, NEW r \in Workers, RefundBuyer(r), NEW v, v = workers[r]
  PROVE  /\ v \in Work /\ WorkOK(v) /\ v.of \in Orders /\ v.at = "refundBuyer"
         /\ refunds' = [refunds EXCEPT ![v.of] = @ + 1]
         /\ UNCHANGED <<onlineTables, held, credited, delivered, clawed, accidents>>
         /\ \E w \in Work : /\ Become(r, w) /\ WorkOK(w) /\ w.at = "closeDispute" /\ w.of = v.of
                            /\ w.job = "refund" /\ w.next = 1
<1>1. v \in Work /\ WorkOK(v) /\ v.at = "refundBuyer" /\ Goto(r, "closeDispute")
  BY DEF OnlineTypeOK, WorkersTyped, RefundBuyer, At
<1>2. v.of \in Orders /\ v.job = "refund"
  BY <1>1 DEF Work, WorkOK
<1>3. PICK w \in Work : Become(r, w) /\ SameWork(w, v) /\ w.at = "closeDispute" /\ w.next = 1
  BY <1>1, GotoEffect DEF Steps, CopySteps, DisputeSteps
<1>4. WorkOK(w) /\ w.of = v.of /\ w.job = "refund"
  BY <1>1, <1>2, <1>3, OnlineOrdersAssumption DEF WorkOK, SameWork, CopySteps, DisputeSteps
<1>5. /\ refunds' = [refunds EXCEPT ![v.of] = @ + 1]
      /\ UNCHANGED <<onlineTables, held, credited, delivered, clawed, accidents>>
  BY DEF RefundBuyer, Of
<1>6. QED
  BY <1>1, <1>2, <1>3, <1>4, <1>5

\* The steps of the specification.
LEMMA StepKinds ==
  ASSUME OnlineTypeOK, DeliveriesNext
  PROVE  \/ \E r \in Workers :
              \/ \E o \in Orders : Begins(r, o) \/ PlaceOrder(r, o)
              \/ workers[r].at = "provider" /\ Become(r, Idle) /\ UNCHANGED <<onlineTables, held, postings, accidents>>
              \/ Save(r) \/ SaveReleased(r) \/ Reserve(r) \/ Release(r) \/ CreditVendor(r) \/ CreditDelivery(r)
              \/ Clawback(r) \/ RefundBuyer(r) \/ CloseDispute(r) \/ Crash(r)
         \/ \E o \in Orders : RejectAssignment(o) \/ HardDelete(o)
<1>1. ASSUME NEW r \in Workers, NEW o \in Orders,
             \/ LoadForPayment(r, o) \/ PaymentCallback(r, o)
             \/ CancelOrder(r, o) \/ UpdateItemStatus(r, o) \/ VendorUpdate(r, o)
             \/ DisputeOrder(r, o) \/ LoadForResolution(r, o) \/ LoadForRefund(r, o)
             \/ AssignDeliverer(r, o) \/ AcceptAssignment(r, o) \/ ConfirmPickup(r, o)
             \/ FailDelivery(r, o) \/ Deliver(r, o) \/ UpdateDeliveryStatus(r, o)
      PROVE  Begins(r, o)
  BY <1>1, LoadsBegin
<1>2. ASSUME NEW r \in Workers, ProviderDeclines(r) \/ ProviderApproves(r) \/ ProviderPends(r)
      PROVE  \/ \E o \in Orders : Begins(r, o)
             \/ workers[r].at = "provider" /\ Become(r, Idle) /\ UNCHANGED <<onlineTables, held, postings, accidents>>
  BY <1>2, AnswerEffect
<1>3. QED
  BY <1>1, <1>2 DEF DeliveriesNext, OrderHandlers, DeliveryHandlers

-------------------------------------------------------------------------------
(* Types *)

\* A row that is written is a row, and the others stay.
LEMMA WriteTyped ==
  ASSUME TablesTyped, NEW o \in Orders, NEW row \in Row, RowOK(row), orders' = [orders EXCEPT ![o] = row],
         reserved' \in [Items -> Nat], disputes' \in [Orders -> DisputeStatus]
  PROVE  TablesTyped'
<1>1. orders' \in [Orders -> Row] /\ \A p \in Orders : RowOK(orders'[p])
  BY DEF TablesTyped
<1>2. QED
  BY <1>1 DEF TablesTyped

\* Before anything is ordered everything is typed,
LEMMA OnlineTypeInit == OnlineInit => OnlineTypeOK
<1> SUFFICES ASSUME OnlineInit PROVE OnlineTypeOK
  OBVIOUS
<1>1. NoRow("NOT_PLACED") \in Row /\ RowOK(NoRow("NOT_PLACED"))
  BY NoRowType DEF Absent, RowOK
<1>2. TablesTyped
  <2>1. /\ orders = [o \in Orders |-> NoRow("NOT_PLACED")]
        /\ reserved = [i \in Items |-> 0] /\ disputes = [o \in Orders |-> "NONE"]
    BY DEF OnlineInit
  <2>2. orders \in [Orders -> Row] /\ \A o \in Orders : RowOK(orders[o])
    BY <1>1, <2>1
  <2>3. reserved \in [Items -> Nat] /\ disputes \in [Orders -> DisputeStatus]
    BY <2>1 DEF DisputeStatus
  <2>4. QED
    BY <2>2, <2>3 DEF TablesTyped
<1>3. WorkersTyped
  <2>1. workers = [r \in Workers |-> Idle]
    BY DEF OnlineInit
  <2>2. QED
    BY <2>1, IdleType DEF WorkersTyped
<1>4. HistoryTyped
  <2>1. PerItem(0) \in Counts(Nat) /\ PerItem(0) \in Counts(Int)
    BY DEF PerItem, Counts
  <2>2. QED
    BY <2>1 DEF OnlineInit, HistoryTyped
<1>5. QED
  BY <1>2, <1>3, <1>4 DEF OnlineTypeOK

\* What each kind of step does to the tables,
LEMMA TablesNext ==
  ASSUME OnlineTypeOK, DeliveriesNext
  PROVE  TablesTyped'
<1>0. TablesTyped /\ orders \in [Orders -> Row] /\ disputes \in [Orders -> DisputeStatus] /\ reserved \in [Items -> Nat]
  BY DEF OnlineTypeOK, TablesTyped
<1>1. ASSUME NEW r \in Workers, NEW o \in Orders, Begins(r, o)
      PROVE  TablesTyped'
  <2>1. disputes' \in [Orders -> DisputeStatus] /\ UNCHANGED <<orders, reserved>>
    BY <1>0, <1>1 DEF Begins, DisputeStatus
  <2>2. QED
    BY <1>0, <2>1 DEF TablesTyped
<1>2. ASSUME NEW r \in Workers, NEW o \in Orders, PlaceOrder(r, o)
      PROVE  TablesTyped'
  <2>1. PICK row \in Row : orders' = [orders EXCEPT ![o] = row] /\ row.status = "PENDING"
    BY <1>2, PlaceOrderEffect
  <2>2. UNCHANGED <<reserved, disputes>> /\ RowOK(row)
    BY <1>2, <2>1, PlaceOrderEffect DEF RowOK
  <2>3. QED
    BY <1>0, <2>1, <2>2, WriteTyped
<1>3. ASSUME NEW r \in Workers, Save(r)
      PROVE  TablesTyped'
  <2> DEFINE v == workers[r]
  <2>1. /\ v \in Work /\ WorkOK(v) /\ v.of \in Orders /\ v.at = "save"
        /\ orders' = [orders EXCEPT ![v.of] = v.copy] /\ UNCHANGED <<reserved, disputes>>
    BY <1>3, SaveEffect
  <2>2. v.copy \in Row /\ RowOK(v.copy)
    BY <2>1 DEF Work, WorkOK
  <2> HIDE DEF v
  <2>3. QED
    BY <1>0, <2>1, <2>2, WriteTyped
<1>4. ASSUME NEW r \in Workers, SaveReleased(r)
      PROVE  TablesTyped'
  <2> DEFINE v == workers[r]
  <2>1. /\ v \in Work /\ WorkOK(v) /\ v.of \in Orders /\ v.at = "saveReleased"
        /\ orders' = [orders EXCEPT ![v.of] = v.copy] /\ UNCHANGED <<reserved, disputes>>
    BY <1>4, SaveReleasedEffect
  <2>2. v.copy \in Row /\ v.read \in Row /\ v.copy = Released(v.read)
    BY <2>1 DEF Work, WorkOK
  <2>3. RowOK(v.copy)
    BY <2>2 DEF Released, Row, RowOK
  <2> HIDE DEF v
  <2>4. QED
    BY <1>0, <2>1, <2>2, <2>3, WriteTyped
<1>5. ASSUME NEW r \in Workers, Reserve(r)
      PROVE  TablesTyped'
  <2> DEFINE v == workers[r]
  <2>1. /\ v.next \in Items /\ UNCHANGED <<orders, disputes>>
        /\ reserved' = [reserved EXCEPT ![v.next] = @ + 1]
    BY <1>5, ReserveEffect DEF Passes
  <2> HIDE DEF v
  <2>2. reserved' \in [Items -> Nat]
    BY <1>0, <2>1
  <2>3. QED
    BY <1>0, <2>1, <2>2 DEF TablesTyped
<1>6. ASSUME NEW r \in Workers, Release(r)
      PROVE  TablesTyped'
  <2> DEFINE v == workers[r]
  <2>1. /\ v \in Work /\ UNCHANGED <<orders, disputes>>
        /\ \/ UNCHANGED reserved
           \/ reserved[v.next] # 0 /\ reserved' = [reserved EXCEPT ![v.next] = @ - 1]
    BY <1>6, ReleaseEffect
  <2>2. v.next \in Items
    BY <2>1 DEF Work
  <2>3. reserved' \in [Items -> Nat]
    BY <1>0, <2>1, <2>2
  <2>4. QED
    BY <1>0, <2>1, <2>3 DEF TablesTyped
<1>7. ASSUME NEW r \in Workers, CloseDispute(r)
      PROVE  TablesTyped'
  <2> DEFINE v == workers[r]
  <2>1. /\ UNCHANGED <<orders, reserved>>
        /\ disputes' = [disputes EXCEPT ![v.of] = IF v.job = "refund" THEN "REFUNDED" ELSE "RESOLVED"]
    BY <1>7, CloseDisputeEffect
  <2>2. disputes' \in [Orders -> DisputeStatus]
    BY <1>0, <2>1 DEF DisputeStatus
  <2>3. QED
    BY <1>0, <2>1, <2>2 DEF TablesTyped
<1>8. ASSUME UNCHANGED <<orders, reserved, disputes>>
      PROVE  TablesTyped'
  BY <1>0, <1>8 DEF TablesTyped
<1>9. ASSUME NEW o \in Orders, RejectAssignment(o)
      PROVE  TablesTyped'
  <2> DEFINE row == [orders[o] EXCEPT !.driver = "NONE", !.status = "PROCESSING"]
  <2>1. orders' = [orders EXCEPT ![o] = row] /\ UNCHANGED <<reserved, disputes>>
    BY <1>9 DEF RejectAssignment
  <2>2. row \in Row /\ RowOK(row)
    BY <1>0 DEF Row, Statuses, Drivers, RowOK
  <2> HIDE DEF row
  <2>3. QED
    BY <1>0, <2>1, <2>2, WriteTyped
<1>10. ASSUME NEW o \in Orders, HardDelete(o)
       PROVE  TablesTyped'
  <2> DEFINE row == NoRow("DELETED")
  <2>1. orders' = [orders EXCEPT ![o] = row] /\ UNCHANGED <<reserved, disputes>>
    BY <1>10 DEF HardDelete
  <2>2. row \in Row /\ RowOK(row)
    BY NoRowType DEF Absent, RowOK
  <2> HIDE DEF row
  <2>3. QED
    BY <1>0, <2>1, <2>2, WriteTyped
<1>11. ASSUME NEW r \in Workers, CreditVendor(r) \/ CreditDelivery(r) \/ Clawback(r) \/ RefundBuyer(r) \/ Crash(r)
       PROVE  UNCHANGED <<orders, reserved, disputes>>
  BY <1>11 DEF CreditVendor, CreditDelivery, Clawback, RefundBuyer, Crash, onlineTables
<1>12. QED
  BY <1>1, <1>2, <1>3, <1>4, <1>5, <1>6, <1>7, <1>8, <1>9, <1>10, <1>11, StepKinds DEF onlineTables

\* what it leaves handlers to do,
LEMMA WorkersNext ==
  ASSUME OnlineTypeOK, DeliveriesNext
  PROVE  WorkersTyped'
<1>0. WorkersTyped
  BY DEF OnlineTypeOK
<1>1. ASSUME NEW r \in Workers, Become(r, Idle)
      PROVE  WorkersTyped'
  BY <1>0, <1>1, IdleType, BecomeTyped
<1>2. ASSUME NEW r \in Workers,
             \/ \E o \in Orders : Begins(r, o) \/ PlaceOrder(r, o)
             \/ Save(r) \/ SaveReleased(r) \/ Reserve(r) \/ CreditVendor(r) \/ CreditDelivery(r)
             \/ Clawback(r) \/ RefundBuyer(r) \/ CloseDispute(r)
      PROVE  \E w \in Work : Become(r, w) /\ WorkOK(w)
  <2>1. ASSUME NEW o \in Orders, Begins(r, o) \/ PlaceOrder(r, o)
        PROVE  \E w \in Work : Become(r, w) /\ WorkOK(w)
    BY <2>1, PlaceOrderEffect DEF Begins
  <2>2. ASSUME Save(r) \/ SaveReleased(r) \/ RefundBuyer(r) \/ CloseDispute(r)
        PROVE  \E w \in Work : Become(r, w) /\ WorkOK(w)
    BY <2>2, SaveEffect, SaveReleasedEffect, RefundBuyerEffect, CloseDisputeEffect
  <2>3. ASSUME Reserve(r)
        PROVE  \E w \in Work : Become(r, w) /\ WorkOK(w)
    BY <2>3, ReserveEffect DEF Passes
  <2>4. ASSUME CreditVendor(r) \/ CreditDelivery(r) \/ Clawback(r)
        PROVE  \E w \in Work : Become(r, w) /\ WorkOK(w)
    <3>1. \/ workers[r].at = "credit" /\ Step(r, "end")
          \/ workers[r].at = "earn" /\ Step(r, "end")
          \/ workers[r].at = "clawback" /\ Step(r, "refundBuyer")
      BY <2>4 DEF CreditVendor, CreditDelivery, Clawback, At
    <3>2. Passes(r, "credit", "end") \/ Passes(r, "earn", "end") \/ Passes(r, "clawback", "refundBuyer")
      BY <3>1, StepPasses
    <3>3. QED
      BY <3>2 DEF Passes
  <2>5. QED
    BY <1>2, <2>1, <2>2, <2>3, <2>4
<1>3. ASSUME NEW r \in Workers, Release(r)
      PROVE  \E w \in Work : Become(r, w) /\ WorkOK(w)
  BY <1>3, ReleaseEffect, IdleType
<1>4. ASSUME NEW r \in Workers, Crash(r)
      PROVE  Become(r, Idle)
  BY <1>4 DEF Crash, End
<1>5. ASSUME NEW o \in Orders, RejectAssignment(o) \/ HardDelete(o)
      PROVE  WorkersTyped'
  BY <1>0, <1>5 DEF RejectAssignment, HardDelete, WorkersTyped
<1>6. QED
  BY <1>0, <1>1, <1>2, <1>3, <1>4, <1>5, StepKinds, BecomeTyped

\* Counters go up and down in their types.
LEMMA CountTyped ==
  ASSUME NEW o \in Orders, NEW i \in Items
  PROVE  /\ \A c \in Counts(Nat) : [c EXCEPT ![o][i] = @ + 1] \in Counts(Nat)
         /\ \A c \in Counts(Int) : /\ [c EXCEPT ![o][i] = @ + 1] \in Counts(Int)
                                   /\ [c EXCEPT ![o][i] = @ - 1] \in Counts(Int)
<1>1. \A c \in Counts(Nat) : c[o][i] + 1 \in Nat
  BY DEF Counts
<1>2. \A c \in Counts(Int) : c[o][i] + 1 \in Int /\ c[o][i] - 1 \in Int
  BY DEF Counts
<1>3. \A c \in Counts(Nat) : [c EXCEPT ![o][i] = @ + 1] \in Counts(Nat)
  BY <1>1 DEF Counts
<1>4. \A c \in Counts(Int) : /\ [c EXCEPT ![o][i] = @ + 1] \in Counts(Int)
                             /\ [c EXCEPT ![o][i] = @ - 1] \in Counts(Int)
  BY <1>2 DEF Counts
<1>5. QED
  BY <1>3, <1>4

\* and what it counts.
LEMMA HistoryNext ==
  ASSUME OnlineTypeOK, DeliveriesNext
  PROVE  HistoryTyped'
<1>0. /\ held \in Counts(Int)
      /\ credited \in Counts(Nat) /\ delivered \in Counts(Nat) /\ clawed \in Counts(Nat)
      /\ refunds \in [Orders -> Nat]
      /\ lost \in [Orders -> BOOLEAN] /\ cut \in [Orders -> BOOLEAN]
  BY DEF OnlineTypeOK, HistoryTyped
<1>1. ASSUME UNCHANGED <<held, postings>>, lost' \in [Orders -> BOOLEAN], cut' \in [Orders -> BOOLEAN]
      PROVE  HistoryTyped'
  BY <1>0, <1>1 DEF HistoryTyped, postings
<1>2. ASSUME NEW r \in Workers, NEW o \in Orders, Begins(r, o) \/ PlaceOrder(r, o)
      PROVE  UNCHANGED <<held, postings, accidents>>
  BY <1>2 DEF Begins, PlaceOrder
<1>3. ASSUME NEW r \in Workers, Save(r) \/ SaveReleased(r) \/ CloseDispute(r)
      PROVE  UNCHANGED <<held, postings, cut>> /\ lost' \in [Orders -> BOOLEAN]
  <2>1. UNCHANGED <<held, postings, cut>>
    BY <1>3 DEF Save, SaveReleased, CloseDispute
  <2>2. CASE Save(r) \/ SaveReleased(r)
    <3>1. lost' = [lost EXCEPT ![workers[r].of] = @ \/ orders[workers[r].of] # workers[r].read]
      BY <2>2 DEF Save, SaveReleased, Lose
    <3>2. QED
      BY <1>0, <2>1, <3>1
  <2>3. CASE CloseDispute(r)
    <3>1. lost' = [lost EXCEPT ![workers[r].of] = @ \/ disputes[workers[r].of] # workers[r].dispute]
      BY <2>3 DEF CloseDispute, Lose
    <3>2. QED
      BY <1>0, <2>1, <3>1
  <2>4. QED
    BY <1>3, <2>2, <2>3
<1>4. ASSUME NEW r \in Workers, Reserve(r)
      PROVE  HistoryTyped'
  <2> DEFINE v == workers[r]
  <2>1. /\ held' = [held EXCEPT ![v.of][v.next] = @ + 1] /\ UNCHANGED <<postings, accidents>>
        /\ v.of \in Orders /\ v.next \in Items
    BY <1>4, ReserveEffect DEF Passes
  <2> HIDE DEF v
  <2>2. held' \in Counts(Int)
    BY <1>0, <2>1, CountTyped
  <2>3. QED
    BY <1>0, <2>1, <2>2 DEF HistoryTyped, postings, accidents
<1>5. ASSUME NEW r \in Workers, Release(r)
      PROVE  HistoryTyped'
  <2> DEFINE v == workers[r]
  <2>1. /\ v \in Work /\ v.of \in Orders /\ UNCHANGED postings
        /\ lost' = [lost EXCEPT ![v.of] = @ \/ orders[v.of] # v.read
                      \/ \E s \in Workers \ {r} : Of(s) = v.of /\ At(s, "release")]
        /\ \/ cut' = [cut EXCEPT ![v.of] = TRUE] /\ UNCHANGED held
           \/ held' = [held EXCEPT ![v.of][v.next] = @ - 1] /\ UNCHANGED cut
    BY <1>5, ReleaseEffect
  <2>2. v.next \in Items
    BY <2>1 DEF Work
  <2> DEFINE late == orders[v.of] # v.read \/ \E s \in Workers \ {r} : Of(s) = v.of /\ At(s, "release")
  <2>3. late \in BOOLEAN
    OBVIOUS
  <2>4. lost' = [lost EXCEPT ![v.of] = @ \/ late]
    BY <2>1
  <2> HIDE DEF v, late
  <2>5. lost' \in [Orders -> BOOLEAN]
    BY <1>0, <2>3, <2>4, Zenon
  <2>6. cut' \in [Orders -> BOOLEAN]
    BY <1>0, <2>1
  <2>7. [held EXCEPT ![v.of][v.next] = @ - 1] \in Counts(Int)
    BY <1>0, <2>1, <2>2, CountTyped
  <2>8. QED
    BY <1>0, <2>1, <2>5, <2>6, <2>7 DEF HistoryTyped, postings
<1>6. ASSUME NEW r \in Workers, CreditVendor(r) \/ CreditDelivery(r) \/ Clawback(r)
      PROVE  HistoryTyped'
  <2> DEFINE v == workers[r]
  <2>1. \/ workers[r].at = "credit" /\ Step(r, "end")
        \/ workers[r].at = "earn" /\ Step(r, "end")
        \/ workers[r].at = "clawback" /\ Step(r, "refundBuyer")
    BY <1>6 DEF CreditVendor, CreditDelivery, Clawback, At
  <2>2. Passes(r, "credit", "end") \/ Passes(r, "earn", "end") \/ Passes(r, "clawback", "refundBuyer")
    BY <2>1, StepPasses
  <2>3. v.of \in Orders /\ v.next \in Items
    BY <2>2 DEF Passes
  <2>4. /\ UNCHANGED <<held, refunds, lost>>
        /\ credited' \in {credited, [credited EXCEPT ![v.of][v.next] = @ + 1]}
        /\ delivered' \in {delivered, [delivered EXCEPT ![v.of][v.next] = @ + 1]}
        /\ clawed' \in {clawed, [clawed EXCEPT ![v.of][v.next] = @ + 1]}
        /\ cut' \in {cut, [cut EXCEPT ![v.of] = TRUE]}
    BY <1>6 DEF CreditVendor, CreditDelivery, Clawback, Cut, Of, accidents
  <2> HIDE DEF v
  <2>5. credited' \in Counts(Nat) /\ delivered' \in Counts(Nat) /\ clawed' \in Counts(Nat)
    <3>1. \A c \in Counts(Nat) : [c EXCEPT ![v.of][v.next] = @ + 1] \in Counts(Nat)
      BY <2>3, CountTyped
    <3>2. QED
      BY <1>0, <2>4, <3>1
  <2>6. cut' \in [Orders -> BOOLEAN]
    BY <1>0, <2>4
  <2>7. QED
    BY <1>0, <2>4, <2>5, <2>6 DEF HistoryTyped
<1>7. ASSUME NEW r \in Workers, RefundBuyer(r)
      PROVE  HistoryTyped'
  <2> DEFINE v == workers[r]
  <2>1. /\ refunds' = [refunds EXCEPT ![v.of] = @ + 1] /\ v.of \in Orders
        /\ UNCHANGED <<held, credited, delivered, clawed, accidents>>
    BY <1>7, RefundBuyerEffect
  <2> HIDE DEF v
  <2>2. refunds' \in [Orders -> Nat]
    BY <1>0, <2>1
  <2>3. QED
    BY <1>0, <2>1, <2>2 DEF HistoryTyped, accidents
<1>8. ASSUME NEW r \in Workers, Crash(r)
      PROVE  UNCHANGED <<held, postings, lost>> /\ cut' \in [Orders -> BOOLEAN]
  BY <1>0, <1>8 DEF Crash, Cut
<1>9. ASSUME NEW o \in Orders, RejectAssignment(o) \/ HardDelete(o)
      PROVE  UNCHANGED <<held, postings, accidents>>
  BY <1>9 DEF RejectAssignment, HardDelete
<1>10. QED
  BY <1>0, <1>1, <1>2, <1>3, <1>4, <1>5, <1>6, <1>7, <1>8, <1>9, StepKinds DEF accidents

\* and no step breaks a type.
LEMMA OnlineTypeNext ==
  ASSUME OnlineTypeOK, [DeliveriesNext]_onlineVars
  PROVE  OnlineTypeOK'
<1>1. CASE DeliveriesNext
  BY <1>1, TablesNext, WorkersNext, HistoryNext DEF OnlineTypeOK
<1>2. CASE UNCHANGED onlineVars
  BY <1>2 DEF onlineVars, onlineTables, postings, accidents, OnlineTypeOK, TablesTyped, WorkersTyped, HistoryTyped
<1>3. QED
  BY <1>1, <1>2

\* Every row, dispute and counter has its type; whatever a handler holds in
\* memory fits the step it is at.
THEOREM OnlineTypeCorrect == DeliveriesSpec => []OnlineTypeOK
<1>1. QED
  BY OnlineTypeInit, OnlineTypeNext, PTL DEF DeliveriesSpec

\* No cancelled order holds stock: whoever writes CANCELLED releases first.
THEOREM CancelledOrdersHoldNothing == DeliveriesSpec => []CancelledHoldsNothing
<1>1. OnlineTypeOK => CancelledHoldsNothing
  BY DEF OnlineTypeOK, TablesTyped, RowOK, CancelledHoldsNothing
<1>2. QED
  BY <1>1, OnlineTypeCorrect, PTL

-------------------------------------------------------------------------------
(* Steps as one order sees them: the handler `r` does `v` and goes on with `w` *)

RowStays(o) == orders'[o] = orders[o]
DisputeStays(o) == disputes'[o] = disputes[o]
HeldStays(o) == held'[o] = held[o]
CreditStays(o) == credited'[o] = credited[o]
RefundStays(o) == clawed'[o] = clawed[o] /\ refunds'[o] = refunds[o]
BooksStay(o) == HeldStays(o) /\ CreditStays(o) /\ RefundStays(o)
MarksStay(o) == lost'[o] = lost[o] /\ cut'[o] = cut[o]
\* What was lost or cut stays so.
MarksGrow(o) == (lost[o] => lost'[o]) /\ (cut[o] => cut'[o])
OneMore(c, d, n) == \A i \in Items : d[i] = IF i = n THEN c[i] + 1 ELSE c[i]
OneLess(c, d, n) == \A i \in Items : d[i] = IF i = n THEN c[i] - 1 ELSE c[i]

Moves(r, v, w) ==
  /\ v \in Work /\ WorkOK(v) /\ w \in Work /\ WorkOK(w)
  /\ v = workers[r] /\ workers'[r] = w
  /\ \A s \in Workers \ {r} : workers'[s] = workers[s]

Untouched(o) ==
  /\ RowStays(o) /\ DisputeStays(o) /\ BooksStay(o) /\ MarksStay(o)
  /\ \A s \in Workers : workers'[s] = workers[s] \/ (workers[s].of # o /\ workers'[s].of # o)

\* RejectAssignment and HardDelete.
Rejected(o) ==
  /\ Exists(o) /\ orders'[o].status = "PROCESSING"
  /\ orders'[o].pay = orders[o].pay /\ orders'[o].method = orders[o].method
  /\ orders'[o].released = orders[o].released
  /\ DisputeStays(o) /\ BooksStay(o) /\ MarksStay(o) /\ UNCHANGED workers
Deleted(o) ==
  /\ Exists(o) /\ orders'[o].status = "DELETED"
  /\ DisputeStays(o) /\ BooksStay(o) /\ MarksStay(o) /\ UNCHANGED workers

Begun(o, v, w) ==
  /\ Exists(o) /\ v.at \in {"idle", "provider"} /\ v.of \in {None, o}
  /\ w.of = o /\ w.next = 1 /\ w.at \in {"save", "release", "clawback", "closeDispute"}
  /\ w.at = "save" => w.copy.released = w.read.released
  /\ w.at \in DisputeSteps => disputes[o] = "OPEN" /\ (w.job = "refund" => w.at = "clawback")
  /\ disputes'[o] = disputes[o] \/ (disputes[o] = "NONE" /\ disputes'[o] = "OPEN")
  /\ RowStays(o) /\ BooksStay(o) /\ MarksStay(o)

Placed(o, v, w) ==
  /\ orders[o].status = "NOT_PLACED" /\ v.at = "idle" /\ v.of = None
  /\ orders'[o].status = "PENDING" /\ ~orders'[o].released /\ orders'[o].pay = "UNPAID"
  /\ w.at = "reserve" /\ w.of = o /\ w.next = 1
  /\ DisputeStays(o) /\ BooksStay(o) /\ MarksStay(o)

\* The provider's answer changes nothing, or a delivery is credited.
Passed(o, v, w) ==
  /\ v.at \in {"provider", "earn"} /\ w.at \in {"idle", "earn"} /\ w.of \in {None, o}
  /\ RowStays(o) /\ DisputeStays(o) /\ BooksStay(o) /\ MarksGrow(o)

Died(o, w) ==
  /\ w = Idle /\ cut'[o]
  /\ RowStays(o) /\ DisputeStays(o) /\ BooksStay(o) /\ MarksGrow(o)

\* Save and SaveReleased.
Saved(o, v, w) ==
  /\ v.at \in {"save", "saveReleased"}
  /\ orders'[o] = v.copy /\ MarksGrow(o) /\ (~lost'[o] => orders[o] = v.read)
  /\ w.at \in {"idle", "credit", "earn", "release"} /\ w.of \in {None, o}
  /\ w.at = "credit" <=> v.job = "pay"
  /\ w.at \in {"credit", "release"} => w.next = 1
  /\ DisputeStays(o) /\ BooksStay(o)

Reserved(o, v, w) ==
  /\ v.at = "reserve"
  /\ OneMore(held[o], held'[o], v.next)
  /\ \/ v.next < ItemCount /\ w.of = o /\ w.at = "reserve" /\ w.next = v.next + 1
     \/ v.next = ItemCount /\ w.at \in {"idle", "provider"} /\ w.of \in {None, o}
  /\ RowStays(o) /\ DisputeStays(o) /\ CreditStays(o) /\ RefundStays(o) /\ MarksStay(o)

LetGoOf(o, r, v, w) ==
  /\ v.at = "release"
  /\ ~lost'[o] => orders[o] = v.read /\ \A s \in Workers \ {r} : ~(workers[s].of = o /\ workers[s].at = "release")
  /\ OneLess(held[o], held'[o], v.next)
  /\ w.of = o
  /\ \/ v.next < ItemCount /\ w.at = "release" /\ w.next = v.next + 1
     \/ v.next = ItemCount /\ w.at \in {"save", "saveReleased"} /\ w.copy.released /\ ~w.read.released
  /\ RowStays(o) /\ DisputeStays(o) /\ CreditStays(o) /\ RefundStays(o) /\ MarksGrow(o)

CreditedOne(o, v, w) ==
  /\ v.at = "credit"
  /\ cut'[o] \/ OneMore(credited[o], credited'[o], v.next)
  /\ \/ v.next < ItemCount /\ w.of = o /\ w.at = "credit" /\ w.next = v.next + 1
     \/ v.next = ItemCount /\ w = Idle
  /\ RowStays(o) /\ DisputeStays(o) /\ HeldStays(o) /\ RefundStays(o) /\ MarksGrow(o)

ClawedOne(o, v, w) ==
  /\ v.at = "clawback"
  /\ OneMore(clawed[o], clawed'[o], v.next) /\ refunds'[o] = refunds[o]
  /\ w.of = o /\ w.job = "refund"
  /\ \/ v.next < ItemCount /\ w.at = "clawback" /\ w.next = v.next + 1
     \/ v.next = ItemCount /\ w.at = "refundBuyer"
  /\ RowStays(o) /\ DisputeStays(o) /\ HeldStays(o) /\ CreditStays(o) /\ MarksStay(o)

Refunded(o, v, w) ==
  /\ v.at = "refundBuyer" /\ w.at = "closeDispute" /\ w.of = o /\ w.job = "refund"
  /\ refunds'[o] = refunds[o] + 1 /\ clawed'[o] = clawed[o]
  /\ RowStays(o) /\ DisputeStays(o) /\ HeldStays(o) /\ CreditStays(o) /\ MarksStay(o)

Closed(o, v, w) ==
  /\ v.at = "closeDispute"
  /\ disputes'[o] = IF v.job = "refund" THEN "REFUNDED" ELSE "RESOLVED"
  /\ MarksGrow(o) /\ (~lost'[o] => disputes[o] = "OPEN")
  /\ w.of = o /\ w.at \in {"save", "release"} /\ w.next = 1 /\ w.copy.released = w.read.released
  /\ RowStays(o) /\ BooksStay(o)

StepOf(o, r, v, w) ==
  \/ Begun(o, v, w) \/ Placed(o, v, w)
  \/ v.of = o /\ ( \/ Passed(o, v, w) \/ Died(o, w) \/ Saved(o, v, w) \/ Reserved(o, v, w) \/ LetGoOf(o, r, v, w)
                   \/ CreditedOne(o, v, w) \/ ClawedOne(o, v, w) \/ Refunded(o, v, w) \/ Closed(o, v, w) )

Seen(o) ==
  \/ Untouched(o) \/ Rejected(o) \/ Deleted(o)
  \/ \E r \in Workers : \E v, w \in Work : Moves(r, v, w) /\ StepOf(o, r, v, w)

\* A handler that becomes something moves.
LEMMA BecomeMoves ==
  ASSUME OnlineTypeOK, NEW r \in Workers, NEW w \in Work, WorkOK(w), Become(r, w)
  PROVE  Moves(r, workers[r], w)
BY BecomeEffect DEF OnlineTypeOK, WorkersTyped, Moves

\* A handler of another order leaves an order alone.
LEMMA OthersUntouched ==
  ASSUME NEW o \in Orders, NEW r \in Workers, NEW v, NEW w, Moves(r, v, w), v.of # o, w.of # o,
         RowStays(o), DisputeStays(o), BooksStay(o), MarksStay(o)
  PROVE  Seen(o)
BY DEF Moves, Untouched, Seen

\* Counting for one item of one order leaves every other count alone.
LEMMA CountsEach ==
  ASSUME NEW S, NEW c \in Counts(S), NEW d, NEW p \in Orders, NEW n \in Items
  PROVE  /\ d = [c EXCEPT ![p][n] = @ + 1] =>
              OneMore(c[p], d[p], n) /\ \A o \in Orders \ {p} : d[o] = c[o]
         /\ d = [c EXCEPT ![p][n] = @ - 1] =>
              OneLess(c[p], d[p], n) /\ \A o \in Orders \ {p} : d[o] = c[o]
BY DEF Counts, OneMore, OneLess

\* The types that reading one order's entry takes.
LEMMA HistoryShape ==
  ASSUME OnlineTypeOK
  PROVE  /\ held \in Counts(Int) /\ credited \in Counts(Nat) /\ clawed \in Counts(Nat)
         /\ refunds \in [Orders -> Nat] /\ lost \in [Orders -> BOOLEAN] /\ cut \in [Orders -> BOOLEAN]
         /\ orders \in [Orders -> Row] /\ disputes \in [Orders -> DisputeStatus]
BY DEF OnlineTypeOK, HistoryTyped, TablesTyped

\* A handler that begins is seen by its order, and by no other.
LEMMA BeginsSeen ==
  ASSUME OnlineTypeOK, NEW o \in Orders, NEW r \in Workers, NEW p \in Orders, Begins(r, p)
  PROVE  Seen(o)
<1>1. PICK w \in Work :
       /\ WorkOK(w) /\ Become(r, w) /\ w.of = p /\ w.next = 1
       /\ w.at \in {"save", "release", "clawback", "closeDispute"}
       /\ w.at = "save" => w.copy.released = w.read.released
       /\ w.at \in DisputeSteps => disputes[p] = "OPEN" /\ (w.job = "refund" => w.at = "clawback")
  BY DEF Begins
<1> DEFINE v == workers[r]
<1>2. Moves(r, v, w)
  BY <1>1, BecomeMoves
<1>3. /\ Exists(p) /\ v.at \in {"idle", "provider"} /\ v.of \in {None, p}
      /\ RowStays(o) /\ BooksStay(o) /\ MarksStay(o)
      /\ disputes' = disputes \/ (disputes[p] = "NONE" /\ disputes' = [disputes EXCEPT ![p] = "OPEN"])
  BY DEF Begins, RowStays, BooksStay, HeldStays, CreditStays, RefundStays, MarksStay, postings, accidents
<1> HIDE DEF v
<1>4. CASE o = p
  <2>1. disputes'[o] = disputes[o] \/ (disputes[o] = "NONE" /\ disputes'[o] = "OPEN")
    BY <1>3, <1>4, HistoryShape
  <2>2. Begun(o, v, w)
    BY <1>1, <1>3, <1>4, <2>1 DEF Begun
  <2>3. v \in Work
    BY <1>2 DEF Moves
  <2>4. QED
    BY <1>2, <2>2, <2>3 DEF Seen, StepOf
<1>5. CASE o # p
  <2>1. v.of # o /\ w.of # o /\ DisputeStays(o)
    BY <1>1, <1>3, <1>5, HistoryShape, OnlineOrdersAssumption DEF DisputeStays
  <2>2. QED
    BY <1>2, <1>3, <2>1, OthersUntouched
<1>6. QED
  BY <1>4, <1>5

\* So is the placing of an order,
LEMMA PlaceOrderSeen ==
  ASSUME OnlineTypeOK, NEW o \in Orders, NEW r \in Workers, NEW p \in Orders, PlaceOrder(r, p)
  PROVE  Seen(o)
<1>1. /\ orders[p].status = "NOT_PLACED" /\ workers[r].at = "idle" /\ workers[r].of = None
      /\ UNCHANGED <<reserved, disputes, held, postings, accidents>>
  BY PlaceOrderEffect
<1>2. PICK row \in Row : /\ orders' = [orders EXCEPT ![p] = row]
                         /\ row.status = "PENDING" /\ ~row.released /\ row.pay = "UNPAID"
  BY PlaceOrderEffect
<1>3. PICK w \in Work : Become(r, w) /\ WorkOK(w) /\ w.at = "reserve" /\ w.of = p /\ w.next = 1
  BY PlaceOrderEffect
<1> DEFINE v == workers[r]
<1>4. Moves(r, v, w)
  BY <1>3, BecomeMoves
<1>5. DisputeStays(o) /\ BooksStay(o) /\ MarksStay(o)
  BY <1>1 DEF DisputeStays, BooksStay, HeldStays, CreditStays, RefundStays, MarksStay, postings, accidents
<1>6. v.at = "idle" /\ v.of = None
  BY <1>1
<1>7. v \in Work
  BY <1>4 DEF Moves
<1> HIDE DEF v
<1>8. CASE o = p
  <2>1. orders'[o] = row
    BY <1>2, <1>8, HistoryShape
  <2>2. Placed(o, v, w)
    BY <1>1, <1>2, <1>3, <1>5, <1>6, <1>8, <2>1 DEF Placed
  <2>3. QED
    BY <1>4, <1>7, <2>2 DEF Seen, StepOf
<1>9. CASE o # p
  <2>1. v.of # o /\ w.of # o /\ RowStays(o)
    BY <1>2, <1>3, <1>6, <1>9, HistoryShape, OnlineOrdersAssumption DEF RowStays
  <2>2. QED
    BY <1>4, <1>5, <2>1, OthersUntouched
<1>10. QED
  BY <1>8, <1>9

\* the save of a row,
LEMMA SaveSeen ==
  ASSUME OnlineTypeOK, NEW o \in Orders, NEW r \in Workers, Save(r) \/ SaveReleased(r)
  PROVE  Seen(o)
<1> DEFINE v == workers[r]
<1>1. /\ v \in Work /\ WorkOK(v) /\ v.of \in Orders /\ v.at \in {"save", "saveReleased"}
      /\ orders' = [orders EXCEPT ![v.of] = v.copy]
      /\ lost' = [lost EXCEPT ![v.of] = @ \/ orders[v.of] # v.read]
      /\ UNCHANGED <<reserved, disputes, held, postings, cut>>
  BY SaveEffect, SaveReleasedEffect
<1>2. PICK w \in Work : /\ Become(r, w) /\ WorkOK(w) /\ w.of \in {v.of, None}
                        /\ w.at \in {"idle", "credit", "earn", "release"}
                        /\ w.at = "credit" <=> v.job = "pay"
                        /\ w.at \in {"credit", "release"} => w.next = 1
  <2>1. CASE Save(r)
    BY <2>1, SaveEffect, IdleType
  <2>2. CASE SaveReleased(r)
    <3>1. v.job # "pay"
      BY <2>2, SaveReleasedEffect DEF WorkOK
    <3>2. QED
      BY <2>2, <3>1, SaveReleasedEffect
  <2>3. QED
    BY <2>1, <2>2
<1>3. Moves(r, v, w)
  BY <1>2, BecomeMoves
<1>4. DisputeStays(o) /\ BooksStay(o) /\ cut'[o] = cut[o]
  BY <1>1 DEF DisputeStays, BooksStay, HeldStays, CreditStays, RefundStays, postings
<1> HIDE DEF v
<1>5. CASE o = v.of
  <2>1. orders'[o] = v.copy
    BY <1>1, <1>5, HistoryShape
  <2>2. (lost[o] => lost'[o]) /\ (~lost'[o] => orders[o] = v.read)
    BY <1>1, <1>5, HistoryShape
  <2>3. Saved(o, v, w)
    BY <1>1, <1>2, <1>4, <1>5, <2>1, <2>2 DEF Saved, MarksGrow
  <2>4. QED
    BY <1>1, <1>3, <1>5, <2>3 DEF Seen, StepOf
<1>6. CASE o # v.of
  <2>1. RowStays(o) /\ MarksStay(o)
    BY <1>1, <1>4, <1>6, HistoryShape DEF RowStays, MarksStay
  <2>2. w.of # o
    BY <1>2, <1>6, OnlineOrdersAssumption
  <2>3. QED
    BY <1>3, <1>4, <1>6, <2>1, <2>2, OthersUntouched
<1>7. QED
  BY <1>5, <1>6

\* a pass of the reservation,
LEMMA ReserveSeen ==
  ASSUME OnlineTypeOK, NEW o \in Orders, NEW r \in Workers, Reserve(r)
  PROVE  Seen(o)
<1> DEFINE v == workers[r]
<1>1. /\ held' = [held EXCEPT ![v.of][v.next] = @ + 1]
      /\ UNCHANGED <<orders, disputes, postings, accidents>>
      /\ v.at = "reserve" /\ v.of \in Orders /\ v.next \in Items
  BY ReserveEffect DEF Passes
<1>2. PICK w \in Work : /\ Become(r, w) /\ WorkOK(w)
                        /\ \/ v.next < ItemCount /\ w.of = v.of /\ w.at = "reserve" /\ w.next = v.next + 1
                           \/ v.next = ItemCount /\ w.at \in {"idle", "provider"} /\ w.of \in {None, v.of}
  BY ReserveEffect, IdleType DEF Passes, SameWork
<1>3. Moves(r, v, w)
  BY <1>2, BecomeMoves
<1>4. RowStays(o) /\ DisputeStays(o) /\ CreditStays(o) /\ RefundStays(o) /\ MarksStay(o)
  BY <1>1 DEF RowStays, DisputeStays, CreditStays, RefundStays, MarksStay, postings, accidents
<1>5. v \in Work
  BY <1>3 DEF Moves
<1> HIDE DEF v
<1>6. CASE o = v.of
  <2>1. OneMore(held[o], held'[o], v.next)
    BY <1>1, <1>6, HistoryShape, CountsEach
  <2>2. Reserved(o, v, w)
    BY <1>1, <1>2, <1>4, <1>6, <2>1 DEF Reserved
  <2>3. QED
    BY <1>3, <1>5, <1>6, <2>2 DEF Seen, StepOf
<1>7. CASE o # v.of
  <2>1. BooksStay(o)
    BY <1>1, <1>4, <1>7, HistoryShape, CountsEach DEF BooksStay, HeldStays
  <2>2. w.of # o
    BY <1>2, <1>7, OnlineOrdersAssumption
  <2>3. QED
    BY <1>3, <1>4, <1>7, <2>1, <2>2, OthersUntouched
<1>8. QED
  BY <1>6, <1>7

\* a pass of the release, refused or not,
LEMMA ReleaseSeen ==
  ASSUME OnlineTypeOK, NEW o \in Orders, NEW r \in Workers, Release(r)
  PROVE  Seen(o)
<1> DEFINE v == workers[r]
<1> DEFINE rivals == \E s \in Workers \ {r} : Of(s) = v.of /\ At(s, "release")
<1>0. v \in Work /\ WorkOK(v) /\ v.of \in Orders /\ v.at = "release" /\ UNCHANGED <<orders, disputes, postings>>
  BY ReleaseEffect
<1>1. lost' = [lost EXCEPT ![v.of] = @ \/ orders[v.of] # v.read \/ rivals]
  BY DEF Release, Lose
<1>2. \/ Become(r, Idle) /\ cut' = [cut EXCEPT ![v.of] = TRUE] /\ UNCHANGED <<reserved, held>>
      \/ /\ UNCHANGED cut
         /\ held' = [held EXCEPT ![v.of][v.next] = @ - 1]
         /\ \E w \in Work :
              /\ Become(r, w) /\ WorkOK(w) /\ w.of = v.of
              /\ \/ v.next < ItemCount /\ w.at = "release" /\ w.next = v.next + 1
                 \/ /\ v.next = ItemCount /\ w.at \in {"save", "saveReleased"}
                    /\ w.copy.released /\ ~w.read.released
  BY ReleaseEffect
<1>3. RowStays(o) /\ DisputeStays(o) /\ CreditStays(o) /\ RefundStays(o)
  BY <1>0, <1>1 DEF RowStays, DisputeStays, CreditStays, RefundStays, postings
<1>4. rivals <=> \E s \in Workers \ {r} : workers[s].of = v.of /\ workers[s].at = "release"
  BY DEF Of, At
<1>5. v.next \in Items
  BY <1>0, <1>1 DEF Work
<1> HIDE DEF v, rivals
<1>6. lost[o] => lost'[o]
  BY <1>0, <1>1, HistoryShape
<1>7. o = v.of /\ ~lost'[o] => orders[o] = v.read /\ ~rivals
  BY <1>0, <1>1, HistoryShape
<1>8. o # v.of => lost'[o] = lost[o]
  BY <1>0, <1>1, HistoryShape
<1>9. ASSUME Become(r, Idle), cut' = [cut EXCEPT ![v.of] = TRUE], UNCHANGED held
      PROVE  Seen(o)
  <2>1. Moves(r, v, Idle)
    BY <1>9, IdleType, BecomeMoves DEF v
  <2>2. HeldStays(o)
    BY <1>9 DEF HeldStays
  <2>3. CASE o = v.of
    <3>1. cut'[o] /\ (cut[o] => cut'[o])
      BY <1>9, <2>3, HistoryShape
    <3>2. Died(o, Idle)
      BY <1>3, <1>6, <2>2, <3>1 DEF Died, MarksGrow, BooksStay
    <3>3. QED
      BY <1>0, <1>1, <2>1, <2>3, <3>2, IdleType DEF Seen, StepOf
  <2>4. CASE o # v.of
    <3>1. MarksStay(o) /\ BooksStay(o) /\ Idle.of # o
      BY <1>3, <1>8, <1>9, <2>2, <2>4, HistoryShape, IdleType, OnlineOrdersAssumption DEF MarksStay, BooksStay
    <3>2. QED
      BY <1>3, <2>1, <2>4, <3>1, OthersUntouched
  <2>5. QED
    BY <2>3, <2>4
<1>10. ASSUME UNCHANGED cut, held' = [held EXCEPT ![v.of][v.next] = @ - 1],
              NEW w \in Work, Become(r, w), WorkOK(w), w.of = v.of,
              \/ v.next < ItemCount /\ w.at = "release" /\ w.next = v.next + 1
              \/ /\ v.next = ItemCount /\ w.at \in {"save", "saveReleased"}
                 /\ w.copy.released /\ ~w.read.released
       PROVE  Seen(o)
  <2>1. Moves(r, v, w)
    BY <1>0, <1>10, BecomeMoves DEF v
  <2>2. CASE o = v.of
    <3>1. OneLess(held[o], held'[o], v.next)
      BY <1>0, <1>1, <1>5, <1>10, <2>2, HistoryShape, CountsEach
    <3>2. cut[o] => cut'[o]
      BY <1>0, <1>10
    <3>3. LetGoOf(o, r, v, w)
      BY <1>0, <1>1, <1>3, <1>4, <1>6, <1>7, <1>10, <2>2, <3>1, <3>2 DEF LetGoOf, MarksGrow
    <3>4. QED
      BY <1>0, <1>1, <2>1, <2>2, <3>3 DEF Seen, StepOf
  <2>3. CASE o # v.of
    <3>1. held'[o] = held[o]
      BY <1>0, <1>1, <1>5, <1>10, <2>3, HistoryShape, CountsEach
    <3>2. MarksStay(o) /\ BooksStay(o)
      BY <1>3, <1>8, <1>10, <2>3, <3>1 DEF MarksStay, BooksStay, HeldStays
    <3>3. QED
      BY <1>3, <1>10, <2>1, <2>3, <3>2, OthersUntouched
  <2>4. QED
    BY <2>2, <2>3
<1>11. QED
  BY <1>2, <1>9, <1>10

\* the credit of a vendor for a payment,
LEMMA CreditVendorSeen ==
  ASSUME OnlineTypeOK, NEW o \in Orders, NEW r \in Workers, CreditVendor(r)
  PROVE  Seen(o)
<1> DEFINE v == workers[r]
<1>1. v.at = "credit" /\ Step(r, "end")
  BY DEF CreditVendor, At
<1>2. Passes(r, "credit", "end")
  BY <1>1, StepPasses
<1>3. v.of \in Orders /\ v.next \in Items
  BY <1>2 DEF Passes
<1>4. PICK w \in Work : /\ Become(r, w) /\ WorkOK(w)
                        /\ \/ v.next < ItemCount /\ w.of = v.of /\ w.at = "credit" /\ w.next = v.next + 1
                           \/ v.next = ItemCount /\ w = Idle
  BY <1>2 DEF Passes, SameWork
<1>5. Moves(r, v, w)
  BY <1>4, BecomeMoves
<1>6. /\ UNCHANGED <<onlineTables, held, delivered, clawed, refunds, lost>>
      /\ \/ credited' = [credited EXCEPT ![v.of][v.next] = @ + 1] /\ UNCHANGED cut
         \/ cut' = [cut EXCEPT ![v.of] = TRUE] /\ UNCHANGED credited
  BY DEF CreditVendor, Of, Cut
<1>7. RowStays(o) /\ DisputeStays(o) /\ HeldStays(o) /\ RefundStays(o) /\ lost'[o] = lost[o]
  BY <1>6 DEF RowStays, DisputeStays, HeldStays, RefundStays, onlineTables
<1>8. v \in Work
  BY <1>5 DEF Moves
<1> HIDE DEF v
<1>9. CASE o = v.of
  <2>1. cut'[o] \/ OneMore(credited[o], credited'[o], v.next)
    BY <1>3, <1>6, <1>9, HistoryShape, CountsEach
  <2>2. cut[o] => cut'[o]
    BY <1>6, <1>9, HistoryShape
  <2>3. CreditedOne(o, v, w)
    BY <1>1, <1>4, <1>7, <1>9, <2>1, <2>2 DEF CreditedOne, MarksGrow, v
  <2>4. QED
    BY <1>5, <1>8, <1>9, <2>3 DEF Seen, StepOf
<1>10. CASE o # v.of
  <2>1. credited'[o] = credited[o] /\ cut'[o] = cut[o]
    BY <1>3, <1>6, <1>10, HistoryShape, CountsEach
  <2>2. MarksStay(o) /\ BooksStay(o)
    BY <1>7, <2>1 DEF MarksStay, BooksStay, CreditStays
  <2>3. w.of # o
    BY <1>4, <1>10, IdleType, OnlineOrdersAssumption
  <2>4. QED
    BY <1>5, <1>7, <1>10, <2>2, <2>3, OthersUntouched
<1>11. QED
  BY <1>9, <1>10

\* the credit of a vendor for a delivery,
LEMMA CreditDeliverySeen ==
  ASSUME OnlineTypeOK, NEW o \in Orders, NEW r \in Workers, CreditDelivery(r)
  PROVE  Seen(o)
<1> DEFINE v == workers[r]
<1>1. v.at = "earn" /\ Step(r, "end")
  BY DEF CreditDelivery, At
<1>2. Passes(r, "earn", "end")
  BY <1>1, StepPasses
<1>3. PICK w \in Work : Become(r, w) /\ WorkOK(w) /\ w.at \in {"idle", "earn"} /\ w.of \in {None, v.of}
  BY <1>2, IdleType DEF Passes, SameWork
<1>4. Moves(r, v, w)
  BY <1>3, BecomeMoves
<1>5. UNCHANGED <<onlineTables, held, credited, clawed, refunds, lost>> /\ cut' \in {cut, [cut EXCEPT ![v.of] = TRUE]}
  BY DEF CreditDelivery, Of, Cut
<1>6. RowStays(o) /\ DisputeStays(o) /\ BooksStay(o) /\ lost'[o] = lost[o]
  BY <1>5 DEF RowStays, DisputeStays, BooksStay, HeldStays, CreditStays, RefundStays, onlineTables
<1>7. v \in Work
  BY <1>4 DEF Moves
<1> HIDE DEF v
<1>8. CASE o = v.of
  <2>1. cut[o] => cut'[o]
    BY <1>5, <1>8, HistoryShape
  <2>2. Passed(o, v, w)
    BY <1>1, <1>3, <1>6, <1>8, <2>1 DEF Passed, MarksGrow, v
  <2>3. QED
    BY <1>4, <1>7, <1>8, <2>2 DEF Seen, StepOf
<1>9. CASE o # v.of
  <2>1. cut'[o] = cut[o]
    BY <1>5, <1>9, HistoryShape
  <2>2. MarksStay(o) /\ w.of # o
    BY <1>3, <1>6, <1>9, <2>1, OnlineOrdersAssumption DEF MarksStay
  <2>3. QED
    BY <1>4, <1>6, <1>9, <2>2, OthersUntouched
<1>10. QED
  BY <1>8, <1>9

\* A handler stops: the provider has answered, or the process dies.
LEMMA StopSeen ==
  ASSUME OnlineTypeOK, NEW o \in Orders, NEW r \in Workers, Become(r, Idle), UNCHANGED <<onlineTables, held, postings, lost>>,
         \/ workers[r].at = "provider" /\ UNCHANGED cut
         \/ workers[r].of \in Orders /\ cut' = [cut EXCEPT ![workers[r].of] = TRUE]
  PROVE  Seen(o)
<1> DEFINE v == workers[r]
<1>1. Moves(r, v, Idle)
  BY IdleType, BecomeMoves
<1>2. v \in Work /\ Idle \in Work
  BY <1>1 DEF Moves
<1>3. RowStays(o) /\ DisputeStays(o) /\ BooksStay(o) /\ lost'[o] = lost[o]
  BY DEF RowStays, DisputeStays, BooksStay, HeldStays, CreditStays, RefundStays, onlineTables, postings
<1>4. (v.at = "provider" /\ UNCHANGED cut) \/ (v.of \in Orders /\ cut' = [cut EXCEPT ![v.of] = TRUE])
  OBVIOUS
<1> HIDE DEF v
<1>5. CASE o = v.of
  <2>1. cut[o] => cut'[o]
    BY <1>4, <1>5, HistoryShape
  <2>2. Passed(o, v, Idle) \/ Died(o, Idle)
    BY <1>3, <1>4, <1>5, <2>1, HistoryShape, IdleType DEF Passed, Died, MarksGrow
  <2>3. QED
    BY <1>1, <1>2, <1>5, <2>2 DEF Seen, StepOf
<1>6. CASE o # v.of
  <2>1. cut'[o] = cut[o]
    BY <1>4, <1>6, HistoryShape
  <2>2. MarksStay(o) /\ Idle.of # o
    BY <1>3, <1>6, <2>1, IdleType, OnlineOrdersAssumption DEF MarksStay
  <2>3. QED
    BY <1>1, <1>3, <1>6, <2>2, OthersUntouched
<1>7. QED
  BY <1>5, <1>6

\* a charge back,
LEMMA ClawbackSeen ==
  ASSUME OnlineTypeOK, NEW o \in Orders, NEW r \in Workers, Clawback(r)
  PROVE  Seen(o)
<1> DEFINE v == workers[r]
<1>1. v.at = "clawback" /\ Step(r, "refundBuyer")
  BY DEF Clawback, At
<1>2. Passes(r, "clawback", "refundBuyer")
  BY <1>1, StepPasses
<1>3. v.of \in Orders /\ v.next \in Items
  BY <1>2 DEF Passes
<1>4. WorkOK(v) /\ v \in Work
  BY DEF OnlineTypeOK, WorkersTyped
<1>5. v.job = "refund"
  BY <1>1, <1>4 DEF WorkOK
<1>6. PICK w \in Work : /\ Become(r, w) /\ WorkOK(w) /\ w.of = v.of /\ w.job = "refund"
                        /\ \/ v.next < ItemCount /\ w.at = "clawback" /\ w.next = v.next + 1
                           \/ v.next = ItemCount /\ w.at = "refundBuyer"
  BY <1>2, <1>5 DEF Passes, SameWork
<1>7. Moves(r, v, w)
  BY <1>6, BecomeMoves
<1>8. /\ clawed' = [clawed EXCEPT ![v.of][v.next] = @ + 1]
      /\ UNCHANGED <<onlineTables, held, credited, delivered, refunds, accidents>>
  BY DEF Clawback, Of
<1>9. /\ RowStays(o) /\ DisputeStays(o) /\ HeldStays(o) /\ CreditStays(o) /\ MarksStay(o)
      /\ refunds'[o] = refunds[o]
  BY <1>8 DEF RowStays, DisputeStays, HeldStays, CreditStays, MarksStay, onlineTables, accidents
<1> HIDE DEF v
<1>10. CASE o = v.of
  <2>1. OneMore(clawed[o], clawed'[o], v.next)
    BY <1>3, <1>8, <1>10, HistoryShape, CountsEach
  <2>2. ClawedOne(o, v, w)
    BY <1>1, <1>6, <1>9, <1>10, <2>1 DEF ClawedOne, v
  <2>3. QED
    BY <1>4, <1>7, <1>10, <2>2 DEF Seen, StepOf
<1>11. CASE o # v.of
  <2>1. clawed'[o] = clawed[o]
    BY <1>3, <1>8, <1>11, HistoryShape, CountsEach
  <2>2. BooksStay(o) /\ w.of # o
    BY <1>6, <1>9, <1>11, <2>1 DEF BooksStay, RefundStays
  <2>3. QED
    BY <1>7, <1>9, <1>11, <2>2, OthersUntouched
<1>12. QED
  BY <1>10, <1>11

\* a refund,
LEMMA RefundBuyerSeen ==
  ASSUME OnlineTypeOK, NEW o \in Orders, NEW r \in Workers, RefundBuyer(r)
  PROVE  Seen(o)
<1> DEFINE v == workers[r]
<1>1. /\ v \in Work /\ WorkOK(v) /\ v.of \in Orders /\ v.at = "refundBuyer"
      /\ refunds' = [refunds EXCEPT ![v.of] = @ + 1]
      /\ UNCHANGED <<onlineTables, held, credited, delivered, clawed, accidents>>
  BY RefundBuyerEffect
<1>2. PICK w \in Work : /\ Become(r, w) /\ WorkOK(w) /\ w.at = "closeDispute" /\ w.of = v.of
                        /\ w.job = "refund" /\ w.next = 1
  BY RefundBuyerEffect
<1>3. Moves(r, v, w)
  BY <1>2, BecomeMoves
<1>4. /\ RowStays(o) /\ DisputeStays(o) /\ HeldStays(o) /\ CreditStays(o) /\ MarksStay(o)
      /\ clawed'[o] = clawed[o]
  BY <1>1 DEF RowStays, DisputeStays, HeldStays, CreditStays, MarksStay, onlineTables, accidents
<1> HIDE DEF v
<1>5. CASE o = v.of
  <2>1. refunds'[o] = refunds[o] + 1
    BY <1>1, <1>5, HistoryShape
  <2>2. Refunded(o, v, w)
    BY <1>1, <1>2, <1>4, <1>5, <2>1 DEF Refunded
  <2>3. QED
    BY <1>1, <1>3, <1>5, <2>2 DEF Seen, StepOf
<1>6. CASE o # v.of
  <2>1. refunds'[o] = refunds[o]
    BY <1>1, <1>6, HistoryShape
  <2>2. BooksStay(o) /\ w.of # o
    BY <1>2, <1>4, <1>6, <2>1 DEF BooksStay, RefundStays
  <2>3. QED
    BY <1>3, <1>4, <1>6, <2>2, OthersUntouched
<1>7. QED
  BY <1>5, <1>6

\* the end of a dispute,
LEMMA CloseDisputeSeen ==
  ASSUME OnlineTypeOK, NEW o \in Orders, NEW r \in Workers, CloseDispute(r)
  PROVE  Seen(o)
<1> DEFINE v == workers[r]
<1>1. /\ v \in Work /\ WorkOK(v) /\ v.of \in Orders /\ v.at = "closeDispute" /\ v.dispute = "OPEN"
      /\ disputes' = [disputes EXCEPT ![v.of] = IF v.job = "refund" THEN "REFUNDED" ELSE "RESOLVED"]
      /\ lost' = [lost EXCEPT ![v.of] = @ \/ disputes[v.of] # v.dispute]
      /\ UNCHANGED <<orders, reserved, held, postings, cut>>
  BY CloseDisputeEffect
<1>2. PICK w \in Work : /\ Become(r, w) /\ WorkOK(w) /\ w.of = v.of /\ w.at \in {"save", "release"}
                        /\ w.next = 1 /\ w.copy.released = w.read.released
  BY CloseDisputeEffect
<1>3. Moves(r, v, w)
  BY <1>2, BecomeMoves
<1>4. RowStays(o) /\ BooksStay(o) /\ cut'[o] = cut[o]
  BY <1>1 DEF RowStays, BooksStay, HeldStays, CreditStays, RefundStays, postings
<1> HIDE DEF v
<1>5. CASE o = v.of
  <2>1. disputes'[o] = IF v.job = "refund" THEN "REFUNDED" ELSE "RESOLVED"
    BY <1>1, <1>5, HistoryShape
  <2>2. (lost[o] => lost'[o]) /\ (~lost'[o] => disputes[o] = "OPEN")
    BY <1>1, <1>5, HistoryShape
  <2>3. Closed(o, v, w)
    BY <1>1, <1>2, <1>4, <1>5, <2>1, <2>2 DEF Closed, MarksGrow
  <2>4. QED
    BY <1>1, <1>3, <1>5, <2>3 DEF Seen, StepOf
<1>6. CASE o # v.of
  <2>1. disputes'[o] = disputes[o] /\ lost'[o] = lost[o]
    BY <1>1, <1>6, HistoryShape
  <2>2. DisputeStays(o) /\ MarksStay(o) /\ w.of # o
    BY <1>2, <1>4, <1>6, <2>1 DEF DisputeStays, MarksStay
  <2>3. QED
    BY <1>3, <1>4, <1>6, <2>2, OthersUntouched
<1>7. QED
  BY <1>5, <1>6

\* and what writes a row without a handler.
LEMMA WriteSeen ==
  ASSUME OnlineTypeOK, NEW o \in Orders, NEW p \in Orders, RejectAssignment(p) \/ HardDelete(p)
  PROVE  Seen(o)
<1>1. DisputeStays(o) /\ BooksStay(o) /\ MarksStay(o) /\ UNCHANGED workers /\ Exists(p)
  BY DEF RejectAssignment, HardDelete, DisputeStays, BooksStay, HeldStays, CreditStays, RefundStays,
         MarksStay, postings, accidents
<1>2. CASE RejectAssignment(p)
  <2> DEFINE row == [orders[p] EXCEPT !.driver = "NONE", !.status = "PROCESSING"]
  <2>1. orders' = [orders EXCEPT ![p] = row]
    BY <1>2 DEF RejectAssignment
  <2>2. /\ row.status = "PROCESSING" /\ row.pay = orders[p].pay /\ row.method = orders[p].method
        /\ row.released = orders[p].released
    BY HistoryShape DEF Row
  <2> HIDE DEF row
  <2>3. (o = p => orders'[o] = row) /\ (o # p => orders'[o] = orders[o])
    BY <2>1, HistoryShape
  <2>4. Untouched(o) \/ Rejected(o)
    BY <1>1, <2>2, <2>3 DEF Untouched, Rejected, RowStays
  <2>5. QED
    BY <2>4 DEF Seen
<1>3. CASE HardDelete(p)
  <2> DEFINE row == NoRow("DELETED")
  <2>1. orders' = [orders EXCEPT ![p] = row]
    BY <1>3 DEF HardDelete
  <2>2. row.status = "DELETED"
    BY NoRowType DEF Absent
  <2> HIDE DEF row
  <2>3. (o = p => orders'[o] = row) /\ (o # p => orders'[o] = orders[o])
    BY <2>1, HistoryShape
  <2>4. Untouched(o) \/ Deleted(o)
    BY <1>1, <2>2, <2>3 DEF Untouched, Deleted, RowStays
  <2>5. QED
    BY <2>4 DEF Seen
<1>4. QED
  BY <1>2, <1>3

\* Whatever happens, an order sees one of these steps.
LEMMA OrderStep ==
  ASSUME OnlineTypeOK, [DeliveriesNext]_onlineVars, NEW o \in Orders
  PROVE  Seen(o)
<1>1. CASE UNCHANGED onlineVars
  BY <1>1 DEF onlineVars, onlineTables, postings, accidents, Seen, Untouched, RowStays, DisputeStays, BooksStay,
              HeldStays, CreditStays, RefundStays, MarksStay
<1>2. ASSUME NEW r \in Workers, Crash(r)
      PROVE  Seen(o)
  <2>1. /\ Become(r, Idle) /\ UNCHANGED <<onlineTables, held, postings, lost>>
        /\ workers[r].at # "idle" /\ cut' = [cut EXCEPT ![workers[r].of] = TRUE]
    BY <1>2 DEF Crash, Cut, End, At, Of
  <2>2. workers[r].of \in Orders
    BY <2>1 DEF OnlineTypeOK, WorkersTyped, WorkOK, Work
  <2>3. QED
    BY <2>1, <2>2, StopSeen
<1>3. ASSUME NEW r \in Workers,
             workers[r].at = "provider", Become(r, Idle), UNCHANGED <<onlineTables, held, postings, accidents>>
      PROVE  Seen(o)
  BY <1>3, StopSeen DEF accidents
<1>4. CASE DeliveriesNext
  BY <1>2, <1>3, <1>4, StepKinds, BeginsSeen, PlaceOrderSeen, SaveSeen, ReserveSeen, ReleaseSeen, CreditVendorSeen,
     CreditDeliverySeen, ClawbackSeen, RefundBuyerSeen, CloseDisputeSeen, WriteSeen
<1>5. QED
  BY <1>1, <1>4

-------------------------------------------------------------------------------
(* What makes the invariants inductive *)

\* A handler of the order reserves; has let go of item i and has not yet saved
\* so; credits; has charged item i's vendor back, or refunded the buyer, for a
\* dispute it has not closed.
Reserves(w, o) == w.of = o /\ w.at = "reserve"
LetGo(w, o, i) ==
  w.of = o /\ \/ w.at = "saveReleased"
              \/ w.at = "release" /\ i < w.next
              \/ w.at = "save" /\ w.copy.released /\ ~w.read.released
Credits(w, o) == w.of = o /\ w.at = "credit"
ClawedBack(w, o, i) ==
  w.of = o /\ w.job = "refund" /\ (w.at \in {"refundBuyer", "closeDispute"} \/ (w.at = "clawback" /\ i < w.next))
RefundedOne(w, o) == w.of = o /\ w.job = "refund" /\ w.at = "closeDispute"

Reservers(o) == {s \in Workers : Reserves(workers[s], o)}
ToReserve(o, i) == {s \in Reservers(o) : workers[s].next <= i}
LettingGo(o, i) == {s \in Workers : LetGo(workers[s], o, i)}
Creditors(o) == {s \in Workers : Credits(workers[s], o)}
ToCredit(o, i) == {s \in Creditors(o) : workers[s].next <= i}
Clawing(o, i) == {s \in Workers : ClawedBack(workers[s], o, i)}
Refunding(o) == {s \in Workers : RefundedOne(workers[s], o)}

\* Two did it, or one whose work another has ended: the next of them to save
\* overwrites what it did not read.
Doomed(done, ended) == (\E s, t \in done : s # t) \/ (ended /\ done # {})

Intact(o) == ~lost[o] /\ ~cut[o]

\* Before it is placed an order has no handlers and no postings.
NothingYet(o) ==
  orders[o].status = "NOT_PLACED" =>
    /\ \A s \in Workers : workers[s].of # o
    /\ \A i \in Items : held[o][i] = 0 /\ credited[o][i] = 0

OneReserves(o) == \A s, t \in Reservers(o) : s = t

\* An item is held from its reservation to its release.
HeldKept(o) ==
  Exists(o) /\ Intact(o) /\ ~Doomed(LettingGo(o, 1), orders[o].released) =>
    \A i \in Items :
      held[o][i] = (IF ToReserve(o, i) = {} THEN 1 ELSE 0)
                   - (IF orders[o].released \/ LettingGo(o, i) # {} THEN 1 ELSE 0)

\* Its vendor is credited when the one creditor of the payment passes it.
CreditKept(o) ==
  Exists(o) /\ Intact(o) /\ orders[o].method # "MPESA" =>
    /\ \A s, t \in Creditors(o) : s = t
    /\ orders[o].pay # "PAID" => Creditors(o) = {}
    /\ \A i \in Items : credited[o][i] = IF orders[o].pay = "PAID" /\ ToCredit(o, i) = {} THEN 1 ELSE 0

DisputeKnown(o) ==
  \A s \in Workers : workers[s].of = o /\ workers[s].at \in DisputeSteps => disputes[o] # "NONE"

RefundKept(o) ==
  Intact(o) /\ ~Doomed(Clawing(o, 1), disputes[o] # "OPEN") =>
    /\ refunds[o] = IF disputes[o] = "REFUNDED" \/ Refunding(o) # {} THEN 1 ELSE 0
    /\ \A i \in Items : clawed[o][i] = IF disputes[o] = "REFUNDED" \/ Clawing(o, i) # {} THEN 1 ELSE 0

OrderKept(o) ==
  NothingYet(o) /\ OneReserves(o) /\ HeldKept(o) /\ CreditKept(o) /\ DisputeKnown(o) /\ RefundKept(o)
OnlineInv == OnlineTypeOK /\ \A o \in Orders : OrderKept(o)

\* Nothing is held, credited or refunded before the first order.
LEMMA OnlineInvInit == OnlineInit => OnlineInv
<1> SUFFICES ASSUME OnlineInit PROVE OnlineInv
  OBVIOUS
<1>1. OnlineTypeOK
  BY OnlineTypeInit
<1>2. ASSUME NEW o \in Orders
      PROVE  OrderKept(o)
  <2>1. \A s \in Workers : workers[s].of # o /\ workers[s].at = "idle"
    BY IdleType, OnlineOrdersAssumption DEF OnlineInit
  <2>2. /\ \A i \in Items : held[o][i] = 0 /\ credited[o][i] = 0 /\ clawed[o][i] = 0
        /\ refunds[o] = 0 /\ disputes[o] = "NONE" /\ orders[o].status = "NOT_PLACED"
    BY NoRowType DEF OnlineInit, PerItem, Absent
  <2>3. /\ Reservers(o) = {} /\ Refunding(o) = {} /\ \A i : LettingGo(o, i) = {} /\ Clawing(o, i) = {}
    BY <2>1 DEF Reservers, Refunding, LettingGo, Clawing, Reserves, RefundedOne, LetGo, ClawedBack
  <2>4. ~Exists(o)
    BY <2>2 DEF Exists, Absent
  <2>5. NothingYet(o) /\ OneReserves(o) /\ HeldKept(o) /\ CreditKept(o) /\ DisputeKnown(o) /\ RefundKept(o)
    BY <2>1, <2>2, <2>3, <2>4 DEF NothingYet, OneReserves, HeldKept, CreditKept, DisputeKnown, RefundKept
  <2>6. QED
    BY <2>5 DEF OrderKept
<1>3. QED
  BY <1>1, <1>2 DEF OnlineInv

\* Who belongs to the sets after a handler's step.
LEMMA SetsAfter ==
  ASSUME NEW r \in Workers, NEW v, NEW w, Moves(r, v, w), NEW o
  PROVE  /\ \A s \in Workers : s \in Reservers(o)' <=> IF s = r THEN Reserves(w, o) ELSE s \in Reservers(o)
         /\ \A s \in Workers : s \in Creditors(o)' <=> IF s = r THEN Credits(w, o) ELSE s \in Creditors(o)
         /\ \A s \in Workers : s \in Refunding(o)' <=> IF s = r THEN RefundedOne(w, o) ELSE s \in Refunding(o)
         /\ \A i : \A s \in Workers : s \in LettingGo(o, i)' <=> IF s = r THEN LetGo(w, o, i) ELSE s \in LettingGo(o, i)
         /\ \A i : \A s \in Workers : s \in Clawing(o, i)' <=> IF s = r THEN ClawedBack(w, o, i) ELSE s \in Clawing(o, i)
         /\ r \in Reservers(o) <=> Reserves(v, o)
         /\ r \in Creditors(o) <=> Credits(v, o)
         /\ r \in Refunding(o) <=> RefundedOne(v, o)
         /\ \A i : r \in LettingGo(o, i) <=> LetGo(v, o, i)
         /\ \A i : r \in Clawing(o, i) <=> ClawedBack(v, o, i)
<1>1. v = workers[r] /\ workers'[r] = w /\ \A s \in Workers \ {r} : workers'[s] = workers[s]
  BY DEF Moves
<1>2. \A s \in Workers : s \in Reservers(o)' <=> IF s = r THEN Reserves(w, o) ELSE s \in Reservers(o)
  BY <1>1 DEF Reservers, Reserves
<1>3. \A s \in Workers : s \in Creditors(o)' <=> IF s = r THEN Credits(w, o) ELSE s \in Creditors(o)
  BY <1>1 DEF Creditors, Credits
<1>4. \A s \in Workers : s \in Refunding(o)' <=> IF s = r THEN RefundedOne(w, o) ELSE s \in Refunding(o)
  BY <1>1 DEF Refunding, RefundedOne
<1>5. \A i : \A s \in Workers : s \in LettingGo(o, i)' <=> IF s = r THEN LetGo(w, o, i) ELSE s \in LettingGo(o, i)
  BY <1>1 DEF LettingGo, LetGo
<1>6. \A i : \A s \in Workers : s \in Clawing(o, i)' <=> IF s = r THEN ClawedBack(w, o, i) ELSE s \in Clawing(o, i)
  BY <1>1 DEF Clawing, ClawedBack
<1>7. /\ r \in Reservers(o) <=> Reserves(v, o)
      /\ r \in Creditors(o) <=> Credits(v, o)
      /\ r \in Refunding(o) <=> RefundedOne(v, o)
      /\ \A i : r \in LettingGo(o, i) <=> LetGo(v, o, i)
      /\ \A i : r \in Clawing(o, i) <=> ClawedBack(v, o, i)
  BY <1>1 DEF Reservers, Creditors, Refunding, LettingGo, Clawing
<1>8. QED
  BY <1>2, <1>3, <1>4, <1>5, <1>6, <1>7

\* They are sets of requests.
LEMMA SetsOfWorkers ==
  ASSUME NEW o
  PROVE  /\ Reservers(o) \subseteq Workers /\ Creditors(o) \subseteq Workers /\ Refunding(o) \subseteq Workers
         /\ \A i : LettingGo(o, i) \subseteq Workers /\ Clawing(o, i) \subseteq Workers
BY DEF Reservers, Creditors, Refunding, LettingGo, Clawing

\* Once there is an order it is not unplaced again.
LEMMA NothingYetNext ==
  ASSUME OnlineTypeOK, NEW o \in Orders, NothingYet(o), Seen(o)
  PROVE  NothingYet(o)'
<1>1. CASE Untouched(o)
  BY <1>1 DEF Untouched, NothingYet, RowStays, BooksStay, HeldStays, CreditStays
<1>2. CASE Rejected(o) \/ Deleted(o)
  BY <1>2 DEF Rejected, Deleted, NothingYet
<1>3. ASSUME NEW r \in Workers, NEW v, NEW w, Moves(r, v, w), StepOf(o, r, v, w)
      PROVE  orders'[o].status # "NOT_PLACED"
  <2>1. CASE Begun(o, v, w) \/ Placed(o, v, w)
    BY <2>1 DEF Begun, Placed, Exists, RowStays, Absent
  <2>2. CASE v.of = o
    <3>1. orders[o].status # "NOT_PLACED"
      BY <1>3, <2>2 DEF Moves, NothingYet
    <3>2. CASE Saved(o, v, w)
      BY <1>3, <3>2 DEF Saved, Moves, WorkOK, CopySteps, CopyOf, Absent
    <3>3. CASE RowStays(o)
      BY <3>1, <3>3 DEF RowStays
    <3>4. QED
      BY <1>3, <2>1, <2>2, <3>2, <3>3 DEF StepOf, Passed, Died, Reserved, LetGoOf, CreditedOne, ClawedOne, Refunded, Closed
  <2>3. QED
    BY <1>3, <2>1, <2>2 DEF StepOf
<1>4. QED
  BY <1>1, <1>2, <1>3 DEF Seen, NothingYet

\* An order is reserved for by the handler that placed it.
LEMMA OneReservesNext ==
  ASSUME OnlineTypeOK, NEW o \in Orders, NothingYet(o), OneReserves(o), Seen(o)
  PROVE  OneReserves(o)'
<1>1. CASE Untouched(o)
  BY <1>1 DEF Untouched, OneReserves, Reservers, Reserves
<1>2. CASE Rejected(o) \/ Deleted(o)
  BY <1>2 DEF Rejected, Deleted, OneReserves, Reservers, Reserves
<1>3. ASSUME NEW r \in Workers, NEW v, NEW w, Moves(r, v, w), StepOf(o, r, v, w)
      PROVE  OneReserves(o)'
  <2>1. /\ \A s \in Workers : s \in Reservers(o)' <=> IF s = r THEN Reserves(w, o) ELSE s \in Reservers(o)
        /\ r \in Reservers(o) <=> Reserves(v, o)
    BY <1>3, SetsAfter
  <2>2. Reservers(o) \subseteq Workers /\ Reservers(o)' \subseteq Workers
    BY DEF Reservers
  <2>3. CASE Placed(o, v, w)
    <3>1. Reservers(o) = {}
      BY <2>3 DEF Placed, NothingYet, Reservers, Reserves
    <3>2. QED
      BY <2>1, <2>2, <3>1 DEF OneReserves
  <2>4. CASE Reserves(w, o) => Reserves(v, o)
    BY <2>1, <2>2, <2>4 DEF OneReserves
  <2>5. Placed(o, v, w) \/ (Reserves(w, o) => Reserves(v, o))
    BY <1>3, IdleType DEF StepOf, Begun, Passed, Died, Saved, Reserved, LetGoOf, CreditedOne, ClawedOne, Refunded, Closed,
       Reserves
  <2>6. QED
    BY <2>3, <2>4, <2>5
<1>4. QED
  BY <1>1, <1>2, <1>3 DEF Seen

\* Who works on a dispute knows of one.
LEMMA DisputeKnownNext ==
  ASSUME OnlineTypeOK, NEW o \in Orders, DisputeKnown(o), Seen(o)
  PROVE  DisputeKnown(o)'
<1>1. CASE Untouched(o)
  BY <1>1 DEF Untouched, DisputeKnown, DisputeStays
<1>2. CASE Rejected(o) \/ Deleted(o)
  BY <1>2 DEF Rejected, Deleted, DisputeKnown, DisputeStays
<1>3. ASSUME NEW r \in Workers, NEW v, NEW w, Moves(r, v, w), StepOf(o, r, v, w)
      PROVE  DisputeKnown(o)'
  <2>1. v = workers[r] /\ workers'[r] = w /\ \A s \in Workers \ {r} : workers'[s] = workers[s]
    BY <1>3 DEF Moves
  <2>2. disputes[o] # "NONE" => disputes'[o] # "NONE"
    BY <1>3 DEF StepOf, Begun, Placed, Passed, Died, Saved, Reserved, LetGoOf, CreditedOne, ClawedOne, Refunded, Closed,
       DisputeStays
  <2>3. w.of = o /\ w.at \in DisputeSteps => disputes[o] # "NONE"
    <3>1. Begun(o, v, w) \/ ~(w.of = o /\ w.at \in DisputeSteps) \/ (v.of = o /\ v.at \in DisputeSteps)
      BY <1>3, IdleType DEF StepOf, Placed, Passed, Died, Saved, Reserved, LetGoOf, CreditedOne, ClawedOne, Refunded,
         Closed, DisputeSteps
    <3>2. QED
      BY <2>1, <3>1 DEF Begun, DisputeKnown
  <2>4. QED
    BY <2>1, <2>2, <2>3 DEF DisputeKnown
<1>4. QED
  BY <1>1, <1>2, <1>3 DEF Seen

\* What changes neither the reservation, nor who lets go of it, keeps it so.
LEMMA HeldQuiet ==
  ASSUME NEW o \in Orders, HeldKept(o), HeldStays(o), orders'[o].released = orders[o].released,
         Exists(o)' => Exists(o), MarksGrow(o),
         \A i \in Items : LettingGo(o, i)' = LettingGo(o, i) /\ ToReserve(o, i)' = ToReserve(o, i)
  PROVE  HeldKept(o)'
<1>1. 1 \in Items
  BY OnlineOrdersAssumption DEF Items
<1>2. SUFFICES ASSUME Exists(o)', Intact(o)', ~Doomed(LettingGo(o, 1)', orders'[o].released), NEW i \in Items
               PROVE  held'[o][i] = (IF ToReserve(o, i)' = {} THEN 1 ELSE 0)
                                    - (IF orders'[o].released \/ LettingGo(o, i)' # {} THEN 1 ELSE 0)
  BY DEF HeldKept
<1>3. Intact(o) /\ Exists(o)
  BY <1>2 DEF Intact, MarksGrow
<1>4. ~Doomed(LettingGo(o, 1), orders[o].released)
  BY <1>1, <1>2
<1>5. QED
  BY <1>3, <1>4 DEF HeldKept, HeldStays

\* The same, for a handler that is not concerned with it.
LEMMA HeldBystander ==
  ASSUME NEW o \in Orders, NEW r \in Workers, NEW v, NEW w, Moves(r, v, w), HeldKept(o), HeldStays(o),
         orders'[o].released = orders[o].released, Exists(o)' => Exists(o), MarksGrow(o),
         ~Reserves(v, o), ~Reserves(w, o), \A i \in Items : ~LetGo(v, o, i) /\ ~LetGo(w, o, i)
  PROVE  HeldKept(o)'
<1>1. \A i \in Items : LettingGo(o, i)' = LettingGo(o, i)
  BY SetsAfter, SetsOfWorkers DEF LettingGo
<1>2. \A i \in Items : ToReserve(o, i)' = ToReserve(o, i)
  BY DEF Moves, ToReserve, Reservers
<1>3. QED
  BY <1>1, <1>2, HeldQuiet

\* A new order has yet to reserve every item.
LEMMA HeldPlaced ==
  ASSUME OnlineTypeOK, NEW o \in Orders, NEW r \in Workers, NEW v, NEW w, Moves(r, v, w),
         NothingYet(o), Placed(o, v, w)
  PROVE  HeldKept(o)'
<1>1. /\ \A s \in Workers : workers[s].of # o
      /\ \A i \in Items : held'[o][i] = 0
      /\ ~orders'[o].released
  BY DEF Placed, NothingYet, BooksStay, HeldStays
<1>2. \A i \in Items : LettingGo(o, i)' = {}
  <2>1. \A i \in Items : ~LetGo(w, o, i)
    BY DEF Placed, LetGo
  <2>2. QED
    BY <1>1, <2>1 DEF Moves, LettingGo, LetGo
<1>3. \A i \in Items : r \in ToReserve(o, i)'
  BY DEF Moves, Placed, ToReserve, Reservers, Reserves, Items
<1>4. QED
  BY <1>1, <1>2, <1>3 DEF HeldKept

\* A pass of the reservation holds one item more.
LEMMA HeldReserved ==
  ASSUME OnlineTypeOK, NEW o \in Orders, NEW r \in Workers, NEW v, NEW w, Moves(r, v, w), v.of = o,
         OneReserves(o), HeldKept(o), Reserved(o, v, w)
  PROVE  HeldKept(o)'
<1>1. \A i \in Items : LettingGo(o, i)' = LettingGo(o, i)
  <2>1. \A i \in Items : ~LetGo(v, o, i) /\ ~LetGo(w, o, i)
    BY DEF Reserved, LetGo
  <2>2. QED
    BY <2>1, SetsAfter, SetsOfWorkers DEF LettingGo
<1>2. Reservers(o) = {r}
  BY DEF Moves, OneReserves, Reserved, Reservers, Reserves
<1>3. v.next \in Items /\ ItemCount \in Nat /\ 1 \in Items /\ v = workers[r]
  BY OnlineOrdersAssumption DEF Moves, Work, Items
<1>4. \A i \in Items : ToReserve(o, i) # {} <=> v.next <= i
  BY <1>2, <1>3 DEF ToReserve
<1>5. \A i \in Items : ToReserve(o, i)' # {} <=> v.next + 1 <= i
  <2>1. CASE w.at = "reserve" /\ w.of = o
    <3>1. w.next = v.next + 1 /\ workers'[r] = w
      BY <2>1 DEF Reserved, Moves
    <3>2. \A s \in Workers : s \in Reservers(o)' <=> s = r
      BY <1>2, <2>1, SetsAfter DEF Reserves
    <3>3. Reservers(o)' = {r}
      BY <3>2 DEF Reservers
    <3>4. QED
      BY <3>1, <3>3 DEF ToReserve
  <2>2. CASE w.at # "reserve"
    <3>1. v.next = ItemCount
      BY <2>2 DEF Reserved
    <3>2. \A s \in Workers : s \notin Reservers(o)'
      BY <1>2, <2>2, SetsAfter DEF Reserves
    <3>3. Reservers(o)' = {}
      BY <3>2 DEF Reservers
    <3>4. QED
      BY <1>3, <3>1, <3>3 DEF ToReserve, Items
  <2>3. QED
    BY <2>1, <2>2 DEF Reserved
<1>6. SUFFICES ASSUME Exists(o)', Intact(o)', ~Doomed(LettingGo(o, 1)', orders'[o].released), NEW i \in Items
               PROVE  held'[o][i] = (IF ToReserve(o, i)' = {} THEN 1 ELSE 0)
                                    - (IF orders'[o].released \/ LettingGo(o, i)' # {} THEN 1 ELSE 0)
  BY DEF HeldKept
<1>7. orders'[o] = orders[o] /\ Intact(o) /\ Exists(o) /\ ~Doomed(LettingGo(o, 1), orders[o].released)
  BY <1>1, <1>3, <1>6 DEF Reserved, RowStays, MarksStay, Intact, Exists
<1>8. held[o][i] = (IF ToReserve(o, i) = {} THEN 1 ELSE 0)
                   - (IF orders[o].released \/ LettingGo(o, i) # {} THEN 1 ELSE 0)
  BY <1>7 DEF HeldKept
<1>9. held'[o][i] = IF i = v.next THEN held[o][i] + 1 ELSE held[o][i]
  BY DEF Reserved, OneMore
<1>10. i \in Int /\ v.next \in Int
  BY <1>3 DEF Items
<1>11. QED
  BY <1>1, <1>4, <1>5, <1>7, <1>8, <1>9, <1>10

\* A pass of the release holds one item less, or dooms the order.
LEMMA HeldLetGo ==
  ASSUME OnlineTypeOK, NEW o \in Orders, NEW r \in Workers, NEW v, NEW w, Moves(r, v, w), v.of = o,
         HeldKept(o), LetGoOf(o, r, v, w)
  PROVE  HeldKept(o)'
<1>1. v.next \in Items /\ ItemCount \in Nat /\ 1 \in Items /\ v = workers[r]
  BY OnlineOrdersAssumption DEF Moves, Work, Items
<1>2. \A i \in Items : ToReserve(o, i)' = ToReserve(o, i)
  BY DEF Moves, LetGoOf, ToReserve, Reservers, Reserves
<1>3. \A i \in Items : LetGo(w, o, i) <=> (i = v.next \/ LetGo(v, o, i))
  BY <1>1 DEF LetGoOf, LetGo, Items
<1>4. ~LetGo(v, o, v.next)
  BY <1>1 DEF LetGoOf, LetGo, Items
<1>5. LetGo(w, o, 1)
  BY <1>1 DEF LetGoOf, LetGo, Items
<1>6. SUFFICES ASSUME Exists(o)', Intact(o)', ~Doomed(LettingGo(o, 1)', orders'[o].released), NEW i \in Items
               PROVE  held'[o][i] = (IF ToReserve(o, i)' = {} THEN 1 ELSE 0)
                                    - (IF orders'[o].released \/ LettingGo(o, i)' # {} THEN 1 ELSE 0)
  BY DEF HeldKept
<1>7. /\ orders'[o] = orders[o] /\ Intact(o) /\ Exists(o)
      /\ \A s \in Workers \ {r} : ~(workers[s].of = o /\ workers[s].at = "release")
  BY <1>6 DEF LetGoOf, RowStays, MarksGrow, Intact, Exists
<1>8. r \in LettingGo(o, 1)'
  BY <1>5, SetsAfter
<1>9. ~orders[o].released /\ \A s \in Workers \ {r} : s \notin LettingGo(o, 1)
  BY <1>6, <1>7, <1>8, SetsAfter DEF Doomed
<1>10. \A s \in Workers \ {r} : \A j \in Items : s \notin LettingGo(o, j)
  <2>1. \A s \in Workers \ {r} : ~LetGo(workers[s], o, 1)
    BY <1>9 DEF LettingGo
  <2>2. \A s \in Workers \ {r} : \A j \in Items : ~LetGo(workers[s], o, j)
    BY <1>7, <2>1 DEF LetGo
  <2>3. QED
    BY <2>2 DEF LettingGo
<1>11. ~Doomed(LettingGo(o, 1), orders[o].released)
  BY <1>9, SetsOfWorkers DEF Doomed
<1>12. \A j \in Items : (LettingGo(o, j) # {} <=> LetGo(v, o, j)) /\ (LettingGo(o, j)' # {} <=> LetGo(w, o, j))
  BY <1>10, SetsAfter, SetsOfWorkers DEF LettingGo
<1>13. held[o][i] = (IF ToReserve(o, i) = {} THEN 1 ELSE 0)
                   - (IF orders[o].released \/ LettingGo(o, i) # {} THEN 1 ELSE 0)
  BY <1>7, <1>11 DEF HeldKept
<1>14. held'[o][i] = IF i = v.next THEN held[o][i] - 1 ELSE held[o][i]
  BY DEF LetGoOf, OneLess
<1>15. CASE i = v.next
  BY <1>2, <1>3, <1>4, <1>7, <1>9, <1>12, <1>13, <1>14, <1>15
<1>16. CASE i # v.next
  BY <1>2, <1>3, <1>7, <1>9, <1>12, <1>13, <1>14, <1>16
<1>17. QED
  BY <1>15, <1>16

\* The handler that let go saves so.
LEMMA HeldSaved ==
  ASSUME OnlineTypeOK, NEW o \in Orders, NEW r \in Workers, NEW v, NEW w, Moves(r, v, w), v.of = o,
         HeldKept(o), Saved(o, v, w)
  PROVE  HeldKept(o)'
<1>1. SUFFICES ASSUME Exists(o)', Intact(o)', ~Doomed(LettingGo(o, 1)', orders'[o].released)
               PROVE  HeldKept(o)'
  BY DEF HeldKept
<1>2. orders[o] = v.read /\ orders'[o] = v.copy /\ Intact(o) /\ MarksGrow(o) /\ HeldStays(o)
  BY <1>1 DEF Saved, Intact, MarksGrow, BooksStay
<1>3. /\ v.read.status \notin Absent /\ (v.read.released => v.copy.released)
      /\ v.at = "saveReleased" => v.copy.released /\ ~v.read.released
  <2>1. v.read \in Row /\ WorkOK(v)
    BY DEF Moves, Work
  <2>2. v.read.status \notin Absent /\ (v.read.released => v.copy.released)
    BY <2>1 DEF WorkOK, Saved, CopySteps, CopyOf
  <2>3. v.at = "saveReleased" => v.copy.released /\ ~v.read.released
    BY <2>1 DEF WorkOK, Released, Row
  <2>4. QED
    BY <2>2, <2>3
<1>4. Exists(o) /\ ~Reserves(v, o) /\ ~Reserves(w, o) /\ \A i \in Items : ~LetGo(w, o, i)
  <2>1. \A i \in Items : w.at = "release" => ~(i < w.next)
    BY DEF Saved, Items
  <2>2. QED
    BY <1>2, <1>3, <2>1 DEF Exists, Saved, Reserves, LetGo
<1>5. CASE v.copy.released /\ ~v.read.released
  <2>1. \A i \in Items : LetGo(v, o, i)
    BY <1>5 DEF Saved, LetGo
  <2>2. 1 \in Items
    BY OnlineOrdersAssumption DEF Items
  <2>3. LettingGo(o, 1)' = {} /\ orders'[o].released /\ ~orders[o].released
    BY <1>1, <1>2, <1>5 DEF Doomed
  <2>4. \A s \in Workers \ {r} : s \notin LettingGo(o, 1)
    BY <2>3, SetsAfter
  <2>5. ~Doomed(LettingGo(o, 1), orders[o].released)
    BY <2>3, <2>4, SetsOfWorkers DEF Doomed
  <2>6. \A i \in Items : LettingGo(o, i) # {}
    BY <2>1, SetsAfter
  <2>7. \A i \in Items : ToReserve(o, i)' = ToReserve(o, i)
    BY <1>4 DEF Moves, ToReserve, Reservers
  <2>8. QED
    BY <1>2, <1>4, <2>3, <2>5, <2>6, <2>7 DEF HeldKept, HeldStays
<1>6. CASE ~(v.copy.released /\ ~v.read.released)
  <2>1. \A i \in Items : ~LetGo(v, o, i)
    BY <1>3, <1>6 DEF Saved, LetGo
  <2>2. orders'[o].released = orders[o].released
    <3>1. v.read.released \in BOOLEAN /\ v.copy.released \in BOOLEAN
      BY DEF Moves, Work, Row
    <3>2. QED
      BY <1>2, <1>3, <1>6, <3>1
  <2>3. QED
    BY <1>2, <1>4, <2>1, <2>2, HeldBystander
<1>7. QED
  BY <1>5, <1>6

\* Whatever step an order sees, its items are held from reservation to release.
LEMMA HeldNext ==
  ASSUME OnlineTypeOK, NEW o \in Orders, OrderKept(o), Seen(o)
  PROVE  HeldKept(o)'
<1>0. NothingYet(o) /\ OneReserves(o) /\ HeldKept(o)
  BY DEF OrderKept
<1>1. CASE Untouched(o)
  <2>1. \A i \in Items : LettingGo(o, i)' = LettingGo(o, i) /\ ToReserve(o, i)' = ToReserve(o, i)
    BY <1>1 DEF Untouched, LettingGo, LetGo, ToReserve, Reservers, Reserves
  <2>2. /\ HeldStays(o) /\ orders'[o].released = orders[o].released
        /\ (Exists(o)' => Exists(o)) /\ MarksGrow(o)
    BY <1>1 DEF Untouched, RowStays, BooksStay, MarksStay, MarksGrow, Exists
  <2>3. QED
    BY <1>0, <2>1, <2>2, HeldQuiet
<1>2. CASE Rejected(o)
  <2>1. \A i \in Items : LettingGo(o, i)' = LettingGo(o, i) /\ ToReserve(o, i)' = ToReserve(o, i)
    BY <1>2 DEF Rejected, LettingGo, LetGo, ToReserve, Reservers, Reserves
  <2>2. /\ HeldStays(o) /\ orders'[o].released = orders[o].released
        /\ (Exists(o)' => Exists(o)) /\ MarksGrow(o)
    BY <1>2 DEF Rejected, BooksStay, MarksStay, MarksGrow
  <2>3. QED
    BY <1>0, <2>1, <2>2, HeldQuiet
<1>3. CASE Deleted(o)
  BY <1>3 DEF Deleted, HeldKept, Exists, Absent
<1>4. ASSUME NEW r \in Workers, NEW v, NEW w, Moves(r, v, w), StepOf(o, r, v, w)
      PROVE  HeldKept(o)'
  <2>1. CASE Died(o, w)
    BY <2>1 DEF Died, HeldKept, Intact
  <2>2. CASE Placed(o, v, w)
    BY <1>0, <1>4, <2>2, HeldPlaced
  <2>3. CASE v.of = o /\ Reserved(o, v, w)
    BY <1>0, <1>4, <2>3, HeldReserved
  <2>4. CASE v.of = o /\ LetGoOf(o, r, v, w)
    BY <1>0, <1>4, <2>4, HeldLetGo
  <2>5. CASE v.of = o /\ Saved(o, v, w)
    BY <1>0, <1>4, <2>5, HeldSaved
  <2>6. CASE \/ Begun(o, v, w) \/ Passed(o, v, w) \/ CreditedOne(o, v, w)
             \/ ClawedOne(o, v, w) \/ Refunded(o, v, w) \/ Closed(o, v, w)
    <3>1. RowStays(o) /\ HeldStays(o) /\ MarksGrow(o)
      BY <2>6 DEF Begun, Passed, CreditedOne, ClawedOne, Refunded, Closed, BooksStay, MarksStay, MarksGrow
    <3>2. ~Reserves(v, o) /\ ~Reserves(w, o)
      BY <2>6, IdleType DEF Begun, Passed, CreditedOne, ClawedOne, Refunded, Closed, Reserves
    <3>3. \A i \in Items : ~LetGo(v, o, i)
      BY <2>6 DEF Begun, Passed, CreditedOne, ClawedOne, Refunded, Closed, LetGo
    <3>4. \A i \in Items : ~LetGo(w, o, i)
      <4>1. \A i \in Items : ~(i < 1)
        BY DEF Items
      <4>2. QED
        BY <2>6, <4>1, IdleType DEF Begun, Passed, CreditedOne, ClawedOne, Refunded, Closed, LetGo
    <3>5. orders'[o].released = orders[o].released /\ (Exists(o)' => Exists(o))
      BY <3>1 DEF RowStays, Exists
    <3>6. QED
      BY <1>0, <1>4, <3>1, <3>2, <3>3, <3>4, <3>5, HeldBystander
  <2>7. QED
    BY <1>4, <2>1, <2>2, <2>3, <2>4, <2>5, <2>6 DEF StepOf
<1>5. QED
  BY <1>1, <1>2, <1>3, <1>4 DEF Seen

\* What changes neither the payment nor the creditors keeps the credits.
LEMMA CreditBystander ==
  ASSUME NEW o \in Orders, CreditKept(o), CreditStays(o), MarksGrow(o), Exists(o)' => Exists(o),
         orders'[o].pay = orders[o].pay, orders'[o].method = orders[o].method,
         Creditors(o)' = Creditors(o), \A i \in Items : ToCredit(o, i)' = ToCredit(o, i)
  PROVE  CreditKept(o)'
BY DEF CreditKept, CreditStays, MarksGrow, Intact

\* Who does not credit does not change who does.
LEMMA SameCreditors ==
  ASSUME NEW o \in Orders, NEW r \in Workers, NEW v, NEW w, Moves(r, v, w), ~Credits(v, o), ~Credits(w, o)
  PROVE  Creditors(o)' = Creditors(o) /\ \A i \in Items : ToCredit(o, i)' = ToCredit(o, i)
BY DEF Moves, ToCredit, Creditors

\* A new order is unpaid and nobody is credited.
LEMMA CreditPlaced ==
  ASSUME OnlineTypeOK, NEW o \in Orders, NEW r \in Workers, NEW v, NEW w, Moves(r, v, w),
         NothingYet(o), Placed(o, v, w)
  PROVE  CreditKept(o)'
<1>1. /\ \A s \in Workers : workers[s].of # o
      /\ \A i \in Items : credited'[o][i] = 0
      /\ orders'[o].pay = "UNPAID"
  BY DEF Placed, NothingYet, BooksStay, CreditStays
<1>2. Creditors(o)' = {}
  BY <1>1 DEF Moves, Placed, Creditors, Credits
<1>3. QED
  BY <1>1, <1>2 DEF CreditKept

\* A handler saves its copy: a payment, or what leaves it as it is.
LEMMA CreditSaved ==
  ASSUME OnlineTypeOK, NEW o \in Orders, NEW r \in Workers, NEW v, NEW w, Moves(r, v, w), v.of = o,
         CreditKept(o), Saved(o, v, w)
  PROVE  CreditKept(o)'
<1>1. SUFFICES ASSUME Exists(o)', Intact(o)', orders'[o].method # "MPESA"
               PROVE  CreditKept(o)'
  BY DEF CreditKept
<1>2. orders[o] = v.read /\ orders'[o] = v.copy /\ MarksGrow(o) /\ Intact(o) /\ CreditStays(o)
  BY <1>1 DEF Saved, Intact, MarksGrow, BooksStay
<1>3. WorkOK(v) /\ v.read \in Row /\ v.copy \in Row
  BY DEF Moves, Work
<1>4. /\ v.read.status \notin Absent /\ v.copy.method = v.read.method
      /\ (v.read.pay = "PAID" => v.copy.pay = "PAID")
  BY <1>1, <1>2, <1>3 DEF WorkOK, Saved, CopySteps, CopyOf
<1>5. Exists(o) /\ ~Credits(v, o) /\ orders[o].method # "MPESA"
  BY <1>1, <1>2, <1>4 DEF Exists, Saved, Credits
<1>6. CASE v.job = "pay"
  <2>1. v.read.pay # "PAID" /\ v.copy.pay = "PAID"
    BY <1>3, <1>6 DEF WorkOK, Saved
  <2>2. /\ Creditors(o) = {} /\ orders'[o].pay = "PAID"
        /\ \A i \in Items : credited[o][i] = 0
    BY <1>2, <1>5, <2>1 DEF CreditKept
  <2>3. w.at = "credit" /\ w.of = o /\ w.next = 1
    BY <1>6 DEF Saved, Moves, WorkOK
  <2>4. Creditors(o)' = {r}
    BY <2>2, <2>3 DEF Moves, Creditors, Credits
  <2>5. \A i \in Items : r \in ToCredit(o, i)'
    BY <2>3, <2>4 DEF Moves, ToCredit, Items
  <2>6. QED
    BY <1>2, <2>2, <2>4, <2>5 DEF CreditKept, CreditStays
<1>7. CASE v.job # "pay"
  <2>1. v.copy.pay = "PAID" <=> v.read.pay = "PAID"
    <3>1. Unpaid(v.copy, v.read)
      <4>1. CASE v.at = "save"
        BY <1>3, <1>7, <4>1 DEF WorkOK
      <4>2. CASE v.at = "saveReleased"
        BY <1>3, <4>2 DEF WorkOK, Released, Row, Unpaid
      <4>3. QED
        BY <4>1, <4>2 DEF Saved
    <3>2. QED
      BY <1>2, <1>4, <1>5, <3>1 DEF Unpaid
  <2>2. ~Credits(w, o)
    BY <1>7 DEF Saved, Credits
  <2>3. Creditors(o)' = Creditors(o) /\ \A i \in Items : ToCredit(o, i)' = ToCredit(o, i)
    BY <1>5, <2>2, SameCreditors
  <2>4. QED
    BY <1>2, <1>5, <2>1, <2>3 DEF CreditKept, CreditStays
<1>8. QED
  BY <1>6, <1>7

\* A pass of the creditor.
LEMMA CreditPassed ==
  ASSUME OnlineTypeOK, NEW o \in Orders, NEW r \in Workers, NEW v, NEW w, Moves(r, v, w), v.of = o,
         CreditKept(o), CreditedOne(o, v, w)
  PROVE  CreditKept(o)'
<1>1. SUFFICES ASSUME Exists(o)', Intact(o)', orders'[o].method # "MPESA"
               PROVE  CreditKept(o)'
  BY DEF CreditKept
<1>2. orders'[o] = orders[o] /\ Intact(o) /\ Exists(o) /\ OneMore(credited[o], credited'[o], v.next)
  BY <1>1 DEF CreditedOne, Intact, MarksGrow, RowStays, Exists
<1>3. v.next \in Items /\ ItemCount \in Nat /\ 1 \in Items /\ v = workers[r] /\ Items \subseteq Int
  BY OnlineOrdersAssumption DEF Moves, Work, Items
<1>4. r \in Creditors(o)
  BY <1>3 DEF CreditedOne, Creditors, Credits
<1>5. /\ Creditors(o) = {r} /\ orders[o].pay = "PAID"
      /\ \A i \in Items : credited[o][i] = IF ToCredit(o, i) = {} THEN 1 ELSE 0
  BY <1>1, <1>2, <1>4 DEF CreditKept
<1>6. \A i \in Items : ToCredit(o, i) # {} <=> v.next <= i
  BY <1>3, <1>5 DEF ToCredit
<1>7. \A i \in Items : ToCredit(o, i)' # {} <=> v.next + 1 <= i
  <2>1. CASE w.at = "credit" /\ w.of = o /\ w.next = v.next + 1
    <3>1. \A s \in Workers : s \in Creditors(o)' <=> s = r
      BY <1>5, <2>1, SetsAfter DEF Credits
    <3>2. Creditors(o)' = {r} /\ workers'[r] = w
      BY <3>1 DEF Creditors, Moves
    <3>3. QED
      BY <2>1, <3>2 DEF ToCredit
  <2>2. CASE v.next = ItemCount /\ w = Idle
    <3>1. \A s \in Workers : s \notin Creditors(o)'
      BY <1>5, <2>2, SetsAfter, IdleType DEF Credits
    <3>2. Creditors(o)' = {}
      BY <3>1 DEF Creditors
    <3>3. QED
      BY <1>3, <2>2, <3>2 DEF ToCredit, Items
  <2>3. QED
    BY <2>1, <2>2 DEF CreditedOne
<1>8. \A s, t \in Creditors(o)' : s = t
  <2>1. \A s \in Workers : s \in Creditors(o)' <=> IF s = r THEN Credits(w, o) ELSE s \in Creditors(o)
    BY SetsAfter
  <2>2. \A s \in Workers : s \in Creditors(o)' => s = r
    BY <1>5, <2>1
  <2>3. \A s \in Creditors(o)' : s \in Workers
    BY DEF Creditors
  <2>4. QED
    BY <2>2, <2>3
<1>9. \A i \in Items : credited'[o][i] = IF ToCredit(o, i)' = {} THEN 1 ELSE 0
  <2>1. \A i \in Items : credited'[o][i] = IF i = v.next THEN credited[o][i] + 1 ELSE credited[o][i]
    BY <1>2 DEF OneMore
  <2>2. ASSUME NEW i \in Items
        PROVE  credited'[o][i] = IF ToCredit(o, i)' = {} THEN 1 ELSE 0
    <3>1. /\ i \in Int /\ v.next \in Int
          /\ credited[o][i] = IF v.next <= i THEN 0 ELSE 1
          /\ credited'[o][i] = IF i = v.next THEN credited[o][i] + 1 ELSE credited[o][i]
      BY <1>3, <1>5, <1>6, <2>1
    <3>2. credited'[o][i] = IF v.next + 1 <= i THEN 0 ELSE 1
      BY <3>1
    <3>3. QED
      BY <1>7, <3>2
  <2>3. QED
    BY <2>2
<1>10. QED
  BY <1>2, <1>5, <1>8, <1>9 DEF CreditKept

\* Whatever step an order sees, its vendors are credited as its creditor passes.
LEMMA CreditNext ==
  ASSUME OnlineTypeOK, NEW o \in Orders, OrderKept(o), Seen(o)
  PROVE  CreditKept(o)'
<1>0. NothingYet(o) /\ CreditKept(o)
  BY DEF OrderKept
<1>1. CASE Untouched(o)
  <2>1. Creditors(o)' = Creditors(o) /\ \A i \in Items : ToCredit(o, i)' = ToCredit(o, i)
    BY <1>1 DEF Untouched, Creditors, Credits, ToCredit
  <2>2. /\ CreditStays(o) /\ orders'[o].pay = orders[o].pay /\ orders'[o].method = orders[o].method
        /\ (Exists(o)' => Exists(o)) /\ MarksGrow(o)
    BY <1>1 DEF Untouched, RowStays, BooksStay, MarksStay, MarksGrow, Exists
  <2>3. QED
    BY <1>0, <2>1, <2>2, CreditBystander
<1>2. CASE Rejected(o)
  <2>1. Creditors(o)' = Creditors(o) /\ \A i \in Items : ToCredit(o, i)' = ToCredit(o, i)
    BY <1>2 DEF Rejected, Creditors, Credits, ToCredit
  <2>2. /\ CreditStays(o) /\ orders'[o].pay = orders[o].pay /\ orders'[o].method = orders[o].method
        /\ (Exists(o)' => Exists(o)) /\ MarksGrow(o)
    BY <1>2 DEF Rejected, BooksStay, MarksStay, MarksGrow
  <2>3. QED
    BY <1>0, <2>1, <2>2, CreditBystander
<1>3. CASE Deleted(o)
  BY <1>3 DEF Deleted, CreditKept, Exists, Absent
<1>4. ASSUME NEW r \in Workers, NEW v, NEW w, Moves(r, v, w), StepOf(o, r, v, w)
      PROVE  CreditKept(o)'
  <2>1. CASE Died(o, w)
    BY <2>1 DEF Died, CreditKept, Intact
  <2>2. CASE Placed(o, v, w)
    BY <1>0, <1>4, <2>2, CreditPlaced
  <2>3. CASE v.of = o /\ CreditedOne(o, v, w)
    BY <1>0, <1>4, <2>3, CreditPassed
  <2>4. CASE v.of = o /\ Saved(o, v, w)
    BY <1>0, <1>4, <2>4, CreditSaved
  <2>5. CASE \/ Begun(o, v, w) \/ Passed(o, v, w) \/ Reserved(o, v, w) \/ LetGoOf(o, r, v, w)
             \/ ClawedOne(o, v, w) \/ Refunded(o, v, w) \/ Closed(o, v, w)
    <3>1. RowStays(o) /\ CreditStays(o) /\ MarksGrow(o)
      BY <2>5 DEF Begun, Passed, Reserved, LetGoOf, ClawedOne, Refunded, Closed, BooksStay, MarksStay, MarksGrow
    <3>2. ~Credits(v, o) /\ ~Credits(w, o)
      BY <2>5 DEF Begun, Passed, Reserved, LetGoOf, ClawedOne, Refunded, Closed, Credits
    <3>3. /\ orders'[o].pay = orders[o].pay /\ orders'[o].method = orders[o].method
          /\ (Exists(o)' => Exists(o))
      BY <3>1 DEF RowStays, Exists
    <3>4. Creditors(o)' = Creditors(o) /\ \A i \in Items : ToCredit(o, i)' = ToCredit(o, i)
      BY <1>4, <3>2, SameCreditors
    <3>5. QED
      BY <1>0, <3>1, <3>3, <3>4, CreditBystander
  <2>6. QED
    BY <1>4, <2>1, <2>2, <2>3, <2>4, <2>5 DEF StepOf
<1>5. QED
  BY <1>1, <1>2, <1>3, <1>4 DEF Seen

\* What moves no money of a dispute and does not close it keeps the refunds.
LEMMA RefundQuiet ==
  ASSUME NEW o \in Orders, RefundKept(o), RefundStays(o), MarksGrow(o),
         disputes'[o] = disputes[o] \/ (disputes[o] = "NONE" /\ disputes'[o] = "OPEN" /\ Clawing(o, 1) = {}),
         Refunding(o)' = Refunding(o), \A i \in Items : Clawing(o, i)' = Clawing(o, i)
  PROVE  RefundKept(o)'
<1>1. SUFFICES ASSUME Intact(o)', ~Doomed(Clawing(o, 1)', disputes'[o] # "OPEN")
               PROVE  /\ refunds'[o] = IF disputes'[o] = "REFUNDED" \/ Refunding(o)' # {} THEN 1 ELSE 0
                      /\ \A i \in Items :
                           clawed'[o][i] = IF disputes'[o] = "REFUNDED" \/ Clawing(o, i)' # {} THEN 1 ELSE 0
  BY DEF RefundKept
<1>2. 1 \in Items
  BY OnlineOrdersAssumption DEF Items
<1>3. Intact(o) /\ (disputes'[o] = "REFUNDED" <=> disputes[o] = "REFUNDED")
  BY <1>1 DEF Intact, MarksGrow
<1>4. ~Doomed(Clawing(o, 1), disputes[o] # "OPEN")
  BY <1>1, <1>2 DEF Doomed
<1>5. QED
  BY <1>3, <1>4 DEF RefundKept, RefundStays

\* The same, for a handler that is not concerned with it.
LEMMA RefundBystander ==
  ASSUME NEW o \in Orders, NEW r \in Workers, NEW v, NEW w, Moves(r, v, w), RefundKept(o), RefundStays(o),
         MarksGrow(o), DisputeKnown(o),
         disputes'[o] = disputes[o] \/ (disputes[o] = "NONE" /\ disputes'[o] = "OPEN"),
         ~RefundedOne(v, o), ~RefundedOne(w, o), \A i \in Items : ~ClawedBack(v, o, i) /\ ~ClawedBack(w, o, i)
  PROVE  RefundKept(o)'
<1>1. \A i \in Items : Clawing(o, i)' = Clawing(o, i)
  BY SetsAfter, SetsOfWorkers DEF Clawing
<1>2. Refunding(o)' = Refunding(o)
  BY SetsAfter, SetsOfWorkers DEF Refunding
<1>3. disputes[o] = "NONE" => Clawing(o, 1) = {}
  BY DEF DisputeKnown, Clawing, ClawedBack, DisputeSteps
<1>4. QED
  BY <1>1, <1>2, <1>3, RefundQuiet


\* A pass of the clawback charges one vendor, or dooms the order.
LEMMA RefundClawed ==
  ASSUME OnlineTypeOK, NEW o \in Orders, NEW r \in Workers, NEW v, NEW w, Moves(r, v, w), v.of = o,
         RefundKept(o), ClawedOne(o, v, w)
  PROVE  RefundKept(o)'
<1>1. SUFFICES ASSUME Intact(o)', ~Doomed(Clawing(o, 1)', disputes'[o] # "OPEN")
               PROVE  /\ refunds'[o] = IF disputes'[o] = "REFUNDED" \/ Refunding(o)' # {} THEN 1 ELSE 0
                      /\ \A i \in Items :
                           clawed'[o][i] = IF disputes'[o] = "REFUNDED" \/ Clawing(o, i)' # {} THEN 1 ELSE 0
  BY DEF RefundKept
<1>2. v.next \in Items /\ ItemCount \in Nat /\ 1 \in Items /\ Items \subseteq Int
  BY OnlineOrdersAssumption DEF Moves, Work, Items
<1>3. /\ disputes'[o] = disputes[o] /\ refunds'[o] = refunds[o] /\ Intact(o)
      /\ OneMore(clawed[o], clawed'[o], v.next)
  BY <1>1 DEF ClawedOne, DisputeStays, MarksStay, Intact
<1>4. v.job = "refund"
  BY DEF Moves, WorkOK, ClawedOne
<1>5. \A i \in Items : /\ ClawedBack(w, o, i) <=> (i = v.next \/ ClawedBack(v, o, i))
                       /\ ClawedBack(v, o, i) <=> i < v.next
  BY <1>2, <1>4 DEF ClawedOne, ClawedBack, Items
<1>6. ClawedBack(w, o, 1)
  BY <1>2, <1>5 DEF Items
<1>7. Clawing(o, 1)' = {r} /\ disputes[o] = "OPEN"
  BY <1>1, <1>3, <1>6, SetsAfter DEF Doomed
<1>8. \A s \in Workers \ {r} : s \notin Clawing(o, 1)
  BY <1>7, SetsAfter
<1>9. \A s \in Workers \ {r} : \A i \in Items : s \notin Clawing(o, i)
  <2>1. \A s \in Workers \ {r} : ~ClawedBack(workers[s], o, 1)
    BY <1>8 DEF Clawing
  <2>2. \A s \in Workers \ {r} : \A i \in Items : ~ClawedBack(workers[s], o, i)
    <3>1. \A s \in Workers : workers[s].next \in Items
      BY DEF OnlineTypeOK, WorkersTyped, Work
    <3>2. \A i \in Items, n \in Items : i < n => 1 < n
      BY <1>2 DEF Items
    <3>3. QED
      BY <2>1, <3>1, <3>2 DEF ClawedBack
  <2>3. QED
    BY <2>2 DEF Clawing
<1>10. /\ ~Doomed(Clawing(o, 1), disputes[o] # "OPEN")
       /\ \A i \in Items : (Clawing(o, i) # {} <=> i < v.next) /\ (Clawing(o, i)' # {} <=> (i = v.next \/ i < v.next))
  BY <1>5, <1>7, <1>8, <1>9, SetsAfter, SetsOfWorkers DEF Doomed, Clawing
<1>11. Refunding(o) = {} /\ Refunding(o)' = {}
  <2>1. ~RefundedOne(v, o) /\ ~RefundedOne(w, o)
    BY DEF ClawedOne, RefundedOne
  <2>2. \A s \in Workers : RefundedOne(workers[s], o) => ClawedBack(workers[s], o, 1)
    BY DEF RefundedOne, ClawedBack
  <2>3. \A s \in Workers : s \notin Refunding(o)
    BY <1>8, <2>1, <2>2, SetsAfter DEF Refunding, Clawing
  <2>4. \A s \in Workers : s \notin Refunding(o)'
    BY <2>1, <2>3, SetsAfter
  <2>5. QED
    BY <2>3, <2>4 DEF Refunding
<1>12. /\ refunds[o] = 0
       /\ \A i \in Items : clawed[o][i] = IF i < v.next THEN 1 ELSE 0
  BY <1>3, <1>7, <1>10, <1>11 DEF RefundKept
<1>13. ASSUME NEW i \in Items
       PROVE  clawed'[o][i] = IF disputes'[o] = "REFUNDED" \/ Clawing(o, i)' # {} THEN 1 ELSE 0
  <2>1. /\ i \in Int /\ v.next \in Int
        /\ clawed[o][i] = IF i < v.next THEN 1 ELSE 0
        /\ clawed'[o][i] = IF i = v.next THEN clawed[o][i] + 1 ELSE clawed[o][i]
    BY <1>2, <1>3, <1>12 DEF OneMore
  <2>2. clawed'[o][i] = IF i = v.next \/ i < v.next THEN 1 ELSE 0
    BY <2>1
  <2>3. QED
    BY <1>3, <1>7, <1>10, <2>2
<1>14. QED
  BY <1>3, <1>7, <1>11, <1>12, <1>13

\* The buyer is refunded once before the dispute is closed, or the order is doomed.
LEMMA RefundRefunded ==
  ASSUME OnlineTypeOK, NEW o \in Orders, NEW r \in Workers, NEW v, NEW w, Moves(r, v, w), v.of = o,
         RefundKept(o), Refunded(o, v, w)
  PROVE  RefundKept(o)'
<1>1. SUFFICES ASSUME Intact(o)', ~Doomed(Clawing(o, 1)', disputes'[o] # "OPEN")
               PROVE  /\ refunds'[o] = IF disputes'[o] = "REFUNDED" \/ Refunding(o)' # {} THEN 1 ELSE 0
                      /\ \A i \in Items :
                           clawed'[o][i] = IF disputes'[o] = "REFUNDED" \/ Clawing(o, i)' # {} THEN 1 ELSE 0
  BY DEF RefundKept
<1>2. 1 \in Items
  BY OnlineOrdersAssumption DEF Items
<1>3. disputes'[o] = disputes[o] /\ refunds'[o] = refunds[o] + 1 /\ clawed'[o] = clawed[o] /\ Intact(o)
  BY <1>1 DEF Refunded, DisputeStays, MarksStay, Intact
<1>4. v.job = "refund"
  BY DEF Moves, WorkOK, Refunded
<1>5. /\ \A i \in Items : ClawedBack(v, o, i) /\ ClawedBack(w, o, i)
      /\ ~RefundedOne(v, o) /\ RefundedOne(w, o)
  BY <1>4 DEF Refunded, ClawedBack, RefundedOne
<1>6. \A i \in Items : Clawing(o, i)' = Clawing(o, i)
  BY <1>5, SetsAfter, SetsOfWorkers DEF Clawing
<1>7. Clawing(o, 1) = {r} /\ disputes[o] = "OPEN"
  BY <1>1, <1>2, <1>3, <1>5, <1>6, SetsAfter DEF Doomed
<1>8. Refunding(o) = {}
  <2>1. \A s \in Workers : RefundedOne(workers[s], o) => ClawedBack(workers[s], o, 1)
    BY DEF RefundedOne, ClawedBack
  <2>2. r \notin Refunding(o)
    BY <1>5, SetsAfter
  <2>3. QED
    BY <1>7, <2>1, <2>2 DEF Refunding, Clawing
<1>9. r \in Refunding(o)'
  BY <1>5, SetsAfter
<1>10. /\ refunds[o] = 0
       /\ \A i \in Items : clawed[o][i] = IF Clawing(o, i) # {} THEN 1 ELSE 0
  <2>1. ~Doomed(Clawing(o, 1), disputes[o] # "OPEN")
    BY <1>7 DEF Doomed
  <2>2. QED
    BY <1>3, <1>7, <1>8, <2>1 DEF RefundKept
<1>11. QED
  BY <1>3, <1>6, <1>7, <1>9, <1>10

\* The dispute is closed by the handler that refunded, if any did.
LEMMA RefundClosed ==
  ASSUME OnlineTypeOK, NEW o \in Orders, NEW r \in Workers, NEW v, NEW w, Moves(r, v, w), v.of = o,
         RefundKept(o), Closed(o, v, w)
  PROVE  RefundKept(o)'
<1>1. SUFFICES ASSUME Intact(o)', ~Doomed(Clawing(o, 1)', disputes'[o] # "OPEN")
               PROVE  /\ refunds'[o] = IF disputes'[o] = "REFUNDED" \/ Refunding(o)' # {} THEN 1 ELSE 0
                      /\ \A i \in Items :
                           clawed'[o][i] = IF disputes'[o] = "REFUNDED" \/ Clawing(o, i)' # {} THEN 1 ELSE 0
  BY DEF RefundKept
<1>2. 1 \in Items
  BY OnlineOrdersAssumption DEF Items
<1>3. /\ disputes'[o] = (IF v.job = "refund" THEN "REFUNDED" ELSE "RESOLVED") /\ disputes[o] = "OPEN"
      /\ refunds'[o] = refunds[o] /\ clawed'[o] = clawed[o] /\ Intact(o)
  BY <1>1 DEF Closed, BooksStay, RefundStays, MarksGrow, Intact
<1>4. Clawing(o, 1)' = {}
  BY <1>1, <1>3 DEF Doomed
<1>5. \A s \in Workers \ {r} : ~ClawedBack(workers[s], o, 1)
  BY <1>4, SetsAfter DEF Clawing
<1>6. \A s \in Workers \ {r} : \A i \in Items : ~ClawedBack(workers[s], o, i) /\ ~RefundedOne(workers[s], o)
  <2>1. \A s \in Workers : workers[s].next \in Items
    BY DEF OnlineTypeOK, WorkersTyped, Work
  <2>2. \A i \in Items, n \in Items : i < n => 1 < n
    BY OnlineOrdersAssumption DEF Items
  <2>3. QED
    BY <1>5, <2>1, <2>2 DEF ClawedBack, RefundedOne
<1>7. \A i \in Items : ~ClawedBack(w, o, i) /\ ~RefundedOne(w, o)
  BY DEF Closed, ClawedBack, RefundedOne
<1>8. Refunding(o)' = {} /\ \A i \in Items : Clawing(o, i)' = {}
  <2>1. \A s \in Workers : s \notin Refunding(o)' /\ \A i \in Items : s \notin Clawing(o, i)'
    BY <1>2, <1>6, <1>7, SetsAfter DEF Refunding, Clawing
  <2>2. QED
    BY <2>1 DEF Refunding, Clawing
<1>9. ~Doomed(Clawing(o, 1), disputes[o] # "OPEN")
  BY <1>3, <1>5 DEF Doomed, Clawing
<1>10. /\ refunds[o] = IF Refunding(o) # {} THEN 1 ELSE 0
       /\ \A i \in Items : clawed[o][i] = IF Clawing(o, i) # {} THEN 1 ELSE 0
  BY <1>3, <1>9 DEF RefundKept
<1>11. CASE v.job = "refund"
  <2>1. RefundedOne(v, o) /\ \A i \in Items : ClawedBack(v, o, i)
    BY <1>11 DEF Closed, RefundedOne, ClawedBack
  <2>2. Refunding(o) # {} /\ \A i \in Items : Clawing(o, i) # {}
    BY <2>1, SetsAfter
  <2>3. QED
    BY <1>3, <1>10, <1>11, <2>2
<1>12. CASE v.job # "refund"
  <2>1. ~RefundedOne(v, o) /\ \A i \in Items : ~ClawedBack(v, o, i)
    BY <1>12 DEF RefundedOne, ClawedBack
  <2>2. Refunding(o) = {} /\ \A i \in Items : Clawing(o, i) = {}
    BY <1>2, <1>6, <2>1 DEF Moves, Refunding, Clawing
  <2>3. QED
    BY <1>3, <1>8, <1>10, <1>12, <2>2
<1>13. QED
  BY <1>11, <1>12

\* Whatever step an order sees, its refunds are those of its dispute.
LEMMA RefundNext ==
  ASSUME OnlineTypeOK, NEW o \in Orders, OrderKept(o), Seen(o)
  PROVE  RefundKept(o)'
<1>0. DisputeKnown(o) /\ RefundKept(o)
  BY DEF OrderKept
<1>1. CASE Untouched(o)
  <2>1. Refunding(o)' = Refunding(o) /\ \A i \in Items : Clawing(o, i)' = Clawing(o, i)
    BY <1>1 DEF Untouched, Refunding, RefundedOne, Clawing, ClawedBack
  <2>2. RefundStays(o) /\ MarksGrow(o) /\ disputes'[o] = disputes[o]
    BY <1>1 DEF Untouched, BooksStay, MarksStay, MarksGrow, DisputeStays
  <2>3. QED
    BY <1>0, <2>1, <2>2, RefundQuiet
<1>2. CASE Rejected(o) \/ Deleted(o)
  <2>1. Refunding(o)' = Refunding(o) /\ \A i \in Items : Clawing(o, i)' = Clawing(o, i)
    BY <1>2 DEF Rejected, Deleted, Refunding, RefundedOne, Clawing, ClawedBack
  <2>2. RefundStays(o) /\ MarksGrow(o) /\ disputes'[o] = disputes[o]
    BY <1>2 DEF Rejected, Deleted, BooksStay, MarksStay, MarksGrow, DisputeStays
  <2>3. QED
    BY <1>0, <2>1, <2>2, RefundQuiet
<1>3. ASSUME NEW r \in Workers, NEW v, NEW w, Moves(r, v, w), StepOf(o, r, v, w)
      PROVE  RefundKept(o)'
  <2>1. CASE Died(o, w)
    BY <2>1 DEF Died, RefundKept, Intact
  <2>2. CASE v.of = o /\ ClawedOne(o, v, w)
    BY <1>0, <1>3, <2>2, RefundClawed
  <2>3. CASE v.of = o /\ Refunded(o, v, w)
    BY <1>0, <1>3, <2>3, RefundRefunded
  <2>4. CASE v.of = o /\ Closed(o, v, w)
    BY <1>0, <1>3, <2>4, RefundClosed
  <2>5. CASE \/ Begun(o, v, w) \/ Placed(o, v, w) \/ Passed(o, v, w) \/ Saved(o, v, w) \/ Reserved(o, v, w)
             \/ LetGoOf(o, r, v, w) \/ CreditedOne(o, v, w)
    <3>1. /\ RefundStays(o) /\ MarksGrow(o)
          /\ disputes'[o] = disputes[o] \/ (disputes[o] = "NONE" /\ disputes'[o] = "OPEN")
      BY <2>5 DEF Begun, Placed, Passed, Saved, Reserved, LetGoOf, CreditedOne, BooksStay, MarksStay, MarksGrow,
         DisputeStays
    <3>2. ~RefundedOne(v, o) /\ \A i \in Items : ~ClawedBack(v, o, i)
      BY <2>5 DEF Begun, Placed, Passed, Saved, Reserved, LetGoOf, CreditedOne, RefundedOne, ClawedBack
    <3>3. ~RefundedOne(w, o) /\ \A i \in Items : ~ClawedBack(w, o, i)
      <4>1. \A i \in Items : ~(i < 1)
        BY DEF Items
      <4>2. w.job = "refund" => w.at # "closeDispute" \/ ~Begun(o, v, w)
        BY DEF Begun, DisputeSteps
      <4>3. QED
        BY <2>5, <4>1, <4>2, IdleType DEF Begun, Placed, Passed, Saved, Reserved, LetGoOf, CreditedOne,
           RefundedOne, ClawedBack
    <3>4. QED
      BY <1>0, <1>3, <3>1, <3>2, <3>3, RefundBystander
  <2>6. QED
    BY <1>3, <2>1, <2>2, <2>3, <2>4, <2>5 DEF StepOf
<1>4. QED
  BY <1>1, <1>2, <1>3 DEF Seen

-------------------------------------------------------------------------------
(* Correctness *)

\* Every step keeps what is known of every order.
LEMMA OnlineInvNext ==
  ASSUME OnlineInv, [DeliveriesNext]_onlineVars
  PROVE  OnlineInv'
<1>1. OnlineTypeOK /\ OnlineTypeOK'
  BY OnlineTypeNext DEF OnlineInv
<1>2. ASSUME NEW o \in Orders
      PROVE  OrderKept(o)'
  <2>1. OrderKept(o) /\ Seen(o)
    BY <1>1, OrderStep DEF OnlineInv
  <2>2. NothingYet(o) /\ OneReserves(o) /\ DisputeKnown(o)
    BY <2>1 DEF OrderKept
  <2>3. NothingYet(o)' /\ OneReserves(o)' /\ DisputeKnown(o)'
    BY <1>1, <2>1, <2>2, NothingYetNext, OneReservesNext, DisputeKnownNext
  <2>4. HeldKept(o)' /\ CreditKept(o)' /\ RefundKept(o)'
    BY <1>1, <2>1, HeldNext, CreditNext, RefundNext
  <2>5. QED
    BY <2>3, <2>4 DEF OrderKept
<1>3. QED
  BY <1>1, <1>2 DEF OnlineInv

\* The inductive invariant of online orders holds.
THEOREM OnlineInvariant == DeliveriesSpec => []OnlineInv
<1>1. QED
  BY OnlineInvInit, OnlineInvNext, PTL DEF DeliveriesSpec

\* An order at rest has nobody at work.
LEMMA AtRest ==
  ASSUME OnlineTypeOK, NEW o \in Orders, Settled(o)
  PROVE  /\ Exists(o) /\ Intact(o)
         /\ Creditors(o) = {} /\ Refunding(o) = {}
         /\ \A i : LettingGo(o, i) = {} /\ Clawing(o, i) = {} /\ ToReserve(o, i) = {} /\ ToCredit(o, i) = {}
BY DEF Settled, Busy, Of, Intact, Creditors, Credits, Refunding, RefundedOne, LettingGo, LetGo, Clawing, ClawedBack,
       ToReserve, Reservers, Reserves, ToCredit

\* onlineReservationReleasedAt tells whether the ledger still reserves the
\* items of an order that nobody works on.
THEOREM ReservationsAreKept == DeliveriesSpec => []ReservationKept
<1>1. OnlineInv => ReservationKept
  <2> SUFFICES ASSUME OnlineInv, NEW o \in Orders, Settled(o), NEW i \in Items
               PROVE  held[o][i] = IF orders[o].released THEN 0 ELSE 1
    BY DEF ReservationKept
  <2>1. /\ Exists(o) /\ Intact(o) /\ LettingGo(o, 1) = {} /\ LettingGo(o, i) = {} /\ ToReserve(o, i) = {}
        /\ HeldKept(o)
    BY AtRest DEF OnlineInv, OrderKept
  <2>2. ~Doomed(LettingGo(o, 1), orders[o].released)
    BY <2>1 DEF Doomed
  <2>3. QED
    BY <2>1, <2>2 DEF HeldKept
<1>2. QED
  BY <1>1, OnlineInvariant, PTL

\* triggerPostPaymentProcessing credits every vendor of a paid order once.
THEOREM VendorsAreCreditedOnce == DeliveriesSpec => []CreditedOncePaid
<1>1. OnlineInv => CreditedOncePaid
  <2> SUFFICES ASSUME OnlineInv, NEW o \in Orders, Settled(o), orders[o].method # "MPESA", NEW i \in Items
               PROVE  credited[o][i] = IF orders[o].pay = "PAID" THEN 1 ELSE 0
    BY DEF CreditedOncePaid
  <2>1. Exists(o) /\ Intact(o) /\ ToCredit(o, i) = {} /\ CreditKept(o)
    BY AtRest DEF OnlineInv, OrderKept
  <2>2. QED
    BY <2>1 DEF CreditKept
<1>2. QED
  BY <1>1, OnlineInvariant, PTL

\* refundDispute moves the money once for a dispute that ends REFUNDED.
THEOREM DisputesAreRefundedOnce == DeliveriesSpec => []RefundedOncePerDispute
<1>1. OnlineInv => RefundedOncePerDispute
  <2> SUFFICES ASSUME OnlineInv, NEW o \in Orders, Settled(o)
               PROVE  /\ refunds[o] = IF disputes[o] = "REFUNDED" THEN 1 ELSE 0
                      /\ \A i \in Items : clawed[o][i] = IF disputes[o] = "REFUNDED" THEN 1 ELSE 0
    BY DEF RefundedOncePerDispute
  <2>1. Intact(o) /\ Refunding(o) = {} /\ (\A i : Clawing(o, i) = {}) /\ RefundKept(o)
    BY AtRest DEF OnlineInv, OrderKept
  <2>2. ~Doomed(Clawing(o, 1), disputes[o] # "OPEN")
    BY <2>1 DEF Doomed
  <2>3. QED
    BY <2>1, <2>2 DEF RefundKept
<1>2. QED
  BY <1>1, OnlineInvariant, PTL

\* No handler that saw the payment takes it back.
THEOREM PaymentsAreKept == DeliveriesSpec => PaidStaysPaid
<1>1. ASSUME OnlineTypeOK, [DeliveriesNext]_onlineVars, NEW o \in Orders,
             Exists(o), orders[o].method # "MPESA", orders[o].pay = "PAID", Exists(o)', ~lost'[o]
      PROVE  orders'[o].pay = "PAID"
  <2>1. CASE RowStays(o)
    BY <1>1, <2>1 DEF RowStays
  <2>2. CASE Rejected(o)
    BY <1>1, <2>2 DEF Rejected
  <2>3. CASE Deleted(o)
    BY <1>1, <2>3 DEF Deleted, Exists, Absent
  <2>4. ASSUME NEW r \in Workers, NEW v \in Work, NEW w \in Work, Moves(r, v, w), Saved(o, v, w)
        PROVE  orders'[o].pay = "PAID"
    <3>1. orders[o] = v.read /\ orders'[o] = v.copy /\ v.at \in CopySteps
      BY <1>1, <2>4 DEF Saved, CopySteps
    <3>2. QED
      BY <1>1, <2>4, <3>1 DEF Moves, WorkOK, CopyOf
  <2>5. ASSUME NEW r \in Workers, NEW v \in Work, NEW w \in Work, Moves(r, v, w), StepOf(o, r, v, w)
        PROVE  RowStays(o) \/ Placed(o, v, w) \/ Saved(o, v, w)
    BY <2>5 DEF StepOf, Begun, Passed, Died, Reserved, LetGoOf, CreditedOne, ClawedOne, Refunded, Closed
  <2>6. QED
    BY <1>1, <2>1, <2>2, <2>3, <2>4, <2>5, OrderStep DEF Seen, Untouched, Placed, Exists, Absent
<1>2. ASSUME OnlineTypeOK, [DeliveriesNext]_onlineVars
      PROVE  [\A o \in Orders :
                Exists(o) /\ orders[o].method # "MPESA" /\ orders[o].pay = "PAID" /\ Exists(o)' /\ ~lost'[o]
                  => orders'[o].pay = "PAID"]_onlineVars
  BY <1>1, <1>2
<1>3. QED
  BY <1>2, OnlineTypeCorrect, PTL DEF DeliveriesSpec, PaidStaysPaid
=============================================================================
