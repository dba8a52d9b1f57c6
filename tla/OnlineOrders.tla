----------------------------- MODULE OnlineOrders -----------------------------
(***************************************************************************)
(* OrdersService: an online order from its creation to its payment, its    *)
(* cancellation and its disputes; what it reserves at its branch, and what *)
(* it posts to wallets.                                                    *)
(*                                                                         *)
(* Every handler reads the order's row, works on the copy and saves the    *)
(* copy: each call of a repository commits by itself, and another handler  *)
(* may run between any two.  Deliveries adds the deliverers' handlers.     *)
(***************************************************************************)
EXTENDS Integers, FiniteSets

CONSTANTS
  Orders, Workers,
  ItemCount,       \* items of an order; item i is a product and a vendor
  Methods,         \* payment methods a buyer may choose
  ItemStatuses,    \* bound: what an admin's item update may make of an order
  MaxHandlers,     \* bound: handlers that start after the orders were placed
  None

ASSUME OnlineOrdersAssumption ==
  /\ ItemCount \in Nat \ {0} /\ MaxHandlers \in Nat
  /\ None \notin Orders
  /\ Methods \subseteq {"EBIRR", "MPESA", "BANK_TRANSFER"}
  /\ ItemStatuses \subseteq {"PENDING", "PROCESSING", "SHIPPED", "OUT_FOR_DELIVERY",
                             "DELIVERED", "DELIVERY_FAILED", "CANCELLED"}

VARIABLES
  orders,          \* the row of every order
  reserved,        \* reservedOnline of every product at the branch
  disputes,        \* status of the order's dispute: it has one at most
  workers,         \* what every request is doing
  handled,         \* handlers that started
  \* history
  held,            \* what each order item holds of reservedOnline
  credited,        \* how often each item's vendor was credited for a payment
  delivered,       \* how often he was credited for a delivery
  clawed,          \* how often he was charged back
  refunds,         \* how often the buyer was refunded
  lost,            \* a handler worked on a copy another one had outdated
  cut              \* a handler of the order died or failed halfway

onlineTables == <<orders, reserved, disputes>>
postings == <<credited, delivered, clawed, refunds>>
accidents == <<lost, cut>>
onlineVars == <<onlineTables, workers, handled, held, postings, accidents>>

Items == 1..ItemCount
Payments == {"UNPAID", "PAID", "FAILED"}
Statuses == {"PENDING", "PROCESSING", "SHIPPED", "OUT_FOR_DELIVERY", "DELIVERED",
             "DELIVERY_FAILED", "CANCELLED", "CANCELLED_BY_SELLER", "DISPUTED"}
Drivers == {"NONE", "PENDING", "ACCEPTED"}
Absent == {"NOT_PLACED", "DELETED"}
Row == [method : Methods \cup {None}, pay : Payments, status : Statuses \cup Absent,
        released : BOOLEAN, driver : Drivers]
NoRow(why) == [method |-> None, pay |-> "UNPAID", status |-> why, released |-> FALSE, driver |-> "NONE"]
NewRow(method) == [NoRow("PENDING") EXCEPT !.method = method]

Idle == [at |-> "idle", job |-> "none", of |-> None,
         read |-> NoRow("NOT_PLACED"), copy |-> NoRow("NOT_PLACED"), dispute |-> "NONE", next |-> 1]

PerItem(x) == [o \in Orders |-> [i \in Items |-> x]]
OnlineInit ==
  /\ orders = [o \in Orders |-> NoRow("NOT_PLACED")]
  /\ reserved = [i \in Items |-> 0]
  /\ disputes = [o \in Orders |-> "NONE"]
  /\ workers = [r \in Workers |-> Idle]
  /\ handled = 0
  /\ held = PerItem(0)
  /\ credited = PerItem(0) /\ delivered = PerItem(0) /\ clawed = PerItem(0)
  /\ refunds = [o \in Orders |-> 0]
  /\ lost = [o \in Orders |-> FALSE] /\ cut = [o \in Orders |-> FALSE]

-------------------------------------------------------------------------------
(* Handlers *)

At(r, step) == workers[r].at = step
Of(r) == workers[r].of
Exists(o) == orders[o].status \notin Absent
Busy(o) == \E r \in Workers : Of(r) = o

Become(r, work) == workers' = [workers EXCEPT ![r] = work]
Goto(r, step) == workers' = [workers EXCEPT ![r].at = step, ![r].next = 1]
End(r) == Become(r, Idle)
Lose(o, isLost) == lost' = [lost EXCEPT ![o] = @ \/ isLost]
Cut(o) == cut' = [cut EXCEPT ![o] = TRUE]

\* A handler is at `step` with the row as it read it, and a copy changed in memory.
Handling(o, job, step, copy) ==
  [at |-> step, job |-> job, of |-> o, read |-> orders[o], copy |-> copy,
   dispute |-> disputes[o], next |-> 1]

Start(r, o, job, step, copy) == At(r, "idle") /\ Become(r, Handling(o, job, step, copy))

Count == handled < MaxHandlers /\ handled' = handled + 1

Load(r, o, job, step, copy) ==
  /\ Exists(o) /\ Count
  /\ Start(r, o, job, step, copy)
  /\ UNCHANGED <<onlineTables, held, postings, accidents>>

\* One pass of a loop over the order's items, then the step that follows it.
Step(r, after) ==
  IF workers[r].next < ItemCount
  THEN workers' = [workers EXCEPT ![r].next = @ + 1]
  ELSE IF after = "end" THEN End(r) ELSE Goto(r, after)

\* What a handler does once its copy of the row has been saved.
AfterSave(job, copy) ==
  IF job = "pay" THEN "credit"
  ELSE IF job = "deliver" THEN IF copy.released THEN "earn" ELSE "release"
  ELSE "end"

\* save(order) writes every column of the copy, and inserts a deleted row anew.
Save(r) ==
  LET w == workers[r]
      after == AfterSave(w.job, w.copy)
  IN  /\ w.at = "save"
      /\ orders' = [orders EXCEPT ![w.of] = w.copy]
      /\ Lose(w.of, orders[w.of] # w.read)
      /\ IF after = "end" THEN End(r)
         ELSE Become(r, [w EXCEPT !.at = after, !.read = w.copy, !.next = 1])
      /\ UNCHANGED <<reserved, disputes, handled, held, postings, cut>>

-------------------------------------------------------------------------------
(* Creation and reservation *)

\* createFromCart saves the order, then reserves.
PlaceOrder(r, o) ==
  /\ orders[o].status = "NOT_PLACED"
  /\ \E method \in Methods :
       /\ Start(r, o, "create", "reserve", NewRow(method))
       /\ orders' = [orders EXCEPT ![o] = NewRow(method)]
  /\ UNCHANGED <<reserved, disputes, handled, held, postings, accidents>>

\* applyOnlineReservation, item by item.
Reserve(r) ==
  LET o == Of(r)
      i == workers[r].next
  IN  /\ At(r, "reserve")
      /\ reserved' = [reserved EXCEPT ![i] = @ + 1]
      /\ held' = [held EXCEPT ![o][i] = @ + 1]
      /\ Step(r, IF workers[r].copy.method = "EBIRR" THEN "provider" ELSE "end")
      /\ UNCHANGED <<orders, disputes, handled, postings, accidents>>

\* Where a handler goes whose order must let go of what it holds.
ToRelease(copy) == IF copy.released THEN "save" ELSE "release"

\* Mutant: what was released is not marked so.
ReleasedUnmarked(copy) == copy
Released(copy) == [copy EXCEPT !.released = TRUE]

\* releaseOnlineReservation, item by item; adjustReservedOnline refuses to go
\* below zero, and the handler fails.  The copy is marked in memory.
Release(r) ==
  LET w == workers[r]
      stale == orders[w.of] # w.read
               \/ \E s \in Workers \ {r} : Of(s) = w.of /\ At(s, "release")
  IN  /\ w.at = "release"
      /\ Lose(w.of, stale)
      /\ IF reserved[w.next] = 0
         THEN End(r) /\ Cut(w.of) /\ UNCHANGED <<reserved, held>>
         ELSE /\ reserved' = [reserved EXCEPT ![w.next] = @ - 1]
              /\ held' = [held EXCEPT ![w.of][w.next] = @ - 1]
              /\ Become(r, IF w.next < ItemCount THEN [w EXCEPT !.next = @ + 1]
                           ELSE [w EXCEPT !.copy = Released(@), !.next = 1,
                                          !.at = IF w.job = "deliver" THEN "saveReleased" ELSE "save"])
              /\ UNCHANGED cut
      /\ UNCHANGED <<orders, disputes, handled, postings>>

-------------------------------------------------------------------------------
(* Payment *)

Paid(copy) == [copy EXCEPT !.pay = "PAID", !.status = "PROCESSING"]

\* Mutant: a second confirmation is not recognised.
LoadAnyForPayment(r, o) == Exists(o) /\ Load(r, o, "pay", "save", Paid(orders[o]))

\* triggerPostPaymentProcessing, from a provider's callback or an admin.
LoadForPayment(r, o) ==
  /\ Exists(o)
  /\ orders[o].pay # "PAID"
  /\ Load(r, o, "pay", "save", Paid(orders[o]))

\* creditWallet for one item; an error is logged and the next item follows.
CreditVendor(r) ==
  LET o == Of(r)
  IN  /\ At(r, "credit")
      /\ Step(r, "end")
      /\ \/ /\ credited' = [credited EXCEPT ![o][workers[r].next] = @ + 1]
            /\ UNCHANGED cut
         \/ Cut(o) /\ UNCHANGED credited
      /\ UNCHANGED <<onlineTables, handled, held, delivered, clawed, refunds, lost>>

Declined(copy) == [copy EXCEPT !.pay = "FAILED", !.status = "CANCELLED"]

\* Mutant: the payment that arrived meanwhile is not looked at.
DeclineAnything(r) ==
  LET o == Of(r)
  IN  /\ At(r, "provider")
      /\ Exists(o)
      /\ Become(r, Handling(o, "cancel", ToRelease(orders[o]), Declined(orders[o])))
      /\ UNCHANGED <<onlineTables, handled, held, postings, accidents>>

\* processEbirrPaymentAsync, declined: the order is read again.
ProviderDeclines(r) ==
  LET o == Of(r)
  IN  /\ At(r, "provider")
      /\ IF Exists(o) /\ orders[o].pay # "PAID"
         THEN Become(r, Handling(o, "cancel", ToRelease(orders[o]), Declined(orders[o])))
         ELSE End(r)
      /\ UNCHANGED <<onlineTables, handled, held, postings, accidents>>

\* ... approved: triggerPostPaymentProcessing; or left to the callback.
ProviderApproves(r) ==
  LET o == Of(r)
  IN  /\ At(r, "provider")
      /\ IF Exists(o) /\ orders[o].pay # "PAID"
         THEN Become(r, Handling(o, "pay", "save", Paid(orders[o])))
         ELSE End(r)
      /\ UNCHANGED <<onlineTables, handled, held, postings, accidents>>

ProviderPends(r) ==
  /\ At(r, "provider")
  /\ End(r)
  /\ UNCHANGED <<onlineTables, handled, held, postings, accidents>>

\* The callbacks of PaymentsController write the payment status and nothing
\* else, whatever it was: a late refusal undoes a payment.
PaymentCallback(r, o) ==
  /\ Exists(o) /\ orders[o].method = "MPESA"
  /\ \E result \in {"PAID", "FAILED"} :
       Load(r, o, "simple", "save", [orders[o] EXCEPT !.pay = result])

-------------------------------------------------------------------------------
(* Cancellation and admin updates *)

CancelOrder(r, o) ==
  /\ Exists(o)
  /\ orders[o].status \notin {"CANCELLED", "CANCELLED_BY_SELLER", "DELIVERED"}
  /\ LET copy == [orders[o] EXCEPT !.status = "CANCELLED"]
     IN  Load(r, o, "cancel", ToRelease(copy), copy)

\* Mutant: only a delivered order lets go of what it holds.
EndingDelivered(status) == status = "DELIVERED"
Ending(status) == status \in {"DELIVERED", "CANCELLED", "CANCELLED_BY_SELLER"}

\* updateOrderItemStatus of an admin; the items' statuses are abstracted to the
\* aggregate that computeAggregateStatus makes of them.
UpdateItemStatus(r, o) ==
  /\ Exists(o)
  /\ \E aggregate \in ItemStatuses \ {orders[o].status} :
       LET copy == [orders[o] EXCEPT !.status = aggregate]
       IN  Load(r, o, "cancel", IF Ending(aggregate) THEN ToRelease(copy) ELSE "save", copy)

\* VendorService lets a seller move an order, or an item of it, along these
\* edges, the shipping ones only once it is paid, and releases nothing.
VendorEdges ==
  {"PENDING"} \X {"PROCESSING", "CANCELLED_BY_SELLER"}
  \cup {"PROCESSING"} \X {"SHIPPED", "CANCELLED_BY_SELLER"}
  \cup {"SHIPPED"} \X {"OUT_FOR_DELIVERY", "DELIVERED"}
  \cup {"OUT_FOR_DELIVERY"} \X {"DELIVERED", "DELIVERY_FAILED"}

VendorUpdate(r, o) ==
  /\ Exists(o)
  /\ \E status \in Statuses :
       /\ <<orders[o].status, status>> \in VendorEdges
       /\ status \in {"SHIPPED", "OUT_FOR_DELIVERY", "DELIVERED"} => orders[o].pay = "PAID"
       /\ Load(r, o, "simple", "save", [orders[o] EXCEPT !.status = status])

\* hardDelete, in one transaction; what the order held stays reserved.
HardDelete(o) ==
  /\ Exists(o) /\ Count
  /\ disputes[o] = "NONE"
  /\ orders' = [orders EXCEPT ![o] = NoRow("DELETED")]
  /\ UNCHANGED <<reserved, disputes, workers, held, postings, accidents>>

-------------------------------------------------------------------------------
(* Disputes *)

\* disputeOrder: the dispute is saved, then the copy of the order.  An order
\* has one dispute for good (a unique column).
DisputeOrder(r, o) ==
  /\ disputes[o] = "NONE"
  /\ Exists(o) /\ orders[o].status # "DISPUTED" /\ Count
  /\ Start(r, o, "simple", "save", [orders[o] EXCEPT !.status = "DISPUTED"])
  /\ disputes' = [disputes EXCEPT ![o] = "OPEN"]
  /\ UNCHANGED <<orders, reserved, held, postings, accidents>>

\* resolveDispute: the vendor wins, the order counts as delivered.
LoadForResolution(r, o) ==
  /\ disputes[o] = "OPEN"
  /\ Load(r, o, "resolve", "closeDispute", orders[o])

\* Mutant: a closed dispute can be refunded again.
LoadAnyForRefund(r, o) ==
  /\ disputes[o] # "NONE"
  /\ Load(r, o, "refund", "clawback", orders[o])

\* refundDispute: the money moves before the dispute is closed.
LoadForRefund(r, o) ==
  /\ disputes[o] = "OPEN"
  /\ Load(r, o, "refund", "clawback", orders[o])

Clawback(r) ==
  /\ At(r, "clawback")
  /\ clawed' = [clawed EXCEPT ![Of(r)][workers[r].next] = @ + 1]
  /\ Step(r, "refundBuyer")
  /\ UNCHANGED <<onlineTables, handled, held, credited, delivered, refunds, accidents>>

RefundBuyer(r) ==
  /\ At(r, "refundBuyer")
  /\ refunds' = [refunds EXCEPT ![Of(r)] = @ + 1]
  /\ Goto(r, "closeDispute")
  /\ UNCHANGED <<onlineTables, handled, held, credited, delivered, clawed, accidents>>

\* Both save the dispute as they read it, closed, and go on with the order.
CloseDispute(r) ==
  LET w == workers[r]
      refund == w.job = "refund"
      copy == [w.copy EXCEPT !.status = IF refund THEN "CANCELLED" ELSE "DELIVERED"]
  IN  /\ w.at = "closeDispute"
      /\ disputes' = [disputes EXCEPT ![w.of] = IF refund THEN "REFUNDED" ELSE "RESOLVED"]
      /\ Lose(w.of, disputes[w.of] # w.dispute)
      /\ Become(r, [w EXCEPT !.at = ToRelease(copy), !.copy = copy])
      /\ UNCHANGED <<orders, reserved, handled, held, postings, cut>>

-------------------------------------------------------------------------------
(* The process dies *)

Crash(r) ==
  /\ ~At(r, "idle")
  /\ Cut(Of(r))
  /\ End(r)
  /\ UNCHANGED <<onlineTables, handled, held, postings, lost>>

OrderHandlers(r) ==
  \/ \E o \in Orders :
       \/ PlaceOrder(r, o) \/ LoadForPayment(r, o) \/ PaymentCallback(r, o)
       \/ CancelOrder(r, o) \/ UpdateItemStatus(r, o) \/ VendorUpdate(r, o)
       \/ DisputeOrder(r, o) \/ LoadForResolution(r, o) \/ LoadForRefund(r, o)
  \/ Save(r) \/ Reserve(r) \/ Release(r) \/ CreditVendor(r)
  \/ ProviderApproves(r) \/ ProviderDeclines(r) \/ ProviderPends(r)
  \/ Clawback(r) \/ RefundBuyer(r) \/ CloseDispute(r)
  \/ Crash(r)
=============================================================================
