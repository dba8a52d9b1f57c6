------------------------------ MODULE Deliveries ------------------------------
(***************************************************************************)
(* DelivererService: a deliverer is assigned to an order, accepts or       *)
(* refuses, picks it up, delivers it or fails; a delivery releases what    *)
(* the order held and credits its vendors.  With OnlineOrders it makes up  *)
(* everything that changes an online order.                                *)
(***************************************************************************)
EXTENDS OnlineOrders

\* assignDeliverer, assignDelivererByVendor: whatever the order's status.
AssignDeliverer(r, o) ==
  /\ Exists(o)
  /\ Load(r, o, "simple", "save", [orders[o] EXCEPT !.driver = "PENDING", !.status = "SHIPPED"])

AcceptAssignment(r, o) ==
  /\ Exists(o)
  /\ LET status == IF orders[o].status = "PENDING" THEN "PROCESSING" ELSE orders[o].status
     IN  Load(r, o, "simple", "save", [orders[o] EXCEPT !.driver = "ACCEPTED", !.status = status])

\* rejectAssignment updates its columns only.
RejectAssignment(o) ==
  /\ Exists(o) /\ Count
  /\ orders[o].driver # "NONE"
  /\ orders' = [orders EXCEPT ![o].driver = "NONE", ![o].status = "PROCESSING"]
  /\ UNCHANGED <<reserved, disputes, workers, held, postings, accidents>>

ConfirmPickup(r, o) ==
  /\ Exists(o)
  /\ orders[o].driver = "ACCEPTED" /\ orders[o].status # "OUT_FOR_DELIVERY"
  /\ Load(r, o, "simple", "save", [orders[o] EXCEPT !.status = "OUT_FOR_DELIVERY"])

FailDelivery(r, o) ==
  /\ Exists(o)
  /\ orders[o].driver # "NONE" /\ orders[o].status = "OUT_FOR_DELIVERY"
  /\ Load(r, o, "simple", "save", [orders[o] EXCEPT !.status = "DELIVERY_FAILED"])

\* Mutant: an order that is delivered already is delivered again.
DeliverAgain(r, o) ==
  /\ Exists(o)
  /\ Load(r, o, "deliver", "save", [orders[o] EXCEPT !.status = "DELIVERED"])

\* adminForceDelivery, verifyDelivery, updateDeliveryStatus(DELIVERED).
Deliver(r, o) ==
  /\ Exists(o)
  /\ orders[o].status # "DELIVERED"
  /\ Load(r, o, "deliver", "save", [orders[o] EXCEPT !.status = "DELIVERED"])

\* updateDeliveryStatus to another status.
UpdateDeliveryStatus(r, o) ==
  /\ Exists(o) /\ orders[o].driver # "NONE"
  /\ \E status \in {"OUT_FOR_DELIVERY", "DELIVERY_FAILED"} :
       Load(r, o, "simple", "save", [orders[o] EXCEPT !.status = status])

\* The deliverer's releaseOnlineReservation saves the order once more.
SaveReleased(r) ==
  LET w == workers[r]
  IN  /\ w.at = "saveReleased"
      /\ orders' = [orders EXCEPT ![w.of] = w.copy]
      /\ Lose(w.of, orders[w.of] # w.read)
      /\ Goto(r, "earn")
      /\ UNCHANGED <<reserved, disputes, handled, held, postings, cut>>

\* onOrderDelivered credits every vendor, paid before or not; errors are logged.
CreditDelivery(r) ==
  LET o == Of(r)
  IN  /\ At(r, "earn")
      /\ Step(r, "end")
      /\ \/ /\ delivered' = [delivered EXCEPT ![o][workers[r].next] = @ + 1]
            /\ UNCHANGED cut
         \/ Cut(o) /\ UNCHANGED delivered
      /\ UNCHANGED <<onlineTables, handled, held, credited, clawed, refunds, lost>>

DeliveryHandlers(r) ==
  \/ \E o \in Orders :
       \/ AssignDeliverer(r, o) \/ AcceptAssignment(r, o) \/ ConfirmPickup(r, o)
       \/ FailDelivery(r, o) \/ Deliver(r, o) \/ UpdateDeliveryStatus(r, o)
  \/ SaveReleased(r) \/ CreditDelivery(r)

DeliveriesNext ==
  \/ \E r \in Workers : OrderHandlers(r) \/ DeliveryHandlers(r)
  \/ \E o \in Orders : RejectAssignment(o) \/ HardDelete(o)

DeliveriesSpec == OnlineInit /\ [][DeliveriesNext]_onlineVars

-------------------------------------------------------------------------------
(* Correctness *)

\* No handler of the order is at work, and none worked on an outdated copy or
\* stopped halfway.
Settled(o) == Exists(o) /\ ~Busy(o) /\ ~lost[o] /\ ~cut[o]

\* onlineReservationReleasedAt tells whether the ledger still reserves the
\* order's items, however payments, cancellations, disputes and deliveries of
\* this and other orders interleave: each item is reserved once and released
\* once, and no order lives on another one's reservation.
ReservationKept ==
  \A o \in Orders : Settled(o) =>
    \A i \in Items : held[o][i] = IF orders[o].released THEN 0 ELSE 1

\* A cancelled order holds no stock, whoever cancelled it except the seller.
CancelledHoldsNothing ==
  \A o \in Orders : Settled(o) /\ orders[o].status = "CANCELLED" => orders[o].released

\* The vendor of every item is credited once for the payment, and only for a
\* payment, whichever of callback, redirect, admin and background job brings
\* it (M-Pesa's callback credits nobody and may undo a payment).
CreditedOncePaid ==
  \A o \in Orders : Settled(o) /\ orders[o].method # "MPESA" =>
    \A i \in Items : credited[o][i] = IF orders[o].pay = "PAID" THEN 1 ELSE 0

\* The buyer gets his money back, and the vendors are charged, once if the
\* dispute ends REFUNDED and never otherwise.
RefundedOncePerDispute ==
  \A o \in Orders : Settled(o) =>
    LET once == IF disputes[o] = "REFUNDED" THEN 1 ELSE 0
    IN  refunds[o] = once /\ \A i \in Items : clawed[o][i] = once

\* A payment is not taken back: no decline, cancellation, dispute or delivery
\* that saw the payment clears it.
PaidStaysPaid ==
  [][\A o \in Orders :
       Exists(o) /\ orders[o].method # "MPESA" /\ orders[o].pay = "PAID" /\ Exists(o)' /\ ~lost'[o]
         => orders'[o].pay = "PAID"]_onlineVars

\* Expected to fail: a vendor earns once from an order item.  The payment
\* credits him, and onOrderDelivered, "triggered when an order is first marked
\* DELIVERED", credits him again.
EarnsOnce ==
  \A o \in Orders : Settled(o) => \A i \in Items : credited[o][i] + delivered[o][i] <= 1
=============================================================================
