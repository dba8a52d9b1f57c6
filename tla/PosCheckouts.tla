----------------------------- MODULE PosCheckouts -----------------------------
(***************************************************************************)
(* PosCheckoutService: sales and returns that registers send, with the     *)
(* register sessions and carts they use and the journal they are posted    *)
(* to.                                                                     *)
(*                                                                         *)
(* ingest() inserts the checkout as RECEIVED, processes it in a database   *)
(* transaction, stores FAILED when that throws, and posts it to the        *)
(* journal afterwards, best effort.  A request runs through these steps    *)
(* once; the client may repeat it with another request of the same         *)
(* checkout.  A request may die anywhere: what it committed stays.         *)
(***************************************************************************)
EXTENDS PosRegister, GeneralLedger, Sequences

CONSTANTS
  Requests,   \* requests to ingest, or to void, a checkout
  Dto,        \* what the register sends for each checkout
  Costs,      \* costs of goods a checkout may be found to have
  Settlements \* amount and checkout of each settlement of a receivable

VARIABLES
  checkouts,   \* status of every row of table pos_checkouts
  movements,   \* how often a checkout's goods were moved in the stock ledger
  requests,    \* what every request is doing
  overlapped   \* history: a checkout was voided while it was being ingested

\* What a register can send: only a return names a source, which is a checkout.
\* Every key of the journal is used by one thing.
ASSUME PosAssumption ==
  /\ None \notin Checkouts \cup Carts \cup Sessions \cup Cart
  /\ \A k \in Checkouts :
       /\ Dto[k].type \in {"SALE", "RETURN"}
       /\ Dto[k].type = "RETURN" => Dto[k].source \in Checkouts
       /\ Dto[k].type = "SALE" => Dto[k].source = None
       /\ Dto[k].session \in Sessions \cup {None}
       /\ Dto[k].cart \in Carts \cup {None}
       /\ {<<"pos-checkout", k>>, <<"pos-cogs", k>>, <<"void", k>>} \subseteq EntryKeys

\* Amounts are validated to be non-negative; they are related to each other by
\* nothing.
Tenders == Seq([method : STRING, amount : Nat])

ASSUME AmountsAssumption ==
  /\ {"CASH", "TENDER_CLEARING", "ACCOUNTS_RECEIVABLE", "SERVICE_REVENUE", "TAX_PAYABLE",
      "COGS", "INVENTORY"} \subseteq Accounts
  /\ \A k \in Checkouts :
       /\ {Dto[k].total, Dto[k].tax, Dto[k].paid, Dto[k].change} \subseteq Nat
       /\ Dto[k].tenders \in Tenders
  /\ \A id \in DOMAIN Settlements :
       /\ <<"settlement", id>> \in EntryKeys
       /\ Settlements[id].amount \in Nat /\ Settlements[id].tenders \in Tenders
  /\ Costs \subseteq Nat \ {0}

posVars == <<checkouts, movements, requests, overlapped, entries, registerVars>>

CheckoutStatus == {"NONE", "RECEIVED", "PROCESSED", "FAILED", "VOIDED"}

IngestSteps == {"insert", "assert", "process", "fail", "post", "cogs"}
VoidSteps   == {"void", "reverse"}
Ended       == {"done", "error", "crashed"}

Request == [op : {"ingest", "void", "none"}, checkout : Checkouts \cup {None},
            step : {"idle"} \cup IngestSteps \cup VoidSteps \cup Ended,
            cart : Cart \cup {None}]

SaleKey(k) == <<"pos-checkout", k>>
CogsKey(k) == <<"pos-cogs", k>>
VoidKey(k) == <<"void", k>>
SettlementKey(id) == <<"settlement", id>>

PosInit ==
  /\ RegisterInit
  /\ LedgerEmpty
  /\ checkouts = [k \in Checkouts |-> "NONE"]
  /\ movements = [k \in Checkouts |-> 0]
  /\ requests = [r \in Requests |->
       [op |-> "none", checkout |-> None, step |-> "idle", cart |-> None]]
  /\ overlapped = [k \in Checkouts |-> FALSE]

At(r, step) == requests[r].step = step
Goto(r, step) == requests' = [requests EXCEPT ![r] = [@ EXCEPT !.step = step, !.cart = None]]
Begin(r, op, k, step) ==
  /\ At(r, "idle")
  /\ requests' = [requests EXCEPT ![r] = [@ EXCEPT !.op = op, !.checkout = k, !.step = step]]

Working(r) == requests[r].step \in IngestSteps \cup VoidSteps
Ingesting(k) == {r \in Requests : /\ requests[r].op = "ingest" /\ requests[r].checkout = k
                                  /\ requests[r].step \in IngestSteps}

-------------------------------------------------------------------------------
(* ingest *)

\* findExistingForIdempotency: a stored checkout is the answer, whatever its status.
Ingest(r, k) ==
  /\ Begin(r, "ingest", k, IF checkouts[k] = "NONE" THEN "insert" ELSE "done")
  /\ UNCHANGED <<checkouts, movements, overlapped, entries, registerVars>>

\* Mutant: no unique index on the idempotency key.
InsertAgain(r) ==
  LET k == requests[r].checkout
  IN  /\ At(r, "insert")
      /\ checkouts' = [checkouts EXCEPT ![k] = "RECEIVED"]
      /\ Goto(r, "assert")
      /\ UNCHANGED <<movements, overlapped, entries, registerVars>>

\* The insert commits by itself; a second one meets the unique index.
InsertCheckout(r) ==
  LET k == requests[r].checkout
  IN  /\ At(r, "insert")
      /\ IF checkouts[k] = "NONE"
         THEN checkouts' = [checkouts EXCEPT ![k] = "RECEIVED"] /\ Goto(r, "assert")
         ELSE UNCHANGED checkouts /\ Goto(r, "error")
      /\ UNCHANGED <<movements, overlapped, entries, registerVars>>

\* assertRegisterSession
SessionUsable(dto) == dto.session = None \/ sessions[dto.session] = "OPEN"

\* Mutant: a cart that is no longer suspended can be sold.
CartExists(dto) == dto.cart = None \/ carts[dto.cart].status # "NONE"

\* assertSuspendedCart
CartAvailable(dto) ==
  \/ dto.cart = None
  \/ /\ dto.type = "SALE"
     /\ carts[dto.cart].status = "SUSPENDED"
     /\ dto.session = None \/ carts[dto.cart].session \in {None, dto.session}

\* Mutant: any stored sale can be returned.
SourceStored(dto) == dto.type = "RETURN" => checkouts[dto.source] # "NONE"

\* assertReturnSourceSaleProcessed
SourceSaleProcessed(dto) == dto.type = "RETURN" => checkouts[dto.source] = "PROCESSED"

\* What the transaction reads, none of it locked: three tables, in one step
\* because nothing relates what is read of one to what is read of the others.
AssertUsable(r) ==
  LET dto == Dto[requests[r].checkout]
  IN  /\ At(r, "assert")
      /\ IF SessionUsable(dto) /\ CartAvailable(dto) /\ SourceSaleProcessed(dto)
         THEN requests' = [requests EXCEPT ![r] =
                [@ EXCEPT !.step = "process",
                          !.cart = IF dto.cart = None THEN None ELSE carts[dto.cart]]]
         ELSE Goto(r, "fail")
      /\ UNCHANGED <<checkouts, movements, overlapped, entries, registerVars>>

\* The ledger refuses a line, a product is not found, a statement fails: the
\* transaction is rolled back.
Refuse(r) ==
  /\ At(r, "process")
  /\ Goto(r, "fail")
  /\ UNCHANGED <<checkouts, movements, overlapped, entries, registerVars>>

ConsumeCart(r) ==
  LET k == requests[r].checkout
      loaded == requests[r].cart
  IN  IF loaded = None THEN UNCHANGED <<carts, staleCart>>
      ELSE CartSaved(Dto[k].cart, loaded,
                     [loaded EXCEPT !.status = "RESUMED", !.consumedBy = k])

\* The movements of all lines, the cart and the checkout are committed.
\* save(checkout) overwrites whatever status is stored by then.  The client's
\* connection to the database may break after the commit: then ingest() takes
\* the transaction for failed.
Process(r) ==
  LET k == requests[r].checkout
  IN  /\ At(r, "process")
      /\ movements' = [movements EXCEPT ![k] = @ + 1]
      /\ checkouts' = [checkouts EXCEPT ![k] = "PROCESSED"]
      /\ ConsumeCart(r)
      /\ Goto(r, "post") \/ Goto(r, "fail")
      /\ UNCHANGED <<overlapped, entries, sessions, editing>>

\* Mutant: a failure leaves the checkout RECEIVED.
FailSilently(r) ==
  /\ At(r, "fail")
  /\ Goto(r, "error")
  /\ UNCHANGED <<checkouts, movements, overlapped, entries, registerVars>>

Fail(r) ==
  /\ At(r, "fail")
  /\ checkouts' = [checkouts EXCEPT ![requests[r].checkout] = "FAILED"]
  /\ Goto(r, "error")
  /\ UNCHANGED <<movements, overlapped, entries, registerVars>>

-------------------------------------------------------------------------------
(* The journal *)

Max0(amount) == IF amount > 0 THEN amount ELSE 0
Retained(dto) == Max0(dto.paid - dto.change)
Owed(dto) == Max0(dto.total - Retained(dto))

\* Half a cent is rounded up.
RoundedShare(amount, part, whole) == (2 * amount * part + whole) \div (2 * whole)

\* splitTenders: cash and the other tenders, scaled to what was retained.
SplitTenders(tenders, settled) ==
  LET cash  == SumOver({n \in DOMAIN tenders : tenders[n].method = "CASH"}, LAMBDA n : tenders[n].amount)
      whole == SumOver(DOMAIN tenders, LAMBDA n : tenders[n].amount)
      share == IF whole = 0 THEN settled ELSE RoundedShare(cash, settled, whole)
  IN  [cash |-> share, clearing |-> settled - share]

\* What a sale, and what a settlement, brings in.
TenderLines(split) ==
  [account \in Accounts |-> CASE account = "CASH" -> split.cash
                              [] account = "TENDER_CLEARING" -> split.clearing
                              [] OTHER -> 0]

\* Revenue is net of the tax; nothing says that the tax is less than the total.
Revenue(dto) == Max0(dto.total - dto.tax)

\* Mutant: the tax is credited on top of the gross revenue.
SaleLinesGross(dto) ==
  [TenderLines(SplitTenders(dto.tenders, Retained(dto))) EXCEPT
     !["ACCOUNTS_RECEIVABLE"] = Owed(dto),
     !["SERVICE_REVENUE"]     = -dto.total,
     !["TAX_PAYABLE"]         = -dto.tax]

\* Mutant: a return is posted like a sale.
SaleLinesUnmirrored(dto) ==
  [TenderLines(SplitTenders(dto.tenders, Retained(dto))) EXCEPT
     !["ACCOUNTS_RECEIVABLE"] = Owed(dto),
     !["SERVICE_REVENUE"]     = -Revenue(dto),
     !["TAX_PAYABLE"]         = -dto.tax]

\* postCheckoutToLedger: the lines of the entry; a return mirrors a sale.
SaleLines(dto) ==
  LET sold == [TenderLines(SplitTenders(dto.tenders, Retained(dto))) EXCEPT
                 !["ACCOUNTS_RECEIVABLE"] = Owed(dto),
                 !["SERVICE_REVENUE"]     = -Revenue(dto),
                 !["TAX_PAYABLE"]         = -dto.tax]
  IN  IF dto.type = "SALE" THEN sold ELSE Swapped(sold)

\* Only classified cash-basis checkouts are posted.
IsPosted(dto) == dto.cashBasis /\ dto.total > 0

\* Whatever fails here is logged and swallowed.
PostingFails(r) ==
  /\ At(r, "post") \/ At(r, "cogs")
  /\ Goto(r, "error")
  /\ UNCHANGED <<checkouts, movements, overlapped, entries, registerVars>>

PostSale(r) ==
  LET k == requests[r].checkout
  IN  /\ At(r, "post")
      /\ IF IsPosted(Dto[k]) /\ Balanced(SaleLines(Dto[k]))
         THEN /\ entries' = Posted(SaleKey(k), SaleLines(Dto[k]))
              /\ Goto(r, IF Dto[k].cogs THEN "cogs" ELSE "done")
         ELSE UNCHANGED entries /\ Goto(r, "done")
      /\ UNCHANGED <<checkouts, movements, overlapped, registerVars>>

CogsLines(dto, cost) ==
  LET sold == [account \in Accounts |-> CASE account = "COGS"      -> cost
                                          [] account = "INVENTORY" -> -cost
                                          [] OTHER -> 0]
  IN  IF dto.type = "SALE" THEN sold ELSE Swapped(sold)

\* The cost is looked up now: purchases may have changed it since the sale.
PostCogs(r) ==
  LET k == requests[r].checkout
  IN  /\ At(r, "cogs")
      /\ \/ \E cost \in Costs : entries' = Posted(CogsKey(k), CogsLines(Dto[k], cost))
         \/ UNCHANGED entries
      /\ Goto(r, "done")
      /\ UNCHANGED <<checkouts, movements, overlapped, registerVars>>

SettlementLines(settlement) ==
  [TenderLines(SplitTenders(settlement.tenders, settlement.amount)) EXCEPT
     !["ACCOUNTS_RECEIVABLE"] = -settlement.amount]

\* settleReceivable: idempotent on the key of the client, and bounded by nothing.
SettleReceivable(id) ==
  /\ Settlements[id].amount > 0
  /\ entries' = Posted(SettlementKey(id), SettlementLines(Settlements[id]))
  /\ UNCHANGED <<checkouts, movements, requests, overlapped, registerVars>>

-------------------------------------------------------------------------------
(* voidCheckout *)

\* The status is read here and written later, unconditionally.
VoidCheckout(r, k) ==
  /\ checkouts[k] # "NONE"
  /\ Begin(r, "void", k, IF checkouts[k] = "VOIDED" THEN "error" ELSE "void")
  /\ overlapped' = [overlapped EXCEPT ![k] = @ \/ Ingesting(k) # {}]
  /\ UNCHANGED <<checkouts, movements, entries, registerVars>>

UpdateVoided(r) ==
  /\ At(r, "void")
  /\ checkouts' = [checkouts EXCEPT ![requests[r].checkout] = "VOIDED"]
  /\ Goto(r, "reverse")
  /\ UNCHANGED <<movements, overlapped, entries, registerVars>>

ReversalFails(r) ==
  /\ At(r, "reverse")
  /\ Goto(r, "error")
  /\ UNCHANGED <<checkouts, movements, overlapped, entries, registerVars>>

\* Mutant: the reversal is left to somebody else.
ReverseNothing(r) ==
  /\ At(r, "reverse")
  /\ Goto(r, "done")
  /\ UNCHANGED <<checkouts, movements, overlapped, entries, registerVars>>

\* Only the sale's entry is reversed: goods and their cost stay as they are.
ReverseSale(r) ==
  LET k == requests[r].checkout
  IN  /\ At(r, "reverse")
      /\ entries' = Reversed(SaleKey(k), VoidKey(k))
      /\ Goto(r, "done")
      /\ UNCHANGED <<checkouts, movements, overlapped, registerVars>>

-------------------------------------------------------------------------------

\* The process dies, or the client's request is cut off, between two steps.
Crash(r) ==
  /\ Working(r)
  /\ Goto(r, "crashed")
  /\ UNCHANGED <<checkouts, movements, overlapped, entries, registerVars>>

RequestStep(r) ==
  \/ InsertCheckout(r)
  \/ AssertUsable(r) \/ Refuse(r) \/ Process(r) \/ Fail(r)
  \/ PostSale(r) \/ PostCogs(r) \/ PostingFails(r)
  \/ UpdateVoided(r) \/ ReverseSale(r) \/ ReversalFails(r)

PosNext ==
  \/ \E r \in Requests :
       \/ \E k \in Checkouts : Ingest(r, k) \/ VoidCheckout(r, k)
       \/ RequestStep(r)
       \/ Crash(r)
  \/ \E id \in DOMAIN Settlements : SettleReceivable(id)
  \/ \E w \in Clerks : RegisterStep(w) /\ UNCHANGED <<checkouts, movements, requests, overlapped, entries>>

PosSpec == PosInit /\ [][PosNext]_posVars

\* Node runs what is ready: a request that is not cut off takes its next step.
PosFairSpec == PosSpec /\ \A r \in Requests : WF_posVars(RequestStep(r))

-------------------------------------------------------------------------------
(* Properties *)

Of(k, op) == {r \in Requests : requests[r].checkout = k /\ requests[r].op = op}

\* However often a register repeats a checkout, its goods move at most once; a
\* PROCESSED checkout has moved them and a RECEIVED one has not, and a FAILED one
\* has only when the reply to its commit was lost.
MovedOnce ==
  \A k \in Checkouts :
    /\ movements[k] <= 1
    /\ checkouts[k] = "PROCESSED" => movements[k] = 1
    /\ checkouts[k] \in {"NONE", "RECEIVED"} => movements[k] = 0

Consumers(c) == {k \in Checkouts : Dto[k].cart = c /\ movements[k] > 0}

\* A suspended cart is sold at most once and then says by which checkout, unless
\* it was saved from an outdated load.
CartSoldOnce ==
  \A c \in Carts : ~staleCart[c] =>
    Consumers(c) = {k \in Checkouts : k = carts[c].consumedBy}

\* A processed cash sale or return is in the books once its request has ended,
\* unless the request was cut off or the posting failed.  A checkout that is
\* overpaid and names no change, or taxed above its total, is the exception: its
\* entry does not balance.
ProcessedIsBooked ==
  \A k \in Checkouts :
    (/\ movements[k] = 1
     /\ IsPosted(Dto[k])
     /\ Dto[k].paid - Dto[k].change <= Dto[k].total /\ Dto[k].tax <= Dto[k].total
     /\ \A r \in Of(k, "ingest") : requests[r].step \in {"done"})
      => SaleKey(k) \in PostedKeys

\* "a void backs revenue, tax and receivable out of the books": it does when no
\* ingestion of the checkout was under way and no void of it was cut off.
VoidedIsReversed ==
  \A k \in Checkouts :
    (/\ checkouts[k] = "VOIDED" /\ ~overlapped[k]
     /\ \A r \in Of(k, "void") : requests[r].step = "done"
     /\ SaleKey(k) \in PostedKeys)
      => entries[SaleKey(k)].reversedBy = VoidKey(k)

Booked == {k \in Checkouts : /\ SaleKey(k) \in PostedKeys
                             /\ entries[SaleKey(k)].reversedBy = NoEntry}
OfCheckouts(Amount(_)) ==
  SumOver(Booked, LAMBDA k : IF Dto[k].type = "SALE" THEN Amount(Dto[k]) ELSE -Amount(Dto[k]))
Settled ==
  SumOver({id \in DOMAIN Settlements : SettlementKey(id) \in PostedKeys},
          LAMBDA id : Settlements[id].amount)

\* What the accounts say is what the checkouts in force and the settlements add
\* up to: money received, money owed, revenue and tax.
AccountsAgree ==
  /\ Balance("CASH") + Balance("TENDER_CLEARING") = OfCheckouts(Retained) + Settled
  /\ Balance("ACCOUNTS_RECEIVABLE") = OfCheckouts(Owed) - Settled
  /\ Balance("SERVICE_REVENUE") = -OfCheckouts(Revenue)
  /\ Balance("TAX_PAYABLE") = -OfCheckouts(LAMBDA dto : dto.tax)

\* No checkout stays RECEIVED for ever, unless its request was cut off: a retry
\* would only be told that it is RECEIVED.
CheckoutsSettle ==
  \A k \in Checkouts :
    checkouts[k] = "RECEIVED" ~>
      \/ checkouts[k] # "RECEIVED"
      \/ \E r \in Of(k, "ingest") : requests[r].step = "crashed"

\* What the registers are promised, and the tables that keep the promise.
GoodsOf(k) == movements[k]
BooksOf(k) ==
  IF SaleKey(k) \notin PostedKeys THEN "none"
  ELSE IF entries[SaleKey(k)].reversedBy = NoEntry THEN "booked" ELSE "reversed"
Promise == INSTANCE GoodsAndBooks WITH
  goods <- [k \in Checkouts |-> GoodsOf(k)],
  books <- [k \in Checkouts |-> BooksOf(k)],
  SourceOf <- [k \in Checkouts |-> Dto[k].source]
KeepsPromise == Promise!GoodsSpec
=============================================================================
