----------------------------- MODULE MCPosCheckouts -----------------------------
(***************************************************************************)
(* Constants of PosCheckouts for TLC: two sales of one suspended cart, one *)
(* paid partly by card with change, one partly on credit, and a return.    *)
(***************************************************************************)
EXTENDS PosCheckouts, TLC

CONSTANTS sale, credit, return, cart, session, register, r1, r2, r3, r4, clerk, clerk2, settle

Cash(amount) == [method |-> "CASH", amount |-> amount]
Card(amount) == [method |-> "CARD", amount |-> amount]

TheCart    == IF cart \in Carts THEN cart ELSE None
TheSession == IF session \in Sessions THEN session ELSE None

Basket(type) ==
  [type |-> type, session |-> TheSession, cart |-> None, source |-> None, total |-> 115, tax |-> 15,
   paid |-> 120, change |-> 5, tenders |-> <<Cash(118), Card(2)>>, cashBasis |-> TRUE, cogs |-> TRUE]

ThreeCheckouts ==
  sale   :> [Basket("SALE") EXCEPT !.cart = TheCart] @@
  credit :> [Basket("SALE") EXCEPT !.session = None, !.cart = TheCart, !.paid = 40, !.change = 0,
                                   !.tenders = <<Cash(40)>>, !.cogs = FALSE] @@
  return :> [Basket("RETURN") EXCEPT !.session = None, !.source = sale, !.paid = 115, !.change = 0,
                                     !.tenders = <<>>, !.cogs = FALSE]

NoSettlement == <<>>
PartOfTheCredit == settle :> [amount |-> 50, tenders |-> <<Card(20), Cash(10)>>]

Registers == [s \in Sessions |-> register]
Keys == {SaleKey(k) : k \in Checkouts} \cup {CogsKey(k) : k \in Checkouts}
          \cup {VoidKey(k) : k \in Checkouts} \cup {SettlementKey(id) : id \in DOMAIN Settlements}
ChartOfAccounts == {"CASH", "TENDER_CLEARING", "ACCOUNTS_RECEIVABLE", "SERVICE_REVENUE",
                    "TAX_PAYABLE", "COGS", "INVENTORY"}
Symmetry == Permutations(Requests) \cup Permutations(Clerks)
=============================================================================
