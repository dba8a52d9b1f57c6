-------------------------- MODULE MCInventoryLedger --------------------------
(***************************************************************************)
(* Constants of InventoryLedger for TLC: the calls of the ledger's callers.*)
(***************************************************************************)
EXTENDS InventoryLedger, TLC

CONSTANTS b1, b2, b3, p1, p2, t1, t2

TwoTransactions   == {t1, t2}

\* vendor stock adjustments and sales of one product.
Sale        == [atomic |-> TRUE, calls |-> <<InCall("quantityOnHand", b1, p1, -1)>>]
Restock     == [atomic |-> TRUE, calls |-> <<InCall("quantityOnHand", b1, p1, 1)>>]
\* BranchTransfersService.dispatch and receive.
Dispatch    == [atomic |-> TRUE, calls |-> <<InCall("availableToSell", b1, p1, 1),
                                             InCall("outboundTransfers", b1, p1, 1)>>]
Receive     == [atomic |-> TRUE, calls |-> <<InCall("outboundTransfers", b1, p1, -1),
                                             InCall("quantityOnHand", b1, p1, -1),
                                             InCall("quantityOnHand", b2, p1, 1)>>]
\* OrdersService.applyOnlineReservation and releaseOnlineReservation.
Reserve     == [atomic |-> FALSE, calls |-> <<InCall("reservedOnline", b1, p1, 1)>>]
Release     == [atomic |-> FALSE, calls |-> <<InCall("reservedOnline", b1, p1, -1)>>]
\* PosCheckoutService: the lines of a sale, in the order the client sent them.
Basket(x, y) == [atomic |-> TRUE, calls |-> <<InCall("quantityOnHand", x[1], x[2], -1),
                                              InCall("quantityOnHand", y[1], y[2], -1)>>]

\* The first stock of a branch: the row is inserted.
FirstStock  == [atomic |-> TRUE, calls |-> <<InCall("quantityOnHand", b3, p1, 1)>>]

AllPrograms == {FirstStock, Sale, Restock, Dispatch, Receive, Reserve, Release,
                Basket(<<b1, p1>>, <<b2, p1>>),
                Basket(<<b1, p1>>, <<b1, p2>>), Basket(<<b1, p2>>, <<b1, p1>>),
                Basket(<<b2, p1>>, <<b2, p2>>), Basket(<<b2, p2>>, <<b2, p1>>)}

StockOf(onHand, outbound, safety) ==
  ApplyAvailabilityProjection([NewRow(safety) EXCEPT !.quantityOnHand = onHand,
                                                     !.outboundTransfers = outbound])

\* The first branch has two units of one product, one of them on its way, and the
\* last unit of the other; the second has two of both, one of them a safety stock;
\* the third has never stocked any.
StockedRows == [k \in Keys |-> CASE k[1] = b3 -> None
                               [] k = <<b1, p1>> -> StockOf(2, 1, 1)
                               [] k = <<b1, p2>> -> StockOf(1, 0, 0)
                               [] OTHER -> StockOf(2, 0, 1)]
=============================================================================
