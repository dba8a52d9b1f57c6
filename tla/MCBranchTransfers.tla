-------------------------- MODULE MCBranchTransfers --------------------------
(***************************************************************************)
(* Constants of BranchTransfers for TLC.                                   *)
(***************************************************************************)
EXTENDS BranchTransfers

CONSTANTS b1, b2, p1, p2, t1, t2, t3, x1, x2

TwoTransactions   == {t1, t2}
ThreeTransactions == {t1, t2, t3}
\* Which transaction and which transfer is which does not matter.
Symmetry == Permutations(Transactions) \cup Permutations(TransferIds)
\* Other callers: a restock of the first branch, and a sale there.
RestockAndSale ==
  {[atomic |-> TRUE, calls |-> <<InCall("quantityOnHand", b1, p1, d)>>] : d \in {1, -1}}
\* Every branch has one unit of every product, and one more as a safety stock.
OneUnitEach ==
  [k \in Keys |-> ApplyAvailabilityProjection([NewRow(1) EXCEPT !.quantityOnHand = 2])]
=============================================================================
