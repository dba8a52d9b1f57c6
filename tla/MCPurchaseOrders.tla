-------------------------- MODULE MCPurchaseOrders --------------------------
(***************************************************************************)
(* Constants of PurchaseOrders for TLC.                                    *)
(***************************************************************************)
EXTENDS PurchaseOrders, TLC

CONSTANTS o1, o2, i1, i2, p1, b1, r1, r2

\* One order with one line.
OneOrder       == {o1}
OneBranch      == [po \in OneOrder |-> b1]
OneLine        == {i1}
OneLineProduct == [i \in OneLine |-> p1]
OneLinePrice   == [i \in OneLine |-> 3]

\* Two orders of one branch, each with two lines of the same product at
\* different prices.  Which order is which does not matter.
TwoOrders       == {o1, o2}
SameBranch      == [po \in TwoOrders |-> b1]
TwoLines        == {i1, i2}
TwoLinesProduct == [i \in TwoLines |-> p1]
TwoLinesPrice   == [i \in TwoLines |-> IF i = i1 THEN 2 ELSE 5]
OrderSymmetry   == Permutations(TwoOrders)

\* Two requests at a time, and which is which does not matter.
TwoRequests     == {r1, r2}
RequestSymmetry == Permutations(TwoRequests)
=============================================================================
