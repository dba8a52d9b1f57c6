----------------------------- MODULE GoodsAndBooks -----------------------------
(***************************************************************************)
(* What a shop may expect of its checkouts, whatever registers repeat and  *)
(* wherever the server stops: the goods of a checkout move at most once,   *)
(* those of a return after those of the sale, and a checkout enters the    *)
(* books at most once, after its goods have moved, and leaves them at most *)
(* once.  PosCheckouts implements this specification.                      *)
(***************************************************************************)
EXTENDS Naturals

CONSTANTS
  Checkouts,
  SourceOf,   \* the sale a return returns, None for a sale
  None

VARIABLES
  goods,   \* how often the goods of each checkout have moved
  books    \* whether each checkout is in the books

goodsVars == <<goods, books>>

GoodsInit ==
  /\ goods = [k \in Checkouts |-> 0]
  /\ books = [k \in Checkouts |-> "none"]

MoveGoods(k) ==
  /\ goods[k] = 0
  /\ SourceOf[k] # None => goods[SourceOf[k]] = 1
  /\ goods' = [goods EXCEPT ![k] = 1]
  /\ UNCHANGED books

Book(k) ==
  /\ goods[k] = 1
  /\ books[k] = "none"
  /\ books' = [books EXCEPT ![k] = "booked"]
  /\ UNCHANGED goods

Unbook(k) ==
  /\ books[k] = "booked"
  /\ books' = [books EXCEPT ![k] = "reversed"]
  /\ UNCHANGED goods

GoodsNext == \E k \in Checkouts : MoveGoods(k) \/ Book(k) \/ Unbook(k)

GoodsSpec == GoodsInit /\ [][GoodsNext]_goodsVars
=============================================================================
