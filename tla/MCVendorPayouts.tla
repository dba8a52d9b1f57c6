--------------------------- MODULE MCVendorPayouts ---------------------------
(* Instances of VendorPayouts, with Wallets, for TLC. *)
EXTENDS VendorPayouts, TLC
CONSTANTS u1, r1, r2, r3, r4, t1, w1, w2, i1

OneUser == {u1}
FourWorkers == {r1, r2, r3, r4}
OneTopUp == {t1}
TwoWithdrawals == {w1, w2}
OneItem == {i1}
Earnings == {3, -2}
Purchases == {1}
Amounts == t1 :> 2 @@ w1 :> 2 @@ w2 :> 3
Owners == t1 :> u1 @@ w1 :> u1 @@ w2 :> u1
ItemAmounts == i1 :> 3
Vendors == i1 :> u1
PayoutMethods == {"EBIRR", "BANK_TRANSFER"}
Nothing == {}
NoPapers == [p \in {} |-> 0]

SameWorkers == Permutations(Workers)
=============================================================================
