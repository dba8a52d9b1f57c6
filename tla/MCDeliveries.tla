---------------------------- MODULE MCDeliveries ----------------------------
(* Instances of Deliveries for TLC. *)
EXTENDS Deliveries, TLC
CONSTANTS o1, r1, r2

OneOrder == {o1}
TwoWorkers == {r1, r2}
EbirrAndMpesa == {"EBIRR", "MPESA"}
EbirrOnly == {"EBIRR"}
AdminStatuses == {"CANCELLED", "DELIVERED"}

\* Once every order met an accident the properties have nothing more to say.
SomeOrderIntact == \E o \in Orders : ~lost[o] /\ ~cut[o]

SameWorkers == Permutations(Workers)
=============================================================================
