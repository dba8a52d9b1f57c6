------------------------- MODULE BranchTransfersProofs -------------------------
(***************************************************************************)
(* Theorems about BranchTransfers, for any branches, products, transfers,  *)
(* other callers and number of overlapping transactions.                   *)
(***************************************************************************)
EXTENDS BranchTransfers, InventoryLedgerProofs

-----------------------------------------------------------------------------
(* What a sequence of calls adds to a column of some rows                   *)

Weight(call, column, R) == IF call.column = column /\ call.row \in R THEN call.delta ELSE 0

Weights(calls, column, R) == [n \in DOMAIN calls |-> Weight(calls[n], column, R)]

CallSum(calls, column, R) == SumFunctionOnSet(Weights(calls, column, R), DOMAIN calls)

\* The weights of calls are integers, those of no calls add up to 0.
LEMMA CallSumType ==
  ASSUME NEW calls \in Seq(LedgerCall), NEW column, NEW R
  PROVE  /\ IsFiniteSet(DOMAIN calls) /\ DOMAIN calls = 1..Len(calls) /\ Len(calls) \in Nat
         /\ \A n \in DOMAIN calls : /\ Weights(calls, column, R)[n] = Weight(calls[n], column, R)
                                    /\ Weight(calls[n], column, R) \in Int
         /\ CallSum(calls, column, R) \in Int
<1>1. DOMAIN calls = 1..Len(calls) /\ Len(calls) \in Nat
  OBVIOUS
<1>2. IsFiniteSet(DOMAIN calls)
  BY <1>1, FS_Interval
<1>3. \A n \in DOMAIN calls : calls[n] \in LedgerCall
  OBVIOUS
<1>4. \A n \in DOMAIN calls : Weight(calls[n], column, R) \in Int
  BY <1>3 DEF LedgerCall, Weight
<1>5. \A n \in DOMAIN calls : Weights(calls, column, R)[n] = Weight(calls[n], column, R)
  BY DEF Weights
<1>6. CallSum(calls, column, R) \in Int
  BY <1>2, <1>4, <1>5, SumType DEF CallSum
<1>7. QED
  BY <1>1, <1>2, <1>4, <1>5, <1>6

\* No calls change nothing.
LEMMA CallSumEmpty == ASSUME NEW column, NEW R PROVE CallSum(<<>>, column, R) = 0
<1>1. DOMAIN <<>> = {}
  OBVIOUS
<1>2. QED
  BY <1>1, SumEmpty DEF CallSum

\* One call.
LEMMA CallSumOne ==
  ASSUME NEW call \in LedgerCall, NEW column, NEW R
  PROVE  CallSum(<<call>>, column, R) = Weight(call, column, R)
<1> DEFINE s == <<call>>
           F == Weights(s, column, R)
<1>1. DOMAIN s = {} \cup {1} /\ s[1] = call /\ s \in Seq(LedgerCall)
  OBVIOUS
<1> HIDE DEF s
<1>2. F[1] = Weight(call, column, R) /\ F[1] \in Int
  BY <1>1, CallSumType
<1> HIDE DEF F
<1>3. SumFunctionOnSet(F, {} \cup {1}) = F[1] + SumFunctionOnSet(F, {})
  BY <1>2, SumAdd, FS_EmptySet
<1>4. CallSum(s, column, R) = Weight(call, column, R)
  BY <1>1, <1>2, <1>3, SumEmpty DEF CallSum, F
<1>5. QED
  BY <1>4 DEF s

\* Calls, and more calls.
LEMMA CallSumConcat ==
  ASSUME NEW s \in Seq(LedgerCall), NEW u \in Seq(LedgerCall), NEW column, NEW R
  PROVE  /\ s \o u \in Seq(LedgerCall)
         /\ CallSum(s \o u, column, R) = CallSum(s, column, R) + CallSum(u, column, R)
<1> DEFINE m == Len(s)
           both == s \o u
           first == DOMAIN s
           second == DOMAIN u
           shift == [n \in second |-> m + n]
           rest == {shift[n] : n \in second}
           F == Weights(s, column, R)
           G == Weights(u, column, R)
           H == Weights(both, column, R)
<1>1. /\ first = 1..m /\ second = 1..Len(u) /\ m \in Nat /\ Len(u) \in Nat
      /\ both \in Seq(LedgerCall) /\ DOMAIN both = 1..(m + Len(u))
      /\ \A n \in first : both[n] = s[n]
      /\ \A n \in second : both[m + n] = u[n]
  OBVIOUS
<1>2. /\ IsFiniteSet(first) /\ \A n \in first : F[n] = Weight(s[n], column, R)
      /\ IsFiniteSet(second) /\ \A n \in second : G[n] = Weight(u[n], column, R)
  BY CallSumType
<1> HIDE DEF both
<1>3. /\ IsFiniteSet(DOMAIN both)
      /\ \A n \in DOMAIN both : H[n] = Weight(both[n], column, R) /\ H[n] \in Int
  <2>1. both \in Seq(LedgerCall)
    BY <1>1
  <2>2. /\ IsFiniteSet(DOMAIN both)
        /\ \A n \in DOMAIN both : /\ Weights(both, column, R)[n] = Weight(both[n], column, R)
                                  /\ Weight(both[n], column, R) \in Int
    BY <2>1, CallSumType
  <2>3. QED
    BY <2>2
<1> HIDE DEF first, second, F, G, H
<1>4. \A x, y \in second : shift[x] = shift[y] => x = y
  BY <1>1
<1>5. \A n \in second : shift[n] = m + n /\ shift[n] \in DOMAIN both
  BY <1>1
<1>6. /\ \A n \in second : shift[n] \in rest
      /\ \A y \in rest : \E n \in second : shift[n] = y
  OBVIOUS
<1>7. DOMAIN both = first \cup rest /\ first \cap rest = {}
  <2>1. \A n \in DOMAIN both \ first : n - m \in second /\ n = m + (n - m)
    BY <1>1
  <2>2. \A n \in DOMAIN both \ first : n \in rest
    BY <1>5, <1>6, <2>1
  <2>3. \A n \in rest : n \in DOMAIN both /\ n \notin first
    BY <1>1, <1>5, <1>6
  <2>4. first \subseteq DOMAIN both
    BY <1>1
  <2> HIDE DEF rest
  <2>5. QED
    BY <2>2, <2>3, <2>4
<1>8. \A n \in second : H[shift[n]] \in Int /\ G[n] = H[shift[n]]
  BY <1>1, <1>2, <1>3, <1>5
<1> HIDE DEF shift, rest
<1>9. SumFunctionOnSet(G, second) = SumFunctionOnSet(H, rest)
  BY <1>2, <1>4, <1>6, <1>8, SumImage
<1>10. SumFunctionOnSet(F, first) = SumFunctionOnSet(H, first)
  BY <1>1, <1>2, <1>3, <1>7, SumSame
<1>11. IsFiniteSet(rest)
  BY <1>3, <1>7, FS_Subset
<1>12. SumFunctionOnSet(H, first \cup rest) = SumFunctionOnSet(H, first) + SumFunctionOnSet(H, rest)
  BY <1>2, <1>3, <1>7, <1>11, SumUnion
<1>13. CallSum(both, column, R) = CallSum(s, column, R) + CallSum(u, column, R)
  BY <1>7, <1>9, <1>10, <1>12 DEF CallSum, F, G, H, first, second
<1>14. QED
  BY <1>1, <1>13 DEF both

\* The next call, and those that are left.
LEMMA CallSumTail ==
  ASSUME NEW calls \in Seq(LedgerCall), calls # <<>>, NEW column, NEW R
  PROVE  /\ Tail(calls) \in Seq(LedgerCall) /\ Head(calls) \in LedgerCall
         /\ CallSum(calls, column, R) = Weight(Head(calls), column, R) + CallSum(Tail(calls), column, R)
<1> DEFINE first == <<Head(calls)>>
           rest == Tail(calls)
<1>1. rest \in Seq(LedgerCall) /\ Head(calls) \in LedgerCall
  BY RestOfCalls
<1>2. calls = first \o rest
  OBVIOUS
<1>3. first \in Seq(LedgerCall) /\ CallSum(first, column, R) = Weight(Head(calls), column, R)
  BY <1>1, CallSumOne
<1> HIDE DEF first, rest
<1>4. CallSum(first \o rest, column, R) = CallSum(first, column, R) + CallSum(rest, column, R)
  BY <1>1, <1>3, CallSumConcat
<1>5. QED
  BY <1>1, <1>2, <1>3, <1>4 DEF rest

-----------------------------------------------------------------------------
(* The programs of a handler: its items in any order                        *)

\* The equation by which Calls defines the calls of every set of items.
AllCalls(ofItem, g, S) ==
  g = [P \in SUBSET S |->
         IF P = {} THEN {<<>>}
         ELSE UNION {Concatenations(ofItem[p], g[P \ {p}]) : p \in P}]

\* The calls of P, given those r[p] of the items that are left after p.
Joined(ofItem, P, r) ==
  IF P = {} THEN {<<>>}
  ELSE UNION {Concatenations(ofItem[p], r[p]) : p \in P}

Without(g, P) == [p \in P |-> g[P \ {p}]]

\* The equation, at one set.
LEMMA AllCallsAt ==
  ASSUME NEW ofItem, NEW S, NEW g
  PROVE  AllCalls(ofItem, g, S) <=> g = [P \in SUBSET S |-> Joined(ofItem, P, Without(g, P))]
<1> DEFINE Written(P) ==
             IF P = {} THEN {<<>>}
             ELSE UNION {Concatenations(ofItem[p], g[P \ {p}]) : p \in P}
           Of(P) == Joined(ofItem, P, Without(g, P))
<1>1. ASSUME NEW P \in SUBSET S PROVE Of(P) = Written(P)
  <2> DEFINE r == Without(g, P)
             X(p) == Concatenations(ofItem[p], r[p])
             Y(p) == Concatenations(ofItem[p], g[P \ {p}])
  <2>1. \A p \in P : r[p] = g[P \ {p}]
    BY DEF Without
  <2> HIDE DEF r
  <2>2. \A p \in P : X(p) = Y(p)
    BY <2>1
  <2>3. Of(P) = (IF P = {} THEN {<<>>} ELSE UNION {X(p) : p \in P})
    BY DEF Joined, r
  <2>4. Written(P) = (IF P = {} THEN {<<>>} ELSE UNION {Y(p) : p \in P})
    OBVIOUS
  <2> HIDE DEF X, Y, Of, Written
  <2>5. {X(p) : p \in P} = {Y(p) : p \in P}
    BY <2>2
  <2>6. QED
    BY <2>3, <2>4, <2>5
<1>2. AllCalls(ofItem, g, S) <=> g = [P \in SUBSET S |-> Written(P)]
  BY DEF AllCalls
<1> HIDE DEF Of, Written
<1>3. [P \in SUBSET S |-> Written(P)] = [P \in SUBSET S |-> Of(P)]
  BY <1>1
<1>4. AllCalls(ofItem, g, S) <=> g = [P \in SUBSET S |-> Of(P)]
  BY <1>2, <1>3
<1>5. QED
  BY <1>4 DEF Of

\* Two such functions agree on the finite sets both are defined on.
LEMMA AllCallsAgree ==
  ASSUME NEW ofItem, NEW A, NEW B, NEW g, NEW h, AllCalls(ofItem, g, A), AllCalls(ofItem, h, B),
         NEW S, IsFiniteSet(S), S \subseteq A, S \subseteq B
  PROVE  g[S] = h[S]
<1> DEFINE Good == {T \in SUBSET S : g[T] = h[T]}
<1>1. ASSUME NEW T \in SUBSET S, \A U \in SUBSET T : U # T => U \in Good
      PROVE  T \in Good
  <2>1. g[T] = Joined(ofItem, T, Without(g, T)) /\ h[T] = Joined(ofItem, T, Without(h, T))
    BY AllCallsAt
  <2>2. \A p \in T : g[T \ {p}] = h[T \ {p}]
    BY <1>1
  <2>3. Without(g, T) = Without(h, T)
    BY <2>2 DEF Without
  <2>4. QED
    BY <2>1, <2>3
<1> HIDE DEF Good
<1>2. \A T \in SUBSET S : T \in Good
  BY <1>1, SubsetInduction
<1>3. QED
  BY <1>2 DEF Good

\* A finite set of items has such a function.
LEMMA AllCallsExist ==
  ASSUME NEW ofItem, NEW S, IsFiniteSet(S)
  PROVE  \E g : AllCalls(ofItem, g, S)
<1> DEFINE Good == {T \in SUBSET S : \E g : AllCalls(ofItem, g, T)}
<1>1. ASSUME NEW T \in SUBSET S, \A U \in SUBSET T : U # T => U \in Good
      PROVE  T \in Good
  <2> DEFINE Of(U) == CHOOSE g : AllCalls(ofItem, g, U)
             own == Joined(ofItem, T, [p \in T |-> Of(T \ {p})[T \ {p}]])
             h == [P \in SUBSET T |-> IF P = T THEN own ELSE Of(P)[P]]
  <2>1. ASSUME NEW U \in SUBSET T, U # T PROVE AllCalls(ofItem, Of(U), U)
    BY <1>1, <2>1
  <2> HIDE DEF Of
  <2>2. ASSUME NEW P \in SUBSET T PROVE h[P] = Joined(ofItem, P, Without(h, P))
    <3>1. CASE P = T
      <4>1. \A p \in T : h[T \ {p}] = Of(T \ {p})[T \ {p}]
        OBVIOUS
      <4>2. Without(h, T) = [p \in T |-> Of(T \ {p})[T \ {p}]]
        BY <4>1 DEF Without
      <4>3. h[T] = own
        OBVIOUS
      <4> HIDE DEF h
      <4>4. QED
        BY <3>1, <4>2, <4>3
    <3>2. CASE P # T
      <4>1. ASSUME NEW p \in P PROVE h[P \ {p}] = Of(P)[P \ {p}]
        <5> DEFINE U == P \ {p}
        <5>1. U \in SUBSET T /\ U # T /\ U \subseteq P /\ U \subseteq U
          OBVIOUS
        <5>2. IsFiniteSet(U)
          BY <5>1, FS_Subset
        <5>3. AllCalls(ofItem, Of(U), U) /\ AllCalls(ofItem, Of(P), P)
          BY <2>1, <3>2, <5>1
        <5>4. Of(U)[U] = Of(P)[U]
          BY <5>1, <5>2, <5>3, AllCallsAgree
        <5>5. QED
          BY <5>1, <5>4
      <4>2. h[P] = Of(P)[P]
        BY <3>2
      <4> HIDE DEF h
      <4>3. Without(h, P) = Without(Of(P), P)
        BY <4>1 DEF Without
      <4>4. Of(P)[P] = Joined(ofItem, P, Without(Of(P), P))
        BY <2>1, <3>2, AllCallsAt
      <4>5. QED
        BY <4>2, <4>3, <4>4
    <3>3. QED
      BY <3>1, <3>2
  <2>3. h = [P \in SUBSET T |-> h[P]]
    OBVIOUS
  <2> HIDE DEF h
  <2>4. AllCalls(ofItem, h, T)
    BY <2>2, <2>3, AllCallsAt
  <2>5. QED
    BY <2>4
<1> HIDE DEF Good
<1>2. \A T \in SUBSET S : T \in Good
  BY <1>1, SubsetInduction
<1>3. QED
  BY <1>2 DEF Good

\* What concatenating two sets of sequences of calls gives.
LEMMA Concatenated ==
  ASSUME NEW A, NEW B, NEW calls \in Concatenations(A, B)
  PROVE  \E first \in A, rest \in B : calls = first \o rest
BY SMT DEF Concatenations

\* What holds of no calls, and of the calls of one item before those of the
\* others, holds of a program: Kept[P] are the calls that P may have.
LEMMA CallsKeep ==
  ASSUME NEW ofItem, IsFiniteSet(DOMAIN ofItem), NEW Kept, <<>> \in Kept[{}],
         \A P \in SUBSET DOMAIN ofItem : \A p \in P :
           \A first \in ofItem[p], rest \in Kept[P \ {p}] : first \o rest \in Kept[P]
  PROVE  Calls(ofItem) \subseteq Kept[DOMAIN ofItem]
<1> DEFINE D == DOMAIN ofItem
           g == CHOOSE h : AllCalls(ofItem, h, D)
           Good == {T \in SUBSET D : g[T] \subseteq Kept[T]}
<1>1. Calls(ofItem) = g[D]
  BY DEF Calls, AllCalls
<1>2. AllCalls(ofItem, g, D)
  BY AllCallsExist
<1> HIDE DEF g
<1>3. ASSUME NEW T \in SUBSET D, \A U \in SUBSET T : U # T => U \in Good
      PROVE  T \in Good
  <2>1. g[T] = Joined(ofItem, T, Without(g, T))
    BY <1>2, AllCallsAt
  <2>2. CASE T = {}
    BY <2>1, <2>2 DEF Joined
  <2>3. CASE T # {}
    <3>1. ASSUME NEW calls \in g[T] PROVE calls \in Kept[T]
      <4>1. \A p \in T : Without(g, T)[p] = g[T \ {p}]
        BY DEF Without
      <4> DEFINE r == Without(g, T)
                 X(p) == Concatenations(ofItem[p], r[p])
      <4>a. calls \in UNION {X(p) : p \in T}
        BY <2>1, <2>3 DEF Joined
      <4>b. PICK p \in T : calls \in X(p)
        <5> HIDE DEF X
        <5>1. QED
          BY <4>a
      <4>2. \E first \in ofItem[p], rest \in g[T \ {p}] : calls = first \o rest
        <5>1. r[p] = g[T \ {p}]
          BY <4>1
        <5> HIDE DEF r
        <5>2. calls \in Concatenations(ofItem[p], r[p])
          BY <4>b
        <5>3. calls \in Concatenations(ofItem[p], g[T \ {p}])
          BY <5>1, <5>2
        <5>4. QED
          BY <5>3, Concatenated
      <4>3. T \ {p} \in Good
        BY <1>3
      <4>4. QED
        BY <4>2, <4>3
    <3>2. QED
      BY <3>1
  <2>4. QED
    BY <2>2, <2>3
<1> HIDE DEF Good
<1>4. \A T \in SUBSET D : T \in Good
  BY <1>3, SubsetInduction
<1>5. QED
  BY <1>1, <1>4 DEF Good

-----------------------------------------------------------------------------
(* What the calls of a handler amount to                                    *)

\* Two and three calls.
LEMMA CallSumTwo ==
  ASSUME NEW a \in LedgerCall, NEW b \in LedgerCall, NEW column, NEW R
  PROVE  /\ <<a, b>> \in Seq(LedgerCall)
         /\ CallSum(<<a, b>>, column, R) = Weight(a, column, R) + Weight(b, column, R)
<1> DEFINE s == <<a, b>>
           rest == <<b>>
<1>1. s \in Seq(LedgerCall) /\ s # <<>> /\ Head(s) = a /\ Tail(s) = rest
  OBVIOUS
<1>2. CallSum(rest, column, R) = Weight(b, column, R)
  BY CallSumOne
<1> HIDE DEF s, rest
<1>3. CallSum(s, column, R) = Weight(Head(s), column, R) + CallSum(Tail(s), column, R)
  BY <1>1, CallSumTail
<1>4. QED
  BY <1>1, <1>2, <1>3 DEF s

\* Three calls, as receive makes them for an item.
LEMMA CallSumThree ==
  ASSUME NEW a \in LedgerCall, NEW b \in LedgerCall, NEW c \in LedgerCall, NEW column, NEW R
  PROVE  /\ <<a, b, c>> \in Seq(LedgerCall)
         /\ CallSum(<<a, b, c>>, column, R)
              = Weight(a, column, R) + (Weight(b, column, R) + Weight(c, column, R))
<1> DEFINE s == <<a, b, c>>
           rest == <<b, c>>
<1>1. s \in Seq(LedgerCall) /\ s # <<>> /\ Head(s) = a /\ Tail(s) = rest
  OBVIOUS
<1>2. CallSum(rest, column, R) = Weight(b, column, R) + Weight(c, column, R)
  BY CallSumTwo
<1> HIDE DEF s, rest
<1>3. CallSum(s, column, R) = Weight(Head(s), column, R) + CallSum(Tail(s), column, R)
  BY <1>1, CallSumTail
<1>4. QED
  BY <1>1, <1>2, <1>3 DEF s

\* Calls on other columns.
LEMMA CallSumNone ==
  ASSUME NEW calls \in Seq(LedgerCall), NEW column, NEW R,
         \A n \in DOMAIN calls : calls[n].column # column
  PROVE  CallSum(calls, column, R) = 0
<1>1. \A n \in DOMAIN calls : Weights(calls, column, R)[n] = 0
  BY DEF Weights, Weight
<1>2. IsFiniteSet(DOMAIN calls)
  BY CallSumType
<1>3. QED
  BY <1>1, <1>2, SumZero DEF CallSum

ProductRows(p) == {k \in Keys : k[2] = p}

\* What a handler's calls move and reserve on a row, if it handles all items.
MovesOf(transfer, next, k) ==
  IF next # "RECEIVED" \/ k[2] \notin DOMAIN transfer.items THEN 0
  ELSE CASE k[1] = transfer.from -> -transfer.items[k[2]]
         [] k[1] = transfer.to /\ k[1] # transfer.from -> transfer.items[k[2]]
         [] OTHER -> 0

ReservesOf(transfer, loaded, next, k) ==
  IF k[1] # transfer.from \/ k[2] \notin DOMAIN transfer.items THEN 0
  ELSE IF next = "DISPATCHED" THEN transfer.items[k[2]]
  ELSE IF loaded = "DISPATCHED" THEN -transfer.items[k[2]] ELSE 0

\* A call that takes something away, and the one that must come before it.
Risky(call) ==
  \/ call.column = "outboundTransfers" /\ call.delta > 0
  \/ call.column = "quantityOnHand" /\ call.delta < 0

Prepares(earlier, call) ==
  /\ earlier.row = call.row /\ earlier.delta = call.delta
  /\ call.column = "outboundTransfers" => earlier.column = "availableToSell"
  /\ call.column = "quantityOnHand" => earlier.column = "outboundTransfers"

Orderly(calls) ==
  \A n \in DOMAIN calls : Risky(calls[n]) =>
    n - 1 \in DOMAIN calls /\ Prepares(calls[n - 1], calls[n])

\* The calls of the items P of a transfer.
CallsOfItems(transfer, loaded, next, P) ==
  {calls \in Seq(LedgerCall) :
     /\ \A k \in Keys :
          /\ CallSum(calls, "quantityOnHand", {k})
                = IF k[2] \in P THEN MovesOf(transfer, next, k) ELSE 0
          /\ CallSum(calls, "outboundTransfers", {k})
                = IF k[2] \in P THEN ReservesOf(transfer, loaded, next, k) ELSE 0
     /\ \A p \in Products : CallSum(calls, "quantityOnHand", ProductRows(p)) = 0
     /\ Orderly(calls)}

\* Orderly calls, and more orderly calls.
LEMMA OrderlyConcat ==
  ASSUME NEW s \in Seq(LedgerCall), NEW u \in Seq(LedgerCall), Orderly(s), Orderly(u)
  PROVE  Orderly(s \o u)
<1> DEFINE m == Len(s)
           both == s \o u
<1>1. /\ m \in Nat /\ Len(u) \in Nat /\ DOMAIN s = 1..m /\ DOMAIN u = 1..Len(u)
      /\ DOMAIN both = 1..(m + Len(u))
      /\ \A n \in DOMAIN s : both[n] = s[n]
      /\ \A n \in DOMAIN u : both[m + n] = u[n]
  OBVIOUS
<1> HIDE DEF both
<1>2. ASSUME NEW n \in DOMAIN both, Risky(both[n])
      PROVE  n - 1 \in DOMAIN both /\ Prepares(both[n - 1], both[n])
  <2>1. CASE n \in DOMAIN s
    <3>1. n - 1 \in DOMAIN s /\ Prepares(s[n - 1], s[n])
      BY <1>1, <1>2, <2>1 DEF Orderly
    <3>2. QED
      BY <1>1, <2>1, <3>1
  <2>2. CASE n \notin DOMAIN s
    <3> DEFINE i == n - m
    <3>1. i \in DOMAIN u /\ both[n] = u[i] /\ n = m + i /\ n \in Int
      <4>1. n \in Int /\ i \in DOMAIN u /\ n = m + i
        BY <1>1, <2>2
      <4>2. QED
        BY <1>1, <4>1
    <3> HIDE DEF i
    <3>2. i - 1 \in DOMAIN u /\ Prepares(u[i - 1], u[i])
      BY <1>2, <3>1 DEF Orderly
    <3>3. m + (i - 1) = n - 1 /\ n - 1 \in DOMAIN both
      BY <1>1, <3>1, <3>2
    <3>4. both[n - 1] = u[i - 1]
      BY <1>1, <3>2, <3>3
    <3>5. QED
      BY <3>1, <3>2, <3>3, <3>4
  <2>3. QED
    BY <2>1, <2>2
<1>3. QED
  BY <1>2 DEF Orderly, both

\* A call, field by field.
LEMMA InCallType ==
  ASSUME NEW column \in Columns \cup {"availableToSell"}, NEW b \in Branches,
         NEW p \in Products, NEW delta \in Int
  PROVE  LET call == InCall(column, b, p, delta)
         IN  /\ call \in LedgerCall /\ call.column = column
             /\ call.row = <<b, p>> /\ call.delta = delta
BY DEF InCall, LedgerCall, Keys

\* A transfer that has been created.
Known(transfer) ==
  /\ transfer \in BranchTransfer /\ transfer.status # "NONE" /\ transfer.from # transfer.to

\* The branches and the quantities of a created transfer.
LEMMA KnownTransfer ==
  ASSUME NEW transfer, Known(transfer)
  PROVE  /\ transfer.from \in Branches /\ transfer.to \in Branches /\ transfer.from # transfer.to
         /\ DOMAIN transfer.items \subseteq Products /\ IsFiniteSet(DOMAIN transfer.items)
         /\ \A p \in DOMAIN transfer.items : transfer.items[p] \in Nat /\ transfer.items[p] > 0
<1>1. PICK P \in SUBSET Products : transfer.items \in [P -> TransferQuantities]
  BY DEF Known, BranchTransfer
<1>2. IsFiniteSet(P)
  BY TransfersAssumption, FS_Subset
<1>3. \A n \in TransferQuantities : n \in Nat /\ n > 0
  BY TransfersAssumption
<1>4. QED
  BY <1>1, <1>2, <1>3 DEF Known, BranchTransfer

\* What replenishment orders at once only adds to inboundOpenPo.
LEMMA ReorderCalls ==
  ASSUME NEW b \in Branches, NEW p \in Products, NEW lines \in Reorders[p]
  PROVE  LET calls == Reorder(b, lines)
         IN  /\ calls \in Seq(LedgerCall)
             /\ \A n \in DOMAIN calls : calls[n].column = "inboundOpenPo"
<1>1. \E n \in Nat : lines \in [1..n -> Products]
  <2>1. CASE lines = <<>>
    <3>1. <<>> \in Seq(Products) /\ Len(<<>>) = 0
      OBVIOUS
    <3>2. <<>> \in [1..0 -> Products]
      BY <3>1
    <3>3. QED
      BY <2>1, <3>2
  <2>2. CASE lines # <<>>
    <3>1. PICK P \in SUBSET Products : lines \in SetToSeqs(P)
      BY <2>2 DEF Reorders
    <3>2. IsFiniteSet(P)
      BY TransfersAssumption, FS_Subset
    <3>3. Cardinality(P) \in Nat
      BY <3>2, FS_CardinalityType
    <3>4. lines \in [1..Cardinality(P) -> P]
      BY <3>1 DEF SetToSeqs
    <3>5. lines \in [1..Cardinality(P) -> Products]
      BY <3>4
    <3>6. QED
      BY <3>3, <3>5
  <2>3. QED
    BY <2>1, <2>2
<1>2. PICK n \in Nat : lines \in [1..n -> Products]
  BY <1>1
<1> DEFINE calls == Reorder(b, lines)
           call(m) == InCall("inboundOpenPo", b, lines[m], ReorderQuantity)
<1>3. ASSUME NEW m \in 1..n PROVE call(m) \in LedgerCall /\ call(m).column = "inboundOpenPo"
  <2>1. lines[m] \in Products /\ ReorderQuantity \in Int /\ "inboundOpenPo" \in Columns \cup {"availableToSell"}
    BY <1>2, TransfersAssumption DEF Columns
  <2>2. QED
    BY <2>1, InCallType
<1>4. calls = [m \in 1..n |-> call(m)]
  BY <1>2 DEF Reorder
<1> HIDE DEF calls, call
<1>5. calls \in Seq(LedgerCall) /\ DOMAIN calls = 1..n
  BY <1>3, <1>4
<1>6. \A m \in DOMAIN calls : calls[m].column = "inboundOpenPo"
  BY <1>3, <1>4
<1>7. QED
  BY <1>5, <1>6 DEF calls

\* Whether the calls of the items P amount to what they should.
LEMMA OfItems ==
  ASSUME NEW transfer, NEW loaded, NEW next, NEW P, NEW calls
  PROVE  calls \in CallsOfItems(transfer, loaded, next, P) <=>
           /\ calls \in Seq(LedgerCall)
           /\ \A k \in Keys :
                /\ CallSum(calls, "quantityOnHand", {k})
                      = IF k[2] \in P THEN MovesOf(transfer, next, k) ELSE 0
                /\ CallSum(calls, "outboundTransfers", {k})
                      = IF k[2] \in P THEN ReservesOf(transfer, loaded, next, k) ELSE 0
           /\ \A p \in Products : CallSum(calls, "quantityOnHand", ProductRows(p)) = 0
           /\ Orderly(calls)
BY DEF CallsOfItems

\* What a transfer moves and reserves are integers.
LEMMA MovesType ==
  ASSUME NEW transfer, Known(transfer), NEW loaded, NEW next, NEW k \in Keys
  PROVE  MovesOf(transfer, next, k) \in Int /\ ReservesOf(transfer, loaded, next, k) \in Int
<1>1. \A p \in DOMAIN transfer.items : transfer.items[p] \in Int
  BY KnownTransfer
<1>2. QED
  BY <1>1 DEF MovesOf, ReservesOf

\* No items make no calls.
LEMMA NoItems ==
  ASSUME NEW transfer, NEW loaded, NEW next
  PROVE  <<>> \in CallsOfItems(transfer, loaded, next, {})
<1>1. <<>> \in Seq(LedgerCall) /\ DOMAIN <<>> = {}
  OBVIOUS
<1>2. \A column, R : CallSum(<<>>, column, R) = 0
  BY CallSumEmpty
<1> DEFINE none == <<>>
<1> HIDE DEF none
<1>3. Orderly(none)
  BY <1>1 DEF Orderly, none
<1>4. none \in CallsOfItems(transfer, loaded, next, {})
  <2>1. none \in Seq(LedgerCall) /\ \A column, R : CallSum(none, column, R) = 0
    BY <1>1, <1>2 DEF none
  <2>2. QED
    BY <1>3, <2>1 DEF CallsOfItems
<1>5. QED
  BY <1>4 DEF none

\* The calls of one item, and those of others.
LEMMA MoreItems ==
  ASSUME NEW transfer, Known(transfer), NEW loaded, NEW next, NEW P, NEW p \in P,
         NEW first \in CallsOfItems(transfer, loaded, next, {p}),
         NEW rest \in CallsOfItems(transfer, loaded, next, P \ {p})
  PROVE  first \o rest \in CallsOfItems(transfer, loaded, next, P)
<1> DEFINE both == first \o rest
<1>1. /\ first \in Seq(LedgerCall) /\ Orderly(first)
      /\ rest \in Seq(LedgerCall) /\ Orderly(rest)
  BY OfItems
<1>2. both \in Seq(LedgerCall) /\ Orderly(both)
  BY <1>1, OrderlyConcat
<1>3. ASSUME NEW column, NEW R
      PROVE  CallSum(both, column, R) = CallSum(first, column, R) + CallSum(rest, column, R)
  BY <1>1, CallSumConcat
<1> HIDE DEF both
<1>4. ASSUME NEW k \in Keys
      PROVE  /\ CallSum(both, "quantityOnHand", {k})
                  = IF k[2] \in P THEN MovesOf(transfer, next, k) ELSE 0
             /\ CallSum(both, "outboundTransfers", {k})
                  = IF k[2] \in P THEN ReservesOf(transfer, loaded, next, k) ELSE 0
  <2>1. /\ CallSum(first, "quantityOnHand", {k})
             = IF k[2] \in {p} THEN MovesOf(transfer, next, k) ELSE 0
        /\ CallSum(first, "outboundTransfers", {k})
             = IF k[2] \in {p} THEN ReservesOf(transfer, loaded, next, k) ELSE 0
    BY DEF CallsOfItems
  <2>2. /\ CallSum(rest, "quantityOnHand", {k})
             = IF k[2] \in P \ {p} THEN MovesOf(transfer, next, k) ELSE 0
        /\ CallSum(rest, "outboundTransfers", {k})
             = IF k[2] \in P \ {p} THEN ReservesOf(transfer, loaded, next, k) ELSE 0
    BY DEF CallsOfItems
  <2>3. MovesOf(transfer, next, k) \in Int /\ ReservesOf(transfer, loaded, next, k) \in Int
    BY MovesType
  <2>4. QED
    BY <1>3, <2>1, <2>2, <2>3
<1>5. ASSUME NEW r \in Products PROVE CallSum(both, "quantityOnHand", ProductRows(r)) = 0
  <2>1. /\ CallSum(first, "quantityOnHand", ProductRows(r)) = 0
        /\ CallSum(rest, "quantityOnHand", ProductRows(r)) = 0
    BY OfItems
  <2>2. QED
    BY <1>3, <2>1
<1>6. both \in CallsOfItems(transfer, loaded, next, P)
  BY <1>2, <1>4, <1>5, OfItems
<1>7. QED
  BY <1>6 DEF both

\* A handler's calls amount to its items' calls, in whatever order it takes them.
LEMMA HandlerCalls ==
  ASSUME NEW transfer, Known(transfer), NEW loaded, NEW next,
         NEW ofItem, DOMAIN ofItem = DOMAIN transfer.items,
         \A p \in DOMAIN ofItem : ofItem[p] \subseteq CallsOfItems(transfer, loaded, next, {p})
  PROVE  Calls(ofItem) \subseteq CallsOfItems(transfer, loaded, next, DOMAIN transfer.items)
<1> DEFINE D == DOMAIN ofItem
           Kept == [P \in SUBSET D |-> CallsOfItems(transfer, loaded, next, P)]
<1>1. IsFiniteSet(D) /\ {} \in SUBSET D /\ D \in SUBSET D
  BY KnownTransfer
<1>2. \A P \in SUBSET D : Kept[P] = CallsOfItems(transfer, loaded, next, P)
  OBVIOUS
<1> HIDE DEF Kept
<1>3. <<>> \in Kept[{}]
  BY <1>1, <1>2, NoItems
<1>4. ASSUME NEW P \in SUBSET D, NEW p \in P, NEW first \in ofItem[p], NEW rest \in Kept[P \ {p}]
      PROVE  first \o rest \in Kept[P]
  <2>1. P \ {p} \in SUBSET D /\ p \in D
    OBVIOUS
  <2>2. first \in CallsOfItems(transfer, loaded, next, {p})
    BY <2>1
  <2>3. rest \in CallsOfItems(transfer, loaded, next, P \ {p})
    BY <1>2, <2>1
  <2>4. QED
    BY <1>2, <2>2, <2>3, MoreItems
<1>5. Calls(ofItem) \subseteq Kept[DOMAIN ofItem]
  BY <1>1, <1>3, <1>4, CallsKeep
<1>6. QED
  BY <1>1, <1>2, <1>5

\* One call of an item, on a row.
LEMMA WeightOfCall ==
  ASSUME NEW call \in LedgerCall, NEW column
  PROVE  /\ call.column # column => \A R : Weight(call, column, R) = 0
         /\ call.column = column =>
              /\ \A k \in Keys : Weight(call, column, {k}) = IF k = call.row THEN call.delta ELSE 0
              /\ \A p \in Products : Weight(call, column, ProductRows(p))
                                       = IF call.row[2] = p THEN call.delta ELSE 0
<1>1. call.row \in Keys
  BY DEF LedgerCall
<1>2. QED
  BY <1>1 DEF Weight, ProductRows

\* A row is that of a branch and a product.
LEMMA RowOf ==
  ASSUME NEW k \in Keys
  PROVE  /\ k[1] \in Branches /\ k[2] \in Products
         /\ \A b, p : k = <<b, p>> <=> k[1] = b /\ k[2] = p
BY DEF Keys

\* dispatch: the check, the reservation, and what is ordered at once.
LEMMA DispatchItemCalls ==
  ASSUME NEW transfer, Known(transfer), NEW p \in DOMAIN transfer.items
  PROVE  DispatchItem(transfer, p) \subseteq CallsOfItems(transfer, "REQUESTED", "DISPATCHED", {p})
<1> DEFINE n == transfer.items[p]
           check == InCall("availableToSell", transfer.from, p, n)
           take == InCall("outboundTransfers", transfer.from, p, n)
           pair == <<check, take>>
<1>1. transfer.from \in Branches /\ p \in Products /\ n \in Int /\ n > 0
  BY KnownTransfer
<1>2. /\ check \in LedgerCall /\ check.column = "availableToSell"
      /\ check.row = <<transfer.from, p>> /\ check.delta = n
  BY <1>1, InCallType
<1>3. /\ take \in LedgerCall /\ take.column = "outboundTransfers"
      /\ take.row = <<transfer.from, p>> /\ take.delta = n
  BY <1>1, InCallType DEF Columns
<1>4. Orderly(pair)
  <2>1. DOMAIN pair = 1..2 /\ pair[1] = check /\ pair[2] = take
    OBVIOUS
  <2> HIDE DEF check, take, pair, n
  <2>2. ~Risky(check) /\ Prepares(check, take)
    BY <1>2, <1>3 DEF Risky, Prepares
  <2>3. \A m \in DOMAIN pair : Risky(pair[m]) => m - 1 \in DOMAIN pair /\ Prepares(pair[m - 1], pair[m])
    <3>1. \A m \in DOMAIN pair : m = 1 \/ m = 2
      BY <2>1
    <3>2. 2 - 1 = 1 /\ 1 \in DOMAIN pair
      BY <2>1
    <3>3. QED
      BY <2>1, <2>2, <3>1, <3>2
  <2>4. QED
    BY <2>3 DEF Orderly
<1> HIDE DEF check, take
<1>5. /\ pair \in Seq(LedgerCall)
      /\ \A column, R : CallSum(pair, column, R) = Weight(check, column, R) + Weight(take, column, R)
  BY <1>2, <1>3, CallSumTwo
<1> HIDE DEF pair
<1>6. ASSUME NEW lines \in Reorders[p]
      PROVE  pair \o Reorder(transfer.from, lines)
               \in CallsOfItems(transfer, "REQUESTED", "DISPATCHED", {p})
  <2> DEFINE more == Reorder(transfer.from, lines)
             calls == pair \o more
  <2>1. more \in Seq(LedgerCall) /\ \A m \in DOMAIN more : more[m].column = "inboundOpenPo"
    BY <1>1, ReorderCalls
  <2> HIDE DEF more
  <2>2. Orderly(more)
    BY <2>1 DEF Orderly, Risky
  <2>3. calls \in Seq(LedgerCall) /\ Orderly(calls)
    BY <1>4, <1>5, <2>1, <2>2, CallSumConcat, OrderlyConcat
  <2>4. ASSUME NEW column \in {"quantityOnHand", "outboundTransfers"}, NEW R
        PROVE  CallSum(calls, column, R) = Weight(check, column, R) + Weight(take, column, R)
    <3>1. CallSum(more, column, R) = 0
      BY <2>1, CallSumNone
    <3>2. CallSum(calls, column, R) = CallSum(pair, column, R) + CallSum(more, column, R)
      BY <1>5, <2>1, CallSumConcat
    <3>3. CallSum(pair, column, R) \in Int
      BY <1>5, CallSumType
    <3>4. QED
      BY <1>5, <3>1, <3>2, <3>3
  <2> HIDE DEF calls
  <2>5. \A R : CallSum(calls, "quantityOnHand", R) = 0
    BY <1>2, <1>3, <2>4, WeightOfCall
  <2>6. ASSUME NEW k \in Keys
        PROVE  CallSum(calls, "outboundTransfers", {k}) = IF k = <<transfer.from, p>> THEN n ELSE 0
    <3>1. Weight(check, "outboundTransfers", {k}) = 0
      BY <1>2, WeightOfCall
    <3>2. Weight(take, "outboundTransfers", {k}) = IF k = <<transfer.from, p>> THEN n ELSE 0
      BY <1>3, WeightOfCall
    <3>3. QED
      BY <1>1, <2>4, <3>1, <3>2
  <2>7. ASSUME NEW k \in Keys
        PROVE  /\ CallSum(calls, "quantityOnHand", {k})
                    = IF k[2] \in {p} THEN MovesOf(transfer, "DISPATCHED", k) ELSE 0
               /\ CallSum(calls, "outboundTransfers", {k})
                    = IF k[2] \in {p} THEN ReservesOf(transfer, "REQUESTED", "DISPATCHED", k) ELSE 0
    BY <2>5, <2>6, RowOf DEF MovesOf, ReservesOf
  <2>8. calls \in CallsOfItems(transfer, "REQUESTED", "DISPATCHED", {p})
    BY <2>3, <2>5, <2>7, OfItems
  <2>9. QED
    BY <2>8 DEF calls, more
<1>7. DispatchItem(transfer, p) = {pair \o Reorder(transfer.from, lines) : lines \in Reorders[p]}
  BY DEF DispatchItem, pair, check, take
<1>8. QED
  BY <1>6, <1>7

\* receive: the reservation ends, the units leave one branch and arrive in another.
LEMMA ReceiveItemCalls ==
  ASSUME NEW transfer, Known(transfer), NEW p \in DOMAIN transfer.items
  PROVE  ReceiveItem(transfer, p) \subseteq CallsOfItems(transfer, "DISPATCHED", "RECEIVED", {p})
<1> DEFINE n == transfer.items[p]
           free == InCall("outboundTransfers", transfer.from, p, -n)
           leave == InCall("quantityOnHand", transfer.from, p, -n)
           arrive == InCall("quantityOnHand", transfer.to, p, n)
           calls == <<free, leave, arrive>>
<1>1. /\ transfer.from \in Branches /\ transfer.to \in Branches /\ transfer.from # transfer.to
      /\ p \in Products /\ n \in Int /\ n > 0 /\ -n \in Int
  BY KnownTransfer
<1>2. /\ free \in LedgerCall /\ free.column = "outboundTransfers"
      /\ free.row = <<transfer.from, p>> /\ free.delta = -n
  BY <1>1, InCallType DEF Columns
<1>3. /\ leave \in LedgerCall /\ leave.column = "quantityOnHand"
      /\ leave.row = <<transfer.from, p>> /\ leave.delta = -n
  BY <1>1, InCallType DEF Columns
<1>4. /\ arrive \in LedgerCall /\ arrive.column = "quantityOnHand"
      /\ arrive.row = <<transfer.to, p>> /\ arrive.delta = n
  BY <1>1, InCallType DEF Columns
<1>5. Orderly(calls)
  <2>1. DOMAIN calls = 1..3 /\ calls[1] = free /\ calls[2] = leave /\ calls[3] = arrive
    OBVIOUS
  <2> HIDE DEF calls
  <2>2. ~Risky(free) /\ Prepares(free, leave) /\ ~Risky(arrive)
    <3> HIDE DEF free, leave, arrive, n
    <3>1. QED
      BY <1>1, <1>2, <1>3, <1>4 DEF Risky, Prepares
  <2> HIDE DEF free, leave, arrive, n
  <2>3. \A m \in DOMAIN calls : Risky(calls[m]) => m - 1 \in DOMAIN calls /\ Prepares(calls[m - 1], calls[m])
    <3>1. \A m \in DOMAIN calls : m = 1 \/ m = 2 \/ m = 3
      BY <2>1
    <3>2. 2 - 1 = 1 /\ 1 \in DOMAIN calls
      BY <2>1
    <3>3. QED
      BY <2>1, <2>2, <3>1, <3>2
  <2>4. QED
    BY <2>3 DEF Orderly
<1> HIDE DEF free, leave, arrive
<1>6. /\ calls \in Seq(LedgerCall)
      /\ \A column, R : CallSum(calls, column, R)
           = Weight(free, column, R) + (Weight(leave, column, R) + Weight(arrive, column, R))
  BY <1>2, <1>3, <1>4, CallSumThree
<1> HIDE DEF calls, n
<1>7. ASSUME NEW k \in Keys
      PROVE  /\ CallSum(calls, "quantityOnHand", {k})
                  = IF k[2] \in {p} THEN MovesOf(transfer, "RECEIVED", k) ELSE 0
             /\ CallSum(calls, "outboundTransfers", {k})
                  = IF k[2] \in {p} THEN ReservesOf(transfer, "DISPATCHED", "RECEIVED", k) ELSE 0
  <2>1. /\ Weight(free, "quantityOnHand", {k}) = 0
        /\ Weight(free, "outboundTransfers", {k}) = IF k = <<transfer.from, p>> THEN -n ELSE 0
    BY <1>2, WeightOfCall
  <2>2. /\ Weight(leave, "outboundTransfers", {k}) = 0
        /\ Weight(leave, "quantityOnHand", {k}) = IF k = <<transfer.from, p>> THEN -n ELSE 0
    BY <1>3, WeightOfCall
  <2>3. /\ Weight(arrive, "outboundTransfers", {k}) = 0
        /\ Weight(arrive, "quantityOnHand", {k}) = IF k = <<transfer.to, p>> THEN n ELSE 0
    BY <1>4, WeightOfCall
  <2>4. CallSum(calls, "quantityOnHand", {k})
          = IF k = <<transfer.from, p>> THEN -n ELSE IF k = <<transfer.to, p>> THEN n ELSE 0
    <3>1. <<transfer.from, p>> # <<transfer.to, p>>
      BY <1>1
    <3>2. QED
      BY <1>1, <1>6, <2>1, <2>2, <2>3, <3>1
  <2>5. CallSum(calls, "outboundTransfers", {k}) = IF k = <<transfer.from, p>> THEN -n ELSE 0
    BY <1>1, <1>6, <2>1, <2>2, <2>3
  <2>6. /\ k = <<transfer.from, p>> <=> k[1] = transfer.from /\ k[2] = p
        /\ k = <<transfer.to, p>> <=> k[1] = transfer.to /\ k[2] = p
    BY RowOf
  <2>7. QED
    BY <1>1, <2>4, <2>5, <2>6 DEF MovesOf, ReservesOf, n
<1>8. ASSUME NEW r \in Products PROVE CallSum(calls, "quantityOnHand", ProductRows(r)) = 0
  <2>1. Weight(free, "quantityOnHand", ProductRows(r)) = 0
    BY <1>2, WeightOfCall
  <2>2. Weight(leave, "quantityOnHand", ProductRows(r)) = IF p = r THEN -n ELSE 0
    BY <1>3, WeightOfCall
  <2>3. Weight(arrive, "quantityOnHand", ProductRows(r)) = IF p = r THEN n ELSE 0
    BY <1>4, WeightOfCall
  <2>4. QED
    BY <1>1, <1>6, <2>1, <2>2, <2>3
<1>9. calls \in CallsOfItems(transfer, "DISPATCHED", "RECEIVED", {p})
  BY <1>5, <1>6, <1>7, <1>8, OfItems
<1>10. ReceiveItem(transfer, p) = {calls}
  BY DEF ReceiveItem, calls, free, leave, arrive, n
<1>11. QED
  BY <1>9, <1>10

\* cancel: the reservation of a dispatched transfer ends.
LEMMA CancelItemCalls ==
  ASSUME NEW transfer, Known(transfer), NEW p \in DOMAIN transfer.items
  PROVE  CancelItem(transfer, p) \subseteq CallsOfItems(transfer, "DISPATCHED", "CANCELLED", {p})
<1> DEFINE n == transfer.items[p]
           free == InCall("outboundTransfers", transfer.from, p, -n)
           calls == <<free>>
<1>1. transfer.from \in Branches /\ p \in Products /\ n \in Int /\ n > 0 /\ -n \in Int
  BY KnownTransfer
<1>2. /\ free \in LedgerCall /\ free.column = "outboundTransfers"
      /\ free.row = <<transfer.from, p>> /\ free.delta = -n
  BY <1>1, InCallType DEF Columns
<1>3. DOMAIN calls = 1..1 /\ calls[1] = free /\ calls \in Seq(LedgerCall)
  BY <1>2
<1> HIDE DEF n
<1>4. ~Risky(free)
  BY <1>1, <1>2 DEF Risky
<1> HIDE DEF free
<1>5. \A column, R : CallSum(calls, column, R) = Weight(free, column, R)
  BY <1>2, CallSumOne
<1> HIDE DEF calls
<1>6. Orderly(calls)
  <2>1. \A m \in DOMAIN calls : m = 1
    BY <1>3
  <2>2. QED
    BY <1>3, <1>4, <2>1 DEF Orderly
<1>7. \A R : CallSum(calls, "quantityOnHand", R) = 0
  BY <1>2, <1>5, WeightOfCall
<1>8. ASSUME NEW k \in Keys
      PROVE  /\ CallSum(calls, "quantityOnHand", {k})
                  = IF k[2] \in {p} THEN MovesOf(transfer, "CANCELLED", k) ELSE 0
             /\ CallSum(calls, "outboundTransfers", {k})
                  = IF k[2] \in {p} THEN ReservesOf(transfer, "DISPATCHED", "CANCELLED", k) ELSE 0
  <2>1. CallSum(calls, "outboundTransfers", {k}) = IF k = <<transfer.from, p>> THEN -n ELSE 0
    BY <1>2, <1>5, WeightOfCall
  <2>2. k = <<transfer.from, p>> <=> k[1] = transfer.from /\ k[2] = p
    BY RowOf
  <2>3. QED
    BY <1>7, <2>1, <2>2 DEF MovesOf, ReservesOf, n
<1>9. calls \in CallsOfItems(transfer, "DISPATCHED", "CANCELLED", {p})
  BY <1>3, <1>6, <1>7, <1>8, OfItems
<1>10. CancelItem(transfer, p) = {calls}
  BY DEF CancelItem, calls, free, n
<1>11. QED
  BY <1>9, <1>10

-----------------------------------------------------------------------------
(* The steps of the transfers, and what every state is like                 *)

\* What a handler may make of a status.
Follows(loaded, next) ==
  \/ loaded = "REQUESTED" /\ next \in {"DISPATCHED", "CANCELLED"}
  \/ loaded = "DISPATCHED" /\ next \in {"RECEIVED", "CANCELLED"}

TransfersTyped ==
  /\ transfers \in [TransferIds -> BranchTransfer \cup {NoTransfer}]
  /\ \A id \in TransferIds : transfers[id].status # "NONE" => Known(transfers[id])
  /\ handling \in [Transactions -> Handling \cup {None}]
  /\ staleTransfer \in [TransferIds -> BOOLEAN]

\* A transaction that handles a transfer has begun, with a status that allowed it.
HandlingKnown ==
  \A t \in Transactions : handling[t] # None =>
    /\ transactions[t].status # "ready" /\ (Running(t) => transactions[t].atomic)
    /\ Follows(handling[t].loaded, handling[t].next)
    /\ Known(transfers[handling[t].transfer])

TransfersShape == LedgerShape /\ TransfersTyped /\ HandlingKnown

\* A handler begins, with the calls of all items of the transfer it has loaded.
Starts(t, id, next, calls) ==
  /\ Known(transfers[id]) /\ Follows(transfers[id].status, next)
  /\ calls \in CallsOfItems(transfers[id], transfers[id].status, next, DOMAIN transfers[id].items)
  /\ Begin(t, [atomic |-> TRUE, calls |-> calls])
  /\ handling' = [handling EXCEPT
       ![t] = [transfer |-> id, loaded |-> transfers[id].status, next |-> next]]
  /\ UNCHANGED <<transfers, staleTransfer>>

\* The three handlers.
LEMMA HandlersStart ==
  ASSUME TransfersTyped, NEW t \in Transactions, NEW id \in TransferIds,
         Dispatch(t, id) \/ Receive(t, id) \/ Cancel(t, id)
  PROVE  \E next, calls : Starts(t, id, next, calls)
<1> DEFINE transfer == transfers[id]
           P == DOMAIN transfer.items
<1>1. Known(transfer)
  BY DEF TransfersTyped, Dispatch, Receive, Cancel
<1>2. CASE Dispatch(t, id)
  <2> DEFINE ofItem == [p \in P |-> DispatchItem(transfer, p)]
  <2>1. transfer.status = "REQUESTED" /\ Handle(t, id, "DISPATCHED", Calls(ofItem))
    BY <1>2 DEF Dispatch
  <2>2. DOMAIN ofItem = P /\ \A p \in P : ofItem[p] = DispatchItem(transfer, p)
    OBVIOUS
  <2> HIDE DEF ofItem
  <2>3. \A p \in P : ofItem[p] \subseteq CallsOfItems(transfer, "REQUESTED", "DISPATCHED", {p})
    BY <1>1, <2>2, DispatchItemCalls
  <2>4. Calls(ofItem) \subseteq CallsOfItems(transfer, "REQUESTED", "DISPATCHED", P)
    BY <1>1, <2>2, <2>3, HandlerCalls
  <2>5. PICK calls \in Calls(ofItem) : Begin(t, [atomic |-> TRUE, calls |-> calls])
    BY <2>1 DEF Handle
  <2>6. Starts(t, id, "DISPATCHED", calls)
    BY <1>1, <2>1, <2>4, <2>5 DEF Starts, Handle, Follows
  <2>7. QED
    BY <2>6
<1>3. CASE Receive(t, id)
  <2> DEFINE ofItem == [p \in P |-> ReceiveItem(transfer, p)]
  <2>1. transfer.status = "DISPATCHED" /\ Handle(t, id, "RECEIVED", Calls(ofItem))
    BY <1>3 DEF Receive
  <2>2. DOMAIN ofItem = P /\ \A p \in P : ofItem[p] = ReceiveItem(transfer, p)
    OBVIOUS
  <2> HIDE DEF ofItem
  <2>3. \A p \in P : ofItem[p] \subseteq CallsOfItems(transfer, "DISPATCHED", "RECEIVED", {p})
    BY <1>1, <2>2, ReceiveItemCalls
  <2>4. Calls(ofItem) \subseteq CallsOfItems(transfer, "DISPATCHED", "RECEIVED", P)
    BY <1>1, <2>2, <2>3, HandlerCalls
  <2>5. PICK calls \in Calls(ofItem) : Begin(t, [atomic |-> TRUE, calls |-> calls])
    BY <2>1 DEF Handle
  <2>6. Starts(t, id, "RECEIVED", calls)
    BY <1>1, <2>1, <2>4, <2>5 DEF Starts, Handle, Follows
  <2>7. QED
    BY <2>6
<1>4. CASE Cancel(t, id) /\ transfer.status = "DISPATCHED"
  <2> DEFINE ofItem == [p \in P |-> CancelItem(transfer, p)]
  <2>1. transfer.status = "DISPATCHED" /\ Handle(t, id, "CANCELLED", Calls(ofItem))
    BY <1>4 DEF Cancel
  <2>2. DOMAIN ofItem = P /\ \A p \in P : ofItem[p] = CancelItem(transfer, p)
    OBVIOUS
  <2> HIDE DEF ofItem
  <2>3. \A p \in P : ofItem[p] \subseteq CallsOfItems(transfer, "DISPATCHED", "CANCELLED", {p})
    BY <1>1, <2>2, CancelItemCalls
  <2>4. Calls(ofItem) \subseteq CallsOfItems(transfer, "DISPATCHED", "CANCELLED", P)
    BY <1>1, <2>2, <2>3, HandlerCalls
  <2>5. PICK calls \in Calls(ofItem) : Begin(t, [atomic |-> TRUE, calls |-> calls])
    BY <2>1 DEF Handle
  <2>6. Starts(t, id, "CANCELLED", calls)
    BY <1>1, <2>1, <2>4, <2>5 DEF Starts, Handle, Follows
  <2>7. QED
    BY <2>6
<1>5. CASE Cancel(t, id) /\ transfer.status # "DISPATCHED"
  <2>1. transfer.status = "REQUESTED" /\ Handle(t, id, "CANCELLED", {<<>>})
    BY <1>5 DEF Cancel
  <2> DEFINE calls == <<>>
  <2>2. calls \in CallsOfItems(transfer, "REQUESTED", "CANCELLED", {})
    BY NoItems
  <2>3. Begin(t, [atomic |-> TRUE, calls |-> calls])
    BY <2>1 DEF Handle
  <2> HIDE DEF calls
  <2>4. \A k \in Keys : /\ MovesOf(transfer, "CANCELLED", k) = 0
                        /\ ReservesOf(transfer, "REQUESTED", "CANCELLED", k) = 0
    BY DEF MovesOf, ReservesOf
  <2>5. calls \in CallsOfItems(transfer, "REQUESTED", "CANCELLED", P)
    BY <2>2, <2>4 DEF CallsOfItems
  <2>6. Starts(t, id, "CANCELLED", calls)
    BY <1>1, <2>1, <2>3, <2>5 DEF Starts, Handle, Follows
  <2>7. QED
    BY <2>6
<1>6. QED
  BY <1>2, <1>3, <1>4, <1>5

\* The calls of a handler are calls anyone may make.
LEMMA HandlerCallable ==
  ASSUME NEW transfer, NEW loaded, NEW next, NEW P,
         NEW calls \in CallsOfItems(transfer, loaded, next, P)
  PROVE  [atomic |-> TRUE, calls |-> calls] \in Callable
<1>1. calls \in Seq(LedgerCall)
  BY OfItems
<1>2. QED
  BY <1>1 DEF Callable, Program

\* The steps there are.
Acts(t) ==
  \/ \E id \in TransferIds : \E next, calls : Starts(t, id, next, calls)
  \/ SaveTransfer(t)
  \/ UNCHANGED transferVars /\ (\E program \in Programs : Begin(t, program))
  \/ UNCHANGED transferVars /\ handling[t] = None /\ Commit(t)
  \/ UNCHANGED transferVars /\ (CallStep(t) \/ Rollback(t))

\* Every step creates a transfer or is a step of one transaction.
LEMMA TransferSteps ==
  ASSUME TransfersTyped, TransfersNext
  PROVE  (\E id \in TransferIds : Create(id)) \/ (\E t \in Transactions : Acts(t))
<1>1. CASE \E id \in TransferIds : Create(id)
  BY <1>1
<1>2. CASE \E t \in Transactions : \E id \in TransferIds : Dispatch(t, id) \/ Receive(t, id) \/ Cancel(t, id)
  BY <1>2, HandlersStart DEF Acts
<1>3. CASE \E t \in Transactions : \/ SaveTransfer(t) \/ OtherCaller(t)
                                   \/ CallStep(t) /\ UNCHANGED transferVars
                                   \/ Rollback(t) /\ UNCHANGED transferVars
  BY <1>3 DEF OtherCaller, Acts
<1>4. QED
  BY <1>1, <1>2, <1>3 DEF TransfersNext

\* What acts is a transaction of the ledger.
LEMMA ActsCall ==
  ASSUME NEW t \in Transactions, Acts(t)
  PROVE  CallerStep(t)
<1>1. \A program \in Programs : program \in Callable
  BY LedgerAssumption DEF Callable
<1>2. ASSUME NEW id \in TransferIds, NEW next, NEW calls, Starts(t, id, next, calls)
      PROVE  \E program \in Callable : Begin(t, program)
  BY <1>2, HandlerCallable DEF Starts
<1>3. SaveTransfer(t) => Commit(t)
  BY DEF SaveTransfer
<1>4. QED
  BY <1>1, <1>2, <1>3 DEF Acts, CallerStep

\* For the ledger, the handlers of transfers are callers like any other.
LEMMA TransfersCall ==
  ASSUME TransfersTyped, [TransfersNext]_allVars
  PROVE  [AnyCallers]_ledgerVars
<1>1. CASE UNCHANGED allVars
  BY <1>1 DEF allVars
<1>2. CASE \E id \in TransferIds : Create(id)
  BY <1>2 DEF Create
<1>3. CASE \E t \in Transactions : Acts(t)
  BY <1>3, ActsCall DEF AnyCallers
<1>4. QED
  BY <1>1, <1>2, <1>3, TransferSteps

\* The route and the items of a transfer are written once.
SameItems(saved, transfer) ==
  saved.from = transfer.from /\ saved.to = transfer.to /\ saved.items = transfer.items

\* save(transfer) with the next status leaves a created transfer one.
LEMMA SavedTransfer ==
  ASSUME NEW transfer, Known(transfer), NEW next \in BranchTransferStatus \ {"NONE"}
  PROVE  LET saved == [transfer EXCEPT !.status = next]
         IN  Known(saved) /\ saved.status = next /\ SameItems(saved, transfer)
BY DEF Known, BranchTransfer, SameItems

\* What a handler does to the transfers.
LEMMA SaveEffect ==
  ASSUME TransfersShape, NEW t \in Transactions, SaveTransfer(t)
  PROVE  LET h == handling[t]
         IN  /\ handling' = handling /\ h # None /\ h \in Handling /\ h.transfer \in TransferIds
             /\ Follows(h.loaded, h.next) /\ Known(transfers[h.transfer])
             /\ \A id \in TransferIds :
                  /\ id # h.transfer => /\ transfers'[id] = transfers[id]
                                        /\ staleTransfer'[id] = staleTransfer[id]
                  /\ id = h.transfer =>
                       /\ Known(transfers'[id]) /\ transfers'[id].status = h.next
                       /\ SameItems(transfers'[id], transfers[id])
                       /\ staleTransfer'[id] = (staleTransfer[id] \/ transfers[id].status # h.loaded)
             /\ transfers' \in [TransferIds -> BranchTransfer \cup {NoTransfer}]
             /\ staleTransfer' \in [TransferIds -> BOOLEAN]
             /\ Commit(t) /\ Running(t)
<1> DEFINE h == handling[t]
           x == h.transfer
           saved == [transfers[x] EXCEPT !.status = h.next]
<1>1. h # None /\ handling' = handling /\ Commit(t) /\ Running(t)
  BY DEF SaveTransfer, Commit
<1>2. h \in Handling /\ x \in TransferIds /\ Follows(h.loaded, h.next) /\ Known(transfers[x])
  BY <1>1 DEF TransfersShape, TransfersTyped, HandlingKnown, Handling
<1>3. h.next \in BranchTransferStatus \ {"NONE"}
  BY <1>2 DEF Follows, BranchTransferStatus
<1>4. Known(saved) /\ saved.status = h.next /\ SameItems(saved, transfers[x])
  BY <1>2, <1>3, SavedTransfer
<1>5. /\ transfers' = [transfers EXCEPT ![x] = saved]
      /\ staleTransfer' = [staleTransfer EXCEPT ![x] = @ \/ transfers[x].status # h.loaded]
  BY DEF SaveTransfer
<1>6. /\ transfers \in [TransferIds -> BranchTransfer \cup {NoTransfer}]
      /\ staleTransfer \in [TransferIds -> BOOLEAN]
  BY DEF TransfersShape, TransfersTyped
<1>7. saved \in BranchTransfer
  BY <1>4 DEF Known
<1> HIDE DEF saved, h
<1>8. \A id \in TransferIds :
        /\ id # x => transfers'[id] = transfers[id] /\ staleTransfer'[id] = staleTransfer[id]
        /\ id = x => transfers'[id] = saved
        /\ id = x => staleTransfer'[id] = (staleTransfer[id] \/ transfers[id].status # h.loaded)
  BY <1>2, <1>5, <1>6
<1>9. /\ transfers' \in [TransferIds -> BranchTransfer \cup {NoTransfer}]
      /\ staleTransfer' \in [TransferIds -> BOOLEAN]
  BY <1>2, <1>5, <1>6, <1>7
<1>10. QED
  BY <1>1, <1>2, <1>4, <1>8, <1>9 DEF h

\* What create does: one transfer is requested, nothing else changes.
LEMMA CreateEffect ==
  ASSUME TransfersTyped, NEW id \in TransferIds, Create(id)
  PROVE  /\ transfers[id].status = "NONE"
         /\ Known(transfers'[id]) /\ transfers'[id].status = "REQUESTED"
         /\ \A x \in TransferIds \ {id} : transfers'[x] = transfers[x]
         /\ transfers' \in [TransferIds -> BranchTransfer \cup {NoTransfer}]
         /\ UNCHANGED <<ledgerVars, handling, staleTransfer>>
<1>1. PICK from \in Branches, to \in Branches, P \in SUBSET Products :
        \E items \in [P -> TransferQuantities] :
          /\ from # to
          /\ transfers' = [transfers EXCEPT ![id] =
               [status |-> "REQUESTED", from |-> from, to |-> to, items |-> items]]
  BY DEF Create
<1>2. PICK items \in [P -> TransferQuantities] :
        /\ from # to
        /\ transfers' = [transfers EXCEPT ![id] =
             [status |-> "REQUESTED", from |-> from, to |-> to, items |-> items]]
  BY <1>1
<1> DEFINE new == [status |-> "REQUESTED", from |-> from, to |-> to, items |-> items]
<1>3. items \in UNION {[Q -> TransferQuantities] : Q \in SUBSET Products}
  OBVIOUS
<1>4. Known(new) /\ new.status = "REQUESTED" /\ new \in BranchTransfer
  BY <1>2, <1>3 DEF Known, BranchTransfer, BranchTransferStatus
<1> HIDE DEF new
<1>5. transfers \in [TransferIds -> BranchTransfer \cup {NoTransfer}]
  BY DEF TransfersTyped
<1>6. /\ transfers'[id] = new
      /\ \A x \in TransferIds \ {id} : transfers'[x] = transfers[x]
      /\ transfers' \in [TransferIds -> BranchTransfer \cup {NoTransfer}]
  BY <1>2, <1>4, <1>5 DEF new
<1>7. QED
  BY <1>4, <1>6 DEF Create

\* What the start of a handler does: its transaction holds the transfer as
\* loaded and the ledger calls to make.
LEMMA StartEffect ==
  ASSUME TransfersShape, NEW t \in Transactions, NEW id \in TransferIds, NEW next, NEW calls,
         Starts(t, id, next, calls)
  PROVE  /\ transactions[t].status = "ready" /\ handling[t] = None
         /\ transactions'[t].status = "running" /\ transactions'[t].atomic
         /\ transactions'[t].calls = calls
         /\ handling'[t] \in Handling /\ handling'[t] # None
         /\ handling'[t].transfer = id /\ handling'[t].loaded = transfers[id].status
         /\ handling'[t].next = next
         /\ \A u \in Transactions \ {t} : handling'[u] = handling[u]
         /\ handling' \in [Transactions -> Handling \cup {None}]
         /\ UNCHANGED <<transfers, staleTransfer>>
<1> DEFINE h == [transfer |-> id, loaded |-> transfers[id].status, next |-> next]
           program == [atomic |-> TRUE, calls |-> calls]
<1>0. Typed
  BY DEF TransfersShape, LedgerShape, LedgerTyped, Typed, AvailabilityInvariant
<1>1. program \in Callable /\ Begin(t, program)
  BY HandlerCallable DEF Starts
<1>2. /\ transactions[t].status = "ready" /\ transactions'[t].status = "running"
      /\ transactions'[t].atomic = program.atomic /\ transactions'[t].calls = program.calls
  BY <1>0, <1>1, BeginEffect
<1>3. handling[t] = None
  BY <1>2 DEF TransfersShape, HandlingKnown
<1>4. transfers[id].status \in BranchTransferStatus /\ next \in BranchTransferStatus
  BY DEF Starts, Known, BranchTransfer, Follows, BranchTransferStatus
<1>5. h \in Handling
  BY <1>4 DEF Handling
<1>6. handling \in [Transactions -> Handling \cup {None}] /\ handling' = [handling EXCEPT ![t] = h]
  BY DEF TransfersShape, TransfersTyped, Starts
<1>7. h # None
  BY <1>5, TransfersAssumption
<1>8. /\ handling'[t] = h /\ \A u \in Transactions \ {t} : handling'[u] = handling[u]
      /\ handling' \in [Transactions -> Handling \cup {None}]
  BY <1>5, <1>6
<1>9. QED
  BY <1>2, <1>3, <1>5, <1>7, <1>8 DEF Starts

\* Who acts is one transaction, which has not ended; a transaction that handles
\* a transfer keeps on being atomic.
LEMMA ActEffect ==
  ASSUME TransfersShape, NEW t \in Transactions, Acts(t)
  PROVE  /\ OnlyOf(t) /\ transactions'[t].status # "ready"
         /\ transactions[t].status \in {"ready", "running"}
         /\ Running(t) => transactions'[t].atomic = transactions[t].atomic \/ transactions'[t].status # "running"
<1>0. Typed /\ LedgerTyped /\ Shape(t, transactions[t])
  BY DEF TransfersShape, LedgerShape, LedgerTyped, Typed, AvailabilityInvariant, Shapes
<1>1. CallerStep(t)
  BY ActsCall
<1>2. OnlyOf(t)
  BY <1>0, <1>1, StepShape
<1>3. CASE \E program \in Callable : Begin(t, program)
  BY <1>0, <1>3, BeginEffect DEF Running
<1>4. CASE ReadRow(t) \/ CheckAvailability(t) \/ SelectRow(t) \/ SumRows(t) \/ UpdateProduct(t)
           \/ UpdateRow(t) \/ SkipUpdate(t)
  <2>1. transactions[t].status = "running"
    BY <1>4, StepsRun
  <2>2. SameCaller(transactions'[t], transactions[t])
    BY <1>0, <1>4, ReadEffect, CheckEffect, SelectEffect, SumEffect, ProductEffect, UpdateEffect,
       AutocommitEffect, SkipEffect
  <2>3. QED
    BY <1>2, <2>1, <2>2 DEF SameCaller
<1>5. CASE Aborts(t) \/ Commit(t)
  <2>1. PICK status \in {"committed", "aborted"} : EndTransaction(t, status)
    BY <1>5, AbortEffect DEF Commit
  <2>2. transactions'[t].status = status /\ Running(t)
    BY <1>0, <1>5, <2>1, EndEffect, OutsideFields, StepsRun DEF Commit
  <2>3. QED
    BY <1>2, <2>2 DEF Running
<1>6. QED
  BY <1>1, <1>3, <1>4, <1>5 DEF CallerStep, CallStep, Aborts

\* Every step keeps what is known of the transfers.
LEMMA NextTransfers ==
  ASSUME TransfersShape, [TransfersNext]_allVars
  PROVE  TransfersTyped' /\ HandlingKnown'
<1>0. TransfersTyped /\ HandlingKnown
  BY DEF TransfersShape
<1>1. CASE UNCHANGED allVars
  BY <1>0, <1>1 DEF allVars, ledgerVars, transferVars, TransfersTyped, HandlingKnown, Running
<1>2. CASE \E id \in TransferIds : Create(id)
  <2>1. PICK id \in TransferIds : Create(id)
    BY <1>2
  <2>2. /\ transfers[id].status = "NONE" /\ Known(transfers'[id])
        /\ \A x \in TransferIds \ {id} : transfers'[x] = transfers[x]
        /\ transfers' \in [TransferIds -> BranchTransfer \cup {NoTransfer}]
        /\ UNCHANGED <<ledgerVars, handling, staleTransfer>>
    BY <1>0, <2>1, CreateEffect
  <2>3. TransfersTyped'
    <3>1. \A x \in TransferIds : transfers'[x].status # "NONE" => Known(transfers'[x])
      BY <1>0, <2>2 DEF TransfersTyped
    <3>2. QED
      BY <1>0, <2>2, <3>1 DEF TransfersTyped, Known
  <2>4. HandlingKnown'
    <3>1. \A x \in TransferIds : Known(transfers[x]) => Known(transfers'[x])
      BY <2>2 DEF Known
    <3>2. \A t \in Transactions : handling[t] # None => handling[t].transfer \in TransferIds
      BY <1>0 DEF TransfersTyped, Handling
    <3>3. transactions' = transactions /\ handling' = handling
      BY <2>2 DEF ledgerVars
    <3>4. QED
      BY <1>0, <3>1, <3>2, <3>3 DEF HandlingKnown, Running, Known
  <2>5. QED
    BY <2>3, <2>4
<1>3. CASE \E t \in Transactions : Acts(t)
  <2>1. PICK t \in Transactions : Acts(t)
    BY <1>3
  <2>2. /\ OnlyOf(t) /\ transactions'[t].status # "ready"
        /\ transactions[t].status \in {"ready", "running"}
        /\ Running(t) => transactions'[t].atomic = transactions[t].atomic \/ transactions'[t].status # "running"
    BY <2>1, ActEffect
  <2>3. ASSUME NEW u \in Transactions, handling'[u] = handling[u], handling[u] # None
        PROVE  /\ transactions'[u].status # "ready"
               /\ transactions'[u].status = "running" => transactions'[u].atomic
    <3>1. transactions[u].status # "ready" /\ (transactions[u].status = "running" => transactions[u].atomic)
      BY <1>0, <2>3 DEF HandlingKnown, Running
    <3>2. QED
      BY <2>2, <3>1 DEF OnlyOf, Running
  <2>4. CASE \E id \in TransferIds : \E next, calls : Starts(t, id, next, calls)
    <3>0. PICK id \in TransferIds : \E next, calls : Starts(t, id, next, calls)
      BY <2>4
    <3>1. PICK next, calls : Starts(t, id, next, calls)
      BY <3>0
    <3>2. /\ transactions'[t].status = "running" /\ transactions'[t].atomic
          /\ handling'[t].transfer = id /\ handling'[t].loaded = transfers[id].status
          /\ handling'[t].next = next
          /\ \A u \in Transactions \ {t} : handling'[u] = handling[u]
          /\ handling' \in [Transactions -> Handling \cup {None}]
          /\ UNCHANGED <<transfers, staleTransfer>>
      BY <3>1, StartEffect
    <3>3. TransfersTyped'
      BY <1>0, <3>2 DEF TransfersTyped, Known
    <3>4. \A u \in Transactions : handling'[u] # None =>
            /\ transactions'[u].status # "ready" /\ (transactions'[u].status = "running" => transactions'[u].atomic)
            /\ Follows(handling'[u].loaded, handling'[u].next)
            /\ Known(transfers[handling'[u].transfer])
      BY <1>0, <2>3, <3>1, <3>2 DEF HandlingKnown, Starts
    <3>5. HandlingKnown'
      BY <3>2, <3>4 DEF HandlingKnown, Running, Known
    <3>6. QED
      BY <3>3, <3>5
  <2>5. CASE SaveTransfer(t)
    <3>1. LET h == handling[t]
          IN  /\ handling' = handling /\ h.transfer \in TransferIds
              /\ \A id \in TransferIds :
                   /\ id # h.transfer => transfers'[id] = transfers[id]
                   /\ id = h.transfer => Known(transfers'[id])
              /\ transfers' \in [TransferIds -> BranchTransfer \cup {NoTransfer}]
              /\ staleTransfer' \in [TransferIds -> BOOLEAN]
      BY <2>5, SaveEffect
    <3>2. \A id \in TransferIds :
            /\ Known(transfers[id]) => Known(transfers'[id])
            /\ transfers'[id].status # "NONE" => Known(transfers'[id])
      BY <1>0, <3>1 DEF TransfersTyped
    <3>3. TransfersTyped'
      BY <1>0, <3>1, <3>2 DEF TransfersTyped, Known
    <3>4. \A u \in Transactions : handling[u] # None => handling[u].transfer \in TransferIds
      BY <1>0 DEF TransfersTyped, Handling
    <3>5. \A u \in Transactions : handling'[u] # None =>
            /\ transactions'[u].status # "ready" /\ (transactions'[u].status = "running" => transactions'[u].atomic)
            /\ Follows(handling'[u].loaded, handling'[u].next)
            /\ Known(transfers'[handling'[u].transfer])
      BY <1>0, <2>3, <3>1, <3>2, <3>4 DEF HandlingKnown
    <3>6. HandlingKnown'
      BY <3>5 DEF HandlingKnown, Running, Known
    <3>7. QED
      BY <3>3, <3>6
  <2>6. CASE UNCHANGED transferVars
    <3>1. UNCHANGED <<transfers, handling, staleTransfer>>
      BY <2>6 DEF transferVars
    <3>2. TransfersTyped'
      BY <1>0, <3>1 DEF TransfersTyped, Known
    <3>3. \A u \in Transactions : handling'[u] # None =>
            /\ transactions'[u].status # "ready" /\ (transactions'[u].status = "running" => transactions'[u].atomic)
            /\ Follows(handling'[u].loaded, handling'[u].next)
            /\ Known(transfers[handling'[u].transfer])
      BY <1>0, <2>3, <3>1 DEF HandlingKnown
    <3>4. HandlingKnown'
      BY <3>1, <3>3 DEF HandlingKnown, Running, Known
    <3>5. QED
      BY <3>2, <3>4
  <2>7. QED
    BY <2>1, <2>4, <2>5, <2>6 DEF Acts
<1>4. QED
  BY <1>0, <1>1, <1>2, <1>3, TransferSteps

\* Transfers, handlers and ledger have their shape at the start.
LEMMA InitTransfers == TransfersInit => TransfersShape
<1> SUFFICES ASSUME TransfersInit PROVE TransfersShape
  OBVIOUS
<1>1. LedgerShape
  BY InitShape DEF TransfersInit
<1>2. TransfersTyped
  BY DEF TransfersInit, TransfersTyped, NoTransfer
<1>3. HandlingKnown
  BY DEF TransfersInit, HandlingKnown
<1>4. QED
  BY <1>1, <1>2, <1>3 DEF TransfersShape

\* Every step keeps the shape of transfers, handlers and ledger.
LEMMA NextTransfersShape ==
  TransfersShape /\ [TransfersNext]_allVars => TransfersShape'
<1> SUFFICES ASSUME TransfersShape, [TransfersNext]_allVars PROVE TransfersShape'
  OBVIOUS
<1>1. [AnyCallers]_ledgerVars
  BY TransfersCall DEF TransfersShape
<1>2. LedgerTyped'
  BY <1>1, NextAvailability, NextType DEF TransfersShape, LedgerShape, LedgerTyped, Typed, AvailabilityInvariant
<1>3. LedgerShape'
  BY <1>1, <1>2, NextShape DEF TransfersShape
<1>4. QED
  BY <1>3, NextTransfers DEF TransfersShape

\* The transfers, their handlers and the ledger keep their shape.
LEMMA TransfersKeepShape == TransfersSpec => []TransfersShape
BY InitTransfers, NextTransfersShape, PTL DEF TransfersSpec

-----------------------------------------------------------------------------
(* What a transaction has done, and what is left of its calls               *)

\* The calls whose row is not written yet.
Remaining(q) == IF q.phase \in {"sum", "product"} THEN Tail(q.calls) ELSE q.calls

\* The calls that remain are calls of the ledger.
LEMMA RemainingType ==
  ASSUME LedgerShape, NEW t \in Transactions
  PROVE  Remaining(transactions[t]) \in Seq(LedgerCall)
<1> DEFINE q == transactions[t]
<1>1. q.calls \in Seq(LedgerCall)
  BY TransactionColumns DEF LedgerShape
<1>2. q.phase # "read" => q.calls # <<>>
  BY DEF LedgerShape, Shapes, Shape
<1> HIDE DEF q
<1>3. q.calls # <<>> => Tail(q.calls) \in Seq(LedgerCall)
  BY <1>1, RestOfCalls
<1>4. Remaining(q) \in Seq(LedgerCall)
  BY <1>1, <1>2, <1>3 DEF Remaining
<1>5. QED
  BY <1>4 DEF q

Writes(t) == UpdateRow(t) \/ SkipUpdate(t)

\* A call that goes on leaves one call less to be written, or as many.
LEMMA RemainingStep ==
  ASSUME LedgerShape, NEW t \in Transactions, CallStep(t), ~Aborts(t)
  PROVE  LET q == transactions[t]  n == transactions'[t]
         IN  /\ Running(t) /\ q.calls # <<>> /\ n.status = "running"
             /\ Writes(t) \/ CheckAvailability(t) =>
                  /\ Remaining(q) = q.calls /\ Remaining(n) = Tail(q.calls)
                  /\ Head(q.calls) = Current(t)
             /\ ~Writes(t) /\ ~CheckAvailability(t) =>
                  Remaining(n) = Remaining(q) /\ n.rows = q.rows
             /\ ~Writes(t) => n.posted = q.posted
             /\ Writes(t) /\ q.atomic => n.posted = q.posted \cup Posted(t)
<1> DEFINE q == transactions[t]
           n == transactions'[t]
<1>0. Typed
  BY DEF LedgerShape, LedgerTyped, Typed, AvailabilityInvariant
<1>1. Running(t) /\ q.calls # <<>> /\ q.status = "running"
  BY StepsRun DEF CallStep, Aborts
<1>2. Current(t) = Head(q.calls)
  BY DEF Current
<1>3. CASE ReadRow(t) \/ SelectRow(t) \/ SumRows(t)
  <2>1. /\ ReadRow(t) => q.phase = "read"
        /\ SelectRow(t) => q.phase = "select"
        /\ SumRows(t) => q.phase = "sum"
    BY StepsRun
  <2>2. /\ SameCaller(n, q) /\ n.calls = q.calls /\ SameWrites(n, q)
        /\ ReadRow(t) => n.phase = "select"
        /\ SelectRow(t) => n.phase = "update"
        /\ SumRows(t) => n.phase = "product"
    BY <1>0, <1>3, ReadEffect, SelectEffect, SumEffect
  <2>3. ~Writes(t) /\ ~CheckAvailability(t)
    <3>1. UpdateRow(t) \/ SkipUpdate(t) => q.phase = "update"
      BY StepsRun
    <3>2. CheckAvailability(t) => q.phase = "read" /\ Current(t).column = "availableToSell"
      BY StepsRun DEF CheckAvailability
    <3>3. ReadRow(t) => Current(t).column # "availableToSell"
      BY DEF ReadRow
    <3>4. QED
      BY <1>3, <2>1, <3>1, <3>2, <3>3 DEF Writes
  <2> HIDE DEF q, n
  <2>4. Remaining(n) = Remaining(q)
    BY <1>3, <2>1, <2>2 DEF Remaining
  <2>5. QED
    BY <1>1, <1>3, <2>2, <2>3, <2>4 DEF SameWrites, SameCaller, q, n
<1>4. CASE UpdateProduct(t)
  <2>1. q.phase = "product" /\ (UpdateRow(t) \/ SkipUpdate(t) => q.phase = "update")
        /\ (CheckAvailability(t) => q.phase = "read")
    BY <1>4, StepsRun
  <2>2. SameCaller(n, q) /\ n.calls = Tail(q.calls) /\ n.phase = "read" /\ n.posted = q.posted /\ n.rows = q.rows
    BY <1>0, <1>4, ProductEffect
  <2> HIDE DEF q, n
  <2>3. Remaining(n) = Remaining(q)
    BY <2>1, <2>2 DEF Remaining
  <2>4. QED
    BY <1>1, <2>1, <2>2, <2>3 DEF SameCaller, Writes, q, n
<1>5. CASE CheckAvailability(t)
  <2>1. q.phase = "read" /\ (UpdateRow(t) \/ SkipUpdate(t) => q.phase = "update")
    BY <1>5, StepsRun
  <2>2. SameCaller(n, q) /\ n.calls = Tail(q.calls) /\ n.phase = q.phase /\ SameWrites(n, q)
    BY <1>0, <1>5, CheckEffect
  <2> HIDE DEF q, n
  <2>3. Remaining(q) = q.calls /\ Remaining(n) = Tail(q.calls)
    BY <2>1, <2>2 DEF Remaining
  <2>4. QED
    BY <1>1, <1>2, <1>5, <2>1, <2>2, <2>3 DEF SameCaller, SameWrites, Writes, q, n
<1>6. CASE UpdateRow(t) \/ SkipUpdate(t)
  <2>1. q.phase = "update" /\ (CheckAvailability(t) => q.phase = "read")
    BY <1>6, StepsRun
  <2>2. /\ SameCaller(n, q) /\ n.calls = q.calls /\ n.phase = "sum"
        /\ q.atomic => n.posted = q.posted \cup Posted(t)
    BY <1>0, <1>6, UpdateEffect, AutocommitEffect, SkipEffect
  <2> HIDE DEF q, n
  <2>3. Remaining(q) = q.calls /\ Remaining(n) = Tail(q.calls)
    BY <2>1, <2>2 DEF Remaining
  <2>4. QED
    BY <1>1, <1>2, <1>6, <2>1, <2>2, <2>3 DEF SameCaller, Writes, q, n
<1>7. QED
  BY <1>3, <1>4, <1>5, <1>6 DEF CallStep, Aborts

PostedIn(E, R) == {e \in E : e.row \in R}

\* What a transaction has posted and will post on the rows R.
MovesInAll(q, R) == DeltaSum(PostedIn(q.posted, R)) + CallSum(Remaining(q), "quantityOnHand", R)

\* A call posts what it moves.
LEMMA PostedWeight ==
  ASSUME LedgerShape, NEW t \in Transactions, Writes(t), NEW R
  PROVE  LET q == transactions[t]
         IN  DeltaSum(PostedIn(q.posted \cup Posted(t), R))
               = DeltaSum(PostedIn(q.posted, R)) + Weight(Current(t), "quantityOnHand", R)
<1> DEFINE q == transactions[t]
           old == PostedIn(q.posted, R)
           call == Current(t)
           weight == Weight(call, "quantityOnHand", R)
<1>1. /\ Posted(t) \subseteq StockMovement /\ Posted(t) \cap q.posted = {}
      /\ \A e \in Posted(t) : e.row = call.row
      /\ \/ Posted(t) = {} /\ DeltaOf(call) = 0
         \/ \E e \in StockMovement : Posted(t) = {e} /\ DeltaOf(call) = e.delta
  BY PostedMoves DEF Writes
<1>2. q.posted \subseteq StockMovement /\ IsFiniteSet(q.posted)
  BY TransactionColumns DEF LedgerShape, Finite
<1>3. old \subseteq q.posted
  BY DEF PostedIn
<1>4. old \subseteq StockMovement /\ IsFiniteSet(old)
  BY <1>2, <1>3, FS_Subset
<1>5. DeltaSum(old) \in Int
  BY <1>4, DeltaSums
<1>6. weight = IF call.row \in R THEN DeltaOf(call) ELSE 0
  BY DEF Weight, DeltaOf
<1>7. PostedIn(q.posted \cup Posted(t), R) = old \cup PostedIn(Posted(t), R)
  BY DEF PostedIn
<1> HIDE DEF old, q, weight, call
<1>8. CASE Posted(t) = {} /\ DeltaOf(call) = 0
  <2>1. PostedIn(Posted(t), R) = {}
    BY <1>8 DEF PostedIn
  <2>2. old \cup PostedIn(Posted(t), R) = old /\ weight = 0
    BY <1>6, <1>8, <2>1
  <2>3. PostedIn(q.posted \cup Posted(t), R) = old
    BY <1>7, <2>2
  <2>4. DeltaSum(PostedIn(q.posted \cup Posted(t), R)) = DeltaSum(old) + weight
    BY <1>5, <2>2, <2>3
  <2>5. QED
    BY <2>4 DEF old, q, weight, call
<1>9. CASE \E e \in StockMovement : Posted(t) = {e} /\ DeltaOf(call) = e.delta
  <2>1. PICK e \in StockMovement : Posted(t) = {e} /\ DeltaOf(call) = e.delta
    BY <1>9
  <2>2. e.row = call.row /\ e \notin old
    BY <1>1, <1>3, <2>1
  <2>3. CASE call.row \in R
    <3>1. PostedIn(Posted(t), R) = {e} /\ weight = e.delta
      BY <1>6, <2>1, <2>2, <2>3 DEF PostedIn
    <3>2. DeltaSum(old \cup {e}) = DeltaSum(old) + e.delta
      BY <1>4, <2>2, DeltaSumAdd
    <3>3. QED
      BY <1>7, <3>1, <3>2 DEF old, q, weight, call
  <2>4. CASE call.row \notin R
    <3>1. PostedIn(Posted(t), R) = {} /\ weight = 0
      BY <1>6, <2>1, <2>2, <2>4 DEF PostedIn
    <3>2. old \cup PostedIn(Posted(t), R) = old
      BY <3>1
    <3>3. QED
      BY <1>5, <1>7, <3>1, <3>2 DEF old, q, weight, call
  <2>5. QED
    BY <2>3, <2>4
<1>10. QED
  BY <1>1, <1>8, <1>9 DEF call

\* So the sum of both does not change.
LEMMA MovesStay ==
  ASSUME LedgerShape, NEW t \in Transactions, CallStep(t), ~Aborts(t), transactions[t].atomic,
         NEW R
  PROVE  MovesInAll(transactions'[t], R) = MovesInAll(transactions[t], R)
<1> DEFINE q == transactions[t]
           n == transactions'[t]
           posted == DeltaSum(PostedIn(q.posted, R))
           Sum(calls) == CallSum(calls, "quantityOnHand", R)
<1>1. /\ q.calls # <<>>
      /\ Writes(t) \/ CheckAvailability(t) =>
           Remaining(q) = q.calls /\ Remaining(n) = Tail(q.calls) /\ Head(q.calls) = Current(t)
      /\ ~Writes(t) /\ ~CheckAvailability(t) => Remaining(n) = Remaining(q)
      /\ ~Writes(t) => n.posted = q.posted
      /\ Writes(t) => n.posted = q.posted \cup Posted(t)
  BY RemainingStep
<1>2. q.calls \in Seq(LedgerCall)
  BY TransactionColumns DEF LedgerShape
<1>3. /\ Sum(q.calls) = Weight(Head(q.calls), "quantityOnHand", R) + Sum(Tail(q.calls))
      /\ Head(q.calls) \in LedgerCall /\ Tail(q.calls) \in Seq(LedgerCall)
  BY <1>1, <1>2, CallSumTail
<1>4. Sum(Tail(q.calls)) \in Int /\ Weight(Head(q.calls), "quantityOnHand", R) \in Int
  <2>1. Sum(Tail(q.calls)) \in Int
    BY <1>3, CallSumType
  <2>2. Weight(Head(q.calls), "quantityOnHand", R) \in Int
    BY <1>3 DEF Weight, LedgerCall
  <2>3. QED
    BY <2>1, <2>2
<1>5. posted \in Int
  <2>1. q.posted \subseteq StockMovement /\ IsFiniteSet(q.posted) /\ PostedIn(q.posted, R) \subseteq q.posted
    BY TransactionColumns DEF LedgerShape, Finite, PostedIn
  <2>2. QED
    BY <2>1, DeltaSums, FS_Subset
<1>6. CASE Writes(t)
  <2>1. DeltaSum(PostedIn(q.posted \cup Posted(t), R)) = posted + Weight(Current(t), "quantityOnHand", R)
    BY <1>6, PostedWeight
  <2> DEFINE weight == Weight(Current(t), "quantityOnHand", R)
             left == Sum(Tail(q.calls))
  <2>a. /\ DeltaSum(PostedIn(n.posted, R)) = posted + weight
        /\ Sum(Remaining(q)) = weight + left /\ Sum(Remaining(n)) = left
        /\ weight \in Int /\ left \in Int
    BY <1>1, <1>3, <1>4, <1>6, <2>1
  <2> HIDE DEF posted, Sum, weight, left
  <2>2. DeltaSum(PostedIn(n.posted, R)) + Sum(Remaining(n)) = posted + Sum(Remaining(q))
    BY <1>5, <2>a
  <2>3. QED
    BY <2>2 DEF MovesInAll, posted, Sum
<1>7. CASE CheckAvailability(t) /\ ~Writes(t)
  <2>1. Weight(Current(t), "quantityOnHand", R) = 0
    BY <1>7 DEF CheckAvailability, Weight
  <2> HIDE DEF posted, Sum
  <2>2. DeltaSum(PostedIn(n.posted, R)) = posted /\ Sum(Remaining(n)) = Sum(Remaining(q))
    BY <1>1, <1>3, <1>4, <1>7, <2>1 DEF posted
  <2>3. QED
    BY <2>2 DEF MovesInAll, posted, Sum
<1>8. CASE ~CheckAvailability(t) /\ ~Writes(t)
  BY <1>1, <1>8 DEF MovesInAll
<1>9. QED
  BY <1>6, <1>7, <1>8

\* The movements a transaction has committed on the rows R.
DoneSet(t, R) == {e \in stockMovements : e.transaction = t /\ e.row \in R}

\* A transaction moves v on the rows R, once it is committed.
Expected(t, R, v) ==
  /\ Running(t) => MovesInAll(transactions[t], R) = v
  /\ transactions[t].status = "committed" => DeltaSum(DoneSet(t, R)) = v

\* It goes on doing so, whoever makes a step.
LEMMA ExpectedStays ==
  ASSUME TransfersShape, NEW u \in Transactions, Acts(u),
         NEW t \in Transactions, transactions[t].status # "ready",
         Running(t) => transactions[t].atomic, NEW R, NEW v, Expected(t, R, v)
  PROVE  Expected(t, R, v)'
<1>0. LedgerShape /\ Typed /\ LedgerTyped /\ Shape(u, transactions[u])
  BY DEF TransfersShape, LedgerShape, LedgerTyped, Typed, AvailabilityInvariant, Shapes
<1>1. OnlyOf(u) /\ CallerStep(u) /\ transactions[u].status \in {"ready", "running"}
  BY ActEffect, ActsCall
<1>2. stockMovements' = stockMovements \/ (Commit(u) /\ stockMovements' = stockMovements \cup transactions[u].posted)
  BY <1>0, <1>1, StepWrites DEF Commit
<1>3. \A e \in transactions[u].posted : e.transaction = u
  BY <1>0 DEF Shape
<1>4. CASE u # t
  <2>1. transactions'[t] = transactions[t]
    BY <1>1, <1>4 DEF OnlyOf
  <2>2. DoneSet(t, R)' = DoneSet(t, R)
    BY <1>2, <1>3, <1>4 DEF DoneSet
  <2>3. DeltaSum(DoneSet(t, R))' = DeltaSum(DoneSet(t, R))
    BY <2>2 DEF DeltaSum, SumOver
  <2>4. MovesInAll(transactions[t], R)' = MovesInAll(transactions[t], R)
    BY <2>1 DEF MovesInAll, DeltaSum, SumOver, PostedIn, Remaining, CallSum, Weights, Weight
  <2>5. QED
    BY <2>1, <2>3, <2>4 DEF Expected, Running
<1>5. CASE u = t /\ CallStep(t) /\ ~Aborts(t)
  <2>1. Running(t) /\ transactions'[t].status = "running"
    BY <1>0, <1>5, RemainingStep
  <2>2. MovesInAll(transactions'[t], R) = MovesInAll(transactions[t], R)
    BY <1>0, <1>5, <2>1, MovesStay
  <2>3. MovesInAll(transactions[t], R)' = MovesInAll(transactions'[t], R)
    BY DEF MovesInAll, DeltaSum, SumOver, PostedIn, Remaining, CallSum, Weights, Weight
  <2>4. QED
    BY <2>1, <2>2, <2>3 DEF Expected, Running
<1>6. CASE u = t /\ Aborts(t)
  <2>1. transactions'[t].status = "aborted"
    BY <1>0, <1>6, AbortEffect, EndEffect, OutsideFields
  <2>2. QED
    BY <2>1 DEF Expected, Running
<1>7. CASE u = t /\ Commit(t)
  <2>1. transactions'[t].status = "committed" /\ Running(t) /\ transactions[t].calls = <<>>
    BY <1>0, <1>7, EndEffect, OutsideFields DEF Commit, Done
  <2>2. stockMovements' = stockMovements \cup transactions[t].posted
    BY <1>7 DEF Commit
  <2>3. \A e \in stockMovements : e.transaction # t
    BY <1>0, <2>1 DEF LedgerShape, MovementsCommitted, Running
  <2>4. DoneSet(t, R)' = PostedIn(transactions[t].posted, R)
    BY <1>3, <1>7, <2>2, <2>3 DEF DoneSet, PostedIn
  <2>5. DeltaSum(DoneSet(t, R))' = DeltaSum(PostedIn(transactions[t].posted, R))
    BY <2>4 DEF DeltaSum, SumOver
  <2>6. Remaining(transactions[t]) = <<>>
    <3>1. transactions[t].phase = "read"
      BY <1>0, <1>7, <2>1, TransactionColumns DEF Shape
    <3>2. QED
      BY <2>1, <3>1 DEF Remaining
  <2>7. CallSum(Remaining(transactions[t]), "quantityOnHand", R) = 0
    BY <2>6, CallSumEmpty
  <2>8. DeltaSum(PostedIn(transactions[t].posted, R)) \in Int
    <3>1. /\ transactions[t].posted \subseteq StockMovement /\ IsFiniteSet(transactions[t].posted)
          /\ PostedIn(transactions[t].posted, R) \subseteq transactions[t].posted
      BY <1>0, TransactionColumns DEF LedgerShape, Finite, PostedIn
    <3>2. QED
      BY <3>1, DeltaSums, FS_Subset
  <2>9. DeltaSum(PostedIn(transactions[t].posted, R)) = v
    BY <2>1, <2>7, <2>8 DEF Expected, MovesInAll
  <2>10. QED
    BY <2>1, <2>5, <2>9 DEF Expected, Running
<1>8. CASE u = t /\ \E program \in Callable : Begin(t, program)
  BY <1>8 DEF Begin
<1>9. QED
  BY <1>1, <1>4, <1>5, <1>6, <1>7, <1>8 DEF CallerStep, Aborts

\* A handler moves what its transfer moves in the step it makes.
HandlerMoves(t) ==
  LET h == handling[t]
  IN  /\ \A k \in Keys : Expected(t, {k}, MovesOf(transfers[h.transfer], h.next, k))
      /\ \A p \in Products : Expected(t, ProductRows(p), 0)

HandlersMove == \A t \in Transactions : handling[t] # None => HandlerMoves(t)

\* At its beginning.
LEMMA StartMoves ==
  ASSUME TransfersShape, NEW t \in Transactions, NEW id \in TransferIds, NEW next, NEW calls,
         Starts(t, id, next, calls)
  PROVE  HandlerMoves(t)'
<1> DEFINE n == transactions'[t]
<1>0. Typed /\ LedgerTyped /\ Shape(t, transactions[t])
  BY DEF TransfersShape, LedgerShape, LedgerTyped, Typed, AvailabilityInvariant, Shapes
<1>1. /\ transactions[t].status = "ready" /\ n.status = "running" /\ n.calls = calls
      /\ handling'[t].transfer = id /\ handling'[t].next = next /\ transfers' = transfers
  BY StartEffect
<1>2. n.phase = "read" /\ n.posted = {}
  <2>1. PICK program \in Callable : Begin(t, program)
    BY HandlerCallable DEF Starts
  <2>2. n.phase = transactions[t].phase /\ n.posted = transactions[t].posted
    BY <1>0, <2>1, BeginEffect DEF SameWrites
  <2>3. transactions[t] = Outside("ready")
    BY <1>0, <1>1 DEF Shape
  <2>4. QED
    BY <2>2, <2>3, OutsideFields
<1> HIDE DEF n
<1>3. calls \in CallsOfItems(transfers[id], transfers[id].status, next, DOMAIN transfers[id].items)
  BY DEF Starts
<1>4. ASSUME NEW R, NEW v, CallSum(calls, "quantityOnHand", R) = v
      PROVE  Expected(t, R, v)'
  <2>1. PostedIn(n.posted, R) = {} /\ Remaining(n) = calls
    BY <1>1, <1>2 DEF PostedIn, Remaining
  <2>2. DeltaSum({}) = 0
    BY FS_EmptySet, DeltaSums
  <2>3. calls \in Seq(LedgerCall)
    BY <1>3, OfItems
  <2>4. CallSum(calls, "quantityOnHand", R) \in Int
    BY <2>3, CallSumType
  <2>5. MovesInAll(n, R) = v
    BY <1>4, <2>1, <2>2, <2>4 DEF MovesInAll
  <2>6. MovesInAll(transactions[t], R)' = MovesInAll(n, R)
    BY DEF MovesInAll, DeltaSum, SumOver, PostedIn, Remaining, CallSum, Weights, Weight, n
  <2>7. QED
    BY <1>1, <2>5, <2>6 DEF Expected, Running, n
<1>5. ASSUME NEW k \in Keys PROVE Expected(t, {k}, MovesOf(transfers[id], next, k))'
  <2>1. CallSum(calls, "quantityOnHand", {k})
          = IF k[2] \in DOMAIN transfers[id].items THEN MovesOf(transfers[id], next, k) ELSE 0
    BY <1>3, OfItems
  <2>2. k[2] \notin DOMAIN transfers[id].items => MovesOf(transfers[id], next, k) = 0
    BY DEF MovesOf
  <2>3. CallSum(calls, "quantityOnHand", {k}) = MovesOf(transfers'[id], next, k)
    BY <1>1, <2>1, <2>2
  <2>4. QED
    BY <1>4, <2>3
<1>6. ASSUME NEW p \in Products PROVE Expected(t, ProductRows(p), 0)'
  BY <1>3, <1>4, OfItems
<1>7. QED
  BY <1>1, <1>5, <1>6 DEF HandlerMoves

\* Only the status of a transfer that has been created changes.
LEMMA ItemsStay ==
  ASSUME TransfersShape, [TransfersNext]_allVars, NEW id \in TransferIds, Known(transfers[id])
  PROVE  SameItems(transfers'[id], transfers[id])
<1>0. TransfersTyped
  BY DEF TransfersShape
<1>1. CASE UNCHANGED transfers
  BY <1>1 DEF SameItems
<1>2. ASSUME NEW x \in TransferIds, Create(x) PROVE SameItems(transfers'[id], transfers[id])
  <2>1. transfers'[id] = transfers[id]
    BY <1>0, <1>2, CreateEffect DEF Known
  <2>2. QED
    BY <2>1 DEF SameItems
<1>3. ASSUME NEW t \in Transactions, SaveTransfer(t) PROVE SameItems(transfers'[id], transfers[id])
  BY <1>3, SaveEffect DEF SameItems
<1>4. ASSUME NEW t \in Transactions, Acts(t) PROVE SameItems(transfers'[id], transfers[id])
  BY <1>1, <1>3, <1>4 DEF Acts, Starts, transferVars
<1>5. QED
  BY <1>0, <1>1, <1>2, <1>4, TransferSteps DEF allVars, transferVars

\* A handler moves the same units whatever the status of its transfer.
LEMMA SameAmounts ==
  ASSUME NEW transfer, NEW saved, SameItems(saved, transfer), NEW loaded, NEW next, NEW k
  PROVE  /\ MovesOf(saved, next, k) = MovesOf(transfer, next, k)
         /\ ReservesOf(saved, loaded, next, k) = ReservesOf(transfer, loaded, next, k)
BY DEF SameItems, MovesOf, ReservesOf

\* Whoever handles a transfer goes on doing so, until the end of time.
LEMMA HandlingStays ==
  ASSUME TransfersShape, [TransfersNext]_allVars
  PROVE  \/ handling' = handling
         \/ \E t \in Transactions : Acts(t) /\ \E id \in TransferIds : \E next, calls : Starts(t, id, next, calls)
<1>1. ASSUME NEW t \in Transactions, Acts(t)
      PROVE  handling' = handling \/ \E id \in TransferIds : \E next, calls : Starts(t, id, next, calls)
  BY <1>1 DEF Acts, SaveTransfer, transferVars
<1>2. ASSUME NEW id \in TransferIds, Create(id) PROVE handling' = handling
  BY <1>2 DEF Create
<1>3. QED
  BY <1>1, <1>2, TransferSteps DEF TransfersShape, allVars, transferVars

\* What is expected of a handler stays so.
LEMMA MovesStayExpected ==
  ASSUME TransfersShape, [TransfersNext]_allVars, NEW t \in Transactions,
         handling[t] # None, handling'[t] = handling[t], HandlerMoves(t)
  PROVE  HandlerMoves(t)'
<1>0. /\ transactions[t].status # "ready" /\ (Running(t) => transactions[t].atomic)
      /\ handling[t].transfer \in TransferIds /\ Known(transfers[handling[t].transfer])
  BY DEF TransfersShape, HandlingKnown, TransfersTyped, Handling
<1>1. ASSUME NEW R, NEW v, Expected(t, R, v) PROVE Expected(t, R, v)'
  <2>1. CASE \E u \in Transactions : Acts(u)
    BY <1>0, <1>1, <2>1, ExpectedStays
  <2>2. CASE UNCHANGED ledgerVars
    <3>1. transactions' = transactions /\ stockMovements' = stockMovements
      BY <2>2 DEF ledgerVars, ledgerTables
    <3>2. MovesInAll(transactions[t], R)' = MovesInAll(transactions[t], R)
      BY <3>1 DEF MovesInAll, DeltaSum, SumOver, PostedIn, Remaining, CallSum, Weights, Weight
    <3>3. DeltaSum(DoneSet(t, R))' = DeltaSum(DoneSet(t, R))
      BY <3>1 DEF DoneSet, DeltaSum, SumOver
    <3>4. QED
      BY <1>1, <3>1, <3>2, <3>3 DEF Expected, Running
  <2>3. (\E id \in TransferIds : Create(id)) => UNCHANGED ledgerVars
    BY DEF Create
  <2>4. QED
    BY <2>1, <2>2, <2>3, TransferSteps DEF TransfersShape, allVars
<1> DEFINE id == handling[t].transfer
           next == handling[t].next
<1>2. SameItems(transfers'[id], transfers[id])
  BY <1>0, ItemsStay
<1>3. ASSUME NEW k \in Keys PROVE Expected(t, {k}, MovesOf(transfers[id], next, k))'
  <2>1. Expected(t, {k}, MovesOf(transfers[id], next, k))
    BY DEF HandlerMoves
  <2>2. PICK v : v = MovesOf(transfers[id], next, k)
    OBVIOUS
  <2>3. Expected(t, {k}, v)'
    BY <1>1, <2>1, <2>2
  <2>4. MovesOf(transfers'[id], next, k) = v
    BY <1>2, <2>2, SameAmounts
  <2>5. QED
    BY <2>3, <2>4
<1>4. \A p \in Products : Expected(t, ProductRows(p), 0)'
  BY <1>1 DEF HandlerMoves
<1>5. QED
  BY <1>3, <1>4 DEF HandlerMoves

\* Every step keeps what handlers have moved and are to move.
LEMMA NextHandlersMove ==
  TransfersShape /\ HandlersMove /\ [TransfersNext]_allVars => HandlersMove'
<1> SUFFICES ASSUME TransfersShape, HandlersMove, [TransfersNext]_allVars PROVE HandlersMove'
  OBVIOUS
<1>1. ASSUME NEW t \in Transactions, handling'[t] # None PROVE HandlerMoves(t)'
  <2>1. CASE handling[t] # None /\ handling'[t] = handling[t]
    BY <2>1, MovesStayExpected DEF HandlersMove
  <2>2. CASE handling[t] = None \/ handling'[t] # handling[t]
    <3>0. PICK u \in Transactions, id \in TransferIds : \E next, calls : Starts(u, id, next, calls)
      BY <1>1, <2>2, HandlingStays
    <3>1. PICK next, calls : Starts(u, id, next, calls)
      BY <3>0
    <3>2. u = t
      BY <1>1, <2>2, <3>1, StartEffect
    <3>3. QED
      BY <3>1, <3>2, StartMoves
  <2>3. QED
    BY <2>1, <2>2
<1>2. QED
  BY <1>1 DEF HandlersMove

\* When a handler commits, its movements are those it is expected to make.
LEMMA CommittedMoves ==
  ASSUME HandlersMove, NEW t \in Transactions, handling[t] # None,
         transactions[t].status = "committed"
  PROVE  LET h == handling[t]
         IN  /\ \A k \in Keys :
                  DeltaSum(DoneSet(t, {k})) = MovesOf(transfers[h.transfer], h.next, k)
             /\ \A p \in Products : DeltaSum(DoneSet(t, ProductRows(p))) = 0
BY DEF HandlersMove, HandlerMoves, Expected

-----------------------------------------------------------------------------
(* Units are moved by receipts, from one branch to another                  *)

\* A transaction that does not commit is not committed.
LEMMA OnlyCommits ==
  ASSUME TransfersShape, NEW t \in Transactions, Acts(t), ~Commit(t)
  PROVE  transactions'[t].status # "committed" /\ stockMovements' = stockMovements
<1>0. LedgerShape /\ Typed /\ LedgerTyped /\ Shape(t, transactions[t]) /\ CallerStep(t)
  BY ActsCall DEF TransfersShape, LedgerShape, LedgerTyped, Typed, AvailabilityInvariant, Shapes
<1>1. stockMovements' = stockMovements
  BY <1>0, StepWrites
<1>2. CASE \E program \in Callable : Begin(t, program)
  BY <1>0, <1>1, <1>2, BeginEffect
<1>3. CASE CallStep(t) /\ ~Aborts(t)
  BY <1>0, <1>1, <1>3, RemainingStep
<1>4. CASE Aborts(t)
  BY <1>0, <1>1, <1>4, AbortEffect, EndEffect, OutsideFields
<1>5. QED
  BY <1>0, <1>2, <1>3, <1>4 DEF CallerStep, Aborts

\* A commit adds the movements of one transaction, which had none in the table.
LEMMA CommitAdds ==
  ASSUME TransfersShape, NEW t \in Transactions, Commit(t)
  PROVE  /\ transactions'[t].status = "committed"
         /\ \A e \in stockMovements : e.transaction # t
         /\ stockMovements \subseteq stockMovements'
         /\ \A e \in stockMovements' \ stockMovements : e.transaction = t
<1>0. LedgerShape /\ Typed /\ Shape(t, transactions[t])
  BY DEF TransfersShape, LedgerShape, LedgerTyped, Typed, AvailabilityInvariant, Shapes
<1>1. Running(t) /\ transactions'[t].status = "committed"
  BY <1>0, EndEffect, OutsideFields DEF Commit
<1>2. \A e \in stockMovements : e.transaction # t
  BY <1>0, <1>1 DEF LedgerShape, MovementsCommitted, Running
<1>3. \A e \in transactions[t].posted : e.transaction = t
  BY <1>0 DEF Shape
<1>4. stockMovements' = stockMovements \cup transactions[t].posted
  BY DEF Commit
<1>5. QED
  BY <1>1, <1>2, <1>3, <1>4

\* The movements that transfers have made of a product.
Transferred(p) == {e \in stockMovements : e.row[2] = p /\ handling[e.transaction] # None}

\* stock_movements holds finitely many rows, of committed transactions only.
LEMMA MovementsTyped ==
  ASSUME TransfersShape
  PROVE  /\ stockMovements \subseteq StockMovement /\ IsFiniteSet(stockMovements)
         /\ \A e \in stockMovements : e.transaction \in Transactions /\ e.row \in Keys
         /\ \A e \in stockMovements : transactions[e.transaction].status = "committed"
BY DEF TransfersShape, LedgerShape, LedgerTyped, LedgerTypeOK, Finite, MovementsCommitted, StockMovement

\* A commit adds movements that cancel out, or none of a transfer.
LEMMA NextConserves ==
  TransfersShape /\ TransfersShape' /\ HandlersMove' /\ TransfersConserveUnits
    /\ [TransfersNext]_allVars => TransfersConserveUnits'
<1> SUFFICES ASSUME TransfersShape, TransfersShape', HandlersMove', TransfersConserveUnits,
                    [TransfersNext]_allVars, NEW p \in Products
             PROVE  DeltaSum(Transferred(p))' = 0
  BY DEF TransfersConserveUnits, DeltaSum, Transferred
<1>0. DeltaSum(Transferred(p)) = 0
  BY DEF TransfersConserveUnits, DeltaSum, Transferred
<1>1. ASSUME stockMovements' = stockMovements,
             \A e \in stockMovements : handling'[e.transaction] = handling[e.transaction]
      PROVE  DeltaSum(Transferred(p))' = 0
  <2>1. Transferred(p)' = Transferred(p)
    BY <1>1 DEF Transferred
  <2>2. DeltaSum(Transferred(p))' = DeltaSum(Transferred(p))
    BY <2>1 DEF DeltaSum, SumOver
  <2>3. QED
    BY <1>0, <2>2
<1>2. ASSUME NEW t \in Transactions, Commit(t), handling' = handling
      PROVE  DeltaSum(Transferred(p))' = 0
  <2> DEFINE old == Transferred(p)
             new == DoneSet(t, ProductRows(p))'
  <2>1. /\ transactions'[t].status = "committed"
        /\ \A e \in stockMovements : e.transaction # t
        /\ stockMovements \subseteq stockMovements'
        /\ \A e \in stockMovements' \ stockMovements : e.transaction = t
    BY <1>2, CommitAdds
  <2>2. \A e \in stockMovements' : e.row \in Keys
    BY DEF TransfersShape, LedgerShape, LedgerTyped, LedgerTypeOK, Finite, StockMovement
  <2>3. CASE handling[t] = None
    <3>1. Transferred(p)' = old
      BY <1>2, <2>1, <2>3 DEF Transferred
    <3>2. DeltaSum(Transferred(p))' = DeltaSum(old)
      BY <3>1 DEF DeltaSum, SumOver
    <3>3. QED
      BY <1>0, <3>2
  <2>4. CASE handling[t] # None
    <3>1. \A k \in Keys : k[2] = p <=> k \in ProductRows(p)
      BY DEF ProductRows
    <3>2. new = {e \in stockMovements' : e.transaction = t /\ e.row \in ProductRows(p)}
      BY DEF DoneSet, ProductRows
    <3>3. Transferred(p)' = {e \in stockMovements' : e.row[2] = p /\ handling[e.transaction] # None}
      BY <1>2 DEF Transferred
    <3> HIDE DEF new
    <3>4. Transferred(p)' = old \cup new /\ old \cap new = {}
      <4>1. \A e \in stockMovements' : e.row[2] = p <=> e.row \in ProductRows(p)
        BY <2>2, <3>1
      <4>2. \A e \in stockMovements' : e \in new <=> e \notin stockMovements /\ e.row[2] = p
        BY <2>1, <3>2, <4>1
      <4>3. \A e \in stockMovements' : e \in stockMovements => (e \in old <=> e \in Transferred(p)')
        BY <3>3 DEF Transferred
      <4>4. \A e \in stockMovements' : e \notin stockMovements => (e \in new <=> e \in Transferred(p)')
        BY <2>1, <2>4, <3>3, <4>2
      <4>5. old \subseteq stockMovements /\ new \subseteq stockMovements' /\ Transferred(p)' \subseteq stockMovements'
        BY <3>2, <3>3 DEF Transferred
      <4> HIDE DEF old
      <4>6. QED
        BY <2>1, <4>2, <4>3, <4>4, <4>5
    <3>5. /\ IsFiniteSet(stockMovements') /\ stockMovements' \subseteq StockMovement
      BY DEF TransfersShape, LedgerShape, LedgerTyped, LedgerTypeOK, Finite
    <3>6. /\ old \subseteq stockMovements' /\ new \subseteq stockMovements'
      BY <2>1, <3>2 DEF Transferred
    <3>7. IsFiniteSet(old) /\ IsFiniteSet(new) /\ old \subseteq StockMovement /\ new \subseteq StockMovement
      BY <3>5, <3>6, FS_Subset
    <3>8. DeltaSum(new) = 0
      <4>1. DeltaSum(DoneSet(t, ProductRows(p)))' = 0
        BY <1>2, <2>1, <2>4 DEF HandlersMove, HandlerMoves, Expected
      <4>2. DeltaSum(DoneSet(t, ProductRows(p)))' = DeltaSum(new)
        BY DEF DeltaSum, SumOver, new
      <4>3. QED
        BY <4>1, <4>2
    <3> HIDE DEF old
    <3>9. DeltaSum(old \cup new) = 0
      <4>1. DeltaSum(old \cup new) = DeltaSum(old) + DeltaSum(new)
        BY <3>4, <3>7, DeltaSumUnion
      <4>2. DeltaSum(old) = 0
        BY <1>0 DEF old
      <4>3. QED
        BY <3>8, <4>1, <4>2
    <3>10. DeltaSum(Transferred(p))' = DeltaSum(old \cup new)
      BY <3>4 DEF DeltaSum, SumOver
    <3>11. QED
      BY <3>9, <3>10
  <2>5. QED
    BY <2>3, <2>4
<1>3. ASSUME NEW t \in Transactions, Acts(t) PROVE DeltaSum(Transferred(p))' = 0
  <2>1. CASE \E id \in TransferIds : \E next, calls : Starts(t, id, next, calls)
    <3>0. PICK id \in TransferIds : \E next, calls : Starts(t, id, next, calls)
      BY <2>1
    <3>1. PICK next, calls : Starts(t, id, next, calls)
      BY <3>0
    <3>2. transactions[t].status = "ready" /\ \A u \in Transactions \ {t} : handling'[u] = handling[u]
      BY <3>1, StartEffect
    <3>3. \A e \in stockMovements : e.transaction \in Transactions \ {t}
      BY <3>2, MovementsTyped
    <3>4. stockMovements' = stockMovements
      BY <3>2, <1>3, OnlyCommits DEF Commit, Running
    <3>5. QED
      BY <1>1, <3>2, <3>3, <3>4
  <2>2. CASE ~\E id \in TransferIds : \E next, calls : Starts(t, id, next, calls)
    <3>1. handling' = handling
      BY <1>3, <2>2 DEF Acts, SaveTransfer, transferVars
    <3>2. CASE Commit(t)
      BY <1>2, <3>1, <3>2
    <3>3. CASE ~Commit(t)
      BY <1>1, <1>3, <3>1, <3>3, OnlyCommits
    <3>4. QED
      BY <3>2, <3>3
  <2>3. QED
    BY <2>1, <2>2
<1>4. CASE UNCHANGED allVars \/ \E id \in TransferIds : Create(id)
  <2>1. stockMovements' = stockMovements /\ handling' = handling
    BY <1>4 DEF allVars, ledgerVars, ledgerTables, transferVars, Create
  <2>2. QED
    BY <1>1, <2>1
<1>5. QED
  BY <1>3, <1>4, TransferSteps DEF TransfersShape

\* At the start nothing has moved.
LEMMA InitMoves == TransfersInit => HandlersMove /\ TransfersConserveUnits
<1> SUFFICES ASSUME TransfersInit PROVE HandlersMove /\ TransfersConserveUnits
  OBVIOUS
<1>1. HandlersMove
  BY DEF TransfersInit, HandlersMove
<1>2. ASSUME NEW p \in Products PROVE DeltaSum(Transferred(p)) = 0
  <2>1. Transferred(p) = {}
    BY DEF TransfersInit, LedgerInit, Transferred
  <2>2. QED
    BY <2>1, FS_EmptySet, DeltaSums
<1>3. QED
  BY <1>1, <1>2 DEF TransfersConserveUnits, DeltaSum, Transferred

\* However handlers overlap, fail and race, transfers create and destroy no
\* unit: of every product, what they took from branches they brought to others
\* (receiveTransfer posts both movements of an item in one transaction).
THEOREM UnitsAreConserved == TransfersSpec => []TransfersConserveUnits
BY InitTransfers, InitMoves, NextTransfersShape, NextHandlersMove, NextConserves, PTL DEF TransfersSpec

\* A transfer whose handlers did not overlap was received once, or not at all.
ReceivedOnce ==
  \A id \in TransferIds : ~staleTransfer[id] =>
    IF transfers[id].status = "RECEIVED" THEN \E t \in Transactions : Receipts(id) = {t}
                                         ELSE Receipts(id) = {}

\* Receipts come with the commits of handlers.
LEMMA NextReceipts ==
  ASSUME TransfersShape, NEW t \in Transactions, Acts(t), NEW id \in TransferIds
  PROVE  Receipts(id)' = IF /\ SaveTransfer(t) /\ handling[t].transfer = id
                            /\ handling[t].next = "RECEIVED"
                         THEN Receipts(id) \cup {t} ELSE Receipts(id)
<1>1. OnlyOf(t) /\ transactions[t].status \in {"ready", "running"}
  BY ActEffect
<1>2. \A u \in Transactions \ {t} : handling'[u] = handling[u]
  BY StartEffect DEF Acts, SaveTransfer, transferVars
<1>3. t \notin Receipts(id)
  BY <1>1 DEF Receipts
<1>4. \A u \in Transactions \ {t} : u \in Receipts(id)' <=> u \in Receipts(id)
  BY <1>1, <1>2 DEF Receipts, OnlyOf
<1>5. CASE SaveTransfer(t)
  <2>1. handling' = handling /\ Commit(t) /\ handling[t] # None
    BY <1>5 DEF SaveTransfer
  <2>2. transactions'[t].status = "committed"
    BY <2>1, CommitAdds
  <2>3. t \in Receipts(id)' <=> handling[t].transfer = id /\ handling[t].next = "RECEIVED"
    BY <2>1, <2>2 DEF Receipts
  <2>4. Receipts(id)' \subseteq Transactions /\ Receipts(id) \subseteq Transactions
    BY DEF Receipts
  <2>5. QED
    BY <1>3, <1>4, <1>5, <2>3, <2>4
<1>6. CASE ~SaveTransfer(t)
  <2>1. t \notin Receipts(id)'
    <3>1. CASE Commit(t)
      <4>1. ~\E x \in TransferIds : \E next, calls : Starts(t, x, next, calls)
        BY <3>1, StartEffect DEF Commit, Running
      <4>2. handling[t] = None \/ CallStep(t) \/ Rollback(t) \/ \E program \in Programs : Begin(t, program)
        BY <1>6, <4>1 DEF Acts
      <4>3. handling' = handling
        BY <1>6, <4>1 DEF Acts, transferVars
      <4>4. transactions[t].status # "ready" /\ transactions'[t].status = "committed" /\ Done(t)
        BY <3>1, CommitAdds DEF Commit, Running
      <4>6. CASE handling[t] = None
        BY <4>3, <4>6 DEF Receipts
      <4>7. CASE CallStep(t) \/ Rollback(t)
        <5>1. ~Aborts(t)
          <6>0. LedgerShape /\ Typed
            BY DEF TransfersShape, LedgerShape, LedgerTyped, Typed, AvailabilityInvariant
          <6>1. Aborts(t) => transactions'[t].status = "aborted"
            BY <6>0, AbortEffect, EndEffect, OutsideFields
          <6>2. QED
            BY <4>4, <6>1
        <5>2. CallStep(t) /\ LedgerShape
          BY <4>7, <5>1 DEF Aborts, TransfersShape
        <5>3. transactions'[t].status = "running"
          BY <5>1, <5>2, RemainingStep
        <5>4. QED
          BY <4>4, <5>3
      <4>8. CASE \E program \in Programs : Begin(t, program)
        BY <4>4, <4>8 DEF Begin
      <4>9. QED
        BY <4>2, <4>6, <4>7, <4>8
    <3>2. CASE ~Commit(t)
      BY <3>2, OnlyCommits DEF Receipts
    <3>3. QED
      BY <3>1, <3>2
  <2>2. Receipts(id)' \subseteq Transactions /\ Receipts(id) \subseteq Transactions
    BY DEF Receipts
  <2>3. QED
    BY <1>3, <1>4, <1>6, <2>1, <2>2
<1>7. QED
  BY <1>5, <1>6

\* Every step keeps it that a transfer is received by one transaction.
LEMMA NextReceivedOnce ==
  TransfersShape /\ ReceivedOnce /\ [TransfersNext]_allVars => ReceivedOnce'
<1> SUFFICES ASSUME TransfersShape, ReceivedOnce, [TransfersNext]_allVars,
                    NEW id \in TransferIds, ~staleTransfer'[id]
             PROVE  IF transfers'[id].status = "RECEIVED"
                    THEN \E t \in Transactions : Receipts(id)' = {t} ELSE Receipts(id)' = {}
  BY DEF ReceivedOnce
<1>1. ASSUME Receipts(id)' = Receipts(id), staleTransfer'[id] = staleTransfer[id],
             transfers'[id].status = "RECEIVED" <=> transfers[id].status = "RECEIVED"
      PROVE  IF transfers'[id].status = "RECEIVED"
             THEN \E t \in Transactions : Receipts(id)' = {t} ELSE Receipts(id)' = {}
  BY <1>1 DEF ReceivedOnce
<1>2. CASE UNCHANGED allVars
  <2>1. transactions' = transactions /\ handling' = handling /\ transfers' = transfers
        /\ staleTransfer' = staleTransfer
    BY <1>2 DEF allVars, ledgerVars, transferVars
  <2>2. Receipts(id)' = Receipts(id)
    BY <2>1 DEF Receipts
  <2>3. QED
    BY <1>1, <2>1, <2>2
<1>3. ASSUME NEW x \in TransferIds, Create(x)
      PROVE  IF transfers'[id].status = "RECEIVED"
             THEN \E t \in Transactions : Receipts(id)' = {t} ELSE Receipts(id)' = {}
  <2>1. /\ transfers[x].status = "NONE" /\ transfers'[x].status = "REQUESTED"
        /\ \A y \in TransferIds \ {x} : transfers'[y] = transfers[y]
        /\ UNCHANGED <<ledgerVars, handling, staleTransfer>>
    BY <1>3, CreateEffect DEF TransfersShape
  <2>2. transactions' = transactions /\ handling' = handling
    BY <2>1 DEF ledgerVars
  <2>3. Receipts(id)' = Receipts(id)
    BY <2>2 DEF Receipts
  <2>4. transfers'[id].status = "RECEIVED" <=> transfers[id].status = "RECEIVED"
    BY <2>1
  <2>5. QED
    BY <1>1, <2>1, <2>3, <2>4
<1>4. ASSUME NEW t \in Transactions, Acts(t)
      PROVE  IF transfers'[id].status = "RECEIVED"
             THEN \E u \in Transactions : Receipts(id)' = {u} ELSE Receipts(id)' = {}
  <2>1. Receipts(id)' = IF /\ SaveTransfer(t) /\ handling[t].transfer = id
                           /\ handling[t].next = "RECEIVED"
                        THEN Receipts(id) \cup {t} ELSE Receipts(id)
    BY <1>4, NextReceipts
  <2>2. CASE SaveTransfer(t) /\ handling[t].transfer = id
    <3>1. /\ Follows(handling[t].loaded, handling[t].next)
          /\ transfers'[id].status = handling[t].next
          /\ staleTransfer'[id] = (staleTransfer[id] \/ transfers[id].status # handling[t].loaded)
      BY <2>2, SaveEffect
    <3>2. ~staleTransfer[id] /\ transfers[id].status = handling[t].loaded
      BY <3>1 DEF TransfersShape, TransfersTyped
    <3>3. Receipts(id) = {}
      BY <3>1, <3>2 DEF ReceivedOnce, Follows
    <3>4. QED
      BY <2>1, <2>2, <3>1, <3>3
  <2>3. CASE ~(SaveTransfer(t) /\ handling[t].transfer = id)
    <3>1. transfers'[id] = transfers[id] /\ staleTransfer'[id] = staleTransfer[id]
      <4>1. CASE SaveTransfer(t)
        BY <2>3, <4>1, SaveEffect
      <4>2. CASE ~SaveTransfer(t)
        BY <1>4, <4>2 DEF Acts, Starts, transferVars
      <4>3. QED
        BY <4>1, <4>2
    <3>2. QED
      BY <1>1, <2>1, <2>3, <3>1
  <2>4. QED
    BY <2>2, <2>3
<1>5. QED
  BY <1>2, <1>3, <1>4, TransferSteps DEF TransfersShape

\* The movements of what was received.
LEMMA ReceivedMoves ==
  ASSUME TransfersShape, HandlersMove, ReceivedOnce
  PROVE  MovedWhenReceived
<1> SUFFICES ASSUME NEW id \in TransferIds, ~staleTransfer[id],
                    NEW p \in DOMAIN transfers[id].items, NEW b \in Branches
             PROVE  DeltaSum({e \in stockMovements : e.transaction \in Receipts(id) /\ e.row = <<b, p>>})
                      = IF transfers[id].status # "RECEIVED" THEN 0
                        ELSE CASE b = transfers[id].from -> -transfers[id].items[p]
                               [] b = transfers[id].to   -> transfers[id].items[p]
                               [] OTHER -> 0
  BY DEF MovedWhenReceived, DeltaSum
<1> DEFINE entries == {e \in stockMovements : e.transaction \in Receipts(id) /\ e.row = <<b, p>>}
<1>1. CASE transfers[id].status # "RECEIVED"
  <2>1. Receipts(id) = {}
    BY <1>1 DEF ReceivedOnce
  <2>2. entries = {}
    BY <2>1
  <2>3. DeltaSum({}) = 0
    BY FS_EmptySet, DeltaSums
  <2>4. DeltaSum(entries) = 0
    BY <2>2, <2>3
  <2>5. QED
    BY <1>1, <2>4
<1>2. CASE transfers[id].status = "RECEIVED"
  <2>1. PICK t \in Transactions : Receipts(id) = {t}
    BY <1>2 DEF ReceivedOnce
  <2>2. /\ transactions[t].status = "committed" /\ handling[t] # None
        /\ handling[t].transfer = id /\ handling[t].next = "RECEIVED"
    BY <2>1 DEF Receipts
  <2>3. Known(transfers[id])
    BY <2>2 DEF TransfersShape, HandlingKnown
  <2>4. p \in Products /\ transfers[id].from # transfers[id].to
    BY <2>3, KnownTransfer
  <2> DEFINE k == <<b, p>>
  <2>5. k \in Keys /\ k[1] = b /\ k[2] = p
    BY <2>4 DEF Keys
  <2>6. entries = DoneSet(t, {k})
    BY <2>1 DEF DoneSet
  <2> HIDE DEF k
  <2>7. DeltaSum(DoneSet(t, {k})) = MovesOf(transfers[id], "RECEIVED", k)
    BY <2>2, <2>5, CommittedMoves
  <2>8. MovesOf(transfers[id], "RECEIVED", k)
          = CASE b = transfers[id].from -> -transfers[id].items[p]
              [] b = transfers[id].to   -> transfers[id].items[p]
              [] OTHER -> 0
    BY <2>4, <2>5 DEF MovesOf
  <2>9. DeltaSum(entries) = MovesOf(transfers[id], "RECEIVED", k)
    BY <2>6, <2>7
  <2>10. QED
    BY <1>2, <2>8, <2>9
<1>3. QED
  BY <1>1, <1>2

\* A transfer moves its units when it is received and only then, once, whatever
\* failed or was retried before, unless two handlers of the transfer overlapped
\* (receiveTransfer loads the transfer without a lock).
THEOREM UnitsMoveOnce == TransfersSpec => []MovedWhenReceived
<1>1. TransfersInit => ReceivedOnce
  BY DEF TransfersInit, LedgerInit, ReceivedOnce, Receipts, NoTransfer
<1>2. QED
  BY <1>1, InitTransfers, InitMoves, NextTransfersShape, NextHandlersMove, NextReceivedOnce,
     ReceivedMoves, PTL DEF TransfersSpec

-----------------------------------------------------------------------------
(* What a step does to the rows                                             *)

\* A call changes the column it is about, and the projection.
LEMMA ChangedColumn ==
  ASSUME NEW call \in LedgerCall, NEW row \in Row, call.column # "availableToSell",
         Changed(call, row) \in Row
  PROVE  /\ Changed(call, row).quantityOnHand
              = row.quantityOnHand + (IF call.column = "quantityOnHand" THEN call.delta ELSE 0)
         /\ Changed(call, row).outboundTransfers
              = row.outboundTransfers + (IF call.column = "outboundTransfers" THEN call.delta ELSE 0)
         /\ Changed(call, row).safetyStock = row.safetyStock
<1> DEFINE column == call.column
           after == [row EXCEPT ![column] = row[column] + call.delta]
           made == AvailableToSell(after)
<1>0. row.quantityOnHand \in Nat /\ row.outboundTransfers \in Nat /\ row.safetyStock \in Nat
      /\ column \in DOMAIN row /\ column \in Columns
  BY DEF Row, LedgerCall, Columns
<1>1. Changed(call, row) = [after EXCEPT !.availableToSell = made]
  <2>1. CASE column = "quantityOnHand"
    BY <2>1 DEF Changed, RecordMovement, ApplyAvailabilityProjection
  <2>2. CASE column # "quantityOnHand"
    BY <2>2 DEF Changed, AdjustProjectionBucket, ApplyAvailabilityProjection
  <2>3. QED
    BY <2>1, <2>2
<1>2. /\ after.quantityOnHand = IF column = "quantityOnHand" THEN row.quantityOnHand + call.delta
                                                             ELSE row.quantityOnHand
      /\ after.outboundTransfers = IF column = "outboundTransfers" THEN row.outboundTransfers + call.delta
                                                                   ELSE row.outboundTransfers
      /\ after.safetyStock = row.safetyStock
      /\ {"quantityOnHand", "outboundTransfers", "safetyStock"} \subseteq DOMAIN after
  BY <1>0 DEF Row, Columns
<1> HIDE DEF after, made
<1>3. /\ Changed(call, row).quantityOnHand = after.quantityOnHand
      /\ Changed(call, row).outboundTransfers = after.outboundTransfers
      /\ Changed(call, row).safetyStock = after.safetyStock
  BY <1>1, <1>2
<1>4. call.delta \in Int
  BY DEF LedgerCall
<1>5. QED
  BY <1>0, <1>2, <1>3, <1>4

\* What a step of a call does to rows, locked or stored.
LEMMA RowsAfter ==
  ASSUME LedgerShape, NEW t \in Transactions, CallStep(t), ~Aborts(t)
  PROVE  LET q == transactions[t]  n == transactions'[t]
         IN  /\ OnlyOf(t) /\ \A k \in Keys : staleRow[k] => staleRow'[k]
             /\ \/ /\ Remaining(n) = Remaining(q) /\ n.rows = q.rows /\ inventory' = inventory
                \/ /\ CheckAvailability(t) \/ SkipUpdate(t)
                   /\ n.rows = q.rows /\ inventory' = inventory
                \/ /\ UpdateRow(t) /\ q.atomic /\ inventory' = inventory
                   /\ n.rows = [q.rows EXCEPT ![Current(t).row] = RowSaved(t)]
                \/ /\ UpdateRow(t) /\ ~q.atomic
                   /\ n.rows = q.rows /\ q.rows = [k \in Keys |-> None]
                   /\ inventory' = [inventory EXCEPT ![Current(t).row] = RowSaved(t)]
<1> DEFINE q == transactions[t]
           n == transactions'[t]
           c == Current(t).row
<1>0. Typed /\ Shape(t, q)
  BY DEF LedgerShape, LedgerTyped, Typed, AvailabilityInvariant, Shapes
<1>3. \A k \in Keys : staleRow[k] => staleRow'[k]
  <2>1. staleRow \in [Keys -> BOOLEAN]
    BY DEF LedgerShape, LedgerTyped, LedgerTypeOK
  <2>2. UpdateRow(t) \/ SkipUpdate(t) \/ staleRow' = staleRow
    BY DEF CallStep, Aborts, ReadRow, CheckAvailability, SelectRow, SumRows, UpdateProduct, ledgerHistory
  <2>3. UpdateRow(t) \/ SkipUpdate(t) => \A k \in Keys : staleRow[k] => staleRow'[k]
    BY <2>1 DEF UpdateRow, SkipUpdate
  <2>4. QED
    BY <2>2, <2>3
<1>4. CASE ReadRow(t) \/ SelectRow(t) \/ SumRows(t) \/ UpdateProduct(t)
  <2>1. OnlyOf(t)
    BY <1>0, <1>4, ReadEffect, SelectEffect, SumEffect, ProductEffect
  <2>2. inventory' = inventory
    BY <1>4 DEF ReadRow, SelectRow, SumRows, UpdateProduct, ledgerTables
  <2>3. ~Writes(t) /\ ~CheckAvailability(t)
    <3>1. (Writes(t) => q.phase = "update") /\ (SelectRow(t) => q.phase = "select")
          /\ (SumRows(t) => q.phase = "sum") /\ (UpdateProduct(t) => q.phase = "product")
          /\ (ReadRow(t) \/ CheckAvailability(t) => q.phase = "read")
      BY StepsRun DEF Writes
    <3>2. ReadRow(t) => ~CheckAvailability(t)
      BY DEF ReadRow, CheckAvailability
    <3>3. QED
      BY <1>4, <3>1, <3>2
  <2>4. QED
    BY <1>3, <2>1, <2>2, <2>3, RemainingStep
<1>5. CASE CheckAvailability(t) \/ SkipUpdate(t)
  <2>1. OnlyOf(t) /\ n.rows = q.rows
    BY <1>0, <1>5, CheckEffect, SkipEffect DEF SameWrites
  <2>2. inventory' = inventory
    BY <1>5 DEF CheckAvailability, SkipUpdate, ledgerTables
  <2>3. QED
    BY <1>3, <1>5, <2>1, <2>2
<1>6. CASE UpdateRow(t) /\ q.atomic
  BY <1>0, <1>3, <1>6, UpdateEffect
<1>7. CASE UpdateRow(t) /\ ~q.atomic
  <2>1. q.rows = [k \in Keys |-> None]
    BY <1>0, <1>7 DEF Shape
  <2>2. QED
    BY <1>0, <1>3, <1>7, <2>1, AutocommitEffect DEF SameWrites
<1>8. QED
  BY <1>4, <1>5, <1>6, <1>7 DEF CallStep, Aborts

\* A call's weight on the row that it is about, and on others.
OutboundOf(call) == IF call.column = "outboundTransfers" THEN call.delta ELSE 0

\* The call a transaction is about to save, and the row it has read for it.
LEMMA SavedOutbound ==
  ASSUME LedgerShape, NEW t \in Transactions, UpdateRow(t) \/ SkipUpdate(t), NEW k \in Keys,
         k = Current(t).row, ~staleRow'[k]
  PROVE  /\ ~staleRow[k] /\ Found(t, k) \in Row
         /\ UpdateRow(t) => /\ RowSaved(t) \in Row /\ RowSaved(t) # None
                            /\ RowSaved(t).outboundTransfers
                                 = Found(t, k).outboundTransfers + OutboundOf(Current(t))
         /\ SkipUpdate(t) => OutboundOf(Current(t)) = 0
<1> DEFINE q == transactions[t]
           call == Current(t)
           n == RowSaved(t).outboundTransfers
<1>0. Typed /\ Shape(t, q)
  BY DEF LedgerShape, LedgerTyped, Typed, AvailabilityInvariant, Shapes
<1>1. /\ q.phase = "update" /\ q.calls # <<>> /\ call \in LedgerCall
  BY SavedCall
<1>2. q.loaded \in Row /\ q.entity \in Row /\ q.selected \in Row /\ Found(t, k) \in Row
  BY <1>0, TransactionColumns, FoundType DEF LedgerShape, Typed
<1>3. RowSaved(t) \in Row /\ RowSaved(t) # None
  BY <1>2, SavedRowType, LedgerAssumption DEF RowSaved
<1>4. call.column # "availableToSell" /\ q.entity = Changed(call, q.loaded)
  BY <1>0, <1>1 DEF Shape, Current
<1>5. q.entity.outboundTransfers = q.loaded.outboundTransfers + OutboundOf(call)
  BY <1>1, <1>2, <1>4, ChangedColumn DEF OutboundOf
<1>6. UpdateRow(t) => \/ n = q.entity.outboundTransfers
      \/ /\ q.entity.outboundTransfers = q.selected.outboundTransfers
         /\ n = Found(t, k).outboundTransfers
  <2>1. "outboundTransfers" \in DOMAIN q.entity
    BY <1>2 DEF Row
  <2>2. ~q.absent => n = Column(q.entity.outboundTransfers, q.selected.outboundTransfers,
                                Found(t, k).outboundTransfers)
    BY <2>1 DEF RowSaved, SavedRecord
  <2>3. q.absent => n = q.entity.outboundTransfers
    BY DEF RowSaved
  <2>4. QED
    BY <2>2, <2>3 DEF Column
<1>7. staleRow \in [Keys -> BOOLEAN]
  BY DEF LedgerShape, LedgerTyped, LedgerTypeOK
<1>8. CASE UpdateRow(t)
  <2>1. ~staleRow[k] /\ q.loaded = Found(t, k) /\ q.selected = Found(t, k)
    BY <1>7, <1>8 DEF UpdateRow
  <2>2. n = Found(t, k).outboundTransfers + OutboundOf(call)
    BY <1>5, <1>6, <1>8, <2>1
  <2>3. SkipUpdate(t) => q.entity = q.selected
    BY DEF SkipUpdate
  <2>4. SkipUpdate(t) => OutboundOf(call) = 0
    <3>1. Found(t, k).outboundTransfers \in Nat /\ OutboundOf(call) \in Int
      BY <1>1, <1>2 DEF Row, OutboundOf, LedgerCall
    <3>2. QED
      BY <1>5, <2>1, <2>3, <3>1
  <2>5. QED
    BY <1>2, <1>3, <2>1, <2>2, <2>4
<1>9. CASE ~UpdateRow(t)
  <2>1. ~staleRow[k] /\ q.loaded = q.selected /\ q.entity = q.selected
    BY <1>7, <1>9 DEF SkipUpdate
  <2>2. q.loaded.outboundTransfers \in Nat /\ OutboundOf(call) \in Int
    <3>1. q.loaded.outboundTransfers \in Nat
      BY <1>2 DEF Row
    <3>2. OutboundOf(call) \in Int
      BY <1>1 DEF OutboundOf, LedgerCall
    <3>3. QED
      BY <3>1, <3>2
  <2>3. OutboundOf(call) = 0
    BY <1>5, <2>1, <2>2
  <2>4. QED
    BY <1>2, <1>9, <2>1, <2>3
<1>10. QED
  BY <1>8, <1>9

-----------------------------------------------------------------------------
(* Reservations of a transaction, those it has written and those to come    *)

\* Whoever handles no transfer makes no call on outboundTransfers.
KeepsAway(t) ==
  handling[t] = None =>
    \A n \in DOMAIN transactions[t].calls : transactions[t].calls[n].column # "outboundTransfers"

LeftOf(q, k) == CallSum(Remaining(q), "outboundTransfers", {k})

\* With what a transaction has written of a row, and has yet to write, it
\* reserves v, unless somebody saved the row from an outdated read.
Reserving(t, k, v) ==
  Running(t) /\ ~staleRow[k] =>
    Found(t, k).outboundTransfers + LeftOf(transactions[t], k) = Stored[k].outboundTransfers + v

\* What is seen of a row are counts.
LEMMA SeenCounts ==
  ASSUME LedgerShape, NEW t \in Transactions, NEW k \in Keys
  PROVE  /\ Found(t, k) \in Row /\ Stored[k] \in Row
         /\ Found(t, k).outboundTransfers \in Nat /\ Stored[k].outboundTransfers \in Nat
         /\ LeftOf(transactions[t], k) \in Int
         /\ transactions[t].rows[k] = None => Found(t, k) = Stored[k]
<1>1. Typed
  BY DEF LedgerShape, LedgerTyped, Typed, AvailabilityInvariant
<1>2. Found(t, k) \in Row
  BY <1>1, FoundType DEF Typed
<1>3. NewRow(0) \in Row
  BY NewRowType
<1>4. Stored[k] \in Row
  BY <1>1, <1>3 DEF Typed, LedgerTypeOK, Stored, OrNew
<1>5. LeftOf(transactions[t], k) \in Int
  BY RemainingType, CallSumType DEF LeftOf
<1>6. transactions[t].rows[k] = None => Found(t, k) = Stored[k]
  BY DEF Found, View, Stored
<1>7. QED
  BY <1>2, <1>4, <1>5, <1>6 DEF Row

\* Nobody changes a stored row that another transaction has written.
LEMMA RowUntouched ==
  ASSUME LedgerShape, NEW u \in Transactions, CallerStep(u), NEW t \in Transactions, t # u,
         NEW k \in Keys
  PROVE  transactions[t].rows[k] = None \/ inventory'[k] = inventory[k]
<1>0. Typed
  BY DEF LedgerShape, LedgerTyped, Typed, AvailabilityInvariant
<1>1. inventory \in [Keys -> Row \cup {None}]
  BY <1>0 DEF Typed, LedgerTypeOK
<1>2. CASE \E program \in Callable : Begin(u, program)
  BY <1>2 DEF Begin, ledgerTables
<1>3. CASE Aborts(u)
  BY <1>3, AbortEffect DEF ledgerTables
<1>4. CASE Commit(u)
  <2>1. inventory'[k] = View(u)[k]
    BY <1>4 DEF Commit
  <2>2. CASE transactions[u].rows[k] = None
    BY <2>1, <2>2 DEF View
  <2>3. CASE transactions[u].rows[k] # None
    BY <2>3 DEF LedgerShape, RowsLocked
  <2>4. QED
    BY <2>2, <2>3
<1>5. CASE CallStep(u) /\ ~Aborts(u)
  <2>1. CASE inventory' = inventory
    BY <2>1
  <2>2. CASE UpdateRow(u) /\ inventory' = [inventory EXCEPT ![Current(u).row] = RowSaved(u)]
    <3>1. k = Current(u).row => transactions[t].rows[k] = None
      BY <1>0, <2>2, LockedRow
    <3>2. k # Current(u).row => inventory'[k] = inventory[k]
      BY <1>1, <2>2
    <3>3. QED
      BY <3>1, <3>2
  <2>3. QED
    BY <1>5, <2>1, <2>2, RowsAfter
<1>6. QED
  BY <1>2, <1>3, <1>4, <1>5 DEF CallerStep, Aborts

\* The step of another transaction.
LEMMA ReservingOther ==
  ASSUME LedgerShape, LedgerShape', NEW u \in Transactions, CallerStep(u), OnlyOf(u),
         NEW t \in Transactions, t # u, NEW k \in Keys, NEW v \in Int, Reserving(t, k, v),
         staleRow[k] => staleRow'[k]
  PROVE  Reserving(t, k, v)'
<1> SUFFICES ASSUME Running(t)', ~staleRow'[k]
             PROVE  (Found(t, k).outboundTransfers + LeftOf(transactions[t], k)
                       = Stored[k].outboundTransfers + v)'
  BY DEF Reserving
<1>1. transactions'[t] = transactions[t]
  BY DEF OnlyOf
<1>2. Running(t) /\ ~staleRow[k]
  BY <1>1 DEF Running
<1>3. Found(t, k).outboundTransfers + LeftOf(transactions[t], k) = Stored[k].outboundTransfers + v
  BY <1>2 DEF Reserving
<1>4. LeftOf(transactions[t], k)' = LeftOf(transactions[t], k)
  BY <1>1 DEF LeftOf, Remaining, CallSum, Weights, Weight
<1>5. CASE inventory'[k] = inventory[k]
  <2>1. Found(t, k)' = Found(t, k) /\ Stored'[k] = Stored[k]
    BY <1>1, <1>5 DEF Found, View, Stored
  <2>2. QED
    BY <1>3, <1>4, <2>1
<1>6. CASE transactions[t].rows[k] = None
  <2>1. Found(t, k)' = Stored'[k]
    BY <1>1, <1>6 DEF Found, View, Stored
  <2>2. LeftOf(transactions[t], k) = v
    BY <1>3, <1>6, SeenCounts
  <2>3. Stored'[k] \in Row
    <3>1. inventory' \in [Keys -> Row \cup {None}] /\ NewRow(0) \in Row
      BY NewRowType DEF LedgerShape, LedgerTyped, LedgerTypeOK
    <3>2. QED
      BY <3>1 DEF Stored, OrNew
  <2>4. Stored'[k].outboundTransfers \in Nat
    BY <2>3 DEF Row
  <2>5. QED
    BY <1>4, <2>1, <2>2, <2>4
<1>7. QED
  BY <1>5, <1>6, RowUntouched

\* The transaction's own step: a reservation that was to come is written.
LEMMA ReservingSelf ==
  ASSUME LedgerShape, NEW t \in Transactions, CallStep(t), ~Aborts(t), KeepsAway(t),
         ~transactions[t].atomic => handling[t] = None,
         NEW k \in Keys, NEW v \in Int, Reserving(t, k, v)
  PROVE  Reserving(t, k, v)'
<1> DEFINE q == transactions[t]
           n == transactions'[t]
           call == Current(t)
           c == call.row
           w == IF k = c THEN OutboundOf(call) ELSE 0
<1>0. /\ Running(t) /\ q.calls # <<>> /\ q.calls \in Seq(LedgerCall) /\ call = Head(q.calls)
      /\ inventory \in [Keys -> Row \cup {None}] /\ q.rows \in [Keys -> Row \cup {None}]
  BY RemainingStep, TransactionColumns DEF Current, LedgerShape, LedgerTyped, LedgerTypeOK
<1>1. call \in LedgerCall /\ c \in Keys /\ call.delta \in Int
  BY <1>0, RestOfCalls DEF LedgerCall
<1>2. Writes(t) \/ CheckAvailability(t) => LeftOf(q, k) = w + LeftOf(n, k)
  <2>1. SUFFICES ASSUME Writes(t) \/ CheckAvailability(t) PROVE LeftOf(q, k) = w + LeftOf(n, k)
    OBVIOUS
  <2>2. Remaining(q) = q.calls /\ Remaining(n) = Tail(q.calls)
    BY <2>1, RemainingStep
  <2>3. CallSum(q.calls, "outboundTransfers", {k})
          = Weight(Head(q.calls), "outboundTransfers", {k}) + CallSum(Tail(q.calls), "outboundTransfers", {k})
    BY <1>0, CallSumTail
  <2>4. Weight(call, "outboundTransfers", {k}) = w
    BY DEF Weight, OutboundOf
  <2>5. QED
    BY <1>0, <2>2, <2>3, <2>4 DEF LeftOf
<1>3. SUFFICES ASSUME ~staleRow'[k]
               PROVE  (Found(t, k).outboundTransfers + LeftOf(transactions[t], k)
                         = Stored[k].outboundTransfers + v)'
  BY DEF Reserving
<1>4. ~staleRow[k]
  BY <1>3, RowsAfter
<1>5. /\ Found(t, k).outboundTransfers + LeftOf(q, k) = Stored[k].outboundTransfers + v
      /\ Found(t, k).outboundTransfers \in Nat /\ Stored[k].outboundTransfers \in Nat
      /\ LeftOf(q, k) \in Int
  BY <1>0, <1>4, SeenCounts DEF Reserving
<1>6. LeftOf(transactions[t], k)' = LeftOf(n, k)
  BY DEF LeftOf, Remaining, CallSum, Weights, Weight
<1>7. CASE n.rows[k] = q.rows[k] /\ inventory'[k] = inventory[k] /\ LeftOf(n, k) = LeftOf(q, k)
  <2>1. Found(t, k)' = Found(t, k) /\ Stored'[k] = Stored[k]
    BY <1>7 DEF Found, View, Stored
  <2>2. QED
    BY <1>5, <1>6, <1>7, <2>1
<1>8. CASE Remaining(n) = Remaining(q) /\ n.rows = q.rows /\ inventory' = inventory
  BY <1>7, <1>8 DEF LeftOf
<1>9. w = 0 /\ (Writes(t) \/ CheckAvailability(t)) => LeftOf(n, k) = LeftOf(q, k)
  <2>1. w = 0 /\ (Writes(t) \/ CheckAvailability(t)) => LeftOf(q, k) = 0 + LeftOf(n, k)
    BY <1>2
  <2>2. LeftOf(n, k) \in Int \/ ~(Writes(t) \/ CheckAvailability(t))
    <3>1. Tail(q.calls) \in Seq(LedgerCall)
      BY <1>0, RestOfCalls
    <3>2. QED
      BY <3>1, RemainingStep, CallSumType DEF LeftOf
  <2> HIDE DEF w
  <2>3. QED
    BY <2>1, <2>2
<1>10. CASE (CheckAvailability(t) \/ SkipUpdate(t)) /\ n.rows = q.rows /\ inventory' = inventory
  <2>1. w = 0
    <3>1. CheckAvailability(t) => call.column = "availableToSell"
      BY DEF CheckAvailability
    <3>2. SkipUpdate(t) /\ k = c => OutboundOf(call) = 0
      BY <1>3, SavedOutbound
    <3>3. QED
      BY <1>10, <3>1, <3>2 DEF OutboundOf
  <2>2. QED
    BY <1>7, <1>9, <1>10, <2>1 DEF Writes
<1>11. CASE /\ UpdateRow(t) /\ q.atomic /\ inventory' = inventory
            /\ n.rows = [q.rows EXCEPT ![c] = RowSaved(t)]
  <2>1. CASE k = c
    <3>1. n.rows[k] = RowSaved(t) /\ RowSaved(t) # None
          /\ RowSaved(t).outboundTransfers = Found(t, k).outboundTransfers + OutboundOf(call)
      BY <1>0, <1>1, <1>3, <1>11, <2>1, SavedOutbound
    <3>2. Found(t, k)' = RowSaved(t) /\ Stored'[k] = Stored[k]
      BY <1>11, <3>1 DEF Found, View, Stored, OrNew
    <3>3. LeftOf(q, k) = OutboundOf(call) + LeftOf(n, k) /\ OutboundOf(call) \in Int
      BY <1>1, <1>2, <1>11, <2>1 DEF Writes, OutboundOf
    <3>4. LeftOf(n, k) \in Int
      <4>1. Tail(q.calls) \in Seq(LedgerCall)
        BY <1>0, RestOfCalls
      <4>2. QED
        BY <1>11, <4>1, RemainingStep, CallSumType DEF LeftOf, Writes
    <3>5. RowSaved(t).outboundTransfers + LeftOf(n, k) = Stored[k].outboundTransfers + v
      BY <1>5, <3>1, <3>3, <3>4
    <3>6. QED
      BY <1>6, <3>2, <3>5
  <2>2. CASE k # c
    BY <1>0, <1>7, <1>9, <1>11, <2>2 DEF Writes
  <2>3. QED
    BY <2>1, <2>2
<1>12. CASE /\ UpdateRow(t) /\ ~q.atomic /\ n.rows = q.rows /\ q.rows = [x \in Keys |-> None]
            /\ inventory' = [inventory EXCEPT ![c] = RowSaved(t)]
  <2>1. OutboundOf(call) = 0
    <3>1. 1 \in DOMAIN q.calls /\ call = q.calls[1]
      BY <1>0, RestOfCalls
    <3>2. QED
      BY <1>12, <3>1 DEF KeepsAway, OutboundOf
  <2>2. LeftOf(n, k) = LeftOf(q, k)
    BY <1>9, <1>12, <2>1 DEF Writes
  <2>3. CASE k = c
    <3>1. RowSaved(t) # None /\ RowSaved(t).outboundTransfers = Found(t, k).outboundTransfers + OutboundOf(call)
      BY <1>1, <1>3, <1>12, <2>3, SavedOutbound
    <3>2. Found(t, k) = Stored[k]
      BY <1>12, SeenCounts
    <3>3. Found(t, k)' = RowSaved(t) /\ Stored'[k] = RowSaved(t)
      <4>1. inventory'[k] = RowSaved(t) /\ n.rows[k] = None
        BY <1>0, <1>1, <1>12, <2>3
      <4>2. QED
        BY <3>1, <4>1 DEF Found, View, Stored, OrNew
    <3>4. LeftOf(q, k) = v
      BY <1>5, <3>2
    <3>5. RowSaved(t).outboundTransfers + LeftOf(n, k) = RowSaved(t).outboundTransfers + v
      BY <2>2, <3>4
    <3>6. QED
      BY <1>6, <3>3, <3>5
  <2>4. CASE k # c
    BY <1>0, <1>7, <1>12, <2>2, <2>4
  <2>5. QED
    BY <2>3, <2>4
<1>13. QED
  BY <1>8, <1>10, <1>11, <1>12, RowsAfter

\* Handlers reserve what their transfers ask for, others nothing.
Planned(t, k) ==
  IF handling[t] = None THEN 0
  ELSE ReservesOf(transfers[handling[t].transfer], handling[t].loaded, handling[t].next, k)

OthersKeepAway == \A t \in Transactions : KeepsAway(t)
AllReserve == \A t \in Transactions, k \in Keys : Reserving(t, k, Planned(t, k))

\* No transaction of another caller comes to a call on outboundTransfers.
LEMMA NextKeepsAway ==
  TransfersShape /\ OthersKeepAway /\ [TransfersNext]_allVars => OthersKeepAway'
<1> SUFFICES ASSUME TransfersShape, OthersKeepAway, [TransfersNext]_allVars,
                    NEW t \in Transactions, handling'[t] = None
             PROVE  \A m \in DOMAIN transactions'[t].calls :
                      transactions'[t].calls[m].column # "outboundTransfers"
  BY DEF OthersKeepAway, KeepsAway
<1> DEFINE Away(calls) == \A m \in DOMAIN calls : calls[m].column # "outboundTransfers"
           q == transactions[t]
           n == transactions'[t]
<1>0. /\ Typed /\ LedgerShape /\ LedgerTyped /\ TransfersTyped /\ HandlingKnown
      /\ handling \in [Transactions -> Handling \cup {None}]
  BY DEF TransfersShape, TransfersTyped, LedgerShape, LedgerTyped, Typed, AvailabilityInvariant
<1>1. handling[t] = None => Away(q.calls)
  BY DEF OthersKeepAway, KeepsAway
<1>2. CASE n = q /\ handling'[t] = handling[t]
  BY <1>1, <1>2
<1>3. ASSUME NEW u \in Transactions, Acts(u), u # t PROVE Away(n.calls)
  <2>1. n = q
    BY <1>3, ActEffect DEF OnlyOf
  <2>2. handling'[t] = handling[t]
    <3>1. CASE \E id \in TransferIds : \E next, calls : Starts(u, id, next, calls)
      BY <1>3, <3>1, StartEffect
    <3>2. QED
      BY <1>3, <3>1 DEF Acts, SaveTransfer, transferVars
  <2>3. QED
    BY <1>2, <2>1, <2>2
<1>4. Away(<<>>)
  OBVIOUS
<1>5. CASE Acts(t)
  <2>1. ~\E id \in TransferIds : \E next, calls : Starts(t, id, next, calls)
    BY StartEffect
  <2>2. handling' = handling
    BY <1>5, <2>1 DEF Acts, SaveTransfer, transferVars
  <2>3. CASE \E program \in Programs : Begin(t, program)
    <3>1. PICK program \in Programs : Begin(t, program)
      BY <2>3
    <3>2. program \in Callable
      BY LedgerAssumption DEF Callable
    <3>3. n.calls = program.calls
      BY <1>0, <3>1, <3>2, BeginEffect
    <3>4. Away(program.calls)
      BY TransfersAssumption
    <3> HIDE DEF n, Away
    <3>5. Away(n.calls)
      BY <3>3, <3>4
    <3>6. QED
      BY <3>5 DEF n, Away
  <2>4. CASE Aborts(t) \/ Commit(t)
    <3>1. PICK status : EndTransaction(t, status)
      BY <2>4, AbortEffect DEF Commit
    <3>2. n.calls = <<>>
      BY <1>0, <3>1, EndEffect, OutsideFields
    <3>3. QED
      BY <1>4, <3>2
  <2>5. CASE CallStep(t) /\ ~Aborts(t)
    <3>1. q.calls \in Seq(LedgerCall) /\ q.calls # <<>>
      BY <1>0, <2>5, RemainingStep, TransactionColumns
    <3>2. n.calls \in {q.calls, Tail(q.calls)}
      BY <1>0, <2>5, ReadEffect, CheckEffect, SelectEffect, SumEffect, ProductEffect, UpdateEffect,
         AutocommitEffect, SkipEffect DEF CallStep, Aborts
    <3>3. Away(q.calls)
      BY <1>1, <2>2
    <3> HIDE DEF n, q
    <3>4. Away(Tail(q.calls))
      BY <3>1, <3>3, RestOfCalls
    <3>5. Away(n.calls)
      BY <3>2, <3>3, <3>4
    <3>6. QED
      BY <3>5 DEF n
  <2>6. QED
    BY <1>5, <2>1, <2>3, <2>4, <2>5 DEF Acts, SaveTransfer, Aborts
<1>6. CASE UNCHANGED allVars \/ \E id \in TransferIds : Create(id)
  BY <1>2, <1>6 DEF allVars, ledgerVars, transferVars, Create
<1>7. QED
  BY <1>0, <1>3, <1>5, <1>6, TransferSteps

\* A transaction that begins is to reserve what its calls amount to.
LEMMA BegunReserving ==
  ASSUME LedgerShape, NEW t \in Transactions, NEW program \in Callable,
         Begin(t, program), NEW k \in Keys, NEW v \in Int,
         CallSum(program.calls, "outboundTransfers", {k}) = v
  PROVE  Reserving(t, k, v)'
<1> DEFINE q == transactions[t]
           n == transactions'[t]
<1>0. Typed /\ Shape(t, q)
  BY DEF LedgerShape, LedgerTyped, Typed, AvailabilityInvariant, Shapes
<1>1. /\ q.status = "ready" /\ n.calls = program.calls /\ n.phase = q.phase /\ n.rows = q.rows
  BY <1>0, BeginEffect DEF SameWrites
<1>2. q = Outside("ready")
  BY <1>0, <1>1 DEF Shape
<1>3. n.phase = "read" /\ n.rows[k] = None
  BY <1>1, <1>2, OutsideFields
<1>4. LeftOf(transactions[t], k)' = v
  <2>1. Remaining(n) = program.calls
    BY <1>1, <1>3 DEF Remaining
  <2>2. LeftOf(n, k) = v
    BY <2>1 DEF LeftOf
  <2>3. LeftOf(transactions[t], k)' = LeftOf(n, k)
    BY DEF LeftOf, Remaining, CallSum, Weights, Weight
  <2>4. QED
    BY <2>2, <2>3
<1>5. inventory' = inventory
  BY DEF Begin, ledgerTables
<1>6. Found(t, k)' = Stored[k] /\ Stored'[k] = Stored[k]
  BY <1>3, <1>5 DEF Found, View, Stored
<1>7. QED
  BY <1>4, <1>6 DEF Reserving

\* What is planned stays so, as long as the transaction handles what it handles.
LEMMA PlannedStays ==
  ASSUME TransfersShape, [TransfersNext]_allVars, NEW t \in Transactions, NEW k \in Keys
  PROVE  /\ Planned(t, k) \in Int
         /\ handling'[t] = handling[t] => Planned(t, k)' = Planned(t, k)
<1>1. CASE handling[t] = None
  BY <1>1 DEF Planned
<1>2. CASE handling[t] # None
  <2> DEFINE id == handling[t].transfer
  <2>1. id \in TransferIds /\ Known(transfers[id])
    BY <1>2 DEF TransfersShape, HandlingKnown, TransfersTyped, Handling
  <2>2. Planned(t, k) \in Int
    BY <1>2, <2>1, MovesType DEF Planned
  <2>3. SameItems(transfers'[id], transfers[id])
    BY <2>1, ItemsStay
  <2>4. ASSUME handling'[t] = handling[t] PROVE Planned(t, k)' = Planned(t, k)
    <3>1. ReservesOf(transfers'[id], handling[t].loaded, handling[t].next, k)
            = ReservesOf(transfers[id], handling[t].loaded, handling[t].next, k)
      BY <2>3, SameAmounts
    <3>2. QED
      BY <1>2, <2>4, <3>1 DEF Planned, ReservesOf
  <2>5. QED
    BY <2>2, <2>4
<1>3. QED
  BY <1>1, <1>2

\* What the calls of a transfer's items reserve on a row.
LEMMA ItemsReserve ==
  ASSUME NEW transfer, NEW loaded, NEW next, NEW P,
         NEW calls \in CallsOfItems(transfer, loaded, next, P), NEW k \in Keys
  PROVE  CallSum(calls, "outboundTransfers", {k})
           = IF k[2] \in P THEN ReservesOf(transfer, loaded, next, k) ELSE 0
BY DEF CallsOfItems

\* A transaction's reservations, whoever makes the step.
LEMMA ReservingStays ==
  ASSUME TransfersShape, TransfersShape', OthersKeepAway, [TransfersNext]_allVars,
         NEW u \in Transactions, Acts(u), NEW t \in Transactions, NEW k \in Keys,
         transactions[t].status # "ready", NEW v \in Int, Reserving(t, k, v)
  PROVE  Reserving(t, k, v)'
<1>0. /\ LedgerShape /\ LedgerShape' /\ Typed /\ LedgerTyped /\ HandlingKnown /\ CallerStep(u) /\ OnlyOf(u)
  BY ActEffect, ActsCall DEF TransfersShape, LedgerShape, LedgerTyped, Typed, AvailabilityInvariant
<1>1. CASE CallStep(u) /\ ~Aborts(u)
  <2>1. staleRow[k] => staleRow'[k]
    BY <1>0, <1>1, RowsAfter
  <2>2. CASE u = t
    <3>1. KeepsAway(t) /\ Running(t)
      BY <1>0, <1>1, <2>2, RemainingStep DEF OthersKeepAway
    <3>2. ~transactions[t].atomic => handling[t] = None
      BY <1>0, <3>1 DEF HandlingKnown
    <3>3. QED
      BY <1>0, <1>1, <2>2, <3>1, <3>2, ReservingSelf
  <2>3. CASE u # t
    BY <1>0, <2>1, <2>3, ReservingOther
  <2>4. QED
    BY <2>2, <2>3
<1>2. CASE \/ Aborts(u) \/ Commit(u) \/ \E program \in Callable : Begin(u, program)
  <2>1. staleRow' = staleRow
    BY <1>2, AbortEffect DEF Commit, Begin
  <2>2. CASE u # t
    BY <1>0, <2>1, <2>2, ReservingOther
  <2>3. CASE u = t
    <3>1. PICK status \in {"aborted", "committed"} : EndTransaction(t, status)
      BY <1>2, <2>3, AbortEffect DEF Commit, Begin
    <3>2. transactions'[t].status = status
      BY <1>0, <3>1, EndEffect, OutsideFields
    <3>3. QED
      BY <3>2 DEF Reserving, Running
  <2>4. QED
    BY <2>2, <2>3
<1>3. QED
  BY <1>0, <1>1, <1>2 DEF CallerStep, Aborts

\* Every step keeps what transactions have reserved and are to reserve.
LEMMA NextReserves ==
  TransfersShape /\ TransfersShape' /\ OthersKeepAway /\ AllReserve /\ [TransfersNext]_allVars
    => AllReserve'
<1> SUFFICES ASSUME TransfersShape, TransfersShape', OthersKeepAway, AllReserve, [TransfersNext]_allVars,
                    NEW t \in Transactions, NEW k \in Keys
             PROVE  Reserving(t, k, Planned(t, k))'
  BY DEF AllReserve
<1>v. PICK v : v = Planned(t, k)
  OBVIOUS
<1>0. /\ LedgerShape /\ TransfersTyped /\ HandlingKnown /\ HandlingKnown' /\ Reserving(t, k, v) /\ v \in Int
      /\ handling \in [Transactions -> Handling \cup {None}]
  BY <1>v, PlannedStays DEF TransfersShape, TransfersTyped, AllReserve
<1>1. ASSUME NEW w, w = Planned(t, k)', Reserving(t, k, w)' PROVE Reserving(t, k, Planned(t, k))'
  BY <1>1 DEF Reserving
<1>2. CASE UNCHANGED ledgerVars /\ handling'[t] = handling[t]
  <2>1. LeftOf(transactions[t], k)' = LeftOf(transactions[t], k)
    BY <1>2 DEF LeftOf, Remaining, CallSum, Weights, Weight, ledgerVars
  <2>2. Found(t, k)' = Found(t, k) /\ Stored'[k] = Stored[k] /\ Running(t)' = Running(t) /\ staleRow' = staleRow
    BY <1>2 DEF ledgerVars, ledgerTables, ledgerHistory, Found, View, Stored, Running
  <2>3. Planned(t, k)' = v
    BY <1>v, <1>2, PlannedStays
  <2>4. Reserving(t, k, v)'
    BY <1>0, <2>1, <2>2 DEF Reserving
  <2>5. QED
    BY <1>1, <2>3, <2>4
<1>3. ASSUME NEW u \in Transactions, Acts(u), transactions[t].status # "ready", handling'[t] = handling[t]
      PROVE  Reserving(t, k, Planned(t, k))'
  <2>1. Reserving(t, k, v)'
    BY <1>0, <1>3, ReservingStays
  <2>2. Planned(t, k)' = v
    BY <1>v, <1>3, PlannedStays
  <2>3. QED
    BY <1>1, <2>1, <2>2
<1>4. ASSUME NEW id \in TransferIds, NEW next, NEW calls, Starts(t, id, next, calls)
      PROVE  Reserving(t, k, Planned(t, k))'
  <2> DEFINE program == [atomic |-> TRUE, calls |-> calls]
  <2>w. PICK w : w = ReservesOf(transfers[id], transfers[id].status, next, k)
    OBVIOUS
  <2>1. /\ calls \in CallsOfItems(transfers[id], transfers[id].status, next, DOMAIN transfers[id].items)
        /\ Known(transfers[id]) /\ Begin(t, program) /\ transfers' = transfers
    BY <1>4 DEF Starts
  <2>2. CallSum(calls, "outboundTransfers", {k}) = IF k[2] \in DOMAIN transfers[id].items THEN w ELSE 0
    <3>1. calls \in CallsOfItems(transfers[id], transfers[id].status, next, DOMAIN transfers[id].items)
      BY <1>4 DEF Starts
    <3>2. CallSum(calls, "outboundTransfers", {k})
            = IF k[2] \in DOMAIN transfers[id].items
              THEN ReservesOf(transfers[id], transfers[id].status, next, k) ELSE 0
      BY <3>1, ItemsReserve
    <3>3. QED
      BY <2>w, <3>2
  <2>3. k[2] \notin DOMAIN transfers[id].items => w = 0
    BY <2>w DEF ReservesOf
  <2>4. w \in Int
    BY <2>1, <2>w, MovesType
  <2>5. program \in Callable /\ program.calls = calls
    BY <2>1, HandlerCallable
  <2> HIDE DEF program
  <2>6. Reserving(t, k, w)'
    BY <1>0, <2>1, <2>2, <2>3, <2>4, <2>5, BegunReserving
  <2>7. /\ handling'[t] # None /\ handling'[t].transfer = id
        /\ handling'[t].loaded = transfers[id].status /\ handling'[t].next = next
    BY <1>4, StartEffect
  <2>8. w = Planned(t, k)'
    BY <2>1, <2>w, <2>7 DEF Planned, ReservesOf
  <2>9. QED
    BY <1>1, <2>6, <2>8
<1>5. ASSUME NEW program \in Programs, Begin(t, program), UNCHANGED transferVars
      PROVE  Reserving(t, k, Planned(t, k))'
  <2>1. transactions[t].status = "ready"
    BY <1>5 DEF Begin
  <2>2. handling[t] = None /\ handling' = handling
    BY <1>0, <1>5, <2>1 DEF HandlingKnown, transferVars
  <2>3. program \in Callable /\ program.calls \in Seq(LedgerCall)
    BY LedgerAssumption DEF Callable, Program
  <2>4. CallSum(program.calls, "outboundTransfers", {k}) = 0
    BY <2>3, TransfersAssumption, CallSumNone
  <2>z. PICK zero \in Int : zero = 0
    OBVIOUS
  <2>5. Reserving(t, k, zero)'
    BY <1>0, <1>5, <2>3, <2>4, <2>z, BegunReserving
  <2>6. zero = Planned(t, k)'
    BY <2>2, <2>z DEF Planned
  <2>7. QED
    BY <1>1, <2>5, <2>6
<1>6. ASSUME NEW u \in Transactions, Acts(u), u # t PROVE Reserving(t, k, Planned(t, k))'
  <2>1. transactions'[t] = transactions[t]
    BY <1>6, ActEffect DEF OnlyOf
  <2>2. handling'[t] = handling[t]
    <3>1. CASE \E id \in TransferIds : \E next, calls : Starts(u, id, next, calls)
      BY <1>6, <3>1, StartEffect
    <3>2. QED
      BY <1>6, <3>1 DEF Acts, SaveTransfer, transferVars
  <2>3. CASE transactions[t].status = "ready"
    <3>1. ~Running(t)'
      BY <2>1, <2>3 DEF Running
    <3>2. QED
      BY <3>1 DEF Reserving
  <2>4. QED
    BY <1>3, <1>6, <2>2, <2>3
<1>7. CASE Acts(t)
  <2>1. CASE SaveTransfer(t) \/ Commit(t) \/ Rollback(t) \/ CallStep(t)
    <3>1. transactions[t].status # "ready"
      <4>1. Commit(t) \/ Rollback(t) => Running(t)
        BY DEF Commit, Rollback
      <4>2. CallStep(t) => Running(t)
        BY StepsRun DEF CallStep, Aborts, Running
      <4>3. QED
        BY <2>1, <4>1, <4>2 DEF SaveTransfer, Running
    <3>2. handling' = handling
      BY <1>7, <3>1, StartEffect DEF Acts, SaveTransfer, transferVars
    <3>3. QED
      BY <1>3, <1>7, <3>1, <3>2
  <2>2. QED
    BY <1>4, <1>5, <1>7, <2>1 DEF Acts
<1>8. (\E id \in TransferIds : Create(id)) \/ UNCHANGED allVars => UNCHANGED ledgerVars /\ handling'[t] = handling[t]
  BY DEF Create, allVars, transferVars
<1>9. QED
  BY <1>0, <1>2, <1>6, <1>7, <1>8, TransferSteps

-----------------------------------------------------------------------------
(* outboundTransfers holds the units that are on their way                  *)

Leaves(transfer, k) == transfer.from = k[1] /\ k[2] \in DOMAIN transfer.items

AmountOf(transfer, k) ==
  IF Leaves(transfer, k) /\ transfer.status = "DISPATCHED" THEN transfer.items[k[2]] ELSE 0

Amounts(k) == [id \in TransferIds |-> AmountOf(transfers[id], k)]
OnTheirWay(k) == SumFunctionOnSet(Amounts(k), TransferIds)

\* Nobody raced on the row, nor on a transfer that leaves from it.
NoRaceOn(k) ==
  ~staleRow[k] /\ \A id \in TransferIds : Leaves(transfers[id], k) => ~staleTransfer[id]

OutboundKept(k) ==
  NoRaceOn(k) =>
    Stored[k].outboundTransfers = OrNew(InitialRows[k]).outboundTransfers + OnTheirWay(k)

\* Only a transfer that has been created was raced on.
StaleKnown == \A id \in TransferIds : staleTransfer[id] => transfers[id].status # "NONE"

OutboundInvariant ==
  OthersKeepAway /\ AllReserve /\ StaleKnown /\ \A k \in Keys : OutboundKept(k)

\* What is on its way of a transfer is a count.
LEMMA AmountType ==
  ASSUME TransfersTyped, NEW id \in TransferIds, NEW k \in Keys
  PROVE  AmountOf(transfers[id], k) \in Int
<1>1. CASE transfers[id].status = "DISPATCHED"
  <2>1. \A p \in DOMAIN transfers[id].items : transfers[id].items[p] \in Nat
    BY <1>1, KnownTransfer DEF TransfersTyped
  <2>2. QED
    BY <2>1 DEF AmountOf, Leaves
<1>2. QED
  BY <1>1 DEF AmountOf

\* One transfer is written: the units on their way from a row change by its.
LEMMA AmountsMove ==
  ASSUME TransfersTyped, TransfersTyped', NEW id \in TransferIds, NEW k \in Keys,
         \A x \in TransferIds \ {id} : transfers'[x] = transfers[x]
  PROVE  /\ OnTheirWay(k) \in Int
         /\ AmountOf(transfers[id], k) \in Int /\ AmountOf(transfers'[id], k) \in Int
         /\ OnTheirWay(k)' = OnTheirWay(k) + (AmountOf(transfers'[id], k) - AmountOf(transfers[id], k))
<1> DEFINE F == [x \in TransferIds |-> AmountOf(transfers[x], k)]
           G == [x \in TransferIds |-> AmountOf(transfers'[x], k)]
<1>1. \A x \in TransferIds : AmountOf(transfers[x], k) \in Int
  BY AmountType
<1>2. \A x \in TransferIds : AmountOf(transfers'[x], k) \in Int
  <2>1. ASSUME NEW x \in TransferIds PROVE AmountOf(transfers'[x], k) \in Int
    <3>1. CASE transfers'[x].status = "DISPATCHED"
      <4>1. Known(transfers'[x])
        BY <3>1 DEF TransfersTyped, Known
      <4>2. \A p \in DOMAIN transfers'[x].items : transfers'[x].items[p] \in Nat
        BY <4>1, KnownTransfer
      <4>3. QED
        BY <4>2 DEF AmountOf, Leaves
    <3>2. QED
      BY <3>1 DEF AmountOf
  <2>2. QED
    BY <2>1
<1>3. OnTheirWay(k) = SumFunctionOnSet(F, TransferIds)
  BY DEF OnTheirWay, Amounts
<1>4. OnTheirWay(k)' = SumFunctionOnSet(G, TransferIds)
  BY DEF OnTheirWay, Amounts, AmountOf, Leaves
<1>5. \A x \in TransferIds : F[x] = AmountOf(transfers[x], k) /\ G[x] = AmountOf(transfers'[x], k)
  OBVIOUS
<1> HIDE DEF F, G
<1>6. \A x \in TransferIds \ {id} : F[x] = G[x]
  BY <1>5
<1>7. IsFiniteSet(TransferIds) /\ \A x \in TransferIds : F[x] \in Int /\ G[x] \in Int
  BY <1>1, <1>2, <1>5, TransfersAssumption
<1>8. SumFunctionOnSet(G, TransferIds) = SumFunctionOnSet(F, TransferIds) + (G[id] - F[id])
  BY <1>6, <1>7, SumChange
<1>9. SumFunctionOnSet(F, TransferIds) \in Int
  BY <1>7, SumType
<1>10. QED
  BY <1>1, <1>2, <1>3, <1>4, <1>5, <1>8, <1>9

\* A commit stores what its handler was to reserve; nothing else touches the
\* column of a stored row.
LEMMA StoredOutbound ==
  ASSUME TransfersShape, OthersKeepAway, AllReserve, NEW t \in Transactions, Acts(t),
         NEW k \in Keys, ~staleRow'[k]
  PROVE  /\ ~staleRow[k]
         /\ SaveTransfer(t) =>
              Stored'[k].outboundTransfers = Stored[k].outboundTransfers + Planned(t, k)
         /\ ~SaveTransfer(t) => Stored'[k].outboundTransfers = Stored[k].outboundTransfers
<1> DEFINE q == transactions[t]
<1>0. /\ LedgerShape /\ Typed /\ LedgerTyped /\ HandlingKnown /\ CallerStep(t) /\ Shape(t, q)
  BY ActsCall DEF TransfersShape, LedgerShape, LedgerTyped, Typed, AvailabilityInvariant, Shapes
<1>1. SaveTransfer(t) => Commit(t)
  BY DEF SaveTransfer
<1>2. CASE Commit(t)
  <2>1. Running(t) /\ q.calls = <<>> /\ staleRow' = staleRow /\ inventory' = View(t)
    BY <1>2 DEF Commit, Done
  <2>2. Remaining(q) = <<>>
    <3>1. q.phase = "read"
      BY <1>0, <2>1, TransactionColumns DEF Shape
    <3>2. QED
      BY <2>1, <3>1 DEF Remaining
  <2>3. LeftOf(q, k) = 0
    BY <2>2, CallSumEmpty DEF LeftOf
  <2>4. Found(t, k).outboundTransfers \in Nat /\ Stored'[k] = Found(t, k)
    BY <1>0, <2>1, SeenCounts DEF Stored, Found
  <2>5. ASSUME NEW v, v = Planned(t, k)
        PROVE  Stored'[k].outboundTransfers = Stored[k].outboundTransfers + v
    <3>1. Reserving(t, k, v)
      BY <2>5 DEF AllReserve
    <3>2. Found(t, k).outboundTransfers + 0 = Stored[k].outboundTransfers + v
      BY <2>1, <2>3, <3>1 DEF Reserving
    <3>3. QED
      BY <2>4, <3>2
  <2>6. ~SaveTransfer(t) => Planned(t, k) = 0
    <3>1. q.status = "running"
      BY <2>1 DEF Running
    <3>2. ~SaveTransfer(t) => handling[t] = None
      <4>1. \A program : ~Begin(t, program)
        BY <3>1 DEF Begin
      <4>2. ~CallStep(t) \/ Aborts(t)
        BY <1>0, <2>1, RemainingStep
      <4>3. ~Aborts(t)
        <5>1. transactions'[t].status = "committed"
          BY <1>0, <1>2, EndEffect, OutsideFields DEF Commit
        <5>2. Aborts(t) => transactions'[t].status = "aborted"
          BY <1>0, AbortEffect, EndEffect, OutsideFields
        <5>3. QED
          BY <5>1, <5>2
      <4>4. QED
        BY <4>1, <4>2, <4>3 DEF Acts, Starts, Aborts
    <3>3. QED
      BY <3>2 DEF Planned
  <2>7. Stored[k].outboundTransfers \in Nat
    BY <1>0, SeenCounts
  <2>8. QED
    BY <2>1, <2>5, <2>6, <2>7
<1>3. CASE Aborts(t) \/ (\E program \in Callable : Begin(t, program))
  <2>1. staleRow' = staleRow /\ inventory' = inventory
    BY <1>3, AbortEffect DEF Begin, ledgerTables
  <2>2. Stored'[k] = Stored[k]
    BY <2>1 DEF Stored
  <2>3. QED
    BY <1>1, <1>2, <2>1, <2>2
<1>4. CASE CallStep(t) /\ ~Aborts(t)
  <2>1. ~staleRow[k] /\ Running(t) /\ q.calls # <<>> /\ ~Commit(t)
    BY <1>0, <1>4, RowsAfter, RemainingStep DEF Commit, Done
  <2>2. CASE inventory'[k] = inventory[k]
    BY <1>1, <2>1, <2>2 DEF Stored
  <2>3. CASE /\ UpdateRow(t) /\ ~q.atomic /\ q.rows = [x \in Keys |-> None]
             /\ inventory' = [inventory EXCEPT ![Current(t).row] = RowSaved(t)]
    <3>0. inventory \in [Keys -> Row \cup {None}]
      BY <1>0 DEF Typed, LedgerTypeOK
    <3>1. CASE k = Current(t).row
      <4>1. RowSaved(t) # None
            /\ RowSaved(t).outboundTransfers = Found(t, k).outboundTransfers + OutboundOf(Current(t))
        BY <1>0, <2>3, <3>1, SavedOutbound
      <4>2. Found(t, k) = Stored[k] /\ Stored[k].outboundTransfers \in Nat
        BY <1>0, <2>3, SeenCounts
      <4>3. OutboundOf(Current(t)) = 0
        <5>1. handling[t] = None /\ 1 \in DOMAIN q.calls /\ Current(t) = q.calls[1]
          BY <1>0, <2>1, <2>3, TransactionColumns, RestOfCalls DEF HandlingKnown, Current
        <5>2. QED
          BY <5>1 DEF OthersKeepAway, KeepsAway, OutboundOf
      <4>4. Stored'[k] = RowSaved(t)
        BY <2>3, <3>0, <3>1, <4>1 DEF Stored, OrNew
      <4>5. QED
        BY <1>1, <2>1, <4>1, <4>2, <4>3, <4>4
    <3>2. CASE k # Current(t).row
      BY <2>2, <2>3, <3>0, <3>2
    <3>3. QED
      BY <3>1, <3>2
  <2>4. QED
    BY <1>0, <1>4, <2>2, <2>3, RowsAfter
<1>5. QED
  BY <1>0, <1>2, <1>3, <1>4 DEF CallerStep, Aborts

\* What a handler reserves is what it changes of the units on their way,
\* unless its transfer was raced on.
LEMMA HandlerAmounts ==
  ASSUME NEW transfer, NEW saved, Known(transfer), SameItems(saved, transfer), NEW k \in Keys,
         Follows(transfer.status, saved.status)
  PROVE  AmountOf(saved, k) - AmountOf(transfer, k)
           = ReservesOf(transfer, transfer.status, saved.status, k)
<1>1. \A p \in DOMAIN transfer.items : transfer.items[p] \in Nat
  BY KnownTransfer
<1>2. Leaves(saved, k) <=> Leaves(transfer, k)
  BY DEF SameItems, Leaves
<1>3. CASE ~Leaves(transfer, k)
  <2>1. AmountOf(saved, k) = 0 /\ AmountOf(transfer, k) = 0
    BY <1>2, <1>3 DEF AmountOf
  <2>2. ReservesOf(transfer, transfer.status, saved.status, k) = 0
    BY <1>3 DEF Leaves, ReservesOf
  <2>3. QED
    BY <2>1, <2>2
<1>4. CASE Leaves(transfer, k)
  <2>1. PICK n \in Nat : n = transfer.items[k[2]] /\ n = saved.items[k[2]]
    BY <1>1, <1>4 DEF Leaves, SameItems
  <2>2. /\ AmountOf(saved, k) = IF saved.status = "DISPATCHED" THEN n ELSE 0
        /\ AmountOf(transfer, k) = IF transfer.status = "DISPATCHED" THEN n ELSE 0
    BY <1>2, <1>4, <2>1 DEF AmountOf
  <2>3. ReservesOf(transfer, transfer.status, saved.status, k)
          = IF saved.status = "DISPATCHED" THEN n ELSE IF transfer.status = "DISPATCHED" THEN -n ELSE 0
    BY <1>4, <2>1 DEF Leaves, ReservesOf
  <2>4. QED
    BY <2>2, <2>3 DEF Follows
<1>5. QED
  BY <1>3, <1>4

\* What was raced on stays so.
LEMMA RacesStay ==
  ASSUME TransfersShape, StaleKnown, [TransfersNext]_allVars
  PROVE  /\ \A id \in TransferIds : staleTransfer[id] => staleTransfer'[id]
         /\ StaleKnown'
         /\ \A k \in Keys : NoRaceOn(k)' /\ ~staleRow[k] => NoRaceOn(k)
<1>0. TransfersTyped
  BY DEF TransfersShape
<1>1. ASSUME NEW id \in TransferIds
      PROVE  /\ staleTransfer[id] => staleTransfer'[id]
             /\ staleTransfer'[id] => transfers'[id].status # "NONE"
             /\ staleTransfer[id] => SameItems(transfers'[id], transfers[id])
  <2>1. CASE UNCHANGED <<transfers, staleTransfer>>
    BY <2>1 DEF StaleKnown, SameItems
  <2>2. CASE \E x \in TransferIds : Create(x)
    <3>1. PICK x \in TransferIds : Create(x)
      BY <2>2
    <3>2. staleTransfer' = staleTransfer /\ ~staleTransfer[x]
      BY <1>0, <3>1, CreateEffect DEF StaleKnown
    <3>3. id # x => transfers'[id] = transfers[id]
      BY <1>0, <3>1, CreateEffect
    <3>4. QED
      BY <3>2, <3>3 DEF StaleKnown, SameItems
  <2>3. CASE \E t \in Transactions : SaveTransfer(t)
    <3>1. PICK t \in Transactions : SaveTransfer(t)
      BY <2>3
    <3>2. CASE id = handling[t].transfer
      <4>1. /\ Known(transfers'[id]) /\ SameItems(transfers'[id], transfers[id])
            /\ staleTransfer'[id] = (staleTransfer[id] \/ transfers[id].status # handling[t].loaded)
        BY <3>1, <3>2, SaveEffect
      <4>2. QED
        BY <4>1 DEF Known
    <3>3. CASE id # handling[t].transfer
      <4>1. staleTransfer'[id] = staleTransfer[id] /\ transfers'[id] = transfers[id]
        BY <3>1, <3>3, SaveEffect
      <4>2. QED
        BY <4>1 DEF StaleKnown, SameItems
    <3>4. QED
      BY <3>2, <3>3
  <2>4. ASSUME NEW t \in Transactions, Acts(t), ~SaveTransfer(t)
        PROVE  UNCHANGED <<transfers, staleTransfer>>
    BY <2>4 DEF Acts, Starts, transferVars
  <2>5. QED
    BY <1>0, <2>1, <2>2, <2>3, <2>4, TransferSteps DEF allVars, transferVars
<1>2. ASSUME NEW k \in Keys, NoRaceOn(k)', ~staleRow[k] PROVE NoRaceOn(k)
  <2>1. ASSUME NEW id \in TransferIds, Leaves(transfers[id], k), staleTransfer[id] PROVE FALSE
    <3>1. staleTransfer'[id] /\ SameItems(transfers'[id], transfers[id])
      BY <1>1, <2>1
    <3>2. Leaves(transfers[id], k)'
      BY <2>1, <3>1 DEF SameItems, Leaves
    <3>3. QED
      BY <1>2, <3>1, <3>2 DEF NoRaceOn
  <2>2. QED
    BY <1>2, <2>1 DEF NoRaceOn
<1>3. QED
  BY <1>1, <1>2 DEF StaleKnown

\* Every step keeps the reserved units of a row those on their way.
LEMMA NextOutboundKept ==
  ASSUME TransfersShape, TransfersShape', OutboundInvariant, [TransfersNext]_allVars, NEW k \in Keys
  PROVE  OutboundKept(k)'
<1> DEFINE out == OrNew(InitialRows[k]).outboundTransfers
<1> SUFFICES ASSUME NoRaceOn(k)'
             PROVE  Stored'[k].outboundTransfers = out + OnTheirWay(k)'
  BY DEF OutboundKept
<1>0. /\ LedgerShape /\ TransfersTyped /\ TransfersTyped' /\ ~staleRow'[k]
      /\ OthersKeepAway /\ AllReserve /\ StaleKnown /\ OutboundKept(k)
  BY DEF TransfersShape, OutboundInvariant, NoRaceOn
<1>1. OnTheirWay(k) \in Int /\ out \in Nat
  <2>1. OnTheirWay(k) \in Int
    <3>1. IsFiniteSet(TransferIds) /\ \A id \in TransferIds : Amounts(k)[id] \in Int
      BY <1>0, AmountType, TransfersAssumption DEF Amounts
    <3>2. QED
      BY <3>1, SumType DEF OnTheirWay
  <2>2. OrNew(InitialRows[k]) \in Row
    <3>1. InitialRows[k] \in Row \cup {None} /\ NewRow(0) \in Row
      BY LedgerAssumption, NewRowType
    <3>2. QED
      BY <3>1 DEF OrNew
  <2>3. QED
    BY <2>1, <2>2 DEF Row
<1>2. ASSUME ~staleRow[k] PROVE Stored[k].outboundTransfers = out + OnTheirWay(k)
  <2>1. NoRaceOn(k)
    BY <1>0, <1>2, RacesStay
  <2>2. QED
    BY <1>0, <2>1 DEF OutboundKept
<1> HIDE DEF out
<1>3. ASSUME transfers' = transfers PROVE OnTheirWay(k)' = OnTheirWay(k)
  BY <1>3 DEF OnTheirWay, Amounts, AmountOf, Leaves
<1>4. ASSUME UNCHANGED ledgerVars PROVE Stored'[k] = Stored[k] /\ ~staleRow[k]
  BY <1>0, <1>4 DEF ledgerVars, ledgerTables, ledgerHistory, Stored
<1>5. CASE UNCHANGED allVars
  BY <1>2, <1>3, <1>4, <1>5 DEF allVars, transferVars
<1>6. CASE \E id \in TransferIds : Create(id)
  <2>1. PICK id \in TransferIds : Create(id)
    BY <1>6
  <2>2. /\ transfers[id].status = "NONE" /\ transfers'[id].status = "REQUESTED" /\ UNCHANGED ledgerVars
        /\ \A x \in TransferIds \ {id} : transfers'[x] = transfers[x]
    BY <1>0, <2>1, CreateEffect
  <2>3. AmountOf(transfers[id], k) = 0 /\ AmountOf(transfers'[id], k) = 0
    BY <2>2 DEF AmountOf
  <2>4. OnTheirWay(k)' = OnTheirWay(k) + (AmountOf(transfers'[id], k) - AmountOf(transfers[id], k))
    BY <1>0, <2>2, AmountsMove
  <2>5. OnTheirWay(k)' = OnTheirWay(k)
    BY <1>1, <2>3, <2>4
  <2>6. QED
    BY <1>2, <1>4, <2>2, <2>5
<1>7. ASSUME NEW t \in Transactions, Acts(t), ~SaveTransfer(t)
      PROVE  Stored'[k].outboundTransfers = out + OnTheirWay(k)'
  <2>1. transfers' = transfers
    BY <1>7 DEF Acts, Starts, transferVars
  <2>2. ~staleRow[k] /\ Stored'[k].outboundTransfers = Stored[k].outboundTransfers
    BY <1>0, <1>7, StoredOutbound
  <2>3. QED
    BY <1>2, <1>3, <2>1, <2>2
<1>8. ASSUME NEW t \in Transactions, SaveTransfer(t)
      PROVE  Stored'[k].outboundTransfers = out + OnTheirWay(k)'
  <2>0. Acts(t)
    BY <1>8 DEF Acts
  <2>h. PICK h, id : h = handling[t] /\ id = h.transfer
    OBVIOUS
  <2>1. /\ h # None /\ id \in TransferIds /\ Follows(h.loaded, h.next) /\ Known(transfers[id])
        /\ \A x \in TransferIds \ {id} : transfers'[x] = transfers[x]
        /\ transfers'[id].status = h.next /\ SameItems(transfers'[id], transfers[id])
        /\ staleTransfer'[id] = (staleTransfer[id] \/ transfers[id].status # h.loaded)
    BY <1>8, <2>h, SaveEffect
  <2>2. ~staleRow[k] /\ Stored'[k].outboundTransfers = Stored[k].outboundTransfers + Planned(t, k)
    BY <1>0, <1>8, <2>0, StoredOutbound
  <2>3. Planned(t, k) = ReservesOf(transfers[id], h.loaded, h.next, k)
    BY <2>1, <2>h DEF Planned
  <2>4. /\ AmountOf(transfers[id], k) \in Int /\ AmountOf(transfers'[id], k) \in Int
        /\ OnTheirWay(k)' = OnTheirWay(k) + (AmountOf(transfers'[id], k) - AmountOf(transfers[id], k))
    BY <1>0, <2>1, AmountsMove
  <2>5. AmountOf(transfers'[id], k) - AmountOf(transfers[id], k) = Planned(t, k)
    <3>1. CASE ~Leaves(transfers[id], k)
      <4>1. ~Leaves(transfers'[id], k)
        BY <2>1, <3>1 DEF SameItems, Leaves
      <4>2. AmountOf(transfers'[id], k) = 0 /\ AmountOf(transfers[id], k) = 0
        BY <3>1, <4>1 DEF AmountOf
      <4>3. Planned(t, k) = 0
        BY <2>3, <3>1 DEF Leaves, ReservesOf
      <4>4. QED
        BY <4>2, <4>3
    <3>2. CASE Leaves(transfers[id], k)
      <4>1. Leaves(transfers[id], k)'
        BY <2>1, <3>2 DEF SameItems, Leaves
      <4>2. ~staleTransfer'[id]
        BY <2>1, <4>1 DEF NoRaceOn
      <4>3. transfers[id].status = h.loaded
        BY <2>1, <4>2
      <4>4. AmountOf(transfers'[id], k) - AmountOf(transfers[id], k)
              = ReservesOf(transfers[id], transfers[id].status, transfers'[id].status, k)
        BY <2>1, <4>3, HandlerAmounts
      <4>5. QED
        BY <2>1, <2>3, <4>3, <4>4
    <3>3. QED
      BY <3>1, <3>2
  <2>6. QED
    BY <1>1, <1>2, <2>2, <2>4, <2>5
<1>9. QED
  BY <1>0, <1>5, <1>6, <1>7, <1>8, TransferSteps

\* Nothing is reserved or on its way at the start but what the rows say.
LEMMA InitOutbound == TransfersInit => OutboundInvariant
<1> SUFFICES ASSUME TransfersInit PROVE OutboundInvariant
  OBVIOUS
<1>1. /\ inventory = InitialRows /\ transactions = [t \in Transactions |-> Outside("ready")]
      /\ transfers = [id \in TransferIds |-> NoTransfer] /\ staleTransfer = [id \in TransferIds |-> FALSE]
  BY DEF TransfersInit, LedgerInit
<1>2. ASSUME NEW t \in Transactions
      PROVE  transactions[t].calls = <<>> /\ transactions[t].status = "ready"
  BY <1>1, OutsideFields
<1>3. OthersKeepAway
  BY <1>2 DEF OthersKeepAway, KeepsAway
<1>4. AllReserve
  BY <1>2 DEF AllReserve, Reserving, Running
<1>5. StaleKnown
  BY <1>1 DEF StaleKnown
<1>6. ASSUME NEW k \in Keys PROVE OutboundKept(k)
  <2>1. \A id \in TransferIds : Amounts(k)[id] = 0
    BY <1>1 DEF Amounts, AmountOf, NoTransfer
  <2>2. OnTheirWay(k) = 0
    BY <2>1, SumZero, TransfersAssumption DEF OnTheirWay
  <2>3. Stored[k] = OrNew(InitialRows[k])
    BY <1>1 DEF Stored
  <2>4. OrNew(InitialRows[k]).outboundTransfers \in Nat
    <3>1. InitialRows[k] \in Row \cup {None} /\ NewRow(0) \in Row
      BY LedgerAssumption, NewRowType
    <3>2. QED
      BY <3>1 DEF OrNew, Row
  <2>5. QED
    BY <2>2, <2>3, <2>4 DEF OutboundKept
<1>7. QED
  BY <1>3, <1>4, <1>5, <1>6 DEF OutboundInvariant

\* What the invariant says of a row, in the words of the property.
LEMMA OutboundMatches == TransfersTyped /\ OutboundInvariant => OutboundMatchesDispatched
<1> SUFFICES ASSUME TransfersTyped, OutboundInvariant, NEW k \in Keys, ~staleRow[k],
                    \A id \in TransferIds : Leaves(transfers[id], k) => ~staleTransfer[id]
             PROVE  OrNew(inventory[k]).outboundTransfers =
                      OrNew(InitialRows[k]).outboundTransfers
                        + SumOver({id \in {x \in TransferIds : Leaves(transfers[x], k)} :
                                     transfers[id].status = "DISPATCHED"},
                                  LAMBDA id : transfers[id].items[k[2]])
  BY DEF OutboundMatchesDispatched, Leaves
<1> DEFINE D == {id \in {x \in TransferIds : Leaves(transfers[x], k)} : transfers[id].status = "DISPATCHED"}
           Rest == TransferIds \ D
           F == [id \in D |-> transfers[id].items[k[2]]]
<1>1. Stored[k].outboundTransfers = OrNew(InitialRows[k]).outboundTransfers + OnTheirWay(k)
  BY DEF OutboundInvariant, OutboundKept, NoRaceOn
<1>2. /\ \A id \in D : Amounts(k)[id] = F[id]
      /\ \A id \in Rest : Amounts(k)[id] = 0
      /\ D \cap Rest = {} /\ D \cup Rest = TransferIds
  BY DEF Amounts, AmountOf
<1>3. SumOver(D, LAMBDA id : transfers[id].items[k[2]]) = SumFunctionOnSet(F, D)
  BY DEF SumOver
<1>4. IsFiniteSet(D) /\ IsFiniteSet(Rest)
  BY TransfersAssumption, FS_Subset
<1>5. \A id \in D \cup Rest : Amounts(k)[id] \in Int
  <2>1. \A id \in TransferIds : AmountOf(transfers[id], k) \in Int
    BY AmountType
  <2>2. QED
    BY <2>1 DEF Amounts
<1> HIDE DEF D, Rest, F
<1>6. SumFunctionOnSet(Amounts(k), D \cup Rest) = SumFunctionOnSet(Amounts(k), D) + SumFunctionOnSet(Amounts(k), Rest)
  BY <1>2, <1>4, <1>5, SumUnion
<1>7. SumFunctionOnSet(Amounts(k), Rest) = 0 /\ SumFunctionOnSet(Amounts(k), D) = SumFunctionOnSet(F, D)
  BY <1>2, <1>4, SumZero, SumSame
<1>8. SumFunctionOnSet(Amounts(k), D) \in Int
  BY <1>4, <1>5, SumType
<1>9. OnTheirWay(k) = SumFunctionOnSet(F, D)
  <2> DEFINE all == SumFunctionOnSet(Amounts(k), D \cup Rest)
             first == SumFunctionOnSet(Amounts(k), D)
             rest == SumFunctionOnSet(Amounts(k), Rest)
             f == SumFunctionOnSet(F, D)
  <2>1. OnTheirWay(k) = all
    BY <1>2 DEF OnTheirWay
  <2>2. all = first + rest /\ rest = 0 /\ first = f /\ first \in Int
    BY <1>6, <1>7, <1>8
  <2> HIDE DEF all, first, rest, f
  <2>3. OnTheirWay(k) = f
    BY <2>1, <2>2
  <2>4. QED
    BY <2>3 DEF f
<1>10. QED
  BY <1>1, <1>3, <1>9 DEF Stored, D

\* dispatch, receive and cancel keep outboundTransfers the units that are on
\* their way, whatever else uses the ledger, refuses, fails or deadlocks, on
\* every row that was not saved from an outdated read (OutboundMatchesDispatched).
THEOREM OutboundIsDispatched == TransfersSpec => []OutboundMatchesDispatched
<1>1. TransfersInit => OutboundInvariant
  BY InitOutbound
<1>2. TransfersShape /\ TransfersShape' /\ OutboundInvariant /\ [TransfersNext]_allVars => OutboundInvariant'
  <2> SUFFICES ASSUME TransfersShape, TransfersShape', OutboundInvariant, [TransfersNext]_allVars
               PROVE  OutboundInvariant'
    OBVIOUS
  <2>1. OthersKeepAway' /\ AllReserve'
    BY NextKeepsAway, NextReserves DEF OutboundInvariant
  <2>2. StaleKnown'
    BY RacesStay DEF OutboundInvariant
  <2>3. \A k \in Keys : OutboundKept(k)'
    BY NextOutboundKept
  <2>4. QED
    BY <2>1, <2>2, <2>3 DEF OutboundInvariant
<1>3. TransfersShape /\ OutboundInvariant => OutboundMatchesDispatched
  BY OutboundMatches DEF TransfersShape
<1>4. QED
  BY <1>1, <1>2, <1>3, TransfersKeepShape, PTL DEF TransfersSpec

-----------------------------------------------------------------------------
(* A unit on its way is promised to nobody else                             *)

\* Movements by which other callers than h's have taken units from a row, how
\* many, and what a row may lack on their account and from the start.
Taken(E, h, k) == {e \in E : e.row = k /\ h[e.transaction] = None /\ e.delta < 0}
UnitsOf(E) == SumOver(E, LAMBDA e : -e.delta)
Lacks(E, h) == [k \in Keys |-> InitialShortfall(k) + UnitsOf(Taken(E, h, k))]

\* The stock of a row that may lack some units covers what leaves it, its safety
\* stock and n units more.
Covers(row, lacks, n) ==
  row.quantityOnHand + lacks >= row.outboundTransfers + row.safetyStock + n

\* Units are counted.
LEMMA UnitsType ==
  ASSUME NEW E, IsFiniteSet(E), E \subseteq StockMovement, \A e \in E : e.delta < 0
  PROVE  UnitsOf(E) \in Nat
<1> DEFINE F == [e \in E |-> -e.delta]
<1>1. UnitsOf(E) = SumFunctionOnSet(F, E)
  BY DEF UnitsOf, SumOver
<1>2. \A e \in E : F[e] \in Nat
  BY DEF StockMovement
<1> HIDE DEF F
<1>3. QED
  BY <1>1, <1>2, SumNat

\* One movement more takes its units.
LEMMA UnitsAdd ==
  ASSUME NEW E, IsFiniteSet(E), E \subseteq StockMovement, NEW e \in StockMovement, e \notin E
  PROVE  UnitsOf(E \cup {e}) = UnitsOf(E) - e.delta
<1> DEFINE F == [x \in E |-> -x.delta]
           G == [x \in E \cup {e} |-> -x.delta]
<1>1. UnitsOf(E) = SumFunctionOnSet(F, E) /\ UnitsOf(E \cup {e}) = SumFunctionOnSet(G, E \cup {e})
  BY DEF UnitsOf, SumOver
<1>2. /\ \A x \in E : F[x] = G[x] /\ F[x] \in Int /\ G[x] \in Int
      /\ G[e] = -e.delta /\ e.delta \in Int /\ G[e] \in Int
  BY DEF StockMovement
<1> HIDE DEF F, G
<1>3. SumFunctionOnSet(G, E \cup {e}) = G[e] + SumFunctionOnSet(G, E)
  BY <1>2, SumAdd
<1>4. SumFunctionOnSet(F, E) = SumFunctionOnSet(G, E)
  BY <1>2, SumSame
<1>5. SumFunctionOnSet(F, E) \in Int
  BY <1>2, SumType
<1>6. QED
  BY <1>1, <1>2, <1>3, <1>4, <1>5

\* What a row may lack is a count.
LEMMA LacksType ==
  ASSUME NEW E, IsFiniteSet(E), E \subseteq StockMovement, NEW h, NEW k \in Keys
  PROVE  /\ Lacks(E, h)[k] = InitialShortfall(k) + UnitsOf(Taken(E, h, k))
         /\ InitialShortfall(k) \in Nat /\ UnitsOf(Taken(E, h, k)) \in Nat /\ Lacks(E, h)[k] \in Nat
         /\ IsFiniteSet(Taken(E, h, k)) /\ Taken(E, h, k) \subseteq StockMovement
<1>1. Taken(E, h, k) \subseteq E /\ \A e \in Taken(E, h, k) : e.delta < 0
  BY DEF Taken
<1>2. IsFiniteSet(Taken(E, h, k)) /\ Taken(E, h, k) \subseteq StockMovement
  BY <1>1, FS_Subset
<1>3. UnitsOf(Taken(E, h, k)) \in Nat
  BY <1>1, <1>2, UnitsType
<1>4. OrNew(InitialRows[k]) \in Row
  BY NewRowType, LedgerAssumption DEF OrNew
<1>5. InitialShortfall(k) \in Nat
  BY <1>4, NonNegativeType DEF InitialShortfall, Row
<1>6. Lacks(E, h)[k] = InitialShortfall(k) + UnitsOf(Taken(E, h, k))
  BY DEF Lacks
<1>7. QED
  BY <1>2, <1>3, <1>5, <1>6

\* A movement that takes units from its row lets the row lack as many more.
LEMMA LacksAdd ==
  ASSUME NEW E, IsFiniteSet(E), E \subseteq StockMovement, NEW h, NEW k \in Keys,
         NEW e \in StockMovement, e \notin E
  PROVE  Lacks(E \cup {e}, h)[k] =
           Lacks(E, h)[k] + (IF e \in Taken({e}, h, k) THEN -e.delta ELSE 0)
<1> DEFINE old == Taken(E, h, k)
           units == UnitsOf(old)
           start == InitialShortfall(k)
<1>1. /\ Lacks(E, h)[k] = start + units /\ start \in Nat /\ units \in Nat
      /\ IsFiniteSet(old) /\ old \subseteq StockMovement
  BY LacksType
<1>2. Lacks(E \cup {e}, h)[k] = start + UnitsOf(Taken(E \cup {e}, h, k))
  BY DEF Lacks
<1>3. e.delta \in Int
  BY DEF StockMovement
<1>4. CASE e \in Taken({e}, h, k)
  <2>1. Taken(E \cup {e}, h, k) = old \cup {e} /\ e \notin old
    BY <1>4 DEF Taken
  <2>2. UnitsOf(old \cup {e}) = units - e.delta
    BY <1>1, <2>1, UnitsAdd
  <2>3. (IF e \in Taken({e}, h, k) THEN -e.delta ELSE 0) = -e.delta
    BY <1>4
  <2>4. Lacks(E \cup {e}, h)[k] = start + (units - e.delta)
    BY <1>2, <2>1, <2>2
  <2> HIDE DEF old, units, start
  <2>5. start + (units - e.delta) = (start + units) + (-e.delta)
    BY <1>1, <1>3
  <2>6. QED
    BY <1>1, <2>3, <2>4, <2>5
<1>5. CASE e \notin Taken({e}, h, k)
  <2>1. Taken(E \cup {e}, h, k) = old
    BY <1>5 DEF Taken
  <2> HIDE DEF old, units, start
  <2>2. QED
    BY <1>1, <1>2, <1>5, <2>1 DEF units
<1>6. QED
  BY <1>4, <1>5

\* The units that the next call takes away from a row, if it takes some.
Slack(calls, k) ==
  IF calls # <<>> /\ Risky(Head(calls)) /\ Head(calls).row = k
  THEN IF Head(calls).delta < 0 THEN -Head(calls).delta ELSE Head(calls).delta
  ELSE 0

\* Calls that take something away come right after those that prepare them.
OrderlyRest(calls) ==
  \A n \in DOMAIN calls : n > 1 /\ Risky(calls[n]) =>
    n - 1 \in DOMAIN calls /\ Prepares(calls[n - 1], calls[n])

\* What a call takes away is a count, and only of its own row.
LEMMA SlackType ==
  ASSUME NEW calls \in Seq(LedgerCall), NEW k
  PROVE  Slack(calls, k) \in Nat
<1>1. calls # <<>> => Head(calls).delta \in Int
  BY RestOfCalls DEF LedgerCall
<1>2. QED
  BY <1>1 DEF Slack

\* The call after the first one has been prepared by it.
LEMMA RestIsOrderly ==
  ASSUME NEW calls \in Seq(LedgerCall), calls # <<>>, OrderlyRest(calls)
  PROVE  /\ OrderlyRest(Tail(calls))
         /\ Tail(calls) # <<>> /\ Risky(Head(Tail(calls))) => Prepares(Head(calls), Head(Tail(calls)))
<1> DEFINE rest == Tail(calls)
<1>1. /\ rest \in Seq(LedgerCall) /\ Len(rest) \in Nat /\ Len(calls) \in Nat
      /\ DOMAIN rest = 1 .. Len(rest) /\ DOMAIN calls = 1 .. Len(calls) /\ Len(rest) = Len(calls) - 1
      /\ \A n \in DOMAIN rest : n + 1 \in DOMAIN calls /\ rest[n] = calls[n + 1]
      /\ Head(calls) = calls[1]
  BY RestOfCalls
<1>2. rest # <<>> => 1 \in DOMAIN rest /\ Head(rest) = rest[1]
  BY <1>1
<1> HIDE DEF rest
<1>3. OrderlyRest(rest)
  <2> SUFFICES ASSUME NEW n \in DOMAIN rest, n > 1, Risky(rest[n])
               PROVE  n - 1 \in DOMAIN rest /\ Prepares(rest[n - 1], rest[n])
    BY DEF OrderlyRest
  <2>1. n \in Nat /\ n + 1 \in DOMAIN calls /\ n + 1 > 1 /\ rest[n] = calls[n + 1] /\ (n + 1) - 1 = n
    BY <1>1
  <2>2. Prepares(calls[n], calls[n + 1])
    BY <2>1 DEF OrderlyRest
  <2>3. n - 1 \in DOMAIN rest /\ (n - 1) + 1 = n
    BY <1>1, <2>1
  <2>4. rest[n - 1] = calls[n]
    BY <1>1, <2>3
  <2>5. QED
    BY <2>1, <2>2, <2>3, <2>4
<1>4. ASSUME rest # <<>>, Risky(Head(rest)) PROVE Prepares(Head(calls), Head(rest))
  <2>1. 1 + 1 \in DOMAIN calls /\ Head(rest) = calls[1 + 1]
    BY <1>1, <1>2, <1>4
  <2>2. (1 + 1) - 1 = 1 /\ 1 + 1 > 1
    OBVIOUS
  <2>3. Prepares(calls[(1 + 1) - 1], calls[1 + 1])
    BY <1>4, <2>1, <2>2 DEF OrderlyRest
  <2>4. QED
    BY <1>1, <2>1, <2>2, <2>3
<1>5. QED
  BY <1>3, <1>4 DEF rest

\* Calls in order have nothing to take away at first.
LEMMA OrderlyStarts ==
  ASSUME NEW calls \in Seq(LedgerCall), Orderly(calls)
  PROVE  OrderlyRest(calls) /\ \A k : Slack(calls, k) = 0
<1>1. OrderlyRest(calls)
  BY DEF Orderly, OrderlyRest
<1>2. calls # <<>> => ~Risky(Head(calls))
  <2>1. calls # <<>> => 1 \in DOMAIN calls /\ Head(calls) = calls[1] /\ 1 - 1 \notin DOMAIN calls
    BY RestOfCalls
  <2>2. QED
    BY <2>1 DEF Orderly
<1>3. QED
  BY <1>1, <1>2 DEF Slack

\* A call that changes a row leaves what the next one takes away.
LEMMA CallCovers ==
  ASSUME NEW calls \in Seq(LedgerCall), calls # <<>>, OrderlyRest(calls), NEW call, call = Head(calls),
         call.column # "availableToSell", NEW row \in Row, Changed(call, row) \in Row,
         NEW lacks \in Nat, Covers(row, lacks, Slack(calls, call.row))
  PROVE  /\ Covers(Changed(call, row), lacks, Slack(Tail(calls), call.row))
         /\ \A k : k # call.row => Slack(Tail(calls), k) = 0
<1> DEFINE made == Changed(call, row)
           rest == Tail(calls)
           next == Head(rest)
           d == call.delta
<1>1. call \in LedgerCall /\ rest \in Seq(LedgerCall) /\ d \in Int /\ call.column \in Columns
  BY RestOfCalls DEF LedgerCall
<1>2. /\ made.quantityOnHand = row.quantityOnHand + (IF call.column = "quantityOnHand" THEN d ELSE 0)
      /\ made.outboundTransfers = row.outboundTransfers + (IF call.column = "outboundTransfers" THEN d ELSE 0)
      /\ made.safetyStock = row.safetyStock
  BY <1>1, ChangedColumn
<1>3. row.quantityOnHand \in Nat /\ row.outboundTransfers \in Nat /\ row.safetyStock \in Nat
  BY DEF Row
<1>4. rest # <<>> /\ Risky(next) => Prepares(call, next)
  BY RestIsOrderly
<1>5. \A k : k # call.row => Slack(rest, k) = 0
  BY <1>4 DEF Slack, Prepares
<1>6. rest # <<>> /\ Risky(next) =>
        /\ next.row = call.row /\ next.delta = d /\ next.column = "quantityOnHand"
        /\ d < 0 /\ call.column = "outboundTransfers"
  BY <1>1, <1>4 DEF Risky, Prepares
<1>7. Slack(rest, call.row) = IF rest # <<>> /\ Risky(next) THEN -d ELSE 0
  BY <1>6 DEF Slack
<1>8. Slack(calls, call.row) = IF Risky(call) THEN IF d < 0 THEN -d ELSE d ELSE 0
  BY DEF Slack
<1>9. Risky(call) <=> \/ call.column = "outboundTransfers" /\ d > 0
                      \/ call.column = "quantityOnHand" /\ d < 0
  BY DEF Risky
<1> DEFINE more == rest # <<>> /\ Risky(next)
<1>10. more => call.column = "outboundTransfers" /\ d < 0
  BY <1>6
<1>11. Slack(rest, call.row) = IF more THEN -d ELSE 0
  BY <1>7
<1> DEFINE before == Slack(calls, call.row)
           after == Slack(rest, call.row)
<1> HIDE DEF made, rest, next, d, more, before, after
<1>12. CASE call.column = "quantityOnHand"
  <2>1. after = 0 /\ before = IF d < 0 THEN -d ELSE 0
    BY <1>8, <1>9, <1>10, <1>11, <1>12 DEF before, after
  <2>2. /\ made.quantityOnHand = row.quantityOnHand + d
        /\ made.outboundTransfers = row.outboundTransfers + 0
    BY <1>2, <1>12
  <2>3. Covers(row, lacks, before)
    BY DEF before
  <2>4. Covers(made, lacks, after)
    BY <1>1, <1>2, <1>3, <2>1, <2>2, <2>3 DEF Covers
  <2>5. QED
    BY <1>5, <2>4 DEF made, rest, after
<1>13. CASE call.column = "outboundTransfers"
  <2>1. /\ before = IF d > 0 THEN d ELSE 0
        /\ after = 0 \/ (d < 0 /\ after = -d)
    BY <1>1, <1>8, <1>9, <1>10, <1>11, <1>13 DEF before, after
  <2>2. /\ made.quantityOnHand = row.quantityOnHand + 0
        /\ made.outboundTransfers = row.outboundTransfers + d
    BY <1>2, <1>13
  <2>3. Covers(row, lacks, before)
    BY DEF before
  <2>4. CASE d > 0
    BY <1>1, <1>2, <1>3, <1>5, <2>1, <2>2, <2>3, <2>4 DEF Covers, made, rest, after
  <2>5. CASE ~(d > 0)
    <3>1. before = 0 /\ after <= -d /\ after \in Int
      BY <1>1, <2>1, <2>5
    <3>2. Covers(made, lacks, after)
      BY <1>1, <1>2, <1>3, <2>2, <2>3, <3>1 DEF Covers
    <3>3. QED
      BY <1>5, <3>2 DEF made, rest, after
  <2>6. QED
    BY <2>4, <2>5
<1>14. CASE call.column # "quantityOnHand" /\ call.column # "outboundTransfers"
  <2>1. before = 0 /\ after = 0
    BY <1>8, <1>9, <1>10, <1>11, <1>14 DEF before, after
  <2>2. /\ made.quantityOnHand = row.quantityOnHand + 0
        /\ made.outboundTransfers = row.outboundTransfers + 0
    BY <1>2, <1>14
  <2>3. Covers(row, lacks, before)
    BY DEF before
  <2>4. Covers(made, lacks, after)
    BY <1>2, <1>3, <2>1, <2>2, <2>3 DEF Covers
  <2>5. QED
    BY <1>5, <2>4 DEF made, rest, after
<1>15. QED
  BY <1>12, <1>13, <1>14 DEF made, rest

\* Units that are available are in stock, and neither reserved nor set aside.
LEMMA FreeUnits ==
  ASSUME NEW row \in Row, NEW d \in Int, d > 0, AvailableToSell(row) >= d
  PROVE  row.quantityOnHand >= row.outboundTransfers + row.safetyStock + d
<1>1. row.quantityOnHand \in Nat /\ row.outboundTransfers \in Nat /\ row.safetyStock \in Nat
      /\ row.reservedOnline \in Nat
  BY DEF Row
<1>2. QED
  BY <1>1 DEF AvailableToSell, NonNegative

\* dispatch's check finds the units that the next call reserves.
LEMMA CheckCovers ==
  ASSUME NEW calls \in Seq(LedgerCall), calls # <<>>, OrderlyRest(calls), NEW call, call = Head(calls),
         call.column = "availableToSell", NEW row \in Row, AvailableToSell(row) >= call.delta,
         NEW lacks \in Nat, Covers(row, lacks, 0)
  PROVE  /\ Covers(row, lacks, Slack(Tail(calls), call.row))
         /\ \A k : k # call.row => Slack(Tail(calls), k) = 0
<1> DEFINE rest == Tail(calls)
           next == Head(rest)
           d == call.delta
<1>1. call \in LedgerCall /\ rest \in Seq(LedgerCall) /\ d \in Int
  BY RestOfCalls DEF LedgerCall
<1>2. rest # <<>> /\ Risky(next) => Prepares(call, next)
  BY RestIsOrderly
<1>3. \A k : k # call.row => Slack(rest, k) = 0
  BY <1>2 DEF Slack, Prepares
<1>4. rest # <<>> /\ Risky(next) =>
        next.row = call.row /\ next.delta = d /\ d > 0
  BY <1>1, <1>2 DEF Risky, Prepares
<1>5. Slack(rest, call.row) = IF rest # <<>> /\ Risky(next) THEN d ELSE 0
  BY <1>1, <1>4 DEF Slack
<1>6. row.quantityOnHand \in Nat /\ row.outboundTransfers \in Nat /\ row.safetyStock \in Nat
      /\ row.reservedOnline \in Nat
  BY DEF Row
<1>7. d > 0 => Covers(row, lacks, d)
  <2>1. d > 0 => row.quantityOnHand >= row.outboundTransfers + row.safetyStock + d
    BY <1>1, <1>6, FreeUnits
  <2> HIDE DEF d
  <2>2. QED
    BY <1>1, <1>6, <2>1 DEF Covers
<1>8. Covers(row, lacks, Slack(rest, call.row))
  <2>1. CASE rest # <<>> /\ Risky(next)
    <3>1. Slack(rest, call.row) = d /\ Covers(row, lacks, d)
      BY <1>4, <1>5, <1>7, <2>1
    <3>2. QED
      BY <3>1
  <2>2. CASE ~(rest # <<>> /\ Risky(next))
    <3>1. Slack(rest, call.row) = 0
      BY <1>5, <2>2
    <3>2. QED
      BY <3>1
  <2>3. QED
    BY <2>1, <2>2
<1>9. QED
  BY <1>3, <1>8

\* Another caller's call takes what the row may lack from then on.
LEMMA OtherCallCovers ==
  ASSUME NEW call \in LedgerCall, call.column # "availableToSell", call.column # "outboundTransfers",
         NEW row \in Row, Changed(call, row) \in Row, NEW lacks \in Nat, Covers(row, lacks, 0)
  PROVE  Covers(Changed(call, row),
                lacks + (IF DeltaOf(call) < 0 THEN -DeltaOf(call) ELSE 0), 0)
<1> DEFINE made == Changed(call, row)
           d == DeltaOf(call)
<1>1. d \in Int /\ call.column \in Columns /\ call.delta \in Int
  BY DEF DeltaOf, LedgerCall
<1>2. /\ made.quantityOnHand = row.quantityOnHand + d
      /\ made.outboundTransfers = row.outboundTransfers
      /\ made.safetyStock = row.safetyStock
  BY <1>1, ChangedColumn DEF DeltaOf, Row
<1>3. row.quantityOnHand \in Nat /\ row.outboundTransfers \in Nat /\ row.safetyStock \in Nat
  BY DEF Row
<1> HIDE DEF made, d
<1>4. Covers(made, lacks + (IF d < 0 THEN -d ELSE 0), 0)
  BY <1>1, <1>2, <1>3 DEF Covers
<1>5. QED
  BY <1>4 DEF made, d

\* A transaction that works alone: its handler's calls come in order, the rows it
\* sees cover what the next one takes away, and what it has read is still there.
InOrder(q, rows, lacks, calls) ==
  /\ OrderlyRest(calls)
  /\ \A k \in Keys : Covers(rows[k], lacks[k], Slack(calls, k))
  /\ q.phase \in {"select", "update"} => q.loaded = rows[Head(q.calls).row]
  /\ q.phase = "update" => q.selected = rows[Head(q.calls).row]

\* A handler's calls; other callers may come in any order.
HandlerLeft(q, h) == IF h = None THEN <<>> ELSE Remaining(q)

StoredLacks == Lacks(stockMovements, handling)
SeenLacks(t) == Lacks(stockMovements \cup transactions[t].posted, handling)

AtWork(t) ==
  InOrder(transactions[t], SeenRows(t), SeenLacks(t), HandlerLeft(transactions[t], handling[t]))

CoverInvariant ==
  ~disturbed =>
    /\ \A t, u \in Transactions : Running(t) /\ Running(u) => t = u
    /\ \A t \in Transactions : Running(t) => AtWork(t)
    /\ \A k \in Keys : Covers(Stored[k], StoredLacks[k], 0)

\* The next state's lacks, of the movements and the callers that it has.
LEMMA NextLacks ==
  ASSUME NEW t
  PROVE  /\ StoredLacks' = Lacks(stockMovements', handling')
         /\ SeenLacks(t)' = Lacks(stockMovements' \cup transactions'[t].posted, handling')
BY DEF StoredLacks, SeenLacks, Lacks, Taken, UnitsOf, SumOver

\* Being in order, in the next state.
LEMMA AtWorkNext ==
  ASSUME NEW t \in Transactions,
         InOrder(transactions'[t], SeenRows(t)',
                 Lacks(stockMovements' \cup transactions'[t].posted, handling'),
                 HandlerLeft(transactions'[t], handling'[t]))
  PROVE  AtWork(t)'
<1>1. SeenLacks(t)' = Lacks(stockMovements' \cup transactions'[t].posted, handling')
  BY NextLacks
<1>2. HandlerLeft(transactions[t], handling[t])' = HandlerLeft(transactions'[t], handling'[t])
  BY DEF HandlerLeft, Remaining
<1>3. InOrder(transactions'[t], SeenRows(t)', SeenLacks(t)', HandlerLeft(transactions[t], handling[t])')
  BY <1>1, <1>2
<1>4. QED
  BY <1>3 DEF AtWork, InOrder, OrderlyRest, Covers, Slack, Risky, Prepares

\* What a save leaves of the row: what the call has made of the row that is there.
LEMMA SeenAfterSave ==
  ASSUME LedgerShape, NEW t \in Transactions, Writes(t), CallStep(t), ~Aborts(t), AtWork(t)
  PROVE  LET call == Current(t)  row == SeenRows(t)[Current(t).row]
         IN  /\ Changed(call, row) \in Row /\ row \in Row /\ call.column # "availableToSell"
             /\ call.row \in Keys /\ call = Head(transactions[t].calls)
             /\ \A k \in Keys : SeenRows(t)'[k] = IF k = call.row THEN Changed(call, row)
                                                                  ELSE SeenRows(t)[k]
<1> DEFINE q == transactions[t]
           n == transactions'[t]
           call == Current(t)
           c == call.row
           row == SeenRows(t)[c]
           made == Changed(call, row)
<1>0. /\ Typed /\ LedgerTyped /\ Shape(t, q)
      /\ inventory \in [Keys -> Row \cup {None}] /\ q.rows \in [Keys -> Row \cup {None}]
  BY TransactionColumns DEF LedgerShape, LedgerTyped, Typed, AvailabilityInvariant, Shapes, LedgerTypeOK
<1>1. /\ q.phase = "update" /\ q.calls # <<>> /\ call \in LedgerCall /\ c \in Keys /\ call = Head(q.calls)
  BY SavedCall DEF Writes, Current
<1>2. q.loaded \in Row /\ q.entity \in Row /\ q.selected \in Row
  BY <1>0, TransactionColumns
<1>3. row = Found(t, c) /\ \A k \in Keys : SeenRows(t)[k] = Found(t, k) /\ SeenRows(t)'[k] = Found(t, k)'
  BY <1>1 DEF SeenRows
<1>4. q.loaded = row /\ q.selected = row
  BY <1>1 DEF AtWork, InOrder
<1>5. call.column # "availableToSell" /\ q.entity = made
  BY <1>0, <1>1, <1>4 DEF Shape
<1>6. made \in Row /\ row \in Row /\ made # None
  BY <1>2, <1>4, <1>5, LedgerAssumption
<1>7. SkipUpdate(t) => made = row
  BY <1>4, <1>5 DEF SkipUpdate
<1>8. RowSaved(t) = made
  <2>1. SavedRecord(q.entity, row, row) = q.entity
    BY <1>2, <1>6, FreshSave
  <2>2. QED
    BY <1>3, <1>4, <1>5, <2>1 DEF RowSaved
<1> HIDE DEF made, row
<1>9. ASSUME NEW k \in Keys PROVE Found(t, k)' = IF k = c THEN made ELSE Found(t, k)
  <2>1. CASE SkipUpdate(t) /\ n.rows = q.rows /\ inventory' = inventory
    BY <1>3, <1>7, <2>1 DEF Found, View
  <2>2. CASE inventory' = inventory /\ n.rows = [q.rows EXCEPT ![c] = RowSaved(t)]
    BY <1>0, <1>1, <1>6, <1>8, <2>2 DEF Found, View, OrNew
  <2>3. CASE /\ n.rows = q.rows /\ q.rows = [x \in Keys |-> None]
             /\ inventory' = [inventory EXCEPT ![c] = RowSaved(t)]
    BY <1>0, <1>1, <1>6, <1>8, <2>3 DEF Found, View, OrNew
  <2>4. CASE Remaining(n) = Remaining(q) /\ n.rows = q.rows /\ inventory' = inventory
    <3>1. Remaining(q) = q.calls /\ Remaining(n) = Tail(q.calls) /\ q.calls \in Seq(LedgerCall)
      BY <1>0, RemainingStep, TransactionColumns
    <3>2. Len(Tail(q.calls)) = Len(q.calls) - 1 /\ Len(q.calls) \in Nat
      BY <1>1, <3>1, RestOfCalls
    <3>3. Tail(q.calls) = q.calls
      BY <2>4, <3>1
    <3>4. Len(q.calls) = Len(q.calls) - 1
      BY <3>2, <3>3
    <3>5. QED
      BY <3>2, <3>4
  <2>5. ~CheckAvailability(t)
    BY <1>1, StepsRun
  <2>6. QED
    BY <2>1, <2>2, <2>3, <2>4, <2>5, RowsAfter
<1>10. QED
  BY <1>1, <1>3, <1>5, <1>6, <1>9 DEF made, row

\* What may be lacking after a call: what it has taken, unless a handler makes it.
LEMMA LacksAfter ==
  ASSUME LedgerShape, NEW t \in Transactions, CallStep(t), ~Aborts(t), handling' = handling
  PROVE  LET after == Lacks(stockMovements' \cup transactions'[t].posted, handling')
             d == DeltaOf(Current(t))
         IN  /\ stockMovements' = stockMovements
             /\ \A k \in Keys : SeenLacks(t)[k] \in Nat
             /\ ~Writes(t) => after = SeenLacks(t)
             /\ Writes(t) => \A k \in Keys : after[k] =
                  SeenLacks(t)[k] + (IF k = Current(t).row /\ handling[t] = None /\ d < 0
                                     THEN -d ELSE 0)
<1> DEFINE q == transactions[t]
           n == transactions'[t]
           call == Current(t)
           E == stockMovements \cup q.posted
           d == DeltaOf(call)
<1>0. /\ Typed /\ LedgerTyped /\ Shape(t, q) /\ q.calls # <<>> /\ call = Head(q.calls)
  BY RemainingStep DEF LedgerShape, LedgerTyped, Typed, AvailabilityInvariant, Shapes, Current
<1>1. /\ n.posted \in {q.posted, {}, q.posted \cup Posted(t)}
      /\ stockMovements' = stockMovements
  <2>1. CallerStep(t) /\ ~Commit(t)
    BY <1>0 DEF CallerStep, Commit, Done
  <2>2. QED
    BY <1>0, <2>1, StepWrites
<1>2. IsFiniteSet(E) /\ E \subseteq StockMovement
  <2>1. /\ stockMovements \subseteq StockMovement /\ q.posted \subseteq StockMovement
        /\ IsFiniteSet(stockMovements) /\ IsFiniteSet(q.posted)
    BY <1>0, TransactionColumns DEF LedgerShape, Finite, LedgerTyped, LedgerTypeOK
  <2>2. QED
    BY <2>1, FS_Union
<1>3. SeenLacks(t) = Lacks(E, handling)
  BY DEF SeenLacks
<1>4. \A k \in Keys : SeenLacks(t)[k] \in Nat
  BY <1>2, <1>3, LacksType
<1>5. ASSUME ~Writes(t) PROVE stockMovements' \cup n.posted = E
  BY <1>1, <1>5, RemainingStep
<1>6. ASSUME Writes(t)
      PROVE  /\ stockMovements' \cup n.posted = E \cup Posted(t) /\ Posted(t) \cap E = {}
             /\ \/ Posted(t) = {} /\ d = 0
                \/ \E e \in StockMovement :
                     Posted(t) = {e} /\ d = e.delta /\ e.row = call.row /\ e.transaction = t
  <2>1. /\ Posted(t) \cap stockMovements = {} /\ Posted(t) \cap q.posted = {}
        /\ \A e \in Posted(t) : e.row = call.row
        /\ \/ Posted(t) = {} /\ d = 0
           \/ \E e \in StockMovement : Posted(t) = {e} /\ d = e.delta
    BY <1>6, PostedMoves DEF Writes
  <2>2. \A e \in Posted(t) : e.transaction = t
    BY DEF Posted
  <2>3. n.posted = q.posted \cup Posted(t)
    <3>1. CASE q.atomic
      BY <1>6, <3>1, RemainingStep
    <3>2. CASE ~q.atomic
      <4>1. 1 \in DOMAIN q.calls /\ call = q.calls[1]
        BY <1>0, TransactionColumns, RestOfCalls
      <4>2. q.posted = {} /\ call.column # "quantityOnHand"
        BY <1>0, <3>2, <4>1 DEF Shape
      <4>3. Posted(t) = {}
        BY <4>2 DEF Posted
      <4>4. QED
        BY <1>1, <4>2, <4>3
    <3>3. QED
      BY <3>1, <3>2
  <2>4. QED
    BY <1>1, <2>1, <2>2, <2>3
<1> DEFINE after == Lacks(stockMovements' \cup n.posted, handling')
<1>7. ~Writes(t) => after = SeenLacks(t)
  BY <1>3, <1>5
<1>8. ASSUME Writes(t), NEW k \in Keys
      PROVE  after[k] = SeenLacks(t)[k] + (IF k = call.row /\ handling[t] = None /\ d < 0
                                           THEN -d ELSE 0)
  <2>1. after = Lacks(E \cup Posted(t), handling)
    BY <1>6, <1>8
  <2>2. CASE Posted(t) = {} /\ d = 0
    <3>1. after = SeenLacks(t)
      BY <1>3, <2>1, <2>2
    <3>2. QED
      BY <1>4, <2>2, <3>1
  <2>3. ASSUME NEW e \in StockMovement,
               Posted(t) = {e} /\ d = e.delta /\ e.row = call.row /\ e.transaction = t
        PROVE  after[k] = SeenLacks(t)[k] + (IF k = call.row /\ handling[t] = None /\ d < 0
                                             THEN -d ELSE 0)
    <3>1. e \notin E
      BY <1>6, <1>8, <2>3
    <3>2. e \in Taken({e}, handling, k) <=> k = call.row /\ handling[t] = None /\ d < 0
      BY <2>3 DEF Taken
    <3>3. Lacks(E \cup {e}, handling)[k] =
            Lacks(E, handling)[k] + (IF e \in Taken({e}, handling, k) THEN -e.delta ELSE 0)
      BY <1>2, <3>1, LacksAdd
    <3>4. QED
      BY <1>3, <2>1, <2>3, <3>2, <3>3
  <2>4. QED
    BY <1>6, <1>8, <2>2, <2>3
<1>9. QED
  BY <1>1, <1>4, <1>7, <1>8

\* A call that takes nothing away needs nothing; no calls need nothing.
LEMMA NothingNeeded ==
  /\ OrderlyRest(<<>>) /\ \A k : Slack(<<>>, k) = 0
  /\ \A calls : calls # <<>> /\ ~Risky(Head(calls)) => \A k : Slack(calls, k) = 0
BY DEF OrderlyRest, Slack

\* A transaction that works alone stays in order.
LEMMA AtWorkStays ==
  ASSUME LedgerShape, NEW t \in Transactions, CallStep(t), ~Aborts(t), AtWork(t),
         KeepsAway(t), handling' = handling
  PROVE  AtWork(t)'
<1> DEFINE q == transactions[t]
           n == transactions'[t]
           call == Current(t)
           seen == SeenRows(t)
           lacks == SeenLacks(t)
           after == Lacks(stockMovements' \cup n.posted, handling')
           left == HandlerLeft(q, handling[t])
           next == HandlerLeft(n, handling'[t])
<1>0. /\ Typed /\ LedgerTyped /\ q.calls \in Seq(LedgerCall) /\ q.calls # <<>> /\ call = Head(q.calls)
  BY RemainingStep, TransactionColumns DEF LedgerShape, LedgerTyped, Typed, AvailabilityInvariant, Current
<1>1. call \in LedgerCall /\ call.row \in Keys
  BY <1>0, RestOfCalls DEF LedgerCall
<1>2. InOrder(q, seen, lacks, left)
  BY DEF AtWork
<1>3. \A k \in Keys : seen[k] \in Row /\ seen[k] = Found(t, k)
  BY <1>0, FoundType DEF SeenRows, Typed
<1>4. /\ handling[t] # None => left = Remaining(q) /\ next = Remaining(n)
      /\ handling[t] = None => left = <<>> /\ next = <<>>
  BY DEF HandlerLeft
<1>5. \A k \in Keys : lacks[k] \in Nat
  BY LacksAfter
<1>6. SUFFICES InOrder(n, SeenRows(t)', after, next)
  BY AtWorkNext
<1>7. CASE Writes(t)
  <2>1. /\ Changed(call, seen[call.row]) \in Row /\ call.column # "availableToSell"
        /\ \A k \in Keys : SeenRows(t)'[k] = IF k = call.row THEN Changed(call, seen[call.row]) ELSE seen[k]
    BY <1>7, SeenAfterSave
  <2>2. Remaining(q) = q.calls /\ Remaining(n) = Tail(q.calls)
    BY <1>7, RemainingStep
  <2>3. n.phase = "sum"
    BY <1>0, <1>7, UpdateEffect, AutocommitEffect, SkipEffect DEF Writes
  <2>4. \A k \in Keys : after[k] =
          lacks[k] + (IF k = call.row /\ handling[t] = None /\ DeltaOf(call) < 0
                      THEN -DeltaOf(call) ELSE 0)
    BY <1>7, LacksAfter
  <2> HIDE DEF after, lacks, left, next, seen
  <2>5. CASE handling[t] # None
    <3>1. OrderlyRest(q.calls) /\ \A k \in Keys : Covers(seen[k], lacks[k], Slack(q.calls, k))
      BY <1>2, <1>4, <2>2, <2>5 DEF InOrder
    <3>2. Covers(seen[call.row], lacks[call.row], Slack(q.calls, call.row))
      BY <1>1, <3>1
    <3>3. /\ Covers(Changed(call, seen[call.row]), lacks[call.row], Slack(Tail(q.calls), call.row))
          /\ \A k : k # call.row => Slack(Tail(q.calls), k) = 0
      BY <1>0, <1>1, <1>3, <1>5, <2>1, <3>1, <3>2, CallCovers
    <3>4. OrderlyRest(Tail(q.calls))
      BY <1>0, <3>1, RestIsOrderly
    <3>5. ASSUME NEW k \in Keys, k # call.row PROVE Covers(seen[k], lacks[k], 0)
      <4>1. Slack(q.calls, k) \in Nat /\ Covers(seen[k], lacks[k], Slack(q.calls, k)) /\ seen[k] \in Row
        BY <1>0, <1>3, <3>1, SlackType
      <4>2. QED
        BY <1>5, <4>1 DEF Covers, Row
    <3>6. \A k \in Keys : after[k] = lacks[k]
      BY <1>5, <2>4, <2>5
    <3>7. ASSUME NEW k \in Keys PROVE Covers(SeenRows(t)'[k], after[k], Slack(Tail(q.calls), k))
      <4>1. CASE k = call.row
        BY <2>1, <3>3, <3>6, <4>1
      <4>2. CASE k # call.row
        BY <2>1, <3>3, <3>5, <3>6, <4>2
      <4>3. QED
        BY <4>1, <4>2
    <3>8. next = Tail(q.calls)
      BY <1>4, <2>2, <2>5
    <3>9. QED
      BY <2>3, <3>4, <3>7, <3>8 DEF InOrder
  <2>6. CASE handling[t] = None
    <3>1. \A k \in Keys : Covers(seen[k], lacks[k], 0)
      BY <1>2, <1>4, <2>6, NothingNeeded DEF InOrder
    <3>2. call.column # "outboundTransfers"
      BY <1>0, <2>6, RestOfCalls DEF KeepsAway
    <3>3. Covers(Changed(call, seen[call.row]),
                 lacks[call.row] + (IF DeltaOf(call) < 0 THEN -DeltaOf(call) ELSE 0), 0)
      BY <1>1, <1>3, <1>5, <2>1, <3>1, <3>2, OtherCallCovers
    <3>4. ASSUME NEW k \in Keys PROVE Covers(SeenRows(t)'[k], after[k], 0)
      <4>1. CASE k = call.row
        BY <2>1, <2>4, <2>6, <3>3, <4>1
      <4>2. CASE k # call.row
        <5>1. after[k] = lacks[k] + 0 /\ SeenRows(t)'[k] = seen[k]
          BY <2>1, <2>4, <4>2
        <5>2. after[k] = lacks[k]
          BY <1>5, <5>1
        <5>3. QED
          BY <3>1, <5>1, <5>2
      <4>3. QED
        BY <4>1, <4>2
    <3>5. QED
      BY <1>4, <2>3, <2>6, <3>4, NothingNeeded DEF InOrder
  <2>7. QED
    BY <2>5, <2>6
<1>8. ASSUME ~Writes(t) PROVE after = lacks /\ SeenRows(t)' = seen
  <2>1. n.rows = q.rows /\ inventory' = inventory
    BY <1>8, RowsAfter DEF Writes
  <2>2. SeenRows(t)' = seen
    BY <2>1 DEF SeenRows, Found, View
  <2>3. QED
    BY <1>8, <2>2, LacksAfter
<1>9. CASE CheckAvailability(t)
  <2>1. ~Writes(t) /\ q.phase = "read" /\ call.column = "availableToSell"
        /\ AvailableToSell(seen[call.row]) >= call.delta
    <3>1. (Writes(t) => q.phase = "update") /\ q.phase = "read"
      BY <1>9, StepsRun DEF Writes
    <3>2. QED
      BY <1>1, <1>3, <1>9, <3>1 DEF CheckAvailability, CallAllowed
  <2>2. Remaining(q) = q.calls /\ Remaining(n) = Tail(q.calls)
    BY <1>9, RemainingStep
  <2>3. n.phase = "read"
    BY <1>0, <1>9, <2>1, CheckEffect
  <2>4. after = lacks /\ SeenRows(t)' = seen
    BY <1>8, <2>1
  <2> HIDE DEF after, lacks, left, next, seen
  <2>5. CASE handling[t] # None
    <3>1. OrderlyRest(q.calls) /\ \A k \in Keys : Covers(seen[k], lacks[k], Slack(q.calls, k))
      BY <1>2, <1>4, <2>2, <2>5 DEF InOrder
    <3>2. \A k : Slack(q.calls, k) = 0
      BY <1>0, <2>1, NothingNeeded DEF Risky
    <3>3. \A k \in Keys : Covers(seen[k], lacks[k], 0)
      BY <3>1, <3>2
    <3>4. /\ Covers(seen[call.row], lacks[call.row], Slack(Tail(q.calls), call.row))
          /\ \A k : k # call.row => Slack(Tail(q.calls), k) = 0
      BY <1>0, <1>1, <1>3, <1>5, <2>1, <3>1, <3>3, CheckCovers
    <3>5. OrderlyRest(Tail(q.calls))
      BY <1>0, <3>1, RestIsOrderly
    <3>6. \A k \in Keys : Covers(seen[k], lacks[k], Slack(Tail(q.calls), k))
      BY <3>3, <3>4
    <3>7. next = Tail(q.calls)
      BY <1>4, <2>2, <2>5
    <3>8. QED
      BY <2>3, <2>4, <3>5, <3>6, <3>7 DEF InOrder
  <2>6. CASE handling[t] = None
    BY <1>2, <1>4, <2>3, <2>4, <2>6 DEF InOrder
  <2>7. QED
    BY <2>5, <2>6
<1>10. CASE ~Writes(t) /\ ~CheckAvailability(t)
  <2>1. Remaining(n) = Remaining(q) /\ SeenRows(t)' = seen /\ after = lacks
    BY <1>8, <1>10, RemainingStep
  <2>2. /\ n.phase \in {"select", "update"} => n.calls = q.calls /\ n.loaded = seen[call.row]
        /\ n.phase = "update" => n.selected = seen[call.row]
    <3>1. CASE ReadRow(t)
      BY <1>0, <1>1, <1>3, <3>1, ReadEffect
    <3>2. CASE SelectRow(t)
      <4>1. q.phase = "select" /\ n.calls = q.calls /\ n.loaded = q.loaded /\ n.selected = Found(t, call.row)
        BY <1>0, <3>2, StepsRun, SelectEffect
      <4>2. q.loaded = seen[call.row]
        BY <1>0, <1>2, <4>1 DEF InOrder
      <4>3. QED
        BY <1>1, <1>3, <4>1, <4>2
    <3>3. CASE SumRows(t)
      BY <1>0, <3>3, SumEffect
    <3>4. CASE UpdateProduct(t)
      BY <1>0, <3>4, ProductEffect
    <3>5. QED
      BY <1>10, <3>1, <3>2, <3>3, <3>4 DEF CallStep, Aborts, Writes
  <2>3. next = left
    BY <1>4, <2>1
  <2> HIDE DEF after, lacks, left, next, seen
  <2>4. QED
    BY <1>0, <1>2, <2>1, <2>2, <2>3 DEF InOrder
<1>11. QED
  BY <1>7, <1>9, <1>10

\* What a row may lack depends on who has moved units only.
LEMMA SameLacks ==
  ASSUME NEW E, NEW h, NEW g, \A e \in E : g[e.transaction] = h[e.transaction]
  PROVE  Lacks(E, g) = Lacks(E, h)
<1>1. \A k : Taken(E, g, k) = Taken(E, h, k)
  BY DEF Taken
<1>2. QED
  BY <1>1 DEF Lacks

\* A transaction that begins alone is in order, if its handler's calls are.
LEMMA BegunInOrder ==
  ASSUME TransfersShape, CoverInvariant, ~disturbed', NEW t \in Transactions,
         NEW program \in Callable, Begin(t, program),
         \A u \in Transactions \ {t} : handling'[u] = handling[u],
         handling'[t] # None => Orderly(program.calls)
  PROVE  CoverInvariant'
<1> DEFINE q == transactions[t]
           n == transactions'[t]
           calls == program.calls
           left == HandlerLeft(n, handling'[t])
<1>0. Typed /\ Shape(t, q) /\ calls \in Seq(LedgerCall)
  BY DEF TransfersShape, LedgerShape, LedgerTyped, Typed, AvailabilityInvariant, Shapes, Callable, Program
<1>1. ~disturbed /\ (\A u \in Transactions : ~Running(u)) /\ inventory' = inventory
      /\ stockMovements' = stockMovements
  BY DEF Begin, ledgerTables
<1>2. /\ OnlyOf(t) /\ q.status = "ready" /\ n.calls = calls /\ n.phase = q.phase /\ SameWrites(n, q)
  BY <1>0, BeginEffect
<1>3. q = Outside("ready")
  BY <1>0, <1>2 DEF Shape
<1>4. n.phase = "read" /\ n.rows = [k \in Keys |-> None] /\ n.posted = {}
  <2>1. q.posted = {}
    BY <1>3 DEF Outside
  <2>2. QED
    BY <1>2, <1>3, <2>1, OutsideFields DEF SameWrites
<1>5. Stored' = Stored
  BY <1>1 DEF Stored
<1>6. \A k \in Keys : SeenRows(t)'[k] = Stored[k]
  BY <1>1, <1>4 DEF SeenRows, Found, View, Stored
<1>7. OrderlyRest(left) /\ \A k : Slack(left, k) = 0
  <2>1. CASE handling'[t] # None
    <3>1. left = calls
      BY <1>2, <1>4, <2>1 DEF HandlerLeft, Remaining
    <3>2. QED
      BY <1>0, <2>1, <3>1, OrderlyStarts
  <2>2. CASE handling'[t] = None
    BY <2>2, NothingNeeded DEF HandlerLeft
  <2>3. QED
    BY <2>1, <2>2
<1>8. Lacks(stockMovements, handling') = StoredLacks
  <2>1. \A e \in stockMovements : e.transaction \in Transactions /\ e.transaction # t
    BY <1>2, MovementsTyped
  <2>2. \A e \in stockMovements : handling'[e.transaction] = handling[e.transaction]
    BY <2>1
  <2>3. QED
    BY <2>2, SameLacks DEF StoredLacks
<1>9. /\ StoredLacks' = StoredLacks
      /\ Lacks(stockMovements' \cup n.posted, handling') = StoredLacks
  <2>1. stockMovements' \cup n.posted = stockMovements
    BY <1>1, <1>4
  <2>2. QED
    BY <1>1, <1>8, <2>1, NextLacks
<1>10. \A k \in Keys : Covers(Stored[k], StoredLacks[k], 0)
  BY <1>1 DEF CoverInvariant
<1>11. InOrder(n, SeenRows(t)', StoredLacks, left)
  <2> HIDE DEF left, n
  <2>1. QED
    BY <1>4, <1>6, <1>7, <1>10 DEF InOrder
<1>12. AtWork(t)'
  BY <1>9, <1>11, AtWorkNext
<1>13. \A u \in Transactions \ {t} : ~Running(u)'
  BY <1>1, <1>2 DEF OnlyOf, Running
<1>14. \A k \in Keys : Covers(Stored[k], StoredLacks[k], 0)'
  BY <1>5, <1>9, <1>10 DEF Covers
<1>15. QED
  BY <1>12, <1>13, <1>14 DEF CoverInvariant

\* The transaction at work goes on: what commits by itself is what it sees.
LEMMA CallKeepsCover ==
  ASSUME TransfersShape, CoverInvariant, ~disturbed', NEW t \in Transactions,
         CallStep(t), ~Aborts(t), KeepsAway(t), handling' = handling
  PROVE  CoverInvariant'
<1> DEFINE q == transactions[t]
           n == transactions'[t]
<1>0. Running(t) /\ OnlyOf(t) /\ disturbed' = disturbed /\ LedgerShape
  <2>1. disturbed' = disturbed
    BY DEF CallStep, Aborts, ReadRow, CheckAvailability, SelectRow, UpdateRow, SkipUpdate, SumRows,
           UpdateProduct, ledgerHistory
  <2>2. QED
    BY <2>1, RemainingStep, RowsAfter DEF TransfersShape
<1>1. AtWork(t) /\ \A k \in Keys : Covers(Stored[k], StoredLacks[k], 0)
  BY <1>0 DEF CoverInvariant
<1>2. AtWork(t)'
  BY <1>0, <1>1, AtWorkStays
<1>3. \A u \in Transactions \ {t} : ~Running(u)'
  BY <1>0 DEF CoverInvariant, OnlyOf, Running
<1>4. stockMovements' = stockMovements /\ StoredLacks' = StoredLacks
  <2>1. stockMovements' = stockMovements
    BY <1>0, LacksAfter
  <2>2. StoredLacks' = Lacks(stockMovements, handling)
    BY <2>1, NextLacks
  <2>3. QED
    BY <2>1, <2>2 DEF StoredLacks
<1>5. ASSUME NEW k \in Keys PROVE Covers(Stored'[k], StoredLacks[k], 0)
  <2>1. CASE inventory' = inventory
    <3>1. Stored'[k] = Stored[k]
      BY <2>1 DEF Stored
    <3>2. QED
      BY <1>1, <3>1
  <2>2. CASE UpdateRow(t) /\ ~q.atomic /\ n.rows = q.rows /\ q.rows = [x \in Keys |-> None]
    <3>1. Stored'[k] = SeenRows(t)'[k]
      BY <2>2 DEF Stored, SeenRows, Found, View
    <3>2. handling[t] = None
      BY <1>0, <2>2 DEF TransfersShape, HandlingKnown
    <3>3. n.posted = {}
      <4>1. Typed /\ Shape(t, q)
        BY <1>0 DEF LedgerShape, LedgerTyped, Typed, AvailabilityInvariant, Shapes
      <4>2. SameWrites(n, q)
        BY <2>2, <4>1, AutocommitEffect
      <4>3. QED
        BY <2>2, <4>1, <4>2 DEF Shape, SameWrites
    <3>4. SeenLacks(t)' = StoredLacks
      <4>1. stockMovements' \cup n.posted = stockMovements
        BY <1>4, <3>3
      <4>2. QED
        BY <4>1, NextLacks DEF StoredLacks
    <3>5. HandlerLeft(transactions[t], handling[t])' = <<>>
      BY <3>2 DEF HandlerLeft
    <3>6. Covers(SeenRows(t)'[k], SeenLacks(t)'[k], Slack(HandlerLeft(transactions[t], handling[t])', k))
      BY <1>2 DEF AtWork, InOrder, Covers, Slack, Risky
    <3>7. Slack(<<>>, k) = 0
      BY NothingNeeded
    <3>8. QED
      BY <3>1, <3>4, <3>5, <3>6, <3>7
  <2>3. QED
    BY <1>0, <2>1, <2>2, RowsAfter
<1>6. \A k \in Keys : Covers(Stored[k], StoredLacks[k], 0)'
  BY <1>4, <1>5 DEF Covers
<1>7. QED
  BY <1>2, <1>3, <1>6 DEF CoverInvariant

\* What a transaction commits is what it has seen; what fails leaves nothing.
LEMMA EndKeepsCover ==
  ASSUME LedgerShape, CoverInvariant, ~disturbed', NEW t \in Transactions, Commit(t) \/ Aborts(t),
         handling' = handling
  PROVE  CoverInvariant'
<1> DEFINE q == transactions[t]
<1>0. Typed /\ Shape(t, q)
  BY DEF LedgerShape, LedgerTyped, Typed, AvailabilityInvariant, Shapes
<1>1. Running(t)
  BY StepsRun DEF Commit
<1>2. PICK status \in {"committed", "aborted"} : EndTransaction(t, status)
  BY AbortEffect DEF Commit
<1>3. OnlyOf(t) /\ ~Running(t)' /\ ~disturbed
  BY <1>0, <1>2, EndEffect, OutsideFields DEF Running, EndTransaction
<1>4. AtWork(t) /\ \A k \in Keys : Covers(Stored[k], StoredLacks[k], 0)
  BY <1>1, <1>3 DEF CoverInvariant
<1>5. \A u \in Transactions : ~Running(u)'
  BY <1>1, <1>3 DEF CoverInvariant, OnlyOf, Running
<1>6. StoredLacks' = Lacks(stockMovements', handling)
  BY NextLacks
<1>7. ASSUME NEW k \in Keys PROVE Covers(Stored'[k], Lacks(stockMovements', handling)[k], 0)
  <2>1. CASE Commit(t)
    <3>1. q.phase = "read" /\ q.calls = <<>>
      BY <1>0, <2>1 DEF Shape, Commit, Done
    <3>2. HandlerLeft(q, handling[t]) = <<>>
      BY <3>1 DEF HandlerLeft, Remaining
    <3>3. Covers(SeenRows(t)[k], SeenLacks(t)[k], Slack(HandlerLeft(q, handling[t]), k))
      BY <1>4 DEF AtWork, InOrder
    <3>4. Stored'[k] = SeenRows(t)[k]
      BY <2>1 DEF Commit, Stored, SeenRows, Found
    <3>5. Lacks(stockMovements', handling) = SeenLacks(t)
      BY <2>1 DEF Commit, SeenLacks
    <3>6. QED
      BY <3>2, <3>3, <3>4, <3>5, NothingNeeded
  <2>2. CASE Aborts(t)
    <3>1. Stored'[k] = Stored[k] /\ stockMovements' = stockMovements
      BY <2>2, AbortEffect DEF ledgerTables, Stored
    <3>2. QED
      BY <1>4, <3>1 DEF StoredLacks
  <2>3. QED
    BY <2>1, <2>2
<1>8. \A k \in Keys : Covers(Stored[k], StoredLacks[k], 0)'
  BY <1>6, <1>7 DEF Covers
<1>9. QED
  BY <1>5, <1>8 DEF CoverInvariant

\* Every step.
LEMMA NextCover ==
  ASSUME TransfersShape, OthersKeepAway, CoverInvariant, [TransfersNext]_allVars
  PROVE  CoverInvariant'
<1> SUFFICES ASSUME ~disturbed' PROVE CoverInvariant'
  BY DEF CoverInvariant
<1>0. LedgerShape /\ TransfersTyped
  BY DEF TransfersShape
<1>1. CASE UNCHANGED <<ledgerVars, handling>>
  <2>1. /\ ~disturbed /\ inventory' = inventory /\ transactions' = transactions
        /\ stockMovements' = stockMovements /\ handling' = handling
    BY <1>1 DEF ledgerVars, ledgerTables, ledgerHistory
  <2>2. /\ \A t \in Transactions : Running(t)' = Running(t) /\ SeenRows(t)' = SeenRows(t)
        /\ Stored' = Stored
    BY <2>1 DEF Running, SeenRows, Found, View, Stored
  <2>3. StoredLacks' = StoredLacks
    BY <2>1, NextLacks DEF StoredLacks
  <2>4. ASSUME NEW t \in Transactions, AtWork(t) PROVE AtWork(t)'
    <3>1. InOrder(transactions'[t], SeenRows(t)',
                  Lacks(stockMovements' \cup transactions'[t].posted, handling'),
                  HandlerLeft(transactions'[t], handling'[t]))
      BY <2>1, <2>2, <2>4 DEF AtWork, SeenLacks
    <3>2. QED
      BY <3>1, AtWorkNext
  <2>5. \A k \in Keys : Covers(Stored[k], StoredLacks[k], 0) => Covers(Stored[k], StoredLacks[k], 0)'
    BY <2>2, <2>3 DEF Covers
  <2>6. QED
    BY <2>1, <2>2, <2>4, <2>5 DEF CoverInvariant
<1>2. CASE \E t \in Transactions : Acts(t)
  <2>1. PICK t \in Transactions : Acts(t)
    BY <1>2
  <2>2. ASSUME NEW id \in TransferIds, NEW next, NEW calls, Starts(t, id, next, calls)
        PROVE  CoverInvariant'
    <3> DEFINE program == [atomic |-> TRUE, calls |-> calls]
    <3>1. calls \in CallsOfItems(transfers[id], transfers[id].status, next, DOMAIN transfers[id].items)
          /\ Begin(t, program)
      BY <2>2 DEF Starts
    <3>2. program \in Callable /\ program.calls = calls /\ Orderly(calls)
      BY <3>1, HandlerCallable, OfItems
    <3>3. \A u \in Transactions \ {t} : handling'[u] = handling[u]
      BY <2>2, StartEffect
    <3> HIDE DEF program
    <3>4. QED
      BY <3>1, <3>2, <3>3, BegunInOrder
  <2>3. ASSUME NEW program \in Programs, Begin(t, program), UNCHANGED transferVars
        PROVE  CoverInvariant'
    <3>1. program \in Callable
      BY LedgerAssumption DEF Callable
    <3>2. handling' = handling /\ transactions[t].status = "ready"
      BY <2>3 DEF transferVars, Begin
    <3>3. handling'[t] = None
      BY <3>2 DEF TransfersShape, HandlingKnown
    <3>4. QED
      BY <2>3, <3>1, <3>2, <3>3, BegunInOrder
  <2>4. ASSUME Commit(t) \/ Aborts(t), handling' = handling PROVE CoverInvariant'
    BY <1>0, <2>4, EndKeepsCover
  <2>5. ASSUME CallStep(t), ~Aborts(t), UNCHANGED transferVars PROVE CoverInvariant'
    <3>1. KeepsAway(t) /\ handling' = handling
      BY <2>5 DEF OthersKeepAway, transferVars
    <3>2. QED
      BY <2>5, <3>1, CallKeepsCover
  <2>6. QED
    BY <2>1, <2>2, <2>3, <2>4, <2>5 DEF Acts, SaveTransfer, Aborts, transferVars
<1>3. (\E id \in TransferIds : Create(id)) \/ UNCHANGED allVars => UNCHANGED <<ledgerVars, handling>>
  BY DEF Create, allVars, transferVars
<1>4. QED
  BY <1>0, <1>1, <1>2, <1>3, TransferSteps

\* At the start nothing runs, and a row lacks what it lacks.
LEMMA InitCover == TransfersInit => CoverInvariant
<1> SUFFICES ASSUME TransfersInit PROVE CoverInvariant
  OBVIOUS
<1>1. /\ inventory = InitialRows /\ stockMovements = {}
      /\ \A t \in Transactions : ~Running(t)
  BY OutsideFields DEF TransfersInit, LedgerInit, Running
<1>2. ASSUME NEW k \in Keys PROVE Covers(Stored[k], StoredLacks[k], 0)
  <2> DEFINE row == OrNew(InitialRows[k])
             start == InitialShortfall(k)
             units == UnitsOf(Taken({}, handling, k))
  <2>1. Stored[k] = row /\ row \in Row
    BY <1>1, NewRowType, LedgerAssumption DEF Stored, OrNew
  <2>2. StoredLacks[k] = start + units /\ start \in Nat /\ units \in Nat
    BY <1>1, FS_EmptySet, LacksType DEF StoredLacks
  <2>3. /\ row.quantityOnHand \in Nat /\ row.outboundTransfers \in Nat /\ row.safetyStock \in Nat
        /\ start >= row.outboundTransfers + row.safetyStock - row.quantityOnHand
    <3>1. start = NonNegative(row.outboundTransfers + row.safetyStock - row.quantityOnHand)
      BY DEF InitialShortfall
    <3>2. QED
      BY <2>1, <3>1 DEF NonNegative, Row
  <2> HIDE DEF row, start, units
  <2>4. QED
    BY <2>1, <2>2, <2>3 DEF Covers
<1>3. QED
  BY <1>1, <1>2 DEF CoverInvariant

\* A unit on its way is promised to no other transfer: as long as transactions do
\* not overlap, the stock of a branch covers the units it has dispatched and its
\* safety stock, whatever it lacked at the start and others have sold.  dispatch's
\* check and its reservation, and receive's two calls on the origin, work together.
THEOREM UnitsStayInStock == TransfersSpec => []UnitsOnTheirWayAreInStock
<1>1. TransfersInit => OthersKeepAway /\ CoverInvariant
  BY InitOutbound, InitCover DEF OutboundInvariant
<1>2. /\ TransfersShape /\ OthersKeepAway /\ CoverInvariant /\ [TransfersNext]_allVars
      => (OthersKeepAway /\ CoverInvariant)'
  BY NextKeepsAway, NextCover
<1>3. TransfersShape /\ CoverInvariant => UnitsOnTheirWayAreInStock
  <2> SUFFICES ASSUME TransfersShape, CoverInvariant, ~disturbed, NEW k \in Keys, inventory[k] # None
               PROVE  inventory[k].quantityOnHand + InitialShortfall(k)
                          + SumOver(TakenByOthers(k), LAMBDA e : -e.delta)
                        >= inventory[k].outboundTransfers + inventory[k].safetyStock
    BY DEF UnitsOnTheirWayAreInStock
  <2>1. Stored[k] = inventory[k] /\ Covers(Stored[k], StoredLacks[k], 0)
    BY DEF CoverInvariant, Stored, OrNew
  <2>2. inventory[k] \in Row
    BY DEF TransfersShape, LedgerShape, LedgerTyped, LedgerTypeOK
  <2> DEFINE units == UnitsOf(Taken(stockMovements, handling, k))
  <2>3. SumOver(TakenByOthers(k), LAMBDA e : -e.delta) = units
    BY DEF TakenByOthers, Taken, UnitsOf
  <2>4. /\ StoredLacks[k] = InitialShortfall(k) + units
        /\ InitialShortfall(k) \in Nat /\ units \in Nat
    BY MovementsTyped, LacksType DEF StoredLacks
  <2> DEFINE sold == SumOver(TakenByOthers(k), LAMBDA e : -e.delta)
             start == InitialShortfall(k)
  <2> HIDE DEF units, sold, start
  <2>5. sold = units
    BY <2>3 DEF sold
  <2>6. Covers(inventory[k], start + units, 0)
    BY <2>1, <2>4 DEF start
  <2>7. start \in Nat /\ units \in Nat
    BY <2>4 DEF start
  <2>8. inventory[k].quantityOnHand + start + sold
          >= inventory[k].outboundTransfers + inventory[k].safetyStock
    BY <2>2, <2>5, <2>6, <2>7 DEF Covers, Row
  <2>9. QED
    BY <2>8 DEF sold, start
<1>4. QED
  BY <1>1, <1>2, <1>3, TransfersKeepShape, PTL DEF TransfersSpec

=============================================================================
