---------------------------- MODULE CommonTheorems ----------------------------
(***************************************************************************)
(* Lemmas that several components rest on: about finite sums, and about    *)
(* one row of branch_inventory.                                            *)
(*                                                                         *)
(* Balances, stocks and totals are sums over tables, and the invariants    *)
(* about them say how one row more or one row changed moves the sum.       *)
(* The sum of F over S is the library's fold, whose meaning rests on a     *)
(* recursive function on the subsets of S.  That such a function exists,   *)
(* and that it does not depend on the order in which elements are taken,   *)
(* is proved here by induction on finite sets: a property of sets that     *)
(* fails somewhere fails at a minimal set, because strict inclusion is     *)
(* well founded on finite sets.                                            *)
(***************************************************************************)
EXTENDS BranchInventory, FiniteSetTheorems, TLAPS

-----------------------------------------------------------------------------
(* Sums                                                                    *)

\* Induction on finite sets, with the sets that have the property as a set.
LEMMA SubsetInduction ==
  ASSUME NEW S, IsFiniteSet(S), NEW Good,
         \A T \in SUBSET S : (\A U \in SUBSET T : U # T => U \in Good) => T \in Good
  PROVE  \A T \in SUBSET S : T \in Good
<1> DEFINE Bad == {T \in SUBSET S : T \notin Good}
<1>1. IsWellFoundedOn(StrictSubsetOrdering(S), SUBSET S)
  BY FS_StrictSubsetOrderingWellFounded, FS_FiniteSubsetsOfFinite
<1>2. ASSUME Bad # {} PROVE FALSE
  <2> HIDE DEF Bad
  <2>0. Bad \subseteq SUBSET S BY DEF Bad
  <2>1. PICK T \in Bad : \A U \in Bad : ~ (<<U, T>> \in StrictSubsetOrdering(S))
    BY <1>1, <1>2, <2>0, WFMin
  <2> USE DEF Bad
  <2>2. ASSUME NEW U \in SUBSET T, U # T PROVE U \in Good
    <3>1. <<U, T>> \in StrictSubsetOrdering(S)
      BY <2>1, <2>2 DEF StrictSubsetOrdering
    <3> QED BY <2>1, <2>2, <3>1
  <2> QED BY <2>1, <2>2
<1> QED BY <1>2

\* The element MapThenFoldSet takes first.
First(s) == CHOOSE x \in s : TRUE

\* The equation by which MapThenFoldSet defines the sums over the subsets of S.
Totals(F, g, S) ==
  g = [s \in SUBSET S |-> IF s = {} THEN 0 ELSE F[First(s)] + g[s \ {First(s)}]]

\* The element the fold takes first is one of the set.
LEMMA FirstIn == ASSUME NEW s, s # {} PROVE First(s) \in s
BY DEF First

\* The equation, at one set.
LEMMA TotalsAt ==
  ASSUME NEW F, NEW g, NEW S, Totals(F, g, S), NEW s \in SUBSET S
  PROVE  g[s] = IF s = {} THEN 0 ELSE F[First(s)] + g[s \ {First(s)}]
<1> DEFINE H(u) == IF u = {} THEN 0 ELSE F[First(u)] + g[u \ {First(u)}]
<1>1. g = [u \in SUBSET S |-> H(u)] BY DEF Totals
<1> HIDE DEF H
<1>2. g[s] = H(s) BY <1>1
<1> QED BY <1>2 DEF H

\* Two such functions agree on the finite sets both are defined on.
LEMMA TotalsAgree ==
  ASSUME NEW F, NEW A, NEW B, NEW g, NEW h, Totals(F, g, A), Totals(F, h, B),
         NEW S, IsFiniteSet(S), S \subseteq A, S \subseteq B
  PROVE  g[S] = h[S]
<1> DEFINE Good == {T \in SUBSET S : g[T] = h[T]}
<1>1. ASSUME NEW T \in SUBSET S, \A U \in SUBSET T : U # T => U \in Good
      PROVE  T \in Good
  <2>1. T \in SUBSET A /\ T \in SUBSET B OBVIOUS
  <2>a. g[T] = IF T = {} THEN 0 ELSE F[First(T)] + g[T \ {First(T)}]
    BY <2>1, TotalsAt
  <2>b. h[T] = IF T = {} THEN 0 ELSE F[First(T)] + h[T \ {First(T)}]
    BY <2>1, TotalsAt
  <2>2. CASE T = {} BY <2>a, <2>b, <2>2
  <2>3. CASE T # {}
    <3>1. First(T) \in T BY <2>3, FirstIn
    <3>2. T \ {First(T)} \in Good BY <3>1, <1>1
    <3> QED BY <2>a, <2>b, <2>3, <3>2
  <2> QED BY <2>2, <2>3
<1> HIDE DEF Good
<1>2. \A T \in SUBSET S : T \in Good BY <1>1, SubsetInduction
<1> QED BY <1>2 DEF Good

\* Every finite set has such a function: it is put together from those of the
\* proper subsets, which agree where they overlap.
LEMMA TotalsExist ==
  ASSUME NEW F, NEW S, IsFiniteSet(S)
  PROVE  \E g : Totals(F, g, S)
<1> DEFINE Good == {T \in SUBSET S : \E g : Totals(F, g, T)}
<1>1. ASSUME NEW T \in SUBSET S, \A U \in SUBSET T : U # T => U \in Good
      PROVE  T \in Good
  <2> DEFINE Of(U) == CHOOSE g : Totals(F, g, U)
             At(U) == Of(U)[U]
             h == [s \in SUBSET T |->
                     IF s = T THEN (IF T = {} THEN 0 ELSE F[First(T)] + At(T \ {First(T)}))
                              ELSE At(s)]
  <2>1. ASSUME NEW U \in SUBSET T, U # T PROVE Totals(F, Of(U), U)
    BY <1>1, <2>1
  <2>2. ASSUME NEW s \in SUBSET T
        PROVE  h[s] = IF s = {} THEN 0 ELSE F[First(s)] + h[s \ {First(s)}]
    <3> HIDE DEF Of
    <3>a. CASE s = {} /\ s = T BY <3>a
    <3>b. CASE s # {} /\ s = T
      <4>1. First(T) \in T BY <3>b, FirstIn
      <4>2. T \ {First(T)} # T /\ T \ {First(T)} \in SUBSET T BY <4>1
      <4> QED BY <3>b, <4>2
    <3>c. CASE s # T
      <4>1. Totals(F, Of(s), s) BY <2>1, <3>c
      <4>2. Of(s)[s] = IF s = {} THEN 0 ELSE F[First(s)] + Of(s)[s \ {First(s)}]
        BY <4>1, TotalsAt
      <4>3. CASE s = {} BY <4>2, <4>3, <3>c
      <4>4. CASE s # {}
        <5> DEFINE u == s \ {First(s)}
        <5>1. First(s) \in s BY <4>4, FirstIn
        <5>2. u \in SUBSET s /\ u \in SUBSET T /\ u # T BY <5>1
        <5>3. Totals(F, Of(u), u) BY <2>1, <5>2
        <5>4. IsFiniteSet(u) BY <5>2, FS_Subset
        <5>5. Of(u)[u] = Of(s)[u] BY <5>2, <5>3, <5>4, <4>1, TotalsAgree
        <5>6. h[u] = At(u) /\ h[s] = At(s) BY <5>2, <3>c
        <5> QED BY <4>2, <4>4, <5>5, <5>6
      <4> QED BY <4>3, <4>4
    <3> QED BY <3>a, <3>b, <3>c
  <2>3. h = [s \in SUBSET T |-> h[s]] OBVIOUS
  <2> HIDE DEF h
  <2>4. Totals(F, h, T)
    BY <2>2, <2>3 DEF Totals
  <2> QED BY <2>4
<1> HIDE DEF Good
<1>2. \A T \in SUBSET S : T \in Good BY <1>1, SubsetInduction
<1> QED BY <1>2 DEF Good

\* The fold the library defines is the total its equation determines.
LEMMA SumIsTotal ==
  ASSUME NEW F, NEW S, IsFiniteSet(S), NEW g, Totals(F, g, S)
  PROVE  SumFunctionOnSet(F, S) = g[S]
<1>1. SumFunctionOnSet(F, S) = (CHOOSE h : Totals(F, h, S))[S]
  BY DEF SumFunctionOnSet, FoldFunctionOnSet, MapThenFoldSet, Totals, First
<1>2. Totals(F, CHOOSE h : Totals(F, h, S), S) OBVIOUS
<1> QED BY <1>1, <1>2, TotalsAgree

\* Nothing adds up to 0.
LEMMA SumEmpty == ASSUME NEW F PROVE SumFunctionOnSet(F, {}) = 0
<1>1. IsFiniteSet({}) BY FS_EmptySet
<1>2. PICK g : Totals(F, g, {}) BY <1>1, TotalsExist
<1> QED BY <1>1, <1>2, SumIsTotal, TotalsAt

\* The fold adds the element it takes first to the sum of the others.
LEMMA SumFirst ==
  ASSUME NEW F, NEW S, IsFiniteSet(S), S # {}
  PROVE  SumFunctionOnSet(F, S) = F[First(S)] + SumFunctionOnSet(F, S \ {First(S)})
<1> DEFINE T == S \ {First(S)}
<1>1. PICK g : Totals(F, g, S) BY TotalsExist
<1>2. IsFiniteSet(T) BY FS_Subset
<1>3. PICK h : Totals(F, h, T) BY <1>2, TotalsExist
<1>4. g[T] = h[T] BY <1>1, <1>2, <1>3, TotalsAgree
<1>5. SumFunctionOnSet(F, S) = g[S] BY <1>1, SumIsTotal
<1>6. SumFunctionOnSet(F, T) = h[T] BY <1>2, <1>3, SumIsTotal
<1>7. g[S] = F[First(S)] + g[T] BY <1>1, TotalsAt
<1> QED BY <1>4, <1>5, <1>6, <1>7

\* A sum of integers is an integer.
LEMMA SumType ==
  ASSUME NEW F, NEW S, IsFiniteSet(S), \A x \in S : F[x] \in Int
  PROVE  SumFunctionOnSet(F, S) \in Int
<1> DEFINE Good == {T \in SUBSET S : SumFunctionOnSet(F, T) \in Int}
<1>1. ASSUME NEW T \in SUBSET S, \A U \in SUBSET T : U # T => U \in Good
      PROVE  T \in Good
  <2>1. CASE T = {} BY <2>1, SumEmpty
  <2>2. CASE T # {}
    <3>1. First(T) \in T BY <2>2, FirstIn
    <3>2. T \ {First(T)} \in Good BY <3>1, <1>1
    <3>3. SumFunctionOnSet(F, T) = F[First(T)] + SumFunctionOnSet(F, T \ {First(T)})
      BY <2>2, SumFirst, FS_Subset
    <3> QED BY <3>1, <3>2, <3>3
  <2> QED BY <2>1, <2>2
<1> HIDE DEF Good
<1>2. \A T \in SUBSET S : T \in Good BY <1>1, SubsetInduction
<1> QED BY <1>2 DEF Good

\* A sum of counts is a count.
LEMMA SumNat ==
  ASSUME NEW F, NEW S, IsFiniteSet(S), \A x \in S : F[x] \in Nat
  PROVE  SumFunctionOnSet(F, S) \in Nat
<1> DEFINE Good == {T \in SUBSET S : SumFunctionOnSet(F, T) \in Nat}
<1>1. ASSUME NEW T \in SUBSET S, \A U \in SUBSET T : U # T => U \in Good
      PROVE  T \in Good
  <2>1. CASE T = {} BY <2>1, SumEmpty
  <2>2. CASE T # {}
    <3>1. First(T) \in T BY <2>2, FirstIn
    <3>2. T \ {First(T)} \in Good BY <3>1, <1>1
    <3>3. SumFunctionOnSet(F, T) = F[First(T)] + SumFunctionOnSet(F, T \ {First(T)})
      BY <2>2, SumFirst, FS_Subset
    <3> QED BY <3>1, <3>2, <3>3
  <2> QED BY <2>1, <2>2
<1> HIDE DEF Good
<1>2. \A T \in SUBSET S : T \in Good BY <1>1, SubsetInduction
<1> QED BY <1>2 DEF Good

\* The order does not matter: any element can be taken out first.
LEMMA SumRemove ==
  ASSUME NEW F, NEW S, IsFiniteSet(S), \A x \in S : F[x] \in Int, NEW z \in S
  PROVE  SumFunctionOnSet(F, S) = F[z] + SumFunctionOnSet(F, S \ {z})
<1> DEFINE Good == {T \in SUBSET S : \A x \in T :
                       SumFunctionOnSet(F, T) = F[x] + SumFunctionOnSet(F, T \ {x})}
<1>1. ASSUME NEW T \in SUBSET S, \A U \in SUBSET T : U # T => U \in Good
      PROVE  T \in Good
  <2>1. SUFFICES ASSUME NEW x \in T
                 PROVE  SumFunctionOnSet(F, T) = F[x] + SumFunctionOnSet(F, T \ {x})
    OBVIOUS
  <2> DEFINE c == First(T)
  <2>2. c \in T BY FirstIn
  <2>3. SumFunctionOnSet(F, T) = F[c] + SumFunctionOnSet(F, T \ {c})
    BY SumFirst, FS_Subset
  <2> HIDE DEF c
  <2>4. CASE x = c BY <2>3, <2>4
  <2>5. CASE x # c
    <3>1. T \ {c} \in Good /\ T \ {x} \in Good BY <1>1, <2>2
    <3>2. SumFunctionOnSet(F, T \ {c}) = F[x] + SumFunctionOnSet(F, (T \ {c}) \ {x})
      BY <3>1, <2>5
    <3>3. SumFunctionOnSet(F, T \ {x}) = F[c] + SumFunctionOnSet(F, (T \ {x}) \ {c})
      BY <3>1, <2>2, <2>5
    <3>4. (T \ {x}) \ {c} = (T \ {c}) \ {x} OBVIOUS
    <3>5. F[x] \in Int /\ F[c] \in Int BY <2>2
    <3>6. SumFunctionOnSet(F, (T \ {c}) \ {x}) \in Int
      <4>1. IsFiniteSet((T \ {c}) \ {x}) BY FS_Subset
      <4> QED BY <4>1, SumType
    <3>7. SumFunctionOnSet(F, T \ {x}) = F[c] + SumFunctionOnSet(F, (T \ {c}) \ {x})
      BY <3>3, <3>4
    <3>8. SumFunctionOnSet(F, T) = F[c] + (F[x] + SumFunctionOnSet(F, (T \ {c}) \ {x}))
      BY <2>3, <3>2
    <3>9. SumFunctionOnSet(F, T) = F[x] + (F[c] + SumFunctionOnSet(F, (T \ {c}) \ {x}))
      <4> HIDE <2>3, <3>2, <3>3, <3>4, <3>7
      <4> QED BY <3>8, <3>5, <3>6
    <3> QED BY <3>7, <3>9
  <2> QED BY <2>4, <2>5
<1> HIDE DEF Good
<1>2. \A T \in SUBSET S : T \in Good BY <1>1, SubsetInduction
<1> QED BY <1>2 DEF Good
-----------------------------------------------------------------------------
(* How a sum moves.                                                        *)

\* A sum depends on the values at its elements only.
LEMMA SumSame ==
  ASSUME NEW F, NEW G, NEW S, IsFiniteSet(S), \A x \in S : F[x] = G[x]
  PROVE  SumFunctionOnSet(F, S) = SumFunctionOnSet(G, S)
<1> DEFINE Good == {T \in SUBSET S : SumFunctionOnSet(F, T) = SumFunctionOnSet(G, T)}
<1>1. ASSUME NEW T \in SUBSET S, \A U \in SUBSET T : U # T => U \in Good
      PROVE  T \in Good
  <2>1. CASE T = {}
    BY <2>1, SumEmpty
  <2>2. CASE T # {}
    <3>1. First(T) \in T
      BY <2>2, FirstIn
    <3>2. T \ {First(T)} \in Good
      BY <3>1, <1>1
    <3>3. /\ SumFunctionOnSet(F, T) = F[First(T)] + SumFunctionOnSet(F, T \ {First(T)})
          /\ SumFunctionOnSet(G, T) = G[First(T)] + SumFunctionOnSet(G, T \ {First(T)})
      BY <2>2, SumFirst, FS_Subset
    <3> QED
      BY <3>1, <3>2, <3>3
  <2> QED
    BY <2>1, <2>2
<1> HIDE DEF Good
<1>2. \A T \in SUBSET S : T \in Good
  BY <1>1, SubsetInduction
<1> QED
  BY <1>2 DEF Good

\* One element more.
LEMMA SumAdd ==
  ASSUME NEW F, NEW S, IsFiniteSet(S), NEW z, z \notin S, F[z] \in Int,
         \A x \in S : F[x] \in Int
  PROVE  SumFunctionOnSet(F, S \cup {z}) = F[z] + SumFunctionOnSet(F, S)
<1>1. IsFiniteSet(S \cup {z})
  BY FS_AddElement
<1>2. (S \cup {z}) \ {z} = S
  OBVIOUS
<1>3. \A x \in S \cup {z} : F[x] \in Int
  OBVIOUS
<1> QED
  BY <1>1, <1>2, <1>3, SumRemove

\* One element changed.
LEMMA SumChange ==
  ASSUME NEW F, NEW G, NEW S, IsFiniteSet(S), NEW z \in S,
         \A x \in S : F[x] \in Int /\ G[x] \in Int,
         \A x \in S \ {z} : F[x] = G[x]
  PROVE  SumFunctionOnSet(G, S) = SumFunctionOnSet(F, S) + (G[z] - F[z])
<1> DEFINE T == S \ {z}
<1>1. IsFiniteSet(T)
  BY FS_Subset
<1>2. SumFunctionOnSet(F, T) = SumFunctionOnSet(G, T)
  BY <1>1, SumSame
<1>3. SumFunctionOnSet(F, T) \in Int
  BY <1>1, SumType
<1>4. /\ SumFunctionOnSet(F, S) = F[z] + SumFunctionOnSet(F, T)
      /\ SumFunctionOnSet(G, S) = G[z] + SumFunctionOnSet(G, T)
  BY SumRemove
<1> HIDE DEF T
<1> QED
  BY <1>2, <1>3, <1>4

\* Zeros add up to 0.
LEMMA SumZero ==
  ASSUME NEW F, NEW S, IsFiniteSet(S), \A x \in S : F[x] = 0
  PROVE  SumFunctionOnSet(F, S) = 0
<1> DEFINE Good == {T \in SUBSET S : SumFunctionOnSet(F, T) = 0}
<1>1. ASSUME NEW T \in SUBSET S, \A U \in SUBSET T : U # T => U \in Good
      PROVE  T \in Good
  <2>1. CASE T = {}
    BY <2>1, SumEmpty
  <2>2. CASE T # {}
    <3>1. First(T) \in T
      BY <2>2, FirstIn
    <3>2. T \ {First(T)} \in Good
      BY <3>1, <1>1
    <3>3. SumFunctionOnSet(F, T) = F[First(T)] + SumFunctionOnSet(F, T \ {First(T)})
      BY <2>2, SumFirst, FS_Subset
    <3> QED
      BY <3>1, <3>2, <3>3
  <2> QED
    BY <2>1, <2>2
<1> HIDE DEF Good
<1>2. \A T \in SUBSET S : T \in Good
  BY <1>1, SubsetInduction
<1> QED
  BY <1>2 DEF Good

\* Sums add up element by element.
LEMMA SumPlus ==
  ASSUME NEW F, NEW G, NEW H, NEW S, IsFiniteSet(S),
         \A x \in S : F[x] \in Int /\ G[x] \in Int /\ H[x] = F[x] + G[x]
  PROVE  SumFunctionOnSet(H, S) = SumFunctionOnSet(F, S) + SumFunctionOnSet(G, S)
<1> DEFINE Good == {T \in SUBSET S : SumFunctionOnSet(H, T) =
                      SumFunctionOnSet(F, T) + SumFunctionOnSet(G, T)}
<1>1. ASSUME NEW T \in SUBSET S, \A U \in SUBSET T : U # T => U \in Good
      PROVE  T \in Good
  <2>1. CASE T = {}
    BY <2>1, SumEmpty
  <2>2. CASE T # {}
    <3> DEFINE z == First(T)
               R == T \ {z}
    <3>1. z \in T
      BY <2>2, FirstIn
    <3>2. R \in Good
      BY <3>1, <1>1
    <3>3. IsFiniteSet(T) /\ IsFiniteSet(R)
      BY FS_Subset
    <3>4. /\ SumFunctionOnSet(F, T) = F[z] + SumFunctionOnSet(F, R)
          /\ SumFunctionOnSet(G, T) = G[z] + SumFunctionOnSet(G, R)
          /\ SumFunctionOnSet(H, T) = H[z] + SumFunctionOnSet(H, R)
      BY <2>2, <3>3, SumFirst
    <3>5. F[z] \in Int /\ G[z] \in Int /\ H[z] = F[z] + G[z]
      BY <3>1
    <3>6. SumFunctionOnSet(F, R) \in Int /\ SumFunctionOnSet(G, R) \in Int
      BY <3>3, SumType
    <3>7. SumFunctionOnSet(H, R) = SumFunctionOnSet(F, R) + SumFunctionOnSet(G, R)
      BY <3>2
    <3> HIDE DEF z, R
    <3>8. SumFunctionOnSet(H, T) = SumFunctionOnSet(F, T) + SumFunctionOnSet(G, T)
      BY <3>4, <3>5, <3>6, <3>7
    <3> QED
      BY <3>8
  <2> QED
    BY <2>1, <2>2
<1> HIDE DEF Good
<1>2. \A T \in SUBSET S : T \in Good
  BY <1>1, SubsetInduction
<1> QED
  BY <1>2 DEF Good

\* Sums over disjoint sets add up.
LEMMA SumUnion ==
  ASSUME NEW F, NEW S, NEW U, IsFiniteSet(S), IsFiniteSet(U), S \cap U = {},
         \A x \in S \cup U : F[x] \in Int
  PROVE  SumFunctionOnSet(F, S \cup U) = SumFunctionOnSet(F, S) + SumFunctionOnSet(F, U)
<1> DEFINE Good == {T \in SUBSET U : SumFunctionOnSet(F, S \cup T) =
                      SumFunctionOnSet(F, S) + SumFunctionOnSet(F, T)}
<1>0. SumFunctionOnSet(F, S) \in Int
  BY SumType
<1>1. ASSUME NEW T \in SUBSET U, \A V \in SUBSET T : V # T => V \in Good
      PROVE  T \in Good
  <2>1. CASE T = {}
    <3>1. S \cup T = S
      BY <2>1
    <3>2. SumFunctionOnSet(F, S \cup T) = SumFunctionOnSet(F, S)
      BY <3>1
    <3>3. SumFunctionOnSet(F, T) = 0
      BY <2>1, SumEmpty
    <3>4. SumFunctionOnSet(F, S) = SumFunctionOnSet(F, S) + 0
      BY <1>0
    <3> QED
      BY <3>2, <3>3, <3>4
  <2>2. CASE T # {}
    <3>1. PICK z \in T : TRUE
      BY <2>2
    <3> DEFINE R == T \ {z}
    <3>2. R \in Good
      BY <1>1
    <3>3. IsFiniteSet(T) /\ IsFiniteSet(R) /\ IsFiniteSet(S \cup R)
      BY FS_Subset, FS_Union
    <3>4. z \notin S \cup R /\ S \cup T = (S \cup R) \cup {z} /\ T = R \cup {z} /\ z \notin R
      BY <3>1
    <3>5. F[z] \in Int /\ (\A x \in S \cup R : F[x] \in Int)
      BY <3>1
    <3> HIDE DEF R
    <3>6. /\ SumFunctionOnSet(F, S \cup T) = F[z] + SumFunctionOnSet(F, S \cup R)
          /\ SumFunctionOnSet(F, T) = F[z] + SumFunctionOnSet(F, R)
      BY <3>3, <3>4, <3>5, SumAdd
    <3>7. SumFunctionOnSet(F, R) \in Int
      BY <3>3, <3>5, SumType
    <3>8. SumFunctionOnSet(F, S \cup R) = SumFunctionOnSet(F, S) + SumFunctionOnSet(F, R)
      BY <3>2
    <3>9. SumFunctionOnSet(F, S \cup T) = SumFunctionOnSet(F, S) + SumFunctionOnSet(F, T)
      BY <1>0, <3>5, <3>6, <3>7, <3>8
    <3> QED
      BY <3>9
  <2> QED
    BY <2>1, <2>2
<1> HIDE DEF Good
<1>2. \A T \in SUBSET U : T \in Good
  BY <1>1, SubsetInduction
<1> QED
  BY <1>2 DEF Good

\* Under other names: the elements of S are called h[x] in U.
LEMMA SumImage ==
  ASSUME NEW S, IsFiniteSet(S), NEW h, \A x, y \in S : h[x] = h[y] => x = y,
         NEW U, \A x \in S : h[x] \in U, \A y \in U : \E x \in S : h[x] = y,
         NEW F, NEW G, \A x \in S : G[h[x]] \in Int /\ F[x] = G[h[x]]
  PROVE  SumFunctionOnSet(F, S) = SumFunctionOnSet(G, U)
<1> DEFINE Good == {T \in SUBSET S : SumFunctionOnSet(F, T) = SumFunctionOnSet(G, {h[x] : x \in T})}
<1>1. ASSUME NEW T \in SUBSET S, \A V \in SUBSET T : V # T => V \in Good
      PROVE  T \in Good
  <2>1. CASE T = {}
    <3>1. {h[x] : x \in T} = {}
      BY <2>1
    <3>2. QED
      BY <2>1, <3>1, SumEmpty
  <2>2. CASE T # {}
    <3>1. PICK z \in T : TRUE
      BY <2>2
    <3> DEFINE V == T \ {z}
               named == {h[x] : x \in V}
    <3>2. V \in Good /\ IsFiniteSet(T) /\ IsFiniteSet(V)
      BY <1>1, FS_Subset
    <3>3. IsFiniteSet(named)
      <4> DEFINE f == [x \in V |-> h[x]]
      <4>1. f \in Surjection(V, named)
        BY DEF Surjection
      <4>2. QED
        BY <3>2, <4>1, FS_Surjection
    <3>4. {h[x] : x \in T} = named \cup {h[z]} /\ h[z] \notin named
      OBVIOUS
    <3>5. G[h[z]] \in Int /\ \A y \in named : G[y] \in Int
      OBVIOUS
    <3> HIDE DEF named
    <3>6. SumFunctionOnSet(G, named \cup {h[z]}) = G[h[z]] + SumFunctionOnSet(G, named)
      BY <3>3, <3>4, <3>5, SumAdd
    <3>7. SumFunctionOnSet(F, T) = F[z] + SumFunctionOnSet(F, V)
      BY <3>2, SumRemove
    <3>8. SumFunctionOnSet(F, V) = SumFunctionOnSet(G, named)
      BY <3>2 DEF named
    <3>9. QED
      BY <3>4, <3>6, <3>7, <3>8
  <2>3. QED
    BY <2>1, <2>2
<1> HIDE DEF Good
<1>2. \A T \in SUBSET S : T \in Good
  BY <1>1, SubsetInduction
<1>3. {h[x] : x \in S} = U
  OBVIOUS
<1>4. QED
  BY <1>2, <1>3 DEF Good

\* A sum over a sequence grows by what is appended.
LEMMA SumAppend ==
  ASSUME NEW F, NEW G, NEW n \in Nat, \A m \in 1..n : F[m] \in Int /\ G[m] = F[m],
         G[n + 1] \in Int
  PROVE  SumFunctionOnSet(G, 1..(n + 1)) = SumFunctionOnSet(F, 1..n) + G[n + 1]
<1>1. IsFiniteSet(1..n)
  BY FS_Interval
<1>2. 1..(n + 1) = (1..n) \cup {n + 1} /\ n + 1 \notin 1..n
  OBVIOUS
<1>3. SumFunctionOnSet(G, (1..n) \cup {n + 1}) = G[n + 1] + SumFunctionOnSet(G, 1..n)
  BY <1>1, <1>2, SumAdd
<1>4. SumFunctionOnSet(G, 1..n) = SumFunctionOnSet(F, 1..n)
  BY <1>1, SumSame
<1>5. SumFunctionOnSet(F, 1..n) \in Int
  BY <1>1, SumType
<1>6. SumFunctionOnSet(G, 1..(n + 1)) = SumFunctionOnSet(G, (1..n) \cup {n + 1})
  BY <1>2
<1>7. SumFunctionOnSet(G, 1..(n + 1)) = G[n + 1] + SumFunctionOnSet(F, 1..n)
  BY <1>3, <1>4, <1>6
<1> DEFINE total == SumFunctionOnSet(F, 1..n)
<1> HIDE DEF total
<1>8. G[n + 1] + total = total + G[n + 1]
  BY <1>5 DEF total
<1> QED
  BY <1>7, <1>8 DEF total

-----------------------------------------------------------------------------
(* A row of stock: what a ledger call computes from it, and what save()    *)
(* leaves stored.                                                          *)

Buckets == {"inboundOpenPo", "reservedOnline", "outboundTransfers"}

\* The row was last written through applyAvailabilityProjection.
Projected(row) == row.availableToSell = AvailableToSell(row)

-----------------------------------------------------------------------------
(* Types                                                                   *)

\* A clamped difference is a count.
LEMMA NonNegativeType == \A n \in Int : NonNegative(n) \in Nat
BY DEF NonNegative

\* A row that does not exist yet reads as a row of zeros (loadOrCreateInventory).
LEMMA NewRowType == \A safety \in Nat : NewRow(safety) \in Row
BY DEF NewRow, Row

\* Recomputing the availability leaves a row a row (applyAvailabilityProjection).
LEMMA ProjectionType == \A row \in Row : ApplyAvailabilityProjection(row) \in Row
<1>1. \A row \in Row : AvailableToSell(row) \in Nat
  BY NonNegativeType DEF AvailableToSell, Row
<1>2. QED
  BY <1>1 DEF ApplyAvailabilityProjection, Row

\* A movement that is not refused leaves no negative stock (recordMovement).
LEMMA RecordMovementType ==
  ASSUME NEW row \in Row, NEW delta, MovementAllowed(row, delta)
  PROVE  RecordMovement(row, delta) \in Row
<1>1. [row EXCEPT !.quantityOnHand = @ + delta] \in Row
  BY DEF MovementAllowed, Row
<1>2. QED
  BY <1>1, ProjectionType DEF RecordMovement

\* An adjustment that is not refused leaves no negative bucket
\* (adjustProjectionBucket).
LEMMA AdjustBucketType ==
  ASSUME NEW row \in Row, NEW bucket \in Buckets, NEW delta,
         BucketAllowed(row, bucket, delta)
  PROVE  AdjustProjectionBucket(row, bucket, delta) \in Row
<1>1. [row EXCEPT ![bucket] = @ + delta] \in Row
  BY DEF BucketAllowed, Buckets, Row
<1>2. QED
  BY <1>1, ProjectionType DEF AdjustProjectionBucket

\* Mixing the columns of three versions of a row gives a row.
LEMMA SavedRowType ==
  ASSUME NEW entity \in Row, NEW selected \in Row, NEW stored \in Row
  PROVE  SavedRecord(entity, selected, stored) \in Row
BY DEF SavedRecord, Column, Row

-----------------------------------------------------------------------------
(* Availability                                                            *)

\* applyAvailabilityProjection does what its name says: the column it writes is
\* not one of those it reads.
LEMMA ProjectionIsCurrent == \A row \in Row : Projected(ApplyAvailabilityProjection(row))
BY DEF Projected, ApplyAvailabilityProjection, AvailableToSell, Row

\* So does a new row, whatever its safety stock.
LEMMA NewRowIsCurrent == \A safety \in Nat : Projected(NewRow(safety))
BY DEF Projected, NewRow, AvailableToSell, NonNegative

\* Every ledger call hands save() a row with a current availability.
LEMMA MovementIsCurrent ==
  ASSUME NEW row \in Row, NEW delta, MovementAllowed(row, delta)
  PROVE  Projected(RecordMovement(row, delta))
<1>1. [row EXCEPT !.quantityOnHand = @ + delta] \in Row
  BY DEF MovementAllowed, Row
<1>2. QED
  BY <1>1, ProjectionIsCurrent DEF RecordMovement

\* adjustProjectionBucket ends with the projection, as recordMovement does.
LEMMA AdjustmentIsCurrent ==
  ASSUME NEW row \in Row, NEW bucket \in Buckets, NEW delta,
         BucketAllowed(row, bucket, delta)
  PROVE  Projected(AdjustProjectionBucket(row, bucket, delta))
<1>1. [row EXCEPT ![bucket] = @ + delta] \in Row
  BY DEF BucketAllowed, Buckets, Row
<1>2. QED
  BY <1>1, ProjectionIsCurrent DEF AdjustProjectionBucket

\* A save that selects what is still stored stores the entity as it is.
LEMMA FreshSave ==
  ASSUME NEW entity \in Row, NEW stored \in Row
  PROVE  SavedRecord(entity, stored, stored) = entity
<1>1. \A c \in DOMAIN entity : Column(entity[c], stored[c], stored[c]) = entity[c]
  BY DEF Column
<1>2. entity = [c \in DOMAIN entity |-> entity[c]]
  BY DEF Row
<1>3. QED
  BY <1>1, <1>2 DEF SavedRecord
===============================================================================
