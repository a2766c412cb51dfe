------------------------------ MODULE ListProofs ------------------------------
(***************************************************************************)
(* Proofs about lists that are sorted: pages of them (Listing) and the     *)
(* shops a user is offered (Matching), for any shops, pages and estimates. *)
(* What they share comes first: finite strict orders, how many come before *)
(* an element, and sums.                                                   *)
(***************************************************************************)
EXTENDS 
  Listing, Matching, FiniteSetTheorems, WellFoundedInduction,
  TLAPS

-----------------------------------------------------------------------------
(* R is a strict and total order on the finite set S.                      *)
Orders(R, S) ==
  /\ IsFiniteSet(S)
  /\ \A x \in S : <<x, x>> \notin R
  /\ \A x, y, z \in S : <<x, y>> \in R /\ <<y, z>> \in R => <<x, z>> \in R
  /\ \A x, y \in S : x = y \/ <<x, y>> \in R \/ <<y, x>> \in R

(* What comes before x, and after it.                                      *)
Before(R, S, x) == {y \in S : <<y, x>> \in R}
Trailing(R, S, x) == {y \in S : <<x, y>> \in R}

(* An order of a set orders its subsets.                                   *)
LEMMA OrdersASubset ==
  ASSUME NEW S, NEW R, Orders(R, S), NEW T \in SUBSET S
  PROVE  Orders(R, T)
BY FS_Subset DEF Orders

(* A later element has more before it, and less after it.                  *)
LEMMA FewerBefore ==
  ASSUME NEW S, NEW R, Orders(R, S), NEW x \in S, NEW y \in S, <<x, y>> \in R
  PROVE  /\ Cardinality(Before(R, S, x)) \in Nat /\ Cardinality(Before(R, S, y)) \in Nat
         /\ Cardinality(Before(R, S, x)) < Cardinality(Before(R, S, y))
         /\ Cardinality(Trailing(R, S, x)) \in Nat /\ Cardinality(Trailing(R, S, y)) \in Nat
         /\ Cardinality(Trailing(R, S, y)) < Cardinality(Trailing(R, S, x))
<1>. DEFINE b == Before(R, S, x)
            c == Before(R, S, y)
            d == Trailing(R, S, y)
            e == Trailing(R, S, x)
<1>1. /\ b \subseteq c /\ x \in c /\ x \notin b /\ c \subseteq S
      /\ d \subseteq e /\ y \in e /\ y \notin d /\ e \subseteq S
  BY DEF Orders, Before, Trailing
<1>2. IsFiniteSet(c) /\ IsFiniteSet(e)
  BY <1>1, FS_Subset DEF Orders
<1>. HIDE DEF b, c, d, e
<1>3. /\ IsFiniteSet(b) /\ Cardinality(b) <= Cardinality(c)
      /\ Cardinality(c) # Cardinality(b)
  BY <1>1, <1>2, FS_Subset
<1>4. /\ IsFiniteSet(d) /\ Cardinality(d) <= Cardinality(e)
      /\ Cardinality(e) # Cardinality(d)
  BY <1>1, <1>2, FS_Subset
<1>5. /\ Cardinality(b) \in Nat /\ Cardinality(c) \in Nat
      /\ Cardinality(d) \in Nat /\ Cardinality(e) \in Nat
  BY <1>2, <1>3, <1>4, FS_CardinalityType
<1>6. Cardinality(b) < Cardinality(c) /\ Cardinality(d) < Cardinality(e)
  BY <1>3, <1>4, <1>5
<1>. QED  BY <1>5, <1>6 DEF b, c, d, e

(* Not everything is before x.                                             *)
LEMMA BeforeIsLess ==
  ASSUME NEW S, NEW R, Orders(R, S), NEW x \in S
  PROVE  /\ Cardinality(S) \in Nat /\ Cardinality(Before(R, S, x)) \in Nat
         /\ Cardinality(Before(R, S, x)) < Cardinality(S)
         /\ Cardinality(Trailing(R, S, x)) \in Nat
<1>. DEFINE b == Before(R, S, x)
            e == Trailing(R, S, x)
<1>1. b \subseteq S /\ e \subseteq S /\ x \notin b /\ IsFiniteSet(S)
  BY DEF Orders, Before, Trailing
<1>. HIDE DEF b, e
<1>2. /\ IsFiniteSet(b) /\ Cardinality(b) <= Cardinality(S)
      /\ Cardinality(S) # Cardinality(b) /\ IsFiniteSet(e)
  BY <1>1, FS_Subset
<1>3. Cardinality(b) \in Nat /\ Cardinality(S) \in Nat /\ Cardinality(e) \in Nat
  BY <1>1, <1>2, FS_CardinalityType
<1>4. Cardinality(b) < Cardinality(S)
  BY <1>2, <1>3
<1>. QED  BY <1>3, <1>4 DEF b, e

(* A set of natural numbers has a least one.                               *)
LEMMA LeastOfNaturals ==
  ASSUME NEW T \in SUBSET Nat, T # {}
  PROVE  \E n \in T : \A k \in T : n <= k
<1>. DEFINE Less == {p \in Nat \X Nat : p[1] < p[2]}
<1>1. IsWellFoundedOn(Less, Nat)
  BY NatLessThanWellFounded DEF OpToRel
<1>. HIDE DEF Less
<1>2. PICK n \in T : \A k \in T : <<k, n>> \notin Less
  BY <1>1, WFMin
<1>3. ASSUME NEW k \in T PROVE n <= k
  <2>1. k \in Nat /\ n \in Nat /\ <<k, n>> \notin Less
    BY <1>2
  <2>. QED  BY <2>1 DEF Less
<1>. QED  BY <1>3

(* A set that is not empty has a first and a last element.                 *)
LEMMA FirstAndLast ==
  ASSUME NEW S, NEW R, Orders(R, S), S # {}
  PROVE  /\ \E m \in S : \A y \in S : <<m, y>> \notin R
         /\ \E m \in S : \A y \in S : <<y, m>> \notin R
<1>1. \E m \in S : \A y \in S : <<m, y>> \notin R
  <2>. DEFINE f == [x \in S |-> Cardinality(Trailing(R, S, x))]
              T == {f[x] : x \in S}
  <2>1. T \subseteq Nat /\ T # {}
    BY BeforeIsLess
  <2>2. PICK n \in T : \A k \in T : n <= k
    BY <2>1, LeastOfNaturals
  <2>3. PICK m \in S : f[m] = n
    OBVIOUS
  <2>4. ASSUME NEW y \in S, <<m, y>> \in R
        PROVE  FALSE
    <3>1. f[y] < f[m] /\ f[y] \in Nat /\ f[m] \in Nat
      BY <2>4, FewerBefore
    <3>2. f[y] \in T
      OBVIOUS
    <3>3. n <= f[y]
      BY <2>2, <3>2
    <3>. QED  BY <2>3, <3>1, <3>3
  <2>. QED  BY <2>4
<1>2. \E m \in S : \A y \in S : <<y, m>> \notin R
  <2>. DEFINE f == [x \in S |-> Cardinality(Before(R, S, x))]
              T == {f[x] : x \in S}
  <2>1. T \subseteq Nat /\ T # {}
    BY BeforeIsLess
  <2>2. PICK n \in T : \A k \in T : n <= k
    BY <2>1, LeastOfNaturals
  <2>3. PICK m \in S : f[m] = n
    OBVIOUS
  <2>4. ASSUME NEW y \in S, <<y, m>> \in R
        PROVE  FALSE
    <3>1. f[y] < f[m] /\ f[y] \in Nat /\ f[m] \in Nat
      BY <2>4, FewerBefore
    <3>2. f[y] \in T
      OBVIOUS
    <3>3. n <= f[y]
      BY <2>2, <3>2
    <3>. QED  BY <2>3, <3>1, <3>3
  <2>. QED  BY <2>4
<1>. QED  BY <1>1, <1>2

(* There is an element with as many before it as one likes.                *)
LEMMA EveryRankIsTaken ==
  ASSUME NEW S, NEW R, Orders(R, S), NEW i \in Nat, i < Cardinality(S)
  PROVE  \E x \in S : Cardinality(Before(R, S, x)) = i
<1>. DEFINE n == Cardinality(S)
            f == [x \in S |-> Cardinality(Before(R, S, x))]
<1>1. n \in Nat /\ IsFiniteSet(S)
  BY FS_CardinalityType DEF Orders
<1>2. f \in [S -> 0..(n - 1)]
  BY <1>1, BeforeIsLess
<1>3. \A x, y \in S : f[x] = f[y] => x = y
  <2>. SUFFICES ASSUME NEW x \in S, NEW y \in S, x # y PROVE f[x] # f[y]
    OBVIOUS
  <2>1. <<x, y>> \in R \/ <<y, x>> \in R
    BY DEF Orders
  <2>2. CASE <<x, y>> \in R
    BY <2>2, FewerBefore
  <2>3. CASE <<y, x>> \in R
    BY <2>3, FewerBefore
  <2>. QED  BY <2>1, <2>2, <2>3
<1>4. IsFiniteSet(0..(n - 1)) /\ Cardinality(0..(n - 1)) = n
  <2>1. CASE n = 0
    <3>1. 0..(n - 1) = {}
      BY <2>1
    <3>. QED  BY <2>1, <3>1, FS_EmptySet
  <2>2. CASE n # 0
    <3>1. n - 1 \in Int /\ ~(0 > n - 1) /\ (n - 1) - 0 + 1 = n
      BY <1>1, <2>2
    <3>. QED  BY <3>1, FS_Interval
  <2>. QED  BY <2>1, <2>2
<1>. HIDE DEF f
<1>5. f \in Injection(S, 0..(n - 1))
  BY <1>2, <1>3 DEF Injection, IsInjective
<1>6. f \in Surjection(S, 0..(n - 1))
  BY <1>1, <1>4, <1>5, FS_Injection
<1>7. \E x \in S : f[x] = i
  BY <1>1, <1>6 DEF Surjection
<1>. QED  BY <1>7 DEF f

-----------------------------------------------------------------------------
(* g adds f up over the subsets of S, one element after the other. *)
Adds(g, f, S) ==
  g = [T \in SUBSET S |->
         IF T = {} THEN 0
         ELSE LET x == CHOOSE x \in T : TRUE IN f[x] + g[T \ {x}]]

(* A set that is not empty has one element more than the set without the   *)
(* one that is chosen.                                                     *)
LEMMA OneLess ==
  ASSUME NEW T, IsFiniteSet(T), T # {}
  PROVE  LET x == CHOOSE x \in T : TRUE
         IN /\ x \in T /\ IsFiniteSet(T \ {x})
            /\ Cardinality(T) \in Nat /\ Cardinality(T \ {x}) \in Nat
            /\ Cardinality(T) = Cardinality(T \ {x}) + 1
<1>. DEFINE x == CHOOSE x \in T : TRUE
<1>1. x \in T
  OBVIOUS
<1>. HIDE DEF x
<1>2. /\ IsFiniteSet(T \ {x}) /\ Cardinality(T \ {x}) = Cardinality(T) - 1
      /\ Cardinality(T) \in Nat
  BY <1>1, FS_RemoveElement, FS_CardinalityType
<1>3. Cardinality(T \ {x}) \in Nat
  BY <1>2, FS_CardinalityType
<1>4. Cardinality(T) = Cardinality(T \ {x}) + 1
  BY <1>2, <1>3
<1>. QED  BY <1>1, <1>2, <1>3, <1>4 DEF x

(* Numbers can be added up.                                               *)
LEMMA SumExists ==
  ASSUME NEW S, IsFiniteSet(S), NEW f, \A x \in S : f[x] \in Nat
  PROVE  \E g : Adds(g, f, S)
<1>. DEFINE Small(n) == {T \in SUBSET S : Cardinality(T) <= n}
            pick(T) == CHOOSE x \in T : TRUE
            Step(g, T) == IF T = {} THEN 0 ELSE f[pick(T)] + g[T \ {pick(T)}]
            Good(n) == \E g \in [Small(n) -> Nat] : \A T \in Small(n) : g[T] = Step(g, T)
<1>1. ASSUME NEW T \in SUBSET S
      PROVE  /\ IsFiniteSet(T) /\ Cardinality(T) \in Nat
             /\ T # {} => /\ pick(T) \in S /\ T \ {pick(T)} \in SUBSET S
                          /\ Cardinality(T \ {pick(T)}) \in Nat
                          /\ Cardinality(T) = Cardinality(T \ {pick(T)}) + 1
  <2>1. IsFiniteSet(T) /\ Cardinality(T) \in Nat
    BY FS_Subset, FS_CardinalityType
  <2>. QED  BY <2>1, OneLess
<1>. HIDE DEF pick
<1>2. Good(0)
  <2>1. ASSUME NEW T \in Small(0) PROVE T = {}
    <3>1. Cardinality(T) <= 0 /\ T \in SUBSET S
      OBVIOUS
    <3>2. ASSUME T # {} PROVE FALSE
      <4>1. /\ Cardinality(T \ {pick(T)}) \in Nat /\ Cardinality(T) \in Nat
            /\ Cardinality(T) = Cardinality(T \ {pick(T)}) + 1
        BY <1>1, <3>1, <3>2
      <4>. QED  BY <3>1, <4>1
    <3>. QED  BY <3>2
  <2>2. [T \in Small(0) |-> 0] \in [Small(0) -> Nat]
    OBVIOUS
  <2>. QED  BY <2>1, <2>2
<1>3. ASSUME NEW n \in Nat, Good(n) PROVE Good(n + 1)
  <2>1. PICK g \in [Small(n) -> Nat] : \A T \in Small(n) : g[T] = Step(g, T)
    BY <1>3
  <2>. DEFINE h == [T \in Small(n + 1) |-> Step(g, T)]
  <2>2. ASSUME NEW T \in Small(n + 1), T # {}
        PROVE  T \ {pick(T)} \in Small(n) /\ T \ {pick(T)} \in Small(n + 1) /\ pick(T) \in S
    <3>1. T \in SUBSET S /\ Cardinality(T) <= n + 1
      OBVIOUS
    <3>2. /\ T \ {pick(T)} \in SUBSET S /\ Cardinality(T \ {pick(T)}) \in Nat
          /\ Cardinality(T) = Cardinality(T \ {pick(T)}) + 1 /\ pick(T) \in S
      BY <1>1, <2>2, <3>1
    <3>3. Cardinality(T \ {pick(T)}) <= n /\ Cardinality(T \ {pick(T)}) <= n + 1
      BY <3>1, <3>2
    <3>. QED  BY <3>2, <3>3
  <2>3. h \in [Small(n + 1) -> Nat]
    <3>1. ASSUME NEW T \in Small(n + 1) PROVE Step(g, T) \in Nat
      <4>1. CASE T = {}
        BY <4>1
      <4>2. CASE T # {}
        <5>1. g[T \ {pick(T)}] \in Nat /\ f[pick(T)] \in Nat
          BY <2>1, <2>2, <4>2
        <5>. QED  BY <4>2, <5>1
      <4>. QED  BY <4>1, <4>2
    <3>. QED  BY <3>1
  <2>4. ASSUME NEW T \in Small(n + 1) PROVE h[T] = Step(h, T)
    <3>1. CASE T = {}
      BY <3>1
    <3>2. CASE T # {}
      <4>. DEFINE U == T \ {pick(T)}
      <4>1. U \in Small(n) /\ U \in Small(n + 1)
        BY <2>2, <3>2
      <4>2. h[U] = Step(g, U) /\ g[U] = Step(g, U)
        BY <2>1, <4>1
      <4>. QED  BY <3>2, <4>2
    <3>. QED  BY <3>1, <3>2
  <2>. QED  BY <2>3, <2>4
<1>. DEFINE Bad == {n \in Nat : ~Good(n)}
<1>4. Bad = {}
  <2>. HIDE DEF Good
  <2>1. SUFFICES ASSUME Bad # {} PROVE FALSE
    OBVIOUS
  <2>2. PICK n \in Bad : \A k \in Bad : n <= k
    BY <2>1, LeastOfNaturals
  <2>3. n \in Nat /\ n # 0
    BY <1>2
  <2>4. n - 1 \in Nat /\ ~(n <= n - 1) /\ (n - 1) + 1 = n
    BY <2>3
  <2>5. Good(n - 1)
    BY <2>2, <2>4
  <2>6. Good(n)
    BY <1>3, <2>4, <2>5
  <2>. QED  BY <2>6
<1>5. Cardinality(S) \in Nat /\ \A T \in SUBSET S : Cardinality(T) <= Cardinality(S)
  BY FS_Subset, FS_CardinalityType
<1>6. Small(Cardinality(S)) = SUBSET S
  BY <1>5
<1>7. PICK g \in [SUBSET S -> Nat] : \A T \in SUBSET S : g[T] = Step(g, T)
  <2>1. Good(Cardinality(S))
    <3>. HIDE DEF Good
    <3>. QED  BY <1>4, <1>5
  <2>. HIDE DEF Small, Step
  <2>. QED  BY <1>6, <2>1
<1>8. g = [T \in SUBSET S |-> Step(g, T)]
  BY <1>7
<1>9. Adds(g, f, S)
  BY <1>8 DEF Adds, pick
<1>. QED  BY <1>9

(* A sum of numbers is a number.                                           *)
LEMMA SumIsNatural ==
  ASSUME NEW S, IsFiniteSet(S), NEW f, \A x \in S : f[x] \in Nat, NEW g, Adds(g, f, S)
  PROVE  g[S] \in Nat
<1>. DEFINE Bad == {Cardinality(T) : T \in {U \in SUBSET S : g[U] \notin Nat}}
<1>1. ASSUME NEW T \in SUBSET S PROVE IsFiniteSet(T) /\ Cardinality(T) \in Nat
  BY FS_Subset, FS_CardinalityType
<1>2. Bad = {}
  <2>1. SUFFICES ASSUME Bad # {} PROVE FALSE
    OBVIOUS
  <2>2. Bad \in SUBSET Nat
    BY <1>1
  <2>3. PICK n \in Bad : \A k \in Bad : n <= k
    BY <2>1, <2>2, LeastOfNaturals
  <2>4. PICK T \in SUBSET S : g[T] \notin Nat /\ Cardinality(T) = n
    OBVIOUS
  <2>. DEFINE x == CHOOSE x \in T : TRUE
              U == T \ {x}
  <2>5. g[T] = IF T = {} THEN 0 ELSE f[x] + g[U]
    BY DEF Adds
  <2>6. T # {}
    BY <2>4, <2>5
  <2>7. /\ x \in S /\ U \in SUBSET S /\ Cardinality(U) \in Nat
        /\ Cardinality(T) = Cardinality(U) + 1
    BY <1>1, <2>6, OneLess
  <2>. HIDE DEF x, U
  <2>8. CASE g[U] \in Nat
    BY <2>4, <2>5, <2>6, <2>7, <2>8
  <2>9. CASE g[U] \notin Nat
    <3>1. Cardinality(U) \in Bad
      BY <2>7, <2>9
    <3>2. n <= Cardinality(U) /\ n = Cardinality(U) + 1
      BY <2>3, <2>4, <2>7, <3>1
    <3>. QED  BY <2>7, <3>2
  <2>. QED  BY <2>8, <2>9
<1>. QED  BY <1>2

(* The sum of the values of a function is a number.                        *)
LEMMA SumOfValues ==
  ASSUME NEW S, IsFiniteSet(S), NEW f, \A x \in S : f[x] \in Nat
  PROVE  SumFunctionOnSet(f, S) \in Nat
<1>. DEFINE g == CHOOSE g : Adds(g, f, S)
<1>1. Adds(g, f, S)
  BY SumExists
<1>2. g[S] \in Nat
  BY <1>1, SumIsNatural
<1>. QED  BY <1>2 DEF Adds, SumFunctionOnSet, FoldFunctionOnSet, MapThenFoldSet

-----------------------------------------------------------------------------
(* The order of the list, as a relation.                                   *)
Order == {p \in RowIds \X RowIds : Precedes(p[1], p[2])}

(* The relation says what the operator says.                               *)
LEMMA OrderIsPrecedes ==
  ASSUME NEW i \in RowIds, NEW j \in RowIds
  PROVE  <<i, j>> \in Order <=> Precedes(i, j)
BY DEF Order

(* Newest first and by id among equals is a strict order of the rows.      *)
LEMMA ListsAreOrdered == ListTypeOK => Orders(Order, RowIds)
<1>. SUFFICES ASSUME ListTypeOK PROVE Orders(Order, RowIds)
  OBVIOUS
<1>1. IsFiniteSet(RowIds) /\ RowIds \subseteq Int
  BY FS_Interval, ListingAssumption DEF RowIds
<1>2. \A i \in RowIds : rowTime[i] \in Int
  BY ListingAssumption DEF ListTypeOK
<1>3. CASE list = "shops"
  <2>1. \A i, j \in RowIds : <<i, j>> \in Order <=> i < j
    BY <1>3, OrderIsPrecedes DEF Precedes
  <2>. QED  BY <1>1, <2>1 DEF Orders
<1>4. CASE list = "adminShops"
  <2>1. \A i, j \in RowIds : <<i, j>> \in Order <=> i > j
    BY <1>4, OrderIsPrecedes DEF Precedes
  <2>. QED  BY <1>1, <2>1 DEF Orders
<1>5. CASE list # "shops" /\ list # "adminShops"
  <2>1. \A i, j \in RowIds :
          <<i, j>> \in Order <=> rowTime[i] > rowTime[j] \/ (rowTime[i] = rowTime[j] /\ i > j)
    BY <1>5, OrderIsPrecedes DEF Precedes
  <2>2. \A i \in RowIds : <<i, i>> \notin Order
    BY <1>1, <1>2, <2>1
  <2>3. ASSUME NEW i \in RowIds, NEW j \in RowIds
        PROVE  i = j \/ <<i, j>> \in Order \/ <<j, i>> \in Order
    <3>1. i \in Int /\ j \in Int /\ rowTime[i] \in Int /\ rowTime[j] \in Int
      BY <1>1, <1>2
    <3>2. \/ rowTime[i] > rowTime[j] \/ rowTime[j] > rowTime[i]
          \/ rowTime[i] = rowTime[j] /\ (i = j \/ i > j \/ j > i)
      BY <3>1
    <3>. QED  BY <2>1, <3>2
  <2>4. \A i, j, k \in RowIds : <<i, j>> \in Order /\ <<j, k>> \in Order => <<i, k>> \in Order
    BY <1>1, <1>2, <2>1
  <2>. QED  BY <1>1, <2>2, <2>3, <2>4 DEF Orders
<1>. QED  BY <1>3, <1>4, <1>5

(* A page: all of the rows if they fit; else the first, and the last of    *)
(* them has all of the page before it and the rest behind it.              *)
LEMMA APage ==
  ASSUME ListTypeOK, NEW n \in Nat \ {0}, NEW S \in SUBSET RowIds
  PROVE  /\ Take(n, S) \subseteq S
         /\ ~(Cardinality(S) > n) => Take(n, S) = S
         /\ Cardinality(S) > n =>
              /\ LastOf(Take(n, S)) \in Take(n, S)
              /\ \A i \in Take(n, S) : i = LastOf(Take(n, S)) \/ <<i, LastOf(Take(n, S))>> \in Order
              /\ \A i \in S \ Take(n, S) : <<LastOf(Take(n, S)), i>> \in Order
<1>. DEFINE page == Take(n, S)
            last == LastOf(page)
<1>1. Orders(Order, S) /\ Orders(Order, RowIds)
  BY ListsAreOrdered, OrdersASubset
<1>2. \A i \in S : {j \in S : Precedes(j, i)} = Before(Order, S, i)
  BY OrderIsPrecedes DEF Before
<1>3. page = {i \in S : Cardinality(Before(Order, S, i)) < n}
  BY <1>2 DEF Take
<1>4. Cardinality(S) \in Nat
  BY <1>1, FS_CardinalityType DEF Orders
<1>. HIDE DEF page
<1>5. ~(Cardinality(S) > n) => page = S
  BY <1>1, <1>3, <1>4, BeforeIsLess
<1>6. ASSUME Cardinality(S) > n
      PROVE  last \in page /\ \A i \in page : <<last, i>> \notin Order
  <2>1. page # {}
    <3>1. S # {}
      BY <1>6, FS_EmptySet
    <3>2. PICK m \in S : \A y \in S : <<y, m>> \notin Order
      BY <1>1, <3>1, FirstAndLast
    <3>3. Before(Order, S, m) = {}
      BY <3>2 DEF Before
    <3>4. Cardinality(Before(Order, S, m)) = 0
      BY <3>3, FS_EmptySet
    <3>. QED  BY <1>3, <3>4
  <2>2. page \subseteq RowIds /\ Orders(Order, page)
    BY <1>1, <1>3, OrdersASubset
  <2>3. \E m \in page : \A y \in page : <<m, y>> \notin Order
    BY <2>1, <2>2, FirstAndLast
  <2>4. \E m \in page : \A y \in page : ~Precedes(m, y)
    BY <2>2, <2>3, OrderIsPrecedes
  <2>5. last \in page /\ \A y \in page : ~Precedes(last, y)
    BY <2>4 DEF LastOf
  <2>. QED  BY <2>2, <2>5, OrderIsPrecedes
<1>7. ASSUME Cardinality(S) > n, NEW i \in page
      PROVE  i = last \/ <<i, last>> \in Order
  BY <1>1, <1>3, <1>6, <1>7 DEF Orders
<1>8. ASSUME Cardinality(S) > n, NEW i \in S \ page
      PROVE  <<last, i>> \in Order
  <2>1. last \in S /\ last # i /\ ~(Cardinality(Before(Order, S, i)) < n)
        /\ Cardinality(Before(Order, S, last)) < n
    BY <1>3, <1>6, <1>8
  <2>. HIDE DEF last
  <2>2. CASE <<i, last>> \in Order
    <3>1. /\ Cardinality(Before(Order, S, i)) < Cardinality(Before(Order, S, last))
          /\ Cardinality(Before(Order, S, i)) \in Nat
          /\ Cardinality(Before(Order, S, last)) \in Nat
      BY <1>1, <2>1, <2>2, FewerBefore
    <3>. QED  BY <2>1, <3>1
  <2>3. CASE <<i, last>> \notin Order
    BY <1>1, <2>1, <2>3 DEF Orders
  <2>. QED  BY <2>2, <2>3
<1>. QED  BY <1>3, <1>5, <1>6, <1>7, <1>8 DEF page

-----------------------------------------------------------------------------
(* The list is compared by value, or the cursor's row was always there.    *)
Faithful == list \in ByPrisma => ~walk.strayed

(* A client has seen all that stood up to the cursor and nothing behind.   *)
WalkIsSound ==
  /\ walk.pc = "start" => /\ walk.seen = {} /\ walk.last = 0 /\ ~walk.twice
                          /\ ~walk.strayed
  /\ walk.pc = "next" => walk.last \in walk.seen
  /\ walk.pc # "start" => walk.steady \subseteq Shown
  /\ Faithful => ~walk.twice
  /\ Faithful /\ walk.pc = "next" =>
       /\ \A i \in walk.seen : i = walk.last \/ <<i, walk.last>> \in Order
       /\ \A i \in walk.steady : i \in walk.seen \/ <<walk.last, i>> \in Order
  /\ Faithful /\ walk.pc = "end" => walk.steady \subseteq walk.seen

ListInv == ListTypeOK /\ WalkIsSound

(* Nothing has been shown.                                                 *)
LEMMA ScrollStart == ListInit => ListInv
<1>. SUFFICES ASSUME ListInit PROVE ListInv
  OBVIOUS
<1>1. PICK n \in Sizes : walk = NewWalk(n)
  BY DEF ListInit
<1>2. /\ walk \in Walk /\ walk.pc = "start" /\ walk.seen = {} /\ walk.last = 0
      /\ ~walk.twice /\ ~walk.strayed
  BY <1>1, ListingAssumption DEF NewWalk, Walk
<1>. QED  BY <1>2 DEF ListInit, ListInv, ListTypeOK, WalkIsSound, RowIds

(* What a page must be picked from: the rows shown after the cursor.       *)
Rest == IF walk.last = 0 THEN Shown ELSE {i \in Shown : <<walk.last, i>> \in Order}

(* The answer with a page of the rest.                                     *)
LEMMA PageAnswered ==
  ASSUME ListInv, walk.pc # "end", NEW match \in SUBSET RowIds,
         Answer(match), UNCHANGED <<list, row, rowTime>>,
         \/ list \in ByPrisma /\ (walk.strayed \/ (walk.last # 0 /\ walk.last \notin Shown))
         \/ match = Rest
  PROVE  ListInv'
<1>. DEFINE w == walk
            page == Take(w.size, match)
            more == Cardinality(match) > w.size
            pc == IF more THEN "next" ELSE "end"
            last == IF more THEN LastOf(page) ELSE 0
            seen == w.seen \union page
            twice == w.twice \/ page \intersect w.seen # {}
            steady == IF w.pc = "start" THEN Shown ELSE w.steady
            strayed == w.strayed \/ (w.last # 0 /\ w.last \notin Shown)
            v == [w EXCEPT !.pc = pc, !.last = last, !.seen = seen, !.twice = twice,
                           !.steady = steady, !.strayed = strayed]
<1>1. walk' = v
  BY DEF Answer
<1>2. /\ w \in Walk /\ w.pc \in {"start", "next"} /\ w.size \in Nat \ {0}
      /\ w.last \in w.seen \union {0} /\ w.seen \subseteq RowIds /\ WalkIsSound
      /\ Orders(Order, RowIds) /\ Shown \subseteq RowIds /\ 0 \notin RowIds
  <2>1. w \in Walk /\ w.last \in w.seen \union {0} /\ WalkIsSound /\ ListTypeOK
    BY DEF ListInv, ListTypeOK
  <2>2. w.size \in Sizes /\ w.seen \subseteq RowIds /\ w.pc \in {"start", "next", "end"}
    BY <2>1 DEF Walk
  <2>3. 0 \notin RowIds
    BY ListingAssumption DEF RowIds
  <2>. QED  BY <2>1, <2>2, <2>3, ListsAreOrdered, ListingAssumption DEF Shown
<1>3. /\ page \subseteq match
      /\ ~more => page = match
      /\ more => /\ last \in page
                 /\ \A i \in page : i = last \/ <<i, last>> \in Order
                 /\ \A i \in match \ page : <<last, i>> \in Order
      /\ ~more => last = 0
  BY <1>2, APage DEF ListInv
<1>4. /\ pc = "next" <=> more
      /\ pc \in {"next", "end"}
      /\ twice \in BOOLEAN /\ strayed \in BOOLEAN
      /\ (twice <=> w.twice \/ page \intersect w.seen # {})
      /\ (strayed <=> w.strayed \/ (w.last # 0 /\ w.last \notin Shown))
  BY <1>2 DEF Walk
<1>5. /\ steady \subseteq RowIds /\ steady \subseteq Shown
      /\ w.pc = "start" => steady = Shown
      /\ w.pc # "start" => steady = w.steady
  BY <1>2 DEF WalkIsSound
<1>6. Order' = Order /\ Shown' = Shown
  BY DEF Order, Precedes, Shown, RowIds
<1>7. match = Rest \/ (list \in ByPrisma /\ strayed)
  BY <1>4
<1>8. walk' = [w EXCEPT !.pc = pc, !.last = last, !.seen = seen, !.twice = twice,
                        !.steady = steady, !.strayed = strayed]
      /\ seen = w.seen \union page
  BY <1>1
<1>9. last \in 0..MaxRow /\ last \in page \union {0}
  <2>1. CASE more
    <3>1. last \in page /\ last \in RowIds
      BY <1>3, <2>1
    <3>. QED  BY <3>1, ListingAssumption DEF RowIds
  <2>2. CASE ~more
    <3>1. last = 0
      BY <1>3, <2>2
    <3>. QED  BY <3>1, ListingAssumption
  <2>. QED  BY <2>1, <2>2
<1>. HIDE DEF w, page, more, pc, last, seen, twice, steady, strayed
<1>10. seen \subseteq RowIds
  BY <1>2, <1>3, <1>8
<1>11. /\ walk' \in Walk /\ walk'.pc = pc /\ walk'.last = last /\ walk'.seen = seen
       /\ walk'.twice = twice /\ walk'.steady = steady /\ walk'.strayed = strayed
  BY <1>2, <1>4, <1>5, <1>8, <1>9, <1>10 DEF Walk
<1>12. ASSUME list \in ByPrisma => ~strayed
       PROVE  /\ ~twice
              /\ pc = "next" => /\ \A i \in seen : i = last \/ <<i, last>> \in Order
                                /\ \A i \in steady : i \in seen \/ <<last, i>> \in Order
              /\ pc = "end" => steady \subseteq seen
  <2>1. match = Rest /\ Faithful
    BY <1>4, <1>7, <1>12 DEF Faithful, w
  <2>2. CASE w.pc = "start"
    <3>1. w.seen = {} /\ w.last = 0 /\ ~w.twice
      BY <1>2, <2>2 DEF WalkIsSound, w
    <3>2. match = Shown /\ steady = Shown
      BY <1>5, <2>1, <2>2, <3>1 DEF Rest, w
    <3>. QED  BY <1>3, <1>4, <1>8, <3>1, <3>2
  <2>3. CASE w.pc = "next"
    <3>1. /\ w.last \in w.seen /\ w.last # 0 /\ ~w.twice /\ steady = w.steady
          /\ \A i \in w.seen : i = w.last \/ <<i, w.last>> \in Order
          /\ \A i \in w.steady : i \in w.seen \/ <<w.last, i>> \in Order
      BY <1>2, <1>5, <2>1, <2>3 DEF WalkIsSound, w
    <3>2. match = {i \in Shown : <<w.last, i>> \in Order}
      BY <2>1, <3>1 DEF Rest, w
    <3>3. \A i \in w.seen : i \notin match
      BY <1>2, <3>1, <3>2 DEF Orders
    <3>4. ~twice
      BY <1>3, <1>4, <3>1, <3>3
    <3>5. \A i \in steady : i \in w.seen \/ i \in match
      BY <1>5, <3>1, <3>2
    <3>6. pc = "end" => steady \subseteq seen
      BY <1>3, <1>4, <1>8, <3>5
    <3>7. ASSUME pc = "next" PROVE \A i \in steady : i \in seen \/ <<last, i>> \in Order
      BY <1>3, <1>4, <1>8, <3>5, <3>7
    <3>8. ASSUME pc = "next", NEW i \in seen PROVE i = last \/ <<i, last>> \in Order
      <4>1. last \in match /\ <<w.last, last>> \in Order /\ last \in RowIds
        BY <1>3, <1>4, <3>2, <3>8
      <4>2. CASE i \in page
        BY <1>3, <1>4, <3>8, <4>2
      <4>3. CASE i \in w.seen
        BY <1>2, <3>1, <4>1, <4>3 DEF Orders
      <4>. QED  BY <1>8, <3>8, <4>2, <4>3
    <3>. QED  BY <3>4, <3>6, <3>7, <3>8
  <2>. QED  BY <1>2, <2>2, <2>3
<1>13. ListTypeOK'
  BY <1>8, <1>9, <1>11 DEF ListInv, ListTypeOK, RowIds
<1>14. pc = "next" => last \in seen
  BY <1>3, <1>4, <1>8
<1>15. WalkIsSound'
  BY <1>4, <1>5, <1>6, <1>11, <1>12, <1>14 DEF WalkIsSound, Faithful
<1>. QED  BY <1>13, <1>15 DEF ListInv

(* A page by the keys of the last row is the next page of the rest.        *)
LEMMA KeysetPages ==
  ASSUME ListInv, KeysetPage
  PROVE  ListInv'
<1>. DEFINE match == IF walk.last = 0 THEN Shown ELSE {i \in Shown : Precedes(walk.last, i)}
<1>1. Answer(match) /\ walk.pc # "end" /\ UNCHANGED <<list, row, rowTime>>
  BY DEF KeysetPage
<1>2. Shown \subseteq RowIds /\ (walk.last # 0 => walk.last \in RowIds)
  BY DEF Shown, ListInv, ListTypeOK, Walk
<1>3. match \subseteq RowIds /\ match = Rest
  BY <1>2, OrderIsPrecedes DEF Rest
<1>. HIDE DEF match
<1>. QED  BY <1>1, <1>3, PageAnswered

(* With its row still shown, Prisma's cursor leaves out that row alone.    *)
LEMMA CursorPages ==
  ASSUME ListInv, CursorPage, list \in ByPrisma
  PROVE  ListInv'
<1>. DEFINE from == {i \in Shown : ~Precedes(i, walk.last)}
            match == IF walk.last = 0 THEN Shown
                     ELSE IF row[walk.last] = "deleted" THEN {} ELSE from \ Take(1, from)
<1>1. Answer(match) /\ walk.pc # "end" /\ UNCHANGED <<list, row, rowTime>>
  BY DEF CursorPage
<1>2. Shown \subseteq RowIds /\ (walk.last # 0 => walk.last \in RowIds) /\ from \subseteq Shown
  BY DEF Shown, ListInv, ListTypeOK, Walk
<1>3. match \subseteq RowIds
  BY <1>2
<1>4. ASSUME walk.last # 0, walk.last \in Shown
      PROVE  match = Rest
  <2>. DEFINE l == walk.last
  <2>0. l \in RowIds /\ Orders(Order, RowIds) /\ Orders(Order, from) /\ ListTypeOK
    BY <1>2, <1>4, ListsAreOrdered, OrdersASubset DEF ListInv
  <2>1. row[l] # "deleted"
    BY <1>4 DEF Shown
  <2>2. match = from \ Take(1, from)
    BY <1>4, <2>1
  <2>3. Rest = {i \in Shown : <<l, i>> \in Order}
    BY <1>4 DEF Rest
  <2>. HIDE DEF match, l
  <2>4. \A i \in RowIds : i \in from <=> i \in Shown /\ <<i, l>> \notin Order
    BY <2>0, OrderIsPrecedes DEF l
  <2>. HIDE DEF from
  <2>5. l \in from /\ \A i \in from : i = l \/ <<l, i>> \in Order
    BY <1>2, <1>4, <2>0, <2>4 DEF Orders, l
  <2>6. Take(1, from) = {i \in from : Cardinality(Before(Order, from, i)) < 1}
    <3>1. \A i \in from : {j \in from : Precedes(j, i)} = Before(Order, from, i)
      BY <1>2, OrderIsPrecedes DEF Before
    <3>. QED  BY <3>1 DEF Take
  <2>7. ASSUME NEW i \in from PROVE Cardinality(Before(Order, from, i)) < 1 <=> i = l
    <3>1. CASE i = l
      <4>1. Before(Order, from, l) = {}
        BY <1>2, <2>0, <2>5 DEF Before, Orders
      <4>. QED  BY <3>1, <4>1, FS_EmptySet
    <3>2. CASE i # l
      <4>1. l \in Before(Order, from, i) /\ Before(Order, from, i) \subseteq from
        BY <2>5, <3>2 DEF Before
      <4>2. IsFiniteSet(Before(Order, from, i))
        BY <2>0, <4>1, FS_Subset DEF Orders
      <4>3. /\ Cardinality(Before(Order, from, i)) \in Nat
            /\ Cardinality(Before(Order, from, i)) # 0
        BY <4>1, <4>2, FS_EmptySet, FS_CardinalityType
      <4>. QED  BY <3>2, <4>3
    <3>. QED  BY <3>1, <3>2
  <2>8. match = from \ {l}
    BY <2>2, <2>5, <2>6, <2>7
  <2>9. \A i \in Shown : i \in from \ {l} <=> <<l, i>> \in Order
    BY <1>2, <2>0, <2>4, <2>5 DEF Orders
  <2>. QED  BY <1>2, <2>3, <2>8, <2>9
<1>5. walk.last = 0 => match = Rest
  BY DEF Rest
<1>. HIDE DEF match, from
<1>. QED  BY <1>1, <1>3, <1>4, <1>5, PageAnswered

(* A row that comes or goes was not there all the time.                    *)
LEMMA RowBecomes ==
  ASSUME ListInv, NEW i \in RowIds, NEW state \in {"shown", "hidden", "deleted"},
         Becomes(i, state)
  PROVE  ListInv'
<1>. DEFINE w == walk
            steady == w.steady \ {i}
            v == [w EXCEPT !.steady = steady]
<1>1. walk' = v /\ row' = [row EXCEPT ![i] = state] /\ UNCHANGED <<list, rowTime>>
  BY DEF Becomes
<1>2. w \in Walk /\ WalkIsSound /\ ListTypeOK
  BY DEF ListInv, ListTypeOK
<1>. HIDE DEF w
<1>3. steady \subseteq RowIds
  BY <1>2 DEF Walk
<1>4. steady = w.steady \ {i}
  OBVIOUS
<1>. HIDE DEF steady
<1>5. /\ v \in Walk /\ v.pc = w.pc /\ v.last = w.last /\ v.seen = w.seen /\ v.twice = w.twice
      /\ v.steady = steady /\ v.strayed = w.strayed /\ v.size = w.size
  BY <1>2, <1>3 DEF Walk
<1>. HIDE DEF v
<1>6. /\ row' \in [RowIds -> {"none", "shown", "hidden", "deleted"}]
      /\ \A j \in RowIds : j # i => row'[j] = row[j]
  BY <1>1, <1>2 DEF ListTypeOK
<1>7. Order' = Order
  BY <1>1 DEF Order, Precedes, RowIds
<1>8. \A j \in Shown : j # i => j \in Shown'
  BY <1>6 DEF Shown
<1>9. ListTypeOK'
  BY <1>1, <1>2, <1>5, <1>6 DEF ListTypeOK, w
<1>10. WalkIsSound'
  BY <1>1, <1>2, <1>4, <1>5, <1>7, <1>8 DEF WalkIsSound, Faithful, w
<1>. QED  BY <1>9, <1>10 DEF ListInv

(* So every step keeps ListInv.                                            *)
LEMMA ScrollMoves == ListInv /\ [ListNext]_listVars => ListInv'
<1>. SUFFICES ASSUME ListInv, [ListNext]_listVars PROVE ListInv'
  OBVIOUS
<1>1. CASE DesignFeed \/ WishedDesigns \/ MyNotifications \/ MyRequests \/ MyReservations \/ AdminShops
  BY <1>1, KeysetPages
     DEF DesignFeed, WishedDesigns, MyNotifications, MyRequests, MyReservations, AdminShops
<1>2. CASE ShopList \/ WishedShops \/ ShopReviews
  BY <1>2, CursorPages DEF ShopList, WishedShops, ShopReviews, ByPrisma
<1>3. ASSUME NEW i \in RowIds, AddRow(i) \/ HideRow(i) \/ ShowRow(i) \/ DeleteRow(i)
      PROVE  ListInv'
  BY <1>3, RowBecomes DEF AddRow, HideRow, ShowRow, DeleteRow
<1>4. CASE UNCHANGED listVars
  BY <1>4 DEF listVars, ListInv, ListTypeOK, WalkIsSound, Faithful, Shown, Order, Precedes
<1>. QED  BY <1>1, <1>2, <1>3, <1>4 DEF ListNext

(* Whatever rows come, go, are hidden or have equal times while a client   *)
(* scrolls, by any page size: at the end it has seen every row that was    *)
(* there all the time, and none twice; where Prisma looks the cursor's row *)
(* up, as long as that row was still shown (design.repository.ts:203).     *)
THEOREM ScrollingShowsAll == ListSpec => []ScrollShowsAll
<1>1. ListInv => ScrollShowsAll
  BY DEF ListInv, ListTypeOK, WalkIsSound, Faithful, ScrollShowsAll, KeysetShowsAll, CursorShowsAll
<1>. QED  BY <1>1, ScrollStart, ScrollMoves, PTL DEF ListSpec

(* The list and the walk keep their types.                                 *)
THEOREM ListsTyped == ListSpec => []ListTypeOK
<1>1. ListInv => ListTypeOK
  BY DEF ListInv
<1>. QED  BY <1>1, ScrollStart, ScrollMoves, PTL DEF ListSpec

-----------------------------------------------------------------------------
(***************************************************************************)
(* Matching.  A query is the beginning of a list that is sorted; a wider   *)
(* one has a longer list that begins the same.                             *)
(***************************************************************************)

(* The order of a search, as a relation of the shops.                      *)
NearerOrder == {p \in Candidates \X Candidates : Nearer(p[1], p[2])}
CheaperOrder == {p \in Candidates \X Candidates : Cheaper(p[1], p[2])}

(* The tables alone. *)
TablesOK ==
  /\ listed \in [Candidates -> BOOLEAN]
  /\ quotes \in [Candidates -> Seq(Quote)] /\ Cardinality(Priced) <= MaxQuotes

(* Nearest first and by id among equals is a strict order of the shops. *)
LEMMA NearerIsAnOrder == Orders(NearerOrder, Candidates)
<1>1. \A s, t \in Candidates : <<s, t>> \in NearerOrder <=> Nearer(s, t)
  BY DEF NearerOrder
<1>2. /\ IsFiniteSet(Candidates)
      /\ \A s \in Candidates : s \in Int /\ Distance[s] \in Int
  BY MatchingAssumption
<1>3. \A s, t \in Candidates :
        <<s, t>> \in NearerOrder <=>
          Distance[s] < Distance[t] \/ (Distance[s] = Distance[t] /\ s < t)
  BY <1>1 DEF Nearer
<1>. HIDE DEF NearerOrder
<1>. QED  BY <1>2, <1>3 DEF Orders

(* How many prices a shop has offered, and their sum. *)
LEMMA PricesOfAShop ==
  ASSUME TablesOK, NEW s \in Candidates
  PROVE  Cardinality(PricesOf(s)) \in Nat /\ Total(s) \in Nat
<1>1. quotes[s] \in Seq(Quote) /\ DOMAIN quotes[s] = 1..Len(quotes[s]) /\ Len(quotes[s]) \in Nat
  BY DEF TablesOK
<1>2. IsFiniteSet(DOMAIN quotes[s])
  BY <1>1, FS_Interval
<1>3. IsFiniteSet(PricesOf(s)) /\ Cardinality(PricesOf(s)) \in Nat
  BY <1>2, FS_Subset, FS_CardinalityType DEF PricesOf
<1>. DEFINE f == [i \in DOMAIN quotes[s] |-> quotes[s][i].price]
<1>4. \A i \in PricesOf(s) : f[i] \in Nat
  <2>1. ASSUME NEW i \in PricesOf(s) PROVE f[i] \in Nat
    <3>1. i \in DOMAIN quotes[s] /\ quotes[s][i].price # NoPrice
      BY DEF PricesOf
    <3>2. quotes[s][i] \in Quote
      BY <1>1, <3>1
    <3>. QED  BY <3>1, <3>2, MatchingAssumption DEF Quote
  <2>. QED  BY <2>1
<1>. HIDE DEF f
<1>5. SumFunctionOnSet(f, PricesOf(s)) \in Nat
  BY <1>3, <1>4, SumOfValues
<1>. QED  BY <1>3, <1>5 DEF Total, f

(* Fractions are compared by their products: no price first of all, then   *)
(* a higher average. *)
LEMMA FractionsCompared ==
  ASSUME NEW x \in Nat, NEW y \in Nat, NEW z \in Nat,
         NEW k \in Nat, NEW m \in Nat, NEW n \in Nat, k # 0, m # 0, n # 0
  PROVE  /\ x * m < y * k /\ y * n < z * m => x * n < z * k
         /\ x * m < y * k /\ y * n = z * m => x * n < z * k
         /\ x * m = y * k /\ y * n < z * m => x * n < z * k
         /\ x * m = y * k /\ y * n = z * m => x * n = z * k
OBVIOUS

(* s is cheaper than t on average, and as cheap.                           *)
Lower(s, t) ==
  LET m == Cardinality(PricesOf(s))
      n == Cardinality(PricesOf(t))
  IN m # 0 /\ (n = 0 \/ Total(s) * n < Total(t) * m)

Same(s, t) ==
  LET m == Cardinality(PricesOf(s))
      n == Cardinality(PricesOf(t))
  IN (m = 0 /\ n = 0) \/ (m # 0 /\ n # 0 /\ Total(s) * n = Total(t) * m)

(* Averages are compared as numbers are. *)
LEMMA AveragesCompared ==
  ASSUME TablesOK, NEW s \in Candidates, NEW t \in Candidates, NEW u \in Candidates
  PROVE  /\ Lower(s, t) /\ Lower(t, u) => Lower(s, u)
         /\ Lower(s, t) /\ Same(t, u) => Lower(s, u)
         /\ Same(s, t) /\ Lower(t, u) => Lower(s, u)
         /\ Same(s, t) /\ Same(t, u) => Same(s, u)
         /\ ~Lower(s, s) /\ (Same(s, t) => Same(t, s))
         /\ Lower(s, t) \/ Same(s, t) \/ Lower(t, s)
         /\ Cheaper(s, t) <=> Lower(s, t) \/ (Same(s, t) /\ Nearer(s, t))
<1>. DEFINE k == Cardinality(PricesOf(s))
            m == Cardinality(PricesOf(t))
            n == Cardinality(PricesOf(u))
            x == Total(s)
            y == Total(t)
            z == Total(u)
<1>1. /\ k \in Nat /\ m \in Nat /\ n \in Nat
      /\ x \in Nat /\ y \in Nat /\ z \in Nat
  BY PricesOfAShop
<1>2. /\ Lower(s, t) <=> k # 0 /\ (m = 0 \/ x * m < y * k)
      /\ Lower(t, u) <=> m # 0 /\ (n = 0 \/ y * n < z * m)
      /\ Lower(s, u) <=> k # 0 /\ (n = 0 \/ x * n < z * k)
      /\ Lower(t, s) <=> m # 0 /\ (k = 0 \/ y * k < x * m)
      /\ Lower(s, s) <=> k # 0 /\ (k = 0 \/ x * k < x * k)
  BY DEF Lower
<1>3. /\ Same(s, t) <=> (k = 0 /\ m = 0) \/ (k # 0 /\ m # 0 /\ x * m = y * k)
      /\ Same(t, u) <=> (m = 0 /\ n = 0) \/ (m # 0 /\ n # 0 /\ y * n = z * m)
      /\ Same(s, u) <=> (k = 0 /\ n = 0) \/ (k # 0 /\ n # 0 /\ x * n = z * k)
      /\ Same(t, s) <=> (m = 0 /\ k = 0) \/ (m # 0 /\ k # 0 /\ y * k = x * m)
  BY DEF Same
<1>4. Cheaper(s, t) <=> Lower(s, t) \/ (Same(s, t) /\ Nearer(s, t))
  BY DEF Cheaper, Lower, Same
<1>. HIDE DEF k, m, n, x, y, z
<1>5. /\ x * m \in Int /\ y * k \in Int /\ x * k \in Int
  BY <1>1
<1>6. k # 0 /\ m # 0 /\ n # 0 =>
        /\ x * m < y * k /\ y * n < z * m => x * n < z * k
        /\ x * m < y * k /\ y * n = z * m => x * n < z * k
        /\ x * m = y * k /\ y * n < z * m => x * n < z * k
        /\ x * m = y * k /\ y * n = z * m => x * n = z * k
  BY <1>1, FractionsCompared
<1>7. /\ Lower(s, t) /\ Lower(t, u) => Lower(s, u)
      /\ Lower(s, t) /\ Same(t, u) => Lower(s, u)
  BY <1>2, <1>3, <1>6
<1>8. /\ Same(s, t) /\ Lower(t, u) => Lower(s, u)
      /\ Same(s, t) /\ Same(t, u) => Same(s, u)
  BY <1>2, <1>3, <1>6
<1>9. ~Lower(s, s) /\ (Same(s, t) => Same(t, s))
  BY <1>2, <1>3, <1>5
<1>10. Lower(s, t) \/ Same(s, t) \/ Lower(t, s)
  <2>1. x * m < y * k \/ x * m = y * k \/ y * k < x * m
    BY <1>5
  <2>. QED  BY <1>2, <1>3, <2>1
<1>. QED  BY <1>4, <1>7, <1>8, <1>9, <1>10

(* Cheapest first, the nearest first among the equally cheap, is a strict  *)
(* order of the shops.                                                     *)
LEMMA CheaperIsAnOrder == ASSUME TablesOK PROVE Orders(CheaperOrder, Candidates)
<1>1. \A s, t \in Candidates : <<s, t>> \in CheaperOrder <=> Cheaper(s, t)
  BY DEF CheaperOrder
<1>2. /\ IsFiniteSet(Candidates)
      /\ \A s \in Candidates : ~Nearer(s, s)
      /\ \A s, t, u \in Candidates : Nearer(s, t) /\ Nearer(t, u) => Nearer(s, u)
      /\ \A s, t \in Candidates : s = t \/ Nearer(s, t) \/ Nearer(t, s)
  BY NearerIsAnOrder DEF Orders, NearerOrder
<1>3. ASSUME NEW s \in Candidates PROVE <<s, s>> \notin CheaperOrder
  BY <1>1, <1>2, AveragesCompared
<1>4. ASSUME NEW s \in Candidates, NEW t \in Candidates, NEW u \in Candidates,
             <<s, t>> \in CheaperOrder, <<t, u>> \in CheaperOrder
      PROVE  <<s, u>> \in CheaperOrder
  <2>1. /\ Lower(s, t) \/ (Same(s, t) /\ Nearer(s, t))
        /\ Lower(t, u) \/ (Same(t, u) /\ Nearer(t, u))
    BY <1>1, <1>4, AveragesCompared
  <2>2. Lower(s, u) \/ (Same(s, u) /\ Nearer(s, u))
    BY <1>2, <2>1, AveragesCompared
  <2>. QED  BY <1>1, <2>2, AveragesCompared
<1>5. ASSUME NEW s \in Candidates, NEW t \in Candidates
      PROVE  s = t \/ <<s, t>> \in CheaperOrder \/ <<t, s>> \in CheaperOrder
  BY <1>1, <1>2, AveragesCompared
<1>. QED  BY <1>2, <1>3, <1>4, <1>5 DEF Orders

-----------------------------------------------------------------------------
(* A search orders the shops by R and takes the first of them: each has as *)
(* many before it as its index says, and what comes before it in the order *)
(* comes before it in the list.                                            *)
IsFirst(l, R, S, limit) ==
  LET n == Cardinality(S) IN
  /\ Len(l) = (IF n < limit THEN n ELSE limit) /\ l \in Seq(S)
  /\ \A i \in 1..Len(l) : i = 1 + Cardinality(Before(R, S, l[i]))
  /\ \A s \in S : 1 + Cardinality(Before(R, S, s)) <= limit =>
       \E i \in 1..Len(l) : l[i] = s

(* The first of a list that is sorted.                                     *)
LEMMA FirstOfSorted ==
  ASSUME NEW S, NEW R, Orders(R, S), NEW limit \in Nat, NEW l,
         l \in [1..Cardinality(S) -> S],
         \A i \in 1..Cardinality(S) : i = 1 + Cardinality(Before(R, S, l[i]))
  PROVE  IsFirst(FirstOf(l, limit), R, S, limit)
<1>. DEFINE n == Cardinality(S)
            m == IF n < limit THEN n ELSE limit
            f == FirstOf(l, limit)
<1>1. n \in Nat /\ m \in Nat /\ m <= n /\ m <= limit
  BY FS_CardinalityType DEF Orders
<1>2. ASSUME NEW i \in 1..n
      PROVE  l[i] \in S /\ i = 1 + Cardinality(Before(R, S, l[i]))
  OBVIOUS
<1>3. l \in Seq(S) /\ Len(l) = n
  BY <1>1, <1>2
<1>. HIDE DEF n
<1>4. f \in Seq(S) /\ Len(f) = m /\ \A i \in 1..m : f[i] = l[i]
  <2>1. f = SubSeq(l, 1, m)
    BY <1>3 DEF FirstOf
  <2>. HIDE DEF f, m
  <2>2. Len(f) = m /\ \A i \in 1..m : f[i] = l[i]
    BY <1>1, <1>3, <2>1
  <2>3. f \in Seq(S)
    BY ONLY <1>1, <1>3, <2>1
  <2>. QED  BY <2>2, <2>3
<1>5. \A i \in 1..m : i = 1 + Cardinality(Before(R, S, f[i]))
  BY <1>1, <1>2, <1>4
<1>6. ASSUME NEW s \in S, 1 + Cardinality(Before(R, S, s)) <= limit
      PROVE  \E i \in 1..m : f[i] = s
  <2>. DEFINE b == Cardinality(Before(R, S, s))
              i == b + 1
  <2>1. b \in Nat /\ b < n
    BY BeforeIsLess DEF n
  <2>. HIDE DEF b
  <2>2. i \in 1..m /\ i \in 1..n
    BY <1>1, <1>6, <2>1 DEF b
  <2>3. f[i] \in S /\ i = 1 + Cardinality(Before(R, S, f[i]))
    BY <1>2, <1>4, <2>2
  <2>4. ASSUME f[i] # s PROVE FALSE
    <3>1. PICK t \in S : t = f[i] /\ t # s /\ i = 1 + Cardinality(Before(R, S, t))
      BY <2>3, <2>4
    <3>2. <<t, s>> \in R \/ <<s, t>> \in R
      BY <3>1 DEF Orders
    <3>3. /\ Cardinality(Before(R, S, t)) \in Nat
          /\ Cardinality(Before(R, S, t)) # Cardinality(Before(R, S, s))
      BY <3>2, FewerBefore
    <3>. QED  BY <2>1, <3>1, <3>3 DEF b
  <2>. QED  BY <2>2, <2>4
<1>. HIDE DEF f, m
<1>7. Len(f) = (IF Cardinality(S) < limit THEN Cardinality(S) ELSE limit)
  BY <1>4 DEF m, n
<1>. QED  BY <1>4, <1>5, <1>6, <1>7 DEF IsFirst, f

(* There is somebody for every index of a list. *)
LEMMA SomebodyAtEveryIndex ==
  ASSUME NEW S, NEW R, Orders(R, S), NEW i \in 1..Cardinality(S)
  PROVE  \E s \in S : i = 1 + Cardinality(Before(R, S, s))
<1>1. Cardinality(S) \in Nat
  BY FS_CardinalityType DEF Orders
<1>2. i - 1 \in Nat /\ i - 1 < Cardinality(S) /\ i \in Nat
  BY <1>1
<1>3. PICK s \in S : Cardinality(Before(R, S, s)) = i - 1
  BY <1>2, EveryRankIsTaken
<1>4. i = 1 + Cardinality(Before(R, S, s))
  BY <1>2, <1>3
<1>. QED  BY <1>4

(* What the searches find. *)
LEMMA NearbyIsFirst ==
  ASSUME NEW type \in Types
  PROVE  /\ Orders(NearerOrder, InReach(type))
         /\ IsFirst(NearbyShops(type), NearerOrder, InReach(type), Policy[type].limit)
<1>. DEFINE S == InReach(type)
            R == NearerOrder
            l == Sorted(S, Nearer)
<1>1. Orders(R, S) /\ Policy[type].limit \in Nat
  BY NearerIsAnOrder, OrdersASubset, MatchingAssumption DEF InReach
<1>2. \A s \in S : {t \in S : Nearer(t, s)} = Before(R, S, s)
  BY DEF Before, NearerOrder, InReach
<1>3. l = [i \in 1..Cardinality(S) |->
             CHOOSE s \in S : i = 1 + Cardinality({t \in S : Nearer(t, s)})]
  BY DEF Sorted
<1>. HIDE DEF S, R, l
<1>4. ASSUME NEW i \in 1..Cardinality(S)
      PROVE  l[i] \in S /\ i = 1 + Cardinality(Before(R, S, l[i]))
  <2>1. l[i] = CHOOSE s \in S : i = 1 + Cardinality({t \in S : Nearer(t, s)})
    BY <1>3
  <2>2. PICK s \in S : i = 1 + Cardinality(Before(R, S, s))
    BY <1>1, SomebodyAtEveryIndex
  <2>3. i = 1 + Cardinality({t \in S : Nearer(t, s)})
    BY <1>2, <2>2
  <2>4. l[i] \in S /\ i = 1 + Cardinality({t \in S : Nearer(t, l[i])})
    BY <2>1, <2>3
  <2>. QED  BY <1>2, <2>4
<1>5. l \in [1..Cardinality(S) -> S]
  BY <1>3, <1>4
<1>6. IsFirst(FirstOf(l, Policy[type].limit), R, S, Policy[type].limit)
  BY <1>1, <1>4, <1>5, FirstOfSorted
<1>. QED  BY <1>1, <1>6 DEF NearbyShops, S, R, l

LEMMA CheapIsFirst ==
  ASSUME TablesOK, NEW type \in Types
  PROVE  /\ Orders(CheaperOrder, InReach(type))
         /\ IsFirst(CheapShops(type), CheaperOrder, InReach(type), Policy[type].limit)
<1>. DEFINE S == InReach(type)
            R == CheaperOrder
            l == Sorted(S, Cheaper)
<1>1. Orders(R, S) /\ Policy[type].limit \in Nat
  BY CheaperIsAnOrder, OrdersASubset, MatchingAssumption DEF InReach
<1>2. \A s \in S : {t \in S : Cheaper(t, s)} = Before(R, S, s)
  BY DEF Before, CheaperOrder, InReach
<1>3. l = [i \in 1..Cardinality(S) |->
             CHOOSE s \in S : i = 1 + Cardinality({t \in S : Cheaper(t, s)})]
  BY DEF Sorted
<1>. HIDE DEF S, R, l
<1>4. ASSUME NEW i \in 1..Cardinality(S)
      PROVE  l[i] \in S /\ i = 1 + Cardinality(Before(R, S, l[i]))
  <2>1. l[i] = CHOOSE s \in S : i = 1 + Cardinality({t \in S : Cheaper(t, s)})
    BY <1>3
  <2>2. PICK s \in S : i = 1 + Cardinality(Before(R, S, s))
    BY <1>1, SomebodyAtEveryIndex
  <2>3. i = 1 + Cardinality({t \in S : Cheaper(t, s)})
    BY <1>2, <2>2
  <2>4. l[i] \in S /\ i = 1 + Cardinality({t \in S : Cheaper(t, l[i])})
    BY <2>1, <2>3
  <2>. QED  BY <1>2, <2>4
<1>5. l \in [1..Cardinality(S) -> S]
  BY <1>3, <1>4
<1>6. IsFirst(FirstOf(l, Policy[type].limit), R, S, Policy[type].limit)
  BY <1>1, <1>4, <1>5, FirstOfSorted
<1>. QED  BY <1>1, <1>6 DEF CheapShops, S, R, l

(* Whom a search leaves out comes after everybody it finds. *)
LEMMA LeftOutIsBehind ==
  ASSUME NEW S, NEW R, Orders(R, S), NEW limit \in Nat, NEW l, IsFirst(l, R, S, limit),
         NEW i \in 1..Len(l), NEW t \in S, \A j \in 1..Len(l) : l[j] # t
  PROVE  l[i] \in S /\ <<l[i], t>> \in R
<1>. DEFINE n == Cardinality(S)
            b == Cardinality(Before(R, S, t))
<1>1. n \in Nat /\ b \in Nat
  BY BeforeIsLess
<1>2. PICK s \in S : s = l[i] /\ i = 1 + Cardinality(Before(R, S, s)) /\ s # t
  BY DEF IsFirst
<1>3. i <= limit /\ ~(1 + b <= limit) /\ i \in Nat
  <2>1. Len(l) = (IF n < limit THEN n ELSE limit)
    BY DEF IsFirst
  <2>2. i \in 1..(IF n < limit THEN n ELSE limit)
    BY <2>1
  <2>. HIDE DEF n
  <2>3. i <= limit /\ i \in Nat
    BY <1>1, <2>2
  <2>4. ~(1 + b <= limit)
    BY DEF IsFirst
  <2>. QED  BY <2>3, <2>4
<1>4. ASSUME <<t, s>> \in R PROVE FALSE
  <2>1. /\ Cardinality(Before(R, S, s)) \in Nat
        /\ b < Cardinality(Before(R, S, s))
    BY <1>4, FewerBefore
  <2>. HIDE DEF b
  <2>. QED  BY <1>1, <1>2, <1>3, <2>1
<1>5. <<s, t>> \in R
  BY <1>2, <1>4 DEF Orders
<1>. QED  BY <1>2, <1>5

(* The cheap search leaves out the dearer shops. *)
LEMMA CheapLeavesOut == TablesOK => CheapLeavesOutDearer
<1>. SUFFICES ASSUME TablesOK,
                     NEW s \in ToSet(Match("CHEAP")),
                     NEW t \in InReach("WIDE") \ ToSet(Match("CHEAP")),
                     Cardinality(PricesOf(t)) # 0
              PROVE  /\ Cardinality(PricesOf(s)) # 0
                     /\ \/ Total(s) * Cardinality(PricesOf(t)) < Total(t) * Cardinality(PricesOf(s))
                        \/ /\ Total(s) * Cardinality(PricesOf(t)) = Total(t) * Cardinality(PricesOf(s))
                           /\ Distance[s] <= Distance[t]
  BY DEF CheapLeavesOutDearer, Total, PricesOf, SumFunctionOnSet
<1>. DEFINE l == CheapShops("CHEAP")
            S == InReach("CHEAP")
            limit == Policy["CHEAP"].limit
<1>1. l = Match("CHEAP") /\ S = InReach("WIDE") /\ "CHEAP" \in Types /\ limit \in Nat
  BY MatchingAssumption DEF Match, InReach, Types
<1>2. Orders(CheaperOrder, S) /\ IsFirst(l, CheaperOrder, S, limit)
  BY <1>1, CheapIsFirst
<1>. HIDE DEF l, S, limit
<1>3. DOMAIN l = 1..Len(l)
  BY <1>2 DEF IsFirst
<1>4. PICK i \in 1..Len(l) : l[i] = s
  BY <1>1, <1>3 DEF ToSet
<1>5. t \in S /\ \A j \in 1..Len(l) : l[j] # t
  BY <1>1, <1>3 DEF ToSet
<1>6. s \in S /\ <<s, t>> \in CheaperOrder
  BY <1>1, <1>2, <1>4, <1>5, LeftOutIsBehind
<1>7. Cheaper(s, t) /\ s \in Candidates /\ t \in Candidates
  BY <1>6 DEF CheaperOrder
<1>8. Lower(s, t) \/ (Same(s, t) /\ Nearer(s, t))
  BY <1>7, AveragesCompared
<1>9. Nearer(s, t) => Distance[s] <= Distance[t]
  BY <1>7, MatchingAssumption DEF Nearer
<1>. QED  BY <1>8, <1>9 DEF Lower, Same

(* A wider search with a higher limit begins as a closer one does. *)
LEMMA WiderBeginsAsCloser ==
  ASSUME NEW a \in Types, NEW b \in Types,
         Policy[a].radius <= Policy[b].radius, Policy[a].limit <= Policy[b].limit
  PROVE  IsPrefix(NearbyShops(a), NearbyShops(b))
<1>. DEFINE A == InReach(a)
            B == InReach(b)
            R == NearerOrder
            k == NearbyShops(a)
            l == NearbyShops(b)
            m == Policy[a].limit
            n == Policy[b].limit
<1>1. /\ Orders(R, A) /\ IsFirst(k, R, A, m) /\ m \in Nat
      /\ Orders(R, B) /\ IsFirst(l, R, B, n) /\ n \in Nat /\ m <= n
  BY NearbyIsFirst, MatchingAssumption
<1>2. A \subseteq B
  <2>1. \A s \in Candidates : Distance[s] \in Nat
    BY MatchingAssumption
  <2>2. Policy[a].radius \in Nat /\ Policy[b].radius \in Nat
    BY MatchingAssumption
  <2>. QED  BY <2>1, <2>2 DEF InReach
<1>3. ASSUME NEW s \in A PROVE Before(R, A, s) = Before(R, B, s)
  <2>1. ASSUME NEW t \in B, <<t, s>> \in R PROVE t \in A
    <3>1. /\ t \in Candidates /\ s \in Candidates /\ listed[t]
          /\ Distance[s] <= Policy[a].radius /\ Nearer(t, s)
      BY <2>1 DEF InReach, NearerOrder
    <3>2. /\ Distance[t] \in Nat /\ Distance[s] \in Nat /\ Policy[a].radius \in Nat
          /\ Distance[t] <= Distance[s]
      BY <3>1, MatchingAssumption DEF Nearer
    <3>3. Distance[t] <= Policy[a].radius
      BY <3>1, <3>2
    <3>. QED  BY <3>1, <3>3 DEF InReach
  <2>. HIDE DEF A, B, R
  <2>. QED  BY <1>2, <2>1 DEF Before
<1>. HIDE DEF A, B, R, k, l, m, n
<1>4. Cardinality(A) \in Nat /\ Cardinality(B) \in Nat /\ Cardinality(A) <= Cardinality(B)
  BY <1>1, <1>2, FS_Subset, FS_CardinalityType DEF Orders
<1>5. /\ k \in Seq(A) /\ l \in Seq(B) /\ Len(k) \in Nat /\ Len(l) \in Nat
      /\ Len(k) <= Len(l) /\ Len(k) <= m
  <2>1. /\ Len(k) = (IF Cardinality(A) < m THEN Cardinality(A) ELSE m)
        /\ Len(l) = (IF Cardinality(B) < n THEN Cardinality(B) ELSE n)
        /\ k \in Seq(A) /\ l \in Seq(B)
    BY <1>1 DEF IsFirst
  <2>. QED  BY <1>1, <1>4, <2>1
<1>6. ASSUME NEW i \in 1..Len(k) PROVE k[i] = l[i]
  <2>1. PICK s \in A : s = k[i] /\ i = 1 + Cardinality(Before(R, A, s))
    BY <1>1, <1>5 DEF IsFirst
  <2>2. s \in B /\ i = 1 + Cardinality(Before(R, B, s)) /\ i <= n
    BY <1>1, <1>2, <1>3, <1>5, <2>1
  <2>3. PICK j \in 1..Len(l) : l[j] = s
    BY <1>1, <2>2 DEF IsFirst
  <2>4. j = 1 + Cardinality(Before(R, B, s))
    BY <1>1, <2>3 DEF IsFirst
  <2>. QED  BY <2>1, <2>2, <2>3, <2>4
<1>7. SubSeq(k, 1, Len(k)) = SubSeq(l, 1, Len(k))
  <2>1. /\ SubSeq(k, 1, Len(k)) \in Seq(B) /\ SubSeq(l, 1, Len(k)) \in Seq(B)
        /\ Len(SubSeq(k, 1, Len(k))) = Len(k) /\ Len(SubSeq(l, 1, Len(k))) = Len(k)
    BY ONLY <1>2, <1>5
  <2>2. \A i \in 1..Len(k) : SubSeq(k, 1, Len(k))[i] = SubSeq(l, 1, Len(k))[i]
    BY ONLY <1>5, <1>6
  <2>. QED  BY <2>1, <2>2
<1>8. IsPrefix(k, l)
  BY <1>5, <1>7 DEF IsPrefix
<1>. QED  BY <1>8 DEF k, l

LEMMA WiderKeeps == WiderKeepsCloser
<1>1. /\ "CLOSE" \in Types /\ "BALANCED" \in Types /\ "WIDE" \in Types
      /\ Match("CLOSE") = NearbyShops("CLOSE")
      /\ Match("BALANCED") = NearbyShops("BALANCED")
      /\ Match("WIDE") = NearbyShops("WIDE")
  BY DEF Types, Match
<1>. QED  BY <1>1, WiderBeginsAsCloser, MatchingAssumption DEF WiderKeepsCloser

(* What a search returns: shops in its reach, none twice, up to its limit. *)
LEMMA ListHasNoGaps ==
  ASSUME NEW S, NEW R, Orders(R, S), NEW limit \in Nat, NEW l, IsFirst(l, R, S, limit)
  PROVE  /\ ToSet(l) \subseteq S
         /\ Cardinality(ToSet(l)) = Len(l)
         /\ Len(l) = Min({Cardinality(S), limit})
<1>. DEFINE n == Cardinality(S)
<1>1. /\ l \in Seq(S) /\ DOMAIN l = 1..Len(l) /\ Len(l) \in Nat
      /\ Len(l) = (IF n < limit THEN n ELSE limit)
      /\ \A i \in 1..Len(l) : i = 1 + Cardinality(Before(R, S, l[i]))
  BY DEF IsFirst
<1>2. n \in Nat /\ IsFiniteSet(S)
  BY FS_CardinalityType DEF Orders
<1>3. ToSet(l) \subseteq S /\ IsFiniteSet(ToSet(l))
  <2>1. ToSet(l) \subseteq S
    BY <1>1 DEF ToSet
  <2>. QED  BY <1>2, <2>1, FS_Subset
<1>4. Cardinality(ToSet(l)) = Len(l)
  <2>1. l \in [1..Len(l) -> ToSet(l)]
    BY <1>1 DEF ToSet
  <2>2. \A i, j \in 1..Len(l) : l[i] = l[j] => i = j
    BY <1>1
  <2>3. \A s \in ToSet(l) : \E i \in 1..Len(l) : l[i] = s
    BY <1>1 DEF ToSet
  <2>4. ExistsBijection(1..Len(l), ToSet(l))
    BY <2>1, <2>2, <2>3
    DEF ExistsBijection, Bijection, Injection, Surjection, IsInjective
  <2>5. IsFiniteSet(1..Len(l)) /\ Cardinality(1..Len(l)) = Len(l)
    BY <1>1, FS_Interval
  <2>. QED  BY <2>4, <2>5, FS_Bijection
<1>. HIDE DEF n
<1>5. Len(l) = Min({n, limit})
  <2>1. /\ Len(l) \in {n, limit} /\ \A y \in {n, limit} : Len(l) <= y
    BY <1>1, <1>2
  <2>2. \A x, z \in {n, limit} :
          (\A y \in {n, limit} : x <= y) /\ (\A y \in {n, limit} : z <= y) => x = z
    BY <1>2
  <2>. QED  BY <2>1, <2>2 DEF Min
<1>. QED  BY <1>3, <1>4, <1>5 DEF n

(* The tables are well typed, and so is what is found in them. *)
LEMMA SearchesTyped == TablesOK => MatchingTypeOK
<1>. SUFFICES ASSUME TablesOK, NEW type \in Types
              PROVE  /\ ToSet(Match(type)) \subseteq InReach(type)
                     /\ Cardinality(ToSet(Match(type))) = Len(Match(type))
                     /\ Len(Match(type)) = Min({Cardinality(InReach(type)), Policy[type].limit})
  BY DEF TablesOK, MatchingTypeOK, InReach
<1>1. Policy[type].limit \in Nat
  BY MatchingAssumption
<1>2. CASE type = "CHEAP"
  <2>1. Match(type) = CheapShops(type)
    BY <1>2 DEF Match
  <2>. QED  BY <1>1, <2>1, CheapIsFirst, ListHasNoGaps
<1>3. CASE type # "CHEAP"
  <2>1. Match(type) = NearbyShops(type)
    BY <1>3 DEF Match
  <2>. QED  BY <1>1, <2>1, NearbyIsFirst, ListHasNoGaps
<1>. QED  BY <1>2, <1>3

-----------------------------------------------------------------------------
LEMMA SearchStart == MatchingInit => TablesOK
<1>. SUFFICES ASSUME MatchingInit PROVE TablesOK
  OBVIOUS
<1>1. quotes \in [Candidates -> Seq(Quote)] /\ \A s \in Candidates : quotes[s] = <<>>
  BY DEF MatchingInit
<1>2. Priced = {}
  BY <1>1 DEF Priced
<1>3. Cardinality(Priced) <= MaxQuotes
  BY <1>2, FS_EmptySet, MatchingAssumption
<1>. QED  BY <1>1, <1>3 DEF TablesOK, MatchingInit

LEMMA SearchMoves == TablesOK /\ [MatchingNext]_matchingVars => TablesOK'
<1>. SUFFICES ASSUME TablesOK, [MatchingNext]_matchingVars PROVE TablesOK'
  OBVIOUS
<1>1. ASSUME NEW s \in Candidates, NEW quote \in Quote, AddQuote(s, quote) PROVE TablesOK'
  <2>. DEFINE n == Len(quotes[s])
  <2>1. /\ quotes \in [Candidates -> Seq(Quote)] /\ n \in Nat
        /\ quotes' = [quotes EXCEPT ![s] = Append(quotes[s], quote)]
        /\ Cardinality(Priced) < MaxQuotes /\ MaxQuotes \in Nat
    BY <1>1, MatchingAssumption DEF TablesOK, AddQuote
  <2>2. /\ quotes' \in [Candidates -> Seq(Quote)]
        /\ DOMAIN quotes'[s] = DOMAIN quotes[s] \union {n + 1}
        /\ \A t \in Candidates : t # s => quotes'[t] = quotes[t]
    <3>1. quotes[s] \in Seq(Quote) /\ quotes'[s] = Append(quotes[s], quote)
      BY <2>1
    <3>2. DOMAIN quotes[s] = 1..n /\ DOMAIN quotes'[s] = 1..(n + 1)
          /\ quotes'[s] \in Seq(Quote)
      BY <2>1, <3>1
    <3>3. 1..(n + 1) = (1..n) \union {n + 1}
      BY <2>1
    <3>4. \A t \in Candidates : t # s => quotes'[t] = quotes[t]
      BY <2>1
    <3>5. quotes' \in [Candidates -> Seq(Quote)]
      BY <2>1, <3>2
    <3>. QED  BY <3>2, <3>3, <3>4, <3>5
  <2>. DEFINE new == <<s, n + 1>>
  <2>3. Priced' = Priced \union {new}
    <3>. DEFINE Of(q, p) == \E t \in Candidates : p \in {t} \X DOMAIN q[t]
    <3>1. \A p : p \in Priced <=> Of(quotes, p)
      BY DEF Priced
    <3>2. \A p : p \in Priced' <=> Of(quotes', p)
      BY DEF Priced
    <3>3. ASSUME NEW p PROVE Of(quotes', p) <=> Of(quotes, p) \/ p = new
      <4>1. ASSUME NEW t \in Candidates
            PROVE  p \in {t} \X DOMAIN quotes'[t] <=>
                     p \in {t} \X DOMAIN quotes[t] \/ (t = s /\ p = new)
        <5>1. CASE t = s
          BY <2>2, <5>1
        <5>2. CASE t # s
          BY <2>2, <5>2
        <5>. QED  BY <5>1, <5>2
      <4>. QED  BY <4>1
    <3>. HIDE DEF Of
    <3>. QED  BY <3>1, <3>2, <3>3
  <2>4. IsFiniteSet(Priced)
    <3>1. ASSUME NEW t \in Candidates PROVE IsFiniteSet({t} \X DOMAIN quotes[t])
      <4>1. PICK k \in Nat : DOMAIN quotes[t] = 1..k
        BY <2>1
      <4>2. IsFiniteSet(DOMAIN quotes[t])
        BY <4>1, FS_Interval
      <4>3. IsFiniteSet({t})
        BY FS_Singleton
      <4>. QED  BY <4>2, <4>3, FS_Product
    <3>. DEFINE f == [t \in Candidates |-> {t} \X DOMAIN quotes[t]]
                T == {{t} \X DOMAIN quotes[t] : t \in Candidates}
    <3>2. f \in Surjection(Candidates, T)
      BY DEF Surjection
    <3>3. IsFiniteSet(T)
      <4>. HIDE DEF f, T
      <4>. QED  BY <3>2, FS_Surjection, MatchingAssumption
    <3>. QED  BY <3>1, <3>3, FS_UNION DEF Priced
  <2>. HIDE DEF n, new
  <2>5. Cardinality(Priced) \in Nat /\ Cardinality(Priced') <= Cardinality(Priced) + 1
        /\ Cardinality(Priced') \in Nat
    <3>1. /\ IsFiniteSet(Priced \union {new})
          /\ Cardinality(Priced \union {new}) =
               IF new \in Priced THEN Cardinality(Priced) ELSE Cardinality(Priced) + 1
      BY <2>4, FS_AddElement
    <3>2. Cardinality(Priced) \in Nat /\ Cardinality(Priced') \in Nat
      BY <2>3, <2>4, <3>1, FS_CardinalityType
    <3>. QED  BY <2>3, <3>1, <3>2
  <2>6. Cardinality(Priced') <= MaxQuotes
    BY <2>1, <2>5
  <2>. QED  BY <1>1, <2>2, <2>6 DEF TablesOK, AddQuote, Priced
<1>2. ASSUME NEW s \in Candidates, Switch(s) PROVE TablesOK'
  BY <1>2 DEF TablesOK, Switch, Priced
<1>3. ASSUME UNCHANGED matchingVars PROVE TablesOK'
  BY <1>3 DEF TablesOK, matchingVars, Priced
<1>. QED  BY <1>1, <1>2, <1>3 DEF MatchingNext

(* Whatever shops there are and whatever they have offered, a wider search *)
(* begins with what the closer one found, and what the cheap search leaves *)
(* out is dearer than all it found, or as dear and no nearer               *)
(* (ShopMatchingService.match and the queries it chooses from).            *)
THEOREM SearchesOfferTheBest == MatchingSpec => []OffersTheBest
<1>1. TablesOK => OffersTheBest
  BY CheapLeavesOut, WiderKeeps DEF OffersTheBest
<1>. QED  BY <1>1, SearchStart, SearchMoves, PTL DEF MatchingSpec

(* Every search returns active shops within its radius, none of them       *)
(* twice, as many as there are up to its limit.                            *)
THEOREM SearchesAreTyped == MatchingSpec => []MatchingTypeOK
BY SearchStart, SearchMoves, SearchesTyped, PTL DEF MatchingSpec
=============================================================================
