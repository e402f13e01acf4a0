---------------------------- MODULE Browsing_proofs ----------------------------
(***************************************************************************)
(* Pages: what their bounds are for every width of integers, what is on a  *)
(* page, and what a client who reads page by page is shown, for any names, *)
(* queries, bindings and number of changes.                                *)
(*                                                                         *)
(* An object's rank, the number of objects of the list that come before    *)
(* it, says on which page it is. What comes can only raise a rank, and     *)
(* what goes can only lower it.                                            *)
(***************************************************************************)
EXTENDS Browsing, FiniteSetTheorems, FunctionTheorems, SequenceTheorems, TLAPS

-----------------------------------------------------------------------------
(* Bounds.                                                                 *)

\* A number that fits is left as it is.
LEMMA WrapFits ==
    ASSUME NEW n \in Ints
    PROVE  Wrap(n) = n
<1>1. n \in Int /\ n + Width >= 0 /\ n + Width < 2 * Width
  BY WidthAssumption DEF Ints
<1>2. ASSUME NEW k \in Nat, NEW w \in Nat, k < w
      PROVE  k % w = k
  BY <1>2
<1>3. (n + Width) % (2 * Width) = n + Width
  BY <1>1, <1>2, WidthAssumption
<1>. QED BY <1>1, <1>3, WidthAssumption DEF Wrap

\* What is wrapped fits.
LEMMA WrapInInts ==
    ASSUME NEW n \in Int
    PROVE  Wrap(n) \in Ints
<1>1. ASSUME NEW k \in Int, NEW w \in Nat, w > 0
      PROVE  k % w \in 0 .. w - 1
  BY <1>1
<1>2. (n + Width) % (2 * Width) \in 0 .. 2 * Width - 1
  BY <1>1, WidthAssumption
<1>. QED BY <1>2, WidthAssumption DEF Wrap, Ints

\* Bounds are numbers, and whenever they are not those of a slice of the list, the
\* offset is within the list and overflows when the limit is added: that, and
\* nothing else, makes Go panic.
THEOREM ValidSlice ==
    ASSUME NEW limit, NEW page, NEW total \in Nat, total \in Ints
    PROVE  LET p == ParsePagination(limit, page)
               w == GetValidPagination(p, total)
           IN  /\ p.limit \in Ints /\ p.offset \in Ints
               /\ w.start \in Int /\ w.end \in Int
               /\ ~IsSlice(w, total) <=> /\ p.limit > 0 /\ p.offset > 0 /\ p.offset <= total
                                         /\ p.offset + p.limit >= Width
<1>. DEFINE l == IF limit \in Ints THEN limit ELSE NoLimit
            g == IF page \in Ints THEN page ELSE 1
            off == Wrap(Wrap(g - 1) * l)
            p == ParsePagination(limit, page)
            w == GetValidPagination(p, total)
<1>1. l \in Ints /\ l \in Int /\ g \in Int /\ Width \in Nat /\ Width > 1 /\ NoLimit = -1
      /\ l < Width
  BY WidthAssumption DEF Ints, NoLimit
<1>2. Wrap(g - 1) \in Int
  BY <1>1, WrapInInts, WidthAssumption DEF Ints
<1>3. off \in Ints /\ off \in Int /\ off < Width
  <2>1. Wrap(g - 1) * l \in Int
    BY <1>1, <1>2
  <2>. QED BY <2>1, WrapInInts, WidthAssumption DEF Ints
<1>4. p = [limit |-> l, offset |-> off]
  BY DEF ParsePagination
<1>5. total < Width
  BY <1>1 DEF Ints
<1>. HIDE DEF l, off, p
<1>6. p.limit = l /\ p.offset = off
  BY <1>4
<1>7. CASE l = NoLimit
  <2>1. w = [start |-> 0, end |-> total]
    BY <1>6, <1>7 DEF GetValidPagination
  <2>. QED BY <1>1, <1>3, <1>6, <1>7, <2>1 DEF IsSlice, p
<1>8. CASE l # NoLimit /\ (l < 0 \/ off < 0 \/ off > total)
  <2>1. w = [start |-> 0, end |-> 0]
    BY <1>6, <1>8 DEF GetValidPagination
  <2>2. w.start = 0 /\ w.end = 0
    BY <2>1
  <2>3. IsSlice(w, total)
    BY <2>2 DEF IsSlice
  <2>. QED BY <1>1, <1>3, <1>6, <1>8, <2>2, <2>3 DEF p
<1>9. CASE l # NoLimit /\ l >= 0 /\ off >= 0 /\ off <= total
  <2>. DEFINE e == Wrap(off + l)
  <2>1. w = [start |-> off, end |-> IF e > total THEN total ELSE e]
    BY <1>1, <1>3, <1>6, <1>9 DEF GetValidPagination
  <2>2. CASE off + l < Width
    <3>1. off + l \in Ints
      BY <1>1, <1>3, <1>9, <2>2 DEF Ints
    <3>2. e = off + l
      BY <3>1, WrapFits
    <3>. HIDE DEF e
    <3>3. w.start = off /\ w.end = IF e > total THEN total ELSE e
      BY <2>1
    <3>. HIDE DEF w
    <3>4. IsSlice(w, total)
      BY <1>1, <1>3, <1>9, <3>2, <3>3 DEF IsSlice
    <3>. QED BY <1>1, <1>3, <1>6, <1>9, <2>2, <3>2, <3>3, <3>4 DEF w, p
  <2>3. CASE off + l >= Width
    <3>1. /\ off + l + Width \in Nat /\ 2 * Width \in Nat
          /\ off + l + Width >= 2 * Width /\ off + l + Width < 2 * (2 * Width)
      BY <1>1, <1>3, <1>9, <2>3
    <3>2. \A a, b \in Nat : a >= b /\ a < 2 * b => a % b = a - b
      OBVIOUS
    <3>3. (off + l + Width) % (2 * Width) = (off + l + Width) - 2 * Width
      <4>. DEFINE a == off + l + Width
                  b == 2 * Width
      <4>1. a \in Nat /\ b \in Nat /\ a >= b /\ a < 2 * b
        BY <3>1
      <4>. HIDE DEF a, b
      <4>2. a % b = a - b
        BY <3>2, <4>1
      <4>3. (off + l + Width) % (2 * Width) = a % b
        BY DEF a, b
      <4>4. (off + l + Width) - 2 * Width = a - b
        BY DEF a, b
      <4>. QED BY <4>2, <4>3, <4>4
    <3>4. e = off + l - 2 * Width
      BY <1>1, <1>3, <3>3 DEF Wrap
    <3>. HIDE DEF e
    <3>5. e \in Int /\ e < 0
      BY <1>1, <1>3, <3>4
    <3>6. w.start = off /\ w.end = e
      BY <2>1, <3>5
    <3>. HIDE DEF w
    <3>7. ~IsSlice(w, total)
      BY <1>3, <1>9, <3>5, <3>6 DEF IsSlice
    <3>8. off > 0 /\ l > 0
      BY <1>1, <1>3, <1>5, <1>9, <2>3
    <3>. QED BY <1>1, <1>3, <1>6, <1>9, <2>3, <3>5, <3>6, <3>7, <3>8 DEF w, p
  <2>. QED BY <1>1, <1>3, <2>2, <2>3
<1>. QED BY <1>1, <1>3, <1>7, <1>8, <1>9

-----------------------------------------------------------------------------
(* The order of a list.                                                    *)

\* Objects of which no two have the same name.
WellNamed(S) == S \subseteq Object /\ \A x, y \in S : x.name = y.name => x = y

\* The objects of a list that come before one, and how many these are.
Ahead(x, S, q) == {y \in S : InOrder(q, y, x)}

\* How many they are.
RankIn(x, S, q) == Cardinality(Ahead(x, S, q))

\* Names and times of objects are numbers.
LEMMA ObjectNumbers ==
    ASSUME NEW o \in Object
    PROVE  o.name \in Nat /\ o.time \in Nat
<1>1. o.name \in Names /\ o.time \in 1 .. MaxChanges
  BY DEF Object
<1>2. Names \subseteq Nat
  BY NamesAssumption
<1>3. 1 .. MaxChanges \subseteq Nat
  BY MaxChangesAssumption
<1>. QED BY <1>1, <1>2, <1>3

\* The order asked for is one: irreflexive, transitive and, among objects of
\* different names, total.
LEMMA InOrderIsOrder ==
    ASSUME NEW q, NEW a \in Object, NEW b \in Object, NEW c \in Object
    PROVE  /\ ~InOrder(q, a, a)
           /\ InOrder(q, a, b) /\ InOrder(q, b, c) => InOrder(q, a, c)
           /\ InOrder(q, a, b) => ~InOrder(q, b, a)
           /\ a.name # b.name => InOrder(q, a, b) \/ InOrder(q, b, a)
<1>1. /\ a.name \in Nat /\ a.time \in Nat
      /\ b.name \in Nat /\ b.time \in Nat
      /\ c.name \in Nat /\ c.time \in Nat
  BY ObjectNumbers
<1>2. CASE q.sortBy = "name"
  BY <1>1, <1>2 DEF InOrder, Less
<1>3. CASE q.sortBy # "name"
  BY <1>1, <1>3 DEF InOrder, Less
<1>. QED BY <1>2, <1>3

\* Of objects of different names, the comparison that the list is sorted by puts
\* first what comes first in the order asked for.
LEMMA BeforeIsInOrder ==
    ASSUME NEW q, NEW a \in Object, NEW b \in Object, a.name # b.name
    PROVE  Before(a, b, q) <=> InOrder(q, a, b)
<1>1. /\ a.name \in Nat /\ a.time \in Nat
      /\ b.name \in Nat /\ b.time \in Nat
  BY ObjectNumbers
<1>2. CASE q.sortBy = "name"
  BY <1>1, <1>2 DEF Before, DefaultObjectMetaCompare, InOrder, Less
<1>3. CASE q.sortBy # "name"
  BY <1>1, <1>3 DEF Before, DefaultObjectMetaCompare, InOrder, Less
<1>. QED BY <1>2, <1>3

\* There are no more objects in a list than names.
LEMMA FewerThanNames ==
    ASSUME NEW S, WellNamed(S)
    PROVE  /\ IsFiniteSet(S)
           /\ Cardinality(S) \in Nat
           /\ Cardinality(S) <= Cardinality(Names)
<1>. DEFINE f == [x \in S |-> x.name]
<1>1. f \in [S -> Names]
  BY DEF WellNamed, Object
<1>2. \A x, y \in S : f[x] = f[y] => x = y
  BY DEF WellNamed
<1>3. f \in Injection(S, Names)
  BY <1>1, <1>2, Fun_IsInj
<1>. HIDE DEF f
<1>4. IsFiniteSet(S) /\ Cardinality(S) <= Cardinality(Names)
  BY <1>3, FS_Injection, NamesAssumption
<1>. QED BY <1>4, FS_CardinalityType

\* Ranks are numbers below the length of the list and grow along the order.
LEMMA RanksGrow ==
    ASSUME NEW q, NEW S, WellNamed(S), NEW x \in S
    PROVE  /\ RankIn(x, S, q) \in Nat
           /\ RankIn(x, S, q) < Cardinality(S)
           /\ \A y \in S : InOrder(q, x, y) => RankIn(x, S, q) < RankIn(y, S, q)
<1>1. IsFiniteSet(S) /\ Cardinality(S) \in Nat /\ S \subseteq Object
  BY FewerThanNames DEF WellNamed
<1>2. \A y \in S : /\ IsFiniteSet(Ahead(y, S, q)) /\ Cardinality(Ahead(y, S, q)) \in Nat
                   /\ Ahead(y, S, q) \in SUBSET S
  BY <1>1, FS_Subset, FS_CardinalityType DEF Ahead
<1>3. Cardinality(Ahead(x, S, q)) < Cardinality(S)
  <2>1. x \notin Ahead(x, S, q)
    BY <1>1, InOrderIsOrder DEF Ahead
  <2>2. Cardinality(Ahead(x, S, q)) <= Cardinality(S) /\ Cardinality(Ahead(x, S, q)) # Cardinality(S)
    BY <1>1, <1>2, <2>1, FS_Subset
  <2>. QED BY <1>1, <1>2, <2>2
<1>4. ASSUME NEW y \in S, InOrder(q, x, y)
      PROVE  Cardinality(Ahead(x, S, q)) < Cardinality(Ahead(y, S, q))
  <2>1. Ahead(x, S, q) \in SUBSET Ahead(y, S, q)
    BY <1>1, <1>4, InOrderIsOrder DEF Ahead
  <2>2. x \in Ahead(y, S, q) /\ x \notin Ahead(x, S, q)
    BY <1>1, <1>4, InOrderIsOrder DEF Ahead
  <2>3. /\ Cardinality(Ahead(x, S, q)) <= Cardinality(Ahead(y, S, q))
        /\ Cardinality(Ahead(x, S, q)) # Cardinality(Ahead(y, S, q))
    BY <1>2, <2>1, <2>2, FS_Subset
  <2>. QED BY <1>2, <2>3
<1>. QED BY <1>2, <1>3, <1>4 DEF RankIn

\* Different objects have different ranks, by which they are in order.
LEMMA RanksTellOrder ==
    ASSUME NEW q, NEW S, WellNamed(S), NEW x \in S, NEW y \in S
    PROVE  /\ RankIn(x, S, q) = RankIn(y, S, q) => x = y
           /\ RankIn(x, S, q) < RankIn(y, S, q) => InOrder(q, x, y)
<1>1. x # y => InOrder(q, x, y) \/ InOrder(q, y, x)
  BY InOrderIsOrder DEF WellNamed
<1>2. InOrder(q, y, x) => RankIn(y, S, q) < RankIn(x, S, q)
  BY RanksGrow
<1>3. InOrder(q, x, y) => RankIn(x, S, q) < RankIn(y, S, q)
  BY RanksGrow
<1>4. RankIn(x, S, q) \in Nat /\ RankIn(y, S, q) \in Nat
  BY RanksGrow
<1>. QED BY <1>1, <1>2, <1>3, <1>4

\* There is a sorted list: each object in the place after its rank.
LEMMA SortedExists ==
    ASSUME NEW q, NEW S, WellNamed(S)
    PROVE  \E s \in SetToSeqs(S) :
               \A i, j \in DOMAIN s : i < j => Before(s[i], s[j], q) \/ ~Before(s[j], s[i], q)
<1>. DEFINE n == Cardinality(S)
            r == [x \in S |-> 1 + RankIn(x, S, q)]
            s == [i \in 1 .. n |-> CHOOSE x \in S : r[x] = i]
<1>1. IsFiniteSet(S) /\ n \in Nat /\ S \subseteq Object
  BY FewerThanNames DEF WellNamed
<1>2. r \in [S -> 1 .. n]
  <2>1. ASSUME NEW x \in S
        PROVE  1 + RankIn(x, S, q) \in 1 .. n
    BY <1>1, RanksGrow
  <2>. QED BY <2>1
<1>3. \A x, y \in S : r[x] = r[y] => x = y
  BY RanksTellOrder, RanksGrow
<1>4. r \in Injection(S, 1 .. n)
  BY <1>2, <1>3, Fun_IsInj
<1>5. IsFiniteSet(1 .. n) /\ Cardinality(1 .. n) = n
  BY <1>1, FS_Interval
<1>. HIDE DEF r
<1>6. r \in Surjection(S, 1 .. n)
  BY <1>1, <1>4, <1>5, FS_Injection
<1>7. \A i \in 1 .. n : \E x \in S : r[x] = i
  BY <1>6, Fun_SurjectionProperties
<1>8. \A i \in 1 .. n : s[i] \in S /\ r[s[i]] = i
  BY <1>7
<1>9. DOMAIN s = 1 .. n /\ s \in [1 .. n -> S]
  BY <1>8
<1>. HIDE DEF s
<1>10. \A i, j \in 1 .. n : i # j => s[i] # s[j]
  BY <1>8
<1>11. s \in SetToSeqs(S)
  BY <1>9, <1>10 DEF SetToSeqs
<1>12. ASSUME NEW i \in 1 .. n, NEW j \in 1 .. n, i < j
       PROVE  Before(s[i], s[j], q)
  <2>1. s[i] \in S /\ s[j] \in S /\ r[s[i]] < r[s[j]]
    BY <1>8, <1>12
  <2>2. RankIn(s[i], S, q) < RankIn(s[j], S, q)
    BY <2>1, RanksGrow DEF r
  <2>3. InOrder(q, s[i], s[j])
    BY <2>1, <2>2, RanksTellOrder
  <2>4. s[i].name # s[j].name
    BY <1>1, <1>10, <1>12, <2>1 DEF WellNamed
  <2>. QED BY <1>1, <2>1, <2>3, <2>4, BeforeIsInOrder
<1>. QED BY <1>9, <1>11, <1>12

\* A sorted list has each object once, and an object's rank is the number of those
\* that it comes after.
LEMMA SortedByRank ==
    ASSUME NEW q, NEW S, WellNamed(S)
    PROVE  /\ Sorted(S, q) \in Seq(S)
           /\ Len(Sorted(S, q)) = Cardinality(S)
           /\ \A i \in 1 .. Cardinality(S) : RankIn(Sorted(S, q)[i], S, q) = i - 1
           /\ \A x \in S : Sorted(S, q)[RankIn(x, S, q) + 1] = x
<1>. DEFINE n == Cardinality(S)
            L == Sorted(S, q)
<1>1. IsFiniteSet(S) /\ n \in Nat /\ S \subseteq Object
  BY FewerThanNames DEF WellNamed
<1>2. /\ L \in SetToSeqs(S)
      /\ \A i, j \in DOMAIN L : i < j => Before(L[i], L[j], q) \/ ~Before(L[j], L[i], q)
  BY SortedExists DEF Sorted
<1>. HIDE DEF L
<1>3. L \in [1 .. n -> S] /\ \A i, j \in 1 .. n : i # j => L[i] # L[j]
  BY <1>2 DEF SetToSeqs
<1>4. L \in Seq(S)
  BY <1>1, <1>3, SeqDef
<1>5. Len(L) = n
  BY <1>1, <1>3, <1>4, LenProperties
<1>6. \A i, j \in 1 .. n : i < j => InOrder(q, L[i], L[j])
  <2>1. ASSUME NEW i \in 1 .. n, NEW j \in 1 .. n, i < j
        PROVE  InOrder(q, L[i], L[j])
    <3>1. /\ L[i] \in S /\ L[j] \in S /\ L[i] # L[j]
          /\ Before(L[i], L[j], q) \/ ~Before(L[j], L[i], q)
      BY <1>2, <1>3, <2>1
    <3>2. L[i] \in Object /\ L[j] \in Object /\ L[i].name # L[j].name
      BY <3>1 DEF WellNamed
    <3>. QED BY <3>1, <3>2, BeforeIsInOrder, InOrderIsOrder
  <2>. QED BY <2>1
<1>7. \A x \in S : \E j \in 1 .. n : L[j] = x
  <2>1. L \in Injection(1 .. n, S)
    BY <1>3, Fun_IsInj
  <2>2. L \in Surjection(1 .. n, S)
    BY <1>1, <2>1, FS_Injection, FS_Interval
  <2>. QED BY <2>2 DEF Surjection
<1>8. ASSUME NEW i \in 1 .. n
      PROVE  RankIn(L[i], S, q) = i - 1
  <2>. DEFINE m == i - 1
              A == Ahead(L[i], S, q)
              g == [j \in 1 .. m |-> L[j]]
  <2>1. m \in Nat /\ \A j \in 1 .. n : j < i <=> j \in 1 .. m
    BY <1>1
  <2>2. g \in [1 .. m -> A]
    BY <1>1, <1>3, <1>6, <2>1 DEF Ahead
  <2>3. \A j, k \in 1 .. m : g[j] = g[k] => j = k
    BY <1>1, <1>3
  <2>4. \A x \in A : \E j \in 1 .. m : g[j] = x
    <3>1. ASSUME NEW x \in A
          PROVE  \E j \in 1 .. m : g[j] = x
      <4>1. x \in S /\ InOrder(q, x, L[i])
        BY DEF Ahead
      <4>2. PICK j \in 1 .. n : L[j] = x
        BY <1>7, <4>1
      <4>3. j < i
        <5>1. ~(i < j) /\ i # j
          BY <1>1, <1>3, <1>6, <4>1, <4>2, InOrderIsOrder
        <5>. QED BY <1>1, <5>1
      <4>. QED BY <2>1, <4>2, <4>3
    <3>. QED BY <3>1
  <2>5. g \in Bijection(1 .. m, A)
    BY <2>2, <2>3, <2>4, Fun_IsBij
  <2>. HIDE DEF g
  <2>6. ExistsBijection(1 .. m, A)
    BY <2>5 DEF ExistsBijection
  <2>7. Cardinality(A) = m
    BY <2>1, <2>6, FS_CountingElements
  <2>. QED BY <2>7 DEF RankIn
<1>9. ASSUME NEW x \in S
      PROVE  L[RankIn(x, S, q) + 1] = x
  <2>1. PICK j \in 1 .. n : L[j] = x
    BY <1>7
  <2>2. RankIn(x, S, q) + 1 = j
    BY <1>1, <1>8, <2>1
  <2>. QED BY <2>1, <2>2
<1>. QED BY <1>4, <1>5, <1>8, <1>9 DEF L

-----------------------------------------------------------------------------
(* What is on a page.                                                      *)

\* The product of a page's number and the limit.
LEMMA Products ==
    ASSUME NEW k \in Nat, NEW l \in Nat, l > 0
    PROVE  /\ k * l \in Nat /\ (k + 1) * l = k * l + l
           /\ k = 0 => k * l = 0
           /\ k > 0 => k * l >= l /\ (k - 1) * l = k * l - l /\ k - 1 <= (k - 1) * l
<1>1. k * l \in Nat /\ (k + 1) * l = k * l + l
  OBVIOUS
<1>2. ASSUME k > 0
      PROVE  k * l >= l /\ (k - 1) * l = k * l - l /\ k - 1 <= (k - 1) * l
  <2>. DEFINE j == k - 1
              d == l - 1
  <2>1. j \in Nat /\ d \in Nat /\ j * l \in Nat /\ j * d \in Nat
    BY <1>2
  <2>2. k * l = j * l + l /\ j * l = j * d + j
    BY <1>2
  <2>. QED BY <2>1, <2>2
<1>. QED BY <1>1, <1>2

\* As long as the page before the one asked for was within a list of as many objects
\* as there are names, nothing that wraps around is taken for a place in the list.
LEMMA Window ==
    ASSUME NEW k \in Nat, NEW l \in 1 .. Width - 1,
           NEW n \in Nat, n <= Cardinality(Names),
           k > 0 => (k - 1) * l < Cardinality(Names)
    PROVE  GetValidPagination(ParsePagination(l, k + 1), n) =
             IF k * l <= n THEN [start |-> k * l, end |-> IF k * l + l > n THEN n ELSE k * l + l]
             ELSE [start |-> 0, end |-> 0]
<1>. DEFINE N == Cardinality(Names)
            o == k * l
<1>1. N \in Nat /\ 2 * N < Width /\ Width \in Nat /\ Width > 1 /\ l \in Nat /\ l > 0 /\ l < Width
  BY NamesAssumption, WidthAssumption, FS_CardinalityType
<1>2. /\ o \in Nat
      /\ k = 0 => o = 0
      /\ k > 0 => o >= l /\ o < N + l /\ k - 1 < N
  BY <1>1, Products
<1>3. k \in Ints /\ k + 1 \in Ints /\ l \in Ints
  BY <1>1, <1>2 DEF Ints
<1>4. ParsePagination(l, k + 1) = [limit |-> l, offset |-> Wrap(o)]
  <2>1. (k + 1) - 1 = k /\ Wrap(k) = k
    BY <1>3, WrapFits
  <2>. QED BY <1>3, <2>1 DEF ParsePagination
<1>. HIDE DEF N, o
<1>5. CASE o >= Width
  <2>1. o + Width >= 2 * Width /\ o + Width < 2 * (2 * Width)
    BY <1>1, <1>2, <1>5
  <2>2. \A a, b \in Nat : a >= b /\ a < 2 * b => a % b = a - b
    OBVIOUS
  <2>3. (o + Width) % (2 * Width) = (o + Width) - (2 * Width)
    <3>. DEFINE a == o + Width
                b == 2 * Width
    <3>1. a \in Nat /\ b \in Nat /\ a >= b /\ a < 2 * b
      BY <1>1, <1>2, <2>1
    <3>. HIDE DEF a, b
    <3>2. a % b = a - b
      BY <2>2, <3>1
    <3>. QED BY <3>2 DEF a, b
  <2>4. Wrap(o) = o - 2 * Width
    BY <1>1, <1>2, <2>3 DEF Wrap
  <2>5. Wrap(o) < 0 /\ Wrap(o) \in Int
    BY <1>1, <1>2, <1>5, <2>4
  <2>6. ~(o <= n)
    BY <1>1, <1>2, <1>5 DEF N
  <2>. QED BY <1>1, <1>4, <2>5, <2>6 DEF GetValidPagination, NoLimit, o
<1>6. CASE o < Width
  <2>1. Wrap(o) = o
    BY <1>1, <1>2, <1>6, WrapFits DEF Ints
  <2>2. CASE o > n
    BY <1>1, <1>2, <1>4, <2>1, <2>2 DEF GetValidPagination, NoLimit, o
  <2>3. CASE o <= n
    <3>1. o + l \in Ints
      BY <1>1, <1>2, <2>3 DEF Ints, N
    <3>2. Wrap(o + l) = o + l
      BY <3>1, WrapFits
    <3>. QED BY <1>1, <1>2, <1>4, <2>1, <2>3, <3>2 DEF GetValidPagination, NoLimit, o
  <2>. QED BY <1>1, <1>2, <2>2, <2>3
<1>. QED BY <1>1, <1>2, <1>5, <1>6

\* A page holds the objects whose ranks are those of its places.
LEMMA PageByRank ==
    ASSUME NEW S, WellNamed(S), NEW q, NEW k \in Nat, NEW l \in 1 .. Width - 1,
           q.limit = l, q.page = k + 1,
           k > 0 => (k - 1) * l < Cardinality(Names)
    PROVE  LET p == Page(Sorted(S, q), q)
           IN  /\ p \in Seq(S)
               /\ \A i \in 1 .. Len(p) : RankIn(p[i], S, q) = k * l + i - 1
               /\ Len(p) <= l
               /\ \A x \in S : k * l <= RankIn(x, S, q) /\ RankIn(x, S, q) < k * l + l
                               => \E i \in 1 .. Len(p) : p[i] = x
<1>. DEFINE n == Cardinality(S)
            L == Sorted(S, q)
            o == k * l
            w == GetValidPagination(ParsePagination(q.limit, q.page), Len(L))
            p == Page(L, q)
<1>1. n \in Nat /\ n <= Cardinality(Names) /\ l \in Nat /\ l > 0
  BY FewerThanNames, WidthAssumption
<1>2. o \in Nat
  BY <1>1, Products
<1>3. L \in Seq(S) /\ Len(L) = n /\ \A i \in 1 .. n : L[i] \in S /\ RankIn(L[i], S, q) = i - 1
  <2>1. L \in Seq(S) /\ Len(L) = n /\ \A i \in 1 .. n : RankIn(L[i], S, q) = i - 1
    BY SortedByRank
  <2>. QED BY <2>1, ElementOfSeq
<1>4. \A x \in S : L[RankIn(x, S, q) + 1] = x /\ RankIn(x, S, q) \in Nat /\ RankIn(x, S, q) < n
  BY SortedByRank, RanksGrow
<1>5. w = IF o <= n THEN [start |-> o, end |-> IF o + l > n THEN n ELSE o + l]
          ELSE [start |-> 0, end |-> 0]
  BY <1>1, <1>3, Window
<1>. HIDE DEF L, o, n
<1>6. CASE o <= n
  <2>. DEFINE e == IF o + l > n THEN n ELSE o + l
  <2>1. e \in Nat /\ o <= e /\ e <= n /\ e - o <= l /\ \A r \in Nat : o <= r /\ r < o + l /\ r < n => r < e
    BY <1>1, <1>2, <1>6 DEF n
  <2>2. p = SubSeq(L, o + 1, e)
    <3>1. w = [start |-> o, end |-> e]
      BY <1>5, <1>6
    <3>2. p = IF IsSlice(w, Len(L)) THEN SubSeq(L, w.start + 1, w.end) ELSE Panic
      BY DEF Page
    <3>. HIDE DEF w, e, p
    <3>3. w.start = o /\ w.end = e
      BY <3>1
    <3>4. IsSlice(w, Len(L))
      BY <1>1, <1>2, <1>3, <2>1, <3>3 DEF IsSlice, n
    <3>. QED BY <3>2, <3>3, <3>4
  <2>. HIDE DEF e, p
  <2>3. \A i \in o + 1 .. e : L[i] \in S /\ RankIn(L[i], S, q) = i - 1
    BY <1>1, <1>2, <1>3, <2>1 DEF n
  <2>4. /\ p \in Seq(S)
        /\ Len(p) = IF o + 1 <= e THEN e - (o + 1) + 1 ELSE 0
        /\ \A i \in 1 .. e - (o + 1) + 1 : p[i] = L[o + 1 + i - 1]
    <3>1. o + 1 \in Int /\ e \in Int
      BY <1>2, <2>1
    <3>. QED BY <2>2, <2>3, <3>1, SubSeqProperties
  <2>5. Len(p) = e - o /\ \A i \in 1 .. Len(p) : p[i] = L[o + i] /\ o + i \in o + 1 .. e
    BY <1>2, <2>1, <2>4
  <2>6. ASSUME NEW x \in S, o <= RankIn(x, S, q), RankIn(x, S, q) < o + l
        PROVE  \E i \in 1 .. Len(p) : p[i] = x
    <3>. DEFINE i == RankIn(x, S, q) + 1 - o
    <3>1. i \in 1 .. Len(p) /\ o + i = RankIn(x, S, q) + 1
      BY <1>2, <1>4, <2>1, <2>5, <2>6
    <3>2. p[i] = x
      BY <1>4, <2>5, <3>1
    <3>. QED BY <3>1, <3>2
  <2>7. \A i \in 1 .. Len(p) : RankIn(p[i], S, q) = o + i - 1
    BY <1>2, <2>1, <2>3, <2>5
  <2>. QED BY <2>1, <2>4, <2>5, <2>6, <2>7 DEF p, L, o
<1>7. CASE ~(o <= n)
  <2>1. p = SubSeq(L, 1, 0)
    BY <1>1, <1>2, <1>3, <1>5, <1>7 DEF Page, IsSlice
  <2>2. p = <<>>
    BY <2>1, SubSeqEmpty
  <2>3. \A x \in S : ~(o <= RankIn(x, S, q))
    BY <1>1, <1>2, <1>4, <1>7 DEF n
  <2>4. p \in Seq(S) /\ Len(p) = 0
    BY <2>2
  <2>. QED BY <1>1, <2>3, <2>4 DEF L, o
<1>. QED BY <1>6, <1>7

\* Without a limit the page is the whole list.
LEMMA PageOfAll ==
    ASSUME NEW S, WellNamed(S), NEW q, q.limit = Undefined
    PROVE  Page(Sorted(S, q), q) = Sorted(S, q)
<1>. DEFINE L == Sorted(S, q)
<1>1. L \in Seq(S) /\ Len(L) \in Nat
  BY SortedByRank, LenProperties
<1>2. GetValidPagination(ParsePagination(q.limit, q.page), Len(L)) = [start |-> 0, end |-> Len(L)]
  BY PanicAssumption DEF ParsePagination, GetValidPagination
<1>3. Page(L, q) = SubSeq(L, 1, Len(L))
  BY <1>1, <1>2 DEF Page, IsSlice
<1>. QED BY <1>1, <1>3, SubSeqFull

\* The filters that are applied once more change nothing of a list of objects that
\* they fit.
LEMMA AgainKeepsAll ==
    ASSUME NEW S, NEW s \in Seq(S), s # Panic, NEW q,
           \A o \in S : \A f \in q.filters : f.field \in Again => o.name \in f.value
    PROVE  WithListAndFilter(s, q) = s
<1>. DEFINE kept == {i \in DOMAIN s :
                        \A f \in q.filters : f.field \in Again => s[i].name \in f.value}
            Nth(n) == CHOOSE i \in kept : Cardinality({j \in kept : j <= i}) = n
<1>1. Len(s) \in Nat /\ DOMAIN s = 1 .. Len(s) /\ \A i \in 1 .. Len(s) : s[i] \in S
  BY LenProperties, ElementOfSeq
<1>2. kept = 1 .. Len(s)
  BY <1>1
<1>3. \A i \in 1 .. Len(s) : Cardinality({j \in 1 .. Len(s) : j <= i}) = i
  <2>1. ASSUME NEW i \in 1 .. Len(s)
        PROVE  Cardinality({j \in 1 .. Len(s) : j <= i}) = i
    <3>1. {j \in 1 .. Len(s) : j <= i} = 1 .. i
      BY <1>1
    <3>2. Cardinality(1 .. i) = i
      BY <1>1, FS_Interval
    <3>. QED BY <3>1, <3>2
  <2>. QED BY <2>1
<1>4. Cardinality(kept) = Len(s)
  <2>1. Cardinality(1 .. Len(s)) = Len(s)
    BY <1>1, FS_Interval
  <2>. QED BY <1>2, <2>1
<1>. HIDE DEF kept
<1>5. \A n \in 1 .. Len(s) : Nth(n) = n
  BY <1>2, <1>3
<1>. HIDE DEF Nth
<1>6. WithListAndFilter(s, q) = [n \in 1 .. Cardinality(kept) |-> s[Nth(n)]]
  BY DEF WithListAndFilter, kept, Nth
<1>7. [n \in 1 .. Cardinality(kept) |-> s[Nth(n)]] = [n \in 1 .. Len(s) |-> s[n]]
  BY <1>4, <1>5
<1>8. s \in [1 .. Len(s) -> S]
  BY LenProperties
<1>9. [n \in 1 .. Len(s) |-> s[n]] = s
  BY <1>8
<1>. QED BY <1>6, <1>7, <1>9

-----------------------------------------------------------------------------
(* What the client has, between any two steps. A is what the query asks    *)
(* for of the cache.                                                       *)

\* What a client can be.
Clients == [query: Queries, got: Seq(Object), page: Nat,
            pc: {"idle", "reading", "refused", "done", "panicked"},
            begun: SUBSET Object, came: BOOLEAN, went: BOOLEAN]

\* A client that reads from the first page on meets no panic.
Walks == [query: {q \in Queries : FromStart(q)}, got: Seq(Object), page: Nat,
          pc: {"idle", "reading", "refused", "done"},
          begun: SUBSET Object, came: BOOLEAN, went: BOOLEAN]

\* The client has begun.
Walking(w) == w.pc \in {"reading", "done"}

\* The ranks below this one have been on a page.
Read(w) == IF w.query.limit = Undefined THEN 0 ELSE w.page * w.query.limit

\* A client that has not begun has nothing, one without a limit reads one page, and
\* another's last page was within the list.
Within(w) ==
    /\ w.pc = "idle" => w.got = <<>> /\ w.page = 0
    /\ w.pc = "reading" /\ w.query.limit = Undefined => w.got = <<>>
    /\ w.pc = "reading" /\ w.query.limit # Undefined /\ w.page > 0
       => (w.page - 1) * w.query.limit < Cardinality(Names)

\* As long as nothing comes, there is only what there was in the beginning, and as
\* long as nothing goes, all of it.
Lasting(w, A) ==
    Walking(w) => /\ ~w.came => A \subseteq w.begun /\ Range(w.got) \subseteq w.begun
                  /\ ~w.went => w.begun \subseteq A

\* As long as nothing comes, what was read and is still there is ranked behind.
Behind(w, A) ==
    /\ Walking(w) /\ ~w.came
       => \A i, j \in DOMAIN w.got : w.got[i] = w.got[j] => i = j
    /\ w.pc = "reading" /\ ~w.came
       => \A x \in Range(w.got) \cap A : RankIn(x, A, w.query) < Read(w)

\* As long as nothing goes, what was not read is ranked ahead.
Unread(w, A) ==
    /\ w.pc = "reading" /\ ~w.went
       => \A x \in w.begun \ Range(w.got) : RankIn(x, A, w.query) >= Read(w)
    /\ w.pc = "done" /\ ~w.went => w.begun \subseteq Range(w.got)

\* As long as nothing comes or goes, what was read is in order.
Ordered(w) ==
    Walking(w) /\ ~w.came /\ ~w.went
    => \A i, j \in DOMAIN w.got : i < j => InOrder(w.query, w.got[i], w.got[j])

\* What holds of a client and of what it asks for.
Steady(w, A) == Within(w) /\ Lasting(w, A) /\ Behind(w, A) /\ Unread(w, A) /\ Ordered(w)

\* One object of a name.
Typed == WellNamed(stored) /\ WellNamed(cached.objects) /\ walk \in Clients

\* Who reads on from the first page is steady.
ReadsOn == FromStart(walk.query) => walk \in Walks /\ Steady(walk, Asked(walk.query, cached))

\* Who does not has asked for no page before the only one.
ReadsOnce == ~FromStart(walk.query) /\ walk.pc \in {"idle", "reading"} => walk.page = 0

\* The inductive invariant.
IInv == Typed /\ ReadsOn /\ ReadsOnce /\ PanicsOnlyOnOverflow

\* What is asked for is in the cache.
LEMMA AskedIsCached ==
    ASSUME NEW q, NEW c, WellNamed(c.objects)
    PROVE  WellNamed(Asked(q, c))
<1>1. Asked(q, c) \subseteq c.objects
  BY DEF Asked, Matching, BoundUsers, InNamespace
<1>. QED BY <1>1 DEF WellNamed

\* Objects that a query asks for fit the filters that are applied once more.
LEMMA AskedFit ==
    ASSUME NEW q, NEW c
    PROVE  \A o \in Asked(q, c) : \A f \in q.filters : f.field \in Again => o.name \in f.value
BY DEF Asked, Matching, Filter, DefaultObjectMetaFilter, MetaFields, Again

\* A list of any kind is a page of the sorted list of what is asked for.
LEMMA ListIsPage ==
    ASSUME NEW q \in Queries, NEW c, NEW r,
           r.kind = q.kind, r.ns = q.ns, r.scope = q.scope, r.role = q.role,
           r.filters = q.filters
    PROVE  List(q.kind, c.objects, c.bindings, r) = Page(Sorted(Asked(q, c), r), r)
<1>. DEFINE p == Page(Sorted(Asked(q, c), r), r)
<1>1. q.kind \in Kinds
  BY QueriesAssumption
<1>2. List(q.kind, c.objects, c.bindings, r) = p
  <2>1. CASE q.kind = "users"
    BY <2>1 DEF List, Users, DefaultList, Asked, Namespaced
  <2>2. CASE q.kind = "loginrecords"
    BY <2>2 DEF List, LoginRecords, DefaultList, Asked, Namespaced
  <2>3. CASE q.kind \in {"globalroles", "globalrolebindings", "clusterroles",
                         "clusterrolebindings"}
    BY <2>3 DEF List, GlobalRoles, GlobalRoleBindings, ClusterRoles, ClusterRoleBindings,
                DefaultList, Asked, Namespaced
  <2>4. CASE q.kind \in {"roles", "rolebindings", "serviceaccounts"}
    BY <2>4 DEF List, Roles, RoleBindings, ServiceAccounts, DefaultList, Asked, Namespaced
  <2>5. CASE q.kind = "namespaces"
    BY <2>5 DEF List, Namespaces, DefaultList, Asked, Namespaced
  <2>6. CASE q.kind = "customresourcedefinitions"
    BY <2>6 DEF List, CustomResourceDefinitions, DefaultList, Asked, Namespaced
  <2>. QED BY <1>1, <2>1, <2>2, <2>3, <2>4, <2>5, <2>6 DEF Kinds
<1>. QED BY <1>2

\* The answer to a request is that page, if it is a list at all.
LEMMA AnswerIsPage ==
    ASSUME NEW q \in Queries, NEW c, WellNamed(c.objects), NEW r,
           r.kind = q.kind, r.ns = q.ns, r.scope = q.scope, r.role = q.role,
           r.filters = q.filters,
           Page(Sorted(Asked(q, c), r), r) \in Seq(Asked(q, c))
    PROVE  /\ Answer(q.kind, c.objects, c.bindings, r) = Page(Sorted(Asked(q, c), r), r)
           /\ Answer(q.kind, c.objects, c.bindings, r) # Panic
<1>. DEFINE p == Page(Sorted(Asked(q, c), r), r)
<1>2. List(q.kind, c.objects, c.bindings, r) = p
  BY ListIsPage
<1>3. p # Panic
  <2>1. Asked(q, c) \subseteq Object
    BY AskedIsCached DEF WellNamed
  <2>2. p \in Seq(Object)
    BY <2>1, SeqMonotonic
  <2>. QED BY <2>2, PanicAssumption
<1>4. WithListAndFilter(p, r) = p
  <2>1. \A o \in Asked(q, c) : \A f \in r.filters : f.field \in Again => o.name \in f.value
    BY AskedFit
  <2>. HIDE DEF p
  <2>. QED BY <1>3, <2>1, AgainKeepsAll DEF p
<1>. QED BY <1>2, <1>3, <1>4 DEF Answer

\* A request for the next page is answered by a list of the objects whose ranks come
\* next.
LEMMA NextPage ==
    ASSUME NEW q \in Queries, NEW c, WellNamed(c.objects), NEW k \in Nat,
           FromStart(q), q.limit # Undefined,
           k > 0 => (k - 1) * q.limit < Cardinality(Names)
    PROVE  LET A    == Asked(q, c)
               list == Answer(q.kind, c.objects, c.bindings, [q EXCEPT !.page = k + 1])
           IN  /\ list \in Seq(A) /\ list # Panic
               /\ \A i \in 1 .. Len(list) : RankIn(list[i], A, q) = k * q.limit + i - 1
               /\ Len(list) <= q.limit
               /\ \A x \in A : /\ k * q.limit <= RankIn(x, A, q)
                               /\ RankIn(x, A, q) < k * q.limit + q.limit
                               => \E i \in 1 .. Len(list) : list[i] = x
<1>. DEFINE A == Asked(q, c)
            r == [q EXCEPT !.page = k + 1]
            p == Page(Sorted(A, r), r)
<1>1. /\ r.kind = q.kind /\ r.ns = q.ns /\ r.scope = q.scope /\ r.role = q.role
      /\ r.filters = q.filters /\ r.sortBy = q.sortBy /\ r.ascending = q.ascending
      /\ r.limit = q.limit /\ r.page = k + 1 /\ q.limit \in 1 .. Width - 1
  BY QueriesAssumption DEF FromStart
<1>2. WellNamed(A)
  BY AskedIsCached
<1>. HIDE DEF r, A
<1>3. \A x : RankIn(x, A, r) = RankIn(x, A, q)
  BY <1>1 DEF RankIn, Ahead, InOrder
<1>4. /\ p \in Seq(A)
      /\ \A i \in 1 .. Len(p) : RankIn(p[i], A, r) = k * q.limit + i - 1
      /\ Len(p) <= q.limit
      /\ \A x \in A : k * q.limit <= RankIn(x, A, r) /\ RankIn(x, A, r) < k * q.limit + q.limit
                      => \E i \in 1 .. Len(p) : p[i] = x
  <2>. DEFINE l == q.limit
  <2>1. /\ l \in 1 .. Width - 1 /\ r.limit = l /\ r.page = k + 1
        /\ k > 0 => (k - 1) * l < Cardinality(Names)
    BY <1>1
  <2>. HIDE DEF l
  <2>2. /\ p \in Seq(A)
        /\ \A i \in 1 .. Len(p) : RankIn(p[i], A, r) = k * l + i - 1
        /\ Len(p) <= l
        /\ \A x \in A : k * l <= RankIn(x, A, r) /\ RankIn(x, A, r) < k * l + l
                        => \E i \in 1 .. Len(p) : p[i] = x
    BY <1>2, <2>1, PageByRank
  <2>. QED BY <2>2 DEF l
<1>5. Answer(q.kind, c.objects, c.bindings, r) = p /\ p # Panic
  BY <1>1, <1>4, AnswerIsPage DEF A
<1>. HIDE DEF p
<1>. QED BY <1>3, <1>4, <1>5 DEF r, A

\* A request without a limit is answered by all that is asked for, in order.
LEMMA WholeList ==
    ASSUME NEW q \in Queries, NEW c, WellNamed(c.objects), NEW k \in Nat, q.limit = Undefined
    PROVE  LET A    == Asked(q, c)
               list == Answer(q.kind, c.objects, c.bindings, [q EXCEPT !.page = k + 1])
           IN  /\ list \in Seq(A) /\ list # Panic
               /\ \A i \in 1 .. Len(list) : RankIn(list[i], A, q) = i - 1
               /\ \A x \in A : \E i \in 1 .. Len(list) : list[i] = x
<1>. DEFINE A == Asked(q, c)
            r == [q EXCEPT !.page = k + 1]
            p == Page(Sorted(A, r), r)
<1>1. /\ r.kind = q.kind /\ r.ns = q.ns /\ r.scope = q.scope /\ r.role = q.role
      /\ r.filters = q.filters /\ r.sortBy = q.sortBy /\ r.ascending = q.ascending
      /\ r.limit = Undefined
  BY QueriesAssumption
<1>2. WellNamed(A)
  BY AskedIsCached
<1>. HIDE DEF r, A
<1>3. \A x : RankIn(x, A, r) = RankIn(x, A, q)
  BY <1>1 DEF RankIn, Ahead, InOrder
<1>4. p = Sorted(A, r)
  BY <1>1, <1>2, PageOfAll
<1>5. /\ p \in Seq(A) /\ Len(p) = Cardinality(A)
      /\ \A i \in 1 .. Len(p) : RankIn(p[i], A, r) = i - 1
      /\ \A x \in A : p[RankIn(x, A, r) + 1] = x
  BY <1>2, <1>4, SortedByRank
<1>6. \A x \in A : RankIn(x, A, r) + 1 \in 1 .. Cardinality(A)
  BY <1>2, RanksGrow, FewerThanNames
<1>7. Answer(q.kind, c.objects, c.bindings, r) = p /\ p # Panic
  BY <1>1, <1>5, AnswerIsPage DEF A
<1>. HIDE DEF p
<1>. QED BY <1>3, <1>5, <1>6, <1>7 DEF r, A

-----------------------------------------------------------------------------
(* The steps of a walk.                                                    *)

\* How much was read is a number.
LEMMA ReadIsNumber ==
    ASSUME NEW w \in Walks
    PROVE  /\ Read(w) \in Nat
           /\ w.query.limit # Undefined => w.query.limit \in Nat /\ w.query.limit > 0
<1>1. w.query.limit # Undefined => w.query.limit \in Nat /\ w.query.limit > 0
  BY WidthAssumption DEF Walks, FromStart
<1>2. w.page \in Nat
  BY DEF Walks
<1>. QED BY <1>1, <1>2, Products DEF Read

\* In a shorter list no rank is greater.
LEMMA RanksFall ==
    ASSUME NEW q, NEW A, NEW B, WellNamed(A), WellNamed(B), B \subseteq A, NEW x \in B
    PROVE  RankIn(x, B, q) <= RankIn(x, A, q)
<1>1. Ahead(x, B, q) \in SUBSET Ahead(x, A, q) /\ Ahead(x, A, q) \in SUBSET A
  BY DEF Ahead
<1>2. IsFiniteSet(Ahead(x, A, q))
  BY <1>1, FewerThanNames, FS_Subset
<1>. QED BY <1>1, <1>2, FS_Subset DEF RankIn

\* The cache follows: A is what is asked for before, B after.
LEMMA SyncKeeps ==
    ASSUME NEW w \in Walks, NEW A, NEW B, WellNamed(A), WellNamed(B), Steady(w, A),
           NEW v, v.query = w.query, v.got = w.got, v.page = w.page, v.pc = w.pc,
           v.begun = w.begun,
           v.came = (w.came \/ B \ A # {}), v.went = (w.went \/ A \ B # {})
    PROVE  Steady(v, B)
<1>1. /\ v.query = w.query /\ v.got = w.got /\ v.page = w.page /\ v.pc = w.pc
      /\ v.begun = w.begun
      /\ v.came = (w.came \/ B \ A # {}) /\ v.went = (w.went \/ A \ B # {})
  OBVIOUS
<1>2. /\ ~v.came => ~w.came /\ B \subseteq A
      /\ ~v.went => ~w.went /\ A \subseteq B
  BY <1>1
<1>3. Within(v)
  BY <1>1 DEF Within, Steady
<1>4. Lasting(v, B)
  BY <1>1, <1>2 DEF Lasting, Steady, Walking
<1>5. Behind(v, B)
  <2>1. Walking(v) /\ ~v.came => \A i, j \in DOMAIN v.got : v.got[i] = v.got[j] => i = j
    BY <1>1, <1>2 DEF Behind, Steady, Walking
  <2>2. ASSUME v.pc = "reading", ~v.came, NEW x \in Range(v.got) \cap B
        PROVE  RankIn(x, B, v.query) < Read(v)
    <3>1. B \subseteq A /\ x \in A /\ RankIn(x, A, w.query) < Read(w)
      BY <1>1, <1>2, <2>2 DEF Behind, Steady
    <3>2. RankIn(x, B, w.query) <= RankIn(x, A, w.query)
      BY <2>2, <3>1, RanksFall
    <3>3. RankIn(x, B, w.query) \in Nat /\ RankIn(x, A, w.query) \in Nat
      BY <2>2, <3>1, RanksGrow
    <3>4. Read(v) = Read(w) /\ Read(w) \in Int
      BY <1>1, ReadIsNumber DEF Read
    <3>. QED BY <1>1, <3>1, <3>2, <3>3, <3>4
  <2>. QED BY <2>1, <2>2 DEF Behind
<1>6. Unread(v, B)
  <2>1. v.pc = "done" /\ ~v.went => v.begun \subseteq Range(v.got)
    BY <1>1, <1>2 DEF Unread, Steady
  <2>2. ASSUME v.pc = "reading", ~v.went, NEW x \in v.begun \ Range(v.got)
        PROVE  RankIn(x, B, v.query) >= Read(v)
    <3>1. A \subseteq B /\ x \in A /\ RankIn(x, A, w.query) >= Read(w)
      BY <1>1, <1>2, <2>2 DEF Unread, Lasting, Steady, Walking
    <3>2. RankIn(x, A, w.query) <= RankIn(x, B, w.query)
      BY <3>1, RanksFall
    <3>3. RankIn(x, B, w.query) \in Nat /\ RankIn(x, A, w.query) \in Nat
      BY <3>1, RanksGrow
    <3>4. Read(v) = Read(w) /\ Read(w) \in Int
      BY <1>1, ReadIsNumber DEF Read
    <3>. QED BY <1>1, <3>1, <3>2, <3>3, <3>4
  <2>. QED BY <2>1, <2>2 DEF Unread
<1>7. Ordered(v)
  BY <1>1, <1>2 DEF Ordered, Steady, Walking
<1>. QED BY <1>1, <1>3, <1>4, <1>5, <1>6, <1>7 DEF Steady

\* The walk begins with what is asked for, none of it read.
LEMMA BeginKeeps ==
    ASSUME NEW w \in Walks, NEW A, WellNamed(A), Steady(w, A), w.pc = "idle",
           NEW v, v = [w EXCEPT !.pc = "reading", !.begun = A, !.came = FALSE, !.went = FALSE]
    PROVE  v \in Walks /\ Steady(v, A)
<1>1. /\ v.query = w.query /\ v.got = <<>> /\ v.page = 0 /\ v.pc = "reading" /\ v.begun = A
      /\ v.came = FALSE /\ v.went = FALSE
      /\ v \in Walks
  BY DEF Walks, Steady, Within, WellNamed
<1>2. Range(v.got) = {} /\ DOMAIN v.got = {}
  BY <1>1 DEF Range
<1>3. Read(v) = 0
  <2>1. v.query.limit # Undefined => v.query.limit \in Int
    BY <1>1, WidthAssumption DEF Walks, FromStart
  <2>. QED BY <1>1, <2>1 DEF Read
<1>4. Within(v)
  BY <1>1 DEF Within
<1>5. Lasting(v, A) /\ Ordered(v)
  BY <1>1, <1>2 DEF Lasting, Ordered
<1>6. Behind(v, A)
  BY <1>2 DEF Behind
<1>7. Unread(v, A)
  <2>1. \A x \in A : RankIn(x, A, v.query) >= 0
    BY RanksGrow
  <2>. QED BY <1>1, <1>3, <2>1 DEF Unread
<1>. QED BY <1>1, <1>4, <1>5, <1>6, <1>7 DEF Steady

\* The client is refused.
LEMMA RefuseKeeps ==
    ASSUME NEW w \in Walks, NEW A, NEW v, v = [w EXCEPT !.pc = "refused"]
    PROVE  v \in Walks /\ Steady(v, A)
<1>1. v.pc = "refused" /\ v \in Walks
  BY DEF Walks
<1>. QED BY <1>1 DEF Steady, Within, Lasting, Behind, Unread, Ordered, Walking

\* What was read and the page that follows it.
LEMMA Joined ==
    ASSUME NEW q, NEW A, WellNamed(A), NEW g \in Seq(Object), NEW list \in Seq(A), NEW R \in Nat,
           \A i \in 1 .. Len(list) : RankIn(list[i], A, q) = R + i - 1
    PROVE  LET both == g \o list IN
           /\ both \in Seq(Object)
           /\ Range(both) = Range(g) \cup Range(list)
           /\ Range(list) \subseteq A
           /\ \A x \in Range(list) : /\ R <= RankIn(x, A, q)
                                     /\ RankIn(x, A, q) < R + Len(list)
           /\ /\ \A i, j \in DOMAIN g : g[i] = g[j] => i = j
              /\ \A x \in Range(g) \cap A : RankIn(x, A, q) < R
              => \A i, j \in DOMAIN both : both[i] = both[j] => i = j
           /\ /\ \A i, j \in DOMAIN g : i < j => InOrder(q, g[i], g[j])
              /\ \A x \in Range(g) : x \in A /\ RankIn(x, A, q) < R
              => \A i, j \in DOMAIN both : i < j => InOrder(q, both[i], both[j])
<1>. DEFINE both == g \o list
            m == Len(g)
            n == Len(list)
            first(i) == i \in 1 .. m /\ both[i] = g[i] /\ g[i] \in Range(g)
            second(i) == /\ i - m \in 1 .. n /\ both[i] = list[i - m]
                         /\ both[i] \in A /\ RankIn(both[i], A, q) = R + (i - m) - 1
<1>1. m \in Nat /\ n \in Nat /\ DOMAIN g = 1 .. m
  BY LenProperties
<1>2. A \subseteq Object /\ list \in Seq(Object)
  BY SeqMonotonic DEF WellNamed
<1>3. /\ both \in Seq(Object) /\ Len(both) = m + n
      /\ \A i \in 1 .. m + n : both[i] = IF i <= m THEN g[i] ELSE list[i - m]
  BY <1>2, ConcatProperties
<1>4. Range(both) = Range(g) \cup Range(list)
  BY <1>2, RangeConcatenation
<1>5. DOMAIN both = 1 .. m + n
  BY <1>3, LenProperties
<1>6. Range(g) = {g[i] : i \in 1 .. m} /\ Range(list) = {list[i] : i \in 1 .. n}
  BY RangeEquality
<1>7. \A i \in 1 .. n : list[i] \in A
  BY ElementOfSeq
<1>. HIDE DEF m, n, both
<1>8. \A i \in 1 .. n : RankIn(list[i], A, q) = R + i - 1
  BY DEF n
<1>9. ASSUME NEW x \in Range(list)
      PROVE  x \in A /\ R <= RankIn(x, A, q) /\ RankIn(x, A, q) < R + n
  <2>1. PICK i \in 1 .. n : x = list[i]
    BY <1>6
  <2>2. RankIn(x, A, q) = R + i - 1 /\ x \in A
    BY <1>7, <1>8, <2>1
  <2>. QED BY <1>1, <2>2
<1>10. ASSUME NEW i \in DOMAIN both
       PROVE  i \in Int /\ (first(i) \/ second(i))
  <2>1. i \in 1 .. m + n
    BY <1>5
  <2>2. CASE i <= m
    BY <1>1, <1>3, <1>6, <2>1, <2>2
  <2>3. CASE i > m
    <3>1. i - m \in 1 .. n /\ both[i] = list[i - m]
      BY <1>1, <1>3, <2>1, <2>3
    <3>. QED BY <1>7, <1>8, <2>1, <3>1
  <2>. QED BY <1>1, <2>1, <2>2, <2>3
<1>11. \A x \in A : RankIn(x, A, q) \in Nat
  BY RanksGrow
<1>12. ASSUME \A i, j \in DOMAIN g : g[i] = g[j] => i = j,
              \A x \in Range(g) \cap A : RankIn(x, A, q) < R,
              NEW i \in DOMAIN both, NEW j \in DOMAIN both, both[i] = both[j]
       PROVE  i = j
  <2>1. ASSUME NEW a \in Int, NEW b \in Int, first(a), second(b), both[a] = both[b]
        PROVE  FALSE
    <3>1. both[b] \in Range(g) \cap A /\ b - m \in 1 .. n
      BY <2>1
    <3>2. RankIn(both[b], A, q) < R
      BY <1>12, <3>1
    <3>3. RankIn(both[b], A, q) = R + (b - m) - 1
      BY <2>1
    <3>. QED BY <1>1, <3>1, <3>2, <3>3
  <2>2. CASE first(i) /\ first(j)
    BY <1>1, <1>12, <2>2
  <2>3. CASE second(i) /\ second(j)
    <3>1. R + (i - m) - 1 = R + (j - m) - 1
      BY <1>12, <2>3
    <3>. QED BY <1>1, <1>10, <3>1
  <2>. QED BY <1>10, <1>12, <2>1, <2>2, <2>3
<1>13. ASSUME \A i, j \in DOMAIN g : i < j => InOrder(q, g[i], g[j]),
              \A x \in Range(g) : x \in A /\ RankIn(x, A, q) < R,
              NEW i \in DOMAIN both, NEW j \in DOMAIN both, i < j
       PROVE  InOrder(q, both[i], both[j])
  <2>1. i \in Int /\ j \in Int /\ ~(second(i) /\ first(j))
    BY <1>1, <1>10, <1>13
  <2>2. CASE first(i) /\ first(j)
    BY <1>1, <1>13, <2>2
  <2>3. CASE second(j)
    <3>1. both[i] \in A /\ both[j] \in A /\ RankIn(both[i], A, q) < RankIn(both[j], A, q)
      <4>1. CASE first(i)
        <5>1. both[i] \in A /\ RankIn(both[i], A, q) < R
          BY <1>13, <4>1
        <5>2. both[j] \in A /\ j - m \in 1 .. n /\ RankIn(both[j], A, q) = R + (j - m) - 1
          BY <2>3
        <5>. QED BY <1>1, <1>11, <2>1, <5>1, <5>2
      <4>2. CASE second(i)
        <5>1. both[i] \in A /\ RankIn(both[i], A, q) = R + (i - m) - 1
          BY <4>2
        <5>2. both[j] \in A /\ RankIn(both[j], A, q) = R + (j - m) - 1
          BY <2>3
        <5>. QED BY <1>1, <1>13, <2>1, <5>1, <5>2
      <4>. QED BY <1>10, <4>1, <4>2
    <3>. QED BY <3>1, RanksTellOrder
  <2>. QED BY <1>10, <2>1, <2>2, <2>3
<1>. QED BY <1>3, <1>4, <1>9, <1>12, <1>13 DEF both, n

\* A list of the objects whose ranks come next, without gap, which without a limit
\* or if empty leaves none.
Follows(list, A, q, R) ==
    /\ list \in Seq(A)
    /\ \A i \in 1 .. Len(list) : RankIn(list[i], A, q) = R + i - 1
    /\ q.limit # Undefined
       => /\ Len(list) <= q.limit
          /\ \A x \in A : R <= RankIn(x, A, q) /\ RankIn(x, A, q) < R + q.limit
                          => x \in Range(list)
    /\ q.limit = Undefined \/ list = <<>>
       => \A x \in A : x \in Range(list) \/ RankIn(x, A, q) < R

\* The next page follows what was read.
LEMMA ReadOn ==
    ASSUME NEW w \in Walks, NEW c, WellNamed(c.objects), w.pc = "reading", Within(w),
           NEW q, q = w.query, NEW A, A = Asked(q, c), NEW list,
           list = Answer(q.kind, c.objects, c.bindings, [q EXCEPT !.page = w.page + 1])
    PROVE  list # Panic /\ Follows(list, A, q, Read(w))
<1>1. q \in Queries /\ FromStart(q) /\ w.page \in Nat /\ WellNamed(A)
  BY AskedIsCached DEF Walks
<1>2. CASE q.limit = Undefined
  <2>1. Read(w) = 0
    BY <1>2 DEF Read
  <2>2. /\ list \in Seq(A) /\ list # Panic
        /\ \A i \in 1 .. Len(list) : RankIn(list[i], A, q) = i - 1
        /\ \A x \in A : \E i \in 1 .. Len(list) : list[i] = x
    <3>. DEFINE page == Answer(q.kind, c.objects, c.bindings, [q EXCEPT !.page = w.page + 1])
    <3>1. page \in Seq(Asked(q, c))
      BY <1>1, <1>2, WholeList
    <3>2. page # Panic
      BY <1>1, <1>2, WholeList
    <3>3. \A i \in 1 .. Len(page) : RankIn(page[i], Asked(q, c), q) = i - 1
      BY <1>1, <1>2, WholeList
    <3>4. \A x \in Asked(q, c) : \E i \in 1 .. Len(page) : page[i] = x
      BY <1>1, <1>2, WholeList
    <3>5. page = list
      OBVIOUS
    <3>. HIDE DEF page
    <3>. QED BY <3>1, <3>2, <3>3, <3>4, <3>5
  <2>3. A \subseteq Range(list)
    BY <2>2, RangeEquality
  <2>4. \A i \in 1 .. Len(list) : RankIn(list[i], A, q) = Read(w) + i - 1
    <3>1. \A i \in 1 .. Len(list) : i - 1 = Read(w) + i - 1
      BY <2>1
    <3>. QED BY <2>2, <3>1
  <2>. QED BY <1>2, <2>2, <2>3, <2>4 DEF Follows
<1>3. CASE q.limit # Undefined
  <2>1. Read(w) = w.page * q.limit /\ Read(w) \in Nat /\ q.limit \in Nat /\ q.limit > 0
    BY <1>3, ReadIsNumber DEF Read
  <2>2. w.page > 0 => (w.page - 1) * q.limit < Cardinality(Names)
    BY <1>3 DEF Within
  <2>3. /\ list \in Seq(A) /\ list # Panic
        /\ \A i \in 1 .. Len(list) : RankIn(list[i], A, q) = w.page * q.limit + i - 1
        /\ Len(list) <= q.limit
        /\ \A x \in A : /\ w.page * q.limit <= RankIn(x, A, q)
                        /\ RankIn(x, A, q) < w.page * q.limit + q.limit
                        => \E i \in 1 .. Len(list) : list[i] = x
    <3>. DEFINE page == Answer(q.kind, c.objects, c.bindings, [q EXCEPT !.page = w.page + 1])
    <3>1. /\ page \in Seq(Asked(q, c)) /\ page # Panic
          /\ \A i \in 1 .. Len(page) :
                RankIn(page[i], Asked(q, c), q) = w.page * q.limit + i - 1
          /\ Len(page) <= q.limit
          /\ \A x \in Asked(q, c) :
                /\ w.page * q.limit <= RankIn(x, Asked(q, c), q)
                /\ RankIn(x, Asked(q, c), q) < w.page * q.limit + q.limit
                => \E i \in 1 .. Len(page) : page[i] = x
      <4>. DEFINE k == w.page
      <4>1. /\ q \in Queries /\ FromStart(q) /\ k \in Nat /\ q.limit # Undefined
            /\ k > 0 => (k - 1) * q.limit < Cardinality(Names)
        BY <1>1, <1>3, <2>2
      <4>. HIDE DEF k
      <4>2. page = Answer(q.kind, c.objects, c.bindings, [q EXCEPT !.page = k + 1])
        BY DEF k
      <4>. HIDE DEF page
      <4>3. WellNamed(c.objects)
        OBVIOUS
      <4>4. /\ page \in Seq(Asked(q, c)) /\ page # Panic
            /\ \A i \in 1 .. Len(page) : RankIn(page[i], Asked(q, c), q) = k * q.limit + i - 1
            /\ Len(page) <= q.limit
            /\ \A x \in Asked(q, c) :
                  k * q.limit <= RankIn(x, Asked(q, c), q)
                  /\ RankIn(x, Asked(q, c), q) < k * q.limit + q.limit
                  => \E i \in 1 .. Len(page) : page[i] = x
        BY ONLY <4>1, <4>2, <4>3, NextPage
      <4>. QED BY <4>4 DEF k
    <3>. HIDE DEF page
    <3>2. list = page
      BY DEF page
    <3>. QED BY <3>1, <3>2
  <2>4. \A x \in A : Read(w) <= RankIn(x, A, q) /\ RankIn(x, A, q) < Read(w) + q.limit
                     => x \in Range(list)
    BY <2>1, <2>3, RangeEquality
  <2>5. ASSUME list = <<>>, NEW x \in A, Read(w) <= RankIn(x, A, q)
        PROVE  FALSE
    <3>. DEFINE y == Sorted(A, q)[Read(w) + 1]
    <3>1. Read(w) + 1 \in 1 .. Cardinality(A)
      BY <1>1, <2>1, <2>5, RanksGrow, FewerThanNames
    <3>2. y \in A /\ RankIn(y, A, q) = Read(w)
      <4>1. RankIn(y, A, q) = (Read(w) + 1) - 1
        BY <1>1, <3>1, SortedByRank
      <4>2. y \in A
        BY <1>1, <3>1, SortedByRank, ElementOfSeq
      <4>. QED BY <2>1, <4>1, <4>2
    <3>. HIDE DEF y
    <3>3. y \in Range(list)
      BY <2>1, <2>4, <3>2
    <3>4. Range(list) = {}
      BY <2>5 DEF Range
    <3>. QED BY <3>3, <3>4
  <2>6. \A x \in A : RankIn(x, A, q) \in Nat
    BY <1>1, RanksGrow
  <2>7. list = <<>> => \A x \in A : RankIn(x, A, q) < Read(w)
    BY <2>1, <2>5, <2>6
  <2>8. \A i \in 1 .. Len(list) : RankIn(list[i], A, q) = Read(w) + i - 1
    BY <2>1, <2>3
  <2>. QED BY <1>3, <2>3, <2>4, <2>7, <2>8 DEF Follows
<1>. QED BY <1>2, <1>3

\* A page is read.
LEMMA ListKeeps ==
    ASSUME NEW w \in Walks, w.pc = "reading", NEW q, q = w.query,
           NEW A, WellNamed(A), Steady(w, A), NEW list, Follows(list, A, q, Read(w)),
           NEW v, v.query = q, v.got = w.got \o list, v.page = w.page + 1,
           v.pc = (IF q.limit = Undefined \/ list = <<>> THEN "done" ELSE "reading"),
           v.begun = w.begun, v.came = w.came, v.went = w.went
    PROVE  v.got \in Seq(Object) /\ Steady(v, A)
<1>. DEFINE R == Read(w)
            g == w.got
            both == g \o list
<1>1. WellNamed(A) /\ \A x \in A : RankIn(x, A, q) \in Nat
  BY RanksGrow
<1>2. /\ q \in Queries /\ w.page \in Nat /\ g \in Seq(Object) /\ R \in Nat
      /\ q.limit # Undefined => q.limit \in Nat /\ q.limit > 0 /\ R = w.page * q.limit
  BY ReadIsNumber DEF Walks, Read
<1>3. /\ list \in Seq(A)
      /\ q.limit # Undefined
         => /\ Len(list) <= q.limit
            /\ \A x \in A : R <= RankIn(x, A, q) /\ RankIn(x, A, q) < R + q.limit
                            => x \in Range(list)
      /\ q.limit = Undefined \/ list = <<>>
         => \A x \in A : x \in Range(list) \/ RankIn(x, A, q) < R
  BY DEF Follows
<1>4. list \in Seq(A) /\ \A i \in 1 .. Len(list) : RankIn(list[i], A, q) = R + i - 1
  BY DEF Follows
<1>5. /\ v.query = q /\ v.got = both /\ v.page = w.page + 1
      /\ v.pc = (IF q.limit = Undefined \/ list = <<>> THEN "done" ELSE "reading")
      /\ v.begun = w.begun /\ v.came = w.came /\ v.went = w.went
  OBVIOUS
<1>. HIDE DEF R, g
<1>6. /\ both \in Seq(Object)
      /\ Range(both) = Range(g) \cup Range(list)
      /\ Range(list) \subseteq A
      /\ \A x \in Range(list) : R <= RankIn(x, A, q) /\ RankIn(x, A, q) < R + Len(list)
      /\ /\ \A i, j \in DOMAIN g : g[i] = g[j] => i = j
         /\ \A x \in Range(g) \cap A : RankIn(x, A, q) < R
         => \A i, j \in DOMAIN both : both[i] = both[j] => i = j
      /\ /\ \A i, j \in DOMAIN g : i < j => InOrder(q, g[i], g[j])
         /\ \A x \in Range(g) : x \in A /\ RankIn(x, A, q) < R
         => \A i, j \in DOMAIN both : i < j => InOrder(q, both[i], both[j])
  BY <1>1, <1>2, <1>4, Joined
<1>7. ~w.came => /\ A \subseteq w.begun /\ Range(g) \subseteq w.begun
                 /\ \A i, j \in DOMAIN g : g[i] = g[j] => i = j
                 /\ \A x \in Range(g) \cap A : RankIn(x, A, q) < R
  BY DEF Steady, Lasting, Behind, Walking, R, g
<1>8. ~w.went => /\ w.begun \subseteq A
                 /\ \A x \in w.begun \ Range(g) : RankIn(x, A, q) >= R
  BY DEF Steady, Lasting, Unread, Walking, R, g
<1>9. ~w.came /\ ~w.went => \A i, j \in DOMAIN g : i < j => InOrder(q, g[i], g[j])
  BY DEF Steady, Ordered, Walking, g
<1>10. Len(list) \in Nat
  BY <1>3, LenProperties
<1>. HIDE DEF both
<1>11. ASSUME v.pc = "reading"
       PROVE  /\ q.limit \in Nat /\ q.limit > 0 /\ q.limit # Undefined /\ list # <<>>
              /\ Read(v) = R + q.limit
              /\ \A x \in Range(list) : RankIn(x, A, q) < R + q.limit
  <2>1. q.limit # Undefined /\ list # <<>>
    BY <1>5, <1>11
  <2>2. q.limit \in Nat /\ q.limit > 0 /\ R = w.page * q.limit /\ Len(list) <= q.limit
    BY <1>2, <1>3, <2>1
  <2>3. Read(v) = (w.page + 1) * q.limit
    BY <1>5, <2>1 DEF Read
  <2>4. Read(v) = R + q.limit
    BY <1>2, <2>2, <2>3, Products
  <2>5. \A x \in Range(list) : RankIn(x, A, q) < R + q.limit
    <3>1. ASSUME NEW x \in Range(list)
          PROVE  RankIn(x, A, q) < R + q.limit
      <4>1. RankIn(x, A, q) \in Nat /\ RankIn(x, A, q) < R + Len(list)
        BY <1>1, <1>6
      <4>. QED BY <1>2, <1>10, <2>2, <4>1
    <3>. QED BY <3>1
  <2>. QED BY <2>1, <2>2, <2>4, <2>5
<1>12. Within(v)
  <2>1. ASSUME v.pc = "reading"
        PROVE  q.limit # Undefined /\ (v.page - 1) * q.limit < Cardinality(Names)
    <3>1. list[1] \in A /\ RankIn(list[1], A, q) = R
      <4>1. 1 \in 1 .. Len(list)
        BY <1>3, <1>10, <1>11, <2>1, EmptySeq
      <4>2. list[1] \in A
        BY <1>3, <4>1, ElementOfSeq
      <4>3. RankIn(list[1], A, q) = R + 1 - 1
        BY <1>4, <4>1
      <4>. QED BY <1>2, <4>2, <4>3
    <3>2. R < Cardinality(A) /\ Cardinality(A) <= Cardinality(Names) /\ Cardinality(A) \in Nat
      BY <1>1, <3>1, RanksGrow, FewerThanNames
    <3>3. Cardinality(Names) \in Nat
      BY NamesAssumption, FS_CardinalityType
    <3>4. (v.page - 1) * q.limit = R
      BY <1>2, <1>5, <1>11, <2>1
    <3>. QED BY <1>2, <1>11, <2>1, <3>2, <3>3, <3>4
  <2>. QED BY <1>5, <2>1 DEF Within
<1>13. Lasting(v, A)
  BY <1>6, <1>5, <1>7, <1>8 DEF Lasting
<1>14. Behind(v, A)
  <2>1. ~v.came => \A i, j \in DOMAIN v.got : v.got[i] = v.got[j] => i = j
    BY <1>6, <1>5, <1>7
  <2>2. ASSUME v.pc = "reading", ~v.came, NEW x \in Range(v.got) \cap A
        PROVE  RankIn(x, A, v.query) < Read(v)
    <3>1. x \in Range(g) \/ x \in Range(list)
      BY <1>6, <1>5, <2>2
    <3>2. x \in Range(g) => RankIn(x, A, q) < R
      BY <1>5, <1>7, <2>2
    <3>3. RankIn(x, A, q) < R + q.limit
      BY <1>1, <1>2, <1>11, <2>2, <3>1, <3>2
    <3>. QED BY <1>5, <1>11, <2>2, <3>3
  <2>. QED BY <2>1, <2>2 DEF Behind
<1>15. Unread(v, A)
  <2>1. ASSUME v.pc = "reading", ~v.went, NEW x \in v.begun \ Range(v.got)
        PROVE  RankIn(x, A, v.query) >= Read(v)
    <3>1. x \in A /\ RankIn(x, A, q) >= R /\ x \notin Range(list)
      BY <1>6, <1>5, <1>8, <2>1
    <3>2. ~(RankIn(x, A, q) < R + q.limit)
      BY <1>3, <1>11, <2>1, <3>1
    <3>3. RankIn(x, A, q) >= R + q.limit
      BY <1>1, <1>2, <1>11, <2>1, <3>1, <3>2
    <3>. QED BY <1>5, <1>11, <2>1, <3>3
  <2>2. ASSUME v.pc = "done", ~v.went, NEW x \in v.begun
        PROVE  x \in Range(v.got)
    <3>1. x \in A /\ (x \in Range(g) \/ RankIn(x, A, q) >= R)
      BY <1>5, <1>8, <2>2
    <3>2. x \in Range(list) \/ RankIn(x, A, q) < R
      BY <1>3, <1>5, <2>2, <3>1
    <3>3. RankIn(x, A, q) \in Nat
      BY <1>1, <3>1
    <3>4. x \in Range(g) \/ x \in Range(list)
      BY <1>2, <3>1, <3>2, <3>3
    <3>. QED BY <1>6, <1>5, <3>4
  <2>. QED BY <2>1, <2>2 DEF Unread
<1>16. Ordered(v)
  <2>1. ASSUME ~v.came, ~v.went
        PROVE  \A i, j \in DOMAIN v.got : i < j => InOrder(q, v.got[i], v.got[j])
    <3>1. \A x \in Range(g) : x \in A /\ RankIn(x, A, q) < R
      BY <1>5, <1>7, <1>8, <2>1
    <3>2. \A i, j \in DOMAIN g : i < j => InOrder(q, g[i], g[j])
      BY <1>5, <1>9, <2>1
    <3>. QED BY <1>6, <1>5, <3>1, <3>2
  <2>. QED BY <1>5, <2>1 DEF Ordered
<1>. QED BY <1>6, <1>5, <1>12, <1>13, <1>14, <1>15, <1>16 DEF Steady

-----------------------------------------------------------------------------
(* The invariant.                                                          *)

\* The invariant holds in the beginning.
LEMMA InitHolds == Init => IInv
<1>. SUFFICES ASSUME Init
              PROVE  IInv
  OBVIOUS
<1>1. /\ stored = {} /\ cached.objects = {}
      /\ walk \in [query: Queries, got: {<<>>}, page: {0}, pc: {"idle"}, begun: {{}},
                   came: {FALSE}, went: {FALSE}]
  BY DEF Init
<1>2. /\ walk \in Clients /\ walk.pc = "idle" /\ walk.got = <<>> /\ walk.page = 0
      /\ FromStart(walk.query) => walk \in Walks
  <2>1. /\ walk.query \in Queries /\ walk.got = <<>> /\ walk.page = 0 /\ walk.pc = "idle"
        /\ walk.begun = {} /\ walk.came = FALSE /\ walk.went = FALSE
        /\ walk = [query |-> walk.query, got |-> walk.got, page |-> walk.page, pc |-> walk.pc,
                   begun |-> walk.begun, came |-> walk.came, went |-> walk.went]
    BY <1>1
  <2>2. walk.got \in Seq(Object) /\ walk.page \in Nat
    BY <2>1, EmptySeq
  <2>. QED BY <2>1, <2>2 DEF Walks, Clients
<1>3. WellNamed(stored) /\ WellNamed(cached.objects)
  BY <1>1 DEF WellNamed
<1>4. Steady(walk, Asked(walk.query, cached))
  BY <1>2 DEF Steady, Within, Lasting, Behind, Unread, Ordered, Walking
<1>. QED BY <1>2, <1>3, <1>4 DEF IInv, Typed, ReadsOn, ReadsOnce, PanicsOnlyOnOverflow

\* Objects come with a name that is free.
LEMMA CreateKeeps ==
    ASSUME NEW S, WellNamed(S), NEW name \in Names, NEW ns \in {"", "n1", "n2"},
           NEW time \in 1 .. MaxChanges, \A o \in S : o.name # name
    PROVE  WellNamed(S \cup {[name |-> name, time |-> time, ns |-> ns]})
<1>. DEFINE new == [name |-> name, time |-> time, ns |-> ns]
<1>1. new \in Object /\ new.name = name
  BY DEF Object
<1>. HIDE DEF new
<1>2. WellNamed(S \cup {new})
  BY <1>1 DEF WellNamed
<1>. QED BY <1>2 DEF new

\* Every step keeps the invariant of a client who reads on from the first page.
LEMMA ReaderKeeps ==
    ASSUME IInv, [Next]_vars, FromStart(walk.query)
    PROVE  IInv'
<1>1. /\ WellNamed(stored) /\ WellNamed(cached.objects) /\ walk \in Walks
      /\ Steady(walk, Asked(walk.query, cached))
  BY DEF IInv, Typed, ReadsOn
<1>2. WellNamed(Asked(walk.query, cached))
  BY <1>1, AskedIsCached
<1>0. ASSUME WellNamed(stored'), WellNamed(cached'.objects), walk' \in Walks,
             Steady(walk', Asked(walk'.query, cached'))
      PROVE  IInv'
  <2>1. walk' \in Clients /\ FromStart(walk'.query) /\ walk'.pc # "panicked"
    BY <1>0 DEF Walks, Clients
  <2>. QED BY <1>0, <2>1 DEF IInv, Typed, ReadsOn, ReadsOnce, PanicsOnlyOnOverflow
<1>3. ASSUME WellNamed(stored'), cached' = cached, walk' \in Walks, walk'.query = walk.query,
             Steady(walk', Asked(walk.query, cached))
      PROVE  IInv'
  <2>1. cached'.objects = cached.objects
    BY <1>3
  <2>2. Asked(walk'.query, cached') = Asked(walk.query, cached)
    BY <1>3
  <2>. QED BY <1>0, <1>1, <1>3, <2>1, <2>2
<1>4. ASSUME WellNamed(stored'), UNCHANGED <<cached, walk>>
      PROVE  IInv'
  BY <1>1, <1>3, <1>4
<1>5. ASSUME NEW name \in Names, NEW ns \in {"", "n1", "n2"}, Create(name, ns)
      PROVE  IInv'
  <2>1. PICK time \in 1 .. MaxChanges :
            stored' = stored \cup {[name |-> name, time |-> time, ns |-> ns]}
    BY <1>5 DEF Create
  <2>2. \A o \in stored : o.name # name
    BY <1>5 DEF Create
  <2>3. WellNamed(stored')
    BY <1>1, <2>1, <2>2, CreateKeeps
  <2>. QED BY <1>4, <1>5, <2>3 DEF Create
<1>6. ASSUME NEW o \in stored, Delete(o)
      PROVE  IInv'
  <2>1. stored' \subseteq stored /\ UNCHANGED <<cached, walk>>
    BY <1>6 DEF Delete
  <2>2. WellNamed(stored')
    BY <1>1, <2>1 DEF WellNamed
  <2>. QED BY <1>4, <2>1, <2>2
<1>7. ASSUME NEW b \in Bindings, Bind(b) \/ Unbind(b)
      PROVE  IInv'
  BY <1>1, <1>4, <1>7 DEF Bind, Unbind
<1>8. ASSUME Sync
      PROVE  IInv'
  <2>. DEFINE c == [objects |-> stored, bindings |-> bound]
              A == Asked(walk.query, cached)
              B == Asked(walk.query, c)
  <2>1. /\ cached' = c /\ stored' = stored
        /\ walk' = [walk EXCEPT !.came = @ \/ B \ A # {}, !.went = @ \/ A \ B # {}]
    BY <1>8 DEF Sync
  <2>2. c.objects = stored
    OBVIOUS
  <2>. HIDE DEF c
  <2>3. WellNamed(B)
    BY <1>1, <2>2, AskedIsCached
  <2>. HIDE DEF A, B
  <2>4. /\ walk' \in Walks
        /\ walk'.query = walk.query /\ walk'.got = walk.got /\ walk'.page = walk.page
        /\ walk'.pc = walk.pc /\ walk'.begun = walk.begun
        /\ walk'.came = (walk.came \/ B \ A # {}) /\ walk'.went = (walk.went \/ A \ B # {})
    BY <1>1, <2>1 DEF Walks
  <2>5. Steady(walk', B)
    BY <1>1, <1>2, <2>3, <2>4, SyncKeeps DEF A
  <2>6. Asked(walk'.query, cached') = B
    BY <2>1, <2>4 DEF B
  <2>7. WellNamed(stored') /\ WellNamed(cached'.objects)
    BY <1>1, <2>1, <2>2
  <2>. QED BY <1>0, <2>4, <2>5, <2>6, <2>7
<1>9. ASSUME Begin
      PROVE  IInv'
  <2>. DEFINE A == Asked(walk.query, cached)
  <2>1. /\ walk.pc = "idle" /\ UNCHANGED <<stored, cached>>
        /\ walk' = [walk EXCEPT !.pc = "reading", !.begun = A, !.came = FALSE, !.went = FALSE]
    BY <1>9 DEF Begin
  <2>2. walk'.query = walk.query
    BY <1>1, <2>1 DEF Walks
  <2>. HIDE DEF A
  <2>3. walk' \in Walks /\ Steady(walk', A)
    BY <1>1, <1>2, <2>1, BeginKeeps DEF A
  <2>. QED BY <1>1, <1>3, <2>1, <2>2, <2>3 DEF A
<1>10. ASSUME Refuse
       PROVE  IInv'
  <2>1. walk' = [walk EXCEPT !.pc = "refused"] /\ UNCHANGED <<stored, cached>>
    BY <1>10 DEF Refuse
  <2>2. walk'.query = walk.query
    BY <1>1, <2>1 DEF Walks
  <2>3. walk' \in Walks /\ Steady(walk', Asked(walk.query, cached))
    BY <1>1, <2>1, RefuseKeeps
  <2>. QED BY <1>1, <1>3, <2>1, <2>2, <2>3
<1>11. ASSUME ListPage
       PROVE  IInv'
  <2>. DEFINE q == walk.query
              A == Asked(q, cached)
              list == Answer(q.kind, cached.objects, cached.bindings,
                             [q EXCEPT !.page = walk.page + 1])
  <2>0. /\ PageAsked(walk) = walk.page + 1 /\ q.page = Undefined
        /\ q.limit \in {Undefined, NoLimit} <=> q.limit = Undefined
    <3>1. NoLimit \notin 1 .. Width - 1
      BY WidthAssumption DEF NoLimit
    <3>. QED BY <3>1 DEF PageAsked, FromStart
  <2>1. /\ walk.pc = "reading" /\ UNCHANGED <<stored, cached>>
        /\ walk' = IF list = Panic THEN [walk EXCEPT !.pc = "panicked"]
                   ELSE [walk EXCEPT !.got = @ \o list, !.page = @ + 1,
                                     !.pc = IF q.limit = Undefined \/ list = <<>>
                                            THEN "done" ELSE "reading"]
    BY <1>11, <2>0 DEF ListPage
  <2>2. list # Panic /\ Follows(list, A, q, Read(walk))
    BY <1>1, <2>1, ReadOn DEF Steady
  <2>. HIDE DEF list
  <2>3. /\ walk'.query = q /\ walk'.got = walk.got \o list /\ walk'.page = walk.page + 1
        /\ walk'.pc = (IF q.limit = Undefined \/ list = <<>> THEN "done" ELSE "reading")
        /\ walk'.begun = walk.begun /\ walk'.came = walk.came /\ walk'.went = walk.went
        /\ walk' = [query |-> walk'.query, got |-> walk'.got, page |-> walk'.page,
                    pc |-> walk'.pc, begun |-> walk'.begun, came |-> walk'.came,
                    went |-> walk'.went]
    BY <1>1, <2>1, <2>2 DEF Walks
  <2>4. walk'.got \in Seq(Object) /\ Steady(walk', A)
    <3>1. ASSUME NEW w, w = walk, NEW v, v = walk'
          PROVE  v.got \in Seq(Object) /\ Steady(v, A)
      <4>1. w \in Walks /\ w.pc = "reading" /\ Steady(w, A) /\ Follows(list, A, q, Read(w))
        BY <1>1, <2>1, <2>2, <3>1
      <4>2. /\ q = w.query
            /\ v.query = q /\ v.got = w.got \o list /\ v.page = w.page + 1
            /\ v.pc = (IF q.limit = Undefined \/ list = <<>> THEN "done" ELSE "reading")
            /\ v.begun = w.begun /\ v.came = w.came /\ v.went = w.went
        BY <2>3, <3>1
      <4>. HIDE DEF q, A
      <4>. QED BY <1>2, <4>1, <4>2, ListKeeps DEF A, q
    <3>. QED BY <3>1
  <2>5. walk' \in Walks
    <3>1. /\ walk'.query \in {x \in Queries : FromStart(x)} /\ walk'.page \in Nat /\ walk'.pc \in {"done", "reading"}
          /\ walk'.begun \subseteq Object /\ walk'.came \in BOOLEAN /\ walk'.went \in BOOLEAN
      BY <1>1, <2>3 DEF Walks
    <3>. QED BY <2>3, <2>4, <3>1 DEF Walks
  <2>. QED BY <1>1, <1>3, <2>1, <2>3, <2>4, <2>5
<1>12. CASE UNCHANGED vars
  BY <1>1, <1>4, <1>12 DEF vars
<1>. QED BY <1>5, <1>6, <1>7, <1>8, <1>9, <1>10, <1>11, <1>12 DEF Next

\* Every request is answered by a list, or its offset and limit overflow; a first page
\* of no length is empty.
LEMMA AnyAnswer ==
    ASSUME NEW q \in Queries, NEW c, WellNamed(c.objects), NEW page,
           NEW r, r = [q EXCEPT !.page = page],
           NEW list, list = Answer(q.kind, c.objects, c.bindings, r),
           NEW p, p = ParsePagination(q.limit, page)
    PROVE  /\ p.offset \in Int
           /\ \/ list \in Seq(Object) /\ list # Panic
              \/ list = Panic /\ p.limit > 0 /\ p.offset > 0 /\ p.offset + p.limit >= Width
           /\ p.offset = 0 /\ p.limit <= 0 /\ p.limit # NoLimit => list = <<>>
<1>. DEFINE A == Asked(q, c)
            L == Sorted(A, r)
            w == GetValidPagination(p, Len(L))
<1>1. /\ r.kind = q.kind /\ r.ns = q.ns /\ r.scope = q.scope /\ r.role = q.role
      /\ r.filters = q.filters /\ r.limit = q.limit /\ r.page = page
  BY QueriesAssumption
<1>2. WellNamed(A) /\ Seq(A) \subseteq Seq(Object)
  <2>1. WellNamed(A)
    BY AskedIsCached
  <2>2. \A x \in Seq(A) : x \in Seq(Object)
    BY <2>1, SeqMonotonic DEF WellNamed
  <2>. QED BY <2>1, <2>2
<1>3. L \in Seq(A) /\ Len(L) = Cardinality(A)
  BY <1>2, SortedByRank
<1>4. Len(L) \in Nat /\ Len(L) \in Ints
  <2>1. /\ Len(L) \in Nat /\ Len(L) <= Cardinality(Names)
        /\ Cardinality(Names) \in Nat /\ 2 * Cardinality(Names) < Width
    BY <1>2, <1>3, FewerThanNames, NamesAssumption, FS_CardinalityType
  <2>. QED BY <2>1, WidthAssumption DEF Ints
<1>5. /\ p.limit \in Int /\ p.offset \in Int /\ w.start \in Int /\ w.end \in Int
      /\ ~IsSlice(w, Len(L)) <=> /\ p.limit > 0 /\ p.offset > 0 /\ p.offset <= Len(L)
                                /\ p.offset + p.limit >= Width
  BY <1>4, ValidSlice, WidthAssumption DEF Ints
<1>6. Page(L, r) = IF IsSlice(w, Len(L)) THEN SubSeq(L, w.start + 1, w.end) ELSE Panic
  BY <1>1 DEF Page
<1>7. list = WithListAndFilter(Page(L, r), r)
  BY <1>1, ListIsPage DEF Answer
<1>8. ASSUME IsSlice(w, Len(L))
      PROVE  /\ list \in Seq(Object) /\ list # Panic
             /\ list = SubSeq(L, w.start + 1, w.end)
  <2>1. Page(L, r) = SubSeq(L, w.start + 1, w.end) /\ 0 <= w.start /\ w.end <= Len(L)
    BY <1>6, <1>8 DEF IsSlice
  <2>. HIDE DEF w, L
  <2>2. SubSeq(L, w.start + 1, w.end) \in Seq(A)
    <3>1. \A i \in w.start + 1 .. w.end : L[i] \in A
      BY <1>3, <1>4, <1>5, <2>1, ElementOfSeq
    <3>2. w.start + 1 \in Int
      BY <1>5
    <3>. QED BY <1>5, <3>1, <3>2, SubSeqProperties
  <2>3. Page(Sorted(Asked(q, c), r), r) \in Seq(Asked(q, c))
    BY <2>1, <2>2 DEF L
  <2>4. list = Page(L, r) /\ list # Panic
    BY <1>1, <2>3, AnswerIsPage DEF L
  <2>. QED BY <1>2, <2>1, <2>2, <2>4
<1>9. ASSUME ~IsSlice(w, Len(L))
      PROVE  list = Panic
  BY <1>6, <1>7, <1>9 DEF WithListAndFilter
<1>10. ASSUME p.offset = 0, p.limit <= 0, p.limit # NoLimit
       PROVE  list = <<>>
  <2>1. w.start = 0 /\ w.end = 0
    <3>1. p.limit < 0 => w = [start |-> 0, end |-> 0]
      BY <1>10 DEF GetValidPagination
    <3>2. p.limit = 0 => Wrap(p.offset + p.limit) = 0
      BY <1>10, WrapFits, WidthAssumption DEF Ints
    <3>3. p.limit = 0 => w = [start |-> 0, end |-> 0]
      BY <1>4, <1>10, <3>2 DEF GetValidPagination
    <3>. QED BY <1>5, <1>10, <3>1, <3>3
  <2>2. IsSlice(w, Len(L))
    BY <1>5, <1>10
  <2>3. list = SubSeq(L, 1, 0)
    BY <1>8, <2>1, <2>2
  <2>. QED BY <2>3, SubSeqEmpty
<1>. QED BY <1>5, <1>8, <1>9, <1>10

\* Every step keeps the invariant of any other client, who asks for one page.
LEMMA AskerKeeps ==
    ASSUME IInv, [Next]_vars, ~FromStart(walk.query)
    PROVE  IInv'
<1>1. /\ WellNamed(stored) /\ WellNamed(cached.objects) /\ walk \in Clients
      /\ walk.query \in Queries
      /\ walk.pc \in {"idle", "reading"} => walk.page = 0
      /\ PanicsOnlyOnOverflow
  BY DEF IInv, Typed, ReadsOnce, Clients
<1>2. ASSUME WellNamed(stored'), WellNamed(cached'.objects), walk' \in Clients,
             walk'.query = walk.query,
             walk'.pc \in {"idle", "reading"} => walk'.page = 0,
             PanicsOnlyOnOverflow'
      PROVE  IInv'
  <2>1. ~FromStart(walk'.query)
    BY <1>2
  <2>2. Typed'
    BY <1>2 DEF Typed
  <2>3. ReadsOn' /\ ReadsOnce'
    BY <1>2, <2>1 DEF ReadsOn, ReadsOnce
  <2>. QED BY <1>2, <2>2, <2>3 DEF IInv
<1>3. ASSUME WellNamed(stored'), UNCHANGED <<cached, walk>>
      PROVE  IInv'
  BY <1>1, <1>2, <1>3 DEF PanicsOnlyOnOverflow
<1>4. ASSUME NEW name \in Names, NEW ns \in {"", "n1", "n2"}, Create(name, ns)
      PROVE  IInv'
  <2>1. PICK time \in 1 .. MaxChanges :
            stored' = stored \cup {[name |-> name, time |-> time, ns |-> ns]}
    BY <1>4 DEF Create
  <2>2. \A o \in stored : o.name # name
    BY <1>4 DEF Create
  <2>3. WellNamed(stored')
    BY <1>1, <2>1, <2>2, CreateKeeps
  <2>. QED BY <1>3, <1>4, <2>3 DEF Create
<1>5. ASSUME NEW o \in stored, Delete(o)
      PROVE  IInv'
  <2>1. stored' \subseteq stored /\ UNCHANGED <<cached, walk>>
    BY <1>5 DEF Delete
  <2>2. WellNamed(stored')
    BY <1>1, <2>1 DEF WellNamed
  <2>. QED BY <1>3, <2>1, <2>2
<1>6. ASSUME NEW b \in Bindings, Bind(b) \/ Unbind(b)
      PROVE  IInv'
  BY <1>1, <1>3, <1>6 DEF Bind, Unbind
<1>7. ASSUME Sync
      PROVE  IInv'
  <2>. DEFINE c == [objects |-> stored, bindings |-> bound]
              B == Asked(walk.query, c) \ Asked(walk.query, cached) # {}
              D == Asked(walk.query, cached) \ Asked(walk.query, c) # {}
  <2>1. /\ cached' = c /\ stored' = stored /\ c.objects = stored
        /\ walk' = [walk EXCEPT !.came = @ \/ B, !.went = @ \/ D]
    BY <1>7 DEF Sync
  <2>. HIDE DEF B, D, c
  <2>2. /\ walk' \in Clients /\ walk'.query = walk.query /\ walk'.page = walk.page
        /\ walk'.pc = walk.pc
    BY <1>1, <2>1 DEF Clients
  <2>. QED BY <1>1, <1>2, <2>1, <2>2 DEF PanicsOnlyOnOverflow
<1>8. ASSUME Begin
      PROVE  IInv'
  <2>. DEFINE A == Asked(walk.query, cached)
  <2>1. WellNamed(A)
    BY <1>1, AskedIsCached
  <2>2. /\ walk.pc = "idle" /\ UNCHANGED <<stored, cached>>
        /\ walk' = [walk EXCEPT !.pc = "reading", !.begun = A, !.came = FALSE, !.went = FALSE]
    BY <1>8 DEF Begin
  <2>. HIDE DEF A
  <2>3. /\ walk' \in Clients /\ walk'.query = walk.query /\ walk'.page = walk.page
        /\ walk'.pc = "reading"
    BY <1>1, <2>1, <2>2 DEF Clients, WellNamed
  <2>. QED BY <1>1, <1>2, <2>2, <2>3 DEF PanicsOnlyOnOverflow
<1>9. ASSUME Refuse
      PROVE  IInv'
  <2>1. walk' = [walk EXCEPT !.pc = "refused"] /\ UNCHANGED <<stored, cached>>
    BY <1>9 DEF Refuse
  <2>2. walk' \in Clients /\ walk'.query = walk.query /\ walk'.pc = "refused"
    BY <1>1, <2>1 DEF Clients
  <2>. QED BY <1>1, <1>2, <2>1, <2>2 DEF PanicsOnlyOnOverflow
<1>10. ASSUME ListPage
       PROVE  IInv'
  <2>. DEFINE q == walk.query
              r == [q EXCEPT !.page = PageAsked(walk)]
              list == Answer(q.kind, cached.objects, cached.bindings, r)
              p == ParsePagination(q.limit, PageAsked(walk))
              last == q.page # Undefined \/ q.limit \in {Undefined, NoLimit} \/ list = <<>>
  <2>1. /\ walk.pc = "reading" /\ UNCHANGED <<stored, cached>>
        /\ walk' = IF list = Panic THEN [walk EXCEPT !.pc = "panicked"]
                   ELSE [walk EXCEPT !.got = @ \o list, !.page = @ + 1,
                                     !.pc = IF last THEN "done" ELSE "reading"]
    BY <1>10 DEF ListPage
  <2>. DEFINE a == PageAsked(walk)
  <2>2. /\ p.offset \in Int
        /\ \/ list \in Seq(Object) /\ list # Panic
           \/ list = Panic /\ p.limit > 0 /\ p.offset > 0 /\ p.offset + p.limit >= Width
        /\ p.offset = 0 /\ p.limit <= 0 /\ p.limit # NoLimit => list = <<>>
    <3>1. q \in Queries /\ WellNamed(cached.objects) /\ r = [q EXCEPT !.page = a]
      BY <1>1
    <3>. HIDE DEF q, a, r
    <3>2. ASSUME NEW c, c = cached, WellNamed(c.objects)
          PROVE  LET x == Answer(q.kind, c.objects, c.bindings, r)
                     y == ParsePagination(q.limit, a)
                 IN  /\ y.offset \in Int
                     /\ \/ x \in Seq(Object) /\ x # Panic
                        \/ x = Panic /\ y.limit > 0 /\ y.offset > 0 /\ y.offset + y.limit >= Width
                     /\ y.offset = 0 /\ y.limit <= 0 /\ y.limit # NoLimit => x = <<>>
      BY <3>1, <3>2, AnyAnswer
    <3>. QED BY <3>1, <3>2 DEF a
  <2>3. q.page # Undefined => a = q.page
    BY DEF PageAsked
  <2>4. ASSUME q.page = Undefined
        PROVE  last /\ p.offset = 0
    <3>1. a = 1 /\ a \in Ints /\ a - 1 = 0 /\ 0 \in Ints
      BY <1>1, <2>1, <2>4, WidthAssumption DEF PageAsked, Ints
    <3>2. Wrap(a - 1) = 0 /\ Wrap(0) = 0
      BY <3>1, WrapFits
    <3>. HIDE DEF a
    <3>3. \A l \in Int : Wrap(Wrap(a - 1) * l) = 0
      BY <3>2
    <3>4. p.offset = 0 /\ p.limit = IF q.limit \in Ints THEN q.limit ELSE NoLimit
      BY <3>1, <3>3, WidthAssumption DEF ParsePagination, Ints, NoLimit, a
    <3>5. q.limit \in Ints \cup {Undefined} /\ ~(q.limit = Undefined \/ q.limit \in 1 .. Width - 1)
      BY <1>1, <2>4, QueriesAssumption DEF FromStart
    <3>6. q.limit \in Ints /\ q.limit <= 0
      BY <3>5, WidthAssumption DEF Ints
    <3>7. last
      BY <2>2, <3>4, <3>6
    <3>. QED BY <3>4, <3>7
  <2>. HIDE DEF list, p, last, r
  <2>5. CASE list = Panic
    <3>1. walk' = [walk EXCEPT !.pc = "panicked"]
      BY <2>1, <2>5
    <3>2. walk' \in Clients /\ walk'.query = walk.query /\ walk'.pc = "panicked"
      BY <1>1, <3>1 DEF Clients
    <3>3. q.page # Undefined /\ p.limit > 0 /\ p.offset > 0 /\ p.offset + p.limit >= Width
      <4>1. <<>> # Panic
        BY PanicAssumption, EmptySeq
      <4>. QED BY <2>2, <2>4, <2>5, <4>1
    <3>4. p = ParsePagination(walk'.query.limit, walk'.query.page)
      BY <2>3, <3>2, <3>3 DEF p
    <3>5. PanicsOnlyOnOverflow'
      BY <3>2, <3>3, <3>4 DEF PanicsOnlyOnOverflow
    <3>. QED BY <1>1, <1>2, <2>1, <3>2, <3>5
  <2>6. CASE list # Panic
    <3>1. last
      BY <2>4 DEF last
    <3>2. walk' = [walk EXCEPT !.got = @ \o list, !.page = @ + 1, !.pc = "done"]
      BY <2>1, <2>6, <3>1
    <3>3. list \in Seq(Object) /\ walk.got \in Seq(Object)
      BY <1>1, <2>2, <2>6 DEF Clients
    <3>4. walk.got \o list \in Seq(Object)
      BY <3>3, ConcatProperties
    <3>5. walk' \in Clients /\ walk'.query = walk.query /\ walk'.pc = "done"
      <4>. DEFINE got == walk.got \o list
      <4>1. got \in Seq(Object) /\ walk.page + 1 \in Nat
        BY <1>1, <3>4 DEF Clients
      <4>2. walk' = [walk EXCEPT !.got = got, !.page = walk.page + 1, !.pc = "done"]
        BY <3>2
      <4>. HIDE DEF got
      <4>. QED BY <1>1, <4>1, <4>2 DEF Clients
    <3>. QED BY <1>1, <1>2, <2>1, <3>5 DEF PanicsOnlyOnOverflow
  <2>. QED BY <2>5, <2>6
<1>11. CASE UNCHANGED vars
  BY <1>1, <1>3, <1>11 DEF vars
<1>. QED BY <1>4, <1>5, <1>6, <1>7, <1>8, <1>9, <1>10, <1>11 DEF Next

\* Every step keeps the invariant.
LEMMA NextKeeps == IInv /\ [Next]_vars => IInv'
BY ReaderKeeps, AskerKeeps

\* The invariant holds always.
LEMMA Invariant == Spec => []IInv
BY InitHolds, NextKeeps, PTL DEF Spec

-----------------------------------------------------------------------------
(* What the client is shown.                                               *)

\* A request makes the handler panic only if it names the page itself, and offset and
\* limit overflow when they are added.
THEOREM PanicsAlwaysOverflow == Spec => []PanicsOnlyOnOverflow
<1>1. IInv => PanicsOnlyOnOverflow
  BY DEF IInv
<1>. QED BY <1>1, Invariant, PTL

\* The pages that a client read while nothing came or went are the whole list, each
\* object once and in the order asked for.
THEOREM PagesAlwaysPartition == Spec => []PagesPartition
<1>1. IInv => PagesPartition
  <2>. SUFFICES ASSUME IInv, Done, ~walk.came, ~walk.went
                PROVE  /\ Range(walk.got) = walk.begun
                       /\ \A i, j \in DOMAIN walk.got :
                             i < j => InOrder(walk.query, walk.got[i], walk.got[j])
    BY DEF PagesPartition
  <2>1. Range(walk.got) \subseteq walk.begun
    BY DEF IInv, ReadsOn, Steady, Lasting, Walking, Done
  <2>2. walk.begun \subseteq Range(walk.got)
    BY DEF IInv, ReadsOn, Steady, Unread, Done
  <2>3. \A i, j \in DOMAIN walk.got :
            i < j => InOrder(walk.query, walk.got[i], walk.got[j])
    BY DEF IInv, ReadsOn, Steady, Ordered, Walking, Done
  <2>. QED BY <2>1, <2>2, <2>3
<1>. QED BY <1>1, Invariant, PTL

\* While nothing goes, the pages miss nothing that was there when the client began,
\* however much comes and moves the bounds.
THEOREM NothingEverSkipped == Spec => []NothingSkipped
<1>1. IInv => NothingSkipped
  BY DEF IInv, ReadsOn, Steady, Unread, Done, NothingSkipped
<1>. QED BY <1>1, Invariant, PTL

\* While nothing comes, the pages show nothing twice, however much goes and moves the
\* bounds.
THEOREM NothingEverTwice == Spec => []NothingTwice
<1>1. IInv => NothingTwice
  BY DEF IInv, ReadsOn, Steady, Behind, Walking, Done, NothingTwice
<1>. QED BY <1>1, Invariant, PTL

\* The member of a name is found if one of that name is among the members.
LEMMA MemberFound ==
    ASSUME NEW q \in Queries, NEW c, c = cached, WellNamed(c.objects), q.kind = "users",
           q.scope = "namespace", q.role = "", q.filters = {}, NEW name \in Names
    PROVE  DescribeNamespaceMember(name, [q EXCEPT !.page = Undefined, !.limit = Undefined]) # {}
           <=> \E o \in Asked(q, c) : o.name = name
<1>. DEFINE r == [[q EXCEPT !.page = Undefined, !.limit = Undefined]
                    EXCEPT !.filters = {[field |-> "names", value |-> {name}]}]
            S == BoundUsers(c.objects, c.bindings, "namespace", "")
            M == Matching({"email"}, S, r.filters)
            found == Users(c.objects, c.bindings, r)
<1>1. /\ r.scope = "namespace" /\ r.role = "" /\ r.limit = Undefined
      /\ r.filters = {[field |-> "names", value |-> {name}]}
  BY QueriesAssumption
<1>2. Asked(q, c) = S
  BY DEF Asked, Matching
<1>3. S \subseteq c.objects
  BY DEF BoundUsers
<1>4. M = {o \in S : o.name = name}
  <2>. DEFINE f == [field |-> "names", value |-> {name}]
  <2>1. \A o \in S : Filter({"email"}, o, f) <=> o.name = name
    BY DEF Filter, DefaultObjectMetaFilter, MetaFields
  <2>. HIDE DEF f
  <2>2. r.filters = {f}
    BY <1>1 DEF f
  <2>. HIDE DEF r
  <2>3. M = {o \in S : Filter({"email"}, o, f)}
    BY <2>2 DEF Matching
  <2>. QED BY <2>1, <2>3
<1>5. WellNamed(M)
  BY <1>3, <1>4 DEF WellNamed
<1>6. found = Page(Sorted(M, r), r)
  BY <1>1 DEF Users, DefaultList
<1>. HIDE DEF r, S, M, found
<1>7. found = Sorted(M, r)
  BY <1>1, <1>5, <1>6, PageOfAll
<1>8. Len(found) = Cardinality(M) /\ found \in Seq(M)
  BY <1>5, <1>7, SortedByRank
<1>9. IsFiniteSet(M)
  BY <1>5, FewerThanNames
<1>10. found = <<>> <=> M = {}
  <2>1. found = <<>> <=> Len(found) = 0
    BY <1>8, EmptySeq
  <2>2. Cardinality(M) = 0 <=> M = {}
    BY <1>9, FS_EmptySet
  <2>. QED BY <1>8, <2>1, <2>2
<1>11. DescribeNamespaceMember(name, [q EXCEPT !.page = Undefined, !.limit = Undefined])
         = IF found = <<>> THEN {} ELSE {Head(found)}
  BY DEF DescribeNamespaceMember, found, r
<1>. QED BY <1>2, <1>4, <1>10, <1>11 DEF M

\* Who is shown among the members of a namespace is found as one, and nobody else.
THEOREM AlwaysDescribedAsListed == Spec => []DescribedAsListed
<1>1. IInv => DescribedAsListed
  <2>. DEFINE q == walk.query
  <2>. SUFFICES ASSUME IInv, Done, q.kind = "users", q.scope = "namespace", q.role = "",
                       q.filters = {}, ~walk.came, ~walk.went, NEW name \in Names
                PROVE  DescribeNamespaceMember(name, [q EXCEPT !.page = Undefined,
                                                               !.limit = Undefined]) # {}
                       <=> \E o \in Range(walk.got) : o.name = name
    BY DEF DescribedAsListed
  <2>1. q \in Queries /\ WellNamed(cached.objects)
    BY DEF IInv, Typed, Clients
  <2>2. Range(walk.got) = Asked(q, cached)
    BY DEF IInv, ReadsOn, Steady, Lasting, Unread, Walking, Done
  <2>3. DescribeNamespaceMember(name, [q EXCEPT !.page = Undefined, !.limit = Undefined]) # {}
        <=> \E o \in Asked(q, cached) : o.name = name
    BY <2>1, MemberFound
  <2>. QED BY <2>2, <2>3
<1>. QED BY <1>1, Invariant, PTL

=============================================================================
