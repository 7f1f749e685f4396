------------------------- MODULE SpaceAllocatorProofs -------------------------
(***************************************************************************)
(* Lemmas about the tables: arithmetic of addresses, enumeration of a      *)
(* finite set by rank, and what is left of a table after a removal or a    *)
(* sort; and about the allocator: a new LOAD segment lies behind           *)
(* everything that is in the tables, a gap the walk accepts is free of     *)
(* sections, and in a linked layout it is in the LOAD segment that gives   *)
(* it an address.                                                          *)
(***************************************************************************)
EXTENDS SpaceAllocator, FunctionTheorems, FiniteSetTheorems, TLAPS

(***************************************************************************)
(* Arithmetic.                                                             *)
(***************************************************************************)

\* The next multiple of an alignment is a multiple and lies less than one
\* alignment ahead.
LEMMA NextMultipleProperties ==
  ASSUME NEW x \in Nat, NEW align \in Nat
  PROVE  /\ Padding(x, align) \in Nat
         /\ NextMultiple(x, align) \in Nat
         /\ NextMultiple(x, align) >= x
         /\ align # 0 => NextMultiple(x, align) % align = 0
<1>1. CASE align = 0
  BY <1>1 DEF NextMultiple, Padding
<1>2. CASE align # 0 /\ x % align = 0
  BY <1>2 DEF NextMultiple, Padding
<1>3. CASE align # 0 /\ x % align # 0
  <2> DEFINE q == x \div align
  <2>1. q \in Nat /\ x = align * q + (x % align) /\ x % align \in 0 .. align - 1
    BY <1>3
  <2>2. NextMultiple(x, align) = align * q + align
    BY <1>3, <2>1 DEF NextMultiple, Padding
  <2>3. NextMultiple(x, align) = align * (q + 1)
    BY <2>1, <2>2
  <2>4. (align * (q + 1)) % align = 0
    BY <1>3, <2>1
  <2> QED
    BY <1>3, <2>1, <2>3, <2>4 DEF NextMultiple, Padding
<1> QED
  BY <1>1, <1>2, <1>3

\* Rounding to pages: align_down and align_up only widen a range, and leave a
\* multiple of the page size alone.
LEMMA PageProperties ==
  ASSUME NEW x \in Nat
  PROVE  /\ AlignDown(x) \in Nat /\ AlignDown(x) <= x
         /\ AlignUp(x) \in Word
         /\ x \in Word => x <= AlignUp(x)
         /\ x % PageSize = 0 => AlignDown(x) = x
<1>1. MaxWord \in Nat
  BY MaxWordAssumption
<1>2. x % PageSize \in Nat /\ x % PageSize <= x
  BY <1>1, PageSizeAssumption
<1>3. AlignDown(x) \in Nat /\ AlignDown(x) <= x
  BY <1>1, <1>2 DEF AlignDown
<1>4. NextMultiple(x, PageSize) \in Nat /\ NextMultiple(x, PageSize) >= x
  BY <1>1, PageSizeAssumption, NextMultipleProperties
<1>5. AlignUp(x) \in Word /\ (x \in Word => x <= AlignUp(x))
  BY <1>1, <1>4 DEF AlignUp, Word
<1> QED
  BY <1>1, <1>3, <1>5 DEF AlignDown

\* Products grow with a factor.
LEMMA ProductsGrow ==
  ASSUME NEW p \in Nat, NEW a \in Nat, NEW b \in Nat, a <= b
  PROVE  p * a <= p * b /\ p * a \in Nat /\ p * b \in Nat
<1>1. PICK d \in Nat : b = a + d
  <2>1. b - a \in Nat /\ b = a + (b - a)
    OBVIOUS
  <2> QED
    BY <2>1
<1>2. p * b = p * a + p * d
  BY <1>1
<1>3. p * d \in Nat /\ p * a \in Nat
  OBVIOUS
<1> QED
  BY <1>2, <1>3

\* Rounding up keeps the order.
LEMMA RoundingMonotone ==
  ASSUME NEW x \in Nat, NEW y \in Nat, x <= y, NEW p \in Nat \ {0}
  PROVE  NextMultiple(x, p) <= NextMultiple(y, p)
<1> DEFINE X == NextMultiple(x, p)
           Y == NextMultiple(y, p)
<1>1. /\ X \in Nat /\ X >= x /\ X % p = 0
      /\ Y \in Nat /\ Y >= y /\ Y % p = 0
  BY NextMultipleProperties
<1>2. X < x + p
  <2>1. x % p \in 0 .. (p - 1)
    OBVIOUS
  <2>2. CASE x % p = 0
    BY <2>2 DEF NextMultiple, Padding
  <2>3. CASE x % p # 0
    <3>1. X = x + (p - (x % p))
      BY <2>3 DEF NextMultiple, Padding
    <3>2. x % p > 0
      BY <2>1, <2>3
    <3> QED
      BY <2>1, <3>1, <3>2
  <2> QED
    BY <2>2, <2>3
<1> HIDE DEF X, Y
<1>3. ASSUME NEW z \in Nat, z % p = 0
      PROVE  \E q \in Nat : z = p * q
  <2>1. z = p * (z \div p) + (z % p) /\ z \div p \in Nat
    OBVIOUS
  <2>2. p * (z \div p) \in Nat
    BY <2>1
  <2>3. z = p * (z \div p)
    BY ONLY <1>3, <2>1, <2>2
  <2> QED
    BY ONLY <2>1, <2>3, Zenon
<1>4. PICK m \in Nat : X = p * m
  BY <1>1, <1>3
<1>5. PICK n \in Nat : Y = p * n
  BY <1>1, <1>3
<1>6. SUFFICES ASSUME Y < X PROVE FALSE
  BY <1>1 DEF X, Y
<1>7. n < m
  <2> SUFFICES ASSUME m <= n PROVE FALSE
    OBVIOUS
  <2>1. p * m <= p * n
    BY ProductsGrow
  <2> QED
    BY ONLY <1>1, <1>4, <1>5, <1>6, <2>1
<1>8. m - 1 \in Nat /\ n <= m - 1
  BY <1>7
<1>9. p * n <= p * (m - 1)
  BY <1>8, ProductsGrow
<1>10. p * (m - 1) = p * m - p
  OBVIOUS
<1>11. Y <= X - p
  BY ONLY <1>4, <1>5, <1>9, <1>10
<1> QED
  BY <1>1, <1>2, <1>11

\* align_up keeps the order.
LEMMA AlignUpMonotone ==
  ASSUME NEW x \in Nat, NEW y \in Nat, x <= y
  PROVE  AlignUp(x) <= AlignUp(y)
<1>1. PageSize \in Nat \ {0} /\ MaxWord \in Nat
  BY PageSizeAssumption, MaxWordAssumption
<1>2. NextMultiple(x, PageSize) <= NextMultiple(y, PageSize)
  BY <1>1, RoundingMonotone
<1>3. NextMultiple(x, PageSize) \in Nat /\ NextMultiple(y, PageSize) \in Nat
  BY <1>1, NextMultipleProperties
<1> QED
  BY <1>1, <1>2, <1>3 DEF AlignUp

\* A number that fits in a word is what is left of it modulo a word.
LEMMA WordWraps ==
  ASSUME NEW x \in Nat, NEW m \in Nat \ {0}, x < m
  PROVE  (x + m) % m = x
  OBVIOUS

\* A multiple of a multiple is one.
LEMMA MultipleOfMultiple ==
  ASSUME NEW x \in Nat, NEW p \in Nat \ {0}, NEW a \in Nat \ {0},
         x % p = 0, p % a = 0
  PROVE  x % a = 0
<1>1. PICK q \in Nat : x = p * q
  <2>1. x = p * (x \div p) + (x % p) /\ x \div p \in Nat
    OBVIOUS
  <2> QED
    BY <2>1
<1>2. PICK k \in Nat : p = a * k
  <2>1. p = a * (p \div a) + (p % a) /\ p \div a \in Nat
    OBVIOUS
  <2>2. a * (p \div a) \in Nat
    BY <2>1
  <2>3. p = a * (p \div a)
    BY <2>1, <2>2
  <2> QED
    BY <2>1, <2>3
<1>3. x = a * (k * q) /\ k * q \in Nat
  BY <1>1, <1>2
<1>4. \A z \in Nat : (a * z) % a = 0
  OBVIOUS
<1> QED
  BY <1>3, <1>4

(***************************************************************************)
(* Enumeration by rank.                                                    *)
(***************************************************************************)

IsTotalOrder(S, R) ==
  /\ \A x \in S : <<x, x>> \in R
  /\ \A x, y \in S : <<x, y>> \in R \/ <<y, x>> \in R
  /\ \A x, y \in S : <<x, y>> \in R /\ <<y, x>> \in R => x = y
  /\ \A x, y, z \in S : <<x, y>> \in R /\ <<y, z>> \in R => <<x, z>> \in R

\* Ranks grow with the order.
LEMMA RankMonotone ==
  ASSUME NEW S, IsFiniteSet(S), NEW R, IsTotalOrder(S, R)
  PROVE  /\ \A x \in S : Rank(S, R)[x] \in 1 .. Cardinality(S)
         /\ \A x, y \in S : <<x, y>> \in R /\ x # y
                              => Rank(S, R)[x] < Rank(S, R)[y]
<1> DEFINE Below(x) == {y \in S : <<y, x>> \in R}
<1>1. \A x \in S : Rank(S, R)[x] = Cardinality(Below(x))
  BY DEF Rank
<1>2. ASSUME NEW x \in S
      PROVE  /\ IsFiniteSet(Below(x))
             /\ Cardinality(Below(x)) \in 1 .. Cardinality(S)
  <2>1. Below(x) \in SUBSET S /\ x \in Below(x)
    BY DEF IsTotalOrder
  <2>2. IsFiniteSet(Below(x)) /\ Cardinality(Below(x)) <= Cardinality(S)
    BY <2>1, FS_Subset
  <2>3. Cardinality(Below(x)) # 0
    BY <2>1, <2>2, FS_EmptySet
  <2>4. Cardinality(Below(x)) \in Nat /\ Cardinality(S) \in Nat
    BY <2>2, FS_CardinalityType
  <2> QED
    BY <2>2, <2>3, <2>4
<1>3. ASSUME NEW x \in S, NEW y \in S, <<x, y>> \in R, x # y
      PROVE  Cardinality(Below(x)) < Cardinality(Below(y))
  <2>1. Below(x) \in SUBSET Below(y)
    BY <1>3 DEF IsTotalOrder
  <2>2. y \in Below(y) /\ y \notin Below(x)
    BY <1>3 DEF IsTotalOrder
  <2>3. Cardinality(Below(x)) <= Cardinality(Below(y))
    BY <1>2, <2>1, FS_Subset
  <2>4. Cardinality(Below(x)) # Cardinality(Below(y))
    BY <1>2, <2>1, <2>2, FS_Subset
  <2> QED
    BY <1>2, <2>3, <2>4
<1> QED
  BY <1>1, <1>2, <1>3

\* No two elements have the same rank.
LEMMA RankInjective ==
  ASSUME NEW S, IsFiniteSet(S), NEW R, IsTotalOrder(S, R),
         NEW x \in S, NEW y \in S, Rank(S, R)[x] = Rank(S, R)[y]
  PROVE  x = y
<1>1. Rank(S, R)[x] \in Int
  BY RankMonotone, FS_CardinalityType
<1>2. \A u, v \in S : <<u, v>> \in R /\ u # v => Rank(S, R)[u] < Rank(S, R)[v]
  BY RankMonotone
<1>3. <<x, y>> \in R \/ <<y, x>> \in R
  BY DEF IsTotalOrder
<1> QED
  BY <1>1, <1>2, <1>3

\* Every rank from 1 to the number of elements is taken.
LEMMA RankOnto ==
  ASSUME NEW S, IsFiniteSet(S), NEW R, IsTotalOrder(S, R)
  PROVE  \A n \in 1 .. Cardinality(S) : \E x \in S : Rank(S, R)[x] = n
<1> DEFINE rank == Rank(S, R)
           T == 1 .. Cardinality(S)
<1>1. Cardinality(S) \in Nat
  BY FS_CardinalityType
<1>2. IsFiniteSet(T) /\ Cardinality(T) = Cardinality(S)
  BY <1>1, FS_Interval
<1>3. rank \in [S -> T]
  BY RankMonotone DEF Rank
<1>4. \A x, y \in S : rank[x] = rank[y] => x = y
  BY RankInjective
<1>5. rank \in Injection(S, T)
  BY <1>3, <1>4 DEF Injection, IsInjective
<1>6. rank \in Surjection(S, T)
  BY <1>2, <1>5, FS_Injection
<1> QED
  BY <1>6 DEF Surjection

\* Enumerate lists every element of the set exactly once, in order.
LEMMA EnumerateProperties ==
  ASSUME NEW S, IsFiniteSet(S), NEW R, IsTotalOrder(S, R)
  PROVE  LET e == Enumerate(S, R)
         IN  /\ Cardinality(S) \in Nat
             /\ e \in [1 .. Cardinality(S) -> S]
             /\ \A x \in S : \E n \in 1 .. Cardinality(S) : e[n] = x
             /\ \A m, n \in 1 .. Cardinality(S) :
                  m <= n <=> <<e[m], e[n]>> \in R
             /\ \A m, n \in 1 .. Cardinality(S) : e[m] = e[n] => m = n
<1> DEFINE rank == Rank(S, R)
           N == Cardinality(S)
           e == Enumerate(S, R)
<1>1. N \in Nat
  BY FS_CardinalityType
<1>2. \A n \in 1 .. N : e[n] \in S /\ rank[e[n]] = n
  <2> DEFINE ranked == {<<x, rank[x]>> : x \in S}
  <2>1. \A n, x : x \in S => (<<x, n>> \in ranked <=> rank[x] = n)
    OBVIOUS
  <2>2. e = [n \in 1 .. N |-> CHOOSE x \in S : <<x, n>> \in ranked]
    BY DEF Enumerate
  <2> HIDE DEF ranked
  <2> QED
    BY <2>1, <2>2, RankOnto
<1>3. \A x \in S : rank[x] \in 1 .. N
  BY RankMonotone
<1>4. \A x, y \in S : <<x, y>> \in R /\ x # y => rank[x] < rank[y]
  BY RankMonotone
<1>5. \A x, y \in S : rank[x] = rank[y] => x = y
  BY RankInjective
<1>6. \A x \in S : e[rank[x]] = x
  BY <1>2, <1>3, <1>5
<1>7. e \in [1 .. N -> S]
  BY <1>2 DEF Enumerate
<1>8. \A m, n \in 1 .. N : e[m] = e[n] => m = n
  BY <1>2
<1>9. ASSUME NEW m \in 1 .. N, NEW n \in 1 .. N
      PROVE  m <= n <=> <<e[m], e[n]>> \in R
  <2>1. CASE m = n
    BY <1>2, <2>1 DEF IsTotalOrder
  <2>2. CASE m # n
    <3>1. e[m] # e[n] /\ e[m] \in S /\ e[n] \in S
      BY <1>2, <2>2
    <3>2. <<e[m], e[n]>> \in R => m < n
      BY <1>2, <1>4, <3>1
    <3>3. <<e[n], e[m]>> \in R => n < m
      BY <1>2, <1>4, <3>1
    <3> QED
      BY <3>1, <3>2, <3>3, <1>1 DEF IsTotalOrder
  <2> QED
    BY <2>1, <2>2
<1> QED
  BY <1>1, <1>3, <1>6, <1>7, <1>8, <1>9

(***************************************************************************)
(* What a removal or a sort leaves of a sequence: some of its elements,    *)
(* each at most once.                                                      *)
(***************************************************************************)

IsSelection(t, s) ==
  \E f \in [DOMAIN t -> DOMAIN s] :
    /\ \A m, n \in DOMAIN t : f[m] = f[n] => m = n
    /\ \A n \in DOMAIN t : t[n] = s[f[n]]

\* The elements of s at the positions in K, each exactly once, in some order.
IsArrangement(t, s, K) ==
  \E f \in [DOMAIN t -> K] :
    /\ \A m, n \in DOMAIN t : f[m] = f[n] => m = n
    /\ \A k \in K : \E n \in DOMAIN t : f[n] = k
    /\ \A n \in DOMAIN t : t[n] = s[f[n]]

\* A set of positions has a first and a last one.
LEMMA FirstAndLast ==
  ASSUME NEW I \in SUBSET Nat, IsFiniteSet(I), I # {}
  PROVE  /\ First(I) \in I /\ \A j \in I : First(I) <= j
         /\ Last(I) \in I /\ \A j \in I : j <= Last(I)
<1> DEFINE N == Cardinality(I)
           e == Enumerate(I, Ascending(I))
<1>1. IsTotalOrder(I, Ascending(I))
  BY DEF IsTotalOrder, Ascending
<1>2. /\ N \in Nat
      /\ e \in [1 .. N -> I]
      /\ \A x \in I : \E n \in 1 .. N : e[n] = x
      /\ \A m, n \in 1 .. N : m <= n <=> <<e[m], e[n]>> \in Ascending(I)
  BY <1>1, EnumerateProperties
<1>3. N # 0
  BY FS_EmptySet
<1> HIDE DEF e, N
<1>4. 1 \in 1 .. N /\ N \in 1 .. N /\ \A n \in 1 .. N : 1 <= n /\ n <= N
  BY <1>2, <1>3
<1>5. \A m, n \in 1 .. N : m <= n => e[m] <= e[n]
  BY <1>2 DEF Ascending
<1>6. e[1] \in I /\ \A j \in I : e[1] <= j
  BY <1>2, <1>4, <1>5
<1>7. e[N] \in I /\ \A j \in I : j <= e[N]
  BY <1>2, <1>4, <1>5
<1> QED
  BY <1>6, <1>7 DEF First, Last

\* The positions of a sequence are finitely many.
LEMMA SequenceDomain ==
  ASSUME NEW T, NEW s \in Seq(T), NEW I \in SUBSET DOMAIN s
  PROVE  /\ IsFiniteSet(I)
         /\ I \in SUBSET Nat
<1>1. Len(s) \in Nat /\ DOMAIN s = 1 .. Len(s)
  OBVIOUS
<1>2. IsFiniteSet(DOMAIN s)
  BY <1>1, FS_Interval
<1> QED
  BY <1>1, <1>2, FS_Subset

\* Vec::remove and Vec::retain keep a selection.
LEMMA WithoutProperties ==
  ASSUME NEW T, NEW s \in Seq(T), NEW I
  PROVE  /\ Without(s, I) \in Seq(T)
         /\ IsSelection(Without(s, I), s)
         /\ IsArrangement(Without(s, I), s, DOMAIN s \ I)
<1> DEFINE K == DOMAIN s \ I
           N == Cardinality(K)
           e == Enumerate(K, Ascending(K))
           t == Without(s, I)
<1>1. IsFiniteSet(K) /\ K \in SUBSET Nat
  BY SequenceDomain
<1>2. IsTotalOrder(K, Ascending(K))
  BY <1>1 DEF IsTotalOrder, Ascending
<1> HIDE DEF K
<1>3. /\ N \in Nat
      /\ e \in [1 .. N -> K]
      /\ \A m, n \in 1 .. N : e[m] = e[n] => m = n
      /\ \A k \in K : \E n \in 1 .. N : e[n] = k
  BY <1>1, <1>2, EnumerateProperties
<1> HIDE DEF e, N
<1>4. t = [n \in 1 .. N |-> s[e[n]]]
  BY DEF Without, e, N, K
<1>5. \A n \in 1 .. N : e[n] \in DOMAIN s
  BY <1>3 DEF K
<1>6. t \in Seq(T)
  BY <1>3, <1>4, <1>5
<1>7. DOMAIN t = 1 .. N
  BY <1>4
<1>8. e \in [DOMAIN t -> DOMAIN s]
  BY <1>3, <1>5, <1>7
<1>9. IsSelection(t, s)
  <2>1. \A m, n \in DOMAIN t : e[m] = e[n] => m = n
    BY <1>3, <1>7
  <2>2. \A n \in DOMAIN t : t[n] = s[e[n]]
    BY <1>4, <1>7
  <2> HIDE DEF t
  <2> QED
    BY <1>8, <2>1, <2>2 DEF IsSelection
<1>10. IsArrangement(t, s, K)
  <2>1. e \in [DOMAIN t -> K]
    BY <1>3, <1>7
  <2>2. \A m, n \in DOMAIN t : e[m] = e[n] => m = n
    BY <1>3, <1>7
  <2>3. \A k \in K : \E n \in DOMAIN t : e[n] = k
    BY <1>3, <1>7
  <2>4. \A n \in DOMAIN t : t[n] = s[e[n]]
    BY <1>4, <1>7
  <2> HIDE DEF t
  <2> QED
    BY <2>1, <2>2, <2>3, <2>4 DEF IsArrangement
<1> QED
  BY <1>6, <1>9, <1>10 DEF K

\* The order of ProgramHeader::finish.
LEMMA FinishOrderTotal ==
  ASSUME NEW s \in Seq(Segment)
  PROVE  IsTotalOrder(DOMAIN s, FinishOrder(s))
<1> DEFINE K == DOMAIN s
<1>0. K \in SUBSET Nat
  BY SequenceDomain
<1>1. \A i \in K : s[i].address \in Nat
  <2>1. \A i \in K : s[i] \in Segment
    OBVIOUS
  <2> QED
    BY <2>1, MaxWordAssumption DEF Segment, Word
<1>2. \A i \in K : Group(s[i]) \in 0 .. 2
  BY DEF Group
<1>3. \A i, j \in K : <<i, j>> \in FinishOrder(s) <=> Precedes(s, i, j)
  BY DEF FinishOrder
<1>4. \A i \in K : Precedes(s, i, i)
  BY <1>0, <1>1, <1>2 DEF Precedes
<1>5. \A i, j \in K : Precedes(s, i, j) \/ Precedes(s, j, i)
  BY <1>0, <1>1, <1>2 DEF Precedes
<1>6. \A i, j \in K : Precedes(s, i, j) /\ Precedes(s, j, i) => i = j
  BY <1>0, <1>1, <1>2 DEF Precedes
<1>7. \A i, j, k \in K :
        Precedes(s, i, j) /\ Precedes(s, j, k) => Precedes(s, i, k)
  BY <1>0, <1>1, <1>2 DEF Precedes
<1> QED
  BY <1>3, <1>4, <1>5, <1>6, <1>7 DEF IsTotalOrder

\* ProgramHeader::finish keeps every segment exactly once.
LEMMA FinishSegmentsProperties ==
  ASSUME NEW s \in Seq(Segment)
  PROVE  /\ FinishSegments(s) \in Seq(Segment)
         /\ IsSelection(FinishSegments(s), s)
         /\ IsArrangement(FinishSegments(s), s, DOMAIN s)
         /\ DOMAIN FinishSegments(s) = DOMAIN s
<1> DEFINE K == DOMAIN s
           N == Cardinality(K)
           e == Enumerate(K, FinishOrder(s))
           t == FinishSegments(s)
<1>1. IsFiniteSet(K) /\ K \in SUBSET Nat
  BY SequenceDomain
<1>2. IsTotalOrder(K, FinishOrder(s))
  BY FinishOrderTotal
<1>3. /\ N \in Nat
      /\ e \in [1 .. N -> K]
      /\ \A m, n \in 1 .. N : e[m] = e[n] => m = n
      /\ \A k \in K : \E n \in 1 .. N : e[n] = k
  BY <1>1, <1>2, EnumerateProperties
<1> HIDE DEF e, N
<1>4. t = [n \in 1 .. N |-> s[e[n]]]
  BY DEF FinishSegments, e, N
<1>5. \A n \in 1 .. N : e[n] \in DOMAIN s
  BY <1>3
<1>6. t \in Seq(Segment)
  BY <1>3, <1>4, <1>5
<1>7. DOMAIN t = 1 .. N
  BY <1>4
<1>8. e \in [DOMAIN t -> DOMAIN s]
  BY <1>3, <1>5, <1>7
<1>9. IsSelection(t, s)
  <2>1. \A m, n \in DOMAIN t : e[m] = e[n] => m = n
    BY <1>3, <1>7
  <2>2. \A n \in DOMAIN t : t[n] = s[e[n]]
    BY <1>4, <1>7
  <2> HIDE DEF t
  <2> QED
    BY <1>8, <2>1, <2>2 DEF IsSelection
<1>10. IsArrangement(t, s, K)
  <2>1. e \in [DOMAIN t -> K]
    BY <1>3, <1>7
  <2>2. \A m, n \in DOMAIN t : e[m] = e[n] => m = n
    BY <1>3, <1>7
  <2>3. \A k \in K : \E n \in DOMAIN t : e[n] = k
    BY <1>3, <1>7
  <2>4. \A n \in DOMAIN t : t[n] = s[e[n]]
    BY <1>4, <1>7
  <2> HIDE DEF K, t
  <2> QED
    BY <2>1, <2>2, <2>3, <2>4 DEF IsArrangement
<1>11. DOMAIN t = DOMAIN s
  <2>1. Len(s) \in Nat /\ DOMAIN s = 1 .. Len(s)
    OBVIOUS
  <2>2. N = Len(s)
    <3>1. Cardinality(1 .. Len(s)) = Len(s)
      BY <2>1, FS_Interval
    <3> QED
      BY <2>1, <3>1 DEF N
  <2> QED
    BY <1>7, <2>1, <2>2
<1> QED
  BY <1>6, <1>9, <1>10, <1>11

EventType == [offset : Nat, kind : 0 .. 8, index : Nat]

(***************************************************************************)
(* Events.                                                                 *)
(***************************************************************************)

\* The image of a finite set under a function is finite.
LEMMA FiniteImage ==
  ASSUME NEW S, IsFiniteSet(S), NEW f, DOMAIN f = S
  PROVE  IsFiniteSet({f[x] : x \in S})
<1> DEFINE T == {f[x] : x \in S}
           g == [x \in S |-> f[x]]
<1>1. g \in Surjection(S, T)
  BY DEF Surjection
<1> QED
  BY <1>1, FS_Surjection

\* Ends of typed sections and segments are natural numbers.
LEMMA EndsAreNatural ==
  /\ \A s \in Section : /\ s.offset \in Nat /\ s.address \in Nat
                        /\ s.size \in Nat /\ s.align \in Nat
                        /\ SectionFileEnd(s) \in Nat
                        /\ SectionMemoryEnd(s) \in Nat
  /\ \A g \in Segment : /\ g.offset \in Nat /\ g.address \in Nat
                        /\ g.file_size \in Nat /\ g.memory_size \in Nat
                        /\ g.align \in Nat
                        /\ SegmentFileEnd(g) \in Nat
                        /\ SegmentMemoryEnd(g) \in Nat
BY MaxWordAssumption
   DEF Section, Segment, Word, SectionFileEnd, SectionMemoryEnd,
       SegmentFileEnd, SegmentMemoryEnd

\* The kinds of events are the discriminants 0 to 8.
LEMMA EventKinds ==
  /\ SectionStart \in 0 .. 8 /\ SectionEnd \in 0 .. 8
  /\ LoadSegmentStart \in 0 .. 8 /\ LoadSegmentEnd \in 0 .. 8
  /\ \A g : SegmentStartKind(g) \in {0, 1, 4} /\ SegmentEndKind(g) \in {3, 7, 8}
BY DEF SectionStart, SectionEnd, LoadSegmentStart, LoadSegmentEnd,
       SegmentStartKind, SegmentEndKind, SegmentStart, SegmentEnd,
       EmptySegmentStart, EmptySegmentEnd

\* There are finitely many file events, and they are well-typed.
LEMMA FileEventsType ==
  ASSUME NEW sections \in Seq(Section), NEW segments \in Seq(Segment)
  PROVE  /\ IsFiniteSet(FileEvents(sections, segments))
         /\ FileEvents(sections, segments) \in SUBSET EventType
<1> DEFINE A == {i \in DOMAIN sections : InFile(sections[i])}
           B == {i \in DOMAIN segments : segments[i].kind # "Null"}
           a1 == [i \in A |-> Event(sections[i].offset, SectionStart, i)]
           a2 == [i \in A |->
                    Event(SectionFileEnd(sections[i]), SectionEnd, i)]
           b1 == [i \in B |->
                    Event(segments[i].offset, SegmentStartKind(segments[i]), i)]
           b2 == [i \in B |->
                    Event(SegmentFileEnd(segments[i]),
                          SegmentEndKind(segments[i]), i)]
<1>1. /\ IsFiniteSet(A) /\ A \in SUBSET Nat
      /\ IsFiniteSet(B) /\ B \in SUBSET Nat
  BY SequenceDomain
<1>2. /\ IsFiniteSet({a1[i] : i \in A}) /\ IsFiniteSet({a2[i] : i \in A})
      /\ IsFiniteSet({b1[i] : i \in B}) /\ IsFiniteSet({b2[i] : i \in B})
  BY <1>1, FiniteImage
<1>3. FileEvents(sections, segments) =
        ({a1[i] : i \in A} \cup {a2[i] : i \in A})
          \cup ({b1[i] : i \in B} \cup {b2[i] : i \in B})
  BY DEF FileEvents, SectionEvents, SegmentEvents
<1>4. IsFiniteSet(FileEvents(sections, segments))
  <2> HIDE DEF a1, a2, b1, b2
  <2>1. IsFiniteSet({a1[i] : i \in A} \cup {a2[i] : i \in A})
    BY ONLY <1>2, FS_Union
  <2>2. IsFiniteSet({b1[i] : i \in B} \cup {b2[i] : i \in B})
    BY ONLY <1>2, FS_Union
  <2>3. IsFiniteSet(({a1[i] : i \in A} \cup {a2[i] : i \in A})
                      \cup ({b1[i] : i \in B} \cup {b2[i] : i \in B}))
    BY ONLY <2>1, <2>2, FS_Union
  <2> QED
    BY ONLY <1>3, <2>3
<1>5. \A i \in A : a1[i] \in EventType /\ a2[i] \in EventType
  BY <1>1, EndsAreNatural, EventKinds DEF Event, EventType
<1>6. \A i \in B : b1[i] \in EventType /\ b2[i] \in EventType
  BY <1>1, EndsAreNatural, EventKinds DEF Event, EventType
<1> QED
  BY <1>3, <1>4, <1>5, <1>6

\* There are finitely many memory events, and they are well-typed.
LEMMA MemoryEventsType ==
  ASSUME NEW sections \in Seq(Section), NEW segments \in Seq(Segment)
  PROVE  /\ IsFiniteSet(MemoryEvents(sections, segments))
         /\ MemoryEvents(sections, segments) \in SUBSET EventType
<1> DEFINE A == {i \in DOMAIN sections :
                   sections[i].kind # "Null" /\ sections[i].alloc}
           B == {i \in DOMAIN segments : IsLoad(segments[i])}
           a1 == [i \in A |-> Event(sections[i].address, SectionStart, i)]
           a2 == [i \in A |->
                    Event(SectionMemoryEnd(sections[i]), SectionEnd, i)]
           b1 == [i \in B |->
                    Event(AlignDown(segments[i].address), LoadSegmentStart, i)]
           b2 == [i \in B |->
                    Event(AlignUp(SegmentMemoryEnd(segments[i])),
                          LoadSegmentEnd, i)]
<1>1. /\ IsFiniteSet(A) /\ A \in SUBSET Nat
      /\ IsFiniteSet(B) /\ B \in SUBSET Nat
  BY SequenceDomain
<1>2. /\ IsFiniteSet({a1[i] : i \in A}) /\ IsFiniteSet({a2[i] : i \in A})
      /\ IsFiniteSet({b1[i] : i \in B}) /\ IsFiniteSet({b2[i] : i \in B})
  BY <1>1, FiniteImage
<1>3. MemoryEvents(sections, segments) =
        ({a1[i] : i \in A} \cup {a2[i] : i \in A})
          \cup ({b1[i] : i \in B} \cup {b2[i] : i \in B})
  BY DEF MemoryEvents
<1>4. IsFiniteSet(MemoryEvents(sections, segments))
  <2> HIDE DEF a1, a2, b1, b2
  <2>1. IsFiniteSet({a1[i] : i \in A} \cup {a2[i] : i \in A})
    BY ONLY <1>2, FS_Union
  <2>2. IsFiniteSet({b1[i] : i \in B} \cup {b2[i] : i \in B})
    BY ONLY <1>2, FS_Union
  <2>3. IsFiniteSet(({a1[i] : i \in A} \cup {a2[i] : i \in A})
                      \cup ({b1[i] : i \in B} \cup {b2[i] : i \in B}))
    BY ONLY <2>1, <2>2, FS_Union
  <2> QED
    BY ONLY <1>3, <2>3
<1>5. \A i \in A : a1[i] \in EventType /\ a2[i] \in EventType
  BY <1>1, EndsAreNatural, EventKinds DEF Event, EventType
<1>6. \A i \in B : /\ AlignDown(segments[i].address) \in Nat
                   /\ AlignUp(SegmentMemoryEnd(segments[i])) \in Nat
  <2> TAKE i \in B
  <2>1. segments[i] \in Segment
    OBVIOUS
  <2>2. /\ segments[i].address \in Nat
        /\ SegmentMemoryEnd(segments[i]) \in Nat
    BY <2>1, EndsAreNatural
  <2>3. AlignDown(segments[i].address) \in Nat
    BY <2>2, PageProperties
  <2>4. AlignUp(SegmentMemoryEnd(segments[i])) \in Word
    BY <2>2, PageProperties
  <2> QED
    BY <2>3, <2>4, MaxWordAssumption DEF Word
<1>7. \A i \in B : b1[i] \in EventType /\ b2[i] \in EventType
  BY <1>1, <1>6, EventKinds DEF Event, EventType
<1> QED
  BY <1>3, <1>4, <1>5, <1>7

\* Sorting puts the events in the order of their offsets.
LEMMA SortedProperties ==
  ASSUME NEW E \in SUBSET EventType, IsFiniteSet(E)
  PROVE  LET ev == Sorted(E)
         IN  /\ Cardinality(E) \in Nat
             /\ ev \in [1 .. Cardinality(E) -> E]
             /\ \A e \in E : \E n \in 1 .. Cardinality(E) : ev[n] = e
             /\ \A m, n \in 1 .. Cardinality(E) :
                  m <= n => ev[m].offset <= ev[n].offset
             /\ \A m, n \in 1 .. Cardinality(E) :
                  ev[m].offset < ev[n].offset => m < n
             /\ \A m, n \in 1 .. Cardinality(E) : ev[m] = ev[n] => m = n
<1> DEFINE R == EventOrder(E)
           ev == Sorted(E)
           N == Cardinality(E)
<1>1. \A e, f \in E : <<e, f>> \in R <=> NotAfter(e, f)
  BY DEF EventOrder
<1>2. \A e \in E : e.offset \in Nat /\ e.kind \in Nat /\ e.index \in Nat
  BY DEF EventType
<1>3. \A e, f \in E : e.offset = f.offset /\ e.kind = f.kind /\ e.index = f.index
                        => e = f
  BY DEF EventType
<1>4. IsTotalOrder(E, R)
  <2>1. \A e \in E : NotAfter(e, e)
    BY <1>2 DEF NotAfter
  <2>2. \A e, f \in E : NotAfter(e, f) \/ NotAfter(f, e)
    BY <1>2 DEF NotAfter
  <2>3. \A e, f \in E : NotAfter(e, f) /\ NotAfter(f, e) => e = f
    BY <1>2, <1>3 DEF NotAfter
  <2>4. \A e, f, g \in E : NotAfter(e, f) /\ NotAfter(f, g) => NotAfter(e, g)
    BY <1>2 DEF NotAfter
  <2> QED
    BY <1>1, <2>1, <2>2, <2>3, <2>4 DEF IsTotalOrder
<1>5. /\ N \in Nat
      /\ ev \in [1 .. N -> E]
      /\ \A e \in E : \E n \in 1 .. N : ev[n] = e
      /\ \A m, n \in 1 .. N : m <= n <=> <<ev[m], ev[n]>> \in R
      /\ \A m, n \in 1 .. N : ev[m] = ev[n] => m = n
  BY <1>4, EnumerateProperties DEF Sorted
<1> HIDE DEF R, ev, N
<1>6. \A m, n \in 1 .. N : m <= n => ev[m].offset <= ev[n].offset
  <2> TAKE m, n \in 1 .. N
  <2>1. ev[m] \in E /\ ev[n] \in E
    BY <1>5
  <2>2. m <= n => NotAfter(ev[m], ev[n])
    BY <1>1, <1>5, <2>1
  <2> QED
    BY <1>2, <2>1, <2>2 DEF NotAfter
<1>7. \A m, n \in 1 .. N : ev[m].offset < ev[n].offset => m < n
  BY <1>2, <1>5, <1>6
<1> QED
  BY <1>5, <1>6, <1>7 DEF ev, N

\* No event lies behind the last one.
LEMMA LastOffsetBound ==
  ASSUME NEW E \in SUBSET EventType, IsFiniteSet(E), NEW d \in Nat
  PROVE  /\ LastOffset(E, d) \in Nat
         /\ \A e \in E : e.offset <= LastOffset(E, d)
<1>1. CASE E = {}
  BY <1>1 DEF LastOffset
<1>2. CASE E # {}
  <2> DEFINE offset == [e \in E |-> e.offset]
             offsets == {offset[e] : e \in E}
  <2>1. offsets \in SUBSET Nat /\ offsets # {}
    BY <1>2 DEF EventType
  <2>2. IsFiniteSet(offsets)
    BY FiniteImage
  <2>3. Last(offsets) \in offsets /\ \A x \in offsets : x <= Last(offsets)
    BY <2>1, <2>2, FirstAndLast
  <2>4. offsets = {e.offset : e \in E}
    OBVIOUS
  <2> HIDE DEF offsets
  <2>5. LastOffset(E, d) = Last(offsets)
    BY <1>2, <2>4 DEF LastOffset
  <2>6. \A e \in E : e.offset \in offsets
    BY <2>4
  <2> QED
    BY <2>1, <2>3, <2>5, <2>6
<1> QED
  BY <1>1, <1>2

(***************************************************************************)
(* allocate_loadable_segment_for.                                          *)
(***************************************************************************)

\* The offset is behind everything in the file.
PastAll(offset, sections, segments) ==
  /\ offset \in Nat
  /\ \A i \in DOMAIN sections :
       InFile(sections[i]) => SectionFileEnd(sections[i]) <= offset
  /\ \A j \in DOMAIN segments :
       segments[j].kind # "Null" => SegmentFileEnd(segments[j]) <= offset
  /\ FileEvents(sections, segments) = {} => offset >= HeaderLen


\* A new LOAD segment starts behind every section and segment in the file and
\* behind every page of every LOAD segment in memory, at a page boundary.
LEMMA NewLoadBehind ==
  ASSUME NEW sections \in Seq(Section), NEW segments \in Seq(Segment),
         NEW file_size \in Word, NEW memory_size \in Word,
         NEW align \in Word, NEW write \in BOOLEAN
  PROVE  LET load == NewLoad(sections, segments, file_size, memory_size,
                             align, write)
         IN  /\ load.offset \in Nat /\ load.address \in Nat
             /\ load.file_size \in Nat /\ load.memory_size \in Nat
             /\ load.file_size >= file_size
             /\ load.memory_size >= memory_size
             /\ load.memory_size - memory_size = load.file_size - file_size
             /\ load.address % PageSize = 0
             /\ IsLoad(load)
             /\ Addressable(load, load.file_size - file_size)
                  => load \in Segment
             /\ \A i \in DOMAIN sections :
                  InFile(sections[i])
                    => SectionFileEnd(sections[i]) <= load.offset
             /\ \A j \in DOMAIN segments :
                  segments[j].kind # "Null"
                    => SegmentFileEnd(segments[j]) <= load.offset
             /\ \A j \in DOMAIN segments :
                  IsLoad(segments[j])
                    => AlignUp(SegmentMemoryEnd(segments[j])) <= load.address
             /\ PastAll(load.offset, sections, segments)
<1> DEFINE F == FileEvents(sections, segments)
           M == MemoryEvents(sections, segments)
           lastF == LastOffset(F, HeaderLen)
           lastM == LastOffset(M, 0)
           load == NewLoad(sections, segments, file_size, memory_size,
                           align, write)
<1>1. lastF \in Nat /\ \A e \in F : e.offset <= lastF
  BY FileEventsType, LastOffsetBound, LengthsAssumption
<1>2. lastM \in Nat /\ \A e \in M : e.offset <= lastM
  BY MemoryEventsType, LastOffsetBound
<1>0. F = {} => lastF = HeaderLen
  BY DEF LastOffset
<1> HIDE DEF lastF, lastM, F, M
<1>3. /\ NextMultiple(lastF, PageSize) \in Nat
      /\ NextMultiple(lastF, PageSize) >= lastF
  BY <1>1, NextMultipleProperties, PageSizeAssumption
<1>4. /\ NextMultiple(lastM, PageSize) \in Nat
      /\ NextMultiple(lastM, PageSize) >= lastM
      /\ NextMultiple(lastM, PageSize) % PageSize = 0
  BY <1>2, NextMultipleProperties, PageSizeAssumption
<1> DEFINE offset == NextMultiple(lastF, PageSize)
           address == NextMultiple(lastM, PageSize)
           padding == Padding(offset, align)
<1>5. align \in Nat /\ file_size \in Nat /\ memory_size \in Nat
  BY MaxWordAssumption DEF Word
<1>6. padding \in Nat
  BY <1>3, <1>5, NextMultipleProperties
<1> HIDE DEF offset, address, padding
<1>7. load = [kind |-> "Loadable", write |-> write, offset |-> offset,
              address |-> address, file_size |-> padding + file_size,
              memory_size |-> padding + memory_size, align |-> PageSize]
  BY DEF NewLoad, offset, address, padding, lastF, lastM, F, M
<1> HIDE DEF load
<1>8. /\ load.offset = offset /\ load.address = address
      /\ offset \in Nat /\ address \in Nat
  BY <1>3, <1>4, <1>7 DEF offset, address
<1>9. ASSUME NEW i \in DOMAIN sections, InFile(sections[i])
      PROVE  SectionFileEnd(sections[i]) <= load.offset
  <2>1. Event(SectionFileEnd(sections[i]), SectionEnd, i) \in F
    BY <1>9 DEF F, FileEvents, SectionEvents
  <2>2. SectionFileEnd(sections[i]) <= lastF
    BY <1>1, <2>1 DEF Event
  <2>3. SectionFileEnd(sections[i]) \in Nat
    BY EndsAreNatural
  <2> QED
    BY <1>1, <1>3, <1>8, <2>2, <2>3 DEF offset
<1>10. ASSUME NEW j \in DOMAIN segments, segments[j].kind # "Null"
       PROVE  SegmentFileEnd(segments[j]) <= load.offset
  <2>1. Event(SegmentFileEnd(segments[j]), SegmentEndKind(segments[j]), j) \in F
    BY <1>10 DEF F, FileEvents, SegmentEvents
  <2>2. SegmentFileEnd(segments[j]) <= lastF
    BY <1>1, <2>1 DEF Event
  <2>3. SegmentFileEnd(segments[j]) \in Nat
    BY EndsAreNatural
  <2> QED
    BY <1>1, <1>3, <1>8, <2>2, <2>3 DEF offset
<1>11. ASSUME NEW j \in DOMAIN segments, IsLoad(segments[j])
       PROVE  AlignUp(SegmentMemoryEnd(segments[j])) <= load.address
  <2>1. Event(AlignUp(SegmentMemoryEnd(segments[j])), LoadSegmentEnd, j) \in M
    BY <1>11 DEF M, MemoryEvents
  <2>2. AlignUp(SegmentMemoryEnd(segments[j])) <= lastM
    BY <1>2, <2>1 DEF Event
  <2>3. segments[j] \in Segment
    OBVIOUS
  <2>4. SegmentMemoryEnd(segments[j]) \in Nat
    BY <2>3, EndsAreNatural
  <2>5. AlignUp(SegmentMemoryEnd(segments[j])) \in Word
    BY <2>4, PageProperties
  <2> QED
    BY <1>2, <1>4, <1>8, <2>2, <2>5, MaxWordAssumption DEF address, Word
<1>12. Addressable(load, load.file_size - file_size) => load \in Segment
  <2> SUFFICES ASSUME Addressable(load, load.file_size - file_size)
               PROVE  load \in Segment
    OBVIOUS
  <2>0. load.file_size - file_size = padding
    BY <1>5, <1>6, <1>7
  <2>1. /\ offset + padding <= MaxWord /\ padding + file_size <= MaxWord
        /\ address + padding <= MaxWord /\ padding + memory_size <= MaxWord
    BY <1>7, <2>0 DEF Addressable
  <2>2. /\ offset \in Word /\ padding + file_size \in Word
        /\ address \in Word /\ padding + memory_size \in Word
    BY <1>5, <1>6, <1>8, <2>1, MaxWordAssumption DEF Word
  <2>3. PageSize \in Word
    BY PageSizeAssumption, MaxWordAssumption DEF Word
  <2> HIDE DEF offset, address, padding
  <2> QED
    BY <1>7, <2>2, <2>3 DEF Segment, SegmentKinds
<1>13. load.address % PageSize = 0
  BY <1>4, <1>8 DEF address
<1>14. /\ load.file_size \in Nat /\ load.memory_size \in Nat
       /\ load.file_size >= file_size /\ load.memory_size >= memory_size
       /\ load.memory_size - memory_size = load.file_size - file_size
  BY <1>5, <1>6, <1>7
<1>15. IsLoad(load)
  BY <1>7 DEF IsLoad
<1>16. PastAll(load.offset, sections, segments)
  <2>1. F = {} => load.offset >= HeaderLen
    BY <1>0, <1>3, <1>8 DEF offset
  <2> QED
    BY <1>8, <1>9, <1>10, <2>1 DEF PastAll, F
<1> QED
  BY <1>8, <1>9, <1>10, <1>11, <1>12, <1>13, <1>14, <1>15, <1>16 DEF load

(***************************************************************************)
(* allocate_space.                                                         *)
(***************************************************************************)

\* A start or end of a section comes from the section it names.
LEMMA EventOrigin ==
  ASSUME NEW sections \in Seq(Section), NEW segments \in Seq(Segment),
         NEW e \in FileEvents(sections, segments)
  PROVE  /\ e.kind = SectionStart =>
              /\ e.index \in DOMAIN sections
              /\ e = Event(sections[e.index].offset, SectionStart, e.index)
         /\ e.kind \in SectionEnds =>
              /\ e.index \in DOMAIN sections
              /\ e = Event(SectionFileEnd(sections[e.index]), SectionEnd,
                           e.index)
         /\ e.kind \in SegmentStarts \cup SegmentEnds =>
              e.index \in DOMAIN segments
         /\ e.kind = LoadSegmentStart => IsLoad(segments[e.index])
         /\ e.kind = LoadSegmentEnd =>
              /\ IsLoad(segments[e.index])
              /\ e.offset = SegmentFileEnd(segments[e.index])
<1>1. \A g : /\ SegmentStartKind(g) \notin {2, 5, 6}
             /\ SegmentEndKind(g) \notin {0, 2, 5, 6}
             /\ SegmentStartKind(g) # 8
             /\ SegmentStartKind(g) = 0 => IsLoad(g)
             /\ SegmentEndKind(g) = 8 => IsLoad(g)
  BY DEF SegmentStartKind, SegmentEndKind, SegmentStart, SegmentEnd,
         LoadSegmentStart, LoadSegmentEnd, EmptySegmentStart, EmptySegmentEnd
<1>2. \/ \E i \in DOMAIN sections :
           \/ e = Event(sections[i].offset, SectionStart, i)
           \/ e = Event(SectionFileEnd(sections[i]), SectionEnd, i)
      \/ \E j \in DOMAIN segments :
           \/ e = Event(segments[j].offset, SegmentStartKind(segments[j]), j)
           \/ e = Event(SegmentFileEnd(segments[j]),
                        SegmentEndKind(segments[j]), j)
  BY DEF FileEvents, SectionEvents, SegmentEvents
<1>3. CASE \E i \in DOMAIN sections :
             \/ e = Event(sections[i].offset, SectionStart, i)
             \/ e = Event(SectionFileEnd(sections[i]), SectionEnd, i)
  BY <1>3 DEF Event, SectionStart, SectionEnd, SectionEnds, NoBitsSectionEnd,
              SegmentStarts, SegmentEnds, SegmentStart, SegmentEnd,
              LoadSegmentStart, LoadSegmentEnd, EmptySegmentStart,
              EmptySegmentEnd
<1>4. CASE \E j \in DOMAIN segments :
             \/ e = Event(segments[j].offset, SegmentStartKind(segments[j]), j)
             \/ e = Event(SegmentFileEnd(segments[j]),
                          SegmentEndKind(segments[j]), j)
  BY <1>1, <1>4 DEF Event, SectionStart, SectionEnd, SectionEnds,
              NoBitsSectionEnd, LoadSegmentStart, LoadSegmentEnd
<1> QED
  BY <1>2, <1>3, <1>4

\* A vacant gap shares no byte with a section.
LEMMA GapIsVacant ==
  ASSUME NEW sections \in Seq(Section), NEW segments \in Seq(Segment),
         NEW n \in 2 .. Cardinality(FileEvents(sections, segments)),
         Vacant(Sorted(FileEvents(sections, segments)), n),
         NEW i \in DOMAIN sections, InFile(sections[i])
  PROVE  LET ev == Sorted(FileEvents(sections, segments))
         IN  \/ SectionFileEnd(sections[i]) <= ev[n - 1].offset
             \/ ev[n].offset <= sections[i].offset
<1> DEFINE E == FileEvents(sections, segments)
           N == Cardinality(E)
           ev == Sorted(E)
           a == Event(sections[i].offset, SectionStart, i)
           b == Event(SectionFileEnd(sections[i]), SectionEnd, i)
<1>1. /\ N \in Nat
      /\ ev \in [1 .. N -> E]
      /\ \A e \in E : \E m \in 1 .. N : ev[m] = e
      /\ \A l, m \in 1 .. N : l <= m => ev[l].offset <= ev[m].offset
      /\ \A l, m \in 1 .. N : ev[l].offset < ev[m].offset => l < m
      /\ \A l, m \in 1 .. N : ev[l] = ev[m] => l = m
  BY FileEventsType, SortedProperties
<1>2. a \in E /\ b \in E
  BY DEF FileEvents, SectionEvents
<1>3. PICK ra \in 1 .. N, rb \in 1 .. N : ev[ra] = a /\ ev[rb] = b
  BY <1>1, <1>2
<1>4. n \in 1 .. N /\ n - 1 \in 1 .. N
  BY <1>1
<1>5. \A m \in 1 .. N : ev[m] \in E /\ ev[m].offset \in Nat
  BY <1>1, FileEventsType DEF EventType
<1>6. /\ ev[ra].kind = SectionStart /\ ev[ra].index = i
      /\ ev[ra].offset = sections[i].offset
      /\ ev[rb].kind = SectionEnd
      /\ ev[rb].offset = SectionFileEnd(sections[i])
  BY <1>3 DEF Event
<1>7. \A m \in 1 .. N : ev[m].kind = SectionStart /\ ev[m].index = i => m = ra
  <2> TAKE m \in 1 .. N
  <2> HAVE ev[m].kind = SectionStart /\ ev[m].index = i
  <2>1. ev[m] = Event(sections[i].offset, SectionStart, i)
    BY <1>5, EventOrigin
  <2> QED
    BY <1>1, <1>3, <2>1
<1>8. \A m \in 1 .. N : ev[m].kind \in SectionEnds /\ ev[m].index = i => m = rb
  <2> TAKE m \in 1 .. N
  <2> HAVE ev[m].kind \in SectionEnds /\ ev[m].index = i
  <2>1. ev[m] = Event(SectionFileEnd(sections[i]), SectionEnd, i)
    BY <1>5, EventOrigin
  <2> QED
    BY <1>1, <1>3, <2>1
<1> HIDE DEF a, b, ev, N, E
<1>9. SUFFICES ASSUME ra <= n - 1, n <= rb
               PROVE  FALSE
  <2>1. ra >= n \/ rb <= n - 1
    BY <1>4, <1>9
  <2>2. CASE ra >= n
    BY <1>1, <1>4, <1>6, <2>2 DEF ev, E
  <2>3. CASE rb <= n - 1
    BY <1>1, <1>4, <1>6, <2>3 DEF ev, E
  <2> QED
    BY <2>1, <2>2, <2>3
<1>10. /\ ev[n].kind \in {SectionStart, LoadSegmentEnd}
       /\ ev[n].kind = SectionStart => OpenSections(ev, n) = {ev[n].index}
       /\ ev[n].kind = LoadSegmentEnd => OpenSections(ev, n) = {}
  BY DEF Vacant, ev, E, SectionStart, LoadSegmentEnd
<1>11. rb # n
  BY <1>6, <1>10 DEF SectionEnd, SectionStart, LoadSegmentEnd
<1>12. i \in OpenSections(ev, n)
  <2>1. ra \in 1 .. n /\ 1 .. n \in SUBSET (1 .. N)
    BY <1>1, <1>4, <1>9
  <2>2. \A k \in 1 .. n : ev[k].kind \in SectionEnds => ev[k].index # i
    BY <1>1, <1>8, <1>9, <1>11, <2>1
  <2> QED
    BY <1>6, <2>1, <2>2 DEF OpenSections
<1>13. ev[n].kind = SectionStart /\ ev[n].index = i
  BY <1>10, <1>12
<1>14. n = ra
  BY <1>4, <1>7, <1>13
<1> QED
  BY <1>4, <1>9, <1>14

\* The start or end of a section that has bytes in the file.
LEMMA LiveSectionEvent ==
  ASSUME NEW secs, NEW segs, NEW e \in FileEvents(secs, segs)
  PROVE  /\ e.kind = SectionStart
              => \E i \in DOMAIN secs :
                   InFile(secs[i]) /\ e.offset = secs[i].offset
         /\ e.kind = SectionEnd
              => \E i \in DOMAIN secs :
                   InFile(secs[i]) /\ e.offset = SectionFileEnd(secs[i])
<1>1. \A g : /\ SegmentStartKind(g) \notin {2, 5}
            /\ SegmentEndKind(g) \notin {2, 5}
  BY DEF SegmentStartKind, SegmentEndKind, SegmentStart, SegmentEnd,
         LoadSegmentStart, LoadSegmentEnd, EmptySegmentStart, EmptySegmentEnd
<1>2. ASSUME e.kind \in {SectionStart, SectionEnd}
      PROVE  e \in SectionEvents(secs)
  <2>1. e \notin SegmentEvents(segs)
    BY <1>1, <1>2 DEF SegmentEvents, Event, SectionStart, SectionEnd
  <2> QED
    BY <2>1 DEF FileEvents
<1>3. ASSUME e \in SectionEvents(secs)
      PROVE  \E i \in DOMAIN secs :
               /\ InFile(secs[i])
               /\ \/ e.kind = SectionStart /\ e.offset = secs[i].offset
                  \/ e.kind = SectionEnd /\ e.offset = SectionFileEnd(secs[i])
  BY <1>3 DEF SectionEvents, Event
<1>4. SectionStart # SectionEnd
  BY DEF SectionStart, SectionEnd
<1> QED
  BY <1>2, <1>3, <1>4

\* A start or end of a segment comes from the segment it names.
LEMMA SegmentEventOrigin ==
  ASSUME NEW sections \in Seq(Section), NEW segments \in Seq(Segment),
         NEW e \in FileEvents(sections, segments),
         e.kind \in SegmentStarts \cup SegmentEnds
  PROVE  LET g == segments[e.index]
         IN  /\ e.index \in DOMAIN segments
             /\ g.kind # "Null"
             /\ e.kind \in SegmentStarts
                  => e = Event(g.offset, SegmentStartKind(g), e.index)
             /\ e.kind \in SegmentEnds
                  => e = Event(SegmentFileEnd(g), SegmentEndKind(g), e.index)
<1>1. \A g : /\ SegmentStartKind(g) \in SegmentStarts \ SegmentEnds
             /\ SegmentEndKind(g) \in SegmentEnds \ SegmentStarts
  BY DEF SegmentStartKind, SegmentEndKind, SegmentStarts, SegmentEnds,
         SegmentStart, SegmentEnd, LoadSegmentStart, LoadSegmentEnd,
         EmptySegmentStart, EmptySegmentEnd
<1>2. /\ SectionStart \notin SegmentStarts \cup SegmentEnds
      /\ SectionEnd \notin SegmentStarts \cup SegmentEnds
  BY DEF SectionStart, SectionEnd, SegmentStarts, SegmentEnds,
         SegmentStart, SegmentEnd, LoadSegmentStart, LoadSegmentEnd,
         EmptySegmentStart, EmptySegmentEnd
<1>3. e \notin SectionEvents(sections)
  BY <1>2 DEF SectionEvents, Event
<1>4. PICK j \in DOMAIN segments :
        /\ segments[j].kind # "Null"
        /\ \/ e = Event(segments[j].offset, SegmentStartKind(segments[j]), j)
           \/ e = Event(SegmentFileEnd(segments[j]),
                        SegmentEndKind(segments[j]), j)
  BY <1>3 DEF FileEvents, SegmentEvents
<1>5. /\ e.index = j
      /\ e.kind \in {SegmentStartKind(segments[j]), SegmentEndKind(segments[j])}
  BY <1>4 DEF Event
<1>6. CASE e = Event(segments[j].offset, SegmentStartKind(segments[j]), j)
  <2>1. e.kind = SegmentStartKind(segments[j])
    BY <1>6 DEF Event
  <2> QED
    BY <1>1, <1>4, <1>5, <1>6, <2>1
<1>7. CASE e = Event(SegmentFileEnd(segments[j]), SegmentEndKind(segments[j]), j)
  <2>1. e.kind = SegmentEndKind(segments[j])
    BY <1>7 DEF Event
  <2> QED
    BY <1>1, <1>4, <1>5, <1>7, <2>1
<1> QED
  BY <1>4, <1>6, <1>7

\* A section is open from its start event to the one before its end event.
LEMMA SectionIsOpen ==
  ASSUME NEW sections \in Seq(Section), NEW segments \in Seq(Segment),
         NEW i \in DOMAIN sections, InFile(sections[i])
  PROVE  LET E == FileEvents(sections, segments)
             ev == Sorted(E)
         IN  \E ra, rb \in 1 .. Cardinality(E) :
               /\ ev[ra] = Event(sections[i].offset, SectionStart, i)
               /\ ev[rb] = Event(SectionFileEnd(sections[i]), SectionEnd, i)
               /\ \A n \in 1 .. Cardinality(E) :
                    ra <= n /\ n < rb => i \in OpenSections(ev, n)
<1> DEFINE E == FileEvents(sections, segments)
           N == Cardinality(E)
           ev == Sorted(E)
           a == Event(sections[i].offset, SectionStart, i)
           b == Event(SectionFileEnd(sections[i]), SectionEnd, i)
<1>1. /\ N \in Nat
      /\ ev \in [1 .. N -> E]
      /\ \A e \in E : \E m \in 1 .. N : ev[m] = e
      /\ \A l, m \in 1 .. N : ev[l] = ev[m] => l = m
  BY FileEventsType, SortedProperties
<1>2. a \in E /\ b \in E
  BY DEF FileEvents, SectionEvents
<1>3. PICK ra \in 1 .. N, rb \in 1 .. N : ev[ra] = a /\ ev[rb] = b
  BY <1>1, <1>2
<1>4. ev[ra].kind = SectionStart /\ ev[ra].index = i
  BY <1>3 DEF Event
<1>5. \A m \in 1 .. N : ev[m].kind \in SectionEnds /\ ev[m].index = i => m = rb
  <2> TAKE m \in 1 .. N
  <2> HAVE ev[m].kind \in SectionEnds /\ ev[m].index = i
  <2>1. ev[m] = b
    <3>1. ev[m] \in E
      BY <1>1
    <3> HIDE DEF ev
    <3> QED
      BY <3>1, EventOrigin
  <2> HIDE DEF b, ev, E, N
  <2> QED
    BY <1>1, <1>3, <2>1
<1> HIDE DEF a, b, ev, N, E
<1>6. ASSUME NEW n \in 1 .. N, ra <= n, n < rb
      PROVE  i \in OpenSections(ev, n)
  <2>1. ra \in 1 .. n /\ 1 .. n \in SUBSET (1 .. N) /\ rb \notin 1 .. n
    BY <1>1, <1>6
  <2>2. \A k \in 1 .. n : ev[k].kind \in SectionEnds => ev[k].index # i
    BY <1>5, <2>1
  <2> QED
    BY <1>4, <2>1, <2>2 DEF OpenSections
<1> QED
  BY <1>3, <1>6 DEF a, b, ev, N, E

\* A segment is open from its start event to the one before its end event.
LEMMA SegmentIsOpen ==
  ASSUME NEW sections \in Seq(Section), NEW segments \in Seq(Segment),
         NEW j \in DOMAIN segments, segments[j].kind # "Null"
  PROVE  LET E == FileEvents(sections, segments)
             ev == Sorted(E)
             g == segments[j]
         IN  \E ra, rb \in 1 .. Cardinality(E) :
               /\ ev[ra] = Event(g.offset, SegmentStartKind(g), j)
               /\ ev[rb] = Event(SegmentFileEnd(g), SegmentEndKind(g), j)
               /\ \A n \in 1 .. Cardinality(E) :
                    ra <= n /\ n < rb => j \in OpenSegments(ev, n)
<1> DEFINE E == FileEvents(sections, segments)
           N == Cardinality(E)
           ev == Sorted(E)
           g == segments[j]
           a == Event(g.offset, SegmentStartKind(g), j)
           b == Event(SegmentFileEnd(g), SegmentEndKind(g), j)
<1>1. /\ N \in Nat
      /\ ev \in [1 .. N -> E]
      /\ \A e \in E : \E m \in 1 .. N : ev[m] = e
      /\ \A l, m \in 1 .. N : ev[l] = ev[m] => l = m
  BY FileEventsType, SortedProperties
<1>2. a \in E /\ b \in E
  BY DEF FileEvents, SegmentEvents
<1>3. PICK ra \in 1 .. N, rb \in 1 .. N : ev[ra] = a /\ ev[rb] = b
  BY <1>1, <1>2
<1>4. ev[ra].kind \in SegmentStarts /\ ev[ra].index = j
  BY <1>3 DEF Event, SegmentStartKind, SegmentStarts
<1>5. \A m \in 1 .. N : ev[m].kind \in SegmentEnds /\ ev[m].index = j => m = rb
  <2> TAKE m \in 1 .. N
  <2> HAVE ev[m].kind \in SegmentEnds /\ ev[m].index = j
  <2>1. ev[m] = Event(SegmentFileEnd(g), SegmentEndKind(g), j)
    BY <1>1, SegmentEventOrigin
  <2> QED
    BY <1>1, <1>3, <2>1
<1> HIDE DEF a, b, ev, N, E
<1>6. ASSUME NEW n \in 1 .. N, ra <= n, n < rb
      PROVE  j \in OpenSegments(ev, n)
  <2>1. ra \in 1 .. n /\ 1 .. n \in SUBSET (1 .. N) /\ rb \notin 1 .. n
    BY <1>1, <1>6
  <2>2. \A k \in 1 .. n : ev[k].kind \in SegmentEnds => ev[k].index # j
    BY <1>5, <2>1
  <2> QED
    BY <1>4, <2>1, <2>2 DEF OpenSegments
<1> QED
  BY <1>3, <1>6 DEF a, b, ev, N, E

\* A vacant gap shares no byte with a segment that is part of a LOAD.
LEMMA GapMissesSegment ==
  ASSUME NEW sections \in Seq(Section), NEW segments \in Seq(Segment),
         NEW n \in 2 .. Cardinality(FileEvents(sections, segments)),
         Vacant(Sorted(FileEvents(sections, segments)), n),
         NEW j \in DOMAIN segments, segments[j].kind # "Null",
         ~IsLoad(segments[j]), segments[j].file_size # 0,
         NEW k \in DOMAIN segments, IsLoad(segments[k]),
         segments[k].offset <= segments[j].offset,
         SegmentFileEnd(segments[j]) <= SegmentFileEnd(segments[k])
  PROVE  LET ev == Sorted(FileEvents(sections, segments))
         IN  \/ SegmentFileEnd(segments[j]) <= ev[n - 1].offset
             \/ ev[n].offset <= segments[j].offset
<1> DEFINE E == FileEvents(sections, segments)
           N == Cardinality(E)
           ev == Sorted(E)
           g == segments[j]
           h == segments[k]
<1>1. /\ N \in Nat
      /\ ev \in [1 .. N -> E]
      /\ \A l, m \in 1 .. N : l <= m => ev[l].offset <= ev[m].offset
  BY FileEventsType, SortedProperties
<1>2. \A m \in 1 .. N : ev[m].offset \in Nat
  BY <1>1, FileEventsType DEF EventType
<1>3. n \in 1 .. N /\ n - 1 \in 1 .. N
  BY <1>1
<1>4. PICK ja, jb \in 1 .. N :
        /\ ev[ja] = Event(g.offset, SegmentStartKind(g), j)
        /\ ev[jb] = Event(SegmentFileEnd(g), SegmentEndKind(g), j)
        /\ \A m \in 1 .. N : ja <= m /\ m < jb => j \in OpenSegments(ev, m)
  BY SegmentIsOpen
<1>5. h.kind # "Null"
  BY DEF IsLoad
<1>6. PICK ka, kb \in 1 .. N :
        /\ ev[ka] = Event(h.offset, SegmentStartKind(h), k)
        /\ ev[kb] = Event(SegmentFileEnd(h), SegmentEndKind(h), k)
        /\ \A m \in 1 .. N : ka <= m /\ m < kb => k \in OpenSegments(ev, m)
  BY <1>5, SegmentIsOpen
<1>7. g \in Segment /\ h \in Segment
  OBVIOUS
<1>8. /\ g.offset \in Nat /\ SegmentFileEnd(g) \in Nat
      /\ h.offset \in Nat /\ SegmentFileEnd(h) \in Nat
  BY <1>7, EndsAreNatural
<1>9. /\ ev[jb].kind = SegmentEnd
      /\ h.offset <= g.offset /\ SegmentFileEnd(g) <= SegmentFileEnd(h)
  BY <1>4 DEF Event, SegmentEndKind
<1>10. /\ ev[ja].offset = g.offset /\ ev[jb].offset = SegmentFileEnd(g)
       /\ ev[ka].offset = h.offset /\ ev[kb].offset = SegmentFileEnd(h)
  BY <1>4, <1>6 DEF Event
<1>11. ev[kb].kind \in {LoadSegmentEnd, EmptySegmentEnd}
  BY <1>6 DEF Event, SegmentEndKind
<1>12. \/ /\ ev[n].kind = SectionStart
          /\ Cardinality(OpenSegments(ev, n)) = 1
       \/ /\ ev[n].kind = LoadSegmentEnd
          /\ OpenSegments(ev, n) = {}
  BY DEF Vacant
<1>13. j # k
  OBVIOUS
<1>14. ev[n].offset \in Nat /\ ev[n - 1].offset \in Nat
  BY <1>2, <1>3
<1>15. SUFFICES ASSUME ev[n - 1].offset < SegmentFileEnd(g),
                       g.offset < ev[n].offset
                PROVE  FALSE
  <2>1. \A a, b \in Nat : ~(a < b) => b <= a
    OBVIOUS
  <2>2. \/ ~(ev[n - 1].offset < SegmentFileEnd(g))
        \/ ~(g.offset < ev[n].offset)
    BY <1>15
  <2> HIDE DEF ev, g
  <2>3. \/ SegmentFileEnd(g) <= ev[n - 1].offset
        \/ ev[n].offset <= g.offset
    BY <1>8, <1>14, <2>1, <2>2
  <2> QED
    BY <2>3 DEF ev, g
<1> HIDE DEF ev, N, E, g, h
<1>16. ja < n /\ ka < n /\ n <= jb /\ n <= kb
  <2>0. \A l, m \in 1 .. N : ev[l].offset < ev[m].offset => l < m
    <3> SUFFICES ASSUME NEW l \in 1 .. N, NEW m \in 1 .. N, m <= l
                 PROVE  ~(ev[l].offset < ev[m].offset)
      BY <1>1
    <3>1. ev[m].offset <= ev[l].offset
      BY <1>1
    <3>2. ev[m].offset \in Nat /\ ev[l].offset \in Nat
      BY <1>2
    <3>3. \A v, w \in Nat : v <= w => ~(w < v)
      OBVIOUS
    <3> QED
      BY <3>1, <3>2, <3>3
  <2>1. \A m \in 1 .. N : ev[m].offset < ev[n].offset => m < n
    BY <1>3, <2>0
  <2>2. \A m \in 1 .. N : ev[n - 1].offset < ev[m].offset => n <= m
    BY <1>3, <2>0
  <2>3. ev[ka].offset < ev[n].offset /\ ev[n - 1].offset < ev[kb].offset
    <3>1. \A a, b, c \in Nat : (a <= b /\ b < c => a < c)
                               /\ (a < b /\ b <= c => a < c)
      OBVIOUS
    <3> QED
      BY <1>8, <1>9, <1>10, <1>14, <1>15, <3>1
  <2> QED
    BY <1>10, <1>15, <2>1, <2>2, <2>3
<1>17. jb # n
  BY <1>9, <1>12 DEF SegmentEnd, SectionStart, LoadSegmentEnd
<1>18. j \in OpenSegments(ev, n)
  BY <1>3, <1>4, <1>16, <1>17
<1>19. ev[n].kind = SectionStart /\ Cardinality(OpenSegments(ev, n)) = 1
  BY <1>12, <1>18
<1>20. kb # n
  BY <1>11, <1>19 DEF EmptySegmentEnd, SectionStart, LoadSegmentEnd
<1>21. k \in OpenSegments(ev, n)
  BY <1>3, <1>6, <1>16, <1>20
<1>22. \E x : OpenSegments(ev, n) = {x}
  <2>1. IsFiniteSet(OpenSegments(ev, n))
    <3> DEFINE f == [m \in 1 .. n |-> ev[m].index]
    <3>1. IsFiniteSet(1 .. n)
      BY <1>1, <1>3, FS_Interval
    <3>2. IsFiniteSet({f[m] : m \in 1 .. n})
      BY <3>1, FiniteImage
    <3>3. OpenSegments(ev, n) \in SUBSET {f[m] : m \in 1 .. n}
      BY DEF OpenSegments
    <3> QED
      BY <3>2, <3>3, FS_Subset
  <2> QED
    BY <1>19, <2>1, FS_Singleton
<1> QED
  BY <1>13, <1>18, <1>21, <1>22

\* current_load_segment is a place in the program header.
LEMMA CurrentLoadExists ==
  ASSUME NEW sections \in Seq(Section), NEW segments \in Seq(Segment),
         NEW section,
         NEW n \in 1 .. Cardinality(FileEvents(sections, segments))
  PROVE  LET ev == Sorted(FileEvents(sections, segments))
         IN  CurrentLoad(ev, n, segments, section) # 0
               => CurrentLoad(ev, n, segments, section) \in DOMAIN segments
<1> DEFINE E == FileEvents(sections, segments)
           N == Cardinality(E)
           ev == Sorted(E)
           assigned == {m \in 1 .. n : \/ m = 1
                                       \/ Enters(ev, m, segments, section)
                                       \/ Leaves(ev, m)}
           last == Last(assigned)
<1>1. N \in Nat /\ ev \in [1 .. N -> E]
  BY FileEventsType, SortedProperties
<1>2. 1 \in 1 .. n /\ 1 .. n \in SUBSET (1 .. N) /\ n \in Nat
  BY <1>1
<1>3. assigned \in SUBSET Nat /\ assigned # {}
  <2> HIDE DEF ev
  <2>1. 1 \in assigned
    BY <1>2
  <2>2. assigned \in SUBSET (1 .. n)
    OBVIOUS
  <2> QED
    BY <1>2, <2>1, <2>2
<1>4. IsFiniteSet(assigned)
  <2>1. IsFiniteSet(1 .. n)
    BY <1>2, FS_Interval
  <2> QED
    BY <2>1, FS_Subset
<1>5. last \in assigned
  BY <1>3, <1>4, FirstAndLast
<1>6. last \in 1 .. N
  BY <1>2, <1>5
<1>7. ASSUME NEW m \in 1 .. N, ev[m].kind = LoadSegmentStart
      PROVE  ev[m].index \in DOMAIN segments
  BY <1>1, <1>7, EventOrigin DEF SegmentStarts
<1>8. ev[1].kind = LoadSegmentStart => 1 \in DOMAIN segments
  <2>1. ev[1].kind = LoadSegmentStart => DOMAIN segments # {}
    BY <1>2, <1>7
  <2> QED
    BY <2>1
<1>9. Enters(ev, last, segments, section)
        => ev[last].index \in DOMAIN segments
  BY <1>6, <1>7 DEF Enters
<1>10. CurrentLoad(ev, n, segments, section) =
         IF last = 1 THEN IF ev[1].kind = LoadSegmentStart THEN 1 ELSE 0
         ELSE IF Enters(ev, last, segments, section) THEN ev[last].index
         ELSE 0
  BY DEF CurrentLoad
<1> HIDE DEF last, ev
<1>11. CurrentLoad(ev, n, segments, section) # 0
         => CurrentLoad(ev, n, segments, section) \in DOMAIN segments
  BY <1>8, <1>9, <1>10
<1> QED
  BY <1>11 DEF ev, E

\* A vacant gap ends within the width of a word.
LEMMA VacantEndIsWord ==
  ASSUME NEW sections \in Seq(Section), NEW segments \in Seq(Segment),
         Fits(sections, segments),
         NEW n \in 1 .. Cardinality(FileEvents(sections, segments)),
         Vacant(Sorted(FileEvents(sections, segments)), n)
  PROVE  Sorted(FileEvents(sections, segments))[n].offset <= MaxWord
<1> DEFINE E == FileEvents(sections, segments)
           N == Cardinality(E)
           ev == Sorted(E)
<1>1. ev \in [1 .. N -> E]
  BY FileEventsType, SortedProperties
<1>2. ev[n] \in E
  BY <1>1
<1>3. ev[n].kind \in {SectionStart, LoadSegmentEnd}
  <2>1. Vacant(ev, n)
    OBVIOUS
  <2> HIDE DEF ev
  <2> QED
    BY <2>1 DEF Vacant
<1>4. CASE ev[n].kind = SectionStart
  <2>1. /\ ev[n].index \in DOMAIN sections
        /\ ev[n].offset = sections[ev[n].index].offset
    BY <1>2, <1>4, EventOrigin DEF Event
  <2>2. sections[ev[n].index] \in Section
    BY <2>1
  <2>3. sections[ev[n].index].offset \in 0 .. MaxWord
    BY <2>2 DEF Section, Word
  <2> HIDE DEF ev
  <2>4. ev[n].offset <= MaxWord
    BY <2>1, <2>3, MaxWordAssumption
  <2> QED
    BY <2>4 DEF ev
<1>5. CASE ev[n].kind = LoadSegmentEnd
  <2>1. /\ ev[n].index \in DOMAIN segments
        /\ IsLoad(segments[ev[n].index])
        /\ ev[n].offset = SegmentFileEnd(segments[ev[n].index])
    BY <1>2, <1>5, EventOrigin DEF SegmentEnds
  <2> QED
    BY <2>1 DEF Fits, FitsWord
<1> QED
  BY <1>3, <1>4, <1>5

(***************************************************************************)
(* What the allocations return.                                            *)
(***************************************************************************)

\* A well-formed LOAD segment behind all others.
Behind(load, segments) ==
  /\ load \in Segment
  /\ IsLoad(load)
  /\ load.address % PageSize = 0
  /\ \A j \in DOMAIN segments :
       IsLoad(segments[j]) =>
         /\ SegmentFileEnd(segments[j]) <= load.offset
         /\ AlignUp(SegmentMemoryEnd(segments[j])) <= load.address

\* The tables of segments an allocation may leave.
Grown(new, old) ==
  new = old \/ \E load \in Segment : Behind(load, old) /\ new = Append(old, load)

\* The offset is in a LOAD segment that was added behind everything else.
InNewLoad(offset, new, sections, segments) ==
  \E load \in Segment : /\ new = Append(segments, load) /\ IsLoad(load)
                        /\ PastAll(load.offset, sections, segments)
                        /\ load.offset <= offset

\* The section is between two events that the walk finds vacant.
InVacantGap(section, sections, segments) ==
  LET events == FileEvents(sections, segments)
      ev == Sorted(events)
  IN  \E n \in 2 .. Cardinality(events) :
        /\ Vacant(ev, n)
        /\ ev[n - 1].offset <= section.offset
        /\ SectionFileEnd(section) <= ev[n].offset

Requested(section) ==
  section \in Section /\ section.alloc /\ section.kind \notin {"Null", "NoBits"}

\* allocate_section: the tables it leaves are well-formed, and the section it
\* placed shares no byte of the file with another one.
LEMMA AllocateSectionProperties ==
  ASSUME NEW sections \in Seq(Section), NEW segments \in Seq(Segment),
         Fits(sections, segments), NEW section, Requested(section),
         AllocateSection(sections, segments, section).ok
  PROVE  LET result == AllocateSection(sections, segments, section)
         IN  /\ result.section \in Section
             /\ result.section.alloc = section.alloc
             /\ result.section.kind = section.kind
             /\ Grown(result.segments, segments)
             /\ \A i \in DOMAIN sections :
                  InFile(sections[i]) => Apart(sections[i], result.section)
             /\ \/ /\ result.segments = segments
                   /\ InVacantGap(result.section, sections, segments)
                \/ InNewLoad(result.section.offset, result.segments,
                             sections, segments)
<1> DEFINE E == FileEvents(sections, segments)
           N == Cardinality(E)
           ev == Sorted(E)
           gaps == Gaps(ev, segments, section)
           gap == First(gaps)
           load == NewLoad(sections, segments, section.size, section.size,
                           section.align, section.write)
           current == CurrentLoad(ev, gap, segments, section)
           start == NextMultiple(ev[gap - 1].offset, section.align)
           result == AllocateSection(sections, segments, section)
<1>1. /\ N \in Nat
      /\ ev \in [1 .. N -> E]
      /\ \A l, m \in 1 .. N : l <= m => ev[l].offset <= ev[m].offset
  BY FileEventsType, SortedProperties
<1>2. \A m \in 1 .. N : ev[m] \in E /\ ev[m].offset \in Nat
  BY <1>1, FileEventsType DEF EventType
<1>3. Len(ev) = N
  BY <1>1
<1>4. /\ section \in Section /\ section.alloc /\ section.kind # "Null"
      /\ section.kind # "NoBits" /\ section.size \in Word
      /\ section.align \in Word /\ section.write \in BOOLEAN
      /\ section.size \in Nat /\ section.align \in Nat
  BY EndsAreNatural DEF Requested, Section
<1>5. \A s, t, g : /\ g.address \in Nat /\ g.offset \in Word
                   /\ t \in Word /\ s = Placed(section, g, t)
                   => /\ s \in Section /\ s.offset = t /\ s.size = section.size
                      /\ s.kind = section.kind /\ s.alloc = section.alloc
                      /\ SectionFileEnd(s) = t + section.size
  <2> TAKE s, t, g
  <2> HAVE /\ g.address \in Nat /\ g.offset \in Word
           /\ t \in Word /\ s = Placed(section, g, t)
  <2> DEFINE x == g.address + t + (MaxWord + 1) - g.offset
  <2>1. x \in Nat /\ MaxWord + 1 \in Nat /\ MaxWord + 1 > 0
    <3>1. /\ g.address \in Nat /\ t \in Nat /\ MaxWord \in Nat
          /\ g.offset \in Nat /\ g.offset <= MaxWord
      BY MaxWordAssumption DEF Word
    <3> QED
      BY ONLY <3>1
  <2> HIDE DEF x
  <2>2. x % (MaxWord + 1) \in 0 .. (MaxWord + 1) - 1
    BY <2>1
  <2>3. x % (MaxWord + 1) \in Word
    BY <2>2, MaxWordAssumption DEF Word
  <2>4. s = [section EXCEPT !.offset = t, !.address = x % (MaxWord + 1)]
    BY DEF Placed, x
  <2>5. s \in Section
    BY <1>4, <2>3, <2>4 DEF Section
  <2>6. /\ s.offset = t /\ s.size = section.size
        /\ s.kind = section.kind /\ s.alloc = section.alloc
    BY <1>4, <2>4 DEF Section
  <2> QED
    BY <1>4, <2>5, <2>6 DEF SectionFileEnd
<1> HIDE DEF load, current, start, gap, gaps
<1>6. CASE gap # 0
  <2>1. gap \in gaps
    <3>1. gaps # {}
      BY <1>6 DEF gap, First
    <3>2. gaps \in SUBSET (2 .. N)
      BY <1>3 DEF gaps, Gaps
    <3>3. IsFiniteSet(2 .. N)
      BY <1>1, FS_Interval
    <3>4. IsFiniteSet(gaps)
      BY <3>2, <3>3, FS_Subset
    <3>5. gaps \in SUBSET Nat
      BY <1>1, <3>2
    <3> QED
      BY <3>1, <3>4, <3>5, FirstAndLast DEF gap
  <2>2. /\ gap \in 2 .. N /\ Vacant(ev, gap) /\ current # 0
        /\ Roomy(ev, gap, section.size, section.align)
    BY <1>3, <2>1 DEF gaps, Gaps, current
  <2>3. gap \in 1 .. N /\ gap - 1 \in 1 .. N
    BY <1>1, <2>2
  <2>4. current \in DOMAIN segments
    BY <2>2, <2>3, CurrentLoadExists DEF current
  <2>5. segments[current] \in Segment
    BY <2>4
  <2>6. segments[current].address \in Nat /\ segments[current].offset \in Word
    BY <2>5, EndsAreNatural DEF Segment
  <2>7. /\ start \in Nat /\ start >= ev[gap - 1].offset
        /\ start + section.size <= ev[gap].offset
    <3> DEFINE lo == ev[gap - 1].offset
               hi == ev[gap].offset
               padding == Padding(lo, section.align)
    <3>1. lo \in Nat /\ hi \in Nat
      BY <1>2, <2>3
    <3>2. padding \in Nat
      BY <1>4, <3>1, NextMultipleProperties
    <3>3. padding + section.size <= hi - lo
      BY <2>2 DEF Roomy
    <3>4. start = lo + padding
      BY DEF start, NextMultiple
    <3> HIDE DEF lo, hi, padding
    <3>5. /\ start \in Nat /\ start >= lo
          /\ start + section.size <= hi
      BY <1>4, <3>1, <3>2, <3>3, <3>4
    <3> QED
      BY <3>5 DEF lo, hi
  <2>8. ev[gap].offset <= MaxWord
    BY <2>2, <2>3, VacantEndIsWord
  <2>9. start \in Word
    <3>1. ev[gap].offset \in Nat
      BY <1>2, <2>3
    <3> QED
      BY <1>4, <2>7, <2>8, <3>1, MaxWordAssumption DEF Word
  <2>10. /\ result.section = Placed(section, segments[current], start)
         /\ result.segments = segments
    BY <1>6 DEF AllocateSection, current, start, gap, gaps
  <2>11. /\ result.section \in Section /\ result.section.offset = start
         /\ result.section.kind = section.kind
         /\ result.section.alloc = section.alloc
         /\ SectionFileEnd(result.section) = start + section.size
    BY <1>5, <2>6, <2>9, <2>10
  <2>13. ASSUME NEW i \in DOMAIN sections, InFile(sections[i])
         PROVE  Apart(sections[i], result.section)
    <3>1. \/ SectionFileEnd(sections[i]) <= ev[gap - 1].offset
          \/ ev[gap].offset <= sections[i].offset
      BY <2>2, <2>13, GapIsVacant
    <3>2. sections[i] \in Section
      OBVIOUS
    <3>3. sections[i].offset \in Nat /\ SectionFileEnd(sections[i]) \in Nat
      BY <3>2, EndsAreNatural
    <3>4. ev[gap].offset \in Nat /\ ev[gap - 1].offset \in Nat
      BY <1>2, <2>3
    <3> HIDE DEF ev, E, result
    <3>5. /\ ev[gap - 1].offset <= result.section.offset
          /\ SectionFileEnd(result.section) <= ev[gap].offset
      BY <1>4, <2>7, <2>11, <3>4
    <3>6. /\ result.section.offset \in Nat
          /\ SectionFileEnd(result.section) \in Nat
      BY <1>4, <2>7, <2>11
    <3> QED
      BY ONLY <3>1, <3>3, <3>4, <3>5, <3>6 DEF Apart
  <2>14. Grown(result.segments, segments)
    BY <2>10 DEF Grown
  <2>15. InVacantGap(result.section, sections, segments)
    BY <1>4, <2>2, <2>7, <2>11 DEF InVacantGap
  <2> QED
    BY <2>10, <2>11, <2>13, <2>14, <2>15
<1>7. CASE gap = 0
  <2> DEFINE padding == load.file_size - section.size
             place == load.offset + padding
  <2>1. /\ result.ok <=> (E # {} /\ Addressable(load, padding))
        /\ result.segments = Append(segments, load)
        /\ result.section = Placed(section, load, place)
    BY <1>7 DEF AllocateSection, load, gap, gaps
  <2>2. Addressable(load, padding)
    BY <2>1
  <2>3. /\ load.offset \in Nat /\ load.address \in Nat
        /\ load.file_size \in Nat
        /\ load.file_size >= section.size
        /\ load.address % PageSize = 0
        /\ IsLoad(load)
        /\ load \in Segment
        /\ \A i \in DOMAIN sections :
             InFile(sections[i])
               => SectionFileEnd(sections[i]) <= load.offset
        /\ \A j \in DOMAIN segments :
             segments[j].kind # "Null"
               => SegmentFileEnd(segments[j]) <= load.offset
        /\ \A j \in DOMAIN segments :
             IsLoad(segments[j])
               => AlignUp(SegmentMemoryEnd(segments[j])) <= load.address
        /\ PastAll(load.offset, sections, segments)
    BY <1>4, <2>2, NewLoadBehind DEF load
  <2>4. padding \in Nat
    BY <1>4, <2>3
  <2>5. place \in Word /\ place >= load.offset
    BY <2>2, <2>3, <2>4, MaxWordAssumption DEF Addressable, Word
  <2> HIDE DEF place
  <2>6. load.offset \in Word
    BY <2>3 DEF Segment
  <2>7. /\ result.section \in Section /\ result.section.offset = place
        /\ result.section.kind = section.kind
        /\ result.section.alloc = section.alloc
        /\ SectionFileEnd(result.section) = place + section.size
    BY <1>5, <2>1, <2>3, <2>5, <2>6
  <2>8. ASSUME NEW i \in DOMAIN sections, InFile(sections[i])
        PROVE  Apart(sections[i], result.section)
    <3>1. SectionFileEnd(sections[i]) <= load.offset
      BY <2>3, <2>8
    <3>2. sections[i] \in Section
      OBVIOUS
    <3>3. SectionFileEnd(sections[i]) \in Nat
      BY <3>2, EndsAreNatural
    <3>4. place \in Nat
      BY <2>5, MaxWordAssumption DEF Word
    <3> HIDE DEF result
    <3> QED
      BY <2>3, <2>5, <2>7, <3>1, <3>3, <3>4 DEF Apart
  <2>9. Behind(load, segments)
    BY <2>3 DEF Behind, IsLoad
  <2>10. Grown(result.segments, segments)
    BY <2>1, <2>3, <2>9 DEF Grown
  <2>11. InNewLoad(result.section.offset, result.segments, sections, segments)
    BY <2>1, <2>3, <2>5, <2>7 DEF InNewLoad
  <2> QED
    BY <2>5, <2>7, <2>8, <2>10, <2>11
<1> QED
  BY <1>6, <1>7

\* An allocation that succeeds was asked for a size that is a word: the section
\* it returns is well-typed whatever number the size was computed from.
LEMMA AllocatedSizeIsWord ==
  ASSUME NEW sections \in Seq(Section), NEW segments \in Seq(Segment),
         Fits(sections, segments), NEW section,
         section.size \in Nat, section.align \in Nat,
         AllocateSection(sections, segments, section).ok
  PROVE  section.size \in Word
<1> DEFINE E == FileEvents(sections, segments)
           N == Cardinality(E)
           ev == Sorted(E)
           gaps == Gaps(ev, segments, section)
           gap == First(gaps)
           load == NewLoad(sections, segments, section.size, section.size,
                           section.align, section.write)
<1>1. /\ N \in Nat
      /\ ev \in [1 .. N -> E]
      /\ Len(ev) = N
  BY FileEventsType, SortedProperties
<1>2. \A m \in 1 .. N : ev[m] \in E /\ ev[m].offset \in Nat
  <2>1. \A e \in E : e.offset \in Nat
    BY FileEventsType DEF EventType
  <2> HIDE DEF ev, E
  <2> QED
    BY <1>1, <2>1
<1>3. CASE gap # 0
  <2>1. gap \in gaps
    <3>1. gaps # {}
      BY <1>3 DEF First
    <3>2. gaps \in SUBSET (2 .. N)
      BY <1>1 DEF Gaps
    <3>3. IsFiniteSet(2 .. N)
      BY <1>1, FS_Interval
    <3>4. IsFiniteSet(gaps) /\ gaps \in SUBSET Nat
      BY <1>1, <3>2, <3>3, FS_Subset
    <3> HIDE DEF gaps
    <3> QED
      BY <3>1, <3>4, FirstAndLast
  <2>2. /\ gap \in 2 .. N /\ Vacant(ev, gap)
        /\ Roomy(ev, gap, section.size, section.align)
    BY <1>1, <2>1 DEF Gaps
  <2> HIDE DEF gap, ev, E
  <2>3. gap \in 1 .. N /\ gap - 1 \in 1 .. N
    BY <1>1, <2>2
  <2>4. ev[gap].offset <= MaxWord
    BY <1>2, <2>2, <2>3, VacantEndIsWord DEF ev, E
  <2>5. Padding(ev[gap - 1].offset, section.align) \in Nat
    BY <1>2, <2>3, NextMultipleProperties
  <2>6. section.size <= ev[gap].offset
    <3> DEFINE lo == ev[gap - 1].offset
               hi == ev[gap].offset
               padding == Padding(lo, section.align)
    <3>1. lo \in Nat /\ hi \in Nat /\ padding \in Nat
      BY <1>2, <2>3, <2>5
    <3>2. padding + section.size <= hi - lo
      BY <2>2 DEF Roomy
    <3> HIDE DEF lo, hi, padding
    <3>3. section.size <= hi
      BY <3>1, <3>2
    <3> QED
      BY <3>3 DEF hi
  <2> QED
    BY <1>2, <2>3, <2>4, <2>6, MaxWordAssumption DEF Word
<1>4. CASE gap = 0
  <2>1. load.file_size <= MaxWord
    BY <1>4 DEF AllocateSection, Addressable
  <2> DEFINE offset == NextMultiple(LastOffset(E, HeaderLen), PageSize)
             padding == Padding(offset, section.align)
  <2>2. LastOffset(E, HeaderLen) \in Nat
    BY FileEventsType, LastOffsetBound, LengthsAssumption
  <2>3. offset \in Nat
    BY <2>2, NextMultipleProperties, PageSizeAssumption
  <2>4. padding \in Nat
    BY <2>3, NextMultipleProperties
  <2>5. load.file_size = padding + section.size
    BY DEF NewLoad
  <2> HIDE DEF load, offset, padding
  <2>6. padding + section.size <= MaxWord
    BY <2>1, <2>5
  <2> QED
    BY <2>4, <2>6, MaxWordAssumption DEF Word
<1> QED
  BY <1>3, <1>4

\* The same of a segment.
LEMMA AllocatedLengthIsWord ==
  ASSUME NEW sections \in Seq(Section), NEW segments \in Seq(Segment),
         NEW segment,
         segment.file_size \in Nat, segment.memory_size \in Nat,
         segment.align \in Nat,
         AllocateSegment(sections, segments, segment).ok
  PROVE  segment.file_size \in Word /\ segment.memory_size \in Word
<1> DEFINE F == FileEvents(sections, segments)
           load == NewLoad(sections, segments, segment.file_size,
                           segment.memory_size, segment.align, segment.write)
           offset == NextMultiple(LastOffset(F, HeaderLen), PageSize)
           padding == Padding(offset, segment.align)
<1>1. load.file_size <= MaxWord /\ load.memory_size <= MaxWord
  BY DEF AllocateSegment, Addressable
<1>2. LastOffset(F, HeaderLen) \in Nat
  BY FileEventsType, LastOffsetBound, LengthsAssumption
<1>3. offset \in Nat
  BY <1>2, NextMultipleProperties, PageSizeAssumption
<1>4. padding \in Nat
  BY <1>3, NextMultipleProperties
<1>5. /\ load.file_size = padding + segment.file_size
      /\ load.memory_size = padding + segment.memory_size
  BY DEF NewLoad
<1> HIDE DEF load, offset, padding
<1>6. /\ padding + segment.file_size <= MaxWord
      /\ padding + segment.memory_size <= MaxWord
  BY <1>1, <1>5
<1> QED
  BY <1>4, <1>6, MaxWordAssumption DEF Word

\* allocate_segment: the segment is well-formed and gets a LOAD segment of its
\* own behind all others.
LEMMA AllocateSegmentProperties ==
  ASSUME NEW sections \in Seq(Section), NEW segments \in Seq(Segment),
         NEW segment \in Segment,
         AllocateSegment(sections, segments, segment).ok
  PROVE  LET result == AllocateSegment(sections, segments, segment)
         IN  /\ result.segment \in Segment
             /\ result.segment.kind = segment.kind
             /\ result.segment.file_size = segment.file_size
             /\ Grown(result.segments, segments)
             /\ InNewLoad(result.segment.offset, result.segments,
                          sections, segments)
<1> DEFINE load == NewLoad(sections, segments, segment.file_size,
                           segment.memory_size, segment.align, segment.write)
           result == AllocateSegment(sections, segments, segment)
           padding == load.file_size - segment.file_size
<1>1. /\ segment.file_size \in Word /\ segment.memory_size \in Word
      /\ segment.align \in Word /\ segment.write \in BOOLEAN
      /\ segment.file_size \in Nat /\ segment.memory_size \in Nat
  BY MaxWordAssumption DEF Segment, Word
<1> HIDE DEF load
<1>2. /\ result.ok = Addressable(load, padding)
      /\ result.segments = Append(segments, load)
      /\ result.segment = [segment EXCEPT !.offset = load.offset + padding,
                                          !.address = load.address + padding]
  BY DEF AllocateSegment, load
<1>3. Addressable(load, padding)
  BY <1>2
<1>4. /\ load.offset \in Nat /\ load.address \in Nat
      /\ load.file_size \in Nat /\ load.memory_size \in Nat
      /\ load.file_size >= segment.file_size
      /\ load.memory_size >= segment.memory_size
      /\ load.memory_size - segment.memory_size = padding
      /\ load.address % PageSize = 0
      /\ IsLoad(load)
      /\ load \in Segment
      /\ \A j \in DOMAIN segments :
           segments[j].kind # "Null"
             => SegmentFileEnd(segments[j]) <= load.offset
      /\ \A j \in DOMAIN segments :
           IsLoad(segments[j])
             => AlignUp(SegmentMemoryEnd(segments[j])) <= load.address
      /\ PastAll(load.offset, sections, segments)
  BY <1>1, <1>3, NewLoadBehind DEF load
<1>5. load.offset + padding \in Word /\ load.address + padding \in Word
  <2>1. padding \in Nat
    BY <1>1, <1>4
  <2> HIDE DEF padding
  <2> QED
    BY <1>3, <1>4, <2>1, MaxWordAssumption DEF Addressable, Word
<1>6. /\ result.segment \in Segment /\ result.segment.kind = segment.kind
      /\ result.segment.file_size = segment.file_size
      /\ result.segment.offset = load.offset + padding
  <2> HIDE DEF result, padding
  <2> QED
    BY <1>2, <1>5 DEF Segment
<1>7. Behind(load, segments)
  BY <1>4 DEF Behind, IsLoad
<1>8. InNewLoad(result.segment.offset, result.segments, sections, segments)
  BY <1>1, <1>2, <1>4, <1>6 DEF InNewLoad
<1>9. Grown(result.segments, segments)
  BY <1>2, <1>4, <1>7 DEF Grown
<1> QED
  BY <1>6, <1>8, <1>9

\* allocate_file_space: the place shares no byte with anything in the file, and
\* is not before the first event.
LEMMA FileSpaceProperties ==
  ASSUME NEW sections \in Seq(Section), NEW segments \in Seq(Segment),
         NEW size \in Nat, NEW align \in Nat
  PROVE  LET place == AllocateFileSpace(sections, segments, size, align)
             events == FileEvents(sections, segments)
         IN  /\ place \in Nat
             /\ \A i \in DOMAIN sections :
                  InFile(sections[i])
                    => \/ SectionFileEnd(sections[i]) <= place
                       \/ place + size <= sections[i].offset
             /\ \A j \in DOMAIN segments :
                  segments[j].kind # "Null" /\ segments[j].file_size # 0
                    => \/ SegmentFileEnd(segments[j]) <= place
                       \/ place + size <= segments[j].offset
             /\ events # {} => \E e \in events : e.offset <= place
             /\ events = {} => place >= HeaderLen
<1> DEFINE E == FileEvents(sections, segments)
           N == Cardinality(E)
           ev == Sorted(E)
           gaps == FileGaps(ev, size, align)
           gap == First(gaps)
           place == AllocateFileSpace(sections, segments, size, align)
<1>1. /\ N \in Nat /\ ev \in [1 .. N -> E] /\ Len(ev) = N
      /\ \A l, m \in 1 .. N : l <= m => ev[l].offset <= ev[m].offset
  BY FileEventsType, SortedProperties
<1>2. \A m \in 1 .. N : ev[m] \in E /\ ev[m].offset \in Nat
  BY <1>1, FileEventsType DEF EventType
<1>3. \A i \in DOMAIN sections : /\ sections[i].offset \in Nat
                                 /\ SectionFileEnd(sections[i]) \in Nat
  BY EndsAreNatural
<1>4. \A j \in DOMAIN segments : /\ segments[j].offset \in Nat
                                 /\ SegmentFileEnd(segments[j]) \in Nat
  BY EndsAreNatural
<1>5. CASE gap # 0
  <2>1. gaps \in SUBSET (2 .. N) /\ gaps # {}
    BY <1>1, <1>5 DEF FileGaps, First
  <2>2. gaps \in SUBSET Nat /\ IsFiniteSet(gaps)
    <3>1. IsFiniteSet(2 .. N) /\ (2 .. N) \in SUBSET Nat
      BY <1>1, FS_Interval
    <3> QED
      BY <2>1, <3>1, FS_Subset
  <2>3. gap \in gaps
    BY <2>1, <2>2, FirstAndLast
  <2>4. /\ gap \in 2 .. N
        /\ OpenSections(ev, gap - 1) = {}
        /\ OpenSegments(ev, gap - 1) = {}
        /\ Roomy(ev, gap, size, align)
    BY <1>1, <2>3 DEF FileGaps
  <2>5. gap \in 1 .. N /\ gap - 1 \in 1 .. N
    BY <1>1, <2>4
  <2>6. place = NextMultiple(ev[gap - 1].offset, align)
    BY <1>5 DEF AllocateFileSpace
  <2> DEFINE lo == ev[gap - 1].offset
             hi == ev[gap].offset
             padding == Padding(lo, align)
  <2>7. lo \in Nat /\ hi \in Nat
    BY <1>2, <2>5
  <2>8. padding \in Nat
    BY <2>7, NextMultipleProperties
  <2>9. padding + size <= hi - lo /\ place = lo + padding
    BY <2>4, <2>6 DEF Roomy, NextMultiple
  <2> HIDE DEF lo, hi, padding, place
  <2>10. place \in Nat /\ lo <= place /\ place + size <= hi
    BY <2>7, <2>8, <2>9
  <2>11. ASSUME NEW i \in DOMAIN sections, InFile(sections[i])
         PROVE  \/ SectionFileEnd(sections[i]) <= place
                \/ place + size <= sections[i].offset
    <3>1. PICK ra, rb \in 1 .. N :
            /\ ev[ra] = Event(sections[i].offset, SectionStart, i)
            /\ ev[rb] = Event(SectionFileEnd(sections[i]), SectionEnd, i)
            /\ \A n \in 1 .. N :
                 ra <= n /\ n < rb => i \in OpenSections(ev, n)
      BY <2>11, SectionIsOpen
    <3>2. /\ ev[ra].offset = sections[i].offset
          /\ ev[rb].offset = SectionFileEnd(sections[i])
      BY <3>1 DEF Event
    <3>3. ~(ra <= gap - 1 /\ gap - 1 < rb)
      BY <2>4, <2>5, <3>1
    <3>4. gap <= ra \/ rb <= gap - 1
      BY <1>1, <2>5, <3>3
    <3>5. hi <= ev[ra].offset \/ ev[rb].offset <= lo
      BY <1>1, <2>5, <3>4 DEF hi, lo
    <3> HIDE DEF ev, E, N
    <3> QED
      BY <1>3, <2>7, <2>10, <3>2, <3>5
  <2>12. ASSUME NEW j \in DOMAIN segments, segments[j].kind # "Null"
         PROVE  \/ SegmentFileEnd(segments[j]) <= place
                \/ place + size <= segments[j].offset
    <3> DEFINE g == segments[j]
    <3>1. PICK ra, rb \in 1 .. N :
            /\ ev[ra] = Event(g.offset, SegmentStartKind(g), j)
            /\ ev[rb] = Event(SegmentFileEnd(g), SegmentEndKind(g), j)
            /\ \A n \in 1 .. N :
                 ra <= n /\ n < rb => j \in OpenSegments(ev, n)
      BY <2>12, SegmentIsOpen
    <3>2. ev[ra].offset = g.offset /\ ev[rb].offset = SegmentFileEnd(g)
      BY <3>1 DEF Event
    <3>3. ~(ra <= gap - 1 /\ gap - 1 < rb)
      BY <2>4, <2>5, <3>1
    <3>4. gap <= ra \/ rb <= gap - 1
      BY <1>1, <2>5, <3>3
    <3>5. hi <= ev[ra].offset \/ ev[rb].offset <= lo
      BY <1>1, <2>5, <3>4 DEF hi, lo
    <3>6. g.offset \in Nat /\ SegmentFileEnd(g) \in Nat
      BY <1>4
    <3> HIDE DEF ev, E, N, g
    <3>7. SegmentFileEnd(g) <= place \/ place + size <= g.offset
      BY <2>7, <2>10, <3>2, <3>5, <3>6
    <3> QED
      BY <3>7 DEF g
  <2>13. \E e \in E : e.offset <= place
    BY <1>2, <2>5, <2>10 DEF lo
  <2> QED
    BY <2>10, <2>11, <2>12, <2>13 DEF place
<1>6. CASE gap = 0
  <2> DEFINE last == LastOffset(E, HeaderLen)
  <2>1. last \in Nat /\ \A e \in E : e.offset <= last
    BY FileEventsType, LastOffsetBound, LengthsAssumption
  <2>2. place = NextMultiple(last, align)
    BY <1>6 DEF AllocateFileSpace
  <2>3. E = {} => last = HeaderLen
    BY DEF LastOffset
  <2> HIDE DEF last, place
  <2>4. place \in Nat /\ last <= place
    BY <2>1, <2>2, NextMultipleProperties
  <2>5. ASSUME NEW i \in DOMAIN sections, InFile(sections[i])
        PROVE  SectionFileEnd(sections[i]) <= place
    <3>1. Event(SectionFileEnd(sections[i]), SectionEnd, i) \in E
      BY <2>5 DEF FileEvents, SectionEvents
    <3>2. SectionFileEnd(sections[i]) <= last
      BY <2>1, <3>1 DEF Event
    <3> QED
      BY <1>3, <2>1, <2>4, <3>2
  <2>6. ASSUME NEW j \in DOMAIN segments, segments[j].kind # "Null"
        PROVE  SegmentFileEnd(segments[j]) <= place
    <3>1. Event(SegmentFileEnd(segments[j]), SegmentEndKind(segments[j]), j)
            \in E
      BY <2>6 DEF FileEvents, SegmentEvents
    <3>2. SegmentFileEnd(segments[j]) <= last
      BY <2>1, <3>1 DEF Event
    <3> QED
      BY <1>4, <2>1, <2>4, <3>2
  <2>7. \A e \in E : e.offset \in Nat /\ e.offset <= place
    BY <2>1, <2>4, FileEventsType DEF EventType
  <2> QED
    BY <2>3, <2>4, <2>5, <2>6, <2>7 DEF place
<1> QED
  BY <1>5, <1>6

(***************************************************************************)
(* Sound tables, and the operations that keep them sound.                  *)
(***************************************************************************)

\* A table of segments and a table of sections that nothing is wrong with,
\* but for ends that may exceed a word.
SoundSegments(table) == table \in Seq(Segment) /\ LoadsApart(table)

SoundSections(table) == table \in Seq(Section) /\ SectionsApart(table)

(***************************************************************************)
(* Operations on the segments.                                             *)
(***************************************************************************)

\* A table whose LOAD segments all come from distinct places of a sound table
\* is sound.
LEMMA LoadsFromSound ==
  ASSUME NEW s, SoundSegments(s),
         NEW t \in Seq(Segment),
         NEW f \in [DOMAIN t -> Nat],
         \A m, n \in DOMAIN t : f[m] = f[n] => m = n,
         \A n \in DOMAIN t :
           IsLoad(t[n]) => f[n] \in DOMAIN s /\ t[n] = s[f[n]]
  PROVE  SoundSegments(t)
BY DEF SoundSegments, LoadsApart

\* Keeping some entries of a sound table, in any order, leaves it sound:
\* ProgramHeader::finish, Vec::remove and Vec::retain.
LEMMA SelectionIsSound ==
  ASSUME NEW s, SoundSegments(s), NEW t \in Seq(Segment), IsSelection(t, s)
  PROVE  SoundSegments(t)
<1>1. PICK f \in [DOMAIN t -> DOMAIN s] :
        /\ \A m, n \in DOMAIN t : f[m] = f[n] => m = n
        /\ \A n \in DOMAIN t : t[n] = s[f[n]]
  BY DEF IsSelection
<1>2. DOMAIN s \in SUBSET Nat
  BY DEF SoundSegments
<1>3. f \in [DOMAIN t -> Nat]
  BY <1>1, <1>2
<1> QED
  BY <1>1, <1>3, LoadsFromSound

\* A sound table stays sound when a segment is added that is not a LOAD.
LEMMA AppendOtherIsSound ==
  ASSUME NEW s, SoundSegments(s), NEW g \in Segment, ~IsLoad(g)
  PROVE  SoundSegments(Append(s, g))
<1> DEFINE t == Append(s, g)
           f == [n \in DOMAIN t |-> n]
<1>1. s \in Seq(Segment) /\ t \in Seq(Segment)
  BY DEF SoundSegments
<1>2. /\ DOMAIN t = 1 .. Len(s) + 1 /\ DOMAIN s = 1 .. Len(s) /\ Len(s) \in Nat
      /\ \A n \in DOMAIN s : t[n] = s[n]
      /\ t[Len(s) + 1] = g
  BY <1>1
<1> HIDE DEF t
<1>3. f \in [DOMAIN t -> Nat] /\ \A n \in DOMAIN t : f[n] = n
  BY <1>2
<1>4. ASSUME NEW n \in DOMAIN t, IsLoad(t[n])
      PROVE  n \in DOMAIN s /\ t[n] = s[n]
  BY <1>2, <1>4
<1> HIDE DEF f
<1>5. SoundSegments(t)
  BY <1>1, <1>3, <1>4, LoadsFromSound
<1> QED
  BY <1>5 DEF t

\* ProgramHeader::add, which takes the place of a NULL segment when there is one,
\* leaves a sound table sound when the segment it adds is not a LOAD.
LEMMA AddSegmentIsSound ==
  ASSUME NEW s, SoundSegments(s), NEW g \in Segment, ~IsLoad(g)
  PROVE  SoundSegments(AddSegment(s, g))
<1>1. CASE Positions(s, "Null") = {}
  BY <1>1, AppendOtherIsSound DEF AddSegment
<1>2. CASE Positions(s, "Null") # {}
  <2> DEFINE k == First(Positions(s, "Null"))
             t == [s EXCEPT ![k] = g]
             f == [n \in DOMAIN t |-> n]
  <2>1. s \in Seq(Segment)
    BY DEF SoundSegments
  <2>2. Positions(s, "Null") \in SUBSET DOMAIN s
    BY DEF Positions
  <2>3. IsFiniteSet(Positions(s, "Null")) /\ Positions(s, "Null") \in SUBSET Nat
    BY <2>1, <2>2, SequenceDomain
  <2>4. k \in DOMAIN s
    BY <1>2, <2>2, <2>3, FirstAndLast
  <2> HIDE DEF k
  <2>5. t \in Seq(Segment) /\ DOMAIN t = DOMAIN s
        /\ DOMAIN s \in SUBSET Nat
    BY <2>1, <2>4
  <2>6. f \in [DOMAIN t -> Nat] /\ \A n \in DOMAIN t : f[n] = n
    BY <2>5
  <2>7. ASSUME NEW n \in DOMAIN t, IsLoad(t[n])
        PROVE  n \in DOMAIN s /\ t[n] = s[n]
    BY <2>4, <2>5, <2>7
  <2> HIDE DEF t, f
  <2>8. SoundSegments(t)
    BY <2>5, <2>6, <2>7, LoadsFromSound
  <2> QED
    BY <1>2, <2>8 DEF AddSegment, t, k
<1> QED
  BY <1>1, <1>2

\* The program header allocate_section and allocate_segment leave, the old one
\* with at most one LOAD segment more, is sound.
LEMMA GrownIsSound ==
  ASSUME NEW s, SoundSegments(s), NEW t, Grown(t, s)
  PROVE  SoundSegments(t)
<1>1. CASE t = s
  BY <1>1
<1>2. CASE \E load \in Segment : Behind(load, s) /\ t = Append(s, load)
  <2>1. PICK load \in Segment : Behind(load, s) /\ t = Append(s, load)
    BY <1>2
  <2>2. s \in Seq(Segment) /\ t \in Seq(Segment)
    BY <2>1 DEF SoundSegments
  <2> DEFINE last == Len(s) + 1
  <2>3. /\ DOMAIN t = DOMAIN s \cup {last} /\ last \notin DOMAIN s
        /\ \A n \in DOMAIN s : t[n] = s[n]
        /\ t[last] = load
    BY <2>1, <2>2
  <2> HIDE DEF last
  <2>5. AlignDown(load.address) = load.address
    <3>1. load.address \in Nat
      BY EndsAreNatural
    <3> QED
      BY <2>1, <3>1, PageProperties DEF Behind
  <2>6. ASSUME NEW n \in DOMAIN s, IsLoad(s[n])
        PROVE  FileDisjoint(s[n], load) /\ PagesDisjoint(s[n], load)
    BY <2>1, <2>5, <2>6 DEF Behind, FileDisjoint, PagesDisjoint
  <2>7. ASSUME NEW n \in DOMAIN s, IsLoad(s[n])
        PROVE  FileDisjoint(load, s[n]) /\ PagesDisjoint(load, s[n])
    BY <2>6, <2>7 DEF FileDisjoint, PagesDisjoint
  <2>8. LoadsApart(s)
    BY DEF SoundSegments
  <2>9. LoadsApart(t)
    BY <2>3, <2>6, <2>7, <2>8 DEF LoadsApart
  <2> QED
    BY <2>2, <2>9 DEF SoundSegments
<1> QED
  BY <1>1, <1>2 DEF Grown

\* A sound table stays sound when a segment that is not a LOAD gets another length,
\* as the DYNAMIC segment does in remove_dynamic_tag.
LEMMA ResizedIsSound ==
  ASSUME NEW s, SoundSegments(s), NEW k \in DOMAIN s, ~IsLoad(s[k]),
         NEW size \in Word
  PROVE  SoundSegments([s EXCEPT ![k].file_size = size,
                                ![k].memory_size = size])
<1> DEFINE g == [s[k] EXCEPT !.file_size = size, !.memory_size = size]
           t == [s EXCEPT ![k].file_size = size, ![k].memory_size = size]
<1>1. s \in Seq(Segment) /\ s[k] \in Segment
  BY DEF SoundSegments
<1>2. g \in Segment /\ ~IsLoad(g)
  BY <1>1 DEF Segment, IsLoad
<1>3. t = [s EXCEPT ![k] = g]
  BY <1>1
<1> HIDE DEF g, t
<1>4. /\ t \in Seq(Segment) /\ DOMAIN t = DOMAIN s /\ t[k] = g
      /\ \A n \in DOMAIN s : n # k => t[n] = s[n]
  BY <1>1, <1>2, <1>3
<1> DEFINE f == [n \in DOMAIN t |-> n]
<1>5. f \in [DOMAIN t -> Nat] /\ \A n \in DOMAIN t : f[n] = n
  BY <1>1, <1>4
<1>6. \A n \in DOMAIN t : IsLoad(t[n]) => n \in DOMAIN s /\ t[n] = s[n]
  BY <1>2, <1>4
<1> HIDE DEF f
<1>7. SoundSegments(t)
  <2>1. \A m, n \in DOMAIN t : f[m] = f[n] => m = n
    BY <1>5
  <2>2. \A n \in DOMAIN t :
          IsLoad(t[n]) => f[n] \in DOMAIN s /\ t[n] = s[f[n]]
    BY <1>5, <1>6
  <2> QED
    BY <1>4, <1>5, <2>1, <2>2, LoadsFromSound
<1> QED
  BY <1>7 DEF t

\* The segment over a section is well-typed and not a LOAD.
LEMMA OverlayIsSegment ==
  ASSUME NEW s \in Section, NEW kind \in {"Interpreter", "Dynamic"}
  PROVE  OverlaySegment(s, kind) \in Segment /\ ~IsLoad(OverlaySegment(s, kind))
  BY DEF OverlaySegment, Section, Segment, SegmentKinds, IsLoad

(***************************************************************************)
(* Operations on the sections.                                             *)
(***************************************************************************)

\* A sound section header stays sound when SectionHeader::free clears a slot.
LEMMA FreeSectionIsSound ==
  ASSUME NEW s, SoundSections(s), NEW I
  PROVE  SoundSections(FreeSections(s, I))
<1> DEFINE t == FreeSections(s, I)
<1>1. NullSection \in Section /\ SectionFileEnd(NullSection) = 0
      /\ ~InFile(NullSection)
  BY NamesAssumption, MaxWordAssumption
     DEF NullSection, Section, SectionKinds, Word, SectionFileEnd, InFile
<1>2. s \in Seq(Section) /\ DOMAIN s = 1 .. Len(s) /\ Len(s) \in Nat
  BY DEF SoundSections
<1>3. DOMAIN t = DOMAIN s
      /\ \A n \in DOMAIN s : t[n] = IF n \in I THEN NullSection ELSE s[n]
  BY DEF FreeSections
<1> HIDE DEF t
<1>4. t \in Seq(Section)
  <2>1. t = [n \in 1 .. Len(s) |-> t[n]]
    BY <1>2, <1>3 DEF t, FreeSections
  <2>2. \A n \in 1 .. Len(s) : t[n] \in Section
    BY <1>1, <1>2, <1>3
  <2> QED
    BY <1>2, <2>1, <2>2
<1>6. SectionsApart(t)
  BY <1>1, <1>3 DEF SoundSections, SectionsApart
<1> QED
  BY <1>4, <1>6 DEF SoundSections, t

\* A sound section header stays sound when SectionHeader::add puts a section that
\* shares no byte with another one into a slot.
LEMMA AddSectionIsSound ==
  ASSUME NEW s, SoundSections(s),
         NEW section \in Section,
         \A i \in DOMAIN s : InFile(s[i]) => Apart(s[i], section)
  PROVE  SoundSections(AddSection(s, section))
<1> DEFINE slot == SpareSlot(s)
           last == IF slot > Len(s) THEN slot ELSE Len(s)
           t == AddSection(s, section)
<1>1. s \in Seq(Section) /\ Len(s) \in Nat /\ DOMAIN s = 1 .. Len(s)
  BY DEF SoundSections
<1>2. slot \in Nat /\ last \in Nat
  <2> DEFINE null == Positions(s, "Null") \ {1}
  <2>1. null \in SUBSET DOMAIN s
    BY DEF Positions
  <2>2. IsFiniteSet(null) /\ null \in SUBSET Nat
    BY <1>1, <2>1, SequenceDomain
  <2>3. null # {} => First(null) \in Nat
    BY <2>2, FirstAndLast
  <2> HIDE DEF null
  <2>4. slot = IF null # {} THEN First(null)
               ELSE IF s = <<>> THEN 2 ELSE Len(s) + 1
    BY DEF SpareSlot, null
  <2>5. slot \in Nat
    BY <1>1, <2>3, <2>4
  <2> QED
    BY <1>1, <2>5
<1> HIDE DEF slot
<1>3. t = [i \in 1 .. last |-> IF i = slot THEN section
                               ELSE IF i \in DOMAIN s THEN s[i]
                               ELSE NullSection]
  BY DEF AddSection, slot
<1> HIDE DEF last, t
<1>4. NullSection \in Section /\ SectionFileEnd(NullSection) = 0
      /\ ~InFile(NullSection)
  BY NamesAssumption, MaxWordAssumption
     DEF NullSection, Section, SectionKinds, Word, SectionFileEnd, InFile
<1>5. DOMAIN t = 1 .. last
      /\ \A i \in DOMAIN t : \/ i = slot /\ t[i] = section
                             \/ i # slot /\ i \in DOMAIN s /\ t[i] = s[i]
                             \/ i # slot /\ t[i] = NullSection
  BY <1>3
<1>6. t \in Seq(Section)
  <2>1. \A i \in 1 .. last : t[i] \in Section
    BY <1>1, <1>4, <1>5
  <2>2. t = [i \in 1 .. last |-> t[i]]
    BY <1>3
  <2> QED
    BY <1>2, <2>1, <2>2
<1>8. SectionsApart(t)
  <2>1. SectionsApart(s)
    BY DEF SoundSections
  <2>2. \A i \in DOMAIN s : InFile(s[i]) => Apart(section, s[i])
    BY DEF Apart
  <2> QED
    BY <1>4, <1>5, <2>1, <2>2 DEF SectionsApart
<1> QED
  BY <1>6, <1>8 DEF SoundSections, t

\* A sound section header stays sound when remove_dynamic_tag shrinks a section in
\* place.
LEMMA ShrinkIsSound ==
  ASSUME NEW s, SoundSections(s), NEW i \in DOMAIN s, NEW size \in Nat,
         size <= s[i].size
  PROVE  SoundSections([s EXCEPT ![i].size = size])
<1> DEFINE u == [s[i] EXCEPT !.size = size]
           t == [s EXCEPT ![i].size = size]
<1>1. s \in Seq(Section)
  BY DEF SoundSections
<1>2. s[i] \in Section
  BY <1>1
<1>3. s[i].size \in Word
  BY <1>2 DEF Section
<1>4. size \in Word
  BY <1>3, MaxWordAssumption DEF Word
<1>5. u \in Section /\ u.kind = s[i].kind /\ u.offset = s[i].offset
      /\ u.size = size
  BY <1>2, <1>4 DEF Section
<1> HIDE DEF u
<1>6. t = [s EXCEPT ![i] = u]
  BY <1>1 DEF u
<1> HIDE DEF t
<1>7. /\ t \in Seq(Section) /\ DOMAIN t = DOMAIN s /\ t[i] = u
      /\ \A n \in DOMAIN s : n # i => t[n] = s[n]
  BY <1>1, <1>5, <1>6
<1>8. s[i].size \in Nat /\ s[i].offset \in Nat
  BY <1>2, EndsAreNatural
<1>9. SectionFileEnd(u) <= SectionFileEnd(s[i])
  BY <1>5, <1>8 DEF SectionFileEnd
<1>10. SectionFileEnd(u) \in Nat /\ SectionFileEnd(s[i]) \in Nat
  BY <1>2, <1>5, EndsAreNatural
<1>12. InFile(u) => InFile(s[i])
  BY <1>5, <1>8, <1>9, <1>10 DEF InFile
<1>13. ASSUME NEW n \in DOMAIN s, n # i, InFile(s[n]), InFile(u)
       PROVE  Apart(u, s[n]) /\ Apart(s[n], u)
  <2>1. Apart(s[i], s[n])
    BY <1>12, <1>13 DEF SoundSections, SectionsApart
  <2>2. s[n].offset \in Nat /\ SectionFileEnd(s[n]) \in Nat
    BY <1>1, EndsAreNatural
  <2> QED
    BY <1>5, <1>8, <1>9, <1>10, <2>1, <2>2 DEF Apart
<1>14. SectionsApart(t)
  <2>1. SectionsApart(s)
    BY DEF SoundSections
  <2> QED
    BY <1>7, <1>13, <2>1 DEF SectionsApart
<1> QED
  BY <1>7, <1>14 DEF SoundSections, t

\* SectionHeader::finish leaves a sound section header sound.
LEMMA FinishSectionsIsSound ==
  ASSUME NEW s, SoundSections(s)
  PROVE  SoundSections(FinishSections(s))
<1>1. CASE s = <<>>
  <2>1. NullSection \in Section /\ SectionFileEnd(NullSection) = 0
        /\ ~InFile(NullSection)
    BY NamesAssumption, MaxWordAssumption
       DEF NullSection, Section, SectionKinds, Word, SectionFileEnd, InFile
  <2>2. FinishSections(s) = <<NullSection>>
    BY <1>1 DEF FinishSections
  <2>3. \A i \in DOMAIN <<NullSection>> : <<NullSection>>[i] = NullSection
    OBVIOUS
  <2>4. <<NullSection>> \in Seq(Section)
    BY <2>1
  <2> QED
    BY <2>1, <2>2, <2>3, <2>4, MaxWordAssumption
       DEF SoundSections, SectionsApart
<1>2. CASE s # <<>>
  BY <1>2 DEF FinishSections
<1> QED
  BY <1>1, <1>2

(***************************************************************************)
(* The LOAD segment of a gap.  The walk takes the LOAD it calls current    *)
(* for the one the gap is in, and counts what is open by starts and ends.  *)
(* In a layout as linkers make it the gap is in that LOAD, so that what is *)
(* placed there gets the address to which the LOAD maps it.                *)
(***************************************************************************)

\* The events are in order, those at one offset by their kinds in reverse.
LEMMA SortedKinds ==
  ASSUME NEW E \in SUBSET EventType, IsFiniteSet(E)
  PROVE  LET ev == Sorted(E)
         IN  \A m, n \in 1 .. Cardinality(E) :
               m <= n /\ ev[m].offset = ev[n].offset => ev[n].kind <= ev[m].kind
<1> DEFINE R == EventOrder(E)
           ev == Sorted(E)
           N == Cardinality(E)
<1>1. \A e, f \in E : <<e, f>> \in R <=> NotAfter(e, f)
  BY DEF EventOrder
<1>2. \A e \in E : e.offset \in Nat /\ e.kind \in Nat /\ e.index \in Nat
  BY DEF EventType
<1>3. \A e, f \in E : e.offset = f.offset /\ e.kind = f.kind /\ e.index = f.index
                        => e = f
  BY DEF EventType
<1>4. IsTotalOrder(E, R)
  <2>1. \A e \in E : NotAfter(e, e)
    BY <1>2 DEF NotAfter
  <2>2. \A e, f \in E : NotAfter(e, f) \/ NotAfter(f, e)
    BY <1>2 DEF NotAfter
  <2>3. \A e, f \in E : NotAfter(e, f) /\ NotAfter(f, e) => e = f
    BY <1>2, <1>3 DEF NotAfter
  <2>4. \A e, f, g \in E : NotAfter(e, f) /\ NotAfter(f, g) => NotAfter(e, g)
    BY <1>2 DEF NotAfter
  <2> QED
    BY <1>1, <2>1, <2>2, <2>3, <2>4 DEF IsTotalOrder
<1>5. /\ N \in Nat
      /\ ev \in [1 .. N -> E]
      /\ \A m, n \in 1 .. N : m <= n <=> <<ev[m], ev[n]>> \in R
  BY <1>4, EnumerateProperties DEF Sorted
<1> HIDE DEF R, ev, N
<1>6. \A m, n \in 1 .. N :
        m <= n /\ ev[m].offset = ev[n].offset => ev[n].kind <= ev[m].kind
  <2> TAKE m, n \in 1 .. N
  <2>1. ev[m] \in E /\ ev[n] \in E
    BY <1>5
  <2>2. m <= n => NotAfter(ev[m], ev[n])
    BY <1>1, <1>5, <2>1
  <2> QED
    BY <1>2, <2>1, <2>2 DEF NotAfter
<1> QED
  BY <1>6 DEF ev, N

\* A segment is open from its first event on and up to its last one.
LEMMA SegmentOpening ==
  ASSUME NEW sections \in Seq(Section), NEW segments \in Seq(Segment),
         NEW j \in DOMAIN segments, segments[j].kind # "Null"
  PROVE  LET E == FileEvents(sections, segments)
             ev == Sorted(E)
             g == segments[j]
         IN  \E ra, rb \in 1 .. Cardinality(E) :
               /\ ev[ra] = Event(g.offset, SegmentStartKind(g), j)
               /\ ev[rb] = Event(SegmentFileEnd(g), SegmentEndKind(g), j)
               /\ \A n \in 1 .. Cardinality(E) :
                    j \in OpenSegments(ev, n) <=> ra <= n /\ n < rb
<1> DEFINE E == FileEvents(sections, segments)
           N == Cardinality(E)
           ev == Sorted(E)
           g == segments[j]
<1>1. /\ N \in Nat
      /\ ev \in [1 .. N -> E]
      /\ \A l, m \in 1 .. N : ev[l] = ev[m] => l = m
  BY FileEventsType, SortedProperties
<1>2. PICK ra \in 1 .. N, rb \in 1 .. N :
        /\ ev[ra] = Event(g.offset, SegmentStartKind(g), j)
        /\ ev[rb] = Event(SegmentFileEnd(g), SegmentEndKind(g), j)
        /\ \A n \in 1 .. N : ra <= n /\ n < rb => j \in OpenSegments(ev, n)
  BY SegmentIsOpen
<1>3. ASSUME NEW m \in 1 .. N, ev[m].kind \in SegmentStarts, ev[m].index = j
      PROVE  m = ra
  <2>1. ev[m] = Event(g.offset, SegmentStartKind(g), j)
    BY <1>1, <1>3, SegmentEventOrigin
  <2> QED
    BY <1>1, <1>2, <2>1
<1>4. ev[rb].kind \in SegmentEnds /\ ev[rb].index = j
  BY <1>2 DEF Event, SegmentEndKind, SegmentEnds
<1> HIDE DEF ev, N, E, g
<1>5. ASSUME NEW n \in 1 .. N, j \in OpenSegments(ev, n)
      PROVE  ra <= n /\ n < rb
  <2>1. PICK m \in 1 .. n : ev[m].kind \in SegmentStarts /\ ev[m].index = j
    BY <1>5 DEF OpenSegments
  <2>2. m \in 1 .. N
    BY <1>1
  <2>3. m = ra
    BY <1>3, <2>1, <2>2
  <2>4. rb \notin 1 .. n
    BY <1>4, <1>5 DEF OpenSegments
  <2> QED
    BY <1>1, <1>2, <2>3, <2>4
<1> QED
  BY <1>2, <1>5 DEF ev, N, E, g

\* The LOAD that is current at event n is the one the walk entered last, or at
\* the start the first of the table; since then the walk left none.
LEMMA CurrentLoadOrigin ==
  ASSUME NEW sections \in Seq(Section), NEW segments \in Seq(Segment),
         NEW section,
         NEW n \in 1 .. Cardinality(FileEvents(sections, segments)),
         CurrentLoad(Sorted(FileEvents(sections, segments)), n, segments,
                     section) # 0
  PROVE  LET ev == Sorted(FileEvents(sections, segments))
             current == CurrentLoad(ev, n, segments, section)
         IN  \E m \in 1 .. n :
               /\ \/ m = 1 /\ ev[1].kind = LoadSegmentStart /\ current = 1
                  \/ /\ m # 1 /\ Enters(ev, m, segments, section)
                     /\ current = ev[m].index
               /\ \A p \in 1 .. n : m < p => ~Leaves(ev, p)
<1> DEFINE E == FileEvents(sections, segments)
           N == Cardinality(E)
           ev == Sorted(E)
           assigned == {m \in 1 .. n : \/ m = 1
                                       \/ Enters(ev, m, segments, section)
                                       \/ Leaves(ev, m)}
           last == Last(assigned)
<1>1. N \in Nat
  BY FileEventsType, SortedProperties
<1>2. 1 \in 1 .. n /\ n \in Nat
  BY <1>1
<1>3. assigned \in SUBSET Nat /\ assigned # {}
  <2> HIDE DEF ev
  <2>1. 1 \in assigned
    BY <1>2
  <2>2. assigned \in SUBSET (1 .. n)
    OBVIOUS
  <2>3. 1 .. n \in SUBSET Nat
    BY <1>2
  <2> HIDE DEF assigned
  <2> QED
    BY <2>1, <2>2, <2>3
<1>4. IsFiniteSet(assigned)
  <2>1. IsFiniteSet(1 .. n)
    BY <1>2, FS_Interval
  <2> QED
    BY <2>1, FS_Subset
<1>5. last \in assigned /\ \A m \in assigned : m <= last
  BY <1>3, <1>4, FirstAndLast
<1>6. CurrentLoad(ev, n, segments, section)
        = IF last = 1 THEN IF ev[1].kind = LoadSegmentStart THEN 1 ELSE 0
          ELSE IF Enters(ev, last, segments, section) THEN ev[last].index
          ELSE 0
  BY DEF CurrentLoad
<1>7. last \in 1 .. n
  BY <1>5
<1>8. \A p \in 1 .. n : last < p => ~Leaves(ev, p)
  BY <1>5, <1>7
<1> HIDE DEF ev, last
<1>9. \/ last = 1 /\ ev[1].kind = LoadSegmentStart /\ CurrentLoad(ev, n, segments, section) = 1
      \/ /\ last # 1 /\ Enters(ev, last, segments, section)
         /\ CurrentLoad(ev, n, segments, section) = ev[last].index
  BY <1>6 DEF ev
<1> QED
  BY <1>7, <1>8, <1>9 DEF ev

\* Every segment that has bytes and is no LOAD is part of one.
InsideLoads(segments) ==
  \A j \in DOMAIN segments :
    segments[j].kind # "Null" /\ ~IsLoad(segments[j])
    /\ segments[j].file_size # 0 =>
      \E k \in DOMAIN segments :
        /\ IsLoad(segments[k])
        /\ segments[k].offset <= segments[j].offset
        /\ SegmentFileEnd(segments[j]) <= SegmentFileEnd(segments[k])

\* The one segment that covers the bytes of a vacant gap is a LOAD.
LEMMA GapCovered ==
  ASSUME NEW sections \in Seq(Section), NEW segments \in Seq(Segment),
         InsideLoads(segments),
         NEW n \in 2 .. Cardinality(FileEvents(sections, segments)),
         Vacant(Sorted(FileEvents(sections, segments)), n),
         Sorted(FileEvents(sections, segments))[n - 1].offset
           < Sorted(FileEvents(sections, segments))[n].offset
  PROVE  LET ev == Sorted(FileEvents(sections, segments))
         IN  \E l \in DOMAIN segments :
               /\ IsLoad(segments[l])
               /\ segments[l].file_size # 0
               /\ segments[l].offset <= ev[n - 1].offset
               /\ ev[n].offset <= SegmentFileEnd(segments[l])
               /\ \/ ev[n].kind = SectionStart /\ OpenSegments(ev, n) = {l}
                  \/ /\ ev[n].kind = LoadSegmentEnd /\ ev[n].index = l
                     /\ OpenSegments(ev, n) = {}
                     /\ ev[n].offset = SegmentFileEnd(segments[l])
<1> DEFINE E == FileEvents(sections, segments)
           N == Cardinality(E)
           ev == Sorted(E)
<1>1. /\ N \in Nat
      /\ ev \in [1 .. N -> E]
      /\ \A a, b \in 1 .. N : a <= b => ev[a].offset <= ev[b].offset
      /\ \A a, b \in 1 .. N : ev[a].offset < ev[b].offset => a < b
      /\ \A a, b \in 1 .. N : ev[a] = ev[b] => a = b
  BY FileEventsType, SortedProperties
<1>2. \A m \in 1 .. N : ev[m].offset \in Nat
  BY <1>1, FileEventsType DEF EventType
<1>3. n \in 1 .. N /\ n - 1 \in 1 .. N /\ n - 1 < n
  BY <1>1
<1>4. CASE ev[n].kind = SectionStart
  <2>1. Cardinality(OpenSegments(ev, n)) = 1
    BY <1>4 DEF Vacant, SectionStart, LoadSegmentEnd
  <2>2. PICK l : OpenSegments(ev, n) = {l}
    <3>1. IsFiniteSet(OpenSegments(ev, n))
      <4> DEFINE f == [m \in 1 .. n |-> ev[m].index]
      <4>1. IsFiniteSet(1 .. n)
        BY <1>1, <1>3, FS_Interval
      <4>2. IsFiniteSet({f[m] : m \in 1 .. n})
        BY <4>1, FiniteImage
      <4>3. OpenSegments(ev, n) \in SUBSET {f[m] : m \in 1 .. n}
        BY DEF OpenSegments
      <4> QED
        BY <4>2, <4>3, FS_Subset
    <3> QED
      BY <2>1, <3>1, FS_Singleton
  <2>3. PICK a \in 1 .. n : ev[a].kind \in SegmentStarts /\ ev[a].index = l
    <3>1. l \in OpenSegments(ev, n)
      BY <2>2
    <3> QED
      BY <3>1 DEF OpenSegments
  <2>4. a \in 1 .. N
    BY <1>1, <1>3
  <2>5. l \in DOMAIN segments /\ segments[l].kind # "Null"
    BY <1>1, <2>3, <2>4, SegmentEventOrigin
  <2> DEFINE g == segments[l]
  <2>6. PICK ra \in 1 .. N, rb \in 1 .. N :
          /\ ev[ra] = Event(g.offset, SegmentStartKind(g), l)
          /\ ev[rb] = Event(SegmentFileEnd(g), SegmentEndKind(g), l)
          /\ \A m \in 1 .. N : l \in OpenSegments(ev, m) <=> ra <= m /\ m < rb
    BY <2>5, SegmentOpening
  <2>7. g \in Segment
    BY <2>5
  <2>8. g.offset \in Nat /\ SegmentFileEnd(g) \in Nat /\ g.file_size \in Nat
    BY <2>7, EndsAreNatural
  <2>9. ev[ra].offset = g.offset /\ ev[rb].offset = SegmentFileEnd(g)
        /\ ev[ra].kind = SegmentStartKind(g)
    BY <2>6 DEF Event
  <2>10. ra # n
    BY <1>4, <2>9 DEF SegmentStartKind, SectionStart, LoadSegmentStart,
                      SegmentStart, EmptySegmentStart
  <2>11. ra <= n /\ n < rb
    BY <1>3, <2>2, <2>6
  <2> HIDE DEF ev, N, E, g
  <2>12. ra <= n - 1 /\ n <= rb
    BY <1>1, <1>3, <2>10, <2>11
  <2>13. g.offset <= ev[n - 1].offset /\ ev[n].offset <= SegmentFileEnd(g)
    BY <1>1, <1>3, <2>9, <2>12
  <2>14. ev[n - 1].offset < ev[n].offset
    BY DEF ev, E
  <2>15. g.offset < SegmentFileEnd(g)
    BY <1>2, <1>3, <2>8, <2>13, <2>14
  <2>16. g.file_size # 0
    BY <2>8, <2>15 DEF SegmentFileEnd
  <2>17. ASSUME ~IsLoad(g) PROVE FALSE
    <3>1. PICK k \in DOMAIN segments :
            /\ IsLoad(segments[k])
            /\ segments[k].offset <= g.offset
            /\ SegmentFileEnd(g) <= SegmentFileEnd(segments[k])
      BY <2>5, <2>16, <2>17 DEF g, InsideLoads
    <3>2. \/ SegmentFileEnd(g) <= ev[n - 1].offset
          \/ ev[n].offset <= g.offset
      BY <2>5, <2>16, <2>17, <3>1, GapMissesSegment DEF g, ev, E
    <3> QED
      BY <1>2, <1>3, <2>8, <2>13, <2>14, <3>2
  <2> QED
    BY <1>4, <2>2, <2>5, <2>13, <2>16, <2>17 DEF g, ev, N, E
<1>5. CASE ev[n].kind = LoadSegmentEnd
  <2> DEFINE l == ev[n].index
             g == segments[l]
  <2>1. OpenSegments(ev, n) = {}
    BY <1>5 DEF Vacant, SectionStart, LoadSegmentEnd
  <2>2. ev[n] \in E
    BY <1>1, <1>3
  <2>3. /\ IsLoad(g) /\ ev[n].offset = SegmentFileEnd(g)
        /\ l \in DOMAIN segments /\ g.kind # "Null"
        /\ ev[n] = Event(SegmentFileEnd(g), SegmentEndKind(g), l)
    <3>1. IsLoad(g) /\ ev[n].offset = SegmentFileEnd(g)
      BY <1>5, <2>2, EventOrigin
    <3> QED
      BY <1>5, <2>2, <3>1, SegmentEventOrigin DEF SegmentEnds
  <2>4. g \in Segment
    BY <2>3
  <2>5. g.offset \in Nat /\ SegmentFileEnd(g) \in Nat /\ g.file_size \in Nat
    BY <2>4, EndsAreNatural
  <2>6. g.file_size # 0
    <3>1. SegmentEndKind(g) = LoadSegmentEnd
      BY <1>5, <2>3 DEF Event
    <3> QED
      BY <3>1 DEF SegmentEndKind, LoadSegmentEnd, EmptySegmentEnd
  <2>7. PICK ra \in 1 .. N, rb \in 1 .. N :
          /\ ev[ra] = Event(g.offset, SegmentStartKind(g), l)
          /\ ev[rb] = Event(SegmentFileEnd(g), SegmentEndKind(g), l)
    BY <2>3, SegmentOpening
  <2>8. ev[ra].offset = g.offset
    BY <2>7 DEF Event
  <2> HIDE DEF ev, N, E, g, l
  <2>9. ra < n
    BY <1>1, <1>3, <2>3, <2>5, <2>6, <2>8 DEF SegmentFileEnd
  <2>10. ra <= n - 1
    BY <1>1, <1>3, <2>9
  <2>11. g.offset <= ev[n - 1].offset
    BY <1>1, <1>3, <2>8, <2>10
  <2>12. ev[n].offset <= SegmentFileEnd(g)
    BY <2>3, <2>5
  <2> QED
    BY <1>5, <2>1, <2>3, <2>6, <2>11, <2>12 DEF g, l, ev, N, E
<1> QED
  BY <1>4, <1>5 DEF Vacant

\* A segment that is no LOAD and ends with one starts with it.
EndsApart(segments) ==
  \A j, k \in DOMAIN segments :
    /\ segments[j].kind # "Null" /\ ~IsLoad(segments[j])
    /\ segments[j].file_size # 0
    /\ IsLoad(segments[k])
    /\ segments[k].offset <= segments[j].offset
    /\ SegmentFileEnd(segments[j]) = SegmentFileEnd(segments[k])
    => segments[j].offset = segments[k].offset

\* The first segment of the table maps bytes to memory as the first LOAD of the
\* file does.
FirstMaps(segments) ==
  \A k \in Positions(segments, "Loadable") :
    /\ segments[k].file_size # 0
    /\ \A j \in Positions(segments, "Loadable") :
         segments[k].offset <= segments[j].offset
    => segments[1].address + segments[k].offset
         = segments[k].address + segments[1].offset

\* The LOAD that is current at a vacant gap is the one around the gap, or maps
\* as that one does; and no other segment starts where that one does.
LEMMA CurrentAtGap ==
  ASSUME NEW sections \in Seq(Section), NEW segments \in Seq(Segment),
         LoadsApart(segments), InsideLoads(segments), EndsApart(segments),
         FirstMaps(segments), NEW section,
         NEW n \in 2 .. Cardinality(FileEvents(sections, segments)),
         CurrentLoad(Sorted(FileEvents(sections, segments)), n, segments,
                     section) # 0,
         NEW l \in DOMAIN segments,
         LET ev == Sorted(FileEvents(sections, segments))
         IN  \/ ev[n].kind = SectionStart /\ OpenSegments(ev, n) = {l}
             \/ /\ ev[n].kind = LoadSegmentEnd /\ ev[n].index = l
                /\ OpenSegments(ev, n) = {}
  PROVE  LET current == CurrentLoad(Sorted(FileEvents(sections, segments)), n,
                                    segments, section)
         IN  /\ segments[current].address + segments[l].offset
                  = segments[l].address + segments[current].offset
             /\ \A j \in DOMAIN segments :
                  segments[j].kind # "Null" /\ ~IsLoad(segments[j])
                  /\ segments[j].file_size # 0
                    => segments[j].offset # segments[l].offset
<1> DEFINE E == FileEvents(sections, segments)
           N == Cardinality(E)
           ev == Sorted(E)
           current == CurrentLoad(ev, n, segments, section)
<1>1. /\ N \in Nat
      /\ ev \in [1 .. N -> E]
      /\ \A a, b \in 1 .. N : a <= b => ev[a].offset <= ev[b].offset
      /\ \A a, b \in 1 .. N : ev[a].offset < ev[b].offset => a < b
      /\ \A a, b \in 1 .. N : ev[a] = ev[b] => a = b
  BY FileEventsType, SortedProperties
<1>2. \A a, b \in 1 .. N :
        a <= b /\ ev[a].offset = ev[b].offset => ev[b].kind <= ev[a].kind
  BY FileEventsType, SortedKinds
<1>3. \A a \in 1 .. N : ev[a].offset \in Nat
  BY <1>1, FileEventsType DEF EventType
<1>4. n \in 1 .. N
  BY <1>1
<1>5. PICK m \in 1 .. n :
        /\ \/ m = 1 /\ ev[1].kind = LoadSegmentStart /\ current = 1
           \/ /\ m # 1 /\ Enters(ev, m, segments, section)
              /\ current = ev[m].index
        /\ \A p \in 1 .. n : m < p => ~Leaves(ev, p)
  BY <1>4, CurrentLoadOrigin
<1>6. m \in 1 .. N /\ m \in Nat
  BY <1>1, <1>4
<1>7. /\ ev[m].kind = LoadSegmentStart
      /\ m = 1 \/ OpenSegments(ev, m - 1) = {}
  BY <1>5 DEF Enters
<1> DEFINE k == ev[m].index
           h == segments[k]
<1>8. /\ k \in DOMAIN segments /\ IsLoad(h) /\ h.kind # "Null"
      /\ ev[m] = Event(h.offset, SegmentStartKind(h), k)
  <2>1. ev[m] \in E
    BY <1>1, <1>6
  <2>2. IsLoad(h)
    BY <1>7, <2>1, EventOrigin
  <2> QED
    BY <1>7, <2>1, <2>2, SegmentEventOrigin DEF SegmentStarts
<1>9. h \in Segment
  BY <1>8
<1>10. h.offset \in Nat /\ SegmentFileEnd(h) \in Nat /\ h.file_size \in Nat
  BY <1>9, EndsAreNatural
<1>11. h.file_size # 0 /\ ev[m].offset = h.offset
  <2>1. SegmentStartKind(h) = LoadSegmentStart /\ ev[m].offset = h.offset
    BY <1>7, <1>8 DEF Event
  <2> QED
    BY <2>1 DEF SegmentStartKind, LoadSegmentStart, EmptySegmentStart
<1>12. h.offset < SegmentFileEnd(h)
  <2>1. h.file_size # 0
    BY <1>11
  <2> HIDE DEF h
  <2> QED
    BY <1>10, <2>1 DEF SegmentFileEnd
<1>13. PICK ka \in 1 .. N, kb \in 1 .. N :
         /\ ev[ka] = Event(h.offset, SegmentStartKind(h), k)
         /\ ev[kb] = Event(SegmentFileEnd(h), SegmentEndKind(h), k)
         /\ \A p \in 1 .. N : k \in OpenSegments(ev, p) <=> ka <= p /\ p < kb
  BY <1>8, SegmentOpening
<1>14. ka = m /\ ev[kb].offset = SegmentFileEnd(h)
       /\ ev[kb].kind = LoadSegmentEnd /\ ev[kb].index = k
  <2>1. ka = m
    BY <1>1, <1>6, <1>8, <1>13
  <2> QED
    BY <1>8, <1>11, <1>13, <2>1 DEF Event, SegmentEndKind
<1>15. m < kb
  BY <1>1, <1>6, <1>11, <1>12, <1>14
\* No other segment starts with the LOAD that was entered.
<1>16. ASSUME NEW j \in DOMAIN segments, segments[j].kind # "Null",
              ~IsLoad(segments[j]), segments[j].file_size # 0,
              segments[j].offset = h.offset
       PROVE  FALSE
  <2> DEFINE g == segments[j]
  <2>1. PICK ja \in 1 .. N, jb \in 1 .. N :
          /\ ev[ja] = Event(g.offset, SegmentStartKind(g), j)
          /\ ev[jb] = Event(SegmentFileEnd(g), SegmentEndKind(g), j)
          /\ \A p \in 1 .. N : j \in OpenSegments(ev, p) <=> ja <= p /\ p < jb
    BY <1>16, SegmentOpening
  <2>2. g \in Segment
    OBVIOUS
  <2>3. g.offset \in Nat /\ SegmentFileEnd(g) \in Nat /\ g.file_size \in Nat
    BY <2>2, EndsAreNatural
  <2>4. g.offset < SegmentFileEnd(g) /\ g.offset = h.offset
    <3>1. g.file_size # 0 /\ g.offset = h.offset
      BY <1>16
    <3> HIDE DEF ev, N, E, g, k, h
    <3>2. g.offset < SegmentFileEnd(g)
      BY ONLY <2>3, <3>1 DEF SegmentFileEnd
    <3> QED
      BY <3>1, <3>2
  <2>5. /\ ev[ja].offset = g.offset /\ ev[ja].kind = SegmentStart
        /\ ev[jb].offset = SegmentFileEnd(g)
    BY <1>16, <2>1 DEF Event, SegmentStartKind
  <2> HIDE DEF ev, N, E, g, k, h
  <2>6. ja < m
    <3>1. ~(m <= ja)
      BY <1>2, <1>6, <1>7, <1>11, <2>4, <2>5 DEF SegmentStart, LoadSegmentStart
    <3> QED
      BY <1>1, <1>6, <3>1
  <2>7. m < jb
    BY <1>1, <1>6, <1>11, <2>4, <2>5
  <2>8. m # 1 /\ m - 1 \in 1 .. N /\ ja <= m - 1 /\ m - 1 < jb
    BY <1>1, <1>6, <2>6, <2>7
  <2> QED
    BY <1>7, <2>1, <2>8
\* The walk did not leave it before the gap.
<1>17. k = l
  <2> SUFFICES ASSUME k # l PROVE FALSE
    OBVIOUS
  <2>1. kb < n
    <3>1. ~(n < kb)
      <4> SUFFICES ASSUME n < kb PROVE FALSE
        OBVIOUS
      <4>1. m <= n
        BY <1>4, <1>5
      <4>2. k \in OpenSegments(ev, n)
        BY <1>4, <1>13, <1>14, <4>1
      <4> QED
        BY <4>2
    <3>2. kb # n
      BY <1>14 DEF LoadSegmentEnd, SectionStart
    <3> HIDE DEF ev, N, E, k, h
    <3> QED
      BY <1>1, <1>4, <3>1, <3>2
  <2>2. kb + 1 \in 1 .. n /\ m < kb + 1 /\ (kb + 1) - 1 = kb
    BY <1>1, <1>4, <1>6, <1>15, <2>1
  <2>3. OpenSegments(ev, kb) # {}
    BY <1>5, <1>14, <2>2 DEF Leaves
  <2>4. PICK j : j \in OpenSegments(ev, kb)
    BY <2>3
  <2>5. PICK a \in 1 .. kb : ev[a].kind \in SegmentStarts /\ ev[a].index = j
    BY <2>4 DEF OpenSegments
  <2>6. a \in 1 .. N
    BY <1>1
  <2>7. j \in DOMAIN segments /\ segments[j].kind # "Null"
    BY <1>1, <2>5, <2>6, SegmentEventOrigin
  <2> DEFINE g == segments[j]
  <2>8. PICK ja \in 1 .. N, jb \in 1 .. N :
          /\ ev[ja] = Event(g.offset, SegmentStartKind(g), j)
          /\ ev[jb] = Event(SegmentFileEnd(g), SegmentEndKind(g), j)
          /\ \A p \in 1 .. N : j \in OpenSegments(ev, p) <=> ja <= p /\ p < jb
    BY <2>7, SegmentOpening
  <2>9. g \in Segment
    BY <2>7
  <2>10. g.offset \in Nat /\ SegmentFileEnd(g) \in Nat /\ g.file_size \in Nat
    BY <2>9, EndsAreNatural
  <2>11. /\ ev[ja].offset = g.offset /\ ev[ja].kind = SegmentStartKind(g)
         /\ ev[jb].offset = SegmentFileEnd(g)
    BY <2>8 DEF Event
  <2>12. ja <= kb /\ kb < jb
    BY <2>4, <2>8
  <2>13. j # k
    BY <1>13, <2>4
  <2>14. SegmentStartKind(g) \in {0, 1, 4}
    BY EventKinds
  <2> HIDE DEF ev, N, E, g, k, h
  <2>15. g.offset <= SegmentFileEnd(h) /\ SegmentFileEnd(h) <= SegmentFileEnd(g)
    BY <1>1, <1>14, <2>11, <2>12
  <2>16. g.offset # SegmentFileEnd(h)
    BY <1>2, <1>14, <2>11, <2>12, <2>14 DEF LoadSegmentEnd
  <2>17. g.offset < SegmentFileEnd(h)
    BY <1>10, <2>10, <2>15, <2>16
  <2>18. g.file_size # 0
    BY <1>10, <2>10, <2>15, <2>17 DEF SegmentFileEnd
  <2>19. ASSUME NEW i \in DOMAIN segments, IsLoad(segments[i]), i # k,
                segments[i].offset <= g.offset,
                SegmentFileEnd(g) <= SegmentFileEnd(segments[i])
         PROVE  FALSE
    <3> DEFINE f == segments[i]
    <3>1. FileDisjoint(f, h)
      BY <1>8, <2>19 DEF LoadsApart, h
    <3>2. f \in Segment
      OBVIOUS
    <3>3. f.offset \in Nat /\ SegmentFileEnd(f) \in Nat
      BY <3>2, EndsAreNatural
    <3>4. f.offset <= g.offset /\ SegmentFileEnd(g) <= SegmentFileEnd(f)
      BY <2>19
    <3> HIDE DEF f
    <3>5. SegmentFileEnd(f) <= h.offset \/ SegmentFileEnd(h) <= f.offset
      BY <3>1 DEF FileDisjoint
    <3> QED
      BY ONLY <1>10, <1>12, <2>10, <2>15, <2>17, <3>3, <3>4, <3>5
  <2>20. ~IsLoad(g)
    <3> SUFFICES ASSUME IsLoad(g) PROVE FALSE
      OBVIOUS
    <3>1. /\ IsLoad(segments[j]) /\ segments[j].offset <= g.offset
          /\ SegmentFileEnd(g) <= SegmentFileEnd(segments[j])
      BY <2>10 DEF g
    <3> QED
      BY <2>7, <2>13, <2>19, <3>1
  <2>21. PICK i \in DOMAIN segments :
           /\ IsLoad(segments[i])
           /\ segments[i].offset <= g.offset
           /\ SegmentFileEnd(g) <= SegmentFileEnd(segments[i])
    BY <2>7, <2>18, <2>20 DEF g, InsideLoads
  <2>22. i = k
    BY <2>19, <2>21
  <2>23. h.offset <= g.offset /\ SegmentFileEnd(g) <= SegmentFileEnd(h)
    BY <2>21, <2>22 DEF h
  <2>24. SegmentFileEnd(g) = SegmentFileEnd(h)
    BY <1>10, <2>10, <2>15, <2>23
  <2>25. g.offset = h.offset
    BY <1>8, <2>7, <2>18, <2>20, <2>23, <2>24 DEF EndsApart, g, h
  <2> QED
    BY <1>16, <2>7, <2>18, <2>20, <2>25 DEF g
<1>18. segments[current].address + segments[l].offset
         = segments[l].address + segments[current].offset
  <2>1. CASE m # 1
    <3>1. current = l
      BY <1>5, <1>17, <2>1
    <3>2. segments[l] \in Segment
      OBVIOUS
    <3> HIDE DEF current
    <3>3. segments[l].address \in Nat /\ segments[l].offset \in Nat
      BY <3>2, EndsAreNatural
    <3> QED
      BY <3>1, <3>3
  <2>2. CASE m = 1
    <3>1. current = 1
      BY <1>5, <2>2
    <3>2. ASSUME NEW j \in Positions(segments, "Loadable")
          PROVE  h.offset <= segments[j].offset
      <4>1. j \in DOMAIN segments /\ segments[j].kind # "Null"
        BY <3>2 DEF Positions
      <4>2. PICK ja \in 1 .. N :
              ev[ja] = Event(segments[j].offset, SegmentStartKind(segments[j]), j)
        BY <4>1, SegmentOpening
      <4>3. ev[ja].offset = segments[j].offset
        BY <4>2 DEF Event
      <4> HIDE DEF ev, N, E, k, h
      <4> QED
        BY <1>1, <1>6, <1>11, <2>2, <4>3
    <3>3. k \in Positions(segments, "Loadable")
      BY <1>8 DEF Positions, IsLoad
    <3>4. segments[1].address + h.offset = h.address + segments[1].offset
      BY <1>11, <3>2, <3>3 DEF FirstMaps
    <3> QED
      BY <1>17, <3>1, <3>4
  <2> QED
    BY <2>1, <2>2
<1> QED
  BY <1>16, <1>17, <1>18

\* The sections at a vacant gap: one starts behind it and inside the LOAD, or
\* one ends in front of it and none ends with the LOAD.
LEMMA GapNeighbour ==
  ASSUME NEW sections \in Seq(Section), NEW segments \in Seq(Segment),
         NEW n \in 2 .. Cardinality(FileEvents(sections, segments)),
         Vacant(Sorted(FileEvents(sections, segments)), n),
         NEW l \in DOMAIN segments, IsLoad(segments[l]),
         segments[l].file_size # 0,
         LET ev == Sorted(FileEvents(sections, segments))
         IN  /\ ev[n - 1].offset < ev[n].offset
             /\ segments[l].offset <= ev[n - 1].offset
             /\ ev[n].offset <= SegmentFileEnd(segments[l])
             /\ \/ ev[n].kind = SectionStart /\ OpenSegments(ev, n) = {l}
                \/ /\ ev[n].kind = LoadSegmentEnd /\ ev[n].index = l
                   /\ ev[n].offset = SegmentFileEnd(segments[l])
  PROVE  \/ \E i \in DOMAIN sections :
              /\ InFile(sections[i])
              /\ segments[l].offset < sections[i].offset
              /\ sections[i].offset < SegmentFileEnd(segments[l])
         \/ /\ \A i \in DOMAIN sections : InFile(sections[i])
                 => SectionFileEnd(sections[i]) # SegmentFileEnd(segments[l])
            /\ \E i \in DOMAIN sections :
                 /\ InFile(sections[i])
                 /\ segments[l].offset < SectionFileEnd(sections[i])
                 /\ SectionFileEnd(sections[i]) < SegmentFileEnd(segments[l])
<1> DEFINE E == FileEvents(sections, segments)
           N == Cardinality(E)
           ev == Sorted(E)
           g == segments[l]
<1>1. /\ N \in Nat
      /\ ev \in [1 .. N -> E]
      /\ \A a, b \in 1 .. N : a <= b => ev[a].offset <= ev[b].offset
      /\ \A a, b \in 1 .. N : ev[a].offset < ev[b].offset => a < b
      /\ \A a, b \in 1 .. N : ev[a] = ev[b] => a = b
  BY FileEventsType, SortedProperties
<1>2. \A a, b \in 1 .. N :
        a <= b /\ ev[a].offset = ev[b].offset => ev[b].kind <= ev[a].kind
  BY FileEventsType, SortedKinds
<1>3. \A a \in 1 .. N : ev[a].offset \in Nat /\ ev[a] \in E
  BY <1>1, FileEventsType DEF EventType
<1>4. n \in 1 .. N /\ n - 1 \in 1 .. N
  BY <1>1
<1>5. g \in Segment /\ g.kind # "Null"
  BY DEF IsLoad
<1>6. g.offset \in Nat /\ SegmentFileEnd(g) \in Nat
  BY <1>5, EndsAreNatural
<1>7. PICK ra \in 1 .. N, rb \in 1 .. N :
        /\ ev[ra] = Event(g.offset, SegmentStartKind(g), l)
        /\ ev[rb] = Event(SegmentFileEnd(g), SegmentEndKind(g), l)
        /\ \A m \in 1 .. N : l \in OpenSegments(ev, m) <=> ra <= m /\ m < rb
  BY <1>5, SegmentOpening
<1>8. /\ ev[ra].offset = g.offset /\ ev[ra].kind = LoadSegmentStart
      /\ ev[rb].offset = SegmentFileEnd(g) /\ ev[rb].kind = LoadSegmentEnd
  BY <1>7 DEF Event, SegmentStartKind, SegmentEndKind
<1>9. \A e \in E :
        /\ e.kind = SectionStart
             => \E i \in DOMAIN sections :
                  InFile(sections[i]) /\ e.offset = sections[i].offset
        /\ e.kind = SectionEnd
             => \E i \in DOMAIN sections :
                  InFile(sections[i]) /\ e.offset = SectionFileEnd(sections[i])
  BY LiveSectionEvent
<1>10. /\ ev[n - 1].offset < ev[n].offset /\ g.offset <= ev[n - 1].offset
       /\ ev[n].offset <= SegmentFileEnd(g)
  OBVIOUS
<1>11. CASE ev[n].kind = SectionStart /\ OpenSegments(ev, n) = {l}
  <2>1. PICK i \in DOMAIN sections :
          InFile(sections[i]) /\ ev[n].offset = sections[i].offset
    BY <1>3, <1>4, <1>9, <1>11
  <2>2. n < rb
    BY <1>4, <1>7, <1>11
  <2> HIDE DEF ev, N, E, g
  <2>3. ev[n].offset # SegmentFileEnd(g)
    BY <1>2, <1>4, <1>8, <1>11, <2>2 DEF SectionStart, LoadSegmentEnd
  <2>4. g.offset < sections[i].offset /\ sections[i].offset < SegmentFileEnd(g)
    BY <1>3, <1>4, <1>6, <1>10, <2>1, <2>3
  <2> QED
    BY <2>1, <2>4 DEF g
<1>12. CASE /\ ev[n].kind = LoadSegmentEnd /\ ev[n].index = l
            /\ ev[n].offset = SegmentFileEnd(g)
  <2>1. ev[n - 1].kind = SectionEnd /\ OpenSections(ev, n) = {}
    BY <1>12 DEF Vacant, SectionStart, LoadSegmentEnd
  <2>2. PICK i \in DOMAIN sections :
          InFile(sections[i]) /\ ev[n - 1].offset = SectionFileEnd(sections[i])
    BY <1>3, <1>4, <1>9, <2>1
  <2>3. g.offset # ev[n - 1].offset
    <3> HIDE DEF ev, N, E, g
    <3>1. ra < n
      BY <1>1, <1>3, <1>4, <1>6, <1>8, <1>10
    <3>2. ra # n - 1
      BY <1>8, <2>1 DEF SectionEnd, LoadSegmentStart
    <3>3. ra <= n - 1
      BY <1>1, <1>4, <3>1
    <3> QED
      BY <1>2, <1>4, <1>8, <2>1, <3>3 DEF SectionEnd, LoadSegmentStart
  <2>4. ASSUME NEW k \in DOMAIN sections, InFile(sections[k]),
               SectionFileEnd(sections[k]) = SegmentFileEnd(g)
        PROVE  FALSE
    <3> DEFINE s == sections[k]
    <3>1. PICK ka \in 1 .. N, kb \in 1 .. N :
            /\ ev[ka] = Event(s.offset, SectionStart, k)
            /\ ev[kb] = Event(SectionFileEnd(s), SectionEnd, k)
            /\ \A m \in 1 .. N : ka <= m /\ m < kb => k \in OpenSections(ev, m)
      BY <2>4, SectionIsOpen
    <3>2. s \in Section
      OBVIOUS
    <3>3. s.offset \in Nat /\ s.offset < SectionFileEnd(s)
      BY <2>4, <3>2, EndsAreNatural DEF InFile
    <3>4. /\ ev[ka].offset = s.offset /\ ev[kb].offset = SegmentFileEnd(g)
          /\ ev[kb].kind = SectionEnd
      BY <2>4, <3>1 DEF Event
    <3>5. s.offset < SegmentFileEnd(g)
      BY <2>4, <3>3
    <3> HIDE DEF ev, N, E, g, s
    <3>6. ka < n
      BY <1>1, <1>4, <1>12, <3>4, <3>5
    <3>7. ~(kb <= n)
      <4>1. ASSUME kb <= n PROVE ev[n].kind <= ev[kb].kind
        BY ONLY <1>2, <1>4, <1>12, <3>4, <4>1
      <4> QED
        BY ONLY <1>12, <3>4, <4>1 DEF SectionEnd, LoadSegmentEnd
    <3>8. ka <= n /\ n < kb
      BY <1>1, <1>4, <3>6, <3>7
    <3> QED
      BY <1>4, <2>1, <3>1, <3>8
  <2> HIDE DEF ev, N, E, g
  <2>5. g.offset < SectionFileEnd(sections[i])
        /\ SectionFileEnd(sections[i]) < SegmentFileEnd(g)
    BY <1>3, <1>4, <1>6, <1>10, <1>12, <2>2, <2>3
  <2> QED
    BY <2>2, <2>4, <2>5 DEF g
<1> QED
  BY <1>11, <1>12

\* The section is in LOAD l, which maps it to its address, at a gap that is not
\* the only thing there.
FillsGap(s, sections, segments, l) ==
  LET g == segments[l]
  IN  /\ IsLoad(g) /\ g.file_size # 0
      /\ g.offset <= s.offset
      /\ SectionFileEnd(s) <= SegmentFileEnd(g)
      /\ s.address + g.offset = g.address + s.offset
      /\ \A j \in DOMAIN segments :
           segments[j].kind # "Null" /\ ~IsLoad(segments[j])
           /\ segments[j].file_size # 0
             => segments[j].offset # g.offset
      /\ \/ \E i \in DOMAIN sections :
              /\ InFile(sections[i])
              /\ g.offset < sections[i].offset
              /\ sections[i].offset < SegmentFileEnd(g)
         \/ /\ \A i \in DOMAIN sections : InFile(sections[i])
                 => SectionFileEnd(sections[i]) # SegmentFileEnd(g)
            /\ \E i \in DOMAIN sections :
                 /\ InFile(sections[i])
                 /\ g.offset < SectionFileEnd(sections[i])
                 /\ SectionFileEnd(sections[i]) < SegmentFileEnd(g)

\* The LOAD is new, behind everything else, and there for the section.
MadeFor(s, load, sections, segments) ==
  /\ load \in Segment /\ Behind(load, segments)
  /\ PastAll(load.offset, sections, segments)
  /\ load.write = s.write
  /\ load.file_size = load.memory_size
  /\ load.offset <= s.offset
  /\ SectionFileEnd(s) = SegmentFileEnd(load)
  /\ s.address + load.offset = load.address + s.offset
  /\ s.align \in {0, 1} \/ PageSize % s.align = 0 => s.offset = load.offset

\* The address of the place t, as Placed has it.
Wrapped(address, offset, t) ==
  (address + t + (MaxWord + 1) - offset) % (MaxWord + 1)

\* Counting modulo a word is harmless when the address fits in one.
LEMMA PlaceWraps ==
  ASSUME NEW a \in Nat, NEW o \in Nat, NEW t \in Nat, NEW x \in Nat,
         x <= MaxWord, a + t = x + o
  PROVE  Wrapped(a, o, t) = x
<1> DEFINE m == MaxWord + 1
           w == a + t + m - o
<1>1. m \in Nat \ {0} /\ x < m
  BY MaxWordAssumption
<1>2. w = x + m
  BY <1>1
<1>3. (x + m) % m = x
  <2> HIDE DEF m
  <2> QED
    BY <1>1, WordWraps
<1>4. w % m = x
  <2> HIDE DEF w, m
  <2> QED
    BY <1>2, <1>3
<1> QED
  BY <1>4 DEF Wrapped

\* allocate_section returns a section that a LOAD maps to its address.
LEMMA AllocationMapped ==
  ASSUME NEW sections \in Seq(Section), NEW segments \in Seq(Segment),
         Fits(sections, segments), LoadsApart(segments),
         InsideLoads(segments), EndsApart(segments), FirstMaps(segments),
         \A k \in DOMAIN segments :
           IsLoad(segments[k])
             => segments[k].file_size <= segments[k].memory_size,
         NEW section, Requested(section), section.size # 0,
         AllocateSection(sections, segments, section).ok
  PROVE  LET result == AllocateSection(sections, segments, section)
         IN  \/ /\ result.segments = segments
                /\ \E l \in DOMAIN segments :
                     FillsGap(result.section, sections, segments, l)
             \/ \E load \in Segment :
                  /\ result.segments = Append(segments, load)
                  /\ MadeFor(result.section, load, sections, segments)
<1> DEFINE E == FileEvents(sections, segments)
           N == Cardinality(E)
           ev == Sorted(E)
           gaps == Gaps(ev, segments, section)
           gap == First(gaps)
           load == NewLoad(sections, segments, section.size, section.size,
                           section.align, section.write)
           current == CurrentLoad(ev, gap, segments, section)
           start == NextMultiple(ev[gap - 1].offset, section.align)
           result == AllocateSection(sections, segments, section)
<1>1. /\ N \in Nat
      /\ ev \in [1 .. N -> E]
      /\ \A l, m \in 1 .. N : l <= m => ev[l].offset <= ev[m].offset
      /\ Len(ev) = N
  BY FileEventsType, SortedProperties
<1>2. \A m \in 1 .. N : ev[m] \in E /\ ev[m].offset \in Nat
  BY <1>1, FileEventsType DEF EventType
<1>4. /\ section \in Section /\ section.alloc /\ section.kind # "Null"
      /\ section.kind # "NoBits" /\ section.size \in Word
      /\ section.align \in Word /\ section.write \in BOOLEAN
      /\ section.size \in Nat /\ section.align \in Nat
  BY EndsAreNatural DEF Requested, Section
<1>5. \A s, t, g : s = Placed(section, g, t)
                   => /\ s.offset = t /\ s.size = section.size
                      /\ s.kind = section.kind /\ s.alloc = section.alloc
                      /\ s.align = section.align /\ s.write = section.write
                      /\ s.address = Wrapped(g.address, g.offset, t)
                      /\ SectionFileEnd(s) = t + section.size
  BY <1>4 DEF Placed, Section, SectionFileEnd, Wrapped
<1>7. CASE gap # 0
  <2>1. gap \in gaps
    <3>1. gaps # {}
      BY <1>7 DEF First
    <3>2. gaps \in SUBSET (2 .. N)
      BY <1>1 DEF Gaps
    <3>3. IsFiniteSet(2 .. N)
      BY <1>1, FS_Interval
    <3>4. IsFiniteSet(gaps) /\ gaps \in SUBSET Nat
      BY <1>1, <3>2, <3>3, FS_Subset
    <3> HIDE DEF gaps
    <3> QED
      BY <3>1, <3>4, FirstAndLast
  <2>2. /\ gap \in 2 .. N /\ Vacant(ev, gap) /\ current # 0
        /\ Roomy(ev, gap, section.size, section.align)
    BY <1>1, <2>1 DEF Gaps
  <2>3. gap \in 1 .. N /\ gap - 1 \in 1 .. N
    BY <1>1, <2>2
  <2>4. current \in DOMAIN segments
    BY <2>2, <2>3, CurrentLoadExists
  <2>5. /\ result.section = Placed(section, segments[current], start)
        /\ result.segments = segments
    BY <1>7 DEF AllocateSection
  <2> HIDE DEF gap, gaps, current, start, result
  <2>6. /\ start \in Nat /\ start >= ev[gap - 1].offset
        /\ start + section.size <= ev[gap].offset
        /\ ev[gap - 1].offset < ev[gap].offset
    <3> DEFINE lo == ev[gap - 1].offset
               hi == ev[gap].offset
               padding == Padding(lo, section.align)
    <3>1. lo \in Nat /\ hi \in Nat
      BY <1>2, <2>3
    <3>2. padding \in Nat
      BY <1>4, <3>1, NextMultipleProperties
    <3>3. padding + section.size <= hi - lo
      BY <2>2 DEF Roomy
    <3>4. start = lo + padding
      BY DEF start, NextMultiple
    <3> HIDE DEF lo, hi, padding
    <3>5. /\ start \in Nat /\ start >= lo
          /\ start + section.size <= hi
          /\ lo < hi
      BY <1>4, <3>1, <3>2, <3>3, <3>4
    <3> QED
      BY <3>5 DEF lo, hi
  <2>7. PICK l \in DOMAIN segments :
          /\ IsLoad(segments[l])
          /\ segments[l].file_size # 0
          /\ segments[l].offset <= ev[gap - 1].offset
          /\ ev[gap].offset <= SegmentFileEnd(segments[l])
          /\ \/ ev[gap].kind = SectionStart /\ OpenSegments(ev, gap) = {l}
             \/ /\ ev[gap].kind = LoadSegmentEnd /\ ev[gap].index = l
                /\ OpenSegments(ev, gap) = {}
                /\ ev[gap].offset = SegmentFileEnd(segments[l])
    BY <2>2, <2>6, GapCovered
  <2>8. /\ segments[current].address + segments[l].offset
             = segments[l].address + segments[current].offset
        /\ \A j \in DOMAIN segments :
             segments[j].kind # "Null" /\ ~IsLoad(segments[j])
             /\ segments[j].file_size # 0
               => segments[j].offset # segments[l].offset
    BY <2>2, <2>7, CurrentAtGap DEF current
  <2>9. \/ \E i \in DOMAIN sections :
             /\ InFile(sections[i])
             /\ segments[l].offset < sections[i].offset
             /\ sections[i].offset < SegmentFileEnd(segments[l])
        \/ /\ \A i \in DOMAIN sections : InFile(sections[i])
                => SectionFileEnd(sections[i]) # SegmentFileEnd(segments[l])
           /\ \E i \in DOMAIN sections :
                /\ InFile(sections[i])
                /\ segments[l].offset < SectionFileEnd(sections[i])
                /\ SectionFileEnd(sections[i]) < SegmentFileEnd(segments[l])
    BY <2>2, <2>6, <2>7, GapNeighbour
  <2> DEFINE g == segments[l]
             c == segments[current]
             s == result.section
  <2>10. /\ g.offset \in Nat /\ g.address \in Nat /\ g.file_size \in Nat
         /\ g.memory_size \in Nat
         /\ c.offset \in Nat /\ c.address \in Nat
    <3>1. g \in Segment /\ c \in Segment
      BY <2>4
    <3> QED
      BY <3>1, EndsAreNatural
  <2>11. g.file_size <= g.memory_size /\ g.address + g.memory_size <= MaxWord
    BY <2>7 DEF Fits, FitsWord, SegmentMemoryEnd
  <2>12. ev[gap].offset \in Nat /\ ev[gap - 1].offset \in Nat
    BY <1>2, <2>3
  <2>13. ev[gap].offset <= g.offset + g.file_size /\ g.offset <= ev[gap - 1].offset
    BY <2>7 DEF SegmentFileEnd
  <2>14. c.address + g.offset = g.address + c.offset
    BY <2>8
  <2>15. /\ s.offset = start /\ SectionFileEnd(s) = start + section.size
         /\ s.address = Wrapped(c.address, c.offset, start)
    BY <1>5, <2>5
  <2> HIDE DEF g, c, s, ev, N, E
  <2>16. g.offset <= start /\ g.address + (start - g.offset) <= MaxWord
    <3> DEFINE ga == g.address
               go == g.offset
               gf == g.file_size
               gm == g.memory_size
               lo == ev[gap - 1].offset
               hi == ev[gap].offset
               size == section.size
    <3>1. /\ ga \in Nat /\ go \in Nat /\ gf \in Nat /\ gm \in Nat
          /\ lo \in Nat /\ hi \in Nat /\ size \in Nat
          /\ hi <= go + gf /\ go <= lo /\ gf <= gm /\ ga + gm <= MaxWord
          /\ start \in Nat /\ start >= lo /\ start + size <= hi
      BY <1>4, <2>6, <2>10, <2>11, <2>12, <2>13
    <3>2. go <= start /\ ga + (start - go) <= MaxWord
      <4> HIDE DEF ga, go, gf, gm, lo, hi, size
      <4> QED
        BY <3>1, MaxWordAssumption
    <3> QED
      BY <3>2
  <2>17. s.address = g.address + (start - g.offset)
    <3> DEFINE ga == g.address
               go == g.offset
               ca == c.address
               co == c.offset
    <3>1. /\ ga \in Nat /\ go \in Nat /\ ca \in Nat /\ co \in Nat
          /\ start \in Nat /\ go <= start
          /\ ga + (start - go) <= MaxWord
          /\ ca + go = ga + co
      BY <2>6, <2>10, <2>14, <2>16
    <3>2. s.address = Wrapped(ca, co, start)
      BY <2>15
    <3>3. s.address = ga + (start - go)
      <4> DEFINE x == ga + (start - go)
      <4> HIDE DEF ga, go, ca, co
      <4>1. x \in Nat
        BY ONLY <3>1
      <4>2. x <= MaxWord
        BY ONLY <3>1
      <4>3. ca + start = x + co
        BY ONLY <3>1
      <4>4. ca \in Nat /\ co \in Nat /\ start \in Nat
        BY <3>1
      <4> HIDE DEF x
      <4>5. Wrapped(ca, co, start) = x
        BY ONLY <4>1, <4>2, <4>3, <4>4, PlaceWraps
      <4> QED
        BY <3>2, <4>5 DEF x
    <3> QED
      BY <3>3
  <2>18. s.address + g.offset = g.address + s.offset
    <3> DEFINE ga == g.address
               go == g.offset
    <3>1. /\ ga \in Nat /\ go \in Nat /\ start \in Nat /\ go <= start
          /\ s.address = ga + (start - go) /\ s.offset = start
      BY <2>6, <2>10, <2>15, <2>16, <2>17
    <3>2. s.address + go = ga + s.offset
      <4> HIDE DEF ga, go
      <4> QED
        BY <3>1
    <3> QED
      BY <3>2
  <2>19. SectionFileEnd(s) <= SegmentFileEnd(g)
    <3> DEFINE last == SegmentFileEnd(g)
               end == SectionFileEnd(s)
               hi == ev[gap].offset
               size == section.size
    <3>1. last \in Nat
      BY <2>10 DEF SegmentFileEnd
    <3>2. hi <= last /\ hi \in Nat
      BY <2>12, <2>13 DEF SegmentFileEnd
    <3>3. size \in Nat /\ start \in Nat /\ start + size <= hi
      BY <1>4, <2>6
    <3>4. end = start + size
      BY <2>15
    <3> HIDE DEF last, end, hi, size
    <3>5. end <= last
      BY ONLY <3>1, <3>2, <3>3, <3>4
    <3> QED
      BY <3>5 DEF last, end
  <2>20. IsLoad(g) /\ g.file_size # 0
    BY <2>7 DEF g
  <2>21. FillsGap(s, sections, segments, l)
    BY <2>8, <2>9, <2>15, <2>16, <2>18, <2>19, <2>20 DEF FillsGap, g
  <2> QED
    BY <2>5, <2>7, <2>21 DEF s, result
<1>8. CASE gap = 0
  <2>1. /\ result.ok
             <=> E # {} /\ Addressable(load, load.file_size - section.size)
        /\ result.segments = Append(segments, load)
        /\ result.section = Placed(section, load, load.offset +
                                              (load.file_size - section.size))
    BY <1>8 DEF AllocateSection
  <2>2. Addressable(load, load.file_size - section.size)
    BY <2>1
  <2> HIDE DEF gap, gaps, result
  <2>3. /\ load.offset \in Nat /\ load.address \in Nat
        /\ load.file_size \in Nat /\ load.memory_size \in Nat
        /\ load.file_size >= section.size
        /\ load.memory_size - section.size = load.file_size - section.size
        /\ load.address % PageSize = 0
        /\ IsLoad(load)
        /\ load \in Segment
        /\ \A j \in DOMAIN segments :
             segments[j].kind # "Null"
               => SegmentFileEnd(segments[j]) <= load.offset
        /\ \A j \in DOMAIN segments :
             IsLoad(segments[j])
               => AlignUp(SegmentMemoryEnd(segments[j])) <= load.address
        /\ PastAll(load.offset, sections, segments)
    <3> HIDE DEF E, N, ev
    <3>1. section.size \in Word /\ section.align \in Word
          /\ section.write \in BOOLEAN
      BY <1>4
    <3> QED
      BY <1>4, <2>2, <3>1, NewLoadBehind
  <2> DEFINE offset == NextMultiple(LastOffset(E, HeaderLen), PageSize)
             padding == Padding(offset, section.align)
  <2>4. LastOffset(E, HeaderLen) \in Nat
    BY FileEventsType, LastOffsetBound, LengthsAssumption
  <2>5. offset \in Nat /\ offset % PageSize = 0
    BY <2>4, NextMultipleProperties, PageSizeAssumption
  <2>6. padding \in Nat
    BY <1>4, <2>5, NextMultipleProperties
  <2>7. load.offset = offset /\ load.file_size = padding + section.size
        /\ load.write = section.write
    BY DEF NewLoad
  <2>8. section.align \in {0, 1} \/ PageSize % section.align = 0 => padding = 0
    <3> HIDE DEF offset, load
    <3>1. CASE section.align = 0
      BY <3>1 DEF Padding
    <3>2. CASE section.align = 1
      BY <2>5, <3>2 DEF Padding
    <3>3. CASE section.align # 0 /\ PageSize % section.align = 0
      <4>1. offset % section.align = 0
        BY <1>4, <2>5, <3>3, PageSizeAssumption, MultipleOfMultiple
      <4> QED
        BY <4>1 DEF Padding
    <3> QED
      BY <1>4, <3>1, <3>2, <3>3
  <2> DEFINE s == result.section
             place == load.offset + (load.file_size - section.size)
  <2>9. /\ s.offset = place /\ SectionFileEnd(s) = place + section.size
        /\ s.address = Wrapped(load.address, load.offset, place)
        /\ s.write = section.write /\ s.align = section.align
    BY <1>5, <2>1
  <2>10. load.address + (load.file_size - section.size) <= MaxWord
    BY <2>2 DEF Addressable
  <2> HIDE DEF load, offset, padding, s
  <2>11. place = load.offset + padding
    BY <1>4, <2>3, <2>6, <2>7
  <2>12. load.file_size = load.memory_size
    BY <1>4, <2>3
  <2>13. load.address + (place - load.offset) <= MaxWord
    BY <1>4, <2>3, <2>6, <2>7, <2>10, <2>11, <2>12, MaxWordAssumption
  <2>14. place \in Nat /\ load.offset <= place
    BY <2>3, <2>6, <2>11
  <2>15. s.address = load.address + (place - load.offset)
    <3> DEFINE la == load.address
               lo == load.offset
    <3>1. /\ la \in Nat /\ lo \in Nat /\ place \in Nat /\ lo <= place
          /\ la + (place - lo) <= MaxWord
      BY <2>3, <2>13, <2>14
    <3>2. s.address = Wrapped(la, lo, place)
      BY <2>9
    <3>3. s.address = la + (place - lo)
      <4> HIDE DEF la, lo, place
      <4> DEFINE x == la + (place - lo)
      <4>1. x \in Nat
        BY ONLY <3>1
      <4>2. x <= MaxWord
        BY ONLY <3>1
      <4>3. la + place = x + lo
        BY ONLY <3>1
      <4>4. la \in Nat /\ lo \in Nat /\ place \in Nat
        BY <3>1
      <4> HIDE DEF x
      <4>5. Wrapped(la, lo, place) = x
        BY ONLY <4>1, <4>2, <4>3, <4>4, PlaceWraps
      <4> QED
        BY <3>2, <4>5 DEF x
    <3> QED
      BY <3>3
  <2>16. s.address + load.offset = load.address + s.offset
    BY <2>3, <2>9, <2>14, <2>15
  <2>17. SectionFileEnd(s) = SegmentFileEnd(load)
    BY <1>4, <2>3, <2>6, <2>7, <2>9, <2>11 DEF SegmentFileEnd
  <2>18. s.align \in {0, 1} \/ PageSize % s.align = 0 => s.offset = load.offset
    BY <2>3, <2>8, <2>9, <2>11
  <2>19. Behind(load, segments)
    BY <2>3 DEF Behind, IsLoad
  <2>20. load.offset <= s.offset /\ load.write = s.write
    BY <2>7, <2>9, <2>14
  <2>21. MadeFor(s, load, sections, segments)
    BY <2>3, <2>12, <2>16, <2>17, <2>18, <2>19, <2>20 DEF MadeFor
  <2> QED
    BY <2>1, <2>3, <2>21 DEF s, result
<1> QED
  BY <1>7, <1>8
==============================================================================
