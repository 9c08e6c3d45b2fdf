--------------------------- MODULE SelectionProof ---------------------------
(***************************************************************************)
(* Proofs about Selection, for every number of cases, every limit, pool    *)
(* factor and weight.                                                      *)
(***************************************************************************)
EXTENDS Selection, Ordering, SequenceTheorems

-----------------------------------------------------------------------------
(* The packed triangle: PackedIndex numbers the pairs of n positions row    *)
(* by row, in the order of the nested loop.                                *)

\* Where row i of n positions begins, both counted from 0.
RowStart(n, i) == (i * (2 * n - i - 1)) \div 2

\* The division in an index is exact.
LEMMA RowStartExact ==
    ASSUME NEW n \in Nat, NEW i \in Nat, i < n
    PROVE  RowStart(n, i) \in Nat /\ 2 * RowStart(n, i) = i * (2 * n - i - 1)
<1> DEFINE w == 2 * n - i - 1
<1>1. w \in Nat
  OBVIOUS
<1>2. PICK x \in Nat : i * w = 2 * x
  <2>1. CASE i % 2 = 0
    <3>1. PICK m \in Nat : i = 2 * m
      BY <2>1
    <3>2. i * w = 2 * (m * w) /\ m * w \in Nat
      <4> HIDE DEF w
      <4> QED BY <1>1, <3>1
    <3> QED BY <3>2
  <2>2. CASE i % 2 = 1
    <3>0. PICK h \in Nat : i = 2 * h + 1
      BY <2>2
    <3>1. PICK m \in Nat : w = 2 * m
      <4>1. n - h - 1 \in Nat /\ w = 2 * (n - h - 1)
        BY <3>0
      <4> HIDE DEF w
      <4> QED BY <4>1
    <3>2. i * w = 2 * (i * m) /\ i * m \in Nat
      <4> HIDE DEF w
      <4> QED BY <1>1, <3>1
    <3> QED BY <3>2
  <2> QED BY <2>1, <2>2
<1>3. RowStart(n, i) = (i * w) \div 2
  BY DEF RowStart
<1> HIDE DEF w
<1>4. RowStart(n, i) = x
  <2>1. (2 * x) \div 2 = x
    OBVIOUS
  <2> QED BY <1>2, <1>3, <2>1
<1> QED BY <1>2, <1>4 DEF w

\* Row i has n - i - 1 pairs.
LEMMA RowLength ==
    ASSUME NEW n \in Nat, NEW i \in Nat, i + 1 < n
    PROVE  RowStart(n, i + 1) = RowStart(n, i) + (n - i - 1)
<1>1. /\ RowStart(n, i) \in Nat
      /\ 2 * RowStart(n, i) = i * (2 * n - i - 1)
  BY RowStartExact
<1>2. /\ RowStart(n, i + 1) \in Nat
      /\ 2 * RowStart(n, i + 1) = (i + 1) * (2 * n - (i + 1) - 1)
  BY RowStartExact
<1>3. (i + 1) * (2 * n - (i + 1) - 1) = i * (2 * n - i - 1) + 2 * (n - i - 1)
  OBVIOUS
<1> QED BY <1>1, <1>2, <1>3

LEMMA RowsAscend ==
    ASSUME NEW n \in Nat, NEW i \in Nat, NEW k \in Nat, i <= k, k < n
    PROVE  RowStart(n, i) <= RowStart(n, k)
<1>1. /\ RowStart(n, i) \in Nat
      /\ 2 * RowStart(n, i) = i * (2 * n - i - 1)
  BY RowStartExact
<1>2. /\ RowStart(n, k) \in Nat
      /\ 2 * RowStart(n, k) = k * (2 * n - k - 1)
  BY RowStartExact
<1>3. k * (2 * n - k - 1) = i * (2 * n - i - 1) + (k - i) * (2 * n - k - i - 1)
  OBVIOUS
<1>4. PICK a \in Nat : a = k - i
  OBVIOUS
<1>5. PICK b \in Nat : b = 2 * n - k - i - 1
  OBVIOUS
<1>6. (k - i) * (2 * n - k - i - 1) \in Nat
  <2>1. a * b \in Nat
    OBVIOUS
  <2> QED BY <1>4, <1>5, <2>1
<1> QED BY <1>1, <1>2, <1>3, <1>6

\* The number of the pair of positions i and j of n, all counted from 0.
PairNumber(n, i, j) == RowStart(n, i) + (j - i - 1)

\* A pair's number is a number before the last row's end.
LEMMA PairNumberRange ==
    ASSUME NEW n \in Nat, NEW i \in Nat, NEW j \in Nat, i < j, j < n
    PROVE  /\ PairNumber(n, i, j) \in 0..(RowStart(n, n - 1) - 1)
           /\ PairNumber(n, i, j) >= RowStart(n, i)
           /\ PairNumber(n, i, j) < RowStart(n, i + 1)
<1>1. RowStart(n, i + 1) = RowStart(n, i) + (n - i - 1)
  BY RowLength
<1>2. RowStart(n, i) \in Nat
  BY RowStartExact
<1>3. RowStart(n, i + 1) <= RowStart(n, n - 1) /\ RowStart(n, n - 1) \in Nat
  BY RowsAscend, RowStartExact
<1> QED BY <1>1, <1>2, <1>3 DEF PairNumber

\* Later pairs have larger numbers.
LEMMA PairNumberGrows ==
    ASSUME NEW n \in Nat, NEW i \in Nat, NEW j \in Nat, i < j, j < n,
           NEW k \in Nat, NEW l \in Nat, k < l, l < n,
           i < k \/ (i = k /\ j < l)
    PROVE  PairNumber(n, i, j) < PairNumber(n, k, l)
<1>1. CASE i < k
  <2>1. /\ PairNumber(n, i, j) < RowStart(n, i + 1)
        /\ PairNumber(n, i, j) \in Int
        /\ PairNumber(n, k, l) >= RowStart(n, k)
        /\ PairNumber(n, k, l) \in Int
    BY PairNumberRange
  <2>2. RowStart(n, i + 1) <= RowStart(n, k) /\ i + 1 < n /\ k < n
    BY <1>1, RowsAscend
  <2>3. RowStart(n, i + 1) \in Int /\ RowStart(n, k) \in Int
    BY <2>2, RowStartExact
  <2> QED BY <2>1, <2>2, <2>3
<1>2. CASE i = k /\ j < l
  <2>1. RowStart(n, i) \in Nat
    BY RowStartExact
  <2> QED BY <1>2, <2>1 DEF PairNumber
<1> QED BY <1>1, <1>2

\* Every number belongs to a pair: the first row that ends after it holds it.
LEMMA PairNumberAttained ==
    ASSUME NEW n \in Nat, n > 0, NEW m \in 0..(RowStart(n, n - 1) - 1)
    PROVE  \E i, j \in Nat : i < j /\ j < n /\ PairNumber(n, i, j) = m
<1> DEFINE Late == {i \in Nat : i + 1 < n /\ m < RowStart(n, i + 1)}
<1>0. RowStart(n, 0) = 0 /\ m \in Nat
  BY RowStartExact DEF RowStart
<1>1. n > 1
  BY <1>0
<1>2. n - 2 \in Late
  <2>1. (n - 2) + 1 = n - 1 /\ RowStart(n, n - 1) \in Nat
    BY <1>1, RowStartExact
  <2> QED BY <1>1, <2>1
<1>3. PICK i \in Late : \A k \in Late : i <= k
  <2>1. Late \in SUBSET Nat /\ Late # {}
    BY <1>2
  <2> HIDE DEF Late
  <2> QED BY <2>1, LeastNatural
<1>4. i \in Nat /\ i + 1 < n /\ i < n /\ m < RowStart(n, i + 1)
  BY <1>3
<1>5. RowStart(n, i) <= m
  <2>1. CASE i = 0
    BY <1>0, <2>1
  <2>2. CASE i # 0
    <3>1. i - 1 \in Nat /\ (i - 1) + 1 = i /\ ~(i <= i - 1)
      BY <1>4, <2>2
    <3>2. i - 1 \notin Late
      BY <1>3, <3>1
    <3>3. ~(m < RowStart(n, i))
      BY <1>4, <3>1, <3>2
    <3>4. RowStart(n, i) \in Nat
      <4> HIDE DEF Late
      <4> QED BY <1>4, RowStartExact
    <3> QED BY <3>3, <3>4
  <2> QED BY <2>1, <2>2
<1>6. /\ RowStart(n, i + 1) = RowStart(n, i) + (n - i - 1)
      /\ RowStart(n, i) \in Nat
  <2> HIDE DEF Late
  <2> QED BY <1>4, RowLength, RowStartExact
<1>7. PICK j \in Nat : j = i + 1 + (m - RowStart(n, i))
  BY <1>4, <1>5, <1>6
<1>8. i < j /\ j < n /\ PairNumber(n, i, j) = m
  BY <1>4, <1>5, <1>6, <1>7 DEF PairNumber
<1> QED BY <1>4, <1>8

-----------------------------------------------------------------------------
(* The pair distances: Get reads the pair the nested loop compared.        *)

Pairs == {p \in Positions \X Positions : p[1] < p[2]}

Number(p) == PairNumber(Len(pool), p[1] - 1, p[2] - 1)

Earlier(p) ==
    {q \in Positions \X Positions :
        q[1] < q[2] /\ (q[1] < p[1] \/ (q[1] = p[1] /\ q[2] < p[2]))}

\* The numbers of the pairs are all different, and are the numbers below
\* PairCount.
LEMMA Numbered ==
    ASSUME Len(pool) \in Nat
    PROVE  /\ \A p \in Pairs : Number(p) \in 0..(PairCount - 1)
           /\ \A p \in Pairs : \A q \in Earlier(p) : q \in Pairs /\ Number(q) < Number(p)
           /\ \A p, q \in Pairs : p = q \/ p \in Earlier(q) \/ q \in Earlier(p)
           /\ \A p, q \in Pairs : Number(p) = Number(q) => p = q
           /\ \A k \in 0..(PairCount - 1) : \E p \in Pairs : Number(p) = k
<1> PICK n \in Nat : n = Len(pool)
  OBVIOUS
<1>0. /\ Positions = 1..n
      /\ n > 0 => PairCount = RowStart(n, n - 1)
      /\ n = 0 => PairCount = 0
      /\ \A p : Number(p) = PairNumber(n, p[1] - 1, p[2] - 1)
  <2>1. (n - 1) * (2 * n - (n - 1) - 1) = n * (n - 1)
    OBVIOUS
  <2>2. n = 0 => (n * (n - 1)) \div 2 = 0
    OBVIOUS
  <2> QED BY <2>1, <2>2 DEF Positions, PairCount, RowStart, Number
<1>1. ASSUME NEW p \in Pairs
      PROVE  /\ p[1] - 1 \in Nat /\ p[2] - 1 \in Nat
             /\ p[1] \in Nat /\ p[2] \in Nat
             /\ p[1] - 1 < p[2] - 1 /\ p[2] - 1 < n /\ n > 0
             /\ p = <<p[1], p[2]>>
             /\ p \in Positions \X Positions /\ p[1] < p[2]
  BY <1>0 DEF Pairs
<1>2. ASSUME NEW p \in Pairs
      PROVE  Number(p) \in 0..(PairCount - 1)
  BY <1>0, <1>1, PairNumberRange
<1>3. ASSUME NEW p \in Pairs, NEW q \in Earlier(p)
      PROVE  q \in Pairs /\ Number(q) < Number(p)
  <2>1. /\ q \in Pairs
        /\ q[1] < p[1] \/ (q[1] = p[1] /\ q[2] < p[2])
    BY DEF Earlier, Pairs
  <2>2. \/ q[1] - 1 < p[1] - 1
        \/ q[1] - 1 = p[1] - 1 /\ q[2] - 1 < p[2] - 1
    BY <1>1, <2>1
  <2>3. PairNumber(n, q[1] - 1, q[2] - 1) < PairNumber(n, p[1] - 1, p[2] - 1)
    BY <1>1, <2>1, <2>2, PairNumberGrows
  <2> QED BY <1>0, <2>1, <2>3
<1>4. ASSUME NEW p \in Pairs, NEW q \in Pairs
      PROVE  p = q \/ p \in Earlier(q) \/ q \in Earlier(p)
  <2>1. \/ p[1] = q[1] /\ p[2] = q[2]
        \/ p[1] < q[1] \/ (p[1] = q[1] /\ p[2] < q[2])
        \/ q[1] < p[1] \/ (q[1] = p[1] /\ q[2] < p[2])
    BY <1>1
  <2> QED BY <1>1, <2>1 DEF Earlier
<1>5. ASSUME NEW p \in Pairs, NEW q \in Pairs, Number(p) = Number(q)
      PROVE  p = q
  <2>1. Number(p) \in Int /\ Number(q) \in Int
    BY <1>2
  <2>2. ~(Number(p) < Number(q)) /\ ~(Number(q) < Number(p))
    BY <1>5, <2>1
  <2> QED BY <1>3, <1>4, <2>2
<1>6. ASSUME NEW k \in 0..(PairCount - 1)
      PROVE  \E p \in Pairs : Number(p) = k
  <2>1. n > 0 /\ k \in 0..(RowStart(n, n - 1) - 1)
    BY <1>0
  <2>2. PICK i, j \in Nat : i < j /\ j < n /\ PairNumber(n, i, j) = k
    BY <2>1, PairNumberAttained
  <2>3. i + 1 \in 1..n /\ j + 1 \in 1..n /\ i + 1 < j + 1
    BY <2>2
  <2>4. <<i + 1, j + 1>> \in Pairs
    BY <1>0, <2>3 DEF Pairs
  <2>5. (i + 1) - 1 = i /\ (j + 1) - 1 = j
    OBVIOUS
  <2>6. Number(<<i + 1, j + 1>>) = k
    BY <1>0, <2>2, <2>5
  <2> QED BY <2>4, <2>6
<1> QED BY <1>2, <1>3, <1>4, <1>5, <1>6

\* As many pairs come earlier as the pair's number says.
LEMMA EarlierCounted ==
    ASSUME Len(pool) \in Nat, NEW p \in Pairs
    PROVE  Cardinality(Earlier(p)) = Number(p)
<1>1. PICK m \in Nat : m = Number(p) /\ m < PairCount
  <2>1. Number(p) \in 0..(PairCount - 1)
    BY Numbered
  <2>2. PairCount \in Int
    BY DEF PairCount
  <2> QED BY <2>1, <2>2
<1> DEFINE T == 0..(m - 1)
           f == [q \in Earlier(p) |-> Number(q)]
<1>2. \A q \in Earlier(p) : q \in Pairs /\ Number(q) \in T
  <2>1. ASSUME NEW q \in Earlier(p)
        PROVE  q \in Pairs /\ Number(q) \in T
    <3>1. q \in Pairs /\ Number(q) < Number(p)
      BY Numbered
    <3>2. Number(q) \in 0..(PairCount - 1)
      BY <3>1, Numbered
    <3> QED BY <1>1, <3>1, <3>2
  <2> QED BY <2>1
<1>3. f \in [Earlier(p) -> T]
  BY <1>2
<1>4. \A a, b \in Earlier(p) : f[a] = f[b] => a = b
  BY <1>2, Numbered
<1>5. \A k \in T : \E q \in Earlier(p) : f[q] = k
  <2>1. ASSUME NEW k \in T
        PROVE  \E q \in Earlier(p) : Number(q) = k
    <3>1. k \in 0..(PairCount - 1) /\ k < Number(p) /\ k \in Int
      <4>1. PairCount \in Int
        BY DEF PairCount
      <4>2. k \in 0..(PairCount - 1) /\ k < m /\ k \in Int
        BY <1>1, <4>1
      <4> QED BY <1>1, <4>2
    <3>2. PICK q \in Pairs : Number(q) = k
      BY <3>1, Numbered
    <3>3. p # q
      BY <3>1, <3>2
    <3>4. ~(Number(p) < Number(q))
      <4>1. m \in Int /\ k \in Int /\ k < m
        BY <1>1, <3>1
      <4> QED BY <1>1, <3>2, <4>1
    <3>5. q \in Earlier(p)
      BY <3>3, <3>4, Numbered
    <3> QED BY <3>2, <3>5
  <2> QED BY <2>1
<1>6. f \in Bijection(Earlier(p), T)
  <2> HIDE DEF f, T
  <2> QED BY <1>3, <1>4, <1>5, Fun_IsBij
<1>7. ExistsBijection(Earlier(p), T)
  BY <1>6 DEF ExistsBijection
<1>8. IsFiniteSet(T) /\ Cardinality(T) = m
  <2>1. PICK n \in Int : n = m - 1
    OBVIOUS
  <2>2. /\ IsFiniteSet(0..n)
        /\ Cardinality(0..n) = IF 0 > n THEN 0 ELSE n - 0 + 1
    BY FS_Interval
  <2> QED BY <2>1, <2>2
<1>9. Cardinality(Earlier(p)) = Cardinality(T)
  <2>1. ExistsBijection(T, Earlier(p))
    BY <1>7, Fun_ExistsBijSymmetric
  <2> HIDE DEF T
  <2> QED BY <1>8, <2>1, FS_Bijection
<1> QED BY <1>1, <1>8, <1>9

\* PairAt inverts the numbering.
LEMMA PairAtNumber ==
    ASSUME Len(pool) \in Nat
    PROVE  /\ \A k \in 0..(PairCount - 1) : PairAt(k) \in Pairs /\ Number(PairAt(k)) = k
           /\ \A p \in Pairs : PairAt(Number(p)) = p
<1>1. ASSUME NEW k \in 0..(PairCount - 1)
      PROVE  PairAt(k) \in Pairs /\ Number(PairAt(k)) = k
  <2>1. PICK p \in Pairs : Number(p) = k
    BY Numbered
  <2>2. /\ p \in Positions \X Positions
        /\ p[1] < p[2] /\ k = Cardinality(Earlier(p))
    BY <2>1, EarlierCounted DEF Pairs
  <2>3. PairAt(k) = CHOOSE q \in Positions \X Positions :
                      q[1] < q[2] /\ k = Cardinality(Earlier(q))
    BY DEF PairAt, Earlier
  <2>4. /\ PairAt(k) \in Positions \X Positions
        /\ PairAt(k)[1] < PairAt(k)[2] /\ k = Cardinality(Earlier(PairAt(k)))
    BY <2>2, <2>3
  <2>5. PairAt(k) \in Pairs
    BY <2>4 DEF Pairs
  <2> QED BY <2>4, <2>5, EarlierCounted
<1>2. ASSUME NEW p \in Pairs
      PROVE  PairAt(Number(p)) = p
  <2>1. Number(p) \in 0..(PairCount - 1)
    BY Numbered
  <2>2. PairAt(Number(p)) \in Pairs /\ Number(PairAt(Number(p))) = Number(p)
    BY <1>1, <2>1
  <2> QED BY <2>2, Numbered
<1> QED BY <1>1, <1>2

\* The index into the packed matrix is the number of the pair, in whichever
\* order the two positions are given.
LEMMA GetIsPairDistance ==
    ASSUME Len(pool) \in Nat, NEW p \in Positions, NEW q \in Positions, p # q
    PROVE  /\ Get(p, q) = PairDistance(p, q)
           /\ \E k \in 0..(PairCount - 1) : Get(p, q) = pairs.packed[k]
<1>0. Positions \subseteq Nat
  BY DEF Positions
<1>1. PICK a \in Positions, b \in Positions :
        a < b /\ {<<a, b>>, <<b, a>>} = {<<p, q>>, <<q, p>>}
              /\ Get(p, q) = pairs.packed[PackedIndex(a - 1, b - 1)]
  <2>1. CASE p < q
    BY <1>0, <2>1 DEF Get
  <2>2. CASE q < p
    <3>1. ~(p < q)
      BY <1>0, <2>2
    <3>2. {<<q, p>>, <<p, q>>} = {<<p, q>>, <<q, p>>}
      OBVIOUS
    <3> QED BY <2>2, <3>1, <3>2 DEF Get
  <2> QED BY <1>0, <2>1, <2>2
<1>2. <<a, b>> \in Pairs /\ <<b, a>> \notin Pairs
  BY <1>0, <1>1 DEF Pairs
<1>3. PackedIndex(a - 1, b - 1) = Number(<<a, b>>)
  BY DEF PackedIndex, Number, PairNumber, RowStart
<1>4. PICK k \in 0..(PairCount - 1) : k = Number(<<a, b>>) /\ PairAt(k) = <<a, b>>
  BY <1>2, Numbered, PairAtNumber
<1>5. \A i \in 0..(PairCount - 1) : PairAt(i) \in {<<a, b>>, <<b, a>>} => i = k
  BY <1>2, <1>4, PairAtNumber
<1>6. PairDistance(p, q) = pairs.packed[k]
  <2>1. \A i \in 0..(PairCount - 1) : PairAt(i) \in {<<p, q>>, <<q, p>>} <=> i = k
    BY <1>1, <1>4, <1>5
  <2>2. (CHOOSE i \in 0..(PairCount - 1) : PairAt(i) \in {<<p, q>>, <<q, p>>}) = k
    BY <2>1
  <2> QED BY <2>2 DEF PairDistance
<1> QED BY <1>1, <1>3, <1>4, <1>6

-----------------------------------------------------------------------------
(* The sorted prefix: NearestFirst(k) lists the k nearest cases.           *)

\* The case at place r has r - 1 cases before it in the order of distance and
\* corpus id.
LEMMA NearestFirstRanks ==
    ASSUME cases \in Nat, fail \in [Cases -> Nat], NEW k \in 0..cases
    PROVE  /\ StrictTotal(PrecedesPairs(fail, Cases), Cases)
           /\ IsFiniteSet(Cases) /\ Cardinality(Cases) = cases
           /\ NearestFirst(k) \in [1..k -> Cases]
           /\ \A r \in 1..k :
                RankIn(PrecedesPairs(fail, Cases), Cases, NearestFirst(k)[r]) = r - 1
<1> DEFINE R == PrecedesPairs(fail, Cases)
<1>0. Cases \in SUBSET Nat
  BY DEF Cases
<1>1. Cases \in SUBSET Nat /\ StrictTotal(R, Cases)
  BY <1>0, PrecedesTotal
<1>2. IsFiniteSet(Cases) /\ Cardinality(Cases) = cases
  <2>1. PICK n \in Int : n = cases
    OBVIOUS
  <2>2. /\ IsFiniteSet(1..n)
        /\ Cardinality(1..n) = IF 1 > n THEN 0 ELSE n - 1 + 1
    BY FS_Interval
  <2> QED BY <2>1, <2>2 DEF Cases
<1>3. ASSUME NEW r \in 1..k
      PROVE  /\ NearestFirst(k)[r] \in Cases
             /\ RankIn(R, Cases, NearestFirst(k)[r]) = r - 1
  <2>1. r - 1 \in 0..(Cardinality(Cases) - 1)
    BY <1>2
  <2>2. PICK c \in Cases : RankIn(R, Cases, c) = r - 1
    <3> HIDE DEF R
    <3> QED BY <1>1, <1>2, <2>1, RankAttained
  <2>3. \A x \in Cases :
          Cardinality({y \in Cases : Precedes(fail, y, x)}) = RankIn(R, Cases, x)
    BY <1>1, PrecedesRank
  <2>4. NearestFirst(k)[r] = CHOOSE x \in Cases :
          Cardinality({y \in Cases : Precedes(fail, y, x)}) = r - 1
    BY DEF NearestFirst
  <2> QED BY <2>2, <2>3, <2>4
<1> QED BY <1>1, <1>2, <1>3 DEF NearestFirst

\* The places ascend, no case is listed twice, and whatever precedes a listed
\* case is listed.
LEMMA NearestFirstSorted ==
    ASSUME cases \in Nat, fail \in [Cases -> Nat], NEW k \in 0..cases
    PROVE  /\ \A r, t \in 1..k :
                r < t <=> Precedes(fail, NearestFirst(k)[r], NearestFirst(k)[t])
           /\ \A r, t \in 1..k : NearestFirst(k)[r] = NearestFirst(k)[t] => r = t
           /\ \A c \in Cases, r \in 1..k :
                Precedes(fail, c, NearestFirst(k)[r]) =>
                    \E t \in 1..k : NearestFirst(k)[t] = c
<1> DEFINE R == PrecedesPairs(fail, Cases)
           N == NearestFirst(k)
<1>1. /\ StrictTotal(R, Cases) /\ IsFiniteSet(Cases)
      /\ N \in [1..k -> Cases]
      /\ \A r \in 1..k : RankIn(R, Cases, N[r]) = r - 1
  BY NearestFirstRanks
<1>0. Cases \in SUBSET Nat
  BY DEF Cases
<1>2. \A x, y \in Cases : <<x, y>> \in R <=> Precedes(fail, x, y)
  BY <1>0, PrecedesTotal
<1> HIDE DEF R, N
<1>3. ASSUME NEW r \in 1..k, NEW t \in 1..k
      PROVE  /\ r < t <=> Precedes(fail, N[r], N[t])
             /\ N[r] = N[t] => r = t
  <2>1. N[r] \in Cases /\ N[t] \in Cases
    BY <1>1
  <2>2. /\ RankIn(R, Cases, N[r]) < RankIn(R, Cases, N[t]) <=> <<N[r], N[t]>> \in R
        /\ RankIn(R, Cases, N[r]) = RankIn(R, Cases, N[t]) <=> N[r] = N[t]
    BY <1>1, <2>1, RankOrder
  <2>3. r - 1 < t - 1 <=> Precedes(fail, N[r], N[t])
    BY <1>1, <1>2, <2>1, <2>2
  <2>4. r - 1 = t - 1 <=> N[r] = N[t]
    BY <1>1, <2>2
  <2>5. (r - 1 < t - 1 <=> r < t) /\ (r - 1 = t - 1 => r = t)
    OBVIOUS
  <2> QED BY <2>3, <2>4, <2>5
<1>4. ASSUME NEW c \in Cases, NEW r \in 1..k, Precedes(fail, c, N[r])
      PROVE  \E t \in 1..k : N[t] = c
  <2>1. N[r] \in Cases /\ <<c, N[r]>> \in R
    BY <1>1, <1>2, <1>4
  <2>2. /\ RankIn(R, Cases, c) < RankIn(R, Cases, N[r])
        /\ RankIn(R, Cases, c) \in 0..(Cardinality(Cases) - 1)
        /\ Cardinality(Cases) \in Nat
    BY <1>1, <2>1, RankGrows, RankType
  <2>3. PICK m \in Nat : m = RankIn(R, Cases, c) /\ m < r - 1
    BY <1>1, <2>2
  <2>4. m + 1 \in 1..k /\ (m + 1) - 1 = m
    BY <2>3
  <2>5. N[m + 1] \in Cases /\ RankIn(R, Cases, N[m + 1]) = m
    BY <1>1, <2>4
  <2>6. N[m + 1] = c
    BY <1>1, <2>3, <2>5, RankOrder
  <2> QED BY <2>4, <2>6
<1>5. /\ \A r, t \in 1..k : r < t <=> Precedes(fail, N[r], N[t])
      /\ \A r, t \in 1..k : N[r] = N[t] => r = t
      /\ \A c \in Cases, r \in 1..k :
            Precedes(fail, c, N[r]) => \E t \in 1..k : N[t] = c
  BY <1>3, <1>4
<1> QED BY <1>5 DEF N

\* The list of the first cases begins every longer one.
LEMMA NearestFirstPrefix ==
    ASSUME cases \in Nat, fail \in [Cases -> Nat],
           NEW k \in 0..cases, NEW l \in 0..cases, NEW r \in 1..k, r <= l
    PROVE  NearestFirst(k)[r] = NearestFirst(l)[r]
<1>1. r \in 1..l
  OBVIOUS
<1> QED BY <1>1 DEF NearestFirst

-----------------------------------------------------------------------------
(* The distances are numbers, and the order of the raw ones survives.      *)

LEMMA CombinedIsNumber ==
    ASSUME NEW S, IsFiniteSet(S), NEW cover \in [S -> Nat], NEW state \in [S -> Nat]
    PROVE  Combined(cover, state, S) \in [S -> Nat]
<1>1. ASSUME NEW x \in S
      PROVE  CombinedDistance(QuantileRank(cover, S, x), QuantileRank(state, S, x),
                              CoverWeight, WeightScale) \in Nat
  <2>1. /\ QuantileRank(cover, S, x) \in Nat
        /\ QuantileRank(state, S, x) \in Nat
    BY QuantileRankType
  <2> QED BY <2>1, CombinedType, WeightAssumption
<1> QED BY <1>1 DEF Combined

LEMMA CombinedKeepsOrder ==
    ASSUME NEW S, IsFiniteSet(S), NEW cover \in [S -> Nat], NEW state \in [S -> Nat],
           NEW a \in S, NEW b \in S, cover[a] < cover[b], state[a] < state[b]
    PROVE  Combined(cover, state, S)[a] < Combined(cover, state, S)[b]
<1>1. /\ QuantileRank(cover, S, a) \in Nat /\ QuantileRank(cover, S, b) \in Nat
      /\ QuantileRank(state, S, a) \in Nat /\ QuantileRank(state, S, b) \in Nat
  BY QuantileRankType
<1>2. /\ QuantileRank(cover, S, a) < QuantileRank(cover, S, b)
      /\ QuantileRank(state, S, a) < QuantileRank(state, S, b)
  BY QuantileRankStrict
<1>3. CombinedDistance(QuantileRank(cover, S, a), QuantileRank(state, S, a),
                       CoverWeight, WeightScale)
        < CombinedDistance(QuantileRank(cover, S, b), QuantileRank(state, S, b),
                           CoverWeight, WeightScale)
  BY <1>1, <1>2, CombinedStrict, WeightAssumption
<1> QED BY <1>3 DEF Combined

\* The limits: no more cases are asked for than there are, and the pool holds
\* at least as many as are asked for.
LEMMA Limits ==
    ASSUME cases \in Nat
    PROVE  /\ Limit \in 0..cases
           /\ PoolSize \in 0..cases
           /\ Limit <= PoolSize
<1>1. Limit \in Nat /\ Limit <= cases
  BY LimitAssumption DEF Limit
<1>2. PICK f \in Nat \ {0} : f = IF PoolFactor = 0 THEN 1 ELSE PoolFactor
  BY LimitAssumption
<1>3. PICK m \in Nat : m = Limit
  BY <1>1
<1>4. m * f \in Nat /\ m <= m * f
  <2>1. m * 1 <= m * f
    BY TimesMonotone
  <2> QED BY <2>1
<1>5. PoolSize = IF m * f < cases THEN m * f ELSE cases
  BY <1>2, <1>3 DEF PoolSize
<1>6. PoolSize \in Nat /\ PoolSize <= cases /\ m <= PoolSize
  BY <1>1, <1>3, <1>4, <1>5
<1> QED BY <1>1, <1>3, <1>6

\* The unit of a distance is at least one.
LEMMA UnitPositive ==
    ASSUME NEW n \in Int
    PROVE  Unit(n) \in Nat \ {0}
<1>1. CASE n <= 1
  BY <1>1 DEF Unit
<1>2. CASE n > 1
  <2>1. PICK m \in Nat \ {0} : m = 2 * (n - 1)
    BY <1>2
  <2>2. PICK w \in Nat \ {0} : w = WeightScale
    BY WeightAssumption
  <2>3. m * w \in Nat /\ m * w # 0
    OBVIOUS
  <2>4. Unit(n) = m * w
    BY <1>2, <2>1, <2>2 DEF Unit
  <2> QED BY <2>3, <2>4
<1> QED BY <1>1, <1>2

-----------------------------------------------------------------------------
(* Counting arguments.                                                     *)

LEMMA IntervalSize ==
    ASSUME NEW n \in Nat
    PROVE  IsFiniteSet(1..n) /\ Cardinality(1..n) = n
<1>1. /\ IsFiniteSet(1..n)
      /\ Cardinality(1..n) = IF 1 > n THEN 0 ELSE n - 1 + 1
  BY FS_Interval
<1> QED BY <1>1

\* Fewer picks than there are elements leave one.
LEMMA SomeLeft ==
    ASSUME NEW S, IsFiniteSet(S), NEW k \in Nat, k < Cardinality(S),
           NEW f \in [1..k -> S]
    PROVE  \E x \in S : \A i \in 1..k : f[i] # x
<1> SUFFICES ASSUME \A x \in S : \E i \in 1..k : f[i] = x
             PROVE  FALSE
  OBVIOUS
<1>1. f \in Surjection(1..k, S)
  BY Fun_IsSurj
<1>2. Cardinality(S) <= Cardinality(1..k) /\ Cardinality(1..k) = k
  BY <1>1, IntervalSize, FS_Surjection
<1>3. Cardinality(S) \in Nat
  BY FS_CardinalityType
<1> QED BY <1>2, <1>3

\* Of i different positions one is not below i.
LEMMA SomeBeyond ==
    ASSUME NEW i \in Nat \ {0}, NEW f \in [1..i -> Nat \ {0}],
           \A a, b \in 1..i : f[a] = f[b] => a = b
    PROVE  \E j \in 1..i : i <= f[j]
<1> SUFFICES ASSUME \A j \in 1..i : f[j] < i
             PROVE  FALSE
  OBVIOUS
<1>1. PICK m \in Nat : m = i - 1
  OBVIOUS
<1>2. f \in [1..i -> 1..m]
  <2>1. \A j \in 1..i : f[j] \in 1..m
    BY <1>1
  <2> QED BY <2>1
<1>3. f \in Injection(1..i, 1..m)
  BY <1>2, Fun_IsInj
<1>4. IsFiniteSet(1..m) /\ Cardinality(1..m) = m
  BY IntervalSize
<1>5. Cardinality(1..i) <= Cardinality(1..m)
  BY <1>3, <1>4, FS_Injection
<1>6. Cardinality(1..i) = i
  BY IntervalSize
<1> QED BY <1>1, <1>4, <1>5, <1>6

-----------------------------------------------------------------------------
(* The inductive invariant.                                                *)

TypeInv ==
    /\ pc \in {"rank", "select", "pairs", "pick", "take", "done"}
    /\ mode \in {"random", "sort", "diverse"}
    /\ pc \in {"pairs", "pick"} => mode = "diverse"
    /\ weight \in 0..WeightScale
    /\ cases \in Nat
    /\ covers \in [Cases -> Nat] /\ states \in [Cases -> Nat]
    /\ fail \in [Cases -> Nat]
    /\ pc # "rank" => fail = Combined(covers, states, Cases)

\* The diverse search has compared the pairs of its pool.
Compared == mode = "diverse" /\ pc \in {"pick", "take", "done"}

PoolInv ==
    /\ pool = IF mode = "diverse" /\ pc \notin {"rank", "select"}
              THEN NearestFirst(PoolSize)
              ELSE <<>>
    /\ Compared => pairs.packed \in [0..(PairCount - 1) -> Nat]

PickInv ==
    /\ ~Compared => picked = <<>>
    /\ pc = "pick" => Limit >= 1
    /\ picked \in Seq(Positions) /\ Len(picked) <= Limit /\ Injective(picked)
    /\ minPass = <<>> \/ picked # <<>>
    /\ picked # <<>> => minPass \in [Positions -> Nat]

Decided == pc \in {"take", "done"}

DecisionInv ==
    /\ ~Decided => decisions = <<>>
    /\ Decided => decisions \in [1..Limit -> Cases] /\ Injective(decisions)
    /\ Decided /\ mode = "sort" => decisions = NearestFirst(Limit)
    /\ Decided /\ mode = "diverse" =>
         /\ Len(picked) = Limit
         /\ decisions = [i \in DOMAIN picked |-> pool[picked[i]]]
    /\ pc = "done" => taken = {decisions[i] : i \in DOMAIN decisions}

\* d is the smallest of the distances of position p to the first k picks.
Smallest(d, p, k) ==
    /\ \E j \in 1..k : d = Get(p, picked[j])
    /\ \A j \in 1..k : d <= Get(p, picked[j])

\* The running minimum is current for the positions not picked.
MinCurrent ==
    picked # <<>> => \A p \in Candidates : Smallest(minPass[p], p, Len(picked))

\* The minimum of a picked position stays what it was picked with.
MinFrozen ==
    \A i \in 2..Len(picked) : Smallest(minPass[picked[i]], picked[i], i - 1)

\* The scores of the picks fall, and the last is no less than any left.
PicksFall ==
    \A i \in 2..Len(picked) :
        /\ \A j \in (i + 1)..Len(picked) :
             Score(picked[i], minPass[picked[i]]) >= Score(picked[j], minPass[picked[j]])
        /\ \A p \in Candidates :
             Score(picked[i], minPass[picked[i]]) >= Score(p, minPass[p])

\* Without a diversity weight every pick is one of the nearest left.
PickedNearest ==
    weight = 0 =>
        \A i \in 1..Len(picked) : \A p \in Positions \ {picked[j] : j \in 1..i} :
            fail[pool[picked[i]]] <= fail[pool[p]]

Greedy == MinCurrent /\ MinFrozen /\ PicksFall /\ PickedNearest

SInv == TypeInv /\ PoolInv /\ PickInv /\ DecisionInv /\ Greedy

-----------------------------------------------------------------------------
(* What the invariant says of the pool.                                    *)

LEMMA PoolFacts ==
    ASSUME TypeInv, PoolInv
    PROVE  /\ Limit \in 0..cases /\ Limit <= PoolSize
           /\ Len(pool) \in Nat /\ Positions \subseteq Nat \ {0}
           /\ IsFiniteSet(Positions) /\ Cardinality(Positions) = Len(pool)
           /\ pool \in [Positions -> Cases]
           /\ mode = "diverse" /\ pc \notin {"rank", "select"} => Len(pool) = PoolSize
           /\ \A p, q \in Positions : pool[p] = pool[q] => p = q
           /\ \A p, q \in Positions : p < q <=> Precedes(fail, pool[p], pool[q])
           /\ \A c \in Cases, p \in Positions :
                Precedes(fail, c, pool[p]) => \E q \in Positions : pool[q] = c
<1>1. /\ Limit \in 0..cases
      /\ PoolSize \in 0..cases
      /\ Limit <= PoolSize
      /\ cases \in Nat /\ fail \in [Cases -> Nat]
  BY Limits DEF TypeInv
<1>2. PICK k \in 0..cases : /\ pool = NearestFirst(k)
                            /\ mode = "diverse" /\ pc \notin {"rank", "select"} => k = PoolSize
  <2>1. CASE mode = "diverse" /\ pc \notin {"rank", "select"}
    BY <1>1, <2>1 DEF PoolInv
  <2>2. CASE ~(mode = "diverse" /\ pc \notin {"rank", "select"})
    <3>1. 0 \in 0..cases
      BY <1>1
    <3>2. NearestFirst(0) = <<>>
      BY DEF NearestFirst
    <3> QED BY <2>2, <3>1, <3>2 DEF PoolInv
  <2> QED BY <2>1, <2>2
<1>3. pool \in [1..k -> Cases] /\ k \in Nat
  BY <1>1, <1>2, NearestFirstRanks
<1>4. pool \in Seq(Cases)
  BY <1>3, SeqDef
<1>5. Len(pool) = k
  <2>1. Len(pool) \in Nat /\ DOMAIN pool = 1..Len(pool)
    BY <1>4, LenProperties
  <2>2. 1..Len(pool) = 1..k
    BY <1>3, <2>1
  <2>3. Cardinality(1..Len(pool)) = Len(pool) /\ Cardinality(1..k) = k
    BY <1>3, <2>1, IntervalSize
  <2> QED BY <2>2, <2>3
<1>6. Positions = 1..k
  BY <1>5 DEF Positions
<1>7. IsFiniteSet(1..k) /\ Cardinality(1..k) = k
  BY <1>3, IntervalSize
<1>8. /\ \A r, t \in 1..k : r < t <=> Precedes(fail, pool[r], pool[t])
      /\ \A r, t \in 1..k : pool[r] = pool[t] => r = t
      /\ \A c \in Cases, r \in 1..k :
            Precedes(fail, c, pool[r]) => \E t \in 1..k : pool[t] = c
  BY <1>1, <1>2, NearestFirstSorted
<1> QED BY <1>1, <1>2, <1>3, <1>5, <1>6, <1>7, <1>8

\* While the positions are picked there are at least as many as are asked for.
LEMMA EnoughPositions ==
    ASSUME TypeInv, PoolInv, pc = "pick"
    PROVE  mode = "diverse" /\ Limit <= Len(pool)
BY PoolFacts DEF TypeInv

\* The pair distances are numbers.
LEMMA GetIsNumber ==
    ASSUME TypeInv, PoolInv, Compared, NEW p \in Positions, NEW q \in Positions
    PROVE  Get(p, q) \in Nat
<1>1. CASE p = q
  BY <1>1 DEF Get
<1>2. CASE p # q
  <2>1. Len(pool) \in Nat
    BY PoolFacts
  <2>2. PICK k \in 0..(PairCount - 1) : Get(p, q) = pairs.packed[k]
    BY <1>2, <2>1, GetIsPairDistance
  <2> QED BY <2>2 DEF PoolInv
<1> QED BY <1>1, <1>2

\* A score is a number that grows with the diversity.
LEMMA ScoreGrows ==
    ASSUME TypeInv, PoolInv, NEW p \in Positions, NEW d \in Nat, NEW e \in Nat, d <= e
    PROVE  /\ Score(p, d) \in Int /\ Score(p, e) \in Int
           /\ Score(p, d) <= Score(p, e)
<1>1. PICK x \in Int : x = (WeightScale - weight) * (FailUnit - fail[pool[p]]) * PairUnit
  <2>1. pool[p] \in Cases
    BY PoolFacts
  <2>2. fail[pool[p]] \in Nat
    BY <2>1 DEF TypeInv
  <2>3. cases \in Int /\ PairCount \in Int
    <3>1. PICK n \in Nat : n = Len(pool)
      BY PoolFacts
    <3>2. PairCount \in Int
      BY <3>1 DEF PairCount
    <3> QED BY <3>2 DEF TypeInv
  <2>4. FailUnit \in Int /\ PairUnit \in Int
    BY <2>3, UnitPositive DEF FailUnit, PairUnit
  <2>5. PICK a \in Int, b \in Int, c \in Int :
          a = WeightScale - weight /\ b = FailUnit - fail[pool[p]] /\ c = PairUnit
    BY <2>2, <2>4, WeightAssumption DEF TypeInv
  <2>6. (a * b) * c \in Int
    OBVIOUS
  <2> QED BY <2>5, <2>6
<1>2. PICK w \in Nat, u \in Nat : w = weight /\ u = FailUnit
  <2>1. FailUnit \in Nat
    BY UnitPositive DEF FailUnit, TypeInv
  <2> QED BY <2>1, WeightAssumption DEF TypeInv
<1>3. /\ Score(p, d) = x + w * d * u
      /\ Score(p, e) = x + w * e * u
  BY <1>1, <1>2 DEF Score
<1>4. /\ w * d * u \in Nat /\ w * e * u \in Nat
      /\ w * d * u <= w * e * u
  <2>1. w * d \in Nat /\ w * e \in Nat /\ w * d <= w * e
    BY TimesMonotone
  <2>2. PICK y \in Nat, z \in Nat : y = w * d /\ z = w * e
    BY <2>1
  <2>3. u * y <= u * z /\ u * y \in Nat /\ u * z \in Nat
    BY <2>1, <2>2, TimesMonotone
  <2>4. y * u = u * y /\ z * u = u * z
    OBVIOUS
  <2> QED BY <2>2, <2>3, <2>4
<1> QED BY <1>3, <1>4

-----------------------------------------------------------------------------
(* The steps.                                                              *)

\* Before anything is picked the greedy conditions say nothing.
LEMMA GreedyEmpty == picked = <<>> => Greedy
<1> SUFFICES ASSUME picked = <<>>
             PROVE  Greedy
  OBVIOUS
<1>1. Len(picked) = 0
  BY EmptySeq
<1>2. MinCurrent
  BY DEF MinCurrent
<1>3. MinFrozen /\ PicksFall /\ PickedNearest
  BY <1>1 DEF MinFrozen, PicksFall, PickedNearest
<1> QED BY <1>2, <1>3 DEF Greedy

LEMMA GreedyEmptyNext == picked' = <<>> => Greedy'
<1>1. (picked = <<>> => Greedy)'
  BY GreedyEmpty, PTL
<1> QED BY <1>1

\* What no step but a pick changes.
GreedyVars == <<weight, cases, fail, pool, pairs, minPass, picked>>

LEMMA GreedyKept == Greedy /\ UNCHANGED GreedyVars => Greedy'
<1> SUFFICES ASSUME Greedy, UNCHANGED GreedyVars
             PROVE  Greedy'
  OBVIOUS
<1>1. /\ weight' = weight /\ cases' = cases /\ fail' = fail /\ pool' = pool
      /\ pairs' = pairs /\ minPass' = minPass /\ picked' = picked
  BY DEF GreedyVars
<1>2. Positions' = Positions /\ Candidates' = Candidates
  BY <1>1 DEF Positions, Candidates, Picked
<1>3. \A p, q : Get(p, q)' = Get(p, q)
  BY <1>1 DEF Get, PackedIndex
<1>4. \A p, d : Score(p, d)' = Score(p, d)
  BY <1>1 DEF Score, FailUnit, PairUnit, PairCount, Unit
<1>5. MinCurrent'
  BY <1>1, <1>2, <1>3 DEF Greedy, MinCurrent, Smallest
<1>6. MinFrozen'
  BY <1>1, <1>3 DEF Greedy, MinFrozen, Smallest
<1>7. PicksFall'
  BY <1>1, <1>2, <1>4 DEF Greedy, PicksFall
<1>8. PickedNearest'
  BY <1>1, <1>2 DEF Greedy, PickedNearest
<1> QED BY <1>5, <1>6, <1>7, <1>8 DEF Greedy

LEMMA SInitial == Init => SInv
<1> SUFFICES ASSUME Init
             PROVE  SInv
  OBVIOUS
<1>1. TypeInv
  <2>1. mode \in {"random", "sort", "diverse"} /\ pc = "rank"
    BY ModeAssumption DEF Init
  <2>2. weight \in 0..WeightScale
    BY WeightAssumption DEF Init
  <2>3. cases \in Nat
    BY CaseAssumption DEF Init
  <2>4. covers \in [Cases -> Nat] /\ states \in [Cases -> Nat]
    BY RawAssumption DEF Init
  <2>5. fail \in [Cases -> Nat]
    BY DEF Init
  <2> QED BY <2>1, <2>2, <2>3, <2>4, <2>5 DEF TypeInv
<1>2. PoolInv
  BY DEF Init, PoolInv, Compared
<1>3. PickInv
  <2>1. picked = <<>> /\ Len(picked) = 0 /\ picked \in Seq(Positions) /\ DOMAIN picked = {}
    BY EmptySeq DEF Init
  <2>2. Limit \in Nat
    BY <1>1, Limits DEF TypeInv
  <2> QED BY <2>1, <2>2 DEF Init, PickInv, Injective
<1>4. DecisionInv
  BY DEF Init, DecisionInv, Decided
<1>5. Greedy
  BY GreedyEmpty DEF Init
<1> QED BY <1>1, <1>2, <1>3, <1>4, <1>5 DEF SInv

\* Rank gives every case its distance to the failing one.
LEMMA RankKeeps == SInv /\ Rank => SInv'
<1> SUFFICES ASSUME SInv, Rank
             PROVE  SInv'
  OBVIOUS
<1> USE DEF SInv
<1>1. /\ pc = "rank" /\ pc' = "select"
      /\ fail' = Combined(covers, states, Cases)
      /\ UNCHANGED <<mode, weight, cases, covers, states, pool, pairs, minPass,
                     picked, decisions, taken>>
  BY DEF Rank
<1>2. Cases' = Cases /\ Limit' = Limit /\ Positions' = Positions /\ PairCount' = PairCount
  BY <1>1 DEF Cases, Limit, Positions, PairCount
<1>3. Combined(covers, states, Cases)' = Combined(covers, states, Cases)
  BY <1>1, <1>2 DEF Combined
<1>4. Combined(covers, states, Cases) \in [Cases -> Nat]
  <2>1. IsFiniteSet(Cases)
    BY IntervalSize DEF TypeInv, Cases
  <2> QED BY <2>1, CombinedIsNumber DEF TypeInv
<1>5. TypeInv'
  BY <1>1, <1>2, <1>3, <1>4 DEF TypeInv
<1>6. PoolInv'
  BY <1>1, <1>2 DEF PoolInv, Compared
<1>7. picked = <<>>
  BY <1>1 DEF PickInv, Compared
<1>8. PickInv'
  BY <1>1, <1>2 DEF PickInv, Compared
<1>9. DecisionInv'
  BY <1>1, <1>2 DEF DecisionInv, Decided
<1>10. Greedy'
  BY <1>1, <1>7, GreedyEmptyNext
<1> QED BY <1>5, <1>6, <1>8, <1>9, <1>10

\* The frame of the steps after Rank, and the parts of the invariant that
\* follow from it.
LEMMA AfterRank ==
    ASSUME SInv, UNCHANGED <<mode, weight, cases, covers, states, fail>>, pc # "rank",
           pc' \in {"select", "pairs", "pick", "take", "done"},
           pc' \in {"pairs", "pick"} => mode = "diverse"
    PROVE  /\ TypeInv'
           /\ Cases' = Cases /\ Limit' = Limit /\ PoolSize' = PoolSize
           /\ \A k : NearestFirst(k)' = NearestFirst(k)
<1>1. Cases' = Cases
  BY DEF Cases
<1>2. Combined(covers, states, Cases)' = Combined(covers, states, Cases)
  BY <1>1 DEF Combined
<1>3. Limit' = Limit
  BY DEF Limit
<1>4. PoolSize' = PoolSize
  BY <1>3 DEF PoolSize
<1>5. \A k : NearestFirst(k)' = NearestFirst(k)
  BY <1>1 DEF NearestFirst, Precedes
<1>6. TypeInv'
  BY <1>1, <1>2 DEF TypeInv, SInv
<1> QED BY <1>1, <1>3, <1>4, <1>5, <1>6

\* sort and random decide on as many different cases as are asked for.
LEMMA SelectKeeps == SInv /\ (SelectSort \/ SelectRandom) => SInv'
<1> SUFFICES ASSUME SInv, SelectSort \/ SelectRandom
             PROVE  SInv'
  OBVIOUS
<1> USE DEF SInv
<1>1. /\ pc = "select" /\ pc' = "take" /\ mode # "diverse"
      /\ UNCHANGED <<mode, weight, cases, covers, states, fail, pool, pairs,
                     minPass, picked, taken>>
      /\ \/ mode = "sort" /\ decisions' = NearestFirst(Limit)
         \/ mode = "random" /\ decisions' \in [1..Limit -> Cases] /\ Injective(decisions')
  BY DEF SelectSort, SelectRandom
<1>2. /\ TypeInv'
      /\ Cases' = Cases /\ Limit' = Limit /\ PoolSize' = PoolSize
      /\ \A k : NearestFirst(k)' = NearestFirst(k)
  BY <1>1, AfterRank
<1>3. PoolInv'
  BY <1>1 DEF PoolInv, Compared
<1>4. picked = <<>>
  BY <1>1 DEF PickInv, Compared
<1>5. PickInv'
  <2>1. Positions' = Positions
    BY <1>1 DEF Positions
  <2> QED BY <1>1, <1>2, <2>1 DEF PickInv, Compared
<1>6. decisions' \in [1..Limit -> Cases] /\ Injective(decisions')
  <2>1. Limit \in 0..cases /\ cases \in Nat /\ fail \in [Cases -> Nat]
    BY Limits DEF TypeInv
  <2>2. /\ NearestFirst(Limit) \in [1..Limit -> Cases]
        /\ \A r, t \in 1..Limit : NearestFirst(Limit)[r] = NearestFirst(Limit)[t] => r = t
    BY <2>1, NearestFirstRanks, NearestFirstSorted
  <2>3. Injective(NearestFirst(Limit))
    BY <2>2 DEF Injective
  <2> QED BY <1>1, <2>2, <2>3
<1>7. DecisionInv'
  <2>1. Injective(decisions)'
    BY <1>6 DEF Injective
  <2> QED BY <1>1, <1>2, <1>6, <2>1 DEF DecisionInv, Decided
<1>8. Greedy'
  BY <1>1, <1>4, GreedyEmptyNext
<1> QED BY <1>2, <1>3, <1>5, <1>7, <1>8

LEMMA PoolKeeps == SInv /\ FillPool => SInv'
<1> SUFFICES ASSUME SInv, FillPool
             PROVE  SInv'
  OBVIOUS
<1> USE DEF SInv
<1>1. /\ pc = "select" /\ pc' = "pairs" /\ mode = "diverse"
      /\ pool' = NearestFirst(PoolSize)
      /\ UNCHANGED <<mode, weight, cases, covers, states, fail, pairs, minPass,
                     picked, decisions, taken>>
  BY DEF FillPool
<1>2. /\ TypeInv'
      /\ Cases' = Cases /\ Limit' = Limit /\ PoolSize' = PoolSize
      /\ \A k : NearestFirst(k)' = NearestFirst(k)
  BY <1>1, AfterRank
<1>3. PoolInv'
  BY <1>1, <1>2 DEF PoolInv, Compared
<1>4. picked = <<>> /\ minPass = <<>>
  BY <1>1 DEF PickInv, Compared
<1>5. PickInv'
  <2>1. picked' \in Seq(Positions')
    BY <1>1, <1>4, EmptySeq
  <2> QED BY <1>1, <1>2, <1>4, <2>1 DEF PickInv, Compared, Injective
<1>6. DecisionInv'
  BY <1>1, <1>2 DEF DecisionInv, Decided
<1>7. Greedy'
  BY <1>1, <1>4, GreedyEmptyNext
<1> QED BY <1>2, <1>3, <1>5, <1>6, <1>7

LEMMA CompareKeeps == SInv /\ ComparePairs => SInv'
<1> SUFFICES ASSUME SInv, ComparePairs
             PROVE  SInv'
  OBVIOUS
<1> USE DEF SInv
<1>0. /\ pc = "pairs" /\ pc' = IF Limit = 0 THEN "take" ELSE "pick"
      /\ UNCHANGED <<mode, weight, cases, covers, states, fail, pool, minPass,
                     picked, decisions, taken>>
  BY DEF ComparePairs
<1>1. mode = "diverse" /\ pc' \in {"take", "pick"} /\ pc' # "done"
  BY <1>0 DEF TypeInv
<1>2. /\ TypeInv'
      /\ Cases' = Cases /\ Limit' = Limit /\ PoolSize' = PoolSize
      /\ \A k : NearestFirst(k)' = NearestFirst(k)
  BY <1>0, <1>1, AfterRank
<1>3. Positions' = Positions /\ PairCount' = PairCount
  BY <1>0 DEF Positions, PairCount
<1>4. pairs'.packed \in [0..(PairCount - 1) -> Nat]
  <2>1. PICK cover \in [0..(PairCount - 1) -> CoverRaws],
             state \in [0..(PairCount - 1) -> PairStates] :
          pairs' = [cover |-> cover, state |-> state,
                    packed |-> Combined(cover, state, 0..(PairCount - 1))]
    BY DEF ComparePairs
  <2>2. PairCount \in Int
    <3>1. PICK n \in Nat : n = Len(pool)
      BY PoolFacts
    <3> QED BY <3>1 DEF PairCount
  <2>3. IsFiniteSet(0..(PairCount - 1))
    <3>1. PICK n \in Int : n = PairCount - 1
      BY <2>2
    <3> QED BY <3>1, FS_Interval
  <2>4. /\ cover \in [0..(PairCount - 1) -> Nat]
        /\ state \in [0..(PairCount - 1) -> Nat]
    BY RawAssumption
  <2> QED BY <2>1, <2>3, <2>4, CombinedIsNumber
<1>5. PoolInv'
  <2>1. pool = NearestFirst(PoolSize)
    BY <1>0, <1>1 DEF PoolInv
  <2> QED BY <1>0, <1>1, <1>2, <1>3, <1>4, <2>1 DEF PoolInv, Compared
<1>6. picked = <<>>
  BY <1>0 DEF PickInv, Compared
<1>7. PickInv'
  <2>1. pc' = "pick" => Limit >= 1
    <3>1. Limit \in Nat
      BY Limits DEF TypeInv
    <3> QED BY <1>0, <3>1
  <2> QED BY <1>0, <1>2, <1>3, <1>6, <2>1 DEF PickInv
<1>8. DecisionInv'
  <2>1. decisions = <<>>
    BY <1>0 DEF DecisionInv, Decided
  <2>2. CASE pc' = "pick"
    BY <1>0, <2>1, <2>2 DEF DecisionInv, Decided
  <2>3. CASE pc' = "take"
    <3>1. Limit = 0
      BY <1>0, <2>3
    <3>2. <<>> \in [1..0 -> Cases] /\ DOMAIN picked = {} /\ Len(picked) = 0
      BY <1>6, EmptySeq
    <3>3. <<>> = [i \in DOMAIN picked |-> pool[picked[i]]]
      BY <3>2
    <3>4. Injective(decisions)'
      BY <1>0, <2>1 DEF Injective
    <3> QED BY <1>0, <1>1, <1>2, <2>1, <2>3, <3>1, <3>2, <3>3, <3>4
           DEF DecisionInv, Decided
  <2> QED BY <1>1, <2>2, <2>3
<1>9. Greedy'
  BY <1>0, <1>6, GreedyEmptyNext
<1> QED BY <1>2, <1>5, <1>7, <1>8, <1>9

-----------------------------------------------------------------------------
(* The greedy picks.                                                       *)

\* The numbers two candidates are compared by.
LEMMA Comparable ==
    ASSUME TypeInv, PoolInv, minPass \in [Positions -> Nat], NEW p \in Positions
    PROVE  /\ Score(p, minPass[p]) \in Int
           /\ fail[pool[p]] \in Nat /\ minPass[p] \in Nat /\ pool[p] \in Nat
<1>1. pool[p] \in Cases
  BY PoolFacts
<1>2. pool[p] \in Nat /\ fail[pool[p]] \in Nat
  BY <1>1 DEF Cases, TypeInv
<1>3. minPass[p] \in Nat /\ minPass[p] <= minPass[p]
  OBVIOUS
<1>4. Score(p, minPass[p]) \in Int
  BY <1>3, ScoreGrows
<1> QED BY <1>2, <1>3, <1>4

\* is_better_diverse_candidate is a strict total order, so that the linear scan
\* of the code ends at one best candidate.
LEMMA BestExists ==
    ASSUME TypeInv, PoolInv, minPass \in [Positions -> Nat],
           picked \in Seq(Positions), Len(picked) < Len(pool)
    PROVE  \E p \in Candidates : \A q \in Candidates \ {p} : Better(p, q)
<1> DEFINE R == {x \in Candidates \X Candidates : Better(x[1], x[2])}
<1>1. Candidates \subseteq Positions
  BY DEF Candidates
<1>2. \A x, y \in Candidates : <<x, y>> \in R <=> Better(x, y)
  OBVIOUS
<1>3. \A x \in Candidates : /\ Score(x, minPass[x]) \in Int
                            /\ fail[pool[x]] \in Nat /\ minPass[x] \in Nat
                            /\ pool[x] \in Nat
  BY <1>1, Comparable
<1>4. \A x \in Candidates : ~Better(x, x)
  BY <1>3 DEF Better
<1>5. \A x, y, z \in Candidates : (Better(x, y) /\ Better(y, z)) => Better(x, z)
  BY <1>3 DEF Better
<1>6. \A x, y \in Candidates : x # y => (Better(x, y) \/ Better(y, x))
  <2>1. ASSUME NEW x \in Candidates, NEW y \in Candidates, x # y
        PROVE  Better(x, y) \/ Better(y, x)
    <3>1. pool[x] # pool[y]
      BY <1>1, <2>1, PoolFacts
    <3> QED BY <1>3, <3>1 DEF Better
  <2> QED BY <2>1
<1>7. StrictTotal(R, Candidates)
  <2> HIDE DEF R
  <2> QED BY <1>2, <1>4, <1>5, <1>6 DEF StrictTotal
<1>8. Candidates # {} /\ IsFiniteSet(Candidates)
  <2>1. /\ IsFiniteSet(Positions) /\ Cardinality(Positions) = Len(pool)
        /\ Len(picked) \in Nat /\ picked \in [1..Len(picked) -> Positions]
    BY PoolFacts, LenProperties
  <2>2. PICK x \in Positions : \A i \in 1..Len(picked) : picked[i] # x
    BY <2>1, SomeLeft
  <2>3. x \in Candidates
    BY <2>1, <2>2 DEF Candidates, Picked
  <2>4. Candidates \in SUBSET Positions
    BY <1>1
  <2> QED BY <2>1, <2>3, <2>4, FS_Subset
<1>9. \E p \in Candidates : \A q \in Candidates \ {p} : <<p, q>> \in R
  <2> HIDE DEF R
  <2> QED BY <1>7, <1>8, FirstExists
<1> QED BY <1>9

\* A better candidate has no smaller a score, and without a diversity weight it
\* is no farther from the failing case.
LEMMA BetterIs ==
    ASSUME TypeInv, PoolInv, minPass \in [Positions -> Nat],
           NEW p \in Positions, NEW q \in Positions, Better(p, q)
    PROVE  /\ Score(p, minPass[p]) >= Score(q, minPass[q])
           /\ weight = 0 => fail[pool[p]] <= fail[pool[q]]
<1>1. /\ Score(p, minPass[p]) \in Int /\ Score(q, minPass[q]) \in Int
      /\ fail[pool[p]] \in Nat /\ fail[pool[q]] \in Nat
      /\ minPass[p] \in Nat /\ minPass[q] \in Nat
  BY Comparable
<1>2. Score(p, minPass[p]) >= Score(q, minPass[q])
  BY <1>1 DEF Better
<1>3. ASSUME weight = 0, fail[pool[q]] < fail[pool[p]]
      PROVE  FALSE
  <2>1. PICK s \in Nat \ {0}, u \in Nat \ {0} : s = WeightScale /\ u = PairUnit
    <3>1. PairCount \in Int
      <4>1. PICK n \in Nat : n = Len(pool)
        BY PoolFacts
      <4> QED BY <4>1 DEF PairCount
    <3> QED BY <3>1, UnitPositive, WeightAssumption DEF PairUnit
  <2>2. PICK a \in Int, b \in Int :
          a = FailUnit - fail[pool[p]] /\ b = FailUnit - fail[pool[q]] /\ a < b
    <3>1. FailUnit \in Int
      BY UnitPositive DEF FailUnit, TypeInv
    <3> QED BY <1>1, <1>3, <3>1
  <2>3. PICK d \in Nat, e \in Nat, f \in Nat :
          d = minPass[p] /\ e = minPass[q] /\ f = FailUnit
    BY <1>1, UnitPositive DEF FailUnit, TypeInv
  <2>4. /\ Score(p, minPass[p]) = (s - 0) * a * u + 0 * d * f
        /\ Score(q, minPass[q]) = (s - 0) * b * u + 0 * e * f
    BY <1>3, <2>1, <2>2, <2>3 DEF Score
  <2>5. /\ (s - 0) * a * u + 0 * d * f = s * a * u
        /\ (s - 0) * b * u + 0 * e * f = s * b * u
    OBVIOUS
  <2>6. s * a * u < s * b * u
    <3>1. s * b * u - s * a * u = (b - a) * s * u
      OBVIOUS
    <3>2. PICK c \in Nat \ {0} : c = b - a
      BY <2>2
    <3>3. c * s \in Nat \ {0} /\ (c * s) * u \in Nat \ {0}
      <4>1. \A m, n \in Nat \ {0} : m * n \in Nat \ {0}
        OBVIOUS
      <4> QED BY <4>1
    <3>4. (b - a) * s * u > 0
      BY <3>2, <3>3
    <3>5. s * b * u \in Int /\ s * a * u \in Int
      OBVIOUS
    <3> QED BY <3>1, <3>4, <3>5
  <2>7. Score(p, minPass[p]) < Score(q, minPass[q])
    BY <2>4, <2>5, <2>6
  <2> QED BY <1>1, <1>2, <2>7
<1> QED BY <1>1, <1>2, <1>3

LEMMA FirstKeeps == SInv /\ PickFirst => SInv'
<1> SUFFICES ASSUME SInv, PickFirst
             PROVE  SInv'
  OBVIOUS
<1> USE DEF SInv
<1>1. /\ pc = "pick" /\ picked = <<>>
      /\ UNCHANGED <<pc, mode, weight, cases, covers, states, fail, pool, pairs,
                     decisions, taken>>
  BY DEF PickFirst
<1>2. mode = "diverse" /\ Compared /\ Compared' /\ pc' = "pick"
  BY <1>1 DEF TypeInv, Compared
<1>3. PICK first \in Positions :
        /\ \A q \in Positions \ {first} : Precedes(fail, pool[first], pool[q])
        /\ picked' = <<first>>
        /\ minPass' = [p \in Positions |-> Get(p, first)]
  <2>1. 1 \in Positions /\ Positions \subseteq Nat \ {0}
    <3>1. Limit >= 1 /\ Limit \in Int /\ Limit <= Len(pool) /\ Len(pool) \in Nat
      BY <1>1, EnoughPositions, PoolFacts DEF PickInv
    <3> QED BY <3>1 DEF Positions
  <2>2. \A q \in Positions \ {1} : Precedes(fail, pool[1], pool[q])
    BY <2>1, PoolFacts
  <2>3. \E p \in Positions : \A q \in Positions \ {p} : Precedes(fail, pool[p], pool[q])
    BY <2>1, <2>2
  <2> QED BY <2>3 DEF PickFirst
<1>4. /\ TypeInv'
      /\ Cases' = Cases /\ Limit' = Limit /\ PoolSize' = PoolSize
      /\ \A k : NearestFirst(k)' = NearestFirst(k)
  BY <1>1, <1>2, AfterRank
<1>5. Positions' = Positions /\ PairCount' = PairCount /\ Positions \subseteq Nat
  BY <1>1 DEF Positions, PairCount
<1>6. PoolInv'
  BY <1>1, <1>2, <1>4, <1>5 DEF PoolInv
<1>7. /\ picked' \in Seq(Positions) /\ Len(picked') = 1 /\ picked'[1] = first
      /\ DOMAIN picked' = {1}
  BY <1>3
<1>8. minPass' \in [Positions -> Nat]
  BY <1>2, <1>3, GetIsNumber
<1>9. PickInv'
  <2>1. Limit >= 1
    BY <1>1 DEF PickInv
  <2>2. Injective(picked)'
    BY <1>7 DEF Injective
  <2> QED BY <1>2, <1>3, <1>4, <1>5, <1>7, <1>8, <2>1, <2>2 DEF PickInv
<1>10. DecisionInv'
  BY <1>1 DEF DecisionInv, Decided
<1>11. MinCurrent'
  <2>1. \A p, q : Get(p, q)' = Get(p, q)
    BY <1>1 DEF Get, PackedIndex
  <2>2. ASSUME NEW p \in Candidates'
        PROVE  Smallest(minPass[p], p, Len(picked))'
    <3>1. p \in Positions
      BY <1>5, <2>2 DEF Candidates
    <3>2. minPass'[p] = Get(p, first) /\ Get(p, first) \in Nat
      BY <1>2, <1>3, <3>1, GetIsNumber
    <3> QED BY <1>7, <2>1, <3>2 DEF Smallest
  <2> QED BY <2>2 DEF MinCurrent
<1>12. MinFrozen' /\ PicksFall'
  BY <1>7 DEF MinFrozen, PicksFall
<1>13. PickedNearest'
  <2>1. ASSUME NEW p \in Positions \ {first}
        PROVE  fail[pool[first]] <= fail[pool[p]]
    <3>1. pool[first] \in Cases /\ pool[p] \in Cases
      BY PoolFacts
    <3>2. fail[pool[first]] \in Nat /\ fail[pool[p]] \in Nat
      BY <3>1 DEF TypeInv
    <3>3. Precedes(fail, pool[first], pool[p])
      BY <1>3
    <3> QED BY <3>2, <3>3 DEF Precedes
  <2>2. \A i \in 1..Len(picked') : i = 1 /\ {picked'[j] : j \in 1..i} = {first}
    BY <1>7
  <2> QED BY <1>1, <1>5, <1>7, <2>1, <2>2 DEF PickedNearest
<1> QED BY <1>4, <1>6, <1>9, <1>10, <1>11, <1>12, <1>13 DEF Greedy

LEMMA NextKeeps == SInv /\ PickNext => SInv'
<1> SUFFICES ASSUME SInv, PickNext
             PROVE  SInv'
  OBVIOUS
<1> USE DEF SInv
<1>1. /\ pc = "pick" /\ picked # <<>> /\ Len(picked) < Limit
      /\ UNCHANGED <<pc, mode, weight, cases, covers, states, fail, pool, pairs,
                     decisions, taken>>
  BY DEF PickNext
<1>2. mode = "diverse" /\ Compared /\ Compared' /\ pc' = "pick"
  BY <1>1 DEF TypeInv, Compared
<1>3. /\ picked \in Seq(Positions) /\ Len(picked) \in Nat \ {0} /\ DOMAIN picked = 1..Len(picked)
      /\ minPass \in [Positions -> Nat]
  BY <1>1, EmptySeq, LenProperties DEF PickInv
<1>4. PICK best \in Candidates :
        /\ \A q \in Candidates \ {best} : Better(best, q)
        /\ picked' = Append(picked, best)
        /\ minPass' = [p \in Positions |->
             IF p \in Picked \cup {best} THEN minPass[p]
             ELSE CloserOf(minPass[p], Get(p, best))]
  <2>1. Len(picked) < Len(pool)
    <3>1. Limit <= Len(pool) /\ Limit \in Int /\ Len(pool) \in Int
      BY <1>1, EnoughPositions, PoolFacts
    <3> QED BY <1>1, <1>3, <3>1
  <2>2. \E p \in Candidates : \A q \in Candidates \ {p} : Better(p, q)
    BY <1>3, <2>1, BestExists
  <2> QED BY <2>2 DEF PickNext
<1>5. PICK k \in Nat \ {0} : k = Len(picked)
  BY <1>3
<1>6. /\ picked' \in Seq(Positions) /\ Len(picked') = k + 1
      /\ DOMAIN picked' = 1..(k + 1)
      /\ \A i \in 1..k : picked'[i] = picked[i] /\ picked[i] \in Positions
      /\ picked'[k + 1] = best
      /\ best \in Positions
  <2>1. best \in Positions
    BY DEF Candidates
  <2>2. picked' \in Seq(Positions) /\ Len(picked') = k + 1
    BY <1>3, <1>4, <1>5, <2>1
  <2>3. DOMAIN picked' = 1..(k + 1)
    BY <2>2, LenProperties
  <2>4. \A i \in 1..k : picked'[i] = picked[i]
    BY <1>3, <1>4, <1>5, <2>1
  <2>5. \A i \in 1..k : picked[i] \in Positions
    BY <1>3, <1>5, ElementOfSeq
  <2>6. picked'[k + 1] = best
    BY <1>3, <1>4, <1>5, <2>1
  <2> QED BY <2>1, <2>2, <2>3, <2>4, <2>5, <2>6
<1>7. /\ TypeInv'
      /\ Cases' = Cases /\ Limit' = Limit /\ PoolSize' = PoolSize
      /\ \A n : NearestFirst(n)' = NearestFirst(n)
  BY <1>1, <1>2, AfterRank
<1>8. Positions' = Positions /\ PairCount' = PairCount /\ Positions \subseteq Nat
  BY <1>1 DEF Positions, PairCount
<1>9. PoolInv'
  BY <1>1, <1>2, <1>7, <1>8 DEF PoolInv
<1>10. /\ Picked = {picked[i] : i \in 1..k}
       /\ Picked' = Picked \cup {best}
       /\ Candidates' = Candidates \ {best}
       /\ Candidates \subseteq Positions
       /\ best \notin Picked
  <2>1. Picked = {picked[i] : i \in 1..k}
    BY <1>3, <1>5 DEF Picked
  <2>2. Picked' = {picked'[i] : i \in 1..(k + 1)}
    BY <1>6 DEF Picked
  <2>3. \A i : i \in 1..(k + 1) <=> (i \in 1..k \/ i = k + 1)
    OBVIOUS
  <2>4. Picked' = Picked \cup {best}
    BY <1>6, <2>1, <2>2, <2>3
  <2>5. best \notin Picked /\ Candidates \subseteq Positions
    BY DEF Candidates
  <2>6. Candidates' = Candidates \ {best}
    BY <1>8, <2>4 DEF Candidates
  <2> QED BY <2>1, <2>4, <2>5, <2>6
<1>11. \A p \in Positions : Get(p, best) \in Nat
  BY <1>2, <1>6, GetIsNumber
<1>12. minPass' \in [Positions -> Nat]
  <2>1. \A p \in Positions : CloserOf(minPass[p], Get(p, best)) \in Nat
    BY <1>3, <1>11 DEF CloserOf
  <2> QED BY <1>3, <1>4, <2>1
<1>13. /\ \A i \in 1..k : minPass'[picked[i]] = minPass[picked[i]]
       /\ minPass'[best] = minPass[best]
       /\ \A p \in Candidates' : minPass'[p] = CloserOf(minPass[p], Get(p, best))
  <2>1. \A i \in 1..k : picked[i] \in Picked
    BY <1>10
  <2>2. \A p \in Candidates' : p \in Positions /\ p \notin Picked \cup {best}
    BY <1>10 DEF Candidates
  <2> QED BY <1>4, <1>6, <2>1, <2>2
<1>14. /\ \A p, q : Get(p, q)' = Get(p, q)
       /\ \A p, d : Score(p, d)' = Score(p, d)
  BY <1>1, <1>8 DEF Get, PackedIndex, Score, FailUnit, PairUnit, Unit
<1>15. PickInv'
  <2>1. Len(picked') <= Limit
    <3>1. Limit \in Int
      BY Limits DEF TypeInv
    <3> QED BY <1>1, <1>5, <1>6, <3>1
  <2>2. Injective(picked)'
    <3>1. ASSUME NEW i \in 1..(k + 1), NEW j \in 1..(k + 1), picked'[i] = picked'[j]
          PROVE  i = j
      <4>1. CASE i \in 1..k /\ j \in 1..k
        <5>1. picked[i] = picked[j]
          BY <1>6, <3>1, <4>1
        <5> QED BY <1>3, <1>5, <4>1, <5>1 DEF PickInv, Injective
      <4>2. CASE i = k + 1 /\ j \in 1..k
        <5>1. picked[j] = best
          BY <1>6, <3>1, <4>2
        <5> QED BY <1>10, <4>2, <5>1
      <4>3. CASE j = k + 1 /\ i \in 1..k
        <5>1. picked[i] = best
          BY <1>6, <3>1, <4>3
        <5> QED BY <1>10, <4>3, <5>1
      <4> QED BY <4>1, <4>2, <4>3
    <3> QED BY <1>6, <3>1 DEF Injective
  <2>3. Limit' >= 1 /\ picked' # <<>>
    <3>1. Len(picked') # 0
      BY <1>6
    <3> QED BY <1>1, <1>7, <3>1, EmptySeq DEF PickInv
  <2> QED BY <1>2, <1>6, <1>7, <1>8, <1>12, <2>1, <2>2, <2>3 DEF PickInv
<1>16. DecisionInv'
  BY <1>1 DEF DecisionInv, Decided
<1>17. MinCurrent'
  <2>1. ASSUME NEW p \in Candidates'
        PROVE  Smallest(minPass[p], p, Len(picked))'
    <3>1. p \in Candidates /\ p \in Positions
      BY <1>10
    <3>2. Smallest(minPass[p], p, k)
      BY <1>1, <1>5, <3>1 DEF Greedy, MinCurrent
    <3>3. PICK d \in Nat, e \in Nat, m \in Nat :
            d = minPass[p] /\ e = Get(p, best) /\ m = CloserOf(d, e) /\ m = minPass'[p]
      BY <1>3, <1>11, <1>13, <3>1 DEF CloserOf
    <3>4. m \in {d, e} /\ m <= d /\ m <= e
      BY <3>3 DEF CloserOf
    <3>5. \A j \in 1..k : Get(p, picked[j]) \in Nat
      BY <1>2, <1>6, <3>1, GetIsNumber
    <3>6. \E j \in 1..(k + 1) : m = Get(p, picked'[j])
      <4>1. CASE m = e
        <5>1. k + 1 \in 1..(k + 1)
          OBVIOUS
        <5> QED BY <1>6, <3>3, <4>1, <5>1
      <4>2. CASE m = d
        <5>1. PICK j \in 1..k : d = Get(p, picked[j])
          BY <3>2, <3>3 DEF Smallest
        <5>2. j \in 1..(k + 1)
          OBVIOUS
        <5> QED BY <1>6, <4>2, <5>1, <5>2
      <4> QED BY <3>4, <4>1, <4>2
    <3>7. \A j \in 1..(k + 1) : m <= Get(p, picked'[j])
      <4>1. ASSUME NEW j \in 1..k
            PROVE  m <= Get(p, picked'[j])
        <5>1. d <= Get(p, picked[j]) /\ Get(p, picked[j]) \in Nat
          BY <3>2, <3>3, <3>5 DEF Smallest
        <5>2. m <= Get(p, picked[j])
          BY <3>4, <5>1
        <5> QED BY <1>6, <5>2
      <4>2. m <= Get(p, picked'[k + 1])
        BY <1>6, <3>3, <3>4
      <4>3. \A j \in 1..(k + 1) : j \in 1..k \/ j = k + 1
        OBVIOUS
      <4> QED BY <4>1, <4>2, <4>3
    <3> QED BY <1>6, <1>14, <3>3, <3>6, <3>7 DEF Smallest
  <2> QED BY <2>1 DEF MinCurrent
<1>18. MinFrozen'
  <2>1. ASSUME NEW i \in 2..(k + 1)
        PROVE  Smallest(minPass[picked[i]], picked[i], i - 1)'
    <3>1. \A j \in 1..(i - 1) : j \in 1..k /\ picked'[j] = picked[j]
      BY <1>6
    <3>2. Smallest(minPass'[picked'[i]], picked'[i], i - 1)
      <4>1. CASE i \in 2..k
        <5>1. Smallest(minPass[picked[i]], picked[i], i - 1) /\ i \in 1..k
          BY <1>5, <4>1 DEF Greedy, MinFrozen
        <5> QED BY <1>6, <1>13, <5>1
      <4>2. CASE i = k + 1
        <5>1. Smallest(minPass[best], best, k)
          BY <1>1, <1>5 DEF Greedy, MinCurrent
        <5>2. (k + 1) - 1 = k
          OBVIOUS
        <5> QED BY <1>6, <1>13, <4>2, <5>1, <5>2
      <4> QED BY <4>1, <4>2
    <3> QED BY <1>14, <3>1, <3>2 DEF Smallest
  <2> QED BY <1>6, <2>1 DEF MinFrozen
<1>19. PicksFall'
  <2>1. ASSUME NEW p \in Candidates'
        PROVE  /\ p \in Candidates /\ p # best
               /\ Score(p, minPass[p]) \in Int /\ Score(p, minPass'[p]) \in Int
               /\ Score(p, minPass'[p]) <= Score(p, minPass[p])
    <3>1. p \in Candidates /\ p # best /\ p \in Positions
      BY <1>10
    <3>2. minPass[p] \in Nat /\ minPass'[p] \in Nat /\ minPass'[p] <= minPass[p]
      BY <1>3, <1>11, <1>13, <3>1 DEF CloserOf
    <3> QED BY <3>1, <3>2, ScoreGrows
  <2>2. ASSUME NEW p \in Positions
        PROVE  Score(p, minPass[p]) \in Int
    BY <1>3, <2>2, Comparable
  <2>3. ASSUME NEW i \in 2..(k + 1)
        PROVE  /\ \A j \in (i + 1)..(k + 1) :
                    Score(picked'[i], minPass'[picked'[i]])
                      >= Score(picked'[j], minPass'[picked'[j]])
               /\ \A p \in Candidates' :
                    Score(picked'[i], minPass'[picked'[i]]) >= Score(p, minPass'[p])
    <3>1. CASE i \in 2..k
      <4>1. i \in 1..k
        BY <3>1
      <4>2. PICK s \in Int : /\ s = Score(picked[i], minPass[picked[i]])
                             /\ s = Score(picked'[i], minPass'[picked'[i]])
        BY <1>6, <1>13, <2>2, <4>1
      <4>3. /\ \A j \in (i + 1)..k : s >= Score(picked[j], minPass[picked[j]])
            /\ \A p \in Candidates : s >= Score(p, minPass[p])
        BY <1>5, <3>1, <4>2 DEF Greedy, PicksFall
      <4>4. ASSUME NEW j \in (i + 1)..(k + 1)
            PROVE  s >= Score(picked'[j], minPass'[picked'[j]])
        <5>1. CASE j = k + 1
          <6>1. s >= Score(best, minPass[best])
            BY <4>3
          <6> QED BY <1>6, <1>13, <5>1, <6>1
        <5>2. CASE j \in (i + 1)..k
          <6>1. j \in 1..k /\ s >= Score(picked[j], minPass[picked[j]])
            BY <4>1, <4>3, <5>2
          <6> QED BY <1>6, <1>13, <6>1
        <5> QED BY <5>1, <5>2
      <4>5. ASSUME NEW p \in Candidates'
            PROVE  s >= Score(p, minPass'[p])
        <5>1. s >= Score(p, minPass[p])
          BY <2>1, <4>3
        <5> QED BY <2>1, <5>1
      <4> QED BY <4>2, <4>4, <4>5
    <3>2. CASE i = k + 1
      <4>1. \A j \in (i + 1)..(k + 1) : FALSE
        BY <3>2
      <4>2. ASSUME NEW p \in Candidates'
            PROVE  Score(best, minPass[best]) >= Score(p, minPass'[p])
        <5>1. Better(best, p) /\ p \in Positions
          BY <1>4, <1>10, <2>1
        <5>2. Score(best, minPass[best]) >= Score(p, minPass[p])
          BY <1>3, <1>6, <5>1, BetterIs
        <5>3. Score(best, minPass[best]) \in Int
          BY <1>6, <2>2
        <5> QED BY <2>1, <5>2, <5>3
      <4> QED BY <1>6, <1>13, <3>2, <4>1, <4>2
    <3> QED BY <3>1, <3>2
  <2> QED BY <1>6, <1>14, <2>3 DEF PicksFall
<1>20. PickedNearest'
  <2>1. ASSUME weight = 0, NEW i \in 1..(k + 1),
               NEW p \in Positions \ {picked'[j] : j \in 1..i}
        PROVE  fail[pool[picked'[i]]] <= fail[pool[p]]
    <3>1. CASE i \in 1..k
      <4>1. \A j \in 1..i : picked'[j] = picked[j]
        BY <1>6, <3>1
      <4>2. p \in Positions \ {picked[j] : j \in 1..i}
        BY <4>1
      <4>3. fail[pool[picked[i]]] <= fail[pool[p]]
        BY <1>5, <2>1, <3>1, <4>2 DEF Greedy, PickedNearest
      <4> QED BY <1>6, <3>1, <4>3
    <3>2. CASE i = k + 1
      <4>1. i \in 1..i /\ \A j \in 1..k : j \in 1..i
        BY <3>2
      <4>2. p # best /\ \A j \in 1..k : p # picked[j]
        BY <1>6, <3>2, <4>1
      <4>3. p \in Candidates \ {best}
        BY <1>10, <4>2 DEF Candidates
      <4>4. Better(best, p) /\ p \in Positions
        BY <1>4, <4>3
      <4> QED BY <1>3, <1>6, <2>1, <3>2, <4>4, BetterIs
    <3> QED BY <3>1, <3>2
  <2> QED BY <1>1, <1>6, <1>8, <2>1 DEF PickedNearest
<1> QED BY <1>7, <1>9, <1>15, <1>16, <1>17, <1>18, <1>19, <1>20 DEF Greedy

\* The decisions of the diverse search are the picked cases, all different.
LEMMA DoneKeeps == SInv /\ PicksDone => SInv'
<1> SUFFICES ASSUME SInv, PicksDone
             PROVE  SInv'
  OBVIOUS
<1> USE DEF SInv
<1>1. /\ pc = "pick" /\ Len(picked) = Limit /\ pc' = "take"
      /\ decisions' = [i \in DOMAIN picked |-> pool[picked[i]]]
      /\ UNCHANGED <<mode, weight, cases, covers, states, fail, pool, pairs,
                     minPass, picked, taken>>
  BY DEF PicksDone
<1>2. mode = "diverse" /\ Compared /\ Compared'
  BY <1>1 DEF TypeInv, Compared
<1>3. /\ TypeInv'
      /\ Cases' = Cases /\ Limit' = Limit /\ PoolSize' = PoolSize
      /\ \A k : NearestFirst(k)' = NearestFirst(k)
  BY <1>1, AfterRank
<1>4. Positions' = Positions /\ PairCount' = PairCount
  BY <1>1 DEF Positions, PairCount
<1>5. PoolInv'
  BY <1>1, <1>2, <1>3, <1>4 DEF PoolInv
<1>6. PickInv'
  BY <1>1, <1>2, <1>3, <1>4 DEF PickInv, Injective
<1>7. /\ DOMAIN picked = 1..Limit
      /\ \A i \in 1..Limit : picked[i] \in Positions
      /\ Injective(picked)
  <2>1. picked \in Seq(Positions)
    BY DEF PickInv
  <2> QED BY <1>1, <2>1, LenProperties DEF PickInv
<1>8. decisions' \in [1..Limit -> Cases]
  BY <1>1, <1>7, PoolFacts
<1>9. Injective(decisions)'
  <2>1. ASSUME NEW i \in 1..Limit, NEW j \in 1..Limit, pool[picked[i]] = pool[picked[j]]
        PROVE  i = j
    <3>1. picked[i] = picked[j]
      BY <1>7, <2>1, PoolFacts
    <3> QED BY <1>7, <3>1 DEF Injective
  <2> QED BY <1>1, <1>7, <2>1 DEF Injective
<1>10. DecisionInv'
  BY <1>1, <1>2, <1>3, <1>8, <1>9 DEF DecisionInv, Decided
<1>11. Greedy'
  BY <1>1, GreedyKept DEF GreedyVars
<1> QED BY <1>3, <1>5, <1>6, <1>10, <1>11

LEMMA TakeKeeps == SInv /\ Take => SInv'
<1> SUFFICES ASSUME SInv, Take
             PROVE  SInv'
  OBVIOUS
<1> USE DEF SInv
<1>1. /\ pc = "take" /\ pc' = "done"
      /\ taken' = {decisions[i] : i \in DOMAIN decisions}
      /\ UNCHANGED <<mode, weight, cases, covers, states, fail, pool, pairs,
                     minPass, picked, decisions>>
  BY DEF Take, DecisionInv, Decided
<1>2. Compared' = Compared /\ Decided /\ Decided'
  BY <1>1 DEF Compared, Decided
<1>3. /\ TypeInv'
      /\ Cases' = Cases /\ Limit' = Limit /\ PoolSize' = PoolSize
      /\ \A k : NearestFirst(k)' = NearestFirst(k)
  BY <1>1, AfterRank
<1>4. Positions' = Positions /\ PairCount' = PairCount
  BY <1>1 DEF Positions, PairCount
<1>5. PoolInv'
  BY <1>1, <1>2, <1>3, <1>4 DEF PoolInv
<1>6. PickInv'
  BY <1>1, <1>2, <1>3, <1>4 DEF PickInv, Injective
<1>7. DecisionInv'
  BY <1>1, <1>2, <1>3 DEF DecisionInv, Injective
<1>8. Greedy'
  BY <1>1, GreedyKept DEF GreedyVars
<1> QED BY <1>3, <1>5, <1>6, <1>7, <1>8

LEMMA StutterKeeps == SInv /\ UNCHANGED vars => SInv'
<1> SUFFICES ASSUME SInv, UNCHANGED vars
             PROVE  SInv'
  OBVIOUS
<1> USE DEF SInv
<1>1. UNCHANGED <<pc, mode, weight, cases, covers, states, fail, pool, pairs,
                  minPass, picked, decisions, taken>>
  BY DEF vars
<1>2. /\ Cases' = Cases /\ Limit' = Limit /\ Positions' = Positions
      /\ PairCount' = PairCount /\ Compared' = Compared /\ Decided' = Decided
  BY <1>1 DEF Cases, Limit, Positions, PairCount, Compared, Decided
<1>3. PoolSize' = PoolSize
  BY <1>1, <1>2 DEF PoolSize
<1>4. \A k : NearestFirst(k)' = NearestFirst(k)
  BY <1>1, <1>2 DEF NearestFirst, Precedes
<1>5. TypeInv'
  BY <1>1, <1>2 DEF TypeInv, Combined
<1>6. PoolInv'
  BY <1>1, <1>2, <1>3, <1>4 DEF PoolInv
<1>7. PickInv'
  BY <1>1, <1>2 DEF PickInv, Injective
<1>8. DecisionInv'
  BY <1>1, <1>2, <1>4 DEF DecisionInv, Injective
<1>9. Greedy'
  BY <1>1, GreedyKept DEF GreedyVars
<1> QED BY <1>5, <1>6, <1>7, <1>8, <1>9

\* The invariant holds in every reachable state: in every mode, for every
\* number of cases, limit, pool factor and weight.
THEOREM SelectionInvariant == Spec => []SInv
<1>1. Init => SInv
  BY SInitial
<1>2. SInv /\ [Next]_vars => SInv'
  <2> SUFFICES ASSUME SInv, [Next]_vars
               PROVE  SInv'
    OBVIOUS
  <2>1. CASE Rank
    BY <2>1, RankKeeps
  <2>2. CASE SelectSort \/ SelectRandom
    BY <2>2, SelectKeeps
  <2>3. CASE FillPool
    BY <2>3, PoolKeeps
  <2>4. CASE ComparePairs
    BY <2>4, CompareKeeps
  <2>5. CASE PickFirst
    BY <2>5, FirstKeeps
  <2>6. CASE PickNext
    BY <2>6, NextKeeps
  <2>7. CASE PicksDone
    BY <2>7, DoneKeeps
  <2>8. CASE Take
    BY <2>8, TakeKeeps
  <2>9. CASE Ended \/ UNCHANGED vars
    BY <2>9, StutterKeeps DEF Ended
  <2> QED BY <2>1, <2>2, <2>3, <2>4, <2>5, <2>6, <2>7, <2>8, <2>9 DEF Next
<1> QED BY <1>1, <1>2, PTL DEF Spec

-----------------------------------------------------------------------------
(* The properties.                                                         *)

\* SelectsEnough: the expect in the emission never fires (no case is selected
\* twice) and exactly as many cases are taken as were asked for, or all there
\* are, whatever the mode.
THEOREM SelectsAsMany == Spec => []SelectsEnough
<1>1. SInv => SelectsEnough
  <2> SUFFICES ASSUME SInv
               PROVE  SelectsEnough
    OBVIOUS
  <2>1. pc # "panic"
    BY DEF SInv, TypeInv
  <2>2. ASSUME pc = "done"
        PROVE  Cardinality(taken) = Limit
    <3>1. /\ decisions \in [1..Limit -> Cases] /\ Injective(decisions)
          /\ taken = {decisions[i] : i \in DOMAIN decisions}
      BY <2>2 DEF SInv, DecisionInv, Decided
    <3>2. Limit \in Nat
      BY Limits DEF SInv, TypeInv
    <3>3. decisions \in Bijection(1..Limit, taken)
      <4>1. decisions \in [1..Limit -> taken]
        BY <3>1
      <4>2. \A i, j \in 1..Limit : decisions[i] = decisions[j] => i = j
        BY <3>1 DEF Injective
      <4>3. \A c \in taken : \E i \in 1..Limit : decisions[i] = c
        BY <3>1
      <4> QED BY <4>1, <4>2, <4>3, Fun_IsBij
    <3>4. ExistsBijection(1..Limit, taken)
      BY <3>3 DEF ExistsBijection
    <3>5. Cardinality(taken) = Cardinality(1..Limit)
      BY <3>2, <3>4, IntervalSize, FS_Bijection
    <3> QED BY <3>2, <3>5, IntervalSize
  <2> QED BY <2>1, <2>2 DEF SelectsEnough
<1> QED BY <1>1, SelectionInvariant, PTL

\* CloserKept: neither sort nor the pool of the diverse search leaves out a
\* case that is nearer in both raw distances than one it lets in, whatever the
\* quantiles and the weight do to them.
THEOREM CloserCasesKept == Spec => []CloserKept
<1>1. SInv => CloserKept
  <2> SUFFICES ASSUME SInv
               PROVE  CloserKept
    OBVIOUS
  <2> DEFINE ranked == mode = "sort" /\ pc \in {"take", "done"}
             chosen == IF ranked THEN decisions ELSE pool
  <2>1. /\ cases \in Nat /\ fail \in [Cases -> Nat]
        /\ covers \in [Cases -> Nat] /\ states \in [Cases -> Nat]
        /\ Limit \in 0..cases /\ PoolSize \in 0..cases
    BY Limits DEF SInv, TypeInv
  <2>2. chosen = <<>> \/ \E n \in 0..cases : chosen = NearestFirst(n) /\ pc # "rank"
    BY <2>1 DEF SInv, PoolInv, DecisionInv, Decided
  <2> HIDE DEF chosen
  <2>3. ASSUME NEW i \in DOMAIN chosen,
               NEW c \in Cases \ {chosen[j] : j \in DOMAIN chosen},
               covers[c] < covers[chosen[i]], states[c] < states[chosen[i]]
        PROVE  FALSE
    <3>1. PICK n \in 0..cases : chosen = NearestFirst(n) /\ pc # "rank"
      BY <2>2, <2>3
    <3>2. /\ chosen \in [1..n -> Cases]
          /\ i \in 1..n /\ chosen[i] \in Cases
      BY <2>1, <2>3, <3>1, NearestFirstRanks
    <3>3. fail[c] < fail[chosen[i]]
      <4>1. fail = Combined(covers, states, Cases)
        BY <3>1 DEF SInv, TypeInv
      <4>2. IsFiniteSet(Cases)
        BY <2>1, IntervalSize DEF Cases
      <4> QED BY <2>1, <2>3, <3>2, <4>1, <4>2, CombinedKeepsOrder
    <3>4. Precedes(fail, c, chosen[i])
      BY <3>3 DEF Precedes
    <3>5. \E t \in 1..n : chosen[t] = c
      BY <2>1, <2>3, <3>1, <3>2, <3>4, NearestFirstSorted
    <3> QED BY <2>3, <3>2, <3>5
  <2> QED BY <2>3 DEF CloserKept, chosen
<1> QED BY <1>1, SelectionInvariant, PTL

\* MinDistancesCurrent: during the greedy loop min_pass_distances is the true
\* distance to the nearest picked case, read through the packed triangle, for
\* every size of the pool.
THEOREM MinimaCurrent == Spec => []MinDistancesCurrent
<1>1. SInv => MinDistancesCurrent
  <2> SUFFICES ASSUME SInv, pc = "pick", NEW p \in DOMAIN minPass \ Picked
               PROVE  /\ \E q \in Picked : minPass[p] = PairDistance(p, q)
                      /\ \A q \in Picked : minPass[p] <= PairDistance(p, q)
    BY DEF MinDistancesCurrent
  <2> USE DEF SInv
  <2>1. picked # <<>> /\ minPass \in [Positions -> Nat]
    BY DEF PickInv
  <2>2. /\ picked \in Seq(Positions) /\ DOMAIN picked = 1..Len(picked)
    BY LenProperties DEF PickInv
  <2>3. Picked = {picked[j] : j \in 1..Len(picked)} /\ Picked \subseteq Positions
    BY <2>2, ElementOfSeq DEF Picked
  <2>4. p \in Candidates /\ p \in Positions
    BY <2>1 DEF Candidates
  <2>5. \A q \in Picked : Get(p, q) = PairDistance(p, q)
    <3>1. Len(pool) \in Nat
      BY PoolFacts
    <3> QED BY <2>3, <2>4, <3>1, GetIsPairDistance
  <2>6. Smallest(minPass[p], p, Len(picked))
    BY <2>1, <2>4 DEF Greedy, MinCurrent
  <2> QED BY <2>3, <2>5, <2>6 DEF Smallest
<1> QED BY <1>1, SelectionInvariant, PTL

\* A score recomputed from the pairs is the one the case was picked with.
LEMMA PickScoreIs ==
    ASSUME SInv, NEW i \in 2..Len(picked)
    PROVE  PickScore(i) = Score(picked[i], minPass[picked[i]])
<1> USE DEF SInv
<1>1. /\ picked \in Seq(Positions) /\ Len(picked) \in Nat
      /\ DOMAIN picked = 1..Len(picked) /\ Injective(picked)
  BY LenProperties DEF PickInv
<1>2. \A j \in 1..Len(picked) : picked[j] \in Positions
  BY <1>1, ElementOfSeq
<1>3. i \in 1..Len(picked) /\ \A j \in 1..(i - 1) : j \in 1..Len(picked) /\ j # i
  BY <1>1
<1>4. \A j \in 1..(i - 1) : PairDistance(picked[i], picked[j]) = Get(picked[i], picked[j])
  <2>1. ASSUME NEW j \in 1..(i - 1)
        PROVE  PairDistance(picked[i], picked[j]) = Get(picked[i], picked[j])
    <3>1. picked[i] # picked[j] /\ picked[i] \in Positions /\ picked[j] \in Positions
      BY <1>1, <1>2, <1>3 DEF Injective
    <3>2. Len(pool) \in Nat
      BY PoolFacts
    <3> QED BY <3>1, <3>2, GetIsPairDistance
  <2> QED BY <2>1
<1>5. Compared
  <2>1. picked # <<>>
    <3>1. Len(picked) # 0
      BY <1>3
    <3> QED BY <3>1, EmptySeq
  <2> QED BY <2>1 DEF PickInv
<1> DEFINE D == {PairDistance(picked[i], picked[j]) : j \in 1..(i - 1)}
           m == minPass[picked[i]]
<1>6. Smallest(m, picked[i], i - 1)
  BY DEF Greedy, MinFrozen
<1>7. D \subseteq Nat
  BY <1>2, <1>3, <1>4, <1>5, GetIsNumber
<1>8. m \in D /\ \A j \in 1..(i - 1) : m <= PairDistance(picked[i], picked[j])
  BY <1>4, <1>6 DEF Smallest
<1>9. \A d \in D :
        (\A j \in 1..(i - 1) : d <= PairDistance(picked[i], picked[j])) => d = m
  <2>1. ASSUME NEW d \in D, \A j \in 1..(i - 1) : d <= PairDistance(picked[i], picked[j])
        PROVE  d = m
    <3>1. d <= m
      BY <1>8, <2>1
    <3>2. m <= d
      BY <1>8
    <3>3. d \in Nat /\ m \in Nat
      BY <1>7, <1>8
    <3> HIDE DEF m
    <3> QED BY <3>1, <3>2, <3>3
  <2> QED BY <2>1
<1>10. (CHOOSE d \in D :
          \A j \in 1..(i - 1) : d <= PairDistance(picked[i], picked[j])) = m
  <2> HIDE DEF D, m
  <2> QED BY <1>8, <1>9
<1> QED BY <1>10 DEF PickScore

\* ScoresFall: from the second pick on no case is picked with a higher score
\* than an earlier one, so the greedy order is the order of the scores.
THEOREM GreedyScoresFall == Spec => []ScoresFall
<1>1. SInv => ScoresFall
  <2> SUFFICES ASSUME SInv, NEW i \in 2..Len(picked), NEW j \in 2..Len(picked), i < j
               PROVE  PickScore(i) >= PickScore(j)
    BY DEF ScoresFall
  <2>1. Len(picked) \in Nat
    BY LenProperties DEF SInv, PickInv
  <2>2. j \in (i + 1)..Len(picked)
    BY <2>1
  <2>3. Score(picked[i], minPass[picked[i]]) >= Score(picked[j], minPass[picked[j]])
    BY <2>2 DEF SInv, Greedy, PicksFall
  <2> QED BY <2>3, PickScoreIs
<1> QED BY <1>1, SelectionInvariant, PTL

\* WeightlessIsSort: with a diversity weight of zero the i-th decision of the
\* diverse search is as far from the failing case as the i-th of sort.
THEOREM WeightlessSorts == Spec => []WeightlessIsSort
<1>1. SInv => WeightlessIsSort
  <2> SUFFICES ASSUME SInv, pc = "done", mode = "diverse", weight = 0,
                      NEW i \in DOMAIN decisions
               PROVE  fail[decisions[i]] = fail[NearestFirst(Limit)[i]]
    BY DEF WeightlessIsSort
  <2> USE DEF SInv
  <2>1. /\ Limit \in 0..cases /\ cases \in Nat /\ Limit <= PoolSize
        /\ PoolSize \in 0..cases /\ fail \in [Cases -> Nat]
        /\ Len(pool) = PoolSize /\ Positions = 1..PoolSize
        /\ pool = NearestFirst(PoolSize)
    BY PoolFacts, Limits DEF TypeInv, PoolInv, Positions
  <2>2. /\ Len(picked) = Limit /\ picked \in Seq(Positions)
        /\ DOMAIN picked = 1..Limit /\ Injective(picked)
        /\ decisions = [j \in 1..Limit |-> pool[picked[j]]]
    BY LenProperties DEF DecisionInv, Decided, PickInv
  <2>3. i \in 1..Limit /\ decisions[i] = pool[picked[i]]
    BY <2>2
  <2>4. NearestFirst(Limit)[i] = pool[i] /\ i \in Positions
    BY <2>1, <2>3, NearestFirstPrefix
  <2>5. /\ \A j \in 1..Limit : picked[j] \in Positions
        /\ \A p \in Positions : fail[pool[p]] \in Nat
    BY <2>1, <2>2, ElementOfSeq, PoolFacts
  <2>6. \A p, q \in Positions : p <= q => fail[pool[p]] <= fail[pool[q]]
    <3>1. ASSUME NEW p \in Positions, NEW q \in Positions, p < q
          PROVE  fail[pool[p]] <= fail[pool[q]]
      <4>1. Precedes(fail, pool[p], pool[q])
        BY <3>1, PoolFacts
      <4> QED BY <2>5, <4>1 DEF Precedes
    <3>2. \A p, q \in Positions : p <= q => (p < q \/ p = q)
      BY <2>1
    <3> QED BY <2>5, <3>1, <3>2
  <2>7. \A j \in 1..Limit : \A p \in Positions \ {picked[n] : n \in 1..j} :
          fail[pool[picked[j]]] <= fail[pool[p]]
    BY <2>2 DEF Greedy, PickedNearest
  <2>8. PICK k \in Nat : i = k + 1
    BY <2>1, <2>3
  \* One of the first i places was free when the i-th case was picked.
  <2>9. fail[pool[picked[i]]] <= fail[pool[i]]
    <3> SUFFICES ASSUME fail[pool[i]] < fail[pool[picked[i]]]
                 PROVE  FALSE
      BY <2>4, <2>5, <2>3
    <3>1. \A p \in 1..i : p \in {picked[n] : n \in 1..i} \ {picked[i]}
      <4>1. ASSUME NEW p \in 1..i
            PROVE  p \in {picked[n] : n \in 1..i} /\ p # picked[i]
        <5>1. p \in Positions /\ p <= i
          BY <2>1, <2>3
        <5>2. fail[pool[p]] <= fail[pool[i]]
          BY <2>4, <2>6, <5>1
        <5>3. ~(fail[pool[picked[i]]] <= fail[pool[p]])
          BY <2>3, <2>4, <2>5, <5>1, <5>2
        <5>4. p # picked[i]
          BY <2>3, <2>5, <5>1, <5>3
        <5> QED BY <2>3, <2>7, <5>1, <5>3, <5>4
      <4> QED BY <4>1
    <3>2. \A p \in 1..i : \E n \in 1..k : picked[n] = p
      <4>1. ASSUME NEW p \in 1..i
            PROVE  \E n \in 1..k : picked[n] = p
        <5>1. PICK n \in 1..i : picked[n] = p /\ n # i
          BY <3>1
        <5> QED BY <2>8, <5>1
      <4> QED BY <4>1
    <3> DEFINE f == [p \in 1..i |-> CHOOSE n \in 1..k : picked[n] = p]
    <3>3. f \in [1..i -> 1..k] /\ \A p \in 1..i : picked[f[p]] = p
      BY <3>2
    <3>4. f \in Injection(1..i, 1..k)
      <4> HIDE DEF f
      <4>1. \A a, b \in 1..i : f[a] = f[b] => a = b
        BY <3>3
      <4> QED BY <3>3, <4>1, Fun_IsInj
    <3>5. /\ Cardinality(1..k) = k /\ IsFiniteSet(1..k)
          /\ Cardinality(1..i) = i
      BY <2>8, IntervalSize
    <3>6. Cardinality(1..i) <= Cardinality(1..k)
      <4> HIDE DEF f
      <4> QED BY <3>4, <3>5, FS_Injection
    <3> QED BY <2>8, <3>5, <3>6
  \* One of the first i cases picked is not among the first i - 1 places.
  <2>10. fail[pool[i]] <= fail[pool[picked[i]]]
    <3> DEFINE g == [n \in 1..i |-> picked[n]]
    <3>1. \A n \in 1..i : n \in 1..Limit
      BY <2>1, <2>3
    <3>2. g \in [1..i -> Nat \ {0}] /\ \A a, b \in 1..i : g[a] = g[b] => a = b
      <4>1. \A n \in 1..i : picked[n] \in Nat \ {0}
        BY <2>1, <2>5, <3>1
      <4>2. \A a, b \in 1..i : picked[a] = picked[b] => a = b
        BY <2>2, <3>1 DEF Injective
      <4> QED BY <4>1, <4>2
    <3>3. i \in Nat \ {0}
      BY <2>8
    <3>4. PICK j \in 1..i : i <= g[j]
      <4> HIDE DEF g
      <4> QED BY <3>2, <3>3, SomeBeyond
    <3>5. i <= picked[j] /\ picked[j] \in Positions /\ j \in 1..Limit
      BY <2>5, <3>1, <3>4
    <3>6. fail[pool[i]] <= fail[pool[picked[j]]]
      BY <2>4, <2>6, <3>5
    <3>7. fail[pool[picked[j]]] <= fail[pool[picked[i]]]
      <4>1. CASE j = i
        BY <2>3, <2>5, <4>1
      <4>2. CASE j # i
        <5>1. picked[i] \notin {picked[n] : n \in 1..j}
          <6>1. \A n \in 1..j : n \in 1..Limit /\ n # i
            BY <3>1, <3>3, <4>2
          <6> QED BY <2>2, <2>3, <6>1 DEF Injective
        <5>2. picked[i] \in Positions
          BY <2>3, <2>5
        <5> QED BY <2>7, <3>5, <5>1, <5>2
      <4> QED BY <4>1, <4>2
    <3> QED BY <2>3, <2>4, <2>5, <3>5, <3>6, <3>7
  <2> QED BY <2>3, <2>4, <2>5, <2>9, <2>10
<1> QED BY <1>1, SelectionInvariant, PTL
=============================================================================
