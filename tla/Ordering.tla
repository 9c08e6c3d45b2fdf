------------------------------ MODULE Ordering ------------------------------
(***************************************************************************)
(* Facts about orders that the proofs of this project rest on: least       *)
(* naturals, ranks in a finite strict order, the order and the ranks of    *)
(* Similarity, and recursion over the naturals.                            *)
(***************************************************************************)
EXTENDS Similarity, FiniteSetTheorems, FunctionTheorems, WellFoundedInduction,
        TLAPS

\* Every non-empty set of naturals has a least element; it is obtained from
\* the well-foundedness of strict inclusion between the intervals 0..n.
LEMMA LeastNatural ==
    ASSUME NEW S \in SUBSET Nat, S # {}
    PROVE  \E m \in S : \A n \in S : m <= n
<1> DEFINE T == {0..n : n \in S}
<1>1. T \subseteq FiniteSubsetsOf(Nat) /\ T # {}
  <2>1. \A n \in S : IsFiniteSet(0..n) /\ 0..n \subseteq Nat
    BY FS_Interval
  <2>2. QED BY <2>1 DEF FiniteSubsetsOf
<1>2. PICK X \in T : \A Y \in T : <<Y, X>> \notin StrictSubsetOrdering(Nat)
  <2> HIDE DEF T
  <2> QED BY <1>1, FS_StrictSubsetOrderingWellFounded, WFMin
<1>3. PICK m \in S : X = 0..m
  BY <1>2
<1>4. ASSUME NEW n \in S, n < m
      PROVE  FALSE
  <2>1. m \in 0..m /\ m \notin 0..n
    BY <1>4
  <2>2. 0..n \subseteq 0..m
    BY <1>4
  <2>3. 0..n \in SUBSET Nat /\ 0..m \in SUBSET Nat
    OBVIOUS
  <2>4. <<0..n, 0..m>> \in StrictSubsetOrdering(Nat)
    BY <2>1, <2>2, <2>3 DEF StrictSubsetOrdering
  <2> QED BY <1>2, <1>3, <2>4
<1> QED BY <1>4

-----------------------------------------------------------------------------
(* Ranks in a finite set under a strict total order, given as pairs. *)

StrictTotal(R, S) ==
    /\ \A x \in S : <<x, x>> \notin R
    /\ \A x, y, z \in S : (<<x, y>> \in R /\ <<y, z>> \in R) => <<x, z>> \in R
    /\ \A x, y \in S : x # y => (<<x, y>> \in R \/ <<y, x>> \in R)

Before(R, S, x) == {y \in S : <<y, x>> \in R}
RankIn(R, S, x)   == Cardinality(Before(R, S, x))

\* A rank is smaller than the size of the set.
LEMMA RankType ==
    ASSUME NEW R, NEW S, IsFiniteSet(S), StrictTotal(R, S), NEW x \in S
    PROVE  /\ Cardinality(S) \in Nat
           /\ RankIn(R, S, x) \in 0..(Cardinality(S) - 1)
           /\ IsFiniteSet(Before(R, S, x))
<1>1. /\ Before(R, S, x) \in SUBSET S
      /\ x \notin Before(R, S, x)
  BY DEF StrictTotal, Before
<1>2. /\ IsFiniteSet(Before(R, S, x))
      /\ Cardinality(Before(R, S, x)) <= Cardinality(S)
      /\ Cardinality(S) = Cardinality(Before(R, S, x)) => S = Before(R, S, x)
  BY <1>1, FS_Subset
<1>3. Cardinality(S) \in Nat /\ Cardinality(Before(R, S, x)) \in Nat
  BY <1>2, FS_CardinalityType
<1>4. Cardinality(S) # Cardinality(Before(R, S, x))
  BY <1>1, <1>2
<1> QED BY <1>2, <1>3, <1>4 DEF RankIn

\* A smaller element has a smaller rank.
LEMMA RankGrows ==
    ASSUME NEW R, NEW S, IsFiniteSet(S), StrictTotal(R, S),
           NEW x \in S, NEW y \in S, <<x, y>> \in R
    PROVE  RankIn(R, S, x) < RankIn(R, S, y)
<1>1. /\ Before(R, S, x) \in SUBSET Before(R, S, y)
      /\ x \in Before(R, S, y)
      /\ x \notin Before(R, S, x)
  BY DEF StrictTotal, Before
<1>2. /\ IsFiniteSet(Before(R, S, y))
      /\ RankIn(R, S, x) \in Nat
      /\ RankIn(R, S, y) \in Nat
  BY RankType
<1>3. /\ Cardinality(Before(R, S, x)) <= Cardinality(Before(R, S, y))
      /\ Cardinality(Before(R, S, y)) = Cardinality(Before(R, S, x))
         => Before(R, S, y) = Before(R, S, x)
  BY <1>1, <1>2, FS_Subset
<1>4. RankIn(R, S, x) # RankIn(R, S, y)
  BY <1>1, <1>3 DEF RankIn
<1> QED BY <1>2, <1>3, <1>4 DEF RankIn

\* The order of the ranks is the order of the elements, and no two elements
\* share a rank.
LEMMA RankOrder ==
    ASSUME NEW R, NEW S, IsFiniteSet(S), StrictTotal(R, S),
           NEW x \in S, NEW y \in S
    PROVE  /\ RankIn(R, S, x) < RankIn(R, S, y) <=> <<x, y>> \in R
           /\ RankIn(R, S, x) = RankIn(R, S, y) <=> x = y
<1>1. RankIn(R, S, x) \in Int /\ RankIn(R, S, y) \in Int
  BY RankType
<1>2. \/ x = y
      \/ <<x, y>> \in R
      \/ <<y, x>> \in R
  BY DEF StrictTotal
<1>3. CASE x = y
  <2>1. <<x, y>> \notin R
    BY <1>3 DEF StrictTotal
  <2> QED BY <1>1, <1>3, <2>1
<1>4. CASE <<x, y>> \in R
  <2>1. RankIn(R, S, x) < RankIn(R, S, y)
    BY <1>4, RankGrows
  <2> QED BY <1>1, <1>4, <2>1
<1>5. CASE <<y, x>> \in R
  <2>1. RankIn(R, S, y) < RankIn(R, S, x)
    BY <1>5, RankGrows
  <2>2. <<x, y>> \notin R
    BY <1>5 DEF StrictTotal
  <2> QED BY <1>1, <2>1, <2>2
<1> QED BY <1>2, <1>3, <1>4, <1>5

\* Every rank below the size of the set belongs to an element.
LEMMA RankAttained ==
    ASSUME NEW R, NEW S, IsFiniteSet(S), StrictTotal(R, S),
           NEW k \in 0..(Cardinality(S) - 1)
    PROVE  \E x \in S : RankIn(R, S, x) = k
<1> DEFINE T == 0..(Cardinality(S) - 1)
           f == [x \in S |-> RankIn(R, S, x)]
<1>1. Cardinality(S) \in Nat
  BY FS_CardinalityType
<1>2. f \in [S -> T]
  BY RankType
<1>3. \A a, b \in S : f[a] = f[b] => a = b
  BY RankOrder
<1>4. f \in Injection(S, T)
  <2> HIDE DEF f, T
  <2> QED BY <1>2, <1>3, Fun_IsInj
<1>5. IsFiniteSet(T) /\ Cardinality(T) = Cardinality(S)
  <2>1. PICK n \in Int : n = Cardinality(S) - 1
    BY <1>1
  <2>2. /\ IsFiniteSet(0..n)
        /\ Cardinality(0..n) = IF 0 > n THEN 0 ELSE n - 0 + 1
    BY FS_Interval
  <2> QED BY <1>1, <2>1, <2>2
<1>6. f \in Surjection(S, T)
  <2> HIDE DEF f, T
  <2> QED BY <1>4, <1>5, FS_Injection
<1>7. \E x \in S : f[x] = k
  <2>1. k \in T
    OBVIOUS
  <2> HIDE DEF f, T
  <2> QED BY <1>6, <2>1, Fun_SurjectionProperties
<1> QED BY <1>7

\* The elements of the first k ranks are at most k.
LEMMA FirstRanks ==
    ASSUME NEW R, NEW S, IsFiniteSet(S), StrictTotal(R, S), NEW k \in Nat
    PROVE  /\ IsFiniteSet({x \in S : RankIn(R, S, x) < k})
           /\ Cardinality({x \in S : RankIn(R, S, x) < k}) <= k
<1> DEFINE F == {x \in S : RankIn(R, S, x) < k}
           T == 0..(k - 1)
           f == [x \in F |-> RankIn(R, S, x)]
<1>1. f \in [F -> T]
  BY RankType
<1>2. \A a, b \in F : f[a] = f[b] => a = b
  BY RankOrder
<1>3. f \in Injection(F, T)
  <2> HIDE DEF f, F, T
  <2> QED BY <1>1, <1>2, Fun_IsInj
<1>4. IsFiniteSet(T) /\ Cardinality(T) = k
  <2>1. PICK n \in Int : n = k - 1
    OBVIOUS
  <2>2. /\ IsFiniteSet(0..n)
        /\ Cardinality(0..n) = IF 0 > n THEN 0 ELSE n - 0 + 1
    BY FS_Interval
  <2> QED BY <2>1, <2>2
<1>5. IsFiniteSet(F) /\ Cardinality(F) <= Cardinality(T)
  <2> HIDE DEF f, F, T
  <2> QED BY <1>3, <1>4, FS_Injection
<1> QED BY <1>4, <1>5

\* A non-empty set has a first element.
LEMMA FirstExists ==
    ASSUME NEW R, NEW S, IsFiniteSet(S), S # {}, StrictTotal(R, S)
    PROVE  \E x \in S : \A y \in S \ {x} : <<x, y>> \in R
<1>1. Cardinality(S) \in Nat /\ Cardinality(S) # 0
  BY FS_CardinalityType, FS_EmptySet
<1>2. 0 \in 0..(Cardinality(S) - 1)
  BY <1>1
<1>3. PICK x \in S : RankIn(R, S, x) = 0
  BY <1>2, RankAttained
<1>4. ASSUME NEW y \in S \ {x}
      PROVE  <<x, y>> \in R
  <2>1. RankIn(R, S, y) \in 0..(Cardinality(S) - 1)
    BY RankType
  <2>2. /\ RankIn(R, S, x) < RankIn(R, S, y) <=> <<x, y>> \in R
        /\ RankIn(R, S, x) = RankIn(R, S, y) <=> x = y
    BY RankOrder
  <2> QED BY <1>3, <1>4, <2>1, <2>2
<1> QED BY <1>4

-----------------------------------------------------------------------------
(* The order by distance and id, and its first elements. *)

PrecedesPairs(dist, S) == {p \in S \X S : Precedes(dist, p[1], p[2])}

\* Distance, then id, is a strict total order.
LEMMA PrecedesTotal ==
    ASSUME NEW S \in SUBSET Nat, NEW dist \in [S -> Nat]
    PROVE  /\ StrictTotal(PrecedesPairs(dist, S), S)
           /\ \A x, y \in S : <<x, y>> \in PrecedesPairs(dist, S) <=> Precedes(dist, x, y)
<1>1. \A x, y \in S : <<x, y>> \in PrecedesPairs(dist, S) <=> Precedes(dist, x, y)
  BY DEF PrecedesPairs
<1>2. \A x \in S : dist[x] \in Nat /\ x \in Nat
  OBVIOUS
<1>3. \A x \in S : ~Precedes(dist, x, x)
  BY <1>2 DEF Precedes
<1>4. \A x, y, z \in S :
        (Precedes(dist, x, y) /\ Precedes(dist, y, z)) => Precedes(dist, x, z)
  BY <1>2 DEF Precedes
<1>5. \A x, y \in S : x # y => (Precedes(dist, x, y) \/ Precedes(dist, y, x))
  BY <1>2 DEF Precedes
<1> QED BY <1>1, <1>3, <1>4, <1>5 DEF StrictTotal

\* The count Nearest and the selection sort by is the rank in that order.
LEMMA PrecedesRank ==
    ASSUME NEW S \in SUBSET Nat, NEW dist \in [S -> Nat], NEW x \in S
    PROVE  Cardinality({y \in S : Precedes(dist, y, x)})
             = RankIn(PrecedesPairs(dist, S), S, x)
<1>1. {y \in S : Precedes(dist, y, x)} = Before(PrecedesPairs(dist, S), S, x)
  BY PrecedesTotal DEF Before
<1> QED BY <1>1 DEF RankIn

\* No more than the limit are the nearest.
LEMMA NearestBounded ==
    ASSUME NEW S \in SUBSET Nat, IsFiniteSet(S), NEW dist \in [S -> Nat],
           NEW limit \in Nat
    PROVE  /\ IsFiniteSet(Nearest(dist, S, limit))
           /\ Cardinality(Nearest(dist, S, limit)) <= limit
<1> DEFINE R == PrecedesPairs(dist, S)
<1>1. StrictTotal(R, S)
  BY PrecedesTotal
<1>2. Nearest(dist, S, limit) = {x \in S : RankIn(R, S, x) < limit}
  BY PrecedesRank DEF Nearest
<1> QED BY <1>1, <1>2, FirstRanks

\* Whatever precedes one of the nearest is one of them.
LEMMA NearestClosed ==
    ASSUME NEW S \in SUBSET Nat, IsFiniteSet(S), NEW dist \in [S -> Nat],
           NEW limit \in Nat, NEW x \in S, NEW y \in Nearest(dist, S, limit),
           Precedes(dist, x, y)
    PROVE  x \in Nearest(dist, S, limit)
<1> DEFINE R == PrecedesPairs(dist, S)
<1>1. StrictTotal(R, S) /\ <<x, y>> \in R
  BY PrecedesTotal DEF Nearest
<1>2. \A z \in S : z \in Nearest(dist, S, limit) <=> RankIn(R, S, z) < limit
  BY PrecedesRank DEF Nearest
<1>3. y \in S /\ RankIn(R, S, y) < limit
  BY <1>2 DEF Nearest
<1> HIDE DEF R
<1>4. /\ RankIn(R, S, x) < RankIn(R, S, y)
      /\ RankIn(R, S, x) \in Int
      /\ RankIn(R, S, y) \in Int
  BY <1>1, <1>3, RankGrows, RankType
<1> QED BY <1>2, <1>3, <1>4

-----------------------------------------------------------------------------
(* Quantile ranks and their combination. *)

\* What a quantile rank counts.
LEMMA ClosersCounted ==
    ASSUME NEW S, IsFiniteSet(S), NEW raw \in [S -> Nat], NEW a \in S
    PROVE  /\ IsFiniteSet(Closer(raw, S, a))
           /\ IsFiniteSet(NoFarther(raw, S, a))
           /\ Cardinality(Closer(raw, S, a)) \in Nat
           /\ Cardinality(NoFarther(raw, S, a)) \in Nat \ {0}
<1>1. /\ Closer(raw, S, a) \in SUBSET S
      /\ NoFarther(raw, S, a) \in SUBSET S
      /\ a \in NoFarther(raw, S, a)
  BY DEF Closer, NoFarther
<1>2. /\ IsFiniteSet(Closer(raw, S, a))
      /\ IsFiniteSet(NoFarther(raw, S, a))
  BY <1>1, FS_Subset
<1>3. /\ Cardinality(Closer(raw, S, a)) \in Nat
      /\ Cardinality(NoFarther(raw, S, a)) \in Nat
  BY <1>2, FS_CardinalityType
<1>4. Cardinality(NoFarther(raw, S, a)) # 0
  BY <1>1, <1>2, FS_EmptySet
<1> QED BY <1>2, <1>3, <1>4

LEMMA QuantileRankType ==
    ASSUME NEW S, IsFiniteSet(S), NEW raw \in [S -> Nat], NEW a \in S
    PROVE  QuantileRank(raw, S, a) \in Nat
BY ClosersCounted DEF QuantileRank

\* No smaller raw distance, no smaller rank.
LEMMA QuantileRankMonotone ==
    ASSUME NEW S, IsFiniteSet(S), NEW raw \in [S -> Nat],
           NEW a \in S, NEW b \in S, raw[a] <= raw[b]
    PROVE  QuantileRank(raw, S, a) <= QuantileRank(raw, S, b)
<1>1. QuantileRank(raw, S, a) \in Nat /\ QuantileRank(raw, S, b) \in Nat
  BY QuantileRankType
<1>2. CASE Cardinality(S) <= 1 \/ raw[a] = 0
  BY <1>1, <1>2 DEF QuantileRank
<1>3. CASE ~(Cardinality(S) <= 1 \/ raw[a] = 0)
  <2>1. /\ Closer(raw, S, a) \in SUBSET Closer(raw, S, b)
        /\ NoFarther(raw, S, a) \in SUBSET NoFarther(raw, S, b)
    BY DEF Closer, NoFarther
  <2>2. /\ Cardinality(Closer(raw, S, a)) <= Cardinality(Closer(raw, S, b))
        /\ Cardinality(NoFarther(raw, S, a)) <= Cardinality(NoFarther(raw, S, b))
    BY <2>1, ClosersCounted, FS_Subset
  <2>3. raw[b] # 0
    BY <1>3
  <2> QED BY <1>3, <2>2, <2>3, ClosersCounted DEF QuantileRank
<1> QED BY <1>2, <1>3

\* A smaller raw distance, a smaller rank.
LEMMA QuantileRankStrict ==
    ASSUME NEW S, IsFiniteSet(S), NEW raw \in [S -> Nat],
           NEW a \in S, NEW b \in S, raw[a] < raw[b]
    PROVE  QuantileRank(raw, S, a) < QuantileRank(raw, S, b)
<1>1. Cardinality(S) \in Nat /\ Cardinality(S) > 1
  <2>1. {b} \in SUBSET S /\ a \notin {b}
    OBVIOUS
  <2>2. Cardinality({b}) = 1
    BY FS_Singleton
  <2>3. /\ Cardinality({b}) <= Cardinality(S)
        /\ Cardinality(S) = Cardinality({b}) => S = {b}
    BY <2>1, FS_Subset
  <2>4. Cardinality(S) \in Nat
    BY FS_CardinalityType
  <2> QED BY <2>1, <2>2, <2>3, <2>4
<1>2. /\ Closer(raw, S, a) \in SUBSET Closer(raw, S, b)
      /\ NoFarther(raw, S, a) \in SUBSET NoFarther(raw, S, b)
      /\ a \in Closer(raw, S, b)
      /\ a \notin Closer(raw, S, a)
  BY DEF Closer, NoFarther
<1>3. /\ Cardinality(Closer(raw, S, a)) <= Cardinality(Closer(raw, S, b))
      /\ Cardinality(Closer(raw, S, b)) = Cardinality(Closer(raw, S, a))
         => Closer(raw, S, b) = Closer(raw, S, a)
      /\ Cardinality(NoFarther(raw, S, a)) <= Cardinality(NoFarther(raw, S, b))
  BY <1>2, ClosersCounted, FS_Subset
<1>4. Cardinality(Closer(raw, S, a)) < Cardinality(Closer(raw, S, b))
  <2>1. Cardinality(Closer(raw, S, a)) # Cardinality(Closer(raw, S, b))
    BY <1>2, <1>3
  <2> QED BY <1>3, <2>1, ClosersCounted
<1>5. QuantileRank(raw, S, b)
        = Cardinality(Closer(raw, S, b)) + Cardinality(NoFarther(raw, S, b)) - 1
  BY <1>1 DEF QuantileRank
<1>6. QuantileRank(raw, S, a)
        \in {0, Cardinality(Closer(raw, S, a)) + Cardinality(NoFarther(raw, S, a)) - 1}
  BY DEF QuantileRank
<1> QED BY <1>3, <1>4, <1>5, <1>6, ClosersCounted

LEMMA TimesMonotone ==
    \A k, m, n \in Nat : m <= n => k * m <= k * n
OBVIOUS

LEMMA TimesStrict ==
    \A k, m, n \in Nat : (k > 0 /\ m < n) => k * m < k * n
OBVIOUS

LEMMA CombinedType ==
    ASSUME NEW scale \in Nat, NEW weight \in 0..scale,
           NEW c \in Nat, NEW s \in Nat
    PROVE  CombinedDistance(c, s, weight, scale) \in Nat
BY DEF CombinedDistance

\* The combined distance grows with both quantiles, whatever the weight.
LEMMA CombinedMonotone ==
    ASSUME NEW scale \in Nat, NEW weight \in 0..scale,
           NEW c \in Nat, NEW s \in Nat, NEW d \in Nat, NEW t \in Nat,
           c <= d, s <= t
    PROVE  CombinedDistance(c, s, weight, scale)
             <= CombinedDistance(d, t, weight, scale)
<1>1. weight \in Nat /\ scale - weight \in Nat
  OBVIOUS
<1>2. weight * c <= weight * d /\ (scale - weight) * s <= (scale - weight) * t
  BY <1>1, TimesMonotone
<1> QED BY <1>1, <1>2 DEF CombinedDistance

LEMMA CombinedStrict ==
    ASSUME NEW scale \in Nat \ {0}, NEW weight \in 0..scale,
           NEW c \in Nat, NEW s \in Nat, NEW d \in Nat, NEW t \in Nat,
           c < d, s < t
    PROVE  CombinedDistance(c, s, weight, scale)
             < CombinedDistance(d, t, weight, scale)
<1>1. weight \in Nat /\ scale - weight \in Nat
  OBVIOUS
<1>2. weight * c <= weight * d /\ (scale - weight) * s <= (scale - weight) * t
  BY <1>1, TimesMonotone
<1>3. \/ weight > 0 /\ weight * c < weight * d
      \/ scale - weight > 0 /\ (scale - weight) * s < (scale - weight) * t
  BY <1>1, TimesStrict
<1>4. /\ weight * c \in Nat /\ weight * d \in Nat
      /\ (scale - weight) * s \in Nat /\ (scale - weight) * t \in Nat
  BY <1>1
<1> QED BY <1>2, <1>3, <1>4 DEF CombinedDistance

-----------------------------------------------------------------------------
(* Recursion over the naturals. *)

\* f begins with a and goes on by F.
Repeats(f, F, a) == f[0] = a /\ \A n \in Nat : f[n + 1] = F[f[n]]

\* Repeating a function from a starting value: a sequence of its results
\* exists, so that a function may be defined by recursion over the naturals.
LEMMA Iterates ==
    ASSUME NEW X, NEW F \in [X -> X], NEW a \in X
    PROVE  \E f \in [Nat -> X] : Repeats(f, F, a)
<1> DEFINE Upto(n, g) == /\ g \in [0..n -> X]
                         /\ g[0] = a
                         /\ \A i \in 0..n : i # n => g[i + 1] = F[g[i]]
<1>1. \A n \in Nat : \E g : Upto(n, g)
  <2> DEFINE Bad == {n \in Nat : ~\E g : Upto(n, g)}
  <2>1. SUFFICES ASSUME Bad # {} PROVE FALSE
    OBVIOUS
  <2>2. PICK m \in Bad : \A n \in Bad : m <= n
    <3>1. Bad \in SUBSET Nat
      OBVIOUS
    <3> HIDE DEF Bad
    <3> QED BY <2>1, <3>1, LeastNatural
  <2>3. m # 0
    <3>1. \A i \in 0..0 : i = 0
      OBVIOUS
    <3>2. Upto(0, [i \in 0..0 |-> a])
      BY <3>1
    <3> QED BY <3>2
  <2>4. m - 1 \in Nat /\ m - 1 \notin Bad
    <3>1. m \in Nat
      BY <2>2
    <3>2. m - 1 \in Nat /\ ~(m <= m - 1)
      BY <3>1, <2>3
    <3> HIDE DEF Bad
    <3> QED BY <2>2, <3>2
  <2>5. PICK g : Upto(m - 1, g)
    BY <2>4
  <2> DEFINE h == [i \in 0..m |-> IF i = m THEN F[g[m - 1]] ELSE g[i]]
  <2>6. Upto(m, h)
    <3>1. g[m - 1] \in X /\ F[g[m - 1]] \in X
      BY <2>4, <2>5
    <3>2. h \in [0..m -> X]
      BY <2>4, <2>5, <3>1
    <3>3. h[0] = a
      BY <2>3, <2>4, <2>5
    <3>4. ASSUME NEW i \in 0..m, i # m
          PROVE  h[i + 1] = F[h[i]]
      BY <3>4, <2>4, <2>5
    <3> HIDE DEF h
    <3> QED BY <3>2, <3>3, <3>4
  <2> QED BY <2>2, <2>6
<1>2. ASSUME NEW n \in Nat, NEW m \in Nat, n <= m,
             NEW g, NEW h, Upto(n, g), Upto(m, h)
      PROVE  g[n] = h[n]
  <2> DEFINE Bad == {i \in 0..n : g[i] # h[i]}
  <2>1. SUFFICES ASSUME Bad # {} PROVE FALSE
    OBVIOUS
  <2>2. PICK k \in Bad : \A i \in Bad : k <= i
    <3>1. Bad \in SUBSET Nat
      OBVIOUS
    <3> HIDE DEF Bad
    <3> QED BY <2>1, <3>1, LeastNatural
  <2>3. k # 0
    BY <1>2
  <2>4. k - 1 \in 0..n /\ k - 1 # n /\ k - 1 \notin Bad /\ k - 1 # m /\ k - 1 \in 0..m
    BY <1>2, <2>2, <2>3
  <2>5. g[k - 1] = h[k - 1]
    BY <2>4
  <2>6. g[(k - 1) + 1] = F[g[k - 1]] /\ h[(k - 1) + 1] = F[h[k - 1]]
    BY <1>2, <2>4
  <2>7. (k - 1) + 1 = k
    BY <2>4
  <2> QED BY <2>2, <2>5, <2>6, <2>7
<1> DEFINE part(n) == CHOOSE g : Upto(n, g)
           f == [n \in Nat |-> part(n)[n]]
<1>3. \A n \in Nat : Upto(n, part(n))
  BY <1>1
<1>4. f \in [Nat -> X]
  <2>1. ASSUME NEW n \in Nat PROVE part(n)[n] \in X
    <3>1. Upto(n, part(n))
      BY <1>3
    <3>2. n \in 0..n
      OBVIOUS
    <3> HIDE DEF part
    <3> QED BY <3>1, <3>2
  <2> HIDE DEF part
  <2> QED BY <2>1
<1>5. f[0] = a
  <2>1. Upto(0, part(0))
    BY <1>3
  <2> HIDE DEF part
  <2> QED BY <2>1
<1>6. ASSUME NEW n \in Nat PROVE f[n + 1] = F[f[n]]
  <2>1. n + 1 \in Nat /\ n <= n + 1 /\ n \in 0..(n + 1) /\ n # n + 1
    OBVIOUS
  <2>2. Upto(n, part(n)) /\ Upto(n + 1, part(n + 1))
    BY <1>3, <2>1
  <2>3. part(n)[n] = part(n + 1)[n]
    <3> HIDE DEF part, Upto
    <3> QED BY <1>2, <2>1, <2>2
  <2>4. part(n + 1)[n + 1] = F[part(n + 1)[n]]
    <3> HIDE DEF part
    <3> QED BY <2>1, <2>2
  <2> HIDE DEF part, Upto
  <2> QED BY <2>1, <2>3, <2>4
<1> HIDE DEF f
<1> QED BY <1>4, <1>5, <1>6 DEF Repeats
=============================================================================
