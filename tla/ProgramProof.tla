---------------------------- MODULE ProgramProof ----------------------------
(***************************************************************************)
(* Proofs about what the reducers write into a program: the constants and  *)
(* jumps of Immediates and the edits of Patching, for every program, trace *)
(* and width of the immediates, and the placement of the code by           *)
(* CodeSegment, for every layout, alignment and address width.             *)
(***************************************************************************)
EXTENDS Patching, CodeSegment, SequenceTheorems, Ordering

-----------------------------------------------------------------------------
(* Division by a positive number, which need not be a constant. *)

LEMMA Division ==
    ASSUME NEW x \in Int, NEW n \in Nat \ {0}
    PROVE  /\ x = n * (x \div n) + (x % n)
           /\ x % n \in 0..(n - 1)
           /\ x \div n \in Int
OBVIOUS

LEMMA TimesBeyond ==
    ASSUME NEW n \in Nat \ {0}, NEW p \in Int, NEW q \in Int, p < q
    PROVE  n * p + n <= n * q
<1>1. n * p + n = n * (p + 1)
  OBVIOUS
<1>2. PICK k \in Nat : q = (p + 1) + k
  <2>1. q - (p + 1) \in Nat /\ q = (p + 1) + (q - (p + 1))
    OBVIOUS
  <2> QED BY <2>1
<1>3. n * q = n * (p + 1) + n * k
  BY <1>2
<1>4. n * k \in Nat
  OBVIOUS
<1> QED BY <1>1, <1>3, <1>4

LEMMA Remainder ==
    ASSUME NEW x \in Int, NEW n \in Nat \ {0}, NEW q \in Int,
           NEW r \in 0..(n - 1), x = n * q + r
    PROVE  x % n = r /\ x \div n = q
<1> DEFINE p == x \div n
           s == x % n
<1>1. x = n * p + s /\ s \in 0..(n - 1) /\ p \in Int
  BY Division
<1>2. n * p \in Int /\ n * q \in Int
  BY <1>1
<1> HIDE DEF p, s
<1>3. ~(p < q)
  BY <1>1, <1>2, TimesBeyond
<1>4. ~(q < p)
  BY <1>1, <1>2, TimesBeyond
<1>5. p = q
  BY <1>1, <1>3, <1>4
<1>6. s = r
  BY <1>1, <1>2, <1>5
<1> QED BY <1>5, <1>6 DEF p, s

LEMMA Shifted ==
    ASSUME NEW x \in Int, NEW n \in Nat \ {0}, NEW k \in Int
    PROVE  (x + n * k) % n = x % n
<1> DEFINE p == x \div n
           s == x % n
<1>1. x = n * p + s /\ s \in 0..(n - 1) /\ p \in Int
  BY Division
<1> HIDE DEF p
<1>2. x + n * k = n * (p + k) + s
  BY <1>1
<1>3. x + n * k \in Int /\ p + k \in Int
  BY <1>1
<1> HIDE DEF s
<1>4. (x + n * k) % n = s
  BY <1>1, <1>2, <1>3, Remainder
<1> QED BY <1>4 DEF s

LEMMA Products ==
    ASSUME NEW n \in Nat \ {0}, NEW p \in Int, NEW q \in Int
    PROVE  /\ n * p \in Int
           /\ n * (-p) = -(n * p)
           /\ p < q => n * p + n <= n * q
           /\ p <= q => n * p <= n * q
<1>1. n * p \in Int /\ n * q \in Int /\ n * (-p) = -(n * p)
  OBVIOUS
<1>2. p < q => n * p + n <= n * q
  BY TimesBeyond
<1>3. p <= q => p < q \/ p = q
  OBVIOUS
<1> QED BY <1>1, <1>2, <1>3

-----------------------------------------------------------------------------
(* Powers of two. *)

\* What the recursion says of Pow2, which is a choice until a function with
\* this property is shown to exist.
LEMMA Pow2Recursion ==
    /\ Pow2 \in [Nat -> Nat \ {0}]
    /\ Pow2[0] = 1
    /\ \A n \in Nat : Pow2[n + 1] = 2 * Pow2[n]
<1> DEFINE X == Nat \ {0}
           F == [x \in X |-> 2 * x]
           Is(f) == f = [n \in Nat |-> IF n = 0 THEN 1 ELSE 2 * f[n - 1]]
<1>1. F \in [X -> X] /\ 1 \in X
  OBVIOUS
<1>2. PICK f \in [Nat -> X] : f[0] = 1 /\ \A n \in Nat : f[n + 1] = F[f[n]]
  <2>1. PICK a \in X : a = 1
    BY <1>1
  <2> HIDE DEF F, X
  <2>2. PICK f \in [Nat -> X] : Repeats(f, F, a)
    BY <1>1, Iterates
  <2> QED BY <2>1, <2>2 DEF Repeats
<1>3. ASSUME NEW n \in Nat
      PROVE  f[n] = IF n = 0 THEN 1 ELSE 2 * f[n - 1]
  <2>1. CASE n = 0
    BY <1>2, <2>1
  <2>2. CASE n # 0
    <3>1. n - 1 \in Nat /\ (n - 1) + 1 = n
      BY <2>2
    <3>2. f[(n - 1) + 1] = F[f[n - 1]] /\ f[n - 1] \in X
      BY <1>2, <3>1
    <3> QED BY <2>2, <3>1, <3>2
  <2> QED BY <2>1, <2>2
<1>4. Is(f)
  <2>1. f = [n \in Nat |-> f[n]]
    BY <1>2
  <2> QED BY <1>3, <2>1
<1>5. Pow2 = CHOOSE g : Is(g)
  BY DEF Pow2
<1>6. Is(Pow2)
  <2> HIDE DEF Is
  <2> QED BY <1>4, <1>5
<1>7. Pow2[0] = 1
  BY <1>6
<1>8. ASSUME NEW n \in Nat PROVE Pow2[n + 1] = 2 * Pow2[n]
  <2>1. n + 1 \in Nat /\ n + 1 # 0 /\ (n + 1) - 1 = n
    OBVIOUS
  <2>2. Pow2[n + 1] = IF n + 1 = 0 THEN 1 ELSE 2 * Pow2[(n + 1) - 1]
    BY <1>6, <2>1
  <2> QED BY <2>1, <2>2
<1>9. ASSUME NEW n \in Nat PROVE Pow2[n] \in Nat \ {0}
  <2> DEFINE Bad == {k \in Nat : Pow2[k] \notin Nat \ {0}}
  <2>1. SUFFICES ASSUME Bad # {} PROVE FALSE
    OBVIOUS
  <2>2. PICK m \in Bad : \A k \in Bad : m <= k
    <3>1. Bad \in SUBSET Nat
      OBVIOUS
    <3> HIDE DEF Bad
    <3> QED BY <2>1, <3>1, LeastNatural
  <2>3. m # 0
    BY <1>7, <2>2
  <2>4. m - 1 \in Nat /\ ~(m <= m - 1) /\ (m - 1) + 1 = m
    BY <2>2, <2>3
  <2>5. Pow2[m - 1] \in Nat \ {0}
    BY <2>2, <2>4
  <2>6. Pow2[(m - 1) + 1] = 2 * Pow2[m - 1]
    BY <1>8, <2>4
  <2> QED BY <2>2, <2>4, <2>5, <2>6
<1>10. Pow2 \in [Nat -> Nat \ {0}]
  BY <1>6, <1>9
<1> QED BY <1>7, <1>8, <1>10

LEMMA Pow2Type ==
    ASSUME NEW n \in Nat
    PROVE  Pow2[n] \in Nat \ {0} /\ Pow2[n + 1] = 2 * Pow2[n]
BY Pow2Recursion

LEMMA Pow2Sum ==
    ASSUME NEW m \in Nat, NEW n \in Nat
    PROVE  Pow2[m + n] = Pow2[m] * Pow2[n]
<1> DEFINE Bad == {k \in Nat : Pow2[m + k] # Pow2[m] * Pow2[k]}
<1>1. SUFFICES ASSUME Bad # {} PROVE FALSE
  OBVIOUS
<1>2. PICK k \in Bad : \A j \in Bad : k <= j
  <2>1. Bad \in SUBSET Nat
    OBVIOUS
  <2> HIDE DEF Bad
  <2> QED BY <1>1, <2>1, LeastNatural
<1>3. k # 0
  <2>1. m + 0 = m /\ Pow2[m] * 1 = Pow2[m]
    BY Pow2Type
  <2> QED BY <1>2, <2>1, Pow2Recursion
<1>4. k - 1 \in Nat /\ ~(k <= k - 1) /\ (k - 1) + 1 = k /\ (m + (k - 1)) + 1 = m + k
      /\ m + (k - 1) \in Nat
  BY <1>2, <1>3
<1>5. Pow2[m + (k - 1)] = Pow2[m] * Pow2[k - 1]
  BY <1>2, <1>4
<1>6. /\ Pow2[(k - 1) + 1] = 2 * Pow2[k - 1]
      /\ Pow2[(m + (k - 1)) + 1] = 2 * Pow2[m + (k - 1)]
  BY <1>4, Pow2Type
<1>7. /\ Pow2[k] = 2 * Pow2[k - 1]
      /\ Pow2[m + k] = 2 * Pow2[m + (k - 1)]
  BY <1>4, <1>6
<1>8. Pow2[m + k] = Pow2[m] * Pow2[k]
  <2>1. \A a, b \in Nat : 2 * (a * b) = a * (2 * b)
    OBVIOUS
  <2>2. Pow2[m] \in Nat /\ Pow2[k - 1] \in Nat
    BY <1>4, Pow2Type
  <2> QED BY <1>5, <1>7, <2>1, <2>2
<1> QED BY <1>2, <1>8

\* A smaller power divides a larger one.
LEMMA Pow2Divides ==
    ASSUME NEW m \in Nat, NEW n \in Nat, m <= n
    PROVE  /\ n - m \in Nat
           /\ Pow2[n] = Pow2[m] * Pow2[n - m]
           /\ Pow2[m] <= Pow2[n]
<1>1. n - m \in Nat /\ m + (n - m) = n
  OBVIOUS
<1>2. Pow2[m + (n - m)] = Pow2[m] * Pow2[n - m]
  BY <1>1, Pow2Sum
<1>3. Pow2[m] \in Nat \ {0} /\ Pow2[n - m] \in Nat \ {0}
  BY <1>1, Pow2Type
<1>4. \A a, b \in Nat \ {0} : a <= a * b
  OBVIOUS
<1> QED BY <1>1, <1>2, <1>3, <1>4

-----------------------------------------------------------------------------
(* Words, and the two parts of a constant. *)

LEMMA Widths ==
    /\ Width \in Nat \ {0} /\ WordBits \in Nat \ {0}
    /\ ImmBits \in Nat \ {0} /\ JalBits \in Nat \ {0}
    /\ ImmBits < WordBits /\ WordBits < Width
BY WidthAssumption

LEMMA Halves ==
    ASSUME NEW bits \in Nat \ {0}
    PROVE  /\ bits - 1 \in Nat
           /\ Pow2[bits - 1] \in Nat \ {0}
           /\ Pow2[bits] \in Nat \ {0}
           /\ Pow2[bits] = 2 * Pow2[bits - 1]
<1>1. bits - 1 \in Nat /\ (bits - 1) + 1 = bits
  OBVIOUS
<1>2. Pow2[bits - 1] \in Nat \ {0} /\ Pow2[(bits - 1) + 1] = 2 * Pow2[bits - 1]
  BY <1>1, Pow2Type
<1> QED BY <1>1, <1>2

LEMMA SignedIs ==
    ASSUME NEW x \in Int, NEW bits \in Nat \ {0}
    PROVE  /\ Signed(x, bits) \in -(Pow2[bits - 1])..(Pow2[bits - 1] - 1)
           /\ \E k \in Int : x = Pow2[bits] * k + Signed(x, bits)
<1> DEFINE M == Pow2[bits]
           H == Pow2[bits - 1]
           low == x % M
           q == x \div M
<1>1. H \in Nat \ {0} /\ M \in Nat \ {0} /\ M = 2 * H
  BY Halves
<1>2. Signed(x, bits) = IF low < H THEN low ELSE low - M
  BY DEF Signed
<1> HIDE DEF M, H
<1>3. x = M * q + low /\ low \in 0..(M - 1) /\ q \in Int
  BY <1>1, Division
<1> HIDE DEF low, q
<1>4. CASE low < H
  BY <1>1, <1>2, <1>3, <1>4 DEF M, H
<1>5. CASE ~(low < H)
  <2>1. Signed(x, bits) = low - M /\ Signed(x, bits) \in -H..(H - 1)
    BY <1>1, <1>2, <1>3, <1>5
  <2>2. x = M * (q + 1) + (low - M) /\ q + 1 \in Int
    BY <1>1, <1>3
  <2> QED BY <2>1, <2>2 DEF M, H
<1> QED BY <1>4, <1>5

LEMMA SignedUnique ==
    ASSUME NEW x \in Int, NEW bits \in Nat \ {0}, NEW k \in Int,
           NEW s \in -(Pow2[bits - 1])..(Pow2[bits - 1] - 1),
           x = Pow2[bits] * k + s
    PROVE  Signed(x, bits) = s
<1> DEFINE M == Pow2[bits]
           H == Pow2[bits - 1]
<1>1. H \in Nat \ {0} /\ M \in Nat \ {0} /\ M = 2 * H
  BY Halves
<1>2. Signed(x, bits) = IF x % M < H THEN x % M ELSE (x % M) - M
  BY DEF Signed
<1>3. s \in -H..(H - 1) /\ x = M * k + s
  OBVIOUS
<1> HIDE DEF M, H
<1>4. CASE s >= 0
  <2>1. s \in 0..(M - 1)
    BY <1>1, <1>3, <1>4
  <2>2. x % M = s
    BY <1>1, <1>3, <2>1, Remainder
  <2> QED BY <1>1, <1>2, <1>3, <2>2
<1>5. CASE s < 0
  <2>1. PICK r \in 0..(M - 1), j \in Int : r = s + M /\ j = k - 1
    BY <1>1, <1>3, <1>5
  <2>2. x = M * j + r
    BY <1>1, <1>3, <2>1
  <2>3. x % M = r
    BY <1>1, <2>2, Remainder
  <2> QED BY <1>1, <1>2, <1>3, <1>5, <2>1, <2>3
<1> QED BY <1>3, <1>4, <1>5

LEMMA WrappedIs ==
    ASSUME NEW x \in Int
    PROVE  /\ Wrapped(x) \in 0..(Pow2[Width] - 1)
           /\ \E k \in Int : x = Pow2[Width] * k + Wrapped(x)
           /\ \A k \in Int : Wrapped(x + Pow2[Width] * k) = Wrapped(x)
<1>1. Pow2[Width] \in Nat \ {0}
  BY Widths, Pow2Type
<1>2. /\ x = Pow2[Width] * (x \div Pow2[Width]) + (x % Pow2[Width])
      /\ x % Pow2[Width] \in 0..(Pow2[Width] - 1)
      /\ x \div Pow2[Width] \in Int
  BY <1>1, Division
<1>3. \A k \in Int : (x + Pow2[Width] * k) % Pow2[Width] = x % Pow2[Width]
  BY <1>1, Shifted
<1> QED BY <1>2, <1>3 DEF Wrapped

LEMMA WrappedUnique ==
    ASSUME NEW x \in Int, NEW r \in 0..(Pow2[Width] - 1), NEW k \in Int,
           x = Pow2[Width] * k + r
    PROVE  Wrapped(x) = r
<1>1. Pow2[Width] \in Nat \ {0}
  BY Widths, Pow2Type
<1>2. x % Pow2[Width] = r
  BY <1>1, Remainder
<1> QED BY <1>2 DEF Wrapped

LEMMA WrappedSame ==
    ASSUME NEW r \in 0..(Pow2[Width] - 1)
    PROVE  Wrapped(r) = r
<1>1. r \in Int /\ 0 \in Int /\ r = Pow2[Width] * 0 + r
  BY Widths, Pow2Type
<1> QED BY <1>1, WrappedUnique

\* A number is its upper part and its signed lower part.
LEMMA UpperIs ==
    ASSUME NEW x \in Int
    PROVE  /\ Upper(x) \in Int
           /\ x = Pow2[ImmBits] * Upper(x) + Signed(x, ImmBits)
           /\ Signed(x, ImmBits) \in -Bias..(Bias - 1)
           /\ Bias \in Nat \ {0} /\ Pow2[ImmBits] = 2 * Bias
<1> DEFINE P == Pow2[ImmBits]
           B == Pow2[ImmBits - 1]
           u == (x + B) \div P
           t == (x + B) % P
<1>1. B \in Nat \ {0} /\ P \in Nat \ {0} /\ P = 2 * B
  BY Widths, Halves
<1> HIDE DEF B, P
<1>2. x + B \in Int
  BY <1>1
<1>3. x + B = P * u + t /\ t \in 0..(P - 1) /\ u \in Int
  BY <1>1, <1>2, Division
<1> HIDE DEF u, t
<1>4. t - B \in -B..(B - 1) /\ x = P * u + (t - B)
  BY <1>1, <1>3
<1>5. Signed(x, ImmBits) = t - B
  BY <1>3, <1>4, Widths, SignedUnique DEF B, P
<1>6. Upper(x) = u /\ Bias = B
  BY DEF Upper, Bias, u, P, B
<1> QED BY <1>1, <1>3, <1>4, <1>5, <1>6 DEF P, B

LEMMA SignedSame ==
    ASSUME NEW bits \in Nat \ {0},
           NEW s \in -(Pow2[bits - 1])..(Pow2[bits - 1] - 1)
    PROVE  Signed(s, bits) = s
<1>1. PICK z \in Int : z = 0
  OBVIOUS
<1>2. Pow2[bits] \in Nat \ {0} /\ Pow2[bits - 1] \in Nat \ {0}
  BY Halves
<1>3. s \in Int /\ s = Pow2[bits] * z + s
  BY <1>1, <1>2
<1> QED BY <1>3, SignedUnique

LEMMA SignedOfLow ==
    ASSUME NEW x \in Int, NEW bits \in Nat \ {0}
    PROVE  Signed(x % Pow2[bits], bits) = Signed(x, bits)
<1>1. Pow2[bits] \in Nat \ {0}
  BY Pow2Type
<1>2. PICK r \in 0..(Pow2[bits] - 1) : r = x % Pow2[bits]
  BY <1>1, Division
<1>3. PICK z \in Int : z = 0
  OBVIOUS
<1>4. r \in Int /\ r = Pow2[bits] * z + r
  BY <1>1, <1>3
<1>5. r % Pow2[bits] = r
  BY <1>1, <1>4, Remainder
<1> QED BY <1>2, <1>5 DEF Signed

-----------------------------------------------------------------------------
(* Jumps. *)

Words == 0..(Pow2[Width] - 1)

LEMMA WordIs == /\ Pow2[Width] \in Nat \ {0}
                /\ \A x \in Words : x \in Int
BY Widths, Pow2Type DEF Words

LEMMA JumpNearArrives ==
    ASSUME value \in Words, rest \in Words, JumpNear
    PROVE  reg' = rest
<1> DEFINE H == Pow2[JalBits - 1]
<1>1. /\ value \in Int /\ rest \in Int
  BY WordIs
<1>2. PICK d \in Int : d = Offset /\ d = rest - value
  BY <1>1 DEF Offset
<1>3. H \in Nat \ {0} /\ Pow2[JalBits] \in Nat \ {0}
  BY Widths, Halves
<1>4. d \in -H..(H - 1)
  <2>1. d >= -H /\ d <= H - 2
    BY <1>2 DEF JumpNear, JalReaches
  <2> HIDE DEF H
  <2> QED BY <1>2, <1>3, <2>1
<1>7. Signed(d, JalBits) = d
  BY <1>4, Widths, SignedSame
<1>8. reg' = Wrapped(value + Signed(d, JalBits))
  BY <1>2 DEF JumpNear
<1>9. value + d = rest
  BY <1>1, <1>2
<1> QED BY <1>7, <1>8, <1>9, WrappedSame DEF Words

\* AUIPC and JALR: the upper part does not overflow, and the signed lower
\* part is what the upper part leaves.
LEMMA JumpFarArrives ==
    ASSUME value \in Words, rest \in Words, JumpFar
    PROVE  reg' = rest
<1> DEFINE P == Pow2[ImmBits]
           R == Pow2[WordBits - ImmBits - 1]
           H == Pow2[WordBits - 1]
<1>1. value \in Int /\ rest \in Int
  BY WordIs
<1>2. PICK d \in Int : d = Offset /\ d = rest - value
  BY <1>1 DEF Offset
<1>3. PICK u \in Int, s \in Int :
         /\ u = Upper(d) /\ s = Signed(d, ImmBits)
         /\ d = P * u + s
         /\ s \in -Bias..(Bias - 1) /\ Bias \in Nat \ {0}
  BY <1>2, UpperIs
<1>4. H = P * R /\ P \in Nat \ {0} /\ R \in Nat \ {0} /\ H \in Nat \ {0}
  <2>1. /\ ImmBits \in Nat /\ WordBits - 1 \in Nat /\ ImmBits <= WordBits - 1
        /\ (WordBits - 1) - ImmBits = WordBits - ImmBits - 1
    BY Widths
  <2>2. /\ (WordBits - 1) - ImmBits \in Nat
        /\ Pow2[WordBits - 1] = Pow2[ImmBits] * Pow2[(WordBits - 1) - ImmBits]
    BY <2>1, Pow2Divides
  <2> QED BY <2>1, <2>2, Pow2Type
<1>5. u >= -R /\ u <= R - 1
  BY <1>2, <1>3 DEF JumpFar, AuipcReaches
<1>6. PICK base \in Int : base = P * u /\ base = u * P
  BY <1>3, <1>4
<1>7. base \in -H..(H - 1)
  <2>1. PICK a \in Int : a = -R /\ -a = R
    BY <1>4
  <2> HIDE DEF P, R, H
  <2>2. a <= u /\ u < R /\ R \in Int
    BY <1>3, <1>4, <1>5, <2>1
  <2>3. P * a <= P * u /\ P * u + P <= P * R /\ P * (-a) = -(P * a)
    BY <1>3, <1>4, <2>2, Products
  <2>4. P * a = -H /\ P * u \in Int
    BY <1>3, <1>4, <2>1, <2>3, Products
  <2> QED BY <1>4, <1>6, <2>3, <2>4
<1>8. Signed(base, WordBits) = base
  BY <1>7, Widths, SignedSame
<1>9. Signed((d - base) % P, ImmBits) = s
  <2>1. d - base = s
    BY <1>2, <1>3, <1>6
  <2>2. s \in -(Pow2[ImmBits - 1])..(Pow2[ImmBits - 1] - 1)
    BY <1>3 DEF Bias
  <2>3. Signed(s % Pow2[ImmBits], ImmBits) = s
    BY <2>2, Widths, SignedSame, SignedOfLow
  <2> QED BY <2>1, <2>3
<1>10. reg' = Wrapped(value + Signed(base, WordBits) + Signed((d - base) % P, ImmBits))
  BY <1>2, <1>3, <1>6 DEF JumpFar
<1>11. value + base + s = rest
  BY <1>1, <1>2, <1>3, <1>6
<1> QED BY <1>8, <1>9, <1>10, <1>11, WrappedSame DEF Words

\* A jump that neither encoding reaches is beyond both.
LEMMA NoJumpBeyond ==
    ASSUME value \in Words, rest \in Words, ~AuipcReaches
    PROVE  \/ Offset >= Pow2[WordBits - 1] - Bias
           \/ Offset < -(Pow2[WordBits - 1]) - Bias
<1> DEFINE P == Pow2[ImmBits]
           R == Pow2[WordBits - ImmBits - 1]
           H == Pow2[WordBits - 1]
<1>1. PICK d \in Int : d = Offset
  BY WordIs DEF Offset
<1>2. PICK u \in Int, s \in Int :
         /\ u = Upper(d) /\ s = Signed(d, ImmBits)
         /\ d = P * u + s
         /\ s \in -Bias..(Bias - 1) /\ Bias \in Nat \ {0} /\ P = 2 * Bias
  <2>1. Signed(d, ImmBits) \in Int
    BY UpperIs
  <2> QED BY <2>1, UpperIs
<1>3. H = P * R /\ P \in Nat \ {0} /\ R \in Nat \ {0} /\ H \in Nat \ {0}
  <2>1. /\ ImmBits \in Nat /\ WordBits - 1 \in Nat /\ ImmBits <= WordBits - 1
        /\ (WordBits - 1) - ImmBits = WordBits - ImmBits - 1
    BY Widths
  <2>2. /\ (WordBits - 1) - ImmBits \in Nat
        /\ Pow2[WordBits - 1] = Pow2[ImmBits] * Pow2[(WordBits - 1) - ImmBits]
    BY <2>1, Pow2Divides
  <2> QED BY <2>1, <2>2, Pow2Type
<1>4. u < -R \/ u >= R
  BY <1>1, <1>2, <1>3 DEF AuipcReaches
<1>5. CASE u >= R
  <2> HIDE DEF P, R, H
  <2>1. R <= u /\ R \in Int
    BY <1>2, <1>3, <1>5
  <2>2. P * R <= P * u /\ P * u \in Int
    BY <1>2, <1>3, <2>1, Products
  <2>3. d >= H - Bias
    BY <1>2, <1>3, <2>2
  <2> QED BY <1>1, <2>3 DEF H
<1>6. CASE u < -R
  <2>1. PICK a \in Int : a = -R /\ -a = R
    BY <1>3
  <2> HIDE DEF P, R, H
  <2>2. /\ P * u + P <= P * a /\ P * a = -H
        /\ P * u \in Int
    <3>1. u < a
      BY <1>2, <1>3, <1>6, <2>1
    <3>2. P * u + P <= P * a /\ P * (-a) = -(P * a) /\ P * a \in Int /\ P * u \in Int
      BY <1>2, <1>3, <3>1, Products
    <3> QED BY <1>3, <2>1, <3>2
  <2>3. d < -H - Bias
    BY <1>2, <1>3, <2>2
  <2> QED BY <1>1, <2>3 DEF H
<1> QED BY <1>4, <1>5, <1>6

-----------------------------------------------------------------------------
(* Constants. *)

LEMMA RestorePart ==
    ASSUME NEW P \in Int, NEW Y \in Int, NEW E \in Int, NEW N \in Int,
           NEW M \in Int, NEW Q \in Int, NEW u \in Int, NEW v \in Int,
           NEW w \in Int, NEW x \in Int, NEW r \in Int, NEW s \in Int,
           NEW k \in Int, NEW j \in Int, NEW q \in Int,
           N = Y * E, M = P * N, Q = P * Y, u = Y * v, w = N * q + u,
           x = P * w + s, v = E * k + (M * j + r)
    PROVE  /\ x = (r * Q + s) + M * (k + q + Q * j)
           /\ k + q + Q * j \in Int /\ r * Q + s \in Int
OBVIOUS

\* The zeros at the end of a part that is not 0 are fewer than its bits.
LEMMA ZerosCounted ==
    ASSUME NEW n \in Nat, n <= Width, NEW x \in 1..(Pow2[n] - 1)
    PROVE  /\ TrailingZeros(x) \in 0..(n - 1)
           /\ x % Pow2[TrailingZeros(x)] = 0
<1> DEFINE Some == {z \in Nat : x % Pow2[z] # 0}
           Is(z) == x % Pow2[z] = 0 /\ x % Pow2[z + 1] # 0
<1>1. PICK o \in Int : o = 0
  OBVIOUS
<1>2. \A z \in Nat : x < Pow2[z] => z \in Some
  <2>1. ASSUME NEW z \in Nat, x < Pow2[z] PROVE x % Pow2[z] = x
    <3>1. Pow2[z] \in Nat \ {0} /\ x \in Int /\ Pow2[n] \in Nat
      BY Pow2Type
    <3>2. x \in 0..(Pow2[z] - 1) /\ x = Pow2[z] * o + x
      BY <1>1, <2>1, <3>1
    <3> QED BY <1>1, <3>1, <3>2, Remainder
  <2>2. x # 0
    BY Pow2Type
  <2> QED BY <2>1, <2>2
<1>3. PICK y \in Some : \A z \in Some : y <= z
  <2>1. Some \in SUBSET Nat /\ n \in Some
    BY <1>2, Pow2Type
  <2> HIDE DEF Some
  <2> QED BY <2>1, LeastNatural
<1>4. y # 0 /\ y \in Nat
  <2>1. x \in Int
    BY Pow2Type
  <2>2. x % 1 = 0
    BY <2>1
  <2> QED BY <1>3, <2>2, Pow2Recursion
<1>5. y <= n
  BY <1>2, <1>3, Pow2Type
<1>6. Is(y - 1) /\ y - 1 \in 0..Width
  <2>1. y - 1 \in Nat /\ ~(y <= y - 1) /\ (y - 1) + 1 = y /\ y - 1 \in 0..Width
    BY <1>4, <1>5, Widths
  <2> QED BY <1>3, <2>1
<1>7. \E z \in 0..Width : Is(z)
  BY <1>6
<1>8. TrailingZeros(x) \in 0..Width /\ Is(TrailingZeros(x))
  <2>1. TrailingZeros(x) = CHOOSE z \in 0..Width : Is(z)
    BY DEF TrailingZeros
  <2> HIDE DEF Is
  <2> QED BY <1>7, <2>1
<1>9. PICK z \in 0..Width : z = TrailingZeros(x) /\ x % Pow2[z] = 0
  BY <1>8
<1>10. ~(n <= z)
  <2>1. SUFFICES ASSUME n <= z PROVE FALSE
    OBVIOUS
  <2>2. z \in Nat
    BY <1>9, Widths
  <2>3. Pow2[n] <= Pow2[z] /\ Pow2[n] \in Nat /\ Pow2[z] \in Nat
    BY <2>1, <2>2, Pow2Divides, Pow2Type
  <2>4. z \in Some
    BY <1>2, <2>2, <2>3
  <2> QED BY <1>9, <2>4
<1> QED BY <1>9, <1>10, Widths

LEMMA ShortIsWord ==
    ASSUME NEW x \in Words, NEW s \in -Bias..(Bias - 1), NEW q \in Int,
           x = Pow2[Width] * q + s
    PROVE  IsWord(x)
<1>1. /\ Pow2[Width] \in Nat \ {0} /\ Pow2[WordBits] \in Nat \ {0}
      /\ Width - WordBits \in Nat
      /\ Pow2[Width] = Pow2[WordBits] * Pow2[Width - WordBits]
      /\ Pow2[Width - WordBits] \in Nat \ {0}
  BY Widths, Pow2Divides, Pow2Type
<1>2. s \in -(Pow2[WordBits - 1])..(Pow2[WordBits - 1] - 1) /\ s \in Int
  <2>1. ImmBits - 1 \in Nat /\ WordBits - 1 \in Nat /\ ImmBits - 1 <= WordBits - 1
    BY Widths
  <2>2. /\ Bias <= Pow2[WordBits - 1] /\ Bias \in Nat
        /\ Pow2[WordBits - 1] \in Nat
    BY <2>1, Pow2Divides, Pow2Type DEF Bias
  <2> QED BY <2>2
<1>3. PICK k \in Int : k = Pow2[Width - WordBits] * q
  BY <1>1
<1>4. x = Pow2[WordBits] * k + s /\ x \in Int
  BY <1>1, <1>2, <1>3, WordIs
<1>5. Signed(x, WordBits) = s
  <2>1. PICK y \in Int : y = x
    BY <1>4
  <2>2. y = Pow2[WordBits] * k + s
    BY <1>4, <2>1
  <2> QED BY <1>2, <2>1, <2>2, Widths, SignedUnique
<1>6. PICK j \in Int : j = -q
  OBVIOUS
<1>7. s = Pow2[Width] * j + x
  BY <1>1, <1>2, <1>4, <1>6
<1>8. Wrapped(s) = x
  BY <1>2, <1>6, <1>7, WrappedUnique DEF Words
<1> QED BY <1>5, <1>8 DEF IsWord

\* Shifting the part that was split off back and adding the lower part gives
\* the constant again.
LEMMA SplitRestores ==
    ASSUME rest \in Words, SplitOff
    PROVE  /\ rest' \in Words
           /\ \E n \in Nat, l \in Nat :
                 /\ shifts' = <<[shift |-> n, low |-> l]>> \o shifts
                 /\ rest = Wrapped(rest' * Pow2[n] + Signed(l, ImmBits))
<1> DEFINE P == Pow2[ImmBits]
           N == Pow2[Width - ImmBits]
           M == Pow2[Width]
           u == Upper(rest) % N
           z == TrailingZeros(u)
           v == u \div Pow2[z]
           bits == Width - ImmBits - z
<1>1. /\ ~IsWord(rest)
      /\ rest' = SignExtend(v, bits)
      /\ shifts' = <<[shift |-> ImmBits + z, low |-> rest % P]>> \o shifts
  BY DEF SplitOff
<1>2. /\ Width - ImmBits \in Nat /\ Width - ImmBits <= Width
      /\ P \in Nat \ {0} /\ N \in Nat \ {0} /\ M \in Nat \ {0}
      /\ M = P * N
  BY Widths, Pow2Type, Pow2Divides
<1>3. rest \in Int /\ rest % P \in Nat
  <2>1. PICK x \in Int : x = rest
    BY WordIs
  <2>2. x % P \in 0..(P - 1)
    BY <1>2, Division
  <2> QED BY <1>2, <2>1, <2>2
<1>4. PICK w \in Int, s \in Int :
         /\ w = Upper(rest) /\ s = Signed(rest, ImmBits)
         /\ rest = P * w + s /\ s \in -Bias..(Bias - 1)
  <2>1. Signed(rest, ImmBits) \in Int
    BY <1>3, UpperIs
  <2> QED BY <1>3, <2>1, UpperIs
<1>5. PICK q \in Int : w = N * q + u /\ u \in 0..(N - 1)
  BY <1>2, <1>4, Division
<1>6. u # 0
  <2>1. SUFFICES ASSUME u = 0 PROVE FALSE
    OBVIOUS
  <2>2. rest = M * q + s
    <3>1. w = N * q
      BY <1>2, <1>5, <2>1
    <3>2. \A a, b \in Nat : a * (b * q) = (a * b) * q
      OBVIOUS
    <3>3. P * (N * q) = (P * N) * q
      <4> HIDE DEF P, N
      <4> QED BY <1>2, <3>2
    <3> QED BY <1>2, <1>4, <3>1, <3>3
  <2> QED BY <1>1, <1>4, <2>2, ShortIsWord
<1>7. z \in 0..(Width - ImmBits - 1) /\ u % Pow2[z] = 0
  <2>1. u \in 1..(N - 1)
    BY <1>2, <1>5, <1>6
  <2> HIDE DEF u
  <2> QED BY <1>2, <2>1, ZerosCounted DEF N
<1>8. /\ z \in Nat /\ bits \in Nat \ {0}
      /\ Width - bits = ImmBits + z
      /\ ImmBits + z \in Nat
  BY <1>7, Widths
<1>9. PICK Y \in Nat \ {0} : Y = Pow2[z]
  BY <1>8, Pow2Type
<1>10. PICK E \in Nat \ {0} : E = Pow2[bits]
  BY <1>8, Pow2Type
<1>11. N = Y * E
  <2>1. z <= Width - ImmBits /\ (Width - ImmBits) - z = bits
    BY <1>7, <1>8, Widths
  <2>2. Pow2[Width - ImmBits] = Pow2[z] * Pow2[(Width - ImmBits) - z]
    BY <1>2, <1>8, <2>1, Pow2Divides
  <2> QED BY <1>9, <1>10, <2>1, <2>2
<1>12. PICK Q \in Nat \ {0} : Q = Pow2[ImmBits + z] /\ Q = P * Y
  BY <1>8, <1>9, Widths, Pow2Sum, Pow2Type
<1>13. v \in Int /\ u = Y * v
  <2>1. u \in Int
    BY <1>2, <1>5
  <2>2. u = Y * (u \div Y) + (u % Y) /\ u \div Y \in Int
    BY <1>9, <2>1, Division
  <2> QED BY <1>7, <1>9, <2>2
<1> HIDE DEF v, u
<1>14. PICK t \in Int, k \in Int : t = Signed(v, bits) /\ v = E * k + t
  <2>1. Signed(v, bits) \in -(Pow2[bits - 1])..(Pow2[bits - 1] - 1)
    BY <1>8, <1>13, SignedIs
  <2>2. Signed(v, bits) \in Int
    BY <1>8, <2>1, Halves
  <2>3. \E k \in Int : v = Pow2[bits] * k + Signed(v, bits)
    BY <1>8, <1>13, SignedIs
  <2> QED BY <1>10, <2>2, <2>3
<1>15. PICK j \in Int, r \in Words : r = Wrapped(t) /\ t = M * j + r
  BY <1>14, WrappedIs DEF Words
<1>16. rest' = r
  BY <1>1, <1>14, <1>15 DEF SignExtend
<1>17. r \in Int
  BY <1>15, WordIs
<1>18. /\ rest = (r * Q + s) + M * (k + q + Q * j)
       /\ k + q + Q * j \in Int /\ r * Q + s \in Int
  <2> HIDE DEF P, N, M
  <2>1. u \in Int /\ N = Y * E /\ M = P * N /\ Q = P * Y /\ u = Y * v /\ w = N * q + u
    BY <1>2, <1>5, <1>11, <1>12, <1>13
  <2>2. rest = P * w + s /\ v = E * k + (M * j + r)
    BY <1>4, <1>14, <1>15
  <2> QED BY <1>2, <1>3, <1>13, <1>17, <2>1, <2>2, RestorePart
<1>19. Wrapped(r * Q + s) = rest
  <2>1. PICK a \in Int, b \in Int : a = r * Q + s /\ b = k + q + Q * j
    BY <1>18
  <2>2. Wrapped(a + Pow2[Width] * b) = Wrapped(a)
    BY <2>1, WrappedIs
  <2>3. rest = a + Pow2[Width] * b
    BY <1>18, <2>1
  <2>4. Wrapped(rest) = rest
    BY WrappedSame DEF Words
  <2> QED BY <2>1, <2>2, <2>3, <2>4
<1>20. Signed(rest % P, ImmBits) = s
  BY <1>3, <1>4, Widths, SignedOfLow
<1>21. PICK n \in Nat, l \in Nat : n = ImmBits + z /\ l = rest % P
  BY <1>3, <1>8
<1>22. shifts' = <<[shift |-> n, low |-> l]>> \o shifts
  BY <1>1, <1>21
<1>23. rest = Wrapped(rest' * Pow2[n] + Signed(l, ImmBits))
  BY <1>12, <1>16, <1>19, <1>20, <1>21
<1> QED BY <1>15, <1>16, <1>22, <1>23

LEMMA UpperTruncates ==
    ASSUME NEW P \in Int, NEW N \in Int, NEW u \in Int, NEW q \in Int, NEW r \in Int,
           u = N * q + r
    PROVE  r * P = (P * N) * (-q) + P * u
OBVIOUS

\* LUI and ADDI load a word whose rounded upper part does not carry.
LEMMA WordLoaded ==
    ASSUME rest \in Words, rest \notin Carry, LoadWord
    PROVE  reg' = rest
<1>1. PICK P \in Int, N \in Int, R \in Int, H \in Int, W \in Int, M \in Int,
           T \in Int, B \in Int :
         /\ P = Pow2[ImmBits] /\ N = Pow2[WordBits - ImmBits]
         /\ R = Pow2[WordBits - ImmBits - 1] /\ H = Pow2[WordBits - 1]
         /\ W = Pow2[WordBits] /\ M = Pow2[Width] /\ T = Pow2[Width - 1] /\ B = Bias
         /\ P > 0 /\ N > 0 /\ R > 0 /\ H > 0 /\ W > 0 /\ M > 0 /\ B > 0
         /\ W = P * N /\ H = P * R /\ W = 2 * H /\ M = 2 * T /\ H <= T /\ P = 2 * B
  <2>1. /\ ImmBits \in Nat /\ WordBits \in Nat /\ WordBits - 1 \in Nat
        /\ Width - 1 \in Nat
        /\ ImmBits <= WordBits /\ ImmBits <= WordBits - 1 /\ WordBits - 1 <= Width - 1
        /\ (WordBits - 1) - ImmBits = WordBits - ImmBits - 1
        /\ WordBits - ImmBits \in Nat /\ WordBits - ImmBits - 1 \in Nat
    BY Widths
  <2>2. /\ Pow2[ImmBits] \in Nat \ {0} /\ Pow2[WordBits - ImmBits] \in Nat \ {0}
        /\ Pow2[WordBits - ImmBits - 1] \in Nat \ {0}
    BY <2>1, Pow2Type
  <2>3. /\ Pow2[WordBits] = Pow2[ImmBits] * Pow2[WordBits - ImmBits]
        /\ Pow2[WordBits - 1] = Pow2[ImmBits] * Pow2[WordBits - ImmBits - 1]
        /\ Pow2[WordBits - 1] <= Pow2[Width - 1]
    BY <2>1, Pow2Divides
  <2>4. /\ Pow2[WordBits] = 2 * Pow2[WordBits - 1] /\ Pow2[WordBits - 1] \in Nat \ {0}
        /\ Pow2[WordBits] \in Nat \ {0}
        /\ Pow2[ImmBits] = 2 * Bias /\ Bias \in Nat \ {0}
        /\ Pow2[Width] = 2 * Pow2[Width - 1] /\ Pow2[Width] \in Nat \ {0}
        /\ Pow2[Width - 1] \in Nat
    BY Widths, Halves DEF Bias
  <2>5. PICK P \in Int, N \in Int, R \in Int :
           P = Pow2[ImmBits] /\ N = Pow2[WordBits - ImmBits]
           /\ R = Pow2[WordBits - ImmBits - 1]
    BY <2>2
  <2>6. PICK H \in Int, W \in Int, M \in Int, T \in Int, B \in Int :
           /\ H = Pow2[WordBits - 1] /\ W = Pow2[WordBits] /\ M = Pow2[Width]
           /\ T = Pow2[Width - 1] /\ B = Bias
    BY <2>4
  <2>7. P > 0 /\ N > 0 /\ R > 0 /\ H > 0 /\ W > 0 /\ M > 0 /\ B > 0
    BY <2>2, <2>4, <2>5, <2>6
  <2>8. W = P * N /\ H = P * R /\ W = 2 * H /\ M = 2 * T /\ H <= T /\ P = 2 * B
    BY <2>3, <2>4, <2>5, <2>6
  <2> QED BY <2>5, <2>6, <2>7, <2>8
<1>2. P \in Nat \ {0} /\ N \in Nat \ {0} /\ M \in Nat \ {0}
  BY <1>1
<1> DEFINE upper == Upper(Signed(rest, Width)) % N
<1>3. /\ IsWord(rest)
      /\ reg' = Wrapped(Lui(upper) + Signed(rest % P, ImmBits))
  BY <1>1 DEF LoadWord
<1>4. PICK x \in Int : x = rest
  BY WordIs
<1>5. PICK s \in Int : /\ s \in -H..(H - 1) /\ s \in -T..(T - 1)
                       /\ s = Signed(x, WordBits) /\ x = Wrapped(s)
  <2>1. Signed(x, WordBits) \in -H..(H - 1)
    BY <1>1, Widths, SignedIs
  <2>2. Signed(x, WordBits) \in Int /\ Signed(x, WordBits) \in -T..(T - 1)
    BY <1>1, <2>1
  <2> QED BY <1>3, <1>4, <2>1, <2>2 DEF IsWord
<1>6. PICK k \in Int : s = M * k + x
  BY <1>1, <1>5, WrappedIs
<1>7. Signed(x, Width) = s
  <2>1. PICK j \in Int : j = -k
    OBVIOUS
  <2>2. x = M * j + s
    BY <1>6, <2>1
  <2>3. s \in -(Pow2[Width - 1])..(Pow2[Width - 1] - 1)
    BY <1>1, <1>5
  <2>4. x = Pow2[Width] * j + s
    BY <1>1, <2>2
  <2> QED BY <2>3, <2>4, Widths, SignedUnique
<1>8. PICK u \in Int, l \in Int :
         /\ u = Upper(s) /\ l = Signed(s, ImmBits)
         /\ s = P * u + l /\ l \in -B..(B - 1)
  <2>1. Signed(s, ImmBits) \in Int
    BY UpperIs
  <2> QED BY <1>1, <2>1, UpperIs
<1>9. PICK q \in Int, r \in Int : r = upper /\ u = N * q + r
  <2>1. u = N * (u \div N) + (u % N) /\ u \div N \in Int /\ u % N \in 0..(N - 1)
    BY <1>2, Division
  <2>2. u % N \in Int
    BY <2>1
  <2> QED BY <1>4, <1>7, <1>8, <2>1, <2>2
<1>10. s < H - B
  <2>1. SUFFICES ASSUME s >= H - B PROVE FALSE
    BY <1>1, <1>5
  <2>2. H - B >= 0
    <3>1. R >= 1
      BY <1>1
    <3>2. P * 1 <= P * R
      BY <1>2, <3>1, Products
    <3> QED BY <1>1, <3>2
  <2>3. s \in 0..(M - 1)
    BY <1>1, <1>5, <2>1, <2>2
  <2>4. x = s
    BY <1>1, <1>5, <2>3, WrappedSame
  <2>5. x \in (H - B)..(H - 1)
    BY <1>5, <2>1, <2>4
  <2> QED BY <1>1, <1>4, <2>5 DEF Carry
<1>11. PICK b \in Int : b = P * u /\ b \in -H..(H - 1)
  <2>1. P * u \in Int /\ P * u < H
    BY <1>1, <1>8, <1>10
  <2>2. PICK a \in Int : a = -R /\ -a = R
    OBVIOUS
  <2>3. P * a = -H
    BY <1>1, <2>2
  <2>4. ~(u < a)
    <3>1. SUFFICES ASSUME u < a PROVE FALSE
      OBVIOUS
    <3>2. P * u + P <= P * a
      BY <1>2, <3>1, Products
    <3>3. s < -H
      BY <1>1, <1>8, <2>3, <3>2
    <3> QED BY <1>5, <3>3
  <2>5. P * a <= P * u
    BY <1>2, <2>2, <2>4, Products
  <2> QED BY <2>1, <2>3, <2>5
<1>12. Signed(upper * P, WordBits) = b
  <2>1. PICK j \in Int, y \in Int : j = -q /\ y = r * P
    OBVIOUS
  <2>2. r * P = (P * N) * (-q) + P * u
    BY <1>9, UpperTruncates
  <2>3. y = W * j + b
    BY <1>1, <1>11, <2>1, <2>2
  <2>4. b \in -(Pow2[WordBits - 1])..(Pow2[WordBits - 1] - 1) /\ y = Pow2[WordBits] * j + b
    BY <1>1, <1>11, <2>3
  <2>5. Signed(y, WordBits) = b
    BY <2>4, Widths, SignedUnique
  <2> QED BY <1>9, <2>1, <2>5
<1>13. PICK j \in Int, e \in Int : e = Wrapped(b) /\ b = M * j + e
  <2>1. Wrapped(b) \in 0..(M - 1)
    BY <1>1, WrappedIs
  <2>2. Wrapped(b) \in Int
    BY <2>1
  <2> QED BY <1>1, <2>2, WrappedIs
<1>14. Signed(rest % P, ImmBits) = l
  <2>1. Signed(x % P, ImmBits) = Signed(x, ImmBits)
    BY <1>1, Widths, SignedOfLow
  <2>2. PICK K \in Int : M = P * K
    <3>1. /\ ImmBits \in Nat /\ Width \in Nat /\ ImmBits <= Width
          /\ Width - ImmBits \in Nat
      BY Widths
    <3>2. Pow2[Width] = Pow2[ImmBits] * Pow2[Width - ImmBits]
          /\ Pow2[Width - ImmBits] \in Nat \ {0}
      BY <3>1, Pow2Divides, Pow2Type
    <3>3. Pow2[Width - ImmBits] \in Int
      BY <3>2
    <3> QED BY <1>1, <3>2, <3>3
  <2>3. PICK i \in Int : i = u - K * k
    OBVIOUS
  <2>4. x = P * i + l
    <3>1. M * k = P * (K * k)
      BY <2>2
    <3>2. P * i = P * u - P * (K * k)
      BY <2>3
    <3>3. s = P * u + l
      BY <1>8
    <3> QED BY <1>6, <3>1, <3>2, <3>3
  <2>5. l \in -(Pow2[ImmBits - 1])..(Pow2[ImmBits - 1] - 1) /\ x = Pow2[ImmBits] * i + l
    BY <1>1, <1>8, <2>4 DEF Bias
  <2>6. Signed(x, ImmBits) = l
    BY <2>5, Widths, SignedUnique
  <2> QED BY <1>4, <2>1, <2>6
<1>15. reg' = Wrapped(e + l)
  BY <1>1, <1>3, <1>12, <1>13, <1>14 DEF Lui
<1>16. Wrapped(e + l) = Wrapped(s)
  <2>1. PICK y \in Int : y = e + l
    OBVIOUS
  <2>2. s = y + M * j
    <3>1. s = b + l
      BY <1>8, <1>11
    <3>2. b = M * j + e
      BY <1>13
    <3> QED BY <2>1, <3>1, <3>2
  <2>3. Wrapped(y + Pow2[Width] * j) = Wrapped(y)
    BY WrappedIs
  <2> QED BY <1>1, <2>1, <2>2, <2>3
<1> QED BY <1>4, <1>5, <1>15, <1>16

-----------------------------------------------------------------------------
(* The inductive invariant of generated code. *)

Parts == [shift : Nat, low : Nat]

\* first becomes last by the shifts and lower parts of s, one after another.
Builds(first, s, last) ==
    \E p \in [0..Len(s) -> Words] :
        /\ p[0] = first /\ p[Len(s)] = last
        /\ \A i \in 1..Len(s) :
              p[i] = Wrapped(p[i - 1] * Pow2[s[i].shift] + Signed(s[i].low, ImmBits))

GeneratedOK ==
    /\ stage \in {"split", "combine", "loaded", "jump", "landed", "none"}
    /\ value \in Words /\ rest \in Words /\ far \in BOOLEAN
    /\ shifts \in Seq(Parts)
    /\ insts \in Nat

\* What is still to be loaded builds the constant.
Building ==
    /\ stage = "split" => Builds(rest, shifts, value)
    /\ stage = "combine" => /\ shifts # <<>>
                            /\ rest \notin Carry => Builds(reg, shifts, value)

OneOrTwo == stage = "landed" => (insts = 1 \/ (insts = 2 /\ far))

GenInv == GeneratedOK /\ Building /\ OneOrTwo /\ LoadsUnlessCarry /\ JumpsArrive

LEMMA BuildsNothing ==
    ASSUME NEW v \in Words
    PROVE  Builds(v, <<>>, v)
<1> DEFINE p == [i \in 0..0 |-> v]
<1>1. Len(<<>>) = 0 /\ p \in [0..0 -> Words] /\ p[0] = v
  OBVIOUS
<1>2. 1..0 = {}
  OBVIOUS
<1> HIDE DEF p
<1> QED BY <1>1, <1>2 DEF Builds

LEMMA BuildsMore ==
    ASSUME NEW f \in Words, NEW g, NEW s \in Seq(Parts), NEW v,
           NEW n \in Nat, NEW l \in Nat,
           Builds(g, s, v), g = Wrapped(f * Pow2[n] + Signed(l, ImmBits))
    PROVE  /\ Builds(f, <<[shift |-> n, low |-> l]>> \o s, v)
           /\ <<[shift |-> n, low |-> l]>> \o s \in Seq(Parts)
<1> DEFINE part == [shift |-> n, low |-> l]
           t == <<part>> \o s
<1>1. PICK k \in Nat : k = Len(s)
  OBVIOUS
<1>2. PICK p \in [0..k -> Words] :
         /\ p[0] = g /\ p[k] = v
         /\ \A i \in 1..k :
               p[i] = Wrapped(p[i - 1] * Pow2[s[i].shift] + Signed(s[i].low, ImmBits))
  BY <1>1 DEF Builds
<1>3. part \in Parts /\ <<part>> \in Seq(Parts)
  BY DEF Parts
<1>4. /\ t \in Seq(Parts) /\ Len(t) = k + 1
      /\ t[1] = part
      /\ \A i \in 2..(k + 1) : t[i] = s[i - 1]
  <2> HIDE DEF part
  <2> QED BY <1>1, <1>3
<1> DEFINE q == [i \in 0..(k + 1) |-> IF i = 0 THEN f ELSE p[i - 1]]
<1>5. q \in [0..(k + 1) -> Words] /\ q[0] = f /\ q[k + 1] = v
  BY <1>1, <1>2
<1>6. ASSUME NEW i \in 1..(k + 1)
      PROVE  q[i] = Wrapped(q[i - 1] * Pow2[t[i].shift] + Signed(t[i].low, ImmBits))
  <2> HIDE DEF t
  <2>1. CASE i = 1
    <3>1. q[i] = g /\ q[i - 1] = f
      BY <1>1, <1>2, <2>1
    <3>2. t[i].shift = n /\ t[i].low = l
      BY <1>4, <2>1
    <3> QED BY <3>1, <3>2
  <2>2. CASE i # 1
    <3>1. PICK j \in 1..k : j = i - 1
      BY <1>1, <2>2
    <3>2. q[i] = p[j] /\ q[i - 1] = p[j - 1] /\ t[i] = s[j]
      BY <1>1, <1>4, <2>2, <3>1
    <3> QED BY <1>2, <3>2
  <2> QED BY <2>1, <2>2
<1> HIDE DEF q, t
<1>7. Builds(f, t, v)
  BY <1>4, <1>5, <1>6 DEF Builds
<1> QED BY <1>4, <1>7 DEF t

LEMMA BuildsLess ==
    ASSUME NEW f, NEW s \in Seq(Parts), NEW v, s # <<>>, Builds(f, s, v)
    PROVE  /\ Builds(Wrapped(f * Pow2[Head(s).shift] + Signed(Head(s).low, ImmBits)),
                     Tail(s), v)
           /\ Tail(s) \in Seq(Parts)
           /\ Wrapped(f * Pow2[Head(s).shift] + Signed(Head(s).low, ImmBits)) \in Words
<1>1. PICK k \in Nat : Len(s) = k + 1
  <2>1. Len(s) \in Nat /\ Len(s) # 0
    OBVIOUS
  <2> QED BY <2>1
<1>2. PICK p \in [0..(k + 1) -> Words] :
         /\ p[0] = f /\ p[k + 1] = v
         /\ \A i \in 1..(k + 1) :
               p[i] = Wrapped(p[i - 1] * Pow2[s[i].shift] + Signed(s[i].low, ImmBits))
  BY <1>1 DEF Builds
<1>3. /\ Tail(s) \in Seq(Parts) /\ Len(Tail(s)) = k
      /\ \A i \in 1..k : Tail(s)[i] = s[i + 1]
      /\ Head(s) = s[1]
  BY <1>1
<1> DEFINE q == [i \in 0..k |-> p[i + 1]]
           g == Wrapped(f * Pow2[Head(s).shift] + Signed(Head(s).low, ImmBits))
<1>4. q \in [0..k -> Words] /\ q[0] = p[1] /\ q[k] = v
  BY <1>2
<1>5. p[1] = g
  <2>1. 1 \in 1..(k + 1) /\ 1 - 1 = 0
    OBVIOUS
  <2> QED BY <1>2, <1>3, <2>1
<1>6. ASSUME NEW i \in 1..k
      PROVE  q[i] = Wrapped(q[i - 1] * Pow2[Tail(s)[i].shift] + Signed(Tail(s)[i].low, ImmBits))
  <2>1. PICK j \in 1..(k + 1) : j = i + 1
    OBVIOUS
  <2>2. q[i] = p[j] /\ q[i - 1] = p[j - 1] /\ Tail(s)[i] = s[j]
    BY <1>3, <2>1
  <2> QED BY <1>2, <2>2
<1>7. g \in Words
  <2>1. 1 \in 0..(k + 1)
    OBVIOUS
  <2>2. p[1] \in Words
    BY <1>2, <2>1
  <2> QED BY <1>5, <2>2
<1> HIDE DEF q, g
<1>8. Builds(g, Tail(s), v)
  BY <1>3, <1>4, <1>5, <1>6 DEF Builds
<1> QED BY <1>3, <1>7, <1>8 DEF g

\* What there is to build first is the constant once no part is left.
LEMMA Built ==
    ASSUME NEW f, NEW s, NEW v, Builds(f, s, v), Len(s) = 0
    PROVE  f = v
BY DEF Builds

LEMMA GenUnchanged ==
    ASSUME GenInv, UNCHANGED generated
    PROVE  GenInv'
BY DEF GenInv, GeneratedOK, Building, OneOrTwo, LoadsUnlessCarry, JumpsArrive,
       Offset, generated

LEMMA SplitOffInv ==
    ASSUME GenInv, SplitOff
    PROVE  GenInv'
<1>1. /\ stage = "split" /\ UNCHANGED <<stage, value, far, reg, insts>>
      /\ rest \in Words /\ shifts \in Seq(Parts) /\ Builds(rest, shifts, value)
  BY DEF SplitOff, GenInv, GeneratedOK, Building
<1>2. PICK n \in Nat, l \in Nat :
         /\ rest' \in Words
         /\ shifts' = <<[shift |-> n, low |-> l]>> \o shifts
         /\ rest = Wrapped(rest' * Pow2[n] + Signed(l, ImmBits))
  BY <1>1, SplitRestores
<1>3. PICK f \in Words : f = rest'
  BY <1>2
<1>4. /\ Builds(f, <<[shift |-> n, low |-> l]>> \o shifts, value)
      /\ <<[shift |-> n, low |-> l]>> \o shifts \in Seq(Parts)
  BY <1>1, <1>2, <1>3, BuildsMore
<1>5. Builds(rest', shifts', value') /\ shifts' \in Seq(Parts)
  BY <1>1, <1>2, <1>3, <1>4
<1>6. Building'
  BY <1>1, <1>5 DEF Building
<1>7. GeneratedOK'
  BY <1>1, <1>2, <1>5 DEF GenInv, GeneratedOK
<1> QED BY <1>1, <1>6, <1>7 DEF GenInv, OneOrTwo, LoadsUnlessCarry, JumpsArrive

LEMMA LoadWordInv ==
    ASSUME GenInv, LoadWord
    PROVE  GenInv'
<1>1. /\ stage = "split" /\ UNCHANGED <<value, rest, far, shifts>>
      /\ stage' = IF shifts = <<>> THEN "loaded" ELSE "combine"
      /\ insts' \in {1, 2}
      /\ rest \in Words /\ shifts \in Seq(Parts) /\ Builds(rest, shifts, value)
  BY DEF LoadWord, GenInv, GeneratedOK, Building
<1>2. rest \notin Carry => reg' = rest
  BY <1>1, WordLoaded
<1>3. rest \notin Carry => Builds(reg', shifts', value')
  BY <1>1, <1>2
<1>4. Building'
  BY <1>1, <1>3 DEF Building
<1>5. LoadsUnlessCarry'
  <2>1. ASSUME shifts = <<>>, rest \notin Carry PROVE reg' = value'
    <3>1. Len(shifts) = 0
      BY <2>1
    <3>2. rest = value
      BY <1>1, <3>1, Built
    <3> QED BY <1>1, <1>2, <2>1, <3>2
  <2>2. Carry' = Carry
    BY DEF Carry
  <2> QED BY <1>1, <2>1, <2>2 DEF LoadsUnlessCarry
<1>6. GeneratedOK'
  BY <1>1 DEF GenInv, GeneratedOK
<1> QED BY <1>1, <1>4, <1>5, <1>6 DEF GenInv, OneOrTwo, JumpsArrive

LEMMA CombineInv ==
    ASSUME GenInv, Combine
    PROVE  GenInv'
<1> DEFINE g == Wrapped(reg * Pow2[Head(shifts).shift] + Signed(Head(shifts).low, ImmBits))
<1>1. /\ stage = "combine" /\ UNCHANGED <<value, rest, far>>
      /\ stage' = IF Len(shifts) = 1 THEN "loaded" ELSE "combine"
      /\ reg' = g /\ shifts' = Tail(shifts)
      /\ insts' \in Nat
      /\ shifts \in Seq(Parts) /\ shifts # <<>>
      /\ rest \notin Carry => Builds(reg, shifts, value)
  BY DEF Combine, GenInv, GeneratedOK, Building
<1>2. rest \notin Carry => Builds(reg', shifts', value')
  BY <1>1, BuildsLess
<1>3. shifts' \in Seq(Parts) /\ Len(shifts') = Len(shifts) - 1 /\ Len(shifts) \in Nat
  BY <1>1
<1>4. Building'
  <2>1. ASSUME stage' = "combine" PROVE shifts' # <<>>
    <3>1. Len(shifts') # 0
      BY <1>1, <1>3, <2>1
    <3> QED BY <3>1
  <2>2. Carry' = Carry
    BY DEF Carry
  <2> QED BY <1>1, <1>2, <2>1, <2>2 DEF Building
<1>5. LoadsUnlessCarry'
  <2>1. ASSUME stage' = "loaded", rest \notin Carry PROVE reg' = value'
    <3>1. Len(shifts') = 0
      BY <1>1, <1>3, <2>1
    <3> QED BY <1>2, <2>1, <3>1, Built
  <2>2. Carry' = Carry
    BY DEF Carry
  <2> QED BY <1>1, <2>1, <2>2 DEF LoadsUnlessCarry
<1>6. GeneratedOK'
  BY <1>1, <1>3 DEF GenInv, GeneratedOK
<1> QED BY <1>1, <1>4, <1>5, <1>6 DEF GenInv, OneOrTwo, JumpsArrive

LEMMA JumpInv ==
    ASSUME GenInv, JumpNear \/ JumpFar \/ NoJump
    PROVE  GenInv'
<1>1. /\ stage = "jump" /\ stage' \in {"landed", "none"}
      /\ UNCHANGED <<value, rest, far, shifts>>
      /\ value \in Words /\ rest \in Words
  BY DEF JumpNear, JumpFar, NoJump, GenInv, GeneratedOK
<1>2. stage' = "landed" => /\ reg' = rest
                           /\ insts' = 1 \/ (insts' = 2 /\ far)
  <2>1. CASE JumpNear
    BY <1>1, <2>1, JumpNearArrives DEF JumpNear
  <2>2. CASE JumpFar
    BY <1>1, <2>2, JumpFarArrives DEF JumpFar
  <2>3. CASE NoJump
    BY <2>3 DEF NoJump
  <2> QED BY <2>1, <2>2, <2>3
<1>3. (stage' = "none" /\ far) => \/ Offset >= Pow2[WordBits - 1] - Bias
                                  \/ Offset < -(Pow2[WordBits - 1]) - Bias
  BY <1>1, NoJumpBeyond DEF JumpNear, JumpFar, NoJump
<1>4. JumpsArrive' /\ OneOrTwo'
  BY <1>1, <1>2, <1>3 DEF JumpsArrive, OneOrTwo, Offset
<1>5. GeneratedOK'
  BY <1>1 DEF GenInv, GeneratedOK, JumpNear, JumpFar, NoJump
<1> QED BY <1>1, <1>4, <1>5 DEF GenInv, Building, LoadsUnlessCarry

LEMMA GenerateInv ==
    ASSUME GenInv, Generate
    PROVE  GenInv'
BY SplitOffInv, LoadWordInv, CombineInv, JumpInv DEF Generate

-----------------------------------------------------------------------------
(* What the sweep over the section finds does not overlap. *)

Behind(h) == h + size[h] \div 2

LEMMA SweptPrecedents ==
    ASSUME size \in [Code -> {2, 4}]
    PROVE  /\ Swept \subseteq Code
           /\ \A h \in Swept : h = 0 \/ \E p \in Swept : Behind(p) = h
<1> DEFINE F == [s \in SUBSET Nat |-> s \cup {h + size[h] \div 2 : h \in s \cap Code}]
           Is(f) == f = [n \in Nat |->
                           IF n = 0 THEN {0}
                           ELSE LET s == f[n - 1]
                                IN  s \cup {h + size[h] \div 2 : h \in s \cap Code}]
           up == CHOOSE f : Is(f)
<1>1. \A h \in Code : h \in Nat /\ size[h] \div 2 \in {1, 2} /\ h + size[h] \div 2 \in Nat
  BY ProgramAssumption DEF Code
<1>2. F \in [SUBSET Nat -> SUBSET Nat]
  BY <1>1
<1>3. PICK z \in SUBSET Nat : z = {0}
  <2>1. {0} \in SUBSET Nat
    OBVIOUS
  <2> HIDE DEF F, Is, up
  <2> QED BY <2>1
<1>4. PICK f \in [Nat -> SUBSET Nat] : Repeats(f, F, z)
  <2> HIDE DEF F
  <2> QED BY <1>2, <1>3, Iterates
<1>5. Is(f)
  <2>1. ASSUME NEW n \in Nat
        PROVE  f[n] = IF n = 0 THEN {0}
                      ELSE LET s == f[n - 1]
                           IN  s \cup {h + size[h] \div 2 : h \in s \cap Code}
    <3>1. CASE n = 0
      BY <1>3, <1>4, <3>1 DEF Repeats
    <3>2. CASE n # 0
      <4>1. n - 1 \in Nat /\ (n - 1) + 1 = n
        BY <3>2
      <4>2. f[n - 1] \in SUBSET Nat /\ f[(n - 1) + 1] = F[f[n - 1]]
        BY <1>4, <4>1 DEF Repeats
      <4> QED BY <3>2, <4>1, <4>2
    <3> QED BY <3>1, <3>2
  <2>2. f = [n \in Nat |-> f[n]]
    BY <1>4
  <2> QED BY <2>1, <2>2
<1>6. Is(up)
  <2> HIDE DEF Is
  <2> QED BY <1>5
<1>7. /\ up[0] = {0}
      /\ \A n \in Nat : n # 0 =>
            up[n] = up[n - 1] \cup {Behind(h) : h \in up[n - 1] \cap Code}
  <2> HIDE DEF up
  <2> QED BY <1>6 DEF Behind
<1>8. Swept = up[Halfwords] \cap Code
  BY DEF Swept
<1> HIDE DEF up, Is, F
<1> DEFINE Fine(n) == \A h \in up[n] : h = 0 \/ \E p \in up[n] \cap Code : Behind(p) = h
           Bad == {n \in Nat : ~Fine(n)}
<1>9. Bad = {}
  <2>1. SUFFICES ASSUME Bad # {} PROVE FALSE
    OBVIOUS
  <2>2. PICK m \in Bad : \A n \in Bad : m <= n
    <3>1. Bad \in SUBSET Nat
      OBVIOUS
    <3> HIDE DEF Bad
    <3> QED BY <2>1, <3>1, LeastNatural
  <2>3. m # 0
    BY <1>7, <2>2
  <2>4. m \in Nat /\ m - 1 \in Nat /\ ~(m <= m - 1)
    BY <2>2, <2>3
  <2>5. Fine(m - 1)
    BY <2>2, <2>4
  <2>6. up[m] = up[m - 1] \cup {Behind(h) : h \in up[m - 1] \cap Code}
    BY <1>7, <2>3, <2>4
  <2>7. Fine(m)
    BY <2>5, <2>6
  <2> QED BY <2>2, <2>7
<1>10. Halfwords \in Nat /\ Fine(Halfwords)
  <2>1. Halfwords \in Nat /\ Halfwords \notin Bad
    BY <1>9, ProgramAssumption
  <2> QED BY <2>1
<1> QED BY <1>8, <1>10

LEMMA SweptApart ==
    ASSUME size \in [Code -> {2, 4}], NEW g \in Swept, NEW h \in Swept, g < h
    PROVE  Behind(g) <= h
<1> DEFINE Over(x) == x \in Swept /\ \E y \in Swept : y < x /\ x < Behind(y)
           Bad == {x \in Nat : Over(x)}
<1>1. Swept \subseteq Nat /\ \A x \in Swept : size[x] \div 2 \in {1, 2}
  BY SweptPrecedents, ProgramAssumption DEF Code
<1>2. Bad = {}
  <2>1. SUFFICES ASSUME Bad # {} PROVE FALSE
    OBVIOUS
  <2>2. PICK x \in Bad : \A y \in Bad : x <= y
    <3>1. Bad \in SUBSET Nat
      OBVIOUS
    <3> HIDE DEF Bad
    <3> QED BY <2>1, <3>1, LeastNatural
  <2>3. x \in Nat /\ x \in Swept
    BY <2>2
  <2>4. PICK y \in Swept : y < x /\ x < Behind(y)
    BY <2>2
  <2>5. y \in Nat /\ Behind(y) = y + 2 /\ x = y + 1
    BY <1>1, <2>3, <2>4 DEF Behind
  <2>6. PICK p \in Swept : Behind(p) = x
    BY <2>3, <2>5, SweptPrecedents
  <2>7. p \in Nat /\ p # y /\ Behind(p) \in {p + 1, p + 2}
    BY <1>1, <2>5, <2>6 DEF Behind
  <2>8. p < y /\ y < Behind(p)
    BY <2>5, <2>6, <2>7
  <2>9. y \in Bad
    BY <2>5, <2>8
  <2> QED BY <2>2, <2>3, <2>5, <2>9
<1>3. g \in Nat /\ h \in Nat /\ Behind(g) \in Nat
  BY <1>1 DEF Behind
<1>4. h \notin Bad
  BY <1>2
<1> QED BY <1>3, <1>4

-----------------------------------------------------------------------------
(* The inductive invariant of an edit and of the run of what it leaves. *)

Edited ==
    /\ op \in {"none", "suffix", "prefix", "nop"}
    /\ phase \in {"encode", "nops", "run", "reached", "lost", "panic"}
    /\ op = "none" => phase = "encode"
    /\ op # "none" => /\ size \in [Code -> {2, 4}]
                      /\ trace \in Traces
                      /\ \A h \in Executed : Footprint(h) \subseteq Code
    /\ op = "suffix" => SuffixCandidate(cand) /\ ~far
    /\ op = "prefix" => PrefixCandidate(cand)

\* Where NOPs have been written once place k is next.
SuffixNops(k) ==
    UNION {Footprint(trace[j]) : j \in {i \in cand + 1..k - 1 : SkippedBySuffix(i)}}

PrefixNops(k) ==
    UNION {Footprint(trace[j]) : j \in {i \in 2..k - 1 : SkippedByPrefix(i)}}

Jump(h) == h..h + 2 * insts - 1

JumpPart(h, x) == <<"jump", x - h + 1, 2 * insts>>

\* NOPs lie on the jump over a candidate, and under the one over the entry.
SuffixLaid(k) ==
    \A x \in Image :
        IF x \in SuffixNops(k) THEN patch[x][1] = "nop"
        ELSE IF x \in Jump(trace[cand]) THEN patch[x] = JumpPart(trace[cand], x)
        ELSE patch[x] = Kept

PrefixNopped(k) ==
    \A x \in Image :
        IF x \in PrefixNops(k) THEN patch[x][1] = "nop" ELSE patch[x] = Kept

PrefixLaid ==
    \A x \in Image :
        IF x \in Jump(trace[1]) THEN patch[x] = JumpPart(trace[1], x)
        ELSE IF x \in PrefixNops(cand) THEN patch[x][1] = "nop"
        ELSE patch[x] = Kept

\* Before the candidate, or at the failure behind the jump.
SuffixPlace ==
    \/ at \in 1..cand /\ steps = at - 1
    \/ at = Failure /\ steps = cand

\* A run that meets the damaged neighbour of the candidate stops there.
SuffixRun ==
    /\ stage = "landed"
    /\ SuffixLaid(Failure)
    /\ SuffixPlace
    /\ JumpCollides =>
          at <= cand /\ \A j \in 1..at - 1 : trace[j] # trace[cand] + 1

SuffixInv ==
    op = "suffix" =>
        /\ phase = "encode" => steps = 0 /\ \A x \in Image : patch[x] = Kept
        /\ phase = "nops" => /\ stage = "landed" /\ steps = 0
                             /\ at \in cand + 1..Failure
                             /\ SuffixLaid(at)
        /\ phase = "run" => SuffixRun
        /\ phase = "reached" => steps = Budget /\ ~JumpCollides
        /\ (phase = "lost" /\ Separate) => JumpCollides

\* The jump over the entry covers a part of what is executed at place j.
Hits(j) == Footprint(trace[j]) \cap Jump(trace[1]) # {}

\* At the entry, or between the candidate and the failure; the entry itself
\* may be met again there.
PrefixPlace ==
    \/ at = 1 /\ steps = 0
    \/ /\ at \in cand..Failure
       /\ steps \in Nat
       /\ \/ steps = insts + ContextInsts + (at - cand)
          \/ \E j \in cand..Failure : trace[j] = trace[1]

PrefixRun ==
    /\ stage = "landed"
    /\ PrefixLaid
    /\ PrefixPlace
    /\ \A j \in cand..Failure : Hits(j) => at <= j

PrefixInv ==
    op = "prefix" =>
        /\ phase = "nops" => /\ at \in Nat /\ at + 2 <= cand /\ steps = 0
                             /\ PrefixNopped(at + 2)
        /\ phase = "encode" => steps = 0 /\ PrefixNopped(cand)
        /\ phase = "run" => PrefixRun
        /\ phase = "reached" => steps = Budget /\ ~JumpCollides
        /\ (phase = "lost" /\ Separate) => JumpCollides

\* What the sweep meets and nobody executes.
NopInv ==
    op = "nop" =>
        /\ phase # "encode"
        /\ phase = "nops" => steps = 0 /\ \A x \in Image : patch[x] = Kept
        /\ phase \in {"run", "reached", "lost"} =>
              \A x \in Image :
                  \/ patch[x] = Kept
                  \/ \E h \in Swept \ KeptByWindow : x \in Footprint(h)
        /\ phase = "run" => at \in 1..Failure /\ steps = at - 1
        /\ phase = "reached" => steps = Failure
        /\ phase = "lost" => ~Separate

IInv == GenInv /\ Edited /\ SuffixInv /\ PrefixInv /\ NopInv

LEMMA TraceIs ==
    ASSUME Edited, op # "none"
    PROVE  /\ Failure \in Nat /\ Failure > 1
           /\ Executed = {trace[j] : j \in 1..Failure}
           /\ \A j \in 1..Failure : trace[j] \in Code
           /\ size \in [Code -> {2, 4}]
<1>1. PICK n \in 2..MaxTrace : trace \in [1..n -> Code]
  BY DEF Edited, Traces
<1>2. n \in Nat /\ n > 1
  BY <1>1
<1>3. trace \in Seq(Code) /\ Len(trace) = n /\ DOMAIN trace = 1..n
  BY <1>1, <1>2
<1> QED BY <1>1, <1>2, <1>3 DEF Failure, Executed, ToSet, Edited

\* What is executed has a footprint of one or two halfwords in the section.
LEMMA FootprintIs ==
    ASSUME Edited, op # "none", NEW h \in Executed
    PROVE  /\ h \in Nat /\ h < Halfwords
           /\ Footprint(h) \subseteq Code /\ Footprint(h) \subseteq Image
           /\ size[h] = 2 => Footprint(h) = {h}
           /\ size[h] = 4 => Footprint(h) = {h, h + 1}
           /\ size[h] \in {2, 4}
<1>1. h \in Code /\ size[h] \in {2, 4}
  BY TraceIs
<1>2. h \in Nat /\ h < Halfwords /\ Halfwords \in Nat
  BY <1>1, ProgramAssumption DEF Code
<1>3. Footprint(h) \subseteq Code
  BY DEF Edited
<1>4. Code \subseteq Image
  BY ProgramAssumption DEF Code, Image
<1>5. /\ size[h] = 2 => Footprint(h) = {h}
      /\ size[h] = 4 => Footprint(h) = {h, h + 1}
  BY <1>2 DEF Footprint
<1> QED BY <1>1, <1>2, <1>3, <1>4, <1>5

LEMMA Tags ==
    /\ \A v : v[1] = "nop" => v # Kept /\ \A h, x : v # JumpPart(h, x)
    /\ \A h, x : JumpPart(h, x) # Kept
    /\ \A h, x, i, n : JumpPart(h, x) = <<"jump", i, n>> => x - h + 1 = i
<1>1. Kept[1] = "kept" /\ \A h, x : JumpPart(h, x)[1] = "jump"
  BY DEF Kept, JumpPart
<1>2. \A h, x, i, n : JumpPart(h, x) = <<"jump", i, n>> => x - h + 1 = i
  BY DEF JumpPart
<1>3. "nop" # "kept" /\ "nop" # "jump" /\ "kept" # "jump"
  OBVIOUS
<1> QED BY <1>1, <1>2, <1>3

\* Nothing of what is read while running changes.
LEMMA Same ==
    ASSUME UNCHANGED <<generated, op, size, trace, cand, patch>>
    PROVE  /\ SuffixLaid(Failure)' <=> SuffixLaid(Failure)
           /\ PrefixLaid' <=> PrefixLaid
           /\ JumpCollides' <=> JumpCollides
           /\ Separate' <=> Separate
           /\ Budget' = Budget
           /\ Failure' = Failure
           /\ \A j : Hits(j)' <=> Hits(j)
           /\ Edited /\ phase' \in {"run", "reached", "lost"} /\ op # "none" => Edited'
           /\ GenInv => GenInv'
<1>1. SuffixLaid(Failure)' <=> SuffixLaid(Failure)
  BY DEF SuffixLaid, SuffixNops, SkippedBySuffix, Visited, Footprint, Jump, JumpPart, Failure, generated
<1>2. PrefixLaid' <=> PrefixLaid
  BY DEF PrefixLaid, PrefixNops, SkippedByPrefix, Visited, Footprint, Jump, JumpPart, Failure, generated
<1>3. JumpCollides' <=> JumpCollides
  BY DEF JumpCollides, Visited, Footprint, Executed, Failure, generated
<1>4. Separate' <=> Separate
  <2>1. Swept' = Swept
    BY DEF Swept
  <2> QED BY <2>1 DEF Separate, Footprint, Executed
<1>5. Budget' = Budget /\ Failure' = Failure
  BY DEF Budget, Failure, generated
<1>6. \A j : Hits(j)' <=> Hits(j)
  BY DEF Hits, Footprint, Jump, generated
<1>7. Edited /\ phase' \in {"run", "reached", "lost"} /\ op # "none" => Edited'
  BY DEF Edited, Executed, Footprint, SuffixCandidate, PrefixCandidate, IsFirstVisit, Failure, generated
<1>8. GenInv => GenInv'
  BY GenUnchanged
<1> QED BY <1>1, <1>2, <1>3, <1>4, <1>5, <1>6, <1>7, <1>8

\* The candidate's jump is one instruction, apart from the failure.
LEMMA SuffixIs ==
    ASSUME Edited, op = "suffix"
    PROVE  /\ cand \in 1..Failure /\ cand + 1 \in 1..Failure
           /\ cand \in Nat /\ Failure \in Nat /\ cand < Failure
           /\ trace[cand] \in Nat /\ trace[cand] \in Executed
           /\ trace[Failure] \in Executed
           /\ trace[cand] # trace[Failure] /\ trace[cand] + 1 # trace[Failure]
           /\ \A j \in 1..cand - 1 : trace[j] # trace[cand]
           /\ GenInv /\ stage = "landed" => insts = 1
           /\ GenInv /\ stage = "landed" => /\ Jump(trace[cand]) = {trace[cand], trace[cand] + 1}
                                            /\ reg = rest
           /\ trace[cand] \in Image /\ trace[cand] + 1 \in Image
<1>1. /\ cand \in 1..Failure /\ trace[cand] # trace[Failure] /\ trace[cand] + 1 # trace[Failure]
      /\ \A j \in 1..cand - 1 : trace[j] # trace[cand]
      /\ far = FALSE \/ ~far
  BY DEF Edited, SuffixCandidate, IsFirstVisit
<1>2. /\ Failure \in Nat /\ Executed = {trace[j] : j \in 1..Failure}
      /\ \A j \in 1..Failure : trace[j] \in Code
  BY TraceIs
<1>3. cand \in Nat /\ cand # Failure /\ cand < Failure /\ cand + 1 \in 1..Failure /\ Failure \in 1..Failure
  BY <1>1, <1>2
<1>4. trace[cand] \in Code /\ trace[cand] \in Executed /\ trace[Failure] \in Executed
  BY <1>1, <1>2, <1>3
<1>5. trace[cand] \in Nat /\ trace[cand] \in Image /\ trace[cand] + 1 \in Image
  BY <1>4, ProgramAssumption DEF Code, Image
<1>6. GenInv /\ stage = "landed" => insts = 1 /\ reg = rest
  BY DEF GenInv, OneOrTwo, JumpsArrive, Edited
<1>7. insts = 1 => Jump(trace[cand]) = {trace[cand], trace[cand] + 1}
  BY <1>5 DEF Jump
<1> QED BY <1>1, <1>2, <1>3, <1>4, <1>5, <1>6, <1>7

LEMMA SuffixCollides ==
    ASSUME Edited, op = "suffix"
    PROVE  JumpCollides <=> size[trace[cand]] = 2 /\ trace[cand] + 1 \in Executed
BY DEF JumpCollides

\* A NOP lies within the footprint of something skipped, which neither the
\* prefix nor the candidate nor the failure is.
LEMMA SuffixNopIs ==
    ASSUME Edited, op = "suffix", NEW x \in SuffixNops(Failure)
    PROVE  \E h \in Executed : /\ x \in Footprint(h)
                               /\ h # trace[Failure]
                               /\ \A j \in 1..cand : h # trace[j]
<1>1. PICK j \in cand + 1..Failure - 1 : SkippedBySuffix(j) /\ x \in Footprint(trace[j])
  BY DEF SuffixNops
<1>2. j \in 1..Failure
  BY <1>1, SuffixIs
<1>3. trace[j] \in Executed
  BY <1>2, TraceIs
<1>4. trace[j] # trace[Failure] /\ \A i \in 1..cand : trace[j] # trace[i]
  BY <1>1 DEF SkippedBySuffix, Visited
<1> QED BY <1>1, <1>3, <1>4

\* The candidate's neighbour, if it is executed at all, is met before the
\* candidate or becomes a NOP.
LEMMA NeighbourNopped ==
    ASSUME Edited, op = "suffix", NEW h \in Executed, h # trace[Failure],
           \A j \in 1..cand : trace[j] # h
    PROVE  h \in SuffixNops(Failure)
<1> DEFINE At == {j \in Nat : j \in cand + 1..Failure - 1 /\ trace[j] = h}
<1>1. At # {}
  <2>1. PICK j \in 1..Failure : trace[j] = h
    BY TraceIs
  <2>2. ~(j \in 1..cand) /\ j # Failure
    BY <2>1
  <2>3. cand \in Nat /\ Failure \in Nat
    BY SuffixIs
  <2>4. j \in Nat /\ j \in cand + 1..Failure - 1
    BY <2>1, <2>2, <2>3
  <2> QED BY <2>1, <2>4
<1>2. PICK j \in At : \A i \in At : j <= i
  <2>1. At \in SUBSET Nat
    OBVIOUS
  <2> HIDE DEF At
  <2> QED BY <1>1, <2>1, LeastNatural
<1>3. j \in cand + 1..Failure - 1 /\ j \in Nat /\ trace[j] = h
  BY <1>2
<1>4. ASSUME NEW i \in cand + 1..j - 1, trace[i] = h PROVE FALSE
  <2>1. cand \in Nat /\ Failure \in Nat
    BY SuffixIs
  <2>2. i \in Nat /\ i \in cand + 1..Failure - 1 /\ ~(j <= i)
    BY <1>3, <2>1
  <2>3. i \in At
    BY <1>4, <2>2
  <2> QED BY <1>2, <2>2, <2>3
<1>5. SkippedBySuffix(j)
  BY <1>3, <1>4 DEF SkippedBySuffix, Visited
<1>6. h \in Footprint(h)
  BY FootprintIs
<1>7. h \in Footprint(trace[j])
  BY <1>3, <1>6
<1> QED BY <1>3, <1>5, <1>7 DEF SuffixNops

\* Only the candidate is a jump, and not if its neighbour is skipped.
LEMMA SuffixJumps ==
    ASSUME GenInv, Edited, op = "suffix", stage = "landed", SuffixLaid(Failure),
           NEW j \in 1..Failure, JumpAt(trace[j])
    PROVE  /\ trace[j] = trace[cand]
           /\ trace[cand] + 1 \notin SuffixNops(Failure)
<1>1. /\ insts = 1 /\ Jump(trace[cand]) = {trace[cand], trace[cand] + 1}
      /\ trace[cand] \in Nat
      /\ trace[cand] \in Image /\ trace[cand] + 1 \in Image
  BY SuffixIs
<1>2. PICK h \in Nat : h = trace[j] /\ h \in Image
  BY TraceIs, ProgramAssumption DEF Code, Image
<1>3. PICK c \in Nat : c = trace[cand]
  BY <1>1
<1>4. patch[h + 1 - 1] = <<"jump", 1, 2 * insts>> /\ patch[h + 2 - 1] = <<"jump", 2, 2 * insts>>
  BY <1>1, <1>2 DEF JumpAt
<1>5. patch[h] = <<"jump", 1, 2 * insts>> /\ patch[h + 1] = <<"jump", 2, 2 * insts>>
  <2>1. h + 1 - 1 = h /\ h + 2 - 1 = h + 1
    OBVIOUS
  <2> QED BY <1>4, <2>1
<1>6. patch[h][1] # "nop" /\ patch[h] # Kept /\ patch[h + 1][1] # "nop"
  BY <1>5 DEF Kept
<1>7. h \in Jump(trace[cand]) /\ patch[h] = JumpPart(trace[cand], h)
  BY <1>2, <1>6 DEF SuffixLaid
<1>8. h - c + 1 = 1
  BY <1>3, <1>5, <1>7, Tags
<1>9. h = c
  BY <1>8
<1>10. trace[cand] + 1 \notin SuffixNops(Failure)
  BY <1>1, <1>3, <1>6, <1>9 DEF SuffixLaid
<1> QED BY <1>2, <1>3, <1>9, <1>10

\* What is kept and not intact lies beside the candidate.
LEMMA SuffixBlocked ==
    ASSUME GenInv, Edited, op = "suffix", stage = "landed", SuffixLaid(Failure), Separate,
           NEW j \in 1..Failure, j <= cand \/ j = Failure,
           ~Intact(trace[j]), ~JumpAt(trace[j])
    PROVE  JumpCollides
<1>1. /\ insts = 1 /\ Jump(trace[cand]) = {trace[cand], trace[cand] + 1}
      /\ trace[cand] \in Nat /\ trace[cand] \in Executed
      /\ trace[cand] \in Image /\ trace[cand] + 1 \in Image
      /\ cand \in 1..Failure
  BY SuffixIs
<1>2. trace[j] \in Executed
  BY TraceIs
<1>3. PICK h \in Nat : h = trace[j]
  BY <1>2, FootprintIs
<1>4. PICK c \in Nat : c = trace[cand]
  BY <1>1
<1>5. \A x \in SuffixNops(Failure) : x \notin Footprint(h)
  <2>1. ASSUME NEW x \in SuffixNops(Failure), x \in Footprint(h) PROVE FALSE
    <3>1. PICK g \in Executed : /\ x \in Footprint(g) /\ g # trace[Failure]
                                /\ \A i \in 1..cand : g # trace[i]
      BY SuffixNopIs
    <3>2. g # h
      BY <1>3, <3>1
    <3> QED BY <1>2, <1>3, <2>1, <3>1, <3>2 DEF Separate
  <2> QED BY <2>1
<1>7. CASE h = c
  <2>1. PICK i \in 1..2 : patch[h + i - 1] # <<"jump", i, 2>>
    BY <1>1, <1>3 DEF JumpAt
  <2>2. PICK x \in {c, c + 1} : x = h + i - 1 /\ x - c + 1 = i
    BY <1>7
  <2>3. patch[x] # JumpPart(trace[cand], x)
    BY <1>1, <1>4, <2>1, <2>2 DEF JumpPart
  <2>4. x \in Image /\ x \in Jump(trace[cand])
    BY <1>1, <1>4
  <2>5. x \in SuffixNops(Failure)
    BY <2>3, <2>4 DEF SuffixLaid
  <2>6. x \notin Footprint(h)
    BY <1>5, <2>5
  <2>7. size[h] = 2 /\ x = c + 1
    BY <1>2, <1>3, <1>7, <2>6, FootprintIs
  <2>8. PICK g \in Executed : x \in Footprint(g) /\ \A k \in 1..cand : g # trace[k]
    BY <2>5, SuffixNopIs
  <2>9. g # c
    BY <1>1, <1>4, <2>8
  <2>10. g \in Nat /\ (Footprint(g) = {g} \/ Footprint(g) = {g, g + 1})
    BY FootprintIs
  <2>11. g = c + 1
    BY <2>7, <2>8, <2>9, <2>10
  <2> QED BY <1>4, <1>7, <2>7, <2>11, SuffixCollides
<1>8. CASE h # c
  <2>1. PICK x \in Footprint(h) : patch[x] # Kept
    BY <1>3 DEF Intact
  <2>2. x \in Image /\ x \notin SuffixNops(Failure)
    BY <1>2, <1>3, <1>5, <2>1, FootprintIs
  <2>3. x \in {c, c + 1}
    BY <1>1, <1>4, <2>1, <2>2 DEF SuffixLaid
  <2>4. x \notin Footprint(c)
    BY <1>1, <1>2, <1>3, <1>4, <1>8, <2>1 DEF Separate
  <2>5. size[c] = 2 /\ x = c + 1
    BY <1>1, <1>4, <2>3, <2>4, FootprintIs
  <2>6. Footprint(h) = {h} \/ Footprint(h) = {h, h + 1}
    BY <1>2, <1>3, FootprintIs
  <2>7. h = c + 1
    BY <1>8, <2>1, <2>5, <2>6
  <2> QED BY <1>2, <1>3, <1>4, <2>5, <2>7, SuffixCollides
<1> QED BY <1>7, <1>8

-----------------------------------------------------------------------------
(* Each action, on the program with a jump over its candidate. *)

LEMMA SuffixNopsGrow ==
    ASSUME cand \in Nat
    PROVE  /\ SuffixNops(cand + 1) = {}
           /\ \A k \in Nat : k > cand =>
                 SuffixNops(k + 1) = SuffixNops(k) \cup
                     (IF SkippedBySuffix(k) THEN Footprint(trace[k]) ELSE {})
<1>1. \A i \in cand + 1..(cand + 1) - 1 : FALSE
  OBVIOUS
<1>2. SuffixNops(cand + 1) = {}
  BY <1>1 DEF SuffixNops
<1>3. ASSUME NEW k \in Nat, k > cand
      PROVE  SuffixNops(k + 1) = SuffixNops(k) \cup
                 (IF SkippedBySuffix(k) THEN Footprint(trace[k]) ELSE {})
  <2>1. cand + 1..(k + 1) - 1 = (cand + 1..k - 1) \cup {k}
    BY <1>3
  <2> QED BY <2>1 DEF SuffixNops
<1> QED BY <1>2, <1>3



LEMMA SuffixWrites ==
    ASSUME IInv, op = "suffix", WriteJump
    PROVE  SuffixInv'
<1>1. /\ op' = "suffix" /\ phase' = "nops" /\ stage' = "landed" /\ stage = "landed" /\ at' = cand + 1
      /\ patch' = Written("jump", trace[cand], 2 * insts)
      /\ phase = "encode"
      /\ UNCHANGED <<generated, op, size, trace, cand, steps>>
  BY DEF WriteJump, generated
<1>2. /\ steps = 0 /\ \A x \in Image : patch[x] = Kept
      /\ Edited /\ GenInv
  BY <1>1 DEF IInv, SuffixInv
<1>3. cand \in Nat /\ cand + 1 \in 1..Failure /\ cand < Failure /\ Failure \in Nat
  BY <1>2, SuffixIs
<1>4. SuffixNops(cand + 1) = {}
  BY <1>3, SuffixNopsGrow
<1>5. \A x \in Image : patch'[x] = IF x \in Jump(trace[cand])
                                   THEN JumpPart(trace[cand], x) ELSE Kept
  BY <1>1, <1>2 DEF Written, Jump, JumpPart
<1>6. SuffixNops(at)' = {}
  BY <1>1, <1>4 DEF SuffixNops, SkippedBySuffix, Visited, Footprint, Failure
<1>7. /\ Jump(trace[cand])' = Jump(trace[cand])
      /\ \A x : JumpPart(trace[cand], x)' = JumpPart(trace[cand], x)
  BY <1>1 DEF Jump, JumpPart, generated
<1>8. SuffixLaid(at)'
  BY <1>5, <1>6, <1>7 DEF SuffixLaid
<1>9. at' \in cand' + 1..Failure'
  BY <1>1, <1>3 DEF Failure
<1> QED BY <1>1, <1>2, <1>8, <1>9 DEF SuffixInv

LEMMA SuffixNopped ==
    ASSUME IInv, op = "suffix", NopSuffix
    PROVE  SuffixInv'
<1>1. /\ op' = "suffix" /\ phase' = "nops" /\ at < Failure /\ at' = at + 1
      /\ patch' = IF SkippedBySuffix(at)
                  THEN Written("nop", trace[at], size[trace[at]] \div 2) ELSE patch
      /\ phase = "nops"
      /\ UNCHANGED <<generated, op, size, trace, cand, steps>>
  BY DEF NopSuffix
<1>2. /\ Edited /\ stage = "landed" /\ steps = 0 /\ at \in cand + 1..Failure /\ SuffixLaid(at)
  BY <1>1 DEF IInv, SuffixInv
<1>3. /\ cand \in Nat /\ Failure \in Nat /\ at \in Nat /\ at > cand /\ at + 1 \in cand + 1..Failure
      /\ at \in 1..Failure
  BY <1>1, <1>2, SuffixIs
<1>4. SuffixNops(at + 1) = SuffixNops(at) \cup
          (IF SkippedBySuffix(at) THEN Footprint(trace[at]) ELSE {})
  BY <1>3, SuffixNopsGrow
<1>5. SuffixNops(at)' = SuffixNops(at + 1)
  BY <1>1 DEF SuffixNops, SkippedBySuffix, Visited, Footprint, Failure
<1>6. /\ Jump(trace[cand])' = Jump(trace[cand])
      /\ \A x : JumpPart(trace[cand], x)' = JumpPart(trace[cand], x)
  BY <1>1 DEF Jump, JumpPart, generated
<1>7. ASSUME NEW x \in Image
      PROVE  IF x \in SuffixNops(at + 1) THEN patch'[x][1] = "nop"
             ELSE IF x \in Jump(trace[cand]) THEN patch'[x] = JumpPart(trace[cand], x)
             ELSE patch'[x] = Kept
  <2>1. CASE SkippedBySuffix(at) /\ x \in Footprint(trace[at])
    <3>1. patch'[x] = <<"nop", x - trace[at] + 1, size[trace[at]] \div 2>>
      BY <1>1, <2>1 DEF Written, Footprint
    <3> QED BY <1>4, <2>1, <3>1
  <2>2. CASE ~(SkippedBySuffix(at) /\ x \in Footprint(trace[at]))
    <3>1. patch'[x] = patch[x]
      BY <1>1, <2>2 DEF Written, Footprint
    <3>2. x \in SuffixNops(at + 1) <=> x \in SuffixNops(at)
      BY <1>4, <2>2
    <3> QED BY <1>2, <3>1, <3>2 DEF SuffixLaid
  <2> QED BY <2>1, <2>2
<1>8. SuffixLaid(at)'
  BY <1>5, <1>6, <1>7 DEF SuffixLaid
<1>9. at' \in cand' + 1..Failure'
  BY <1>1, <1>3 DEF Failure
<1> QED BY <1>1, <1>2, <1>8, <1>9 DEF SuffixInv, generated

LEMMA SuffixEnds ==
    ASSUME IInv, op = "suffix", EndSuffix
    PROVE  SuffixInv'
<1>1. /\ op' = "suffix" /\ phase' = "run" /\ at >= Failure /\ at' = 1
      /\ phase = "nops"
      /\ UNCHANGED <<generated, op, size, trace, cand, patch, steps>>
  BY DEF EndSuffix
<1>2. /\ Edited /\ stage = "landed" /\ steps = 0 /\ at \in cand + 1..Failure /\ SuffixLaid(at)
  BY <1>1 DEF IInv, SuffixInv
<1>3. cand \in Nat /\ Failure \in Nat /\ at = Failure /\ cand \in 1..Failure
  BY <1>1, <1>2, SuffixIs
<1>4. SuffixLaid(Failure)'
  BY <1>1, <1>2, <1>3, Same
<1>5. SuffixPlace'
  BY <1>1, <1>2, <1>3 DEF SuffixPlace
<1>6. at' <= cand' /\ \A j \in 1..at' - 1 : FALSE
  BY <1>1, <1>3
<1>7. SuffixRun'
  BY <1>1, <1>2, <1>4, <1>5, <1>6 DEF SuffixRun, generated
<1> QED BY <1>1, <1>7 DEF SuffixInv

\* What is executed is not the jump, and not its damaged neighbour either.
LEMMA SuffixIntact ==
    ASSUME GenInv, Edited, op = "suffix", stage = "landed", SuffixLaid(Failure), NEW j \in 1..Failure, Intact(trace[j])
    PROVE  trace[j] # trace[cand] /\ trace[j] # trace[cand] + 1
<1>1. /\ Jump(trace[cand]) = {trace[cand], trace[cand] + 1}
      /\ trace[cand] \in Image /\ trace[cand] + 1 \in Image
  BY SuffixIs
<1>2. trace[j] \in Executed
  BY TraceIs
<1>3. trace[j] \in Footprint(trace[j])
  BY <1>2, FootprintIs
<1>4. patch[trace[j]] = Kept
  BY <1>3 DEF Intact
<1>5. \A x \in Jump(trace[cand]) : x \in Image => patch[x] # Kept
  BY Tags DEF SuffixLaid
<1> QED BY <1>1, <1>4, <1>5

LEMMA SuffixRetraces ==
    ASSUME IInv, op = "suffix", Retrace
    PROVE  SuffixInv'
<1>1. /\ op' = "suffix" /\ phase = "run" /\ steps < Budget /\ Intact(trace[at])
      /\ steps' = steps + 1
      /\ phase' = IF at = Failure THEN "reached" ELSE "run"
      /\ at' = IF at = Failure THEN at ELSE at + 1
      /\ UNCHANGED <<generated, op, size, trace, cand, patch>>
  BY DEF Retrace
<1>2. GenInv /\ Edited /\ SuffixRun
  BY <1>1 DEF IInv, SuffixInv
<1>3. stage = "landed" /\ SuffixLaid(Failure) /\ SuffixPlace
  BY <1>2 DEF SuffixRun
<1>4. cand \in Nat /\ Failure \in Nat /\ cand < Failure /\ cand \in 1..Failure
  BY <1>2, SuffixIs
<1>5. at \in 1..Failure
  BY <1>3, <1>4 DEF SuffixPlace
<1>6. trace[at] # trace[cand] /\ trace[at] # trace[cand] + 1
  BY <1>1, <1>2, <1>3, <1>5, SuffixIntact
<1>7. at # cand
  BY <1>6
<1>8. Budget = cand + 1
  BY DEF Budget
<1>9. /\ SuffixLaid(Failure)' /\ Budget' = Budget /\ Failure' = Failure
      /\ JumpCollides' <=> JumpCollides
  BY <1>1, <1>3, Same
<1>10. CASE at = Failure
  <2>1. steps = cand
    BY <1>3, <1>4, <1>10 DEF SuffixPlace
  <2>2. ~JumpCollides
    BY <1>2, <1>4, <1>10 DEF SuffixRun
  <2>3. phase' = "reached" /\ steps' = Budget'
    BY <1>1, <1>8, <1>9, <1>10, <2>1
  <2> QED BY <1>9, <2>2, <2>3 DEF SuffixInv
<1>11. CASE at # Failure
  <2>1. at \in 1..cand - 1 /\ steps = at - 1
    BY <1>3, <1>4, <1>7, <1>11 DEF SuffixPlace
  <2>2. at' = at + 1 /\ steps' = at /\ phase' = "run"
    BY <1>1, <1>4, <1>11, <2>1
  <2>3. SuffixPlace'
    BY <1>1, <1>4, <2>1, <2>2 DEF SuffixPlace
  <2>4. ASSUME JumpCollides
        PROVE  at' <= cand /\ \A j \in 1..at' - 1 : trace[j] # trace[cand] + 1
    <3>1. \A j \in 1..at - 1 : trace[j] # trace[cand] + 1
      BY <1>2, <2>4 DEF SuffixRun
    <3>2. \A j \in 1..at' - 1 : j \in 1..at - 1 \/ j = at
      BY <1>4, <2>1, <2>2
    <3> QED BY <1>4, <1>6, <2>1, <2>2, <3>1, <3>2
  <2>5. SuffixRun'
    BY <1>1, <1>3, <1>9, <2>3, <2>4 DEF SuffixRun, generated
  <2> QED BY <2>2, <2>5 DEF SuffixInv
<1> QED BY <1>10, <1>11

LEMMA SuffixTakes ==
    ASSUME IInv, op = "suffix", TakeJump
    PROVE  SuffixInv'
<1>1. /\ op' = "suffix" /\ phase = "run" /\ phase' = "run" /\ JumpAt(trace[at])
      /\ at' = Failure /\ steps' = steps + insts
      /\ UNCHANGED <<generated, op, size, trace, cand, patch>>
  BY DEF TakeJump
<1>2. GenInv /\ Edited /\ SuffixRun
  BY <1>1 DEF IInv, SuffixInv
<1>3. stage = "landed" /\ SuffixLaid(Failure) /\ SuffixPlace
  BY <1>2 DEF SuffixRun
<1>4. /\ cand \in Nat /\ Failure \in Nat /\ cand < Failure /\ cand \in 1..Failure
      /\ trace[cand] # trace[Failure] /\ trace[cand] + 1 # trace[Failure]
      /\ trace[cand] \in Nat
      /\ \A j \in 1..cand - 1 : trace[j] # trace[cand]
      /\ insts = 1
  BY <1>2, <1>3, SuffixIs
<1>5. at \in 1..Failure
  BY <1>3, <1>4 DEF SuffixPlace
<1>6. trace[at] = trace[cand] /\ trace[cand] + 1 \notin SuffixNops(Failure)
  BY <1>1, <1>2, <1>3, <1>5, SuffixJumps
<1>7. at = cand /\ steps = cand - 1
  <2>1. at # Failure
    BY <1>4, <1>6
  <2>2. at \in 1..cand /\ steps = at - 1
    BY <1>3, <2>1 DEF SuffixPlace
  <2>3. ~(at \in 1..cand - 1)
    BY <1>4, <1>6
  <2> QED BY <1>4, <2>2, <2>3
<1>8. ~JumpCollides
  <2>1. SUFFICES ASSUME JumpCollides PROVE FALSE
    OBVIOUS
  <2>2. trace[cand] + 1 \in Executed
    BY <1>2, <2>1, SuffixCollides
  <2>3. \A j \in 1..at - 1 : trace[j] # trace[cand] + 1
    BY <1>2, <2>1 DEF SuffixRun
  <2>4. trace[cand] # trace[cand] + 1
    BY <1>4
  <2>5. \A j \in 1..cand : trace[j] # trace[cand] + 1
    <3>1. \A j \in 1..cand : j = cand \/ j \in 1..at - 1
      BY <1>4, <1>7
    <3> QED BY <2>3, <2>4, <3>1
  <2> QED BY <1>2, <1>4, <1>6, <2>2, <2>5, NeighbourNopped
<1>9. SuffixLaid(Failure)' /\ Failure' = Failure /\ (JumpCollides' <=> JumpCollides)
  BY <1>1, <1>3, Same
<1>10. at' = Failure' /\ steps' = cand'
  BY <1>1, <1>4, <1>7, <1>9
<1>11. SuffixRun'
  BY <1>1, <1>3, <1>8, <1>9, <1>10 DEF SuffixRun, SuffixPlace, generated
<1> QED BY <1>1, <1>11 DEF SuffixInv

LEMMA SuffixLoses ==
    ASSUME IInv, op = "suffix", Lose
    PROVE  SuffixInv'
<1>1. /\ op' = "suffix" /\ phase = "run" /\ phase' = "lost"
      /\ steps >= Budget \/ (~Intact(trace[at]) /\ ~JumpAt(trace[at]))
      /\ UNCHANGED <<generated, op, size, trace, cand, patch>>
  BY DEF Lose
<1>2. GenInv /\ Edited /\ SuffixRun
  BY <1>1 DEF IInv, SuffixInv
<1>3. stage = "landed" /\ SuffixLaid(Failure) /\ SuffixPlace
  BY <1>2 DEF SuffixRun
<1>4. cand \in Nat /\ Failure \in Nat /\ cand < Failure /\ cand \in 1..Failure
  BY <1>2, <1>3, SuffixIs
<1>5. at \in 1..Failure /\ (at <= cand \/ at = Failure) /\ steps < cand + 1
  BY <1>3, <1>4 DEF SuffixPlace
<1>6. Budget = cand + 1
  BY DEF Budget
<1>7. ~Intact(trace[at]) /\ ~JumpAt(trace[at])
  <2>1. ~(steps >= cand + 1)
    BY <1>3, <1>4 DEF SuffixPlace
  <2> QED BY <1>1, <1>6, <2>1
<1>8. Separate => JumpCollides
  BY <1>2, <1>3, <1>5, <1>7, SuffixBlocked
<1>9. (JumpCollides' <=> JumpCollides) /\ (Separate' <=> Separate)
  BY <1>1, Same
<1> QED BY <1>1, <1>8, <1>9 DEF SuffixInv

-----------------------------------------------------------------------------
(* Each action, on the program with a jump over its entry. *)

LEMMA PrefixIs ==
    ASSUME Edited, op = "prefix"
    PROVE  /\ cand \in Nat /\ cand > 1 /\ cand \in 1..Failure /\ Failure \in Nat
           /\ trace[1] \in Nat /\ trace[1] < Halfwords
           /\ Halfwords \in Nat /\ ContextInsts \in Nat
           /\ GenInv /\ stage = "landed" => /\ insts \in {1, 2} /\ reg = rest
                                            /\ Jump(trace[1]) \subseteq Image
                                            /\ trace[1] \in Jump(trace[1])
<1>1. cand \in SkipStart + 1..Failure
  BY DEF Edited, PrefixCandidate
<1>2. /\ SkipStart \in Nat \ {0} /\ Halfwords \in Nat /\ ContextInsts \in Nat
  BY ProgramAssumption
<1>3. Failure \in Nat /\ Failure > 1 /\ \A j \in 1..Failure : trace[j] \in Code
  BY TraceIs
<1>4. cand \in Nat /\ cand > 1 /\ cand \in 1..Failure
  BY <1>1, <1>2, <1>3
<1>5. trace[1] \in Code
  BY <1>3
<1>6. trace[1] \in Nat /\ trace[1] < Halfwords
  BY <1>2, <1>5 DEF Code
<1>7. GenInv /\ stage = "landed" => insts \in {1, 2} /\ reg = rest
  BY DEF GenInv, OneOrTwo, JumpsArrive
<1>8. insts \in {1, 2} => Jump(trace[1]) \subseteq Image /\ trace[1] \in Jump(trace[1])
  <2>1. PICK e \in Nat : e = trace[1] /\ e < Halfwords
    BY <1>6
  <2> QED BY <1>2, <2>1 DEF Jump, Image
<1> QED BY <1>2, <1>3, <1>4, <1>6, <1>7, <1>8

LEMMA PrefixNopsGrow ==
    /\ PrefixNops(2) = {}
    /\ \A k \in Nat : k > 1 =>
          PrefixNops(k + 1) = PrefixNops(k) \cup
              (IF SkippedByPrefix(k) THEN Footprint(trace[k]) ELSE {})
<1>1. \A i \in 2..2 - 1 : FALSE
  OBVIOUS
<1>2. PrefixNops(2) = {}
  BY <1>1 DEF PrefixNops
<1>3. ASSUME NEW k \in Nat, k > 1
      PROVE  PrefixNops(k + 1) = PrefixNops(k) \cup
                 (IF SkippedByPrefix(k) THEN Footprint(trace[k]) ELSE {})
  <2>1. 2..(k + 1) - 1 = (2..k - 1) \cup {k}
    BY <1>3
  <2> QED BY <2>1 DEF PrefixNops
<1> QED BY <1>2, <1>3

LEMMA PrefixNopIs ==
    ASSUME Edited, op = "prefix", NEW x \in PrefixNops(cand)
    PROVE  \E h \in Executed : /\ x \in Footprint(h)
                               /\ \A j \in cand..Failure : h # trace[j]
<1>1. PICK j \in 2..cand - 1 : SkippedByPrefix(j) /\ x \in Footprint(trace[j])
  BY DEF PrefixNops
<1>2. j \in 1..Failure
  BY <1>1, PrefixIs
<1>3. trace[j] \in Executed
  BY <1>2, TraceIs
<1>4. \A i \in cand..Failure : trace[j] # trace[i]
  BY <1>1 DEF SkippedByPrefix, Visited
<1> QED BY <1>1, <1>3, <1>4

LEMMA PrefixCollides ==
    ASSUME Edited, op = "prefix"
    PROVE  JumpCollides <=> \E j \in cand..Failure : Hits(j)
BY DEF JumpCollides, Visited, Hits, Jump

\* At the entry there is the whole jump.
LEMMA PrefixJumps ==
    ASSUME GenInv, Edited, op = "prefix", stage = "landed", PrefixLaid
    PROVE  JumpAt(trace[1])
<1>1. insts \in {1, 2} /\ trace[1] \in Nat /\ Jump(trace[1]) \subseteq Image
  BY PrefixIs
<1>2. PICK e \in Nat : e = trace[1]
  BY <1>1
<1>3. ASSUME NEW i \in 1..2 * insts
      PROVE  patch[e + i - 1] = <<"jump", i, 2 * insts>>
  <2>1. PICK x \in Int : x = e + i - 1 /\ x - e + 1 = i
    BY <1>1
  <2>2. x \in Jump(e)
    BY <1>1, <2>1 DEF Jump
  <2>3. patch[x] = JumpPart(e, x)
    BY <1>1, <1>2, <2>2 DEF PrefixLaid
  <2>4. patch[x] = <<"jump", x - e + 1, 2 * insts>>
    BY <2>3 DEF JumpPart
  <2> QED BY <2>1, <2>4
<1> QED BY <1>2, <1>3 DEF JumpAt

\* What the jump covers a part of is not intact.
LEMMA PrefixIntact ==
    ASSUME GenInv, Edited, op = "prefix", stage = "landed", PrefixLaid,
           NEW j \in 1..Failure, Intact(trace[j])
    PROVE  ~Hits(j) /\ trace[j] # trace[1]
<1>1. Jump(trace[1]) \subseteq Image /\ trace[1] \in Jump(trace[1])
  BY PrefixIs
<1>2. trace[j] \in Executed
  BY TraceIs
<1>3. trace[j] \in Footprint(trace[j])
  BY <1>2, FootprintIs
<1>4. \A x \in Jump(trace[1]) : patch[x] # Kept
  BY <1>1, Tags DEF PrefixLaid
<1>5. \A x \in Footprint(trace[j]) : patch[x] = Kept
  BY DEF Intact
<1> QED BY <1>1, <1>3, <1>4, <1>5 DEF Hits

\* Only a jump, taken once more or laid on what is needed, stops the run.
LEMMA PrefixBlocked ==
    ASSUME GenInv, Edited, op = "prefix", stage = "landed", PrefixLaid, Separate,
           NEW j \in cand..Failure, ~Intact(trace[j])
    PROVE  JumpCollides
<1>1. j \in 1..Failure
  BY PrefixIs
<1>2. trace[j] \in Executed
  BY <1>1, TraceIs
<1>3. PICK x \in Footprint(trace[j]) : patch[x] # Kept
  BY DEF Intact
<1>4. x \in Image
  BY <1>2, <1>3, FootprintIs
<1>5. x \notin PrefixNops(cand)
  <2>1. ASSUME x \in PrefixNops(cand) PROVE FALSE
    <3>1. PICK h \in Executed : x \in Footprint(h) /\ h # trace[j]
      BY <2>1, PrefixNopIs
    <3> QED BY <1>2, <1>3, <3>1 DEF Separate
  <2> QED BY <2>1
<1>6. x \in Jump(trace[1])
  BY <1>3, <1>4, <1>5 DEF PrefixLaid
<1> QED BY <1>3, <1>6, PrefixCollides DEF Hits

LEMMA PrefixNopsOne ==
    ASSUME IInv, op = "prefix", NopPrefix
    PROVE  PrefixInv'
<1>1. /\ op' = "prefix" /\ phase' = "nops" /\ at + 2 < cand /\ at' = at + 1
      /\ patch' = IF SkippedByPrefix(at + 2)
                  THEN Written("nop", trace[at + 2], size[trace[at + 2]] \div 2) ELSE patch
      /\ phase = "nops"
      /\ UNCHANGED <<generated, op, size, trace, cand, steps>>
  BY DEF NopPrefix
<1>2. /\ Edited /\ steps = 0 /\ at \in Nat /\ PrefixNopped(at + 2)
  BY <1>1 DEF IInv, PrefixInv
<1>3. PICK k \in Nat : k = at + 2 /\ k > 1 /\ k < cand
  BY <1>1, <1>2
<1>4. cand \in Nat /\ at' + 2 = k + 1 /\ at' + 2 <= cand
  BY <1>1, <1>2, <1>3, PrefixIs
<1>5. PrefixNops(k + 1) = PrefixNops(k) \cup
          (IF SkippedByPrefix(k) THEN Footprint(trace[k]) ELSE {})
  BY <1>3, PrefixNopsGrow
<1>6. PrefixNops(at + 2)' = PrefixNops(k + 1)
  BY <1>1, <1>4 DEF PrefixNops, SkippedByPrefix, Visited, Footprint, Failure
<1>7. patch' = IF SkippedByPrefix(k)
               THEN Written("nop", trace[k], size[trace[k]] \div 2) ELSE patch
  BY <1>1, <1>3
<1>8. ASSUME NEW x \in Image
      PROVE  IF x \in PrefixNops(k + 1) THEN patch'[x][1] = "nop" ELSE patch'[x] = Kept
  <2>1. CASE SkippedByPrefix(k) /\ x \in Footprint(trace[k])
    <3>1. patch'[x] = <<"nop", x - trace[k] + 1, size[trace[k]] \div 2>>
      BY <1>7, <2>1 DEF Written, Footprint
    <3> QED BY <1>5, <2>1, <3>1
  <2>2. CASE ~(SkippedByPrefix(k) /\ x \in Footprint(trace[k]))
    <3>1. patch'[x] = patch[x]
      BY <1>7, <2>2 DEF Written, Footprint
    <3>2. x \in PrefixNops(k + 1) <=> x \in PrefixNops(k)
      BY <1>5, <2>2
    <3> QED BY <1>2, <1>3, <3>1, <3>2 DEF PrefixNopped
  <2> QED BY <2>1, <2>2
<1>9. PrefixNopped(at + 2)'
  BY <1>6, <1>8 DEF PrefixNopped
<1>10. at' \in Nat /\ at' + 2 <= cand'
  BY <1>1, <1>2, <1>4
<1> QED BY <1>1, <1>2, <1>9, <1>10 DEF PrefixInv

LEMMA PrefixEnds ==
    ASSUME IInv, op = "prefix", EndPrefix
    PROVE  PrefixInv'
<1>1. /\ op' = "prefix" /\ phase' = "encode" /\ at + 2 >= cand
      /\ phase = "nops"
      /\ UNCHANGED <<generated, op, size, trace, cand, patch, at, steps>>
  BY DEF EndPrefix
<1>2. /\ Edited /\ steps = 0 /\ at \in Nat /\ at + 2 <= cand /\ PrefixNopped(at + 2)
  BY <1>1 DEF IInv, PrefixInv
<1>3. at + 2 = cand
  <2>1. cand \in Nat
    BY <1>2, PrefixIs
  <2> QED BY <1>1, <1>2, <2>1
<1>4. PrefixNopped(cand)
  BY <1>2, <1>3
<1>5. PrefixNopped(cand)'
  BY <1>1, <1>4 DEF PrefixNopped, PrefixNops, SkippedByPrefix, Visited, Footprint, Failure
<1> QED BY <1>1, <1>2, <1>5 DEF PrefixInv

LEMMA PrefixEncodes ==
    ASSUME IInv, op = "prefix", Encode
    PROVE  PrefixInv'
<1>1. op' = "prefix" /\ phase' = "encode" /\ phase = "encode"
      /\ UNCHANGED edit
  BY DEF Encode, edit
<1>2. steps = 0 /\ PrefixNopped(cand)
  BY <1>1 DEF IInv, PrefixInv
<1>3. PrefixNopped(cand)'
  BY <1>1, <1>2 DEF PrefixNopped, PrefixNops, SkippedByPrefix, Visited, Footprint, Failure, edit
<1> QED BY <1>1, <1>2, <1>3 DEF PrefixInv, edit

LEMMA PrefixWrites ==
    ASSUME IInv, op = "prefix", WriteJump
    PROVE  PrefixInv'
<1>1. /\ op' = "prefix" /\ phase' = "run" /\ stage' = "landed" /\ stage = "landed" /\ at' = 1
      /\ patch' = Written("jump", trace[1], 2 * insts)
      /\ phase = "encode"
      /\ UNCHANGED <<generated, op, size, trace, cand, steps>>
  BY DEF WriteJump, generated
<1>2. Edited /\ steps = 0 /\ PrefixNopped(cand)
  BY <1>1 DEF IInv, PrefixInv
<1>3. cand \in Nat /\ cand > 1 /\ Failure \in Nat
  BY <1>2, PrefixIs
<1>4. \A x \in Image : patch'[x] = IF x \in Jump(trace[1]) THEN JumpPart(trace[1], x)
                                   ELSE patch[x]
  BY <1>1 DEF Written, Jump, JumpPart
<1>5. /\ Jump(trace[1])' = Jump(trace[1])
      /\ \A x : JumpPart(trace[1], x)' = JumpPart(trace[1], x)
      /\ PrefixNops(cand)' = PrefixNops(cand)
  BY <1>1 DEF Jump, JumpPart, PrefixNops, SkippedByPrefix, Visited, Footprint, Failure, generated
<1>6. PrefixLaid'
  BY <1>2, <1>4, <1>5 DEF PrefixNopped, PrefixLaid
<1>7. \A j \in cand..Failure : 1 <= j
  BY <1>3
<1>8. \A j \in cand'..Failure' : at' <= j
  BY <1>1, <1>7 DEF Failure
<1>9. PrefixRun'
  BY <1>1, <1>2, <1>6, <1>8 DEF PrefixRun, PrefixPlace
<1> QED BY <1>1, <1>9 DEF PrefixInv

LEMMA PrefixRetraces ==
    ASSUME IInv, op = "prefix", Retrace
    PROVE  PrefixInv'
<1>1. /\ op' = "prefix" /\ phase = "run" /\ steps < Budget /\ Intact(trace[at])
      /\ steps' = steps + 1
      /\ phase' = IF at = Failure THEN "reached" ELSE "run"
      /\ at' = IF at = Failure THEN at ELSE at + 1
      /\ UNCHANGED <<generated, op, size, trace, cand, patch>>
  BY DEF Retrace
<1>2. GenInv /\ Edited /\ PrefixRun
  BY <1>1 DEF IInv, PrefixInv
<1>3. stage = "landed" /\ PrefixLaid /\ PrefixPlace /\ \A j \in cand..Failure : Hits(j) => at <= j
  BY <1>2 DEF PrefixRun
<1>4. /\ cand \in Nat /\ Failure \in Nat /\ cand > 1 /\ cand \in 1..Failure /\ insts \in {1, 2}
      /\ ContextInsts \in Nat /\ trace[1] \in Jump(trace[1])
  BY <1>2, <1>3, PrefixIs
<1>5. at \in 1..Failure
  BY <1>3, <1>4 DEF PrefixPlace
<1>6. trace[at] # trace[1] /\ ~Hits(at)
  BY <1>1, <1>2, <1>3, <1>5, PrefixIntact
<1>7. at # 1
  BY <1>6
<1>8. /\ at \in cand..Failure /\ steps \in Nat
      /\ \/ steps = insts + ContextInsts + (at - cand)
         \/ \E j \in cand..Failure : trace[j] = trace[1]
  BY <1>3, <1>7 DEF PrefixPlace
<1>9. Budget = insts + ContextInsts + Failure - cand + 1
  BY DEF Budget
<1>10. /\ PrefixLaid' /\ Budget' = Budget /\ Failure' = Failure
       /\ JumpCollides' <=> JumpCollides
       /\ \A j : Hits(j)' <=> Hits(j)
  BY <1>1, <1>3, Same
<1>11. \A j \in cand..Failure : trace[j] = trace[1] => Hits(j)
  <2>1. ASSUME NEW j \in cand..Failure, trace[j] = trace[1] PROVE Hits(j)
    <3>1. j \in 1..Failure
      BY <1>4
    <3>2. trace[j] \in Executed
      BY <1>2, <3>1, TraceIs
    <3>3. trace[j] \in Footprint(trace[j])
      BY <1>2, <3>2, FootprintIs
    <3> QED BY <1>4, <2>1, <3>3 DEF Hits
  <2> QED BY <2>1
<1>12. CASE at = Failure
  <2>1. \A j \in cand..Failure : ~Hits(j)
    <3>1. \A j \in cand..Failure : at <= j => j = at
      BY <1>4, <1>12
    <3> QED BY <1>3, <1>6, <3>1
  <2>2. ~JumpCollides
    BY <1>2, <2>1, PrefixCollides
  <2>3. steps = insts + ContextInsts + (Failure - cand)
    BY <1>8, <1>11, <1>12, <2>1
  <2>4. phase' = "reached" /\ steps' = Budget'
    BY <1>1, <1>4, <1>9, <1>10, <1>12, <2>3
  <2> QED BY <1>10, <2>2, <2>4 DEF PrefixInv
<1>13. CASE at # Failure
  <2>1. at' = at + 1 /\ at' \in cand..Failure /\ steps' \in Nat /\ phase' = "run"
    BY <1>1, <1>4, <1>8, <1>13
  <2>2. \/ steps' = insts + ContextInsts + (at' - cand)
        \/ \E j \in cand..Failure : trace[j] = trace[1]
    <3>1. CASE steps = insts + ContextInsts + (at - cand)
      BY <1>1, <1>4, <1>8, <2>1, <3>1
    <3> QED BY <1>8, <3>1
  <2>3. PrefixPlace'
    <3>1. at' \in cand'..Failure'
      BY <1>1, <1>10, <2>1
    <3>2. \/ steps' = insts' + ContextInsts + (at' - cand')
          \/ \E j \in cand'..Failure' : trace'[j] = trace'[1]
      BY <1>1, <1>10, <2>2 DEF generated
    <3> QED BY <2>1, <3>1, <3>2 DEF PrefixPlace
  <2>4. \A j \in cand..Failure : Hits(j) => at' <= j
    <3>1. \A j \in cand..Failure : at <= j /\ j # at => at + 1 <= j
      BY <1>4, <1>8
    <3> QED BY <1>3, <1>6, <2>1, <3>1
  <2>5. \A j \in cand'..Failure' : Hits(j)' => at' <= j
    BY <1>1, <1>10, <2>4
  <2>6. PrefixRun'
    BY <1>1, <1>3, <1>10, <2>3, <2>5 DEF PrefixRun, generated
  <2> QED BY <2>1, <2>6 DEF PrefixInv
<1> QED BY <1>12, <1>13

LEMMA PrefixTakes ==
    ASSUME IInv, op = "prefix", TakeJump
    PROVE  PrefixInv'
<1>1. /\ op' = "prefix" /\ phase = "run" /\ phase' = "run" /\ JumpAt(trace[at])
      /\ at' = cand /\ steps' = steps + insts + ContextInsts
      /\ UNCHANGED <<generated, op, size, trace, cand, patch>>
  BY DEF TakeJump
<1>2. GenInv /\ Edited /\ PrefixRun
  BY <1>1 DEF IInv, PrefixInv
<1>3. stage = "landed" /\ PrefixLaid /\ PrefixPlace
  BY <1>2 DEF PrefixRun
<1>4. /\ cand \in Nat /\ Failure \in Nat /\ cand > 1 /\ cand \in 1..Failure /\ insts \in {1, 2}
      /\ ContextInsts \in Nat
  BY <1>2, <1>3, PrefixIs
<1>5. PrefixLaid' /\ Failure' = Failure /\ \A j : Hits(j)' <=> Hits(j)
  BY <1>1, <1>3, Same
<1>6. trace[at] = trace[1]
  <2>1. at \in 1..Failure
    BY <1>3, <1>4 DEF PrefixPlace
  <2>2. PICK h \in Nat : h = trace[at] /\ h < Halfwords
    BY <1>2, <2>1, TraceIs, ProgramAssumption DEF Code
  <2>3. PICK e \in Nat : e = trace[1]
    BY <1>2, PrefixIs
  <2>4. h \in Image
    BY <2>2, ProgramAssumption DEF Image
  <2>5. patch[h + 1 - 1] = <<"jump", 1, 2 * insts>>
    <3>1. 1 \in 1..2 * insts
      BY <1>4
    <3> QED BY <1>1, <2>2, <3>1 DEF JumpAt
  <2>6. patch[h] = <<"jump", 1, 2 * insts>>
    <3>1. h + 1 - 1 = h
      OBVIOUS
    <3> QED BY <2>5, <3>1
  <2>7. patch[h][1] # "nop" /\ patch[h] # Kept
    BY <2>6 DEF Kept
  <2>8. patch[h] = JumpPart(trace[1], h)
    BY <1>3, <2>4, <2>7 DEF PrefixLaid
  <2>9. h - e + 1 = 1
    BY <2>3, <2>6, <2>8, Tags
  <2> QED BY <2>2, <2>3, <2>9
<1>7. PrefixPlace'
  <2>1. at' \in cand'..Failure' /\ steps' \in Nat
    BY <1>1, <1>3, <1>4, <1>5 DEF PrefixPlace
  <2>2. \/ steps' = insts' + ContextInsts + (at' - cand')
        \/ \E j \in cand'..Failure' : trace'[j] = trace'[1]
    <3>1. CASE at = 1 /\ steps = 0
      <4>1. steps' = insts + ContextInsts + (cand - cand)
        BY <1>1, <1>4, <3>1
      <4> QED BY <1>1, <4>1 DEF generated
    <3>2. CASE ~(at = 1 /\ steps = 0)
      <4>1. at \in cand..Failure
        BY <1>3, <3>2 DEF PrefixPlace
      <4> QED BY <1>1, <1>5, <1>6, <4>1
    <3> QED BY <3>1, <3>2
  <2> QED BY <2>1, <2>2 DEF PrefixPlace
<1>8. \A j \in cand'..Failure' : at' <= j
  <2>1. \A j \in cand..Failure : cand <= j
    BY <1>4
  <2> QED BY <1>1, <1>5, <2>1
<1>9. PrefixRun'
  BY <1>1, <1>3, <1>5, <1>7, <1>8 DEF PrefixRun, generated
<1> QED BY <1>1, <1>9 DEF PrefixInv

LEMMA PrefixLoses ==
    ASSUME IInv, op = "prefix", Lose
    PROVE  PrefixInv'
<1>1. /\ op' = "prefix" /\ phase = "run" /\ phase' = "lost"
      /\ steps >= Budget \/ (~Intact(trace[at]) /\ ~JumpAt(trace[at]))
      /\ UNCHANGED <<generated, op, size, trace, cand, patch>>
  BY DEF Lose
<1>2. GenInv /\ Edited /\ PrefixRun
  BY <1>1 DEF IInv, PrefixInv
<1>3. stage = "landed" /\ PrefixLaid /\ PrefixPlace
  BY <1>2 DEF PrefixRun
<1>4. /\ cand \in Nat /\ Failure \in Nat /\ cand > 1 /\ cand \in 1..Failure /\ insts \in {1, 2}
      /\ ContextInsts \in Nat /\ trace[1] \in Jump(trace[1])
  BY <1>2, <1>3, PrefixIs
<1>5. Budget = insts + ContextInsts + Failure - cand + 1
  BY DEF Budget
<1>6. ~(at = 1 /\ steps = 0)
  <2>1. JumpAt(trace[1])
    BY <1>2, <1>3, PrefixJumps
  <2>2. ~(0 >= Budget)
    BY <1>4, <1>5
  <2> QED BY <1>1, <2>1, <2>2
<1>7. /\ at \in cand..Failure /\ steps \in Nat
      /\ \/ steps = insts + ContextInsts + (at - cand)
         \/ \E j \in cand..Failure : trace[j] = trace[1]
  BY <1>3, <1>6 DEF PrefixPlace
<1>8. Separate => JumpCollides
  <2>1. CASE \E j \in cand..Failure : trace[j] = trace[1]
    <3>1. PICK j \in cand..Failure : trace[j] = trace[1]
      BY <2>1
    <3>2. trace[j] \in Footprint(trace[j])
      <4>1. j \in 1..Failure
        BY <1>4, <3>1
      <4>2. trace[j] \in Executed
        BY <1>2, <4>1, TraceIs
      <4> QED BY <1>2, <4>2, FootprintIs
    <3>3. Hits(j)
      BY <1>4, <3>1, <3>2 DEF Hits
    <3> QED BY <1>2, <3>3, PrefixCollides
  <2>2. CASE ~\E j \in cand..Failure : trace[j] = trace[1]
    <3>1. ~(steps >= Budget)
      BY <1>4, <1>5, <1>7, <2>2
    <3>2. ~Intact(trace[at])
      BY <1>1, <3>1
    <3> QED BY <1>2, <1>3, <1>7, <3>2, PrefixBlocked
  <2> QED BY <2>1, <2>2
<1>9. (JumpCollides' <=> JumpCollides) /\ (Separate' <=> Separate)
  BY <1>1, Same
<1> QED BY <1>1, <1>8, <1>9 DEF PrefixInv

-----------------------------------------------------------------------------
(* Each action, on the program without what is not executed. *)

LEMMA NopErases ==
    ASSUME IInv, op = "nop", NopUnexecuted
    PROVE  NopInv'
<1>1. /\ op' = "nop" /\ phase' = "run" /\ at' = 1 /\ phase = "nops"
      /\ patch' = [x \in Image |->
                     IF \E h \in Swept \ KeptByWindow : x \in Footprint(h)
                     THEN LET h == CHOOSE y \in Swept : x \in Footprint(y)
                          IN  <<"nop", x - h + 1, size[h] \div 2>>
                     ELSE patch[x]]
      /\ UNCHANGED <<generated, op, size, trace, cand, steps>>
  BY DEF NopUnexecuted
<1>2. Edited /\ steps = 0 /\ \A x \in Image : patch[x] = Kept
  BY <1>1 DEF IInv, NopInv
<1>3. Failure \in Nat /\ Failure > 1
  BY <1>2, TraceIs
<1>4. ASSUME NEW x \in Image
      PROVE  patch'[x] = Kept \/ \E h \in Swept \ KeptByWindow : x \in Footprint(h)
  <2>1. CASE \E h \in Swept \ KeptByWindow : x \in Footprint(h)
    BY <2>1
  <2>2. CASE ~\E h \in Swept \ KeptByWindow : x \in Footprint(h)
    BY <1>1, <1>2, <2>2
  <2> QED BY <2>1, <2>2
<1>5. Swept' = Swept
  BY <1>1 DEF Swept
<1>6. KeptByWindow' = KeptByWindow
  BY <1>1, <1>5 DEF KeptByWindow, Near, Index, Executed
<1>7. \A x \in Image : patch'[x] = Kept
                       \/ \E h \in Swept' \ KeptByWindow' : x \in Footprint(h)'
  BY <1>1, <1>4, <1>5, <1>6 DEF Footprint
<1>8. at' \in 1..Failure' /\ steps' = at' - 1
  BY <1>1, <1>2, <1>3 DEF Failure
<1> QED BY <1>1, <1>7, <1>8 DEF NopInv

\* What is executed is swept and kept, and nothing swept overlaps it.
LEMMA NopIntact ==
    ASSUME Edited, op = "nop", Separate, NEW j \in 1..Failure,
           \A x \in Image : \/ patch[x] = Kept
                            \/ \E h \in Swept \ KeptByWindow : x \in Footprint(h)
    PROVE  Intact(trace[j])
<1>1. trace[j] \in Executed
  BY TraceIs
<1>2. trace[j] \in Swept /\ trace[j] \in KeptByWindow
  BY <1>1 DEF Separate, KeptByWindow
<1>3. size \in [Code -> {2, 4}] /\ Swept \subseteq Code
  BY TraceIs, SweptPrecedents
<1>4. ASSUME NEW x \in Footprint(trace[j]), patch[x] # Kept PROVE FALSE
  <2>1. x \in Image
    BY <1>1, FootprintIs
  <2>2. PICK h \in Swept : h # trace[j] /\ x \in Footprint(h)
    BY <1>2, <1>4, <2>1
  <2>3. PICK g \in Swept : g = trace[j]
    BY <1>2
  <2>4. g \in Nat /\ h \in Nat /\ size[g] \div 2 \in {1, 2} /\ size[h] \div 2 \in {1, 2}
    BY <1>3, ProgramAssumption DEF Code
  <2>5. x \in g..g + size[g] \div 2 - 1 /\ x \in h..h + size[h] \div 2 - 1
    BY <1>4, <2>2, <2>3 DEF Footprint
  <2>6. CASE g < h
    <3>1. Behind(g) <= h
      BY <1>3, <2>6, SweptApart
    <3> QED BY <2>4, <2>5, <3>1 DEF Behind
  <2>7. CASE h < g
    <3>1. Behind(h) <= g
      BY <1>3, <2>7, SweptApart
    <3> QED BY <2>4, <2>5, <3>1 DEF Behind
  <2> QED BY <2>2, <2>3, <2>4, <2>6, <2>7
<1> QED BY <1>4 DEF Intact

LEMMA NopRuns ==
    ASSUME IInv, op = "nop", Retrace \/ Lose
    PROVE  NopInv'
<1>1. /\ op' = "nop" /\ phase = "run"
      /\ UNCHANGED <<generated, op, size, trace, cand, patch>>
  BY DEF Retrace, Lose
<1>2. /\ Edited /\ at \in 1..Failure /\ steps = at - 1
      /\ \A x \in Image : \/ patch[x] = Kept
                          \/ \E h \in Swept \ KeptByWindow : x \in Footprint(h)
  BY <1>1 DEF IInv, NopInv
<1>3. Failure \in Nat /\ at \in Nat
  BY <1>2, TraceIs
<1>4. Swept' = Swept
  BY <1>1 DEF Swept
<1>5. KeptByWindow' = KeptByWindow
  BY <1>1, <1>4 DEF KeptByWindow, Near, Index, Executed
<1>6. \A x \in Image : patch'[x] = Kept
                       \/ \E h \in Swept' \ KeptByWindow' : x \in Footprint(h)'
  BY <1>1, <1>2, <1>4, <1>5 DEF Footprint
<1>7. Failure' = Failure /\ (Separate' <=> Separate)
  BY <1>1, Same
<1>8. Budget = Failure
  BY DEF Budget
<1>9. CASE Retrace
  <2>1. /\ steps' = steps + 1
        /\ phase' = IF at = Failure THEN "reached" ELSE "run"
        /\ at' = IF at = Failure THEN at ELSE at + 1
    BY <1>9 DEF Retrace
  <2>2. CASE at = Failure
    <3>1. steps' = Failure' /\ phase' = "reached"
      BY <1>2, <1>3, <1>7, <2>1, <2>2
    <3> QED BY <1>6, <3>1 DEF NopInv
  <2>3. CASE at # Failure
    <3>1. at' \in 1..Failure' /\ steps' = at' - 1 /\ phase' = "run"
      BY <1>2, <1>3, <1>7, <2>1, <2>3
    <3> QED BY <1>6, <3>1 DEF NopInv
  <2> QED BY <2>2, <2>3
<1>10. CASE Lose
  <2>1. phase' = "lost" /\ (steps >= Budget \/ ~Intact(trace[at]))
    BY <1>10 DEF Lose
  <2>2. ~(steps >= Failure)
    BY <1>2, <1>3
  <2>3. ~Separate
    BY <1>1, <1>2, <1>8, <2>1, <2>2, NopIntact
  <2> QED BY <1>6, <1>7, <2>1, <2>3 DEF NopInv
<1> QED BY <1>9, <1>10

-----------------------------------------------------------------------------
(* The invariant holds at first, and every step keeps it. *)

LEMMA AddressIs ==
    ASSUME NEW h \in Code
    PROVE  Address(h) \in Words
<1>1. h \in Nat /\ h < Halfwords /\ Halfwords \in Nat
  BY ProgramAssumption DEF Code
<1>2. PICK m \in Nat : m = Pow2[Width] /\ 2 * Halfwords <= m
  BY WordIs, RegisterAssumption
<1>3. 2 * h \in 0..(m - 1)
  BY <1>1, <1>2
<1> QED BY <1>2, <1>3 DEF Address, Words

\* Nothing has been generated, neither of a constant nor of a jump.
LEMMA GenInit ==
    ASSUME NothingYet, far \in BOOLEAN, value \in Words, rest \in Words,
           \/ stage = "split" /\ rest = value
           \/ stage = "jump"
           \/ stage = "none" /\ ~far
    PROVE  GenInv
<1>1. shifts = <<>> /\ reg = 0 /\ insts = 0
  BY DEF NothingYet
<1>2. shifts \in Seq(Parts) /\ insts \in Nat
  BY <1>1
<1>3. stage \in {"split", "jump", "none"} /\ (stage = "none" => ~far)
  OBVIOUS
<1>4. GeneratedOK
  BY <1>2, <1>3 DEF GeneratedOK
<1>5. Building
  <2>1. stage = "split" => Builds(rest, shifts, value)
    BY <1>1, BuildsNothing
  <2> QED BY <1>3, <2>1 DEF Building
<1>6. OneOrTwo /\ LoadsUnlessCarry /\ JumpsArrive
  BY <1>3 DEF OneOrTwo, LoadsUnlessCarry, JumpsArrive
<1> QED BY <1>4, <1>5, <1>6 DEF GenInv

LEMMA InitInv ==
    ASSUME EditInit
    PROVE  IInv
<1>1. NothingYet /\ patch = [h \in Image |-> Kept] /\ at = 0 /\ steps = 0
  BY DEF EditInit, Unpatched
<1>2. \A x \in Image : patch[x] = Kept
  BY <1>1
<1>3. \A v \in Values \cup Origins \cup Targets : v \in Words
  BY ValueAssumption DEF Words
<1>4. CASE op = "none"
  <2>1. /\ phase = "encode"
        /\ \/ \E v \in Values : LoadOf(v)
           \/ \E o \in Origins, t \in Targets, l \in BOOLEAN : JumpFrom(o, t, l)
    BY <1>4 DEF EditInit
  <2>2. GenInv
    <3>1. CASE \E v \in Values : LoadOf(v)
      BY <1>1, <1>3, <3>1, GenInit DEF LoadOf
    <3>2. CASE \E o \in Origins, t \in Targets, l \in BOOLEAN : JumpFrom(o, t, l)
      BY <1>1, <1>3, <3>2, GenInit DEF JumpFrom
    <3> QED BY <2>1, <3>1, <3>2
  <2>3. Edited /\ SuffixInv /\ PrefixInv /\ NopInv
    BY <1>4, <2>1 DEF Edited, SuffixInv, PrefixInv, NopInv
  <2> QED BY <2>2, <2>3 DEF IInv
<1>5. CASE op # "none"
  <2>1. /\ size \in [Code -> {2, 4}] /\ trace \in Traces
        /\ \A h \in Executed : Footprint(h) \subseteq Code
        /\ \/ /\ op = "suffix" /\ phase = "encode"
              /\ cand \in 1..Failure /\ SuffixCandidate(cand)
              /\ JumpFrom(Address(trace[cand]), Address(trace[Failure]), FALSE)
           \/ /\ op = "prefix" /\ phase = "nops"
              /\ cand \in 1..Failure /\ PrefixCandidate(cand)
              /\ \E c \in ContextPcs : JumpFrom(Address(trace[1]), c, TRUE)
           \/ /\ op = "nop" /\ phase = "nops"
              /\ cand \in Windows
              /\ stage = "none" /\ value = 0 /\ rest = 0 /\ far = FALSE
    BY <1>5 DEF EditInit
  <2>2. Edited
    BY <2>1 DEF Edited, JumpFrom
  <2>3. \A j \in 1..Failure : trace[j] \in Code
    BY <1>5, <2>2, TraceIs
  <2>4. 1 \in 1..Failure /\ Failure \in 1..Failure
    BY <1>5, <2>2, TraceIs
  <2>5. GenInv
    <3>1. CASE op = "suffix"
      BY <1>1, <2>1, <2>3, <2>4, <3>1, AddressIs, GenInit DEF JumpFrom
    <3>2. CASE op = "prefix"
      <4>1. PICK c \in ContextPcs : JumpFrom(Address(trace[1]), c, TRUE)
        BY <2>1, <3>2
      <4>2. c \in Words
        BY RegisterAssumption DEF Words
      <4> QED BY <1>1, <2>3, <2>4, <4>1, <4>2, AddressIs, GenInit DEF JumpFrom
    <3>3. CASE op = "nop"
      <4>1. stage = "none" /\ value = 0 /\ rest = 0 /\ far = FALSE
        BY <2>1, <3>3
      <4>2. 0 \in Words
        <5>1. PICK m \in Nat \ {0} : m = Pow2[Width]
          BY WordIs
        <5> QED BY <5>1 DEF Words
      <4> QED BY <1>1, <4>1, <4>2, GenInit
    <3> QED BY <2>1, <3>1, <3>2, <3>3
  <2>6. SuffixInv
    BY <1>1, <1>2, <2>1 DEF SuffixInv
  <2>7. PrefixInv
    <3>1. CASE op = "prefix"
      <4>1. phase = "nops" /\ cand \in Nat /\ cand > 1
        BY <2>1, <2>2, <3>1, PrefixIs
      <4>2. at \in Nat /\ at + 2 = 2 /\ at + 2 <= cand
        BY <1>1, <4>1
      <4>3. PrefixNops(2) = {}
        BY PrefixNopsGrow
      <4>4. PrefixNopped(2)
        BY <1>2, <4>3 DEF PrefixNopped
      <4> QED BY <1>1, <4>1, <4>2, <4>4 DEF PrefixInv
    <3>2. CASE op # "prefix"
      BY <3>2 DEF PrefixInv
    <3> QED BY <3>1, <3>2
  <2>8. NopInv
    BY <1>1, <1>2, <2>1 DEF NopInv
  <2> QED BY <2>2, <2>5, <2>6, <2>7, <2>8 DEF IInv
<1> QED BY <1>4, <1>5

\* The three edits do not meet: an action on one leaves the others' parts.
LEMMA OneEdit ==
    ASSUME op' = op, GenInv', Edited',
           op = "suffix" => SuffixInv',
           op = "prefix" => PrefixInv',
           op = "nop" => NopInv'
    PROVE  IInv'
BY DEF IInv, SuffixInv, PrefixInv, NopInv

\* What an edit knows of its program is only read.
LEMMA StillEdited ==
    ASSUME Edited, UNCHANGED <<op, size, trace, cand, far>>,
           phase' \in {"encode", "nops", "run", "reached", "lost", "panic"},
           op = "none" => phase' = "encode"
    PROVE  Edited'
BY DEF Edited, Executed, Footprint, SuffixCandidate, PrefixCandidate, IsFirstVisit, Failure

LEMMA EncodeInv ==
    ASSUME IInv, Encode
    PROVE  IInv'
<1>1. Generate /\ UNCHANGED edit /\ phase = "encode"
  BY DEF Encode
<1>2. GenInv'
  BY <1>1, GenerateInv DEF IInv
<1>3. far' = far
  BY <1>1 DEF Generate, SplitOff, LoadWord, Combine, JumpNear, JumpFar, NoJump
<1>4. Edited'
  BY <1>1, <1>3, StillEdited DEF IInv, edit
<1>5. op = "suffix" => SuffixInv'
  BY <1>1 DEF IInv, SuffixInv, edit
<1>6. op = "nop" => NopInv'
  BY <1>1 DEF IInv, NopInv, edit
<1> QED BY <1>1, <1>2, <1>4, <1>5, <1>6, PrefixEncodes, OneEdit DEF edit

LEMMA WriteInv ==
    ASSUME IInv, WriteJump \/ NopSuffix \/ EndSuffix \/ NopPrefix \/ EndPrefix
    PROVE  IInv'
<1>1. /\ UNCHANGED <<generated, op, size, trace, cand>>
      /\ op \in {"suffix", "prefix"}
      /\ phase' \in {"encode", "nops", "run"}
  BY DEF WriteJump, NopSuffix, EndSuffix, NopPrefix, EndPrefix
<1>2. GenInv'
  BY <1>1, GenUnchanged DEF IInv
<1>3. Edited'
  BY <1>1, StillEdited DEF IInv, generated
<1>4. op = "suffix" => SuffixInv'
  BY SuffixWrites, SuffixNopped, SuffixEnds DEF NopPrefix, EndPrefix
<1>5. op = "prefix" => PrefixInv'
  BY PrefixWrites, PrefixNopsOne, PrefixEnds DEF NopSuffix, EndSuffix
<1> QED BY <1>1, <1>2, <1>3, <1>4, <1>5, OneEdit

LEMMA RunInv ==
    ASSUME IInv, Retrace \/ TakeJump \/ Lose
    PROVE  IInv'
<1>1. /\ UNCHANGED <<generated, op, size, trace, cand, patch>>
      /\ phase = "run" /\ phase' \in {"run", "reached", "lost"}
  BY DEF Retrace, TakeJump, Lose
<1>2. op # "none"
  BY <1>1 DEF IInv, Edited
<1>3. GenInv' /\ Edited'
  BY <1>1, <1>2, Same DEF IInv
<1>4. op = "suffix" => SuffixInv'
  BY SuffixRetraces, SuffixTakes, SuffixLoses
<1>5. op = "prefix" => PrefixInv'
  BY PrefixRetraces, PrefixTakes, PrefixLoses
<1>6. op = "nop" => NopInv'
  BY NopRuns DEF TakeJump
<1> QED BY <1>1, <1>3, <1>4, <1>5, <1>6, OneEdit

LEMMA EraseInv ==
    ASSUME IInv, NopUnexecuted \/ SweepPanics
    PROVE  IInv'
<1>1. /\ UNCHANGED <<generated, op, size, trace, cand>>
      /\ op = "nop" /\ phase' \in {"run", "panic"}
  BY DEF NopUnexecuted, SweepPanics
<1>2. GenInv'
  BY <1>1, GenUnchanged DEF IInv
<1>3. Edited'
  BY <1>1, StillEdited DEF IInv, generated
<1>4. NopInv'
  <2>1. CASE NopUnexecuted
    BY <1>1, <2>1, NopErases
  <2>2. CASE SweepPanics
    BY <1>1, <2>2 DEF SweepPanics, NopInv
  <2> QED BY <2>1, <2>2
<1> QED BY <1>1, <1>2, <1>3, <1>4, OneEdit

LEMMA StutterInv ==
    ASSUME IInv, UNCHANGED all
    PROVE  IInv'
<1>1. /\ UNCHANGED <<generated, op, size, trace, cand, patch>>
      /\ UNCHANGED <<phase, at, steps>>
  BY DEF all, edit
<1>2. GenInv'
  BY <1>1, GenUnchanged DEF IInv
<1>3. Edited'
  BY <1>1, StillEdited DEF IInv, Edited, generated
<1>4. /\ SuffixLaid(Failure)' <=> SuffixLaid(Failure)
      /\ PrefixLaid' <=> PrefixLaid
      /\ JumpCollides' <=> JumpCollides
      /\ Separate' <=> Separate
      /\ Budget' = Budget /\ Failure' = Failure
      /\ \A j : Hits(j)' <=> Hits(j)
  BY <1>1, Same
<1>5. SuffixInv'
  <2>1. SuffixLaid(at)' <=> SuffixLaid(at)
    BY <1>1 DEF SuffixLaid, SuffixNops, SkippedBySuffix, Visited, Footprint,
       Jump, JumpPart, Failure, generated
  <2>2. SuffixRun' <=> SuffixRun
    BY <1>1, <1>4 DEF SuffixRun, SuffixPlace, generated
  <2> QED BY <1>1, <1>4, <2>1, <2>2 DEF IInv, SuffixInv, generated
<1>6. PrefixInv'
  <2>1. /\ PrefixNopped(at + 2)' <=> PrefixNopped(at + 2)
        /\ PrefixNopped(cand)' <=> PrefixNopped(cand)
    BY <1>1 DEF PrefixNopped, PrefixNops, SkippedByPrefix, Visited, Footprint, Failure
  <2>2. PrefixRun' <=> PrefixRun
    BY <1>1, <1>4 DEF PrefixRun, PrefixPlace, generated
  <2> QED BY <1>1, <1>4, <2>1, <2>2 DEF IInv, PrefixInv
<1>7. NopInv'
  <2>1. Swept' = Swept
    BY <1>1 DEF Swept
  <2>2. KeptByWindow' = KeptByWindow
    BY <1>1, <2>1 DEF KeptByWindow, Near, Index, Executed
  <2>3. \A h : Footprint(h)' = Footprint(h)
    BY <1>1 DEF Footprint
  <2> QED BY <1>1, <1>4, <2>1, <2>2, <2>3 DEF IInv, NopInv
<1> QED BY <1>2, <1>3, <1>5, <1>6, <1>7 DEF IInv

LEMMA ProgramStep ==
    ASSUME IInv, [EditNext]_all
    PROVE  IInv'
<1>1. CASE EditNext
  BY <1>1, EncodeInv, WriteInv, EraseInv, RunInv, StutterInv DEF EditNext, Ended
<1>2. CASE UNCHANGED all
  BY <1>2, StutterInv
<1> QED BY <1>1, <1>2

LEMMA ProgramInv == EditSpec => []IInv
<1>1. EditInit => IInv
  BY InitInv
<1>2. IInv /\ [EditNext]_all => IInv'
  BY ProgramStep
<1> QED BY <1>1, <1>2, PTL DEF EditSpec

-----------------------------------------------------------------------------
\* append_load_u64 loads every constant of a register's width, in however
\* many parts, unless the word the constant comes down to carries.
THEOREM LoadsUnlessCarryHolds == EditSpec => []LoadsUnlessCarry
<1>1. IInv => LoadsUnlessCarry
  BY DEF IInv, GenInv
<1> QED BY <1>1, ProgramInv, PTL

\* encode_jmp answers with a jump that arrives, or with none because neither
\* encoding reaches so far.
THEOREM JumpsArriveHolds == EditSpec => []JumpsArrive
<1>1. IInv => JumpsArrive
  BY DEF IInv, GenInv
<1> QED BY <1>1, ProgramInv, PTL

\* Every candidate of strip_suffix.rs, strip_prefix.rs and nop.rs, over every
\* program and trace, runs to the failure with exactly its budget, unless its
\* jump lies on what is executed.
THEOREM ReachesFailureHolds == EditSpec => []ReachesFailure
<1>1. ASSUME IInv PROVE ReachesFailure
  <2>1. op = "suffix" => ReachesFailure
    BY <1>1 DEF IInv, SuffixInv, ReachesFailure
  <2>2. op = "prefix" => ReachesFailure
    BY <1>1 DEF IInv, PrefixInv, ReachesFailure
  <2>3. op = "nop" => ReachesFailure
    <3>1. op = "nop" => ~JumpCollides /\ Budget = Failure
      BY DEF JumpCollides, Budget
    <3> QED BY <1>1, <3>1 DEF IInv, NopInv, ReachesFailure
  <2>4. op = "none" => ReachesFailure
    BY <1>1 DEF IInv, Edited, ReachesFailure
  <2> QED BY <1>1, <2>1, <2>2, <2>3, <2>4 DEF IInv, Edited
<1> QED BY <1>1, ProgramInv, PTL

-----------------------------------------------------------------------------
(* Rounding up. *)

LEMMA NaturalDivision ==
    ASSUME NEW v \in Nat, NEW a \in Nat \ {0}
    PROVE  /\ v = a * (v \div a) + (v % a)
           /\ v % a \in 0..(a - 1)
           /\ v \div a \in Nat
OBVIOUS

LEMMA Multiple ==
    ASSUME NEW a \in Nat \ {0}, NEW q \in Nat
    PROVE  (a * q) % a = 0
<1>1. 0 \in 0..(a - 1) /\ a * q \in Int /\ a * q = a * q + 0
  OBVIOUS
<1> QED BY <1>1, Remainder

\* AlignUp answers with the least multiple that is not below the value.
LEMMA AlignUpLeast ==
    ASSUME NEW v \in Nat, NEW a \in Nat \ {0}
    PROVE  /\ AlignUp(v, a) \in Nat
           /\ v <= AlignUp(v, a)
           /\ AlignUp(v, a) % a = 0
           /\ \A m \in Nat : (m % a = 0 /\ v <= m) => AlignUp(v, a) <= m
<1> DEFINE q == v \div a
<1>1. v = a * q + (v % a) /\ v % a \in 0..(a - 1) /\ q \in Nat
  BY NaturalDivision
<1>2. CASE v % a = 0
  BY <1>2 DEF AlignUp
<1>3. CASE v % a # 0
  <2>1. AlignUp(v, a) = v + (a - (v % a))
    BY <1>3 DEF AlignUp
  <2>2. AlignUp(v, a) = a * (q + 1)
    BY <1>1, <2>1
  <2>3. AlignUp(v, a) % a = 0
    BY <1>1, <2>2, Multiple
  <2>4. ASSUME NEW m \in Nat, m % a = 0, v <= m
        PROVE  AlignUp(v, a) <= m
    <3> DEFINE n == m \div a
    <3>1. m = a * n /\ n \in Nat
      BY <2>4, NaturalDivision
    <3>2. q < n
      <4>1. a * q < a * n
        BY <1>1, <1>3, <2>4, <3>1
      <4> SUFFICES ASSUME n <= q PROVE FALSE
        BY <1>1, <3>1
      <4>2. a * n <= a * q
        BY <1>1, <3>1
      <4> QED BY <1>1, <3>1, <4>1, <4>2
    <3>3. a * (q + 1) <= a * n
      BY <1>1, <3>1, <3>2
    <3> QED BY <2>2, <3>1, <3>3
  <2> QED BY <1>1, <2>1, <2>3, <2>4
<1> QED BY <1>2, <1>3

-----------------------------------------------------------------------------
(* The inductive invariant. *)

Placing == {"estimate", "search", "assemble", "insert"}

\* The segments stay sorted until something is inserted.
StillSorted == pc \in Placing => Sorted(segs)

\* What the search has left behind is occupied, and nothing there would do.
Occupied ==
    pc = "search" =>
        /\ wanted > 0
        /\ segs # <<>> => scanned >= 1
        /\ \A i \in 1..scanned : End(segs[i]) <= cursor
        /\ \A a \in Addresses :
             (segs # <<>> /\ a % Align = 0 /\ End(segs[1]) <= a /\ Free(a, wanted))
                => cursor <= a

\* From the first attempt on the code at hand is the code for contextPc.
CodeAtHand ==
    /\ pc = "estimate" => rounds = 0
    /\ pc = "assemble" => rounds < MaxRounds
    /\ pc = "insert" => rounds > 0
    /\ (pc \in {"search", "insert"} /\ rounds > 0) =>
         /\ assembled = [start |-> contextPc, size |-> codeSize[contextPc]]

PlacingInv ==
    /\ TypeOK
    /\ StillSorted
    /\ Occupied
    /\ CodeAtHand
    /\ InsertedInPlace

-----------------------------------------------------------------------------
LEMMA SegmentEnds ==
    ASSUME TypeOK
    PROVE  /\ Len(segs) \in Nat
           /\ \A i \in 1..Len(segs) :
                segs[i].start \in Addresses /\ segs[i].size \in Nat /\ End(segs[i]) \in Nat
<1>1. Len(segs) \in Nat /\ \A i \in 1..Len(segs) : segs[i] \in Segments
  BY DEF TypeOK
<1>2. \A t \in Segments : t.start \in Addresses /\ t.size \in Nat /\ End(t) \in Nat
  BY AddressAssumption DEF Segments, End, Addresses
<1> QED BY <1>1, <1>2

LEMMA CandidateLeast ==
    ASSUME TypeOK
    PROVE  /\ Candidate \in Nat
           /\ cursor <= Candidate
           /\ Candidate % Align = 0
           /\ \A a \in Nat : (a % Align = 0 /\ cursor <= a) => Candidate <= a
BY AlignUpLeast, AlignAssumption DEF TypeOK, Candidate

\* A gap that the search finds touches no segment.
LEMMA GapIsFree ==
    ASSUME PlacingInv, pc = "search", FoundGap
    PROVE  Free(Candidate, wanted) /\ Candidate \in Addresses
<1> USE DEF PlacingInv
<1>1. wanted \in Nat /\ cursor \in Nat /\ scanned \in 0..Len(segs)
  BY DEF TypeOK
<1>2. ASSUME NEW i \in 1..Len(segs)
      PROVE  End(segs[i]) <= Candidate \/ Candidate + wanted <= segs[i].start
  <2>1. CASE i <= scanned
    <3>1. End(segs[i]) <= cursor
      BY <2>1, <1>1, SegmentEnds DEF Occupied
    <3> QED BY <3>1, <1>1, CandidateLeast, SegmentEnds
  <2>2. CASE i > scanned
    <3>1. scanned + 1 \in 1..Len(segs) /\ scanned # Len(segs)
      BY <2>2, <1>1, SegmentEnds
    <3>2. Candidate + wanted <= segs[scanned + 1].start
      BY <3>1 DEF FoundGap, FitsBefore
    <3>3. segs[scanned + 1].start <= segs[i].start
      <4>1. i = scanned + 1 \/ scanned + 1 < i
        BY <2>2, <1>1
      <4>2. Sorted(segs) /\ DOMAIN segs = 1..Len(segs)
        BY DEF StillSorted, Placing, TypeOK
      <4>3. segs[i].start \in Int
        BY SegmentEnds DEF Addresses
      <4> QED BY <4>1, <4>2, <4>3, <3>1 DEF Sorted
    <3> QED BY <3>1, <3>2, <3>3, <1>1, CandidateLeast, SegmentEnds, AddressAssumption DEF Addresses
  <2> QED BY <2>1, <2>2, <1>1, SegmentEnds
<1>3. DOMAIN segs = 1..Len(segs)
  BY DEF TypeOK
<1>4. Candidate <= Top
  <2>1. CASE scanned = Len(segs)
    BY <2>1 DEF FoundGap
  <2>2. CASE scanned # Len(segs)
    <3>1. Candidate + wanted <= segs[scanned + 1].start
      BY <2>2 DEF FoundGap, FitsBefore
    <3>2. segs[scanned + 1].start \in 0..Top
      BY <2>2, <1>1, SegmentEnds DEF Addresses
    <3> QED BY <3>1, <3>2, <1>1, CandidateLeast, AddressAssumption
  <2> QED BY <2>1, <2>2
<1> QED BY <1>2, <1>3, <1>4, CandidateLeast, AddressAssumption DEF Free, Addresses

LEMMA PlaceFacts == PlacingInv => PlaceIsFree /\ PlaceIsFirst
<1> SUFFICES ASSUME PlacingInv, pc = "search", FoundGap
             PROVE  /\ Free(Candidate, wanted) /\ Candidate % Align = 0
                    /\ segs # <<>> =>
                         \A a \in Addresses :
                            (a % Align = 0 /\ End(segs[1]) <= a /\ Free(a, wanted))
                                => Candidate <= a
  BY DEF PlaceIsFree, PlaceIsFirst
<1>1. Free(Candidate, wanted) /\ Candidate % Align = 0
  BY GapIsFree, CandidateLeast DEF PlacingInv
<1>2. ASSUME segs # <<>>, NEW a \in Addresses, a % Align = 0,
             End(segs[1]) <= a, Free(a, wanted)
      PROVE  Candidate <= a
  <2>1. cursor <= a
    BY <1>2 DEF PlacingInv, Occupied
  <2> QED BY <2>1, <1>2, CandidateLeast, AddressAssumption DEF PlacingInv, Addresses
<1> QED BY <1>1, <1>2

-----------------------------------------------------------------------------
(* The initial state and the steps. *)

LEMMA PlacingInit == Init => PlacingInv
<1> SUFFICES ASSUME Init PROVE PlacingInv
  OBVIOUS
<1>1. segs \in Seq(Segments) /\ Sorted(segs)
  BY LayoutAssumption DEF Init
<1>2. TypeOK
  BY <1>1, AddressAssumption, RoundAssumption
     DEF Init, TypeOK, Nowhere, Segments, Addresses
<1> QED BY <1>1, <1>2
        DEF Init, PlacingInv, StillSorted, Occupied, CodeAtHand, InsertedInPlace

\* A new search has only left the first segment behind.
LEMMA SearchStarts ==
    ASSUME TypeOK, Sorted(segs), NEW bytes \in Nat, StartSearch(bytes),
           UNCHANGED segs
    PROVE  /\ wanted' \in Nat /\ scanned' \in 0..Len(segs) /\ cursor' \in Nat
           /\ pc' \in {"none", "search"}
           /\ Occupied'
<1>1. AlignUp(bytes, Page) \in Nat /\ bytes <= AlignUp(bytes, Page)
  BY AlignUpLeast, AlignAssumption
<1>2. /\ wanted' = AlignUp(bytes, Page)
      /\ pc' \in {"none", "search"}
      /\ pc' = "search" => bytes # 0
  BY DEF StartSearch
<1>3. wanted' > 0 \/ pc' # "search"
  BY <1>1, <1>2
<1>4. segs' = segs
  OBVIOUS
<1>5. CASE segs = <<>>
  <2>1. scanned' = 0 /\ cursor' = 0 /\ Len(segs) = 0
    BY <1>5 DEF StartSearch
  <2>2. \A i \in 1..scanned' : End(segs'[i]) <= cursor'
    BY <2>1
  <2>3. Occupied'
    BY <1>3, <1>4, <1>5, <2>2 DEF Occupied
  <2> QED BY <1>1, <1>2, <2>1, <2>3
<1>6. CASE segs # <<>>
  <2>1. Len(segs) \in Nat \ {0} /\ 1 \in 1..Len(segs)
    BY <1>6 DEF TypeOK
  <2>2. scanned' = 1 /\ cursor' = End(segs[1]) /\ End(segs[1]) \in Nat
    BY <1>6, <2>1, SegmentEnds DEF StartSearch
  <2>3. \A i \in 1..scanned' : End(segs'[i]) <= cursor'
    BY <2>2, <1>4
  <2>4. \A a \in Addresses : End(segs'[1]) <= a => cursor' <= a
    BY <2>2, <1>4
  <2>5. scanned' >= 1
    BY <2>2
  <2>6. Occupied'
    BY <1>3, <2>3, <2>4, <2>5 DEF Occupied
  <2> QED BY <1>1, <1>2, <2>1, <2>2, <2>6
<1> QED BY <1>5, <1>6

LEMMA EstimateInv ==
    ASSUME PlacingInv, NEW bytes \in Estimates, Estimate(bytes)
    PROVE  PlacingInv'
<1> USE DEF PlacingInv
<1>1. /\ bytes \in Nat /\ StartSearch(bytes) /\ pc = "estimate"
      /\ UNCHANGED <<segs, codeSize, contextPc, assembled, rounds, inserted>>
  BY SizeAssumption DEF Estimate
<1>2. /\ wanted' \in Nat /\ scanned' \in 0..Len(segs) /\ cursor' \in Nat
      /\ pc' \in {"none", "search"} /\ Occupied'
  BY <1>1, SearchStarts DEF StillSorted, Placing
<1>3. TypeOK'
  BY <1>1, <1>2 DEF TypeOK
<1>4. CodeAtHand'
  BY <1>1, <1>2 DEF CodeAtHand
<1> QED BY <1>1, <1>2, <1>3, <1>4 DEF StillSorted, Placing, InsertedInPlace

LEMMA SkipSegmentInv ==
    ASSUME PlacingInv, SkipSegment
    PROVE  PlacingInv'
<1> USE DEF PlacingInv
<1> DEFINE s == segs[scanned + 1]
<1>1. /\ pc = "search" /\ pc' \in {"none", "search"}
      /\ scanned < Len(segs) /\ scanned' = scanned + 1
      /\ ~FitsBefore(s) /\ cursor' = CursorAfter(s)
      /\ UNCHANGED <<segs, codeSize, wanted, contextPc, assembled, rounds, inserted>>
  BY DEF SkipSegment
<1>2. /\ scanned \in Nat /\ scanned' \in 1..Len(segs)
      /\ wanted \in Nat /\ cursor \in Nat
      /\ Len(segs) \in Nat /\ DOMAIN segs = 1..Len(segs)
  BY <1>1, SegmentEnds DEF TypeOK
<1>3. s.start \in Addresses /\ s.size \in Nat /\ End(s) \in Nat
  BY <1>1, <1>2, SegmentEnds
<1>4. cursor' \in Nat /\ cursor <= cursor' /\ End(s) <= cursor'
      /\ (cursor' = cursor \/ cursor' = End(s))
  BY <1>1, <1>2, <1>3 DEF CursorAfter
<1>5. TypeOK'
  BY <1>1, <1>2, <1>4 DEF TypeOK
<1>6. ASSUME NEW i \in 1..scanned' PROVE End(segs'[i]) <= cursor'
  <2>1. CASE i <= scanned
    <3>1. End(segs[i]) <= cursor /\ End(segs[i]) \in Nat
      BY <2>1, <1>1, <1>2, SegmentEnds DEF Occupied
    <3> QED BY <3>1, <1>1, <1>2, <1>4
  <2>2. CASE i = scanned + 1
    BY <2>2, <1>1, <1>4
  <2> QED BY <2>1, <2>2, <1>1, <1>2
<1>7. ASSUME NEW a \in Addresses, a % Align = 0, End(segs[1]) <= a,
             Free(a, wanted), segs # <<>>
      PROVE  cursor' <= a
  <2>1. cursor <= a
    BY <1>1, <1>7 DEF Occupied
  <2>2. a \in Nat /\ Candidate <= a
    BY <2>1, <1>7, CandidateLeast, AddressAssumption DEF Addresses
  <2>3. a + wanted > s.start
    BY <2>2, <1>1, <1>2, <1>3, CandidateLeast, AddressAssumption
       DEF FitsBefore, Addresses
  <2>4. End(s) <= a
    BY <2>3, <1>2, <1>3, <1>7, <1>1, <2>2, AddressAssumption DEF Free, Addresses
  <2> QED BY <2>1, <2>4, <1>4
<1>8. Occupied'
  <2>1. \A a \in Addresses : Free(a, wanted)' <=> Free(a, wanted)
    BY <1>1 DEF Free
  <2>2. wanted' > 0 /\ scanned' >= 1
    BY <1>1, <1>2 DEF Occupied
  <2> HIDE DEF s
  <2> QED BY <2>1, <2>2, <1>1, <1>6, <1>7 DEF Occupied
<1>9. CodeAtHand'
  BY <1>1 DEF CodeAtHand
<1> QED BY <1>1, <1>5, <1>8, <1>9 DEF StillSorted, Placing, InsertedInPlace

LEMMA PlaceInv ==
    ASSUME PlacingInv, Place
    PROVE  PlacingInv'
<1> USE DEF PlacingInv
<1>1. /\ pc = "search" /\ FoundGap /\ contextPc' = Candidate
      /\ UNCHANGED <<segs, codeSize, wanted, scanned, cursor, assembled, rounds, inserted>>
  BY DEF Place
<1>2. \/ pc' = "insert" /\ Agrees
      \/ pc' = "none"
      \/ pc' = "assemble" /\ rounds # MaxRounds
  BY DEF Place, RoundsUsedUp
<1>3. Candidate \in Addresses
  BY <1>1, GapIsFree
<1>4. TypeOK'
  BY <1>1, <1>2, <1>3 DEF TypeOK
<1>5. CodeAtHand'
  <2>1. rounds \in 0..MaxRounds
    BY DEF TypeOK
  <2>2. CASE pc' = "insert" /\ Agrees
    BY <1>1, <2>1, <2>2 DEF CodeAtHand, Agrees
  <2>3. CASE pc' = "none"
    BY <2>3 DEF CodeAtHand
  <2>4. CASE pc' = "assemble" /\ rounds # MaxRounds
    BY <1>1, <2>1, <2>4, RoundAssumption DEF CodeAtHand
  <2> QED BY <1>2, <2>2, <2>3, <2>4
<1> QED BY <1>1, <1>2, <1>4, <1>5 DEF StillSorted, Placing, Occupied, InsertedInPlace

LEMMA StopInv ==
    ASSUME PlacingInv, NoPlace \/ GiveUp
    PROVE  PlacingInv'
<1> USE DEF PlacingInv
<1>1. /\ pc' = "none"
      /\ UNCHANGED <<segs, codeSize, wanted, scanned, cursor, contextPc,
                     assembled, rounds, inserted>>
  BY DEF NoPlace, GiveUp
<1> QED BY <1>1 DEF TypeOK, StillSorted, Placing, Occupied, CodeAtHand, InsertedInPlace

LEMMA AssembleInv ==
    ASSUME PlacingInv, Assemble
    PROVE  PlacingInv'
<1> USE DEF PlacingInv
<1>1. /\ pc = "assemble"
      /\ assembled' = [start |-> contextPc, size |-> codeSize[contextPc]]
      /\ rounds' = rounds + 1 /\ StartSearch(codeSize[contextPc])
      /\ UNCHANGED <<segs, codeSize, contextPc, inserted>>
  BY DEF Assemble
<1>2. codeSize[contextPc] \in Nat
  BY SizeAssumption DEF TypeOK
<1>3. /\ wanted' \in Nat /\ scanned' \in 0..Len(segs) /\ cursor' \in Nat
      /\ pc' \in {"none", "search"} /\ Occupied'
  BY <1>1, <1>2, SearchStarts DEF StillSorted, Placing
<1>4. rounds' \in 0..MaxRounds
  BY <1>1, RoundAssumption DEF TypeOK, CodeAtHand
<1>5. assembled' \in Segments
  BY <1>1, <1>2 DEF TypeOK, Segments
<1>6. TypeOK'
  BY <1>1, <1>3, <1>4, <1>5 DEF TypeOK
<1>7. CodeAtHand'
  BY <1>1, <1>3 DEF CodeAtHand
<1> QED BY <1>1, <1>3, <1>6, <1>7 DEF StillSorted, Placing, InsertedInPlace

LEMMA InsertInv ==
    ASSUME PlacingInv, NEW moved \in Seq(Segments), Insert(moved)
    PROVE  PlacingInv'
<1> USE DEF PlacingInv
<1> DEFINE mapped == [start |-> contextPc, size |-> AlignUp(assembled.size, Page)]
           loaded == segs \o moved
<1>1. /\ pc = "insert"
      /\ UNCHANGED <<codeSize, wanted, scanned, cursor, contextPc, assembled, rounds>>
  BY DEF Insert
<1>2. /\ segs \in Seq(Segments) /\ contextPc \in Addresses /\ rounds > 0
      /\ assembled = [start |-> contextPc, size |-> codeSize[contextPc]]
      /\ codeSize \in CodeSizes
  BY <1>1 DEF TypeOK, CodeAtHand
<1>3. /\ assembled.size \in Nat /\ AlignUp(assembled.size, Page) \in Nat
      /\ assembled.size <= AlignUp(assembled.size, Page)
  BY <1>2, SizeAssumption, AlignUpLeast, AlignAssumption
<1>4. loaded \in Seq(Segments) /\ Len(loaded) = Len(segs) + Len(moved)
      /\ Len(loaded) \in Nat /\ Len(segs) \in Nat /\ Len(segs) <= Len(loaded)
  BY <1>2, ConcatProperties
<1>5. CASE pc' = "none" /\ UNCHANGED <<segs, inserted>>
  BY <1>1, <1>5 DEF TypeOK, StillSorted, Placing, Occupied, CodeAtHand, InsertedInPlace
<1>6. CASE pc' = "inserted" /\ segs' = loaded /\ inserted' = mapped
           /\ ~ \E i \in DOMAIN loaded : Overlaps(mapped, loaded[i])
  <2>1. mapped \in Segments
    BY <1>2, <1>3 DEF Segments
  <2>2. scanned \in 0..Len(loaded)
    BY <1>4 DEF TypeOK
  <2>3. TypeOK'
    BY <1>1, <1>4, <1>6, <2>1, <2>2 DEF TypeOK
  <2>4. Free(inserted.start, inserted.size)'
    <3>1. SUFFICES ASSUME NEW i \in DOMAIN loaded
                   PROVE  \/ End(loaded[i]) <= contextPc
                          \/ contextPc + mapped.size <= loaded[i].start
      BY <1>6 DEF Free
    <3>2. loaded[i] \in Segments
      BY <1>4
    <3>3. End(loaded[i]) \in Nat /\ loaded[i].start \in Nat
      BY <3>2, AddressAssumption DEF Segments, End, Addresses
    <3>4. contextPc \in Nat /\ End(mapped) = contextPc + mapped.size /\ End(mapped) \in Nat
      BY <1>2, <1>3, AddressAssumption DEF End, Addresses
    <3>5. ~Overlaps(mapped, loaded[i])
      BY <1>6
    <3> HIDE DEF loaded
    <3> QED BY <3>3, <3>4, <3>5 DEF Overlaps
  <2>5. InsertedInPlace'
    BY <1>1, <1>2, <1>3, <1>6, <2>4 DEF InsertedInPlace
  <2> QED BY <1>6, <2>3, <2>5 DEF StillSorted, Placing, Occupied, CodeAtHand
<1> QED BY <1>5, <1>6 DEF Insert

LEMMA PlacingStep == PlacingInv /\ [Next]_vars => PlacingInv'
<1> SUFFICES ASSUME PlacingInv, [Next]_vars PROVE PlacingInv'
  OBVIOUS
<1>1. ASSUME NEW bytes \in Estimates, Estimate(bytes) PROVE PlacingInv'
  BY <1>1, EstimateInv
<1>2. CASE SkipSegment
  BY <1>2, SkipSegmentInv
<1>3. CASE Place
  BY <1>3, PlaceInv
<1>4. CASE NoPlace \/ GiveUp
  BY <1>4, StopInv
<1>5. CASE Assemble
  BY <1>5, AssembleInv
<1>6. CASE Insert(<<>>)
  <2>1. <<>> \in Seq(Segments)
    OBVIOUS
  <2> QED BY <1>6, <2>1, InsertInv
<1>7. ASSUME NEW s \in Relocations, Insert(<<s>>) PROVE PlacingInv'
  <2>1. <<s>> \in Seq(Segments)
    BY RelocationAssumption
  <2> QED BY <1>7, <2>1, InsertInv
<1>8. CASE UNCHANGED vars
  BY <1>8 DEF vars, PlacingInv, TypeOK, StillSorted, Placing, Occupied, CodeAtHand,
              InsertedInPlace, Free
<1> QED BY <1>1, <1>2, <1>3, <1>4, <1>5, <1>6, <1>7, <1>8 DEF Next, Finished

LEMMA PlacingInvariance == Spec => []PlacingInv
<1>1. Init => PlacingInv
  BY PlacingInit
<1>2. PlacingInv /\ [Next]_vars => PlacingInv'
  BY PlacingStep
<1> QED BY <1>1, <1>2, PTL DEF Spec

\* The search stays within the segments and the loop within its attempts.
THEOREM PlacingTypeCorrect == Spec => []TypeOK
<1>1. PlacingInv => TypeOK
  BY DEF PlacingInv
<1> QED BY <1>1, PlacingInvariance, PTL

\* find_insert_vaddr answers with an aligned range that no LOAD segment
\* reaches into, for every number and overlap of segments, every alignment
\* and every address width.
THEOREM FoundPlaceIsFree == Spec => []PlaceIsFree
<1>1. PlacingInv => PlaceIsFree
  BY PlaceFacts
<1> QED BY <1>1, PlacingInvariance, PTL

\* No aligned and free range after the first segment is passed over.
THEOREM FoundPlaceIsFirst == Spec => []PlaceIsFirst
<1>1. PlacingInv => PlaceIsFirst
  BY PlaceFacts
<1> QED BY <1>1, PlacingInvariance, PTL

\* The inserted code is the code assembled for the address it got, whatever
\* the assembler's sizes, and touches nothing else.
THEOREM CodeInserted == Spec => []InsertedInPlace
<1>1. PlacingInv => InsertedInPlace
  BY DEF PlacingInv
<1> QED BY <1>1, PlacingInvariance, PTL
=============================================================================
