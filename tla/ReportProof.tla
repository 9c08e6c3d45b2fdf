----------------------------- MODULE ReportProof -----------------------------
(***************************************************************************)
(* Proofs about what a report says: about Report, for every number of      *)
(* points and passing cases, and about Blocks, for every design.           *)
(***************************************************************************)
EXTENDS Report, Blocks, SequenceTheorems, Ordering

-----------------------------------------------------------------------------
(* The inductive invariant. *)

\* The failing case comes last and is the only one.
FailingCaseLast ==
    /\ Len(caseMetas) >= 1
    /\ \A i \in DOMAIN caseMetas : caseMetas[i].passed <=> i # Len(caseMetas)

\* Counting is over exactly when the ranking begins.
CountedAll == IF pc = "count" THEN counted < Len(caseMetas)
              ELSE counted = Len(caseMetas)

Executed(p) == p \in caseMetas[Len(caseMetas)].covers

\* The failing case leaves its mark on every point once it is counted.
OneFailure ==
    \A p \in Points :
        IF counted = Len(caseMetas)
        THEN /\ stats[p].ef = IF Executed(p) THEN 1 ELSE 0
             /\ stats[p].nf = IF Executed(p) THEN 0 ELSE 1
        ELSE stats[p].ef = 0 /\ stats[p].nf = 0

\* A case that was counted left its mark on every point it executes.
ExecutionsCounted ==
    \A p \in Points, i \in 1..counted :
        p \in caseMetas[i].covers => stats[p].ef + stats[p].ep >= 1

IInv ==
    /\ TypeOK
    /\ FailingCaseLast
    /\ CountedAll
    /\ OneFailure
    /\ ExecutionsCounted
    /\ ReportCompletes

-----------------------------------------------------------------------------
\* The case that report_result finds again is the last one.
LEMMA InitialCaseIsLast ==
    ASSUME caseMetas \in Seq(Cases), FailingCaseLast
    PROVE  InitialCase = caseMetas[Len(caseMetas)]
<1> DEFINE Q(i) == /\ ~caseMetas[i].passed
                   /\ \A j \in DOMAIN caseMetas : j < i => caseMetas[j].passed
<1>1. DOMAIN caseMetas = 1..Len(caseMetas) /\ Len(caseMetas) \in Nat
  OBVIOUS
<1>2. Len(caseMetas) \in DOMAIN caseMetas /\ Q(Len(caseMetas))
  BY <1>1 DEF FailingCaseLast
<1>3. \A i \in DOMAIN caseMetas : Q(i) => i = Len(caseMetas)
  BY <1>1 DEF FailingCaseLast
<1> HIDE DEF Q
<1>4. (CHOOSE i \in DOMAIN caseMetas : Q(i)) = Len(caseMetas)
  BY <1>2, <1>3
<1> QED BY <1>4 DEF InitialCase, Q

\* One more case keeps counters natural and adds one to exactly one of them.
LEMMA StepCounts ==
    ASSUME NEW s \in Stats, NEW covered \in BOOLEAN, NEW passed \in BOOLEAN
    PROVE  /\ Step(s, covered, passed) \in Stats
           /\ Step(s, covered, passed).ef + Step(s, covered, passed).ep
              + Step(s, covered, passed).nf + Step(s, covered, passed).np
                = s.ef + s.ep + s.nf + s.np + 1
           /\ Step(s, covered, passed).ef =
                IF covered /\ ~passed THEN s.ef + 1 ELSE s.ef
           /\ Step(s, covered, passed).nf =
                IF ~covered /\ ~passed THEN s.nf + 1 ELSE s.nf
           /\ Step(s, covered, passed).ep =
                IF covered /\ passed THEN s.ep + 1 ELSE s.ep
<1>1. CASE covered /\ passed
  BY <1>1 DEF Step, Stats
<1>2. CASE covered /\ ~passed
  BY <1>2 DEF Step, Stats
<1>3. CASE ~covered /\ passed
  BY <1>3 DEF Step, Stats
<1>4. CASE ~covered /\ ~passed
  BY <1>4 DEF Step, Stats
<1> QED BY <1>1, <1>2, <1>3, <1>4

\* A case leaves its mark in ef or ep of a point it executes, for good.
LEMMA StepMarks ==
    ASSUME NEW s \in Stats, NEW covered \in BOOLEAN, NEW passed \in BOOLEAN
    PROVE  Step(s, covered, passed).ef + Step(s, covered, passed).ep
                 = s.ef + s.ep + (IF covered THEN 1 ELSE 0)
<1> USE DEF Step, Stats
<1>1. CASE covered /\ passed
  BY <1>1
<1>2. CASE covered /\ ~passed
  BY <1>2
<1>3. CASE ~covered /\ passed
  BY <1>3
<1>4. CASE ~covered /\ ~passed
  BY <1>4
<1> QED BY <1>1, <1>2, <1>3, <1>4

\* Under the failure metrics a point that the one failing case does not
\* execute scores 0, under GP19 if a passing case executes it.
LEMMA UnexecutedScoresZero ==
    ASSUME NEW s \in Stats, s.ef = 0, s.nf = 1,
           metric \in FailureMetrics \/ (metric = "GP19" /\ s.ep >= 1)
    PROVE  MetricScore(s).num = 0 /\ MetricScore(s).den \in Nat \ {0}
<1> USE DEF Stats, Fraction, Zero
<1>1. CASE metric = "Tarantula"
  BY <1>1 DEF MetricScore, Tarantula
<1>2. CASE metric = "Ochiai"
  <2>1. (s.ef + s.nf) * (s.ef + s.ep) = s.ep /\ s.ef * s.ef = 0
    OBVIOUS
  <2>2. Ochiai(s) = IF s.ep > 0 THEN Fraction(0, s.ep) ELSE Zero
    BY <2>1 DEF Ochiai
  <2>3. MetricScore(s) = Ochiai(s)
    BY <1>2 DEF MetricScore
  <2> QED BY <2>2, <2>3
<1>3. CASE metric = "Jaccard"
  BY <1>3 DEF MetricScore, Jaccard
<1>4. CASE metric = "Dstar"
  <2>1. s.ef * s.ef = 0 /\ s.ep + s.nf > 0
    OBVIOUS
  <2>2. Dstar(s) = Fraction(0, s.ep + s.nf)
    BY <2>1 DEF Dstar
  <2>3. MetricScore(s) = Dstar(s)
    BY <1>4 DEF MetricScore
  <2> QED BY <2>2, <2>3
<1>5. CASE metric = "Zoltar"
  BY <1>5 DEF MetricScore, Zoltar
<1>6. CASE metric = "GP19" /\ s.ep >= 1
  <2> DEFINE weight == 2 * s.ep + s.ef
  <2>1. weight \in Nat \ {0} /\ s.ef + s.nf = 1
    BY <1>6
  <2>2. GP19(s) = Fraction(s.ef * (weight + 1), weight)
    BY <2>1 DEF GP19
  <2>3. s.ef * (weight + 1) = 0
    BY <2>1
  <2>4. MetricScore(s) = GP19(s)
    BY <1>6 DEF MetricScore
  <2> QED BY <2>1, <2>2, <2>3, <2>4
<1> QED BY <1>1, <1>2, <1>3, <1>4, <1>5, <1>6 DEF FailureMetrics

\* What a point that the one failing case executes scores under the failure
\* metrics: it only depends on the passing cases that execute it.
LEMMA ExecutedScore ==
    ASSUME metric \in FailureMetrics, NEW s \in Stats, s.ef = 1, s.nf = 0
    PROVE  MetricScore(s) =
             IF metric = "Tarantula"
             THEN IF s.ep + s.np = 0 THEN Fraction(1, 1)
                  ELSE Fraction(s.ep + s.np, s.ep + s.np + s.ep)
             ELSE IF metric = "Dstar" THEN Fraction(1, s.ep)
             ELSE Fraction(1, 1 + s.ep)
<1> USE DEF Stats, Fraction, Zero
<1>1. CASE metric = "Tarantula"
  <2> DEFINE passes == s.ep + s.np
  <2>1. s.ef * passes = passes /\ s.ep * (s.ef + s.nf) = s.ep
    OBVIOUS
  <2>2. Tarantula(s) = IF passes = 0 THEN Fraction(1, 1)
                       ELSE Fraction(passes, passes + s.ep)
    BY <2>1 DEF Tarantula
  <2>3. MetricScore(s) = Tarantula(s)
    BY <1>1 DEF MetricScore
  <2> QED BY <1>1, <2>2, <2>3
<1>2. CASE metric = "Ochiai"
  <2>1. (s.ef + s.nf) * (s.ef + s.ep) = 1 + s.ep /\ s.ef * s.ef = 1
    OBVIOUS
  <2>2. Ochiai(s) = Fraction(1, 1 + s.ep)
    BY <2>1 DEF Ochiai
  <2>3. MetricScore(s) = Ochiai(s)
    BY <1>2 DEF MetricScore
  <2> QED BY <1>2, <2>2, <2>3
<1>3. CASE metric = "Jaccard"
  <2>1. Jaccard(s) = Fraction(1, 1 + s.ep)
    BY DEF Jaccard
  <2>2. MetricScore(s) = Jaccard(s)
    BY <1>3 DEF MetricScore
  <2> QED BY <1>3, <2>1, <2>2
<1>4. CASE metric = "Dstar"
  <2>1. s.ef * s.ef = 1
    OBVIOUS
  <2>2. Dstar(s) = Fraction(1, s.ep)
    BY <2>1 DEF Dstar, Infinite
  <2>3. MetricScore(s) = Dstar(s)
    BY <1>4 DEF MetricScore
  <2> QED BY <1>4, <2>2, <2>3
<1>5. CASE metric = "Zoltar"
  <2>1. /\ s.ef * s.ef = 1
        /\ s.ef * (s.ef + s.nf + s.ep) = 1 + s.ep
        /\ 10000 * s.nf * s.ep = 0
    OBVIOUS
  <2>2. Zoltar(s) = Fraction(1, 1 + s.ep)
    BY <2>1 DEF Zoltar
  <2>3. MetricScore(s) = Zoltar(s)
    BY <1>5 DEF MetricScore
  <2> QED BY <1>5, <2>2, <2>3
<1> QED BY <1>1, <1>2, <1>3, <1>4, <1>5 DEF FailureMetrics

\* Such a point scores more than 0, also under GP19.
LEMMA ExecutedScoresMore ==
    ASSUME metric \in FailureMetrics \cup {"GP19"}, NEW s \in Stats, s.ef = 1, s.nf = 0
    PROVE  MetricScore(s).num \in Nat \ {0} /\ MetricScore(s).den \in Nat
<1>1. s.ep \in Nat /\ s.np \in Nat
  BY DEF Stats
<1>2. CASE metric \in FailureMetrics
  BY <1>1, <1>2, ExecutedScore DEF Fraction
<1>3. CASE metric = "GP19"
  <2> DEFINE weight == 2 * s.ep + s.ef
  <2>1. weight \in Nat \ {0} /\ s.ef * (weight + 1) = weight + 1 /\ s.ef + s.nf = 1
    BY <1>1
  <2>2. GP19(s) = Fraction(s.ef * (weight + 1), weight)
    BY <2>1 DEF GP19
  <2>3. MetricScore(s) = GP19(s)
    BY <1>3 DEF MetricScore
  <2> QED BY <2>1, <2>2, <2>3 DEF Fraction
<1> QED BY <1>2, <1>3

\* If each point is executed by some case then some counter says so.
LEMMA CountedExecution ==
    ASSUME TypeOK, ExecutionsCounted, counted = Len(caseMetas), AllExecuted,
           NEW p \in Points
    PROVE  stats[p].ef + stats[p].ep >= 1
<1>1. PICK i \in DOMAIN caseMetas : p \in caseMetas[i].covers
  BY DEF AllExecuted
<1>2. i \in 1..counted
  BY <1>1 DEF TypeOK
<1> QED BY <1>1, <1>2 DEF ExecutionsCounted

\* An executed point therefore outranks every point that is not.
LEMMA ExecutedAbove ==
    ASSUME TypeOK, OneFailure, ExecutionsCounted, counted = Len(caseMetas), Completing,
           NEW p \in Points, Executed(p), NEW q \in Points, ~Executed(q)
    PROVE  Above(p, q)
<1>6. metric \in FailureMetrics \/ (metric = "GP19" /\ stats[q].ep >= 1)
  <2>1. stats[q].ef = 0 /\ stats[q].ep \in Nat
    BY DEF OneFailure, TypeOK, Stats
  <2> QED BY <2>1, CountedExecution DEF Completing
<1>1. /\ stats[p] \in Stats /\ stats[p].ef = 1 /\ stats[p].nf = 0
      /\ stats[q] \in Stats /\ stats[q].ef = 0 /\ stats[q].nf = 1
  BY DEF TypeOK, OneFailure
<1>2. Score(p).num \in Nat \ {0} /\ Score(p).den \in Nat
  BY <1>1, <1>6, ExecutedScoresMore DEF Score
<1>3. Score(q).num = 0 /\ Score(q).den \in Nat \ {0}
  BY <1>1, <1>6, UnexecutedScoresZero DEF Score
<1>4. Score(p).num * Score(q).den > 0
  BY <1>2, <1>3
<1>5. Score(q).num * Score(p).den = 0
  BY <1>2, <1>3
<1> QED BY <1>4, <1>5 DEF Above, Exceeds

\* No score is NaN under the failure metrics, nor under GP19 of a point that
\* some case executes.
LEMMA NoNaN ==
    ASSUME TypeOK, OneFailure, ExecutionsCounted, counted = Len(caseMetas), Completing
    PROVE  ~SortPanics
<1>1. ASSUME NEW p \in Points PROVE Score(p) # NaN
  <2>1. stats[p] \in Stats
    BY DEF TypeOK
  <2>2. CASE Executed(p)
    <3>1. stats[p].ef = 1 /\ stats[p].nf = 0
      BY <2>2 DEF OneFailure
    <3>2. Score(p).num \in Nat \ {0}
      BY <2>1, <3>1, ExecutedScoresMore DEF Score, Completing
    <3> QED BY <3>2 DEF NaN, Fraction
  <2>3. CASE ~Executed(p)
    <3>1. stats[p].ef = 0 /\ stats[p].nf = 1 /\ stats[p].ep \in Nat
      BY <2>1, <2>3 DEF OneFailure, Stats
    <3>2. metric \in FailureMetrics \/ (metric = "GP19" /\ stats[p].ep >= 1)
      BY <3>1, CountedExecution DEF Completing
    <3>3. Score(p).den \in Nat \ {0}
      BY <2>1, <3>1, <3>2, UnexecutedScoresZero DEF Score
    <3> QED BY <3>3 DEF NaN, Fraction
  <2> QED BY <2>2, <2>3
<1> QED BY <1>1 DEF SortPanics

\* The three other metrics divide by positive numbers only.
LEMMA OthersNumbers ==
    ASSUME NEW s \in Stats, s.ef + s.nf = 1, metric \in {"Barinel", "Crosstab", "Ample"}
    PROVE  MetricScore(s) # NaN
<1> USE DEF Fraction, NaN, Zero
<1>1. s.ef \in Nat /\ s.ep \in Nat /\ s.nf \in Nat /\ s.np \in Nat
  BY DEF Stats
<1>2. CASE metric = "Barinel"
  <2>1. Barinel(s).den = 1
    BY DEF Barinel
  <2>2. MetricScore(s) = Barinel(s)
    BY <1>2 DEF MetricScore
  <2> QED BY <2>1, <2>2
<1>3. CASE metric = "Crosstab"
  <2> DEFINE n == s.ef + s.ep + s.nf + s.np
             expected == (s.ef + s.ep) * (s.ef + s.nf)
             gap == Distance(s.ef * n, expected)
  <2>1. expected = s.ef + s.ep /\ n \in Nat /\ n >= 1
    BY <1>1
  <2>2. Crosstab(s) = IF expected > 0 THEN Fraction(gap * gap, n * expected) ELSE Zero
    BY DEF Crosstab
  <2>3. MetricScore(s) = Crosstab(s)
    BY <1>3 DEF MetricScore
  <2>4. expected \in Nat
    BY <1>1, <2>1
  <2> HIDE DEF n, expected, gap
  <2>5. \A a, b \in Nat : a >= 1 /\ b > 0 => a * b # 0
    OBVIOUS
  <2>6. expected > 0 => n * expected # 0
    BY <2>1, <2>4, <2>5
  <2> QED BY <2>2, <2>3, <2>6
<1>4. CASE metric = "Ample"
  <2> DEFINE failed == s.ef + s.nf
             passes == s.ep + s.np
  <2>1. failed = 1 /\ passes \in Nat
    BY <1>1
  <2>2. Ample(s) = IF failed > 0 /\ passes > 0
                   THEN Fraction(Distance(s.ef * passes, s.ep * failed), failed * passes)
                   ELSE IF failed > 0 THEN Fraction(s.ef, failed) ELSE Zero
    BY DEF Ample
  <2>3. MetricScore(s) = Ample(s)
    BY <1>4 DEF MetricScore
  <2> HIDE DEF failed, passes
  <2>4. failed * passes = passes
    BY <2>1
  <2> QED BY <2>1, <2>2, <2>3, <2>4
<1> QED BY <1>2, <1>3, <1>4

\* Only GP19 has a score that is not a number, and only of a point that no
\* case executes.
LEMMA NaNUnexecuted ==
    ASSUME TypeOK, OneFailure, ExecutionsCounted, counted = Len(caseMetas), SortPanics
    PROVE  metric = "GP19" /\ ~AllExecuted
<1>1. PICK p \in Points : Score(p) = NaN
  BY DEF SortPanics
<1>2. stats[p] \in Stats /\ stats[p].ef + stats[p].nf = 1
  BY DEF TypeOK, OneFailure
<1>3. ~Completing
  BY NoNaN
<1>4. metric \notin {"Barinel", "Crosstab", "Ample"}
  BY <1>1, <1>2, OthersNumbers DEF Score
<1>5. metric \in AllMetrics
  BY MetricAssumption DEF TypeOK
<1> QED BY <1>3, <1>4, <1>5 DEF Completing, FailureMetrics, AllMetrics

\* A point outside the failing case comes after all points of that case.
LEMMA LateOutside ==
    ASSUME TypeOK, OneFailure, ExecutionsCounted, counted = Len(caseMetas), Completing,
           NEW q \in Points, ~Executed(q)
    PROVE  Cardinality({p \in Points : Executed(p)}) <= Position(q)
<1> DEFINE E == {p \in Points : Executed(p)}
           A == {p \in Points : Above(p, q)}
<1>1. E \subseteq A
  BY ExecutedAbove
<1>2. IsFiniteSet(Points)
  BY PointAssumption, FS_Interval DEF Points
<1>3. IsFiniteSet(A)
  BY <1>2, FS_Subset
<1>4. Cardinality(E) <= Cardinality(A)
  BY <1>1, <1>3, FS_Subset
<1> QED BY <1>4 DEF Position

-----------------------------------------------------------------------------
(* The initial state and the steps. *)

LEMMA InitInv == Init => IInv
<1> SUFFICES ASSUME Init PROVE IInv
  OBVIOUS
<1>1. PICK n \in 0..MaxPassing :
        \E passing \in [1..n -> SUBSET Points], covers \in SUBSET Points :
          caseMetas = [i \in 1..(n + 1) |-> IF i = n + 1 THEN Failing(covers)
                                            ELSE Passing(passing[i])]
  BY DEF Init
<1>11. PICK passing \in [1..n -> SUBSET Points], covers \in SUBSET Points :
        caseMetas = [i \in 1..(n + 1) |-> IF i = n + 1 THEN Failing(covers)
                                          ELSE Passing(passing[i])]
  BY <1>1
<1>2. n \in Nat
  BY <1>1, CaseAssumption
<1>3. /\ caseMetas \in [1..(n + 1) -> Cases]
      /\ \A i \in 1..(n + 1) : caseMetas[i].passed <=> i # n + 1
  BY <1>11, <1>2 DEF Failing, Passing, Cases
<1>4. caseMetas \in Seq(Cases) /\ Len(caseMetas) = n + 1
  BY <1>2, <1>3
<1>5. FailingCaseLast
  BY <1>2, <1>3, <1>4 DEF FailingCaseLast
<1>6. stats = [p \in Points |-> [ef |-> 0, ep |-> 0, nf |-> 0, np |-> 0]]
      /\ counted = 0
  BY DEF Init
<1>7. TypeOK
  BY <1>4, <1>2, <1>6 DEF TypeOK, Init, Stats
<1>8. CountedAll
  BY <1>4, <1>2 DEF CountedAll, Init
<1>9. OneFailure
  BY <1>6, <1>4, <1>2 DEF OneFailure
<1>12. ExecutionsCounted
  BY <1>6 DEF ExecutionsCounted
<1>10. ReportCompletes
  BY DEF ReportCompletes, Init
<1> QED BY <1>5, <1>7, <1>8, <1>9, <1>10, <1>12 DEF IInv

LEMMA CountCaseInv ==
    ASSUME IInv, CountCase
    PROVE  IInv'
<1> USE DEF IInv
<1> DEFINE n == Len(caseMetas)
           case == caseMetas[counted + 1]
<1>1. /\ n \in Nat /\ counted \in 0..n /\ counted < n
      /\ counted' = counted + 1 /\ counted' \in 0..n
      /\ caseMetas' = caseMetas /\ metric' = metric
  BY DEF CountCase, TypeOK
<1>2. case \in Cases /\ (case.passed <=> counted + 1 # n)
  BY <1>1 DEF TypeOK, FailingCaseLast
<1>3. stats' = [p \in Points |-> Step(stats[p], p \in case.covers, case.passed)]
  BY DEF CountCase
<1>4. case.passed \in BOOLEAN
  BY <1>2 DEF Cases
<1>5. ASSUME NEW p \in Points
      PROVE  /\ stats'[p] \in Stats
             /\ stats'[p].ef + stats'[p].ep + stats'[p].nf + stats'[p].np = counted'
             /\ stats'[p].ef = IF p \in case.covers /\ ~case.passed
                               THEN stats[p].ef + 1 ELSE stats[p].ef
             /\ stats'[p].nf = IF p \notin case.covers /\ ~case.passed
                               THEN stats[p].nf + 1 ELSE stats[p].nf
  <2>1. stats[p] \in Stats
        /\ stats[p].ef + stats[p].ep + stats[p].nf + stats[p].np = counted
    BY DEF TypeOK
  <2>2. (p \in case.covers) \in BOOLEAN
    OBVIOUS
  <2>3. stats'[p] = Step(stats[p], p \in case.covers, case.passed)
    BY <1>3
  <2> DEFINE covered == p \in case.covers
             next == Step(stats[p], covered, case.passed)
  <2>4. covered \in BOOLEAN /\ stats'[p] = next
    BY <2>3
  <2> HIDE DEF case, covered
  <2>5. /\ next \in Stats
        /\ next.ef + next.ep + next.nf + next.np
           = stats[p].ef + stats[p].ep + stats[p].nf + stats[p].np + 1
        /\ next.ef = IF covered /\ ~case.passed THEN stats[p].ef + 1 ELSE stats[p].ef
        /\ next.nf = IF ~covered /\ ~case.passed THEN stats[p].nf + 1 ELSE stats[p].nf
    BY <2>1, <2>4, <1>4, StepCounts, Zenon
  <2> HIDE DEF next
  <2>6. next.ef + next.ep + next.nf + next.np = counted'
    BY <2>1, <2>5, <1>1
  <2> QED BY <2>4, <2>5, <2>6 DEF covered
<1>6. pc' \in {"count", "rank"} /\ (pc' = "count" <=> counted' < n)
      /\ UNCHANGED <<printed, converted, blocks>>
  BY <1>1 DEF CountCase
<1>7. TypeOK'
  <2>1. stats' \in [Points -> Stats]
    BY <1>3, <1>5
  <2> QED BY <2>1, <1>1, <1>5, <1>6 DEF TypeOK
<1>8. FailingCaseLast'
  BY <1>1 DEF FailingCaseLast
<1>9. CountedAll'
  BY <1>1, <1>6 DEF CountedAll
<1>10. OneFailure'
  <2> SUFFICES ASSUME NEW p \in Points
               PROVE  IF counted' = n
                      THEN /\ stats'[p].ef = IF Executed(p) THEN 1 ELSE 0
                           /\ stats'[p].nf = IF Executed(p) THEN 0 ELSE 1
                      ELSE stats'[p].ef = 0 /\ stats'[p].nf = 0
    BY <1>1 DEF OneFailure, Executed
  <2>1. stats[p].ef = 0 /\ stats[p].nf = 0
    BY <1>1 DEF OneFailure
  <2>2. CASE counted' = n
    <3>1. ~case.passed /\ (Executed(p) <=> p \in case.covers)
      BY <1>1, <1>2, <2>2 DEF Executed
    <3> QED BY <2>1, <2>2, <3>1, <1>5
  <2>3. CASE counted' # n
    <3>1. case.passed
      BY <1>1, <1>2, <2>3
    <3> QED BY <2>1, <2>3, <3>1, <1>5
  <2> QED BY <2>2, <2>3
<1>11. ReportCompletes'
  BY <1>6 DEF ReportCompletes
<1>12. ExecutionsCounted'
  <2> SUFFICES ASSUME NEW p \in Points, NEW i \in 1..(counted + 1),
                      p \in caseMetas[i].covers
               PROVE  stats'[p].ef + stats'[p].ep >= 1
    <3>1. 1..counted' = 1..(counted + 1) /\ caseMetas' = caseMetas
      BY <1>1
    <3> QED BY <3>1 DEF ExecutionsCounted
  <2> DEFINE covered == p \in case.covers
             before == stats[p].ef + stats[p].ep
             after == stats'[p].ef + stats'[p].ep
  <2>1. stats[p] \in Stats /\ before \in Nat
    BY DEF TypeOK, Stats
  <2>2. covered \in BOOLEAN
    OBVIOUS
  <2>3. after = before + (IF covered THEN 1 ELSE 0)
    BY <1>3, <1>4, <2>1, <2>2, StepMarks
  <2>4. covered \/ before >= 1
    <3>1. CASE i = counted + 1
      BY <3>1
    <3>2. CASE i # counted + 1
      <4>1. i \in 1..counted
        BY <1>1, <3>2
      <4> QED BY <4>1 DEF ExecutionsCounted
    <3> QED BY <3>1, <3>2
  <2> HIDE DEF covered, before, after
  <2>5. after >= 1
    BY <2>1, <2>3, <2>4
  <2> QED BY <2>5 DEF after
<1> QED BY <1>7, <1>8, <1>9, <1>10, <1>11, <1>12

\* Steps after the counting leave the cases and the counters alone.
LEMMA AfterCounting ==
    ASSUME IInv, pc # "count", pc' # "count",
           UNCHANGED <<metric, caseMetas, counted, stats>>
    PROVE  FailingCaseLast' /\ CountedAll' /\ OneFailure' /\ ExecutionsCounted'
BY DEF IInv, FailingCaseLast, CountedAll, OneFailure, Executed, ExecutionsCounted

LEMMA RankPointsInv ==
    ASSUME IInv, RankPoints
    PROVE  IInv'
<1> USE DEF IInv
<1>1. /\ pc = "rank" /\ pc' \in {"panic", "print"}
      /\ UNCHANGED <<metric, caseMetas, counted, stats, printed, converted, blocks>>
      /\ pc' = "panic" => SortPanics
  BY DEF RankPoints
<1>2. TypeOK'
  BY <1>1 DEF TypeOK
<1>3. FailingCaseLast' /\ CountedAll' /\ OneFailure' /\ ExecutionsCounted'
  BY <1>1, AfterCounting
<1>4. ASSUME Completing PROVE pc' # "panic"
  BY <1>1, <1>4, NoNaN DEF CountedAll
<1>5. Completing' <=> Completing
  BY <1>1 DEF Completing, AllExecuted
<1> QED BY <1>1, <1>2, <1>3, <1>4, <1>5 DEF ReportCompletes

LEMMA PrintPointInv ==
    ASSUME IInv, NEW p \in Points, PrintPoint(p)
    PROVE  IInv'
<1> USE DEF IInv
<1>1. /\ pc = "print" /\ pc' \in {"panic", "print"}
      /\ UNCHANGED <<metric, caseMetas, counted, stats, converted, blocks>>
      /\ Position(p) < TopSus
      /\ pc' = "panic" => p \notin InitialCase.covers
      /\ printed' = printed \/ printed' = Append(printed, p)
  BY DEF PrintPoint
<1>2. TypeOK'
  <2>1. printed \in Seq(Points) /\ Append(printed, p) \in Seq(Points)
    BY DEF TypeOK
  <2>2. printed' = printed \/ printed' = Append(printed, p)
    BY <1>1
  <2>3. printed' \in Seq(Points)
    BY <2>1, <2>2
  <2> QED BY <1>1, <2>3 DEF TypeOK
<1>3. FailingCaseLast' /\ CountedAll' /\ OneFailure' /\ ExecutionsCounted'
  BY <1>1, AfterCounting
<1>4. InitialCase = caseMetas[Len(caseMetas)]
  BY InitialCaseIsLast DEF TypeOK
<1>5. InitialCase' = InitialCase
  BY <1>1 DEF InitialCase
<1>6. {q \in Points : Executed(q)} = InitialCase.covers
  <2>1. caseMetas[Len(caseMetas)] \in Cases
    BY DEF TypeOK, FailingCaseLast
  <2> QED BY <1>4, <2>1 DEF Executed, Cases
<1>7. Position(p) \in Nat /\ Cardinality(InitialCase.covers) \in Nat
  <2>1. IsFiniteSet(Points)
    BY PointAssumption, FS_Interval DEF Points
  <2>2. IsFiniteSet({q \in Points : Above(q, p)}) /\ IsFiniteSet({q \in Points : Executed(q)})
    BY <2>1, FS_Subset
  <2> QED BY <2>2, <1>6, FS_CardinalityType DEF Position
<1>8. ASSUME Completing, pc' = "panic"
      PROVE  TopSus > Cardinality(InitialCase.covers)
  <2>1. ~Executed(p) /\ counted = Len(caseMetas)
    BY <1>1, <1>8, <1>6 DEF CountedAll
  <2>2. Cardinality(InitialCase.covers) <= Position(p)
    BY <2>1, <1>8, <1>6, LateOutside
  <2> QED BY <2>2, <1>1, <1>7, TopSusAssumption
<1>10. Completing' <=> Completing
  BY <1>1 DEF Completing, AllExecuted
<1>9. ReportCompletes'
  BY <1>1, <1>5, <1>8, <1>10 DEF ReportCompletes
<1> QED BY <1>2, <1>3, <1>9

LEMMA FoundBlockType ==
    ASSUME NEW p \in Points, Covering[p] # {}
    PROVE  FoundBlock(p) \in Blocks
<1>1. Covering[p] \in SUBSET Nat /\ Covering[p] \subseteq Blocks
  BY BlockAssumption
<1>2. \E b \in Covering[p] : \A c \in Covering[p] : b <= c
  BY <1>1, LeastNatural
<1> QED BY <1>1, <1>2 DEF FoundBlock

LEMMA BlockStepsInv ==
    ASSUME IInv, \/ \E p \in Points : ConvertPoint(p)
                 \/ \E rtl \in BOOLEAN : EndPoints(rtl)
                 \/ EndBlocks
    PROVE  IInv'
<1> USE DEF IInv
<1>1. /\ pc \in {"print", "convert"} /\ pc' \in {"convert", "done"}
      /\ UNCHANGED <<metric, caseMetas, counted, stats, printed>>
  BY DEF ConvertPoint, EndPoints, EndBlocks
<1>2. converted' \in Nat
  BY DEF TypeOK, ConvertPoint, EndPoints, EndBlocks
<1>3. blocks' \in Seq(Blocks)
  <2>1. blocks \in Seq(Blocks)
    BY DEF TypeOK
  <2>2. ASSUME NEW p \in Points, ConvertPoint(p) PROVE blocks' \in Seq(Blocks)
    BY <2>1, <2>2, FoundBlockType DEF ConvertPoint
  <2>3. ASSUME EndBlocks PROVE blocks' \in Seq(Blocks)
    <3> DEFINE m == IF Len(blocks) < TopSus THEN Len(blocks) ELSE TopSus
    <3>1. m \in 0..Len(blocks)
      BY <2>1, TopSusAssumption
    <3>2. \A i \in 1..m : blocks[i] \in Blocks
      BY <2>1, <3>1
    <3>3. blocks' = SubSeq(blocks, 1, m)
      BY <2>3 DEF EndBlocks
    <3> HIDE DEF m
    <3> QED BY <3>1, <3>2, <3>3, SubSeqProperties
  <2> QED BY <2>1, <2>2, <2>3 DEF EndPoints
<1>4. TypeOK'
  BY <1>1, <1>2, <1>3 DEF TypeOK
<1>5. FailingCaseLast' /\ CountedAll' /\ OneFailure' /\ ExecutionsCounted'
  BY <1>1, AfterCounting
<1>6. ReportCompletes'
  BY <1>1 DEF ReportCompletes
<1> QED BY <1>4, <1>5, <1>6

LEMMA StutterInv ==
    ASSUME IInv, UNCHANGED vars
    PROVE  IInv'
BY DEF IInv, vars, TypeOK, FailingCaseLast, CountedAll, OneFailure, Executed,
       ExecutionsCounted, ReportCompletes, Completing, AllExecuted, InitialCase

LEMMA StepInv == IInv /\ [Next]_vars => IInv'
<1> SUFFICES ASSUME IInv, [Next]_vars PROVE IInv'
  OBVIOUS
<1>1. CASE CountCase
  BY <1>1, CountCaseInv
<1>2. CASE RankPoints
  BY <1>2, RankPointsInv
<1>3. ASSUME NEW p \in Points, PrintPoint(p) PROVE IInv'
  BY <1>3, PrintPointInv
<1>4. CASE \/ \E p \in Points : ConvertPoint(p)
           \/ \E rtl \in BOOLEAN : EndPoints(rtl)
           \/ EndBlocks
  BY <1>4, BlockStepsInv
<1>5. CASE UNCHANGED vars
  BY <1>5, StutterInv
<1> QED BY <1>1, <1>2, <1>3, <1>4, <1>5 DEF Next, Finished

LEMMA Invariance == Spec => []IInv
<1>1. Init => IInv
  BY InitInv
<1>2. IInv /\ [Next]_vars => IInv'
  BY StepInv
<1> QED BY <1>1, <1>2, PTL DEF Spec

\* The counters of calculate_coverage_stats account for every case, for every
\* number of points and cases and for all nine metrics.
THEOREM TypeCorrect == Spec => []TypeOK
<1>1. IInv => TypeOK
  BY DEF IInv
<1> QED BY <1>1, Invariance, PTL

\* Under Tarantula, Ochiai, Jaccard, Dstar and Zoltar, and under GP19 if no
\* point is left unexecuted, the report of one failing and any number of
\* passing cases never panics, unless more points are asked for than the
\* failing case executes.
THEOREM FailureMetricsComplete == Spec => []ReportCompletes
<1>1. IInv => ReportCompletes
  BY DEF IInv
<1> QED BY <1>1, Invariance, PTL

\* The sort of the ranking panics under GP19 only, and only when some point is
\* executed by no case, for every spectrum.
THEOREM SortPanicsForUnexecuted == Spec => []UndefinedOnlyUnexecuted
<1>1. IInv => UndefinedOnlyUnexecuted
  BY NaNUnexecuted DEF IInv, CountedAll, UndefinedOnlyUnexecuted
<1> QED BY <1>1, Invariance, PTL

-----------------------------------------------------------------------------
(* The order of the report: the second inductive invariant. *)

\* ep counts the passing cases that execute the point.
PassesAmong(p, n) == {i \in 1..n : caseMetas[i].passed /\ p \in caseMetas[i].covers}

PassesCounted ==
    \A p \in Points : stats[p].ep = Cardinality(PassesAmong(p, counted))

\* Printing starts after a sort that did not panic, conversion after that.
PhasesInOrder ==
    /\ pc \in {"print", "convert", "done"} => ~SortPanics
    /\ pc \in {"count", "rank"} => printed = <<>>
    /\ pc \in {"count", "rank", "print"} => converted = 0 /\ blocks = <<>>

\* The i-th point printed is the i-th of the ranking.
PrintedByRank ==
    \A i \in DOMAIN printed : Executed(printed[i]) /\ Position(printed[i]) = i - 1

HasBlock(p, b) == Covering[p] # {} /\ FoundBlock(p) = b

\* Point w is the one block i is reported for: no better point has a block
\* that is not reported before.
ReportedFor(w, i) ==
    /\ HasBlock(w, blocks[i])
    /\ \A q \in Points : (Position(q) < Position(w) /\ Covering[q] # {}) =>
          \E h \in 1..(i - 1) : HasBlock(q, blocks[h])

BlocksByRank ==
    /\ \A i, j \in DOMAIN blocks : blocks[i] = blocks[j] => i = j
    /\ \A i \in DOMAIN blocks : \E w \in Points : ReportedFor(w, i)

\* Every point converted so far has its block in the list.
ConvertedReported ==
    pc = "convert" => \A q \in Points : (Position(q) < converted /\ Covering[q] # {}) =>
                          \E h \in DOMAIN blocks : HasBlock(q, blocks[h])

RInv ==
    /\ PassesCounted
    /\ PhasesInOrder
    /\ PrintedByRank
    /\ BlocksByRank
    /\ ConvertedReported

-----------------------------------------------------------------------------
(* The ranking is a strict total order. *)

\* A score that is a number or infinite.
Number(x) == x.num \in Nat /\ x.den \in Nat /\ (x.num # 0 \/ x.den # 0)

LEMMA TimesCancel ==
    \A k, m, n \in Nat : (k > 0 /\ k * m <= k * n) => m <= n
<1> SUFFICES ASSUME NEW k \in Nat, NEW m \in Nat, NEW n \in Nat, k > 0, n < m
             PROVE  ~(k * m <= k * n)
  OBVIOUS
<1>1. k * n < k * m
  BY TimesStrict
<1>2. k * n \in Nat /\ k * m \in Nat
  OBVIOUS
<1> QED BY <1>1, <1>2

\* Comparing scores by cross-multiplication is transitive, infinite ones
\* included.
LEMMA NotExceedsTransitive ==
    ASSUME NEW a, NEW b, NEW c, Number(a), Number(b), Number(c),
           ~Exceeds(a, b), ~Exceeds(b, c)
    PROVE  ~Exceeds(a, c)
<1> DEFINE an == a.num
           ad == a.den
           bn == b.num
           bd == b.den
           cn == c.num
           cd == c.den
<1>1. /\ an \in Nat /\ ad \in Nat /\ bn \in Nat /\ bd \in Nat /\ cn \in Nat /\ cd \in Nat
      /\ bn # 0 \/ bd # 0
      /\ ~(an * bd > bn * ad)
      /\ ~(bn * cd > cn * bd)
      /\ Exceeds(a, c) <=> an * cd > cn * ad
  BY DEF Number, Exceeds
<1> HIDE DEF an, ad, bn, bd, cn, cd
<1>2. /\ an * bd \in Nat /\ bn * ad \in Nat /\ bn * cd \in Nat /\ cn * bd \in Nat
      /\ an * cd \in Nat /\ cn * ad \in Nat
  BY <1>1
<1>3. an * bd <= bn * ad /\ bn * cd <= cn * bd
  BY <1>1, <1>2
<1>4. CASE bd = 0
  <2>1. cn * bd = 0 /\ bn > 0
    BY <1>1, <1>4
  <2>2. cd = 0
    <3>1. bn * cd = 0
      BY <1>2, <1>3, <2>1
    <3>2. CASE cd > 0
      <4>1. bn * 0 < bn * cd
        BY <1>1, <2>1, <3>2, TimesStrict
      <4> QED BY <1>1, <3>1, <4>1
    <3> QED BY <1>1, <3>2
  <2>3. an * cd = 0
    BY <1>1, <2>2
  <2> QED BY <1>1, <1>2, <2>3
<1>5. CASE bd > 0
  <2>1. cd * (an * bd) <= cd * (bn * ad)
    BY <1>1, <1>2, <1>3, TimesMonotone
  <2>2. ad * (bn * cd) <= ad * (cn * bd)
    BY <1>1, <1>2, <1>3, TimesMonotone
  <2>3. cd * (an * bd) = bd * (an * cd)
    BY <1>1
  <2>4. cd * (bn * ad) = ad * (bn * cd)
    BY <1>1
  <2>5. ad * (cn * bd) = bd * (cn * ad)
    BY <1>1
  <2>6. /\ cd * (an * bd) \in Nat
        /\ cd * (bn * ad) \in Nat
        /\ ad * (cn * bd) \in Nat
    BY <1>1, <1>2
  <2>7. bd * (an * cd) <= bd * (cn * ad)
    BY <2>1, <2>2, <2>3, <2>4, <2>5, <2>6
  <2>8. an * cd <= cn * ad
    BY <1>1, <1>2, <1>5, <2>7, TimesCancel
  <2> QED BY <1>1, <1>2, <2>8
<1> QED BY <1>1, <1>4, <1>5

\* Of two scores at most one exceeds the other, and none itself.
LEMMA ExceedsOneWay ==
    ASSUME NEW a, NEW b, Number(a), Number(b), Exceeds(a, b)
    PROVE  ~Exceeds(b, a)
<1> DEFINE x == a.num * b.den
           y == b.num * a.den
<1>1. x \in Nat /\ y \in Nat /\ x > y
  BY DEF Number, Exceeds
<1>2. Exceeds(b, a) <=> y > x
  BY DEF Exceeds
<1> HIDE DEF x, y
<1> QED BY <1>1, <1>2

\* Every metric scores a point a number, infinite or NaN.
LEMMA ScoreIsNumber ==
    ASSUME TypeOK, OneFailure, counted = Len(caseMetas), NEW p \in Points,
           Score(p) # NaN
    PROVE  Number(Score(p))
<1> DEFINE s == stats[p]
<1>1. s \in Stats /\ s.ef + s.nf = 1
  BY DEF TypeOK, OneFailure
<1>2. Score(p) = MetricScore(s)
  BY DEF Score
<1> HIDE DEF s
<1>3. /\ s.ef \in Nat /\ s.ep \in Nat /\ s.nf \in Nat /\ s.np \in Nat
      /\ s.ef \in {0, 1} /\ s.nf \in {0, 1}
  BY <1>1 DEF Stats
<1>4. \A a, b \in Nat : a * b \in Nat /\ a + b \in Nat /\ Distance(a, b) \in Nat
  BY DEF Distance
<1>5. \A a, b \in Nat : Number(Fraction(a, b)) \/ Fraction(a, b) = NaN
  BY DEF Number, Fraction, NaN
<1>6. \A a, b \in Nat : MetricScore(s) = Fraction(a, b) => Number(Score(p))
  BY <1>2, <1>5
<1>7. CASE metric = "Tarantula"
  <2>1. MetricScore(s) = Tarantula(s)
    BY <1>7 DEF MetricScore
  <2>2. \E a, b \in Nat : Tarantula(s) = Fraction(a, b)
    BY <1>3, <1>4 DEF Tarantula, Zero
  <2> QED BY <1>6, <2>1, <2>2
<1>8. CASE metric = "Ochiai"
  <2>1. MetricScore(s) = Ochiai(s)
    BY <1>8 DEF MetricScore
  <2>2. \E a, b \in Nat : Ochiai(s) = Fraction(a, b)
    BY <1>3, <1>4 DEF Ochiai, Zero
  <2> QED BY <1>6, <2>1, <2>2
<1>9. CASE metric = "Jaccard"
  <2>1. MetricScore(s) = Jaccard(s)
    BY <1>9 DEF MetricScore
  <2>2. \E a, b \in Nat : Jaccard(s) = Fraction(a, b)
    BY <1>3, <1>4 DEF Jaccard, Zero
  <2> QED BY <1>6, <2>1, <2>2
<1>10. CASE metric = "Dstar"
  <2>1. MetricScore(s) = Dstar(s)
    BY <1>10 DEF MetricScore
  <2>2. \E a, b \in Nat : Dstar(s) = Fraction(a, b)
    BY <1>3, <1>4 DEF Dstar, Zero, Infinite
  <2> QED BY <1>6, <2>1, <2>2
<1>11. CASE metric = "GP19"
  <2>1. MetricScore(s) = GP19(s)
    BY <1>11 DEF MetricScore
  <2>2. \E a, b \in Nat : GP19(s) = Fraction(a, b)
    BY <1>3, <1>4 DEF GP19, Zero, NaN
  <2> QED BY <1>6, <2>1, <2>2
<1>12. CASE metric = "Barinel"
  <2>1. MetricScore(s) = Barinel(s)
    BY <1>12 DEF MetricScore
  <2>2. \E a, b \in Nat : Barinel(s) = Fraction(a, b)
    <3>1. s.ef + s.nf = 1 /\ 1 - s.ef \in Nat
      BY <1>1, <1>3
    <3> QED BY <1>3, <3>1 DEF Barinel, Zero
  <2> QED BY <1>6, <2>1, <2>2
<1>13. CASE metric = "Crosstab"
  <2>1. MetricScore(s) = Crosstab(s)
    BY <1>13 DEF MetricScore
  <2>2. \E a, b \in Nat : Crosstab(s) = Fraction(a, b)
    <3> DEFINE n == s.ef + s.ep + s.nf + s.np
               expected == (s.ef + s.ep) * (s.ef + s.nf)
               gap == Distance(s.ef * n, expected)
    <3>1. n \in Nat /\ expected \in Nat
      BY <1>3, <1>4
    <3>2. gap \in Nat
      BY <1>3, <1>4, <3>1
    <3>3. Crosstab(s) = IF expected > 0 THEN Fraction(gap * gap, n * expected) ELSE Zero
      BY DEF Crosstab
    <3> HIDE DEF n, expected, gap
    <3>4. gap * gap \in Nat /\ n * expected \in Nat
      BY <1>4, <3>1, <3>2
    <3> QED BY <3>3, <3>4 DEF Zero
  <2> QED BY <1>6, <2>1, <2>2
<1>14. CASE metric = "Zoltar"
  <2>1. MetricScore(s) = Zoltar(s)
    BY <1>14 DEF MetricScore
  <2>2. \E a, b \in Nat : Zoltar(s) = Fraction(a, b)
    <3> DEFINE all == s.ef + s.nf + s.ep
               tax == 10000 * s.nf
    <3>1. all \in Nat /\ tax \in Nat
      BY <1>3
    <3>2. Zoltar(s) = IF s.ef > 0 THEN Fraction(s.ef * s.ef, s.ef * all + tax * s.ep)
                      ELSE Zero
      BY DEF Zoltar
    <3> HIDE DEF all, tax
    <3>3. s.ef * s.ef \in Nat /\ s.ef * all \in Nat /\ tax * s.ep \in Nat
      BY <1>3, <1>4, <3>1
    <3>4. s.ef * all + tax * s.ep \in Nat
      BY <3>3
    <3> QED BY <3>2, <3>3, <3>4 DEF Zero
  <2> QED BY <1>6, <2>1, <2>2
<1>15. CASE metric = "Ample"
  <2>1. MetricScore(s) = Ample(s)
    BY <1>15 DEF MetricScore
  <2>2. \E a, b \in Nat : Ample(s) = Fraction(a, b)
    <3> DEFINE failed == s.ef + s.nf
               passes == s.ep + s.np
    <3>1. failed \in Nat /\ passes \in Nat
      BY <1>3, <1>4
    <3>2. Ample(s) \in {Fraction(Distance(s.ef * passes, s.ep * failed), failed * passes),
                        Fraction(s.ef, failed), Zero}
      BY DEF Ample
    <3> HIDE DEF failed, passes
    <3>3. Distance(s.ef * passes, s.ep * failed) \in Nat /\ failed * passes \in Nat
      BY <1>3, <1>4, <3>1
    <3> QED BY <1>3, <3>1, <3>2, <3>3 DEF Zero
  <2> QED BY <1>6, <2>1, <2>2
<1>16. metric \in AllMetrics
  BY MetricAssumption DEF TypeOK
<1> QED BY <1>7, <1>8, <1>9, <1>10, <1>11, <1>12, <1>13, <1>14, <1>15, <1>16 DEF AllMetrics

AbovePairs == {p \in Points \X Points : Above(p[1], p[2])}

PointsFinite == IsFiniteSet(Points) /\ Points \subseteq Nat

LEMMA PointsAreFinite == PointsFinite
BY PointAssumption, FS_Interval DEF PointsFinite, Points

\* After a sort that did not panic, the ranking is a strict total order and a
\* point's position its rank in it.
LEMMA AboveTotal ==
    ASSUME TypeOK, OneFailure, counted = Len(caseMetas), ~SortPanics
    PROVE  /\ StrictTotal(AbovePairs, Points)
           /\ \A p, q \in Points : <<p, q>> \in AbovePairs <=> Above(p, q)
           /\ \A p \in Points : Position(p) = RankIn(AbovePairs, Points, p)
<1>1. \A p, q \in Points : <<p, q>> \in AbovePairs <=> Above(p, q)
  BY DEF AbovePairs
<1>2. ASSUME NEW p \in Points
      PROVE  Position(p) = RankIn(AbovePairs, Points, p)
  <2>1. {q \in Points : Above(q, p)} = Before(AbovePairs, Points, p)
    BY <1>1 DEF Before
  <2> QED BY <2>1 DEF Position, RankIn
<1>3. \A p \in Points : p \in Nat
  BY PointsAreFinite DEF PointsFinite
<1>4. CASE PointCount <= 1
  <2>1. \A p, q \in Points : p = q
    BY <1>4, PointAssumption DEF Points
  <2>2. \A p \in Points : ~Above(p, p)
    <3>1. \A p \in Points : stats[p] \in Stats
      BY DEF TypeOK
    <3>2. ASSUME NEW p \in Points PROVE ~Exceeds(Score(p), Score(p))
      <4>1. CASE Score(p) = NaN
        BY <4>1 DEF Exceeds, NaN, Fraction
      <4>2. CASE Score(p) # NaN
        <5>1. Number(Score(p))
          BY <4>2, ScoreIsNumber
        <5> QED BY <5>1, ExceedsOneWay
      <4> QED BY <4>1, <4>2
    <3> QED BY <1>3, <3>2 DEF Above
  <2> QED BY <1>1, <1>2, <2>1, <2>2 DEF StrictTotal
<1>5. CASE PointCount > 1
  <2>1. \A p \in Points : Number(Score(p))
    BY <1>5, ScoreIsNumber DEF SortPanics
  <2> DEFINE worse(p, q) == ~Exceeds(Score(p), Score(q))
  <2>2. \A p, q \in Points : worse(p, q) \/ worse(q, p)
    BY <2>1, ExceedsOneWay
  <2>3. \A p, q, r \in Points : (worse(p, q) /\ worse(q, r)) => worse(p, r)
    BY <2>1, NotExceedsTransitive
  <2>4. \A p, q \in Points : Above(p, q) <=> (~worse(p, q) \/ (worse(q, p) /\ p < q))
    BY DEF Above
  <2> HIDE DEF worse
  <2>5. \A p \in Points : ~Above(p, p)
    BY <1>3, <2>2, <2>4
  <2>6. \A p, q, r \in Points : (Above(p, q) /\ Above(q, r)) => Above(p, r)
    BY <1>3, <2>2, <2>3, <2>4
  <2>7. \A p, q \in Points : p # q => (Above(p, q) \/ Above(q, p))
    BY <1>3, <2>2, <2>4
  <2> QED BY <1>1, <1>2, <2>5, <2>6, <2>7 DEF StrictTotal
<1> QED BY <1>4, <1>5, PointAssumption

\* Two points never share a position, and the better point comes first.
LEMMA PositionOrder ==
    ASSUME TypeOK, OneFailure, counted = Len(caseMetas), ~SortPanics,
           NEW p \in Points, NEW q \in Points
    PROVE  /\ Position(p) \in Nat
           /\ Position(p) = Position(q) => p = q
           /\ Position(p) < Position(q) <=> Above(p, q)
<1>1. /\ StrictTotal(AbovePairs, Points)
      /\ IsFiniteSet(Points)
      /\ <<p, q>> \in AbovePairs <=> Above(p, q)
      /\ Position(p) = RankIn(AbovePairs, Points, p)
      /\ Position(q) = RankIn(AbovePairs, Points, q)
  BY AboveTotal, PointsAreFinite DEF PointsFinite
<1>2. RankIn(AbovePairs, Points, p) \in Nat
  <2>1. RankIn(AbovePairs, Points, p) \in 0..(Cardinality(Points) - 1)
    BY <1>1, RankType
  <2> QED BY <2>1
<1> QED BY <1>1, <1>2, RankOrder

\* Of two points the failing case executes, the one that fewer passing cases
\* execute scores more.
LEMMA FewerScoresMore ==
    ASSUME TypeOK, OneFailure, counted = Len(caseMetas), metric \in FailureMetrics,
           NEW p \in Points, NEW q \in Points, Executed(p), Executed(q),
           stats[p].ep < stats[q].ep
    PROVE  Exceeds(Score(p), Score(q))
<1> DEFINE s == stats[p]
           t == stats[q]
<1>1. /\ s \in Stats /\ s.ef = 1 /\ s.nf = 0
      /\ t \in Stats /\ t.ef = 1 /\ t.nf = 0
      /\ s.ef + s.ep + s.nf + s.np = t.ef + t.ep + t.nf + t.np
  BY DEF TypeOK, OneFailure
<1>2. Score(p) = MetricScore(s) /\ Score(q) = MetricScore(t) /\ s.ep < t.ep
  BY DEF Score
<1> HIDE DEF s, t
<1>3. s.ep \in Nat /\ s.np \in Nat /\ t.ep \in Nat /\ t.np \in Nat
  BY <1>1 DEF Stats
<1>4. CASE metric = "Tarantula"
  <2> DEFINE passes == s.ep + s.np
  <2>1. t.ep + t.np = passes /\ passes \in Nat /\ passes > 0
    <3>1. 1 + s.ep + 0 + s.np = 1 + t.ep + 0 + t.np
      BY <1>1
    <3>2. s.ep + s.np = t.ep + t.np /\ t.ep > 0
      BY <1>2, <1>3, <3>1
    <3> QED BY <1>3, <3>2
  <2>2. /\ MetricScore(s) = Fraction(passes, passes + s.ep)
        /\ MetricScore(t) = Fraction(passes, passes + t.ep)
    BY <1>1, <1>4, <2>1, ExecutedScore
  <2> HIDE DEF passes
  <2>3. passes * (passes + s.ep) < passes * (passes + t.ep)
    <3>1. passes + s.ep < passes + t.ep /\ passes + s.ep \in Nat /\ passes + t.ep \in Nat
      BY <1>2, <1>3, <2>1
    <3> QED BY <2>1, <3>1, TimesStrict
  <2> QED BY <1>2, <1>3, <2>1, <2>2, <2>3 DEF Exceeds, Fraction
<1>5. CASE metric = "Dstar"
  <2>1. MetricScore(s) = Fraction(1, s.ep) /\ MetricScore(t) = Fraction(1, t.ep)
    BY <1>1, <1>5, ExecutedScore
  <2> QED BY <1>2, <1>3, <2>1 DEF Exceeds, Fraction
<1>6. CASE metric \notin {"Tarantula", "Dstar"}
  <2>1. MetricScore(s) = Fraction(1, 1 + s.ep) /\ MetricScore(t) = Fraction(1, 1 + t.ep)
    BY <1>1, <1>6, ExecutedScore
  <2> QED BY <1>2, <1>3, <2>1 DEF Exceeds, Fraction
<1> QED BY <1>4, <1>5, <1>6

-----------------------------------------------------------------------------
(* The steps. *)

\* Positions depend on the metric and the counters only.
LEMMA RankingUnchanged ==
    ASSUME UNCHANGED <<metric, stats>>
    PROVE  /\ \A p \in Points : Position(p)' = Position(p)
           /\ SortPanics' = SortPanics
<1>1. \A p \in Points : Score(p)' = Score(p)
  BY DEF Score, MetricScore, Tarantula, Ochiai, Jaccard, Dstar, GP19, Barinel,
         Crosstab, Zoltar, Ample
<1>2. \A p, q \in Points : Above(p, q)' = Above(p, q)
  BY <1>1 DEF Above, Exceeds
<1>3. \A p \in Points : Position(p)' = Position(p)
  BY <1>2 DEF Position
<1>4. SortPanics' = SortPanics
  BY <1>1 DEF SortPanics
<1> QED BY <1>3, <1>4

LEMMA InitRInv == Init => RInv
<1> SUFFICES ASSUME Init PROVE RInv
  OBVIOUS
<1>1. /\ pc = "count" /\ counted = 0 /\ converted = 0
      /\ printed = <<>> /\ blocks = <<>>
      /\ stats = [p \in Points |-> [ef |-> 0, ep |-> 0, nf |-> 0, np |-> 0]]
  BY DEF Init
<1>2. \A p \in Points : PassesAmong(p, counted) = {}
  BY <1>1 DEF PassesAmong
<1>3. PassesCounted
  BY <1>1, <1>2, FS_EmptySet DEF PassesCounted
<1>4. PhasesInOrder
  BY <1>1 DEF PhasesInOrder
<1>5. DOMAIN printed = {} /\ DOMAIN blocks = {}
  BY <1>1
<1> QED BY <1>1, <1>3, <1>4, <1>5 DEF RInv, PrintedByRank, BlocksByRank, ConvertedReported

LEMMA CountCaseRInv ==
    ASSUME IInv, RInv, CountCase
    PROVE  RInv'
<1> DEFINE case == caseMetas[counted + 1]
<1>1. /\ pc = "count" /\ pc' \in {"count", "rank"}
      /\ counted < Len(caseMetas)
      /\ counted' = counted + 1
      /\ stats' = [p \in Points |-> Step(stats[p], p \in case.covers, case.passed)]
      /\ UNCHANGED <<metric, caseMetas, printed, converted, blocks>>
  BY DEF CountCase
<1>2. printed = <<>> /\ converted = 0 /\ blocks = <<>>
  BY <1>1 DEF RInv, PhasesInOrder
<1>3. counted \in Nat /\ counted + 1 \in 1..Len(caseMetas)
  BY <1>1 DEF IInv, TypeOK
<1>4. case \in Cases
  BY <1>3 DEF IInv, TypeOK
<1>5. ASSUME NEW p \in Points
      PROVE  stats'[p].ep = Cardinality(PassesAmong(p, counted + 1))
  <2> DEFINE covered == p \in case.covers
             old == PassesAmong(p, counted)
  <2>1. /\ covered \in BOOLEAN
        /\ case.passed \in BOOLEAN
        /\ stats[p] \in Stats
        /\ stats'[p] = Step(stats[p], covered, case.passed)
    BY <1>1, <1>4 DEF IInv, TypeOK, Cases
  <2>2. stats'[p].ep = IF covered /\ case.passed THEN stats[p].ep + 1 ELSE stats[p].ep
    <3> DEFINE next == Step(stats[p], covered, case.passed)
    <3> HIDE DEF case, covered
    <3>1. next.ep = IF covered /\ case.passed THEN stats[p].ep + 1 ELSE stats[p].ep
      BY <2>1, StepCounts, Zenon
    <3> HIDE DEF next
    <3>2. stats'[p] = next
      BY <2>1 DEF next
    <3> QED BY <3>1, <3>2
  <2>3. IsFiniteSet(old) /\ counted + 1 \notin old
    <3>1. IsFiniteSet(1..counted) /\ old \in SUBSET (1..counted)
      BY <1>3, FS_Interval DEF PassesAmong
    <3>2. counted + 1 \notin 1..counted
      BY <1>3
    <3> QED BY <3>1, <3>2, FS_Subset
  <2>4. stats[p].ep = Cardinality(old)
    BY DEF RInv, PassesCounted
  <2>5. 1..(counted + 1) = (1..counted) \cup {counted + 1}
    BY <1>3
  <2>6. CASE covered /\ case.passed
    <3>1. PassesAmong(p, counted + 1) = old \cup {counted + 1}
      BY <2>5, <2>6 DEF PassesAmong
    <3>2. Cardinality(old \cup {counted + 1}) = Cardinality(old) + 1
      BY <2>3, FS_AddElement
    <3> QED BY <2>2, <2>4, <2>6, <3>1, <3>2
  <2>7. CASE ~(covered /\ case.passed)
    <3>1. PassesAmong(p, counted + 1) = old
      BY <2>5, <2>7 DEF PassesAmong
    <3> QED BY <2>2, <2>4, <2>7, <3>1
  <2> QED BY <2>6, <2>7
<1>6. PassesCounted'
  BY <1>1, <1>5 DEF PassesCounted, PassesAmong
<1>7. PhasesInOrder'
  BY <1>1, <1>2 DEF PhasesInOrder
<1>8. DOMAIN printed' = {} /\ DOMAIN blocks' = {}
  BY <1>1, <1>2
<1> QED BY <1>1, <1>6, <1>7, <1>8 DEF RInv, PrintedByRank, BlocksByRank, ConvertedReported

\* After the counting the numbers of passing cases stand.
LEMMA PassesStand ==
    ASSUME RInv, UNCHANGED <<caseMetas, counted, stats>>
    PROVE  PassesCounted'
BY DEF RInv, PassesCounted, PassesAmong

LEMMA PrintedStands ==
    ASSUME IInv, RInv, UNCHANGED <<metric, caseMetas, stats, printed>>
    PROVE  PrintedByRank'
<1>1. \A i \in DOMAIN printed : printed[i] \in Points
  BY DEF IInv, TypeOK
<1>2. \A p : Executed(p)' = Executed(p)
  BY DEF Executed
<1> QED BY <1>1, <1>2, RankingUnchanged DEF RInv, PrintedByRank

\* Blocks that stay in the list stay accounted for, also when the list is cut
\* or extended at its end.
LEMMA BlockStands ==
    ASSUME UNCHANGED <<metric, stats>>, NEW i, NEW w \in Points, ReportedFor(w, i),
           blocks'[i] = blocks[i], \A h \in 1..(i - 1) : blocks'[h] = blocks[h]
    PROVE  ReportedFor(w, i)'
<1>1. \A p \in Points : Position(p)' = Position(p)
  BY RankingUnchanged
<1>2. \A p, b : HasBlock(p, b)' = HasBlock(p, b)
  BY DEF HasBlock
<1>3. HasBlock(w, blocks[i])'
  BY DEF ReportedFor, HasBlock
<1>4. \A h \in 1..(i - 1), q \in Points : HasBlock(q, blocks[h]) => HasBlock(q, blocks[h])'
  BY DEF HasBlock
<1> QED BY <1>1, <1>3, <1>4 DEF ReportedFor

LEMMA BlocksStand ==
    ASSUME RInv, UNCHANGED <<metric, stats, blocks>>
    PROVE  BlocksByRank'
<1>1. ASSUME NEW i \in DOMAIN blocks PROVE (\E w \in Points : ReportedFor(w, i))'
  BY BlockStands DEF RInv, BlocksByRank
<1> QED BY <1>1 DEF RInv, BlocksByRank

LEMMA PrintStepsRInv ==
    ASSUME IInv, RInv,
           \/ RankPoints
           \/ \E p \in Points : PrintPoint(p)
           \/ \E rtl \in BOOLEAN : EndPoints(rtl)
    PROVE  RInv'
<1>1. /\ pc \in {"rank", "print"}
      /\ pc' \in {"panic", "print", "convert", "done"}
      /\ UNCHANGED <<metric, caseMetas, counted, stats, converted, blocks>>
      /\ pc = "rank" => (pc' = "print" => ~SortPanics) /\ pc' \in {"panic", "print"}
      /\ printed' = printed \/ \E p \in Points : /\ printed' = Append(printed, p)
                                                 /\ Position(p) = Len(printed)
                                                 /\ p \in InitialCase.covers
  BY DEF RankPoints, PrintPoint, EndPoints
<1>2. PassesCounted'
  BY <1>1, PassesStand
<1>3. PhasesInOrder'
  BY <1>1, RankingUnchanged DEF RInv, PhasesInOrder
<1>4. PrintedByRank'
  <2>1. CASE printed' = printed
    BY <1>1, <2>1, PrintedStands
  <2>2. ASSUME NEW p \in Points, printed' = Append(printed, p),
               Position(p) = Len(printed), p \in InitialCase.covers
        PROVE  PrintedByRank'
    <3>1. printed \in Seq(Points) /\ Len(printed) \in Nat
      BY DEF IInv, TypeOK
    <3>2. Executed(p)
      BY <2>2, InitialCaseIsLast DEF Executed, IInv, TypeOK
    <3>3. \A q : Executed(q)' = Executed(q)
      BY <1>1 DEF Executed
    <3>4. ASSUME NEW i \in DOMAIN printed'
          PROVE  /\ printed'[i] \in Points
                 /\ Executed(printed'[i])
                 /\ Position(printed'[i]) = i - 1
      <4>1. i \in 1..(Len(printed) + 1)
        BY <2>2, <3>1
      <4>2. CASE i = Len(printed) + 1
        <5>1. printed'[i] = p
          BY <2>2, <3>1, <4>2
        <5>2. Position(p) = i - 1
          BY <2>2, <3>1, <4>2
        <5> QED BY <3>2, <5>1, <5>2
      <4>3. CASE i # Len(printed) + 1
        <5>1. i \in DOMAIN printed /\ printed'[i] = printed[i]
          BY <2>2, <3>1, <4>1, <4>3
        <5> QED BY <3>1, <5>1 DEF RInv, PrintedByRank
      <4> QED BY <4>2, <4>3
    <3> QED BY <1>1, <3>3, <3>4, RankingUnchanged DEF PrintedByRank
  <2> QED BY <1>1, <2>1, <2>2
<1>5. BlocksByRank'
  BY <1>1, BlocksStand
<1>6. ConvertedReported'
  <2>1. ASSUME pc' = "convert", NEW q \in Points
        PROVE  ~(Position(q) < converted)
    <3>1. pc = "print" /\ ~SortPanics /\ converted = 0
      BY <1>1, <2>1 DEF RInv, PhasesInOrder
    <3>2. Position(q) \in Nat
      BY <3>1, PositionOrder DEF IInv, CountedAll
    <3> QED BY <3>1, <3>2
  <2> QED BY <1>1, <2>1, RankingUnchanged DEF ConvertedReported
<1> QED BY <1>2, <1>3, <1>4, <1>5, <1>6 DEF RInv

LEMMA ConvertPointRInv ==
    ASSUME IInv, RInv, NEW p \in Points, ConvertPoint(p)
    PROVE  RInv'
<1>1. /\ pc = "convert" /\ pc' = "convert"
      /\ Position(p) = converted
      /\ converted' = converted + 1
      /\ UNCHANGED <<metric, caseMetas, counted, stats, printed>>
  BY DEF ConvertPoint
<1>2. /\ ~SortPanics
      /\ counted = Len(caseMetas)
      /\ blocks \in Seq(Blocks)
      /\ Len(blocks) \in Nat
      /\ converted \in Nat
  BY <1>1 DEF RInv, PhasesInOrder, IInv, CountedAll, TypeOK
<1>3. PassesCounted' /\ PrintedByRank'
  BY <1>1, PassesStand, PrintedStands
<1>4. PhasesInOrder'
  BY <1>1, <1>2, RankingUnchanged DEF PhasesInOrder
<1>5. \A q \in Points : Position(q)' = Position(q)
  BY <1>1, RankingUnchanged
<1>6. \A q \in Points : Position(q) < converted + 1 => (Position(q) < converted \/ q = p)
  BY <1>1, <1>2, PositionOrder DEF IInv
<1>7. CASE ~(Covering[p] # {} /\ KeepFirst(FoundBlock(p)))
  <2>1. blocks' = blocks
    BY <1>7 DEF ConvertPoint
  <2>2. BlocksByRank'
    BY <1>1, <2>1, BlocksStand
  <2>3. Covering[p] # {} => \E h \in DOMAIN blocks : HasBlock(p, blocks[h])
    BY <1>7 DEF KeepFirst, HasBlock
  <2>4. ConvertedReported'
    BY <1>1, <1>5, <1>6, <2>1, <2>3 DEF RInv, ConvertedReported, HasBlock
  <2> QED BY <1>3, <1>4, <2>2, <2>4 DEF RInv
<1>8. CASE Covering[p] # {} /\ KeepFirst(FoundBlock(p))
  <2> DEFINE b == FoundBlock(p)
  <2>0. PICK n \in Nat : n = Len(blocks) + 1
    BY <1>2
  <2>1. blocks' = Append(blocks, b) /\ \A i \in DOMAIN blocks : blocks[i] # b
    BY <1>8 DEF ConvertPoint, KeepFirst
  <2>2. HasBlock(p, b)
    BY <1>8 DEF HasBlock
  <2> HIDE DEF b
  <2>3. /\ DOMAIN blocks = 1..Len(blocks)
        /\ DOMAIN blocks' = 1..n
        /\ blocks'[n] = b
        /\ \A i \in 1..Len(blocks) : blocks'[i] = blocks[i]
    BY <1>2, <2>0, <2>1
  <2>4. \A i, j \in DOMAIN blocks' : blocks'[i] = blocks'[j] => i = j
    <3>1. \A i, j \in DOMAIN blocks : blocks[i] = blocks[j] => i = j
      BY DEF RInv, BlocksByRank
    <3>2. \A i \in 1..n : i = n \/ i \in 1..Len(blocks)
      BY <1>2, <2>0
    <3> QED BY <2>1, <2>3, <3>1, <3>2
  <2>5. ASSUME NEW i \in 1..Len(blocks)
        PROVE  \E w \in Points : ReportedFor(w, i)'
    <3>1. PICK w \in Points : ReportedFor(w, i)
      BY <2>3 DEF RInv, BlocksByRank
    <3>2. blocks'[i] = blocks[i] /\ \A h \in 1..(i - 1) : blocks'[h] = blocks[h]
      BY <1>2, <2>3
    <3> QED BY <1>1, <3>1, <3>2, BlockStands
  <2>6. ReportedFor(p, n)'
    <3>1. ASSUME NEW q \in Points, Position(q) < Position(p), Covering[q] # {}
          PROVE  \E h \in 1..(n - 1) : HasBlock(q, blocks'[h])
      <4>1. PICK h \in DOMAIN blocks : HasBlock(q, blocks[h])
        BY <1>1, <3>1 DEF RInv, ConvertedReported
      <4>2. h \in 1..(n - 1) /\ blocks'[h] = blocks[h]
        BY <1>2, <2>0, <2>3
      <4> QED BY <4>1, <4>2
    <3>2. HasBlock(p, blocks'[n])
      BY <2>2, <2>3
    <3> QED BY <1>5, <3>1, <3>2 DEF ReportedFor, HasBlock
  <2>7. BlocksByRank'
    <3>1. ASSUME NEW i \in DOMAIN blocks' PROVE (\E w \in Points : ReportedFor(w, i))'
      <4>1. i = n \/ i \in 1..Len(blocks)
        BY <1>2, <2>0, <2>3
      <4> QED BY <2>5, <2>6, <4>1
    <3> QED BY <2>4, <3>1 DEF BlocksByRank
  <2>8. ASSUME NEW q \in Points, Position(q) < converted + 1, Covering[q] # {}
        PROVE  \E h \in DOMAIN blocks' : HasBlock(q, blocks'[h])
    <3>1. CASE q = p
      <4>1. n \in DOMAIN blocks'
        BY <1>2, <2>0, <2>3
      <4> QED BY <2>2, <2>3, <3>1, <4>1
    <3>2. CASE Position(q) < converted
      <4>1. PICK h \in DOMAIN blocks : HasBlock(q, blocks[h])
        BY <1>1, <2>8, <3>2 DEF RInv, ConvertedReported
      <4>2. h \in DOMAIN blocks' /\ blocks'[h] = blocks[h]
        BY <1>2, <2>0, <2>3
      <4> QED BY <4>1, <4>2
    <3> QED BY <1>6, <2>8, <3>1, <3>2
  <2>9. ConvertedReported'
    BY <1>1, <1>5, <2>8 DEF ConvertedReported, HasBlock
  <2> QED BY <1>3, <1>4, <2>7, <2>9 DEF RInv
<1> QED BY <1>7, <1>8

LEMMA EndBlocksRInv ==
    ASSUME IInv, RInv, EndBlocks
    PROVE  RInv'
<1> DEFINE m == IF Len(blocks) < TopSus THEN Len(blocks) ELSE TopSus
<1>1. /\ pc = "convert" /\ pc' = "done"
      /\ blocks' = SubSeq(blocks, 1, m)
      /\ UNCHANGED <<metric, caseMetas, counted, stats, printed, converted>>
  BY DEF EndBlocks
<1>2. blocks \in Seq(Blocks) /\ Len(blocks) \in Nat /\ ~SortPanics
  BY <1>1 DEF RInv, PhasesInOrder, IInv, TypeOK
<1>3. m \in Nat /\ m <= Len(blocks)
  BY <1>2, TopSusAssumption
<1> HIDE DEF m
<1>4. /\ DOMAIN blocks = 1..Len(blocks)
      /\ DOMAIN blocks' = 1..m
      /\ \A i \in 1..m : blocks'[i] = blocks[i] /\ i \in DOMAIN blocks
  BY <1>1, <1>2, <1>3
<1>5. PassesCounted' /\ PrintedByRank'
  BY <1>1, PassesStand, PrintedStands
<1>6. PhasesInOrder'
  BY <1>1, <1>2, RankingUnchanged DEF PhasesInOrder
<1>7. BlocksByRank'
  <2>1. \A i, j \in DOMAIN blocks' : blocks'[i] = blocks'[j] => i = j
    BY <1>4 DEF RInv, BlocksByRank
  <2>2. ASSUME NEW i \in DOMAIN blocks' PROVE (\E w \in Points : ReportedFor(w, i))'
    <3>1. PICK w \in Points : ReportedFor(w, i)
      BY <1>4 DEF RInv, BlocksByRank
    <3>2. blocks'[i] = blocks[i] /\ \A h \in 1..(i - 1) : blocks'[h] = blocks[h]
      BY <1>3, <1>4
    <3> QED BY <1>1, <3>1, <3>2, BlockStands
  <2> QED BY <2>1, <2>2 DEF BlocksByRank
<1>8. ConvertedReported'
  BY <1>1 DEF ConvertedReported
<1> QED BY <1>5, <1>6, <1>7, <1>8 DEF RInv

LEMMA StutterRInv ==
    ASSUME IInv, RInv, UNCHANGED vars
    PROVE  RInv'
<1>1. UNCHANGED <<pc, metric, caseMetas, counted, stats, printed, converted, blocks>>
  BY DEF vars
<1>2. PassesCounted' /\ PrintedByRank' /\ BlocksByRank'
  BY <1>1, PassesStand, PrintedStands, BlocksStand
<1>3. PhasesInOrder' /\ ConvertedReported'
  BY <1>1, RankingUnchanged DEF RInv, PhasesInOrder, ConvertedReported, HasBlock
<1> QED BY <1>2, <1>3 DEF RInv

LEMMA StepRInv == (IInv /\ RInv /\ [Next]_vars) => RInv'
<1> SUFFICES ASSUME IInv, RInv, [Next]_vars PROVE RInv'
  OBVIOUS
<1>1. CASE CountCase
  BY <1>1, CountCaseRInv
<1>2. CASE \/ RankPoints
           \/ \E p \in Points : PrintPoint(p)
           \/ \E rtl \in BOOLEAN : EndPoints(rtl)
  BY <1>2, PrintStepsRInv
<1>3. ASSUME NEW p \in Points, ConvertPoint(p) PROVE RInv'
  BY <1>3, ConvertPointRInv
<1>4. CASE EndBlocks
  BY <1>4, EndBlocksRInv
<1>5. CASE UNCHANGED vars
  BY <1>5, StutterRInv
<1> QED BY <1>1, <1>2, <1>3, <1>4, <1>5 DEF Next, Finished

\* The second inductive invariant holds in every reachable state.
LEMMA RankingInvariance == Spec => []RInv
<1>1. Init => IInv /\ RInv
  BY InitInv, InitRInv
<1>2. IInv /\ RInv /\ [Next]_vars => IInv' /\ RInv'
  BY StepInv, StepRInv
<1> QED BY <1>1, <1>2, PTL DEF Spec

\* Under the failure metrics the points printed are ordered by the number of
\* passing cases that execute them.
LEMMA PrintedFewerFirst ==
    ASSUME IInv, RInv
    PROVE  FewerPassesFirst
<1> SUFFICES ASSUME metric \in FailureMetrics,
                    NEW i \in DOMAIN printed, NEW j \in DOMAIN printed, i < j
             PROVE  Passes(printed[i]) <= Passes(printed[j])
  BY DEF FewerPassesFirst
<1>1. printed \in Seq(Points) /\ i \in Nat /\ j \in Nat
  BY DEF IInv, TypeOK
<1>2. PICK p \in Points : p = printed[i]
  BY <1>1
<1>3. PICK q \in Points : q = printed[j]
  BY <1>1
<1>4. pc # "count"
  BY <1>1 DEF RInv, PhasesInOrder
<1>5. TypeOK /\ OneFailure /\ counted = Len(caseMetas)
  BY <1>4 DEF IInv, CountedAll
<1>6. ~SortPanics
  BY <1>5, NoNaN DEF IInv, Completing
<1>7. Executed(p) /\ Executed(q) /\ Position(p) = i - 1 /\ Position(q) = j - 1
  BY <1>2, <1>3 DEF RInv, PrintedByRank
<1>8. ASSUME NEW x \in Points PROVE Passes(x) = stats[x].ep /\ stats[x].ep \in Nat
  <2>1. DOMAIN caseMetas = 1..counted
    BY <1>5 DEF TypeOK
  <2>2. Passes(x) = Cardinality(PassesAmong(x, counted))
    BY <2>1 DEF Passes, PassesAmong
  <2> QED BY <1>5, <2>2 DEF RInv, PassesCounted, TypeOK, Stats
<1>9. ASSUME stats[q].ep < stats[p].ep PROVE FALSE
  <2>1. Exceeds(Score(q), Score(p))
    BY <1>5, <1>7, <1>9, FewerScoresMore
  <2>2. Position(q) < Position(p)
    BY <1>5, <1>6, <2>1, PositionOrder DEF Above
  <2> QED BY <1>1, <1>7, <2>2
<1> QED BY <1>2, <1>3, <1>8, <1>9

\* A finished list of blocks names none twice and is ordered by the best
\* point of each block.
LEMMA ReportedBlocksOrdered ==
    ASSUME IInv, RInv
    PROVE  BlocksByBestPoint
<1> SUFFICES ASSUME pc = "done"
             PROVE  /\ \A i, j \in DOMAIN blocks : blocks[i] = blocks[j] => i = j
                    /\ \A i \in DOMAIN blocks, b \in Blocks :
                         (\A h \in 1..(i - 1) : blocks[h] # b) =>
                            \E p \in PointsOf(blocks[i]) : \A q \in PointsOf(b) :
                                ~Exceeds(Score(q), Score(p))
  BY DEF BlocksByBestPoint
<1>1. TypeOK /\ OneFailure /\ counted = Len(caseMetas) /\ ~SortPanics
  BY DEF IInv, CountedAll, RInv, PhasesInOrder
<1>2. ASSUME NEW i \in DOMAIN blocks, NEW b \in Blocks,
             \A h \in 1..(i - 1) : blocks[h] # b
      PROVE  \E p \in PointsOf(blocks[i]) : \A q \in PointsOf(b) :
                ~Exceeds(Score(q), Score(p))
  <2>1. PICK w \in Points : ReportedFor(w, i)
    BY DEF RInv, BlocksByRank
  <2>2. w \in PointsOf(blocks[i])
    BY <2>1 DEF ReportedFor, HasBlock, PointsOf
  <2>3. ASSUME NEW q \in PointsOf(b), Exceeds(Score(q), Score(w))
        PROVE  FALSE
    <3>1. q \in Points /\ Covering[q] # {} /\ FoundBlock(q) = b
      BY DEF PointsOf
    <3>2. Position(q) < Position(w)
      BY <1>1, <2>3, <3>1, PositionOrder DEF Above
    <3>3. PICK h \in 1..(i - 1) : HasBlock(q, blocks[h])
      BY <2>1, <3>1, <3>2 DEF ReportedFor
    <3> QED BY <1>2, <3>1, <3>3 DEF HasBlock
  <2> QED BY <2>2, <2>3
<1> QED BY <1>2 DEF RInv, BlocksByRank

\* Among the points the failing case executes, those that fewer passing cases
\* execute are printed first, for any number of points and cases and under
\* each of the five failure metrics.
THEOREM FewerPassesPrintedFirst == Spec => []FewerPassesFirst
<1>1. IInv /\ RInv => FewerPassesFirst
  BY PrintedFewerFirst
<1> QED BY <1>1, Invariance, RankingInvariance, PTL

\* Under all nine metrics, a report that gets to its blocks names each block
\* once and in the order of their best points, however the ranges nest.
THEOREM BlocksInOrder == Spec => []BlocksByBestPoint
<1>1. IInv /\ RInv => BlocksByBestPoint
  BY ReportedBlocksOrdered
<1> QED BY <1>1, Invariance, RankingInvariance, PTL

-----------------------------------------------------------------------------
(* The elements of a finite set of naturals, in order. *)

Upto(S, j) == Cardinality({k \in S : k <= j})
Nth(S, n)  == CHOOSE j \in S : Upto(S, j) = n

\* Every place up to the size of the set has its element and no other.
LEMMA NthElement ==
    ASSUME NEW S \in SUBSET Nat, IsFiniteSet(S)
    PROVE  /\ \A n \in 1..Cardinality(S) : Nth(S, n) \in S /\ Upto(S, Nth(S, n)) = n
           /\ \A j \in S : Upto(S, j) \in 1..Cardinality(S) /\ Nth(S, Upto(S, j)) = j
<1> DEFINE R == {p \in S \X S : p[1] < p[2]}
<1>1. StrictTotal(R, S)
  BY DEF StrictTotal
<1>2. Cardinality(S) \in Nat
  BY FS_CardinalityType
<1>3. ASSUME NEW j \in S
      PROVE  /\ RankIn(R, S, j) \in 0..Cardinality(S) - 1
             /\ Upto(S, j) = RankIn(R, S, j) + 1
  <2>1. /\ RankIn(R, S, j) \in 0..Cardinality(S) - 1
        /\ IsFiniteSet(Before(R, S, j))
    <3> HIDE DEF R
    <3> QED BY <1>1, RankType
  <2>2. {k \in S : k <= j} = Before(R, S, j) \cup {j} /\ j \notin Before(R, S, j)
    <3>1. \A k \in S : (<<k, j>> \in R <=> k < j)
      OBVIOUS
    <3>2. \A k \in S : (k <= j <=> (k < j \/ k = j)) /\ ~(j < j)
      OBVIOUS
    <3> HIDE DEF R
    <3> QED BY <3>1, <3>2 DEF Before
  <2>3. Cardinality(Before(R, S, j) \cup {j}) = Cardinality(Before(R, S, j)) + 1
    <3> HIDE DEF R
    <3> QED BY <2>1, <2>2, FS_AddElement
  <2> HIDE DEF R
  <2> QED BY <2>1, <2>2, <2>3 DEF Upto, RankIn
<1>4. \A i, j \in S : RankIn(R, S, i) = RankIn(R, S, j) => i = j
  <2> HIDE DEF R
  <2> QED BY <1>1, RankOrder
<1>5. \A n \in 0..Cardinality(S) - 1 : \E j \in S : RankIn(R, S, j) = n
  <2> HIDE DEF R
  <2> QED BY <1>1, RankAttained
<1> HIDE DEF R
<1>6. ASSUME NEW n \in 1..Cardinality(S)
      PROVE  \E j \in S : Upto(S, j) = n
  <2>1. n - 1 \in 0..Cardinality(S) - 1 /\ (n - 1) + 1 = n
    BY <1>2
  <2>2. PICK j \in S : RankIn(R, S, j) = n - 1
    BY <1>5, <2>1
  <2> QED BY <1>3, <2>1, <2>2
<1>7. \A i, j \in S : Upto(S, i) = Upto(S, j) => i = j
  <2>1. \A j \in S : RankIn(R, S, j) \in Int /\ Upto(S, j) = RankIn(R, S, j) + 1
    BY <1>2, <1>3
  <2>2. ASSUME NEW i \in S, NEW j \in S, Upto(S, i) = Upto(S, j)
        PROVE  i = j
    <3>1. RankIn(R, S, i) = RankIn(R, S, j)
      BY <2>1, <2>2
    <3> QED BY <1>4, <3>1
  <2> QED BY <2>2
<1>8. \A j \in S : Upto(S, j) \in 1..Cardinality(S)
  BY <1>2, <1>3
<1>9. \A n \in 1..Cardinality(S) : Nth(S, n) \in S /\ Upto(S, Nth(S, n)) = n
  BY <1>6 DEF Nth
<1> QED BY <1>7, <1>8, <1>9

\* A larger element goes last.
LEMMA NthAdded ==
    ASSUME NEW S \in SUBSET Nat, IsFiniteSet(S), NEW i \in Nat,
           \A j \in S : j < i
    PROVE  /\ IsFiniteSet(S \cup {i})
           /\ Cardinality(S \cup {i}) = Cardinality(S) + 1
           /\ Cardinality(S) \in Nat
           /\ Nth(S \cup {i}, Cardinality(S) + 1) = i
           /\ \A n \in 1..Cardinality(S) : Nth(S \cup {i}, n) = Nth(S, n)
<1>1. i \notin S
  OBVIOUS
<1>2. /\ IsFiniteSet(S \cup {i})
      /\ Cardinality(S \cup {i}) = Cardinality(S) + 1
      /\ Cardinality(S) \in Nat
  BY <1>1, FS_AddElement, FS_CardinalityType
<1>3. PICK T \in SUBSET Nat : T = S \cup {i}
  OBVIOUS
<1>4. Upto(T, i) = Cardinality(S) + 1
  <2>1. \A k \in T : k <= i
    BY <1>3
  <2>2. {k \in T : k <= i} = S \cup {i}
    BY <1>3, <2>1
  <2> QED BY <1>2, <2>2 DEF Upto
<1>5. \A j \in S : Upto(T, j) = Upto(S, j)
  <2>1. ASSUME NEW j \in S
        PROVE  {k \in T : k <= j} = {k \in S : k <= j}
    BY <1>3
  <2> QED BY <2>1 DEF Upto
<1>6. \A j \in T : Nth(T, Upto(T, j)) = j
  BY <1>2, <1>3, NthElement
<1>7. \A n \in 1..Cardinality(S) : Nth(S, n) \in S /\ Upto(S, Nth(S, n)) = n
  BY NthElement
<1>8. \A n \in 1..Cardinality(S) : Nth(T, n) = Nth(S, n)
  <2>1. ASSUME NEW n \in 1..Cardinality(S)
        PROVE  Nth(T, n) = Nth(S, n)
    <3>1. Nth(S, n) \in T /\ Upto(T, Nth(S, n)) = n
      BY <1>3, <1>5, <1>7
    <3> QED BY <1>6, <3>1
  <2> QED BY <2>1
<1>9. Nth(T, Cardinality(S) + 1) = i
  BY <1>3, <1>4, <1>6
<1> QED BY <1>2, <1>3, <1>8, <1>9

-----------------------------------------------------------------------------
(* Generate blocks around a position. *)

\* How many more blocks open than close at positions j to k.
Net(m, j, k) == Cardinality(Opening(m, j, k)) - Cardinality(Closing(m, j, k))

Change(m, i) == CASE EventsOf(m)[i].kind = "open"  -> 1
                  [] EventsOf(m)[i].kind = "close" -> -1
                  [] OTHER -> 0

\* Positions j to k may be counted in two parts.
LEMMA NetSplit ==
    ASSUME NEW m, NEW j \in Nat, NEW p \in Nat, NEW k \in Nat, j <= p, p <= k + 1
    PROVE  /\ Net(m, j, k) \in Int /\ Net(m, j, p - 1) \in Int /\ Net(m, p, k) \in Int
           /\ Net(m, j, k) = Net(m, j, p - 1) + Net(m, p, k)
<1> DEFINE B(q) == {x \in j..p - 1 : EventsOf(m)[x].kind = q}
           E(q) == {x \in p..k : EventsOf(m)[x].kind = q}
           A(q) == {x \in j..k : EventsOf(m)[x].kind = q}
<1>1. ASSUME NEW q
      PROVE  /\ Cardinality(A(q)) \in Nat /\ Cardinality(B(q)) \in Nat
             /\ Cardinality(E(q)) \in Nat
             /\ Cardinality(A(q)) = Cardinality(B(q)) + Cardinality(E(q))
  <2>1. A(q) = B(q) \cup E(q) /\ B(q) \cap E(q) = {}
    <3>1. \A x \in Int : x \in j..k <=> (x \in j..p - 1 \/ x \in p..k)
      OBVIOUS
    <3>2. \A x \in Int : ~(x \in j..p - 1 /\ x \in p..k)
      OBVIOUS
    <3>3. j..k \subseteq Int /\ j..p - 1 \subseteq Int /\ p..k \subseteq Int
      OBVIOUS
    <3> QED BY <3>1, <3>2, <3>3
  <2>2. IsFiniteSet(B(q)) /\ IsFiniteSet(E(q))
    <3>1. B(q) \subseteq j..p - 1 /\ E(q) \subseteq p..k
      OBVIOUS
    <3>2. IsFiniteSet(j..p - 1) /\ IsFiniteSet(p..k)
      BY FS_Interval
    <3> QED BY <3>1, <3>2, FS_Subset
  <2> HIDE DEF A, B, E
  <2>3. Cardinality(B(q) \cup E(q))
          = Cardinality(B(q)) + Cardinality(E(q)) - Cardinality(B(q) \cap E(q))
    BY <2>2, FS_Union
  <2>4. Cardinality(B(q)) \in Nat /\ Cardinality(E(q)) \in Nat
    BY <2>2, FS_CardinalityType
  <2>5. Cardinality(B(q) \cap E(q)) = 0
    BY <2>1, FS_EmptySet
  <2> QED BY <2>1, <2>3, <2>4, <2>5
<1>2. /\ Opening(m, j, k) = A("open") /\ Closing(m, j, k) = A("close")
      /\ Opening(m, j, p - 1) = B("open") /\ Closing(m, j, p - 1) = B("close")
      /\ Opening(m, p, k) = E("open") /\ Closing(m, p, k) = E("close")
  BY DEF Opening, Closing
<1> HIDE DEF A, B, E
<1> QED BY <1>1, <1>2 DEF Net

\* One position counts for what it is; none counts for nothing.
LEMMA NetAt ==
    ASSUME NEW m, NEW i \in Nat
    PROVE  Net(m, i, i) = Change(m, i)
<1>1. i..i = {i}
  OBVIOUS
<1>2. /\ Opening(m, i, i) = IF EventsOf(m)[i].kind = "open" THEN {i} ELSE {}
      /\ Closing(m, i, i) = IF EventsOf(m)[i].kind = "close" THEN {i} ELSE {}
  BY <1>1 DEF Opening, Closing
<1>3. Cardinality({i}) = 1 /\ Cardinality({}) = 0
  BY FS_Singleton, FS_EmptySet
<1> QED BY <1>2, <1>3 DEF Net, Change

\* Extending by one position.
LEMMA NetNext ==
    ASSUME NEW m, NEW j \in Nat, NEW i \in Nat, j <= i
    PROVE  /\ Net(m, j, i - 1) \in Int /\ Net(m, j, i) \in Int
           /\ Net(m, j, i) = Net(m, j, i - 1) + Change(m, i)
<1>1. i <= i + 1
  OBVIOUS
<1> QED BY <1>1, NetSplit, NetAt

\* Open blocks by their nets; they are positions before the one looked at.
LEMMA OpenBeforeType ==
    ASSUME NEW m, NEW i \in Nat \ {0}
    PROVE  /\ OpenBefore(m, i) = {j \in 1..i - 1 : \A k \in j..i - 1 : Net(m, j, k) > 0}
           /\ OpenBefore(m, i) \in SUBSET Nat
           /\ IsFiniteSet(OpenBefore(m, i))
           /\ \A j \in OpenBefore(m, i) : j < i
<1>1. ASSUME NEW j \in 1..i - 1, NEW k \in j..i - 1
      PROVE  Cardinality(Opening(m, j, k)) > Cardinality(Closing(m, j, k))
                <=> Net(m, j, k) > 0
  <2>1. Opening(m, j, k) \subseteq j..k /\ Closing(m, j, k) \subseteq j..k
    BY DEF Opening, Closing
  <2>2. IsFiniteSet(j..k)
    BY FS_Interval
  <2>3. Cardinality(Opening(m, j, k)) \in Nat /\ Cardinality(Closing(m, j, k)) \in Nat
    BY <2>1, <2>2, FS_Subset, FS_CardinalityType
  <2> QED BY <2>3 DEF Net
<1>2. OpenBefore(m, i) \subseteq 1..i - 1 /\ IsFiniteSet(1..i - 1)
  BY FS_Interval DEF OpenBefore
<1>3. IsFiniteSet(OpenBefore(m, i))
  BY <1>2, FS_Subset
<1>4. OpenBefore(m, i) = {j \in 1..i - 1 : \A k \in j..i - 1 : Net(m, j, k) > 0}
  BY <1>1 DEF OpenBefore
<1> QED BY <1>2, <1>3, <1>4

\* A block that is open before a position is open before the next one as long
\* as the position leaves it open.
LEMMA OpenNext ==
    ASSUME NEW m, NEW i \in Nat \ {0}
    PROVE  OpenBefore(m, i + 1) =
             {j \in OpenBefore(m, i) \cup {i} : Net(m, j, i) > 0}
<1>1. /\ OpenBefore(m, i) = {j \in 1..i - 1 : \A k \in j..i - 1 : Net(m, j, k) > 0}
      /\ OpenBefore(m, i + 1) = {j \in 1..i : \A k \in j..i : Net(m, j, k) > 0}
  <2>1. i + 1 \in Nat \ {0} /\ (i + 1) - 1 = i
    OBVIOUS
  <2> QED BY <2>1, OpenBeforeType
<1>2. ASSUME NEW j \in 1..i - 1
      PROVE  /\ j..i = (j..i - 1) \cup {i}
             /\ j \in 1..i
    OBVIOUS
<1>3. i..i = {i} /\ i \in 1..i /\ i \notin 1..i - 1
  OBVIOUS
<1>4. \A j \in 1..i : j \in 1..i - 1 \/ j = i
  OBVIOUS
<1>5. ASSUME NEW j \in 1..i - 1
      PROVE  j \in OpenBefore(m, i + 1)
               <=> j \in OpenBefore(m, i) /\ Net(m, j, i) > 0
  BY <1>1, <1>2
<1>6. i \in OpenBefore(m, i + 1) <=> Net(m, i, i) > 0
  BY <1>1, <1>3
<1>7. OpenBefore(m, i) \subseteq 1..i - 1 /\ OpenBefore(m, i + 1) \subseteq 1..i
  BY <1>1
<1> QED BY <1>3, <1>4, <1>5, <1>6, <1>7

\* What opens is open, and what was open stays open.
LEMMA OpenNextOpen ==
    ASSUME NEW m, NEW i \in Nat \ {0}, EventsOf(m)[i].kind = "open"
    PROVE  OpenBefore(m, i + 1) = OpenBefore(m, i) \cup {i}
<1>1. Change(m, i) = 1
  BY DEF Change
<1>2. Net(m, i, i) > 0
  BY <1>1, NetAt
<1>3. ASSUME NEW j \in OpenBefore(m, i)
      PROVE  Net(m, j, i) > 0
  <2>1. j \in Nat /\ j <= i /\ Net(m, j, i - 1) > 0
    BY OpenBeforeType
  <2> QED BY <1>1, <2>1, NetNext
<1> QED BY <1>2, <1>3, OpenNext

\* A position between blocks changes nothing.
LEMMA OpenNextOther ==
    ASSUME NEW m, NEW i \in Nat \ {0}, EventsOf(m)[i].kind \notin {"open", "close"}
    PROVE  OpenBefore(m, i + 1) = OpenBefore(m, i)
<1>1. Change(m, i) = 0
  BY DEF Change
<1>2. ~(Net(m, i, i) > 0)
  BY <1>1, NetAt
<1>3. ASSUME NEW j \in OpenBefore(m, i)
      PROVE  Net(m, j, i) > 0
  <2>1. j \in Nat /\ j <= i /\ Net(m, j, i - 1) > 0
    BY OpenBeforeType
  <2> QED BY <1>1, <2>1, NetNext
<1>4. i \notin OpenBefore(m, i)
  BY OpenBeforeType
<1> QED BY <1>2, <1>3, <1>4, OpenNext

\* A block that closes closes the innermost one that is open.
LEMMA OpenNextClose ==
    ASSUME NEW m, NEW i \in Nat \ {0}, EventsOf(m)[i].kind = "close"
    PROVE  \/ OpenBefore(m, i) = {} /\ OpenBefore(m, i + 1) = {}
           \/ \E x \in OpenBefore(m, i) :
                /\ \A j \in OpenBefore(m, i) : j <= x
                /\ OpenBefore(m, i + 1) = OpenBefore(m, i) \ {x}
<1>1. Change(m, i) = -1
  BY DEF Change
<1>2. ~(Net(m, i, i) > 0)
  BY <1>1, NetAt
<1>3. \A j \in OpenBefore(m, i) :
        /\ j \in Nat /\ j >= 1 /\ j <= i - 1
        /\ \A k \in j..i - 1 : Net(m, j, k) > 0
  BY OpenBeforeType
<1>4. ASSUME NEW j \in OpenBefore(m, i)
      PROVE  /\ Net(m, j, i - 1) \in Int
             /\ Net(m, j, i) > 0 <=> Net(m, j, i - 1) > 1
  <2>1. j \in Nat /\ j <= i
    BY <1>3
  <2> QED BY <1>1, <2>1, NetNext
<1>5. CASE OpenBefore(m, i) = {}
  BY <1>2, <1>5, OpenNext
<1>6. CASE OpenBefore(m, i) # {}
  <2>1. PICK x \in OpenBefore(m, i) : \A j \in OpenBefore(m, i) : j <= x
    <3> DEFINE T == {i - j : j \in OpenBefore(m, i)}
    <3>1. T \in SUBSET Nat /\ T # {}
      BY <1>3, <1>6
    <3>2. PICK n \in T : \A o \in T : n <= o
      <4> HIDE DEF T
      <4> QED BY <3>1, LeastNatural
    <3>3. PICK x \in OpenBefore(m, i) : n = i - x
      BY <3>2
    <3>4. ASSUME NEW j \in OpenBefore(m, i)
          PROVE  j <= x
      <4>1. i - x <= i - j
        BY <3>2, <3>3
      <4> QED BY <1>3, <4>1
    <3> QED BY <3>4
  <2>2. /\ x \in Nat /\ x >= 1 /\ x <= i - 1
        /\ \A k \in x..i - 1 : Net(m, x, k) > 0
    BY <1>3
  <2>3. ASSUME NEW j \in OpenBefore(m, i), j # x
        PROVE  Net(m, j, i - 1) > 1
    <3>1. j \in Nat /\ j < x /\ j <= x /\ x <= (i - 1) + 1 /\ i - 1 \in Nat
      <4>1. j \in Nat /\ x \in Nat /\ j <= x /\ x <= i - 1 /\ j # x
        BY <1>3, <2>1, <2>2, <2>3
      <4> QED BY <4>1
    <3>2. /\ Net(m, j, x - 1) \in Int /\ Net(m, x, i - 1) \in Int
          /\ Net(m, j, i - 1) = Net(m, j, x - 1) + Net(m, x, i - 1)
      BY <2>2, <3>1, NetSplit
    <3>3. Net(m, x, i - 1) > 0 /\ Net(m, j, x - 1) > 0
      <4>1. i - 1 \in x..i - 1 /\ x - 1 \in j..i - 1
        BY <2>2, <3>1
      <4> QED BY <1>3, <2>2, <4>1
    <3> QED BY <3>2, <3>3
  <2>4. ~(Net(m, x, i - 1) > 1)
    <3>1. SUFFICES ASSUME Net(m, x, i - 1) > 1 PROVE FALSE
      OBVIOUS
    <3> DEFINE Low == {i - p : p \in {q \in x + 1..i : Net(m, x, q - 1) <= 1}}
    <3>2. Net(m, x, x) = 1
      <4>1. Net(m, x, x) > 0 /\ Net(m, x, x) = Change(m, x)
        BY <2>2, NetAt
      <4> QED BY <4>1 DEF Change
    <3>3. Low \in SUBSET Nat /\ Low # {}
      <4>1. x + 1 \in x + 1..i /\ (x + 1) - 1 = x
        BY <2>2
      <4>2. i - (x + 1) \in Low
        BY <3>2, <4>1
      <4>3. \A p \in x + 1..i : i - p \in Nat
        BY <2>2
      <4> QED BY <4>2, <4>3
    <3>4. PICK n \in Low : \A o \in Low : n <= o
      <4> HIDE DEF Low
      <4> QED BY <3>3, LeastNatural
    <3>5. PICK p \in x + 1..i : Net(m, x, p - 1) <= 1 /\ n = i - p
      BY <3>4
    <3>6. p # i /\ p \in Nat /\ p > x /\ p <= i - 1
      <4>1. p # i
        BY <1>4, <3>1, <3>5
      <4>2. p \in Int /\ x + 1 <= p /\ p <= i
        BY <2>2
      <4> QED BY <2>2, <4>1, <4>2
    <3>7. ASSUME NEW k \in p..i - 1
          PROVE  Net(m, p, k) > 0
      <4>1. k \in Nat /\ k + 1 \in x + 1..i /\ k + 1 > p /\ (k + 1) - 1 = k
        BY <2>2, <3>6
      <4>2. ~(n <= i - (k + 1))
        BY <3>5, <3>6, <4>1
      <4>3. ~(Net(m, x, k) <= 1)
        BY <3>4, <4>1, <4>2
      <4>4. /\ Net(m, x, k) \in Int /\ Net(m, x, p - 1) \in Int /\ Net(m, p, k) \in Int
            /\ Net(m, x, k) = Net(m, x, p - 1) + Net(m, p, k)
        BY <2>2, <3>6, <4>1, NetSplit
      <4> QED BY <3>5, <4>3, <4>4
    <3>8. p \in OpenBefore(m, i)
      <4>1. p \in 1..i - 1
        BY <2>2, <3>6
      <4> QED BY <3>7, <4>1, OpenBeforeType
    <3> QED BY <2>1, <2>2, <3>6, <3>8
  <2>5. OpenBefore(m, i + 1) = OpenBefore(m, i) \ {x}
    BY <1>2, <1>4, <2>3, <2>4, OpenNext
  <2> QED BY <2>1, <2>5
<1> QED BY <1>5, <1>6

Labels == {Label(i) : i \in Nat}

Labelled(S) == [n \in 1..Cardinality(S) |-> Label(Nth(S, n))]

\* The labels around a position are the labels of the open blocks in order.
LEMMA AroundType ==
    ASSUME NEW m, NEW i \in Nat \ {0}
    PROVE  /\ Around(m, i) = Labelled(OpenBefore(m, i))
           /\ Around(m, i) \in Seq(Labels)
           /\ Len(Around(m, i)) = Cardinality(OpenBefore(m, i))
           /\ Cardinality(OpenBefore(m, i)) \in Nat
<1>1. Around(m, i) = Labelled(OpenBefore(m, i))
  BY DEF Around, Labelled, Nth, Upto
<1>2. OpenBefore(m, i) \in SUBSET Nat /\ IsFiniteSet(OpenBefore(m, i))
  BY OpenBeforeType
<1>3. Cardinality(OpenBefore(m, i)) \in Nat
  BY <1>2, FS_CardinalityType
<1>4. \A n \in 1..Cardinality(OpenBefore(m, i)) : Label(Nth(OpenBefore(m, i), n)) \in Labels
  BY <1>2, NthElement DEF Labels
<1> QED BY <1>1, <1>3, <1>4 DEF Labelled

\* Before the first position no block is open.
LEMMA AroundStart ==
    ASSUME NEW m
    PROVE  Around(m, 1) = <<>>
<1>1. OpenBefore(m, 1) = {}
  BY DEF OpenBefore
<1>2. Cardinality(OpenBefore(m, 1)) = 0
  BY <1>1, FS_EmptySet
<1>3. Around(m, 1) \in Seq(Labels) /\ Len(Around(m, 1)) = 0
  BY <1>2, AroundType
<1> QED BY <1>3

\* An opening block adds its label behind the others.
LEMMA AroundOpen ==
    ASSUME NEW m, NEW i \in Nat \ {0}, EventsOf(m)[i].kind = "open"
    PROVE  Around(m, i + 1) = Append(Around(m, i), Label(i))
<1> DEFINE S == OpenBefore(m, i)
<1>1. S \in SUBSET Nat /\ IsFiniteSet(S) /\ \A j \in S : j < i
  BY OpenBeforeType
<1>2. OpenBefore(m, i + 1) = S \cup {i}
  BY OpenNextOpen
<1> HIDE DEF S
<1>3. PICK k \in Nat : k = Cardinality(S)
  BY <1>1, FS_CardinalityType
<1>4. /\ Cardinality(S \cup {i}) = k + 1
      /\ Nth(S \cup {i}, k + 1) = i
      /\ \A n \in 1..k : Nth(S \cup {i}, n) = Nth(S, n)
  BY <1>1, <1>3, NthAdded
<1>5. /\ Around(m, i) = [n \in 1..k |-> Label(Nth(S, n))]
      /\ Around(m, i) \in Seq(Labels) /\ Len(Around(m, i)) = k
  BY <1>3, AroundType DEF S, Labelled
<1>6. Around(m, i + 1) = [n \in 1..k + 1 |-> Label(Nth(S \cup {i}, n))]
  <2>1. i + 1 \in Nat \ {0}
    OBVIOUS
  <2>2. Around(m, i + 1) = Labelled(S \cup {i})
    BY <1>2, <2>1, AroundType
  <2> QED BY <1>4, <2>2 DEF Labelled
<1>7. \A n \in 1..k + 1 :
        Nth(S \cup {i}, n) = IF n = k + 1 THEN i ELSE Nth(S, n)
  <2>1. \A n \in 1..k + 1 : n = k + 1 \/ n \in 1..k
    OBVIOUS
  <2>2. k + 1 \notin 1..k
    OBVIOUS
  <2> QED BY <1>4, <2>1, <2>2
<1>8. PICK s \in Seq(Labels) : s = Around(m, i)
  BY <1>5
<1>9. Append(s, Label(i))
        = [n \in 1..k + 1 |-> IF n = k + 1 THEN Label(i) ELSE s[n]]
  BY <1>5, <1>8
<1>10. \A n \in 1..k : s[n] = Label(Nth(S, n))
  BY <1>5, <1>8
<1>11. \A n \in 1..k + 1 : n # k + 1 => n \in 1..k
  OBVIOUS
<1> QED BY <1>6, <1>7, <1>8, <1>9, <1>10, <1>11

\* Between blocks the labels around a position stay.
LEMMA AroundOther ==
    ASSUME NEW m, NEW i \in Nat \ {0}, EventsOf(m)[i].kind \notin {"open", "close"}
    PROVE  Around(m, i + 1) = Around(m, i)
<1>1. OpenBefore(m, i + 1) = OpenBefore(m, i)
  BY OpenNextOther
<1> QED BY <1>1, AroundType

\* A closing block takes the last label away.
LEMMA AroundClose ==
    ASSUME NEW m, NEW i \in Nat \ {0}, EventsOf(m)[i].kind = "close"
    PROVE  Around(m, i + 1) = IF Around(m, i) = <<>> THEN <<>>
                              ELSE SubSeq(Around(m, i), 1, Len(Around(m, i)) - 1)
<1>1. /\ OpenBefore(m, i) \in SUBSET Nat /\ IsFiniteSet(OpenBefore(m, i))
      /\ \A j \in OpenBefore(m, i) : j < i
  BY OpenBeforeType
<1>2. i + 1 \in Nat \ {0}
  OBVIOUS
<1>3. CASE OpenBefore(m, i) = {} /\ OpenBefore(m, i + 1) = {}
  <2>1. Cardinality({}) = 0
    BY FS_EmptySet
  <2>2. /\ Around(m, i) \in Seq(Labels) /\ Len(Around(m, i)) = 0
        /\ Around(m, i + 1) \in Seq(Labels) /\ Len(Around(m, i + 1)) = 0
    BY <1>2, <1>3, <2>1, AroundType
  <2>3. Around(m, i) = <<>> /\ Around(m, i + 1) = <<>>
    BY <2>2
  <2> QED BY <2>3
<1>4. ASSUME NEW x \in OpenBefore(m, i),
             \A j \in OpenBefore(m, i) : j <= x,
             OpenBefore(m, i + 1) = OpenBefore(m, i) \ {x}
      PROVE  Around(m, i + 1) = IF Around(m, i) = <<>> THEN <<>>
                                ELSE SubSeq(Around(m, i), 1, Len(Around(m, i)) - 1)
  <2> DEFINE S == OpenBefore(m, i + 1)
  <2>1. /\ S \in SUBSET Nat /\ IsFiniteSet(S) /\ x \in Nat
        /\ OpenBefore(m, i) = S \cup {x}
    BY <1>1, <1>2, <1>4, OpenBeforeType
  <2>2. \A j \in S : j < x
    <3>1. ASSUME NEW j \in S
          PROVE  j < x
      <4>1. j \in Nat /\ j <= x /\ j # x
        BY <1>4, <2>1
      <4> QED BY <2>1, <4>1
    <3> QED BY <3>1
  <2> HIDE DEF S
  <2>3. PICK k \in Nat : k = Cardinality(S)
    BY <2>1, FS_CardinalityType
  <2>4. /\ Cardinality(S \cup {x}) = k + 1
        /\ \A n \in 1..k : Nth(S \cup {x}, n) = Nth(S, n)
    BY <2>1, <2>2, <2>3, NthAdded
  <2>5. PICK s \in Seq(Labels) : s = Around(m, i)
    BY AroundType
  <2>6. /\ s = [n \in 1..k + 1 |-> Label(Nth(S \cup {x}, n))]
        /\ Len(s) = k + 1
    <3>1. s = Labelled(S \cup {x}) /\ Len(s) = Cardinality(S \cup {x})
      BY <2>1, <2>5, AroundType
    <3> QED BY <2>4, <3>1 DEF Labelled
  <2>7. Around(m, i + 1) = [n \in 1..k |-> Label(Nth(S, n))]
    <3>1. Around(m, i + 1) = Labelled(S)
      BY <1>2, AroundType DEF S
    <3> QED BY <2>3, <3>1 DEF Labelled
  <2>8. SubSeq(s, 1, Len(s) - 1) = [n \in 1..k |-> s[n]]
    <3>1. Len(s) - 1 = k
      BY <2>6
    <3>2. SubSeq(s, 1, k) = [n \in 1..k |-> s[n]]
      BY <2>5, <2>6
    <3> QED BY <3>1, <3>2
  <2>9. \A n \in 1..k : s[n] = Label(Nth(S, n))
    <3>1. \A n \in 1..k : n \in 1..k + 1
      OBVIOUS
    <3> QED BY <2>4, <2>6, <3>1
  <2>10. s # <<>>
    BY <2>5, <2>6
  <2> QED BY <2>5, <2>7, <2>8, <2>9, <2>10
<1> QED BY <1>3, <1>4, OpenNextClose

-----------------------------------------------------------------------------
(* The hierarchy of a design whose generate blocks have one label each. *)

Names == Labels \cup {First(i) : i \in Nat}

Instances == [scope : Seq(Names), module : Modules, depth : Nat]

Root == Instance(<<>>, TopModule, 0)

\* Where a module instantiates a module of the design, and with what scope.
Entering(m) == {i \in DOMAIN EventsOf(m) : /\ EventsOf(m)[i].kind = "inst"
                                           /\ EventsOf(m)[i].of # Library}

Child(x, i) == Instance(x.scope \o Around(x.module, i) \o <<First(i)>>,
                        EventsOf(x.module)[i].of, x.depth + 1)

Straight == Plain /\ design \in Designs

\* What the walk reads of a module of the design.
LEMMA EventsType ==
    ASSUME Straight, NEW m \in Modules
    PROVE  /\ EventsOf(m) \in Seq(Events)
           /\ NodesOf(m) \in Seq(NodeKinds)
           /\ \A i \in DOMAIN EventsOf(m) : i \in Nat \ {0} /\ EventsOf(m)[i] \in Events
           /\ \A i \in Entering(m) : EventsOf(m)[i].of \in Modules /\ ~EventsOf(m)[i].more
<1>1. EventsOf(m) \in Seq(Events) /\ NodesOf(m) \in Seq(NodeKinds)
  BY DesignAssumption DEF EventsOf, NodesOf, Straight
<1>2. \A i \in DOMAIN EventsOf(m) : i \in Nat \ {0} /\ EventsOf(m)[i] \in Events
  BY <1>1
<1>3. \A i \in Entering(m) : EventsOf(m)[i].of \in Modules
  BY <1>2 DEF Entering, Events
<1>4. \A i \in Entering(m) : ~EventsOf(m)[i].more
  BY DEF Entering, Straight, Plain
<1> QED BY <1>1, <1>2, <1>3, <1>4

\* An instance inside an instance.
LEMMA ChildType ==
    ASSUME Straight, NEW x \in Instances, NEW i \in Entering(x.module)
    PROVE  /\ Child(x, i) \in Instances
           /\ Child(x, i).depth = x.depth + 1
           /\ Child(x, i).module = EventsOf(x.module)[i].of
           /\ Child(x, i).scope = x.scope \o Around(x.module, i) \o <<First(i)>>
<1>1. x.module \in Modules /\ x.scope \in Seq(Names) /\ x.depth \in Nat
  BY DEF Instances
<1>2. i \in Nat \ {0} /\ EventsOf(x.module)[i].of \in Modules
  BY <1>1, EventsType DEF Entering
<1>3. Around(x.module, i) \in Seq(Names) /\ <<First(i)>> \in Seq(Names)
  <2>1. Around(x.module, i) \in Seq(Labels)
    BY <1>2, AroundType
  <2>2. Labels \subseteq Names /\ First(i) \in Names
    BY <1>2 DEF Names
  <2> QED BY <2>1, <2>2
<1>4. x.scope \o Around(x.module, i) \o <<First(i)>> \in Seq(Names)
  BY <1>1, <1>3
<1> QED BY <1>1, <1>2, <1>4 DEF Child, Instance, Instances

\* Inside an instance is what its module instantiates, once each.
LEMMA InsideIs ==
    ASSUME Straight, NEW x \in Instances
    PROVE  Inside(x) = {Child(x, i) : i \in Entering(x.module)}
<1>1. x.module \in Modules
  BY DEF Instances
<1>2. {j \in Entering(x.module) : EventsOf(x.module)[j].more} = {}
  BY <1>1, EventsType
<1>3. Inside(x) = {Child(x, i) : i \in Entering(x.module)}
                    \cup {Instance(x.scope \o Around(x.module, i) \o <<Second(i)>>,
                                   EventsOf(x.module)[i].of, x.depth + 1) :
                            i \in {j \in Entering(x.module) : EventsOf(x.module)[j].more}}
  BY DEF Inside, Entering, Child
<1> QED BY <1>2, <1>3

\* The instances down to each depth.
Levels(up) ==
    /\ up \in [Nat -> SUBSET Instances]
    /\ up[0] = {Root}
    /\ \A n \in Nat : up[n + 1] = up[n] \cup UNION {Inside(x) : x \in up[n]}
    /\ Hierarchy = up[Cardinality(Modules) + 1]

\* The hierarchy is the deepest of levels that each add what is inside.
LEMMA HierarchyLevels ==
    ASSUME Straight
    PROVE  \E up : Levels(up)
<1> DEFINE F == [s \in SUBSET Instances |-> s \cup UNION {Inside(x) : x \in s}]
           Is(f) == f = [n \in Nat |->
                           IF n = 0 THEN {Instance(<<>>, TopModule, 0)}
                           ELSE f[n - 1] \cup UNION {Inside(x) : x \in f[n - 1]}]
           up == CHOOSE f : Is(f)
<1>1. ASSUME NEW x \in Instances
      PROVE  Inside(x) \subseteq Instances
  <2>1. Inside(x) = {Child(x, i) : i \in Entering(x.module)}
    BY InsideIs
  <2>2. \A i \in Entering(x.module) : Child(x, i) \in Instances
    BY ChildType
  <2> QED BY <2>1, <2>2
<1>2. F \in [SUBSET Instances -> SUBSET Instances]
  <2>1. \A s \in SUBSET Instances : s \cup UNION {Inside(x) : x \in s} \in SUBSET Instances
    BY <1>1
  <2> QED BY <2>1
<1>3. PICK z \in SUBSET Instances : z = {Root}
  <2>1. Root \in Instances
    BY ModulesAssumption DEF Root, Instance, Instances
  <2> HIDE DEF F, Is, up
  <2> QED BY <2>1
<1>4. PICK f \in [Nat -> SUBSET Instances] : Repeats(f, F, z)
  <2> HIDE DEF F
  <2> QED BY <1>2, <1>3, Iterates
<1>5. Is(f)
  <2>1. ASSUME NEW n \in Nat
        PROVE  f[n] = IF n = 0 THEN {Instance(<<>>, TopModule, 0)}
                      ELSE f[n - 1] \cup UNION {Inside(x) : x \in f[n - 1]}
    <3>1. CASE n = 0
      BY <1>3, <1>4, <3>1 DEF Repeats, Root
    <3>2. CASE n # 0
      <4>1. n - 1 \in Nat /\ (n - 1) + 1 = n
        BY <3>2
      <4>2. f[n - 1] \in SUBSET Instances /\ f[(n - 1) + 1] = F[f[n - 1]]
        BY <1>4, <4>1 DEF Repeats
      <4>3. F[f[n - 1]] = f[n - 1] \cup UNION {Inside(x) : x \in f[n - 1]}
        BY <4>2
      <4> HIDE DEF F
      <4> QED BY <3>2, <4>1, <4>2, <4>3
    <3> QED BY <3>1, <3>2
  <2>2. f = [n \in Nat |-> f[n]]
    BY <1>4
  <2> QED BY <2>1, <2>2
<1>6. Is(up)
  <2> HIDE DEF Is
  <2> QED BY <1>5
<1>7. /\ up[0] = {Root}
      /\ \A n \in Nat : up[n + 1] = up[n] \cup UNION {Inside(x) : x \in up[n]}
  <2>1. \A n \in Nat : n + 1 \in Nat /\ n + 1 # 0 /\ (n + 1) - 1 = n
    OBVIOUS
  <2>2. \A n \in Nat : up[n] = IF n = 0 THEN {Instance(<<>>, TopModule, 0)}
                               ELSE up[n - 1] \cup UNION {Inside(x) : x \in up[n - 1]}
    <3> HIDE DEF up
    <3> QED BY <1>6
  <2> HIDE DEF up, Is, F
  <2> QED BY <2>1, <2>2 DEF Root
<1>8. Hierarchy = up[Cardinality(Modules) + 1]
  BY DEF Hierarchy
<1>9. up = [n \in Nat |-> up[n]]
  <2> HIDE DEF up
  <2> QED BY <1>6
<1> HIDE DEF up, Is, F
<1> DEFINE Bad == {n \in Nat : ~(up[n] \subseteq Instances)}
<1>10. Bad = {}
  <2>1. SUFFICES ASSUME Bad # {} PROVE FALSE
    OBVIOUS
  <2>2. PICK n \in Bad : \A o \in Bad : n <= o
    <3>1. Bad \in SUBSET Nat
      OBVIOUS
    <3> HIDE DEF Bad
    <3> QED BY <2>1, <3>1, LeastNatural
  <2>3. n \in Nat /\ n # 0
    BY <1>3, <1>7, <2>2
  <2>4. n - 1 \in Nat /\ (n - 1) + 1 = n /\ ~(n <= n - 1)
    BY <2>3
  <2>5. up[n - 1] \subseteq Instances
    BY <2>2, <2>4
  <2>6. up[n] = up[n - 1] \cup UNION {Inside(x) : x \in up[n - 1]}
    BY <1>7, <2>4
  <2>7. up[n] \subseteq Instances
    BY <1>1, <2>5, <2>6
  <2> QED BY <2>2, <2>7
<1>11. up \in [Nat -> SUBSET Instances]
  BY <1>9, <1>10
<1> QED BY <1>7, <1>8, <1>11 DEF Levels

\* An instance is on the level of its depth and on all levels below it.
LEMMA LevelOfDepth ==
    ASSUME Straight, NEW up, Levels(up), NEW n \in Nat
    PROVE  /\ \A x \in up[n] : x.depth \in Nat /\ x.depth <= n /\ x \in up[x.depth]
           /\ \A x \in up[n] : \/ x = Root
                               \/ \E p \in up[n] : \E i \in Entering(p.module) : x = Child(p, i)
           /\ \A k \in 0..n : up[k] \subseteq up[n]
<1> DEFINE Fine(o) == /\ \A x \in up[o] : x.depth \in Nat /\ x.depth <= o /\ x \in up[x.depth]
                      /\ \A x \in up[o] :
                           \/ x = Root
                           \/ \E p \in up[o] : \E i \in Entering(p.module) : x = Child(p, i)
                      /\ \A k \in 0..o : up[k] \subseteq up[o]
           Bad == {o \in Nat : ~Fine(o)}
<1>1. SUFFICES ASSUME Bad # {} PROVE FALSE
  OBVIOUS
<1>2. PICK o \in Bad : \A q \in Bad : o <= q
  <2>1. Bad \in SUBSET Nat
    OBVIOUS
  <2> HIDE DEF Bad
  <2> QED BY <1>1, <2>1, LeastNatural
<1>3. up[0] = {Root} /\ Root.depth = 0
  BY DEF Levels, Root, Instance
<1>4. o \in Nat /\ o # 0
  <2>1. 0..0 = {0} /\ 0 \in Nat
    OBVIOUS
  <2>2. Fine(0)
    BY <1>3, <2>1
  <2> QED BY <1>2, <2>2
<1>5. o - 1 \in Nat /\ (o - 1) + 1 = o /\ ~(o <= o - 1)
  BY <1>4
<1>6. Fine(o - 1)
  BY <1>2, <1>5
<1>7. up[o] = up[o - 1] \cup UNION {Inside(x) : x \in up[o - 1]}
  BY <1>5 DEF Levels
<1>8. up[o - 1] \subseteq Instances
  BY <1>5 DEF Levels
<1>9. ASSUME NEW x \in up[o], x \notin up[o - 1]
      PROVE  \E p \in up[o - 1] : \E i \in Entering(p.module) : x = Child(p, i)
  <2>1. PICK p \in up[o - 1] : x \in Inside(p)
    BY <1>7, <1>9
  <2>2. p \in Instances
    BY <1>8
  <2> QED BY <2>1, <2>2, InsideIs
<1>10. ASSUME NEW x \in up[o]
       PROVE  x.depth \in Nat /\ x.depth <= o /\ x \in up[x.depth]
  <2>1. CASE x \in up[o - 1]
    <3>1. x.depth \in Nat /\ x.depth <= o - 1 /\ x \in up[x.depth]
      BY <1>6, <2>1
    <3> QED BY <1>4, <3>1
  <2>2. CASE x \notin up[o - 1]
    <3>p. PICK p \in up[o - 1] : \E i \in Entering(p.module) : x = Child(p, i)
      BY <1>9, <2>2
    <3>1. PICK i \in Entering(p.module) : x = Child(p, i)
      BY <3>p
    <3>2. p.depth \in Nat /\ p.depth <= o - 1 /\ p \in up[p.depth] /\ p \in Instances
      BY <1>6, <1>8
    <3>3. x.depth = p.depth + 1 /\ x \in Inside(p)
      BY <3>1, <3>2, ChildType, InsideIs
    <3>4. up[p.depth + 1] = up[p.depth] \cup UNION {Inside(y) : y \in up[p.depth]}
      BY <3>2 DEF Levels
    <3>5. x \in up[x.depth]
      BY <3>2, <3>3, <3>4
    <3> QED BY <1>4, <3>2, <3>3, <3>5
  <2> QED BY <2>1, <2>2
<1>11. ASSUME NEW x \in up[o], x # Root
       PROVE  \E p \in up[o] : \E i \in Entering(p.module) : x = Child(p, i)
  BY <1>6, <1>7, <1>9, <1>11
<1>12. ASSUME NEW k \in 0..o
       PROVE  up[k] \subseteq up[o]
  <2>1. k = o \/ k \in 0..o - 1
    BY <1>4
  <2> QED BY <1>6, <1>7, <2>1
<1>13. Fine(o)
  BY <1>10, <1>11, <1>12
<1> QED BY <1>2, <1>13

\* The hierarchy begins with the top module, and its instances are the ones
\* inside an instance, as deep as there are modules and one level deeper.
LEMMA HierarchyIs ==
    ASSUME Straight
    PROVE  /\ Hierarchy \subseteq Instances
           /\ Root \in Hierarchy
           /\ Cardinality(Modules) \in Nat
           /\ \A x \in Hierarchy : x.depth <= Cardinality(Modules) =>
                \A i \in Entering(x.module) : Child(x, i) \in Hierarchy
           /\ \A x \in Hierarchy : x # Root =>
                \E p \in Hierarchy : \E i \in Entering(p.module) : x = Child(p, i)
<1>1. PICK c \in Nat : c = Cardinality(Modules)
  BY FS_CardinalityType, ModulesAssumption
<1>2. PICK up : Levels(up)
  BY HierarchyLevels
<1>3. Hierarchy = up[c + 1] /\ c + 1 \in Nat /\ Hierarchy \subseteq Instances
  BY <1>1, <1>2 DEF Levels
<1>4. /\ \A x \in Hierarchy : x.depth \in Nat /\ x.depth <= c + 1 /\ x \in up[x.depth]
      /\ \A x \in Hierarchy :
           \/ x = Root
           \/ \E p \in Hierarchy : \E i \in Entering(p.module) : x = Child(p, i)
      /\ \A k \in 0..c + 1 : up[k] \subseteq Hierarchy
  BY <1>2, <1>3, LevelOfDepth
<1>5. Root \in Hierarchy
  <2>1. 0 \in 0..c + 1
    OBVIOUS
  <2>2. Root \in up[0]
    BY <1>2 DEF Levels
  <2> QED BY <1>4, <2>1, <2>2
<1>6. ASSUME NEW x \in Hierarchy, x.depth <= c, NEW i \in Entering(x.module)
      PROVE  Child(x, i) \in Hierarchy
  <2>1. x.depth \in Nat /\ x \in up[x.depth] /\ x \in Instances
    BY <1>3, <1>4
  <2>2. up[x.depth + 1] = up[x.depth] \cup UNION {Inside(y) : y \in up[x.depth]}
    BY <1>2, <2>1 DEF Levels
  <2>3. Child(x, i) \in Inside(x)
    BY <2>1, InsideIs
  <2>4. x.depth + 1 \in 0..c + 1
    BY <1>6, <2>1
  <2> QED BY <1>4, <2>1, <2>2, <2>3, <2>4
<1> QED BY <1>1, <1>3, <1>4, <1>5, <1>6

\* A scope ends with an instance, unless it is the one of the top module.
EndsInInstance(s) == s = <<>> \/ \E i \in Nat : s[Len(s)] = First(i)

ScopeOf(s, a, i) == s \o a \o <<First(i)>>

Parts(w, s, n, l, i) ==
    /\ w \in Seq(Names) /\ Len(w) = n + l + 1
    /\ \A k \in 1..n : w[k] = s[k]
    /\ \A k \in n + 1..n + l : w[k] \in Labels
    /\ w[n + l + 1] = First(i)

\* What a scope made of the scope above, labels and an instance consists of.
LEMMA ScopeParts ==
    ASSUME NEW s \in Seq(Names), NEW a \in Seq(Labels), NEW i \in Nat
    PROVE  Parts(ScopeOf(s, a, i), s, Len(s), Len(a), i)
<1> DEFINE w == ScopeOf(s, a, i)
<1>0. PICK n \in Nat, l \in Nat : n = Len(s) /\ l = Len(a)
  OBVIOUS
<1>1. Labels \subseteq Names /\ First(i) \in Names
  BY DEF Names
<1>2. a \in Seq(Names)
  BY <1>1
<1>3. PICK u \in Seq(Names) : u = s \o a
  <2>1. s \o a \in Seq(Names)
    BY <1>2, ConcatProperties
  <2> QED BY <2>1
<1>4. /\ Len(u) = n + l
      /\ \A k \in 1..n : u[k] = s[k]
      /\ \A k \in n + 1..n + l : u[k] = a[k - n]
  <2>1. /\ Len(s \o a) = Len(s) + Len(a)
        /\ \A k \in 1..Len(s) + Len(a) :
             (s \o a)[k] = IF k <= Len(s) THEN s[k] ELSE a[k - Len(s)]
    BY <1>2, ConcatProperties
  <2>2. \A k \in 1..n : k \in 1..n + l /\ k <= n
    OBVIOUS
  <2>3. \A k \in n + 1..n + l : k \in 1..n + l /\ ~(k <= n)
    OBVIOUS
  <2> QED BY <1>0, <1>3, <2>1, <2>2, <2>3
<1>5. \A k \in n + 1..n + l : k - n \in 1..l
  OBVIOUS
<1> HIDE DEF w
<1>6. \A k \in 1..l : a[k] \in Labels
  BY <1>0
<1>7. w = Append(u, First(i))
  BY <1>1, <1>3 DEF ScopeOf, w
<1>8. /\ w \in Seq(Names) /\ Len(w) = n + l + 1
      /\ \A k \in 1..n + l : w[k] = u[k]
      /\ w[n + l + 1] = First(i)
  BY <1>1, <1>3, <1>4, <1>7
<1>9. \A k \in n + 1..n + l : k \in 1..n + l
  OBVIOUS
<1>10. \A k \in 1..n : k \in 1..n + l
  OBVIOUS
<1>11. Parts(w, s, n, l, i)
  BY <1>4, <1>5, <1>6, <1>8, <1>9, <1>10 DEF Parts
<1> QED BY <1>0, <1>11 DEF w

\* The scope of an instance and its place in it can be told from its scope.
LEMMA ScopeSplits ==
    ASSUME NEW s \in Seq(Names), NEW a \in Seq(Labels), NEW i \in Nat, EndsInInstance(s),
           NEW t \in Seq(Names), NEW b \in Seq(Labels), NEW j \in Nat, EndsInInstance(t),
           ScopeOf(s, a, i) = ScopeOf(t, b, j)
    PROVE  s = t /\ i = j
<1>1. PICK w : w = ScopeOf(s, a, i) /\ w = ScopeOf(t, b, j)
  OBVIOUS
<1>4. PICK ls \in Nat, la \in Nat, lt \in Nat, lb \in Nat :
        ls = Len(s) /\ la = Len(a) /\ lt = Len(t) /\ lb = Len(b)
  OBVIOUS
<1>2. Parts(w, s, ls, la, i) /\ Parts(w, t, lt, lb, j)
  BY <1>1, <1>4, ScopeParts
<1>5. ls + la = lt + lb
  <2>1. ls + la + 1 = lt + lb + 1
    BY <1>2 DEF Parts
  <2> QED BY <2>1
<1>6. i = j
  <2>1. First(i) = First(j)
    BY <1>2, <1>5 DEF Parts
  <2> QED BY <2>1 DEF First
<1>7. \A n \in Nat : First(n) \notin Labels
  BY DEF First, Labels, Label
<1>8. ~(ls < lt)
  <2>1. SUFFICES ASSUME ls < lt PROVE FALSE
    OBVIOUS
  <2>2. lt \in ls + 1..ls + la /\ lt \in 1..lt /\ lt # 0
    BY <1>5, <2>1
  <2>3. w[lt] = t[lt] /\ w[lt] \in Labels
    BY <1>2, <2>2 DEF Parts
  <2>4. t # <<>>
    BY <1>4, <2>2
  <2>5. t[lt] \notin Labels
    BY <1>4, <1>7, <2>4 DEF EndsInInstance
  <2> QED BY <2>3, <2>5
<1>9. ~(lt < ls)
  <2>1. SUFFICES ASSUME lt < ls PROVE FALSE
    OBVIOUS
  <2>2. ls \in lt + 1..lt + lb /\ ls \in 1..ls /\ ls # 0
    BY <1>5, <2>1
  <2>3. w[ls] = s[ls] /\ w[ls] \in Labels
    BY <1>2, <2>2 DEF Parts
  <2>4. s # <<>>
    BY <1>4, <2>2
  <2>5. s[ls] \notin Labels
    BY <1>4, <1>7, <2>4 DEF EndsInInstance
  <2> QED BY <2>3, <2>5
<1>10. Len(s) = Len(t)
  BY <1>4, <1>8, <1>9
<1>11. \A k \in 1..Len(s) : s[k] = t[k]
  BY <1>2, <1>4, <1>10 DEF Parts
<1> QED BY <1>6, <1>10, <1>11

\* x is the instance that position i of the module of p makes.
Within(x, p, i) ==
    /\ x = Child(p, i)
    /\ p.depth \in Nat /\ x.depth = p.depth + 1
    /\ p.scope \in Seq(Names) /\ Around(p.module, i) \in Seq(Labels) /\ i \in Nat
    /\ x.scope = ScopeOf(p.scope, Around(p.module, i), i)
    /\ x.scope # <<>> /\ x.scope[Len(x.scope)] = First(i)

\* An instance inside another: its scope is longer and ends with its name.
LEMMA ChildWithin ==
    ASSUME Straight, NEW p \in Instances, NEW i \in Entering(p.module)
    PROVE  Within(Child(p, i), p, i)
<1> DEFINE x == Child(p, i)
<1>1. p.module \in Modules /\ p.depth \in Nat /\ p.scope \in Seq(Names)
  BY DEF Instances
<1>2. i \in Nat \ {0}
  BY <1>1, EventsType DEF Entering
<1>3. Around(p.module, i) \in Seq(Labels)
  BY <1>2, AroundType
<1>4. x.depth = p.depth + 1 /\ x.scope = ScopeOf(p.scope, Around(p.module, i), i)
  BY ChildType DEF ScopeOf
<1>5. PICK s \in Seq(Names), a \in Seq(Labels) : s = p.scope /\ a = Around(p.module, i)
  BY <1>1, <1>3
<1>6. PICK n \in Nat, l \in Nat : n = Len(s) /\ l = Len(a)
  OBVIOUS
<1>7. Parts(x.scope, s, n, l, i)
  BY <1>2, <1>4, <1>5, <1>6, ScopeParts
<1>8. PICK w : w = x.scope
  OBVIOUS
<1>9. w \in Seq(Names) /\ Len(w) = n + l + 1 /\ w[n + l + 1] = First(i)
  BY <1>7, <1>8 DEF Parts
<1>10. w # <<>>
  BY <1>9
<1>11. w[Len(w)] = First(i)
  BY <1>9
<1> HIDE DEF x
<1>12. /\ x = Child(p, i)
       /\ x.scope # <<>> /\ x.scope[Len(x.scope)] = First(i)
  BY <1>8, <1>10, <1>11 DEF x
<1> QED BY <1>1, <1>2, <1>3, <1>4, <1>12 DEF Within

\* No two instances have the same scope.
LEMMA ScopesApart ==
    ASSUME Straight
    PROVE  \A x, y \in Hierarchy : x.scope = y.scope => x = y
<1> DEFINE Twins(n) == \E x, y \in Hierarchy : x.depth = n /\ x.scope = y.scope /\ x # y
           Bad == {n \in Nat : Twins(n)}
<1>1. Hierarchy \subseteq Instances
  BY HierarchyIs
<1>2. ASSUME NEW x \in Hierarchy, x # Root
      PROVE  \E p \in Hierarchy : \E i \in Entering(p.module) : Within(x, p, i)
  <2>1. PICK p \in Hierarchy : \E i \in Entering(p.module) : x = Child(p, i)
    BY <1>2, HierarchyIs
  <2> QED BY <1>1, <2>1, ChildWithin
<1>3. Root.scope = <<>>
  BY DEF Root, Instance
<1>4. \A x \in Hierarchy : EndsInInstance(x.scope)
  BY <1>2, <1>3 DEF EndsInInstance, Within
<1>5. Bad = {}
  <2>1. SUFFICES ASSUME Bad # {} PROVE FALSE
    OBVIOUS
  <2>2. PICK n \in Bad : \A o \in Bad : n <= o
    <3>1. Bad \in SUBSET Nat
      OBVIOUS
    <3> HIDE DEF Bad
    <3> QED BY <2>1, <3>1, LeastNatural
  <2>3. PICK x \in Hierarchy, y \in Hierarchy : x.depth = n /\ x.scope = y.scope /\ x # y
    BY <2>2
  <2>4. x # Root /\ y # Root
    <3>1. ASSUME NEW z \in Hierarchy, z # Root
          PROVE  z.scope # <<>>
      BY <1>2, <3>1 DEF Within
    <3> QED BY <1>3, <2>3, <3>1
  <2>5. PICK p \in Hierarchy : \E i \in Entering(p.module) : Within(x, p, i)
    BY <1>2, <2>4
  <2>6. PICK i \in Entering(p.module) : Within(x, p, i)
    BY <2>5
  <2>7. PICK q \in Hierarchy : \E j \in Entering(q.module) : Within(y, q, j)
    BY <1>2, <2>4
  <2>8. PICK j \in Entering(q.module) : Within(y, q, j)
    BY <2>7
  <2>9. p.scope = q.scope /\ i = j
    <3>1. PICK s \in Seq(Names), a \in Seq(Labels) : s = p.scope /\ a = Around(p.module, i)
      BY <2>6 DEF Within
    <3>2. PICK t \in Seq(Names), b \in Seq(Labels) : t = q.scope /\ b = Around(q.module, j)
      BY <2>8 DEF Within
    <3>3. i \in Nat /\ j \in Nat
      BY <2>6, <2>8 DEF Within
    <3>4. ScopeOf(s, a, i) = ScopeOf(t, b, j)
      BY <2>3, <2>6, <2>8, <3>1, <3>2 DEF Within
    <3>5. EndsInInstance(s) /\ EndsInInstance(t)
      BY <1>4, <3>1, <3>2
    <3>6. s = t /\ i = j
      BY <3>3, <3>4, <3>5, ScopeSplits
    <3> QED BY <3>1, <3>2, <3>6
  <2>10. p # q
    BY <2>3, <2>6, <2>8, <2>9 DEF Within
  <2>11. p.depth \in Bad
    BY <2>6, <2>9, <2>10 DEF Within
  <2>12. ~(n <= p.depth)
    <3>1. n \in Nat /\ n = p.depth + 1 /\ p.depth \in Nat
      BY <2>2, <2>3, <2>6 DEF Within
    <3> QED BY <3>1
  <2> QED BY <2>2, <2>11, <2>12
<1>6. \A x \in Hierarchy : x.depth \in Nat
  BY <1>1 DEF Instances
<1> QED BY <1>5, <1>6

-----------------------------------------------------------------------------
(* The inductive invariant of the walk. *)

BlockRecords == [bid : Nat, type : NodeKinds, line : Nat]

\* Lines that hold a port with a direction, a process or an assignment.
Shown(nodes, i) == TypeOfLine(nodes, i) \notin {None, "inout", "net"}

\* The blocks of the first n lines, numbered in order.
Lists(found, nodes, n) ==
    /\ found \in Seq(BlockRecords)
    /\ \A b \in DOMAIN found :
         /\ found[b].bid = b - 1
         /\ found[b].line \in 1..n
         /\ Shown(nodes, found[b].line)
         /\ found[b].type = TypeOfLine(nodes, found[b].line)
    /\ \A i \in 1..n : Shown(nodes, i) => \E b \in DOMAIN found : found[b].line = i

\* An instance whose blocks are not collected yet, or collected before.
Waiting(x) ==
    \/ \E k \in DOMAIN queue : queue[k] = x
    \/ doing = "parse" /\ cur = x

Reached(x) == Waiting(x) \/ x.scope \in DOMAIN blocksByScope

\* The walk has passed position i of an instance's module.
Passed(x, i) == (doing = "walk" /\ cur = x) => i < at

\* An instance is deep enough for the model to look into it.
Shallow == {x \in Hierarchy : x.depth <= Cardinality(Modules)}

WalkTypes ==
    /\ doing \in {"pop", "parse", "walk", "done", "endless"}
    /\ queue \in Seq(Shallow)
    /\ doing \in {"parse", "walk"} => cur \in Shallow
    /\ doing = "done" => queue = <<>>

\* While the nodes are read: the direction in force and the blocks so far.
Parsing ==
    doing = "parse" =>
        LET nodes == NodesOf(cur.module)
        IN  /\ at \in 1..Len(nodes) + 1
            /\ direction = Stated(nodes, at - 1)
            /\ Lists(parsed, nodes, at - 1)

\* While the events are walked: the prefix is the labels around the position.
Prefixed ==
    doing = "walk" =>
        /\ at \in 1..Len(EventsOf(cur.module)) + 1
        /\ prefix = Around(cur.module, at)

\* The blocks found are the ones of the instance's module.
Right(x) ==
    LET nodes == NodesOf(x.module)
    IN  Lists(blocksByScope[x.scope], nodes, Len(nodes))

\* An instance is found only with the instances inside it.
Finding ==
    /\ DOMAIN blocksByScope \subseteq {x.scope : x \in Hierarchy}
    /\ doing # "endless" =>
         /\ Reached(Root)
         /\ \A x \in Hierarchy : x.scope \in DOMAIN blocksByScope =>
               \/ Waiting(x)
               \/ /\ Right(x)
                  /\ \A i \in Entering(x.module) : Passed(x, i) => Reached(Child(x, i))

WalkInv == Straight => WalkTypes /\ Parsing /\ Prefixed /\ Finding

-----------------------------------------------------------------------------
(* The blocks of a module. *)

Stating == Ports \ {"same"}

\* A line that states a direction sets it, any other leaves it.
LEMMA StatedNext ==
    ASSUME NEW nodes, NEW i \in Nat \ {0}
    PROVE  Stated(nodes, i) = IF nodes[i] \in Stating THEN nodes[i]
                              ELSE Stated(nodes, i - 1)
<1> DEFINE T(n) == {j \in 1..n : nodes[j] \in Stating}
<1>1. 1..i = (1..i - 1) \cup {i} /\ i \notin 1..i - 1 /\ \A j \in 1..i : j <= i
  OBVIOUS
<1>2. \A n : Stated(nodes, n) = IF T(n) = {} THEN None
                                ELSE nodes[CHOOSE j \in T(n) : \A k \in T(n) : k <= j]
  BY DEF Stated, Stating
<1>3. CASE nodes[i] \in Stating
  <2>1. i \in T(i) /\ \A k \in T(i) : k <= i
    BY <1>1, <1>3
  <2>2. \A j \in T(i) : j \in Nat /\ (i <= j => j = i)
    OBVIOUS
  <2> HIDE DEF T
  <2>3. (CHOOSE j \in T(i) : \A k \in T(i) : k <= j) = i
    BY <2>1, <2>2
  <2> QED BY <1>2, <1>3, <2>1, <2>3
<1>4. CASE nodes[i] \notin Stating
  <2>1. T(i) = T(i - 1)
    BY <1>1, <1>4
  <2> HIDE DEF T
  <2> QED BY <1>2, <1>4, <2>1
<1> QED BY <1>3, <1>4

\* What is stated is a direction, or nothing is.
LEMMA StatedType ==
    ASSUME NEW nodes, NEW i \in Nat
    PROVE  Stated(nodes, i) \in {None} \cup Stating
<1> DEFINE Bad == {n \in Nat : Stated(nodes, n) \notin {None} \cup Stating}
<1>1. SUFFICES ASSUME Bad # {} PROVE FALSE
  OBVIOUS
<1>2. PICK n \in Bad : \A o \in Bad : n <= o
  <2>1. Bad \in SUBSET Nat
    OBVIOUS
  <2> HIDE DEF Bad
  <2> QED BY <1>1, <2>1, LeastNatural
<1>3. n # 0
  <2>1. 1..0 = {}
    OBVIOUS
  <2>2. Stated(nodes, 0) = None
    BY <2>1 DEF Stated
  <2> QED BY <1>2, <2>2
<1>4. n \in Nat \ {0} /\ n - 1 \in Nat /\ ~(n <= n - 1)
  BY <1>2, <1>3
<1>5. Stated(nodes, n - 1) \in {None} \cup Stating
  BY <1>2, <1>4
<1>6. Stated(nodes, n) \in {None} \cup Stating
  BY <1>4, <1>5, StatedNext
<1> QED BY <1>2, <1>6

\* What the code makes of a line, by the direction it carries along, is what
\* the line is.
LEMMA BlockTypeIs ==
    ASSUME NEW nodes, NEW i \in Nat \ {0}, nodes[i] \in NodeKinds,
           direction = Stated(nodes, i - 1)
    PROVE  /\ (IF nodes[i] \in Ports THEN Direction(nodes[i]) ELSE direction) = Stated(nodes, i)
           /\ BlockType(nodes[i]) = None <=> ~Shown(nodes, i)
           /\ Shown(nodes, i) => /\ BlockType(nodes[i]) = TypeOfLine(nodes, i)
                                 /\ TypeOfLine(nodes, i) \in NodeKinds
<1>1. Stated(nodes, i) = IF nodes[i] \in Stating THEN nodes[i] ELSE direction
  BY StatedNext
<1>2. (IF nodes[i] \in Ports THEN Direction(nodes[i]) ELSE direction) = Stated(nodes, i)
  BY <1>1 DEF Direction, Stating, Ports
<1>3. Stated(nodes, i) \in {None} \cup Stating
  BY StatedType
<1>4. \A k \in NodeKinds : k # None
  BY NoneAssumption
<1>5. CASE nodes[i] \in Ports
  <2>0. /\ nodes[i] \in {"input", "output", "inout", "same"}
        /\ nodes[i] \notin {"wire", "assign", "always"}
    BY <1>5 DEF Ports
  <2>1. TypeOfLine(nodes, i) = Stated(nodes, i) /\ Direction(nodes[i]) = Stated(nodes, i)
    BY <1>2, <1>5, <2>0 DEF TypeOfLine
  <2>2. BlockType(nodes[i]) = IF Stated(nodes, i) \in {"input", "output"}
                              THEN Stated(nodes, i) ELSE None
    BY <1>5, <2>0, <2>1 DEF BlockType
  <2>3. Stated(nodes, i) \in {None, "input", "output", "inout"}
    BY <1>3 DEF Stating, Ports
  <2>4. None # "input" /\ None # "output" /\ None # "inout"
    BY <1>4 DEF NodeKinds
  <2> QED BY <1>2, <2>1, <2>2, <2>3, <2>4 DEF Shown, NodeKinds
<1>6. CASE nodes[i] \notin Ports
  <2>1. nodes[i] \in {"always", "assign", "wire", "net"}
    BY <1>6 DEF NodeKinds, Ports
  <2>2. BlockType(nodes[i]) = CASE nodes[i] = "always" -> "always"
                                [] nodes[i] \in {"assign", "wire"} -> "assign"
                                [] OTHER -> None
    BY <1>6, <2>1 DEF BlockType
  <2>3. TypeOfLine(nodes, i) = IF nodes[i] \in {"wire", "assign"} THEN "assign" ELSE nodes[i]
    BY <1>6, <2>1 DEF TypeOfLine
  <2>4. None # "always" /\ None # "assign"
    BY <1>4 DEF NodeKinds
  <2> QED BY <1>2, <2>1, <2>2, <2>3, <2>4 DEF Shown, NodeKinds
<1> QED BY <1>5, <1>6

\* Reading one more line.
LEMMA ListsNext ==
    ASSUME NEW nodes, NEW i \in Nat \ {0}, NEW found, Lists(found, nodes, i - 1)
    PROVE  /\ ~Shown(nodes, i) => Lists(found, nodes, i)
           /\ (Shown(nodes, i) /\ TypeOfLine(nodes, i) \in NodeKinds) =>
                Lists(Append(found, [bid  |-> Len(found),
                                     type |-> TypeOfLine(nodes, i),
                                     line |-> i]), nodes, i)
<1>1. 1..i = (1..i - 1) \cup {i} /\ i \in Nat
  OBVIOUS
<1>2. /\ found \in Seq(BlockRecords)
      /\ \A b \in DOMAIN found :
           /\ found[b].bid = b - 1
           /\ found[b].line \in 1..i - 1
           /\ Shown(nodes, found[b].line)
           /\ found[b].type = TypeOfLine(nodes, found[b].line)
      /\ \A j \in 1..i - 1 : Shown(nodes, j) => \E b \in DOMAIN found : found[b].line = j
  BY DEF Lists
<1>3. ASSUME ~Shown(nodes, i)
      PROVE  Lists(found, nodes, i)
  BY <1>1, <1>2, <1>3 DEF Lists
<1>4. ASSUME Shown(nodes, i), TypeOfLine(nodes, i) \in NodeKinds
      PROVE  Lists(Append(found, [bid  |-> Len(found),
                                  type |-> TypeOfLine(nodes, i),
                                  line |-> i]), nodes, i)
  <2>1. PICK e : e = [bid |-> Len(found), type |-> TypeOfLine(nodes, i), line |-> i]
    OBVIOUS
  <2>2. /\ e \in BlockRecords
        /\ e.bid = Len(found) /\ e.type = TypeOfLine(nodes, i) /\ e.line = i
    BY <1>1, <1>2, <1>4, <2>1 DEF BlockRecords
  <2>3. PICK n \in Nat : n = Len(found)
    BY <1>2
  <2>4. PICK longer : longer = Append(found, e)
    OBVIOUS
  <2>5. /\ longer \in Seq(BlockRecords)
        /\ DOMAIN longer = 1..n + 1 /\ DOMAIN found = 1..n
        /\ \A b \in 1..n : longer[b] = found[b]
        /\ longer[n + 1] = e
    BY <1>2, <2>2, <2>3, <2>4
  <2>6. 1..n + 1 = (1..n) \cup {n + 1} /\ (n + 1) - 1 = n
    OBVIOUS
  <2>7. ASSUME NEW b \in DOMAIN longer
        PROVE  /\ longer[b].bid = b - 1
               /\ longer[b].line \in 1..i
               /\ Shown(nodes, longer[b].line)
               /\ longer[b].type = TypeOfLine(nodes, longer[b].line)
    <3>1. CASE b = n + 1
      BY <1>1, <1>4, <2>2, <2>3, <2>5, <2>6, <3>1
    <3>2. CASE b \in 1..n
      BY <1>1, <1>2, <2>5, <3>2
    <3> QED BY <2>5, <2>6, <3>1, <3>2
  <2>8. ASSUME NEW j \in 1..i, Shown(nodes, j)
        PROVE  \E b \in DOMAIN longer : longer[b].line = j
    <3>1. CASE j = i
      BY <2>2, <2>5, <2>6, <3>1
    <3>2. CASE j \in 1..i - 1
      BY <1>2, <2>5, <2>6, <2>8, <3>2
    <3> QED BY <1>1, <3>1, <3>2
  <2> QED BY <2>1, <2>4, <2>5, <2>7, <2>8 DEF Lists
<1> QED BY <1>3, <1>4

-----------------------------------------------------------------------------
(* The steps of the walk. *)

\* The invariant after a step, in terms of the hierarchy before it.
NextWaiting(x) ==
    \/ \E k \in DOMAIN queue' : queue'[k] = x
    \/ doing' = "parse" /\ cur' = x

NextReached(x) == NextWaiting(x) \/ x.scope \in DOMAIN blocksByScope'

NextPassed(x, i) == (doing' = "walk" /\ cur' = x) => i < at'

NextTypes ==
    /\ doing' \in {"pop", "parse", "walk", "done", "endless"}
    /\ queue' \in Seq(Shallow)
    /\ doing' \in {"parse", "walk"} => cur' \in Shallow
    /\ doing' = "done" => queue' = <<>>

NextParsing ==
    doing' = "parse" =>
        /\ at' \in 1..Len(NodesOf(cur'.module)) + 1
        /\ direction' = Stated(NodesOf(cur'.module), at' - 1)
        /\ Lists(parsed', NodesOf(cur'.module), at' - 1)

NextPrefixed ==
    doing' = "walk" =>
        /\ at' \in 1..Len(EventsOf(cur'.module)) + 1
        /\ prefix' = Around(cur'.module, at')

NextRight(x) ==
    Lists(blocksByScope'[x.scope], NodesOf(x.module), Len(NodesOf(x.module)))

NextFinding ==
    /\ DOMAIN blocksByScope' \subseteq {x.scope : x \in Hierarchy}
    /\ doing' # "endless" =>
         /\ NextReached(Root)
         /\ \A x \in Hierarchy : x.scope \in DOMAIN blocksByScope' =>
               \/ NextWaiting(x)
               \/ /\ NextRight(x)
                  /\ \A i \in Entering(x.module) : NextPassed(x, i) => NextReached(Child(x, i))

\* The design is never changed, so neither is what is read off it.
LEMMA SameDesign ==
    ASSUME design' = design
    PROVE  /\ Straight' <=> Straight
           /\ \A m, i : Around(m, i)' = Around(m, i)
           /\ \A m : EventsOf(m)' = EventsOf(m) /\ NodesOf(m)' = NodesOf(m)
           /\ Around(cur.module, at)' = Around(cur'.module, at')
           /\ EventsOf(cur.module)' = EventsOf(cur'.module)
           /\ NodesOf(cur.module)' = NodesOf(cur'.module)
           /\ \A x : Inside(x)' = Inside(x)
           /\ Hierarchy' = Hierarchy
           /\ Shallow' = Shallow
           /\ \A m : Entering(m)' = Entering(m)
           /\ \A x, i : Child(x, i)' = Child(x, i)
<1>1. \A m : EventsOf(m)' = EventsOf(m) /\ NodesOf(m)' = NodesOf(m)
  BY DEF EventsOf, NodesOf
<1>2. /\ EventsOf(cur.module)' = EventsOf(cur'.module)
      /\ NodesOf(cur.module)' = NodesOf(cur'.module)
  BY DEF EventsOf, NodesOf
<1>3. Straight' <=> Straight
  BY DEF Straight, Plain, EventsOf
<1>4. \A m, i : Around(m, i)' = Around(m, i)
  BY DEF Around, OpenBefore, Opening, Closing, EventsOf
<1>5. Around(cur.module, at)' = Around(cur'.module, at')
  BY DEF Around, OpenBefore, Opening, Closing, EventsOf
<1>6. \A x : Inside(x)' = Inside(x)
  BY DEF Inside, Around, OpenBefore, Opening, Closing, EventsOf
<1>7. Hierarchy' = Hierarchy
  BY DEF Hierarchy, Inside, Around, OpenBefore, Opening, Closing, EventsOf
<1>8. Shallow' = Shallow
  BY <1>7 DEF Shallow
<1>9. \A m : Entering(m)' = Entering(m)
  BY DEF Entering, EventsOf
<1>10. \A x, i : Child(x, i)' = Child(x, i)
  BY DEF Child, Around, OpenBefore, Opening, Closing, EventsOf
<1> QED BY <1>1, <1>2, <1>3, <1>4, <1>5, <1>6, <1>7, <1>8, <1>9, <1>10

\* The invariant after a step follows from its form before it.
LEMMA NextInv ==
    ASSUME design' = design, NextTypes, NextParsing, NextPrefixed, NextFinding
    PROVE  WalkTypes' /\ Parsing' /\ Prefixed' /\ Finding'
<1>1. WalkTypes'
  BY SameDesign DEF WalkTypes, NextTypes
<1>2. Parsing'
  BY SameDesign DEF Parsing, NextParsing
<1>3. Prefixed'
  BY SameDesign DEF Prefixed, NextPrefixed
<1>4. Finding'
  BY SameDesign DEF Finding, NextFinding, Right, NextRight, Reached, NextReached,
     Waiting, NextWaiting, Passed, NextPassed
<1> QED BY <1>1, <1>2, <1>3, <1>4

\* At first the top module waits, and nothing else was found.
LEMMA InvInit ==
    ASSUME WalkInit
    PROVE  WalkInv
<1> SUFFICES ASSUME Straight
             PROVE  WalkTypes /\ Parsing /\ Prefixed /\ Finding
  BY DEF WalkInv
<1>1. Root \in Hierarchy /\ Cardinality(Modules) \in Nat
  BY HierarchyIs
<1>2. Root.scope = <<>> /\ Root.depth = 0
  BY DEF Root, Instance
<1>3. Root \in Shallow
  BY <1>1, <1>2 DEF Shallow
<1>4. queue = <<Root>> /\ doing = "pop"
  BY DEF WalkInit, Root
<1>5. WalkTypes
  BY <1>3, <1>4 DEF WalkTypes
<1>6. DOMAIN blocksByScope = {}
  BY DEF WalkInit
<1>7. Reached(Root)
  BY <1>4 DEF Reached, Waiting
<1>8. Finding
  BY <1>6, <1>7 DEF Finding
<1> QED BY <1>4, <1>5, <1>8 DEF Parsing, Prefixed

\* What the instances in the queue are.
LEMMA ShallowIs ==
    ASSUME Straight, NEW x \in Shallow
    PROVE  x \in Hierarchy /\ x \in Instances /\ x.module \in Modules
           /\ x.depth \in Nat /\ x.depth <= Cardinality(Modules)
BY HierarchyIs DEF Shallow, Instances

\* What was waiting or found stays so in every step that collects nothing.
LEMMA PopStep ==
    ASSUME Straight, WalkTypes, Finding, Pop
    PROVE  NextTypes /\ NextParsing /\ NextPrefixed /\ NextFinding
<1>1. /\ doing = "pop" /\ queue # <<>> /\ cur' = Head(queue) /\ queue' = Tail(queue)
      /\ at' = 1 /\ direction' = None /\ parsed' = <<>> /\ doing' = "parse"
      /\ blocksByScope' = blocksByScope
  BY DEF Pop
<1>2. queue \in Seq(Shallow)
  BY DEF WalkTypes
<1>3. PICK n \in Nat : n = Len(queue) /\ n > 0
  BY <1>1, <1>2
<1>4. /\ queue' \in Seq(Shallow) /\ cur' \in Shallow /\ cur' = queue[1]
      /\ DOMAIN queue = 1..n /\ DOMAIN queue' = 1..n - 1
      /\ \A k \in 1..n - 1 : queue'[k] = queue[k + 1]
  BY <1>1, <1>2, <1>3
<1>5. NextTypes
  BY <1>1, <1>4 DEF NextTypes
<1>6. NextParsing
  <2>1. cur'.module \in Modules
    BY <1>4, ShallowIs
  <2>2. PICK nodes \in Seq(NodeKinds) : nodes = NodesOf(cur'.module)
    BY <2>1, EventsType
  <2>3. 1 \in 1..Len(nodes) + 1 /\ 1 - 1 = 0 /\ 1..0 = {}
    OBVIOUS
  <2>4. Stated(nodes, 0) = None
    BY <2>3 DEF Stated
  <2>5. Lists(<<>>, nodes, 0)
    BY <2>3 DEF Lists
  <2> QED BY <1>1, <2>2, <2>3, <2>4, <2>5 DEF NextParsing
<1>7. NextPrefixed
  BY <1>1 DEF NextPrefixed
<1>8. ASSUME NEW x, Waiting(x)
      PROVE  NextWaiting(x)
  <2>1. PICK k \in 1..n : queue[k] = x
    BY <1>1, <1>4, <1>8 DEF Waiting
  <2>2. k = 1 \/ (k - 1 \in 1..n - 1 /\ (k - 1) + 1 = k)
    OBVIOUS
  <2>3. CASE k = 1
    BY <1>1, <1>4, <2>1, <2>3 DEF NextWaiting
  <2>4. CASE k - 1 \in 1..n - 1 /\ (k - 1) + 1 = k
    <3>1. queue'[k - 1] = x
      BY <1>4, <2>1, <2>4
    <3> QED BY <1>4, <2>4, <3>1 DEF NextWaiting
  <2> QED BY <2>2, <2>3, <2>4
<1>9. NextFinding
  <2>1. \A x : Reached(x) => NextReached(x)
    BY <1>1, <1>8 DEF Reached, NextReached
  <2>2. \A x, i : Passed(x, i)
    BY <1>1 DEF Passed
  <2>3. \A x : Right(x) => NextRight(x)
    BY <1>1 DEF Right, NextRight
  <2> QED BY <1>1, <1>8, <2>1, <2>2, <2>3 DEF Finding, NextFinding
<1> QED BY <1>5, <1>6, <1>7, <1>9

\* A step that leaves queue and blocks alone and stays out of the walk.
LEMMA QuietStep ==
    ASSUME Finding, queue' = queue, cur' = cur, blocksByScope' = blocksByScope,
           doing # "endless", doing = "parse" => doing' = "parse",
           \A x \in Hierarchy : \A i : (i \in Entering(x.module) /\ NextPassed(x, i)) => Passed(x, i)
    PROVE  NextFinding
<1>1. \A x : Waiting(x) => NextWaiting(x)
  BY DEF Waiting, NextWaiting
<1>2. \A x : Reached(x) => NextReached(x)
  BY <1>1 DEF Reached, NextReached
<1>3. \A x : Right(x) => NextRight(x)
  BY DEF Right, NextRight
<1> QED BY <1>1, <1>2, <1>3 DEF Finding, NextFinding

\* The queue is empty.
LEMMA DoneStep ==
    ASSUME WalkTypes, Finding, Done
    PROVE  NextTypes /\ NextParsing /\ NextPrefixed /\ NextFinding
<1>1. /\ doing = "pop" /\ queue = <<>> /\ doing' = "done"
      /\ queue' = queue /\ cur' = cur /\ blocksByScope' = blocksByScope
  BY DEF Done
<1>2. NextTypes
  BY <1>1 DEF WalkTypes, NextTypes
<1>3. NextFinding
  BY <1>1, QuietStep DEF Passed
<1> QED BY <1>1, <1>2, <1>3 DEF NextParsing, NextPrefixed

\* One more line is read.
LEMMA ParseNodeStep ==
    ASSUME Straight, WalkTypes, Parsing, Finding, ParseNode
    PROVE  NextTypes /\ NextParsing /\ NextPrefixed /\ NextFinding
<1>1. /\ doing = "parse" /\ doing' = doing /\ queue' = queue /\ cur' = cur
      /\ blocksByScope' = blocksByScope /\ at' = at + 1
      /\ at <= Len(NodesOf(cur.module))
  BY DEF ParseNode
<1>2. NextTypes
  BY <1>1 DEF WalkTypes, NextTypes
<1>3. NextFinding
  BY <1>1, QuietStep DEF Passed
<1>4. cur.module \in Modules
  BY <1>1, ShallowIs DEF WalkTypes
<1>5. PICK nodes \in Seq(NodeKinds) : nodes = NodesOf(cur.module)
  BY <1>4, EventsType
<1>6. /\ direction' = IF nodes[at] \in Ports THEN Direction(nodes[at]) ELSE direction
      /\ parsed' = IF BlockType(nodes[at]) = None THEN parsed
                   ELSE Append(parsed, [bid  |-> Len(parsed),
                                        type |-> BlockType(nodes[at]),
                                        line |-> at])
  BY <1>5 DEF ParseNode
<1>7. /\ at \in 1..Len(nodes) + 1
      /\ direction = Stated(nodes, at - 1)
      /\ Lists(parsed, nodes, at - 1)
  BY <1>1, <1>5 DEF Parsing
<1>8. PICK i \in Nat \ {0} : i = at
  BY <1>7
<1>9. i \in 1..Len(nodes) /\ nodes[i] \in NodeKinds /\ (i + 1) - 1 = i
      /\ i + 1 \in 1..Len(nodes) + 1
  BY <1>1, <1>5, <1>7, <1>8
<1>10. /\ (IF nodes[i] \in Ports THEN Direction(nodes[i]) ELSE direction) = Stated(nodes, i)
       /\ BlockType(nodes[i]) = None <=> ~Shown(nodes, i)
       /\ Shown(nodes, i) => /\ BlockType(nodes[i]) = TypeOfLine(nodes, i)
                             /\ TypeOfLine(nodes, i) \in NodeKinds
  BY <1>7, <1>8, <1>9, BlockTypeIs
<1>11. Lists(parsed', nodes, i)
  <2>1. CASE Shown(nodes, i)
    <3>1. parsed' = Append(parsed, [bid  |-> Len(parsed),
                                    type |-> TypeOfLine(nodes, i),
                                    line |-> i])
      BY <1>6, <1>8, <1>10, <2>1
    <3> QED BY <1>7, <1>8, <1>10, <2>1, <3>1, ListsNext
  <2>2. CASE ~Shown(nodes, i)
    <3>1. parsed' = parsed
      BY <1>6, <1>8, <1>10, <2>2
    <3> QED BY <1>7, <1>8, <2>2, <3>1, ListsNext
  <2> QED BY <2>1, <2>2
<1>12. NextParsing
  BY <1>1, <1>5, <1>6, <1>8, <1>9, <1>10, <1>11 DEF NextParsing
<1> QED BY <1>1, <1>2, <1>3, <1>12 DEF NextPrefixed

\* The blocks of the module are kept under the instance's scope.
LEMMA EndParseStep ==
    ASSUME Straight, WalkTypes, Parsing, Finding, EndParse
    PROVE  NextTypes /\ NextParsing /\ NextPrefixed /\ NextFinding
<1>1. /\ doing = "parse" /\ doing' = "walk" /\ queue' = queue /\ cur' = cur
      /\ at' = 1 /\ prefix' = <<>>
      /\ at > Len(NodesOf(cur.module))
      /\ blocksByScope' = [s \in DOMAIN blocksByScope \cup {cur.scope} |->
                             IF s = cur.scope THEN parsed ELSE blocksByScope[s]]
  BY DEF EndParse
<1>2. cur \in Shallow /\ cur \in Hierarchy /\ cur.module \in Modules
  BY <1>1, ShallowIs DEF WalkTypes
<1>3. NextTypes
  BY <1>1, <1>2 DEF WalkTypes, NextTypes
<1>4. NextPrefixed
  <2>1. EventsOf(cur.module) \in Seq(Events)
    BY <1>2, EventsType
  <2>2. 1 \in 1..Len(EventsOf(cur.module)) + 1
    BY <2>1
  <2> QED BY <1>1, <2>2, AroundStart DEF NextPrefixed
<1>5. Lists(parsed, NodesOf(cur.module), Len(NodesOf(cur.module)))
  <2>1. PICK nodes \in Seq(NodeKinds) : nodes = NodesOf(cur.module)
    BY <1>2, EventsType
  <2>2. at \in 1..Len(nodes) + 1 /\ at > Len(nodes) /\ Lists(parsed, nodes, at - 1)
    BY <1>1, <2>1 DEF Parsing
  <2>3. at - 1 = Len(nodes)
    BY <2>2
  <2> QED BY <2>1, <2>2, <2>3
<1>6. /\ DOMAIN blocksByScope' = DOMAIN blocksByScope \cup {cur.scope}
      /\ blocksByScope'[cur.scope] = parsed
      /\ \A s \in DOMAIN blocksByScope : s # cur.scope => blocksByScope'[s] = blocksByScope[s]
  BY <1>1
<1>7. ASSUME NEW x, Reached(x)
      PROVE  NextReached(x)
  BY <1>1, <1>6, <1>7 DEF Reached, NextReached, Waiting, NextWaiting
<1>8. ASSUME NEW x \in Hierarchy, x.scope \in DOMAIN blocksByScope'
      PROVE  \/ NextWaiting(x)
             \/ /\ NextRight(x)
                /\ \A i \in Entering(x.module) : NextPassed(x, i) => NextReached(Child(x, i))
  <2>1. CASE x.scope = cur.scope
    <3>1. x = cur
      BY <1>2, <2>1, ScopesApart
    <3>2. NextRight(x)
      BY <1>5, <1>6, <3>1 DEF NextRight
    <3>3. \A i \in Entering(x.module) : ~NextPassed(x, i)
      <4>1. \A i \in Entering(x.module) : i \in Nat \ {0}
        BY <1>2, <3>1, EventsType DEF Entering
      <4>2. \A i \in Nat \ {0} : ~(i < 1)
        OBVIOUS
      <4> QED BY <1>1, <3>1, <4>1, <4>2 DEF NextPassed
    <3> QED BY <3>2, <3>3
  <2>2. CASE x.scope # cur.scope
    <3>1. x.scope \in DOMAIN blocksByScope /\ x # cur
      BY <1>6, <1>8, <2>2
    <3>2. CASE Waiting(x)
      BY <1>1, <3>1, <3>2 DEF Waiting, NextWaiting
    <3>3. CASE ~Waiting(x)
      <4>1. Right(x) /\ \A i \in Entering(x.module) : Passed(x, i) => Reached(Child(x, i))
        BY <1>1, <3>1, <3>3 DEF Finding
      <4>2. \A i : Passed(x, i)
        BY <1>1 DEF Passed
      <4>3. NextRight(x)
        BY <1>6, <2>2, <3>1, <4>1 DEF Right, NextRight
      <4> QED BY <1>7, <4>1, <4>2, <4>3
    <3> QED BY <3>2, <3>3
  <2> QED BY <2>1, <2>2
<1>9. NextFinding
  BY <1>1, <1>2, <1>6, <1>7, <1>8 DEF Finding, NextFinding
<1> QED BY <1>1, <1>3, <1>4, <1>9 DEF NextParsing

\* Where the walk stands.
LEMMA WalkingAt ==
    ASSUME Straight, WalkTypes, Prefixed, doing = "walk"
    PROVE  /\ cur \in Shallow /\ cur \in Hierarchy /\ cur \in Instances
           /\ cur.module \in Modules
           /\ EventsOf(cur.module) \in Seq(Events)
           /\ at \in Nat \ {0} /\ at <= Len(EventsOf(cur.module)) + 1
           /\ prefix = Around(cur.module, at)
           /\ \A i \in Entering(cur.module) : i \in Nat \ {0} /\ i <= Len(EventsOf(cur.module))
<1>1. cur \in Shallow /\ cur \in Hierarchy /\ cur \in Instances /\ cur.module \in Modules
  BY ShallowIs DEF WalkTypes
<1>2. EventsOf(cur.module) \in Seq(Events)
  BY <1>1, EventsType
<1>3. at \in 1..Len(EventsOf(cur.module)) + 1 /\ prefix = Around(cur.module, at)
  BY DEF Prefixed
<1>4. at \in Nat \ {0} /\ at <= Len(EventsOf(cur.module)) + 1
  BY <1>2, <1>3
<1>5. \A i \in Entering(cur.module) : i \in Nat \ {0} /\ i <= Len(EventsOf(cur.module))
  BY <1>2 DEF Entering
<1> QED BY <1>1, <1>2, <1>3, <1>4, <1>5

\* Walking over the opening or the closing of a block.
LEMMA BlockStep ==
    ASSUME Straight, WalkTypes, Prefixed, Finding, OpenBlock \/ CloseBlock
    PROVE  NextTypes /\ NextParsing /\ NextPrefixed /\ NextFinding
<1>1. /\ doing = "walk" /\ doing' = doing /\ queue' = queue /\ cur' = cur
      /\ blocksByScope' = blocksByScope /\ at' = at + 1
      /\ at <= Len(EventsOf(cur.module))
      /\ EventsOf(cur.module)[at].kind \in {"open", "close"}
  BY DEF OpenBlock, CloseBlock, Walking, Event
<1>2. /\ cur \in Shallow /\ cur.module \in Modules
      /\ EventsOf(cur.module) \in Seq(Events)
      /\ at \in Nat \ {0}
      /\ prefix = Around(cur.module, at)
  BY <1>1, WalkingAt
<1>3. PICK n \in Nat : n = Len(EventsOf(cur.module))
  BY <1>2
<1>4. at + 1 \in 1..n + 1 /\ at \in 1..n
  BY <1>1, <1>2, <1>3
<1>5. at \in DOMAIN EventsOf(cur.module)
  BY <1>2, <1>3, <1>4
<1>6. NextTypes
  BY <1>1, <1>2 DEF WalkTypes, NextTypes
<1>7. prefix' = Around(cur.module, at + 1)
  <2>1. CASE OpenBlock
    <3>1. EventsOf(cur.module)[at].kind = "open"
      BY <2>1 DEF OpenBlock, Walking, Event
    <3>2. EventsOf(cur.module)[at].label
      BY <1>2, <1>5, <3>1 DEF Straight, Plain
    <3>3. prefix' = Append(prefix, Label(at))
      BY <2>1, <3>2 DEF OpenBlock, Event
    <3> QED BY <1>2, <3>1, <3>3, AroundOpen
  <2>2. CASE CloseBlock
    <3>1. EventsOf(cur.module)[at].kind = "close"
      BY <2>2 DEF CloseBlock, Walking, Event
    <3>2. ~EventsOf(cur.module)[at].label
      BY <1>2, <1>5, <3>1 DEF Straight, Plain
    <3>3. prefix' = IF prefix = <<>> THEN <<>> ELSE SubSeq(prefix, 1, Len(prefix) - 1)
      BY <2>2, <3>2 DEF CloseBlock, Event
    <3> QED BY <1>2, <3>1, <3>3, AroundClose
  <2> QED BY <2>1, <2>2
<1>8. NextPrefixed
  BY <1>1, <1>3, <1>4, <1>7 DEF NextPrefixed
<1>9. \A x \in Hierarchy : \A i : (i \in Entering(x.module) /\ NextPassed(x, i)) => Passed(x, i)
  <2>1. at \notin Entering(cur.module)
    BY <1>1 DEF Entering
  <2>2. \A i \in Entering(cur.module) : i \in Nat
    BY <1>1, WalkingAt
  <2>3. \A i \in Nat : i < at + 1 => (i < at \/ i = at)
    BY <1>2
  <2> QED BY <1>1, <2>1, <2>2, <2>3 DEF Passed, NextPassed
<1>10. NextFinding
  BY <1>1, <1>9, QuietStep
<1> QED BY <1>1, <1>6, <1>8, <1>10 DEF NextParsing

\* An instantiation is queued under the scope the prefix gives it.
LEMMA EnterInstanceStep ==
    ASSUME Straight, WalkTypes, Prefixed, Finding, EnterInstance
    PROVE  NextTypes /\ NextParsing /\ NextPrefixed /\ NextFinding
<1> DEFINE m == cur.module
<1>1. /\ doing = "walk" /\ cur' = cur
      /\ blocksByScope' = blocksByScope /\ at' = at + 1 /\ prefix' = prefix
      /\ at <= Len(EventsOf(m)) /\ EventsOf(m)[at].kind = "inst"
  BY DEF EnterInstance, Walking, Event
<1>2. /\ cur \in Shallow /\ cur \in Hierarchy /\ cur \in Instances /\ m \in Modules
      /\ EventsOf(m) \in Seq(Events)
      /\ at \in Nat \ {0}
      /\ prefix = Around(m, at)
      /\ \A i \in Entering(m) : i \in Nat \ {0}
  BY <1>1, WalkingAt
<1>3. PICK n \in Nat : n = Len(EventsOf(m))
  BY <1>2
<1>4. at + 1 \in 1..n + 1 /\ at \in 1..n
  BY <1>1, <1>2, <1>3
<1>5. at \in DOMAIN EventsOf(m)
  BY <1>2, <1>3, <1>4
<1>6. prefix' = Around(m, at + 1)
  BY <1>1, <1>2, AroundOther
<1>7. NextPrefixed
  BY <1>1, <1>3, <1>4, <1>6 DEF NextPrefixed
<1>8. \A i \in Entering(m) : i < at + 1 => (i < at \/ i = at)
  <2>1. \A i \in Nat : i < at + 1 => (i < at \/ i = at)
    BY <1>2
  <2> QED BY <1>2, <2>1
<1>9. CASE EventsOf(m)[at].of = Library
  <2>1. doing' = doing /\ queue' = queue
    BY <1>9 DEF EnterInstance, Event
  <2>2. at \notin Entering(m)
    BY <1>9 DEF Entering
  <2>3. \A x \in Hierarchy : \A i : (i \in Entering(x.module) /\ NextPassed(x, i)) => Passed(x, i)
    BY <1>1, <1>8, <2>1, <2>2 DEF Passed, NextPassed
  <2>4. NextFinding
    BY <1>1, <2>1, <2>3, QuietStep
  <2>5. NextTypes
    BY <1>1, <1>2, <2>1 DEF WalkTypes, NextTypes
  <2> QED BY <1>1, <1>7, <2>1, <2>4, <2>5 DEF NextParsing
<1>10. CASE EventsOf(m)[at].of # Library /\ cur.depth >= Cardinality(Modules)
  <2>1. doing' = "endless" /\ queue' = queue
    BY <1>10 DEF EnterInstance, Event
  <2>2. NextTypes
    BY <2>1 DEF WalkTypes, NextTypes
  <2>3. NextFinding
    BY <1>1, <2>1 DEF Finding, NextFinding
  <2> QED BY <1>7, <2>1, <2>2, <2>3 DEF NextParsing
<1>11. CASE EventsOf(m)[at].of # Library /\ ~(cur.depth >= Cardinality(Modules))
  <2>1. /\ doing' = doing
        /\ queue' = Append(queue, Child(cur, at))
    BY <1>2, <1>11 DEF EnterInstance, Event, Child
  <2>2. at \in Entering(m)
    BY <1>1, <1>5, <1>11 DEF Entering
  <2>3. Child(cur, at) \in Shallow
    <3>1. Child(cur, at).depth = cur.depth + 1
      BY <1>2, <2>2, ChildType
    <3>2. cur.depth \in Nat /\ cur.depth <= Cardinality(Modules) /\ Cardinality(Modules) \in Nat
      BY <1>2, ShallowIs, HierarchyIs
    <3>3. Child(cur, at).depth <= Cardinality(Modules)
      BY <1>11, <3>1, <3>2
    <3>4. Child(cur, at) \in Hierarchy
      BY <1>2, <2>2, <3>2, HierarchyIs
    <3> QED BY <3>3, <3>4 DEF Shallow
  <2>4. queue \in Seq(Shallow)
    BY DEF WalkTypes
  <2>5. PICK c \in Shallow : c = Child(cur, at)
    BY <2>3
  <2>6. PICK l \in Nat : l = Len(queue)
    BY <2>4
  <2>7. /\ queue' \in Seq(Shallow)
        /\ DOMAIN queue = 1..l /\ DOMAIN queue' = 1..l + 1
        /\ \A k \in 1..l : queue'[k] = queue[k] /\ k \in 1..l + 1
        /\ queue'[l + 1] = c /\ l + 1 \in 1..l + 1
    BY <2>1, <2>4, <2>5, <2>6
  <2>8. NextTypes
    BY <1>1, <1>2, <2>1, <2>7 DEF WalkTypes, NextTypes
  <2>9. \A x : Waiting(x) => NextWaiting(x)
    BY <1>1, <2>7 DEF Waiting, NextWaiting
  <2>10. \A x : Reached(x) => NextReached(x)
    BY <1>1, <2>9 DEF Reached, NextReached
  <2>11. NextReached(Child(cur, at))
    BY <2>5, <2>7 DEF NextReached, NextWaiting
  <2>12. \A x \in Hierarchy : Right(x) => NextRight(x)
    BY <1>1 DEF Right, NextRight
  <2>13. \A x \in Hierarchy : \A i \in Entering(x.module) :
            NextPassed(x, i) => Passed(x, i) \/ (x = cur /\ i = at)
    BY <1>1, <1>8, <2>1 DEF Passed, NextPassed
  <2>14. NextFinding
    BY <1>1, <2>9, <2>10, <2>11, <2>12, <2>13 DEF Finding, NextFinding
  <2> QED BY <1>1, <1>7, <2>1, <2>8, <2>14 DEF NextParsing
<1> QED BY <1>9, <1>10, <1>11

\* All positions of the module are passed.
LEMMA EndWalkStep ==
    ASSUME Straight, WalkTypes, Prefixed, Finding, EndWalk
    PROVE  NextTypes /\ NextParsing /\ NextPrefixed /\ NextFinding
<1>1. /\ doing = "walk" /\ doing' = "pop" /\ queue' = queue /\ cur' = cur
      /\ blocksByScope' = blocksByScope
      /\ at > Len(EventsOf(cur.module))
  BY DEF EndWalk
<1>2. NextTypes
  BY <1>1 DEF WalkTypes, NextTypes
<1>3. \A i \in Entering(cur.module) : i < at
  <2>1. /\ EventsOf(cur.module) \in Seq(Events) /\ at \in Nat
        /\ \A i \in Entering(cur.module) : i \in Nat /\ i <= Len(EventsOf(cur.module))
    BY <1>1, WalkingAt
  <2>2. PICK n \in Nat : n = Len(EventsOf(cur.module))
    BY <2>1
  <2>3. \A i \in Nat : i <= n => i < at
    BY <1>1, <2>1, <2>2
  <2> QED BY <2>1, <2>2, <2>3
<1>4. NextFinding
  BY <1>1, <1>3, QuietStep DEF Passed
<1> QED BY <1>1, <1>2, <1>4 DEF NextParsing, NextPrefixed

\* Every step keeps the invariant.
LEMMA WalkStep ==
    ASSUME WalkInv, [WalkNext]_walk
    PROVE  WalkInv'
<1> SUFFICES ASSUME Straight'
             PROVE  WalkTypes' /\ Parsing' /\ Prefixed' /\ Finding'
  BY DEF WalkInv
<1>1. design' = design
  BY DEF WalkNext, Pop, Done, ParseNode, EndParse, OpenBlock, CloseBlock, EnterInstance,
     EndWalk, WalkFinished, walk
<1>2. Straight
  BY <1>1, SameDesign
<1>3. WalkTypes /\ Parsing /\ Prefixed /\ Finding
  BY <1>2 DEF WalkInv
<1>4. CASE WalkNext /\ ~WalkFinished
  <2>1. NextTypes /\ NextParsing /\ NextPrefixed /\ NextFinding
    BY <1>2, <1>3, <1>4, PopStep, DoneStep, ParseNodeStep, EndParseStep, BlockStep,
       EnterInstanceStep, EndWalkStep DEF WalkNext
  <2> QED BY <1>1, <2>1, NextInv
<1>5. CASE UNCHANGED walk
  <2>1. /\ doing' = doing /\ queue' = queue /\ cur' = cur /\ at' = at
        /\ direction' = direction /\ parsed' = parsed /\ prefix' = prefix
        /\ blocksByScope' = blocksByScope
    BY <1>5 DEF walk
  <2>2. NextTypes
    BY <1>3, <2>1 DEF WalkTypes, NextTypes
  <2>3. NextParsing
    BY <1>3, <2>1 DEF Parsing, NextParsing
  <2>4. NextPrefixed
    BY <1>3, <2>1 DEF Prefixed, NextPrefixed
  <2>5. NextFinding
    BY <1>3, <2>1 DEF Finding, NextFinding, Waiting, NextWaiting, Reached, NextReached,
       Passed, NextPassed, Right, NextRight
  <2> QED BY <1>1, <2>2, <2>3, <2>4, <2>5, NextInv
<1> QED BY <1>4, <1>5 DEF WalkFinished

\* A walk that is done has found every instance.
LEMMA AllFound ==
    ASSUME Straight, WalkTypes, Finding, doing = "done"
    PROVE  \A x \in Hierarchy : x.scope \in DOMAIN blocksByScope /\ Right(x)
<1>1. \A x : ~Waiting(x)
  <2>1. DOMAIN queue = {}
    BY DEF WalkTypes
  <2> QED BY <2>1 DEF Waiting
<1>2. \A x \in Hierarchy : x.scope \in DOMAIN blocksByScope =>
         Right(x) /\ \A i \in Entering(x.module) : Child(x, i).scope \in DOMAIN blocksByScope
  BY <1>1 DEF Finding, Passed, Reached
<1> DEFINE Lost(n) == \E x \in Hierarchy : x.depth = n /\ x.scope \notin DOMAIN blocksByScope
           Bad == {n \in Nat : Lost(n)}
<1>3. Hierarchy \subseteq Instances
  BY HierarchyIs
<1>4. Bad = {}
  <2>1. SUFFICES ASSUME Bad # {} PROVE FALSE
    OBVIOUS
  <2>2. PICK n \in Bad : \A o \in Bad : n <= o
    <3>1. Bad \in SUBSET Nat
      OBVIOUS
    <3> HIDE DEF Bad
    <3> QED BY <2>1, <3>1, LeastNatural
  <2>3. PICK x \in Hierarchy : x.depth = n /\ x.scope \notin DOMAIN blocksByScope
    BY <2>2
  <2>4. x # Root
    BY <1>1, <2>3 DEF Finding, Reached
  <2>5. PICK p \in Hierarchy : \E i \in Entering(p.module) : x = Child(p, i)
    BY <2>4, HierarchyIs
  <2>6. p.scope \notin DOMAIN blocksByScope
    BY <1>2, <2>3, <2>5
  <2>7. p.depth \in Nat /\ x.depth = p.depth + 1
    BY <1>3, <2>5, ChildType DEF Instances
  <2>8. p.depth \in Bad /\ ~(n <= p.depth)
    BY <2>3, <2>6, <2>7
  <2> QED BY <2>2, <2>8
<1>5. \A x \in Hierarchy : x.depth \in Nat
  BY <1>3 DEF Instances
<1> QED BY <1>2, <1>4, <1>5

\* Every instance of the design is found under its own scope with the blocks
\* of its own module, and no other scope is made up (mgr.rs, dfb.rs), when
\* generate blocks are labelled once and statements make one instance: for
\* every design, however deep.
THEOREM InstancesFoundHolds == WalkSpec => []InstancesFound
<1>1. WalkInit => WalkInv
  BY InvInit
<1>2. WalkInv /\ [WalkNext]_walk => WalkInv'
  BY WalkStep
<1>3. WalkInit => design \in Designs
  BY DEF WalkInit
<1>4. design \in Designs /\ [WalkNext]_walk => (design \in Designs)'
  BY DEF WalkNext, Pop, Done, ParseNode, EndParse, OpenBlock, CloseBlock, EnterInstance,
     EndWalk, WalkFinished, walk
<1>5. WalkInv /\ design \in Designs => InstancesFound
  <2> SUFFICES ASSUME WalkInv, design \in Designs, doing = "done", Plain
               PROVE  /\ DOMAIN blocksByScope = {x.scope : x \in Hierarchy}
                      /\ \A x \in Hierarchy :
                           LET nodes == NodesOf(x.module)
                               found == blocksByScope[x.scope]
                           IN  /\ {<<found[b].line, found[b].type>> : b \in DOMAIN found}
                                      = {<<i, TypeOfLine(nodes, i)>> : i \in
                                           {j \in DOMAIN nodes :
                                              TypeOfLine(nodes, j) \notin {None, "inout", "net"}}}
                               /\ \A b, c \in DOMAIN found :
                                     found[b].bid = found[c].bid => b = c
    BY DEF InstancesFound
  <2>1. Straight /\ WalkTypes /\ Finding
    BY DEF WalkInv, Straight
  <2>2. \A x \in Hierarchy : x.scope \in DOMAIN blocksByScope /\ Right(x)
    BY <2>1, AllFound
  <2>3. DOMAIN blocksByScope = {x.scope : x \in Hierarchy}
    BY <2>1, <2>2 DEF Finding
  <2>4. ASSUME NEW x \in Hierarchy
        PROVE  LET nodes == NodesOf(x.module)
                   found == blocksByScope[x.scope]
               IN  /\ {<<found[b].line, found[b].type>> : b \in DOMAIN found}
                          = {<<i, TypeOfLine(nodes, i)>> : i \in
                               {j \in DOMAIN nodes :
                                  TypeOfLine(nodes, j) \notin {None, "inout", "net"}}}
                   /\ \A b, c \in DOMAIN found :
                         found[b].bid = found[c].bid => b = c
    <3>1. PICK nodes \in Seq(NodeKinds) : nodes = NodesOf(x.module)
      <4>1. x.module \in Modules
        BY <2>1, HierarchyIs DEF Instances
      <4> QED BY <2>1, <4>1, EventsType
    <3>2. PICK found : found = blocksByScope[x.scope]
      OBVIOUS
    <3>3. /\ found \in Seq(BlockRecords)
          /\ \A b \in DOMAIN found :
               /\ found[b].bid = b - 1
               /\ found[b].line \in 1..Len(nodes)
               /\ Shown(nodes, found[b].line)
               /\ found[b].type = TypeOfLine(nodes, found[b].line)
          /\ \A i \in 1..Len(nodes) : Shown(nodes, i) =>
               \E b \in DOMAIN found : found[b].line = i
      BY <2>2, <3>1, <3>2 DEF Right, Lists
    <3>4. DOMAIN nodes = 1..Len(nodes)
      BY <3>1
    <3>5. {<<found[b].line, found[b].type>> : b \in DOMAIN found}
            = {<<i, TypeOfLine(nodes, i)>> : i \in {j \in DOMAIN nodes : Shown(nodes, j)}}
      <4>1. ASSUME NEW b \in DOMAIN found
            PROVE  /\ found[b].line \in {j \in DOMAIN nodes : Shown(nodes, j)}
                   /\ found[b].type = TypeOfLine(nodes, found[b].line)
        BY <3>3, <3>4
      <4>2. ASSUME NEW i \in DOMAIN nodes, Shown(nodes, i)
            PROVE  \E b \in DOMAIN found :
                      found[b].line = i /\ found[b].type = TypeOfLine(nodes, i)
        BY <3>3, <3>4, <4>2
      <4> QED BY <4>1, <4>2
    <3>6. \A b, c \in DOMAIN found : found[b].bid = found[c].bid => b = c
      <4>1. \A b, c \in Nat : b - 1 = c - 1 => b = c
        OBVIOUS
      <4>2. \A b \in DOMAIN found : b \in Nat /\ found[b].bid = b - 1
        BY <3>3
      <4> QED BY <4>1, <4>2
    <3> QED BY <3>1, <3>2, <3>5, <3>6 DEF Shown
  <2> QED BY <2>3, <2>4
<1> QED BY <1>1, <1>2, <1>3, <1>4, <1>5, PTL DEF WalkSpec
=============================================================================
