-------------------------------- MODULE Report --------------------------------
(***************************************************************************)
(* The fault localisation report: calculate_coverage_stats and             *)
(* calculate_metric_score (src/spectrum/matrix.rs) count and score every   *)
(* coverage point, report_result (src/bugloc.rs) ranks the points, prints  *)
(* the first top_sus of them, and maps the ranking to RTL blocks.          *)
(*                                                                         *)
(* A score is an exact fraction; where the code takes a square root the    *)
(* model compares the squares, which order non-negative scores alike.      *)
(***************************************************************************)
EXTENDS Integers, FiniteSets, Sequences

CONSTANTS
    PointCount,  \* coverage points, in the order cover_names() lists them
    MaxPassing,  \* top_pass: the passing cases that reach the report
    Metrics,     \* the values of --metric considered
    TopSus,      \* top_sus
    Blocks,      \* blocks, numbered in the order of get_all_blocks()
    Covering     \* point -> the blocks whose scope and lines contain it

Points == 1..PointCount

AllMetrics == {"Tarantula", "Ochiai", "Jaccard", "Dstar", "GP19", "Barinel",
               "Crosstab", "Zoltar", "Ample"}

ASSUME PointAssumption == PointCount \in Nat
ASSUME CaseAssumption == MaxPassing \in Nat
ASSUME MetricAssumption == Metrics \subseteq AllMetrics
ASSUME TopSusAssumption == TopSus \in Nat
ASSUME BlockAssumption == Blocks \subseteq Nat /\ Covering \in [Points -> SUBSET Blocks]

VARIABLES
    pc,         \* "count", "rank", "print", "convert", "done" or "panic"
    metric,     \* the metric of this run
    caseMetas,  \* the passing cases selected, then the initial failing case
    counted,    \* cases counted so far
    stats,      \* point -> [ef, ep, nf, np]
    printed,    \* points printed so far, best first
    converted,  \* points of the ranking already mapped to a block
    blocks      \* blocks in the order they are reported

vars == <<pc, metric, caseMetas, counted, stats, printed, converted, blocks>>

Cases == [covers : SUBSET Points, passed : BOOLEAN]
Stats == [ef : Nat, ep : Nat, nf : Nat, np : Nat]

\* emit_top_passed_testcases pushes the initial case after the passing ones,
\* report_result finds it again as the first case that did not pass.
InitialCase == caseMetas[CHOOSE i \in DOMAIN caseMetas :
                            /\ ~caseMetas[i].passed
                            /\ \A j \in DOMAIN caseMetas : j < i => caseMetas[j].passed]

Passing(covers) == [covers |-> covers, passed |-> TRUE]
Failing(covers) == [covers |-> covers, passed |-> FALSE]

Init ==
    /\ pc = "count"
    /\ metric \in Metrics
    /\ \E n \in 0..MaxPassing :
         \E passing \in [1..n -> SUBSET Points], covers \in SUBSET Points :
            caseMetas = [i \in 1..(n + 1) |-> IF i = n + 1 THEN Failing(covers)
                                              ELSE Passing(passing[i])]
    /\ counted = 0
    /\ stats = [p \in Points |-> [ef |-> 0, ep |-> 0, nf |-> 0, np |-> 0]]
    /\ printed = <<>>
    /\ converted = 0
    /\ blocks = <<>>

(***************************************************************************)
(* Counting                                                                *)
(***************************************************************************)
\* The stats of a point after one more case.
Step(s, covered, passed) ==
    IF covered THEN IF passed THEN [s EXCEPT !.ep = @ + 1] ELSE [s EXCEPT !.ef = @ + 1]
    ELSE IF passed THEN [s EXCEPT !.np = @ + 1] ELSE [s EXCEPT !.nf = @ + 1]

CountCase ==
    /\ pc = "count"
    /\ counted < Len(caseMetas)
    /\ LET case == caseMetas[counted + 1]
       IN  stats' = [p \in Points |-> Step(stats[p], p \in case.covers, case.passed)]
    /\ counted' = counted + 1
    /\ pc' = IF counted + 1 = Len(caseMetas) THEN "rank" ELSE "count"
    /\ UNCHANGED <<metric, caseMetas, printed, converted, blocks>>

(***************************************************************************)
(* Scores                                                                  *)
(***************************************************************************)
Fraction(num, den) == [num |-> num, den |-> den]
Zero     == Fraction(0, 1)
Infinite == Fraction(1, 0)
NaN      == Fraction(0, 0)

\* a > b; false when either is NaN.
Exceeds(a, b) == a.num * b.den > b.num * a.den

Distance(a, b) == IF a < b THEN b - a ELSE a - b

Tarantula(s) ==
    LET failed == s.ef + s.nf
        passes == s.ep + s.np
    IN  IF s.ef = 0 THEN Zero
        ELSE IF passes = 0 THEN Fraction(1, 1)
        ELSE Fraction(s.ef * passes, s.ef * passes + s.ep * failed)

\* Faulty: the passing executions are missing from the denominator.
OchiaiNoPasses(s) ==
    IF s.ef + s.nf = 0 THEN Zero ELSE Fraction(s.ef * s.ef, s.ef + s.nf)

\* squared
Ochiai(s) ==
    LET denom == (s.ef + s.nf) * (s.ef + s.ep)
    IN  IF denom > 0 THEN Fraction(s.ef * s.ef, denom) ELSE Zero

Jaccard(s) ==
    LET denom == s.ef + s.nf + s.ep
    IN  IF denom > 0 THEN Fraction(s.ef, denom) ELSE Zero

Dstar(s) ==
    LET denom == s.ep + s.nf
    IN  IF denom > 0 THEN Fraction(s.ef * s.ef, denom)
        ELSE IF s.ef > 0 THEN Infinite ELSE Zero

\* 0 * (1 + 1/0) is NaN for a point nobody executes.
GP19(s) ==
    LET weight == 2 * s.ep + s.ef
    IN  IF s.ef + s.nf = 0 THEN Zero
        ELSE IF weight = 0 THEN NaN ELSE Fraction(s.ef * (weight + 1), weight)

Barinel(s) ==
    LET failed == IF s.ef + s.nf > 1 THEN s.ef + s.nf ELSE 1
    IN  IF s.ef + s.ep > 0 THEN Fraction(failed - s.ef, failed) ELSE Zero

\* Faulty: a point nobody executes is not set apart.
CrosstabUnguarded(s) ==
    LET n        == s.ef + s.ep + s.nf + s.np
        expected == (s.ef + s.ep) * (s.ef + s.nf)
        gap      == Distance(s.ef * n, expected)
    IN  Fraction(gap * gap, n * expected)

\* squared
Crosstab(s) ==
    LET n        == s.ef + s.ep + s.nf + s.np
        expected == (s.ef + s.ep) * (s.ef + s.nf)  \* times n
        gap      == Distance(s.ef * n, expected)
    IN  IF expected > 0 THEN Fraction(gap * gap, n * expected) ELSE Zero

Zoltar(s) ==
    IF s.ef > 0
    THEN Fraction(s.ef * s.ef, s.ef * (s.ef + s.nf + s.ep) + 10000 * s.nf * s.ep)
    ELSE Zero

Ample(s) ==
    LET failed == s.ef + s.nf
        passes == s.ep + s.np
    IN  IF failed > 0 /\ passes > 0
        THEN Fraction(Distance(s.ef * passes, s.ep * failed), failed * passes)
        ELSE IF failed > 0 THEN Fraction(s.ef, failed) ELSE Zero

MetricScore(s) ==
    CASE metric = "Tarantula" -> Tarantula(s)
      [] metric = "Ochiai"    -> Ochiai(s)
      [] metric = "Jaccard"   -> Jaccard(s)
      [] metric = "Dstar"     -> Dstar(s)
      [] metric = "GP19"      -> GP19(s)
      [] metric = "Barinel"   -> Barinel(s)
      [] metric = "Crosstab"  -> Crosstab(s)
      [] metric = "Zoltar"    -> Zoltar(s)
      [] metric = "Ample"     -> Ample(s)

Score(p) == MetricScore(stats[p])

(***************************************************************************)
(* Ranking                                                                 *)
(***************************************************************************)
\* sort_by compares every point with another one as soon as there are two;
\* unwrapping the partial order of a NaN panics.
SortPanics == PointCount > 1 /\ \E p \in Points : Score(p) = NaN

RankPoints ==
    /\ pc = "rank"
    /\ pc' = IF SortPanics THEN "panic" ELSE "print"
    /\ UNCHANGED <<metric, caseMetas, counted, stats, printed, converted, blocks>>

\* Faulty: the comparison's arguments are not swapped.
AboveAscending(p, q) ==
    \/ Exceeds(Score(q), Score(p))
    \/ ~Exceeds(Score(p), Score(q)) /\ p < q

\* The sort is stable and descending.
Above(p, q) ==
    \/ Exceeds(Score(p), Score(q))
    \/ ~Exceeds(Score(q), Score(p)) /\ p < q

\* How many points the ranking puts before p.
Position(p) == Cardinality({q \in Points : Above(q, p)})

PrintPoint(p) ==
    /\ pc = "print"
    /\ Len(printed) < TopSus
    /\ Position(p) = Len(printed)
    /\ IF p \in InitialCase.covers
       THEN printed' = Append(printed, p) /\ pc' = pc
       ELSE pc' = "panic" /\ UNCHANGED printed
    /\ UNCHANGED <<metric, caseMetas, counted, stats, converted, blocks>>

\* Without RTL arguments the report ends here.
EndPoints(rtl) ==
    /\ pc = "print"
    /\ Len(printed) = TopSus \/ Len(printed) = PointCount
    /\ pc' = IF rtl THEN "convert" ELSE "done"
    /\ UNCHANGED <<metric, caseMetas, counted, stats, printed, converted, blocks>>

(***************************************************************************)
(* Blocks                                                                  *)
(***************************************************************************)
\* The first block found for a point.
FoundBlock(p) == CHOOSE b \in Covering[p] : \A c \in Covering[p] : b <= c

\* Faulty: a block is reported once per point.
KeepEvery(found) == TRUE

\* retain(seen.insert(..)): the block was not reported for an earlier point.
KeepFirst(found) == \A i \in DOMAIN blocks : blocks[i] # found

\* The whole ranking is converted, points without a block are skipped.
ConvertPoint(p) ==
    /\ pc = "convert"
    /\ Position(p) = converted
    /\ converted' = converted + 1
    /\ blocks' = IF Covering[p] # {} /\ KeepFirst(FoundBlock(p))
                 THEN Append(blocks, FoundBlock(p)) ELSE blocks
    /\ UNCHANGED <<pc, metric, caseMetas, counted, stats, printed>>

EndBlocks ==
    /\ pc = "convert"
    /\ converted = PointCount
    /\ blocks' = SubSeq(blocks, 1, IF Len(blocks) < TopSus THEN Len(blocks) ELSE TopSus)
    /\ pc' = "done"
    /\ UNCHANGED <<metric, caseMetas, counted, stats, printed, converted>>

Finished == pc \in {"done", "panic"} /\ UNCHANGED vars

Next ==
    \/ CountCase
    \/ RankPoints
    \/ \E p \in Points : PrintPoint(p) \/ ConvertPoint(p)
    \/ \E rtl \in BOOLEAN : EndPoints(rtl)
    \/ EndBlocks
    \/ Finished

Spec == Init /\ [][Next]_vars

(***************************************************************************)
(* Properties                                                              *)
(***************************************************************************)
\* Every variable keeps its shape, and the four counters of a point add up to
\* the cases counted so far.
TypeOK ==
    /\ pc \in {"count", "rank", "print", "convert", "done", "panic"}
    /\ metric \in Metrics
    /\ caseMetas \in Seq(Cases)
    /\ counted \in 0..Len(caseMetas)
    /\ stats \in [Points -> Stats]
    /\ \A p \in Points :
         stats[p].ef + stats[p].ep + stats[p].nf + stats[p].np = counted
    /\ printed \in Seq(Points)
    /\ converted \in Nat
    /\ blocks \in Seq(Blocks)

\* The metrics under which a point that the failing case does not execute
\* scores 0 and every point it executes more.
FailureMetrics == {"Tarantula", "Ochiai", "Jaccard", "Dstar", "Zoltar"}

\* Each point is executed by some case of the report.
AllExecuted == \A p \in Points : \E i \in DOMAIN caseMetas : p \in caseMetas[i].covers

\* GP19 behaves likewise, but for points that no case executes.
Completing == metric \in FailureMetrics \/ (metric = "GP19" /\ AllExecuted)

\* Under those metrics neither the sort nor the assertion "point not in
\* initial case" stops a report, unless more points are asked for than the
\* failing case executes.
ReportCompletes ==
    Completing => (pc = "panic" => TopSus > Cardinality(InitialCase.covers))

\* The sort unwraps the comparison of two scores.  Of all nine metrics GP19
\* alone can make it panic, and only if there are points no case executes:
\* everywhere else the guards in front of the divisions exclude 0/0, whatever
\* the counters say.
UndefinedOnlyUnexecuted ==
    (pc = "rank" /\ SortPanics) => metric = "GP19" /\ ~AllExecuted

\* The command line offers nine metrics for the same report; each of them
\* should get through it as long as every point is executed by some case and
\* the failing one executes enough of them.
EveryMetricCompletes ==
    (pc = "panic" /\ AllExecuted) => TopSus > Cardinality(InitialCase.covers)

Passes(p) == Cardinality({i \in DOMAIN caseMetas :
                            caseMetas[i].passed /\ p \in caseMetas[i].covers})

\* Among the points the failing case executes, those that fewer passing cases
\* execute are printed first.
FewerPassesFirst ==
    metric \in FailureMetrics =>
        \A i, j \in DOMAIN printed :
            i < j => Passes(printed[i]) <= Passes(printed[j])

\* The points whose block b is.
PointsOf(b) == {p \in Points : Covering[p] # {} /\ FoundBlock(p) = b}

\* A finished report names no block twice, and a block precedes another one
\* (or one that did not make it into the report) only if one of its points
\* scores at least as high as each point of the other.
BlocksByBestPoint ==
    (pc = "done" /\ converted > 0) =>
        /\ \A i, j \in DOMAIN blocks : blocks[i] = blocks[j] => i = j
        /\ \A i \in DOMAIN blocks, b \in Blocks :
             (\A h \in 1..(i - 1) : blocks[h] # b) =>
                \E p \in PointsOf(blocks[i]) : \A q \in PointsOf(b) :
                    ~Exceeds(Score(q), Score(p))
=============================================================================
