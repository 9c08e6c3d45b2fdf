----------------------------- MODULE Selection -----------------------------
(***************************************************************************)
(* Selecting the passing cases the spectrum is built from, after the       *)
(* campaign (src/fuzzer.rs): emit_top_passed_testcases ranks the passing   *)
(* cases by their distance to the failing one and takes top_pass of them   *)
(*   random  in a shuffled order,                                          *)
(*   sort    the nearest ones,                                             *)
(*   diverse greedily from a pool of the nearest, weighing the distance to *)
(*           the failing case against the one to the cases picked before   *)
(*           (select_diverse_passed_cases, select_diverse_indices).        *)
(*                                                                         *)
(* Case c is passed_cases[c - 1]; corpus ids ascend with c.  Distances are *)
(* fractions: fail has the denominator FailUnit, a pair distance PairUnit. *)
(***************************************************************************)
EXTENDS Integers, FiniteSets, Sequences, Similarity

CONSTANTS
    MaxCases,         \* passing cases with a trace in the final corpus
    TopPass,
    PoolFactor,
    CoverWeight,      \* over WeightScale
    DiversityWeights, \* of --selection-diversity-weight, over WeightScale
    WeightScale,
    CoverRaws,        \* raw coverage distances two cases may have
    StateRaws,        \* raw state distances to the failing case
    PairStates,       \* raw state distances two pool cases may have
    Modes             \* what --selection may be

ASSUME CaseAssumption == MaxCases \in Nat
ASSUME LimitAssumption == TopPass \in Nat /\ PoolFactor \in Nat
ASSUME WeightAssumption ==
    /\ WeightScale \in Nat \ {0}
    /\ CoverWeight \in 0..WeightScale
    /\ DiversityWeights \subseteq 0..WeightScale
ASSUME RawAssumption ==
    CoverRaws \cup StateRaws \cup PairStates \subseteq Nat
ASSUME ModeAssumption == Modes \subseteq {"random", "sort", "diverse"}

VARIABLES
    pc,
    mode,
    weight,    \* of the diversity
    cases,     \* passed_cases.len()
    covers,    \* raw coverage distance of each case to the failing one
    states,    \* raw state distance of each case to the failing one
    fail,      \* fail_distance of each case
    pool,      \* pool_indices
    pairs,     \* raw distances of two pool cases, and their combination
    minPass,   \* min_pass_distances, by pool position
    picked,    \* decisions of the diverse search, as pool positions
    decisions, \* the selected cases
    taken      \* the cases moved out of passed_cases

vars == <<pc, mode, weight, cases, covers, states, fail, pool, pairs, minPass,
          picked, decisions, taken>>

Cases == 1..cases

Limit == IF TopPass < cases THEN TopPass ELSE cases

NoPairs == [cover |-> <<>>, state |-> <<>>, packed |-> <<>>]

\* The corpus is emptied into passed_cases; failing cases and cases without a
\* trace are left out.
Init ==
    /\ pc = "rank"
    /\ mode \in Modes
    /\ weight \in DiversityWeights
    /\ cases \in 0..MaxCases
    /\ covers \in [Cases -> CoverRaws]
    /\ states \in [Cases -> StateRaws]
    /\ fail = [c \in Cases |-> 0]
    /\ pool = <<>>
    /\ pairs = NoPairs
    /\ minPass = <<>>
    /\ picked = <<>>
    /\ decisions = <<>>
    /\ taken = {}

\* quantile_transform of both raw distances, then combine_raw_distance.
Combined(cover, state, S) ==
    [x \in S |-> CombinedDistance(QuantileRank(cover, S, x),
                                  QuantileRank(state, S, x),
                                  CoverWeight, WeightScale)]

\* A quantile is a rank over len - 1; ranks are doubled.
Unit(len) == IF len <= 1 THEN 1 ELSE 2 * (len - 1) * WeightScale

FailUnit == Unit(cases)

Rank ==
    /\ pc = "rank"
    /\ fail' = Combined(covers, states, Cases)
    /\ pc' = "select"
    /\ UNCHANGED <<mode, weight, cases, covers, states, pool, pairs, minPass,
                   picked, decisions, taken>>

\* Faulty: the farthest cases come first.
FarthestFirst(k) ==
    [r \in 1..k |-> CHOOSE c \in Cases :
        Cardinality({x \in Cases : Precedes(fail, c, x)}) = r - 1]

\* The first k cases, nearest first; equally near ones by corpus id.
NearestFirst(k) ==
    [r \in 1..k |-> CHOOSE c \in Cases :
        Cardinality({x \in Cases : Precedes(fail, x, c)}) = r - 1]

SelectSort ==
    /\ pc = "select" /\ mode = "sort"
    /\ decisions' = NearestFirst(Limit)
    /\ pc' = "take"
    /\ UNCHANGED <<mode, weight, cases, covers, states, fail, pool, pairs,
                   minPass, picked, taken>>

Injective(s) == \A i, j \in DOMAIN s : s[i] = s[j] => i = j

SelectRandom ==
    /\ pc = "select" /\ mode = "random"
    /\ \E s \in [1..Limit -> Cases] : Injective(s) /\ decisions' = s
    /\ pc' = "take"
    /\ UNCHANGED <<mode, weight, cases, covers, states, fail, pool, pairs,
                   minPass, picked, taken>>

(***************************************************************************)
(* select_diverse_passed_cases and select_diverse_indices                  *)
(***************************************************************************)
PoolSize ==
    LET wanted == Limit * (IF PoolFactor = 0 THEN 1 ELSE PoolFactor)
    IN  IF wanted < cases THEN wanted ELSE cases

FillPool ==
    /\ pc = "select" /\ mode = "diverse"
    /\ pool' = NearestFirst(PoolSize)
    /\ pc' = "pairs"
    /\ UNCHANGED <<mode, weight, cases, covers, states, fail, pairs, minPass,
                   picked, decisions, taken>>

Positions == 1..Len(pool)

PairCount == (Len(pool) * (Len(pool) - 1)) \div 2

\* The pair the nested loop visits as its k-th, k from 0.
PairAt(k) ==
    CHOOSE p \in Positions \X Positions :
        /\ p[1] < p[2]
        /\ k = Cardinality({q \in Positions \X Positions :
                 q[1] < q[2] /\ (q[1] < p[1] \/ (q[1] = p[1] /\ q[2] < p[2]))})

\* Every two pool cases are compared, row by row.
ComparePairs ==
    /\ pc = "pairs"
    /\ \E cover \in [0..PairCount - 1 -> CoverRaws],
          state \in [0..PairCount - 1 -> PairStates] :
         pairs' = [cover |-> cover, state |-> state,
                   packed |-> Combined(cover, state, 0..PairCount - 1)]
    /\ pc' = IF Limit = 0 THEN "take" ELSE "pick"
    /\ UNCHANGED <<mode, weight, cases, covers, states, fail, pool, minPass,
                   picked, decisions, taken>>

\* Faulty: the rows are taken to be one element shorter than they are.
PackedIndexShort(i, j) == (i * (2 * Len(pool) - i - 3)) \div 2 + (j - i - 1)

\* PackedDistanceMatrix::get, for positions i < j counted from 0.
PackedIndex(i, j) == (i * (2 * Len(pool) - i - 1)) \div 2 + (j - i - 1)

Get(p, q) ==
    IF p = q THEN 0
    ELSE IF p < q THEN pairs.packed[PackedIndex(p - 1, q - 1)]
    ELSE pairs.packed[PackedIndex(q - 1, p - 1)]

\* The nearest pool case comes first.
PickFirst ==
    /\ pc = "pick" /\ picked = <<>>
    /\ LET first == CHOOSE p \in Positions :
                      \A q \in Positions \ {p} : Precedes(fail, pool[p], pool[q])
       IN  /\ picked' = <<first>>
           /\ minPass' = [p \in Positions |-> Get(p, first)]
    /\ UNCHANGED <<pc, mode, weight, cases, covers, states, fail, pool, pairs,
                   decisions, taken>>

PairUnit == Unit(PairCount)

\* Faulty: the two weights are swapped.
ScoreSwapped(p, diversity) ==
    weight * (FailUnit - fail[pool[p]]) * PairUnit
        + (WeightScale - weight) * diversity * FailUnit

\* (1 - w) * (1 - fail_distance) + w * diversity, times WeightScale, FailUnit
\* and PairUnit.
Score(p, diversity) ==
    (WeightScale - weight) * (FailUnit - fail[pool[p]]) * PairUnit
        + weight * diversity * FailUnit

\* Faulty: the distance to the failing case is compared before the score.
BetterByDistance(p, q) == Precedes(fail, pool[p], pool[q])

\* is_better_diverse_candidate: score, fail distance, diversity, corpus id.
Better(p, q) ==
    LET sp == Score(p, minPass[p])
        sq == Score(q, minPass[q])
        fp == fail[pool[p]]
        fq == fail[pool[q]]
    IN  \/ sp > sq
        \/ sp = sq /\ fp < fq
        \/ sp = sq /\ fp = fq /\ minPass[p] > minPass[q]
        \/ sp = sq /\ fp = fq /\ minPass[p] = minPass[q] /\ pool[p] < pool[q]

Picked == {picked[i] : i \in DOMAIN picked}

\* Faulty: the best of all positions, picked or not.
CandidatesAll == Positions

Candidates == Positions \ Picked

CloserOf(old, new) == IF new < old THEN new ELSE old

PickNext ==
    /\ pc = "pick" /\ picked # <<>> /\ Len(picked) < Limit
    /\ LET best == CHOOSE p \in Candidates :
                     \A q \in Candidates \ {p} : Better(p, q)
       IN  /\ picked' = Append(picked, best)
           /\ minPass' = [p \in Positions |->
                IF p \in Picked \cup {best} THEN minPass[p]
                ELSE CloserOf(minPass[p], Get(p, best))]
    /\ UNCHANGED <<pc, mode, weight, cases, covers, states, fail, pool, pairs,
                   decisions, taken>>

PicksDone ==
    /\ pc = "pick" /\ Len(picked) = Limit
    /\ decisions' = [i \in DOMAIN picked |-> pool[picked[i]]]
    /\ pc' = "take"
    /\ UNCHANGED <<mode, weight, cases, covers, states, fail, pool, pairs,
                   minPass, picked, taken>>

(***************************************************************************)
(* The decisions take their cases out of passed_cases, each at most once.  *)
(***************************************************************************)
Take ==
    /\ pc = "take"
    /\ taken' = {decisions[i] : i \in DOMAIN decisions}
    /\ pc' = IF Injective(decisions) THEN "done" ELSE "panic"
    /\ UNCHANGED <<mode, weight, cases, covers, states, fail, pool, pairs,
                   minPass, picked, decisions>>

Ended == pc \in {"done", "panic"} /\ UNCHANGED vars

Next ==
    \/ Rank \/ SelectSort \/ SelectRandom
    \/ FillPool \/ ComparePairs \/ PickFirst \/ PickNext \/ PicksDone
    \/ Take \/ Ended

Spec == Init /\ [][Next]_vars

(***************************************************************************)
(* Properties                                                              *)
(***************************************************************************)
\* expect("Pass case selected more than once") never fires, and as many cases
\* are taken as were asked for, or all there are.
SelectsEnough ==
    /\ pc # "panic"
    /\ pc = "done" => Cardinality(taken) = Limit

\* The distance of two pool cases, by the pair the nested loop compared.
PairDistance(p, q) ==
    LET k == CHOOSE i \in 0..PairCount - 1 : PairAt(i) \in {<<p, q>>, <<q, p>>}
    IN  pairs.packed[k]

\* While the greedy loop runs, min_pass_distances holds, for every case not
\* picked yet, its true distance to the nearest picked one: neither the index
\* into the packed matrix nor the running minimum goes wrong.
MinDistancesCurrent ==
    pc = "pick" => \A p \in DOMAIN minPass \ Picked :
        /\ \E q \in Picked : minPass[p] = PairDistance(p, q)
        /\ \A q \in Picked : minPass[p] <= PairDistance(p, q)

\* The score a case was picked with, recomputed from the pairs.
PickScore(i) ==
    Score(picked[i],
          CHOOSE d \in {PairDistance(picked[i], picked[j]) : j \in 1..i - 1} :
              \A j \in 1..i - 1 : d <= PairDistance(picked[i], picked[j]))

\* The greedy scores never rise after the first pick: a later case is no
\* better a choice than an earlier one was when it was picked.
ScoresFall ==
    \A i, j \in 2..Len(picked) : i < j => PickScore(i) >= PickScore(j)

\* No case left out, by sort or by the pool of the diverse search, is nearer
\* to the failing case in coverage and in state than one let in.
CloserKept ==
    LET ranked == mode = "sort" /\ pc \in {"take", "done"}
        chosen == IF ranked THEN decisions ELSE pool
    IN  \A i \in DOMAIN chosen : \A c \in Cases \ {chosen[j] : j \in DOMAIN chosen} :
            ~(covers[c] < covers[chosen[i]] /\ states[c] < states[chosen[i]])

\* Without a diversity weight the diverse search selects cases at the same
\* distances, in the same order, as sort does.
WeightlessIsSort ==
    (pc = "done" /\ mode = "diverse" /\ weight = 0) =>
        \A i \in DOMAIN decisions : fail[decisions[i]] = fail[NearestFirst(Limit)[i]]
=============================================================================
