----------------------------- MODULE Similarity -----------------------------
(***************************************************************************)
(* The distance arithmetic of src/similarity.rs on integers.               *)
(*                                                                         *)
(* A population S of corpus cases carries one raw distance per case        *)
(* (raw[id], a natural number here, an f64 in the code: only the order of  *)
(* the raw distances and whether they are zero reaches the result).  The   *)
(* quantile of a case is its average rank divided by the population size   *)
(* minus one; every quantile of one population has that same denominator,  *)
(* so the model keeps TWICE the numerator and stays in the integers.       *)
(***************************************************************************)
EXTENDS Integers, FiniteSets

Closer(raw, S, id)   == {x \in S : raw[x] < raw[id]}
NoFarther(raw, S, id) == {x \in S : raw[x] <= raw[id]}

\* quantile_transform: in the sorted order the run of values equal to raw[id]
\* is indexed[i..j), with i the number of smaller values and j the number of
\* values that are not larger, and avg_rank = (i + j - 1) / 2.  A raw distance
\* of zero stays zero, and so does a population of at most one case.
QuantileRank(raw, S, id) ==
    IF Cardinality(S) <= 1 \/ raw[id] = 0
    THEN 0
    ELSE Cardinality(Closer(raw, S, id)) + Cardinality(NoFarther(raw, S, id)) - 1

\* combine_raw_distance with cover_weight = weight / scale, times the scale.
CombinedDistance(cover, state, weight, scale) ==
    weight * cover + (scale - weight) * state

\* The order bounded_mutator.rs and fuzzer.rs sort by: distance, then id.
Precedes(dist, a, b) == dist[a] < dist[b] \/ (dist[a] = dist[b] /\ a < b)

\* The members that split_off(limit) leaves behind in a list sorted that way.
Nearest(dist, S, limit) ==
    {id \in S : Cardinality({x \in S : Precedes(dist, x, id)}) < limit}
=============================================================================
