------------------------------ MODULE MCBlocks ------------------------------
(***************************************************************************)
(* Designs of a top module with up to four events, a module below it with  *)
(* up to two and a leaf; and all sequences of three nodes in the leaf.     *)
(***************************************************************************)
EXTENDS Blocks, TLC

CONSTANTS Sub, Leaf, TopEvents, SubEvents, LeafNodes

\* Of the leaf, a statement may make two instances.
SomeEvents == {e \in Events : (e.kind = "inst" /\ e.more) => e.of = Leaf}

Upto(S, n) == UNION {[1..k -> S] : k \in 0..n}

\* Every block that opens closes, and only a labelled one repeats its label.
Balanced(s) ==
    LET opens(i)  == Cardinality({k \in 1..i : s[k].kind = "open"})
        closes(i) == Cardinality({k \in 1..i : s[k].kind = "close"})
        level(i)  == opens(i) - closes(i)
    IN  /\ \A i \in DOMAIN s : level(i) >= 0
        /\ s # <<>> => level(Len(s)) = 0
        /\ \A i \in DOMAIN s :
             (s[i].kind = "close" /\ s[i].label) =>
                \E j \in 1..i : /\ s[j].kind = "open" /\ s[j].label
                                /\ level(j) = level(i) + 1
                                /\ \A k \in j..i - 1 : level(k) > level(i)

EventLists(n) == {s \in Upto(SomeEvents, n) : Balanced(s)}

Module(e, n) == [events |-> e, nodes |-> n]

TwoStatements == <<"output", "always">>
OneInstance == <<[kind |-> "inst", of |-> Leaf, more |-> FALSE]>>

MCDesigns ==
    {TopModule :> Module(t, TwoStatements) @@ Sub :> Module(s, <<"assign">>)
        @@ Leaf :> Module(<<>>, <<"always">>) :
        t \in EventLists(TopEvents), s \in EventLists(SubEvents)}
    \cup
    {TopModule :> Module(OneInstance, <<>>) @@ Sub :> Module(<<>>, <<>>)
        @@ Leaf :> Module(<<>>, n) : n \in Upto(NodeKinds, LeafNodes)}
=============================================================================
