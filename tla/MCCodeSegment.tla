--------------------------- MODULE MCCodeSegment ---------------------------
(***************************************************************************)
(* Small address spaces for CodeSegment: every sorted layout of up to      *)
(* three segments, overlapping and empty ones included, and assemblers     *)
(* whose code grows or shrinks with the address it is assembled for.       *)
(***************************************************************************)
EXTENDS CodeSegment

CONSTANTS SegmentStarts, SegmentSizes, MaxSegments

MCSegments == [start : SegmentStarts, size : SegmentSizes]

MCLayouts == {layout \in UNION {[1..n -> MCSegments] : n \in 0..MaxSegments} : Sorted(layout)}

MCRelocations == [start : {6, 13}, size : {2}]

MCCodeSizes == {[a \in Addresses |-> 2],
                [a \in Addresses |-> IF a < 8 THEN 2 ELSE 5],
                [a \in Addresses |-> IF a < 8 THEN 5 ELSE 2]}
=============================================================================
