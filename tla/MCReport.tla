------------------------------ MODULE MCReport ------------------------------
(***************************************************************************)
(* A small report: two blocks over the points, one of which lies in both   *)
(* (nested ranges) and one in none.                                        *)
(***************************************************************************)
EXTENDS Report

MCBlocks == 1..2
MCCovering == [p \in Points |-> IF p = 1 THEN {2} ELSE IF p = 2 THEN {1, 2}
                                ELSE IF p = 3 THEN {2} ELSE {}]
=============================================================================
