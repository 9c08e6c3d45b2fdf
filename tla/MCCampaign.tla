----------------------------- MODULE MCCampaign -----------------------------
(***************************************************************************)
(* Small instances of Campaign for TLC.  Fingerprints and traces are       *)
(* integers on a line, their distance is the distance of the integers; the *)
(* trace 0 is the one without entries.                                     *)
(***************************************************************************)
EXTENDS Campaign, TLC

CONSTANTS TopCov, TopTrk

\* Only sets of candidates are ever compared, never their order.
PcSymmetry == Permutations(Candidates)

MCCovs == 1..TopCov
MCTrks == 0..TopTrk

Gap(a, b) == IF a < b THEN b - a ELSE a - b

MCCovDist == [p \in MCCovs \X MCCovs |-> Gap(p[1], p[2])]
MCTrkDist == [p \in MCTrks \X MCTrks |-> Gap(p[1], p[2])]
=============================================================================
