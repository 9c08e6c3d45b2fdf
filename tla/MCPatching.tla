----------------------------- MODULE MCPatching -----------------------------
(***************************************************************************)
(* Every constant of a scaled register, jumps to every even address, and   *)
(* every program of a few halfwords.                                       *)
(***************************************************************************)
EXTENDS Patching

MCValues == 0..2^Width - 1
MCTargets == {2 * n : n \in 0..2^(Width - 1) - 1}
MCOrigins == {0, 2, 2^(Width - 1) - 2, 2^(Width - 1), 2^Width - 2}
=============================================================================
