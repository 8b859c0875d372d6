----------------------------- MODULE MCHlsJobs -----------------------------
(***************************************************************************)
(* Viewers of one title, hardware first, with one or two permits for       *)
(* transcodes and one for a render.                                        *)
(***************************************************************************)
EXTENDS HlsJobs, TLC

CONSTANTS k1, r1, r2

Symmetry == Permutations({r1, r2})
=============================================================================
