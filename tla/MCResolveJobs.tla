--------------------------- MODULE MCResolveJobs ---------------------------
(***************************************************************************)
(* A store with room for one job and a resolver with one permit: two       *)
(* threads create up to two jobs, for two users, while one long poll at a  *)
(* time asks for them and jobs expire.                                     *)
(***************************************************************************)
EXTENDS ResolveJobs

CONSTANTS c1, c2, p1, alice, bob
=============================================================================
