------------------------- MODULE MCCheckpointQueue -------------------------
(***************************************************************************)
(* A film and an episode, a budget of one retry, a page that is hidden or  *)
(* closed.                                                                 *)
(***************************************************************************)
EXTENDS CheckpointQueue

CONSTANTS film, episode
=============================================================================
