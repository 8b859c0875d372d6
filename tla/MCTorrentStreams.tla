-------------------------- MODULE MCTorrentStreams --------------------------
(***************************************************************************)
(* Two requests for one torrent, two handle ids, and counters that reach   *)
(* a few generations.                                                      *)
(***************************************************************************)
EXTENDS TorrentStreams

CONSTANTS r1, r2
=============================================================================
