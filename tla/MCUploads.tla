----------------------------- MODULE MCUploads -----------------------------
(***************************************************************************)
(* One upload of two chunks, a request and its retry, the maintenance task *)
(***************************************************************************)
EXTENDS Uploads

CONSTANTS u1, h1, h2
=============================================================================
