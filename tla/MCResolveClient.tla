--------------------------- MODULE MCResolveClient ---------------------------
(***************************************************************************)
(* A resolve by a job, with a retry, the one that supersedes it and        *)
(* another, each by a job or by one short request.                         *)
(***************************************************************************)
EXTENDS ResolveClient

MCRetries == <<1, 0, 0>>
MCKinds == <<{"job"}, {"job", "short"}, {"job", "short"}>>
=============================================================================
