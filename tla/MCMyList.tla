------------------------------ MODULE MCMyList ------------------------------
(***************************************************************************)
(* One account, or two whose viewers save different titles.                *)
(***************************************************************************)
EXTENDS MyList

CONSTANTS ann, ben, film, show

OneOwn == [a \in Account |-> Title]
TwoOwn == [a \in Account |-> IF a = ann THEN {film} ELSE {show}]
=============================================================================
