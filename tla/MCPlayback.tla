---------------------------- MODULE MCPlayback ----------------------------
\* Playback with the "auto" key and a language key that replaces it: one
\* request for each, a report of a failed source and one that it plays or of
\* a position only.
EXTENDS Playback, TLC

CONSTANTS auto, en, r1, p1

MCAutoOf == [k \in Key |-> auto]
MCWants == [r \in Request |-> IF r = r1 THEN en ELSE auto]
MCSays == [p \in Reporter |-> IF p = p1 THEN {"failed"} ELSE {"plays", "kept"}]
MCSaysAll == [p \in Reporter |-> {"failed", "plays", "kept"}]
Symmetry == Permutations(Source) \cup Permutations(Reporter)
===========================================================================
