---------------------------- MODULE MCTaskPanel ----------------------------
(* Two services, two contents, two submissions at a time.                  *)
EXTENDS TaskPanel, TLC

CONSTANTS sA, sB, g1, g2, b1, b2

MCService == {sA, sB}
MCContent == {g1, g2}
MCSubmission == {b1, b2}
Symmetry == Permutations(MCService) \cup Permutations(MCContent) \cup Permutations(MCSubmission)
=============================================================================
