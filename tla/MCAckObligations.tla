-------------------------- MODULE MCAckObligations --------------------------
(* Two sends, one redrive, one resumption and one background run.          *)
EXTENDS AckObligations, TLC

CONSTANTS s1, s2, r1, u1, w1

MCSend == {s1, s2}
MCRedrive == {r1}
MCResume == {u1}
MCWake == {w1}
=============================================================================
