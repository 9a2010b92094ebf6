--------------------------- MODULE MCRunScheduler ---------------------------
(* Four tasks: two direct user tasks, a group-member one and a background   *)
(* one. Each may hang, under the fairness of timers and microtasks.         *)
EXTENDS RunScheduler

CONSTANTS u1, u2, g, b, d1

MCTask == {u1, u2, g, b}
MCLaneOf == [t \in MCTask |-> IF t = b THEN "background" ELSE "user"]
MCGroupMember == {g}
MCDrainer == {d1}
=============================================================================
