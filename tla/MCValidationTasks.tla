------------------------- MODULE MCValidationTasks -------------------------
(* Instances of ValidationTasks: two tasks and a delivery of two files; the  *)
(* configurations choose the driver and the bounds on restarts and faults.   *)
EXTENDS ValidationTasks, TLC

CONSTANTS t1, t2, a1, a2

MCTask == {t1, t2}
MCArtifact == {a1, a2}

Symmetry == Permutations(MCTask) \cup Permutations(MCArtifact)
=============================================================================
