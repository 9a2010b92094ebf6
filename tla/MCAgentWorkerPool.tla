------------------------- MODULE MCAgentWorkerPool -------------------------
(* Two operations on two databases and a pool with room for one worker.      *)
EXTENDS AgentWorkerPool, TLC

CONSTANTS p1, p2, o1, o2

MCPath == {p1, p2}
MCOp == {o1, o2}
=============================================================================
