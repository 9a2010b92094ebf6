--------------------------- MODULE MCPendingWakes ---------------------------
(* One piece of work of each kind.                                         *)
EXTENDS PendingWakes, TLC

CONSTANTS c1, h1, t1

MCCloudAgent == {c1}
MCShell == {h1}
MCSubagent == {t1}
=============================================================================
