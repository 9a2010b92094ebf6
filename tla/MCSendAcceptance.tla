-------------------------- MODULE MCSendAcceptance --------------------------
(* Sends against a ledger whose cap they exceed.                             *)
EXTENDS SendAcceptance, TLC

CONSTANTS n1, n2, n3

MCNonce == {n1, n2, n3}
Symmetry == Permutations(MCNonce)
=============================================================================
