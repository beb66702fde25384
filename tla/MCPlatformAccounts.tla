------------------------- MODULE MCPlatformAccounts -------------------------
(* Small instances of an operator, its account and its contract.            *)
EXTENDS PlatformAccounts, TLC

Symetrie == Permutations(Requetes)
=============================================================================
