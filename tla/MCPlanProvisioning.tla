------------------------- MODULE MCPlanProvisioning -------------------------
(* Small instances of the provisioning of a plan.                           *)
EXTENDS PlanProvisioning, TLC

Symetrie == Permutations(Demandes)
=============================================================================
