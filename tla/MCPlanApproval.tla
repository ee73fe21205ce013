---------------------------- MODULE MCPlanApproval ---------------------------
EXTENDS PlanApproval, TLC

Symmetry == Permutations(Plans) \cup Permutations(Requests)
=============================================================================
