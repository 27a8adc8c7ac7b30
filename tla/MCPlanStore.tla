----------------------------- MODULE MCPlanStore -----------------------------
(* Model values for PlanStore: symmetric processes.                        *)
EXTENDS PlanStore, TLC

Symmetric == Permutations(Writers)
=============================================================================
