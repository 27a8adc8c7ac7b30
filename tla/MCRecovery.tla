----------------------------- MODULE MCRecovery -----------------------------
(* Model values for PlanRecovery: symmetric processes.                     *)
EXTENDS PlanRecovery, TLC

Symmetric == Permutations(Processes)
=============================================================================
