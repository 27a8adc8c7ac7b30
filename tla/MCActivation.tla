---------------------------- MODULE MCActivation ----------------------------
(* Model values for PlanActivation: symmetric processes and runs.          *)
EXTENDS PlanActivation, TLC

Symmetric == Permutations(Owners) \cup Permutations(Runs)
=============================================================================
