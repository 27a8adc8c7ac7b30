------------------------------- MODULE MCSweep -------------------------------
(* WorkspaceSweep for TLC: the constants are numbers and Booleans.          *)
EXTENDS WorkspaceSweep
=============================================================================
