------------------------------- MODULE MCSync -------------------------------
(* SessionSync for TLC: the servers are model values.                       *)
EXTENDS SessionSync
=============================================================================
