------------------------------ MODULE MCSession ------------------------------
(* SessionRunner with the works, messages and cancels of its configuration. *)
EXTENDS SessionRunner
=============================================================================
