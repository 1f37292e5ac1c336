------------------------------ MODULE MCServer ------------------------------
(* Finite instances of Server for TLC. *)
EXTENDS Server
=============================================================================
