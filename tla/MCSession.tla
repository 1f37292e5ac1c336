----------------------------- MODULE MCSession ------------------------------
(* Finite instances of Session for TLC. *)
EXTENDS Session

CONSTANTS r1, r2

AllCalls == {"push", "fetch", "pull", "clone"}
=============================================================================
