------------------------------- MODULE MCTexts -------------------------------
(* Finite instances of Texts for TLC. *)
EXTENDS Texts
=============================================================================
