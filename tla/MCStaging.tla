----------------------------- MODULE MCStaging -----------------------------
(* Finite instances of Staging for TLC. *)
EXTENDS Staging, TLC

\* With windows of two blocks, a content of six is hashed whole and one of seven
\* is sampled: its fifth block is in no window.  "full" and "unseen" have the
\* same fingerprint; "other" differs from both in the first window.
Full == <<1, 1, 1, 1, 1, 1>>
Unseen == <<1, 1, 1, 1, 2, 1, 1>>
Other == <<3, 1, 1, 1, 1, 1, 1>>
Contents == {Full, Unseen, Other}

\* Nothing orders the modes.
Symmetry == Permutations(Mode)
=============================================================================
