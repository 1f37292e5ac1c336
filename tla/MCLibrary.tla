----------------------------- MODULE MCLibrary -----------------------------
(* Finite instances of Library for TLC. *)
EXTENDS Library

\* Bytes 1, 0 and 0, 31 are different blocks with the same hash.
Gears == (0 :> 32) @@ (1 :> 4) @@ (31 :> 5)
Sizes == <<1, 2, 2>>
Letters == {"a", "b"}
\* "B" is a capital of more than one byte.
Lowering == ("A" :> "a") @@ ("B" :> "b")
OneByte == {"a", "b", "A", "1", "_", "-", "."}
Names == {<<>>, <<"x">>, <<"x", "y">>, <<"x", "y", "z">>}
Words == {<<"a", "b">>, <<"a", "B", ".">>, <<"a", "b", "_", "A", "B">>, <<"1", "1">>}
=============================================================================
