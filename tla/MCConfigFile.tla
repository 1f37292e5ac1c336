---------------------------- MODULE MCConfigFile ----------------------------
(* Finite instances of ConfigFile for TLC. *)
EXTENDS ConfigFile, TLC

Keys == {"core.sync-only", "core.version", "remote.url"}
Sections == "core.sync-only" :> "core" @@ "core.version" :> "core" @@ "remote.url" :> "remote"
True == <<"t">>
Initial == "core.sync-only" :> True @@ "core.version" :> True

\* Plain; with blanks around; with a backslash and a blank, which grows.
Values == {True, <<" ", "a", " ">>, <<"\\", " ">>}

\* One character of each kind the conversion tells apart.
Texts == BoundedSeq({"a", " ", "#", "\"", "'", "\\", "\t", "\n", "BEL"}, 4)

\* Tab and line feed stand for every space but the blank, BEL for every other
\* character that is not printed.
WhiteSpace == {" ", "\t", "\n"}
Escapes ==
    "\"" :> <<"\\", "\"">> @@ "\\" :> <<"\\", "\\">> @@ "\t" :> <<"\\", "t">>
    @@ "\n" :> <<"\\", "n">> @@ "BEL" :> <<"\\", "a">>
TornTexts == {<<"a">>}

Symmetry == Permutations(Process)
=============================================================================
