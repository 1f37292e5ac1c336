------------------------------ MODULE MCIgnore -------------------------------
(* Finite instances of Ignore for TLC. *)
EXTENDS Ignore

NoDouble(l) == \A i \in 1..Len(l) - 1 : l[i] # "*" \/ l[i + 1] # "*"
Lines(n) == {l \in BoundedSeq({"a", "b", "/", "*", "?"}, n) : l # <<>> /\ NoDouble(l)}
Negated(ls) == {<<"!">> \o l : l \in ls}

\* One long pattern, or two short ones of which either may be negated.
PlainFiles ==
    {<<l>> : l \in Lines(4)}
    \cup {<<k, l>> : k, l \in Lines(2) \cup Negated(Lines(2)) \cup {<<"#", "a">>}}

\* Patterns with ** at the start, behind a character or in a longer run of stars.
DoubleFiles ==
    {<<k \o s \o l>> : k \in {<<>>, <<"a">>, <<"?">>, <<"/">>, <<"*">>},
                      s \in {<<"*", "*">>, <<"*", "*", "/">>},
                      l \in {m \in Lines(3) : m[1] # "*"} \cup {<<>>}}
AllFiles == PlainFiles \cup DoubleFiles

SomePaths ==
    {<<"a">>, <<"a", "b">>, <<"b", "/", "a">>, <<"a", "b", "a", "b">>,
     <<"a", "/", "b", "/", "b">>}
=============================================================================
