----------------------------- MODULE SearchIndex -----------------------------
(***************************************************************************)
(* Package search: how the words of files become the terms of the index,   *)
(* and which files a query finds.  A word is a sequence of characters.     *)
(***************************************************************************)
EXTENDS Integers, SequencesExt, FiniteSetsExt

CONSTANTS
    LowerCase,  \* characters: small letters,
    Lowered,    \* capitals, with the small letter of each,
    Ascii,      \* characters of one byte,
    Digit,      \* and digits; any other is punctuation
    Under, Dash \* "_" and "-"

ASSUME LetterAssumption ==
    /\ LowerCase \subseteq STRING /\ \A c \in DOMAIN Lowered : Lowered[c] \in LowerCase
    /\ LowerCase \cap (DOMAIN Lowered \cup Digit \cup {Under, Dash}) = {}

UpperCase == DOMAIN Lowered

\* What the index makes of a character and of a word.
Lower(c) == IF c \in UpperCase THEN Lowered[c] ELSE c
ToLower(word) == [i \in 1..Len(word) |-> Lower(word[i])]

\* The i-th character of word: what is read so far is done if the character starts a
\* new piece or is dropped; otherwise the character is added to it.
Letter(word, starts, dropped, t, i) ==
    LET cut == IF i \in starts \/ word[i] \in dropped
               THEN [done |-> t.done \cup {t.now}, now |-> <<>>] ELSE t
    IN  IF word[i] \in dropped THEN cut ELSE [cut EXCEPT !.now = Append(@, word[i])]

\* The pieces of word, cut before the positions in starts, without the characters
\* dropped.
Pieces(word, starts, dropped) ==
    LET s == FoldLeftDomain(LAMBDA t, i : Letter(word, starts, dropped, t, i),
                            [done |-> {}, now |-> <<>>], word)
    IN  (s.done \cup {s.now}) \ {<<>>}

\* CamelCaseSplit: before a capital that follows a small letter or precedes one.
CamelCaseSplit(word) ==
    LET small(i) == i \in DOMAIN word /\ word[i] \in LowerCase
    IN  Pieces(word, {i \in 2..Len(word) : word[i] \in UpperCase /\ (small(i - 1) \/ small(i + 1))},
               {Under, Dash})

\* The FieldsFunc of tokenizeText.
Fields(word) ==
    Pieces(word, {}, ToSet(word) \ (LowerCase \cup UpperCase \cup Digit \cup {Under, Dash}))

Indexed(tok) == Len(tok) >= 2 /\ ~(ToSet(tok) \subseteq Digit)

\* Tokenize: code, and every other text but markdown, is split at capitals and
\* keeps its punctuation, markdown the other way round.
Tokenize(kind, words) ==
    LET parts(w) == IF kind = "markdown" THEN Fields(w) ELSE CamelCaseSplit(w)
    IN  {ToLower(t) : t \in {u \in UNION {parts(words[i]) : i \in DOMAIN words} :
                                Indexed(u)}}

\* Update: the terms of each file; files of unknown kinds have none.
Update(docs) ==
    [d \in DOMAIN docs |->
        IF docs[d].kind = "other" THEN {} ELSE Tokenize(docs[d].kind, docs[d].words)]

\* toLower: a query makes the capitals of one byte small, no others.
QueryLower(word) ==
    [i \in 1..Len(word) |-> IF word[i] \in Ascii THEN Lower(word[i]) ELSE word[i]]

\* Capitals do not matter unless asked for.
Term(term, caseSensitive) == IF caseSensitive THEN term ELSE QueryLower(term)

\* Faulty variant: the files under any of the terms.
FoundAny(index, query) ==
    {d \in DOMAIN index : \E i \in DOMAIN query.terms :
        Term(query.terms[i], query.caseSensitive) \in index[d]}

\* The files under all the terms of a query.
Found(index, query) ==
    {d \in DOMAIN index : query.terms # <<>> /\ \A i \in DOMAIN query.terms :
        Term(query.terms[i], query.caseSensitive) \in index[d]}

\* Search: a term counts once in a file, so all scores are equal and the order
\* is that of a map: any of the files, as many as asked for; zero asks for all.
Results(index, query) ==
    LET found == Found(index, query)
        size == IF query.max = 0 THEN Cardinality(found) ELSE Min({query.max, Cardinality(found)})
    IN  kSubset(size, found)
=============================================================================
