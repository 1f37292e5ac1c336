------------------------------- MODULE Library -------------------------------
(***************************************************************************)
(* One call of a package that works on data alone: a delta computed, sent  *)
(* and applied; two files cut into chunks to synchronise them; a pack file *)
(* written, perhaps cut short, and unpacked; files indexed and searched;   *)
(* messages encoded and decoded at the other end of a connection that may  *)
(* be lost.                                                                *)
(***************************************************************************)
EXTENDS Delta, Packs, SearchIndex, Wire

CONSTANTS
    MaxDelta,   \* bound: bytes of a base or target
    MaxPrefix,  \* bound: bytes before the common end of two files
    MaxShared,  \* bound: bytes of that end
    MaxObjects, \* bound: objects of a pack
    Word,       \* words of files and queries
    Docs,       \* files
    MaxResults, \* results asked for
    MaxMessages \* bound: messages on a connection

ASSUME SearchAssumption == IsFiniteSet(Docs) /\ Word \subseteq Seq(STRING)
ASSUME LibraryBounds == \A n \in {MaxDelta, MaxPrefix, MaxShared, MaxObjects, MaxResults, MaxMessages} : n \in Nat

VARIABLES
    call, step,
    given,  \* the arguments
    made,   \* what the steps so far have produced
    got     \* the result

vars == <<call, step, given, made, got>>

Nothing == [none |-> TRUE]

Begin(c, s, args) == call = c /\ step = s /\ given = args /\ made = Nothing /\ got = Nothing

Init ==
    \/ \E b, t \in Bytes(MaxDelta) : Begin("delta", "compute", [base |-> b, target |-> t])
    \/ \E p, q \in Bytes(MaxPrefix), s \in Bytes(MaxShared) :
          Begin("sync", "split", [local |-> p \o s, remote |-> q \o s, shared |-> Len(s)])
    \/ \E os \in BoundedSeq(Object, MaxObjects), closed \in BOOLEAN :
       \E sorted \in SortedEntries(os) :
          LET file == PackFile(os, IF closed THEN Len(os) ELSE 0, sorted)
          IN  \E n \in 0..Len(file) :
                 Begin("pack", "unpack", [objects |-> os, closed |-> closed,
                                          whole |-> closed /\ n = Len(file),
                                          file |-> SubSeq(file, 1, n)])
    \/ \E docs \in [Docs -> [kind : {"code", "markdown", "other"}, words : BoundedSeq(Word, 2)]],
          ts \in BoundedSeq(Word, 2), cs \in BOOLEAN :
          Begin("search", "index", [docs |-> docs,
                query |-> [terms |-> ts, caseSensitive |-> cs, max |-> MaxResults]])
    \/ \E ms \in BoundedSeq(WireMessage, MaxMessages) :
          LET stream == Handshake \o FlattenSeq([i \in 1..Len(ms) |-> Frame(ms[i])])
          IN  \E n \in 0..Len(stream) :
                 Begin("wire", "greet", [sent |-> ms, stream |-> SubSeq(stream, 1, n)])

Go(to) == step' = to /\ UNCHANGED <<call, given>>

Compute == /\ step = "compute" /\ Go("encode")
           /\ made' = ComputeDelta(given.base, given.target) /\ UNCHANGED got

Encode == /\ step = "encode" /\ Go("patch")
          /\ made' = EncodeDelta(made) /\ UNCHANGED got

ApplyPatch == /\ step = "patch" /\ Go("done")
              /\ got' = Patch(given.base, made) /\ UNCHANGED made

SplitBoth == /\ step = "split" /\ Go("plan")
             /\ made' = [local |-> Chunks(given.local), remote |-> Chunks(given.remote)]
             /\ UNCHANGED got

Plan == /\ step = "plan" /\ Go("done")
        /\ got' = SyncPlan(made.local, ToSet(made.remote)) /\ UNCHANGED made

Unpack == /\ step = "unpack" /\ Go("done")
          /\ got' = UnpackObjects(given.file) /\ UNCHANGED made

IndexDocs == /\ step = "index" /\ Go("search")
             /\ made' = Update(given.docs) /\ UNCHANGED got

SearchDocs == /\ step = "search" /\ Go("done")
              /\ got' \in Results(made, given.query) /\ UNCHANGED made

\* The handshake, and then one message after the other until one cannot be read.
Greet == /\ step = "greet" /\ got' = <<>>
         /\ Go(IF ReceiveHandshake(given.stream) THEN "receive" ELSE "done")
         /\ made' = SubSeq(given.stream, 4, Len(given.stream))

Receive == /\ step = "receive" /\ ReadFrame(made).ok /\ Go("receive")
           /\ got' = Append(got, ReadFrame(made).message)
           /\ made' = ReadFrame(made).rest

HangUp == /\ step = "receive" /\ ~ReadFrame(made).ok /\ Go("done")
          /\ UNCHANGED <<made, got>>

Next == \/ Compute \/ Encode \/ ApplyPatch \/ SplitBoth \/ Plan \/ Unpack
        \/ IndexDocs \/ SearchDocs \/ Greet \/ Receive \/ HangUp
Spec == Init /\ [][Next]_vars

-----------------------------------------------------------------------------
(* Properties *)

Done(c) == step = "done" /\ call = c

\* Two different blocks with one hash, the first in base, the second in target.
Collision(base, target) ==
    \E o \in 0..Len(base) - ChunkSize, t \in 0..Len(target) - ChunkSize :
        /\ Block(base, o) # Block(target, t)
        /\ RollingHash(Block(base, o)) = RollingHash(Block(target, t))

\* A delta that is computed, encoded and applied to the same base gives the
\* target, as long as the length of the target fits the field of a length, unless
\* the hashes of two of their blocks collide.
DeltaExact ==
    Done("delta") =>
        \/ Len(given.target) >= LengthSize
        \/ Collision(given.base, given.target)
        \/ got = [ok |-> TRUE, data |-> given.target]

\* Not so in the code: the delta is right whatever the hashes are.
DeltaAlways == Done("delta") => got = [ok |-> TRUE, data |-> given.target]

\* Not so in the code: where no hashes collide, it is right whatever the lengths are.
DeltaAnyLength ==
    Done("delta") =>
        \/ Collision(given.base, given.target)
        \/ got = [ok |-> TRUE, data |-> given.target]

\* The ends of chunks, counted from the end of the data.
EndsBack(chunks) ==
    {Len(Concat(SubSeq(chunks, i, Len(chunks)))) : i \in 2..Len(chunks) + 1}

\* The chunks of a file are the file, none is larger than MaxSize, and all but
\* the last are larger than MinSize.  Where two files that end alike have both
\* made a cut, they make the same cuts from there on, and the plan sends none
\* of the chunks after it.
ChunksMeet ==
    Done("sync") =>
        LET l == EndsBack(made.local)
            r == EndsBack(made.remote)
            meet == {n \in l \cap r : n <= given.shared}
        IN  /\ Concat(made.local) = given.local
            /\ \A i \in DOMAIN made.local :
                  /\ Len(made.local[i]) \in 1..MaxSize
                  /\ i < Len(made.local) => Len(made.local[i]) > MinSize
            /\ \A n \in meet : l \cap 0..n = r \cap 0..n
            /\ meet # {} =>
                  \A i \in DOMAIN made.local :
                      Len(Concat(SubSeq(made.local, i, Len(made.local)))) <= Max(meet)
                          => made.local[i] \notin ToSet(got.missing)

\* Unpacking stores only what was packed; it succeeds on a whole pack whose
\* body is within the range of offsets; and of a finished pack, cut or not, it
\* never calls a part the whole.
PackHonest ==
    Done("pack") =>
        LET packed == ToSet(given.objects)
        IN  /\ got.stored \subseteq packed
            /\ given.whole /\ Len(Body(given.objects)) <= OffsetSize => got.ok
            /\ given.closed /\ got.ok => got.stored = packed

\* Not so in the code: a pack whose writer was killed is refused.
KilledPackRefused ==
    Done("pack") /\ got.ok => got.stored = ToSet(given.objects)

Plain(word) == Len(word) >= 2 /\ ToSet(word) \subseteq LowerCase

\* term is a part of word, capitals and small letters being the same.
PartOf(term, word) ==
    \E i \in 0..Len(word) - Len(term) :
        SubSeq(ToLower(word), i + 1, i + Len(term)) = ToLower(term)

\* Every file found has all the terms in its words; no more are found than asked
\* for, zero asking for all; and as long as results are left to be asked for, every
\* file of a known kind that has all the terms among its words is found, if these
\* are small letters alone.
SearchExact ==
    Done("search") =>
        LET docs == given.docs
            terms == ToSet(given.query.terms)
            full == MaxResults # 0 /\ Cardinality(got) = MaxResults
        IN  /\ \A d \in got : /\ terms # {} /\ docs[d].kind # "other"
                              /\ \A t \in terms : \E w \in ToSet(docs[d].words) : PartOf(t, w)
            /\ Cardinality(got) <= MaxResults \/ MaxResults = 0
            /\ \A d \in Docs :
                  \/ d \in got \/ docs[d].kind = "other" \/ terms = {} \/ full
                  \/ \E t \in terms : ~Plain(t) \/ t \notin ToSet(docs[d].words)

\* Wherever the connection is lost, the other end has read the messages that
\* were on it completely, no others, and in order, each with its type; and all
\* it says is what was sent, as long as the name fits its length.
WireExact ==
    Done("wire") =>
        LET upTo(i) == Handshake \o FlattenSeq([j \in 1..i |-> Frame(given.sent[j])])
            arrived(i) == Len(upTo(i)) <= Len(given.stream)
        IN  /\ DOMAIN got = {i \in DOMAIN given.sent : arrived(i)}
            /\ \A i \in DOMAIN got :
                  /\ got[i].type = given.sent[i].type
                  /\ \/ got[i] = given.sent[i]
                     \/ "name" \in DOMAIN given.sent[i] /\ Len(given.sent[i].name) >= NameSize

\* Not so in the code: a message is read as it was sent, or refused.
NamesKept ==
    Done("wire") =>
        \A i \in DOMAIN got : got[i] = given.sent[i] \/ "bad" \in DOMAIN got[i]

\* Not so in the code: unless told otherwise, a query does not tell capitals from
\* small letters, and finds the files that have its terms in small letters.
CapitalsAlike ==
    Done("search") =>
        \A d \in Docs :
            \/ d \in got \/ given.query.caseSensitive \/ given.query.terms = <<>>
            \/ Cardinality(got) = MaxResults
            \/ \E t \in ToSet(given.query.terms) :
                  ToLower(t) \notin made[d]

\* Not so in the code: a word of a code file, unless it is a number, is found as it
\* stands there.
WordsFound ==
    Done("search") =>
        \A d \in Docs :
            \/ d \in got \/ given.docs[d].kind # "code" \/ given.query.terms = <<>>
            \/ Cardinality(got) = MaxResults
            \/ \E t \in ToSet(given.query.terms) :
                  t \notin ToSet(given.docs[d].words) \/ ToSet(t) \cap LowerCase = {}
=============================================================================
