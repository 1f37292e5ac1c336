-------------------------------- MODULE Packs --------------------------------
(***************************************************************************)
(* Pack files: what PackWriter leaves on disk, killed or not, and what     *)
(* PackReader makes of it.  A file is a sequence of units: the fields of   *)
(* its header, its entries, and the bytes of its body.                     *)
(***************************************************************************)
EXTENDS Integers, SequencesExt, FiniteSetsExt

CONSTANTS
    Object,      \* objects, ordered by their hashes
    Compressed,  \* the bytes each compresses to, at least one
    OffsetSize   \* offsets are numbers below it, 2^32 in the code

ASSUME ObjectAssumption == Object \subseteq Nat
ASSUME CompressedAssumption == \A o \in Object : Compressed[o] \in Nat \ {0}
ASSUME OffsetAssumption == OffsetSize \in Nat \ {0}

Header(count) == <<"MPAK", 1, count>>
BodyOf(o) == [i \in 1..Compressed[o] |-> <<o, i>>]
Body(objects) == FlattenSeq([i \in 1..Len(objects) |-> BodyOf(objects[i])])

\* AddObject, for each in turn: an entry with the offset of what follows.
Entries(objects) ==
    [i \in 1..Len(objects) |->
        [hash |-> objects[i],
         offset |-> Len(Body(SubSeq(objects, 1, i - 1))) % OffsetSize,
         length |-> Compressed[objects[i]]]]

\* Faulty variant: the offsets are counted in the order of the sorted entries.
SortedEntriesLate(objects) == {Entries(SortSeq(objects, <))}

\* Close sorts the entries by hash; the sort is not stable, so that those of an
\* object added twice may be in any order.
SortedEntries(objects) ==
    LET places == 1..Len(objects)
        rising == {p \in Bijection(places, places) :
                      \A i, j \in places : i <= j => objects[p[i]] <= objects[p[j]]}
    IN  {[i \in places |-> Entries(objects)[p[i]]] : p \in rising}

\* The file NewPackWriter and Close write, in this order but for the count,
\* which is zero until the end.
PackFile(objects, count, sorted) ==
    Header(count) \o sorted \o Body(objects) \o <<"crc32">>

\* OpenPack: a header and the entries it counts, or an error.
OpenPack(file) ==
    LET count == file[3]
    IN  IF Len(file) < 3 \/ Len(file) < 3 + count
        THEN [ok |-> FALSE, entries |-> <<>>]
        ELSE [ok |-> TRUE, entries |-> SubSeq(file, 4, 3 + count)]

\* ReadObject: the first entry whose hash is not below h, the bytes it points
\* to, decompressed and compared with h.
ReadObject(file, entries, h) ==
    LET found == {i \in 1..Len(entries) : entries[i].hash >= h}
        e == entries[Min(found)]
        start == 3 + Len(entries) + e.offset
    IN  /\ found # {} /\ e.hash = h
        /\ start + e.length <= Len(file)
        /\ SubSeq(file, start + 1, start + e.length) = BodyOf(h)

\* UnpackObjects stores the objects in turn and fails at one it cannot read.
UnpackObjects(file) ==
    LET pack == OpenPack(file)
        bad == {i \in DOMAIN pack.entries : ~ReadObject(file, pack.entries, pack.entries[i].hash)}
        good == IF bad = {} THEN pack.entries ELSE SubSeq(pack.entries, 1, Min(bad) - 1)
    IN  [ok |-> pack.ok /\ bad = {}, stored |-> {e.hash : e \in ToSet(good)}]
=============================================================================
