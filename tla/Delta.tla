-------------------------------- MODULE Delta --------------------------------
(***************************************************************************)
(* Package delta: the greedy delta of two byte sequences and its encoding, *)
(* and the cutting of data into chunks whose ends the content decides.     *)
(***************************************************************************)
EXTENDS Integers, SequencesExt, FiniteSetsExt

CONSTANTS
    Byte,        \* the bytes data is made of, numbers
    ChunkSize,   \* bytes of a block the delta looks up, 16 in the code
    HashSize,    \* block hashes are numbers below it, 2^32 in the code
    LengthSize,  \* lengths in a delta are numbers below it, 2^32 in the code
    MinSize, MaxSize,  \* least and largest size of a chunk
    AvgBits,     \* the logarithm of the average size
    Window,      \* bytes hashed ahead of the first cut, 64 in the code
    HashBits,    \* bits of the gear hash, 64 in the code
    GearTable    \* a number below 2^HashBits for every byte

ASSUME ByteAssumption == Byte \subseteq Nat
ASSUME DeltaAssumption == ChunkSize \in Nat \ {0} /\ HashSize \in Nat \ {0}
ASSUME LengthAssumption == LengthSize \in Nat /\ LengthSize > 1
ASSUME ChunkAssumption ==
    /\ MinSize \in Nat \ {0} /\ MaxSize \in Nat /\ MinSize < MaxSize
    /\ AvgBits \in Nat /\ Window \in Nat /\ HashBits \in Nat \ {0}
    /\ GearTable \in [Byte -> Nat]
\* 64 and 2048 in the code.  Only the first chunk's window may then wrap.
ASSUME WindowAssumption == Window <= 2 * MinSize

Bytes(n) == BoundedSeq(Byte, n)
Concat(ss) == FlattenSeq(ss)

-----------------------------------------------------------------------------
(* Deltas *)

\* The block of data that starts after offset bytes.
Block(data, offset) == SubSeq(data, offset + 1, offset + ChunkSize)

\* rollingHash32
RollingHash(data) == FoldLeft(LAMBDA h, b : (h * 31 + b) % HashSize, 0, data)

\* buildHashIndex, read as the offsets of base under one hash.
Candidates(base, h) ==
    {o \in 0..Len(base) - ChunkSize : RollingHash(Block(base, o)) = h}

\* How far base from o and target from t agree, the first block unseen.
Extent(base, o, target, t) ==
    LET lengths == ChunkSize..Min({Len(base) - o, Len(target) - t})
    IN  Max({n \in lengths : \A i \in ChunkSize + 1..n : base[o + i] = target[t + i]})

\* findBestMatch at target offset t: the longest one, the first of several.
BestMatch(base, target, t) ==
    LET offsets == IF Len(target) - t < ChunkSize THEN {}
                   ELSE Candidates(base, RollingHash(Block(target, t)))
        length(o) == Extent(base, o, target, t)
        longest == Max({length(o) : o \in offsets})
    IN  IF offsets = {} THEN [offset |-> 0, length |-> 0]
        ELSE [offset |-> Min({o \in offsets : length(o) = longest}), length |-> longest]

\* An operation keeps the low bits of its length alone.
Copy(o, n) == [op |-> "copy", offset |-> o, length |-> n % LengthSize, data |-> <<>>]
Insert(data) ==
    [op |-> "insert", offset |-> 0, length |-> Len(data) % LengthSize, data |-> data]

\* Faulty variant: the inserts of a run are merged into its last one.
CompactOpsLast(ops) ==
    IF Len(ops) <= 1 THEN ops ELSE
    FoldLeft(LAMBDA r, op :
        IF op.length = 0 THEN r
        ELSE IF r # <<>> /\ Last(r).op = "insert" /\ op.op = "insert"
        THEN Front(r) \o <<op>>
        ELSE Append(r, op), <<>>, ops)

\* compactOps: neighbouring inserts become one, and operations of no length go, one
\* alone excepted.
CompactOps(ops) ==
    IF Len(ops) <= 1 THEN ops ELSE
    FoldLeft(LAMBDA r, op :
        IF op.length = 0 THEN r
        ELSE IF r # <<>> /\ Last(r).op = "insert" /\ op.op = "insert"
        THEN Front(r) \o <<Insert(Last(r).data \o op.data)>>
        ELSE Append(r, op), <<>>, ops)

ComputeDelta(base, target) ==
    LET from[t \in 0..Len(target)] ==
            LET m == BestMatch(base, target, t)
            IN  CASE t = Len(target) -> <<>>
                  [] t < Len(target) /\ m.length >= ChunkSize ->
                        <<Copy(m.offset, m.length)>> \o from[t + m.length]
                  [] OTHER -> <<Insert(<<target[t + 1]>>)>> \o from[t + 1]
    IN  IF base = <<>> THEN <<Insert(target)>> ELSE CompactOps(from[0])

\* EncodeDelta, every field of fixed width as one number; that of a length again
\* keeps its low bits alone.
EncodeDelta(ops) ==
    Concat([i \in 1..Len(ops) |->
        IF ops[i].op = "copy" THEN <<0, ops[i].offset, ops[i].length>>
        ELSE <<1, Len(ops[i].data) % LengthSize>> \o ops[i].data])

Bad == [ok |-> FALSE, data |-> <<>>]

\* Patch: DecodeDelta from field i on, and ApplyDelta of what it finds.  Either
\* of them fails on an operation that is cut short, or of no known kind, or
\* copies from behind the base.
Patch(base, fields) ==
    LET n == Len(fields)
        sound(i) ==
            \/ fields[i] = 0 /\ i + 2 <= n /\ fields[i + 1] + fields[i + 2] <= Len(base)
            \/ fields[i] = 1 /\ i + 1 <= n /\ i + 1 + fields[i + 1] <= n
        bytes(i) ==
            IF fields[i] = 0 THEN SubSeq(base, fields[i + 1] + 1, fields[i + 1] + fields[i + 2])
            ELSE SubSeq(fields, i + 2, i + 1 + fields[i + 1])
        next(i) == IF fields[i] = 0 THEN i + 3 ELSE i + 2 + fields[i + 1]
        from[i \in 1..n + 1] ==
            LET rest == from[next(i)]
            IN  IF i > n THEN [ok |-> TRUE, data |-> <<>>]
                ELSE IF sound(i) /\ rest.ok THEN [ok |-> TRUE, data |-> bytes(i) \o rest.data]
                ELSE Bad
    IN  from[1]

-----------------------------------------------------------------------------
(* Chunks *)

\* One byte more in the gear hash.
Gear(h, b) == (h * 2 + GearTable[b]) % 2^HashBits

\* computeMasks, as numbers of low bits; the shift by a number below zero is a
\* shift by a huge one, which leaves a mask of all bits.
MaskBits == {IF n < 0 THEN HashBits ELSE Min({n, HashBits}) :
                n \in {AvgBits + 1, AvgBits - 1, AvgBits - 3}}
Cuts(h) == \E n \in MaskBits : h % 2^n = 0

\* Faulty variant: the window is not kept inside the chunk.
WindowStartBefore(offset) ==
    IF offset + MinSize < Window THEN offset + MinSize ELSE offset + MinSize - Window

\* The subtraction wraps below zero, and the window is then empty.
WindowStart(offset) ==
    IF offset + MinSize < Window THEN offset + MinSize
    ELSE Max({offset + MinSize - Window, offset})

\* findChunkBoundary
ChunkBoundary(data, offset) ==
    LET minEnd == offset + MinSize
        maxEnd == Min({offset + MaxSize, Len(data)})
        hash(pos) == FoldLeft(Gear, 0, SubSeq(data, WindowStart(offset) + 1, pos + 1))
        cuts == {pos \in minEnd..maxEnd - 1 : Cuts(hash(pos))}
    IN  IF minEnd >= Len(data) THEN Len(data)
        ELSE IF cuts = {} THEN maxEnd ELSE Min(cuts) + 1

\* Split: the ends of the chunks of data.
Split(data) ==
    LET from[offset \in 0..Len(data)] ==
            IF offset = Len(data) THEN <<>>
            ELSE LET end == ChunkBoundary(data, offset) IN <<end>> \o from[end]
    IN  from[0]

\* The chunks themselves; their hashes stand for them.
Chunks(data) ==
    LET ends == Split(data)
    IN  [i \in 1..Len(ends) |-> SubSeq(data, IF i = 1 THEN 1 ELSE ends[i - 1] + 1, ends[i])]

\* BuildSyncPlan
SyncPlan(chunks, remote) ==
    LET missing == FoldLeft(LAMBDA m, c : IF c \in remote THEN m ELSE Append(m, c), <<>>, chunks)
    IN  [missing |-> missing, total |-> Len(chunks), reused |-> Len(chunks) - Len(missing)]
=============================================================================
