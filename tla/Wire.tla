-------------------------------- MODULE Wire --------------------------------
(***************************************************************************)
(* Package protocol: the payloads of messages, their frames, and the       *)
(* handshake.  A stream is a sequence of units: a field of fixed width, a  *)
(* character of a name or a text, or a byte of a bitmap.                   *)
(***************************************************************************)
EXTENDS Integers, SequencesExt, FiniteSetsExt

CONSTANTS
    Name,      \* names of references, and texts of errors
    NameSize,  \* their lengths are sent as numbers below it, 256 in the code
    Hash,      \* hashes of objects
    ByteBits,  \* bits in a byte of a bitmap, 8 in the code
    MaxList    \* bound: hashes or bits in one message

ASSUME NameAssumption == Name \subseteq Seq(STRING)
ASSUME WidthAssumption == NameSize \in Nat \ {0} /\ ByteBits \in Nat \ {0} /\ MaxList \in Nat

WireMessage ==
    [type : {"RefLine"}, name : Name, hash : Hash]
        \cup [type : {"UpdateRef"}, name : Name, old : Hash, new : Hash]
        \cup [type : {"Error"}, name : Name, code : {1, 2}]
        \cup [type : {"ChunkQuery"}, hashes : BoundedSeq(Hash, MaxList)]
        \cup [type : {"ChunkHaves"}, haves : BoundedSeq(BOOLEAN, MaxList)]
        \cup [type : {"StreamEnd"}]

LengthByte(name) == Len(name) % NameSize

\* EncodeChunkHaves: bit i is bit i % 8 of byte i / 8; a byte is the set of its bits.
BitmapBytes(n) == (n + ByteBits - 1) \div ByteBits
Bitmap(haves) ==
    [k \in 1..BitmapBytes(Len(haves)) |->
        {b \in 0..ByteBits - 1 : LET i == (k - 1) * ByteBits + b + 1
                                 IN  i <= Len(haves) /\ haves[i]}]

\* EncodeRefLine, EncodeUpdateRef, EncodeError, EncodeChunkQuery, EncodeChunkHaves.
Payload(m) ==
    CASE m.type = "RefLine" -> <<m.hash, LengthByte(m.name)>> \o m.name
      [] m.type = "UpdateRef" -> <<LengthByte(m.name)>> \o m.name \o <<m.old, m.new>>
      [] m.type = "Error" -> <<m.code, LengthByte(m.name)>> \o m.name
      [] m.type = "ChunkQuery" -> <<Len(m.hashes)>> \o m.hashes
      [] m.type = "ChunkHaves" -> <<Len(m.haves)>> \o Bitmap(m.haves)
      [] OTHER -> <<>>

\* Write: the length counts the header.
Frame(m) == <<2 + Len(Payload(m)), m.type>> \o Payload(m)

Handshake == <<"MSYN", 1, 0>>
ReceiveHandshake(stream) == Len(stream) >= 3 /\ stream[1] = "MSYN"

\* The units of p that a length announces, from unit i + 1 on.
Sub(p, i, n) == SubSeq(p, i + 1, i + n)

\* The decoder of each type, or no message if the payload is too short; what
\* is left over is not looked at.
Decode(type, p) ==
    LET short(n) == Len(p) < n
        bad == [type |-> type, bad |-> TRUE]
    IN  CASE type = "RefLine" ->
                IF short(2) \/ short(2 + p[2]) THEN bad
                ELSE [type |-> type, name |-> Sub(p, 2, p[2]), hash |-> p[1]]
          [] type = "UpdateRef" ->
                IF short(1) \/ short(3 + p[1]) THEN bad
                ELSE [type |-> type, name |-> Sub(p, 1, p[1]),
                      old |-> p[2 + p[1]], new |-> p[3 + p[1]]]
          [] type = "Error" ->
                IF short(2) \/ short(2 + p[2]) THEN bad
                ELSE [type |-> type, name |-> Sub(p, 2, p[2]), code |-> p[1]]
          [] type = "ChunkQuery" ->
                IF short(1) \/ short(1 + p[1]) THEN bad
                ELSE [type |-> type, hashes |-> Sub(p, 1, p[1])]
          [] type = "ChunkHaves" ->
                IF short(1) \/ short(1 + BitmapBytes(p[1])) THEN bad
                ELSE [type |-> type,
                      haves |-> [i \in 1..p[1] |->
                          (i - 1) % ByteBits \in p[2 + (i - 1) \div ByteBits]]]
          [] OTHER -> [type |-> type]

\* Faulty variant: the length is taken for that of the payload.
ReadFrameLong(stream) ==
    IF stream = <<>> \/ Len(stream) < 2 + stream[1]
    THEN [ok |-> FALSE, rest |-> <<>>]
    ELSE [ok |-> TRUE, message |-> Decode(stream[2], Sub(stream, 2, stream[1])),
          rest |-> SubSeq(stream, 3 + stream[1], Len(stream))]

\* Read: the length, the type and the payload, all of them or an error.
ReadFrame(stream) ==
    IF stream = <<>> \/ stream[1] < 2 \/ Len(stream) < stream[1]
    THEN [ok |-> FALSE, rest |-> <<>>]
    ELSE [ok |-> TRUE, message |-> Decode(stream[2], Sub(stream, 2, stream[1] - 2)),
          rest |-> SubSeq(stream, stream[1] + 1, Len(stream))]
=============================================================================
