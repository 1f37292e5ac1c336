SPECIFICATION Spec
CONSTANTS
    Byte = {0, 1, 31}
    ChunkSize = 2
    HashSize = 1024
    LengthSize = 5
    MinSize = 2
    MaxSize = 4
    AvgBits = 8
    Window = 4
    HashBits = 8
    GearTable <- Gears
    Object = {1, 2, 3}
    Compressed <- Sizes
    OffsetSize = 4
    LowerCase <- Letters
    Lowered <- Lowering
    Ascii <- OneByte
    Digit = {"1"}
    Under = "_"
    Dash = "-"
    MaxDelta = 5
    MaxPrefix = 3
    MaxShared = 4
    MaxObjects = 3
    Word <- Words
    Docs = {d1, d2}
    MaxResults = 1
    Name <- Names
    NameSize = 3
    Hash = {"h1", "h2"}
    ByteBits = 2
    MaxList = 3
    MaxMessages = 2
INVARIANTS DeltaAlways DeltaAnyLength KilledPackRefused CapitalsAlike WordsFound NamesKept
CHECK_DEADLOCK FALSE
