SPECIFICATION Spec
CONSTANTS
    Process = {p1, p2}
    Key <- Keys
    SectionOf <- Sections
    RemoteKey = "remote.url"
    Value <- Values
    Text <- Texts
    Spaces <- WhiteSpace
    EscapeOf <- Escapes
    Torn <- TornTexts
    InitValue <- Initial
    MaxRuns = 2
INVARIANTS AnyValueKept KeysKept AlwaysGiven
SYMMETRY Symmetry
CHECK_DEADLOCK FALSE
