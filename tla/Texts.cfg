SPECIFICATION Spec
CONSTANTS
    Line = {a, b, c}
    Empty = a
    MaxDiff = 4
    MaxMerge = 3
    Context = 1
INVARIANTS ScriptCorrect ScriptShortest CompactedScript HunksShowEdits OnlyOursChanged BothDeleteConflict
CHECK_DEADLOCK FALSE
