SPECIFICATION Spec
CONSTANTS
    Line = {a, b}
    Empty = a
    MaxDiff = 3
    MaxMerge = 2
    Context = 1
INVARIANTS OursUntouched EqualTexts HunkHeaders HunksApart OnlyTheirsChanged MarksClosed
CHECK_DEADLOCK FALSE
