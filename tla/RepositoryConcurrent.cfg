SPECIFICATION Spec
CONSTANTS
    Proc = {p1, p2}
    NPaths = 1
    Content = {c1, c2}
    Absent = Absent
    Fp <- DistinctFp
    TagName = {v1}
    Elsewhere = {e}
    Enabled <- WriteCommands
    Modes = {FALSE}
    HasRemote = TRUE
    MayCrash = TRUE
    MaxRuns = 3
SYMMETRY Symmetry
INVARIANTS HistoryPresent StagedPresent SequenceFollowsParent
