SPECIFICATION Spec
CONSTANTS
    Proc = {p1, p2}
    NPaths = 1
    Content = {c1}
    Absent = Absent
    Fp <- DistinctFp
    TagName = {v1}
    Elsewhere = {e}
    Enabled <- ReadCommands
    Modes = {FALSE}
    HasRemote = TRUE
    MayCrash = FALSE
    MaxRuns = 2
PROPERTY ReadOnlyKeepsStaged
