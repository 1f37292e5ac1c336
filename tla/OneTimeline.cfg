SPECIFICATION Spec
CONSTANTS
    Proc = {p1, p2}
    NPaths = 1
    Content = {c1, c2}
    Absent = Absent
    Fp <- DistinctFp
    TagName = {v1}
    Elsewhere = {e}
    Enabled <- CommitCommands
    Modes = {FALSE}
    HasRemote = TRUE
    MayCrash = FALSE
    MaxRuns = 4
PROPERTY HeadMovesToChild
