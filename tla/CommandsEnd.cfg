SPECIFICATION FairSpec
CONSTANTS
    Proc = {p1, p2}
    NPaths = 1
    Content = {c1}
    Absent = Absent
    Fp <- DistinctFp
    TagName = {v1}
    Elsewhere = {e}
    Enabled <- AllCommands
    Modes = {FALSE}
    HasRemote = TRUE
    MayCrash = TRUE
    MaxRuns = 2
PROPERTY CommandsEnd
