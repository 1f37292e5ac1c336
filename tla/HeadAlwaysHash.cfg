SPECIFICATION Spec
CONSTANTS
    Proc = {p1}
    NPaths = 1
    Content = {c1}
    Absent = Absent
    Fp <- DistinctFp
    TagName = {v1}
    Elsewhere = {e}
    Enabled <- CommitCommands
    Modes = {FALSE}
    HasRemote = TRUE
    MayCrash = TRUE
    MaxRuns = 2
INVARIANT HeadIsHash
