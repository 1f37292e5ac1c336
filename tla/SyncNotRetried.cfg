SPECIFICATION Spec
CONSTANTS
    Proc = {p1}
    NPaths = 1
    Content = {c1}
    Absent = Absent
    Fp <- DistinctFp
    TagName = {v1}
    Elsewhere = {e}
    Enabled <- SyncCommands
    Modes = {TRUE}
    HasRemote = TRUE
    MayCrash = FALSE
    MaxRuns = 2
PROPERTY SyncUpToDate
