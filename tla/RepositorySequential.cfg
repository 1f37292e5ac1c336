SPECIFICATION Spec
CONSTANTS
    Proc = {p1}
    NPaths = 2
    Content = {c1}
    Absent = Absent
    Fp <- DistinctFp
    TagName = {v1}
    Elsewhere = {e}
    Enabled <- AllCommands
    Modes = {TRUE, FALSE}
    HasRemote = TRUE
    MayCrash = TRUE
    MaxRuns = 3
INVARIANTS TypeOK SequenceFollowsParent
PROPERTIES GcKeepsReachable ImplementsTimeline
