SPECIFICATION Spec
CONSTANTS
    NPaths = 2
    Block = {1, 2, 3}
    Content <- Contents
    Sample = 2
    Mode = {plain, exec}
    Absent = Absent
    MaxEdits = 2
    MaxRuns = 2
PROPERTY RemovedWereGone
CHECK_DEADLOCK FALSE
