SPECIFICATION Spec
CONSTANTS
    r1 = r1
    r2 = r2
    Repos = {r1, r2}
    Asked = r1
    Tokens = {TRUE, FALSE}
    Calls <- AllCalls
    Cap = 2
    MaxCommit = 2
    MaxCalls = 2
INVARIANTS TrackedWasShown TrackedIsHeld TrackedIsAsked CloneComplete
PROPERTIES PullUpdates PushToldByAll PushNeverBehind
CHECK_DEADLOCK FALSE
