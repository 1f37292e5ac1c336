SPECIFICATION FairSpec
CONSTANTS
    r1 = r1
    r2 = r2
    Repos = {r1, r2}
    Asked = r1
    Tokens = {TRUE, FALSE}
    Calls <- AllCalls
    Cap = 1
    MaxCommit = 2
    MaxCalls = 2
INVARIANTS TypeOK PushSendsAll InStep
PROPERTIES PushTold CallEnds HandlerEnds
CHECK_DEADLOCK FALSE
