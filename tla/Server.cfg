SPECIFICATION FairSpec
CONSTANT Clients = {a, b, c}
INVARIANTS TypeOK GreetedFirst
PROPERTIES Served StopEnds
CHECK_DEADLOCK FALSE
