SPECIFICATION Spec
CONSTANT Clients = {a, b}
INVARIANT Graceful
CHECK_DEADLOCK FALSE
