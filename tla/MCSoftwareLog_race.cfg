SPECIFICATION softSpec
CONSTANTS
    c1 = c1
    c2 = c2
    Clients = {c1, c2}
    MaxAppends = 1
    Threads = {1, 2}
    ack_threshold = 1
INVARIANTS
    ReturnedStored
CHECK_DEADLOCK FALSE
