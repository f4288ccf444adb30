SPECIFICATION softSpec
CONSTANTS
    c1 = c1
    c2 = c2
    Clients = {c1, c2}
    MaxAppends = 3
    Threads = {1, 2}
    ack_threshold = 1
INVARIANTS
    RealTimeOrder
    LostByRace
CHECK_DEADLOCK FALSE
