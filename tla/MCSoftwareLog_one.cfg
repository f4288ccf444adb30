SPECIFICATION FairSoftSpec
CONSTANTS
    c1 = c1
    c2 = c2
    Clients = {c1, c2}
    MaxAppends = 3
    Threads = {1}
    ack_threshold = 1
INVARIANTS
    softTypeOK
    ReturnedStored
    NoHoles
PROPERTIES
    SoftImplementsLog
    EventuallyReturns
CHECK_DEADLOCK FALSE
