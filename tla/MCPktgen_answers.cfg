SPECIFICATION FairPktgenSpec
CHECK_DEADLOCK FALSE
CONSTANTS
    p1 = p1
    p2 = p2
    p3 = p3
    r1 = r1
    q1 = q1
    N = 2
    Packets = {p1, p2}
    Queries = {q1}
    Replicas = {r1}
    Timer = {}
    Stream <- mcStream
    ShardKeys <- mcShards
    Injectors = {0}
    LossyTokens = {0}
    MAX_GSN_MAP_SIZE = 1
INVARIANTS
    rlTypeOK
    AckedStored
    AnswersCovered
    TailCovers
    TailStored
PROPERTIES
    ReportsGrow
    EventuallyAcked
