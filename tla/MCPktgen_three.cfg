SPECIFICATION FairPktgenSpec
CONSTANTS
    p1 = p1
    p2 = p2
    p3 = p3
    r1 = r1
    q1 = q1
    N = 3
    Packets = {p1, p2, p3}
    Queries = {}
    Replicas = {}
    Timer <- mcTimer
    Stream <- mcNoStream
    ShardKeys <- mcShards
    Injectors = {1}
    LossyTokens = {}
    MAX_GSN_MAP_SIZE = 1
INVARIANTS
    ringTypeOK
    UniqueIndex
    IndexReserved
    OrderRespected
    NoHoles
    ringInv
    BatchesCounted
PROPERTIES
    IndexFixed
    RingImplementsLog
    EventuallyLeaves
