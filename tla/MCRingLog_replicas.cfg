SPECIFICATION rlSpec
CONSTANTS
    p1 = p1
    p2 = p2
    r1 = r1
    r2 = r2
    N = 2
    Packets = {p1, p2}
    Queries = {}
    Replicas = {r1, r2}
    Timer <- mcTimer
    Stream <- mcStream
    ShardKeys <- mcShards
    Injectors = {0}
    LossyTokens = {}
    MAX_GSN_MAP_SIZE = 1
INVARIANTS
    TailReplicated
