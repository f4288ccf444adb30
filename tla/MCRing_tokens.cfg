SPECIFICATION ringSpec
CONSTANTS
    p1 = p1
    p2 = p2
    p3 = p3
    p4 = p4
    N = 2
    Packets = {p1, p2, p3}
    Timer <- mcTimer
    Stream <- mcStream
    ShardKeys <- mcShards
    Injectors = {0, 1}
    LossyTokens = {}
    MAX_GSN_MAP_SIZE = 2
INVARIANTS
    UniqueIndex
