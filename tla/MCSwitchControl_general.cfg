SPECIFICATION switchSpec
CONSTANTS
    port1 = port1
    port2 = port2
    port3 = port3
    N = 2
    ShardPorts <- mcShards
    Ports = {port1, port2, port3}
    Requests <- mcRequests
    RidBase = 801
    MaxStarts = 2
CHECK_DEADLOCK FALSE
INVARIANTS
    GeneralServed
