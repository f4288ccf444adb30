SPECIFICATION FairSwitchSpec
CONSTANTS
    port1 = port1
    port2 = port2
    port3 = port3
    N = 2
    ShardPorts <- mcShards
    Ports = {port1, port2, port3}
    Requests <- mcRequests
    RidBase = 4
    MaxStarts = 3
INVARIANTS
    switchTypeOK
    TokenSurvives
    ShardGroupsKept
    StreamServed
    GeneralServedLater
    OnlySubscribers
    groupInv
PROPERTIES
    TokenVisits
CHECK_DEADLOCK FALSE
