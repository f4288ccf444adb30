SPECIFICATION campaignSpec
CONSTANTS
    s1 = s1
    s2 = s2
    c1 = c1
    c2 = c2
    sw = sw
    or = or
    Servers <- mcServers
    Clients <- mcClients
    SwitchIp = sw
    OrderIps = {or}
    DiscoveryIp = sw
    RingSize = 2
    Threads = {1}
    Duration = 1
    MaxFaults = 0
    Campaigns <- mcNone
    PktgenCampaigns <- mcOneGroup
    Name <- mcName
    Group <- mcGroup
    Extends <- mcExtends
    Underscored <- mcUnderscored
INVARIANTS
    OneNamePerGroup
CHECK_DEADLOCK FALSE
