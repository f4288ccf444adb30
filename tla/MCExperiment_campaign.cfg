SPECIFICATION FairCampaignSpec
CONSTANTS
    s1 = s1
    s2 = s2
    c1 = c1
    c2 = c2
    sw = sw
    or = or
    Servers <- mcServers
    Clients <- mcClients
    SwitchIp = sw
    OrderIps = {or}
    DiscoveryIp = sw
    RingSize = 2
    Threads = {1}
    Duration = 1
    MaxFaults = 1
    Campaigns <- mcCampaigns
    PktgenCampaigns <- mcPktgenCampaigns
    Name <- mcName
    Group <- mcGroup
    Extends <- mcExtends
    Underscored <- mcUnderscored
INVARIANTS
    pktgenTypeOK
    OwnResults
    SummaryComplete
    ProgramsStopped
    GroupsComplete
PROPERTIES
    SummariesInOrder
    ScriptEnds
CHECK_DEADLOCK FALSE
