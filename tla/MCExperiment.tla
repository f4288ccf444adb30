---------------------------- MODULE MCExperiment ----------------------------
(* Small campaigns for TLC.                                                 *)
EXTENDS PktgenScript

CONSTANTS s1, s2, c1, c2, sw, or

mcServers == <<s1, s2>>
mcClients == <<c1, c2>>
mcName(g, j) == <<g, j>>

Params(shard, hw) ==
    [json_name |-> "default", use_shard |-> shard, use_hardware_switch |-> hw]
Exp(system, general, params, in) ==
    [system |-> system, general |-> general, shard_size |-> 2, num_shards |-> 1,
     setup |-> FALSE, brokers |-> TRUE, machines |-> TRUE, tunnel |-> FALSE,
     defaults |-> params, inner |-> in]
Over(name) == [json_name |-> name]
None == [k \in {} |-> 0]

Plain   == Params(FALSE, FALSE)
Sharded == Params(TRUE, TRUE)

\* One program of each system; overrides that stay; names that are used twice,
\* extend another one or contain an underscore; configurations that crash.
mcCampaigns ==
    {<<Exp("pringles", "a", Plain,
           <<[json_name |-> "x", use_hardware_switch |-> TRUE], Over("y")>>)>>,
     <<Exp("pringles", "a", Sharded, <<Over("x"), None>>)>>,
     <<Exp("baseline", "a", Plain, <<None>>), Exp("scalog", "b", Plain, <<None>>)>>,
     <<Exp("baseline", "a", Plain, <<Over("x_y"), Over("z"), Over("x")>>)>>,
     <<Exp("baseline", "a", Plain, <<None, None, Over("z")>>)>>,
     <<Exp("kafka", "a", Plain, <<None>>), Exp("speclog", "a", Plain, <<None>>)>>,
     <<[Exp("kafka", "a", Plain, <<None>>) EXCEPT !.brokers = FALSE]>>,
     <<Exp("corfu", "a", Plain, <<None>>)>>,
     <<Exp("pringles_hardware", "a", Plain, <<None>>)>>,
     <<[Exp("pringles", "a", Plain, <<None>>) EXCEPT !.setup = TRUE]>>,
     <<[Exp("pringles", "a", Sharded, <<None>>) EXCEPT !.shard_size = 3]>>,
     <<[Exp("scalog", "a", Plain, <<None>>) EXCEPT !.num_shards = 3]>>}

\* A name with an underscore, used twice; overrides dropped for hardware switches;
\* the tunnel; configurations that crash.
mcPktgenCampaigns ==
    {<<Exp("pktgen", "a", Plain, <<Over("x_y"), Over("z"), Over("x_y")>>)>>,
     <<Exp("pktgen", "a", Params(FALSE, TRUE), <<Over("x")>>)>>,
     <<[Exp("pktgen", "a", Plain, <<None>>) EXCEPT !.tunnel = TRUE]>>,
     <<[Exp("pktgen", "a", Plain, <<None>>) EXCEPT !.machines = FALSE]>>,
     <<[Exp("pktgen", "a", Plain, <<None>>) EXCEPT !.shard_size = 3]>>}

mcExtends == {<<mcName("a", "x"), mcName("a", "x_y")>>}
mcUnderscored == {mcName("a", "x_y")}
mcGroup(n) == IF n = mcName("a", "x_y") THEN mcName("a", "x") ELSE n
mcOne == {<<Exp("pringles", "a", Plain, <<None>>)>>}
mcNone == {}

\* Two names that agree before their first underscore.
mcOneGroup == {<<Exp("pktgen", "a", Plain, <<Over("x_y"), Over("x")>>)>>}
=============================================================================
