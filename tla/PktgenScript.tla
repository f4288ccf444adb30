---------------------------- MODULE PktgenScript ----------------------------
(* experiments/scripts/pktgen.py: runs the experiments of one TOML file     *)
(* against a ring of Tofino switches or the software switch, and summarises *)
(* the results of all of them at the end. It starts programs and copies     *)
(* files the way experiment.py does (RemotePrograms, ExperimentScript), but *)
(*   - every experiment starts from the file's parameters;                  *)
(*   - it sets up the switches before an experiment that uses them;         *)
(*   - through a tunnel it reaches the switches instead of the machines;    *)
(*   - its summaries are per group of names, not per experiment.            *)
(* A campaign of this script is one experiment record of ExperimentScript,  *)
(* with "machines" (network_setup is there) and "tunnel" (with_tunnel).     *)
EXTENDS ExperimentScript

CONSTANTS
    PktgenCampaigns,
    RingSize,   \* length of switches_in_ring
    Group(_)    \* the part of a name before its first underscore

\* The system "pktgen" stands for this script.
ASSUME PktgenAssumption ==
    /\ RingSize \in Nat \ {0}
    /\ \A c \in PktgenCampaigns : IsCampaign(c) /\ c[1].system = "pktgen"
    /\ \A c \in Campaigns : \A k \in DOMAIN c : c[k].system # "pktgen"

VARIABLE groups  \* summaries of pktgen.py: a group and the files it counts

pktgenVars == <<vars, groups>>

pktgenInit ==
    /\ remoteInit
    /\ campaign \in PktgenCampaigns
    /\ pc = "pgMain" /\ o = 1 /\ e = 1 /\ i = 1
    /\ config = campaign[1].defaults
    /\ bound = {} /\ started = {} /\ sleep = 0
    /\ groups = {}

------------------------------------------------------------------------------
(* main                                                                     *)

\* Without network_setup, or with a setup script, whose path is not defined,
\* an exception ends main.
PgStart ==
    /\ At("pgMain")
    /\ Goto(IF exp.machines /\ ~exp.setup THEN "pgMerge" ELSE "crashed")
    /\ UNCHANGED <<remoteVars, localVars, faultVars, i, bound, started, sleep, groups>>

\* The parameters of experiment k: for hardware switches the merged copy is
\* replaced by a second copy of the file's own.
PgParameters(k) ==
    LET c == Merge(exp.defaults, inner[k])
    IN IF c.use_hardware_switch THEN exp.defaults ELSE c

\* A shard that is not full raises IndexError outside the try block.
PgShardsFit == Len(Servers) % exp.shard_size = 0
PgCycle     == IF PgShardsFit THEN "pgServer" ELSE "crashed"

PgMerge ==
    /\ At("pgMerge")
    /\ config' = PgParameters(e)
    /\ pc' = IF Merge(exp.defaults, inner[e]).use_hardware_switch THEN "pgSetup" ELSE PgCycle
    /\ i' = 1 /\ started' = {}
    /\ UNCHANGED <<remoteVars, localVars, faultVars, campaign, o, e, bound, sleep, groups>>

\* One switch after the other, twenty-five seconds each: configuration, driver,
\* controller. No exception is caught and nothing the switch does is awaited.
PgSetupSwitches ==
    /\ At("pgSetup")
    /\ \/ Each(RingSize, "pgSetup", PgCycle) /\ sleep' = 5 /\ UNCHANGED faultVars
       \/ Fault /\ Goto("crashed") /\ UNCHANGED <<i, sleep>>
    /\ UNCHANGED <<remoteVars, localVars, bound, started, groups>>

------------------------------------------------------------------------------
(* One experiment                                                           *)

PgPrepare(l, prog, ip, ready) ==
    Prepare(l, prog, ip, {}, ready, "pgFinally") /\ UNCHANGED groups

PgLaunch(l, programs, delay) == Launch(l, programs, delay) /\ UNCHANGED groups

\* The program of a machine, with the lifetime in its YAML file.
PgProgram(prog, ip, copy) == This(prog, ip, copy, final_duration(prog))

\* Through a tunnel the files go to the switches of the ring, where the server
\* is started without its configuration and ends at once: five seconds each.
PgTunnel(l, n, again, last, delay) ==
    /\ At(l)
    /\ \/ Each(n, again, last) /\ sleep' = RingSize + delay /\ UNCHANGED faultVars
       \/ Raise("pgFinally") /\ UNCHANGED sleep
    /\ UNCHANGED <<remoteVars, localVars, bound, started, groups>>

PgStartServer ==
    PgPrepare("pgServer", "server", Servers[i],
              IF exp.tunnel THEN "pgTunnelServer" ELSE "pgLaunchServer")

AfterServers == IF config.use_hardware_switch THEN "pgClient" ELSE "pgSwitch"
ServersDelay == IF i = Len(Servers) THEN 1 ELSE 0

PgLaunchServer ==
    /\ PgLaunch("pgLaunchServer", {PgProgram("server", Servers[i], k) : k \in 1 .. 2},
                ServersDelay)
    /\ Each(Len(Servers), "pgServer", AfterServers)

PgTunnelServer ==
    PgTunnel("pgTunnelServer", Len(Servers), "pgServer", AfterServers, ServersDelay)

\* The kill goes to the machine of the last server, not to switch_ip.
PgStartSwitch ==
    PgPrepare("pgSwitch", "switch", Servers[Len(Servers)], "pgLaunchSwitch")

PgLaunchSwitch ==
    /\ PgLaunch("pgLaunchSwitch", {PgProgram("switch", SwitchIp, 1)}, 1)
    /\ Goto("pgClient") /\ UNCHANGED i

PgStartClient ==
    PgPrepare("pgClient", "client", Clients[i],
              IF exp.tunnel THEN "pgTunnelClient" ELSE "pgLaunchClient")

PgLaunchClient ==
    /\ PgLaunch("pgLaunchClient", {PgProgram("client", Clients[i], 1)}, 0)
    /\ Each(Len(Clients), "pgClient", "pgWait")

\* Through a tunnel there is no client to wait for.
PgTunnelClient ==
    PgTunnel("pgTunnelClient", Len(Clients), "pgClient", "pgFinally", 0)

PgCollect(ip) == copy_results_back(JsonName, ip, {LogFile("client", ip, e)})

PgWaitClient ==
    /\ At("pgWait")
    /\ ClientEnded(Run, Clients[i])
    /\ PgCollect(Clients[i])
    /\ Each(Len(Clients), "pgWait", "pgFinally")
    /\ UNCHANGED <<remoteVars, moved, kept, summaries, bound, started, sleep, groups>>

\* The logs of servers and switch are copied; what is killed then is the local
\* ssh. Fifteen seconds to the next experiment.
PgFinally ==
    /\ At("pgFinally")
    /\ copy_log_file_back(ServerLogs)
    /\ sleep' = 3 /\ i' = 1
    /\ IF e < Len(inner) THEN e' = e + 1 /\ pc' = "pgMerge"
                         ELSE pc' = "pgAggregate" /\ UNCHANGED e
    /\ UNCHANGED <<remoteVars, raw, moved, kept, summaries, campaign, o, config, bound,
                   started, groups>>

\* One summary per group of names, over all raw results of the directory.
\* (mutPgAggregateAll: each over all of them, as in experiment.py.)
mutPgAggregateAll ==
    /\ At("pgAggregate")
    /\ groups' = {[name |-> Group(g.name), counted |-> raw] : g \in raw}
    /\ Goto("done")
    /\ UNCHANGED <<remoteVars, localVars, faultVars, i, bound, started, sleep>>

PgAggregate ==
    /\ At("pgAggregate")
    /\ groups' = {[name |-> Group(g.name), counted |-> {f \in raw : Group(f.name) = Group(g.name)}]
                    : g \in raw}
    /\ Goto("done")
    /\ UNCHANGED <<remoteVars, localVars, faultVars, i, bound, started, sleep>>

------------------------------------------------------------------------------

pktgenStep ==
    \/ PgStart \/ PgMerge \/ PgSetupSwitches
    \/ PgStartServer \/ PgLaunchServer \/ PgTunnelServer
    \/ PgStartSwitch \/ PgLaunchSwitch
    \/ PgStartClient \/ PgLaunchClient \/ PgTunnelClient
    \/ PgWaitClient \/ PgFinally \/ PgAggregate

\* An operator runs either script; the machines are the same.
campaignInit == pktgenInit \/ (scriptInit /\ groups = {})
campaignNext == pktgenStep \/ (scriptNext /\ UNCHANGED groups)
campaignSpec == campaignInit /\ [][campaignNext]_pktgenVars

FairCampaignSpec ==
    /\ campaignSpec
    /\ WF_pktgenVars(scriptStep /\ UNCHANGED groups)
    /\ WF_pktgenVars(pktgenStep)
    /\ WF_pktgenVars(Tick /\ UNCHANGED groups)
    /\ WF_pktgenVars(machineStep /\ UNCHANGED groups)

------------------------------------------------------------------------------
(* Properties                                                               *)

\* The same type invariant for both scripts: each stands at a machine or a switch
\* that exists, and groups count files of the campaign.
pktgenTypeOK ==
    /\ scriptTypeOK
    /\ pc = "pgSetup" => i \in 1 .. RingSize
    /\ pc \in {"pgServer", "pgLaunchServer", "pgTunnelServer"} => i \in DOMAIN Servers
    /\ pc \in {"pgClient", "pgLaunchClient", "pgTunnelClient", "pgWait"} => i \in DOMAIN Clients
    /\ \A g \in groups : g.counted \subseteq FileType(ClientIps, Threads)

PgName(k) == Name(exp.general, PgParameters(k).json_name)

\* Experiments get the names they ask for, and a group is one name.
NamesKept  == \A k \in DOMAIN inner : PgName(k) = AskedName(<<o, k>>)
NamesApart == \A n, m \in Names : Group(n) = Group(m) => n = m

\* What the summary of group n counts, and what experiment r has measured.
InSummary(n)    == UNION {g.counted : g \in {h \in groups : h.name = n}}
Measurements(r) == {ResultFile(r, AskedName(r), ip, t) : ip \in ClientIps, t \in Threads}

\* When nothing failed, the summary of a name counts exactly what the last
\* experiment of that name has measured, every thread of every client, although
\* all experiments copy into one directory and are counted at the end: copying
\* replaces the results of that experiment by none, and those of an earlier one
\* completely (copy_results_back, process_and_aggregate_results).
GroupsComplete ==
    /\ pc = "done" /\ intact /\ exp.system = "pktgen" /\ ~exp.tunnel
    /\ NamesKept /\ NamesApart
    => \A k \in DOMAIN inner :
         (\A m \in DOMAIN inner : m > k => AskedName(<<o, m>>) # AskedName(<<o, k>>)) =>
            InSummary(Group(AskedName(<<o, k>>))) = Measurements(<<o, k>>)

\* "PER JSON_NAME ... a summary JSON file for each group": a group is what was
\* measured under one name (process_and_aggregate_results).
OneNamePerGroup == \A g \in groups : \A f, h \in g.counted : f.name = h.name
=============================================================================
