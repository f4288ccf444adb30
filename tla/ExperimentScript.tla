-------------------------- MODULE ExperimentScript --------------------------
(* experiments/scripts/experiment.py: main runs the experiments of          *)
(* general.toml one after another; each calls the cycle function of its     *)
(* system, which runs the experiments of that system's TOML file.           *)
(*                                                                          *)
(* A campaign is the sequence of general.toml's experiments:                *)
(*   system    protocol_name                                                *)
(*   general   general_json_name                                            *)
(*   shard_size, num_shards   num_servers_per_shard and num_shards          *)
(*   setup     run_setup_script                                             *)
(*   brokers   seq_ips and the Kafka paths are there                        *)
(*   defaults  experiment_parameters of the system's file                   *)
(*   inner     the overrides of its [[experiment]] tables                   *)
EXTENDS RemotePrograms

CONSTANTS
    Campaigns,
    Name(_, _),   \* general_json_name-json_name
    OrderIps,     \* Scalog's order nodes
    DiscoveryIp   \* Scalog's discovery node

\* What the scripts read of an experiment without a check.
WellFormed(x) ==
    /\ IsList(x.inner)
    /\ {"json_name", "use_shard", "use_hardware_switch"} \subseteq DOMAIN x.defaults
    /\ x.shard_size \in Nat \ {0} /\ x.num_shards \in Nat
IsCampaign(c) == IsList(c) /\ \A k \in DOMAIN c : WellFormed(c[k])

ASSUME CampaignAssumption == \A c \in Campaigns : IsCampaign(c)

VARIABLES
    campaign,
    pc,       \* where the script is
    o, e, i,  \* experiment of the campaign, of the cycle, and machine
    config,   \* experiment_parameters as merged so far
    bound,    \* names that the cycle function has assigned in any iteration
    started,  \* programs of this iteration: <<program, machine>>
    sleep     \* units that the script still sleeps

scriptVars == <<campaign, pc, o, e, i, config, bound, started, sleep>>
vars == <<remoteVars, localVars, faultVars, scriptVars>>

exp      == campaign[o]
inner    == exp.inner
Run      == <<o, e>>
JsonName == Name(exp.general, config.json_name)

\* Moves of the script, which waits while it sleeps.
At(l)   == pc = l /\ sleep = 0
Goto(l) == pc' = l /\ UNCHANGED <<campaign, o, e, config>>
\* Continue with the next of n machines, or with l after the last one.
Each(n, again, l) ==
    /\ Goto(IF i < n THEN again ELSE l)
    /\ i' = IF i < n THEN i + 1 ELSE 1
\* A handled exception: the rest of the try block is skipped.
Raise(handler) == Fault /\ Goto(handler) /\ i' = 1

scriptInit ==
    /\ remoteInit
    /\ campaign \in Campaigns
    /\ pc = "main" /\ o = 1 /\ e = 1 /\ i = 1
    /\ config = campaign[1].defaults
    /\ bound = {} /\ started = {} /\ sleep = 0

------------------------------------------------------------------------------
(* main                                                                     *)

Systems == {"pringles", "baseline", "scalog", "kafka", "pringles_hardware", "speclog"}

\* run_setup_script uses a list of machines that main does not define; an
\* unknown system ends main.
StartCycle ==
    /\ At("main")
    /\ pc' = CASE exp.setup -> "crashed"
               [] exp.system \notin Systems -> "done"
               [] exp.system = "pringles_hardware" -> "crashed"
               [] exp.system = "speclog" -> "crashed"
               [] exp.system = "kafka" -> "kafka"
               [] OTHER -> "merge"
    /\ i' = 1
    /\ config' = exp.defaults
    /\ bound' = {} /\ started' = {}
    /\ UNCHANGED <<remoteVars, localVars, faultVars, campaign, o, e, sleep>>

\* After a cycle: EXPERIMENT_DELAY, then the next experiment.
NextExperiment ==
    /\ At("next")
    /\ IF o < Len(campaign)
         THEN o' = o + 1 /\ e' = 1 /\ pc' = "main" /\ sleep' = 2
         ELSE pc' = "done" /\ UNCHANGED <<o, e, sleep>>
    /\ UNCHANGED <<remoteVars, localVars, faultVars, campaign, i, config, bound, started>>

------------------------------------------------------------------------------
(* The loop that the pringles, baseline and scalog cycles share             *)

\* Overrides go into the dictionary that the next experiment starts from.
Merge(c, over) == [k \in DOMAIN c |-> IF k \in DOMAIN over THEN over[k] ELSE c[k]]

\* The servers of the shards that are filled, in order.
ShardCount ==
    LET all == (Len(Servers) + exp.shard_size - 1) \div exp.shard_size
    IN IF exp.num_shards \in 1 .. all THEN exp.num_shards ELSE all
ActiveServers(c) == IF c.use_shard THEN ShardCount * exp.shard_size ELSE 1

\* A last shard with servers missing is an IndexError outside the try block.
ShardsFit(c) == ActiveServers(c) <= Len(Servers)

\* Scalog's checks of its configuration are outside the try block as well.
FirstPhase(c) ==
    CASE exp.system = "pringles" -> IF ShardsFit(c) THEN "server" ELSE "crashed"
      [] exp.system = "baseline" -> "bench"
      [] exp.system = "scalog" ->
           IF exp.num_shards <= Len(Servers) THEN "nodes" ELSE "crashed"

MergeOverrides ==
    /\ At("merge")
    /\ LET c == Merge(config, inner[e])
       IN config' = c /\ pc' = FirstPhase(c)
    /\ intact' = TRUE
    /\ i' = 1 /\ started' = {}
    /\ UNCHANGED <<remoteVars, localVars, faults, campaign, o, e, bound, sleep>>

\* The end of an iteration, after its summary. (mutEndIterationPast: one too many.)
mutEndIterationPast ==
    IF e <= Len(inner) THEN e' = e + 1 /\ pc' = "merge"
                       ELSE pc' = "next" /\ UNCHANGED e
EndIteration ==
    IF e < Len(inner) THEN e' = e + 1 /\ pc' = "merge"
                      ELSE pc' = "next" /\ UNCHANGED e

Aggregate ==
    /\ At("aggregate")
    /\ IF AggregateCrashes(JsonName)
         THEN pc' = "crashed" /\ UNCHANGED <<localVars, e>>
         ELSE process_and_aggregate_results(Run, JsonName) /\ EndIteration
    /\ UNCHANGED <<remoteVars, faultVars, campaign, o, i, config, bound, started, sleep>>

\* Assign names, kill what runs under the program's name, copy the program: if
\* a copy fails the cycle goes to its finally block.
Prepare(l, prog, ip, names, ready, handler) ==
    /\ At(l)
    /\ bound' = bound \cup names
    /\ kill_process(prog, ip)
    /\ \/ Goto(ready) /\ UNCHANGED <<i, faultVars>>
       \/ Raise(handler)
    /\ UNCHANGED <<running, home, localVars, started, sleep>>

Launch(l, programs, delay) ==
    /\ At(l)
    /\ execute_remote_command(programs)
    /\ started' = started \cup {<<p.prog, p.ip>> : p \in programs}
    /\ sleep' = delay
    /\ UNCHANGED <<kills, home, localVars, bound>>

This(prog, ip, copy, life) == Program(prog, ip, Run, JsonName, copy, life)

------------------------------------------------------------------------------
(* The pringles cycle: storage servers, software switch, clients            *)

StartServer == Prepare("server", "server", Servers[i], {}, "launchServer", "finally")

\* The command is executed twice, with one configuration.
LaunchServer ==
    /\ Launch("launchServer",
              {This("server", Servers[i], k, final_duration("server")) : k \in 1 .. 2},
              IF i = ActiveServers(config) THEN 1 ELSE 0)
    /\ Each(ActiveServers(config), "server",
            IF config.use_hardware_switch THEN "client" ELSE "switch")

StartSwitch ==
    Prepare("switch", "switch", SwitchIp, {"switch_exec"}, "launchSwitch", "finally")

LaunchSwitch ==
    /\ Launch("launchSwitch", {This("switch", SwitchIp, 1, final_duration("switch"))}, 1)
    /\ Goto("client")
    /\ UNCHANGED i

StartClient ==
    Prepare("client", "client", Clients[i], {"client_exec"}, "launchClient", "finally")

LaunchClient ==
    /\ Launch("launchClient", {This("client", Clients[i], 1, final_duration("client"))}, 0)
    /\ Each(Len(Clients), "client", IF exp.system = "pringles" THEN "perf" ELSE "wait")

RunPerf ==
    /\ At("perf")
    /\ bound' = bound \cup {"client_exec", "switch_exec"}
    /\ Goto("wait")
    /\ UNCHANGED <<remoteVars, localVars, faultVars, i, started, sleep>>

\* proc.wait() returns when the client has ended; its results are copied then.
\* (mutClientEndedNow: the script does not wait; mutClientEndedAll: it waits for
\* the servers and the switch, too.)
mutClientEndedNow(r, ip) == TRUE
mutClientEndedAll(r, ip) == ~ \E p \in running : p.run = r
ClientEnded(r, ip) == ~ \E p \in running : p.prog = "client" /\ p.ip = ip /\ p.run = r

WaitClient ==
    /\ At("wait")
    /\ ClientEnded(Run, Clients[i])
    /\ bound' = bound \cup {"proc"}
    /\ copy_results_back(JsonName, Clients[i],
           IF exp.system = "pringles" THEN {LogFile("client", Clients[i], e)} ELSE {})
    /\ Each(Len(Clients), "wait", "finally")
    /\ UNCHANGED <<remoteVars, moved, kept, summaries, started, sleep>>

\* The finally block. An exception before the clients leaves client_exec
\* unassigned (in the first iteration): a NameError that main does not catch.
ServerLogs == {LogFile(x[1], x[2], e) : x \in {y \in started : y[1] # "client"}}
PerfLogs   == {LogFile("perf", ip, 0) : ip \in ClientIps \cup {SwitchIp}}

CollectLogs ==
    /\ At("finally")
    /\ exp.system = "pringles"
    /\ IF {"client_exec", "switch_exec"} \subseteq bound
         THEN copy_log_file_back(ServerLogs \cup PerfLogs) /\ Goto("aggregate")
         ELSE copy_log_file_back(ServerLogs) /\ Goto("crashed")
    /\ UNCHANGED <<remoteVars, raw, moved, kept, summaries, i, bound, started, sleep>>

------------------------------------------------------------------------------
(* The baseline cycle: a benchmark switch that serves until it is killed    *)

StartBench == Prepare("bench", "switch", SwitchIp, {}, "launchBench", "finally")

LaunchBench ==
    /\ Launch("launchBench", {This("switch", SwitchIp, 1, Forever)}, 0)
    /\ Goto("client")
    /\ UNCHANGED i

\* The message before the kill reads proc, which the wait loop assigns: without
\* it an exception is caught and the switch is not killed.
StopBench ==
    /\ At("finally")
    /\ exp.system = "baseline"
    /\ IF /\ "proc" \in bound
          /\ <<"switch", SwitchIp>> \in started
          /\ Hit(<<"switch", SwitchIp>>) # {}
         THEN kill_process("switch", SwitchIp)
         ELSE UNCHANGED kills
    /\ Goto("aggregate")
    /\ UNCHANGED <<running, home, localVars, faultVars, i, bound, started, sleep>>

------------------------------------------------------------------------------
(* The Scalog cycle: every node runs the program scalog                     *)

\* (mutScalogIps: the stop command forgets the discovery node.)
DataIps   == {Servers[k] : k \in 1 .. exp.num_shards}
mutScalogIps == DataIps \cup OrderIps \cup {Clients[1]}
ScalogIps == DataIps \cup OrderIps \cup {DiscoveryIp, Clients[1]}
Node(ip, role) == This("scalog", ip, role, Forever)

DistributeConfig ==
    /\ At("nodes")
    /\ \/ Goto("order") /\ UNCHANGED <<i, faultVars>>
       \/ Raise("finally")
    /\ UNCHANGED <<remoteVars, localVars, bound, started, sleep>>

\* Order nodes first; a node per shard on every data machine last.
StartOrder ==
    /\ Launch("order", {Node(ip, "order") : ip \in OrderIps}, 0)
    /\ Goto("discovery") /\ UNCHANGED i

StartDiscovery ==
    /\ Launch("discovery", {Node(DiscoveryIp, "discovery")}, 0)
    /\ Goto("data") /\ UNCHANGED i

StartData ==
    /\ Launch("data", {Node(ip, s) : ip \in DataIps, s \in 1 .. exp.num_shards}, 1)
    /\ Goto("perfClient") /\ UNCHANGED i

\* The benchmark is not waited for: its duration and fifteen seconds pass.
StartBenchmark ==
    /\ Launch("perfClient",
              {[This("client", Clients[1], "perf", Duration) EXCEPT !.prog = "scalog"]},
              Duration + 3)
    /\ Goto("collect") /\ UNCHANGED i

CollectScalog ==
    /\ At("collect")
    /\ copy_results_back(JsonName, Clients[1], {LogFile("scalog_client", Clients[1], e)})
    /\ Goto("finally")
    /\ UNCHANGED <<remoteVars, moved, kept, summaries, i, bound, started, sleep>>

StopScalog ==
    /\ At("finally")
    /\ exp.system = "scalog"
    /\ LogsArrive({LogFile("scalog", x[2], e) : x \in started})
    /\ kill_remote_process("scalog", ScalogIps)
    /\ Goto("aggregate")
    /\ UNCHANGED <<kills, home, raw, moved, kept, summaries, i, bound, started, sleep>>

------------------------------------------------------------------------------
(* The Kafka cycle                                                          *)

\* Without brokers in the configuration an exception that main does not catch.
CheckBrokers ==
    /\ At("kafka")
    /\ Goto(IF exp.brokers THEN "brokers" ELSE "crashed")
    /\ UNCHANGED <<remoteVars, localVars, faultVars, i, bound, started, sleep>>

\* The files of the brokers are copied; the call that would start the first one
\* lacks an argument, and the exception skips all that follows.
StartBrokers ==
    /\ At("brokers")
    /\ Goto("next") /\ (UNCHANGED faultVars \/ Fault)
    /\ UNCHANGED <<remoteVars, localVars, i, bound, started, sleep>>

------------------------------------------------------------------------------

scriptStep ==
    \/ StartCycle \/ NextExperiment \/ MergeOverrides \/ Aggregate
    \/ StartServer \/ LaunchServer \/ StartSwitch \/ LaunchSwitch
    \/ StartClient \/ LaunchClient \/ RunPerf \/ WaitClient \/ CollectLogs
    \/ StartBench \/ LaunchBench \/ StopBench
    \/ DistributeConfig \/ StartOrder \/ StartDiscovery \/ StartData
    \/ StartBenchmark \/ CollectScalog \/ StopScalog
    \/ CheckBrokers \/ StartBrokers

\* Time passes for programs and for the script's sleep.
Tick ==
    /\ sleep > 0 \/ \E p \in running : p.left > 0
    /\ TimePasses
    /\ sleep' = IF sleep > 0 THEN sleep - 1 ELSE 0
    /\ UNCHANGED <<localVars, campaign, pc, o, e, i, config, bound, started>>

machineStep ==
    /\ KillArrives \/ WriteResult \/ ProgramEnds
    /\ UNCHANGED <<localVars, scriptVars>>

scriptNext == scriptStep \/ Tick \/ machineStep
scriptSpec == scriptInit /\ [][scriptNext]_vars

\* ssh, scp and sleep return, programs end when their time is over.
FairScriptSpec ==
    scriptSpec /\ WF_vars(scriptStep) /\ WF_vars(Tick) /\ WF_vars(machineStep)

------------------------------------------------------------------------------
(* Properties                                                               *)

Runs == UNION {{a} \X DOMAIN campaign[a].inner : a \in DOMAIN campaign}
Before(q, r) == q[1] < r[1] \/ (q[1] = r[1] /\ q[2] < r[2])

\* The name that experiment r gets, overrides of earlier iterations included.
NameOf(r) ==
    LET x     == campaign[r[1]]
        named == {k \in 1 .. r[2] : "json_name" \in DOMAIN x.inner[k]}
        last  == CHOOSE k \in named : \A l \in named : l <= k
    IN Name(x.general, IF named = {} THEN x.defaults.json_name ELSE x.inner[last].json_name)

\* No earlier experiment has a name that starts with r's, or has an underscore
\* in its name, or shares its name with a third one.
Earlier(r) == {q \in Runs : Before(q, r)}
Fresh(q)   == ~LooksRaw(NameOf(q)) /\ \A p \in Earlier(q) : NameOf(p) # NameOf(q)
NameSafe(r) == \A q \in Earlier(r) : Fresh(q) /\ ~Matches(NameOf(r), NameOf(q))

\* The names that the files of the campaign mention.
JsonNames(x) ==
    {x.defaults.json_name} \cup
    {x.inner[k].json_name : k \in {l \in DOMAIN x.inner : "json_name" \in DOMAIN x.inner[l]}}

NamesOf(x) == {Name(x.general, j) : j \in JsonNames(x)}
Names      == UNION {NamesOf(campaign[a]) : a \in DOMAIN campaign}

FileType(ips, threads) == [run : Runs, name : Names, ip : ips, thread : threads]

\* The name that experiment r asks for: its own overrides in the file's defaults.
AskedName(r) ==
    LET x == campaign[r[1]]
    IN Name(x.general, Merge(x.defaults, x.inner[r[2]]).json_name)

\* Type invariant of the campaign: the script stands at an experiment and at a
\* machine that exist (it indexes its lists of machines without a check), and
\* programs and files come from experiments, under names of the campaign.
scriptTypeOK ==
    /\ o \in DOMAIN campaign
    /\ e \in DOMAIN inner
    /\ i \in Nat \ {0}
    /\ pc \in {"server", "launchServer"} => i \in DOMAIN Servers
    /\ pc \in {"client", "launchClient", "wait"} => i \in DOMAIN Clients
    /\ sleep \in Nat
    /\ home \subseteq FileType(ClientIps, Threads)
    /\ raw \subseteq FileType(ClientIps \cup {"summary"}, Threads \cup {0})
    /\ \A p \in running :
         /\ p.run \in Runs /\ p.name \in Names
         /\ p.left \in Forever .. Duration + 1 /\ p.todo \subseteq Threads
         /\ p.todo # {} => p.ip \in ClientIps

\* A summary counts only what its own experiment measured, also after failed
\* experiments, late clients and files left behind on the machines, as long as
\* the names allow it (copy_results_back, process_and_aggregate_results).
OwnResults ==
    \A s \in summaries : NameSafe(s.run) => \A f \in s.counted : f.run = s.run

\* If no copy failed and no program was lost, the summary counts a result of
\* every thread of every client: nothing is copied before it is complete.
Measuring(r) == IF campaign[r[1]].system = "scalog" THEN {Clients[1]} ELSE ClientIps

SummaryComplete ==
    \A s \in summaries :
        s.intact /\ NameSafe(s.run) =>
            \A ip \in Measuring(s.run), t \in Threads :
                \E f \in s.counted : f.run = s.run /\ f.ip = ip /\ f.thread = t

\* When an experiment without failures is summarised, none of its programs
\* that would run for ever is left alone: each is gone or about to be killed.
ProgramsStopped ==
    pc = "aggregate" /\ intact =>
        \A p \in running :
            p.run = Run /\ p.left = Forever => <<p.prog, p.ip>> \in kills

\* Summaries appear in the order of the campaign, at most one per experiment,
\* and one is lost only to a later experiment of its name.
SummariesInOrder ==
    [][/\ \A s \in summaries \ summaries' : s.name = JsonName /\ Before(s.run, Run)
       /\ \A s \in summaries' \ summaries :
             s.run = Run /\ \A q \in summaries : Before(q.run, s.run)]_vars

\* Whatever fails, the script comes to an end: it waits only for programs and
\* commands that end (main, proc.wait).
ScriptEnds == <>(pc \in {"done", "crashed"})

\* "Servers run longer than the client to ensure no early termination"
\* (generate_yaml_config): while a client of an experiment in which nothing
\* failed is measuring, its storage servers are running.
ServersOutliveClients ==
    intact /\ exp.system = "pringles" =>
        \A p \in running :
            p.prog = "client" /\ p.run = Run /\ p.left > 0 =>
                \E q \in running : q.prog = "server" /\ q.run = Run
=============================================================================
