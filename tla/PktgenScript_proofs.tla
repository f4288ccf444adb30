------------------------- MODULE PktgenScript_proofs -------------------------
(* Theorems about the two scripts together (PktgenScript): an operator runs  *)
(* experiment.py or pktgen.py. A campaign of experiment.py keeps the          *)
(* invariants of ExperimentScript_proofs; this module has those of pktgen.py: *)
(*   PgControl   where the script stands and what it indexes there            *)
(*   PgData      what programs, files and groups are about                    *)
(*   PgProgress  what a campaign without failures has measured and kept       *)
EXTENDS PktgenScript, ExperimentScript_proofs

PgServerLabels == {"pgServer", "pgLaunchServer", "pgTunnelServer"}
PgClientLabels == {"pgClient", "pgLaunchClient", "pgTunnelClient", "pgWait"}
\* The script works on experiment e, with the parameters of e.
PgWorking == PgServerLabels \cup PgClientLabels
               \cup {"pgSetup", "pgSwitch", "pgLaunchSwitch", "pgFinally"}
PgLabels  == PgWorking \cup {"pgMain", "pgMerge", "pgAggregate"}

PgPosition ==
    /\ campaign \in PktgenCampaigns
    /\ o = 1 /\ e \in DOMAIN inner
    /\ i \in Nat \ {0} /\ sleep \in Nat
    /\ pc \in PgLabels \cup {"done", "crashed"}
    /\ pc \in PgWorking => config = PgParameters(e)
    /\ pc = "pgAggregate" => e = Len(inner)
PgPlace ==
    /\ pc = "pgSetup" => i <= RingSize
    /\ pc \in PgServerLabels => i <= Len(Servers)
    /\ pc \in PgClientLabels => i <= Len(Clients)
    /\ pc \in {"pgSwitch", "pgLaunchSwitch"} => i = 1
    /\ pc \in {"pgTunnelServer", "pgTunnelClient"} => exp.tunnel
PgControl == PgPosition /\ PgPlace

PgData ==
    /\ Typed
    /\ \A p \in running : p.run \in Runs /\ p.name \in Names
    /\ home \subseteq FileType(ClientIps, Threads)
    /\ raw \subseteq FileType(ClientIps, Threads)
    /\ \A f, g \in home : SameName(f, g) => f = g
    /\ \A f, g \in raw : SameName(f, g) => f = g
    /\ \A g \in groups : g.counted \subseteq FileType(ClientIps, Threads)
    /\ summaries = {}

\* The result of thread t of machine ip in experiment k.
PgFile(k, ip, t) == ResultFile(<<1, k>>, PgName(k), ip, t)
PgMeasured(ip) ==
    \A t \in Threads :
        PgFile(e, ip, t) \in home \/ \E p \in running : p.ip = ip /\ t \in p.todo
PgKept(k, ip) ==
    \A t \in Threads : PgFile(k, ip, t) \in home /\ PgFile(k, ip, t) \in raw
\* No later experiment has the name of k.
PgLast(k) == \A m \in DOMAIN inner : m > k => PgName(m) # PgName(k)

\* Only clients of the experiment at work have results to write.
PgWriting ==
    \A p \in running : p.todo # {} =>
         /\ p.run = <<1, e>> /\ p.name = PgName(e) /\ p.prog = "client"
         /\ pc \in {"pgClient", "pgLaunchClient", "pgWait"}
\* Clients are started one after the other, then awaited in the same order.
PgClients ==
    pc \in {"pgClient", "pgLaunchClient"} =>
         \A k \in 1 .. i - 1 : PgMeasured(Clients[k])
PgWaits ==
    pc = "pgWait" =>
         /\ \A ip \in ClientIps : PgMeasured(ip)
         /\ \A k \in 1 .. i - 1 :
              /\ PgKept(e, Clients[k])
              /\ \A p \in running : p.ip = Clients[k] => p.todo = {}
PgCollected == pc \in {"pgFinally", "pgAggregate"} => \A ip \in ClientIps : PgKept(e, ip)
PgEarlier   == \A k \in 1 .. e - 1 : PgLast(k) => \A ip \in ClientIps : PgKept(k, ip)

PgProgress == PgWriting /\ PgClients /\ PgWaits /\ PgCollected /\ PgEarlier

\* Faults and kills that hit a program are remembered for the whole campaign.
PgInv ==
    /\ PgControl /\ PgData
    /\ intact /\ ~exp.tunnel => PgProgress
    /\ GroupsComplete

------------------------------------------------------------------------------
(* Control                                                                   *)

\* A campaign of pktgen.py is one experiment that the script can read.
LEMMA PgExperiment ==
    ASSUME PgPosition
    PROVE  /\ IsCampaign(campaign) /\ WellFormed(exp) /\ exp.system = "pktgen"
           /\ Len(inner) \in Nat \ {0} /\ DOMAIN inner = 1 .. Len(inner)
           /\ e \in 1 .. Len(inner) /\ Run = <<1, e>>
           /\ \A k \in 1 .. Len(inner) : <<1, k>> \in Runs
<1>1. IsCampaign(campaign) /\ exp.system = "pktgen"
  BY PktgenAssumption DEF PgPosition, exp
<1>2. DOMAIN campaign = 1 .. Len(campaign) /\ Len(campaign) \in Nat \ {0}
  BY <1>1, ListFacts DEF IsCampaign
<1>3. WellFormed(exp)
  BY <1>1, <1>2 DEF IsCampaign, exp, PgPosition
<1>4. DOMAIN inner = 1 .. Len(inner) /\ Len(inner) \in Nat \ {0}
  BY <1>3, ListFacts DEF WellFormed, inner
<1>5. \A k \in 1 .. Len(inner) : <<1, k>> \in Runs
  BY <1>2, <1>4 DEF Runs, inner, exp, PgPosition
<1>6. QED
  BY <1>1, <1>3, <1>4, <1>5 DEF PgPosition, Run

\* Names are those of the campaign, which does not change.
LEMMA PgSame ==
    ASSUME UNCHANGED <<campaign, o>>
    PROVE  /\ exp' = exp /\ inner' = inner
           /\ \A k : PgParameters(k)' = PgParameters(k) /\ PgName(k)' = PgName(k)
           /\ \A k : PgLast(k)' <=> PgLast(k)
           /\ \A k, ip, t : PgFile(k, ip, t)' = PgFile(k, ip, t)
<1>1. exp' = exp /\ inner' = inner
  BY DEF exp, inner
<1>2. \A k : PgParameters(k)' = PgParameters(k)
  BY <1>1 DEF PgParameters
<1>3. \A k : PgName(k)' = PgName(k)
  BY <1>1, <1>2 DEF PgName
<1>4. \A k : PgLast(k)' <=> PgLast(k)
  BY <1>1, <1>3 DEF PgLast
<1>5. \A k, ip, t : PgFile(k, ip, t)' = PgFile(k, ip, t)
  BY <1>3 DEF PgFile
<1>6. QED
  BY <1>1, <1>2, <1>3, <1>4, <1>5

\* A step that stays with the experiment and goes to another label or machine.
LEMMA PgMove ==
    ASSUME PgControl, UNCHANGED <<campaign, o, e, config>>, i' \in Nat \ {0}, sleep' \in Nat,
           pc \in PgWorking, pc' \in PgWorking \cup {"crashed"}, PgPlace'
    PROVE  PgControl'
<1>1. exp' = exp /\ inner' = inner /\ PgParameters(e)' = PgParameters(e)
  <2>1. exp' = exp /\ inner' = inner
    BY DEF exp, inner
  <2>2. QED
    BY <2>1 DEF PgParameters
<1>2. "pgAggregate" \notin PgWorking \cup {"crashed"}
  BY DEF PgWorking, PgServerLabels, PgClientLabels
<1>3. PgPosition'
  BY <1>1, <1>2 DEF PgControl, PgPosition, PgLabels
<1>4. QED
  BY <1>3 DEF PgControl

\* The switches, the servers and the software switch.
LEMMA PgPlaceServer ==
    ASSUME PgControl,
           PgSetupSwitches \/ PgStartServer \/ PgLaunchServer \/ PgTunnelServer \/
           PgStartSwitch \/ PgLaunchSwitch
    PROVE  PgControl'
<1> USE DEF At, Goto, PgPlace, PgServerLabels, PgClientLabels
<1>1. PgPlace /\ i \in Nat \ {0} /\ sleep \in Nat
  BY DEF PgControl, PgPosition
<1>2. Len(Clients) \in Nat \ {0} /\ Len(Servers) \in Nat \ {0}
  BY RemoteAssumption, ListFacts
<1>3. CASE PgSetupSwitches
  <2>1. UNCHANGED <<campaign, o, e, config>> /\ sleep' \in {5, sleep}
    BY <1>3 DEF PgSetupSwitches, Each
  <2>2. exp' = exp
    BY <2>1 DEF exp
  <2>3. /\ pc = "pgSetup" /\ pc' \in {"pgSetup", "pgServer", "crashed"}
        /\ pc' = "pgSetup" => i' = i + 1 /\ i < RingSize
        /\ pc' = "pgServer" => i' = 1
        /\ i' \in {i, i + 1, 1}
    BY <1>3 DEF PgSetupSwitches, Each, PgCycle, AfterServers
  <2>4. i' \in Nat \ {0} /\ sleep' \in Nat /\ PgPlace'
    BY PktgenAssumption, <1>1, <1>2, <2>1, <2>2, <2>3 DEF ServersDelay
  <2>5. QED
    BY <2>1, <2>3, <2>4, PgMove DEF PgWorking
<1>4. CASE PgStartServer
  <2>1. UNCHANGED <<campaign, o, e, config, sleep>>
    BY <1>4 DEF PgStartServer, PgPrepare, Prepare, Raise
  <2>2. exp' = exp
    BY <2>1 DEF exp
  <2>3. /\ pc = "pgServer" /\ pc' \in {"pgLaunchServer", "pgTunnelServer", "pgFinally"}
        /\ pc' = "pgTunnelServer" => exp.tunnel
        /\ i' = IF pc' = "pgFinally" THEN 1 ELSE i
    BY <1>4 DEF PgStartServer, PgPrepare, Prepare, Raise, PgCycle, AfterServers
  <2>4. i' \in Nat \ {0} /\ sleep' \in Nat /\ PgPlace'
    BY PktgenAssumption, <1>1, <1>2, <2>1, <2>2, <2>3 DEF ServersDelay
  <2>5. QED
    BY <2>1, <2>3, <2>4, PgMove DEF PgWorking
<1>5. CASE PgLaunchServer
  <2>1. UNCHANGED <<campaign, o, e, config>> /\ sleep' = ServersDelay
    BY <1>5 DEF PgLaunchServer, PgLaunch, Launch, Each
  <2>2. exp' = exp
    BY <2>1 DEF exp
  <2>3. /\ pc = "pgLaunchServer" /\ pc' \in {"pgServer", "pgClient", "pgSwitch"}
        /\ pc' = "pgServer" => i < Len(Servers) /\ i' = i + 1
        /\ pc' # "pgServer" => i' = 1
    BY <1>5 DEF PgLaunchServer, PgLaunch, Launch, Each, PgCycle, AfterServers
  <2>4. i' \in Nat \ {0} /\ sleep' \in Nat /\ PgPlace'
    BY PktgenAssumption, <1>1, <1>2, <2>1, <2>2, <2>3 DEF ServersDelay
  <2>5. QED
    BY <2>1, <2>3, <2>4, PgMove DEF PgWorking
<1>6. CASE PgTunnelServer
  <2>1. UNCHANGED <<campaign, o, e, config>> /\ sleep' \in {sleep, RingSize + ServersDelay}
    BY <1>6 DEF PgTunnelServer, PgTunnel, Each, Raise
  <2>2. exp' = exp
    BY <2>1 DEF exp
  <2>3. /\ pc = "pgTunnelServer" /\ pc' \in {"pgServer", "pgClient", "pgSwitch", "pgFinally"}
        /\ pc' = "pgServer" => i < Len(Servers) /\ i' = i + 1
        /\ pc' # "pgServer" => i' = 1
    BY <1>6 DEF PgTunnelServer, PgTunnel, Each, Raise, PgCycle, AfterServers
  <2>4. i' \in Nat \ {0} /\ sleep' \in Nat /\ PgPlace'
    BY PktgenAssumption, <1>1, <1>2, <2>1, <2>2, <2>3 DEF ServersDelay
  <2>5. QED
    BY <2>1, <2>3, <2>4, PgMove DEF PgWorking
<1>7. CASE PgStartSwitch
  <2>1. UNCHANGED <<campaign, o, e, config, sleep>>
    BY <1>7 DEF PgStartSwitch, PgPrepare, Prepare, Raise
  <2>2. exp' = exp
    BY <2>1 DEF exp
  <2>3. pc = "pgSwitch" /\ pc' \in {"pgLaunchSwitch", "pgFinally"} /\ i' \in {i, 1}
    BY <1>7 DEF PgStartSwitch, PgPrepare, Prepare, Raise, PgCycle, AfterServers
  <2>4. i' \in Nat \ {0} /\ sleep' \in Nat /\ PgPlace'
    BY PktgenAssumption, <1>1, <1>2, <2>1, <2>2, <2>3 DEF ServersDelay
  <2>5. QED
    BY <2>1, <2>3, <2>4, PgMove DEF PgWorking
<1>8. CASE PgLaunchSwitch
  <2>1. UNCHANGED <<campaign, o, e, config, i>> /\ sleep' = 1
    BY <1>8 DEF PgLaunchSwitch, PgLaunch, Launch
  <2>2. exp' = exp
    BY <2>1 DEF exp
  <2>3. pc = "pgLaunchSwitch" /\ pc' = "pgClient"
    BY <1>8 DEF PgLaunchSwitch, PgLaunch, Launch, PgCycle, AfterServers
  <2>4. i' \in Nat \ {0} /\ sleep' \in Nat /\ PgPlace'
    BY PktgenAssumption, <1>1, <1>2, <2>1, <2>2, <2>3 DEF ServersDelay
  <2>5. QED
    BY <2>1, <2>3, <2>4, PgMove DEF PgWorking
<1>9. QED
  BY <1>3, <1>4, <1>5, <1>6, <1>7, <1>8

\* The clients.
LEMMA PgPlaceClient ==
    ASSUME PgControl,
           PgStartClient \/ PgLaunchClient \/ PgTunnelClient \/ PgWaitClient
    PROVE  PgControl'
<1> USE DEF At, Goto, PgPlace, PgServerLabels, PgClientLabels
<1>1. PgPlace /\ i \in Nat \ {0} /\ sleep \in Nat
  BY DEF PgControl, PgPosition
<1>2. Len(Clients) \in Nat \ {0} /\ Len(Servers) \in Nat \ {0}
  BY RemoteAssumption, ListFacts
<1>3. CASE PgStartClient
  <2>1. UNCHANGED <<campaign, o, e, config, sleep>>
    BY <1>3 DEF PgStartClient, PgPrepare, Prepare, Raise
  <2>2. exp' = exp
    BY <2>1 DEF exp
  <2>3. /\ pc = "pgClient" /\ pc' \in {"pgLaunchClient", "pgTunnelClient", "pgFinally"}
        /\ pc' = "pgTunnelClient" => exp.tunnel
        /\ i' = IF pc' = "pgFinally" THEN 1 ELSE i
    BY <1>3 DEF PgStartClient, PgPrepare, Prepare, Raise, PgCycle, AfterServers
  <2>4. i' \in Nat \ {0} /\ sleep' \in Nat /\ PgPlace'
    BY PktgenAssumption, <1>1, <1>2, <2>1, <2>2, <2>3 DEF ServersDelay
  <2>5. QED
    BY <2>1, <2>3, <2>4, PgMove DEF PgWorking
<1>4. CASE PgLaunchClient
  <2>1. UNCHANGED <<campaign, o, e, config>> /\ sleep' = 0
    BY <1>4 DEF PgLaunchClient, PgLaunch, Launch, Each
  <2>2. exp' = exp
    BY <2>1 DEF exp
  <2>3. /\ pc = "pgLaunchClient" /\ pc' \in {"pgClient", "pgWait"}
        /\ pc' = "pgClient" => i < Len(Clients) /\ i' = i + 1
        /\ pc' # "pgClient" => i' = 1
    BY <1>4 DEF PgLaunchClient, PgLaunch, Launch, Each, PgCycle, AfterServers
  <2>4. i' \in Nat \ {0} /\ sleep' \in Nat /\ PgPlace'
    BY PktgenAssumption, <1>1, <1>2, <2>1, <2>2, <2>3 DEF ServersDelay
  <2>5. QED
    BY <2>1, <2>3, <2>4, PgMove DEF PgWorking
<1>5. CASE PgTunnelClient
  <2>1. UNCHANGED <<campaign, o, e, config>> /\ sleep' \in {sleep, RingSize + 0}
    BY <1>5 DEF PgTunnelClient, PgTunnel, Each, Raise
  <2>2. exp' = exp
    BY <2>1 DEF exp
  <2>3. /\ pc = "pgTunnelClient" /\ pc' \in {"pgClient", "pgFinally"}
        /\ pc' = "pgClient" => i < Len(Clients) /\ i' = i + 1
        /\ pc' # "pgClient" => i' = 1
    BY <1>5 DEF PgTunnelClient, PgTunnel, Each, Raise, PgCycle, AfterServers
  <2>4. i' \in Nat \ {0} /\ sleep' \in Nat /\ PgPlace'
    BY PktgenAssumption, <1>1, <1>2, <2>1, <2>2, <2>3 DEF ServersDelay
  <2>5. QED
    BY <2>1, <2>3, <2>4, PgMove DEF PgWorking
<1>6. CASE PgWaitClient
  <2>1. UNCHANGED <<campaign, o, e, config, sleep>>
    BY <1>6 DEF PgWaitClient, Each
  <2>2. exp' = exp
    BY <2>1 DEF exp
  <2>3. /\ pc = "pgWait" /\ pc' \in {"pgWait", "pgFinally"}
        /\ pc' = "pgWait" => i < Len(Clients) /\ i' = i + 1
        /\ pc' # "pgWait" => i' = 1
    BY <1>6 DEF PgWaitClient, Each, PgCycle, AfterServers
  <2>4. i' \in Nat \ {0} /\ sleep' \in Nat /\ PgPlace'
    BY PktgenAssumption, <1>1, <1>2, <2>1, <2>2, <2>3 DEF ServersDelay
  <2>5. QED
    BY <2>1, <2>3, <2>4, PgMove DEF PgWorking
<1>7. QED
  BY <1>3, <1>4, <1>5, <1>6

\* Between two experiments, and before the first and after the last one.
LEMMA PgPlaceLoop ==
    ASSUME PgControl, PgStart \/ PgMerge \/ PgFinally \/ PgAggregate
    PROVE  PgControl'
<1> USE DEF At, Goto, PgLabels, PgWorking, PgServerLabels, PgClientLabels
<1>1. /\ i \in Nat \ {0} /\ sleep \in Nat /\ campaign \in PktgenCampaigns /\ o = 1
      /\ DOMAIN inner = 1 .. Len(inner) /\ Len(inner) \in Nat \ {0} /\ e \in 1 .. Len(inner)
  BY PgExperiment DEF PgControl, PgPosition
<1>2. 1 <= RingSize /\ 1 <= Len(Servers)
  <2>1. Len(Servers) \in Nat \ {0}
    BY RemoteAssumption, ListFacts
  <2>2. QED
    BY <2>1, PktgenAssumption
<1>3. ASSUME UNCHANGED <<campaign, o>>
      PROVE  exp' = exp /\ inner' = inner /\ \A k : PgParameters(k)' = PgParameters(k)
  BY <1>3, PgSame
<1>4. CASE PgStart
  <2>1. /\ UNCHANGED <<campaign, o, e, config, i, sleep>>
        /\ pc' \in {"pgMerge", "crashed"}
    BY <1>4 DEF PgStart
  <2>2. PgPosition'
    BY <1>1, <1>3, <2>1 DEF PgPosition
  <2>3. PgPlace'
    BY <2>1 DEF PgPlace
  <2>4. QED
    BY <2>2, <2>3 DEF PgControl
<1>5. CASE PgMerge
  <2>1. /\ UNCHANGED <<campaign, o, e, sleep>> /\ i' = 1
        /\ pc' \in {"pgSetup", "pgServer", "crashed"}
    BY <1>5 DEF PgMerge, PgCycle
  <2>2. inner' = inner /\ config' = PgParameters(e)'
    <3>1. exp' = exp /\ inner' = inner
      BY <2>1, <1>3
    <3>2. PgParameters(e)' = PgParameters(e)
      BY <2>1, <3>1 DEF PgParameters
    <3>3. config' = PgParameters(e)
      BY <1>5 DEF PgMerge
    <3>4. QED
      BY <3>1, <3>2, <3>3
  <2>3. PgPosition'
    <3>1. /\ e' \in DOMAIN inner' /\ i' \in Nat \ {0}
          /\ pc' \in PgLabels \cup {"done", "crashed"} /\ pc' # "pgAggregate"
      BY <1>1, <2>1, <2>2
    <3>2. UNCHANGED <<campaign, o, sleep>> /\ config' = PgParameters(e)'
      BY <2>1, <2>2
    <3>3. QED
      BY <1>1, <3>1, <3>2 DEF PgPosition
  <2>4. PgPlace'
    BY <1>2, <2>1 DEF PgPlace
  <2>5. QED
    BY <2>3, <2>4 DEF PgControl
<1>6. CASE PgFinally
  <2>1. /\ UNCHANGED <<campaign, o, config>>
        /\ sleep' = 3 /\ i' = 1
        /\ \/ e < Len(inner) /\ e' = e + 1 /\ pc' = "pgMerge"
           \/ ~(e < Len(inner)) /\ e' = e /\ pc' = "pgAggregate"
    BY <1>6 DEF PgFinally
  <2>2. PgPosition'
    BY <1>1, <1>3, <2>1 DEF PgPosition
  <2>3. PgPlace'
    BY <2>1 DEF PgPlace
  <2>4. QED
    BY <2>2, <2>3 DEF PgControl
<1>7. CASE PgAggregate
  <2>1. UNCHANGED <<campaign, o, e, config, i, sleep>> /\ pc' = "done"
    BY <1>7 DEF PgAggregate
  <2>2. PgPosition'
    BY <1>1, <1>3, <2>1 DEF PgPosition
  <2>3. PgPlace'
    BY <2>1 DEF PgPlace
  <2>4. QED
    BY <2>2, <2>3 DEF PgControl
<1>8. QED
  BY <1>4, <1>5, <1>6, <1>7

\* experiment.py takes no step in a campaign of pktgen.py, and the reverse.
LEMMA ScriptLabels ==
    ASSUME scriptStep
    PROVE  pc \in Working \cup Before1 \cup {"next"}
BY DEF scriptStep, StartCycle, NextExperiment, MergeOverrides, Aggregate, StartServer,
       LaunchServer, StartSwitch, LaunchSwitch, StartClient, LaunchClient, RunPerf, WaitClient,
       CollectLogs, StartBench, LaunchBench, StopBench, DistributeConfig, StartOrder,
       StartDiscovery, StartData, StartBenchmark, CollectScalog, StopScalog, CheckBrokers,
       StartBrokers, Prepare, Launch, At, Working, Before1, PringlesLabels, BaselineLabels,
       ClientLabels, ScalogLabels

\* The labels at which pktgen.py takes a step.
LEMMA PktgenLabels ==
    ASSUME pktgenStep
    PROVE  pc \in PgLabels
BY DEF pktgenStep, PgStart, PgMerge, PgSetupSwitches, PgStartServer, PgLaunchServer,
       PgTunnelServer, PgStartSwitch, PgLaunchSwitch, PgStartClient, PgLaunchClient,
       PgTunnelClient, PgWaitClient, PgFinally, PgAggregate, PgPrepare, PgLaunch, PgTunnel,
       Prepare, Launch, At, PgLabels, PgWorking, PgServerLabels, PgClientLabels

\* The two scripts have no label in common.
LEMMA LabelsDisjoint == PgLabels \cap Labels = {}
BY DEF PgLabels, PgWorking, PgServerLabels, PgClientLabels, Labels, Working, Before1, After1,
       PringlesLabels, BaselineLabels, ClientLabels, ScalogLabels

\* The script stays where it is.
PgPause ==
    /\ Tick \/ machineStep \/ UNCHANGED vars
    /\ Machines
    /\ UNCHANGED <<i, groups>> /\ sleep' \in Nat

\* The steps in a campaign of pktgen.py.
LEMMA PgSteps ==
    ASSUME PgControl, PgData, [campaignNext]_pktgenVars
    PROVE  pktgenStep \/ PgPause
<1>1. Typed /\ sleep \in Nat
  BY DEF PgControl, PgPosition, PgData
<1>2. ~scriptStep
  <2>1. pc \notin Working \cup Before1 \cup {"next"}
    BY LabelsDisjoint DEF PgControl, PgPosition, Labels, After1, Working, Before1,
       PringlesLabels, BaselineLabels, ClientLabels, ScalogLabels
  <2>2. QED
    BY <2>1, ScriptLabels
<1>3. CASE Tick /\ UNCHANGED groups
  <2>1. i' = i /\ sleep' \in Nat
    BY <1>1, <1>3 DEF Tick
  <2>2. QED
    BY <1>1, <1>3, <2>1, MachinesStep DEF PgPause
<1>4. CASE machineStep /\ UNCHANGED groups
  <2>1. i' = i /\ sleep' = sleep
    BY <1>4 DEF machineStep, scriptVars
  <2>2. QED
    BY <1>1, <1>4, <2>1, MachinesStep DEF PgPause
<1>5. CASE UNCHANGED pktgenVars
  <2>1. UNCHANGED vars /\ groups' = groups
    BY <1>5 DEF pktgenVars
  <2>2. i' = i /\ sleep' = sleep
    BY <2>1 DEF vars, scriptVars
  <2>3. QED
    BY <1>1, <2>1, <2>2, StutterStep DEF PgPause
<1>6. QED
  BY <1>2, <1>3, <1>4, <1>5 DEF campaignNext, scriptNext

\* Every step leaves pktgen.py at a machine that exists.
LEMMA PgControlStep ==
    ASSUME PgControl, pktgenStep \/ PgPause
    PROVE  PgControl'
<1>1. CASE pktgenStep
  BY <1>1, PgPlaceServer, PgPlaceClient, PgPlaceLoop DEF pktgenStep
<1>2. CASE PgPause
  <2>1. UNCHANGED <<campaign, pc, o, e, config, i>>
    BY <1>2 DEF PgPause, Machines
  <2>2. exp' = exp /\ inner' = inner
    BY <2>1 DEF exp, inner
  <2>3. PgParameters(e)' = PgParameters(e)
    BY <2>1, <2>2 DEF PgParameters
  <2>4. PgPosition' /\ PgPlace'
    BY <1>2, <2>1, <2>2, <2>3 DEF PgPause, PgControl, PgPosition, PgPlace
  <2>5. QED
    BY <2>4 DEF PgControl
<1>3. QED
  BY <1>1, <1>2

\* It starts with the first experiment of its file.
LEMMA PgControlInit ==
    ASSUME pktgenInit
    PROVE  PgControl
<1>1. /\ campaign \in PktgenCampaigns /\ pc = "pgMain" /\ o = 1 /\ e = 1 /\ i = 1 /\ sleep = 0
  BY DEF pktgenInit
<1>2. IsCampaign(campaign)
  BY <1>1, PktgenAssumption
<1>3. 1 \in DOMAIN campaign
  BY <1>2, ListFacts DEF IsCampaign
<1>4. WellFormed(exp)
  BY <1>1, <1>2, <1>3 DEF IsCampaign, exp
<1>5. 1 \in DOMAIN inner
  BY <1>4, ListFacts DEF WellFormed, inner
<1>6. PgPosition /\ PgPlace
  BY <1>1, <1>5 DEF PgPosition, PgPlace, PgLabels, PgWorking, PgServerLabels, PgClientLabels
<1>7. QED
  BY <1>6 DEF PgControl

------------------------------------------------------------------------------
(* Programs and files                                                        *)

\* The names of the campaign's experiments, and the one at work.
LEMMA PgNaming ==
    ASSUME PgPosition
    PROVE  /\ \A k \in 1 .. Len(inner) : PgName(k) \in Names
           /\ pc \in PgWorking => JsonName = PgName(e)
<1>1. /\ WellFormed(exp) /\ IsCampaign(campaign)
      /\ DOMAIN inner = 1 .. Len(inner)
  BY PgExperiment
<1>2. 1 \in DOMAIN campaign /\ exp = campaign[1]
  BY <1>1, ListFacts DEF IsCampaign, exp, PgPosition
<1>3. ASSUME NEW k \in 1 .. Len(inner)
      PROVE  PgParameters(k).json_name \in JsonNames(exp)
  <2>1. "json_name" \in DOMAIN exp.defaults
    BY <1>1 DEF WellFormed
  <2>2. exp.defaults.json_name \in JsonNames(exp)
    BY DEF JsonNames
  <2>3. "json_name" \in DOMAIN inner[k] => inner[k].json_name \in JsonNames(exp)
    BY <1>1 DEF JsonNames, inner
  <2>4. Merge(exp.defaults, inner[k]).json_name \in JsonNames(exp)
    BY <2>1, <2>2, <2>3 DEF Merge
  <2>5. QED
    BY <2>2, <2>4 DEF PgParameters
<1>4. \A k \in 1 .. Len(inner) : PgName(k) \in NamesOf(exp)
  BY <1>3 DEF PgName, NamesOf
<1>5. NamesOf(exp) \subseteq Names
  BY <1>2 DEF Names
<1>6. pc \in PgWorking => JsonName = PgName(e)
  BY DEF PgPosition, JsonName, PgName
<1>7. QED
  BY <1>4, <1>5, <1>6

\* What a step of pktgen.py does to programs and files.
PgWork ==
    /\ UNCHANGED <<home, kept, summaries, campaign, o>>
    /\ \A p \in running' : p \in running \/ (pc \in PgWorking /\ Own(p))
    /\ raw' = raw \/ \E ip \in ClientIps : ResultsArrive(JsonName, ip)
    /\ intact' => intact
    /\ groups' = groups \/ PgAggregate

\* Programs are started with the name of the experiment at work.
LEMMA PgLaunchesWork ==
    ASSUME PgControl, PgLaunchServer \/ PgLaunchSwitch \/ PgLaunchClient
    PROVE  PgWork
<1> USE Lifetimes DEF PgWorking, PgServerLabels, PgClientLabels
<1>1. ASSUME NEW programs, execute_remote_command(programs), \A p \in programs : Own(p)
      PROVE  (\A p \in running' : p \in running \/ Own(p)) /\ (intact' => intact)
  BY <1>1 DEF execute_remote_command, Fault, faultVars
<1>2. CASE PgLaunchServer
  <2>1. /\ UNCHANGED <<home, raw, kept, summaries, campaign, o, groups>>
        /\ pc \in PgWorking
    BY <1>2 DEF PgLaunchServer, PgLaunch, Launch, Each, Goto, At, localVars
  <2>2. \A p \in {PgProgram("server", Servers[i], k) : k \in 1 .. 2} : Own(p)
    BY Started DEF PgProgram
  <2>3. execute_remote_command({PgProgram("server", Servers[i], k) : k \in 1 .. 2})
    BY <1>2 DEF PgLaunchServer, PgLaunch, Launch
  <2>4. (\A p \in running' : p \in running \/ Own(p)) /\ (intact' => intact)
    BY <1>1, <2>2, <2>3
  <2>5. QED
    BY <2>1, <2>4 DEF PgWork
<1>3. CASE PgLaunchSwitch
  <2>1. /\ UNCHANGED <<home, raw, kept, summaries, campaign, o, groups>>
        /\ pc \in PgWorking
    BY <1>3 DEF PgLaunchSwitch, PgLaunch, Launch, Goto, At, localVars
  <2>2. \A p \in {PgProgram("switch", SwitchIp, 1)} : Own(p)
    BY Started DEF PgProgram
  <2>3. execute_remote_command({PgProgram("switch", SwitchIp, 1)})
    BY <1>3 DEF PgLaunchSwitch, PgLaunch, Launch
  <2>4. (\A p \in running' : p \in running \/ Own(p)) /\ (intact' => intact)
    BY <1>1, <2>2, <2>3
  <2>5. QED
    BY <2>1, <2>4 DEF PgWork
<1>4. CASE PgLaunchClient
  <2>1. /\ UNCHANGED <<home, raw, kept, summaries, campaign, o, groups>>
        /\ pc = "pgLaunchClient"
    BY <1>4 DEF PgLaunchClient, PgLaunch, Launch, Each, Goto, At, localVars
  <2>2. Clients[i] \in ClientIps
    <3>1. i \in Nat \ {0} /\ i <= Len(Clients)
      BY <2>1 DEF PgControl, PgPosition, PgPlace
    <3>2. QED
      BY <3>1, RemoteAssumption, ListFacts DEF ClientIps
  <2>3. \A p \in {PgProgram("client", Clients[i], 1)} : Own(p)
    BY <2>2, Started DEF PgProgram
  <2>4. execute_remote_command({PgProgram("client", Clients[i], 1)})
    BY <1>4 DEF PgLaunchClient, PgLaunch, Launch
  <2>5. (\A p \in running' : p \in running \/ Own(p)) /\ (intact' => intact)
    BY <1>1, <2>3, <2>4
  <2>6. QED
    BY <2>1, <2>5 DEF PgWork
<1>5. QED
  BY <1>2, <1>3, <1>4

\* The other steps start no program.
LEMMA PgWorks ==
    ASSUME PgControl, pktgenStep
    PROVE  PgWork
<1>1. CASE PgLaunchServer \/ PgLaunchSwitch \/ PgLaunchClient
  BY <1>1, PgLaunchesWork
<1>2. CASE PgStart \/ PgMerge \/ PgSetupSwitches \/ PgTunnelServer \/ PgTunnelClient
  BY <1>2 DEF PgStart, PgMerge, PgSetupSwitches, PgTunnelServer, PgTunnelClient, PgTunnel,
              Each, Raise, Fault, Goto, remoteVars, localVars, faultVars, PgWork
<1>3. CASE PgStartServer \/ PgStartSwitch \/ PgStartClient
  BY <1>3 DEF PgStartServer, PgStartSwitch, PgStartClient, PgPrepare, Prepare,
              Raise, Fault, Goto, localVars, faultVars, PgWork
<1>4. CASE PgFinally
  BY <1>4 DEF PgFinally, copy_log_file_back, Fault, remoteVars, faultVars, PgWork
<1>5. CASE PgAggregate
  BY <1>5 DEF PgAggregate, Goto, remoteVars, localVars, faultVars, PgWork
<1>6. CASE PgWaitClient
  <2>1. UNCHANGED <<running, home, kept, summaries, groups, campaign, o>> /\ pc = "pgWait"
    BY <1>6 DEF PgWaitClient, Each, Goto, At, remoteVars
  <2>2. Clients[i] \in ClientIps
    <3>1. i \in Nat \ {0} /\ i <= Len(Clients)
      BY <2>1 DEF PgControl, PgPosition, PgPlace, PgClientLabels
    <3>2. QED
      BY <3>1, RemoteAssumption, ListFacts DEF ClientIps
  <2>3. /\ raw' = raw \/ ResultsArrive(JsonName, Clients[i])
        /\ intact' => intact
    BY <1>6 DEF PgWaitClient, PgCollect, copy_results_back, copy_log_file_back, Fault, faultVars
  <2>4. QED
    BY <2>1, <2>2, <2>3 DEF PgWork
<1>7. QED
  BY <1>1, <1>2, <1>3, <1>4, <1>5, <1>6 DEF pktgenStep

\* Both kinds of steps leave programs and files of the campaign.
LEMMA PgDataStep ==
    ASSUME PgControl, PgData, PgWork \/ PgPause
    PROVE  PgData'
<1> DEFINE F == FileType(ClientIps, Threads)
<1>1. UNCHANGED <<campaign, o>> /\ summaries' = {}
  BY DEF PgWork, PgPause, Machines, PgData
<1>2. Runs' = Runs /\ Names' = Names /\ F' = F
  BY <1>1, SameCampaign
<1>3. /\ Typed /\ home \subseteq F /\ raw \subseteq F
      /\ \A p \in running : p.run \in Runs /\ p.name \in Names
      /\ \A f, g \in home : SameName(f, g) => f = g
      /\ \A f, g \in raw : SameName(f, g) => f = g
      /\ \A g \in groups : g.counted \subseteq F
  BY DEF PgData
<1>4. CASE PgWork
  <2>1. pc \in PgWorking => Run \in Runs /\ JsonName \in Names
    BY PgExperiment, PgNaming DEF PgControl
  <2>2. \A p \in running' : ProgramType(p) /\ p.run \in Runs /\ p.name \in Names
    BY <1>3, <1>4, <2>1 DEF PgWork, Own, Typed
  <2>3. home' = home
    BY <1>4 DEF PgWork
  <2>4. raw' \subseteq F
    BY <1>3, <1>4 DEF PgWork, ResultsArrive, Copied
  <2>7. \A f, g \in raw' : SameName(f, g) => f = g
    <3>1. ASSUME NEW ip, ResultsArrive(JsonName, ip)
          PROVE  \A f, g \in raw' : SameName(f, g) => f = g
      <4>1. Copied(JsonName, ip) \subseteq home
        BY DEF Copied
      <4> QED
        BY <1>3, <3>1, <4>1 DEF ResultsArrive, SameName
    <3> QED
      BY <1>3, <1>4, <3>1 DEF PgWork
  <2>5. \A g \in groups' : g.counted \subseteq F
    BY <1>3, <1>4 DEF PgWork, PgAggregate
  <2>6. QED
    BY <1>1, <1>2, <1>3, <2>2, <2>3, <2>4, <2>5, <2>7 DEF PgData, Typed
<1>5. CASE PgPause
  <2>1. UNCHANGED <<raw, groups>>
    BY <1>5 DEF PgPause, Machines
  <2>2. \A p \in running' : ProgramType(p) /\ p.run \in Runs /\ p.name \in Names
    <3>1. SUFFICES ASSUME NEW p \in running'
                   PROVE  ProgramType(p) /\ p.run \in Runs /\ p.name \in Names
      OBVIOUS
    <3>2. PICK q \in running : Later(p, q)
      BY <1>5 DEF PgPause, Machines
    <3>3. ProgramType(q)
      BY <1>3 DEF Typed
    <3>4. ProgramType(p)
      BY <3>2, <3>3, LaterType
    <3>5. QED
      BY <1>3, <3>2, <3>4 DEF Later
  <2>3. home' \subseteq F /\ \A f, g \in home' : SameName(f, g) => f = g
    <3>1. CASE home' = home
      BY <1>3, <3>1
    <3>2. CASE home' # home
      <4>1. PICK p \in running : \E t \in p.todo :
                home' = Overwrite(home, ResultFile(p.run, p.name, p.ip, t))
        BY <1>5, <3>2 DEF PgPause, Machines
      <4>2. PICK t \in p.todo : home' = Overwrite(home, ResultFile(p.run, p.name, p.ip, t))
        BY <4>1
      <4>3. ResultFile(p.run, p.name, p.ip, t) \in F
        BY <1>3 DEF Typed, ProgramType, ResultFile, FileType
      <4>4. QED
        BY <1>3, <4>2, <4>3 DEF Overwrite, SameName
    <3>3. QED
      BY <3>1, <3>2
  <2>4. QED
    BY <1>1, <1>2, <1>3, <2>1, <2>2, <2>3 DEF PgData, Typed
<1>6. QED
  BY <1>4, <1>5

\* The type invariant, for campaigns of pktgen.py.
LEMMA PgTypeCorrect ==
    ASSUME PgControl, PgData
    PROVE  pktgenTypeOK
<1>1. o \in DOMAIN campaign /\ e \in DOMAIN inner
  <2>1. IsCampaign(campaign) /\ o = 1 /\ e \in DOMAIN inner
    BY PgExperiment DEF PgControl, PgPosition
  <2>2. DOMAIN campaign = 1 .. Len(campaign) /\ Len(campaign) \in Nat \ {0}
    BY <2>1, ListFacts DEF IsCampaign
  <2>3. QED
    BY <2>1, <2>2
<1>2. pc \notin {"server", "launchServer", "client", "launchClient", "wait"}
  BY DEF PgControl, PgPosition, PgLabels, PgWorking, PgServerLabels, PgClientLabels
<1>3. \A f \in FileType(ClientIps, Threads) :
          f \in FileType(ClientIps \cup {"summary"}, Threads \cup {0})
  BY DEF FileType
<1>4. scriptTypeOK
  BY <1>1, <1>2, <1>3 DEF PgControl, PgPosition, PgData, Typed, ProgramType, scriptTypeOK
<1>5. DOMAIN Servers = 1 .. Len(Servers) /\ DOMAIN Clients = 1 .. Len(Clients)
      /\ Len(Servers) \in Nat /\ Len(Clients) \in Nat
  BY RemoteAssumption, ListFacts
<1>6. /\ i \in Nat \ {0} /\ PgPlace /\ RingSize \in Nat
      /\ \A g \in groups : g.counted \subseteq FileType(ClientIps, Threads)
  BY PktgenAssumption DEF PgControl, PgPosition, PgData
<1>7. QED
  BY <1>4, <1>5, <1>6 DEF pktgenTypeOK, PgPlace, PgServerLabels, PgClientLabels

------------------------------------------------------------------------------
(* What a campaign without failures has measured                             *)

\* A client writes the files of the experiment at work, which replace neither
\* each other nor those of an earlier experiment whose name does not come again.
LEMMA PgFilesStay ==
    ASSUME PgControl, PgProgress, Machines,
           NEW k \in 1 .. e, k < e => PgLast(k),
           NEW ip, NEW t, PgFile(k, ip, t) \in home
    PROVE  PgFile(k, ip, t) \in home'
<1>1. CASE home' = home
  BY <1>1
<1>2. CASE home' # home
  <2>1. PICK p \in running : \E u \in p.todo :
            home' = Overwrite(home, ResultFile(p.run, p.name, p.ip, u))
    BY <1>2 DEF Machines
  <2>2. PICK u \in p.todo : home' = Overwrite(home, ResultFile(p.run, p.name, p.ip, u))
    BY <2>1
  <2>3. ResultFile(p.run, p.name, p.ip, u) = PgFile(e, p.ip, u)
    <3>1. \A q \in running : q.todo # {} => q.run = <<1, e>> /\ q.name = PgName(e)
      BY DEF PgProgress, PgWriting
    <3>2. p.run = <<1, e>> /\ p.name = PgName(e)
      BY <3>1
    <3>3. QED
      BY <3>2 DEF PgFile
  <2>4. e \in DOMAIN inner /\ e \in Nat
    BY PgExperiment DEF PgControl, PgPosition
  <2>5. k < e => PgName(k) # PgName(e)
    BY <2>4 DEF PgLast
  <2>6. SameName(PgFile(e, p.ip, u), PgFile(k, ip, t)) =>
            PgFile(k, ip, t) = PgFile(e, p.ip, u)
    <3>1. SUFFICES ASSUME SameName(PgFile(e, p.ip, u), PgFile(k, ip, t))
                   PROVE  PgFile(k, ip, t) = PgFile(e, p.ip, u)
      OBVIOUS
    <3>2. PgName(k) = PgName(e) /\ ip = p.ip /\ t = u
      BY <3>1 DEF SameName, PgFile, ResultFile
    <3>3. k = e
      BY <2>4, <2>5, <3>2
    <3>4. QED
      BY <3>2, <3>3
  <2>7. QED
    BY <2>2, <2>3, <2>6 DEF Overwrite
<1>3. QED
  BY <1>1, <1>2

\* What has been copied is at most replaced by the same file.
LEMMA PgRawStays ==
    ASSUME PgData, NEW f, f \in home, f \in raw,
           raw' = raw \/ \E ip \in ClientIps : ResultsArrive(JsonName, ip)
    PROVE  f \in raw'
<1>1. CASE raw' = raw
  BY <1>1
<1>2. CASE \E ip \in ClientIps : ResultsArrive(JsonName, ip)
  <2>1. PICK ip \in ClientIps :
            raw' = {g \in raw : \A h \in Copied(JsonName, ip) : ~SameName(g, h)}
                     \cup Copied(JsonName, ip)
    BY <1>2 DEF ResultsArrive
  <2>2. \A h \in Copied(JsonName, ip) : SameName(f, h) => f = h
    BY DEF Copied, PgData
  <2>3. QED
    BY <2>1, <2>2
<1>3. QED
  BY <1>1, <1>2

\* Kept results stay kept.
LEMMA PgKeptStays ==
    ASSUME PgControl, PgData, PgProgress,
           \/ PgWork
           \/ Machines,
           NEW k \in 1 .. e, k < e => PgLast(k), NEW ip, PgKept(k, ip)
    PROVE  PgKept(k, ip)'
<1>1. UNCHANGED <<campaign, o>>
  BY DEF PgWork, Machines
<1>2. \A t \in Threads : PgFile(k, ip, t) \in home'
  <2>1. CASE PgWork
    BY <2>1 DEF PgWork, PgKept
  <2>2. CASE Machines
    BY <2>2, PgFilesStay DEF PgKept
  <2>3. QED
    BY <2>1, <2>2
<1>3. \A t \in Threads : PgFile(k, ip, t) \in raw'
  <2>1. raw' = raw \/ \E m \in ClientIps : ResultsArrive(JsonName, m)
    BY DEF PgWork, Machines
  <2>2. QED
    BY <2>1, PgRawStays DEF PgKept
<1>4. \A t : PgFile(k, ip, t)' = PgFile(k, ip, t)
  BY <1>1, PgSame
<1>5. QED
  BY <1>2, <1>3, <1>4 DEF PgKept

\* Machines lose nothing that has been measured, unless something fails.
LEMMA PgMeasuredStays ==
    ASSUME PgControl, PgData, PgProgress, PgPause, intact'
    PROVE  \A ip : PgMeasured(ip) => PgMeasured(ip)'
<1>1. UNCHANGED <<campaign, o, e>>
  BY DEF PgPause, Machines
<1>2. \A p \in running : IsProgram(p)
  BY DEF PgData, Typed, ProgramType
<1>3. \A k, ip, t : PgFile(k, ip, t)' = PgFile(k, ip, t)
  BY <1>1, PgSame
<1>4. \A ip, t : PgFile(e, ip, t)' = PgFile(e, ip, t)
  <2>1. \A k, ip, t : k = e => PgFile(k, ip, t)' = PgFile(e, ip, t)
    BY <1>3
  <2>2. QED
    BY <1>1, <1>3, <2>1
<1>5. ASSUME NEW ip, NEW t, PgFile(e, ip, t) \in home
      PROVE  PgFile(e, ip, t) \in home'
  <2>1. e \in 1 .. e /\ ~(e < e)
    BY PgExperiment DEF PgControl
  <2>2. Machines
    BY DEF PgPause
  <2>3. QED
    BY <1>5, <2>1, <2>2, PgFilesStay
<1>6. ASSUME NEW ip, NEW t, NEW p \in running, p.ip = ip, t \in p.todo
      PROVE  \/ PgFile(e, ip, t) \in home'
             \/ \E v \in running' : v.ip = ip /\ t \in v.todo
  <2>1. CASE UNCHANGED vars
    BY <1>6, <2>1 DEF vars, remoteVars
  <2>2. CASE Tick
    <3>1. Older(p) \in running'
      BY <2>2 DEF Tick, TimePasses
    <3>2. Older(p).ip = p.ip /\ Older(p).todo = p.todo
      BY <1>2 DEF Older, IsProgram
    <3>3. QED
      BY <1>6, <3>1, <3>2
  <2>3. CASE KillArrives
    <3>1. running' = running
      BY <2>3 DEF KillArrives, Fault
    <3>2. QED
      BY <1>6, <3>1
  <2>4. CASE ProgramEnds
    <3>1. PICK q \in running : q.todo = {} /\ running' = running \ {q}
      BY <2>4 DEF ProgramEnds
    <3>2. p \in running'
      BY <1>6, <3>1
    <3>3. QED
      BY <1>6, <3>2
  <2>5. CASE WriteResult
    <3>1. PICK q \in running : \E u \in q.todo :
              /\ home' = Overwrite(home, ResultFile(q.run, q.name, q.ip, u))
              /\ running' = (running \ {q}) \cup {[q EXCEPT !.todo = @ \ {u}]}
      BY <2>5 DEF WriteResult
    <3>2. PICK u \in q.todo :
              /\ home' = Overwrite(home, ResultFile(q.run, q.name, q.ip, u))
              /\ running' = (running \ {q}) \cup {[q EXCEPT !.todo = @ \ {u}]}
      BY <3>1
    <3>3. CASE p # q
      BY <1>6, <3>2, <3>3
    <3>4. CASE p = q /\ t # u
      <4>1. PICK w : w = [q EXCEPT !.todo = @ \ {u}]
        OBVIOUS
      <4>2. w \in running' /\ w.todo = q.todo \ {u} /\ w.ip = q.ip
        BY <1>2, <3>2, <4>1 DEF IsProgram
      <4>3. QED
        BY <1>6, <3>4, <4>2
    <3>5. CASE p = q /\ t = u
      <4>1. \A v \in running : v.todo # {} => v.run = <<1, e>> /\ v.name = PgName(e)
        BY DEF PgProgress, PgWriting
      <4>2. q.run = <<1, e>> /\ q.name = PgName(e)
        BY <4>1
      <4>3. ResultFile(q.run, q.name, q.ip, u) = PgFile(e, ip, t)
        BY <1>6, <3>5, <4>2 DEF PgFile
      <4>4. QED
        BY <3>2, <4>3 DEF Overwrite
    <3>6. QED
      BY <3>3, <3>4, <3>5
  <2>6. QED
    BY <2>1, <2>2, <2>3, <2>4, <2>5 DEF PgPause, machineStep
<1>7. QED
  BY <1>4, <1>5, <1>6 DEF PgMeasured

\* Programs that are added take nothing from what has been measured.
LEMMA PgMeasuredGrows ==
    ASSUME UNCHANGED <<campaign, o, e, home>>, running \subseteq running'
    PROVE  \A ip : PgMeasured(ip) => PgMeasured(ip)'
<1>1. \A k, ip, t : PgFile(k, ip, t)' = PgFile(k, ip, t)
  BY PgSame
<1>2. \A ip, t : PgFile(e, ip, t)' = PgFile(e, ip, t)
  <2>1. \A k, ip, t : k = e => PgFile(k, ip, t)' = PgFile(e, ip, t)
    BY <1>1
  <2>2. QED
    BY <1>1, <2>1
<1>3. QED
  BY <1>2 DEF PgMeasured

\* While the script waits or sleeps, no program or result is lost.
LEMMA PgProgressPause ==
    ASSUME PgControl, PgData, PgProgress, PgPause, intact'
    PROVE  PgProgress'
<1>1. UNCHANGED <<campaign, pc, o, e, i>> /\ Machines
  BY DEF PgPause, Machines
<1>2. /\ \A k : PgName(k)' = PgName(k) /\ (PgLast(k)' <=> PgLast(k))
      /\ e \in Nat \ {0}
  BY <1>1, PgSame, PgExperiment DEF PgControl
<1>3. \A p \in running' : \E q \in running : Later(p, q)
  BY <1>1 DEF Machines
<1>4. PgWriting'
  <2>1. \A n : n = PgName(e) => PgName(e)' = n
    BY <1>1, <1>2
  <2>2. QED
    BY <1>1, <1>3, <2>1 DEF PgProgress, PgWriting, Later
<1>5. \A ip : PgMeasured(ip) => PgMeasured(ip)'
  BY PgMeasuredStays
<1>6. \A k \in 1 .. e : (k < e => PgLast(k)) => \A ip : PgKept(k, ip) => PgKept(k, ip)'
  BY <1>1, PgKeptStays
<1>7. \A ip : PgKept(e, ip) => PgKept(e, ip)'
  <2>1. \A k : k = e => \A ip : PgKept(k, ip) => PgKept(k, ip)'
    BY <1>2, <1>6
  <2>2. QED
    BY <1>1, <2>1
<1>8. PgClients'
  BY <1>1, <1>5 DEF PgProgress, PgClients
<1>9. PgWaits'
  BY <1>1, <1>3, <1>5, <1>7 DEF PgProgress, PgWaits, Later
<1>10. PgCollected'
  BY <1>1, <1>7 DEF PgProgress, PgCollected
<1>11. PgEarlier'
  BY <1>1, <1>2, <1>6 DEF PgProgress, PgEarlier
<1>12. QED
  BY <1>4, <1>8, <1>9, <1>10, <1>11 DEF PgProgress

\* pktgen.py begins with another experiment when the results of the last are kept.
LEMMA PgEarlierStep ==
    ASSUME PgControl, PgData, PgProgress, pktgenStep
    PROVE  PgEarlier'
<1>1. PgWork
  BY PgWorks
<1>2. UNCHANGED <<campaign, o>>
  BY <1>1 DEF PgWork
<1>3. /\ \A k : PgLast(k)' <=> PgLast(k)
      /\ e \in Nat \ {0}
  BY <1>2, PgSame, PgExperiment DEF PgControl
<1>4. e' = e \/ (pc = "pgFinally" /\ e' = e + 1)
  BY DEF pktgenStep, PgStart, PgMerge, PgSetupSwitches, PgStartServer, PgLaunchServer,
         PgTunnelServer, PgStartSwitch, PgLaunchSwitch, PgStartClient, PgLaunchClient,
         PgTunnelClient, PgWaitClient, PgFinally, PgAggregate, PgPrepare, PgLaunch, PgTunnel,
         Prepare, Launch, Each, Raise, At, Goto
<1>5. \A k \in 1 .. e : (k < e => PgLast(k)) => \A ip : PgKept(k, ip) => PgKept(k, ip)'
  BY <1>1, PgKeptStays
<1>6. \A k \in 1 .. e - 1 : PgLast(k) => \A ip \in ClientIps : PgKept(k, ip)'
  BY <1>3, <1>5 DEF PgProgress, PgEarlier
<1>7. pc = "pgFinally" => \A k : k = e => \A ip \in ClientIps : PgKept(k, ip)'
  BY <1>3, <1>5 DEF PgProgress, PgCollected
<1>8. \A k \in 1 .. e' - 1 : PgLast(k) => \A ip \in ClientIps : PgKept(k, ip)'
  BY <1>3, <1>4, <1>6, <1>7
<1>9. QED
  BY <1>3, <1>8 DEF PgEarlier

\* A client that is started has everything still to write.
LEMMA PgStarted ==
    ASSUME NEW ip
    PROVE  LET p == PgProgram("client", ip, 1)
           IN p.ip = ip /\ p.todo = Threads /\ p.run = Run /\ p.name = JsonName
              /\ p.prog = "client"
BY DEF PgProgram, This, Program

\* Starting the clients.
LEMMA PgProgressClients ==
    ASSUME PgControl, PgData, PgProgress, intact', ~exp.tunnel,
           PgStartClient \/ PgLaunchClient
    PROVE  PgProgress'
<1>1. UNCHANGED <<campaign, o, e, config, home, raw>>
  BY DEF PgStartClient, PgLaunchClient, PgPrepare, PgLaunch, Prepare, Launch, Each, Raise,
         Goto, localVars
<1>2. \A k : PgName(k)' = PgName(k)
  BY <1>1, PgSame
<1>3. PgEarlier'
  BY PgEarlierStep DEF pktgenStep
<1>4. ~(pc' \in {"pgFinally", "pgAggregate"}) /\ running \subseteq running'
  BY DEF PgStartClient, PgLaunchClient, PgPrepare, PgLaunch, Prepare, Launch, Each, Raise,
         Fault, Goto, execute_remote_command
<1>5. PgCollected'
  BY <1>4 DEF PgCollected
<1>6. \A ip : PgMeasured(ip) => PgMeasured(ip)'
  BY <1>1, <1>4, PgMeasuredGrows
<1>7. \A n : n = PgName(e) => PgName(e)' = n
  BY <1>1, <1>2
<1>8. CASE PgStartClient
  <2>1. /\ UNCHANGED <<running, i>>
        /\ pc = "pgClient" /\ pc' = "pgLaunchClient"
    BY <1>8 DEF PgStartClient, PgPrepare, Prepare, Raise, Fault, Goto, At
  <2>2. PgWriting'
    BY <1>1, <1>7, <2>1 DEF PgProgress, PgWriting
  <2>3. PgClients' /\ PgWaits'
    BY <1>6, <2>1 DEF PgProgress, PgClients, PgWaits
  <2>4. QED
    BY <1>3, <1>5, <2>2, <2>3 DEF PgProgress
<1>9. CASE PgLaunchClient
  <2>1. /\ pc = "pgLaunchClient" /\ i \in Nat \ {0} /\ i <= Len(Clients)
        /\ running' = running \cup {PgProgram("client", Clients[i], 1)}
        /\ \/ i < Len(Clients) /\ pc' = "pgClient" /\ i' = i + 1
           \/ i = Len(Clients) /\ pc' = "pgWait" /\ i' = 1
    <3>1. pc = "pgLaunchClient" /\ i \in Nat \ {0} /\ i <= Len(Clients)
      BY <1>9 DEF PgLaunchClient, PgLaunch, Launch, At, PgControl, PgPosition, PgPlace,
                  PgClientLabels
    <3>2. Len(Clients) \in Nat
      BY RemoteAssumption, ListFacts
    <3>3. running' = running \cup {PgProgram("client", Clients[i], 1)}
      BY <1>9 DEF PgLaunchClient, PgLaunch, Launch, execute_remote_command, Fault
    <3>4. /\ pc' = IF i < Len(Clients) THEN "pgClient" ELSE "pgWait"
          /\ i' = IF i < Len(Clients) THEN i + 1 ELSE 1
      BY <1>9 DEF PgLaunchClient, Each, Goto
    <3>5. QED
      BY <3>1, <3>2, <3>3, <3>4
  <2>2. PICK p : p = PgProgram("client", Clients[i], 1)
    OBVIOUS
  <2>3. /\ p.ip = Clients[i] /\ p.todo = Threads /\ p.prog = "client"
        /\ p.run = <<1, e>> /\ p.name = PgName(e)
    <3>1. Run = <<1, e>> /\ JsonName = PgName(e)
      BY <2>1, PgExperiment, PgNaming DEF PgControl, PgWorking, PgClientLabels
    <3>2. QED
      BY <2>2, <3>1, PgStarted
  <2>4. PgWriting'
    BY <1>1, <1>7, <2>1, <2>2, <2>3 DEF PgProgress, PgWriting
  <2>5. \A c : c = Clients[i] => PgMeasured(c)'
    BY <2>1, <2>2, <2>3 DEF PgMeasured
  <2>6. \A k \in 1 .. i : \A c : c = Clients[k] => PgMeasured(c)'
    BY <1>6, <2>1, <2>5 DEF PgProgress, PgClients
  <2>7. PgClients'
    BY <2>1, <2>6 DEF PgClients
  <2>8. PgWaits'
    <3>1. CASE pc' # "pgWait"
      BY <3>1 DEF PgWaits
    <3>2. CASE pc' = "pgWait"
      <4>1. \A ip \in ClientIps : PgMeasured(ip)'
        <5>1. \A ip \in ClientIps : \E k \in 1 .. Len(Clients) : ip = Clients[k]
          BY RemoteAssumption, ListFacts DEF ClientIps, Range
        <5>2. QED
          BY <2>1, <2>6, <3>2, <5>1
      <4>2. i' = 1
        BY <2>1, <3>2
      <4>3. QED
        BY <4>1, <4>2 DEF PgWaits, ClientIps
    <3>3. QED
      BY <3>1, <3>2
  <2>9. QED
    BY <1>3, <1>5, <2>4, <2>7, <2>8 DEF PgProgress
<1>10. QED
  BY <1>8, <1>9

\* The results of a client are copied when it has ended.
LEMMA PgProgressWait ==
    ASSUME PgControl, PgData, PgProgress, intact', PgWaitClient
    PROVE  PgProgress'
<1>1. /\ UNCHANGED <<campaign, o, e, config, home, running>>
      /\ pc = "pgWait" /\ ClientEnded(Run, Clients[i])
      /\ ResultsArrive(JsonName, Clients[i])
  BY DEF PgWaitClient, PgCollect, copy_results_back, copy_log_file_back, Fault, Each, Goto, At,
         remoteVars
<1>2. /\ i \in Nat \ {0} /\ i <= Len(Clients) /\ Len(Clients) \in Nat
      /\ Run = <<1, e>> /\ JsonName = PgName(e) /\ e \in Nat \ {0}
  <2>1. i \in Nat \ {0} /\ i <= Len(Clients)
    BY <1>1 DEF PgControl, PgPosition, PgPlace, PgClientLabels
  <2>2. Len(Clients) \in Nat
    BY RemoteAssumption, ListFacts
  <2>3. Run = <<1, e>> /\ JsonName = PgName(e) /\ e \in Nat \ {0}
    BY <1>1, PgExperiment, PgNaming DEF PgControl, PgWorking, PgClientLabels
  <2>4. QED
    BY <2>1, <2>2, <2>3
<1>3. \/ i < Len(Clients) /\ pc' = "pgWait" /\ i' = i + 1
      \/ i = Len(Clients) /\ pc' = "pgFinally" /\ i' = 1
  <2>1. /\ pc' = IF i < Len(Clients) THEN "pgWait" ELSE "pgFinally"
        /\ i' = IF i < Len(Clients) THEN i + 1 ELSE 1
    BY DEF PgWaitClient, Each, Goto
  <2>2. QED
    BY <1>2, <2>1
<1>4. PgEarlier'
  BY PgEarlierStep DEF pktgenStep
<1>5. /\ \A k, ip, t : PgFile(k, ip, t)' = PgFile(k, ip, t)
      /\ \A k : PgName(k)' = PgName(k)
  BY <1>1, PgSame
<1>6. \A ip : PgMeasured(ip) => PgMeasured(ip)'
  BY <1>1, PgMeasuredGrows
<1>7. Clients[i] \in ClientIps /\ \A ip \in ClientIps : \E k \in 1 .. Len(Clients) : ip = Clients[k]
  BY <1>2, RemoteAssumption, ListFacts DEF ClientIps, Range
<1>8. \A p \in running : p.ip = Clients[i] => p.todo = {}
  BY <1>1, <1>2 DEF PgProgress, PgWriting, ClientEnded
<1>9. \A t \in Threads : PgFile(e, Clients[i], t) \in home
  BY <1>1, <1>7, <1>8 DEF PgProgress, PgWaits, PgMeasured
<1>10. \A t \in Threads : PgFile(e, Clients[i], t) \in raw'
  <2>1. \A t \in Threads : PgFile(e, Clients[i], t) \in Copied(JsonName, Clients[i])
    BY <1>2, <1>9 DEF Copied, PgFile, ResultFile, Matches
  <2>2. QED
    BY <1>1, <2>1 DEF ResultsArrive
<1>11. \A k \in 1 .. e : (k < e => PgLast(k)) => \A ip : PgKept(k, ip) => PgKept(k, ip)'
  <2>1. PgWork
    BY PgWorks DEF pktgenStep
  <2>2. QED
    BY <2>1, PgKeptStays
<1>12. \A c : PgKept(e, c) => PgKept(e, c)'
  <2>1. \A k : k = e => \A c : PgKept(k, c) => PgKept(k, c)'
    BY <1>2, <1>11
  <2>2. QED
    BY <1>1, <2>1
<1>13. \A c : c = Clients[i] => PgKept(e, c)'
  <2>1. \A k, c : k = e /\ c = Clients[i] => PgKept(k, c)'
    BY <1>1, <1>5, <1>9, <1>10 DEF PgKept
  <2>2. QED
    BY <1>1, <2>1
<1>14. \A k \in 1 .. i : \A c : c = Clients[k] => PgKept(e, c)'
  BY <1>1, <1>2, <1>12, <1>13 DEF PgProgress, PgWaits
<1>15. \A k \in 1 .. i : \A p \in running : p.ip = Clients[k] => p.todo = {}
  BY <1>1, <1>2, <1>8 DEF PgProgress, PgWaits
<1>16. CASE pc' = "pgWait"
  <2>1. i' - 1 = i
    BY <1>2, <1>3, <1>16
  <2>2. PgWaits'
    BY <1>1, <1>6, <1>14, <1>15, <2>1 DEF PgProgress, PgWaits, ClientIps
  <2>3. PgWriting'
    <3>1. \A n : n = PgName(e) => PgName(e)' = n
      BY <1>1, <1>5
    <3>2. QED
      BY <1>1, <1>16, <3>1 DEF PgProgress, PgWriting
  <2>4. PgClients' /\ PgCollected'
    BY <1>16 DEF PgClients, PgCollected
  <2>5. QED
    BY <1>4, <2>2, <2>3, <2>4 DEF PgProgress
<1>17. CASE pc' = "pgFinally"
  <2>1. i = Len(Clients)
    BY <1>3, <1>17
  <2>2. PgCollected'
    <3>1. \A c \in ClientIps : PgKept(e, c)'
      BY <1>7, <1>14, <2>1
    <3>2. QED
      BY <3>1 DEF PgCollected, ClientIps
  <2>3. \A p \in running : p.todo = {}
    <3>1. \A p \in running : p.todo # {} => p.ip \in ClientIps
      BY DEF PgData, Typed, ProgramType
    <3>2. QED
      BY <1>7, <1>15, <2>1, <3>1
  <2>4. PgWriting'
    BY <1>1, <2>3 DEF PgWriting
  <2>5. PgClients' /\ PgWaits'
    BY <1>17 DEF PgClients, PgWaits
  <2>6. QED
    BY <1>4, <2>2, <2>4, <2>5 DEF PgProgress
<1>18. QED
  BY <1>3, <1>16, <1>17

\* The other steps start no client, and none of the experiment is at work.
LEMMA PgProgressOther ==
    ASSUME PgControl, PgData, PgProgress, intact', ~exp.tunnel,
           PgStart \/ PgMerge \/ PgSetupSwitches \/ PgStartServer \/ PgLaunchServer \/
           PgTunnelServer \/ PgStartSwitch \/ PgLaunchSwitch \/ PgTunnelClient \/
           PgFinally \/ PgAggregate
    PROVE  PgProgress'
<1>1. PgEarlier'
  BY PgEarlierStep DEF pktgenStep
<1>2. ~PgTunnelServer /\ ~PgTunnelClient
  BY DEF PgTunnelServer, PgTunnelClient, PgTunnel, At, PgControl, PgPlace
<1>3. pc \notin {"pgClient", "pgLaunchClient", "pgWait"}
  BY <1>2 DEF PgStart, PgMerge, PgSetupSwitches, PgStartServer, PgLaunchServer, PgStartSwitch,
         PgLaunchSwitch, PgFinally, PgAggregate, PgPrepare, PgLaunch, Prepare, Launch, At
<1>4. \A p \in running : p.todo = {}
  BY <1>3 DEF PgProgress, PgWriting
<1>5. \A p \in running' : p.todo = {}
  <2>1. CASE PgLaunchServer
    <3>1. \A p \in {PgProgram("server", Servers[i], k) : k \in 1 .. 2} : p.todo = {}
      BY DEF PgProgram, This, Program
    <3>2. QED
      BY <1>4, <2>1, <3>1 DEF PgLaunchServer, PgLaunch, Launch, execute_remote_command
  <2>2. CASE PgLaunchSwitch
    <3>1. \A p \in {PgProgram("switch", SwitchIp, 1)} : p.todo = {}
      BY DEF PgProgram, This, Program
    <3>2. QED
      BY <1>4, <2>2, <3>1 DEF PgLaunchSwitch, PgLaunch, Launch, execute_remote_command
  <2>3. CASE ~PgLaunchServer /\ ~PgLaunchSwitch
    <3>1. running' = running
      BY <1>2, <2>3 DEF PgStart, PgMerge, PgSetupSwitches, PgStartServer, PgStartSwitch,
             PgFinally, PgAggregate, PgPrepare, Prepare, remoteVars
    <3>2. QED
      BY <1>4, <3>1
  <2>4. QED
    BY <2>1, <2>2, <2>3
<1>6. PgWriting'
  BY <1>5 DEF PgWriting
<1>7. /\ pc' \notin {"pgLaunchClient", "pgWait", "pgFinally"}
      /\ pc' = "pgClient" => i' = 1
      /\ pc' = "pgAggregate" => pc = "pgFinally" /\ e' = e
  <2>1. CASE PgStart \/ PgMerge \/ PgSetupSwitches
    BY <2>1 DEF PgStart, PgMerge, PgSetupSwitches, PgCycle, Each, Goto
  <2>2. CASE PgStartServer \/ PgStartSwitch
    BY <1>2, <2>2 DEF PgStartServer, PgStartSwitch, PgPrepare, Prepare, Raise, Fault, Goto
  <2>3. CASE PgLaunchServer
    BY <2>3 DEF PgLaunchServer, AfterServers, Each, Goto
  <2>4. CASE PgLaunchSwitch
    <3>1. i' = i /\ pc' = "pgClient" /\ pc = "pgLaunchSwitch"
      BY <2>4 DEF PgLaunchSwitch, PgLaunch, Launch, At, Goto
    <3>2. QED
      BY <3>1 DEF PgControl, PgPlace
  <2>5. CASE PgFinally \/ PgAggregate
    BY <2>5 DEF PgFinally, PgAggregate, Goto, At
  <2>6. QED
    BY <1>2, <2>1, <2>2, <2>3, <2>4, <2>5
<1>8. PgClients' /\ PgWaits'
  BY <1>7 DEF PgClients, PgWaits
<1>9. PgCollected'
  <2>1. SUFFICES ASSUME pc' = "pgAggregate"
                 PROVE  \A c \in ClientIps : PgKept(e, c)'
    BY <1>7 DEF PgCollected, ClientIps
  <2>2. pc = "pgFinally" /\ e' = e /\ e \in Nat \ {0}
    BY <1>7, <2>1, PgExperiment DEF PgControl
  <2>3. PgWork
    BY PgWorks DEF pktgenStep
  <2>4. \A k \in 1 .. e : (k < e => PgLast(k)) => \A ip : PgKept(k, ip) => PgKept(k, ip)'
    BY <2>3, PgKeptStays
  <2>5. \A k : k = e => \A ip : PgKept(k, ip) => PgKept(k, ip)'
    BY <2>2, <2>4
  <2>6. \A ip : PgKept(e, ip) => PgKept(e, ip)'
    BY <2>2, <2>5
  <2>7. QED
    BY <2>2, <2>6 DEF PgProgress, PgCollected
<1>10. QED
  BY <1>1, <1>6, <1>8, <1>9 DEF PgProgress

\* Nothing that a campaign without failures has measured is lost.
LEMMA PgProgressStep ==
    ASSUME PgControl, PgData, intact /\ ~exp.tunnel => PgProgress, pktgenStep \/ PgPause
    PROVE  (intact /\ ~exp.tunnel => PgProgress)'
<1>1. PgWork \/ PgPause
  BY PgWorks
<1>2. UNCHANGED <<campaign, o>> /\ (intact' => intact)
  BY <1>1 DEF PgWork, PgPause, Machines
<1>3. exp' = exp
  BY <1>2 DEF exp
<1>4. SUFFICES ASSUME intact', ~exp.tunnel
               PROVE  PgProgress'
  BY <1>3
<1>5. PgProgress
  BY <1>2, <1>4
<1>6. QED
  BY <1>4, <1>5, PgProgressPause, PgProgressClients, PgProgressWait, PgProgressOther
     DEF pktgenStep

\* The names that experiments ask for do not change.
LEMMA PgAskedSame ==
    ASSUME UNCHANGED <<campaign, o>>
    PROVE  /\ \A r : AskedName(r)' = AskedName(r) /\ Measurements(r)' = Measurements(r)
           /\ NamesKept' <=> NamesKept
           /\ NamesApart' <=> NamesApart
<1>1. \A r : AskedName(r)' = AskedName(r)
  BY DEF AskedName
<1>2. \A r : Measurements(r)' = Measurements(r)
  BY <1>1 DEF Measurements
<1>3. inner' = inner /\ \A k : PgName(k)' = PgName(k)
  BY PgSame
<1>4. NamesKept' <=> NamesKept
  BY <1>1, <1>3 DEF NamesKept
<1>5. Names' = Names
  BY SameCampaign
<1>6. QED
  BY <1>1, <1>2, <1>4, <1>5 DEF NamesApart

\* The results of one group, when groups are counted and each is one name.
LEMMA PgGroupExact ==
    ASSUME PgControl, PgData, PgProgress, PgAggregate, NamesKept, NamesApart,
           NEW k \in DOMAIN inner,
           \A m \in DOMAIN inner : m > k => AskedName(<<o, m>>) # AskedName(<<o, k>>)
    PROVE  InSummary(Group(AskedName(<<o, k>>)))' = Measurements(<<o, k>>)
<1> DEFINE n == AskedName(<<o, k>>)
<1>1. /\ pc = "pgAggregate"
      /\ groups' = {[name |-> Group(g.name),
                     counted |-> {f \in raw : Group(f.name) = Group(g.name)}] : g \in raw}
      /\ n' = n
  BY DEF PgAggregate, At, Goto, AskedName
<1>2. e = Len(inner) /\ k \in 1 .. e /\ o = 1 /\ e \in Nat /\ DOMAIN inner = 1 .. e
  BY <1>1, PgExperiment DEF PgControl, PgPosition
<1>3. n = PgName(k) /\ n \in Names /\ PgLast(k)
  BY <1>2, PgNaming DEF NamesKept, PgLast, PgControl
<1>4. \A ip \in ClientIps : PgKept(k, ip)
  <2>1. CASE k = e
    BY <1>1, <2>1 DEF PgProgress, PgCollected
  <2>2. CASE k # e
    <3>1. k \in 1 .. e - 1
      BY <1>2, <2>2
    <3>2. QED
      BY <1>3, <3>1 DEF PgProgress, PgEarlier
  <2>3. QED
    BY <2>1, <2>2
<1>5. \A ip, t : ResultFile(<<o, k>>, n, ip, t) = PgFile(k, ip, t)
  BY <1>2, <1>3 DEF PgFile
<1>6. \A ip \in ClientIps, t \in Threads : ResultFile(<<o, k>>, n, ip, t) \in raw
  BY <1>4, <1>5 DEF PgKept
<1>7. ASSUME NEW f \in raw, Group(f.name) = Group(n)
      PROVE  f \in Measurements(<<o, k>>)
  <2>1. f.name \in Names /\ f.ip \in ClientIps /\ f.thread \in Threads
    BY DEF PgData, FileType
  <2>2. f.name = n
    BY <1>3, <1>7, <2>1 DEF NamesApart
  <2>3. SameName(f, ResultFile(<<o, k>>, n, f.ip, f.thread))
    BY <2>2 DEF SameName, ResultFile
  <2>4. f = ResultFile(<<o, k>>, n, f.ip, f.thread)
    BY <1>6, <2>1, <2>3 DEF PgData
  <2>5. QED
    BY <2>1, <2>4 DEF Measurements
<1>8. ASSUME NEW f \in Measurements(<<o, k>>)
      PROVE  f \in raw /\ Group(f.name) = Group(n)
  <2>1. PICK ip \in ClientIps, t \in Threads : f = ResultFile(<<o, k>>, n, ip, t)
    BY DEF Measurements
  <2>2. f.name = n
    BY <2>1 DEF ResultFile
  <2>3. QED
    BY <1>6, <2>1, <2>2
<1>9. InSummary(Group(n))' = {f \in raw : Group(f.name) = Group(n)}
  <2>1. ASSUME NEW g \in groups', g.name = Group(n)
        PROVE  g.counted = {f \in raw : Group(f.name) = Group(n)}
    BY <1>1, <2>1
  <2>2. ASSUME NEW f \in raw, Group(f.name) = Group(n)
        PROVE  \E g \in groups' : g.name = Group(n)
    <3>1. PICK g : g = [name |-> Group(f.name),
                        counted |-> {h \in raw : Group(h.name) = Group(f.name)}]
      OBVIOUS
    <3>2. g \in groups' /\ g.name = Group(n)
      BY <1>1, <2>2, <3>1
    <3>3. QED
      BY <3>2
  <2>3. InSummary(Group(n))' = UNION {g.counted : g \in {h \in groups' : h.name = Group(n)}}
    BY <1>1 DEF InSummary
  <2>4. QED
    BY <2>1, <2>2, <2>3
<1>10. QED
  BY <1>7, <1>8, <1>9

\* The groups that the script counts at its end are what was kept.
LEMMA PgCompleteStep ==
    ASSUME PgControl, PgData, intact /\ ~exp.tunnel => PgProgress, GroupsComplete,
           pktgenStep \/ PgPause
    PROVE  GroupsComplete'
<1>1. PgWork \/ PgPause
  BY PgWorks
<1>2. UNCHANGED <<campaign, o>> /\ (intact' => intact)
  BY <1>1 DEF PgWork, PgPause, Machines
<1>3. /\ exp' = exp /\ inner' = inner
      /\ \A r : AskedName(r)' = AskedName(r) /\ Measurements(r)' = Measurements(r)
      /\ (NamesKept' <=> NamesKept) /\ (NamesApart' <=> NamesApart)
  BY <1>2, PgSame, PgAskedSame
<1>4. PgAggregate \/ (pc' = "done" => pc = "done" /\ groups' = groups)
  <2>1. CASE pktgenStep
    BY <2>1 DEF pktgenStep, PgStart, PgMerge, PgSetupSwitches, PgStartServer,
           PgLaunchServer, PgTunnelServer, PgStartSwitch, PgLaunchSwitch, PgStartClient,
           PgLaunchClient, PgTunnelClient, PgWaitClient, PgFinally, PgPrepare, PgLaunch,
           PgTunnel, Prepare, Launch, Each, Raise, Goto, PgCycle, AfterServers
  <2>2. CASE PgPause
    BY <2>2 DEF PgPause, Machines
  <2>3. QED
    BY <2>1, <2>2
<1>5. CASE PgAggregate
  <2>1. SUFFICES ASSUME intact', ~exp'.tunnel, NamesKept', NamesApart',
                        NEW k \in DOMAIN inner',
                        \A m \in DOMAIN inner' :
                            m > k => AskedName(<<o, m>>)' # AskedName(<<o, k>>)'
                 PROVE  InSummary(Group(AskedName(<<o, k>>)))' = Measurements(<<o, k>>)'
    BY DEF GroupsComplete
  <2>2. PgProgress
    BY <1>2, <1>3, <2>1
  <2>3. QED
    BY <1>2, <1>3, <1>5, <2>1, <2>2, PgGroupExact
<1>6. CASE pc' = "done" => pc = "done" /\ groups' = groups
  <2>1. pc' = "done" => \A n : InSummary(n)' = InSummary(n)
    BY <1>6 DEF InSummary
  <2>2. QED
    BY <1>2, <1>3, <1>6, <2>1 DEF GroupsComplete
<1>7. QED
  BY <1>4, <1>5, <1>6

------------------------------------------------------------------------------
(* Both scripts                                                              *)

\* A campaign of experiment.py keeps what ExperimentScript_proofs shows of it.
ScriptInv ==
    /\ campaign \in Campaigns /\ groups = {}
    /\ NamesInv /\ EndlessInv /\ MeasurementInv

CampaignInv == ScriptInv \/ PgInv

\* Campaigns of experiment.py start in their invariant.
LEMMA ScriptInvInit ==
    ASSUME scriptInit, groups = {}
    PROVE  ScriptInv
<1>1. campaign \in Campaigns
  BY DEF scriptInit
<1>2. NamesInv
  BY NamesInit
<1>3. EndlessInv /\ MeasurementInv
  BY <1>2 DEF EndlessInv, Endless, ProgramsStopped, MeasurementInv, Measurement, Quiet,
              Progress, SummaryComplete, scriptInit, remoteInit
<1>4. QED
  BY <1>1, <1>2, <1>3 DEF ScriptInv

\* Campaigns of pktgen.py start in theirs.
LEMMA PgInvInit ==
    ASSUME pktgenInit
    PROVE  PgInv
<1>1. PgControl
  BY PgControlInit
<1>2. /\ running = {} /\ home = {} /\ raw = {} /\ groups = {} /\ summaries = {}
      /\ pc = "pgMain" /\ e = 1
  BY DEF pktgenInit, remoteInit
<1>3. PgData
  BY <1>2 DEF PgData, Typed
<1>4. PgProgress
  BY <1>2 DEF PgProgress, PgWriting, PgClients, PgWaits, PgCollected, PgEarlier
<1>5. GroupsComplete
  BY <1>2 DEF GroupsComplete
<1>6. QED
  BY <1>1, <1>3, <1>4, <1>5 DEF PgInv

\* Every step of a campaign of pktgen.py keeps its invariant.
LEMMA PgInvStep ==
    ASSUME PgInv, [campaignNext]_pktgenVars
    PROVE  PgInv'
<1>1. PgControl /\ PgData /\ (intact /\ ~exp.tunnel => PgProgress) /\ GroupsComplete
  BY DEF PgInv
<1>2. pktgenStep \/ PgPause
  BY <1>1, PgSteps
<1>3. PgWork \/ PgPause
  BY <1>1, <1>2, PgWorks
<1>4. PgControl' /\ PgData' /\ GroupsComplete'
  BY <1>1, <1>2, <1>3, PgControlStep, PgDataStep, PgCompleteStep
<1>5. (intact /\ ~exp.tunnel => PgProgress)'
  BY <1>1, <1>2, PgProgressStep
<1>6. QED
  BY <1>4, <1>5 DEF PgInv

\* In a campaign of experiment.py only that script and the machines take steps.
LEMMA ScriptSteps ==
    ASSUME ScriptInv, [campaignNext]_pktgenVars
    PROVE  [scriptNext]_vars /\ UNCHANGED <<groups, campaign>>
<1>1. ~pktgenStep
  <2>1. pc \in Labels
    BY DEF ScriptInv, NamesInv, Control, Position
  <2>2. QED
    BY <2>1, PktgenLabels, LabelsDisjoint
<1>2. [scriptNext]_vars /\ groups' = groups
  BY <1>1 DEF campaignNext, pktgenVars
<1>3. campaign' = campaign
  <2>1. CASE scriptNext
    BY <2>1, Kinds, AdvanceStep DEF ScriptInv, NamesInv, Data
  <2>2. CASE UNCHANGED vars
    BY <2>2 DEF vars, scriptVars
  <2>3. QED
    BY <1>2, <2>1, <2>2
<1>4. QED
  BY <1>2, <1>3

\* Every step of a campaign of experiment.py keeps the invariants shown for it.
LEMMA ScriptInvStep ==
    ASSUME ScriptInv, [campaignNext]_pktgenVars
    PROVE  ScriptInv'
<1>1. [scriptNext]_vars /\ UNCHANGED <<groups, campaign>>
  BY ScriptSteps
<1>2. NamesInv /\ EndlessInv /\ MeasurementInv /\ Control /\ Programs
  BY DEF ScriptInv, NamesInv, Data
<1>3. NamesInv'
  BY <1>1, <1>2, NamesStep
<1>4. EndlessInv'
  BY <1>1, <1>2, <1>3, EndlessStep, ProgramsStoppedStep DEF EndlessInv
<1>5. MeasurementInv'
  BY <1>1, <1>2, <1>3, MeasurementStep, SummaryCompleteStep DEF MeasurementInv
<1>6. QED
  BY <1>1, <1>3, <1>4, <1>5 DEF ScriptInv

\* The invariant behind the theorems below.
LEMMA CampaignAlways == campaignSpec => []CampaignInv
<1>1. campaignInit => CampaignInv
  BY ScriptInvInit, PgInvInit DEF campaignInit, CampaignInv
<1>2. CampaignInv /\ [campaignNext]_pktgenVars => CampaignInv'
  BY ScriptInvStep, PgInvStep DEF CampaignInv
<1>3. QED
  BY <1>1, <1>2, PTL DEF campaignSpec

\* Whichever script runs, it stands at a machine that its lists have, and programs,
\* files and groups are of the campaign's experiments and names (main of both).
THEOREM CampaignTypeCorrect == campaignSpec => []pktgenTypeOK
<1>1. ScriptInv => pktgenTypeOK
  <2>1. SUFFICES ASSUME ScriptInv
                 PROVE  pktgenTypeOK
    OBVIOUS
  <2>2. scriptTypeOK
    BY <2>1, NamesType DEF ScriptInv, NamesInv
  <2>3. pc \in Labels
    BY <2>1 DEF ScriptInv, NamesInv, Control, Position
  <2>4. /\ pc \notin {"pgSetup", "pgServer", "pgLaunchServer", "pgTunnelServer"}
        /\ pc \notin {"pgClient", "pgLaunchClient", "pgTunnelClient", "pgWait"}
    BY <2>3, LabelsDisjoint DEF PgLabels, PgWorking, PgServerLabels, PgClientLabels
  <2>5. groups = {}
    BY <2>1 DEF ScriptInv
  <2>6. QED
    BY <2>2, <2>4, <2>5 DEF pktgenTypeOK
<1>2. PgInv => pktgenTypeOK
  BY PgTypeCorrect DEF PgInv
<1>3. CampaignInv => pktgenTypeOK
  BY <1>1, <1>2 DEF CampaignInv
<1>4. QED
  BY <1>3, CampaignAlways, PTL

\* A summary counts only what its own experiment measured, as long as the names
\* allow it; pktgen.py writes no such summary (process_and_aggregate_results).
THEOREM CampaignOwnResults == campaignSpec => []OwnResults
<1>1. CampaignInv => OwnResults
  BY DEF CampaignInv, ScriptInv, NamesInv, PgInv, PgData, OwnResults
<1>2. QED
  BY <1>1, CampaignAlways, PTL

\* If nothing failed, a summary counts a result of every thread of every client
\* that measured (proc.wait, copy_results_back, process_and_aggregate_results).
THEOREM CampaignSummaryComplete == campaignSpec => []SummaryComplete
<1>1. CampaignInv => SummaryComplete
  BY DEF CampaignInv, ScriptInv, MeasurementInv, PgInv, PgData, SummaryComplete
<1>2. QED
  BY <1>1, CampaignAlways, PTL

\* When an experiment without failures is summarised, each of its programs that
\* would run for ever is gone or about to be killed (the finally blocks).
THEOREM CampaignProgramsStopped == campaignSpec => []ProgramsStopped
<1>1. PgInv => pc # "aggregate"
  BY DEF PgInv, PgControl, PgPosition, PgLabels, PgWorking, PgServerLabels, PgClientLabels
<1>2. CampaignInv => ProgramsStopped
  BY <1>1 DEF CampaignInv, ScriptInv, EndlessInv, ProgramsStopped
<1>3. QED
  BY <1>2, CampaignAlways, PTL

\* When nothing failed, experiments got their names and names differ before their
\* first underscore, a summary counts exactly what the last experiment of its name
\* has measured, although all experiments copy into one directory
\* (copy_results_back, process_and_aggregate_results).
THEOREM CampaignGroupsComplete == campaignSpec => []GroupsComplete
<1>1. ScriptInv => GroupsComplete
  <2>1. SUFFICES ASSUME ScriptInv
                 PROVE  exp.system # "pktgen"
    BY DEF GroupsComplete
  <2>2. campaign \in Campaigns /\ o \in DOMAIN campaign
    BY <2>1 DEF ScriptInv, NamesInv, Control, Position
  <2>3. QED
    BY <2>2, PktgenAssumption DEF exp
<1>2. CampaignInv => GroupsComplete
  BY <1>1 DEF CampaignInv, PgInv
<1>3. QED
  BY <1>2, CampaignAlways, PTL

\* Summaries appear in the order of the campaign, at most one per experiment, and
\* one is lost only to a later experiment of its name (main, WriteSummary's move).
THEOREM CampaignSummariesInOrder == campaignSpec => SummariesInOrder
<1> DEFINE InOrder ==
        /\ \A s \in summaries \ summaries' : s.name = JsonName /\ Before(s.run, Run)
        /\ \A s \in summaries' \ summaries :
              s.run = Run /\ \A q \in summaries : Before(q.run, s.run)
<1>1. ScriptInv /\ [campaignNext]_pktgenVars => InOrder
  BY ScriptSteps, SummariesStep DEF ScriptInv
<1>2. PgInv /\ PgInv' => InOrder
  BY DEF PgInv, PgData
<1>3. CampaignInv /\ [campaignNext]_pktgenVars => [InOrder]_vars
  BY <1>1, <1>2, PgInvStep DEF CampaignInv
<1>4. QED
  BY <1>3, CampaignAlways, PTL DEF campaignSpec, SummariesInOrder
==============================================================================
