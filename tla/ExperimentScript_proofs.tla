----------------------- MODULE ExperimentScript_proofs -----------------------
(* Theorems about experiment.py (ExperimentScript), for all campaigns, lists *)
(* of machines, threads, durations and numbers of faults.                    *)
(*   Control   where the script stands and what it indexes there             *)
(*   Data      what the programs and files of the campaign come from         *)
(*   Results   raw results belong to the experiment at work                  *)
(*   Measured  what an experiment without failures has measured and copied   *)
(*   Endless   which of its programs do not end by themselves                *)
EXTENDS ExperimentScript, TLAPS

PringlesLabels == {"server", "launchServer", "switch", "launchSwitch", "perf"}
BaselineLabels == {"bench", "launchBench"}
ClientLabels   == {"client", "launchClient", "wait"}
ScalogLabels   == {"nodes", "order", "discovery", "data", "perfClient", "collect"}
\* The script works on experiment Run.
Working == PringlesLabels \cup BaselineLabels \cup ClientLabels \cup ScalogLabels
             \cup {"finally", "aggregate"}
Before1 == {"main", "merge", "kafka", "brokers"}   \* it has not begun with Run
After1  == {"next", "done", "crashed"}
Labels  == Working \cup Before1 \cup After1

LoopSystems == {"pringles", "baseline", "scalog"}

Position ==
    /\ IsCampaign(campaign)
    /\ o \in DOMAIN campaign
    /\ e \in DOMAIN inner
    /\ i \in Nat \ {0}
    /\ sleep \in Nat
    /\ pc \in Labels

\* The machine and the system at each label.
Place ==
    /\ pc \in {"server", "launchServer"} =>
         i <= ActiveServers(config) /\ ShardsFit(config)
    /\ pc \in ClientLabels => i <= Len(Clients)
    /\ pc \in {"switch", "launchSwitch", "perf"} \cup BaselineLabels => i = 1
    /\ pc \in PringlesLabels => exp.system = "pringles"
    /\ pc \in BaselineLabels => exp.system = "baseline"
    /\ pc \in ClientLabels => exp.system \in {"pringles", "baseline"}
    /\ pc \in ScalogLabels => exp.system = "scalog" /\ exp.num_shards <= Len(Servers)
    /\ pc \in {"merge", "finally", "aggregate"} => exp.system \in LoopSystems

\* The name of iteration k in the campaign's experiment x; the defaults' for 0.
NamedUpTo(x, k) == {l \in 1 .. k : "json_name" \in DOMAIN x.inner[l]}
LastJson(x, S) ==
    IF S = {} THEN x.defaults.json_name
              ELSE x.inner[CHOOSE l \in S : \A m \in S : m <= l].json_name
JsonOf(x, k) == LastJson(x, NamedUpTo(x, k))

\* The parameters that the script has merged so far.
Parameters ==
    /\ pc # "main" => /\ DOMAIN config = DOMAIN exp.defaults
                      /\ config.json_name \in JsonNames(exp)
    /\ pc \in Working => config.json_name = JsonOf(exp, e)
    /\ pc = "merge" => config.json_name = JsonOf(exp, e - 1)
    /\ pc = "main" => e = 1

Control == Position /\ Place /\ Parameters

\* Experiments that the script has begun, and those it has summarised or left.
Begun(q)  == q \in Runs /\ (Before(q, Run) \/ (q = Run /\ pc \notin Before1))
Passed(q) == q \in Runs /\ (Before(q, Run) \/ (q = Run /\ pc \in After1))
\* A name and a run that belong together.
Named(n, q) == n \in Names /\ n = NameOf(q)

IsProgram(p) ==
    p \in [prog : {p.prog}, ip : {p.ip}, run : {p.run}, name : {p.name},
           copy : {p.copy}, left : {p.left}, todo : {p.todo}]
ProgramType(p) ==
    /\ IsProgram(p)
    /\ p.left \in Forever .. Duration + 1
    /\ p.todo \subseteq Threads
    /\ p.todo # {} => p.ip \in ClientIps

Typed    == \A p \in running : ProgramType(p)
Programs == Typed /\ \A p \in running : Begun(p.run) /\ Named(p.name, p.run)
Files ==
    /\ \A f \in home : /\ f \in FileType(ClientIps, Threads)
                       /\ Begun(f.run) /\ Named(f.name, f.run)
    /\ \A f \in raw  : f \in FileType(ClientIps \cup {"summary"}, Threads \cup {0})
Results ==
    /\ \A x \in kept : \E q \in Runs : Passed(q) /\ x[1] = NameOf(q)
    /\ \A s \in summaries : Passed(s.run) /\ s.name = NameOf(s.run)
Data == Programs /\ Files /\ Results

\* No result of an earlier experiment is left in the results directory, as long
\* as the names allow it.
Clean(r) == \A q \in Earlier(r) : Fresh(q)
Directory ==
    /\ pc \in Before1 /\ Clean(Run) => raw = {}
    /\ pc = "next" /\ Clean(Run) /\ Fresh(Run) => raw = {}
    /\ pc \in Working /\ NameSafe(Run) => \A f \in raw : f.run = Run

\* What thread t of machine ip has measured is in its file or still to be written.
ToWrite(p, ip) ==
    /\ p.run = Run /\ p.name = JsonName /\ p.ip = ip
    /\ exp.system # "scalog" => p.prog = "client"
Measured(ip) ==
    \A t \in Threads :
        \/ ResultFile(Run, JsonName, ip, t) \in home
        \/ \E p \in running : ToWrite(p, ip) /\ t \in p.todo
Covered(ip) ==
    \A t \in Threads : \E f \in raw : f.run = Run /\ f.ip = ip /\ f.thread = t

Progress ==
    /\ pc \in {"client", "launchClient"} => \A k \in 1 .. i - 1 : Measured(Clients[k])
    /\ pc \in {"perf", "wait"} => \A ip \in ClientIps : Measured(ip)
    /\ pc = "wait" => \A k \in 1 .. i - 1 : Covered(Clients[k])
    /\ pc = "collect" =>
         /\ Measured(Clients[1])
         /\ \A p \in running : p.run = Run /\ p.todo # {} =>
                p.left \in Nat /\ p.left = sleep - 3
    /\ pc \in {"finally", "aggregate"} => \A ip \in Measuring(Run) : Covered(ip)
\* In the Scalog cycle nothing measures before the benchmark.
Quiet ==
    pc \in ScalogLabels \ {"collect"} =>
        \A p \in running : p.run = Run => p.todo = {}
Measurement == Quiet /\ (intact /\ NameSafe(Run) => Progress)

\* A program of the current experiment that would run for ever can be stopped:
\* the finally block of its cycle reaches it.
Stoppable(p) ==
    \/ /\ exp.system = "baseline"
       /\ <<p.prog, p.ip>> = <<"switch", SwitchIp>>
       /\ <<"switch", SwitchIp>> \in started
    \/ /\ exp.system = "scalog"
       /\ p.prog = "scalog" /\ p.ip \in ScalogIps
Endless ==
    /\ pc \in Working =>
         \A p \in running : p.run = Run /\ p.left = Forever => Stoppable(p)
    /\ pc = "finally" /\ intact /\ exp.system = "baseline" => "proc" \in bound

------------------------------------------------------------------------------
(* Lists, machines and names                                                 *)

\* A list of the configuration has an element at every index of it.
LEMMA ListFacts ==
    ASSUME NEW s, IsList(s)
    PROVE  /\ Len(s) \in Nat \ {0} /\ DOMAIN s = 1 .. Len(s)
           /\ \A k \in 1 .. Len(s) : s[k] \in Range(s)
<1>1. s \in Seq(Range(s)) /\ s # <<>>
  BY DEF IsList
<1>2. QED
  BY <1>1

\* The experiment at work is one that the scripts can read.
LEMMA Experiment ==
    ASSUME Position
    PROVE  /\ WellFormed(exp)
           /\ Len(campaign) \in Nat \ {0} /\ DOMAIN campaign = 1 .. Len(campaign)
           /\ Len(inner) \in Nat \ {0} /\ DOMAIN inner = 1 .. Len(inner)
           /\ e \in 1 .. Len(inner) /\ o \in 1 .. Len(campaign)
           /\ Run \in Runs
<1>1. IsList(campaign) /\ WellFormed(exp)
  BY DEF Position, IsCampaign, exp
<1>2. IsList(inner)
  BY <1>1 DEF WellFormed, inner
<1>3. Run \in Runs
  BY DEF Position, Run, Runs, inner, exp
<1>4. QED
  BY <1>1, <1>2, <1>3, ListFacts DEF Position

\* At least one server is started (ShardCount).
LEMMA SomeServer ==
    ASSUME Position, NEW c
    PROVE  ActiveServers(c) \in Nat \ {0}
<1>1. exp.shard_size \in Nat \ {0} /\ exp.num_shards \in Nat
  BY Experiment DEF WellFormed
<1>2. Len(Servers) \in Nat \ {0}
  BY RemoteAssumption, ListFacts
<1> DEFINE all == (Len(Servers) + exp.shard_size - 1) \div exp.shard_size
<1>3. all \in Nat \ {0}
  <2>1. ASSUME NEW n \in Nat \ {0}, NEW s \in Nat \ {0}
        PROVE  (n + s - 1) \div s \in Nat \ {0}
    OBVIOUS
  <2>2. QED
    BY <1>1, <1>2, <2>1
<1>4. ShardCount \in Nat \ {0}
  BY <1>1, <1>3 DEF ShardCount
<1>5. ASSUME NEW n \in Nat \ {0}, NEW s \in Nat \ {0}
      PROVE  n * s \in Nat \ {0}
  BY <1>5
<1>6. ShardCount * exp.shard_size \in Nat \ {0}
  BY <1>1, <1>4, <1>5
<1>7. QED
  BY <1>6 DEF ActiveServers

\* The number of servers changes only with the parameters.
LEMMA SameServers ==
    ASSUME UNCHANGED <<campaign, o, config>>
    PROVE  /\ ActiveServers(config)' = ActiveServers(config)
           /\ ShardsFit(config)' = ShardsFit(config)
<1>1. exp' = exp
  BY DEF exp
<1>2. ShardCount' = ShardCount
  BY <1>1 DEF ShardCount
<1>3. ActiveServers(config)' = ActiveServers(config)
  BY <1>1, <1>2 DEF ActiveServers
<1>4. QED
  BY <1>3 DEF ShardsFit

\* CHOOSE finds the largest number of a set.
LEMMA Largest ==
    ASSUME NEW S, S \subseteq Nat, NEW k \in S, \A m \in S : m <= k
    PROVE  (CHOOSE l \in S : \A m \in S : m <= l) = k
<1>1. \E l \in S : \A m \in S : m <= l
  OBVIOUS
<1>2. PICK l : l = CHOOSE q \in S : \A m \in S : m <= q
  OBVIOUS
<1>3. l \in S /\ \A m \in S : m <= l
  BY <1>1, <1>2, Zenon
<1>4. l = k
  BY <1>3
<1>5. QED
  BY <1>2, <1>4

\* An override of iteration k names it; without one it has the name of the
\* iteration before it.
LEMMA JsonStep ==
    ASSUME NEW x, NEW k \in Nat \ {0}
    PROVE  JsonOf(x, k) = IF "json_name" \in DOMAIN x.inner[k]
                            THEN x.inner[k].json_name ELSE JsonOf(x, k - 1)
<1>1. CASE "json_name" \in DOMAIN x.inner[k]
  <2>1. /\ k \in NamedUpTo(x, k) /\ NamedUpTo(x, k) \subseteq Nat
        /\ \A m \in NamedUpTo(x, k) : m <= k
    BY <1>1 DEF NamedUpTo
  <2>2. (CHOOSE l \in NamedUpTo(x, k) : \A m \in NamedUpTo(x, k) : m <= l) = k
    BY <2>1, Largest
  <2>3. QED
    BY <1>1, <2>1, <2>2 DEF JsonOf, LastJson
<1>2. CASE "json_name" \notin DOMAIN x.inner[k]
  <2>1. NamedUpTo(x, k) = NamedUpTo(x, k - 1)
    BY <1>2 DEF NamedUpTo
  <2>2. QED
    BY <1>2, <2>1 DEF JsonOf
<1>3. QED
  BY <1>1, <1>2

\* Before any override the name is that of the defaults.
LEMMA JsonZero ==
    ASSUME NEW x
    PROVE  JsonOf(x, 0) = x.defaults.json_name
<1>1. NamedUpTo(x, 0) = {}
  BY DEF NamedUpTo
<1>2. QED
  BY <1>1 DEF JsonOf, LastJson

\* NameOf in terms of the script's dictionary.
LEMMA NameOfJson ==
    ASSUME NEW r
    PROVE  NameOf(r) = Name(campaign[r[1]].general, JsonOf(campaign[r[1]], r[2]))
BY DEF NameOf, JsonOf, LastJson, NamedUpTo

------------------------------------------------------------------------------
(* Control                                                                   *)

\* The parameters keep while the script works on an experiment.
LEMMA StayParameters ==
    ASSUME Parameters, UNCHANGED <<campaign, o, e, config>>, pc # "main", pc' # "main",
           pc' = "merge" => pc = "merge", pc' \in Working => pc \in Working
    PROVE  Parameters'
<1>1. exp' = exp
  BY DEF exp
<1>2. JsonNames(exp)' = JsonNames(exp)
  BY <1>1 DEF JsonNames
<1>3. QED
  BY <1>1, <1>2 DEF Parameters

\* A step that stays with the experiment and goes to another label or machine.
LEMMA Move ==
    ASSUME Control, UNCHANGED <<campaign, o, e, config>>, i' \in Nat \ {0}, sleep' \in Nat,
           pc \in Working, pc' \in Working \cup {"crashed"}, Place'
    PROVE  Control'
<1>1. Parameters'
  <2>1. "main" \notin Working /\ "merge" \notin Working /\ "crashed" \notin Working
    BY DEF Working, PringlesLabels, BaselineLabels, ClientLabels, ScalogLabels
  <2>2. QED
    BY <2>1, StayParameters DEF Control
<1>2. Position'
  <2>1. inner' = inner
    BY DEF inner, exp
  <2>2. pc' \in Labels
    BY DEF Labels, After1
  <2>3. QED
    BY <2>1, <2>2 DEF Control, Position
<1>3. QED
  BY <1>1, <1>2 DEF Control

\* The servers and the switch of the pringles cycle.
LEMMA PlaceServer ==
    ASSUME Control, StartServer \/ LaunchServer \/ StartSwitch \/ LaunchSwitch \/ RunPerf
    PROVE  Control'
<1> USE DEF At, Goto, Place, PringlesLabels, BaselineLabels, ClientLabels, ScalogLabels, LoopSystems
<1>1. Position /\ Place /\ i \in Nat \ {0} /\ sleep \in Nat
  BY DEF Control, Position
<1>2. Len(Clients) \in Nat \ {0}
  BY RemoteAssumption, ListFacts
<1>3. ActiveServers(config) \in Nat \ {0}
  BY <1>1, SomeServer
<1>4. CASE StartServer
  <2>1. UNCHANGED <<campaign, o, e, config, sleep>>
    BY <1>4 DEF StartServer, Prepare, Raise
  <2>2. exp' = exp
    BY <2>1 DEF exp
  <2>3. i' \in Nat \ {0} /\ Place'
    BY <1>1, <1>4, <2>1, <2>2, SameServers DEF StartServer, Prepare, Raise
  <2>4. pc = "server" /\ pc' \in {"launchServer", "finally"}
    BY <1>4 DEF StartServer, Prepare, Raise
  <2>5. QED
    BY <1>1, <2>1, <2>3, <2>4, Move DEF Working
<1>5. CASE LaunchServer
  <2>1. UNCHANGED <<campaign, o, e, config>> /\ sleep' \in {0, 1}
    BY <1>5 DEF LaunchServer, Launch, Each
  <2>2. exp' = exp
    BY <2>1 DEF exp
  <2>3. /\ pc' = IF i < ActiveServers(config) THEN "server"
                 ELSE IF config.use_hardware_switch THEN "client" ELSE "switch"
        /\ i' = IF i < ActiveServers(config) THEN i + 1 ELSE 1
        /\ pc = "launchServer"
    BY <1>5 DEF LaunchServer, Launch, Each
  <2>4. i' \in Nat \ {0} /\ Place'
    BY <1>1, <1>2, <1>3, <2>1, <2>2, <2>3, SameServers
  <2>5. QED
    BY <1>1, <2>1, <2>3, <2>4, Move DEF Working
<1>6. CASE StartSwitch
  <2>1. UNCHANGED <<campaign, o, e, config, sleep>>
    BY <1>6 DEF StartSwitch, Prepare, Raise
  <2>2. exp' = exp
    BY <2>1 DEF exp
  <2>3. pc = "switch" /\ pc' \in {"launchSwitch", "finally"} /\ i' \in {i, 1}
    BY <1>6 DEF StartSwitch, Prepare, Raise
  <2>4. i' \in Nat \ {0} /\ Place'
    BY <1>1, <2>1, <2>2, <2>3
  <2>5. QED
    BY <1>1, <2>1, <2>3, <2>4, Move DEF Working
<1>7. CASE LaunchSwitch
  <2>1. UNCHANGED <<campaign, o, e, config, i>> /\ sleep' = 1
    BY <1>7 DEF LaunchSwitch, Launch
  <2>2. exp' = exp
    BY <2>1 DEF exp
  <2>3. pc = "launchSwitch" /\ pc' = "client"
    BY <1>7 DEF LaunchSwitch, Launch
  <2>4. Place'
    BY <1>1, <1>2, <2>1, <2>2, <2>3
  <2>5. QED
    BY <1>1, <2>1, <2>3, <2>4, Move DEF Working
<1>8. CASE RunPerf
  <2>1. UNCHANGED <<campaign, o, e, config, i, sleep>>
    BY <1>8 DEF RunPerf
  <2>2. exp' = exp
    BY <2>1 DEF exp
  <2>3. pc = "perf" /\ pc' = "wait"
    BY <1>8 DEF RunPerf
  <2>4. Place'
    BY <1>1, <1>2, <2>1, <2>2, <2>3
  <2>5. QED
    BY <1>1, <2>1, <2>3, <2>4, Move DEF Working
<1>9. QED
  BY <1>4, <1>5, <1>6, <1>7, <1>8

\* The clients and the ends of the pringles and baseline cycles.
LEMMA PlaceClient ==
    ASSUME Control,
           StartClient \/ LaunchClient \/ WaitClient \/ CollectLogs \/ StartBench \/
           LaunchBench \/ StopBench
    PROVE  Control'
<1> USE DEF At, Goto, Place, PringlesLabels, BaselineLabels, ClientLabels, ScalogLabels,
            LoopSystems
<1>1. Position /\ Place /\ i \in Nat \ {0} /\ sleep \in Nat
  BY DEF Control, Position
<1>2. Len(Clients) \in Nat \ {0}
  BY RemoteAssumption, ListFacts
<1>3. CASE StartClient
  <2>1. UNCHANGED <<campaign, o, e, config, sleep>>
    BY <1>3 DEF StartClient, Prepare, Raise
  <2>2. exp' = exp
    BY <2>1 DEF exp
  <2>3. pc = "client" /\ pc' \in {"launchClient", "finally"} /\ i' = IF pc' = "finally" THEN 1 ELSE i
    BY <1>3 DEF StartClient, Prepare, Raise
  <2>4. i' \in Nat \ {0} /\ sleep' \in Nat /\ Place'
    BY RemoteAssumption, <1>1, <1>2, <2>1, <2>2, <2>3
  <2>5. QED
    BY <1>1, <2>1, <2>3, <2>4, Move DEF Working
<1>4. CASE LaunchClient
  <2>1. UNCHANGED <<campaign, o, e, config>> /\ sleep' = 0
    BY <1>4 DEF LaunchClient, Launch, Each
  <2>2. exp' = exp
    BY <2>1 DEF exp
  <2>3. /\ pc' = IF i < Len(Clients) THEN "client"
                 ELSE IF exp.system = "pringles" THEN "perf" ELSE "wait"
        /\ i' = IF i < Len(Clients) THEN i + 1 ELSE 1
        /\ pc = "launchClient"
    BY <1>4 DEF LaunchClient, Launch, Each
  <2>4. i' \in Nat \ {0} /\ sleep' \in Nat /\ Place'
    BY RemoteAssumption, <1>1, <1>2, <2>1, <2>2, <2>3
  <2>5. QED
    BY <1>1, <2>1, <2>3, <2>4, Move DEF Working
<1>5. CASE WaitClient
  <2>1. UNCHANGED <<campaign, o, e, config, sleep>>
    BY <1>5 DEF WaitClient, Each
  <2>2. exp' = exp
    BY <2>1 DEF exp
  <2>3. /\ pc = "wait" /\ pc' = IF i < Len(Clients) THEN "wait" ELSE "finally"
        /\ i' = IF i < Len(Clients) THEN i + 1 ELSE 1
    BY <1>5 DEF WaitClient, Each
  <2>4. i' \in Nat \ {0} /\ sleep' \in Nat /\ Place'
    BY RemoteAssumption, <1>1, <1>2, <2>1, <2>2, <2>3
  <2>5. QED
    BY <1>1, <2>1, <2>3, <2>4, Move DEF Working
<1>6. CASE CollectLogs
  <2>1. UNCHANGED <<campaign, o, e, config, i, sleep>>
    BY <1>6 DEF CollectLogs
  <2>2. exp' = exp
    BY <2>1 DEF exp
  <2>3. pc = "finally" /\ pc' \in {"aggregate", "crashed"}
    BY <1>6 DEF CollectLogs
  <2>4. i' \in Nat \ {0} /\ sleep' \in Nat /\ Place'
    BY RemoteAssumption, <1>1, <1>2, <2>1, <2>2, <2>3
  <2>5. QED
    BY <1>1, <2>1, <2>3, <2>4, Move DEF Working
<1>7. CASE StartBench
  <2>1. UNCHANGED <<campaign, o, e, config, sleep>>
    BY <1>7 DEF StartBench, Prepare, Raise
  <2>2. exp' = exp
    BY <2>1 DEF exp
  <2>3. pc = "bench" /\ pc' \in {"launchBench", "finally"} /\ i' \in {i, 1}
    BY <1>7 DEF StartBench, Prepare, Raise
  <2>4. i' \in Nat \ {0} /\ sleep' \in Nat /\ Place'
    BY RemoteAssumption, <1>1, <1>2, <2>1, <2>2, <2>3
  <2>5. QED
    BY <1>1, <2>1, <2>3, <2>4, Move DEF Working
<1>8. CASE LaunchBench
  <2>1. UNCHANGED <<campaign, o, e, config, i>> /\ sleep' = 0
    BY <1>8 DEF LaunchBench, Launch
  <2>2. exp' = exp
    BY <2>1 DEF exp
  <2>3. pc = "launchBench" /\ pc' = "client"
    BY <1>8 DEF LaunchBench, Launch
  <2>4. i' \in Nat \ {0} /\ sleep' \in Nat /\ Place'
    BY RemoteAssumption, <1>1, <1>2, <2>1, <2>2, <2>3
  <2>5. QED
    BY <1>1, <2>1, <2>3, <2>4, Move DEF Working
<1>9. CASE StopBench
  <2>1. UNCHANGED <<campaign, o, e, config, i, sleep>>
    BY <1>9 DEF StopBench
  <2>2. exp' = exp
    BY <2>1 DEF exp
  <2>3. pc = "finally" /\ pc' = "aggregate"
    BY <1>9 DEF StopBench
  <2>4. i' \in Nat \ {0} /\ sleep' \in Nat /\ Place'
    BY RemoteAssumption, <1>1, <1>2, <2>1, <2>2, <2>3
  <2>5. QED
    BY <1>1, <2>1, <2>3, <2>4, Move DEF Working
<1>10. QED
  BY <1>3, <1>4, <1>5, <1>6, <1>7, <1>8, <1>9

\* The Scalog cycle.
LEMMA PlaceScalog ==
    ASSUME Control,
           DistributeConfig \/ StartOrder \/ StartDiscovery \/ StartData \/ StartBenchmark \/
           CollectScalog \/ StopScalog
    PROVE  Control'
<1> USE DEF At, Goto, Place, PringlesLabels, BaselineLabels, ClientLabels, ScalogLabels,
            LoopSystems
<1>1. Position /\ Place /\ i \in Nat \ {0} /\ sleep \in Nat
  BY DEF Control, Position
<1>2. Len(Clients) \in Nat \ {0}
  BY RemoteAssumption, ListFacts
<1>3. CASE DistributeConfig
  <2>1. UNCHANGED <<campaign, o, e, config, sleep>>
    BY <1>3 DEF DistributeConfig, Raise
  <2>2. exp' = exp
    BY <2>1 DEF exp
  <2>3. pc = "nodes" /\ pc' \in {"order", "finally"} /\ i' \in {i, 1}
    BY <1>3 DEF DistributeConfig, Raise
  <2>4. i' \in Nat \ {0} /\ sleep' \in Nat /\ Place'
    BY RemoteAssumption, <1>1, <1>2, <2>1, <2>2, <2>3
  <2>5. QED
    BY <1>1, <2>1, <2>3, <2>4, Move DEF Working
<1>4. CASE StartOrder
  <2>1. UNCHANGED <<campaign, o, e, config, i>> /\ sleep' = 0
    BY <1>4 DEF StartOrder, Launch
  <2>2. exp' = exp
    BY <2>1 DEF exp
  <2>3. pc = "order" /\ pc' = "discovery"
    BY <1>4 DEF StartOrder, Launch
  <2>4. i' \in Nat \ {0} /\ sleep' \in Nat /\ Place'
    BY RemoteAssumption, <1>1, <1>2, <2>1, <2>2, <2>3
  <2>5. QED
    BY <1>1, <2>1, <2>3, <2>4, Move DEF Working
<1>5. CASE StartDiscovery
  <2>1. UNCHANGED <<campaign, o, e, config, i>> /\ sleep' = 0
    BY <1>5 DEF StartDiscovery, Launch
  <2>2. exp' = exp
    BY <2>1 DEF exp
  <2>3. pc = "discovery" /\ pc' = "data"
    BY <1>5 DEF StartDiscovery, Launch
  <2>4. i' \in Nat \ {0} /\ sleep' \in Nat /\ Place'
    BY RemoteAssumption, <1>1, <1>2, <2>1, <2>2, <2>3
  <2>5. QED
    BY <1>1, <2>1, <2>3, <2>4, Move DEF Working
<1>6. CASE StartData
  <2>1. UNCHANGED <<campaign, o, e, config, i>> /\ sleep' = 1
    BY <1>6 DEF StartData, Launch
  <2>2. exp' = exp
    BY <2>1 DEF exp
  <2>3. pc = "data" /\ pc' = "perfClient"
    BY <1>6 DEF StartData, Launch
  <2>4. i' \in Nat \ {0} /\ sleep' \in Nat /\ Place'
    BY RemoteAssumption, <1>1, <1>2, <2>1, <2>2, <2>3
  <2>5. QED
    BY <1>1, <2>1, <2>3, <2>4, Move DEF Working
<1>7. CASE StartBenchmark
  <2>1. UNCHANGED <<campaign, o, e, config, i>> /\ sleep' = Duration + 3
    BY <1>7 DEF StartBenchmark, Launch
  <2>2. exp' = exp
    BY <2>1 DEF exp
  <2>3. pc = "perfClient" /\ pc' = "collect"
    BY <1>7 DEF StartBenchmark, Launch
  <2>4. i' \in Nat \ {0} /\ sleep' \in Nat /\ Place'
    BY RemoteAssumption, <1>1, <1>2, <2>1, <2>2, <2>3
  <2>5. QED
    BY <1>1, <2>1, <2>3, <2>4, Move DEF Working
<1>8. CASE CollectScalog
  <2>1. UNCHANGED <<campaign, o, e, config, i, sleep>>
    BY <1>8 DEF CollectScalog
  <2>2. exp' = exp
    BY <2>1 DEF exp
  <2>3. pc = "collect" /\ pc' = "finally"
    BY <1>8 DEF CollectScalog
  <2>4. i' \in Nat \ {0} /\ sleep' \in Nat /\ Place'
    BY RemoteAssumption, <1>1, <1>2, <2>1, <2>2, <2>3
  <2>5. QED
    BY <1>1, <2>1, <2>3, <2>4, Move DEF Working
<1>9. CASE StopScalog
  <2>1. UNCHANGED <<campaign, o, e, config, i, sleep>>
    BY <1>9 DEF StopScalog
  <2>2. exp' = exp
    BY <2>1 DEF exp
  <2>3. pc = "finally" /\ pc' = "aggregate"
    BY <1>9 DEF StopScalog
  <2>4. i' \in Nat \ {0} /\ sleep' \in Nat /\ Place'
    BY RemoteAssumption, <1>1, <1>2, <2>1, <2>2, <2>3
  <2>5. QED
    BY <1>1, <2>1, <2>3, <2>4, Move DEF Working
<1>10. QED
  BY <1>3, <1>4, <1>5, <1>6, <1>7, <1>8, <1>9

\* The merged parameters have the names of the defaults, and the name of the
\* iteration (MergeOverrides).
LEMMA Merged ==
    ASSUME Control, pc = "merge"
    PROVE  LET c == Merge(config, inner[e])
           IN /\ DOMAIN c = DOMAIN exp.defaults
              /\ c.json_name \in JsonNames(exp)
              /\ c.json_name = JsonOf(exp, e)
<1> DEFINE c == Merge(config, inner[e])
<1>1. /\ DOMAIN config = DOMAIN exp.defaults /\ config.json_name \in JsonNames(exp)
      /\ config.json_name = JsonOf(exp, e - 1)
  BY DEF Control, Parameters
<1>2. "json_name" \in DOMAIN config
  BY <1>1, Experiment DEF Control, WellFormed
<1>3. DOMAIN c = DOMAIN config
  BY DEF Merge
<1>4. c.json_name = IF "json_name" \in DOMAIN inner[e] THEN inner[e].json_name
                    ELSE config.json_name
  BY <1>2 DEF Merge
<1>5. c.json_name \in JsonNames(exp)
  <2>1. CASE "json_name" \in DOMAIN inner[e]
    BY <1>4, <2>1, Experiment DEF Control, JsonNames, inner
  <2>2. CASE "json_name" \notin DOMAIN inner[e]
    BY <1>1, <1>4, <2>2
  <2>3. QED
    BY <2>1, <2>2
<1>6. c.json_name = JsonOf(exp, e)
  <2>1. e \in Nat \ {0}
    BY Experiment DEF Control
  <2>2. QED
    BY <1>1, <1>4, <2>1, JsonStep DEF inner
<1>7. QED
  BY <1>1, <1>3, <1>5, <1>6

\* The loop that the cycles share, and main.
LEMMA PlaceLoop ==
    ASSUME Control,
           StartCycle \/ NextExperiment \/ MergeOverrides \/ Aggregate \/
           CheckBrokers \/ StartBrokers
    PROVE  Control'
<1> USE DEF At, PringlesLabels, BaselineLabels, ClientLabels, ScalogLabels, LoopSystems
<1>1. Position /\ Place /\ Parameters /\ i \in Nat \ {0} /\ sleep \in Nat
  BY DEF Control, Position
<1>2. Len(Clients) \in Nat \ {0} /\ Len(Servers) \in Nat \ {0}
  BY RemoteAssumption, ListFacts
<1>3. CASE StartCycle
  <2>1. /\ UNCHANGED <<campaign, o, e, sleep>> /\ i' = 1 /\ config' = exp.defaults
        /\ pc' \in {"crashed", "done", "kafka", "merge"}
        /\ pc' = "merge" => exp.system \in LoopSystems
    BY <1>3 DEF StartCycle, Systems
  <2>2. exp' = exp /\ inner' = inner
    BY <2>1 DEF exp, inner
  <2>3. Place' /\ Position'
    BY <1>1, <2>1, <2>2 DEF Place, Position, Labels, Before1, After1
  <2>4. JsonNames(exp)' = JsonNames(exp) /\ e = 1
    BY <1>1, <1>3, <2>2 DEF JsonNames, StartCycle, Parameters
  <2>5. pc' # "main" /\ pc' \notin Working
    BY <2>1 DEF Working
  <2>6. exp.defaults.json_name \in JsonNames(exp)
    BY DEF JsonNames
  <2>7. Parameters'
    BY <2>1, <2>2, <2>4, <2>5, <2>6, JsonZero DEF Parameters
  <2>8. QED
    BY <2>3, <2>7 DEF Control
<1>4. CASE NextExperiment
  <2>1. UNCHANGED <<campaign, config, i>> /\ pc = "next"
    BY <1>4 DEF NextExperiment
  <2>2. CASE o < Len(campaign)
    <3>1. o' = o + 1 /\ e' = 1 /\ pc' = "main" /\ sleep' = 2
      BY <1>4, <2>2 DEF NextExperiment
    <3>2. o' \in DOMAIN campaign'
      BY <1>1, <2>1, <2>2, <3>1, Experiment
    <3>3. WellFormed(exp')
      BY <1>1, <2>1, <3>2 DEF exp, Position, IsCampaign
    <3>4. 1 \in DOMAIN inner'
      BY <3>3, ListFacts DEF WellFormed, inner
    <3>5. Position'
      BY <1>1, <2>1, <3>1, <3>2, <3>4 DEF Position, Labels, Before1
    <3>6. Place' /\ Parameters'
      BY <3>1 DEF Place, Parameters, Working
    <3>7. QED
      BY <3>5, <3>6 DEF Control
  <2>3. CASE ~(o < Len(campaign))
    <3>1. pc' = "done" /\ UNCHANGED <<o, e, sleep>>
      BY <1>4, <2>3 DEF NextExperiment
    <3>2. inner' = inner
      BY <2>1, <3>1 DEF inner, exp
    <3>3. Position'
      BY <1>1, <2>1, <3>1, <3>2 DEF Position, Labels, After1
    <3>4. Place'
      BY <3>1 DEF Place
    <3>5. Parameters'
      BY <1>1, <2>1, <3>1, StayParameters DEF Working
    <3>6. QED
      BY <3>3, <3>4, <3>5 DEF Control
  <2>4. QED
    BY <2>2, <2>3
<1>5. CASE MergeOverrides
  <2>1. /\ UNCHANGED <<campaign, o, e, sleep>> /\ i' = 1 /\ pc = "merge"
        /\ config' = Merge(config, inner[e]) /\ pc' = FirstPhase(config')
    BY <1>5 DEF MergeOverrides
  <2>2. exp' = exp /\ inner' = inner /\ exp.system \in LoopSystems
    BY <1>1, <2>1 DEF exp, inner, Place
  <2>3. /\ pc' \in {"server", "crashed", "bench", "nodes"}
        /\ pc' = "server" => exp.system = "pringles" /\ ShardsFit(config')
        /\ pc' = "bench" => exp.system = "baseline"
        /\ pc' = "nodes" => exp.system = "scalog" /\ exp.num_shards <= Len(Servers)
    BY <2>1, <2>2 DEF FirstPhase
  <2>4. Position'
    BY <1>1, <2>1, <2>2, <2>3 DEF Position, Labels, Working, After1
  <2>5. ActiveServers(config)' = ActiveServers(config') /\ ShardsFit(config)' = ShardsFit(config')
    BY <2>2 DEF ActiveServers, ShardCount, ShardsFit
  <2>6. ActiveServers(config') \in Nat \ {0}
    BY <1>1, SomeServer
  <2>7. Place'
    BY <2>1, <2>2, <2>3, <2>5, <2>6 DEF Place
  <2>8. JsonNames(exp)' = JsonNames(exp)
    BY <2>2 DEF JsonNames
  <2>9. Parameters'
    BY <2>1, <2>2, <2>3, <2>8, Merged DEF Parameters
  <2>10. QED
    BY <2>4, <2>7, <2>9 DEF Control
<1>6. CASE Aggregate
  <2>1. UNCHANGED <<campaign, o, i, config, sleep>> /\ pc = "aggregate"
    BY <1>6 DEF Aggregate
  <2>2. \/ pc' = "crashed" /\ e' = e
        \/ pc' = "merge" /\ e' = e + 1 /\ e < Len(inner)
        \/ pc' = "next" /\ e' = e
    BY <1>6 DEF Aggregate, EndIteration
  <2>3. exp' = exp /\ inner' = inner /\ exp.system \in LoopSystems
    BY <1>1, <2>1 DEF exp, inner, Place
  <2>4. Position'
    BY <1>1, <2>1, <2>2, <2>3, Experiment DEF Position, Labels, Before1, After1
  <2>5. Place'
    BY <2>2, <2>3 DEF Place
  <2>6. JsonNames(exp)' = JsonNames(exp)
    BY <2>3 DEF JsonNames
  <2>7. config.json_name = JsonOf(exp, e) /\ e \in Nat
    BY <1>1, <2>1, Experiment DEF Parameters, Working
  <2>8. Parameters'
    BY <1>1, <2>1, <2>2, <2>3, <2>6, <2>7 DEF Parameters, Working
  <2>9. QED
    BY <2>4, <2>5, <2>8 DEF Control
<1>7. CASE CheckBrokers \/ StartBrokers
  <2>1. /\ UNCHANGED <<campaign, o, e, config, i, sleep>>
        /\ pc \in {"kafka", "brokers"} /\ pc' \in {"brokers", "crashed", "next"}
    BY <1>7 DEF CheckBrokers, StartBrokers, Goto
  <2>2. exp' = exp /\ inner' = inner
    BY <2>1 DEF exp, inner
  <2>3. Position' /\ Place'
    BY <1>1, <2>1, <2>2 DEF Position, Place, Labels, Before1, After1
  <2>4. Parameters'
    BY <1>1, <2>1, StayParameters DEF Working
  <2>5. QED
    BY <2>3, <2>4 DEF Control
<1>8. QED
  BY <1>3, <1>4, <1>5, <1>6, <1>7

\* Control is where the script is; programs and time do not move it.
LEMMA ControlStep ==
    ASSUME Control, [scriptNext]_vars
    PROVE  Control'
<1>1. CASE Tick \/ machineStep \/ UNCHANGED vars
  <2>1. UNCHANGED <<campaign, pc, o, e, i, config>> /\ sleep' \in Nat
    BY <1>1 DEF Tick, machineStep, vars, scriptVars, Control, Position
  <2>2. exp' = exp /\ inner' = inner
    BY <2>1 DEF exp, inner
  <2>3. Position'
    BY <2>1, <2>2 DEF Control, Position
  <2>4. Place'
    BY <2>1, <2>2, SameServers DEF Control, Place
  <2>5. JsonNames(exp)' = JsonNames(exp)
    BY <2>2 DEF JsonNames
  <2>6. Parameters'
    BY <2>1, <2>2, <2>5 DEF Control, Parameters
  <2>7. QED
    BY <2>3, <2>4, <2>6 DEF Control
<1>2. CASE scriptStep
  BY <1>2, PlaceServer, PlaceClient, PlaceScalog, PlaceLoop DEF scriptStep
<1>3. QED
  BY <1>1, <1>2 DEF scriptNext

\* The script starts before its first experiment.
LEMMA ControlInit ==
    ASSUME campaign \in Campaigns, pc = "main", o = 1, e = 1, i = 1, sleep = 0
    PROVE  Control
<1>1. IsCampaign(campaign)
  BY CampaignAssumption
<1>2. o \in DOMAIN campaign /\ WellFormed(exp)
  BY <1>1, ListFacts DEF IsCampaign, exp
<1>3. e \in DOMAIN inner
  BY <1>2, ListFacts DEF WellFormed, inner
<1>4. Position
  BY <1>1, <1>2, <1>3 DEF Position, Labels, Before1
<1>5. Place
  BY DEF Place, PringlesLabels, BaselineLabels, ClientLabels, ScalogLabels
<1>6. Parameters
  BY DEF Parameters, Working, PringlesLabels, BaselineLabels, ClientLabels, ScalogLabels
<1>7. QED
  BY <1>4, <1>5, <1>6 DEF Control

------------------------------------------------------------------------------
(* Steps                                                                     *)

\* A program of the current experiment; and a program that was q a step ago.
Own(p) == ProgramType(p) /\ p.run = Run /\ p.name = JsonName
Later(p, q) ==
    /\ IsProgram(p)
    /\ p.prog = q.prog /\ p.ip = q.ip /\ p.run = q.run /\ p.name = q.name
    /\ p.todo \subseteq q.todo
    /\ p.left = q.left \/ (q.left > 0 /\ p.left = q.left - 1)

\* The kinds of steps, as far as programs and files go: one of a cycle function
\* at work, one of the machines, one between two experiments.
Work ==
    /\ pc \in Working /\ pc' \in Working \cup {"crashed"}
    /\ pc = "aggregate" => pc' = "crashed"
    /\ UNCHANGED <<home, kept, summaries, campaign, o, e, config>>
    /\ \A p \in running' : p \in running \/ Own(p)
    /\ raw' = raw \/ \E ip \in ClientIps : ResultsArrive(JsonName, ip)
    /\ intact' => intact
Machines ==
    /\ UNCHANGED <<raw, kept, summaries, campaign, pc, o, e, config>>
    /\ \A p \in running' : \E q \in running : Later(p, q)
    /\ \/ home' = home
       \/ \E p \in running : \E t \in p.todo :
              home' = Overwrite(home, ResultFile(p.run, p.name, p.ip, t))
    /\ intact' => intact
Between == StartCycle \/ NextExperiment \/ CheckBrokers \/ StartBrokers

\* A record of Program is a program, with the lifetime it was given.
LEMMA Started ==
    ASSUME NEW prog, NEW ip, NEW copy, NEW life \in Forever .. Duration + 1,
           prog = "client" => ip \in ClientIps
    PROVE  Own(This(prog, ip, copy, life))
BY DEF Own, ProgramType, IsProgram, This, Program

\* The lifetimes that programs are given.
LEMMA Lifetimes ==
    /\ \A prog : final_duration(prog) \in 0 .. Duration + 1
    /\ Duration \in 0 .. Duration + 1 /\ Forever \in Forever .. Duration + 1
    /\ 0 .. Duration + 1 \subseteq Forever .. Duration + 1
<1>1. Duration \in Nat
  BY RemoteAssumption
<1>2. QED
  BY <1>1 DEF final_duration, Forever

\* The steps that start programs.
LEMMA LaunchesWork ==
    ASSUME Control,
           LaunchServer \/ LaunchSwitch \/ LaunchClient \/ LaunchBench \/
           StartOrder \/ StartDiscovery \/ StartData \/ StartBenchmark
    PROVE  Work
<1> USE DEF Working, PringlesLabels, BaselineLabels, ClientLabels, ScalogLabels
<1>1. CASE LaunchServer
  <2> DEFINE ps == {This("server", Servers[i], k, final_duration("server")) : k \in 1 .. 2}
  <2>1. \A p \in ps : Own(p)
    BY Started, Lifetimes
  <2>2. /\ running' = running \cup ps \/ running' = running
        /\ UNCHANGED <<home, raw, kept, summaries>>
        /\ intact' => intact
    BY <1>1 DEF LaunchServer, Launch, execute_remote_command, Fault, localVars, faultVars
  <2>3. /\ UNCHANGED <<campaign, o, e, config>>
        /\ pc \in Working \ {"aggregate"} /\ pc' \in {"server", "client", "switch"}
    BY <1>1 DEF LaunchServer, Launch, At, Each, Goto
  <2>4. QED
    BY <2>1, <2>2, <2>3 DEF Work
<1>2. CASE LaunchSwitch
  <2> DEFINE ps == {This("switch", SwitchIp, 1, final_duration("switch"))}
  <2>1. \A p \in ps : Own(p)
    BY Started, Lifetimes
  <2>2. /\ running' = running \cup ps \/ running' = running
        /\ UNCHANGED <<home, raw, kept, summaries>>
        /\ intact' => intact
    BY <1>2 DEF LaunchSwitch, Launch, execute_remote_command, Fault, localVars, faultVars
  <2>3. /\ UNCHANGED <<campaign, o, e, config>>
        /\ pc \in Working \ {"aggregate"} /\ pc' = "client"
    BY <1>2 DEF LaunchSwitch, Launch, At, Goto
  <2>4. QED
    BY <2>1, <2>2, <2>3 DEF Work
<1>3. CASE LaunchClient
  <2> DEFINE ps == {This("client", Clients[i], 1, final_duration("client"))}
  <2>1. Clients[i] \in ClientIps
    BY <1>3, RemoteAssumption, ListFacts
       DEF LaunchClient, Launch, At, Control, Position, Place, ClientIps
  <2>2. \A p \in ps : Own(p)
    BY <2>1, Started, Lifetimes
  <2>3. /\ running' = running \cup ps \/ running' = running
        /\ UNCHANGED <<home, raw, kept, summaries>>
        /\ intact' => intact
    BY <1>3 DEF LaunchClient, Launch, execute_remote_command, Fault, localVars, faultVars
  <2>4. /\ UNCHANGED <<campaign, o, e, config>>
        /\ pc \in Working \ {"aggregate"} /\ pc' \in {"client", "perf", "wait"}
    BY <1>3 DEF LaunchClient, Launch, At, Each, Goto
  <2>5. QED
    BY <2>2, <2>3, <2>4 DEF Work
<1>4. CASE LaunchBench
  <2> DEFINE ps == {This("switch", SwitchIp, 1, Forever)}
  <2>1. \A p \in ps : Own(p)
    BY Started, Lifetimes
  <2>2. /\ running' = running \cup ps \/ running' = running
        /\ UNCHANGED <<home, raw, kept, summaries>>
        /\ intact' => intact
    BY <1>4 DEF LaunchBench, Launch, execute_remote_command, Fault, localVars, faultVars
  <2>3. /\ UNCHANGED <<campaign, o, e, config>>
        /\ pc \in Working \ {"aggregate"} /\ pc' = "client"
    BY <1>4 DEF LaunchBench, Launch, At, Goto
  <2>4. QED
    BY <2>1, <2>2, <2>3 DEF Work
<1>5. CASE StartOrder
  <2> DEFINE ps == {Node(ip, "order") : ip \in OrderIps}
  <2>1. \A p \in ps : Own(p)
    BY Started, Lifetimes DEF Node
  <2>2. /\ running' = running \cup ps \/ running' = running
        /\ UNCHANGED <<home, raw, kept, summaries>>
        /\ intact' => intact
    BY <1>5 DEF StartOrder, Launch, execute_remote_command, Fault, localVars, faultVars
  <2>3. /\ UNCHANGED <<campaign, o, e, config>>
        /\ pc \in Working \ {"aggregate"} /\ pc' = "discovery"
    BY <1>5 DEF StartOrder, Launch, At, Goto
  <2>4. QED
    BY <2>1, <2>2, <2>3 DEF Work
<1>6. CASE StartDiscovery
  <2> DEFINE ps == {Node(DiscoveryIp, "discovery")}
  <2>1. \A p \in ps : Own(p)
    BY Started, Lifetimes DEF Node
  <2>2. /\ running' = running \cup ps \/ running' = running
        /\ UNCHANGED <<home, raw, kept, summaries>>
        /\ intact' => intact
    BY <1>6 DEF StartDiscovery, Launch, execute_remote_command, Fault, localVars, faultVars
  <2>3. /\ UNCHANGED <<campaign, o, e, config>>
        /\ pc \in Working \ {"aggregate"} /\ pc' = "data"
    BY <1>6 DEF StartDiscovery, Launch, At, Goto
  <2>4. QED
    BY <2>1, <2>2, <2>3 DEF Work
<1>7. CASE StartData
  <2> DEFINE ps == {Node(ip, s) : ip \in DataIps, s \in 1 .. exp.num_shards}
  <2>1. \A p \in ps : Own(p)
    BY Started, Lifetimes DEF Node
  <2>2. /\ running' = running \cup ps \/ running' = running
        /\ UNCHANGED <<home, raw, kept, summaries>>
        /\ intact' => intact
    BY <1>7 DEF StartData, Launch, execute_remote_command, Fault, localVars, faultVars
  <2>3. /\ UNCHANGED <<campaign, o, e, config>>
        /\ pc \in Working \ {"aggregate"} /\ pc' = "perfClient"
    BY <1>7 DEF StartData, Launch, At, Goto
  <2>4. QED
    BY <2>1, <2>2, <2>3 DEF Work
<1>8. CASE StartBenchmark
  <2> DEFINE ps == {[This("client", Clients[1], "perf", Duration) EXCEPT !.prog = "scalog"]}
  <2>1. Clients[1] \in ClientIps
    BY RemoteAssumption, ListFacts DEF ClientIps
  <2>2. \A p \in ps : Own(p)
    BY <2>1, Lifetimes DEF Own, ProgramType, IsProgram, This, Program
  <2>3. /\ running' = running \cup ps \/ running' = running
        /\ UNCHANGED <<home, raw, kept, summaries>>
        /\ intact' => intact
    BY <1>8 DEF StartBenchmark, Launch, execute_remote_command, Fault, localVars, faultVars
  <2>4. /\ UNCHANGED <<campaign, o, e, config>>
        /\ pc \in Working \ {"aggregate"} /\ pc' = "collect"
    BY <1>8 DEF StartBenchmark, Launch, At, Goto
  <2>5. QED
    BY <2>2, <2>3, <2>4 DEF Work
<1>9. QED
  BY <1>1, <1>2, <1>3, <1>4, <1>5, <1>6, <1>7, <1>8

\* The steps that prepare a program: they send a kill and change no program.
LEMMA PreparesWork ==
    ASSUME StartServer \/ StartSwitch \/ StartClient \/ StartBench \/
           DistributeConfig \/ RunPerf
    PROVE  Work
<1>1. UNCHANGED <<running, home, raw, kept, summaries, campaign, o, e, config>>
  BY DEF StartServer, StartSwitch, StartClient, StartBench, DistributeConfig, RunPerf,
         Prepare, Raise, Fault, Goto, remoteVars, localVars, faultVars
<1>2. intact' => intact
  BY DEF StartServer, StartSwitch, StartClient, StartBench, DistributeConfig, RunPerf,
         Prepare, Raise, Fault, faultVars
<1>3. /\ pc \in {"server", "switch", "client", "bench", "nodes", "perf"}
      /\ pc' \in {"launchServer", "launchSwitch", "launchClient", "launchBench",
                  "order", "wait", "finally"}
  BY DEF StartServer, StartSwitch, StartClient, StartBench, DistributeConfig, RunPerf,
         Prepare, Raise, Goto, At
<1>4. pc \in Working \ {"aggregate"} /\ pc' \in Working
  BY <1>3 DEF Working, PringlesLabels, BaselineLabels, ClientLabels, ScalogLabels
<1>5. QED
  BY <1>1, <1>2, <1>4 DEF Work

\* The steps that copy results and logs.
LEMMA CopiesWork ==
    ASSUME Control, WaitClient \/ CollectScalog \/ CollectLogs
    PROVE  Work
<1>1. UNCHANGED <<running, home, kept, summaries, campaign, o, e, config>>
  BY DEF WaitClient, CollectScalog, CollectLogs, Each, Goto, remoteVars
<1>2. intact' => intact
  BY DEF WaitClient, CollectScalog, CollectLogs, copy_results_back, copy_log_file_back,
         LogsArrive, Fault, faultVars
<1>3. raw' = raw \/ \E ip \in ClientIps : ResultsArrive(JsonName, ip)
  <2>1. CASE WaitClient
    <3>1. Clients[i] \in ClientIps
      BY <2>1, RemoteAssumption, ListFacts
         DEF WaitClient, At, Control, Position, Place, ClientIps, ClientLabels
    <3>2. raw' = raw \/ ResultsArrive(JsonName, Clients[i])
      BY <2>1 DEF WaitClient, copy_results_back
    <3>3. QED
      BY <3>1, <3>2
  <2>2. CASE CollectScalog
    <3>1. Clients[1] \in ClientIps
      BY RemoteAssumption, ListFacts DEF ClientIps
    <3>2. raw' = raw \/ ResultsArrive(JsonName, Clients[1])
      BY <2>2 DEF CollectScalog, copy_results_back
    <3>3. QED
      BY <3>1, <3>2
  <2>3. CASE CollectLogs
    BY <2>3 DEF CollectLogs
  <2>4. QED
    BY <2>1, <2>2, <2>3
<1>4. /\ pc \in {"wait", "collect", "finally"}
      /\ pc' \in {"wait", "finally", "aggregate", "crashed"}
  BY DEF WaitClient, CollectScalog, CollectLogs, Each, Goto, At
<1>5. pc \in Working \ {"aggregate"} /\ pc' \in Working \cup {"crashed"}
  BY <1>4 DEF Working, PringlesLabels, BaselineLabels, ClientLabels, ScalogLabels
<1>6. QED
  BY <1>1, <1>2, <1>3, <1>5 DEF Work

\* The steps that stop what would run for ever.
LEMMA StopsWork ==
    ASSUME StopBench \/ StopScalog
    PROVE  Work
<1>1. /\ UNCHANGED <<home, raw, kept, summaries, campaign, o, e, config>>
      /\ running' \subseteq running
  BY DEF StopBench, StopScalog, kill_remote_process, Goto, localVars
<1>2. intact' => intact
  BY DEF StopBench, StopScalog, kill_remote_process, Fault, faultVars
<1>3. pc = "finally" /\ pc' = "aggregate"
  BY DEF StopBench, StopScalog, Goto, At
<1>4. QED
  BY <1>1, <1>2, <1>3 DEF Work, Working

\* An iteration whose logs collide with earlier ones ends the script.
LEMMA CrashWork ==
    ASSUME Aggregate, pc' = "crashed"
    PROVE  Work
<1>1. UNCHANGED <<running, home, localVars, campaign, o, e, config, intact>>
  BY DEF Aggregate, EndIteration, remoteVars, faultVars
<1>2. pc = "aggregate"
  BY DEF Aggregate, At
<1>3. QED
  BY <1>1, <1>2 DEF Work, Working, localVars

\* Programs end, write their files, are killed or get older.
LEMMA MachinesStep ==
    ASSUME Typed, Tick \/ machineStep
    PROVE  Machines
<1>1. \A p \in running : IsProgram(p) /\ p.left \in Int
  <2>1. Duration \in Nat
    BY RemoteAssumption
  <2>2. QED
    BY <2>1 DEF Typed, ProgramType, Forever
<1>2. UNCHANGED <<raw, kept, summaries, campaign, pc, o, e, config>>
  BY DEF Tick, machineStep, localVars, scriptVars
<1>3. \A p \in running : Later(p, p)
  BY <1>1 DEF Later
<1>4. CASE Tick
  <2>1. ASSUME NEW p \in running
        PROVE  Later(Older(p), p)
    BY <1>1, <2>1 DEF Later, Older, IsProgram
  <2>2. /\ running' = {Older(p) : p \in running} /\ home' = home
        /\ intact' = intact
    BY <1>4 DEF Tick, TimePasses, faultVars
  <2>3. \A p \in running' : \E q \in running : Later(p, q)
    BY <2>1, <2>2
  <2>4. QED
    BY <1>2, <2>2, <2>3 DEF Machines
<1>5. CASE KillArrives
  <2>1. running' \subseteq running /\ home' = home
    BY <1>5 DEF KillArrives
  <2>2. intact' => intact
    BY <1>5 DEF KillArrives, Fault
  <2>3. QED
    BY <1>2, <1>3, <2>1, <2>2 DEF Machines
<1>6. CASE WriteResult
  <2>1. PICK p \in running : \E t \in p.todo :
            /\ home' = Overwrite(home, ResultFile(p.run, p.name, p.ip, t))
            /\ running' = (running \ {p}) \cup {[p EXCEPT !.todo = @ \ {t}]}
            /\ intact' = intact
    BY <1>6 DEF WriteResult, faultVars
  <2> PICK t \in p.todo :
            /\ home' = Overwrite(home, ResultFile(p.run, p.name, p.ip, t))
            /\ running' = (running \ {p}) \cup {[p EXCEPT !.todo = @ \ {t}]}
            /\ intact' = intact
    BY <2>1
  <2>2. Later([p EXCEPT !.todo = @ \ {t}], p)
    BY <1>1 DEF Later, IsProgram
  <2>3. \A q \in running' : \E r \in running : Later(q, r)
    BY <1>3, <2>1, <2>2
  <2>4. QED
    BY <1>2, <2>1, <2>3 DEF Machines
<1>7. CASE ProgramEnds
  <2>1. running' \subseteq running /\ home' = home /\ intact' = intact
    BY <1>7 DEF ProgramEnds, faultVars
  <2>2. QED
    BY <1>2, <1>3, <2>1 DEF Machines
<1>8. QED
  BY <1>4, <1>5, <1>6, <1>7 DEF machineStep

\* A step that changes nothing is one of the machines as well.
LEMMA StutterStep ==
    ASSUME Typed, UNCHANGED vars
    PROVE  Machines
<1>1. \A p \in running : Later(p, p)
  BY DEF Typed, ProgramType, Later
<1>2. QED
  BY <1>1 DEF vars, remoteVars, localVars, faultVars, scriptVars, Machines

\* Every step is of one of these kinds.
LEMMA Kinds ==
    ASSUME Control, Programs, scriptNext
    PROVE  Work \/ Machines \/ Between \/ MergeOverrides \/ (Aggregate /\ pc' # "crashed")
<1>1. CASE Tick \/ machineStep
  BY <1>1, MachinesStep DEF Programs
<1>2. CASE scriptStep
  BY <1>2, LaunchesWork, PreparesWork, CopiesWork, StopsWork, CrashWork
     DEF scriptStep, Between
<1>3. QED
  BY <1>1, <1>2 DEF scriptNext

------------------------------------------------------------------------------
(* Experiments that have begun                                               *)

\* Names and their order are those of the campaign, which does not change.
LEMMA SameCampaign ==
    ASSUME UNCHANGED campaign
    PROVE  /\ Runs' = Runs /\ Names' = Names
           /\ \A r : NameOf(r)' = NameOf(r) /\ Earlier(r)' = Earlier(r)
           /\ \A r : (Fresh(r)' <=> Fresh(r)) /\ (Clean(r)' <=> Clean(r))
           /\ \A r : NameSafe(r)' <=> NameSafe(r)
           /\ \A ips, threads : FileType(ips, threads)' = FileType(ips, threads)
<1>1. Runs' = Runs
  BY DEF Runs
<1>2. Names' = Names
  BY DEF Names, NamesOf, JsonNames
<1>3. \A r : NameOf(r)' = NameOf(r)
  BY DEF NameOf
<1>4. \A r : Earlier(r)' = Earlier(r)
  BY <1>1 DEF Earlier
<1>5. \A r : Fresh(r)' <=> Fresh(r)
  BY <1>3, <1>4 DEF Fresh
<1>6. \A r : Clean(r)' <=> Clean(r)
  BY <1>4, <1>5 DEF Clean
<1>7. \A r : NameSafe(r)' <=> NameSafe(r)
  BY <1>3, <1>4, <1>5 DEF NameSafe
<1>8. \A ips, threads : FileType(ips, threads)' = FileType(ips, threads)
  BY <1>1, <1>2 DEF FileType
<1>9. QED
  BY <1>1, <1>2, <1>3, <1>4, <1>5, <1>6, <1>7, <1>8

\* An experiment is a pair of numbers.
LEMMA RunFacts ==
    ASSUME Position
    PROVE  \A q \in Runs : q = <<q[1], q[2]>> /\ q[1] \in Nat \ {0} /\ q[2] \in Nat \ {0}
<1>1. DOMAIN campaign = 1 .. Len(campaign) /\ Len(campaign) \in Nat
  BY Experiment
<1>2. ASSUME NEW a \in DOMAIN campaign
      PROVE  DOMAIN campaign[a].inner \subseteq Nat \ {0}
  BY <1>2, ListFacts DEF Position, IsCampaign, WellFormed
<1>3. QED
  BY <1>1, <1>2 DEF Runs

\* The name that the script works under is the one of the experiment.
LEMMA Naming ==
    ASSUME Control, pc \in Working
    PROVE  Named(JsonName, Run) /\ Begun(Run)
<1>1. /\ config.json_name = JsonOf(exp, e)
      /\ config.json_name \in JsonNames(exp)
  BY DEF Control, Parameters, Working, PringlesLabels, BaselineLabels, ClientLabels,
         ScalogLabels
<1>2. JsonName = NameOf(Run)
  BY <1>1, NameOfJson DEF JsonName, Run, exp
<1>3. JsonName \in Names
  BY <1>1 DEF JsonName, Names, NamesOf, exp, Control, Position
<1>4. Begun(Run)
  BY Experiment DEF Begun, Control, Working, Before1, PringlesLabels, BaselineLabels,
                    ClientLabels, ScalogLabels
<1>5. QED
  BY <1>2, <1>3, <1>4 DEF Named

\* The script goes through the experiments in their order.
Advance ==
    \/ /\ UNCHANGED <<o, e>>
       /\ pc \notin Before1 => pc' \notin Before1
       /\ pc \in After1 => pc' \in After1
    \/ o' = o /\ e' = e + 1 /\ pc' = "merge"
    \/ o' = o + 1 /\ e' = 1 /\ pc' = "main"

\* The script only moves forward in its campaign.
LEMMA AdvanceStep ==
    ASSUME Control, Work \/ Machines \/ Between \/ MergeOverrides \/ Aggregate
    PROVE  Advance /\ UNCHANGED campaign
<1> USE DEF Working, PringlesLabels, BaselineLabels, ClientLabels, ScalogLabels, Before1,
            After1
<1>1. CASE Work
  BY <1>1 DEF Work, Advance
<1>2. CASE Machines
  BY <1>2 DEF Machines, Advance
<1>3. CASE StartCycle
  BY <1>3 DEF StartCycle, At, Advance
<1>4. CASE NextExperiment
  BY <1>4 DEF NextExperiment, At, Advance
<1>5. CASE CheckBrokers \/ StartBrokers
  BY <1>5 DEF CheckBrokers, StartBrokers, At, Goto, Advance
<1>6. CASE MergeOverrides
  <2>1. pc' \in {"server", "crashed", "bench", "nodes"}
    BY <1>6 DEF MergeOverrides, FirstPhase, At, Control, Place, LoopSystems
  <2>2. QED
    BY <1>6, <2>1 DEF MergeOverrides, At, Advance
<1>7. CASE Aggregate
  BY <1>7 DEF Aggregate, EndIteration, At, Advance
<1>8. QED
  BY <1>1, <1>2, <1>3, <1>4, <1>5, <1>6, <1>7 DEF Between

\* What has begun stays begun, what is summarised or left stays so.
LEMMA BegunStep ==
    ASSUME Control, Work \/ Machines \/ Between \/ MergeOverrides \/ Aggregate
    PROVE  \A q : (Begun(q) => Begun(q)') /\ (Passed(q) => Passed(q)')
<1>1. Advance /\ UNCHANGED campaign
  BY AdvanceStep
<1>2. Runs' = Runs
  BY <1>1, SameCampaign
<1>3. o \in Nat \ {0} /\ e \in Nat \ {0}
  BY Experiment DEF Control
<1>4. \A q \in Runs : q = <<q[1], q[2]>> /\ q[1] \in Nat \ {0} /\ q[2] \in Nat \ {0}
  BY RunFacts DEF Control
<1>5. ASSUME NEW q, Begun(q)
      PROVE  Begun(q)'
  BY <1>1, <1>2, <1>3, <1>4, <1>5 DEF Begun, Before, Run, Advance, Before1
<1>6. ASSUME NEW q, Passed(q)
      PROVE  Passed(q)'
  BY <1>1, <1>2, <1>3, <1>4, <1>6 DEF Passed, Before, Run, Advance, After1
<1>7. QED
  BY <1>5, <1>6

\* The experiment that has been summarised is one of those.
LEMMA SummarisedStep ==
    ASSUME Control, Aggregate, pc' # "crashed"
    PROVE  \A q : q = Run => Passed(q)'
<1>1. Run \in Runs /\ o \in Nat \ {0} /\ e \in Nat \ {0}
  BY Experiment DEF Control
<1>2. Runs' = Runs
  BY SameCampaign DEF Aggregate
<1>3. o' = o /\ ((e' = e + 1 /\ pc' = "merge") \/ (e' = e /\ pc' = "next"))
  BY DEF Aggregate, EndIteration
<1>4. QED
  BY <1>1, <1>2, <1>3 DEF Passed, Before, Run, After1

------------------------------------------------------------------------------
(* Data                                                                      *)

\* A program stays one while it gets older and writes its files.
LEMMA LaterType ==
    ASSUME NEW p, NEW q, ProgramType(q), Later(p, q)
    PROVE  ProgramType(p)
<1>1. Duration \in Nat
  BY RemoteAssumption
<1>2. QED
  BY <1>1 DEF ProgramType, Later, Forever

\* The names of programs and files go on belonging to experiments that have begun.
LEMMA BegunNamed ==
    ASSUME Control, Work \/ Machines \/ Between \/ MergeOverrides \/ Aggregate
    PROVE  \A n, q : Begun(q) /\ Named(n, q) => Begun(q)' /\ Named(n, q)'
<1>1. Names' = Names /\ \A q : NameOf(q)' = NameOf(q)
  BY AdvanceStep, SameCampaign
<1>2. \A n, q : Named(n, q) => Named(n, q)'
  BY <1>1 DEF Named
<1>3. QED
  BY <1>2, BegunStep

\* Programs go on belonging to experiments that have begun.
LEMMA ProgramsStep ==
    ASSUME Control, Programs,
           Work \/ Machines \/ Between \/ MergeOverrides \/ Aggregate
    PROVE  Programs'
<1>1. ASSUME NEW p \in running'
      PROVE  ProgramType(p) /\ Begun(p.run) /\ Named(p.name, p.run)
  <2>1. CASE Work
    <3>1. CASE p \in running
      BY <3>1 DEF Programs, Typed
    <3>2. CASE Own(p)
      BY <2>1, <3>2, Naming DEF Own, Work
    <3>3. QED
      BY <2>1, <3>1, <3>2 DEF Work
  <2>2. CASE Machines
    <3>1. PICK q \in running : Later(p, q)
      BY <2>2 DEF Machines
    <3>2. ProgramType(q) /\ Begun(q.run) /\ Named(q.name, q.run)
      BY DEF Programs, Typed
    <3>3. p.run = q.run /\ p.name = q.name
      BY <3>1 DEF Later
    <3>4. QED
      BY <3>1, <3>2, <3>3, LaterType
  <2>3. CASE Between \/ MergeOverrides \/ Aggregate
    <3>1. running' = running
      BY <2>3 DEF Between, StartCycle, NextExperiment, CheckBrokers, StartBrokers,
                  MergeOverrides, Aggregate, remoteVars
    <3>2. QED
      BY <3>1 DEF Programs, Typed
  <2>4. QED
    BY <2>1, <2>2, <2>3
<1>2. \A p : ProgramType(p) => ProgramType(p)'
  BY DEF ProgramType, IsProgram
<1>3. QED
  BY <1>1, <1>2, BegunNamed DEF Programs, Typed

\* What the script copies are files of the machines.
LEMMA CopiedType ==
    ASSUME Files, NEW n, NEW ip
    PROVE  \A f \in Copied(n, ip) : f \in FileType(ClientIps \cup {"summary"}, Threads \cup {0})
<1>1. \A f \in Copied(n, ip) : f \in FileType(ClientIps, Threads)
  BY DEF Copied, Files
<1>2. QED
  BY <1>1 DEF FileType

\* So do the files on the machines.
LEMMA HomeStep ==
    ASSUME Control, Programs, Files,
           Work \/ Machines \/ Between \/ MergeOverrides \/ Aggregate
    PROVE  \A f \in home' : /\ f \in FileType(ClientIps, Threads)
                            /\ Begun(f.run) /\ Named(f.name, f.run)
<1>1. CASE home' = home
  BY <1>1 DEF Files
<1>2. CASE \E p \in running : \E t \in p.todo :
               home' = Overwrite(home, ResultFile(p.run, p.name, p.ip, t))
  <2>1. PICK p \in running : \E t \in p.todo :
                 home' = Overwrite(home, ResultFile(p.run, p.name, p.ip, t))
    BY <1>2
  <2>2. PICK t \in p.todo : home' = Overwrite(home, ResultFile(p.run, p.name, p.ip, t))
    BY <2>1
  <2>3. /\ p.run \in Runs /\ p.name \in Names /\ p.ip \in ClientIps /\ t \in Threads
        /\ Begun(p.run) /\ Named(p.name, p.run)
    BY DEF Programs, Typed, ProgramType, Begun, Named
  <2>4. ASSUME NEW f, f = ResultFile(p.run, p.name, p.ip, t)
        PROVE  f \in FileType(ClientIps, Threads) /\ Begun(f.run) /\ Named(f.name, f.run)
    BY <2>3, <2>4 DEF FileType, ResultFile
  <2>5. \A f \in home' : f \in home \/ f = ResultFile(p.run, p.name, p.ip, t)
    BY <2>2 DEF Overwrite
  <2>6. QED
    BY <2>4, <2>5 DEF Files
<1>3. home' = home \/ Machines
  BY DEF Work, Between, StartCycle, NextExperiment, CheckBrokers, StartBrokers,
         MergeOverrides, Aggregate, remoteVars
<1>4. QED
  BY <1>1, <1>2, <1>3 DEF Machines

\* Aggregate leaves results in the directory and adds at most a summary.
LEMMA RawStep ==
    ASSUME Control, Files,
           Work \/ Machines \/ Between \/ MergeOverrides \/ Aggregate
    PROVE  \A f \in raw' : f \in FileType(ClientIps \cup {"summary"}, Threads \cup {0})
<1>1. CASE raw' = raw
  BY <1>1 DEF Files
<1>2. CASE Work
  <2>1. CASE \E ip \in ClientIps : ResultsArrive(JsonName, ip)
    BY <2>1, CopiedType DEF ResultsArrive, Files
  <2>2. QED
    BY <1>1, <1>2, <2>1 DEF Work
<1>3. CASE Aggregate
  <2>1. raw' = raw \/ WriteSummary(Run, JsonName)
    BY <1>3 DEF Aggregate, process_and_aggregate_results, localVars
  <2>2. CASE WriteSummary(Run, JsonName)
    <3>1. \A f \in raw' : f \in raw \/ f = SummaryFile(Run, JsonName)
      BY <2>2 DEF WriteSummary, Overwrite
    <3>2. pc \in Working
      BY <1>3 DEF Aggregate, At, Working
    <3>3. JsonName \in Names /\ Run \in Runs
      BY <3>2, Naming, Experiment DEF Named, Control
    <3>4. SummaryFile(Run, JsonName) \in FileType(ClientIps \cup {"summary"}, Threads \cup {0})
      BY <3>3 DEF SummaryFile, ResultFile, FileType
    <3>5. QED
      BY <3>1, <3>4 DEF Files
  <2>3. QED
    BY <1>1, <2>1, <2>2
<1>4. raw' = raw \/ Work \/ Aggregate
  BY DEF Machines, Between, StartCycle, NextExperiment, CheckBrokers, StartBrokers,
         MergeOverrides, localVars
<1>5. QED
  BY <1>1, <1>2, <1>3, <1>4

\* So do the files that have been copied.
LEMMA FilesStep ==
    ASSUME Control, Programs, Files,
           Work \/ Machines \/ Between \/ MergeOverrides \/ Aggregate
    PROVE  Files'
<1>1. \A ips, threads : FileType(ips, threads)' = FileType(ips, threads)
  BY AdvanceStep, SameCampaign
<1>2. QED
  BY <1>1, HomeStep, RawStep, BegunNamed DEF Files

\* Results and summaries get the name of the experiment that is summarised.
LEMMA ResultsStep ==
    ASSUME Control, Results,
           Work \/ Machines \/ Between \/ MergeOverrides \/ (Aggregate /\ pc' # "crashed")
    PROVE  Results'
<1>1. Runs' = Runs /\ \A q : NameOf(q)' = NameOf(q)
  BY AdvanceStep, SameCampaign
<1>2. \A q : Passed(q) => Passed(q)'
  BY BegunStep
<1>3. CASE kept' = kept /\ summaries' = summaries
  BY <1>1, <1>2, <1>3 DEF Results
<1>4. CASE Aggregate /\ pc' # "crashed" /\ WriteSummary(Run, JsonName)
  <2>1. PICK r : r = Run
    OBVIOUS
  <2>2. PICK n : n = JsonName
    OBVIOUS
  <2>3. Passed(r)' /\ r \in Runs
    BY <1>4, <2>1, SummarisedStep, Experiment DEF Control
  <2>4. n = NameOf(r)
    BY <1>4, <2>1, <2>2, Naming DEF Named, Aggregate, At, Working
  <2>5. \A x \in kept' : x \in kept \/ x[1] = n
    BY <1>4, <2>2 DEF WriteSummary
  <2>6. \A s \in summaries' : s \in summaries \/ (s.run = r /\ s.name = n)
    BY <1>4, <2>1, <2>2 DEF WriteSummary, ReplaceSummary, Summary
  <2>7. \A x \in kept' : \E q \in Runs : Passed(q)' /\ x[1] = NameOf(q)
    BY <1>2, <2>3, <2>4, <2>5 DEF Results
  <2>8. \A s \in summaries' : Passed(s.run)' /\ s.name = NameOf(s.run)
    BY <1>2, <2>3, <2>4, <2>6 DEF Results
  <2>9. QED
    BY <1>1, <2>7, <2>8 DEF Results
<1>5. (kept' = kept /\ summaries' = summaries) \/ (Aggregate /\ WriteSummary(Run, JsonName))
  BY DEF Work, Machines, Between, StartCycle, NextExperiment, CheckBrokers, StartBrokers,
         MergeOverrides, Aggregate, process_and_aggregate_results, localVars
<1>6. CASE Aggregate /\ pc' # "crashed"
  BY <1>3, <1>4, <1>5, <1>6
<1>7. CASE Work \/ Machines \/ Between \/ MergeOverrides
  BY <1>3, <1>7 DEF Work, Machines, Between, StartCycle, NextExperiment, CheckBrokers,
                    StartBrokers, MergeOverrides, localVars
<1>8. QED
  BY <1>6, <1>7

\* The experiments before the next one are this one and those before it.
LEMMA CleanBefore ==
    ASSUME Control, NEW r, r \in Runs, Before(Run, r), Clean(r)
    PROVE  Clean(Run) /\ Fresh(Run)
<1>1. Run \in Runs
  BY Experiment DEF Control
<1>2. \A q \in Runs : q[1] \in Nat /\ q[2] \in Nat
  BY RunFacts DEF Control
<1>3. \A q \in Runs : Before(q, Run) => Before(q, r)
  BY <1>1, <1>2 DEF Before
<1>4. Earlier(Run) \subseteq Earlier(r) /\ Run \in Earlier(r)
  BY <1>1, <1>3 DEF Earlier
<1>5. QED
  BY <1>4 DEF Clean

\* A summary takes all results out of the directory, if no earlier experiment
\* had its name and the summary does not look like a result.
LEMMA AggregateCleans ==
    ASSUME Control, Results, Aggregate, pc' # "crashed", Fresh(Run)
    PROVE  raw' = {}
<1>1. pc = "aggregate" /\ JsonName = NameOf(Run)
  BY Naming DEF Named, Aggregate, At, Working
<1>2. ASSUME NEW x \in kept, x[1] = JsonName
      PROVE  FALSE
  <2>1. PICK q \in Runs : Passed(q) /\ x[1] = NameOf(q)
    BY DEF Results
  <2>2. q \in Earlier(Run)
    BY <1>1, <2>1 DEF Passed, Earlier, After1
  <2>3. QED
    BY <1>1, <1>2, <2>1, <2>2 DEF Fresh
<1>3. ~LooksRaw(JsonName)
  BY <1>1 DEF Fresh
<1>4. (raw' = raw /\ raw = {}) \/ WriteSummary(Run, JsonName)
  BY DEF Aggregate, process_and_aggregate_results, localVars
<1>5. CASE WriteSummary(Run, JsonName)
  <2>1. {f \in raw : Stays(JsonName, f)} = {}
    BY <1>2 DEF Stays
  <2>2. QED
    BY <1>3, <1>5, <2>1 DEF WriteSummary
<1>6. QED
  BY <1>4, <1>5

\* What is copied under a safe name was measured by the experiment of that name.
LEMMA CopiedOwn ==
    ASSUME Control, Files, pc \in Working, NameSafe(Run), NEW ip
    PROVE  \A f \in Copied(JsonName, ip) : f.run = Run
<1>1. JsonName = NameOf(Run)
  BY Naming DEF Named
<1>2. ASSUME NEW f \in Copied(JsonName, ip), f.run # Run
      PROVE  FALSE
  <2>1. f \in home /\ Matches(JsonName, f.name)
    BY DEF Copied
  <2>2. Begun(f.run) /\ f.name = NameOf(f.run)
    BY <2>1 DEF Files, Named
  <2>3. f.run \in Earlier(Run)
    BY <1>2, <2>2 DEF Begun, Earlier
  <2>4. QED
    BY <1>1, <2>1, <2>2, <2>3 DEF NameSafe
<1>3. QED
  BY <1>2

\* What holds of the next experiment, in terms of that experiment.
LEMMA NextRun ==
    ASSUME UNCHANGED campaign, NEW r, r = Run'
    PROVE  /\ Clean(Run)' <=> Clean(r)
           /\ Fresh(Run)' <=> Fresh(r)
           /\ NameSafe(Run)' <=> NameSafe(r)
<1>1. Earlier(Run)' = Earlier(r)
  <2>1. Runs' = Runs
    BY SameCampaign
  <2>2. QED
    BY <2>1 DEF Earlier, Before
<1>2. \A q : NameOf(q)' = NameOf(q) /\ (Fresh(q)' <=> Fresh(q))
  BY SameCampaign
<1>3. NameOf(Run)' = NameOf(r)
  BY DEF NameOf
<1>4. Clean(Run)' <=> Clean(r)
  BY <1>1, <1>2 DEF Clean
<1>5. Fresh(Run)' <=> Fresh(r)
  BY <1>1, <1>2, <1>3 DEF Fresh
<1>6. NameSafe(Run)' <=> NameSafe(r)
  BY <1>1, <1>2, <1>3 DEF NameSafe
<1>7. QED
  BY <1>4, <1>5, <1>6

\* Nothing of an earlier experiment is in the directory when the next begins.
LEMMA DirectoryStep ==
    ASSUME Control, Data, Directory,
           Work \/ Machines \/ Between \/ MergeOverrides \/ (Aggregate /\ pc' # "crashed")
    PROVE  Directory'
<1>1. PICK r : r = Run'
  OBVIOUS
<1>2. UNCHANGED campaign
  BY AdvanceStep
<1>3. /\ Clean(Run)' <=> Clean(r)
      /\ Fresh(Run)' <=> Fresh(r)
      /\ NameSafe(Run)' <=> NameSafe(r)
  BY <1>1, <1>2, NextRun
<1>4. "next" \notin Working /\ "next" \notin Before1
      /\ Working \cap Before1 = {} /\ "crashed" \notin Working \cup Before1 \cup {"next"}
      /\ "done" \notin Working \cup Before1 \cup {"next"}
  BY DEF Working, Before1, PringlesLabels, BaselineLabels, ClientLabels, ScalogLabels
<1>5. CASE Work
  <2>1. r = Run /\ pc \in Working /\ pc' \in Working \cup {"crashed"}
    BY <1>1, <1>5 DEF Work, Run
  <2>2. ASSUME NameSafe(r)
        PROVE  \A f \in raw' : f.run = r
    <3>1. \A f \in raw : f.run = r
      BY <2>1, <2>2 DEF Directory
    <3>2. \A ip : \A f \in Copied(JsonName, ip) : f.run = r
      BY <2>1, <2>2, CopiedOwn DEF Data
    <3>3. QED
      BY <1>5, <3>1, <3>2 DEF Work, ResultsArrive
  <2>3. QED
    BY <1>1, <1>3, <1>4, <2>1, <2>2 DEF Directory
<1>6. CASE Machines
  <2>1. r = Run /\ UNCHANGED <<pc, raw>>
    BY <1>1, <1>6 DEF Machines, Run
  <2>2. QED
    BY <1>1, <1>3, <2>1 DEF Directory
<1>7. CASE StartCycle \/ CheckBrokers \/ StartBrokers
  <2>1. r = Run /\ UNCHANGED raw /\ pc \in Before1 /\ pc' \in Before1 \cup After1
    BY <1>1, <1>7 DEF StartCycle, CheckBrokers, StartBrokers, localVars, At, Goto, Run,
                      Before1, After1
  <2>2. QED
    BY <1>1, <1>3, <1>4, <2>1 DEF Directory, After1
<1>8. CASE NextExperiment
  <2>1. UNCHANGED raw /\ pc = "next"
    BY <1>8 DEF NextExperiment, localVars, At
  <2>2. CASE pc' = "main"
    <3>1. o' = o + 1 /\ e' = 1 /\ o < Len(campaign)
      BY <1>8, <2>2 DEF NextExperiment
    <3>2. Before(Run, r) /\ r \in Runs
      <4>1. o \in Nat
        BY Experiment DEF Control
      <4>2. WellFormed(campaign[o + 1]) /\ o + 1 \in DOMAIN campaign
        BY <3>1, <4>1, Experiment DEF Control, Position, IsCampaign
      <4>3. 1 \in DOMAIN campaign[o + 1].inner
        BY <4>2, ListFacts DEF WellFormed
      <4>4. QED
        BY <1>1, <3>1, <4>1, <4>2, <4>3 DEF Before, Run, Runs
    <3>3. QED
      BY <1>1, <1>3, <1>4, <2>1, <2>2, <3>2, CleanBefore DEF Directory, Before1
  <2>3. CASE pc' = "done"
    BY <1>4, <2>3 DEF Directory
  <2>4. QED
    BY <1>8, <2>2, <2>3 DEF NextExperiment
<1>9. CASE MergeOverrides
  <2>1. r = Run /\ UNCHANGED raw /\ pc = "merge"
    BY <1>1, <1>9 DEF MergeOverrides, localVars, Run, At
  <2>2. pc' \in {"server", "crashed", "bench", "nodes"}
    BY <1>9 DEF MergeOverrides, FirstPhase, At, Control, Place, LoopSystems
  <2>3. NameSafe(r) => raw = {}
    BY <2>1 DEF NameSafe, Clean, Directory, Before1
  <2>4. QED
    BY <1>3, <1>4, <2>1, <2>2, <2>3
       DEF Directory, Before1, Working, PringlesLabels, BaselineLabels, ScalogLabels
<1>10. CASE Aggregate /\ pc' # "crashed"
  <2>1. Fresh(Run) => raw' = {}
    BY <1>10, AggregateCleans DEF Data
  <2>2. CASE pc' = "merge"
    <3>1. o' = o /\ e' = e + 1 /\ e < Len(inner)
      BY <1>10, <2>2 DEF Aggregate, EndIteration
    <3>2. Before(Run, r) /\ r \in Runs
      BY <1>1, <3>1, Experiment DEF Control, Before, Run, Runs, inner, exp
    <3>3. QED
      BY <1>1, <1>3, <1>4, <2>1, <2>2, <3>2, CleanBefore DEF Directory, Before1
  <2>3. CASE pc' = "next"
    <3>1. r = Run
      BY <1>1, <1>10, <2>3 DEF Aggregate, EndIteration, Run
    <3>2. QED
      BY <1>1, <1>3, <1>4, <2>1, <2>3, <3>1 DEF Directory
  <2>4. QED
    BY <1>10, <2>2, <2>3 DEF Aggregate, EndIteration
<1>11. QED
  BY <1>5, <1>6, <1>7, <1>8, <1>9, <1>10 DEF Between

\* The summary of an experiment with a safe name counts its own results.
LEMMA OwnResultsStep ==
    ASSUME Control, Directory, OwnResults,
           Work \/ Machines \/ Between \/ MergeOverrides \/ (Aggregate /\ pc' # "crashed")
    PROVE  OwnResults'
<1>1. \A r : NameSafe(r)' <=> NameSafe(r)
  BY AdvanceStep, SameCampaign
<1>2. CASE summaries' = summaries
  BY <1>1, <1>2 DEF OwnResults
<1>3. CASE Aggregate /\ WriteSummary(Run, JsonName)
  <2>1. \A s \in summaries' : s \in summaries \/ (s.run = Run /\ s.counted = raw)
    BY <1>3 DEF WriteSummary, ReplaceSummary, Summary
  <2>2. NameSafe(Run) => \A f \in raw : f.run = Run
    BY <1>3 DEF Directory, Aggregate, At, Working
  <2>3. QED
    BY <1>1, <2>1, <2>2 DEF OwnResults
<1>4. summaries' = summaries \/ (Aggregate /\ WriteSummary(Run, JsonName))
  BY DEF Work, Machines, Between, StartCycle, NextExperiment, CheckBrokers, StartBrokers,
         MergeOverrides, Aggregate, process_and_aggregate_results, localVars
<1>5. QED
  BY <1>2, <1>3, <1>4

------------------------------------------------------------------------------
(* Theorems about types, names and the order of summaries                    *)

NamesInv == Control /\ Data /\ Directory /\ OwnResults

\* The campaign starts with an empty results directory.
LEMMA NamesInit ==
    ASSUME scriptInit
    PROVE  NamesInv
<1>1. Control
  BY ControlInit DEF scriptInit
<1>2. Data /\ Directory /\ OwnResults
  BY DEF scriptInit, remoteInit, Data, Programs, Typed, Files, Results, Directory, OwnResults
<1>3. QED
  BY <1>1, <1>2 DEF NamesInv

\* Every step keeps what names say about programs, files and summaries.
LEMMA NamesStep ==
    ASSUME NamesInv, [scriptNext]_vars
    PROVE  NamesInv'
<1>1. Control'
  BY ControlStep DEF NamesInv
<1>2. CASE scriptNext
  <2>1. Work \/ Machines \/ Between \/ MergeOverrides \/ (Aggregate /\ pc' # "crashed")
    BY <1>2, Kinds DEF NamesInv, Data
  <2>2. Data'
    BY <2>1, ProgramsStep, FilesStep, ResultsStep DEF NamesInv, Data
  <2>3. Directory' /\ OwnResults'
    BY <2>1, DirectoryStep, OwnResultsStep DEF NamesInv
  <2>4. QED
    BY <1>1, <2>2, <2>3 DEF NamesInv
<1>3. CASE UNCHANGED vars
  <2>1. Machines
    BY <1>3, StutterStep DEF NamesInv, Data, Programs
  <2>2. Data'
    BY <2>1, ProgramsStep, FilesStep, ResultsStep DEF NamesInv, Data
  <2>3. Directory' /\ OwnResults'
    BY <2>1, DirectoryStep, OwnResultsStep DEF NamesInv
  <2>4. QED
    BY <1>1, <2>2, <2>3 DEF NamesInv
<1>4. QED
  BY <1>2, <1>3

\* The invariant behind the first three theorems.
LEMMA NamesAlways == scriptSpec => []NamesInv
BY NamesInit, NamesStep, PTL DEF scriptSpec

\* The type invariant follows from where the script is and what it has started.
LEMMA NamesType ==
    ASSUME Control, Data
    PROVE  scriptTypeOK
<1>1. o \in DOMAIN campaign /\ e \in DOMAIN inner /\ i \in Nat \ {0} /\ sleep \in Nat
  BY DEF Control, Position
<1>2. DOMAIN Servers = 1 .. Len(Servers) /\ DOMAIN Clients = 1 .. Len(Clients)
  BY RemoteAssumption, ListFacts
<1>3. Len(Servers) \in Nat /\ Len(Clients) \in Nat
  BY RemoteAssumption, ListFacts
<1>4. pc \in {"server", "launchServer"} => i \in DOMAIN Servers
  <2>1. ActiveServers(config) \in Nat
    BY SomeServer DEF Control
  <2>2. QED
    BY <1>1, <1>2, <1>3, <2>1 DEF Control, Place, ShardsFit
<1>5. pc \in {"client", "launchClient", "wait"} => i \in DOMAIN Clients
  BY <1>1, <1>2, <1>3 DEF Control, Place, ClientLabels
<1>6. /\ home \subseteq FileType(ClientIps, Threads)
      /\ raw \subseteq FileType(ClientIps \cup {"summary"}, Threads \cup {0})
  BY DEF Data, Files
<1>7. \A p \in running :
         /\ p.run \in Runs /\ p.name \in Names
         /\ p.left \in Forever .. Duration + 1 /\ p.todo \subseteq Threads
         /\ p.todo # {} => p.ip \in ClientIps
  BY DEF Data, Programs, Typed, ProgramType, Begun, Named
<1>8. QED
  BY <1>1, <1>4, <1>5, <1>6, <1>7 DEF scriptTypeOK

\* A new summary is that of the current experiment, and all others are earlier
\* ones; only one of the same name goes.
LEMMA SummariesStep ==
    ASSUME NamesInv, [scriptNext]_vars
    PROVE  /\ \A s \in summaries \ summaries' : s.name = JsonName /\ Before(s.run, Run)
           /\ \A s \in summaries' \ summaries :
                 s.run = Run /\ \A q \in summaries : Before(q.run, s.run)
<1>1. CASE summaries' = summaries
  BY <1>1
<1>2. CASE Aggregate /\ WriteSummary(Run, JsonName)
  <2>1. pc = "aggregate"
    BY <1>2 DEF Aggregate, At
  <2>2. \A q \in summaries : Before(q.run, Run)
    BY <2>1 DEF NamesInv, Data, Results, Passed, After1
  <2>3. summaries' = {s \in summaries : s.name # JsonName} \cup {Summary(Run, JsonName)}
    BY <1>2 DEF WriteSummary, ReplaceSummary
  <2>4. Summary(Run, JsonName).run = Run
    BY DEF Summary
  <2>5. QED
    BY <2>2, <2>3, <2>4
<1>3. summaries' = summaries \/ (Aggregate /\ WriteSummary(Run, JsonName))
  <2>1. CASE scriptNext
    <3>1. Work \/ Machines \/ Between \/ MergeOverrides \/ Aggregate
      BY <2>1, Kinds DEF NamesInv, Data
    <3>2. QED
      BY <3>1 DEF Work, Machines, Between, StartCycle, NextExperiment, CheckBrokers,
                  StartBrokers, MergeOverrides, Aggregate, process_and_aggregate_results,
                  localVars
  <2>2. CASE UNCHANGED vars
    BY <2>2 DEF vars, localVars
  <2>3. QED
    BY <2>1, <2>2
<1>4. QED
  BY <1>1, <1>2, <1>3

\* The script stands at experiments and machines that exist, whatever fails
\* (main, the cycle functions).
THEOREM ScriptTypeCorrect == scriptSpec => []scriptTypeOK
<1>1. NamesInv => scriptTypeOK
  BY NamesType DEF NamesInv
<1>2. QED
  BY <1>1, NamesAlways, PTL

\* A summary counts only what its own experiment measured, as long as the names
\* allow it (copy_results_back, process_and_aggregate_results).
THEOREM ScriptOwnResults == scriptSpec => []OwnResults
<1>1. NamesInv => OwnResults
  BY DEF NamesInv
<1>2. QED
  BY <1>1, NamesAlways, PTL

\* Summaries appear in the order of the campaign, and one is lost only to a
\* later experiment of its name (process_and_aggregate_results).
THEOREM ScriptSummariesInOrder == scriptSpec => SummariesInOrder
<1>1. NamesInv /\ [scriptNext]_vars =>
        [/\ \A s \in summaries \ summaries' : s.name = JsonName /\ Before(s.run, Run)
         /\ \A s \in summaries' \ summaries :
               s.run = Run /\ \A q \in summaries : Before(q.run, s.run)]_vars
  BY SummariesStep
<1>2. QED
  BY <1>1, NamesAlways, PTL DEF scriptSpec, SummariesInOrder

------------------------------------------------------------------------------
(* Programs that would run for ever                                          *)

\* New programs of a step either end by themselves or can be stopped.
LEMMA EndlessBy ==
    ASSUME Endless, UNCHANGED <<campaign, o, e>>, started \subseteq started', pc \in Working,
           \A p \in running' : p \in running \/ p.left # Forever \/ Stoppable(p)',
           pc' = "finally" /\ intact' /\ exp.system = "baseline" => "proc" \in bound'
    PROVE  Endless'
<1>1. exp' = exp /\ Run' = Run /\ ScalogIps' = ScalogIps
  BY DEF exp, Run, ScalogIps, DataIps
<1>2. \A p \in running : p.run = Run /\ p.left = Forever => Stoppable(p)
  BY DEF Endless
<1>3. \A p : Stoppable(p) => Stoppable(p)'
  BY <1>1 DEF Stoppable
<1>4. \A p \in running' : p.run = Run /\ p.left = Forever => Stoppable(p)'
  BY <1>2, <1>3
<1>5. QED
  BY <1>1, <1>4 DEF Endless

\* Programs that run for ever are started where the finally block will stop them.
LEMMA EndlessLaunches ==
    ASSUME Control, Endless,
           LaunchServer \/ LaunchSwitch \/ LaunchClient \/ LaunchBench \/
           StartOrder \/ StartDiscovery \/ StartData \/ StartBenchmark
    PROVE  Endless'
<1> USE DEF Working, PringlesLabels, BaselineLabels, ClientLabels, ScalogLabels
<1>1. Duration \in Nat /\ Forever = -1 /\ \A prog : final_duration(prog) # Forever
  BY RemoteAssumption, Lifetimes DEF Forever
<1>2. exp' = exp /\ UNCHANGED <<campaign, o, e>>
  BY DEF LaunchServer, LaunchSwitch, LaunchClient, LaunchBench, StartOrder, StartDiscovery,
         StartData, StartBenchmark, Each, Goto, exp
<1>3. ScalogIps' = ScalogIps
  BY <1>2 DEF ScalogIps, DataIps
<1>4. CASE LaunchServer \/ LaunchSwitch \/ LaunchClient \/ StartBenchmark
  <2>1. /\ started \subseteq started' /\ pc \in Working /\ pc' # "finally"
        /\ \A p \in running' : p \in running \/ p.left # Forever
    BY <1>1, <1>4 DEF LaunchServer, LaunchSwitch, LaunchClient, StartBenchmark, Launch,
                      execute_remote_command, Fault, Each, Goto, At, This, Program
  <2>2. QED
    BY <1>2, <2>1, EndlessBy
<1>5. CASE LaunchBench
  <2>1. exp.system = "baseline"
    BY <1>5 DEF LaunchBench, Launch, At, Control, Place
  <2>2. /\ started' = started \cup {<<"switch", SwitchIp>>}
        /\ pc \in Working /\ pc' # "finally"
        /\ \A p \in running' :
              p \in running \/ (p.prog = "switch" /\ p.ip = SwitchIp)
    BY <1>5 DEF LaunchBench, Launch, execute_remote_command, Fault, Goto, At, This, Program
  <2>3. \A p \in running' : p \in running \/ Stoppable(p)'
    BY <1>2, <2>1, <2>2 DEF Stoppable
  <2>4. QED
    BY <1>2, <2>2, <2>3, EndlessBy
<1>6. CASE StartOrder \/ StartDiscovery \/ StartData
  <2>1. exp.system = "scalog"
    BY <1>6 DEF StartOrder, StartDiscovery, StartData, Launch, At, Control, Place
  <2>2. /\ started \subseteq started' /\ pc \in Working /\ pc' # "finally"
        /\ \A p \in running' :
              p \in running \/ (p.prog = "scalog" /\ p.ip \in ScalogIps)
    BY <1>6 DEF StartOrder, StartDiscovery, StartData, Launch, execute_remote_command, Fault,
                Goto, At, Node, This, Program, ScalogIps
  <2>3. \A p \in running' : p \in running \/ Stoppable(p)'
    BY <1>2, <1>3, <2>1, <2>2 DEF Stoppable
  <2>4. QED
    BY <1>2, <2>2, <2>3, EndlessBy
<1>7. QED
  BY <1>4, <1>5, <1>6

\* The other steps of a cycle start no program.
LEMMA EndlessWork ==
    ASSUME Control, Endless,
           StartServer \/ StartSwitch \/ StartClient \/ StartBench \/ DistributeConfig \/
           RunPerf \/ WaitClient \/ CollectScalog \/ CollectLogs \/ StopBench \/ StopScalog
    PROVE  Endless'
<1> USE DEF Working, PringlesLabels, BaselineLabels, ClientLabels, ScalogLabels
<1>1. CASE StartServer \/ StartSwitch \/ StartClient \/ StartBench
  <2>1. /\ UNCHANGED <<campaign, o, e, running, started>> /\ pc \in Working
        /\ ~(pc' = "finally" /\ intact')
    BY <1>1 DEF StartServer, StartSwitch, StartClient, StartBench, Prepare, Raise, Fault,
                Goto, At
  <2>2. QED
    BY <2>1, EndlessBy
<1>2. CASE DistributeConfig
  <2>1. /\ UNCHANGED <<campaign, o, e, running, started>> /\ pc \in Working
        /\ ~(pc' = "finally" /\ intact')
    BY <1>2 DEF DistributeConfig, Raise, Fault, Goto, At, remoteVars
  <2>2. QED
    BY <2>1, EndlessBy
<1>3. CASE RunPerf
  <2>1. UNCHANGED <<campaign, o, e, running, started>> /\ pc \in Working /\ pc' # "finally"
    BY <1>3 DEF RunPerf, Goto, At, remoteVars
  <2>2. QED
    BY <2>1, EndlessBy
<1>4. CASE WaitClient
  <2>1. /\ UNCHANGED <<campaign, o, e, running, started>> /\ pc \in Working
        /\ "proc" \in bound'
    BY <1>4 DEF WaitClient, Each, Goto, At, remoteVars
  <2>2. QED
    BY <2>1, EndlessBy
<1>5. CASE CollectScalog
  <2>1. /\ UNCHANGED <<campaign, o, e, running, started>> /\ pc \in Working
        /\ exp.system = "scalog"
    BY <1>5 DEF CollectScalog, Goto, At, remoteVars, Control, Place
  <2>2. QED
    BY <2>1, EndlessBy
<1>6. CASE CollectLogs \/ StopBench \/ StopScalog
  <2>1. /\ UNCHANGED <<campaign, o, e, started>> /\ pc \in Working /\ pc' # "finally"
        /\ running' \subseteq running
    BY <1>6 DEF CollectLogs, StopBench, StopScalog, kill_remote_process, Goto, At, remoteVars
  <2>2. QED
    BY <2>1, EndlessBy
<1>7. QED
  BY <1>1, <1>2, <1>3, <1>4, <1>5, <1>6

\* Programs that are killed, end or get older do not begin to run for ever.
LEMMA EndlessMachines ==
    ASSUME Programs, Endless, Machines, UNCHANGED <<bound, started>>
    PROVE  Endless'
<1>1. UNCHANGED <<campaign, o, e, pc>>
  BY DEF Machines
<1>2. exp' = exp /\ Run' = Run /\ ScalogIps' = ScalogIps
  BY <1>1 DEF exp, Run, ScalogIps, DataIps
<1>3. ASSUME NEW p \in running', p.run = Run, p.left = Forever, pc \in Working
      PROVE  Stoppable(p)
  <2>1. PICK q \in running : Later(p, q)
    BY DEF Machines
  <2>2. q.left = Forever
    <3>1. CASE p.left = q.left
      BY <1>3, <3>1
    <3>2. CASE q.left > 0 /\ p.left = q.left - 1
      <4>1. q.left \in Int
        BY RemoteAssumption DEF Programs, Typed, ProgramType, Forever
      <4>2. QED
        BY <1>3, <3>2, <4>1 DEF Forever
    <3>3. QED
      BY <2>1, <3>1, <3>2 DEF Later
  <2>3. q.run = Run /\ p.prog = q.prog /\ p.ip = q.ip
    BY <1>3, <2>1 DEF Later
  <2>4. Stoppable(q)
    BY <1>3, <2>2, <2>3 DEF Endless
  <2>5. QED
    BY <2>3, <2>4 DEF Stoppable
<1>4. \A p : Stoppable(p) => Stoppable(p)'
  BY <1>2 DEF Stoppable
<1>5. pc' = "finally" /\ intact' /\ exp.system = "baseline" => "proc" \in bound'
  BY <1>1 DEF Endless, Machines
<1>6. QED
  BY <1>1, <1>2, <1>3, <1>4, <1>5 DEF Endless

\* Between two experiments no program belongs to the next one.
LEMMA EndlessMerge ==
    ASSUME Control, Programs, Endless, MergeOverrides
    PROVE  Endless'
<1>1. UNCHANGED <<o, e, running>> /\ pc = "merge" /\ Run' = Run
  BY DEF MergeOverrides, At, remoteVars, Run
<1>2. \A p \in running : p.run # Run
  <2>1. \A p \in running : Begun(p.run)
    BY DEF Programs
  <2>2. o \in Nat /\ e \in Nat
    BY Experiment DEF Control
  <2>3. ~Begun(Run)
    BY <1>1, <2>2 DEF Begun, Before, Run, Before1
  <2>4. QED
    BY <2>1, <2>3
<1>3. pc' # "finally"
  BY DEF MergeOverrides, FirstPhase, At, Control, Place, LoopSystems
<1>4. QED
  BY <1>1, <1>2, <1>3 DEF Endless

\* Every step keeps that the programs running for ever can be stopped.
LEMMA EndlessStep ==
    ASSUME Control, Programs, Endless, [scriptNext]_vars
    PROVE  Endless'
<1>1. CASE Tick \/ machineStep
  <2>1. UNCHANGED <<bound, started>>
    BY <1>1 DEF Tick, machineStep, scriptVars
  <2>2. QED
    BY <1>1, <2>1, MachinesStep, EndlessMachines DEF Programs
<1>2. CASE UNCHANGED vars
  <2>1. Machines /\ UNCHANGED <<bound, started>>
    BY <1>2, StutterStep DEF Programs, vars, scriptVars
  <2>2. QED
    BY <2>1, EndlessMachines
<1>3. CASE Between \/ Aggregate
  <2>1. pc' \notin Working
    BY <1>3 DEF Between, StartCycle, NextExperiment, CheckBrokers, StartBrokers, Aggregate,
                EndIteration, At, Goto, Working, PringlesLabels, BaselineLabels,
                ClientLabels, ScalogLabels
  <2>2. QED
    BY <2>1 DEF Endless, Working
<1>4. CASE MergeOverrides
  BY <1>4, EndlessMerge
<1>5. CASE scriptStep
  BY <1>3, <1>4, <1>5, EndlessLaunches, EndlessWork DEF scriptStep, Between
<1>6. QED
  BY <1>1, <1>2, <1>5 DEF scriptNext

\* The finally block leaves none of the programs that run for ever alone.
LEMMA ProgramsStoppedStep ==
    ASSUME Control, Programs, Endless, ProgramsStopped, [scriptNext]_vars
    PROVE  ProgramsStopped'
<1> SUFFICES ASSUME pc' = "aggregate", intact',
                    NEW p \in running', p.run = Run', p.left = Forever
             PROVE  <<p.prog, p.ip>> \in kills'
  BY DEF ProgramsStopped
<1>1. Forever \notin Nat
  BY DEF Forever
<1>2. CASE pc = "aggregate"
  <2>1. Tick \/ machineStep \/ UNCHANGED vars
    BY <1>2 DEF scriptNext, scriptStep, StartCycle, NextExperiment, MergeOverrides, Aggregate,
       EndIteration, StartServer, LaunchServer, StartSwitch, LaunchSwitch, StartClient,
       LaunchClient, RunPerf, WaitClient, CollectLogs, StartBench, LaunchBench, StopBench,
       DistributeConfig, StartOrder, StartDiscovery, StartData, StartBenchmark,
       CollectScalog, StopScalog, CheckBrokers, StartBrokers, Prepare, Launch, At, Goto
  <2>2. Run' = Run
    BY <2>1 DEF Run, Tick, machineStep, vars, scriptVars
  <2>3. CASE KillArrives /\ machineStep
    <3>1. PICK k \in kills : /\ kills' = kills \ {k}
                             /\ running' = running \ Hit(k)
                             /\ Hit(k) = {} /\ intact
      BY <2>3 DEF KillArrives, Fault
    <3>2. p \in running /\ p \notin Hit(k)
      BY <3>1
    <3>3. <<p.prog, p.ip>> \in kills /\ <<p.prog, p.ip>> # k
      BY <1>2, <2>2, <3>1, <3>2 DEF ProgramsStopped, Hit
    <3>4. QED
      BY <3>1, <3>3
  <2>4. CASE ~KillArrives
    <3>1. kills' = kills /\ intact
      BY <2>1, <2>4 DEF Tick, TimePasses, machineStep, WriteResult, ProgramEnds, faultVars,
                        vars, remoteVars
    <3>2. \E q \in running : Later(p, q)
      <4>1. CASE UNCHANGED vars
        BY <4>1 DEF vars, remoteVars, Later, Programs, Typed, ProgramType
      <4>2. CASE Tick \/ machineStep
        BY <4>2, MachinesStep DEF Machines, Programs
      <4>3. QED
        BY <2>1, <4>1, <4>2
    <3>3. PICK q \in running : Later(p, q)
      BY <3>2
    <3>4. q.left = Forever /\ q.run = Run /\ q.prog = p.prog /\ q.ip = p.ip
      BY <2>2, <3>3 DEF Later, Forever
    <3>5. QED
      BY <1>2, <3>1, <3>4 DEF ProgramsStopped
  <2>5. QED
    BY <2>1, <2>3, <2>4 DEF Tick, machineStep, KillArrives, TimePasses, vars, remoteVars
<1>3. CASE pc # "aggregate"
  <2>1. CollectLogs \/ StopBench \/ StopScalog
    <3>1. ~(Tick \/ machineStep \/ UNCHANGED vars)
      BY <1>3 DEF Tick, machineStep, vars, scriptVars
    <3>2. ~MergeOverrides
      BY DEF MergeOverrides, FirstPhase, At, Control, Place, LoopSystems
    <3>3. ~(StartCycle \/ NextExperiment \/ Aggregate \/ CheckBrokers \/ StartBrokers)
      BY <1>3 DEF StartCycle, NextExperiment, Aggregate, CheckBrokers, StartBrokers, At, Goto
    <3>4. ~(StartServer \/ StartSwitch \/ StartClient \/ StartBench \/ DistributeConfig)
      BY DEF StartServer, StartSwitch, StartClient, StartBench, DistributeConfig, Prepare,
             Raise, Goto
    <3>5. ~(LaunchServer \/ LaunchSwitch \/ LaunchClient \/ LaunchBench \/ StartOrder \/
            StartDiscovery \/ StartData \/ StartBenchmark)
      BY DEF LaunchServer, LaunchSwitch, LaunchClient, LaunchBench, StartOrder,
             StartDiscovery, StartData, StartBenchmark, Each, Goto
    <3>6. ~(RunPerf \/ WaitClient \/ CollectScalog)
      BY DEF RunPerf, WaitClient, CollectScalog, Each, Goto
    <3>7. QED
      BY <3>1, <3>2, <3>3, <3>4, <3>5, <3>6 DEF scriptNext, scriptStep
  <2>2. /\ UNCHANGED <<campaign, o, e>> /\ pc = "finally" /\ p \in running /\ Run' = Run
    BY <2>1 DEF CollectLogs, StopBench, StopScalog, kill_remote_process, At, Goto,
                remoteVars, Run
  <2>3. Stoppable(p)
    BY <2>2 DEF Endless, Working
  <2>4. CASE CollectLogs
    BY <2>3, <2>4 DEF CollectLogs, Stoppable
  <2>5. CASE StopBench
    <3>1. exp.system = "baseline" /\ intact
      BY <2>5 DEF StopBench, faultVars
    <3>2. /\ p.prog = "switch" /\ p.ip = SwitchIp
          /\ <<"switch", SwitchIp>> \in started /\ "proc" \in bound
      BY <2>2, <2>3, <3>1 DEF Stoppable, Endless
    <3>3. Hit(<<"switch", SwitchIp>>) # {}
      BY <2>2, <3>2 DEF Hit
    <3>4. QED
      BY <2>5, <3>2, <3>3 DEF StopBench, kill_process
  <2>6. CASE StopScalog
    <3>1. exp.system = "scalog" /\ ~Fault
      BY <2>6 DEF StopScalog, Fault
    <3>2. p.prog = "scalog" /\ p.ip \in ScalogIps
      BY <2>3, <3>1 DEF Stoppable
    <3>3. running' = {q \in running : q.prog # "scalog" \/ q.ip \notin ScalogIps}
      BY <2>6, <3>1 DEF StopScalog, kill_remote_process
    <3>4. QED
      BY <3>2, <3>3
  <2>7. QED
    BY <2>1, <2>4, <2>5, <2>6
<1>4. QED
  BY <1>2, <1>3

EndlessInv == NamesInv /\ Endless /\ ProgramsStopped

\* The invariant behind the theorem below.
LEMMA EndlessAlways == scriptSpec => []EndlessInv
<1>1. scriptInit => EndlessInv
  BY NamesInit DEF EndlessInv, scriptInit, remoteInit, Endless, ProgramsStopped
<1>2. EndlessInv /\ [scriptNext]_vars => EndlessInv'
  BY NamesStep, EndlessStep, ProgramsStoppedStep DEF EndlessInv, NamesInv, Data
<1>3. QED
  BY <1>1, <1>2, PTL DEF scriptSpec

\* When an experiment without failures is summarised, each of its programs that
\* would run for ever is gone or about to be killed
\* (run_experiment_cycle_baseline, run_experiment_cycle_scalog).
THEOREM ScriptProgramsStopped == scriptSpec => []ProgramsStopped
<1>1. EndlessInv => ProgramsStopped
  BY DEF EndlessInv
<1>2. QED
  BY <1>1, EndlessAlways, PTL

------------------------------------------------------------------------------
(* Measurements                                                              *)

\* The experiment, its name and its machines keep while the script works on it.
LEMMA SameRun ==
    ASSUME UNCHANGED <<campaign, o, e, config>>
    PROVE  /\ Run' = Run /\ JsonName' = JsonName /\ exp' = exp
           /\ Measuring(Run)' = Measuring(Run)
           /\ NameSafe(Run)' <=> NameSafe(Run)
<1>1. PICK r : r = Run
  OBVIOUS
<1>2. Run' = Run /\ JsonName' = JsonName /\ exp' = exp
  BY DEF Run, JsonName, exp
<1>3. Measuring(Run)' = Measuring(Run)
  BY <1>2 DEF Measuring
<1>4. r = Run' /\ r = Run
  BY <1>1, <1>2
<1>5. NameSafe(Run)' <=> NameSafe(r)
  BY <1>4, NextRun
<1>6. QED
  BY <1>2, <1>3, <1>4, <1>5

\* What has been measured stays while programs are added and no file changes.
LEMMA MeasuredGrows ==
    ASSUME UNCHANGED <<campaign, o, e, config, home>>, running \subseteq running'
    PROVE  \A ip : Measured(ip) => Measured(ip)'
<1>1. Run' = Run /\ JsonName' = JsonName /\ exp' = exp
  BY SameRun
<1>2. \A p, ip : ToWrite(p, ip) => ToWrite(p, ip)'
  BY <1>1 DEF ToWrite
<1>3. QED
  BY <1>1, <1>2 DEF Measured

\* A program with the name of a safe experiment is one of that experiment.
LEMMA NameOwn ==
    ASSUME Control, pc \in Working, NameSafe(Run)
    PROVE  \A q : Begun(q) /\ Named(JsonName, q) => q = Run
<1>1. JsonName = NameOf(Run)
  BY Naming DEF Named
<1>2. ASSUME NEW q, Begun(q), Named(JsonName, q), q # Run
      PROVE  FALSE
  <2>1. q \in Earlier(Run)
    BY <1>2 DEF Begun, Earlier
  <2>2. QED
    BY <1>1, <1>2, <2>1 DEF NameSafe, Matches, Named
<1>3. QED
  BY <1>2

\* A file that is written replaces no result of the experiment, because only its
\* own programs have its name.
LEMMA MeasuredWrite ==
    ASSUME Control, Programs, pc \in Working, NameSafe(Run), WriteResult,
           UNCHANGED <<campaign, o, e, config>>
    PROVE  \A ip : Measured(ip) => Measured(ip)'
<1>1. Run' = Run /\ JsonName' = JsonName /\ exp' = exp
  BY SameRun
<1>2. \A p, ip : ToWrite(p, ip) => ToWrite(p, ip)'
  BY <1>1 DEF ToWrite
<1>3. PICK q \in running : \E u \in q.todo :
          /\ home' = Overwrite(home, ResultFile(q.run, q.name, q.ip, u))
          /\ running' = (running \ {q}) \cup {[q EXCEPT !.todo = @ \ {u}]}
  BY DEF WriteResult
<1>4. PICK u \in q.todo :
          /\ home' = Overwrite(home, ResultFile(q.run, q.name, q.ip, u))
          /\ running' = (running \ {q}) \cup {[q EXCEPT !.todo = @ \ {u}]}
  BY <1>3
<1>5. PICK w : w = [q EXCEPT !.todo = @ \ {u}]
  OBVIOUS
<1>6. /\ w \in running' /\ w.todo = q.todo \ {u}
      /\ w.run = q.run /\ w.name = q.name /\ w.ip = q.ip /\ w.prog = q.prog
  BY <1>4, <1>5 DEF Programs, Typed, ProgramType, IsProgram
<1>7. q.name = JsonName => q.run = Run
  BY NameOwn DEF Programs
<1>8. ASSUME NEW ip, NEW t, ResultFile(Run, JsonName, ip, t) \in home
      PROVE  ResultFile(Run, JsonName, ip, t) \in home'
  <2>1. CASE SameName(ResultFile(Run, JsonName, ip, t), ResultFile(q.run, q.name, q.ip, u))
    <3>1. q.name = JsonName /\ q.ip = ip /\ u = t
      BY <2>1 DEF SameName, ResultFile
    <3>2. QED
      BY <1>4, <1>7, <3>1 DEF Overwrite
  <2>2. CASE ~SameName(ResultFile(Run, JsonName, ip, t), ResultFile(q.run, q.name, q.ip, u))
    BY <1>4, <1>8, <2>2 DEF Overwrite, SameName
  <2>3. QED
    BY <2>1, <2>2
<1>9. ASSUME NEW ip, NEW t, NEW p \in running, ToWrite(p, ip), t \in p.todo
      PROVE  \/ ResultFile(Run, JsonName, ip, t) \in home'
             \/ \E v \in running' : ToWrite(v, ip) /\ t \in v.todo
  <2>1. CASE p # q
    BY <1>4, <1>9, <2>1
  <2>2. CASE p = q /\ t # u
    <3>1. ToWrite(w, ip)
      BY <1>6, <1>9, <2>2 DEF ToWrite
    <3>2. t \in w.todo
      BY <1>6, <1>9, <2>2
    <3>3. QED
      BY <1>6, <3>1, <3>2
  <2>3. CASE p = q /\ t = u
    BY <1>4, <1>9, <2>3 DEF ToWrite, Overwrite
  <2>4. QED
    BY <2>1, <2>2, <2>3
<1>10. QED
  BY <1>1, <1>2, <1>8, <1>9 DEF Measured

\* Time takes nothing from what clients have still to write.
LEMMA MeasuredTime ==
    ASSUME Typed, TimePasses, UNCHANGED <<campaign, o, e, config>>
    PROVE  \A ip : Measured(ip) => Measured(ip)'
<1>1. Run' = Run /\ JsonName' = JsonName /\ exp' = exp
  BY SameRun
<1>2. ASSUME NEW ip, NEW t, NEW p \in running, ToWrite(p, ip), t \in p.todo
      PROVE  \E v \in running' : ToWrite(v, ip) /\ t \in v.todo
  <2>1. PICK v : v = Older(p)
    OBVIOUS
  <2>2. /\ v.todo = p.todo
        /\ v.run = p.run /\ v.name = p.name /\ v.ip = p.ip /\ v.prog = p.prog
    BY <2>1 DEF Older, Typed, ProgramType, IsProgram
  <2>3. v \in running'
    BY <2>1 DEF TimePasses
  <2>4. QED
    BY <1>2, <2>2, <2>3 DEF ToWrite
<1>3. \A p, ip : ToWrite(p, ip) => ToWrite(p, ip)'
  BY <1>1 DEF ToWrite
<1>4. home' = home
  BY DEF TimePasses
<1>5. QED
  BY <1>1, <1>2, <1>3, <1>4 DEF Measured

\* A program ends only when it has written everything.
LEMMA MeasuredEnds ==
    ASSUME ProgramEnds, UNCHANGED <<campaign, o, e, config>>
    PROVE  \A ip : Measured(ip) => Measured(ip)'
<1>1. Run' = Run /\ JsonName' = JsonName /\ exp' = exp
  BY SameRun
<1>2. \A p, ip : ToWrite(p, ip) => ToWrite(p, ip)'
  BY <1>1 DEF ToWrite
<1>3. \A p \in running : p.todo # {} => p \in running'
  BY DEF ProgramEnds
<1>4. home' = home
  BY DEF ProgramEnds
<1>5. QED
  BY <1>1, <1>2, <1>3, <1>4 DEF Measured

\* As long as nothing fails the machines lose no measurement.
LEMMA MeasuredMachines ==
    ASSUME Control, Programs, pc \in Working, NameSafe(Run), intact',
           Tick \/ machineStep \/ UNCHANGED vars
    PROVE  \A ip : Measured(ip) => Measured(ip)'
<1>1. UNCHANGED <<campaign, o, e, config>>
  BY DEF Tick, machineStep, scriptVars, vars
<1>2. CASE KillArrives
  <2>1. running' = running /\ home' = home
    BY <1>2 DEF KillArrives, Fault
  <2>2. QED
    BY <1>1, <2>1, MeasuredGrows
<1>3. CASE UNCHANGED vars
  <2>1. running' = running /\ home' = home
    BY <1>3 DEF vars, remoteVars
  <2>2. QED
    BY <1>1, <2>1, MeasuredGrows
<1>4. QED
  BY <1>1, <1>2, <1>3, MeasuredWrite, MeasuredTime, MeasuredEnds DEF Programs, Tick, machineStep

\* Copying from a machine whose files are all there covers it and uncovers none.
LEMMA Arrives ==
    ASSUME UNCHANGED <<campaign, o, e, config>>, NEW ip,
           \A t \in Threads : ResultFile(Run, JsonName, ip, t) \in home,
           ResultsArrive(JsonName, ip)
    PROVE  Covered(ip)' /\ \A m : Covered(m) => Covered(m)'
<1>1. Run' = Run
  BY SameRun
<1>2. \A t \in Threads : ResultFile(Run, JsonName, ip, t) \in Copied(JsonName, ip)
  BY DEF Copied, ResultFile, Matches
<1>3. \A f \in Copied(JsonName, ip) : f \in raw' /\ f.ip = ip
  BY DEF ResultsArrive, Copied
<1>4. \A t \in Threads : \E f \in raw' : f.run = Run /\ f.ip = ip /\ f.thread = t
  <2>1. ASSUME NEW t \in Threads
        PROVE  \E f \in raw' : f.run = Run /\ f.ip = ip /\ f.thread = t
    <3>1. PICK f : f = ResultFile(Run, JsonName, ip, t)
      OBVIOUS
    <3>2. f \in raw' /\ f.run = Run /\ f.ip = ip /\ f.thread = t
      BY <1>2, <1>3, <3>1 DEF ResultFile
    <3>3. QED
      BY <3>2
  <2>2. QED
    BY <2>1
<1>5. ASSUME NEW m, m # ip, Covered(m)
      PROVE  Covered(m)'
  <2>1. \A f \in raw : f.ip = m => f \in raw'
    BY <1>3, <1>5 DEF ResultsArrive, SameName
  <2>2. QED
    BY <1>1, <1>5, <2>1 DEF Covered
<1>6. Covered(ip)'
  BY <1>1, <1>4 DEF Covered
<1>7. QED
  BY <1>5, <1>6

\* Nothing is uncovered while the results directory stays as it is.
LEMMA CoveredStays ==
    ASSUME UNCHANGED <<campaign, o, e, config, raw>>
    PROVE  \A ip : Covered(ip) => Covered(ip)'
<1>1. Run' = Run
  BY SameRun
<1>2. QED
  BY <1>1 DEF Covered

\* In the Scalog cycle the programs of the experiment measure nothing before the
\* benchmark starts.
LEMMA QuietStep ==
    ASSUME Control, Programs, Quiet, [scriptNext]_vars
    PROVE  Quiet'
<1> USE DEF Working, PringlesLabels, BaselineLabels, ClientLabels, ScalogLabels
<1> SUFFICES ASSUME pc' \in ScalogLabels \ {"collect"}, NEW p \in running', p.run = Run'
             PROVE  p.todo = {}
  BY DEF Quiet
<1>1. CASE Machines
  <2>1. PICK q \in running : Later(p, q)
    BY <1>1 DEF Machines
  <2>2. Run' = Run /\ pc' = pc
    BY <1>1 DEF Machines, Run
  <2>3. q.todo = {}
    BY <2>1, <2>2 DEF Quiet, Later
  <2>4. QED
    BY <2>1, <2>3 DEF Later
<1>2. CASE MergeOverrides
  <2>1. p \in running /\ p.run = Run /\ pc = "merge"
    BY <1>2 DEF MergeOverrides, At, remoteVars, Run
  <2>2. Begun(Run)
    BY <2>1 DEF Programs
  <2>3. o \in Nat /\ e \in Nat
    BY Experiment DEF Control
  <2>4. QED
    BY <2>1, <2>2, <2>3 DEF Begun, Before, Run, Before1
<1>3. CASE DistributeConfig
  <2>1. p \in running /\ p.run = Run /\ pc = "nodes"
    BY <1>3 DEF DistributeConfig, Goto, Raise, At, remoteVars, Run
  <2>2. QED
    BY <2>1 DEF Quiet
<1>4. CASE StartOrder \/ StartDiscovery \/ StartData
  <2>1. p \in running \/ p.todo = {}
    BY <1>4 DEF StartOrder, StartDiscovery, StartData, Launch, execute_remote_command, Node,
                This, Program
  <2>2. p.run = Run /\ pc \in {"order", "discovery", "data"}
    BY <1>4 DEF StartOrder, StartDiscovery, StartData, Launch, Goto, At, Run
  <2>3. QED
    BY <2>1, <2>2 DEF Quiet
<1>5. Machines \/ MergeOverrides \/ DistributeConfig \/ StartOrder \/ StartDiscovery \/ StartData
  <2>1. ~(StartCycle \/ NextExperiment \/ Aggregate \/ CheckBrokers \/ StartBrokers)
    BY DEF StartCycle, NextExperiment, Aggregate, EndIteration, CheckBrokers, StartBrokers,
           At, Goto
  <2>2. ~(StartServer \/ StartSwitch \/ StartClient \/ StartBench)
    BY DEF StartServer, StartSwitch, StartClient, StartBench, Prepare, Raise, Goto
  <2>3. ~(LaunchServer \/ LaunchSwitch \/ LaunchClient \/ LaunchBench \/ StartBenchmark)
    BY DEF LaunchServer, LaunchSwitch, LaunchClient, LaunchBench, StartBenchmark, Each, Goto
  <2>4. ~(RunPerf \/ WaitClient \/ CollectScalog \/ CollectLogs \/ StopBench \/ StopScalog)
    BY DEF RunPerf, WaitClient, CollectScalog, CollectLogs, StopBench, StopScalog, Each, Goto
  <2>5. Tick \/ machineStep \/ UNCHANGED vars => Machines
    BY MachinesStep, StutterStep DEF Programs
  <2>6. QED
    BY <2>1, <2>2, <2>3, <2>4, <2>5 DEF scriptNext, scriptStep
<1>6. QED
  BY <1>1, <1>2, <1>3, <1>4, <1>5

\* The benchmark of the Scalog cycle writes its results before the script, which
\* sleeps longer, copies them: its time and that of the script pass together.
LEMMA CollectTime ==
    ASSUME Control, Programs, Tick \/ machineStep \/ UNCHANGED vars, pc = "collect",
           \A p \in running : p.run = Run /\ p.todo # {} =>
                p.left \in Nat /\ p.left = sleep - 3
    PROVE  \A p \in running' : p.run = Run' /\ p.todo # {} =>
                p.left \in Nat /\ p.left = sleep' - 3
<1>1. Run' = Run /\ sleep \in Nat
  BY DEF Run, Tick, machineStep, vars, scriptVars, Control, Position
<1>2. \A p \in running : IsProgram(p)
  BY DEF Programs, Typed, ProgramType
<1>3. CASE Tick
  <2>1. ASSUME NEW p \in running', p.run = Run, p.todo # {}
        PROVE  p.left \in Nat /\ p.left = sleep' - 3
    <3>1. PICK q \in running : p = Older(q)
      BY <1>3 DEF Tick, TimePasses
    <3>2. p.run = q.run /\ p.todo = q.todo
      BY <1>2, <3>1 DEF Older, IsProgram
    <3>3. q.left \in Nat /\ q.left = sleep - 3 /\ q.left # 0
      BY <1>3, <2>1, <3>2 DEF Tick, TimePasses
    <3>4. p.left = q.left - 1 /\ sleep' = sleep - 1
      BY <1>1, <1>2, <1>3, <3>1, <3>3 DEF Older, IsProgram, Tick
    <3>5. QED
      BY <1>1, <3>3, <3>4
  <2>2. QED
    BY <1>1, <2>1
<1>4. CASE WriteResult /\ machineStep
  <2>1. PICK q \in running : \E t \in q.todo :
            running' = (running \ {q}) \cup {[q EXCEPT !.todo = @ \ {t}]}
    BY <1>4 DEF WriteResult
  <2>2. PICK t \in q.todo : running' = (running \ {q}) \cup {[q EXCEPT !.todo = @ \ {t}]}
    BY <2>1
  <2>3. PICK w : w = [q EXCEPT !.todo = @ \ {t}]
    OBVIOUS
  <2>4. w.run = q.run /\ w.left = q.left /\ q.todo # {}
    BY <1>2, <2>3 DEF IsProgram
  <2>5. \A p \in running' : p \in running \/ p = w
    BY <2>2, <2>3
  <2>6. sleep' = sleep
    BY <1>4 DEF machineStep, scriptVars
  <2>7. QED
    BY <1>1, <2>4, <2>5, <2>6
<1>5. CASE ((KillArrives \/ ProgramEnds) /\ machineStep) \/ UNCHANGED vars
  <2>1. running' \subseteq running /\ sleep' = sleep
    BY <1>5 DEF KillArrives, ProgramEnds, machineStep, scriptVars, vars, remoteVars
  <2>2. QED
    BY <1>1, <2>1
<1>6. QED
  BY <1>3, <1>4, <1>5 DEF machineStep

\* Machines lose nothing that has been measured or copied, unless something fails.
LEMMA ProgressMachines ==
    ASSUME Control, Programs, pc \in Working, NameSafe(Run), Progress, intact',
           Tick \/ machineStep \/ UNCHANGED vars
    PROVE  Progress'
<1>1. UNCHANGED <<campaign, pc, o, e, i, config, raw>>
  BY DEF Tick, machineStep, scriptVars, localVars, vars
<1>2. \A ip : (Measured(ip) => Measured(ip)') /\ (Covered(ip) => Covered(ip)')
  BY <1>1, MeasuredMachines, CoveredStays
<1>3. Measuring(Run)' = Measuring(Run)
  BY <1>1, SameRun
<1>4. pc \in {"client", "launchClient"} => \A k \in 1 .. i - 1 : Measured(Clients[k])'
  BY <1>2 DEF Progress
<1>5. pc \in {"perf", "wait"} => \A ip \in ClientIps : Measured(ip)'
  BY <1>2 DEF Progress
<1>6. pc = "wait" => \A k \in 1 .. i - 1 : Covered(Clients[k])'
  BY <1>2 DEF Progress
<1>7. pc = "collect" => Measured(Clients[1])'
  BY <1>2 DEF Progress
<1>8. pc = "collect" => \A p \in running' : p.run = Run' /\ p.todo # {} =>
                p.left \in Nat /\ p.left = sleep' - 3
  BY CollectTime DEF Progress
<1>9. pc \in {"finally", "aggregate"} => \A ip \in Measuring(Run) : Covered(ip)'
  BY <1>2 DEF Progress
<1>10. QED
  BY <1>1, <1>3, <1>4, <1>5, <1>6, <1>7, <1>8, <1>9 DEF Progress

\* Clients are started one after the other, each with its results to write.
LEMMA ProgressClients ==
    ASSUME Control, Progress, intact',
           LaunchServer \/ LaunchSwitch \/ LaunchBench \/ StartClient \/ LaunchClient \/ RunPerf
    PROVE  Progress'
<1> USE DEF PringlesLabels, BaselineLabels, ClientLabels
<1>1. i \in Nat \ {0} /\ Len(Clients) \in Nat \ {0}
  BY RemoteAssumption, ListFacts DEF Control, Position
<1>2. CASE LaunchServer
  <2>1. pc' \in {"server", "client", "switch"} /\ (pc' = "client" => i' = 1)
    BY <1>2 DEF LaunchServer, Each, Goto
  <2>2. QED
    BY <2>1 DEF Progress
<1>3. CASE LaunchSwitch \/ LaunchBench
  <2>1. pc' = "client" /\ i' = 1
    BY <1>3 DEF LaunchSwitch, LaunchBench, Launch, At, Goto, Control, Place
  <2>2. QED
    BY <2>1 DEF Progress
<1>4. CASE StartClient
  <2>1. /\ UNCHANGED <<campaign, o, e, config, home, running, i>>
        /\ pc = "client" /\ pc' = "launchClient"
    BY <1>4 DEF StartClient, Prepare, Raise, Fault, Goto, At
  <2>2. \A ip : Measured(ip) => Measured(ip)'
    BY <2>1, MeasuredGrows
  <2>3. \A k \in 1 .. i - 1 : Measured(Clients[k])'
    BY <2>1, <2>2 DEF Progress
  <2>4. QED
    BY <2>1, <2>3 DEF Progress
<1>5. CASE LaunchClient
  <2>1. PICK w : w = This("client", Clients[i], 1, final_duration("client"))
    OBVIOUS
  <2>2. /\ UNCHANGED <<campaign, o, e, config, home>> /\ pc = "launchClient"
        /\ running' = running \cup {w}
    BY <1>5, <2>1 DEF LaunchClient, Launch, execute_remote_command, Fault, Each, Goto, At
  <2>3. \A ip : Measured(ip) => Measured(ip)'
    BY <2>2, MeasuredGrows
  <2>4. Run' = Run /\ JsonName' = JsonName /\ exp' = exp
    BY <2>2, SameRun
  <2>5. /\ w.prog = "client" /\ w.ip = Clients[i] /\ w.run = Run /\ w.name = JsonName
        /\ w.todo = Threads
    BY <2>1 DEF This, Program
  <2>6. \A k : k = i => Measured(Clients[k])'
    BY <2>2, <2>4, <2>5 DEF Measured, ToWrite
  <2>7. \A k \in 1 .. i : Measured(Clients[k])'
    <3>1. \A k \in 1 .. i - 1 : Measured(Clients[k])'
      BY <2>2, <2>3 DEF Progress
    <3>2. \A k \in 1 .. i : k \in 1 .. i - 1 \/ k = i
      BY <1>1
    <3>3. QED
      BY <2>6, <3>1, <3>2
  <2>8. CASE i < Len(Clients)
    <3>1. pc' = "client" /\ i' = i + 1
      BY <1>5, <2>8 DEF LaunchClient, Each, Goto
    <3>2. i' - 1 = i
      BY <1>1, <3>1
    <3>3. QED
      BY <2>7, <3>1, <3>2 DEF Progress
  <2>9. CASE ~(i < Len(Clients))
    <3>1. pc' \in {"perf", "wait"} /\ i' = 1
      BY <1>5, <2>9 DEF LaunchClient, Each, Goto
    <3>2. i = Len(Clients)
      BY <1>1, <2>2, <2>9 DEF Control, Place
    <3>3. \A ip \in ClientIps : \E k \in 1 .. Len(Clients) : ip = Clients[k]
      BY RemoteAssumption, ListFacts DEF ClientIps, Range
    <3>4. \A ip \in ClientIps : Measured(ip)'
      BY <2>7, <3>2, <3>3
    <3>5. QED
      BY <3>1, <3>4 DEF Progress
  <2>10. QED
    BY <2>8, <2>9
<1>6. CASE RunPerf
  <2>1. /\ UNCHANGED <<campaign, o, e, config, home, running>>
        /\ pc = "perf" /\ pc' = "wait" /\ i' = 1
    BY <1>6 DEF RunPerf, Goto, At, remoteVars, Control, Place
  <2>2. \A ip : Measured(ip) => Measured(ip)'
    BY <2>1, MeasuredGrows
  <2>3. \A ip \in ClientIps : Measured(ip)'
    BY <2>1, <2>2 DEF Progress
  <2>4. QED
    BY <2>1, <2>3 DEF Progress
<1>7. QED
  BY <1>2, <1>3, <1>4, <1>5, <1>6

\* A client that has ended has written all of its results.
LEMMA EndedMeasured ==
    ASSUME NEW ip, Measured(ip), ClientEnded(Run, ip), exp.system # "scalog"
    PROVE  \A t \in Threads : ResultFile(Run, JsonName, ip, t) \in home
BY DEF Measured, ToWrite, ClientEnded

\* Results are copied client after client, each when it has ended.
LEMMA ProgressWait ==
    ASSUME Control, Progress, intact', WaitClient
    PROVE  Progress'
<1> USE DEF ClientLabels
<1>1. i \in Nat \ {0} /\ Len(Clients) \in Nat \ {0}
  BY RemoteAssumption, ListFacts DEF Control, Position
<1>2. /\ UNCHANGED <<campaign, o, e, config, home, running>> /\ pc = "wait"
      /\ exp.system \in {"pringles", "baseline"} /\ i <= Len(Clients)
  BY DEF WaitClient, Each, Goto, At, remoteVars, Control, Place
<1>3. PICK ip : ip = Clients[i]
  OBVIOUS
<1>4. ip \in ClientIps
  BY <1>1, <1>2, <1>3, RemoteAssumption, ListFacts DEF ClientIps
<1>5. ResultsArrive(JsonName, ip)
  BY <1>3 DEF WaitClient, copy_results_back, Fault
<1>6. \A t \in Threads : ResultFile(Run, JsonName, ip, t) \in home
  BY <1>2, <1>3, <1>4, EndedMeasured DEF Progress, WaitClient
<1>7. Covered(ip)' /\ \A m : Covered(m) => Covered(m)'
  BY <1>2, <1>5, <1>6, Arrives
<1>8. \A k \in 1 .. i : Covered(Clients[k])'
  <2>1. \A k \in 1 .. i - 1 : Covered(Clients[k])'
    BY <1>2, <1>7 DEF Progress
  <2>2. \A k \in 1 .. i : k \in 1 .. i - 1 \/ k = i
    BY <1>1
  <2>3. \A k : k = i => Covered(Clients[k])'
    BY <1>3, <1>7
  <2>4. QED
    BY <2>1, <2>2, <2>3
<1>9. CASE i < Len(Clients)
  <2>1. pc' = "wait" /\ i' = i + 1
    BY <1>9 DEF WaitClient, Each, Goto
  <2>2. \A m : Measured(m) => Measured(m)'
    BY <1>2, MeasuredGrows
  <2>3. \A m \in ClientIps : Measured(m)'
    BY <1>2, <2>2 DEF Progress
  <2>4. i' - 1 = i
    BY <1>1, <2>1
  <2>5. QED
    BY <1>8, <2>1, <2>3, <2>4 DEF Progress
<1>10. CASE ~(i < Len(Clients))
  <2>1. pc' = "finally" /\ i = Len(Clients)
    BY <1>1, <1>2, <1>10 DEF WaitClient, Each, Goto
  <2>2. \A m \in ClientIps : \E k \in 1 .. Len(Clients) : m = Clients[k]
    BY RemoteAssumption, ListFacts DEF ClientIps, Range
  <2>3. \A m \in ClientIps : Covered(m)'
    BY <1>8, <2>1, <2>2
  <2>4. Measuring(Run)' = ClientIps
    BY <1>2, SameRun DEF Measuring, Run, exp
  <2>5. QED
    BY <2>1, <2>3, <2>4 DEF Progress
<1>11. QED
  BY <1>9, <1>10

\* The benchmark has Threads to write when it starts, and nothing is left when
\* the script wakes up.
LEMMA ProgressScalog ==
    ASSUME Control, Quiet, Progress, intact', StartBenchmark \/ CollectScalog
    PROVE  Progress'
<1> USE DEF ScalogLabels
<1>1. CASE StartBenchmark
  <2>1. PICK w : w = [This("client", Clients[1], "perf", Duration) EXCEPT !.prog = "scalog"]
    OBVIOUS
  <2>2. /\ UNCHANGED <<campaign, o, e, config, home>> /\ pc = "perfClient" /\ pc' = "collect"
        /\ running' = running \cup {w} /\ sleep' = Duration + 3
    BY <1>1, <2>1 DEF StartBenchmark, Launch, execute_remote_command, Fault, Goto, At
  <2>3. Run' = Run /\ JsonName' = JsonName /\ exp' = exp /\ exp.system = "scalog"
    BY <2>2, SameRun DEF Control, Place
  <2>4. /\ w.ip = Clients[1] /\ w.run = Run /\ w.name = JsonName
        /\ w.todo = Threads /\ w.left = Duration
    BY <2>1 DEF This, Program
  <2>5. Measured(Clients[1])'
    BY <2>2, <2>3, <2>4 DEF Measured, ToWrite
  <2>6. \A p \in running : p.run = Run => p.todo = {}
    BY <2>2 DEF Quiet
  <2>7. Duration \in Nat
    BY RemoteAssumption
  <2>8. \A p \in running' : p.run = Run' /\ p.todo # {} =>
            p.left \in Nat /\ p.left = sleep' - 3
    BY <2>2, <2>3, <2>4, <2>6, <2>7
  <2>9. QED
    BY <2>2, <2>5, <2>8 DEF Progress
<1>2. CASE CollectScalog
  <2>1. /\ UNCHANGED <<campaign, o, e, config, home, running>>
        /\ pc = "collect" /\ sleep = 0 /\ pc' = "finally"
    BY <1>2 DEF CollectScalog, Goto, At, remoteVars
  <2>2. Measured(Clients[1]) /\ \A p \in running : p.run = Run => p.todo = {}
    BY <2>1 DEF Progress
  <2>3. \A t \in Threads : ResultFile(Run, JsonName, Clients[1], t) \in home
    BY <2>2 DEF Measured, ToWrite
  <2>4. ResultsArrive(JsonName, Clients[1])
    BY <1>2 DEF CollectScalog, copy_results_back, Fault
  <2>5. Covered(Clients[1])'
    BY <2>1, <2>3, <2>4, Arrives
  <2>6. exp.system = "scalog"
    BY <2>1 DEF Control, Place
  <2>7. Measuring(Run)' = {Clients[1]}
    BY <2>1, <2>6, SameRun DEF Measuring, Run, exp
  <2>8. QED
    BY <2>1, <2>5, <2>7 DEF Progress
<1>3. QED
  BY <1>1, <1>2

\* The finally block copies only logs.
LEMMA ProgressFinally ==
    ASSUME Progress, CollectLogs \/ StopBench \/ StopScalog
    PROVE  Progress'
<1>1. /\ UNCHANGED <<campaign, o, e, config, raw>>
      /\ pc = "finally" /\ pc' \in {"aggregate", "crashed"}
  BY DEF CollectLogs, StopBench, StopScalog, Goto, At, localVars
<1>2. \A ip : Covered(ip) => Covered(ip)'
  BY <1>1, CoveredStays
<1>3. Measuring(Run)' = Measuring(Run)
  BY <1>1, SameRun
<1>4. \A ip \in Measuring(Run) : Covered(ip)'
  BY <1>1, <1>2 DEF Progress
<1>5. QED
  BY <1>1, <1>3, <1>4 DEF Progress

\* No result is due at the labels that the other steps lead to.
LEMMA ProgressOther ==
    ASSUME Control, intact',
           StartServer \/ StartSwitch \/ StartBench \/ DistributeConfig \/
           StartOrder \/ StartDiscovery \/ StartData \/ Between \/ Aggregate \/ MergeOverrides
    PROVE  Progress'
<1>1. pc' \notin {"client", "launchClient", "perf", "wait", "collect", "finally", "aggregate"}
  BY DEF StartServer, StartSwitch, StartBench, DistributeConfig, StartOrder, StartDiscovery,
         StartData, Between, StartCycle, NextExperiment, CheckBrokers, StartBrokers,
         Aggregate, EndIteration, MergeOverrides, FirstPhase, Prepare, Raise, Fault, Goto, At,
         Control, Place, LoopSystems
<1>2. QED
  BY <1>1 DEF Progress

\* No step loses what an experiment without failures has measured.
LEMMA MeasurementStep ==
    ASSUME Control, Programs, Measurement, [scriptNext]_vars
    PROVE  Measurement'
<1>1. Quiet'
  BY QuietStep DEF Measurement
<1>2. SUFFICES ASSUME intact', NameSafe(Run)'
               PROVE  Progress'
  BY <1>1 DEF Measurement
<1>3. CASE Tick \/ machineStep \/ UNCHANGED vars
  <2>1. Machines
    BY <1>3, MachinesStep, StutterStep DEF Programs
  <2>2. intact /\ NameSafe(Run)
    BY <1>2, <2>1, SameRun DEF Machines
  <2>3. CASE pc \in Working
    BY <1>2, <1>3, <2>2, <2>3, ProgressMachines DEF Measurement
  <2>4. CASE pc \notin Working
    BY <2>1, <2>4 DEF Progress, Machines, Working, PringlesLabels, ClientLabels, ScalogLabels
  <2>5. QED
    BY <2>3, <2>4
<1>4. CASE Between \/ Aggregate \/ MergeOverrides
  BY <1>2, <1>4, ProgressOther
<1>5. CASE scriptStep /\ ~(Between \/ Aggregate \/ MergeOverrides)
  <2>1. Work
    BY <1>5, LaunchesWork, PreparesWork, CopiesWork, StopsWork DEF scriptStep, Between
  <2>2. intact /\ NameSafe(Run)
    BY <1>2, <2>1, SameRun DEF Work
  <2>3. Progress
    BY <2>2 DEF Measurement
  <2>4. QED
    BY <1>2, <1>5, <2>3, ProgressClients, ProgressWait, ProgressScalog, ProgressFinally,
       ProgressOther DEF scriptStep, Between, Measurement
<1>6. QED
  BY <1>3, <1>4, <1>5 DEF scriptNext

\* The summary counts what is in the results directory.
LEMMA SummaryCompleteStep ==
    ASSUME NamesInv, Measurement, SummaryComplete, [scriptNext]_vars
    PROVE  SummaryComplete'
<1>1. UNCHANGED campaign
  <2>1. CASE scriptNext
    BY <2>1, Kinds, AdvanceStep DEF NamesInv, Data
  <2>2. QED
    BY <2>1 DEF vars, scriptVars
<1>2. \A r : (NameSafe(r)' <=> NameSafe(r)) /\ Measuring(r)' = Measuring(r)
  BY <1>1, SameCampaign DEF Measuring
<1>3. \A s \in summaries' : s \in summaries \/ (Aggregate /\ s = Summary(Run, JsonName))
  <2>1. CASE scriptNext
    <3>1. Work \/ Machines \/ Between \/ MergeOverrides \/ Aggregate
      BY <2>1, Kinds DEF NamesInv, Data
    <3>2. QED
      BY <3>1 DEF Work, Machines, Between, StartCycle, NextExperiment, CheckBrokers,
                  StartBrokers, MergeOverrides, Aggregate, process_and_aggregate_results,
                  WriteSummary, ReplaceSummary, localVars
  <2>2. CASE UNCHANGED vars
    BY <2>2 DEF vars, localVars
  <2>3. QED
    BY <2>1, <2>2
<1>4. ASSUME NEW s, Aggregate, s = Summary(Run, JsonName), s.intact, NameSafe(s.run)
      PROVE  \A ip \in Measuring(s.run), t \in Threads :
                 \E f \in s.counted : f.run = s.run /\ f.ip = ip /\ f.thread = t
  <2>1. s.run = Run /\ s.counted = raw /\ intact /\ pc = "aggregate"
    BY <1>4 DEF Summary, Aggregate, At
  <2>2. \A ip \in Measuring(Run) : Covered(ip)
    BY <1>4, <2>1 DEF Measurement, Progress
  <2>3. QED
    BY <2>1, <2>2 DEF Covered
<1>5. QED
  BY <1>2, <1>3, <1>4 DEF SummaryComplete

MeasurementInv == NamesInv /\ Measurement /\ SummaryComplete

\* The invariant behind the theorem below.
LEMMA MeasurementAlways == scriptSpec => []MeasurementInv
<1>1. scriptInit => MeasurementInv
  BY NamesInit DEF MeasurementInv, scriptInit, remoteInit, Measurement, Quiet, Progress,
                   SummaryComplete
<1>2. MeasurementInv /\ [scriptNext]_vars => MeasurementInv'
  BY NamesStep, MeasurementStep, SummaryCompleteStep DEF MeasurementInv, NamesInv, Data
<1>3. QED
  BY <1>1, <1>2, PTL DEF scriptSpec

\* If no copy failed and no program was lost, the summary of an experiment with a
\* safe name counts a result of every thread of every client that measured
\* (proc.wait, copy_results_back, process_and_aggregate_results).
THEOREM ScriptSummaryComplete == scriptSpec => []SummaryComplete
<1>1. MeasurementInv => SummaryComplete
  BY DEF MeasurementInv
<1>2. QED
  BY <1>1, MeasurementAlways, PTL
==============================================================================
