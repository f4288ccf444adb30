--------------------------- MODULE RemotePrograms ---------------------------
(* What the experiment scripts do to other machines and to the shared       *)
(* results directory (experiments/scripts/experiment.py):                   *)
(*   - start and kill programs over ssh; a kill is sent and not waited for; *)
(*   - transfer files and copy results and logs back with scp, which can    *)
(*     fail;                                                                *)
(*   - summarise the raw results of one experiment.                         *)
(* Time is counted in units of the start delay (five seconds).              *)
EXTENDS Integers, FiniteSets, Sequences, Functions

CONSTANTS
    Servers,      \* stor_ips, in order
    Clients,      \* cli_ips, in order
    SwitchIp,     \* switch_ip
    Threads,      \* client threads of one client program
    Duration,     \* warm_up + experiment_duration + cool_down
    Extends,      \* pairs <<n, m>>: the name m starts with the name n
    Underscored,  \* names that contain an underscore
    MaxFaults     \* bound on the faults of a campaign

IsList(s) == s \in Seq(Range(s)) /\ s # <<>>

ASSUME RemoteAssumption ==
    /\ IsList(Servers) /\ IsList(Clients)
    /\ Duration \in Nat /\ MaxFaults \in Nat

Forever == -1     \* the lifetime of a program that does not stop by itself

VARIABLES
    running,      \* programs alive on the machines
    kills,        \* killall commands under way: <<program, machine>>
    home,         \* result files in the machines' home directories
    raw,          \* *.json files in local_results_dir
    logs,         \* *.txt, *.log and *.perf files in local_results_dir
    moved,        \* logs moved into the directory of a name: <<name, log>>
    kept,         \* results moved into it: <<name, file>>
    summaries,    \* the summary of each name, with the files it counts
    intact,       \* nothing went wrong in the current experiment
    faults        \* what went wrong in the campaign so far

remoteVars == <<running, kills, home>>
localVars  == <<raw, logs, moved, kept, summaries>>
faultVars  == <<intact, faults>>

\* An ssh or scp that fails, or a program that fails when it starts.
Fault == faults < MaxFaults /\ faults' = faults + 1 /\ intact' = FALSE

ClientIps  == Range(Clients)

\* A result file is named after the experiment, the thread and the client.
\* "run" is the experiment that wrote it, which its name does not say.
ResultFile(r, n, ip, t) == [run |-> r, name |-> n, ip |-> ip, thread |-> t]
SameName(f, g) == <<f.name, f.ip, f.thread>> = <<g.name, g.ip, g.thread>>

\* The files written over by a new file are those of its name.
Overwrite(files, f) == {g \in files : ~SameName(f, g)} \cup {f}

------------------------------------------------------------------------------
(* Programs                                                                 *)

\* The lifetime that a program reads in its YAML file.
final_duration(prog) ==
    IF prog \in {"server", "switch"} THEN Duration + 1 ELSE Duration

Program(prog, ip, r, n, copy, life) ==
    [prog |-> prog, ip |-> ip, run |-> r, name |-> n, copy |-> copy,
     left |-> life, todo |-> IF prog = "client" THEN Threads ELSE {}]

\* The script learns only that ssh was started: the program may fail at once.
execute_remote_command(programs) ==
    \/ /\ running' = running \cup programs
       /\ UNCHANGED faultVars
    \/ Fault /\ UNCHANGED running

kill_process(prog, ip) == kills' = kills \cup {<<prog, ip>>}

Hit(k) == {p \in running : p.prog = k[1] /\ p.ip = k[2]}

\* killall reaches the machine, whatever runs there by then, or ssh fails.
KillArrives ==
    \E k \in kills :
        /\ kills' = kills \ {k}
        /\ \/ /\ running' = running \ Hit(k)
              /\ intact' = (intact /\ Hit(k) = {})
              /\ UNCHANGED faults
           \/ Fault /\ UNCHANGED running
        /\ UNCHANGED home

\* kill_remote_process: the script waits, and goes on if ssh failed.
kill_remote_process(prog, ips) ==
    \/ /\ running' = {p \in running : p.prog # prog \/ p.ip \notin ips}
       /\ UNCHANGED faultVars
    \/ /\ Fault
       /\ \E missed \in ips :
             running' = {p \in running : p.prog # prog \/ p.ip \notin ips \ {missed}}

\* A client whose time is over writes one file per thread and ends.
WriteResult ==
    \E p \in running :
        /\ p.left = 0
        /\ \E t \in p.todo :
              /\ home' = Overwrite(home, ResultFile(p.run, p.name, p.ip, t))
              /\ running' = (running \ {p}) \cup {[p EXCEPT !.todo = @ \ {t}]}
        /\ UNCHANGED <<kills, faultVars>>

ProgramEnds ==
    \E p \in running :
        /\ p.left = 0
        /\ p.todo = {}
        /\ running' = running \ {p}
        /\ UNCHANGED <<kills, home, faultVars>>

Older(p) == IF p.left > 0 THEN [p EXCEPT !.left = @ - 1] ELSE p

\* Time does not pass over a program that has to end now; a kill reaches its
\* machine, or fails, within the unit of time in which it is sent.
TimePasses ==
    /\ \A p \in running : p.left # 0
    /\ kills = {}
    /\ running' = {Older(p) : p \in running}
    /\ UNCHANGED <<kills, home, faultVars>>

------------------------------------------------------------------------------
(* The results directory                                                    *)

Matches(n, m) == n = m \/ <<n, m>> \in Extends

\* scp of json_name*.json: everything the pattern matches, or nothing.
\* (mutCopiedAll: the pattern lacks the name.)
mutCopiedAll(n, ip) == {f \in home : f.ip = ip}
Copied(n, ip) == {f \in home : f.ip = ip /\ Matches(n, f.name)}

ResultsArrive(n, ip) ==
    raw' = {f \in raw : \A g \in Copied(n, ip) : ~SameName(f, g)} \cup Copied(n, ip)
LogsArrive(files) == logs' = logs \cup files

\* The callers ignore what these two return.
copy_log_file_back(files) ==
    \/ LogsArrive(files) /\ UNCHANGED faultVars
    \/ Fault /\ UNCHANGED logs

copy_results_back(n, ip, files) ==
    \/ ResultsArrive(n, ip) /\ copy_log_file_back(files)
    \/ Fault /\ LogsArrive(files) /\ UNCHANGED raw

\* Log files of experiment e of a cycle are named after program, machine and e.
LogFile(prog, ip, e) == [prog |-> prog, ip |-> ip, exp |-> e]

\* A result stays where it is if the directory of n has a file of its name.
Stays(n, f) == \E x \in kept : x[1] = n /\ SameName(f, x[2])
\* The same for a log file raises shutil.Error, which nobody catches.
Collides(n) == \E l \in logs : <<n, l>> \in moved

SummaryFile(r, n) == ResultFile(r, n, "summary", 0)
LooksRaw(n) == n \in Underscored

Summary(r, n) == [run |-> r, name |-> n, counted |-> raw, intact |-> intact]

\* The summaries after that of experiment r, named n, which replaces one of its
\* name. (mutReplaceAll: one summary file for the whole directory.)
mutReplaceAll(r, n) == {Summary(r, n)}
ReplaceSummary(r, n) == {s \in summaries : s.name # n} \cup {Summary(r, n)}

\* Every file name with an underscore counts as a raw result: client results
\* have one, a summary only if its n has.
WriteSummary(r, n) ==
    /\ summaries' = ReplaceSummary(r, n)
    /\ LET left == {f \in raw : Stays(n, f)}
       IN /\ raw' = IF LooksRaw(n) THEN Overwrite(left, SummaryFile(r, n)) ELSE left
          /\ kept' = kept \cup ({n} \X (raw \ left))
    /\ moved' = moved \cup ({n} \X logs)
    /\ logs' = {}

process_and_aggregate_results(r, n) ==
    IF raw = {} THEN UNCHANGED localVars ELSE WriteSummary(r, n)

AggregateCrashes(n) == raw # {} /\ Collides(n)

remoteInit ==
    /\ running = {} /\ kills = {} /\ home = {}
    /\ raw = {} /\ logs = {} /\ moved = {} /\ kept = {} /\ summaries = {}
    /\ intact = TRUE /\ faults = 0
=============================================================================
