# Pringles in TLA+

Pringles is a shared log whose entries are numbered in the network.  Clients
append over UDP; a ring of P4 switches (or one software process) gives every
append a global index and sends it to storage servers; an append returns when
its answer comes back.  Controllers set the switches up and serve subscriptions;
scripts start the programs on many machines, copy their results back and
summarise them.  These modules model the numbering, the storage of an append, the
answers and the tail queries, the controllers, and the two experiment scripts.
TLC checks them on small instances; TLAPS proves every safety property that a
passing run checks, for every size: of the log, of both its implementations, of
the batch counters, of the controllers, and of both scripts.

Paths below are relative to `src/`; `P4` is
`code/p4/sequencing/sequencing_only.p4`.

## 1. Inventory

| part | state | operations | talks to |
|---|---|---|---|
| ring data plane, `P4` | registers `local_seq_no`, `cntrl_pkt_it`, `map_from_gsn`, `highest_replicated_seq_no`, `ack_array`; the headers of packets in flight | one pass of a packet through the ingress pipeline: control packet, append (first or later pass), append answer, read, tail, subscription, view change | next switch, its own loopback port, storage multicast groups, clients |
| ring control plane, `code/p4/sequencing/test.py`, `code/p4/failure_tests/failure.py` (the same functions) | tables, multicast groups (`global_group_id`, `general_sub_group`, `stream_sub_dict`), mirror sessions, a thread that listens to subscriptions | `runTest`: ports, shards, control, tail and subscription tables, the control packet, the packet generator; `update_stream_subscriber_table` | its own switch; the other controllers only by way of packets |
| storage server, `code/src/pringles_storage.cpp` | `concurrent_stor` | `append_server` (`store`), `read_server` (`get`) | answers to whoever sent the packet |
| software switch, `code/src/pringles_software_switch.cpp` | atomic `max_idx`, `ack_map`, shard and stream maps, subscriber lists | threads: append request, append response, read request and response, tail, subscription | clients, storage, shared memory between threads |
| client, `code/src/pringles_client.cpp` | `append_nonce`, receive queues | `append`, `read`, `getTail`, `subscribe` and stream variants, `trim` | switch or storage |
| network library, `code/src/network.cpp` | sockets, batch buffer | send and receive of one packet, of a batch (`recvmmsg`/`sendmmsg`) | used by all C++ parts |
| packet generator variant, `code/p4/pktgen_tests/pktgen.p4` and its `test.py` | the ring's registers, `active_batches`, `map_from_batch_sz`, latency statistics | the passes of the ring, through several loopback ports; counts what is left of every finished batch; a thread that prints the counters | its packet generator, next switch |
| view change, `code/p4/failure_tests/` | `view` | a packet that asks for the highest number | controllers (not written) |
| experiment campaigns, `experiments/scripts/experiment.py` | programs and files on the machines, the results directory, merged parameters, names assigned in earlier iterations | one cycle per system: start servers, switch and clients, wait, copy back, summarise | the machines, by ssh and scp |
| hardware experiments, `experiments/scripts/pktgen.py` | the same, and one summary per group of names | the same with the set-up of the switches, or through a tunnel | machines and switches, by ssh and scp |

The copies in `normal_tests/`, the Corfu baseline, `new_network.cpp`, the dummy servers, utilities, benchmarks,
vendored queues, tutorials, the old experiment scripts and the paper are listed
in `PROJECT.json` with the reason why they have no module.

How an append travels in the ring:

1. A switch sees it with `g_idx = 0`, adds one to `local_seq_no`, and writes the
   offset and the current `cntrl_pkt_it` into the packet, which goes to the
   loopback port.
2. The control packet passes, takes the count, stores the number it came with in
   `map_from_gsn[cntrl_pkt_it]`, moves `cntrl_pkt_it` on, and goes to the next
   switch with the count added.
3. On its next turn the append finds that its iteration is over, adds the map
   entry to its offset, and leaves for its shard.
4. Storage stores and answers; a switch forwards the answer to the client once
   the map's current entry has reached the index, and remembers the index as
   replicated, which is what tail queries collect on their way round the ring.

How a subscription is served: a request that enters one switch is multicast to
the CPU ports of all; each controller that is already listening gives a new
stream a multicast group and a mirror session, and adds later subscribers to the
group.  The first subscriber without a stream becomes the group that all later
sessions begin with.

How an experiment runs: parameters are merged from the defaults and the overrides
(in one of the scripts into the dictionary that the next experiment starts from);
servers, switch and clients are started by ssh, which tells only that ssh has
started; the script sleeps, waits for its clients' ssh, copies files whose name
matches a pattern, and counts what it finds in the results directory.  Programs
of an earlier experiment are killed by name, without waiting for the kill.

What is hard here: the control packet, the appends and the answers pass a switch
in every order; the number an append needs is read from a register array that
later batches reuse; the array's index wraps; nothing is retransmitted, not even
the control packet; in the software switch several threads share a counter that
is incremented and read in two steps; controllers are set up and restarted
independently while packets and subscriptions are under way; a late kill, a
failed copy or a file of an earlier experiment changes what a summary counts.
The list in `PROJECT.json` ("hazards") puts each of these at its line.

What makes each part right:

* data plane: indices are unique, reserved by the control packet, without holes,
  in real-time order, and fixed from the moment the batch closes; every append
  leaves the loop; answers are held back until covered; a tail covers what was
  known, and nothing more than what is stored;
* control plane: a control packet is left when all controllers are done, and
  keeps visiting every switch; the groups of shards and streams stay apart; every
  subscriber in the tables gets the answers of its stream, and nobody else does if
  the stream is first subscribed when there is a subscriber without a stream (an
  earlier stream is mirrored to the broadcast group too);
* packet generator variant: the batch counters agree with what is in the loop;
* storage: the entry of an index never changes and the answer means it is there;
* software switch: the same log with one thread; with two, real-time order, and
  an answer is lost only where two appends share an index;
* client: an answer is matched to the append it belongs to;
* experiments: each runs under the name it asks for, and is run whatever became of
  the ones before; a summary is of one name, counts the results of its own
  experiment only, and all of them if nothing failed; no program that would run for
  ever is left behind; summaries come in the order of the experiments; the script
  ends whatever fails.

Not all of this holds: section 5 lists what the code does instead.

## 2. Modules

| module | models | state and actions |
|---|---|---|
| `SharedLog` | what clients are promised | arrived appends, places reserved, places given; `Arrive`, `Reserve`, `Number` |
| `RingSequencer` | steps 1 to 3 above, for `N` switches | one action per kind of pass: `FirstPass`, `Recirculate`, `CntrlPacket`; the controller's `InjectToken`; `LoseInLoop` for a packet dropped at the loopback port, `LoseToken` for a control packet dropped on a link |
| `RingLog` | step 4, on top of `RingSequencer` | `StoreAppend`, `AckResponse`, `AckGenerated`, `TailQuery`, `TailPass`; what a switch reports to a view-change request |
| `PktgenSequencer` | the packet generator variant, on top of `RingLog` | a step of the ring (`rlNext`) with what it counts (`Counts`): a batch that closes (`CountBatch`), a generated append that leaves the loop (`CountLeaving`) |
| `SoftwareLog` | client, software switch and storage | `SendAppend`, `ReceiveAnswer`, `GiveUp`; `Count` and `Stamp` (the two statements of a request thread); `StoreAppend`; `FindAck` and `InsertAck` (the two accesses of a response thread to `ack_map`) |
| `SwitchControl` | the controllers, control packets during the set-up, subscriptions | `Start` (and restart), one action per step of `runTest`, `ForwardToken`, `Subscribe`, `ReceiveCopy` |
| `RemotePrograms` | what the scripts do to other machines and to the results directory | operators for starting, killing, copying and summarising; actions of the machines: `KillArrives`, `WriteResult`, `ProgramEnds`, `TimePasses` |
| `ExperimentScript` | `experiment.py`: main and its cycles, on top of `RemotePrograms` | one action per call that reaches a machine or a file, with the exception it can raise; `pc` is the place in the script |
| `PktgenScript` | `pktgen.py`, on top of `ExperimentScript` | the same for its own cycle, the set-up of the switches, and the summary by group |
| `RingSequencer_proofs`, `RingLog_proofs`, `PktgenSequencer_proofs`, `SoftwareLog_proofs`, `SwitchControl_proofs`, `ExperimentScript_proofs`, `PktgenScript_proofs` | - | the proofs |
| `MCRingLog`, `MCRing`, `MCPktgen`, `MCSoftwareLog`, `MCSwitchControl`, `MCExperiment` | instances for TLC | values of the constants |

A pass through the ingress pipeline is one step, because the pipeline visits
each register once and in stage order for every packet.  In the C++ parts a step
ends at every access to shared memory that another thread can get in between of.
In the scripts a step is a call that another machine or a file can tell, up to
the next one.  Register actions keep their names (`add_gsn`, `zero_gsn`,
`compare_gsn`, ...) and are written as the register array they leave.  Messages
are sets: they arrive in any order, and a lost one simply never arrives.  In the
ring no two servers share an answer, and a server is attached to any switch.

History variables (marked in the modules) record what the properties need: the
appends an append has to follow, the number the control packet last left a
switch with, the highest index known when a tail query starts, and, in the
scripts, the experiment that wrote a file (`run`) and whether anything has gone
wrong in it (`intact`).

Deliberate choices, in the log:

* Numbers are unbounded.  Registers and headers have 32 bits and the value 0 of
  `g_idx` means "not counted"; 2^32 appends are out of reach of a run.
* The map has an entry for each of the values 0 .. `MAX_GSN_MAP_SIZE` of the
  counter.  The code declares 65535 entries, so that entry 65535 is outside the
  array; what the hardware does then is unknown and not modelled.
* `RecirculationKeepsUp` is a guard on the control packet: an append has left
  the loop before the counter of its switch comes round to the append's
  iteration again, 65536 non-empty batches later.  No code enforces it; it is a
  timing assumption about the loopback port, named so that every result that
  relies on it can be seen to.
* `LossyTokens` says whose control packet a link may drop.  Where the set is not
  empty, nothing is promised of the numbering after the loss, and everything is
  promised of what was numbered, answered and queried.
* The acknowledgement count of the P4 program does not appear: `check_ack` yields
  1 whatever it is.
* An answer that may not pass yet turns in the loopback port and changes nothing:
  this is the absence of `AckResponse`.
* In `SoftwareLog` the socket a request was sent from is the request thread's
  number, since response thread `t` reads the socket of request thread `t`.  An
  answer without quorum goes back to the socket from which storage sent it; storage
  reads another one, so that the answer is lost (`Forward`).

In the packet generator variant:

* The counters read the ring and the ring does not read them, so that a step of
  `PktgenSequencer` is a step of `RingLog` and everything said of the ring holds.
* The variant sends appends to one of several loopback ports, chosen by register
  `recirc_port_idx`; each is a way round the loop, and packets in the loop are a set
  already.
* The size that is noted for a batch counts all its appends, and only generated
  ones are taken off: where a client's append, or one that was dropped, went
  through a switch, its counters stay too high (`OnlyGenerated`).

In the controllers:

* Driver and controller are restarted together, in one step; what they had
  installed and the packets in their switch are gone.
* The controllers run from a configuration written by hand: the one that
  `generate_switch_config` writes lacks keys that `runTest` reads.
* A multicast group has two entries in the switch's table, `0x321` ids apart
  (`RidBase`); a group whose entry is taken raises, and the listener thread ends
  (`ListenerDies`).

In the scripts:

* The unit of time is the start delay of five seconds.  A kill reaches its
  machine, or fails, before one unit has passed; the sleeps of two and three
  seconds are shorter than a unit.  The ssh connection of a client lives as long
  as the client.
* `MaxFaults` bounds what goes wrong in a campaign: an ssh or scp that fails or a
  program that fails when it starts.  `kill_remote_process` counts as one command.
* Ending the local ssh process (`proc.kill`) has no effect on the other machine.
* A campaign starts with empty home and results directories.
* File names are kept as far as the scripts tell them apart: which name begins
  another one (`Extends`) and which contains an underscore (`Underscored`).

## 3. Runs

Bounds count appends, switches, map entries, threads, starts and faults; the
reasons are given with each.  The passing runs of the ring include the batch counters, which
add no behaviour to it and take none away.  All runs with the ring use an iteration counter of
two or three values instead of 65536, so that it laps.

| run | instance | distinct states | shows |
|---|---|---|---|
| `ring_three` | the packet generator variant: 3 switches, 3 appends (two generated), map of 2 entries, token from switch 1, fair | 278 371 | unique, reserved, ordered indices, no holes, fixed when the batch closes; the batch counters agree with the loops; the ring implements `SharedLog`; every append leaves its switch |
| `ring_tokens` | 2 control packets | violation | two appends with one index |
| `ringlog_answers` | 2 switches, 2 appends (one in a stream), 1 server, 1 tail query, a control packet that may be dropped at any time, fair | 98 245 | answered appends are stored, and covered when answered; tails cover what was known, and only what is stored; reports to a view change never go back; only the loss of the control packet keeps an answer back |
| `ringlog_replicas` | 2 servers | violation | recorded as replicated with one answer |
| `soft_one` | 2 clients, 3 appends each, 1 thread, with and without storage, fair | 103 454 | implements `SharedLog`; what returned is stored; no holes; every append returns |
| `soft_two` | the same with 2 threads | 1 179 956 | real-time order survives the race; an answer is lost only where two appends share an index |
| `soft_race` | 2 clients, 1 append each, 2 threads | violation | an append that returned is not stored |
| `switch_control` | 2 controllers, 3 starts, 3 subscriptions (one without a stream), 1 shard, fair | 183 506 | a control packet survives the set-up and keeps visiting; groups stay apart; subscribers get their streams; nobody else gets a stream that is first subscribed after the subscriber without one |
| `switch_general` | the same, 2 starts | violation | a subscriber without a stream misses earlier streams |
| `campaign` | the campaigns of `MCExperiment`: every system, repeated, extended and underscored names, configurations that crash; 2 servers, 2 clients, a ring of 2, one fault, fair | 422 311 | own results, complete summaries, groups that are exactly what was measured, no program left, order, the scripts end |
| `group_prefix` | `pktgen.py`: x_y and x, no fault | violation | one group of two names |
| `servers_end` | one experiment, no fault | violation | a server ends while its client is measuring |

Why the bounds suffice.  Three switches let the token be at neither of two
switches with open batches, and three appends with a map of two entries let one
batch reuse the entry of another one at the same switch.  Two switches and two
appends are the least for an answer at a switch that the token has not told of
it, and for a tail query that passes one switch before an answer and the other
one after it.  Two generated appends make a batch of two, whose counter is not
zero after the first has left, and two active batches of one switch.  Two clients with two threads are the smallest race on the
counter; three appends each let a client overtake the other twice.  Two
controllers and three starts let one restart between any two steps of the other,
and three requests are a first and a second subscriber of a stream around one
without a stream.  Three experiments let a name come back after another one, and
one fault in each of them is reached, since the fault may be anywhere.  The three of
`pktgen.py` are x_y, z and x_y again: the summary of x is that of the last one, and
the file patterns of all three meet in one directory.  The proofs
below remove the bounds for everything but liveness.

`RidBase` is 4 in `switch_control`, where no switch has four groups; the
collision of group ids, and with it `ListenerDies` by a taken id, needs more
groups than the run has.  The proofs cover it for every `RidBase`.

`use_store` is chosen in the initial state of `SoftwareLog`, so that each of its
runs covers both configurations.

Deadlock is checked except where the system really stops: an experiment of
`SoftwareLog` ends when every client has given up or made its appends; the ring
of `ringlog_answers` stops when its control packet is lost; scripts end; and
controllers may have lost all control packets before the last of them is started.

Fairness.  `FairPktgenSpec`, the specification of both passing runs of the ring,
assumes (`rlFairness`) that each controller sends its control packet, that the
control packet keeps moving (switches forward it as soon as it is processed)
unless it is lost, that the loopback port serves its queue, that some server gets
an append that was multicast to it, and that answers keep turning; nothing is
assumed of clients, so no append has to arrive.  `FairSoftSpec` assumes that
threads run and that messages arrive; clients may stop.  `FairSwitchSpec` assumes that controllers run
and control packets are forwarded; nobody has to start a switch or to subscribe.
`FairCampaignSpec` assumes that ssh, scp and sleep return, that programs end when
their time is over, and that time passes.  All of it is weak fairness: in the code
these are loops that poll a port or a socket, or blocking calls.  No message that is
lost has to be sent again, because nothing in the code does.

Liveness has two limits that the code has too.  `EventuallyAcked` and
`EventuallyLeaves` are about a finite load: the gate for answers opens only when
the control packet finds an empty batch, so appends without end can hold back
answers without end.
`EventuallyReturns` is about one thread and a threshold of one: an append goes
to the first storage server only, so a larger threshold is never reached.

## 4. Proofs

Every theorem holds for all values of the constants under the assumptions named
in the modules: `RingAssumption` and `SoftwareAssumption` (the types of the
constants, finitely many clients), `NAssumption`, `ShardAssumption`,
`RequestAssumption`, and for the scripts the three named with them below.  "One control packet" stands for `Injectors = {c}`, which is
what the configuration intends (one switch with `send_cntrl_pkt`); run
`ring_tokens` shows that it is needed.  "One thread" stands for `Threads = {t}`,
and `soft_race` shows that that is needed.

The ring (`RingSequencer_proofs`):

* `RingTypeCorrect`: `ringTypeOK`.
* `RingInvariant`: `ringInv`, for one control packet.
* `RingUnique`, `RingReserved`, `RingOrdered`: consequences of `ringInv`.
* `RingDense`: `NoHoles`, for one control packet.
* `RingIndexFixed`: `IndexFixed`, for any number of control packets.
* `RingImplements`: the refinement to `SharedLog`, for one control packet.

Uniqueness alone is not inductive: it says nothing of appends that still
recirculate.  `ringInv` therefore speaks of two kinds of appends in the loop.
One of an open batch (`Current`) holds an offset the switch has counted,
different from its neighbours', and finds 0 in the map on every turn
(`OpenBatch`).  One of a finished batch (`Done`) has, in effect, its index
already: its offset plus the map entry it will read (`Final`), and these indices
are all different and not above the token's number (`FinishedBatch`).  The step
from the first to the second is the control packet's, which stores its number
and adds the count: offsets 1 .. n become numbers above everything reserved so
far (`InvCloseBatch`).  `BatchOrder` carries real-time order along.
`RecirculationKeepsUp` is used in that step only: without it a finished append
would be counted as one of the batch being opened.  `Dense` is the other half of
`ringInv`: unless an append has been dropped, every offset of an open batch and
every number reserved has its append.

The refinement maps `reserved` to the control packet's number and gives an
append its place in the step in which it leaves the loop; arrival is its first
pass.  All of this holds whether or not the control packet can be lost.

The ring with its answers (`RingLog_proofs`):

* `LogTypeCorrect`: `rlTypeOK`.  A query reads the highest of a set of numbers,
  which need not have one if appends without end were answered at once; they are
  answered one at a time, and a set keeps a highest number when a number joins it
  (`HasHighest`, `HighestJoin`).  `Origin` says that an answer belongs to an append
  with an index that was delivered, so that an answer changes no index.
* `LogTailCovers`: `TailCovers`, for any number of control packets.  The invariant
  `tailInv` says that what clients were told is recorded at some switch, and, of a
  query under way, that what it started from is in its own number or recorded at a
  switch it still has hops for; every hop takes it nearer (`HopNearer`), and
  records only grow (`RecordsGrow`).
* `LogAnswersCovered`: `AnswersCovered`, for one control packet.  The invariant
  `Told`: every map entry of a switch, of whatever lap, is at most the number the
  control packet last left that switch with.
* `LogReportsGrow`: `ReportsGrow`, for one control packet, from `Told`: a report changes
  only when a batch closes, and then becomes the number the control packet came with
  (`ReportStep`).
* `LogAckedStored`, `LogTailStored`: `AckedStored` and `TailStored`, for one
  control packet.  `Stored`: entries are at the indices of their appends, what was
  delivered is stored, and records and tails are indices of answered appends.
  `PutStores` needs that no other append has the index (`UniqueIndex` of the ring),
  since a server keeps the first entry it gets.

The packet generator variant (`PktgenSequencer_proofs`):

* `PktgenBatchesCounted`: `BatchesCounted`, for any number of control packets.  That
  the counters agree says nothing of the batch that closes next; `batchInv` adds
  that `local_seq_no` has counted every append of the open batch (`Counted`), and
  nothing else where all appends are generated (`Exact`).  The step that closes a
  batch (`CloseKeeps`) rests on `RecirculationKeepsUp`: appends left over from an
  earlier lap would become part of the batch that opens.  The step in which an
  append leaves (`LeaveKeeps`) takes the batch off exactly when the append was the
  last one.

The software switch (`SoftwareLog_proofs`):

* `SoftTypeCorrect` and `SoftOrdered`: `softTypeOK` and `RealTimeOrder`, for any
  number of threads.  `softInv` says that an append is requested, held by one
  thread and stamped once, and that the counter is the number of appends that were
  counted (`Once`); that the counter has passed the index of every append that one
  held by a thread has to follow (`Following`); and that a message carries the
  index of its append (`Carriers`).  Two threads may read the same number, but
  neither reads one that an append it has to follow was given.
* `SoftLostByRace`: `LostByRace`, for any number of threads.  An append that is
  waited for is nowhere only if it shares its index with another one.  With a
  threshold of one a response thread finds a first answer in the map only if the
  other one inserted it, and both answers have the index (`Acknowledged`); until an
  append is answered it is in exactly one place on its way (`Awaited`, `Single`).
  Each kind of step moves it to the next place or makes it share its index for good
  (`AwaitedNext`, `SharedStays`).
* `SoftReturnedStored`, `SoftDense`, `SoftImplements`: with one thread, what
  returned is stored, no index is skipped, and the switch implements `SharedLog`.
  The invariants `Numbered` (indices differ, and each number counted is given, or
  is the last one and its append is held by the thread) and `Storage` (what was
  stamped is stored or on its way to the server) carry them.

The controllers (`SwitchControl_proofs`):

* `SwitchTypeCorrect`, and `SwitchTokenSurvives`: `TokenSurvives`, for every size
  of ring and every interleaving of set-ups and restarts.  The last controller
  that sends finds all the others able to forward, so that its packet stays.
* `SwitchGroups`: `groupInv`, from which `SwitchShardsKept`, `SwitchStreamServed`,
  `SwitchGeneralServedLater` and `SwitchOnlySubscribers` follow.  None of the four
  is inductive: that a subscriber is in the group of its stream says nothing of the
  next subscriber unless no other stream has that group, and that no group of a
  shard is touched needs that a stream's group is never one of theirs.

The scripts (`ExperimentScript_proofs` and, on top of it, `PktgenScript_proofs`).
The lists of machines are not empty (`RemoteAssumption`).  A campaign is not empty
either, since both scripts run the defaults once where there is no experiment; its
parameters have the keys that are read without a check, and a shard has a server
(`CampaignAssumption`).  `PktgenAssumption` says which campaigns are of which
script.  Names, durations, threads, machines and the number of faults are
arbitrary, and a name may be that of another experiment, begin another one or
contain an underscore.  Each theorem `Script...` is about `experiment.py` alone
(`scriptSpec`), and `Campaign...` about both scripts.

* `CampaignTypeCorrect`: `pktgenTypeOK`.  That the index of a machine is in its list
  needs what the script has checked before it came there (`Place`): the shards in use
  fit the list of servers, each loop stays below its own bound.  `Programs` and
  `Files` say that programs and files carry a run that has begun and its name.
* `CampaignOwnResults`: `OwnResults`.  That a summary counts its own results says
  nothing of the files which the next one will count.  `Directory` adds that no
  result is left when an experiment begins, as long as each name before it was new
  and without underscore (`Clean`), and that from there on all files in the
  directory are of the experiment at work.  The step that copies
  (`CopiedOwn`) needs the names: what matches the pattern has a name that the
  experiment's name begins, and only its own files have one.
  The step that summarises (`AggregateCleans`) needs that nothing of the name has
  been kept before, or files would stay behind.
* `CampaignSummariesInOrder`: `SummariesInOrder`.  Summaries belong to experiments
  that are over (`Results`), so that a new one is later than all of them.
* `CampaignProgramsStopped`: `ProgramsStopped`.  `Endless`: while the script works
  on an experiment, each of its programs without an end can be reached by its finally
  block (`Stoppable`): the list of machines that the block stops has the machine of
  every program started.  The benchmark switch also needs that `proc` is assigned.
* `CampaignSummaryComplete`: `SummaryComplete`.  `Progress` follows the result of a
  thread from place to place: to be written by a client that runs (`Measured`), in
  its file, in the results directory (`Covered`).  A file can be lost only to another
  one of its name, which a safe name excludes, and a client only to a kill that
  arrives late, which is remembered as a failure.  In the Scalog cycle, which does
  not wait for its benchmark, the benchmark's time is over before the script's sleep.
* `CampaignGroupsComplete`: `GroupsComplete`.  `pktgen.py` summarises once, at the end,
  so that the invariant speaks of all the experiments before (`PgProgress`): the last
  one of each name has its results both on the machines and in the directory.  A copy
  replaces files of the directory by what is on the machine, where they are the same,
  since a machine has one file of each name (`PgRawStays`), and the directory has one
  file for a name, machine and thread (`PgData`): a group therefore counts nothing
  else (`PgGroupExact`).  The property has two hypotheses, that names are kept
  (`NamesKept`, `PgAskedSame`) and that different names differ before their first
  underscore (`NamesApart`); run `group_prefix` shows what happens
  without the second.  Names may be repeated and begin one another.

Each of these invariants was checked by TLC on the campaigns of `MCExperiment` before
it was proved, that of `pktgen.py` also with three experiments of overlapping names.

Model-checked only: the liveness properties (`EventuallyLeaves`,
`EventuallyAcked`, `EventuallyReturns`, `TokenVisits`, `ScriptEnds`), which rest on
fairness.  The violations of the other runs are counterexamples of TLC.

## 5. Where the code and its documentation differ

* `ring_tokens`: every controller sends a control packet (`test.py:1452`); the
  flag that should restrict this to one switch is read and not used.
* `ringlog_replicas`: `highest_replicated_seq_no` rises with the first answer
  (`P4:468`).
* `soft_race`: increment and load of `max_idx` are two statements
  (`pringles_software_switch.cpp:294-295`).
* `servers_end`: servers run five seconds longer than clients and are started
  ten seconds and two copies earlier (`experiment.py:112-113`).
* `switch_general`: a stream's session is written once, with the general group of
  that moment, so that a later subscriber without a stream does not get all
  updates (`failure.py:668`, `experiments/README.md:22`).
* `group_prefix`: groups are what is before the first underscore, although the
  docstring says "PER JSON_NAME" and the comment gives 'two_clients' as a name
  (`pktgen.py:477`, `456`, `468`).

The models do the following as the code does, and no run is about it:

* A view-change request is answered with the base of the last closed batch, without
  the batch itself (`P4:930`; the comment at 435 says "Largest global sequence number
  known to the switch").
* In `experiment.py` the copy of the configuration is shallow, so that an override
  is still there in the experiments after it (`1401`, `1416`); in `pktgen.py`, with
  hardware switches, the merged configuration is replaced by the defaults (`1167`).
* The pattern `json_name*.json` copies the results of longer names too, and the
  summary counts every file with an underscore (`experiment.py:364`, `541`).
* Moving logs over those of an earlier experiment of the same name
  (`experiment.py:757`), or a failure before the first client (`1757`), raises an
  exception that ends `main`.
* The message before the benchmark switch is killed reads a variable that may not be
  assigned, so that the kill is not reached (`experiment.py:1368`).

## 6. Not modelled, and why

Reads, subscriptions and streams of the client and the software switch: the
threads that would serve them are not started, and the client waits on queues
whose receiver thread is not started either.  Read requests in the ring are
forwarded by index with no state of their own.  Sharded routing of the software
switch divides by the size of a list that is never filled.  The view change
consists of one request that the data plane answers; the branch of the controller
that would start one has no body.  `Network` is represented by unordered, lossy
delivery.  Of the packet generator variant, the registers that sum up latencies
and its controller, which reads them and the counters once a second and prints
them, have no module: no packet depends on them.

Of the scripts: functions that `main` does not reach (compilation, cleanup of YAML
and JSON files, installation of Kafka and Scalog, parsers of results), and the
tunnel mode of `experiment.py`, which `main` never asks for.  The Kafka cycle is
modelled up to the call that lacks an argument, the hardware and speclog cycles of
`experiment.py` up to the exception in which they end.  The old experiment scripts
are earlier versions of `pktgen.py`.  Measurements, vendored code and the
tutorials have no part in the protocol.

## 7. Plan

Done first, because everything else rests on it: `SharedLog`, `RingSequencer`
and its proofs; then `RingLog` and `SoftwareLog`, the controllers and the
scripts, the packet generator variant, and the proofs about all of them.  Left, in this order:

1. `NetworkBatch`: `send_udp_packet` with its one buffer for all destinations,
   against a specification in which each packet reaches its own destination.
2. `SoftwareReads`: the queues, condition variables and thread functions for
   reads, tails and subscriptions, as an extension of `SoftwareLog` (what an
   index that is assigned, acknowledged or stored means to a reader), and the
   sharded routing with its two maps.
3. A counter width as a constant of `RingSequencer`, to reach the sentinel
   value 0 and the wrap of the index.
