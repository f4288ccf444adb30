---------------------------- MODULE SwitchControl ----------------------------
(* The controllers of the ring's switches (runTest of failure_tests/        *)
(* failure.py and sequencing/test.py) and what the tables they install do   *)
(* to control packets and subscriptions.                                    *)
(*                                                                          *)
(* Each switch has a controller of its own; nothing coordinates them. It    *)
(* installs the tables one after the other, starts a thread that listens to *)
(* subscriptions, sends a control packet into its switch and starts the     *)
(* packet generator. Switches are numbered by position in switches_in_ring. *)
EXTENDS Integers, Sequences

CONSTANTS
    N,           \* size_of_ring
    ShardPorts,  \* the ports of each shard's servers, in order
    Ports,       \* ports of servers and subscribers
    Requests,    \* subscriptions that clients send: stream, port, switch
    RidBase,     \* 0x321, the distance from a group to its second entry
    MaxStarts    \* bound on the starts of controllers

ASSUME NAssumption == N \in Nat \ {0}
ASSUME ShardAssumption ==
    /\ ShardPorts \in Seq(SUBSET Ports)
    /\ RidBase \in Nat
    /\ Len(ShardPorts) < RidBase

Switches == 1 .. N
Streams  == {q.stream : q \in Requests}
ASSUME RequestAssumption ==
    \A q \in Requests : q.stream \in Nat /\ q.port \in Ports /\ q.at \in Switches

VARIABLES
    step,         \* what the controller of a switch does next
    listening,    \* its thread receive_pkt_from_tofino runs
    tokens,       \* control packets at a switch
    groups,       \* the ports of every multicast group, in the order of their ids
    general,      \* general_sub_group
    stream_group, \* stream_sub_dict: a stream's group, 0 without one
    session,      \* the first group of a stream's mirror session, 0 without one
    asked,        \* requests sent
    copies,       \* request packets on their way: <<request, switch>>
    handled,      \* requests in a switch's tables
    starts

switchVars == <<step, listening, tokens, groups, general, stream_group, session,
                asked, copies, handled, starts>>

groupVars == <<groups, general, stream_group, session, handled>>
requestVars == <<asked, copies>>

\* The control packet leaves by the port to the previous switch of the list.
\* (mutPrevOpen: the list is not closed to a ring.)
mutPrevOpen(s) == IF s = 1 THEN 1 ELSE s - 1
Prev(s) == IF s = 1 THEN N ELSE s - 1

\* global_group_id: the id of the next group.
next_group(s) == Len(groups[s]) + 1

\* Tables of a switch whose controller has come this far.
Forwards(s)   == step[s] \in {"subscribe", "listen", "send", "generate", "join"}
Broadcasts(s) == step[s] \in {"listen", "send", "generate", "join"}
Sent(s)       == step[s] \in {"generate", "join"}

switchInit ==
    /\ step = [s \in Switches |-> "off"]
    /\ listening = [s \in Switches |-> FALSE]
    /\ tokens = [s \in Switches |-> 0]
    /\ groups = [s \in Switches |-> <<>>]
    /\ general = [s \in Switches |-> 0]
    /\ stream_group = [s \in Switches |-> [x \in Streams |-> 0]]
    /\ session = [s \in Switches |-> [x \in Streams |-> 0]]
    /\ asked = {} /\ copies = {}
    /\ handled = [s \in Switches |-> {}]
    /\ starts = 0

------------------------------------------------------------------------------
(* runTest                                                                  *)

Advance(s, from, to) == step[s] = from /\ step' = [step EXCEPT ![s] = to]

\* Driver and controller are started, the ones that were there killed first:
\* tables, groups and the packets in the switch are gone.
Start(s) ==
    /\ starts < MaxStarts
    /\ starts' = starts + 1
    /\ step' = [step EXCEPT ![s] = "ports"]
    /\ listening' = [listening EXCEPT ![s] = FALSE]
    /\ tokens' = [tokens EXCEPT ![s] = 0]
    /\ groups' = [groups EXCEPT ![s] = <<>>]
    /\ general' = [general EXCEPT ![s] = 0]
    /\ stream_group' = [stream_group EXCEPT ![s] = [x \in Streams |-> 0]]
    /\ session' = [session EXCEPT ![s] = [x \in Streams |-> 0]]
    /\ handled' = [handled EXCEPT ![s] = {}]
    /\ UNCHANGED requestVars

\* Ports, the loopback port and the addresses of clients.
InstallPorts(s) ==
    /\ Advance(s, "ports", "shards")
    /\ UNCHANGED <<listening, tokens, groupVars, requestVars, starts>>

\* A group of ports for every shard.
InstallShards(s) ==
    /\ Advance(s, "shards", "control")
    /\ groups' = [groups EXCEPT ![s] = ShardPorts]
    /\ UNCHANGED <<listening, tokens, general, stream_group, session, handled,
                   requestVars, starts>>

\* The ports of control packets and of tail queries.
InstallControl(s) ==
    /\ Advance(s, "control", "subscribe")
    /\ UNCHANGED <<listening, tokens, groupVars, requestVars, starts>>

\* The group that takes a subscription to the controllers of all switches; the
\* number of a switch stands for the port to it, its own for the CPU port.
InstallSubscribe(s) ==
    /\ Advance(s, "subscribe", "listen")
    /\ groups' = [groups EXCEPT ![s] = Append(@, Switches)]
    /\ general' = [general EXCEPT ![s] = next_group(s)]
    /\ UNCHANGED <<listening, tokens, stream_group, session, handled, requestVars, starts>>

Listen(s) ==
    /\ Advance(s, "listen", "send")
    /\ listening' = [listening EXCEPT ![s] = TRUE]
    /\ UNCHANGED <<tokens, groupVars, requestVars, starts>>

\* The configuration asks one switch, the last of the ring, for a control packet;
\* every controller sends one. (mutSendControlLast: only the one that is asked.)
send_cntrl_pkt(s) == s = N

mutSendControlLast(s) ==
    /\ Advance(s, "send", "generate")
    /\ tokens' = IF send_cntrl_pkt(s) THEN [tokens EXCEPT ![s] = @ + 1] ELSE tokens
    /\ UNCHANGED <<listening, groupVars, requestVars, starts>>

SendControl(s) ==
    /\ Advance(s, "send", "generate")
    /\ tokens' = [tokens EXCEPT ![s] = @ + 1]
    /\ UNCHANGED <<listening, groupVars, requestVars, starts>>

\* An exception here ends runTest; the thread goes on listening.
StartGenerator(s) ==
    /\ Advance(s, "generate", "join")
    /\ UNCHANGED <<listening, tokens, groupVars, requestVars, starts>>

------------------------------------------------------------------------------
(* Control packets                                                          *)

\* The switch forwards the packet if its table has an entry for it; it is lost
\* if there is none, here or where it arrives. (mutForwardTokenAny: without looking for a
\* packet.)
mutForwardTokenAny(s) ==
    /\ tokens' = [tokens EXCEPT ![s] = @ - 1]
    /\ UNCHANGED <<step, listening, groupVars, requestVars, starts>>

ForwardToken(s) ==
    /\ tokens[s] > 0
    /\ tokens' = LET left == [tokens EXCEPT ![s] = @ - 1]
                 IN IF Forwards(s) /\ Forwards(Prev(s))
                      THEN [left EXCEPT ![Prev(s)] = @ + 1] ELSE left
    /\ UNCHANGED <<step, listening, groupVars, requestVars, starts>>

------------------------------------------------------------------------------
(* Subscriptions                                                            *)

\* A request enters a switch, which sends it to the controllers of all.
Subscribe(q) ==
    /\ q \notin asked
    /\ asked' = asked \cup {q}
    /\ copies' = copies \cup IF Broadcasts(q.at) THEN {q} \X Switches ELSE {}
    /\ UNCHANGED <<step, listening, tokens, groupVars, starts>>

\* A group id has two entries in the table of groups; adding one that is there
\* raises an exception.
Taken(s, g) == \E h \in 1 .. Len(groups[s]) : g \in {h, RidBase + h}

\* update_stream_subscriber_table: the first subscriber of a stream gets a new
\* group and a mirror session, the others are added to the group.
\* (mutNewStreamAlone: its session has no other group; mutNewStreamGeneral:
\* the first subscriber without a stream leaves general_sub_group as it is.)
mutNewStreamAlone(s, q) ==
    LET g == next_group(s)
    IN /\ general' = [general EXCEPT ![s] = IF q.stream = 0 THEN g ELSE @]
       /\ groups' = [groups EXCEPT ![s] = Append(@, {q.port})]
       /\ stream_group' = [stream_group EXCEPT ![s][q.stream] = g]
       /\ session' = [session EXCEPT ![s][q.stream] = g]

mutNewStreamGeneral(s, q) ==
    LET g == next_group(s)
    IN /\ general' = general
       /\ groups' = [groups EXCEPT ![s] = Append(@, {q.port})]
       /\ stream_group' = [stream_group EXCEPT ![s][q.stream] = g]
       /\ session' = [session EXCEPT ![s][q.stream] = general[s]]

NewStream(s, q) ==
    LET g == next_group(s)
        first == IF q.stream = 0 THEN g ELSE general[s]
    IN /\ general' = [general EXCEPT ![s] = first]
       /\ groups' = [groups EXCEPT ![s] = Append(@, {q.port})]
       /\ stream_group' = [stream_group EXCEPT ![s][q.stream] = g]
       /\ session' = [session EXCEPT ![s][q.stream] = first]

\* (mutKnownStreamSkip: the subscriber is not added; mutKnownStreamId: the
\* number of the stream is taken for the number of its group.)
mutKnownStreamSkip(s, q) == UNCHANGED <<groups, general, stream_group, session>>
mutKnownStreamId(s, q) ==
    /\ groups' = [groups EXCEPT ![s][q.stream] = @ \cup {q.port}]
    /\ UNCHANGED <<general, stream_group, session>>

KnownStream(s, q) ==
    /\ groups' = [groups EXCEPT ![s][stream_group[s][q.stream]] = @ \cup {q.port}]
    /\ UNCHANGED <<general, stream_group, session>>

update_stream_subscriber_table(s, q) ==
    /\ handled' = [handled EXCEPT ![s] = @ \cup {q}]
    /\ UNCHANGED listening
    /\ IF stream_group[s][q.stream] = 0 THEN NewStream(s, q) ELSE KnownStream(s, q)

\* The group cannot be added: the thread ends.
UpdateRaises(s, q) == stream_group[s][q.stream] = 0 /\ Taken(s, next_group(s))

ListenerDies(s) ==
    /\ listening' = [listening EXCEPT ![s] = FALSE]
    /\ UNCHANGED groupVars

\* A copy reaches the CPU port of a switch; without the thread it is lost.
ReceiveCopy(q, s) ==
    /\ <<q, s>> \in copies
    /\ copies' = copies \ {<<q, s>>}
    /\ IF ~listening[s]       THEN UNCHANGED <<groupVars, listening>>
       ELSE IF UpdateRaises(s, q) THEN ListenerDies(s)
       ELSE update_stream_subscriber_table(s, q)
    /\ UNCHANGED <<step, tokens, asked, starts>>

\* The ports to which a switch mirrors the answer to an append of a stream.
Mirrored(s, x) ==
    IF stream_group[s][x] = 0 THEN {}
    ELSE groups[s][session[s][x]] \cup groups[s][stream_group[s][x]]

------------------------------------------------------------------------------

runTest(s) ==
    \/ InstallPorts(s) \/ InstallShards(s) \/ InstallControl(s)
    \/ InstallSubscribe(s) \/ Listen(s) \/ SendControl(s) \/ StartGenerator(s)

switchNext ==
    \/ \E s \in Switches : Start(s) \/ runTest(s) \/ ForwardToken(s)
    \/ \E q \in Requests : Subscribe(q)
    \/ \E q \in Requests, s \in Switches : ReceiveCopy(q, s)

switchSpec == switchInit /\ [][switchNext]_switchVars

\* Controllers run and control packets are forwarded; nobody has to start a
\* switch or to subscribe.
FairSwitchSpec ==
    /\ switchSpec
    /\ \A s \in Switches : WF_switchVars(runTest(s)) /\ WF_switchVars(ForwardToken(s))

------------------------------------------------------------------------------
(* Properties                                                               *)

Steps == {"off", "ports", "shards", "control", "subscribe", "listen", "send",
          "generate", "join"}

\* Type invariant of the controllers' state.
switchTypeOK ==
    /\ step \in [Switches -> Steps]
    /\ listening \in [Switches -> BOOLEAN]
    /\ tokens \in [Switches -> Nat]
    /\ groups \in [Switches -> Seq(SUBSET (Ports \cup Switches))]
    /\ general \in [Switches -> Nat]
    /\ stream_group \in [Switches -> [Streams -> Nat]]
    /\ session \in [Switches -> [Streams -> Nat]]
    /\ asked \subseteq Requests
    /\ copies \subseteq asked \X Switches
    /\ handled \in [Switches -> SUBSET asked]
    /\ starts \in Nat

\* Once every controller has sent its control packet, at least one goes round,
\* although each may have been sent before the next switches could forward it
\* (send_test_cntrl_packet, setup_cntrl_table).
TokenSurvives ==
    (\A s \in Switches : Sent(s)) => \E s \in Switches : tokens[s] > 0

\* Subscriptions, whose groups take their ids from the same counter, leave the
\* groups of the shards as they are (setup_shard_multicast_groups).
ShardGroupsKept ==
    \A s \in Switches : Forwards(s) \/ step[s] = "control" =>
        \A k \in DOMAIN ShardPorts : groups[s][k] = ShardPorts[k]

\* Every subscriber in a switch's tables gets the answers of its stream, in
\* whatever order the requests came (update_stream_subscriber_table).
StreamServed ==
    \A s \in Switches : \A q \in handled[s] : q.port \in Mirrored(s, q.stream)

\* A subscriber without a stream also gets the answers of each stream that was
\* subscribed after the first subscription without a stream.
GeneralServedLater ==
    \A s \in Switches : \A q \in handled[s], x \in Streams :
        q.stream = 0 /\ stream_group[s][x] > stream_group[s][0] =>
            q.port \in Mirrored(s, x)

\* ... and nobody else gets the answers of such a stream: neither another stream's
\* subscriber nor a switch of the ring. A stream subscribed before is mirrored to
\* the group of broadcasts.
OnlySubscribers ==
    \A s \in Switches, x \in Streams :
        0 \in Streams /\ stream_group[s][0] > 0 /\ stream_group[s][x] >= stream_group[s][0] =>
            Mirrored(s, x) \subseteq {q.port : q \in {r \in handled[s] : r.stream \in {0, x}}}

\* What keeps the groups apart, as an inductive invariant of every switch: the
\* thread runs, and there are streams, only behind the group of broadcasts; the
\* groups of shards come first and stay; streams have groups of their own, with
\* their subscribers and nobody else, and the sessions of streams from the
\* first subscriber without a stream on begin with that subscriber's group.
ListenerInv(s) ==
    /\ listening[s] => step[s] \in {"send", "generate", "join"}
    /\ ~Broadcasts(s) => handled[s] = {} /\ \A x \in Streams : stream_group[s][x] = 0
    /\ Broadcasts(s) => general[s] \in 1 .. Len(groups[s])

ShardInv(s) ==
    Forwards(s) \/ step[s] = "control" =>
        /\ Len(ShardPorts) <= Len(groups[s])
        /\ \A k \in DOMAIN ShardPorts : groups[s][k] = ShardPorts[k]

StreamInv(s) ==
    \A x \in Streams : stream_group[s][x] # 0 =>
        /\ stream_group[s][x] \in Len(ShardPorts) + 1 .. Len(groups[s])
        /\ session[s][x] \in 1 .. Len(groups[s])
        /\ \A y \in Streams : stream_group[s][y] = stream_group[s][x] => y = x

Subscribers(s, x) == {q.port : q \in {r \in handled[s] : r.stream = x}}

MemberInv(s) ==
    /\ \A q \in handled[s] : stream_group[s][q.stream] # 0
    /\ \A x \in Streams : stream_group[s][x] # 0 =>
          groups[s][stream_group[s][x]] = Subscribers(s, x)

SessionInv(s) ==
    0 \in Streams /\ stream_group[s][0] # 0 =>
        /\ general[s] = stream_group[s][0]
        /\ \A x \in Streams :
              stream_group[s][x] >= stream_group[s][0] => session[s][x] = stream_group[s][0]

groupInv == \A s \in Switches :
    ListenerInv(s) /\ ShardInv(s) /\ StreamInv(s) /\ MemberInv(s) /\ SessionInv(s)

\* "Subscribe to get all log updates after supplied index"
\* (experiments/README.md): a subscriber without a stream gets the answers of
\* every stream that is mirrored at all.
GeneralServed ==
    \A s \in Switches : \A q \in handled[s], x \in Streams :
        q.stream = 0 /\ stream_group[s][x] > 0 => q.port \in Mirrored(s, x)

\* When no switch is started any more and all controllers have come to the
\* end, a control packet visits every switch again and again.
TokenVisits ==
    <>[](\A s \in Switches : step[s] = "join") =>
        \A s \in Switches : []<>(tokens[s] > 0)
=============================================================================
