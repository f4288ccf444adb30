------------------------ MODULE SwitchControl_proofs ------------------------
(* Proofs about SwitchControl, for rings of every size, any subscriptions   *)
(* and any distance between the two entries of a group.                     *)
EXTENDS SwitchControl, SequenceTheorems, TLAPS

USE DEF Switches

\* The ring of control packets closes.
LEMMA PrevSwitch == \A s \in Switches : Prev(s) \in Switches
BY NAssumption DEF Prev

\* The streams of requests are numbers.
LEMMA StreamsNat == Streams \subseteq Nat /\ \A q \in Requests : q.stream \in Streams
BY RequestAssumption DEF Streams

\* Initially every variable has its type.
LEMMA TypeInit == switchInit => switchTypeOK
<1> SUFFICES ASSUME switchInit PROVE switchTypeOK
  OBVIOUS
<1>1. <<>> \in Seq(SUBSET (Ports \cup Switches))
  BY EmptySeq
<1> QED
  BY <1>1 DEF switchInit, switchTypeOK, Steps

\* The invariant of the groups holds before any controller runs.
LEMMA GroupInit == switchInit => groupInv
BY DEF switchInit, groupInv, ListenerInv, ShardInv, StreamInv, MemberInv, SessionInv,
       Broadcasts, Forwards, Subscribers

------------------------------------------------------------------------------
(* Types                                                                    *)

\* A controller's steps keep the types.
LEMMA TypeController ==
    ASSUME switchTypeOK, NEW s \in Switches, Start(s) \/ runTest(s)
    PROVE  switchTypeOK'
<1> DEFINE Group == SUBSET (Ports \cup Switches)
<1>1. CASE Start(s)
  <2>1. groups' \in [Switches -> Seq(Group)]
    BY <1>1, EmptySeq DEF switchTypeOK, Start
  <2> QED
    BY <1>1, <2>1 DEF switchTypeOK, Start, Steps, requestVars
<1>2. CASE InstallPorts(s)
  BY <1>2 DEF switchTypeOK, InstallPorts, Advance, Steps, groupVars, requestVars
<1>3. CASE InstallShards(s)
  <2>1. ShardPorts \in Seq(Group)
    BY ShardAssumption
  <2>2. groups' \in [Switches -> Seq(Group)]
    BY <1>3, <2>1 DEF switchTypeOK, InstallShards
  <2> QED
    BY <1>3, <2>2 DEF switchTypeOK, InstallShards, Advance, Steps, requestVars
<1>4. CASE InstallControl(s)
  BY <1>4 DEF switchTypeOK, InstallControl, Advance, Steps, groupVars, requestVars
<1>5. CASE InstallSubscribe(s)
  <2>1. groups[s] \in Seq(Group) /\ Switches \in Group
    BY DEF switchTypeOK
  <2>2. Append(groups[s], Switches) \in Seq(Group) /\ next_group(s) \in Nat
    BY <2>1, AppendProperties DEF next_group
  <2>3. groups' \in [Switches -> Seq(Group)] /\ general' \in [Switches -> Nat]
    BY <1>5, <2>2 DEF switchTypeOK, InstallSubscribe
  <2> QED
    BY <1>5, <2>3 DEF switchTypeOK, InstallSubscribe, Advance, Steps, requestVars
<1>6. CASE Listen(s)
  BY <1>6 DEF switchTypeOK, Listen, Advance, Steps, groupVars, requestVars
<1>7. CASE SendControl(s)
  BY <1>7 DEF switchTypeOK, SendControl, Advance, Steps, groupVars, requestVars
<1>8. CASE StartGenerator(s)
  BY <1>8 DEF switchTypeOK, StartGenerator, Advance, Steps, groupVars, requestVars
<1> QED
  BY <1>1, <1>2, <1>3, <1>4, <1>5, <1>6, <1>7, <1>8 DEF runTest

\* A control packet that is forwarded or lost keeps the types.
LEMMA TypeToken ==
    ASSUME switchTypeOK, NEW s \in Switches, ForwardToken(s)
    PROVE  switchTypeOK'
<1>0. tokens[s] > 0
  BY DEF ForwardToken
<1>1. tokens \in [Switches -> Nat] /\ Prev(s) \in Switches
  BY PrevSwitch DEF switchTypeOK
<1> DEFINE left == [tokens EXCEPT ![s] = @ - 1]
<1>2. left \in [Switches -> Nat]
  BY <1>0, <1>1
<1>3. [left EXCEPT ![Prev(s)] = @ + 1] \in [Switches -> Nat]
  BY <1>1, <1>2
<1>4. tokens' \in [Switches -> Nat]
  BY <1>2, <1>3 DEF ForwardToken
<1>5. UNCHANGED <<step, listening, groupVars, requestVars, starts>>
  BY DEF ForwardToken
<1> QED
  BY <1>4, <1>5 DEF switchTypeOK, groupVars, requestVars

\* A subscription that enters the ring keeps the types.
LEMMA TypeSubscribe ==
    ASSUME switchTypeOK, NEW q \in Requests, Subscribe(q)
    PROVE  switchTypeOK'
BY DEF switchTypeOK, Subscribe, groupVars

\* A subscription that reaches a controller keeps the types; a known stream's
\* group exists.
LEMMA TypeReceive ==
    ASSUME switchTypeOK, groupInv, NEW q \in Requests, NEW s \in Switches, ReceiveCopy(q, s)
    PROVE  switchTypeOK'
<1> DEFINE Group == SUBSET (Ports \cup Switches)
<1>1. /\ q \in asked /\ q.stream \in Streams /\ {q.port} \in Group
      /\ copies' \subseteq asked \X Switches
      /\ groups[s] \in Seq(Group) /\ general[s] \in Nat
      /\ stream_group[s] \in [Streams -> Nat] /\ session[s] \in [Streams -> Nat]
  BY StreamsNat, RequestAssumption DEF switchTypeOK, ReceiveCopy
<1>2. CASE ~listening[s]
  BY <1>1, <1>2 DEF switchTypeOK, ReceiveCopy, groupVars
<1>3. CASE listening[s] /\ UpdateRaises(s, q)
  BY <1>1, <1>3 DEF switchTypeOK, ReceiveCopy, ListenerDies, groupVars
<1>4. CASE listening[s] /\ ~UpdateRaises(s, q)
  <2>1. update_stream_subscriber_table(s, q)
    BY <1>4 DEF ReceiveCopy
  <2>2. handled' \in [Switches -> SUBSET asked]
    BY <1>1, <2>1 DEF switchTypeOK, update_stream_subscriber_table
  <2>3. CASE stream_group[s][q.stream] = 0
    <3>1. NewStream(s, q)
      BY <2>1, <2>3 DEF update_stream_subscriber_table
    <3>2. Append(groups[s], {q.port}) \in Seq(Group) /\ next_group(s) \in Nat
      BY <1>1, AppendProperties DEF next_group
    <3>3. groups' \in [Switches -> Seq(Group)]
      BY <3>1, <3>2 DEF switchTypeOK, NewStream
    <3>4. /\ general' \in [Switches -> Nat]
          /\ stream_group' \in [Switches -> [Streams -> Nat]]
          /\ session' \in [Switches -> [Streams -> Nat]]
      BY <1>1, <3>1, <3>2 DEF switchTypeOK, NewStream
    <3> QED
      BY <1>1, <2>1, <2>2, <3>3, <3>4
      DEF switchTypeOK, ReceiveCopy, update_stream_subscriber_table
  <2>4. CASE stream_group[s][q.stream] # 0
    <3> DEFINE g == stream_group[s][q.stream]
    <3>1. KnownStream(s, q)
      BY <2>1, <2>4 DEF update_stream_subscriber_table
    <3>2. Len(ShardPorts) \in Nat
      BY ShardAssumption, LenProperties
    <3>3. g \in 1 .. Len(groups[s])
      BY <1>1, <2>4, <3>2 DEF groupInv, StreamInv
    <3>4. groups[s][g] \cup {q.port} \in Group
      BY <1>1, <3>3, ElementOfSeq
    <3>5. [groups[s] EXCEPT ![g] = groups[s][g] \cup {q.port}] \in Seq(Group)
      BY <1>1, <3>3, <3>4, ExceptSeq
    <3>6. groups' \in [Switches -> Seq(Group)]
      BY <3>1, <3>5 DEF switchTypeOK, KnownStream
    <3> QED
      BY <1>1, <2>1, <2>2, <3>1, <3>6
      DEF switchTypeOK, ReceiveCopy, update_stream_subscriber_table, KnownStream
  <2> QED
    BY <2>3, <2>4
<1> QED
  BY <1>2, <1>3, <1>4

------------------------------------------------------------------------------
(* The groups of a switch                                                   *)

GroupInv(s) ==
    ListenerInv(s) /\ ShardInv(s) /\ StreamInv(s) /\ MemberInv(s) /\ SessionInv(s)

\* What a switch keeps when an action does not touch its tables.
SameTables(s) ==
    /\ listening'[s] = listening[s] /\ groups'[s] = groups[s] /\ general'[s] = general[s]
    /\ stream_group'[s] = stream_group[s] /\ session'[s] = session[s]
    /\ handled'[s] = handled[s]

\* A switch whose tables and whose controller stand still keeps the invariant.
LEMMA GroupFrame ==
    ASSUME NEW s \in Switches, GroupInv(s), SameTables(s), step'[s] = step[s]
    PROVE  GroupInv(s)'
BY DEF GroupInv, SameTables, ListenerInv, ShardInv, StreamInv, MemberInv, SessionInv,
       Broadcasts, Forwards, Subscribers

\* Before the groups of broadcasts there are no streams; then a switch keeps
\* the invariant whatever its controller does, as long as shards are in place.
LEMMA GroupEarly ==
    ASSUME switchTypeOK, switchTypeOK', NEW s \in Switches,
           ~Broadcasts(s)', ~listening'[s], handled'[s] = {},
           \A x \in Streams : stream_group'[s][x] = 0,
           ShardInv(s)'
    PROVE  GroupInv(s)'
BY StreamsNat DEF GroupInv, ListenerInv, StreamInv, MemberInv, SessionInv

\* A controller's steps keep the invariant of its groups.
LEMMA GroupController ==
    ASSUME switchTypeOK, switchTypeOK', groupInv,
           NEW s \in Switches, Start(s) \/ runTest(s)
    PROVE  groupInv'
<1> SUFFICES ASSUME NEW t \in Switches PROVE GroupInv(t)'
  BY DEF groupInv, GroupInv
<1>0. GroupInv(t) /\ GroupInv(s)
  BY DEF groupInv, GroupInv
<1>t. /\ step \in [Switches -> Steps] /\ listening \in [Switches -> BOOLEAN]
      /\ groups \in [Switches -> Seq(SUBSET (Ports \cup Switches))]
      /\ general \in [Switches -> Nat]
      /\ stream_group \in [Switches -> [Streams -> Nat]]
      /\ session \in [Switches -> [Streams -> Nat]]
      /\ handled \in [Switches -> SUBSET asked]
  BY DEF switchTypeOK
<1>o. ASSUME t # s PROVE GroupInv(t)'
  <2>1. SameTables(t) /\ step'[t] = step[t]
    BY <1>o, <1>t
    DEF runTest, Start, InstallPorts, InstallShards, InstallControl, InstallSubscribe,
        Listen, SendControl, StartGenerator, Advance, SameTables, groupVars
  <2> QED
    BY <1>0, <2>1, GroupFrame
<1>1. ASSUME Start(s), t = s PROVE GroupInv(t)'
  <2>1. /\ step'[s] = "ports" /\ listening'[s] = FALSE /\ handled'[s] = {}
        /\ stream_group'[s] = [x \in Streams |-> 0]
    BY <1>1, <1>t DEF Start
  <2> QED
    BY <1>1, <2>1, GroupEarly DEF Broadcasts, Forwards, ShardInv
<1>2. ASSUME InstallPorts(s) \/ InstallShards(s) \/ InstallControl(s), t = s
      PROVE  GroupInv(t)'
  <2>1. /\ step[s] \in {"ports", "shards", "control"}
        /\ step'[s] \in {"shards", "control", "subscribe"}
        /\ listening'[s] = listening[s] /\ handled'[s] = handled[s]
        /\ stream_group'[s] = stream_group[s]
    BY <1>2, <1>t
    DEF InstallPorts, InstallShards, InstallControl, Advance, groupVars
  <2>2. ~Broadcasts(s)' /\ ~listening'[s] /\ handled'[s] = {}
        /\ \A x \in Streams : stream_group'[s][x] = 0
    BY <1>0, <2>1 DEF GroupInv, ListenerInv, Broadcasts
  <2>3. ShardInv(s)'
    <3>1. CASE InstallPorts(s)
      BY <3>1, <1>t DEF InstallPorts, Advance, ShardInv, Forwards
    <3>2. CASE InstallShards(s)
      <4>1. groups'[s] = ShardPorts /\ Len(ShardPorts) \in Nat
        BY <3>2, <1>t, ShardAssumption, LenProperties DEF InstallShards
      <4> QED
        BY <4>1 DEF ShardInv
    <3>3. CASE InstallControl(s)
      BY <3>3, <1>0, <1>t
      DEF InstallControl, Advance, groupVars, GroupInv, ShardInv, Forwards
    <3> QED
      BY <1>2, <3>1, <3>2, <3>3
  <2> QED
    BY <1>2, <2>2, <2>3, GroupEarly
<1>3. ASSUME InstallSubscribe(s), t = s PROVE GroupInv(t)'
  <2> DEFINE gs == groups[s]
  <2>1. /\ step[s] = "subscribe" /\ step'[s] = "listen" /\ listening'[s] = listening[s]
        /\ groups'[s] = Append(gs, Switches) /\ general'[s] = Len(gs) + 1
        /\ stream_group'[s] = stream_group[s] /\ handled'[s] = handled[s]
    BY <1>3, <1>t DEF InstallSubscribe, Advance, next_group
  <2>2. /\ ~listening[s] /\ handled[s] = {}
        /\ \A x \in Streams : stream_group[s][x] = 0
    BY <1>0, <2>1 DEF GroupInv, ListenerInv, Broadcasts
  <2>3. /\ Len(groups'[s]) = Len(gs) + 1 /\ Len(gs) \in Nat
        /\ \A k \in 1 .. Len(gs) : groups'[s][k] = gs[k]
    <3>1. gs \in Seq(SUBSET (Ports \cup Switches)) /\ Switches \in SUBSET (Ports \cup Switches)
      BY <1>t
    <3> HIDE DEF gs
    <3> QED
      BY <2>1, <3>1, AppendProperties, LenProperties
  <2>4. ListenerInv(s)'
    BY <2>1, <2>2, <2>3 DEF ListenerInv, Broadcasts
  <2>5. ShardInv(s)'
    <3>1. /\ Len(ShardPorts) <= Len(gs)
          /\ \A k \in DOMAIN ShardPorts : gs[k] = ShardPorts[k]
      BY <1>0, <2>1 DEF GroupInv, ShardInv, Forwards
    <3>2. DOMAIN ShardPorts = 1 .. Len(ShardPorts) /\ Len(ShardPorts) \in Nat
      BY ShardAssumption, LenProperties
    <3> QED
      BY <2>3, <3>1, <3>2, SMTT(60) DEF ShardInv
  <2>6. StreamInv(s)' /\ MemberInv(s)' /\ SessionInv(s)'
    BY <2>1, <2>2 DEF StreamInv, MemberInv, SessionInv
  <2> QED
    BY <1>3, <2>4, <2>5, <2>6 DEF GroupInv
<1>4. ASSUME Listen(s) \/ SendControl(s) \/ StartGenerator(s), t = s PROVE GroupInv(t)'
  <2>1. /\ step[s] \in {"listen", "send", "generate"}
        /\ step'[s] \in {"send", "generate", "join"}
        /\ groups'[s] = groups[s] /\ general'[s] = general[s]
        /\ stream_group'[s] = stream_group[s] /\ session'[s] = session[s]
        /\ handled'[s] = handled[s]
    BY <1>4, <1>t DEF Listen, SendControl, StartGenerator, Advance, groupVars
  <2>2. Broadcasts(s) /\ Broadcasts(s)' /\ Forwards(s)
    BY <2>1 DEF Broadcasts, Forwards
  <2>3. ListenerInv(s)' /\ ShardInv(s)'
    BY <1>0, <2>1, <2>2 DEF GroupInv, ListenerInv, ShardInv
  <2>4. StreamInv(s)' /\ MemberInv(s)' /\ SessionInv(s)'
    BY <1>0, <2>1 DEF GroupInv, StreamInv, MemberInv, SessionInv, Subscribers
  <2> QED
    BY <1>4, <2>3, <2>4 DEF GroupInv
<1> QED
  BY <1>o, <1>1, <1>2, <1>3, <1>4 DEF runTest

\* Control packets and subscriptions on their way touch no table.
LEMMA GroupPackets ==
    ASSUME groupInv, \A s \in Switches : SameTables(s), UNCHANGED step
    PROVE  groupInv'
<1> SUFFICES ASSUME NEW t \in Switches PROVE GroupInv(t)'
  BY DEF groupInv, GroupInv
<1>1. GroupInv(t)
  BY DEF groupInv, GroupInv
<1> QED
  BY <1>1, GroupFrame

\* The first subscriber of a stream: a group of its own is appended.
LEMMA GroupNew ==
    ASSUME switchTypeOK, NEW s \in Switches, NEW q \in Requests, GroupInv(s),
           listening[s], stream_group[s][q.stream] = 0,
           NewStream(s, q), handled' = [handled EXCEPT ![s] = @ \cup {q}],
           UNCHANGED <<listening, step>>
    PROVE  GroupInv(s)'
<1> DEFINE gs == groups[s]
           g  == Len(gs) + 1
           x0 == q.stream
           first == IF x0 = 0 THEN g ELSE general[s]
<1>t. /\ gs \in Seq(SUBSET (Ports \cup Switches)) /\ {q.port} \in SUBSET (Ports \cup Switches)
      /\ general \in [Switches -> Nat]
      /\ stream_group \in [Switches -> [Streams -> Nat]]
      /\ session \in [Switches -> [Streams -> Nat]]
      /\ handled \in [Switches -> SUBSET asked]
      /\ groups \in [Switches -> Seq(SUBSET (Ports \cup Switches))]
      /\ x0 \in Streams /\ x0 \in Nat /\ Streams \subseteq Nat
  BY StreamsNat, RequestAssumption DEF switchTypeOK
<1>1. /\ groups'[s] = Append(gs, {q.port}) /\ general'[s] = first
      /\ stream_group'[s] = [stream_group[s] EXCEPT ![x0] = g]
      /\ session'[s] = [session[s] EXCEPT ![x0] = first]
      /\ handled'[s] = handled[s] \cup {q}
      /\ step'[s] = step[s] /\ listening'[s] = listening[s]
  BY <1>t DEF NewStream, next_group
<1>2. /\ Len(gs) \in Nat /\ Len(groups'[s]) = g
      /\ \A k \in 1 .. Len(gs) : groups'[s][k] = gs[k]
      /\ groups'[s][g] = {q.port}
  <2> HIDE DEF gs
  <2> QED
    BY <1>t, <1>1, AppendProperties, LenProperties
<1>3. /\ step[s] \in {"send", "generate", "join"}
      /\ general[s] \in 1 .. Len(gs)
  BY DEF GroupInv, ListenerInv, Broadcasts
<1>4. /\ stream_group'[s][x0] = g /\ session'[s][x0] = first /\ first \in 1 .. g
      /\ \A x \in Streams \ {x0} : /\ stream_group'[s][x] = stream_group[s][x]
                                   /\ session'[s][x] = session[s][x]
  BY <1>t, <1>1, <1>2, <1>3
<1>5. \A x \in Streams : stream_group[s][x] <= Len(gs)
  BY <1>t, <1>2 DEF GroupInv, StreamInv
<1>6. DOMAIN ShardPorts = 1 .. Len(ShardPorts) /\ Len(ShardPorts) \in Nat
  BY ShardAssumption, LenProperties
<1>7. /\ Len(ShardPorts) <= Len(gs)
      /\ \A k \in DOMAIN ShardPorts : gs[k] = ShardPorts[k]
  BY <1>3 DEF GroupInv, ShardInv, Forwards
<1> HIDE DEF gs, first
<1>a. ListenerInv(s)'
  BY <1>1, <1>2, <1>3, <1>4 DEF ListenerInv, Broadcasts
<1>b. ShardInv(s)'
  BY <1>2, <1>6, <1>7 DEF ShardInv
<1>c. StreamInv(s)'
  <2> SUFFICES ASSUME NEW x \in Streams, stream_group'[s][x] # 0
               PROVE  /\ stream_group'[s][x] \in Len(ShardPorts) + 1 .. Len(groups'[s])
                      /\ session'[s][x] \in 1 .. Len(groups'[s])
                      /\ \A y \in Streams :
                            stream_group'[s][y] = stream_group'[s][x] => y = x
    BY DEF StreamInv
  <2>1. CASE x = x0
    BY <2>1, <1>2, <1>4, <1>5, <1>6, <1>7
  <2>2. CASE x # x0
    <3>1. /\ stream_group[s][x] \in Len(ShardPorts) + 1 .. Len(gs)
          /\ session[s][x] \in 1 .. Len(gs)
          /\ \A y \in Streams : stream_group[s][y] = stream_group[s][x] => y = x
      BY <2>2, <1>4 DEF GroupInv, StreamInv, gs
    <3> QED
      BY <2>2, <3>1, <1>2, <1>4, <1>5, <1>6
  <2> QED
    BY <2>1, <2>2
<1>d. MemberInv(s)'
  <2>0. /\ \A r \in handled[s] : stream_group[s][r.stream] # 0 /\ r.stream \in Streams
        /\ \A r \in handled[s] : r.stream # x0
    BY <1>t, StreamsNat DEF GroupInv, MemberInv, switchTypeOK
  <2>1. \A r \in handled'[s] : stream_group'[s][r.stream] # 0
    BY <2>0, <1>1, <1>2, <1>4
  <2>2. ASSUME NEW x \in Streams, stream_group'[s][x] # 0
        PROVE  groups'[s][stream_group'[s][x]] = Subscribers(s, x)'
    <3>1. CASE x = x0
      BY <3>1, <2>0, <1>1, <1>2, <1>4 DEF Subscribers
    <3>2. CASE x # x0
      <4>1. /\ stream_group[s][x] \in 1 .. Len(gs)
            /\ gs[stream_group[s][x]] = Subscribers(s, x)
        BY <3>2, <2>2, <1>4, <1>6 DEF GroupInv, StreamInv, MemberInv, gs
      <4>2. Subscribers(s, x)' = Subscribers(s, x)
        BY <3>2, <1>1 DEF Subscribers
      <4> QED
        BY <3>2, <4>1, <4>2, <1>2, <1>4
    <3> QED
      BY <3>1, <3>2
  <2> QED
    BY <2>1, <2>2 DEF MemberInv
<1>e. SessionInv(s)'
  <2> SUFFICES ASSUME 0 \in Streams, stream_group'[s][0] # 0
               PROVE  /\ general'[s] = stream_group'[s][0]
                      /\ \A x \in Streams :
                            stream_group'[s][x] >= stream_group'[s][0] =>
                                session'[s][x] = stream_group'[s][0]
    BY DEF SessionInv
  <2>1. CASE x0 = 0
    <3>1. general'[s] = g /\ stream_group'[s][0] = g /\ session'[s][0] = g
      BY <2>1, <1>1, <1>4 DEF first
    <3>2. \A x \in Streams \ {0} : stream_group'[s][x] \in Nat /\ stream_group'[s][x] < g
      <4>1. \A x \in Streams : stream_group[s][x] \in Nat
        BY DEF switchTypeOK
      <4> QED
        BY <2>1, <4>1, <1>2, <1>4, <1>5
    <3>3. g \in Nat
      BY <1>2
    <3> HIDE DEF g
    <3> QED
      BY <3>1, <3>2, <3>3
  <2>2. CASE x0 # 0
    BY <2>2, <1>1, <1>4 DEF first, GroupInv, SessionInv
  <2> QED
    BY <2>1, <2>2
<1> QED
  BY <1>a, <1>b, <1>c, <1>d, <1>e DEF GroupInv

\* Another subscriber of a stream: the stream's group grows, no other does.
LEMMA GroupKnown ==
    ASSUME switchTypeOK, NEW s \in Switches, NEW q \in Requests, GroupInv(s),
           stream_group[s][q.stream] # 0, listening[s],
           KnownStream(s, q), handled' = [handled EXCEPT ![s] = @ \cup {q}],
           UNCHANGED <<listening, step>>
    PROVE  GroupInv(s)'
<1> DEFINE gs == groups[s]
           x0 == q.stream
           g  == stream_group[s][x0]
<1>t. /\ gs \in Seq(SUBSET (Ports \cup Switches)) /\ q.port \in Ports
      /\ stream_group \in [Switches -> [Streams -> Nat]]
      /\ handled \in [Switches -> SUBSET asked]
      /\ groups \in [Switches -> Seq(SUBSET (Ports \cup Switches))]
      /\ x0 \in Streams
  BY StreamsNat, RequestAssumption DEF switchTypeOK
<1>1. /\ groups'[s] = [gs EXCEPT ![g] = gs[g] \cup {q.port}]
      /\ general'[s] = general[s] /\ stream_group'[s] = stream_group[s]
      /\ session'[s] = session[s] /\ handled'[s] = handled[s] \cup {q}
      /\ step'[s] = step[s] /\ listening'[s] = listening[s]
  BY <1>t DEF KnownStream
<1>2. DOMAIN ShardPorts = 1 .. Len(ShardPorts) /\ Len(ShardPorts) \in Nat
  BY ShardAssumption, LenProperties
<1>3. g \in Len(ShardPorts) + 1 .. Len(gs) /\ g \in 1 .. Len(gs)
  BY <1>t, <1>2 DEF GroupInv, StreamInv
<1>4. /\ Len(groups'[s]) = Len(gs)
      /\ \A k \in 1 .. Len(gs) :
            groups'[s][k] = IF k = g THEN gs[g] \cup {q.port} ELSE gs[k]
  <2>1. gs[g] \cup {q.port} \in SUBSET (Ports \cup Switches)
    BY <1>t, <1>3, ElementOfSeq
  <2> HIDE DEF gs, g
  <2> QED
    BY <1>t, <1>1, <1>3, <2>1, ExceptSeq
<1>5. Len(gs) \in Nat
  BY <1>t, LenProperties
<1>6. /\ step[s] \in {"send", "generate", "join"} /\ Len(ShardPorts) <= Len(gs)
      /\ \A k \in DOMAIN ShardPorts : gs[k] = ShardPorts[k]
  BY DEF GroupInv, ListenerInv, ShardInv, Forwards
<1>a. ListenerInv(s)'
  BY <1>1, <1>4, <1>6 DEF GroupInv, ListenerInv, Broadcasts
<1>b. ShardInv(s)'
  <2> HIDE DEF gs, g
  <2> QED
    BY <1>2, <1>3, <1>4, <1>5, <1>6 DEF ShardInv
<1>c. StreamInv(s)' /\ SessionInv(s)'
  BY <1>1, <1>4 DEF GroupInv, StreamInv, SessionInv
<1>d. MemberInv(s)'
  <2>1. \A r \in handled'[s] : stream_group'[s][r.stream] # 0
    BY <1>1 DEF GroupInv, MemberInv
  <2>2. ASSUME NEW x \in Streams, stream_group[s][x] # 0
        PROVE  groups'[s][stream_group[s][x]] = Subscribers(s, x)'
    <3>1. /\ stream_group[s][x] \in 1 .. Len(gs)
          /\ gs[stream_group[s][x]] = Subscribers(s, x)
      BY <2>2, <1>2, <1>5 DEF GroupInv, StreamInv, MemberInv
    <3>2. CASE x = x0
      <4>1. Subscribers(s, x)' = Subscribers(s, x) \cup {q.port}
        BY <3>2, <1>1 DEF Subscribers
      <4> QED
        BY <3>1, <3>2, <4>1, <1>4
    <3>3. CASE x # x0
      <4>1. stream_group[s][x] # g
        BY <3>3, <2>2, <1>t DEF GroupInv, StreamInv
      <4>2. Subscribers(s, x)' = Subscribers(s, x)
        BY <3>3, <1>1 DEF Subscribers
      <4> QED
        BY <3>1, <4>1, <4>2, <1>4
    <3> QED
      BY <3>2, <3>3
  <2> QED
    BY <2>1, <2>2, <1>1 DEF MemberInv
<1> QED
  BY <1>a, <1>b, <1>c, <1>d DEF GroupInv

\* A subscription that reaches a controller keeps the invariant, whether it is
\* lost, ends the thread or enters the tables.
LEMMA GroupReceive ==
    ASSUME switchTypeOK, groupInv, NEW q \in Requests, NEW s \in Switches, ReceiveCopy(q, s)
    PROVE  groupInv'
<1> SUFFICES ASSUME NEW t \in Switches PROVE GroupInv(t)'
  BY DEF groupInv, GroupInv
<1>0. GroupInv(t) /\ GroupInv(s)
  BY DEF groupInv, GroupInv
<1>t. /\ listening \in [Switches -> BOOLEAN]
      /\ groups \in [Switches -> Seq(SUBSET (Ports \cup Switches))]
      /\ general \in [Switches -> Nat]
      /\ stream_group \in [Switches -> [Streams -> Nat]]
      /\ session \in [Switches -> [Streams -> Nat]]
      /\ handled \in [Switches -> SUBSET asked]
  BY DEF switchTypeOK
<1>s. step'[t] = step[t] /\ step' = step
  BY DEF ReceiveCopy
<1>1. CASE ~listening[s]
  <2>1. SameTables(t)
    BY <1>1 DEF ReceiveCopy, groupVars, SameTables
  <2> QED
    BY <1>0, <1>s, <2>1, GroupFrame
<1>2. CASE listening[s] /\ UpdateRaises(s, q)
  <2>1. ListenerDies(s)
    BY <1>2 DEF ReceiveCopy
  <2>2. /\ listening'[t] => listening[t]
        /\ groups'[t] = groups[t] /\ general'[t] = general[t]
        /\ stream_group'[t] = stream_group[t] /\ session'[t] = session[t]
        /\ handled'[t] = handled[t]
    BY <1>t, <2>1 DEF ListenerDies, groupVars
  <2> QED
    BY <1>0, <1>s, <2>2
    DEF GroupInv, ListenerInv, ShardInv, StreamInv, MemberInv, SessionInv,
        Broadcasts, Forwards, Subscribers
<1>3. CASE listening[s] /\ ~UpdateRaises(s, q)
  <2>1. update_stream_subscriber_table(s, q)
    BY <1>3 DEF ReceiveCopy
  <2>2. /\ handled' = [handled EXCEPT ![s] = @ \cup {q}] /\ UNCHANGED <<listening, step>>
    BY <1>s, <2>1 DEF update_stream_subscriber_table
  <2>3. CASE stream_group[s][q.stream] = 0
    <3>1. NewStream(s, q)
      BY <2>1, <2>3 DEF update_stream_subscriber_table
    <3>2. CASE t = s
      BY <1>0, <1>3, <2>2, <2>3, <3>1, <3>2, GroupNew
    <3>3. CASE t # s
      <4>1. SameTables(t)
        BY <1>t, <2>2, <3>1, <3>3 DEF NewStream, SameTables
      <4> QED
        BY <1>0, <1>s, <4>1, GroupFrame
    <3> QED
      BY <3>2, <3>3
  <2>4. CASE stream_group[s][q.stream] # 0
    <3>1. KnownStream(s, q)
      BY <2>1, <2>4 DEF update_stream_subscriber_table
    <3>2. CASE t = s
      BY <1>0, <1>3, <2>2, <2>4, <3>1, <3>2, GroupKnown
    <3>3. CASE t # s
      <4>1. SameTables(t)
        BY <1>t, <2>2, <3>1, <3>3 DEF KnownStream, SameTables
      <4> QED
        BY <1>0, <1>s, <4>1, GroupFrame
    <3> QED
      BY <3>2, <3>3
  <2> QED
    BY <2>3, <2>4
<1> QED
  BY <1>1, <1>2, <1>3

------------------------------------------------------------------------------
(* Control packets                                                          *)

\* The controller that comes last sends a packet that no switch can lose any
\* more; from then on packets are only passed on.
LEMMA TokenNext ==
    ASSUME switchTypeOK, switchTypeOK', TokenSurvives, switchNext
    PROVE  TokenSurvives'
<1> SUFFICES ASSUME \A s \in Switches : Sent(s)'
             PROVE  \E s \in Switches : tokens'[s] > 0
  BY DEF TokenSurvives
<1>t. /\ step \in [Switches -> Steps] /\ step' \in [Switches -> Steps]
      /\ tokens \in [Switches -> Nat] /\ tokens' \in [Switches -> Nat]
  BY DEF switchTypeOK
<1>1. ASSUME NEW s \in Switches, Start(s) PROVE FALSE
  BY <1>1, <1>t DEF Start, Sent
<1>2. ASSUME NEW s \in Switches,
             InstallPorts(s) \/ InstallShards(s) \/ InstallControl(s)
               \/ InstallSubscribe(s) \/ Listen(s)
      PROVE  FALSE
  BY <1>2, <1>t
  DEF InstallPorts, InstallShards, InstallControl, InstallSubscribe, Listen, Advance, Sent
<1>3. ASSUME NEW s \in Switches, SendControl(s) PROVE \E r \in Switches : tokens'[r] > 0
  <2>1. tokens'[s] = tokens[s] + 1 /\ tokens[s] \in Nat
    BY <1>3, <1>t DEF SendControl
  <2> QED
    BY <2>1
<1>4. ASSUME UNCHANGED tokens, \A s \in Switches : Sent(s)
      PROVE  \E s \in Switches : tokens'[s] > 0
  BY <1>4 DEF TokenSurvives
<1>5. ASSUME NEW s \in Switches, StartGenerator(s) PROVE \E r \in Switches : tokens'[r] > 0
  <2>1. UNCHANGED tokens /\ \A r \in Switches : Sent(r)
    BY <1>5, <1>t DEF StartGenerator, Advance, Sent
  <2> QED
    BY <1>4, <2>1
<1>6. ASSUME NEW s \in Switches, ForwardToken(s) PROVE \E r \in Switches : tokens'[r] > 0
  <2> DEFINE left == [tokens EXCEPT ![s] = @ - 1]
  <2>1. tokens[s] > 0 /\ step' = step
    BY <1>6 DEF ForwardToken
  <2>2. Prev(s) \in Switches
    BY PrevSwitch
  <2>3. Forwards(s) /\ Forwards(Prev(s))
    BY <2>1, <2>2 DEF Sent, Forwards
  <2>4. left \in [Switches -> Nat]
    BY <2>1, <1>t
  <2>5. tokens' = [left EXCEPT ![Prev(s)] = @ + 1]
    BY <1>6, <2>3 DEF ForwardToken
  <2>6. tokens'[Prev(s)] = left[Prev(s)] + 1 /\ left[Prev(s)] \in Nat
    BY <2>2, <2>4, <2>5
  <2> QED
    BY <2>2, <2>6
<1>7. ASSUME NEW q \in Requests, Subscribe(q) PROVE \E r \in Switches : tokens'[r] > 0
  <2>1. UNCHANGED tokens /\ \A r \in Switches : Sent(r)
    BY <1>7 DEF Subscribe, Sent
  <2> QED
    BY <1>4, <2>1
<1>8. ASSUME NEW q \in Requests, NEW s \in Switches, ReceiveCopy(q, s)
      PROVE  \E r \in Switches : tokens'[r] > 0
  <2>1. UNCHANGED tokens /\ \A r \in Switches : Sent(r)
    BY <1>8 DEF ReceiveCopy, Sent
  <2> QED
    BY <1>4, <2>1
<1> QED
  BY <1>1, <1>2, <1>3, <1>5, <1>6, <1>7, <1>8 DEF switchNext, runTest

------------------------------------------------------------------------------
(* The theorems                                                             *)

switchIInv == switchTypeOK /\ groupInv /\ TokenSurvives

\* Initially no controller has sent a packet.
LEMMA InvInit == switchInit => switchIInv
<1>1. ASSUME switchInit PROVE TokenSurvives
  <2>1. 1 \in Switches
    BY NAssumption
  <2>2. ~Sent(1)
    BY <1>1, <2>1 DEF switchInit, Sent
  <2> QED
    BY <2>1, <2>2 DEF TokenSurvives
<1> QED
  BY <1>1, TypeInit, GroupInit DEF switchIInv

\* Every step keeps the types, the groups and the control packet.
LEMMA InvNext == switchIInv /\ [switchNext]_switchVars => switchIInv'
<1> SUFFICES ASSUME switchIInv, [switchNext]_switchVars PROVE switchIInv'
  OBVIOUS
<1>0. switchTypeOK /\ groupInv /\ TokenSurvives
  BY DEF switchIInv
<1>1. ASSUME NEW s \in Switches, Start(s) \/ runTest(s) PROVE switchTypeOK' /\ groupInv'
  BY <1>0, <1>1, TypeController, GroupController
<1>2. ASSUME NEW s \in Switches, ForwardToken(s) PROVE switchTypeOK' /\ groupInv'
  <2>1. UNCHANGED step /\ \A t \in Switches : SameTables(t)
    BY <1>2 DEF ForwardToken, groupVars, SameTables
  <2> QED
    BY <1>0, <1>2, <2>1, TypeToken, GroupPackets
<1>3. ASSUME NEW q \in Requests, Subscribe(q) PROVE switchTypeOK' /\ groupInv'
  <2>1. \A t \in Switches : handled'[t] = handled[t]
    BY <1>3 DEF Subscribe, groupVars
  <2>2. UNCHANGED step /\ \A t \in Switches : SameTables(t)
    BY <1>3 DEF Subscribe, groupVars, SameTables
  <2> QED
    BY <1>0, <1>3, <2>2, TypeSubscribe, GroupPackets
<1>4. ASSUME NEW q \in Requests, NEW s \in Switches, ReceiveCopy(q, s)
      PROVE  switchTypeOK' /\ groupInv'
  BY <1>0, <1>4, TypeReceive, GroupReceive
<1>5. CASE switchNext
  <2>1. switchTypeOK' /\ groupInv'
    BY <1>1, <1>2, <1>3, <1>4, <1>5 DEF switchNext
  <2> QED
    BY <1>0, <1>5, <2>1, TokenNext DEF switchIInv
<1>6. CASE UNCHANGED switchVars
  <2>1. UNCHANGED step /\ UNCHANGED tokens /\ \A t \in Switches : SameTables(t)
    BY <1>6 DEF switchVars, SameTables
  <2>2. groupInv'
    BY <1>0, <2>1, GroupPackets
  <2>3. switchTypeOK' /\ TokenSurvives'
    BY <1>0, <1>6 DEF switchVars, switchTypeOK, TokenSurvives, Sent
  <2> QED
    BY <2>2, <2>3 DEF switchIInv
<1> QED
  BY <1>5, <1>6

\* The strengthening holds in every behaviour.
LEMMA InvAlways == switchSpec => []switchIInv
BY InvInit, InvNext, PTL DEF switchSpec

\* Every variable of the controllers keeps its type.
THEOREM SwitchTypeCorrect == switchSpec => []switchTypeOK
<1>1. switchIInv => switchTypeOK
  BY DEF switchIInv
<1> QED
  BY <1>1, InvAlways, PTL

\* The groups of a switch are kept apart (setup_shard_multicast_groups,
\* setup_subscribe_tables, update_stream_subscriber_table).
THEOREM SwitchGroups == switchSpec => []groupInv
<1>1. switchIInv => groupInv
  BY DEF switchIInv
<1> QED
  BY <1>1, InvAlways, PTL

\* When all controllers have sent their control packet, one goes round, in
\* whatever order they came up (send_test_cntrl_packet, setup_cntrl_table).
THEOREM SwitchTokenSurvives == switchSpec => []TokenSurvives
<1>1. switchIInv => TokenSurvives
  BY DEF switchIInv
<1> QED
  BY <1>1, InvAlways, PTL

\* No subscription changes the group of a shard (update_stream_subscriber_table).
THEOREM SwitchShardsKept == switchSpec => []ShardGroupsKept
<1>1. switchIInv => ShardGroupsKept
  BY DEF switchIInv, groupInv, ShardInv, ShardGroupsKept
<1> QED
  BY <1>1, InvAlways, PTL

\* Every subscriber in the tables gets the answers of its stream
\* (update_stream_subscriber_table).
THEOREM SwitchStreamServed == switchSpec => []StreamServed
<1>1. ASSUME switchIInv PROVE StreamServed
  <2> SUFFICES ASSUME NEW s \in Switches, NEW q \in handled[s]
               PROVE  q.port \in Mirrored(s, q.stream)
    BY DEF StreamServed
  <2>1. stream_group[s][q.stream] # 0 /\ q.stream \in Streams
    BY <1>1, StreamsNat DEF switchIInv, switchTypeOK, groupInv, MemberInv
  <2>2. groups[s][stream_group[s][q.stream]] = Subscribers(s, q.stream)
    BY <1>1, <2>1 DEF switchIInv, groupInv, MemberInv
  <2> QED
    BY <2>1, <2>2 DEF Mirrored, Subscribers
<1> QED
  BY <1>1, InvAlways, PTL

\* A subscriber without a stream gets the answers of the streams that were
\* subscribed later (update_stream_subscriber_table).
THEOREM SwitchGeneralServedLater == switchSpec => []GeneralServedLater
<1>1. ASSUME switchIInv PROVE GeneralServedLater
  <2> SUFFICES ASSUME NEW s \in Switches, NEW q \in handled[s], NEW x \in Streams,
                      q.stream = 0, stream_group[s][x] > stream_group[s][0]
               PROVE  q.port \in Mirrored(s, x)
    BY DEF GeneralServedLater
  <2>1. /\ 0 \in Streams /\ stream_group[s][0] # 0
        /\ stream_group[s][0] \in Nat /\ stream_group[s][x] \in Nat
    BY <1>1, StreamsNat DEF switchIInv, switchTypeOK, groupInv, MemberInv
  <2>2. stream_group[s][x] # 0 /\ session[s][x] = stream_group[s][0]
    BY <1>1, <2>1 DEF switchIInv, groupInv, SessionInv
  <2>3. groups[s][stream_group[s][0]] = Subscribers(s, 0)
    BY <1>1, <2>1 DEF switchIInv, groupInv, MemberInv
  <2> QED
    BY <2>2, <2>3 DEF Mirrored, Subscribers
<1> QED
  BY <1>1, InvAlways, PTL

\* Nobody but the subscribers gets the answers of a stream that is first subscribed
\* after a subscriber without a stream (update_stream_subscriber_table).
THEOREM SwitchOnlySubscribers == switchSpec => []OnlySubscribers
<1>1. ASSUME switchIInv PROVE OnlySubscribers
  <2> SUFFICES ASSUME NEW s \in Switches, NEW x \in Streams,
                      0 \in Streams, stream_group[s][0] > 0,
                      stream_group[s][x] >= stream_group[s][0]
               PROVE  Mirrored(s, x) \subseteq
                        {q.port : q \in {r \in handled[s] : r.stream \in {0, x}}}
    BY DEF OnlySubscribers
  <2>1. /\ stream_group[s][0] \in Nat /\ stream_group[s][x] \in Nat
        /\ stream_group[s][0] # 0 /\ stream_group[s][x] # 0
    BY <1>1 DEF switchIInv, switchTypeOK
  <2>2. session[s][x] = stream_group[s][0]
    BY <1>1, <2>1 DEF switchIInv, groupInv, SessionInv
  <2>3. /\ groups[s][stream_group[s][0]] = Subscribers(s, 0)
        /\ groups[s][stream_group[s][x]] = Subscribers(s, x)
    BY <1>1, <2>1 DEF switchIInv, groupInv, MemberInv
  <2> QED
    BY <2>1, <2>2, <2>3 DEF Mirrored, Subscribers
<1> QED
  BY <1>1, InvAlways, PTL
=============================================================================
