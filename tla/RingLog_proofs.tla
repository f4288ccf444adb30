--------------------------- MODULE RingLog_proofs ---------------------------
(***************************************************************************)
(* Proofs about RingLog, for rings of every size, every set of appends,    *)
(* storage servers and tail queries, and every size of the map.            *)
(***************************************************************************)
EXTENDS RingLog, RingSequencer_proofs

USE DEF Switches, Slots

\* A numbered append keeps its stage and its index.
LEMMA NumberedStays ==
    ASSUME ringTypeOK, [ringNext]_ringVars, NEW p \in Sequenced
    PROVE  stage'[p] = stage[p] /\ g_idx'[p] = g_idx[p]
<1>1. p \in Packets /\ stage[p] # "client" /\ stage[p] # "loop"
  BY DEF Sequenced
<1>2. ASSUME NEW c \in Injectors, InjectToken(c) \/ LoseToken(c) \/ CntrlPacket(c)
      PROVE  UNCHANGED <<stage, g_idx>>
  BY <1>2 DEF InjectToken, LoseToken, CntrlPacket, packetVars
<1>3. ASSUME NEW q \in Packets, NEW s \in Switches, FirstPass(q, s)
      PROVE  stage'[p] = stage[p] /\ g_idx'[p] = g_idx[p]
  BY <1>1, <1>3 DEF FirstPass, ringTypeOK
<1>4. ASSUME NEW q \in Packets, Recirculate(q) \/ LoseInLoop(q)
      PROVE  stage'[p] = stage[p] /\ g_idx'[p] = g_idx[p]
  BY <1>1, <1>4 DEF Recirculate, LoseInLoop, ringTypeOK
<1>5. CASE UNCHANGED ringVars
  BY <1>5 DEF ringVars, packetVars
<1> QED
  BY <1>2, <1>3, <1>4, <1>5 DEF ringNext

-----------------------------------------------------------------------------
(* Where answers come from.                                                *)

\* A generated append becomes a response, a client's append goes to its shard;
\* only appends of a shard are delivered and answered from there.
Origin ==
    /\ \A p \in Packets : /\ stage[p] = "resp"  => p \in Timer
                          /\ stage[p] = "shard" => p \notin Timer
    /\ \A d \in delivered : stage[d[1]] = "shard"
    /\ \A m \in responses : \E r \in Replicas : <<m.pkt, r>> \in delivered
    /\ \A p \in acked : p \in Sequenced
    /\ \A p \in acked \ Timer : \E r \in Replicas : <<p, r>> \in delivered

\* A step of the ring keeps the origin of answers.
LEMMA OriginRing ==
    ASSUME rlTypeOK, Origin, [ringNext]_ringVars, UNCHANGED logVars
    PROVE  Origin'
<1>1. UNCHANGED <<delivered, responses, acked>>
  BY DEF logVars, answerVars
<1>2. \A p \in Packets : stage'[p] = "resp" => p \in Timer
  <2>1. ASSUME NEW q \in Packets, Recirculate(q) PROVE \A p \in Packets : stage'[p] = "resp" => p \in Timer
    BY <2>1 DEF Recirculate, Route, Origin, rlTypeOK, ringTypeOK
  <2> QED
    BY <2>1 DEF ringNext, InjectToken, LoseToken, CntrlPacket, FirstPass, LoseInLoop, ringVars,
                packetVars, Origin, rlTypeOK, ringTypeOK
<1>3. \A p \in Packets : stage'[p] = "shard" => p \notin Timer
  <2>1. ASSUME NEW q \in Packets, Recirculate(q) PROVE \A p \in Packets : stage'[p] = "shard" => p \notin Timer
    BY <2>1 DEF Recirculate, Route, Origin, rlTypeOK, ringTypeOK
  <2> QED
    BY <2>1 DEF ringNext, InjectToken, LoseToken, CntrlPacket, FirstPass, LoseInLoop, ringVars,
                packetVars, Origin, rlTypeOK, ringTypeOK
<1>4. \A p \in Sequenced : p \in Sequenced' /\ stage'[p] = stage[p]
  BY NumberedStays DEF rlTypeOK, Sequenced
<1>5. \A d \in delivered : d[1] \in Sequenced
  BY DEF Origin, rlTypeOK, Sequenced
<1> QED
  BY <1>1, <1>2, <1>3, <1>4, <1>5 DEF Origin

\* A step of a server, an answer or a query keeps it too.
LEMMA OriginLog ==
    ASSUME rlTypeOK, Origin, UNCHANGED ringVars,
           \/ \E p \in Packets, r \in Replicas, s \in Switches : StoreAppend(p, r, s)
           \/ \E m \in responses : AckResponse(m)
           \/ \E p \in Packets : AckGenerated(p)
           \/ \E q \in Queries, s \in Switches : TailQuery(q, s)
           \/ \E q \in Queries : TailPass(q)
    PROVE  Origin'
<1>1. UNCHANGED stage
  BY DEF ringVars, packetVars
<1>2. ASSUME NEW p \in Packets, NEW r \in Replicas, NEW s \in Switches, StoreAppend(p, r, s)
      PROVE  Origin'
  BY <1>1, <1>2 DEF StoreAppend, Origin, Sequenced
<1>3. ASSUME NEW m \in responses, AckResponse(m) PROVE Origin'
  <2>1. PICK r \in Replicas : <<m.pkt, r>> \in delivered
    BY DEF Origin
  <2>2. m.pkt \in Packets /\ stage[m.pkt] = "shard"
    BY <2>1 DEF Origin, rlTypeOK
  <2> QED
    BY <1>1, <1>3, <2>1, <2>2 DEF AckResponse, Origin, Sequenced
<1>4. ASSUME NEW p \in Packets, AckGenerated(p) PROVE Origin'
  BY <1>1, <1>4 DEF AckGenerated, Origin, Sequenced
<1>5. ASSUME NEW q \in Queries, NEW s \in Switches, TailQuery(q, s) PROVE Origin'
  BY <1>1, <1>5 DEF TailQuery, answerVars, Origin, Sequenced
<1>6. ASSUME NEW q \in Queries, TailPass(q) PROVE Origin'
  BY <1>1, <1>6 DEF TailPass, answerVars, Origin, Sequenced
<1> QED
  BY <1>2, <1>3, <1>4, <1>5, <1>6

-----------------------------------------------------------------------------
(* Types.                                                                  *)

\* What clients have been told is an index of the log.
Known ==
    {g_idx[p] : p \in acked \ Timer} \cup
    {tail_seq_no[q] : q \in {x \in Queries : query[x] = "done"}}

HasHighest(S) == S = {} \/ \E i \in S : \A j \in S : j <= i

\* A set of numbers with a highest one keeps it when a number joins it.
LEMMA HighestJoin ==
    ASSUME NEW S \in SUBSET Nat, NEW i \in Nat, HasHighest(S)
    PROVE  HasHighest(S \cup {i})
<1>1. CASE S = {}
  BY <1>1 DEF HasHighest
<1>2. CASE S # {}
  <2>1. PICK h \in S : \A j \in S : j <= h
    BY <1>2 DEF HasHighest
  <2>2. CASE i <= h
    BY <2>1, <2>2 DEF HasHighest
  <2>3. CASE h < i
    BY <2>1, <2>3 DEF HasHighest
  <2> QED
    BY <2>2, <2>3
<1> QED
  BY <1>1, <1>2

\* The highest number of a set is one of its members, or 0.
LEMMA HighestIs ==
    ASSUME NEW S \in SUBSET Nat, HasHighest(S)
    PROVE  Highest(S) \in Nat /\ (Highest(S) \in S \/ Highest(S) = 0)
<1>1. CASE S = {}
  BY <1>1 DEF Highest
<1>2. CASE S # {}
  BY <1>2 DEF Highest, HasHighest
<1> QED
  BY <1>1, <1>2

\* The sets of the variables, with what makes the highest known index a number.
rlTypes == rlTypeOK /\ Origin /\ HasHighest(Known)

\* Initially every variable has its type and nobody knows of an index.
LEMMA LogTypeInit == rlInit => rlTypes
<1> SUFFICES ASSUME rlInit PROVE rlTypes
  OBVIOUS
<1>1. rlTypeOK
  <2>1. ringTypeOK
    BY TypeInit DEF rlInit
  <2>2. /\ store \in [Replicas -> SUBSET (Nat \X Packets)]
        /\ delivered = {} /\ responses = {} /\ acked = {}
    BY DEF rlInit
  <2>3. 0 \in Nat /\ 0 \in Switches /\ 0 \in 0 .. N
    BY RingAssumption
  <2>4. /\ highest_replicated \in [Switches -> Nat] /\ query_at \in [Queries -> Switches]
        /\ hops \in [Queries -> 0 .. N] /\ tail_seq_no \in [Queries -> Nat]
        /\ floor \in [Queries -> Nat]
    BY <2>3 DEF rlInit
  <2>5. query \in [Queries -> {"idle", "ring", "done"}]
    BY DEF rlInit
  <2> QED
    BY <2>1, <2>2, <2>4, <2>5 DEF rlTypeOK
<1>2. Origin
  BY DEF rlInit, ringInit, Origin
<1>3. Known = {}
  BY DEF rlInit, Known
<1> QED
  BY <1>1, <1>2, <1>3 DEF rlTypes, HasHighest

\* What is known are numbers.
LEMMA KnownType == rlTypeOK => Known \in SUBSET Nat
BY DEF rlTypeOK, ringTypeOK, Known

\* Every step keeps the types.
LEMMA LogTypeNext == rlTypes /\ [rlNext]_allVars => rlTypes'
<1> SUFFICES ASSUME rlTypes, [rlNext]_allVars PROVE rlTypes'
  OBVIOUS
<1> USE DEF rlTypes
<1>1. CASE [ringNext]_ringVars /\ UNCHANGED logVars
  <2>1. rlTypeOK'
    BY <1>1, TypeNext DEF rlTypeOK, logVars, answerVars, tailVars
  <2>2. Known' = Known
    <3>1. \A p \in acked \ Timer : g_idx'[p] = g_idx[p]
      BY <1>1, NumberedStays DEF Origin, rlTypeOK
    <3>2. UNCHANGED <<acked, tail_seq_no, query>>
      BY <1>1 DEF logVars, answerVars, tailVars
    <3> QED
      BY <3>1, <3>2 DEF Known
  <2> QED
    BY <1>1, <2>1, <2>2, OriginRing
<1>3. ASSUME UNCHANGED ringVars PROVE ringTypeOK' /\ g_idx' = g_idx
  BY <1>3 DEF rlTypeOK, ringTypeOK, ringVars, switchVars, tokenVars, packetVars
<1>4. ASSUME NEW p \in Packets, NEW r \in Replicas, NEW s \in Switches,
             StoreAppend(p, r, s), UNCHANGED ringVars
      PROVE  rlTypes'
  <2>1. Put(r, g_idx[p], p) \in SUBSET (Nat \X Packets)
    <3>1. store[r] \in SUBSET (Nat \X Packets)
      BY DEF rlTypeOK
    <3>2. <<g_idx[p], p>> \in Nat \X Packets
      BY DEF rlTypeOK, ringTypeOK
    <3> QED
      BY <3>1, <3>2 DEF Put
  <2>2. /\ delivered' \subseteq Packets \X Replicas
        /\ responses' \subseteq [pkt : Packets, sw : Switches]
        /\ store' \in [Replicas -> SUBSET (Nat \X Packets)]
    BY <1>4, <2>1 DEF StoreAppend, rlTypeOK
  <2>3. rlTypeOK'
    BY <1>3, <1>4, <2>2 DEF StoreAppend, rlTypeOK, tailVars
  <2>4. Known' = Known
    BY <1>3, <1>4 DEF StoreAppend, tailVars, Known
  <2> QED
    BY <1>4, <2>3, <2>4, OriginLog
<1>5. ASSUME NEW m \in responses, AckResponse(m), UNCHANGED ringVars PROVE rlTypes'
  <2>1. m.pkt \in Packets /\ m.sw \in Switches /\ g_idx[m.pkt] \in Nat
    BY DEF rlTypeOK, ringTypeOK
  <2>2. highest_replicated' \in [Switches -> Nat]
    BY <1>5, <2>1 DEF AckResponse, write_replicated_seq_no, Larger, rlTypeOK
  <2>3. rlTypeOK'
    BY <1>3, <1>5, <2>1, <2>2 DEF AckResponse, rlTypeOK, tailVars
  <2>4. HasHighest(Known')
    <3>1. m.pkt \notin Timer
      BY <2>1 DEF Origin
    <3>2. Known' = Known \cup {g_idx[m.pkt]}
      BY <1>3, <1>5, <3>1 DEF AckResponse, Known, tailVars
    <3> QED
      BY <2>1, <3>2, HighestJoin, KnownType
  <2> QED
    BY <1>5, <2>3, <2>4, OriginLog DEF HasHighest
<1>6. ASSUME NEW p \in Packets, AckGenerated(p), UNCHANGED ringVars PROVE rlTypes'
  <2>1. rlTypeOK'
    BY <1>3, <1>6 DEF AckGenerated, rlTypeOK, tailVars
  <2>2. p \in Timer
    BY <1>6 DEF AckGenerated, Origin
  <2>3. Known' = Known
    BY <1>3, <1>6, <2>2 DEF AckGenerated, Known, tailVars
  <2> QED
    BY <1>6, <2>1, <2>3, OriginLog
<1>7. ASSUME NEW q \in Queries, NEW s \in Switches, TailQuery(q, s), UNCHANGED ringVars
      PROVE  rlTypes'
  <2>1. KnownInLog \in Nat
    BY HighestIs, KnownType DEF KnownInLog, Known
  <2>2. rlTypeOK'
    BY <1>3, <1>7, <2>1 DEF TailQuery, rlTypeOK, answerVars
  <2>3. Known' = Known
    BY <1>3, <1>7 DEF TailQuery, Known, answerVars, rlTypeOK
  <2> QED
    BY <1>7, <2>2, <2>3, OriginLog
<1>8. ASSUME NEW q \in Queries, TailPass(q), UNCHANGED ringVars PROVE rlTypes'
  <2> DEFINE s == query_at[q]
             i == get_tail(s, tail_seq_no[q])
  <2>1. s \in Switches /\ NextSwitch(s) \in Switches /\ i \in Nat /\ N \in Nat
    BY RingAssumption, RingCloses DEF rlTypeOK, get_tail, Larger
  <2>2. hops' \in [Queries -> 0 .. N]
    <3>1. hops[q] \in 0 .. N
      BY DEF rlTypeOK
    <3>2. CASE hops[q] < N
      <4>1. hops[q] + 1 \in 0 .. N
        BY <2>1, <3>1, <3>2
      <4>2. hops' = [hops EXCEPT ![q] = @ + 1]
        BY <1>8, <3>2 DEF TailPass, Forwards
      <4> QED
        BY <4>1, <4>2 DEF rlTypeOK
    <3>3. CASE ~(hops[q] < N)
      BY <1>8, <3>3 DEF TailPass, Forwards, rlTypeOK
    <3> QED
      BY <3>2, <3>3
  <2>3. /\ tail_seq_no' \in [Queries -> Nat] /\ query_at' \in [Queries -> Switches]
        /\ query' \in [Queries -> {"idle", "ring", "done"}]
    BY <1>8, <2>1 DEF TailPass, rlTypeOK
  <2>4. rlTypeOK'
    BY <1>3, <1>8, <2>2, <2>3 DEF TailPass, rlTypeOK, answerVars
  <2>5. Known' = Known \/ Known' = Known \cup {i}
    <3>1. /\ UNCHANGED <<acked, g_idx>> /\ query[q] = "ring"
          /\ tail_seq_no' = [tail_seq_no EXCEPT ![q] = i]
          /\ query' = query \/ query' = [query EXCEPT ![q] = "done"]
      BY <1>3, <1>8 DEF TailPass, answerVars
    <3> DEFINE D == {x \in Queries : query[x] = "done"}
    <3>2. \A x \in D : x # q /\ tail_seq_no'[x] = tail_seq_no[x]
      BY <3>1 DEF rlTypeOK
    <3>3. CASE query' = query
      BY <3>1, <3>2, <3>3 DEF Known
    <3>4. CASE query' = [query EXCEPT ![q] = "done"]
      <4>1. {x \in Queries : query'[x] = "done"} = D \cup {q}
        BY <3>4 DEF rlTypeOK
      <4>2. tail_seq_no'[q] = i
        BY <3>1 DEF rlTypeOK
      <4>3. {tail_seq_no'[x] : x \in D \cup {q}} = {tail_seq_no[x] : x \in D} \cup {i}
        BY <3>2, <4>2
      <4> QED
        BY <3>1, <4>1, <4>3 DEF Known
    <3> QED
      BY <3>1, <3>3, <3>4
  <2>6. HasHighest(Known')
    BY <2>1, <2>5, HighestJoin, KnownType
  <2> QED
    BY <1>8, <2>4, <2>6, OriginLog DEF HasHighest
<1> QED
  BY <1>1, <1>4, <1>5, <1>6, <1>7, <1>8 DEF rlNext, allVars

\* The invariant behind the types, on every run.
THEOREM LogTypes == rlSpec => []rlTypes
BY LogTypeInit, LogTypeNext, PTL DEF rlSpec

\* Every variable of the ring with its storage servers and tail queries keeps to
\* its set, on every run.
THEOREM LogTypeCorrect == rlSpec => []rlTypeOK
<1>1. rlTypes => rlTypeOK
  BY DEF rlTypes
<1> QED
  BY <1>1, LogTypes, PTL

-----------------------------------------------------------------------------
(* The tail goes round the ring.                                           *)

\* How many hops switch b is after switch a.
Distance(a, b) == IF a <= b THEN b - a ELSE b - a + N

\* Every hop brings a query nearer to the switches it has not passed yet.
LEMMA HopNearer ==
    ASSUME NEW a \in Switches, NEW b \in Switches
    PROVE  /\ Distance(a, b) \in 0 .. N - 1
           /\ Distance(a, b) = 0 <=> a = b
           /\ a # b => Distance(NextSwitch(a), b) = Distance(a, b) - 1
BY RingAssumption DEF Distance, NextSwitch

\* Every index a client has been told of is behind the record of some switch.
Recorded ==
    /\ \A p \in acked \ Timer : \E s \in Switches : g_idx[p] <= highest_replicated[s]
    /\ \A q \in Queries : \E s \in Switches : tail_seq_no[q] <= highest_replicated[s]

\* A query has what it has to report, or is still to pass a switch that has it.
Ahead ==
    \A q \in Queries :
      /\ query[q] = "idle" => hops[q] = 0
      /\ query[q] = "ring" =>
           \/ floor[q] <= tail_seq_no[q]
           \/ \E s \in Switches : /\ floor[q] <= highest_replicated[s]
                                  /\ Distance(query_at[q], s) <= N - hops[q]
      /\ query[q] = "done" => floor[q] <= tail_seq_no[q]

tailInv == Recorded /\ Ahead

\* Initially nothing is known and no query has started.
LEMMA TailInvInit == rlInit => tailInv
<1> SUFFICES ASSUME rlInit PROVE tailInv
  OBVIOUS
<1>1. 0 \in Switches
  BY RingAssumption
<1>2. Recorded
  BY <1>1 DEF rlInit, Recorded
<1>3. Ahead
  BY DEF rlInit, Ahead
<1> QED
  BY <1>2, <1>3 DEF tailInv

\* Records only grow, so what they cover stays covered.
LEMMA RecordsGrow ==
    ASSUME rlTypeOK, tailInv, UNCHANGED <<g_idx, tailVars>>,
           \A s \in Switches : /\ highest_replicated'[s] \in Nat
                               /\ highest_replicated[s] <= highest_replicated'[s],
           \A p \in acked' \ Timer :
             p \in acked \/ \E s \in Switches : g_idx[p] <= highest_replicated'[s],
           acked' \subseteq Packets
    PROVE  tailInv'
<1>1. /\ \A s \in Switches : highest_replicated[s] \in Nat
      /\ \A p \in Packets : g_idx[p] \in Nat
      /\ \A q \in Queries : tail_seq_no[q] \in Nat /\ floor[q] \in Nat
  BY DEF rlTypeOK, ringTypeOK
<1>2. Recorded'
  <2>1. ASSUME NEW p \in acked' \ Timer PROVE \E s \in Switches : g_idx'[p] <= highest_replicated'[s]
    BY <1>1 DEF tailInv, Recorded
  <2>2. ASSUME NEW q \in Queries PROVE \E s \in Switches : tail_seq_no'[q] <= highest_replicated'[s]
    BY <1>1 DEF tailInv, Recorded, tailVars
  <2> QED
    BY <2>1, <2>2 DEF Recorded
<1>3. Ahead'
  <2> SUFFICES ASSUME NEW q \in Queries, query[q] = "ring",
                      NEW s \in Switches, floor[q] <= highest_replicated[s],
                      Distance(query_at[q], s) <= N - hops[q]
               PROVE  floor[q] <= highest_replicated'[s]
    BY DEF tailInv, Ahead, tailVars
  <2> QED
    BY <1>1
<1> QED
  BY <1>2, <1>3 DEF tailInv

\* Every step keeps the records and what queries have ahead of them.
LEMMA TailInvNext == rlTypes /\ rlTypes' /\ tailInv /\ [rlNext]_allVars => tailInv'
<1> SUFFICES ASSUME rlTypeOK, rlTypes, rlTypeOK', tailInv, [rlNext]_allVars PROVE tailInv'
  BY DEF rlTypes
<1>1. CASE [ringNext]_ringVars /\ UNCHANGED logVars
  <2>1. \A p \in acked \ Timer : g_idx'[p] = g_idx[p]
    BY <1>1, NumberedStays DEF rlTypes, Origin, rlTypeOK
  <2> QED
    BY <1>1, <2>1 DEF logVars, answerVars, tailVars, tailInv, Recorded, Ahead
<1>2. ASSUME UNCHANGED ringVars PROVE g_idx' = g_idx
  BY <1>2 DEF ringVars, packetVars
<1>3. \A s \in Switches : highest_replicated[s] \in Nat /\ highest_replicated'[s] \in Nat
  BY DEF rlTypeOK
<1>4. ASSUME NEW p \in Packets, NEW r \in Replicas, NEW s \in Switches,
             StoreAppend(p, r, s), UNCHANGED ringVars
      PROVE  tailInv'
  BY <1>2, <1>4 DEF StoreAppend, tailVars, tailInv, Recorded, Ahead
<1>5. ASSUME NEW m \in responses, AckResponse(m), UNCHANGED ringVars PROVE tailInv'
  <2>1. m.pkt \in Packets /\ m.sw \in Switches /\ g_idx[m.pkt] \in Nat
    BY DEF rlTypeOK, ringTypeOK
  <2>2. highest_replicated' =
          [highest_replicated EXCEPT ![m.sw] = Larger(@, g_idx[m.pkt])]
    BY <1>5 DEF AckResponse, write_replicated_seq_no
  <2>3. /\ \A s \in Switches : highest_replicated[s] <= highest_replicated'[s]
        /\ g_idx[m.pkt] <= highest_replicated'[m.sw]
    BY <1>3, <2>1, <2>2 DEF Larger, rlTypeOK
  <2>4. \A p \in acked' : p \in acked \/ p = m.pkt
    BY <1>5 DEF AckResponse
  <2>5. acked' \subseteq Packets /\ UNCHANGED tailVars
    BY <1>5 DEF AckResponse, rlTypeOK
  <2> QED
    BY <1>2, <1>3, <1>5, <2>1, <2>3, <2>4, <2>5, RecordsGrow
<1>6. ASSUME NEW p \in Packets, AckGenerated(p), UNCHANGED ringVars PROVE tailInv'
  <2>1. p \in Timer
    BY <1>6 DEF AckGenerated, rlTypes, Origin
  <2> QED
    BY <1>2, <1>6, <2>1 DEF AckGenerated, tailVars, tailInv, Recorded, Ahead
<1>7. ASSUME NEW q \in Queries, NEW s \in Switches, TailQuery(q, s), UNCHANGED ringVars
      PROVE  tailInv'
  <2>1. UNCHANGED <<g_idx, acked, highest_replicated, tail_seq_no, hops>>
    BY <1>2, <1>7 DEF TailQuery, answerVars
  <2>2. \E t \in Switches : KnownInLog <= highest_replicated[t]
    <3>1. KnownInLog \in Known \/ KnownInLog = 0
      BY HighestIs, KnownType DEF KnownInLog, Known, rlTypes
    <3>2. 0 \in Switches
      BY RingAssumption
    <3>3. KnownInLog \in Known => \E t \in Switches : KnownInLog <= highest_replicated[t]
      BY DEF Known, tailInv, Recorded
    <3> QED
      BY <1>3, <3>1, <3>2, <3>3
  <2>3. PICK t \in Switches : KnownInLog <= highest_replicated[t]
    BY <2>2
  <2>4. Distance(s, t) <= N - 0
    BY HopNearer, RingAssumption
  <2>5. /\ query[q] = "idle" /\ hops[q] = 0 /\ query'[q] = "ring" /\ query_at'[q] = s
        /\ floor'[q] = KnownInLog
        /\ \A x \in Queries : x # q => query'[x] = query[x] /\ query_at'[x] = query_at[x]
                                       /\ floor'[x] = floor[x]
    BY <1>7 DEF TailQuery, rlTypeOK, tailInv, Ahead
  <2>6. Ahead'
    BY <2>1, <2>3, <2>4, <2>5 DEF tailInv, Ahead
  <2>7. Recorded'
    BY <2>1 DEF tailInv, Recorded
  <2> QED
    BY <2>6, <2>7 DEF tailInv
<1>8. ASSUME NEW q \in Queries, TailPass(q), UNCHANGED ringVars PROVE tailInv'
  <2> DEFINE s == query_at[q]
             h == highest_replicated[s]
             i == Larger(tail_seq_no[q], h)
  <2>1. /\ s \in Switches /\ h \in Nat /\ tail_seq_no[q] \in Nat /\ floor[q] \in Nat
        /\ hops[q] \in 0 .. N /\ N \in Nat
    BY RingAssumption DEF rlTypeOK
  <2>2. /\ UNCHANGED <<g_idx, acked, highest_replicated, floor>> /\ query[q] = "ring"
        /\ tail_seq_no'[q] = i
        /\ \A x \in Queries : x # q =>
             /\ tail_seq_no'[x] = tail_seq_no[x] /\ hops'[x] = hops[x]
             /\ query'[x] = query[x] /\ query_at'[x] = query_at[x]
    BY <1>2, <1>8 DEF TailPass, answerVars, get_tail, rlTypeOK
  <2>3. h <= i /\ tail_seq_no[q] <= i /\ (i = h \/ i = tail_seq_no[q])
    BY <2>1 DEF Larger
  <2>4. Recorded'
    <3>1. \E t \in Switches : i <= highest_replicated[t]
      BY <2>1, <2>3 DEF tailInv, Recorded
    <3> QED
      BY <2>2, <3>1 DEF tailInv, Recorded
  <2>5. \/ floor[q] <= i
        \/ \E t \in Switches : /\ t # s /\ floor[q] <= highest_replicated[t]
                               /\ Distance(s, t) <= N - hops[q]
    BY <1>3, <2>1, <2>2, <2>3 DEF tailInv, Ahead
  <2>6. CASE hops[q] < N
    <3>1. /\ hops'[q] = hops[q] + 1 /\ query_at'[q] = NextSwitch(s)
          /\ query'[q] = "ring"
      BY <1>8, <2>6, <2>2 DEF TailPass, Forwards, rlTypeOK
    <3>2. \A t \in Switches :
            t # s /\ Distance(s, t) <= N - hops[q]
            => Distance(NextSwitch(s), t) <= N - (hops[q] + 1)
      BY <2>1, HopNearer
    <3>3. Ahead'
      BY <2>2, <2>5, <3>1, <3>2 DEF tailInv, Ahead
    <3> QED
      BY <2>4, <3>3 DEF tailInv
  <2>7. CASE ~(hops[q] < N)
    <3>1. query'[q] = "done"
      BY <1>8, <2>7 DEF TailPass, Forwards, rlTypeOK
    <3>2. floor[q] <= i
      <4>1. \A t \in Switches : t # s => Distance(s, t) \in 1 .. N - 1
        BY <2>1 DEF Distance
      <4>2. hops[q] = N
        BY <2>1, <2>7
      <4>3. \A t \in Switches : t # s => ~(Distance(s, t) <= N - hops[q])
        BY <2>1, <4>1, <4>2
      <4> QED
        BY <2>5, <4>3
    <3>3. Ahead'
      BY <2>2, <3>1, <3>2 DEF tailInv, Ahead
    <3> QED
      BY <2>4, <3>3 DEF tailInv
  <2> QED
    BY <2>6, <2>7
<1> QED
  BY <1>1, <1>4, <1>5, <1>6, <1>7, <1>8 DEF rlNext, allVars

\* For rings of every size, with any number of control packets, a tail covers
\* what clients had been told before the query started: process_tail lets the
\* query make one pass more than there are switches, so it passes every record.
THEOREM LogTailCovers == rlSpec => []TailCovers
<1>1. rlTypes /\ tailInv => TailCovers
  BY DEF tailInv, Ahead, TailCovers
<1> QED
  BY <1>1, TailInvInit, TailInvNext, LogTypes, PTL DEF rlSpec

-----------------------------------------------------------------------------
(* What the control packet has told a switch.                              *)

\* No entry of a switch's map, stale or not, is above the number the control
\* packet last left the switch with, and no switch is ahead of the packet.
Told ==
    /\ \A s \in Switches : /\ \A i \in Slots : map_from_gsn[s][i] <= seen_gsn[s]
                           /\ highest_replicated[s] <= seen_gsn[s]
    /\ \A s \in Switches, c \in Injectors : seen_gsn[s] <= token_gsn[c]

\* A step of a ring with one control packet keeps what the switches were told.
LEMMA ToldRing ==
    ASSUME NEW c, Injectors = {c}, ringTypeOK, Told, [ringNext]_ringVars,
           highest_replicated \in [Switches -> Nat], UNCHANGED highest_replicated
    PROVE  Told'
<1>1. CASE InjectToken(c) \/ LoseToken(c)
  BY <1>1 DEF InjectToken, LoseToken, switchVars, Told
<1>2. CASE CntrlPacket(c)
  <2> DEFINE s == token_at[c]
             n == local_seq_no[s]
             it == cntrl_pkt_it[s]
  <2>1. /\ c \in Injectors /\ s \in Switches /\ it \in Slots /\ token_gsn[c] \in Nat
        /\ n \in Nat /\ \A t \in Switches : seen_gsn[t] \in Nat
        /\ \A t \in Switches : \A i \in Slots : map_from_gsn[t][i] \in Nat
    BY DEF ringTypeOK
  <2>2. /\ token_gsn'[c] = token_gsn[c] + n /\ seen_gsn'[s] = token_gsn[c] + n
        /\ \A t \in Switches : t # s => seen_gsn'[t] = seen_gsn[t]
    BY <1>2, <2>1 DEF CntrlPacket, ringTypeOK
  <2>3. \A t \in Switches, i \in Slots :
          map_from_gsn'[t][i] = IF t = s /\ i = it THEN token_gsn[c] ELSE map_from_gsn[t][i]
    BY <1>2, <2>1 DEF CntrlPacket, add_gsn, ringTypeOK
  <2>4. seen_gsn[s] <= token_gsn[c]
    BY <2>1 DEF Told
  <2>5. \A t \in Switches : seen_gsn[t] <= seen_gsn'[t] /\ seen_gsn'[t] <= token_gsn'[c]
    BY <2>1, <2>2, <2>4 DEF Told
  <2>6. \A t \in Switches : \A i \in Slots : map_from_gsn'[t][i] <= seen_gsn'[t]
    <3> SUFFICES ASSUME NEW t \in Switches, NEW i \in Slots
                 PROVE  map_from_gsn'[t][i] <= seen_gsn'[t]
      OBVIOUS
    <3>1. map_from_gsn[t][i] <= seen_gsn[t]
      BY DEF Told
    <3>2. seen_gsn'[t] \in Nat
      BY <2>1, <2>2
    <3> QED
      BY <2>1, <2>2, <2>3, <2>5, <3>1, <3>2
  <2>7. \A t \in Switches : highest_replicated'[t] <= seen_gsn'[t]
    <3> SUFFICES ASSUME NEW t \in Switches PROVE highest_replicated[t] <= seen_gsn'[t]
      OBVIOUS
    <3>1. highest_replicated[t] <= seen_gsn[t] /\ highest_replicated[t] \in Nat
      BY DEF Told
    <3>2. seen_gsn[t] \in Nat /\ seen_gsn[t] <= seen_gsn'[t]
      BY <2>5 DEF ringTypeOK
    <3>3. seen_gsn'[t] \in Nat
      BY <2>1, <2>2, <3>2
    <3> QED
      BY <3>1, <3>2, <3>3
  <2> QED
    BY <2>5, <2>6, <2>7 DEF Told
<1>3. ASSUME NEW p \in Packets, NEW s \in Switches, FirstPass(p, s) PROVE Told'
  <2>1. \A t \in Switches, i \in Slots :
          map_from_gsn'[t][i] = IF t = s /\ i = cntrl_pkt_it[s] THEN 0 ELSE map_from_gsn[t][i]
    BY <1>3 DEF FirstPass, zero_gsn, ringTypeOK
  <2>2. UNCHANGED <<seen_gsn, token_gsn>>
    BY <1>3 DEF FirstPass, tokenVars
  <2>3. \A t \in Switches : seen_gsn[t] \in Nat
    BY DEF ringTypeOK
  <2> QED
    BY <2>1, <2>2, <2>3 DEF Told
<1>4. ASSUME NEW p \in Packets, Recirculate(p) \/ LoseInLoop(p) PROVE Told'
  BY <1>4 DEF Recirculate, LoseInLoop, switchVars, tokenVars, Told
<1>5. CASE UNCHANGED ringVars
  BY <1>5 DEF ringVars, switchVars, tokenVars, Told
<1> QED
  BY <1>1, <1>2, <1>3, <1>4, <1>5 DEF ringNext

\* So does an answer: what is recorded has been compared with the map.
LEMMA ToldNext ==
    ASSUME NEW c, Injectors = {c}, rlTypeOK, Told, [rlNext]_allVars
    PROVE  Told'
<1>1. CASE [ringNext]_ringVars /\ UNCHANGED logVars
  BY <1>1, ToldRing DEF rlTypeOK, logVars, answerVars
<1>2. ASSUME UNCHANGED <<ringVars, highest_replicated>> PROVE Told'
  BY <1>2 DEF ringVars, switchVars, tokenVars, Told
<1>3. ASSUME NEW m \in responses, AckResponse(m), UNCHANGED ringVars PROVE Told'
  <2> DEFINE s == m.sw
             i == g_idx[m.pkt]
  <2>1. /\ s \in Switches /\ i \in Nat /\ cntrl_pkt_it[s] \in Slots
        /\ \A t \in Switches : highest_replicated[t] \in Nat /\ seen_gsn[t] \in Nat
        /\ map_from_gsn[s][cntrl_pkt_it[s]] \in Nat
    BY DEF rlTypeOK, ringTypeOK
  <2>2. i <= map_from_gsn[s][cntrl_pkt_it[s]]
    BY <1>3 DEF AckResponse, compare_gsn
  <2>3. map_from_gsn[s][cntrl_pkt_it[s]] <= seen_gsn[s]
    BY <2>1 DEF Told
  <2>4. i <= seen_gsn[s]
    BY <2>1, <2>2, <2>3
  <2>5. /\ highest_replicated'[s] = Larger(highest_replicated[s], i)
        /\ \A t \in Switches : t # s => highest_replicated'[t] = highest_replicated[t]
    BY <1>3, <2>1 DEF AckResponse, write_replicated_seq_no, rlTypeOK
  <2>6. \A t \in Switches : highest_replicated'[t] <= seen_gsn[t]
    BY <2>1, <2>4, <2>5 DEF Told, Larger
  <2> QED
    BY <1>3, <2>6 DEF Told, ringVars, switchVars, tokenVars
<1> QED
  BY <1>1, <1>2, <1>3
  DEF rlNext, allVars, logVars, answerVars, StoreAppend, AckGenerated, TailQuery, TailPass

\* With one control packet an answer passes, and is recorded, only where the
\* control packet has told the switch of its index, however often the map wraps.
THEOREM LogAnswersCovered ==
    ASSUME NEW c, Injectors = {c}
    PROVE  rlSpec => []AnswersCovered
<1>1. rlInit => Told
  BY DEF rlInit, ringInit, Told
<1>2. rlTypeOK /\ Told /\ [rlNext]_allVars => Told'
  BY ToldNext
<1>3. Told => AnswersCovered
  BY DEF Told, AnswersCovered
<1> QED
  BY <1>1, <1>2, <1>3, LogTypeCorrect, PTL DEF rlSpec

\* Only the control packet changes a switch's report, when it closes a batch, and
\* the number it came with is not below any entry of the map.
LEMMA ReportStep ==
    ASSUME NEW c, Injectors = {c}, ringTypeOK, Told, [ringNext]_ringVars,
           NEW s \in Switches
    PROVE  highest_seen_seq_no(s)' >= highest_seen_seq_no(s)
<1> DEFINE it == cntrl_pkt_it[s]
           last == latest_complete_cntrl_pkt_it(s)
<1>1. /\ MAX_GSN_MAP_SIZE \in Nat \ {0} /\ it \in 0 .. MAX_GSN_MAP_SIZE
      /\ last \in Slots /\ last # it
  <2>1. MAX_GSN_MAP_SIZE \in Nat \ {0}
    BY RingAssumption
  <2>2. it \in 0 .. MAX_GSN_MAP_SIZE
    BY DEF ringTypeOK, Slots
  <2>3. last = IF it = 0 THEN MAX_GSN_MAP_SIZE ELSE it - 1
    BY DEF latest_complete_cntrl_pkt_it
  <2> QED
    BY <2>1, <2>2, <2>3 DEF Slots
<1>2. \A t \in Switches, i \in Slots : map_from_gsn[t][i] \in Nat
  BY DEF ringTypeOK
<1>3. ASSUME UNCHANGED cntrl_pkt_it, map_from_gsn'[s][last] = map_from_gsn[s][last]
      PROVE  highest_seen_seq_no(s)' >= highest_seen_seq_no(s)
  BY <1>1, <1>2, <1>3 DEF highest_seen_seq_no, latest_complete_cntrl_pkt_it
<1>4. CASE InjectToken(c) \/ LoseToken(c) \/ UNCHANGED ringVars
  BY <1>3, <1>4 DEF InjectToken, LoseToken, switchVars, ringVars
<1>5. ASSUME NEW p \in Packets, Recirculate(p) \/ LoseInLoop(p)
      PROVE  highest_seen_seq_no(s)' >= highest_seen_seq_no(s)
  BY <1>3, <1>5 DEF Recirculate, LoseInLoop, switchVars
<1>6. ASSUME NEW p \in Packets, NEW t \in Switches, FirstPass(p, t)
      PROVE  highest_seen_seq_no(s)' >= highest_seen_seq_no(s)
  <2>1. UNCHANGED cntrl_pkt_it /\ map_from_gsn' = zero_gsn(t, cntrl_pkt_it[t])
    BY <1>6 DEF FirstPass
  <2>2. map_from_gsn'[s][last] = map_from_gsn[s][last]
    BY <1>1, <2>1 DEF zero_gsn, ringTypeOK
  <2> QED
    BY <1>3, <2>1, <2>2
<1>7. CASE CntrlPacket(c)
  <2> DEFINE t == token_at[c]
  <2>1. /\ t \in Switches /\ token_gsn[c] \in Nat /\ local_seq_no[t] \in Nat
        /\ map_from_gsn' = add_gsn(t, cntrl_pkt_it[t], token_gsn[c])
        /\ cntrl_pkt_it' = update_cntrl_pkt_it(t)
    BY <1>7 DEF CntrlPacket, ringTypeOK
  <2>2. map_from_gsn'[s][last] = map_from_gsn[s][last]
    BY <1>1, <2>1 DEF add_gsn, ringTypeOK
  <2>3. CASE t # s \/ local_seq_no[t] = 0
    <3>1. cntrl_pkt_it'[s] = cntrl_pkt_it[s]
      BY <2>1, <2>3 DEF update_cntrl_pkt_it, ringTypeOK
    <3> QED
      BY <1>1, <1>2, <2>2, <3>1 DEF highest_seen_seq_no, latest_complete_cntrl_pkt_it
  <2>4. CASE t = s /\ local_seq_no[t] # 0
    <3>1. cntrl_pkt_it'[s] = NextIt(it) /\ map_from_gsn'[s][it] = token_gsn[c]
      BY <1>1, <2>1, <2>4 DEF update_cntrl_pkt_it, add_gsn, ringTypeOK, Slots
    <3>2. latest_complete_cntrl_pkt_it(s)' = it
      BY <1>1, <3>1 DEF latest_complete_cntrl_pkt_it, NextIt
    <3>3. map_from_gsn[s][last] <= seen_gsn[s] /\ seen_gsn[s] <= token_gsn[c]
      BY <1>1 DEF Told
    <3>4. seen_gsn[s] \in Nat
      BY DEF ringTypeOK
    <3>5. highest_seen_seq_no(s)' = token_gsn[c]
      BY <3>1, <3>2 DEF highest_seen_seq_no
    <3>6. highest_seen_seq_no(s) = map_from_gsn[s][last]
      BY DEF highest_seen_seq_no
    <3> QED
      BY <1>1, <1>2, <2>1, <3>3, <3>4, <3>5, <3>6
  <2> QED
    BY <2>3, <2>4
<1> QED
  BY <1>4, <1>5, <1>6, <1>7 DEF ringNext

\* With one control packet, what a switch would report to a view change never goes
\* back (get_gsn with start_view), whatever first passes and laps do to the map.
THEOREM LogReportsGrow ==
    ASSUME NEW c, Injectors = {c}
    PROVE  rlSpec => ReportsGrow
<1> DEFINE Grow == \A s \in Switches : highest_seen_seq_no(s)' >= highest_seen_seq_no(s)
<1>1. rlInit => Told
  BY DEF rlInit, ringInit, Told
<1>2. rlTypeOK /\ Told /\ [rlNext]_allVars => Told'
  BY ToldNext
<1>3. rlTypeOK /\ Told /\ [rlNext]_allVars => Grow
  <2> SUFFICES ASSUME rlTypeOK, Told, [rlNext]_allVars, NEW s \in Switches
               PROVE  highest_seen_seq_no(s)' >= highest_seen_seq_no(s)
    OBVIOUS
  <2>1. [ringNext]_ringVars
    BY DEF rlNext, allVars
  <2> QED
    BY <2>1, ReportStep DEF rlTypeOK
<1>4. rlTypeOK /\ Told /\ [rlNext]_allVars => [Grow]_allVars
  BY <1>3
<1> QED
  BY <1>1, <1>2, <1>4, LogTypeCorrect, PTL DEF rlSpec, ReportsGrow

-----------------------------------------------------------------------------
(* What is answered is stored.                                             *)

\* The ring below takes the steps of RingSequencer.
LEMMA RingBelow == rlSpec => ringSpec
<1>1. rlInit => ringInit
  BY DEF rlInit
<1>2. [rlNext]_allVars => [ringNext]_ringVars
  BY DEF rlNext, allVars
<1> QED
  BY <1>1, <1>2, PTL DEF rlSpec, ringSpec

\* Every entry stored is a numbered append at its own index, every server that
\* got an append has it, and records and tails are indices of answered appends.
Stored ==
    /\ \A r \in Replicas : \A e \in store[r] : e[2] \in Sequenced /\ e[1] = g_idx[e[2]]
    /\ \A d \in delivered : <<g_idx[d[1]], d[1]>> \in store[d[2]]
    /\ \A s \in Switches : highest_replicated[s] # 0 =>
         \E p \in acked \ Timer : g_idx[p] = highest_replicated[s]
    /\ \A q \in Queries : tail_seq_no[q] # 0 =>
         \E p \in acked \ Timer : g_idx[p] = tail_seq_no[q]

\* A server that has another entry at the index of an append would refuse it; no
\* two appends have the same index, so what it has there is the append itself.
LEMMA PutStores ==
    ASSUME rlTypes, Stored, UniqueIndex, NEW p \in Sequenced, NEW r \in Replicas
    PROVE  /\ <<g_idx[p], p>> \in Put(r, g_idx[p], p)
           /\ store[r] \subseteq Put(r, g_idx[p], p)
           /\ \A e \in Put(r, g_idx[p], p) : e \in store[r] \/ e = <<g_idx[p], p>>
<1>1. CASE \E e \in store[r] : e[1] = g_idx[p]
  <2>1. PICK e \in store[r] : e[1] = g_idx[p]
    BY <1>1
  <2>2. e[2] = p
    BY <2>1 DEF Stored, UniqueIndex
  <2>3. e = <<g_idx[p], p>>
    BY <2>1, <2>2 DEF rlTypes, rlTypeOK
  <2> QED
    BY <1>1, <2>3 DEF Put
<1>2. CASE ~\E e \in store[r] : e[1] = g_idx[p]
  BY <1>2 DEF Put
<1> QED
  BY <1>1, <1>2

\* Every step keeps what is stored.
LEMMA StoredNext ==
    ASSUME rlTypes, UniqueIndex, Stored, [rlNext]_allVars
    PROVE  Stored'
<1> USE DEF rlTypes
<1>1. CASE [ringNext]_ringVars /\ UNCHANGED logVars
  <2>1. UNCHANGED <<store, delivered, acked, highest_replicated, tail_seq_no>>
    BY <1>1 DEF logVars, answerVars, tailVars
  <2>2. \A p \in Sequenced : p \in Sequenced' /\ g_idx'[p] = g_idx[p]
    BY <1>1, NumberedStays DEF rlTypeOK, Sequenced
  <2>3. \A d \in delivered : d[1] \in Sequenced
    BY DEF Origin, rlTypeOK, Sequenced
  <2>4. \A p \in acked : p \in Sequenced
    BY DEF Origin
  <2> QED
    BY <2>1, <2>2, <2>3, <2>4 DEF Stored
<1>2. ASSUME UNCHANGED ringVars PROVE g_idx' = g_idx /\ Sequenced' = Sequenced
  BY <1>2 DEF ringVars, packetVars, Sequenced
<1>3. ASSUME NEW p \in Packets, NEW r \in Replicas, NEW s \in Switches,
             StoreAppend(p, r, s), UNCHANGED ringVars
      PROVE  Stored'
  <2>1. p \in Sequenced
    BY <1>3 DEF StoreAppend, Sequenced
  <2>2. /\ store'[r] = Put(r, g_idx[p], p)
        /\ \A x \in Replicas : x # r => store'[x] = store[x]
        /\ delivered' = delivered \cup {<<p, r>>}
        /\ UNCHANGED <<acked, highest_replicated, tail_seq_no>>
    BY <1>3 DEF StoreAppend, tailVars, rlTypeOK
  <2>3. \A x \in Replicas : store[x] \subseteq store'[x]
    BY <2>1, <2>2, PutStores
  <2>4. \A x \in Replicas : \A e \in store'[x] : e[2] \in Sequenced /\ e[1] = g_idx[e[2]]
    <3> SUFFICES ASSUME NEW x \in Replicas, NEW e \in store'[x]
                 PROVE  e[2] \in Sequenced /\ e[1] = g_idx[e[2]]
      OBVIOUS
    <3>1. CASE e \in store[x]
      BY <3>1 DEF Stored
    <3>2. CASE e = <<g_idx[p], p>>
      BY <2>1, <3>2
    <3>3. e \in store[x] \/ e = <<g_idx[p], p>>
      <4>1. CASE x = r
        BY <2>1, <2>2, <4>1, PutStores
      <4>2. CASE x # r
        BY <2>2, <4>2
      <4> QED
        BY <4>1, <4>2
    <3> QED
      BY <3>1, <3>2, <3>3
  <2>5. \A d \in delivered' : <<g_idx[d[1]], d[1]>> \in store'[d[2]]
    <3>1. \A d \in delivered : d[2] \in Replicas
      BY DEF rlTypeOK
    <3>2. <<g_idx[p], p>> \in store'[r]
      BY <2>1, <2>2, PutStores
    <3> QED
      BY <2>2, <2>3, <3>1, <3>2 DEF Stored
  <2> QED
    BY <1>2, <1>3, <2>2, <2>4, <2>5 DEF Stored
<1>4. ASSUME NEW m \in responses, AckResponse(m), UNCHANGED ringVars PROVE Stored'
  <2>1. m.pkt \in Packets /\ m.sw \in Switches /\ m.pkt \notin Timer
    BY DEF rlTypeOK, Origin
  <2>2. \A s \in Switches : highest_replicated'[s] = highest_replicated[s]
                            \/ highest_replicated'[s] = g_idx[m.pkt]
    BY <1>4, <2>1 DEF AckResponse, write_replicated_seq_no, Larger, rlTypeOK
  <2>3. acked' = acked \cup {m.pkt} /\ UNCHANGED <<store, delivered, tail_seq_no>>
    BY <1>4 DEF AckResponse, tailVars
  <2>4. \A s \in Switches : highest_replicated'[s] # 0 =>
          \E p \in acked' \ Timer : g_idx[p] = highest_replicated'[s]
    BY <2>1, <2>2, <2>3 DEF Stored
  <2> QED
    BY <1>2, <1>4, <2>3, <2>4 DEF Stored
<1>5. ASSUME NEW p \in Packets, AckGenerated(p), UNCHANGED ringVars PROVE Stored'
  BY <1>2, <1>5 DEF AckGenerated, tailVars, Stored
<1>6. ASSUME NEW q \in Queries, NEW s \in Switches, TailQuery(q, s), UNCHANGED ringVars
      PROVE  Stored'
  BY <1>2, <1>6 DEF TailQuery, answerVars, Stored
<1>7. ASSUME NEW q \in Queries, TailPass(q), UNCHANGED ringVars PROVE Stored'
  <2>1. query_at[q] \in Switches
    BY DEF rlTypeOK
  <2>2. /\ tail_seq_no'[q] = tail_seq_no[q]
           \/ tail_seq_no'[q] = highest_replicated[query_at[q]]
        /\ \A x \in Queries : x # q => tail_seq_no'[x] = tail_seq_no[x]
    BY <1>7 DEF TailPass, get_tail, Larger, rlTypeOK
  <2> QED
    BY <1>2, <1>7, <2>1, <2>2 DEF TailPass, answerVars, Stored
<1> QED
  BY <1>1, <1>3, <1>4, <1>5, <1>6, <1>7 DEF rlNext, allVars

\* What is stored, on every run with one control packet.
THEOREM LogStored ==
    ASSUME NEW c, Injectors = {c}
    PROVE  rlSpec => []Stored
<1>1. rlInit => Stored
  BY DEF rlInit, Stored
<1>2. rlTypes /\ UniqueIndex /\ Stored /\ [rlNext]_allVars => Stored'
  BY StoredNext
<1> QED
  BY <1>1, <1>2, RingBelow, RingUnique, LogTypes, PTL DEF rlSpec

\* With one control packet, a client that is answered has its entry at its index
\* on some server, although LogStorage::append_server answers when it refuses.
THEOREM LogAckedStored ==
    ASSUME NEW c, Injectors = {c}
    PROVE  rlSpec => []AckedStored
<1>1. rlTypes /\ Stored => AckedStored
  <2> SUFFICES ASSUME rlTypes, Stored, NEW p \in acked \ Timer
               PROVE  \E r \in Replicas : <<g_idx[p], p>> \in store[r]
    BY DEF AckedStored
  <2>1. PICK r \in Replicas : <<p, r>> \in delivered
    BY DEF rlTypes, Origin
  <2> QED
    BY <2>1 DEF Stored
<1> QED
  BY <1>1, LogStored, LogTypes, PTL

\* With one control packet, the entry at the tail a query carries is stored.
THEOREM LogTailStored ==
    ASSUME NEW c, Injectors = {c}
    PROVE  rlSpec => []TailStored
<1>1. rlTypes /\ Stored /\ AckedStored => TailStored
  <2> SUFFICES ASSUME rlTypes, Stored, AckedStored, NEW q \in Queries, tail_seq_no[q] # 0
               PROVE  \E r \in Replicas, p \in Packets : <<tail_seq_no[q], p>> \in store[r]
    BY DEF TailStored
  <2>1. PICK p \in acked \ Timer : g_idx[p] = tail_seq_no[q]
    BY DEF Stored
  <2> QED
    BY <2>1 DEF AckedStored, rlTypes, rlTypeOK
<1> QED
  BY <1>1, LogStored, LogAckedStored, LogTypes, PTL
=============================================================================
