------------------------------ MODULE RingLog ------------------------------
(***************************************************************************)
(* The ring with what follows the numbering of an append: the storage      *)
(* servers of its shard store it and answer (code/src/pringles_storage.cpp)*)
(* a switch holds the answer back until the control packet has covered its *)
(* index and records the index as replicated, and clients ask the ring for *)
(* the tail of the log (code/p4/sequencing/sequencing_only.p4).            *)
(*                                                                         *)
(* Servers and clients talk UDP: a request, an answer or a query that is   *)
(* lost is one that takes no further step.                                 *)
(***************************************************************************)
EXTENDS RingSequencer

CONSTANTS
    Replicas,            \* the storage servers of a shard's multicast group
    Queries              \* tail queries of clients

VARIABLES
    store,               \* per server: pairs <<index, append>> it has stored
    delivered,           \* pairs <<append, server>> the multicast has delivered
    responses,           \* TYPE_APPEND_RESP packets, at the switch that handles them
    acked,               \* appends whose client has been answered
    highest_replicated,  \* per switch: highest_replicated_seq_no
    query,               \* per tail query: "idle", "ring" or "done"
    query_at,            \* the switch that handles it next
    hops,                \* hdr.tail.hops
    tail_seq_no,         \* hdr.tail.tail_seq_no
    floor                \* history: highest index known to be in the log at its start

answerVars == <<store, delivered, responses, acked, highest_replicated>>
tailVars   == <<query, query_at, hops, tail_seq_no, floor>>
logVars    == <<answerVars, tailVars>>
allVars    == <<ringVars, logVars>>

Larger(a, b) == IF a < b THEN b ELSE a

\* The highest number of a finite set of naturals, 0 if it is empty.
Highest(S) == IF S = {} THEN 0 ELSE CHOOSE i \in S : \A j \in S : j <= i

rlInit ==
    /\ ringInit
    /\ store = [r \in Replicas |-> {}]
    /\ delivered = {}
    /\ responses = {}
    /\ acked = {}
    /\ highest_replicated = [s \in Switches |-> 0]
    /\ query = [q \in Queries |-> "idle"]
    /\ query_at = [q \in Queries |-> 0]
    /\ hops = [q \in Queries |-> 0]
    /\ tail_seq_no = [q \in Queries |-> 0]
    /\ floor = [q \in Queries |-> 0]

-----------------------------------------------------------------------------
(* Storage and answers.                                                    *)

\* A storage server keeps the first entry it gets for an index.
mutPutNewest(r, i, p) ==
    IF \E e \in store[r] : e[1] >= i THEN store[r] ELSE store[r] \cup {<<i, p>>}
Put(r, i, p) ==
    IF \E e \in store[r] : e[1] = i THEN store[r] ELSE store[r] \cup {<<i, p>>}

\* Server r stores an append and answers, whether it has stored it or not
\* (LogStorage::append_server ignores what store returns).  The answer comes
\* into the ring at the switch s the server is attached to.
StoreAppend(p, r, s) ==
    /\ stage[p] = "shard"
    /\ <<p, r>> \notin delivered
    /\ delivered' = delivered \cup {<<p, r>>}
    /\ store'     = [store EXCEPT ![r] = Put(r, g_idx[p], p)]
    /\ responses' = responses \cup {[pkt |-> p, sw |-> s]}
    /\ UNCHANGED <<acked, highest_replicated, tailVars>>

\* An index is covered once the map's current entry has reached it: that is
\* so when the control packet came by and found the open batch empty.
mutCompareNone(s, i)   == TRUE
mutCompareStrict(s, i) == i < map_from_gsn[s][cntrl_pkt_it[s]]
compare_gsn(s, i) == i <= map_from_gsn[s][cntrl_pkt_it[s]]

mutReplicatedLast(s, i) == [highest_replicated EXCEPT ![s] = i]
write_replicated_seq_no(s, i) == [highest_replicated EXCEPT ![s] = Larger(@, i)]

\* An answer that is covered is forwarded to the client and recorded; the
\* acknowledgement count does not matter (check_ack always yields 1).  One that
\* is not goes round the loopback port, with no effect.
AckResponse(m) ==
    /\ m \in responses
    /\ compare_gsn(m.sw, g_idx[m.pkt])
    /\ responses' = responses \ {m}
    /\ acked'     = acked \cup {m.pkt}
    /\ highest_replicated' = write_replicated_seq_no(m.sw, g_idx[m.pkt])
    /\ UNCHANGED <<store, delivered, tailVars>>

\* A generated append is its own answer: it turns into one in the loop of its
\* switch, and is only counted when it is covered.
AckGenerated(p) ==
    /\ stage[p] = "resp" /\ p \notin acked
    /\ compare_gsn(at[p], g_idx[p])
    /\ acked' = acked \cup {p}
    /\ UNCHANGED <<store, delivered, responses, highest_replicated, tailVars>>

-----------------------------------------------------------------------------
(* The reply to a view-change request.                                     *)

\* The request is answered at once, from the base of the last closed batch.
mutLatestOpen(s) == cntrl_pkt_it[s]
latest_complete_cntrl_pkt_it(s) ==
    IF cntrl_pkt_it[s] = 0 THEN MAX_GSN_MAP_SIZE ELSE cntrl_pkt_it[s] - 1
highest_seen_seq_no(s) == map_from_gsn[s][latest_complete_cntrl_pkt_it(s)]

-----------------------------------------------------------------------------
(* The tail.                                                               *)

\* The highest index that clients have been told of: by an answer, or as a tail.
KnownInLog ==
    Highest({g_idx[p] : p \in acked \ Timer} \cup
            {tail_seq_no[q] : q \in {x \in Queries : query[x] = "done"}})

\* A client's query reaches switch s, with hops and number 0.
TailQuery(q, s) ==
    /\ query[q] = "idle"
    /\ query'    = [query EXCEPT ![q] = "ring"]
    /\ query_at' = [query_at EXCEPT ![q] = s]
    /\ floor'    = [floor EXCEPT ![q] = KnownInLog]
    /\ UNCHANGED <<hops, tail_seq_no, answerVars>>

\* The number a query takes from switch s: the switch's, if that is higher.
mutGetTailAssigned(s, i) == Larger(i, seen_gsn[s])
get_tail(s, i) == Larger(i, highest_replicated[s])

\* process_tail forwards a query that has made 0 .. N - 1 hops, others return.
Forwards(h) == h < N

TailPass(q) ==
    LET s == query_at[q]
    IN  /\ query[q] = "ring"
        /\ tail_seq_no' = [tail_seq_no EXCEPT ![q] = get_tail(s, @)]
        /\ IF Forwards(hops[q])
             THEN /\ hops' = [hops EXCEPT ![q] = @ + 1]
                  /\ query_at' = [query_at EXCEPT ![q] = NextSwitch(s)]
                  /\ UNCHANGED query
             ELSE /\ query' = [query EXCEPT ![q] = "done"]
                  /\ UNCHANGED <<hops, query_at>>
        /\ UNCHANGED <<floor, answerVars>>

-----------------------------------------------------------------------------
rlNext ==
    \/ ringNext /\ UNCHANGED logVars
    \/ \E p \in Packets, r \in Replicas, s \in Switches :
         StoreAppend(p, r, s) /\ UNCHANGED ringVars
    \/ \E m \in responses : AckResponse(m) /\ UNCHANGED ringVars
    \/ \E p \in Packets : AckGenerated(p) /\ UNCHANGED ringVars
    \/ \E q \in Queries, s \in Switches : TailQuery(q, s) /\ UNCHANGED ringVars
    \/ \E q \in Queries : TailPass(q) /\ UNCHANGED ringVars

rlSpec == rlInit /\ [][rlNext]_allVars

\* The control plane starts, the control packet keeps moving, and the loopback
\* port keeps serving its queue; servers answer what reaches them, and answers
\* keep moving through the ring.
rlFairness ==
    /\ \A c \in Injectors :
         /\ WF_allVars(InjectToken(c) /\ UNCHANGED logVars)
         /\ WF_allVars(CntrlPacket(c) /\ RecirculationKeepsUp(c) /\ UNCHANGED logVars)
    /\ \A p \in Packets :
         /\ WF_allVars(Recirculate(p) /\ UNCHANGED logVars)
         /\ WF_allVars(\E r \in Replicas, s \in Switches :
                         StoreAppend(p, r, s) /\ UNCHANGED ringVars)
         /\ WF_allVars(\E m \in responses :
                         m.pkt = p /\ AckResponse(m) /\ UNCHANGED ringVars)
         /\ WF_allVars(AckGenerated(p) /\ UNCHANGED ringVars)

-----------------------------------------------------------------------------
(* Properties.                                                             *)

\* Every variable keeps to its set.
rlTypeOK ==
    /\ ringTypeOK
    /\ store \in [Replicas -> SUBSET (Nat \X Packets)]
    /\ delivered \subseteq Packets \X Replicas
    /\ responses \subseteq [pkt : Packets, sw : Switches]
    /\ acked \subseteq Packets
    /\ highest_replicated \in [Switches -> Nat]
    /\ query \in [Queries -> {"idle", "ring", "done"}]
    /\ query_at \in [Queries -> Switches]
    /\ hops \in [Queries -> 0 .. N]
    /\ tail_seq_no \in [Queries -> Nat]
    /\ floor \in [Queries -> Nat]

\* A client is answered only when its entry is what a read of its index returns
\* from some storage server of the shard, for ever.
AckedStored ==
    \A p \in acked \ Timer : \E r \in Replicas : <<g_idx[p], p>> \in store[r]

\* An answer passes a switch only after the control packet has told that switch
\* of the index: no stale entry that an earlier lap of the iteration counter left
\* in the map, and no entry of a batch that is still open, lets it through.
AnswersCovered ==
    \A s \in Switches : highest_replicated[s] <= seen_gsn[s]

\* The tail a client gets is at least every index that some client had been
\* told of, by an answer or as a tail, before the query started: it goes past
\* the switch that recorded the index, whichever that is.
TailCovers == \A q \in Queries : query[q] = "done" => tail_seq_no[q] >= floor[q]

\* A tail is never ahead of the answers: the entry at the tail is stored.
TailStored ==
    \A q \in Queries :
      tail_seq_no[q] # 0 =>
        \E r \in Replicas, p \in Packets : <<tail_seq_no[q], p>> \in store[r]

\* What a switch would report to a view change never goes back, although first
\* passes clear entries of the map that it is read from and later laps of the
\* iteration counter write them again (get_gsn with start_view).
ReportsGrow ==
    [][\A s \in Switches : highest_seen_seq_no(s)' >= highest_seen_seq_no(s)]_allVars

\* Every append that reaches its shard is answered once the control packet comes
\* round to a switch whose batch is empty; only the loss of the control packet
\* keeps an answer from its client for ever.
EventuallyAcked ==
    \A p \in Packets : stage[p] = "shard" ~> p \in acked \/ TokenLost

\* Every append that reached a switch leaves it for its shard, or is dropped: the
\* control packet comes back and its iteration ends.  A generated one then waits
\* at the switch until the control packet has found the batch there empty.
EventuallyLeaves ==
    \A p \in Packets :
      stage[p] = "loop" ~>
        stage[p] \in {"shard", "unrouted", "lost"} \/ p \in acked \/ TokenLost

\* What highest_replicated_seq_no stands for: the index is replicated, that is,
\* every server of the multicast group has the entry.
TailReplicated ==
    \A s \in Switches : highest_replicated[s] # 0 =>
      \A r \in Replicas : \E p \in Packets : <<highest_replicated[s], p>> \in store[r]

=============================================================================
