----------------------------- MODULE SoftwareLog -----------------------------
(***************************************************************************)
(* The log with the sequencer in software: clients that append one entry   *)
(* at a time (code/src/pringles_client.cpp), a switch process whose request*)
(* threads number appends from one shared counter and whose response       *)
(* threads count acknowledgements (code/src/pringles_software_switch.cpp), *)
(* and a storage server (code/src/pringles_storage.cpp), all talking UDP.  *)
(*                                                                         *)
(* The constructor of the switch starts only the append threads; without   *)
(* shards every request goes to the first storage server of the list.      *)
(* Messages are delivered in any order; a lost one is never delivered.     *)
(***************************************************************************)
EXTENDS Integers, FiniteSets

CONSTANTS
    Clients,         \* LogClients, each with one thread that appends
    MaxAppends,      \* bound: appends of a client in an experiment
    Threads,         \* append_req_threads, as many as append_resp_threads
    ack_threshold    \* acknowledgements that make an append replicated

ASSUME SoftwareAssumption ==
    /\ IsFiniteSet(Clients)
    /\ MaxAppends \in Nat
    /\ ack_threshold \in Nat \ {0}

VARIABLES
    client,          \* "idle", "waiting" in append(), "ended"
    append_nonce,    \* per client: number of its current or next append
    requests,        \* ETH_APPEND_REQ packets on their way to the switch
    use_store,       \* configured: FALSE if the switch answers without storing
    max_idx,         \* the counter of the switch
    req_buf,         \* per request thread: the append it is numbering, if any
    to_store,        \* packets on their way to the storage server
    stor,            \* concurrent_stor: pairs <<index, append>>
    replies,         \* answers on their way to a response thread
    resp_buf,        \* per response thread: the answer it has to insert, if any
    ack_map,         \* per index: acknowledgements counted, 0 if no entry
    answers,         \* ETH_APPEND_RESP packets on their way to a client
    returned,        \* appends that returned to the caller, with their index
    index,           \* history: the index an append was stamped with, or 0
    preds            \* history: the appends stamped before an append was sent

switchVars == <<use_store, max_idx, req_buf, resp_buf, ack_map>>
clientVars == <<client, append_nonce, returned>>
netVars    == <<requests, to_store, replies, answers>>
history    == <<index, preds>>
softVars   == <<switchVars, clientVars, netVars, stor, history>>

Appends == Clients \X (1 .. MaxAppends)   \* an append: its client and its nonce
Nothing == <<>>
Indices == 1 .. Cardinality(Appends)

\* What travels with a numbered append: itself, its index, and the thread whose
\* socket it was sent from (the storage server answers to the sender).
Packet(a, i, t) == [app |-> a, idx |-> i, th |-> t]
PacketSet == [app : Appends, idx : Indices, th : Threads]

softInit ==
    /\ client = [c \in Clients |-> "idle"]
    /\ append_nonce = [c \in Clients |-> 1]
    /\ requests = {} /\ to_store = {} /\ replies = {} /\ answers = {}
    /\ use_store \in BOOLEAN
    /\ max_idx = 0
    /\ req_buf = [t \in Threads |-> Nothing]
    /\ resp_buf = [t \in Threads |-> Nothing]
    /\ ack_map = [i \in Indices |-> 0]
    /\ stor = {}
    /\ returned = {}
    /\ index = [a \in Appends |-> 0]
    /\ preds = [a \in Appends |-> {}]

-----------------------------------------------------------------------------
(* Clients.                                                                *)

\* append() sends its request and waits.
SendAppend(c) ==
    LET a == <<c, append_nonce[c]>>
    IN  /\ client[c] = "idle" /\ append_nonce[c] <= MaxAppends
        /\ client'   = [client EXCEPT ![c] = "waiting"]
        /\ requests' = requests \cup {a}
        /\ preds'    = [preds EXCEPT ![a] = {b \in Appends : index[b] # 0}]
        /\ UNCHANGED <<append_nonce, returned, to_store, replies, answers, stor,
                       switchVars, index>>

\* append() returns with the answer that carries its nonce, and drops others.
Accepts(c, m) == m.app[2] = append_nonce[c]

ReceiveAnswer(c, m) ==
    /\ m \in answers /\ m.app[1] = c
    /\ answers' = answers \ {m}
    /\ IF client[c] = "waiting" /\ Accepts(c, m)
         THEN /\ client' = [client EXCEPT ![c] = "idle"]
              /\ append_nonce' = [append_nonce EXCEPT ![c] = @ + 1]
              /\ returned' = returned \cup {[app |-> <<c, append_nonce[c]>>, idx |-> m.idx]}
         ELSE UNCHANGED clientVars
    /\ UNCHANGED <<requests, to_store, replies, stor, switchVars, history>>

\* The experiment is over: append() gives up waiting and returns 0.
GiveUp(c) ==
    /\ client[c] = "waiting"
    /\ client' = [client EXCEPT ![c] = "ended"]
    /\ append_nonce' = [append_nonce EXCEPT ![c] = @ + 1]
    /\ UNCHANGED <<returned, netVars, stor, switchVars, history>>

-----------------------------------------------------------------------------
(* Request threads of the switch.                                          *)

\* The counter, one further.
mutIncrementNarrow == (max_idx + 1) % 3
Increment == max_idx + 1

\* One thread receives a request and increments the counter.
Count(t, a) ==
    /\ req_buf[t] = Nothing /\ a \in requests
    /\ requests' = requests \ {a}
    /\ req_buf'  = [req_buf EXCEPT ![t] = a]
    /\ max_idx'  = Increment
    /\ UNCHANGED <<use_store, to_store, replies, answers, resp_buf, ack_map, clientVars,
                   stor, history>>

\* The index of an append is what the counter holds when the thread reads it,
\* in a separate step from the increment.
mutIndexBefore == max_idx - 1
StampIndex == max_idx

\* The thread stamps the append and sends it to the storage server, or, without
\* one, straight back to the client.
Stamp(t) ==
    LET a == req_buf[t]
        m == Packet(a, StampIndex, t)
    IN  /\ a # Nothing
        /\ req_buf' = [req_buf EXCEPT ![t] = Nothing]
        /\ index'   = [index EXCEPT ![a] = StampIndex]
        /\ IF use_store
             THEN to_store' = to_store \cup {m} /\ UNCHANGED answers
             ELSE answers' = answers \cup {m} /\ UNCHANGED to_store
        /\ UNCHANGED <<use_store, requests, replies, max_idx, resp_buf, ack_map, clientVars,
                       stor, preds>>

-----------------------------------------------------------------------------
(* The storage server.                                                     *)

\* store() keeps the first entry of an index.
mutStoreLatest(i, a) ==
    IF \E e \in stor : e[1] >= i THEN stor ELSE stor \cup {<<i, a>>}
store(i, a) == IF \E e \in stor : e[1] = i THEN stor ELSE stor \cup {<<i, a>>}

\* append_server() stores a packet and answers to the port it came from, whether
\* store() inserted it or not.
StoreAppend(m) ==
    /\ m \in to_store
    /\ to_store' = to_store \ {m}
    /\ stor'     = store(m.idx, m.app)
    /\ replies'  = replies \cup {m}
    /\ UNCHANGED <<requests, answers, switchVars, clientVars, history>>

-----------------------------------------------------------------------------
(* Response threads of the switch.                                         *)

\* The batch of answers is sent on: one with enough acknowledgements to its
\* client. Any other one goes back to the socket from which the storage server
\* sent it, where nobody reads, and is lost.
Forward(m, quorum) == answers' = IF quorum THEN answers \cup {m} ELSE answers

mutQuorum(n) == n > ack_threshold
Quorum(n) == n >= ack_threshold

\* A response thread looks its answer's index up; an entry is incremented.
FindAck(t, m) ==
    /\ resp_buf[t] = Nothing /\ m \in replies /\ m.th = t
    /\ replies' = replies \ {m}
    /\ IF ack_map[m.idx] # 0
         THEN /\ ack_map' = [ack_map EXCEPT ![m.idx] = @ + 1]
              /\ Forward(m, Quorum(ack_map[m.idx] + 1))
              /\ UNCHANGED resp_buf
         ELSE /\ resp_buf' = [resp_buf EXCEPT ![t] = m]
              /\ UNCHANGED <<ack_map, answers>>
    /\ UNCHANGED <<use_store, requests, to_store, max_idx, req_buf, clientVars, stor, history>>

\* An index without an entry is inserted with one acknowledgement; if another
\* thread has inserted it meanwhile, this acknowledgement is not counted.
InsertAck(t) ==
    LET m == resp_buf[t]
    IN  /\ m # Nothing
        /\ resp_buf' = [resp_buf EXCEPT ![t] = Nothing]
        /\ IF ack_map[m.idx] = 0
             THEN /\ ack_map' = [ack_map EXCEPT ![m.idx] = 1]
                  /\ Forward(m, Quorum(1))
             ELSE Forward(m, FALSE) /\ UNCHANGED ack_map
        /\ UNCHANGED <<use_store, requests, to_store, replies, max_idx, req_buf, clientVars, stor,
                   history>>

-----------------------------------------------------------------------------
softNext ==
    \/ \E c \in Clients : SendAppend(c) \/ GiveUp(c)
    \/ \E c \in Clients, m \in answers : ReceiveAnswer(c, m)
    \/ \E t \in Threads, a \in requests : Count(t, a)
    \/ \E t \in Threads : Stamp(t) \/ InsertAck(t)
    \/ \E m \in to_store : StoreAppend(m)
    \/ \E t \in Threads, m \in replies : FindAck(t, m)

softSpec == softInit /\ [][softNext]_softVars

\* Threads keep running and messages arrive; no client has to send or give up.
FairSoftSpec ==
    /\ softSpec
    /\ WF_softVars(\E t \in Threads, a \in requests : Count(t, a))
    /\ \A t \in Threads : WF_softVars(Stamp(t)) /\ WF_softVars(InsertAck(t))
    /\ WF_softVars(\E m \in to_store : StoreAppend(m))
    /\ WF_softVars(\E t \in Threads, m \in replies : FindAck(t, m))
    /\ WF_softVars(\E c \in Clients, m \in answers : ReceiveAnswer(c, m))

-----------------------------------------------------------------------------
(* Properties.                                                             *)

\* Every variable keeps to its set.
softTypeOK ==
    /\ client \in [Clients -> {"idle", "waiting", "ended"}]
    /\ append_nonce \in [Clients -> 1 .. MaxAppends + 1]
    /\ requests \subseteq Appends
    /\ use_store \in BOOLEAN
    /\ max_idx \in 0 .. Cardinality(Appends)
    /\ req_buf \in [Threads -> Appends \cup {Nothing}]
    /\ resp_buf \in [Threads -> PacketSet \cup {Nothing}]
    /\ to_store \subseteq PacketSet
    /\ replies \subseteq PacketSet
    /\ answers \subseteq PacketSet
    /\ ack_map \in [Indices -> Nat]
    /\ stor \subseteq Indices \X Appends
    /\ returned \subseteq [app : Appends, idx : Indices]
    /\ index \in [Appends -> 0 .. Cardinality(Appends)]
    /\ preds \in [Appends -> SUBSET Appends]

\* An append that returned an index is the entry that a read of that index
\* finds on the storage server.
ReturnedStored ==
    use_store => \A r \in returned : <<r.idx, r.app>> \in stor

\* The log has no holes: when nothing is on its way, every index that was
\* counted holds an entry.
NoHoles ==
    (/\ use_store
     /\ requests = {} /\ to_store = {}
     /\ \A t \in Threads : req_buf[t] = Nothing)
    => \A i \in 1 .. max_idx : \E a \in Appends : <<i, a>> \in stor

\* Real-time order: an append sent after another one had been stamped, let alone
\* returned, gets a higher index, whichever threads number the two.
RealTimeOrder ==
    \A r \in returned : \A a \in preds[r.app] : index[a] < r.idx

\* An answer is lost only to the race on the counter: with one acknowledgement
\* enough, a client that waits although nothing of its append is on its way any
\* more shares the index of its append with another one (two response threads
\* missed it in ack_map, and only one of them counted: InsertAck).
Unanswered(c) ==
    LET a == <<c, append_nonce[c]>>
    IN /\ client[c] = "waiting"
       /\ a \notin requests
       /\ \A t \in Threads : req_buf[t] # a
       /\ \A t \in Threads : resp_buf[t] # Nothing => resp_buf[t].app # a
       /\ \A m \in to_store \cup replies \cup answers : m.app # a

LostByRace ==
    ack_threshold = 1 =>
        \A c \in Clients : Unanswered(c) =>
            LET a == <<c, append_nonce[c]>>
            IN \E b \in Appends \ {a} : index[b] = index[a]

\* The switch implements the shared log: the counter reserves, a stamp numbers.
Log == INSTANCE SharedLog WITH
         Packets  <- Appends,
         arrived  <- {a \in Appends : \/ a[2] < append_nonce[a[1]]
                                      \/ a[2] = append_nonce[a[1]] /\ client[a[1]] = "waiting"},
         reserved <- max_idx
SoftImplementsLog == Log!logSpec

\* Every append that is sent returns, unless its client gives up.
EventuallyReturns == \A c \in Clients : client[c] = "waiting" ~> client[c] # "waiting"
=============================================================================
