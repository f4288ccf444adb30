-------------------------- MODULE SoftwareLog_proofs --------------------------
(***************************************************************************)
(* Proofs about SoftwareLog, for any clients, appends and acknowledgement  *)
(* threshold: order for any number of threads, the rest for one thread.    *)
(***************************************************************************)
EXTENDS SoftwareLog, FiniteSetTheorems, TLAPS

\* An append is a pair of its client and its nonce, and not an empty buffer.
LEMMA AppendIs ==
    /\ \A a \in Appends : a # Nothing
    /\ \A c \in Clients, n \in 1 .. MaxAppends : <<c, n>> \in Appends
    /\ \A a \in Appends : /\ a[1] \in Clients /\ a[2] \in 1 .. MaxAppends
                          /\ a = <<a[1], a[2]>>
BY DEF Appends, Nothing

\* There are finitely many appends.
LEMMA AppendsFinite == IsFiniteSet(Appends) /\ Cardinality(Appends) \in Nat
<1>1. IsFiniteSet(1 .. MaxAppends)
  BY FS_Interval, SoftwareAssumption
<1>2. IsFiniteSet(Appends)
  BY <1>1, FS_Product, SoftwareAssumption DEF Appends
<1> QED
  BY <1>2, FS_CardinalityType

\* The appends that have been sent, and those that have been counted.
Sent(a) == \/ a[2] < append_nonce[a[1]]
           \/ a[2] = append_nonce[a[1]] /\ client[a[1]] = "waiting"
Holds(t, a) == req_buf[t] = a
Counted == {a \in Appends : index[a] # 0 \/ \E t \in Threads : Holds(t, a)}

\* An append is requested, then held by one thread, then stamped, once.
Once ==
    /\ \A c \in Clients : client[c] = "waiting" => append_nonce[c] <= MaxAppends
    /\ \A a \in requests : Sent(a) /\ a \notin Counted
    /\ \A t \in Threads : \A a \in Appends : Holds(t, a) =>
         /\ Sent(a) /\ index[a] = 0
         /\ \A u \in Threads : Holds(u, a) => u = t
    /\ \A a \in Appends : index[a] # 0 => Sent(a)
    /\ max_idx = Cardinality(Counted)

\* No index is above the counter, and the counter passed the index of every append
\* that another one has to follow before that one is stamped.
Following ==
    /\ \A a \in Appends : index[a] <= max_idx
    /\ \A a \in Appends : \A b \in preds[a] :
         /\ index[b] # 0
         /\ index[a] # 0 => index[b] < index[a]
         /\ \A t \in Threads : Holds(t, a) => index[b] < max_idx

\* A message carries the index of its append.
Carried(m) == m.idx # 0 /\ m.idx = index[m.app]
Carriers ==
    /\ \A m \in to_store \cup replies \cup answers : Carried(m)
    /\ \A t \in Threads : resp_buf[t] # Nothing => Carried(resp_buf[t])
    /\ \A r \in returned : Carried(r)

softInv == Once /\ Following /\ Carriers

\* Initially nothing has been sent.
LEMMA SoftTypeInit == softInit => softTypeOK
<1> SUFFICES ASSUME softInit PROVE softTypeOK
  OBVIOUS
<1>1. 1 \in 1 .. MaxAppends + 1 /\ 0 \in 0 .. Cardinality(Appends)
  BY SoftwareAssumption, AppendsFinite
<1> QED
  BY <1>1 DEF softInit, softTypeOK

\* and no append has an index.
LEMMA SoftInvInit == softInit => softInv
<1> SUFFICES ASSUME softInit PROVE softInv
  OBVIOUS
<1>1. Counted = {}
  BY AppendIs DEF softInit, Counted, Holds
<1>2. Once
  BY <1>1, AppendIs, FS_EmptySet DEF softInit, Once, Holds
<1>3. Following
  BY AppendIs DEF softInit, Following
<1>4. Carriers
  BY DEF softInit, Carriers
<1> QED
  BY <1>2, <1>3, <1>4 DEF softInv

-----------------------------------------------------------------------------
(* Steps that number nothing.                                              *)

\* What has been counted is as much as the counter says, and fits.
LEMMA CountedSize ==
    ASSUME softTypeOK, Once
    PROVE  /\ max_idx \in 0 .. Cardinality(Appends)
           /\ Counted # {} => max_idx # 0
           /\ \A a \in Appends \ Counted :
                /\ Cardinality(Counted \cup {a}) = max_idx + 1
                /\ max_idx + 1 \in 1 .. Cardinality(Appends)
<1>1. IsFiniteSet(Counted) /\ Counted \in SUBSET Appends
  BY AppendsFinite, FS_Subset DEF Counted
<1>2. Counted # {} => max_idx # 0
  BY <1>1, FS_EmptySet DEF Once
<1>3. ASSUME NEW a \in Appends \ Counted
      PROVE  /\ Cardinality(Counted \cup {a}) = max_idx + 1
             /\ max_idx + 1 \in 1 .. Cardinality(Appends)
  <2>1. Cardinality(Counted \cup {a}) = max_idx + 1
    BY <1>1, FS_AddElement DEF Once
  <2>2. Cardinality(Counted \cup {a}) <= Cardinality(Appends)
    BY <1>1, AppendsFinite, FS_Subset
  <2>3. max_idx \in Nat
    BY AppendsFinite DEF softTypeOK
  <2> QED
    BY <2>1, <2>2, <2>3, AppendsFinite
<1> QED
  BY <1>2, <1>3 DEF softTypeOK

\* A step that neither sends, counts nor stamps leaves the numbering as it is.
LEMMA NumbersStay ==
    ASSUME softInv, UNCHANGED <<index, preds, req_buf, max_idx, requests>>,
           requests \subseteq Appends,
           \A a \in Appends : Sent(a) => Sent(a)',
           \A c \in Clients : client'[c] = "waiting" => append_nonce'[c] <= MaxAppends
    PROVE  Once' /\ Following'
<1>1. Counted' = Counted /\ \A t \in Threads, a \in Appends : Holds(t, a)' = Holds(t, a)
  BY DEF Counted, Holds
<1>2. Once'
  BY <1>1 DEF softInv, Once, Holds
<1>3. Following'
  BY <1>1 DEF softInv, Following
<1> QED
  BY <1>2, <1>3

\* An answer that returns, a client that gives up: an append stays sent.
LEMMA ClientStep ==
    ASSUME softTypeOK, softInv, NEW c \in Clients,
           GiveUp(c) \/ \E m \in answers : ReceiveAnswer(c, m)
    PROVE  softTypeOK' /\ softInv' /\ \A a \in Appends : Sent(a) <=> Sent(a)'
<1>1. UNCHANGED <<index, preds, req_buf, max_idx, requests, to_store, replies, resp_buf,
                  use_store, ack_map, stor>>
  BY DEF GiveUp, ReceiveAnswer, switchVars, netVars, history
<1>2. answers' \subseteq answers
  BY DEF GiveUp, ReceiveAnswer, netVars
<1>3. \/ UNCHANGED clientVars
      \/ /\ client[c] = "waiting"
         /\ append_nonce' = [append_nonce EXCEPT ![c] = @ + 1]
         /\ client' = [client EXCEPT ![c] = "idle"] \/ client' = [client EXCEPT ![c] = "ended"]
         /\ \/ returned' = returned
            \/ \E m \in answers :
                 /\ m.app[1] = c /\ m.app[2] = append_nonce[c]
                 /\ returned' = returned \cup {[app |-> <<c, append_nonce[c]>>, idx |-> m.idx]}
  BY DEF GiveUp, ReceiveAnswer, Accepts
<1>4. /\ append_nonce[c] \in 1 .. MaxAppends + 1 /\ MaxAppends \in Nat
      /\ client[c] = "waiting" => append_nonce[c] \in 1 .. MaxAppends
  BY SoftwareAssumption DEF softTypeOK, softInv, Once
<1>5. \A r \in returned' : /\ r \in [app : Appends, idx : Indices]
                           /\ r.idx # 0 /\ r.idx = index[r.app]
  <2>1. \A r \in returned : /\ r \in [app : Appends, idx : Indices]
                            /\ r.idx # 0 /\ r.idx = index[r.app]
    BY DEF softTypeOK, Carried, softInv, Carriers
  <2>2. ASSUME NEW m \in answers, m.app[1] = c, m.app[2] = append_nonce[c]
        PROVE  /\ <<c, append_nonce[c]>> \in Appends /\ m.idx \in Indices
               /\ m.idx # 0 /\ m.idx = index[<<c, append_nonce[c]>>]
    <3>1. m.app \in Appends /\ m.idx \in Indices /\ Carried(m)
      BY DEF softTypeOK, PacketSet, softInv, Carriers
    <3>2. m.app = <<c, append_nonce[c]>>
      BY <2>2, <3>1, AppendIs
    <3> QED
      BY <3>1, <3>2 DEF Carried
  <2>3. CASE returned' = returned
    BY <2>1, <2>3
  <2>4. ASSUME NEW m \in answers, m.app[1] = c, m.app[2] = append_nonce[c],
               returned' = returned \cup {[app |-> <<c, append_nonce[c]>>, idx |-> m.idx]},
               NEW r \in returned'
        PROVE  r \in [app : Appends, idx : Indices] /\ r.idx # 0 /\ r.idx = index[r.app]
    <3>1. CASE r \in returned
      BY <2>1, <3>1
    <3>2. CASE r = [app |-> <<c, append_nonce[c]>>, idx |-> m.idx]
      BY <2>2, <2>4, <3>2
    <3> QED
      BY <2>4, <3>1, <3>2
  <2> QED
    BY <1>3, <2>3, <2>4 DEF clientVars
<1>6. client' \in [Clients -> {"idle", "waiting", "ended"}]
      /\ append_nonce' \in [Clients -> 1 .. MaxAppends + 1]
  <2>1. CASE UNCHANGED clientVars
    BY <2>1 DEF clientVars, softTypeOK
  <2>2. CASE ~UNCHANGED clientVars
    <3>1. append_nonce[c] + 1 \in 1 .. MaxAppends + 1
      BY <1>3, <1>4, <2>2
    <3>2. append_nonce' = [append_nonce EXCEPT ![c] = append_nonce[c] + 1]
      BY <1>3, <2>2
    <3>3. client' \in [Clients -> {"idle", "waiting", "ended"}]
      BY <1>3, <2>2 DEF softTypeOK
    <3> QED
      BY <3>1, <3>2, <3>3 DEF softTypeOK
  <2> QED
    BY <2>1, <2>2
<1>7. softTypeOK'
  BY <1>1, <1>2, <1>5, <1>6 DEF softTypeOK
<1>8. \A a \in Appends : Sent(a) <=> Sent(a)'
  BY <1>3, <1>4, AppendIs DEF clientVars, Sent, softTypeOK
<1>9. \A d \in Clients : client'[d] = "waiting" => append_nonce'[d] <= MaxAppends
  BY <1>3 DEF clientVars, softTypeOK, softInv, Once
<1>10. Once' /\ Following'
  BY <1>1, <1>8, <1>9, NumbersStay DEF softTypeOK
<1>11. Carriers'
  BY <1>1, <1>2, <1>5 DEF Carried, softInv, Carriers, softTypeOK
<1> QED
  BY <1>7, <1>8, <1>10, <1>11 DEF softInv

\* A step of the storage server or of a response thread passes messages on.
LEMMA AnswerStep ==
    ASSUME softTypeOK, softInv,
           \/ \E m \in to_store : StoreAppend(m)
           \/ \E t \in Threads, m \in replies : FindAck(t, m)
           \/ \E t \in Threads : InsertAck(t)
    PROVE  softTypeOK' /\ softInv'
<1>1. UNCHANGED <<index, preds, req_buf, max_idx, requests, client, append_nonce, returned,
                  use_store>>
  BY DEF StoreAppend, FindAck, InsertAck, switchVars, clientVars, history
<1>2. Once' /\ Following'
  BY <1>1, NumbersStay DEF softTypeOK, softInv, Once, Sent
<1>3. ASSUME NEW m \in to_store, StoreAppend(m) PROVE softTypeOK' /\ Carriers'
  <2>1. m \in PacketSet /\ m.idx \in Indices /\ m.app \in Appends
    BY DEF softTypeOK, PacketSet
  <2>2. stor' \subseteq Indices \X Appends
    BY <1>3, <2>1 DEF StoreAppend, store, softTypeOK
  <2>3. /\ to_store' \subseteq to_store /\ replies' \subseteq replies \cup {m}
        /\ UNCHANGED <<answers, resp_buf, ack_map>>
    BY <1>3 DEF StoreAppend, switchVars
  <2> QED
    BY <1>1, <2>1, <2>2, <2>3 DEF softTypeOK, softInv, Carriers, Carried
<1>4. ASSUME NEW m \in PacketSet, Carried(m), NEW quorum, Forward(m, quorum),
             to_store' = to_store
      PROVE  /\ to_store' \subseteq PacketSet /\ answers' \subseteq PacketSet
             /\ \A x \in to_store' \cup answers' : Carried(x)'
  <2>1. answers' \subseteq answers \cup {m}
    BY <1>4 DEF Forward
  <2> QED
    BY <1>1, <1>4, <2>1 DEF softTypeOK, softInv, Carriers, Carried
<1>5. ASSUME NEW t \in Threads, NEW m \in replies, FindAck(t, m) PROVE softTypeOK' /\ Carriers'
  <2>1. m \in PacketSet /\ m.idx \in Indices /\ Carried(m)
    BY DEF softTypeOK, PacketSet, softInv, Carriers
  <2>2. /\ replies' \subseteq replies /\ UNCHANGED <<stor, to_store>>
        /\ ack_map' = ack_map \/ ack_map' = [ack_map EXCEPT ![m.idx] = @ + 1]
        /\ resp_buf' = resp_buf \/ resp_buf' = [resp_buf EXCEPT ![t] = m]
    BY <1>5 DEF FindAck
  <2>3. ack_map' \in [Indices -> Nat] /\ resp_buf' \in [Threads -> PacketSet \cup {Nothing}]
    BY <2>1, <2>2 DEF softTypeOK
  <2>4. /\ to_store' \subseteq PacketSet /\ answers' \subseteq PacketSet
        /\ \A x \in to_store' \cup answers' : Carried(x)'
    <3>1. CASE UNCHANGED answers
      BY <1>1, <2>2, <3>1 DEF softTypeOK, softInv, Carriers, Carried
    <3>2. CASE Forward(m, Quorum(ack_map[m.idx] + 1))
      BY <1>4, <2>1, <2>2, <3>2
    <3> QED
      BY <1>5, <3>1, <3>2 DEF FindAck
  <2>5. softTypeOK'
    BY <1>1, <2>2, <2>3, <2>4 DEF softTypeOK
  <2>6. Carriers'
    BY <1>1, <2>1, <2>2, <2>4 DEF softTypeOK, softInv, Carriers, Carried
  <2> QED
    BY <2>5, <2>6
<1>6. ASSUME NEW t \in Threads, InsertAck(t) PROVE softTypeOK' /\ Carriers'
  <2> DEFINE m == resp_buf[t]
  <2>1. m \in PacketSet /\ m.idx \in Indices /\ Carried(m)
    BY <1>6 DEF InsertAck, softTypeOK, PacketSet, softInv, Carriers
  <2>2. /\ UNCHANGED <<replies, to_store, stor>>
        /\ ack_map' = ack_map \/ ack_map' = [ack_map EXCEPT ![m.idx] = 1]
        /\ resp_buf' = [resp_buf EXCEPT ![t] = Nothing]
    BY <1>6 DEF InsertAck
  <2>3. ack_map' \in [Indices -> Nat] /\ resp_buf' \in [Threads -> PacketSet \cup {Nothing}]
    BY <2>1, <2>2 DEF softTypeOK
  <2>4. /\ to_store' \subseteq PacketSet /\ answers' \subseteq PacketSet
        /\ \A x \in to_store' \cup answers' : Carried(x)'
    <3>1. CASE Forward(m, Quorum(1))
      BY <1>4, <2>1, <2>2, <3>1
    <3>2. CASE Forward(m, FALSE)
      BY <1>4, <2>1, <2>2, <3>2
    <3> QED
      BY <1>6, <3>1, <3>2 DEF InsertAck
  <2>5. softTypeOK'
    BY <1>1, <2>2, <2>3, <2>4 DEF softTypeOK
  <2>6. Carriers'
    BY <1>1, <2>2, <2>4 DEF softTypeOK, softInv, Carriers, Carried
  <2> QED
    BY <2>5, <2>6
<1> QED
  BY <1>2, <1>3, <1>5, <1>6 DEF softInv

-----------------------------------------------------------------------------
(* Sending, counting and stamping.                                         *)

\* A client sends a new append, which follows everything that has an index.
LEMMA SendStep ==
    ASSUME softTypeOK, softInv, NEW c \in Clients, SendAppend(c)
    PROVE  softTypeOK' /\ softInv'
<1> DEFINE a == <<c, append_nonce[c]>>
<1>1. /\ client[c] = "idle" /\ append_nonce[c] \in 1 .. MaxAppends /\ a \in Appends
      /\ a[1] = c /\ a[2] = append_nonce[c]
  BY SoftwareAssumption, AppendIs DEF SendAppend, softTypeOK
<1>2. /\ client' = [client EXCEPT ![c] = "waiting"] /\ requests' = requests \cup {a}
      /\ preds' = [preds EXCEPT ![a] = {b \in Appends : index[b] # 0}]
      /\ UNCHANGED <<append_nonce, returned, to_store, replies, answers, stor, use_store,
                     max_idx, req_buf, resp_buf, ack_map, index>>
  BY DEF SendAppend, switchVars
<1>3. softTypeOK'
  BY <1>1, <1>2 DEF softTypeOK
<1>4. ~Sent(a)
  BY <1>1 DEF Sent
<1>5. a \notin requests /\ a \notin Counted
  BY <1>1, <1>4 DEF softInv, Once, Counted, Holds
<1>6. \A b \in Appends : Sent(b) => Sent(b)'
  BY <1>2, AppendIs DEF Sent, softTypeOK
<1>7. Sent(a)'
  BY <1>1, <1>2 DEF Sent, softTypeOK
<1>8. Counted' = Counted /\ \A t \in Threads, b \in Appends : Holds(t, b)' = Holds(t, b)
  BY <1>2 DEF Counted, Holds
<1>9. Once'
  <2>1. \A d \in Clients : client'[d] = "waiting" => append_nonce'[d] <= MaxAppends
    BY <1>1, <1>2 DEF softTypeOK, softInv, Once
  <2>2. \A b \in requests' : Sent(b)' /\ b \notin Counted'
    BY <1>2, <1>5, <1>6, <1>7, <1>8 DEF softTypeOK, softInv, Once
  <2> QED
    BY <1>2, <1>6, <1>8, <2>1, <2>2 DEF softInv, Once
<1>10. Following'
  BY <1>1, <1>2, <1>5, <1>8 DEF softTypeOK, softInv, Following, Counted
<1>11. Carriers'
  BY <1>2 DEF softInv, Carriers, Carried
<1> QED
  BY <1>3, <1>9, <1>10, <1>11 DEF softInv

\* A thread takes a request and counts it.
LEMMA CountStep ==
    ASSUME softTypeOK, softInv, NEW t \in Threads, NEW a \in requests, Count(t, a)
    PROVE  softTypeOK' /\ softInv' /\ max_idx' = max_idx + 1
<1>1. a \in Appends /\ a \notin Counted /\ Sent(a) /\ req_buf[t] = Nothing
  BY DEF Count, softTypeOK, softInv, Once
<1>2. /\ requests' = requests \ {a} /\ req_buf' = [req_buf EXCEPT ![t] = a]
      /\ max_idx' = max_idx + 1
      /\ UNCHANGED <<client, append_nonce, returned, to_store, replies, answers, stor,
                     use_store, resp_buf, ack_map, index, preds>>
  BY DEF Count, Increment, clientVars, history
<1>3. /\ max_idx' \in 1 .. Cardinality(Appends) /\ max_idx \in Nat
      /\ Cardinality(Counted \cup {a}) = max_idx'
  BY <1>1, <1>2, CountedSize, AppendsFinite DEF softInv, softTypeOK
<1>4. softTypeOK'
  BY <1>1, <1>2, <1>3, AppendsFinite DEF softTypeOK
<1>5. \A u \in Threads, b \in Appends : Holds(u, b)' <=> Holds(u, b) \/ (u = t /\ b = a)
  BY <1>1, <1>2, AppendIs DEF Holds, softTypeOK
<1>6. Counted' = Counted \cup {a}
  BY <1>1, <1>2, <1>5 DEF Counted
<1>7. \A b \in Appends : Sent(b)' = Sent(b)
  BY <1>2 DEF Sent
<1>8. \A u \in Threads : ~Holds(u, a) /\ index[a] = 0
  BY <1>1 DEF Counted
<1>9. Once'
  <2>1. \A b \in requests' : Sent(b)' /\ b \notin Counted'
    BY <1>2, <1>6, <1>7 DEF softTypeOK, softInv, Once
  <2>2. \A u \in Threads : \A b \in Appends : Holds(u, b)' =>
          /\ Sent(b)' /\ index'[b] = 0
          /\ \A v \in Threads : Holds(v, b)' => v = u
    BY <1>1, <1>2, <1>5, <1>7, <1>8 DEF softInv, Once
  <2>3. max_idx' = Cardinality(Counted')
    BY <1>3, <1>6
  <2> QED
    BY <1>2, <1>7, <2>1, <2>2, <2>3 DEF softInv, Once
<1>10. Following'
  <2>1. \A b \in Appends : index[b] \in Nat /\ preds[b] \subseteq Appends
    BY AppendsFinite DEF softTypeOK
  <2> QED
    BY <1>2, <1>3, <1>5, <2>1 DEF softInv, Following
<1>11. Carriers'
  BY <1>2 DEF softInv, Carriers, Carried
<1> QED
  BY <1>2, <1>4, <1>9, <1>10, <1>11 DEF softInv

\* A thread stamps the append it holds with what the counter holds by then.
LEMMA StampStep ==
    ASSUME softTypeOK, softInv, NEW t \in Threads, Stamp(t)
    PROVE  softTypeOK' /\ softInv'
<1> DEFINE a == req_buf[t]
           m == Packet(a, max_idx, t)
<1>1. a \in Appends /\ Holds(t, a) /\ index[a] = 0 /\ Sent(a) /\ a \in Counted
  BY DEF Stamp, Holds, softTypeOK, softInv, Once, Counted
<1>2. /\ req_buf' = [req_buf EXCEPT ![t] = Nothing] /\ index' = [index EXCEPT ![a] = max_idx]
      /\ UNCHANGED <<use_store, requests, replies, max_idx, resp_buf, ack_map, client,
                     append_nonce, returned, stor, preds>>
      /\ to_store' \subseteq to_store \cup {m} /\ answers' \subseteq answers \cup {m}
  BY DEF Stamp, StampIndex, clientVars
<1>3. max_idx \in 1 .. Cardinality(Appends) /\ max_idx \in Nat
  BY <1>1, CountedSize, AppendsFinite DEF softInv
<1>4. m \in PacketSet /\ m.app = a /\ m.idx = max_idx
  BY <1>1, <1>3 DEF Packet, PacketSet, Indices
<1>5. softTypeOK'
  BY <1>1, <1>2, <1>3, <1>4 DEF softTypeOK
<1>6. \A u \in Threads, b \in Appends : Holds(u, b)' <=> Holds(u, b) /\ b # a
  BY <1>1, <1>2, AppendIs DEF Holds, softTypeOK, softInv, Once
<1>7. /\ index'[a] = max_idx /\ max_idx # 0
      /\ \A b \in Appends : b # a => index'[b] = index[b]
  BY <1>1, <1>2, <1>3 DEF softTypeOK
<1>8. Counted' = Counted
  BY <1>1, <1>6, <1>7 DEF Counted
<1>9. \A b \in Appends : Sent(b)' = Sent(b)
  BY <1>2 DEF Sent
<1>10. Once'
  <2>1. \A b \in requests' : Sent(b)' /\ b \notin Counted'
    BY <1>2, <1>8, <1>9 DEF softTypeOK, softInv, Once
  <2>2. \A u \in Threads : \A b \in Appends : Holds(u, b)' =>
          /\ Sent(b)' /\ index'[b] = 0
          /\ \A v \in Threads : Holds(v, b)' => v = u
    BY <1>6, <1>7, <1>9 DEF softInv, Once
  <2>3. \A b \in Appends : index'[b] # 0 => Sent(b)'
    BY <1>1, <1>7, <1>9 DEF softInv, Once
  <2> QED
    BY <1>2, <1>8, <2>1, <2>2, <2>3 DEF softInv, Once
<1>11. Following'
  <2>1. \A b \in Appends : index[b] \in Nat /\ preds[b] \subseteq Appends
    BY AppendsFinite DEF softTypeOK
  <2>2. \A b \in Appends : index'[b] <= max_idx
    BY <1>3, <1>7 DEF softInv, Following
  <2>3. \A x \in Appends : \A b \in preds[x] : index[b] # 0 /\ b # a
    BY <1>1 DEF softInv, Following
  <2>4. \A b \in preds[a] : index[b] < max_idx
    BY <1>1 DEF softInv, Following
  <2>5. ASSUME NEW x \in Appends, NEW b \in preds[x]
        PROVE  /\ index'[b] # 0
               /\ index'[x] # 0 => index'[b] < index'[x]
               /\ \A u \in Threads : Holds(u, x)' => index'[b] < max_idx
    <3>1. b \in Appends /\ index'[b] = index[b] /\ index[b] # 0
      BY <1>7, <2>1, <2>3
    <3> QED
      BY <1>6, <1>7, <2>4, <3>1 DEF softInv, Following
  <2> QED
    BY <1>2, <2>2, <2>5 DEF Following
<1>12. Carriers'
  <2> DEFINE Told(n) == n.idx # 0 /\ n.idx = index'[n.app]
  <2>1. Told(m)
    BY <1>4, <1>7
  <2>2. ASSUME NEW n, n.app \in Appends, Carried(n) PROVE Told(n)
    BY <1>1, <1>7, <2>2 DEF Carried
  <2>3. \A n \in PacketSet : n.app \in Appends
    BY DEF PacketSet
  <2>4. \A n \in to_store \cup replies \cup answers : Told(n)
    BY <2>2, <2>3 DEF softTypeOK, softInv, Carriers
  <2>5. \A n \in to_store' \cup replies' \cup answers' : Told(n)
    BY <1>2, <2>1, <2>4
  <2>6. \A u \in Threads : resp_buf[u] # Nothing => Told(resp_buf[u])
    BY <2>2, <2>3 DEF softTypeOK, softInv, Carriers
  <2>7. \A r \in returned : Told(r)
    BY <2>2 DEF softTypeOK, softInv, Carriers
  <2> QED
    BY <1>2, <2>5, <2>6, <2>7 DEF Carriers, Carried
<1> QED
  BY <1>5, <1>10, <1>11, <1>12 DEF softInv

\* Every step keeps the types and the numbering.
LEMMA SoftNext == softTypeOK /\ softInv /\ [softNext]_softVars => softTypeOK' /\ softInv'
<1> SUFFICES ASSUME softTypeOK, softInv, [softNext]_softVars PROVE softTypeOK' /\ softInv'
  OBVIOUS
<1>1. CASE UNCHANGED softVars
  BY <1>1 DEF softVars, switchVars, clientVars, netVars, history, softTypeOK, softInv, Once,
              Following, Carriers, Carried, Sent, Counted, Holds
<1> QED
  BY <1>1, SendStep, ClientStep, CountStep, StampStep, AnswerStep DEF softNext

\* Types and numbering, on every run and for any number of threads.
THEOREM SoftInvariant == softSpec => [](softTypeOK /\ softInv)
BY SoftTypeInit, SoftInvInit, SoftNext, PTL DEF softSpec

\* Every variable of the software sequencer keeps to its set: the counter never
\* passes the number of appends, as each request is counted once.
THEOREM SoftTypeCorrect == softSpec => []softTypeOK
BY SoftInvariant, PTL

\* For any number of request threads, an append gets a higher index than every
\* append that had been stamped before it was sent: increment and read are two
\* steps of a thread, but the counter only grows between them.
THEOREM SoftOrdered == softSpec => []RealTimeOrder
<1>1. softTypeOK /\ softInv => RealTimeOrder
  <2> SUFFICES ASSUME softTypeOK, softInv, NEW r \in returned, NEW a \in preds[r.app]
               PROVE  index[a] < r.idx
    BY DEF RealTimeOrder
  <2>1. r.app \in Appends /\ r.idx # 0 /\ r.idx = index[r.app]
    BY DEF softTypeOK, softInv, Carriers, Carried
  <2> QED
    BY <2>1 DEF softInv, Following
<1> QED
  BY <1>1, SoftInvariant, PTL

-----------------------------------------------------------------------------
(* Answers that are lost.                                                  *)

\* The packet of an append is at one place at a time.
Single ==
    /\ to_store \cap replies = {}
    /\ \A m, n \in to_store \cup replies : m.app = n.app => m = n
    /\ \A t \in Threads : resp_buf[t] # Nothing =>
         /\ \A m \in to_store \cup replies : m.app # resp_buf[t].app
         /\ \A u \in Threads : resp_buf[u] # Nothing /\ resp_buf[u].app = resp_buf[t].app
                               => u = t

\* The response threads have still to see the packet of an append.
Pending(a) == \/ \E m \in to_store \cup replies : m.app = a
              \/ \E t \in Threads : resp_buf[t] # Nothing /\ resp_buf[t].app = a

\* An entry of ack_map is there because of an append that they are done with.
Acknowledged ==
    \A i \in Indices : ack_map[i] # 0 =>
        \E b \in Appends : index[b] = i /\ ~Pending(b)

\* An append that its client waits for is on its way, or its index is another's too.
OnItsWay(a) == \/ a \in requests
               \/ \E t \in Threads : Holds(t, a)
               \/ Pending(a)
               \/ \E m \in answers : m.app = a
Shared(a) == index[a] # 0 /\ \E b \in Appends \ {a} : index[b] = index[a]
Awaits(a) == client[a[1]] = "waiting" /\ append_nonce[a[1]] = a[2]
Awaited == \A a \in Appends : Awaits(a) => OnItsWay(a) \/ Shared(a)

\* Only a stamp sends a packet, and only of an append that had none.
LEMMA SingleNext ==
    ASSUME softTypeOK, softInv, Single, [softNext]_softVars
    PROVE  Single'
<1>1. ASSUME UNCHANGED <<to_store, replies, resp_buf>> PROVE Single'
  BY <1>1 DEF Single
<1>2. ASSUME NEW t \in Threads, Stamp(t) PROVE Single'
  <2> DEFINE a == req_buf[t]
             n == Packet(a, max_idx, t)
  <2>1. a \in Appends /\ index[a] = 0
    BY <1>2 DEF Stamp, Holds, softTypeOK, softInv, Once
  <2>2. /\ UNCHANGED <<replies, resp_buf>> /\ n.app = a
        /\ to_store' = to_store \/ to_store' = to_store \cup {n}
    BY <1>2 DEF Stamp, StampIndex, Packet
  <2>3. \A m \in to_store \cup replies : m.app # a
    BY <2>1 DEF softInv, Carriers, Carried
  <2>4. \A u \in Threads : resp_buf[u] # Nothing => resp_buf[u].app # a
    BY <2>1 DEF softInv, Carriers, Carried
  <2> QED
    BY <2>2, <2>3, <2>4 DEF Single
<1>3. ASSUME NEW m \in to_store, StoreAppend(m) PROVE Single'
  BY <1>3 DEF StoreAppend, switchVars, Single
<1>4. ASSUME NEW t \in Threads, NEW m \in replies, FindAck(t, m) PROVE Single'
  <2>1. /\ to_store' = to_store /\ replies' = replies \ {m}
        /\ resp_buf' = resp_buf \/ resp_buf' = [resp_buf EXCEPT ![t] = m]
    BY <1>4 DEF FindAck
  <2>2. \A u \in Threads : resp_buf[u] # Nothing => resp_buf[u].app # m.app
    BY DEF Single
  <2>3. \A x \in to_store \cup (replies \ {m}) : x.app # m.app
    BY DEF Single
  <2>4. \A u \in Threads : resp_buf'[u] # resp_buf[u] => u = t /\ resp_buf'[u] = m
    BY <2>1 DEF softTypeOK
  <2> QED
    BY <2>1, <2>2, <2>3, <2>4 DEF Single
<1>5. ASSUME NEW t \in Threads, InsertAck(t) PROVE Single'
  <2>1. /\ UNCHANGED <<to_store, replies>> /\ resp_buf' = [resp_buf EXCEPT ![t] = Nothing]
    BY <1>5 DEF InsertAck
  <2>2. \A u \in Threads : resp_buf'[u] # Nothing => resp_buf'[u] = resp_buf[u]
    BY <2>1 DEF softTypeOK
  <2> QED
    BY <2>1, <2>2 DEF Single
<1> QED
  BY <1>1, <1>2, <1>3, <1>4, <1>5
  DEF softNext, softVars, switchVars, netVars, SendAppend, GiveUp, ReceiveAnswer, Count

\* An append with an index is never pending again once it is not.
LEMMA PendingEnds ==
    ASSUME softTypeOK, softInv, [softNext]_softVars,
           NEW b \in Appends, index[b] # 0, ~Pending(b)
    PROVE  index'[b] = index[b] /\ ~Pending(b)'
<1>1. ASSUME UNCHANGED <<index, to_store, replies, resp_buf>>
      PROVE  index'[b] = index[b] /\ ~Pending(b)'
  BY <1>1 DEF Pending
<1>2. ASSUME NEW t \in Threads, Stamp(t) PROVE index'[b] = index[b] /\ ~Pending(b)'
  <2> DEFINE a == req_buf[t]
             n == Packet(a, max_idx, t)
  <2>1. a \in Appends /\ a # b
    BY <1>2 DEF Stamp, Holds, softTypeOK, softInv, Once
  <2>2. /\ UNCHANGED <<replies, resp_buf>> /\ n.app = a
        /\ to_store' \subseteq to_store \cup {n}
        /\ index' = [index EXCEPT ![a] = max_idx]
    BY <1>2 DEF Stamp, StampIndex, Packet
  <2> QED
    BY <2>1, <2>2 DEF Pending, softTypeOK
<1>3. ASSUME NEW m \in to_store, StoreAppend(m) PROVE index'[b] = index[b] /\ ~Pending(b)'
  BY <1>3 DEF StoreAppend, switchVars, history, Pending
<1>4. ASSUME NEW t \in Threads, NEW m \in replies, FindAck(t, m)
      PROVE  index'[b] = index[b] /\ ~Pending(b)'
  <2>1. /\ to_store' = to_store /\ replies' \subseteq replies /\ index' = index
        /\ resp_buf' = resp_buf \/ resp_buf' = [resp_buf EXCEPT ![t] = m]
    BY <1>4 DEF FindAck, history
  <2>2. \A u \in Threads : resp_buf'[u] = resp_buf[u] \/ resp_buf'[u] = m
    BY <2>1 DEF softTypeOK
  <2> QED
    BY <2>1, <2>2 DEF Pending
<1>5. ASSUME NEW t \in Threads, InsertAck(t) PROVE index'[b] = index[b] /\ ~Pending(b)'
  <2>1. /\ UNCHANGED <<to_store, replies, index>>
        /\ resp_buf' = [resp_buf EXCEPT ![t] = Nothing]
    BY <1>5 DEF InsertAck, history
  <2>2. \A u \in Threads : resp_buf'[u] # Nothing => resp_buf'[u] = resp_buf[u]
    BY <2>1 DEF softTypeOK
  <2> QED
    BY <2>1, <2>2 DEF Pending
<1> QED
  BY <1>1, <1>2, <1>3, <1>4, <1>5
  DEF softNext, softVars, switchVars, netVars, history, SendAppend, GiveUp, ReceiveAnswer, Count

\* A thread that counts an answer is done with its append, which is nowhere else.
LEMMA AcknowledgedNext ==
    ASSUME softTypeOK, softInv, Single, Acknowledged, [softNext]_softVars
    PROVE  Acknowledged'
<1>1. SUFFICES ASSUME NEW i \in Indices, ack_map'[i] # 0
               PROVE  \E b \in Appends : index'[b] = i /\ ~Pending(b)'
  BY DEF Acknowledged
<1>2. CASE ack_map[i] # 0
  <2>1. PICK b \in Appends : index[b] = i /\ ~Pending(b)
    BY <1>2 DEF Acknowledged
  <2>2. index[b] # 0
    BY <2>1 DEF Indices
  <2> QED
    BY <2>1, <2>2, PendingEnds
<1>3. CASE ack_map[i] = 0
  <2>1. PICK t \in Threads : InsertAck(t) /\ ack_map'[i] # ack_map[i]
    <3>1. ASSUME NEW t \in Threads, NEW m \in replies, FindAck(t, m) PROVE FALSE
      <4>1. m.idx \in Indices /\ ack_map \in [Indices -> Nat]
        BY DEF softTypeOK, PacketSet
      <4> QED
        BY <1>1, <1>3, <3>1, <4>1 DEF FindAck
    <3> QED
      BY <1>1, <1>3, <3>1
      DEF softNext, softVars, switchVars, netVars, SendAppend, GiveUp, ReceiveAnswer, Count,
          Stamp, StoreAppend
  <2>2. PICK m : /\ m = resp_buf[t] /\ m # Nothing
                 /\ m.app \in Appends /\ m.idx = index[m.app]
    BY <2>1 DEF InsertAck, softTypeOK, PacketSet, softInv, Carriers, Carried
  <2>3. /\ UNCHANGED <<to_store, replies, index>>
        /\ resp_buf' = [resp_buf EXCEPT ![t] = Nothing]
        /\ ack_map' = ack_map \/ ack_map' = [ack_map EXCEPT ![m.idx] = 1]
    BY <2>1, <2>2 DEF InsertAck, history
  <2>4. i = m.idx
    BY <2>1, <2>3 DEF softTypeOK
  <2>5. ~Pending(m.app)'
    <3>1. \A x \in to_store' \cup replies' : x.app # m.app
      BY <2>2, <2>3 DEF Single
    <3>2. \A u \in Threads : resp_buf'[u] # Nothing => u # t /\ resp_buf'[u] = resp_buf[u]
      BY <2>3 DEF softTypeOK
    <3>3. \A u \in Threads : resp_buf'[u] # Nothing => resp_buf'[u].app # m.app
      BY <2>2, <3>2 DEF Single
    <3> QED
      BY <3>1, <3>3 DEF Pending
  <2> QED
    BY <2>2, <2>3, <2>4, <2>5
<1> QED
  BY <1>2, <1>3

\* An append that shares its index goes on to.
LEMMA SharedStays ==
    ASSUME softTypeOK, softInv, [softNext]_softVars, NEW a \in Appends, Shared(a)
    PROVE  Shared(a)'
<1>1. \A b \in Appends : index[b] # 0 => index'[b] = index[b]
  <2>1. ASSUME NEW t \in Threads, Stamp(t), NEW b \in Appends, index[b] # 0
        PROVE  index'[b] = index[b]
    BY <2>1 DEF Stamp, Holds, softTypeOK, softInv, Once
  <2> QED
    BY <2>1
    DEF softNext, softVars, history, switchVars, SendAppend, GiveUp, ReceiveAnswer, Count,
        StoreAppend, FindAck, InsertAck
<1> QED
  BY <1>1 DEF Shared

\* With one acknowledgement enough, an append that its client waits for is on its
\* way, until an answer is dropped for an index that was given twice.
LEMMA AwaitedNext ==
    ASSUME softTypeOK, softInv, Single, Acknowledged, Awaited, ack_threshold = 1,
           [softNext]_softVars
    PROVE  Awaited'
<1> SUFFICES ASSUME NEW a \in Appends, Awaits(a)', ~Shared(a)' PROVE OnItsWay(a)'
  BY DEF Awaited
<1>0. ~Shared(a) /\ a[1] \in Clients /\ a = <<a[1], a[2]>>
  BY SharedStays, AppendIs
<1>1. ASSUME NEW c \in Clients, SendAppend(c) PROVE OnItsWay(a)'
  <2>1. requests' = requests \cup {<<c, append_nonce[c]>>}
    BY <1>1 DEF SendAppend
  <2>2. UNCHANGED <<req_buf, to_store, replies, resp_buf, answers, append_nonce>>
    BY <1>1 DEF SendAppend, switchVars
  <2>3. CASE a[1] = c
    BY <1>0, <2>1, <2>2, <2>3 DEF Awaits, OnItsWay
  <2>4. CASE a[1] # c
    <3>1. Awaits(a)
      BY <1>0, <1>1, <2>4 DEF SendAppend, Awaits, softTypeOK
    <3> QED
      BY <1>0, <2>1, <2>2, <3>1 DEF Awaited, OnItsWay, Holds, Pending
  <2> QED
    BY <2>3, <2>4
<1>2. ASSUME NEW c \in Clients, GiveUp(c) PROVE OnItsWay(a)'
  <2>1. a[1] # c /\ Awaits(a)
    BY <1>0, <1>2 DEF GiveUp, Awaits, softTypeOK
  <2> QED
    BY <1>0, <1>2, <2>1 DEF GiveUp, netVars, switchVars, Awaited, OnItsWay, Holds, Pending
<1>3. ASSUME NEW c \in Clients, NEW m \in answers, ReceiveAnswer(c, m) PROVE OnItsWay(a)'
  <2>1. Awaits(a) /\ m.app # a
    <3>1. CASE client[c] = "waiting" /\ Accepts(c, m)
      BY <1>0, <1>3, <3>1 DEF ReceiveAnswer, Awaits, softTypeOK
    <3>2. CASE ~(client[c] = "waiting" /\ Accepts(c, m))
      BY <1>0, <1>3, <3>2 DEF ReceiveAnswer, clientVars, Awaits, Accepts
    <3> QED
      BY <3>1, <3>2
  <2>2. answers' = answers \ {m} /\ UNCHANGED <<requests, req_buf, to_store, replies, resp_buf>>
    BY <1>3 DEF ReceiveAnswer, switchVars
  <2> QED
    BY <1>0, <2>1, <2>2 DEF Awaited, OnItsWay, Holds, Pending
<1>4. ASSUME ~\E c \in Clients : \/ SendAppend(c) \/ GiveUp(c)
                                 \/ \E m \in answers : ReceiveAnswer(c, m)
      PROVE  OnItsWay(a)'
  <2>1. UNCHANGED <<client, append_nonce>>
    BY <1>4
    DEF softNext, softVars, clientVars, Count, Stamp, StoreAppend, FindAck, InsertAck
  <2>2. OnItsWay(a)
    BY <1>0, <2>1 DEF Awaits, Awaited
  <2>3. ASSUME NEW t \in Threads, NEW b \in requests, Count(t, b) PROVE OnItsWay(a)'
    <3>1. /\ requests' = requests \ {b} /\ req_buf' = [req_buf EXCEPT ![t] = b]
          /\ UNCHANGED <<to_store, replies, resp_buf, answers>>
      BY <2>3 DEF Count
    <3>2. req_buf'[t] = b /\ req_buf[t] = Nothing
      BY <2>3, <3>1 DEF Count, softTypeOK
    <3>3. \A u \in Threads : Holds(u, a) => Holds(u, a)'
      BY <3>1, <3>2, AppendIs DEF Holds, softTypeOK
    <3> QED
      BY <2>2, <3>1, <3>2, <3>3 DEF OnItsWay, Holds, Pending
  <2>4. ASSUME NEW t \in Threads, Stamp(t) PROVE OnItsWay(a)'
    <3>1. UNCHANGED <<requests, replies, resp_buf>> /\ to_store \subseteq to_store'
          /\ answers \subseteq answers'
      BY <2>4 DEF Stamp
    <3>2. CASE req_buf[t] = a
      <4> DEFINE n == Packet(a, max_idx, t)
      <4>1. n \in to_store' \/ n \in answers'
        BY <2>4, <3>2 DEF Stamp, StampIndex
      <4>2. n.app = a
        BY DEF Packet
      <4> QED
        BY <4>1, <4>2 DEF OnItsWay, Pending
    <3>3. CASE req_buf[t] # a
      <4>1. \A u \in Threads : Holds(u, a) => Holds(u, a)'
        BY <2>4, <3>3 DEF Stamp, Holds, softTypeOK
      <4> QED
        BY <2>2, <3>1, <4>1 DEF OnItsWay, Pending
    <3> QED
      BY <3>2, <3>3
  <2>5. ASSUME NEW m \in to_store, StoreAppend(m) PROVE OnItsWay(a)'
    BY <2>2, <2>5 DEF StoreAppend, switchVars, OnItsWay, Holds, Pending
  <2>6. ASSUME NEW t \in Threads, NEW m \in replies, FindAck(t, m) PROVE OnItsWay(a)'
    <3>1. /\ UNCHANGED <<requests, req_buf, to_store>> /\ replies' = replies \ {m}
          /\ answers \subseteq answers' /\ resp_buf[t] = Nothing
          /\ resp_buf' = resp_buf \/ resp_buf' = [resp_buf EXCEPT ![t] = m]
      BY <2>6 DEF FindAck, Forward
    <3>2. \A u \in Threads : resp_buf[u] # Nothing => resp_buf'[u] = resp_buf[u]
      BY <3>1 DEF softTypeOK
    <3>3. CASE m.app # a
      BY <2>2, <3>1, <3>2, <3>3 DEF OnItsWay, Holds, Pending
    <3>4. CASE m.app = a /\ ack_map[m.idx] # 0
      <4>1. ack_map[m.idx] \in Nat
        BY DEF softTypeOK, PacketSet
      <4>2. Quorum(ack_map[m.idx] + 1)
        BY <3>4, <4>1 DEF Quorum
      <4>3. m \in answers'
        BY <2>6, <3>4, <4>2 DEF FindAck, Forward
      <4> QED
        BY <3>4, <4>3 DEF OnItsWay
    <3>5. CASE m.app = a /\ ack_map[m.idx] = 0
      <4>1. resp_buf' = [resp_buf EXCEPT ![t] = m]
        BY <2>6, <3>5 DEF FindAck
      <4>2. resp_buf'[t] = m
        BY <4>1 DEF softTypeOK
      <4>3. m # Nothing
        <5>1. m \in [app : Appends, idx : Indices, th : Threads]
          BY DEF softTypeOK, PacketSet
        <5>2. DOMAIN m = {"app", "idx", "th"} /\ DOMAIN Nothing = {}
          BY <5>1 DEF Nothing
        <5> QED
          BY <5>2
      <4> QED
        BY <3>5, <4>2, <4>3 DEF OnItsWay, Pending
    <3> QED
      BY <3>3, <3>4, <3>5
  <2>7. ASSUME NEW t \in Threads, InsertAck(t) PROVE OnItsWay(a)'
    <3>1. PICK m : /\ m = resp_buf[t] /\ m # Nothing /\ m \in PacketSet
                   /\ m.idx # 0 /\ m.idx = index[m.app]
      BY <2>7 DEF InsertAck, softTypeOK, softInv, Carriers, Carried
    <3>2. /\ UNCHANGED <<requests, req_buf, to_store, replies, index>>
          /\ answers \subseteq answers' /\ resp_buf' = [resp_buf EXCEPT ![t] = Nothing]
      BY <2>7 DEF InsertAck, Forward, history
    <3>3. \A u \in Threads : u # t => resp_buf'[u] = resp_buf[u]
      BY <3>2 DEF softTypeOK
    <3>4. CASE m.app # a
      BY <2>2, <3>1, <3>2, <3>3, <3>4 DEF OnItsWay, Holds, Pending
    <3>5. CASE m.app = a
      <4>1. Pending(a)
        BY <3>1, <3>5 DEF Pending
      <4>2. ack_map[m.idx] = 0
        <5> SUFFICES ASSUME ack_map[m.idx] # 0 PROVE FALSE
          OBVIOUS
        <5>1. PICK b \in Appends : index[b] = m.idx /\ ~Pending(b)
          BY <3>1 DEF Acknowledged, PacketSet
        <5>2. b # a
          BY <4>1, <5>1
        <5> QED
          BY <1>0, <3>1, <3>5, <5>1, <5>2 DEF Shared
      <4>3. Quorum(1)
        BY DEF Quorum
      <4>4. m \in answers'
        BY <2>7, <3>1, <4>2, <4>3 DEF InsertAck, Forward
      <4> QED
        BY <3>5, <4>4 DEF OnItsWay
    <3> QED
      BY <3>4, <3>5
  <2>8. CASE UNCHANGED softVars
    BY <2>2, <2>8 DEF softVars, switchVars, netVars, OnItsWay, Holds, Pending
  <2> QED
    BY <1>4, <2>3, <2>4, <2>5, <2>6, <2>7, <2>8 DEF softNext
<1> QED
  BY <1>1, <1>2, <1>3, <1>4

\* With any number of request and response threads, an answer is lost only where
\* two appends were given one index (counting of acknowledgements by FindAck and
\* InsertAck, whose answers without a quorum reach nobody).
THEOREM SoftLostByRace == softSpec => []LostByRace
<1> DEFINE Inv == /\ softTypeOK /\ softInv /\ Single /\ Acknowledged
                  /\ ack_threshold = 1 => Awaited
<1>1. softInit => Inv
  <2> SUFFICES ASSUME softInit PROVE Inv
    OBVIOUS
  <2>1. Single /\ Acknowledged
    BY DEF softInit, Single, Acknowledged
  <2>2. Awaited
    BY AppendIs DEF softInit, Awaited, Awaits
  <2> QED
    BY <2>1, <2>2, SoftTypeInit, SoftInvInit
<1>2. Inv /\ [softNext]_softVars => Inv'
  <2> SUFFICES ASSUME Inv, [softNext]_softVars PROVE Inv'
    OBVIOUS
  <2>1. softTypeOK' /\ softInv'
    BY SoftNext
  <2>2. Single' /\ Acknowledged'
    BY SingleNext, AcknowledgedNext
  <2>3. ack_threshold = 1 => Awaited'
    BY AwaitedNext
  <2> QED
    BY <2>1, <2>2, <2>3
<1>3. Inv => LostByRace
  <2> SUFFICES ASSUME Inv, ack_threshold = 1, NEW c \in Clients, Unanswered(c)
               PROVE  \E b \in Appends \ {<<c, append_nonce[c]>>} :
                        index[b] = index[<<c, append_nonce[c]>>]
    BY DEF LostByRace
  <2> DEFINE a == <<c, append_nonce[c]>>
  <2>1. a \in Appends /\ Awaits(a)
    BY AppendIs DEF Unanswered, Awaits, softInv, Once, softTypeOK
  <2>2. ~OnItsWay(a)
    BY DEF Unanswered, OnItsWay, Holds, Pending
  <2> QED
    BY <2>1, <2>2 DEF Awaited, Shared
<1> QED
  BY <1>1, <1>2, <1>3, PTL DEF softSpec

-----------------------------------------------------------------------------
(* One request thread.                                                     *)

\* The counter is ahead of every index while the thread holds an append; indices
\* differ, and each number counted has been given, the last one perhaps not yet.
Numbered ==
    /\ \A t \in Threads, a \in Appends : Holds(t, a) => \A b \in Appends : index[b] < max_idx
    /\ \A a, b \in Appends : index[a] # 0 /\ index[a] = index[b] => a = b
    /\ \A i \in 1 .. max_idx :
         \/ \E a \in Appends : index[a] = i
         \/ i = max_idx /\ \E t \in Threads, a \in Appends : Holds(t, a)

\* Counting goes one further, stamping uses that number: with one thread no other
\* count comes between the two.
LEMMA NumberedNext ==
    ASSUME NEW t, Threads = {t}, softTypeOK, softInv, Numbered, [softNext]_softVars
    PROVE  Numbered'
<1>1. ASSUME UNCHANGED <<index, req_buf, max_idx>> PROVE Numbered'
  BY <1>1 DEF Numbered, Holds
<1>2. max_idx \in Nat /\ \A b \in Appends : index[b] \in Nat /\ index[b] <= max_idx
  BY AppendsFinite DEF softTypeOK, softInv, Following
<1>3. ASSUME NEW a \in requests, Count(t, a) PROVE Numbered'
  <2>1. a \in Appends /\ req_buf[t] = Nothing
    BY <1>3 DEF Count, softTypeOK
  <2>2. /\ req_buf' = [req_buf EXCEPT ![t] = a] /\ max_idx' = max_idx + 1
        /\ index' = index
    BY <1>3 DEF Count, Increment, history
  <2>3. Holds(t, a)' /\ \A b \in Appends : ~Holds(t, b)
    BY <2>1, <2>2, AppendIs DEF Holds, softTypeOK
  <2>4. \A b \in Appends : index'[b] < max_idx'
    BY <1>2, <2>2
  <2>5. ASSUME NEW i \in 1 .. max_idx'
        PROVE  \/ \E b \in Appends : index'[b] = i
               \/ i = max_idx' /\ \E u \in Threads, b \in Appends : Holds(u, b)'
    <3>1. CASE i = max_idx'
      BY <2>1, <2>3, <3>1
    <3>2. CASE i # max_idx'
      <4>1. i \in 1 .. max_idx
        BY <1>2, <2>2, <3>2
      <4> QED
        BY <2>2, <2>3, <4>1 DEF Numbered
    <3> QED
      BY <3>1, <3>2
  <2> QED
    BY <2>2, <2>4, <2>5 DEF Numbered
<1>4. CASE Stamp(t)
  <2> DEFINE a == req_buf[t]
  <2>1. a \in Appends /\ Holds(t, a)
    BY <1>4 DEF Stamp, Holds, softTypeOK
  <2>2. /\ req_buf' = [req_buf EXCEPT ![t] = Nothing] /\ max_idx' = max_idx
        /\ index' = [index EXCEPT ![a] = max_idx]
    BY <1>4 DEF Stamp, StampIndex
  <2>3. \A b \in Appends : ~Holds(t, b)'
    BY <2>2, AppendIs DEF Holds, softTypeOK
  <2>4. index'[a] = max_idx /\ \A b \in Appends : b # a => index'[b] = index[b]
    BY <2>1, <2>2 DEF softTypeOK
  <2>5. \A b \in Appends : index[b] < max_idx
    BY <2>1 DEF Numbered
  <2>6. \A b, d \in Appends : index'[b] # 0 /\ index'[b] = index'[d] => b = d
    BY <1>2, <2>4, <2>5 DEF Numbered
  <2>7. ASSUME NEW i \in 1 .. max_idx PROVE \E b \in Appends : index'[b] = i
    <3>1. CASE i = max_idx
      BY <2>1, <2>4, <3>1
    <3>2. CASE i # max_idx
      <4>1. PICK b \in Appends : index[b] = i
        BY <3>2 DEF Numbered
      <4>2. index[a] = 0
        BY <2>1 DEF softInv, Once
      <4> QED
        BY <1>2, <2>4, <4>1, <4>2
    <3> QED
      BY <3>1, <3>2
  <2> QED
    BY <2>2, <2>3, <2>6, <2>7 DEF Numbered
<1> QED
  BY <1>1, <1>3, <1>4
  DEF softNext, softVars, switchVars, history, SendAppend, GiveUp, ReceiveAnswer, InsertAck,
      StoreAppend, FindAck

\* Every entry stored is a stamped append at its index; whatever the server has
\* answered is stored, and what is stamped is stored or on its way there.
Kept(m) == <<m.idx, m.app>> \in stor
Storage ==
    /\ \A e \in stor : e[1] # 0 /\ e[1] = index[e[2]]
    /\ \A m \in replies : Kept(m)
    /\ \A t \in Threads : resp_buf[t] # Nothing => Kept(resp_buf[t])
    /\ use_store => /\ \A m \in answers \cup returned : Kept(m)
                    /\ \A a \in Appends : index[a] # 0 =>
                         <<index[a], a>> \in stor \/ \E m \in to_store : m.app = a

\* The server refuses an index it has: as indices differ, it has the append itself.
LEMMA StoreKeeps ==
    ASSUME softTypeOK, softInv, Numbered, Storage, NEW m \in to_store, StoreAppend(m)
    PROVE  /\ Kept(m)'
           /\ stor \subseteq stor'
           /\ \A e \in stor' : e[1] # 0 /\ e[1] = index[e[2]]
<1>1. /\ m.app \in Appends /\ m.idx # 0 /\ m.idx = index[m.app]
  BY DEF softTypeOK, PacketSet, softInv, Carriers, Carried
<1>2. stor' = store(m.idx, m.app)
  BY DEF StoreAppend
<1>3. CASE \E e \in stor : e[1] = m.idx
  <2>1. PICK e \in stor : e[1] = m.idx
    BY <1>3
  <2>2. e[2] \in Appends /\ e = <<e[1], e[2]>>
    BY <2>1 DEF softTypeOK
  <2>3. e[2] = m.app
    BY <1>1, <2>1, <2>2 DEF Storage, Numbered
  <2>4. stor' = stor
    BY <1>2, <1>3 DEF store
  <2> QED
    BY <2>1, <2>2, <2>3, <2>4 DEF Kept, Storage
<1>4. CASE ~\E e \in stor : e[1] = m.idx
  <2>1. stor' = stor \cup {<<m.idx, m.app>>}
    BY <1>2, <1>4 DEF store
  <2> QED
    BY <1>1, <2>1 DEF Kept, Storage
<1> QED
  BY <1>3, <1>4

\* Every step keeps what is stored.
LEMMA StorageNext ==
    ASSUME softTypeOK, softInv, Numbered, Storage, [softNext]_softVars
    PROVE  Storage'
<1>1. ASSUME NEW c \in Clients, SendAppend(c) PROVE Storage'
  BY <1>1 DEF SendAppend, switchVars, Storage, Kept
<1>2. ASSUME NEW c \in Clients, GiveUp(c) PROVE Storage'
  BY <1>2 DEF GiveUp, netVars, switchVars, history, Storage, Kept
<1>3. ASSUME NEW c \in Clients, NEW m \in answers, ReceiveAnswer(c, m) PROVE Storage'
  <2>1. /\ UNCHANGED <<to_store, replies, stor, use_store, resp_buf, index>>
        /\ answers' \subseteq answers
    BY <1>3 DEF ReceiveAnswer, switchVars, history
  <2>2. ASSUME NEW r \in returned', use_store PROVE <<r.idx, r.app>> \in stor
    <3>1. r \in returned \/ (r = [app |-> <<c, append_nonce[c]>>, idx |-> m.idx]
                             /\ m.app[1] = c /\ m.app[2] = append_nonce[c])
      BY <1>3, <2>2 DEF ReceiveAnswer, Accepts, clientVars
    <3>2. m.app = <<m.app[1], m.app[2]>>
      BY AppendIs DEF softTypeOK, PacketSet
    <3> QED
      BY <2>2, <3>1, <3>2 DEF Storage, Kept
  <2> QED
    BY <2>1, <2>2 DEF Storage, Kept
<1>4. ASSUME NEW t \in Threads, NEW a \in requests, Count(t, a) PROVE Storage'
  BY <1>4 DEF Count, clientVars, history, Storage, Kept
<1>5. ASSUME NEW t \in Threads, Stamp(t) PROVE Storage'
  <2> DEFINE a == req_buf[t]
             n == Packet(a, max_idx, t)
  <2>1. a \in Appends /\ index[a] = 0
    BY <1>5 DEF Stamp, Holds, softTypeOK, softInv, Once
  <2>2. /\ index' = [index EXCEPT ![a] = max_idx]
        /\ UNCHANGED <<use_store, replies, resp_buf, returned, stor>>
        /\ use_store => to_store' = to_store \cup {n} /\ answers' = answers
    BY <1>5 DEF Stamp, StampIndex, clientVars
  <2>3. n.app = a /\ \A b \in Appends : b # a => index'[b] = index[b]
    BY <2>1, <2>2 DEF Packet, softTypeOK
  <2>4. \A e \in stor : e[1] # 0 /\ e[1] = index'[e[2]]
    BY <2>1, <2>3 DEF Storage, softTypeOK
  <2>5. ASSUME use_store, NEW b \in Appends, index'[b] # 0
        PROVE  <<index'[b], b>> \in stor \/ \E m \in to_store' : m.app = b
    BY <2>2, <2>3, <2>5 DEF Storage
  <2> QED
    BY <2>2, <2>4, <2>5 DEF Storage, Kept
<1>6. ASSUME NEW m \in to_store, StoreAppend(m) PROVE Storage'
  <2>1. /\ to_store' = to_store \ {m} /\ replies' \subseteq replies \cup {m}
        /\ UNCHANGED <<use_store, resp_buf, answers, returned, index>>
    BY <1>6 DEF StoreAppend, switchVars, clientVars, history
  <2>2. <<m.idx, m.app>> \in stor' /\ stor \subseteq stor'
    BY <1>6, StoreKeeps DEF Kept
  <2>3. \A e \in stor' : e[1] # 0 /\ e[1] = index[e[2]]
    BY <1>6, StoreKeeps
  <2>4. m.idx = index[m.app]
    BY DEF softInv, Carriers, Carried
  <2>5. ASSUME use_store, NEW a \in Appends, index[a] # 0
        PROVE  <<index[a], a>> \in stor' \/ \E x \in to_store' : x.app = a
    BY <2>1, <2>2, <2>4, <2>5 DEF Storage
  <2> QED
    BY <2>1, <2>2, <2>3, <2>5 DEF Storage, Kept
<1>7. ASSUME NEW m, Kept(m), NEW quorum, Forward(m, quorum), UNCHANGED <<stor, index>>
      PROVE  \A x \in answers' : x \in answers \/ Kept(x)
  BY <1>7 DEF Forward
<1>8. ASSUME NEW t \in Threads, NEW m \in replies, FindAck(t, m) PROVE Storage'
  <2>1. /\ replies' \subseteq replies
        /\ UNCHANGED <<use_store, to_store, returned, stor, index>>
        /\ resp_buf' = resp_buf \/ resp_buf' = [resp_buf EXCEPT ![t] = m]
    BY <1>8 DEF FindAck, clientVars, history
  <2>2. Kept(m)
    BY DEF Storage
  <2>3. \A x \in answers' : x \in answers \/ Kept(x)
    <3>1. CASE Forward(m, Quorum(ack_map[m.idx] + 1))
      BY <1>7, <2>1, <2>2, <3>1
    <3> QED
      BY <1>8, <3>1 DEF FindAck
  <2>4. \A u \in Threads : resp_buf'[u] # Nothing => Kept(resp_buf'[u])
    BY <2>1, <2>2 DEF Storage, softTypeOK
  <2> QED
    BY <2>1, <2>3, <2>4 DEF Storage, Kept
<1>9. ASSUME NEW t \in Threads, InsertAck(t) PROVE Storage'
  <2> DEFINE m == resp_buf[t]
  <2>1. UNCHANGED <<replies, use_store, to_store, returned, stor, index>>
        /\ resp_buf' = [resp_buf EXCEPT ![t] = Nothing]
    BY <1>9 DEF InsertAck, clientVars, history
  <2>2. Kept(m)
    BY <1>9 DEF InsertAck, Storage
  <2>3. \A x \in answers' : x \in answers \/ Kept(x)
    <3>1. CASE Forward(m, Quorum(1))
      BY <1>7, <2>1, <2>2, <3>1
    <3>2. CASE Forward(m, FALSE)
      BY <1>7, <2>1, <2>2, <3>2
    <3> QED
      BY <1>9, <3>1, <3>2 DEF InsertAck
  <2>4. \A u \in Threads : resp_buf'[u] # Nothing => Kept(resp_buf'[u])
    BY <2>1 DEF Storage, softTypeOK
  <2> QED
    BY <2>1, <2>3, <2>4 DEF Storage, Kept
<1>10. CASE UNCHANGED softVars
  BY <1>10 DEF softVars, switchVars, clientVars, netVars, history, Storage, Kept
<1> QED
  BY <1>1, <1>2, <1>3, <1>4, <1>5, <1>6, <1>8, <1>9, <1>10 DEF softNext

\* Numbers and storage, on every run with one request thread.
THEOREM SoftStorage ==
    ASSUME NEW t, Threads = {t}
    PROVE  softSpec => [](Numbered /\ Storage)
<1>1. softInit => Numbered /\ Storage
  <2> SUFFICES ASSUME softInit PROVE Numbered /\ Storage
    OBVIOUS
  <2>1. Numbered
    BY AppendIs DEF softInit, Numbered, Holds
  <2>2. Storage
    BY DEF softInit, Storage
  <2> QED
    BY <2>1, <2>2
<1>2. softTypeOK /\ softInv /\ Numbered /\ Storage /\ [softNext]_softVars
      => Numbered' /\ Storage'
  BY NumberedNext, StorageNext
<1> QED
  BY <1>1, <1>2, SoftInvariant, PTL DEF softSpec

\* With one request thread, an append that returned is what a read of its index
\* finds, although append_server answers an append that store() refused.
THEOREM SoftReturnedStored ==
    ASSUME NEW t, Threads = {t}
    PROVE  softSpec => []ReturnedStored
<1>1. Storage => ReturnedStored
  BY DEF Storage, Kept, ReturnedStored
<1> QED
  BY <1>1, SoftStorage, PTL

\* With one request thread the log has no holes once nothing is on its way.
THEOREM SoftDense ==
    ASSUME NEW t, Threads = {t}
    PROVE  softSpec => []NoHoles
<1>1. Numbered /\ Storage => NoHoles
  <2> SUFFICES ASSUME Numbered, Storage, use_store, to_store = {},
                      \A u \in Threads : req_buf[u] = Nothing,
                      NEW i \in 1 .. max_idx
               PROVE  \E a \in Appends : <<i, a>> \in stor
    BY DEF NoHoles
  <2>1. \A u \in Threads, a \in Appends : ~Holds(u, a)
    BY AppendIs DEF Holds
  <2>2. PICK a \in Appends : index[a] = i
    BY <2>1 DEF Numbered
  <2>3. i # 0
    OBVIOUS
  <2> QED
    BY <2>2, <2>3 DEF Storage
<1> QED
  BY <1>1, SoftStorage, PTL

-----------------------------------------------------------------------------
(* The software sequencer implements the shared log.                       *)

Arrived == {a \in Appends : \/ a[2] < append_nonce[a[1]]
                            \/ a[2] = append_nonce[a[1]] /\ client[a[1]] = "waiting"}

\* A step of the switch with one request thread is a step of the log: sending is
\* arriving, counting reserves, stamping numbers; every other step stutters.
LEMMA SoftStepImplements ==
    ASSUME NEW t, Threads = {t}, softTypeOK, softInv, Numbered, [softNext]_softVars
    PROVE  [Log!logNext]_(Log!logVars)
<1>1. ASSUME NEW c \in Clients, SendAppend(c) PROVE Log!logNext
  <2> DEFINE S == {b \in Appends : index[b] # 0}
  <2>0. PICK a \in Appends : a = <<c, append_nonce[c]>>
    BY <1>1, SoftwareAssumption, AppendIs DEF SendAppend, softTypeOK
  <2>1. /\ client[c] = "idle" /\ a[1] = c /\ a[2] = append_nonce[c] /\ a[2] \in Nat
        /\ \A b \in Appends : b[1] = c /\ b[2] = append_nonce[c] => b = a
    BY <1>1, <2>0, SoftwareAssumption, AppendIs DEF SendAppend, softTypeOK
  <2>2. /\ client' = [client EXCEPT ![c] = "waiting"] /\ preds' = [preds EXCEPT ![a] = S]
        /\ UNCHANGED <<append_nonce, max_idx, index>>
    BY <1>1, <2>0 DEF SendAppend, switchVars
  <2>3. a \notin Arrived
    BY <2>1 DEF Arrived
  <2>4. Arrived' = Arrived \cup {a}
    BY <2>1, <2>2, AppendIs DEF Arrived, softTypeOK
  <2>5. S \in SUBSET Arrived
    BY DEF softInv, Once, Sent, Arrived
  <2>6. Log!Arrive(a)
    BY <2>2, <2>3, <2>4, <2>5 DEF Log!Arrive, Arrived
  <2> QED
    BY <2>1, <2>6 DEF Log!logNext
<1>2. ASSUME NEW c \in Clients, GiveUp(c) \/ \E m \in answers : ReceiveAnswer(c, m)
      PROVE  UNCHANGED Log!logVars
  <2>1. Arrived' = Arrived
    BY <1>2, ClientStep DEF Arrived, Sent
  <2> QED
    BY <1>2, <2>1 DEF Log!logVars, Arrived, GiveUp, ReceiveAnswer, switchVars, history
<1>3. ASSUME NEW a \in requests, Count(t, a) PROVE Log!logNext
  <2>1. max_idx' = max_idx + 1 /\ max_idx \in Nat /\ UNCHANGED <<client, append_nonce, preds, index>>
    BY <1>3, AppendsFinite DEF Count, Increment, clientVars, history, softTypeOK
  <2>2. Log!Reserve
    BY <2>1 DEF Log!Reserve
  <2> QED
    BY <2>2 DEF Log!logNext
<1>4. CASE Stamp(t)
  <2> DEFINE a == req_buf[t]
  <2>1. a \in Appends /\ Holds(t, a) /\ index[a] = 0 /\ Sent(a) /\ a \in Counted
    BY <1>4 DEF Stamp, Holds, softTypeOK, softInv, Once, Counted
  <2>2. /\ index' = [index EXCEPT ![a] = max_idx]
        /\ UNCHANGED <<client, append_nonce, preds, max_idx>>
    BY <1>4 DEF Stamp, StampIndex, clientVars
  <2>3. max_idx \in 1 .. max_idx
    BY <2>1, CountedSize, AppendsFinite DEF softInv, softTypeOK
  <2>4. \A b \in Appends : index[b] < max_idx /\ index[b] # max_idx
    BY <2>1, AppendsFinite DEF Numbered, softTypeOK
  <2>5. \A b \in preds[a] : index[b] < max_idx
    BY <2>1 DEF softInv, Following
  <2>6. \A b \in Appends : a \notin preds[b]
    BY <2>1 DEF softInv, Following
  <2>7. a \in Arrived
    BY <2>1 DEF Arrived, Sent
  <2>8. Log!Number(a)
    BY <2>1, <2>2, <2>3, <2>4, <2>5, <2>6, <2>7 DEF Log!Number, Arrived
  <2> QED
    BY <2>1, <2>8 DEF Log!logNext
<1>5. ASSUME UNCHANGED <<client, append_nonce, preds, max_idx, index>>
      PROVE  UNCHANGED Log!logVars
  BY <1>5 DEF Log!logVars
<1> QED
  BY <1>1, <1>2, <1>3, <1>4, <1>5
  DEF softNext, softVars, switchVars, clientVars, history, InsertAck, StoreAppend, FindAck

\* A software sequencer with one request thread implements the shared log.
THEOREM SoftImplements ==
    ASSUME NEW t, Threads = {t}
    PROVE  softSpec => SoftImplementsLog
<1>1. softInit => Log!logInit
  <2> SUFFICES ASSUME softInit PROVE Log!logInit
    OBVIOUS
  <2>1. Arrived = {}
    BY AppendIs DEF softInit, Arrived
  <2> QED
    BY <2>1 DEF softInit, Log!logInit, Arrived
<1>2. softTypeOK /\ softInv /\ Numbered /\ [softNext]_softVars => [Log!logNext]_(Log!logVars)
  BY SoftStepImplements
<1> QED
  BY <1>1, <1>2, SoftInvariant, SoftStorage, PTL DEF softSpec, SoftImplementsLog, Log!logSpec
===============================================================================
