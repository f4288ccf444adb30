--------------------------- MODULE RingSequencer ---------------------------
(***************************************************************************)
(* The data plane that numbers appends: a ring of P4 switches around which *)
(* a control packet (the token) carries the global sequence number         *)
(* (code/p4/sequencing/sequencing_only.p4).  A switch counts the appends   *)
(* it has seen since the token's last visit (local_seq_no); the token adds *)
(* that count to its own number and leaves the number it came with in      *)
(* map_from_gsn, indexed by the switch's iteration counter cntrl_pkt_it.   *)
(* An append keeps its offset in the batch and the iteration it belongs to *)
(* in its own header and goes round the loopback port until the iteration  *)
(* is over; then it adds the number found in the map and leaves.           *)
(*                                                                         *)
(* Every pass of a packet through the ingress pipeline is one step: the    *)
(* pipeline visits each register once, in stage order, for every packet.   *)
(***************************************************************************)
EXTENDS Integers, FiniteSets

CONSTANTS
    N,                 \* size_of_ring: the switches are 0 .. N-1, in ring order
    Packets,           \* append packets sent by clients and packet generators
    Timer,             \* those of them that carry a packet generator's timer header
    Stream,            \* Stream[p]: hdr.append.stream_id, 0 when there is none
    ShardKeys,         \* shard ids with an entry in get_shard_port
    Injectors,         \* switches whose control plane sends a control packet
    LossyTokens,       \* those of them whose packet a link may drop
    MAX_GSN_MAP_SIZE   \* last value of cntrl_pkt_it before it wraps to 0

ASSUME RingAssumption ==
    /\ N \in Nat \ {0}
    /\ Timer \subseteq Packets
    /\ Stream \in [Packets -> Nat]
    /\ ShardKeys \subseteq Nat
    /\ Injectors \subseteq 0 .. N - 1
    /\ LossyTokens \subseteq Injectors
    /\ MAX_GSN_MAP_SIZE \in Nat \ {0}

VARIABLES
    local_seq_no,      \* per switch: appends counted since the token's visit
    cntrl_pkt_it,      \* per switch: iteration counter
    map_from_gsn,      \* per switch and iteration: base of that batch
    token_up,          \* per control packet: "unsent", "up" or "lost"
    token_at,          \* the switch that processes it next
    token_gsn,         \* hdr.cntrl.global_seq_no
    stage,             \* per append packet: where it is
    at,                \* the switch it is being sequenced by
    g_idx,             \* hdr.append.g_idx
    pkt_it,            \* hdr.append.cntrl_pkt_it
    before,            \* history: the packets a packet has to be ordered after
    seen_gsn           \* history: the number the token last left a switch with

switchVars == <<local_seq_no, cntrl_pkt_it, map_from_gsn, seen_gsn>>
tokenVars  == <<token_up, token_at, token_gsn>>
packetVars == <<stage, at, g_idx, pkt_it, before>>
ringVars   == <<switchVars, tokenVars, packetVars>>

Switches == 0 .. N - 1
Slots    == 0 .. MAX_GSN_MAP_SIZE

\* "client": not yet seen by a switch;  "loop": going round the loopback port;
\* "shard": multicast to a storage shard;  "resp": turned into TYPE_APPEND_RESP;
\* "unrouted": numbered, but no shard entry;  "lost": dropped at the loopback port.
Stages == {"client", "loop", "shard", "resp", "unrouted", "lost"}

\* The packets that carry their final global index.
Sequenced == {p \in Packets : stage[p] \in {"shard", "resp", "unrouted"}}

\* The switch a control packet is forwarded to: the ring closes after N - 1.
mutNextSwitchOpen(s) == IF s = N - 1 THEN s ELSE s + 1
NextSwitch(s) == IF s = N - 1 THEN 0 ELSE s + 1

\* The successor of an iteration number; it runs up to MAX_GSN_MAP_SIZE itself.
mutNextItNoWrap(i) == i + 1
NextIt(i) == IF i = MAX_GSN_MAP_SIZE THEN 0 ELSE i + 1

\* The register actions of a switch s, each as the register array it leaves.
write_local_seq_no(s) == [local_seq_no EXCEPT ![s] = @ + 1]

read_local_seq_no(s) == [local_seq_no EXCEPT ![s] = 0]

mutAddGsnNext(s, i, gsn)  == [map_from_gsn EXCEPT ![s][NextIt(i)] = gsn]
mutAddGsnAfter(s, i, gsn) == [map_from_gsn EXCEPT ![s][i] = gsn + local_seq_no[s]]
add_gsn(s, i, gsn) == [map_from_gsn EXCEPT ![s][i] = gsn]

mutZeroGsnNone(s, i) == map_from_gsn
mutZeroGsnNext(s, i) == [map_from_gsn EXCEPT ![s][NextIt(i)] = 0]
zero_gsn(s, i) == [map_from_gsn EXCEPT ![s][i] = 0]

\* The iteration counter moves on only when the batch is not empty.
update_cntrl_pkt_it(s) ==
    [cntrl_pkt_it EXCEPT ![s] = IF local_seq_no[s] # 0 THEN NextIt(@) ELSE @]

ringInit ==
    /\ local_seq_no = [s \in Switches |-> 0]
    /\ cntrl_pkt_it = [s \in Switches |-> 0]
    /\ map_from_gsn = [s \in Switches |-> [i \in Slots |-> 0]]
    /\ seen_gsn     = [s \in Switches |-> 0]
    /\ token_up     = [c \in Injectors |-> "unsent"]
    /\ token_at     = [c \in Injectors |-> c]
    /\ token_gsn    = [c \in Injectors |-> 0]
    /\ stage        = [p \in Packets |-> "client"]
    /\ at           = [p \in Packets |-> 0]
    /\ g_idx        = [p \in Packets |-> 0]
    /\ pkt_it       = [p \in Packets |-> 0]
    /\ before       = [p \in Packets |-> {}]

-----------------------------------------------------------------------------
(* The control packet.                                                     *)

\* The control plane of switch c sends its control packet, with number 0,
\* into its own switch (runTest calls send_test_cntrl_packet once).
InjectToken(c) ==
    /\ token_up[c] = "unsent"
    /\ token_up' = [token_up EXCEPT ![c] = "up"]
    /\ UNCHANGED <<switchVars, token_at, token_gsn, packetVars>>

\* A control packet passes switch s: the batch counter is read and zeroed,
\* the number the packet came with is stored at the current iteration, and
\* only a batch that is not empty moves the iteration on.  cntrl_id_to_ip
\* then forwards the packet to the next switch of the ring.
CntrlPacket(c) ==
    LET s == token_at[c]
        n == local_seq_no[s]
    IN  /\ token_up[c] = "up"
        /\ local_seq_no' = read_local_seq_no(s)
        /\ map_from_gsn' = add_gsn(s, cntrl_pkt_it[s], token_gsn[c])
        /\ cntrl_pkt_it' = update_cntrl_pkt_it(s)
        /\ token_gsn'    = [token_gsn EXCEPT ![c] = @ + n]
        /\ token_at'     = [token_at EXCEPT ![c] = NextSwitch(s)]
        /\ seen_gsn'     = [seen_gsn EXCEPT ![s] = token_gsn[c] + n]
        /\ UNCHANGED <<token_up, packetVars>>

\* The link to the next switch drops a control packet.  Nobody sends another
\* one: InjectToken is the only sender, and runs once.
LoseToken(c) ==
    /\ c \in LossyTokens
    /\ token_up[c] = "up"
    /\ token_up' = [token_up EXCEPT ![c] = "lost"]
    /\ UNCHANGED <<switchVars, token_at, token_gsn, packetVars>>

\* The timing the map relies on, which no code enforces: a packet leaves the
\* loop before the iteration counter of its switch comes round to the
\* packet's iteration again (MAX_GSN_MAP_SIZE non-empty batches later).
RecirculationKeepsUp(c) ==
    LET s == token_at[c]
    IN  local_seq_no[s] # 0 =>
          \A p \in Packets :
            ~(stage[p] = "loop" /\ at[p] = s /\ pkt_it[p] = NextIt(cntrl_pkt_it[s]))

-----------------------------------------------------------------------------
(* Append packets.                                                         *)

\* First pass of an append (g_idx = 0): it takes the next offset of the
\* open batch, remembers the iteration, clears the map entry the iteration
\* will use, and goes to the loopback port, since the iteration is current.
FirstPass(p, s) ==
    /\ stage[p] = "client"
    /\ local_seq_no' = write_local_seq_no(s)
    /\ g_idx'        = [g_idx EXCEPT ![p] = local_seq_no[s] + 1]
    /\ pkt_it'       = [pkt_it EXCEPT ![p] = cntrl_pkt_it[s]]
    /\ map_from_gsn' = zero_gsn(s, cntrl_pkt_it[s])
    /\ stage'        = [stage EXCEPT ![p] = "loop"]
    /\ at'           = [at EXCEPT ![p] = s]
    /\ before'       = [before EXCEPT ![p] =
                          Sequenced \cup {q \in Packets : stage[q] = "loop" /\ at[q] = s}]
    /\ UNCHANGED <<cntrl_pkt_it, seen_gsn, tokenVars>>

\* Where a packet of a finished iteration goes: a generated packet becomes a
\* response, any other one is multicast to the shard named by its stream or,
\* without one, by its index; get_shard_port does nothing for unknown shards.
ShardId(p, idx) == IF Stream[p] = 0 THEN idx ELSE Stream[p]

Route(p, idx) ==
    IF p \in Timer THEN "resp"
    ELSE IF ShardId(p, idx) \in ShardKeys THEN "shard" ELSE "unrouted"

\* A later pass (g_idx # 0): the map entry of the packet's iteration is
\* added, and the packet leaves the loop unless its iteration is current.
Recirculate(p) ==
    LET s   == at[p]
        idx == g_idx[p] + map_from_gsn[s][pkt_it[p]]
    IN  /\ stage[p] = "loop"
        /\ g_idx' = [g_idx EXCEPT ![p] = idx]
        /\ stage' = [stage EXCEPT ![p] =
                       IF pkt_it[p] = cntrl_pkt_it[s] THEN "loop" ELSE Route(p, idx)]
        /\ UNCHANGED <<switchVars, tokenVars, at, pkt_it, before>>

\* The queue of the loopback port overflows and drops the packet.
LoseInLoop(p) ==
    /\ stage[p] = "loop"
    /\ stage' = [stage EXCEPT ![p] = "lost"]
    /\ UNCHANGED <<switchVars, tokenVars, at, g_idx, pkt_it, before>>

-----------------------------------------------------------------------------
ringNext ==
    \/ \E c \in Injectors : InjectToken(c) \/ LoseToken(c)
    \/ \E c \in Injectors : CntrlPacket(c) /\ RecirculationKeepsUp(c)
    \/ \E p \in Packets, s \in Switches : FirstPass(p, s)
    \/ \E p \in Packets : Recirculate(p) \/ LoseInLoop(p)

ringSpec == ringInit /\ [][ringNext]_ringVars

-----------------------------------------------------------------------------
(* Properties.                                                             *)

\* Every variable keeps to its set (the widths of the registers apart).
ringTypeOK ==
    /\ local_seq_no \in [Switches -> Nat]
    /\ cntrl_pkt_it \in [Switches -> Slots]
    /\ map_from_gsn \in [Switches -> [Slots -> Nat]]
    /\ seen_gsn     \in [Switches -> Nat]
    /\ token_up     \in [Injectors -> {"unsent", "up", "lost"}]
    /\ token_at     \in [Injectors -> Switches]
    /\ token_gsn    \in [Injectors -> Nat]
    /\ stage        \in [Packets -> Stages]
    /\ at           \in [Packets -> Switches]
    /\ g_idx        \in [Packets -> Nat]
    /\ pkt_it       \in [Packets -> Slots]
    /\ before       \in [Packets -> SUBSET Packets]

\* No two appends leave the ring with the same global index, whichever
\* switches they were batched by (the index is where storage puts the entry).
UniqueIndex ==
    \A p, q \in Sequenced : p # q => g_idx[p] # g_idx[q]

\* An index handed out lies in what a control packet has reserved: an append
\* that added a stale or a repeated base would leave the ring beyond it.
IndexReserved ==
    \A p \in Sequenced : \E c \in Injectors : g_idx[p] \in 1 .. token_gsn[c]

\* Real-time order: an append that reaches the ring after another one was
\* numbered, or after another one entered the same switch, gets a higher
\* index, though the two may be batched by different switches.
OrderRespected ==
    \A p \in Sequenced : \A q \in before[p] \cap Sequenced : g_idx[q] < g_idx[p]

\* The log has no holes: once the open batches are empty and no append is in
\* the loop, every number reserved belongs to an append, lost ones aside.
NoHoles ==
    (/\ \A s \in Switches : local_seq_no[s] = 0
     /\ \A p \in Packets : stage[p] \notin {"loop", "lost"})
    => \A c \in Injectors : 1 .. token_gsn[c] \subseteq {g_idx[p] : p \in Sequenced}

\* What makes the numbering right, as an inductive invariant.  An append in
\* the loop belongs to the open batch of its switch or to a finished one; once
\* its batch is finished, its index is fixed, whether it has left or not.
Looping(p) == stage[p] = "loop"
Current(p) == Looping(p) /\ pkt_it[p] = cntrl_pkt_it[at[p]]
Done(p)    == p \in Sequenced \/ (Looping(p) /\ ~Current(p))
Final(p)   == IF Looping(p) THEN g_idx[p] + map_from_gsn[at[p]][pkt_it[p]] ELSE g_idx[p]

\* Appends of an open batch hold offsets the switch has counted, all different,
\* and the map entry they read on every turn is zero.
OpenBatch ==
    \A p \in Packets : Current(p) =>
      /\ g_idx[p] \in 1 .. local_seq_no[at[p]]
      /\ map_from_gsn[at[p]][pkt_it[p]] = 0
      /\ \A q \in Packets : Current(q) /\ at[q] = at[p] /\ q # p => g_idx[q] # g_idx[p]

\* Appends of finished batches have different indices, which c has reserved.
FinishedBatch ==
    \A p \in Packets : Done(p) =>
      /\ \E c \in Injectors : Final(p) \in 1 .. token_gsn[c]
      /\ \A q \in Packets : Done(q) /\ q # p => Final(q) # Final(p)

\* An append that has to be ordered before another one is done first, or sits
\* in front of it in the same open batch (unless it is lost).
BatchOrder ==
    \A p \in Packets : \A q \in before[p] :
      \/ stage[q] = "lost"
      \/ Done(q) /\ (Done(p) => Final(q) < Final(p))
      \/ Current(q) /\ Current(p) /\ at[q] = at[p] /\ g_idx[q] < g_idx[p]
      \/ stage[p] = "lost"

ringInv == OpenBatch /\ FinishedBatch /\ BatchOrder

\* The ring implements the shared log: the control packet's number is what is
\* reserved, and an append has its place from the pass that leaves the loop.
Owner    == CHOOSE c \in Injectors : TRUE
Log      == INSTANCE SharedLog WITH
              arrived  <- {p \in Packets : stage[p] # "client"},
              preds    <- before,
              reserved <- token_gsn[Owner],
              index    <- [p \in Packets |-> IF p \in Sequenced THEN g_idx[p] ELSE 0]
RingImplementsLog == Log!logSpec

IndexFixedStep ==
    \A p \in Packets :
      Done(p) => \/ Done(p)' /\ Final(p)' = Final(p)
                 \/ stage'[p] = "lost"

\* From the step that closes its batch the index of an append is fixed: nothing
\* that follows, neither later batches that reuse the map nor the counter when
\* it wraps, changes what the append will read, or puts it back into a batch.
IndexFixed == [][IndexFixedStep]_ringVars

\* A ring that has lost a control packet numbers nothing more.
TokenLost == \E c \in Injectors : token_up[c] = "lost"
=============================================================================
