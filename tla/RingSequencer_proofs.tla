----------------------- MODULE RingSequencer_proofs -----------------------
(***************************************************************************)
(* Proofs about RingSequencer, for rings of every size, every set of       *)
(* append packets and every size of the map.                               *)
(***************************************************************************)
EXTENDS RingSequencer, TLAPS

USE DEF Switches, Slots

\* The ring and the iteration counter close: their successors stay in range,
\* and an iteration differs from the next one.
LEMMA RingCloses ==
    /\ \A s \in Switches : NextSwitch(s) \in Switches
    /\ \A i \in Slots : NextIt(i) \in Slots /\ NextIt(i) # i
BY RingAssumption DEF NextSwitch, NextIt

\* Initially every variable has its type.
LEMMA TypeInit == ringInit => ringTypeOK
BY RingAssumption DEF ringInit, ringTypeOK, Stages

\* Every step keeps the types.
LEMMA TypeNext == ringTypeOK /\ [ringNext]_ringVars => ringTypeOK'
<1> SUFFICES ASSUME ringTypeOK, [ringNext]_ringVars PROVE ringTypeOK'
  OBVIOUS
<1>1. ASSUME NEW c \in Injectors, InjectToken(c) \/ LoseToken(c) PROVE ringTypeOK'
  BY <1>1 DEF ringTypeOK, InjectToken, LoseToken, switchVars, packetVars
<1>2. ASSUME NEW c \in Injectors, CntrlPacket(c) PROVE ringTypeOK'
  <2> DEFINE s == token_at[c]
  <2>1. /\ s \in Switches /\ local_seq_no[s] \in Nat /\ token_gsn[c] \in Nat
        /\ cntrl_pkt_it[s] \in Slots
    BY DEF ringTypeOK
  <2>2. NextSwitch(s) \in Switches /\ NextIt(cntrl_pkt_it[s]) \in Slots
    BY <2>1, RingCloses
  <2>3. local_seq_no' \in [Switches -> Nat]
    BY <1>2, <2>1 DEF ringTypeOK, CntrlPacket, read_local_seq_no
  <2>4. map_from_gsn' \in [Switches -> [Slots -> Nat]]
    BY <1>2, <2>1 DEF ringTypeOK, CntrlPacket, add_gsn
  <2>5. cntrl_pkt_it' \in [Switches -> Slots]
    BY <1>2, <2>1, <2>2 DEF ringTypeOK, CntrlPacket, update_cntrl_pkt_it
  <2>6. /\ token_gsn \in [Injectors -> Nat] /\ token_at \in [Injectors -> Switches]
        /\ seen_gsn \in [Switches -> Nat] /\ token_gsn[c] + local_seq_no[s] \in Nat
    BY <2>1 DEF ringTypeOK
  <2>7. token_gsn' \in [Injectors -> Nat]
    BY <1>2, <2>6 DEF CntrlPacket
  <2>8. token_at' \in [Injectors -> Switches]
    BY <1>2, <2>2, <2>6 DEF CntrlPacket
  <2>9. seen_gsn' \in [Switches -> Nat]
    BY <1>2, <2>1, <2>6 DEF CntrlPacket
  <2> QED
    BY <1>2, <2>3, <2>4, <2>5, <2>7, <2>8, <2>9 DEF ringTypeOK, CntrlPacket, packetVars
<1>3. ASSUME NEW p \in Packets, NEW s \in Switches, FirstPass(p, s) PROVE ringTypeOK'
  <2>1. map_from_gsn' \in [Switches -> [Slots -> Nat]]
    BY <1>3 DEF ringTypeOK, FirstPass, zero_gsn
  <2>2. local_seq_no[s] + 1 \in Nat /\ cntrl_pkt_it[s] \in Slots
    BY DEF ringTypeOK
  <2>4. local_seq_no' \in [Switches -> Nat] /\ g_idx' \in [Packets -> Nat]
    BY <1>3, <2>2 DEF ringTypeOK, FirstPass, write_local_seq_no
  <2>5. pkt_it' \in [Packets -> Slots] /\ at' \in [Packets -> Switches]
    BY <1>3, <2>2 DEF ringTypeOK, FirstPass
  <2>6. stage' \in [Packets -> Stages]
    BY <1>3 DEF ringTypeOK, FirstPass, Stages
  <2>3. before' \in [Packets -> SUBSET Packets]
    BY <1>3 DEF ringTypeOK, FirstPass, Sequenced
  <2> QED
    BY <1>3, <2>1, <2>3, <2>4, <2>5, <2>6 DEF ringTypeOK, FirstPass, tokenVars
<1>4. ASSUME NEW p \in Packets, Recirculate(p) PROVE ringTypeOK'
  <2>1. g_idx[p] + map_from_gsn[at[p]][pkt_it[p]] \in Nat
    <3>1. at[p] \in Switches /\ pkt_it[p] \in Slots /\ g_idx[p] \in Nat
      BY DEF ringTypeOK
    <3>2. map_from_gsn[at[p]] \in [Slots -> Nat]
      BY <3>1 DEF ringTypeOK
    <3>3. map_from_gsn[at[p]][pkt_it[p]] \in Nat
      BY <3>1, <3>2
    <3> QED
      BY <3>1, <3>3
  <2>2. g_idx' \in [Packets -> Nat] /\ stage' \in [Packets -> Stages]
    BY <1>4, <2>1 DEF ringTypeOK, Recirculate, Route, Stages
  <2> QED
    BY <1>4, <2>2 DEF ringTypeOK, Recirculate, switchVars, tokenVars
<1>5. ASSUME NEW p \in Packets, LoseInLoop(p) PROVE ringTypeOK'
  BY <1>5 DEF ringTypeOK, LoseInLoop, Stages, switchVars, tokenVars
<1>6. CASE UNCHANGED ringVars
  BY <1>6 DEF ringTypeOK, ringVars, switchVars, tokenVars, packetVars
<1> QED
  BY <1>1, <1>2, <1>3, <1>4, <1>5, <1>6 DEF ringNext

\* Every variable of the ring keeps to its set, on every run.
THEOREM RingTypeCorrect == ringSpec => []ringTypeOK
BY TypeInit, TypeNext, PTL DEF ringSpec

-----------------------------------------------------------------------------
(* The numbering, for a ring with one control packet.                      *)

\* What an append in the loop reads has its type.
LEMMA LoopReads ==
    ASSUME ringTypeOK, NEW p \in Packets
    PROVE  /\ at[p] \in Switches /\ pkt_it[p] \in Slots /\ g_idx[p] \in Nat
           /\ cntrl_pkt_it[at[p]] \in Slots /\ local_seq_no[at[p]] \in Nat
           /\ map_from_gsn[at[p]][pkt_it[p]] \in Nat /\ Final(p) \in Nat
<1>1. at[p] \in Switches /\ pkt_it[p] \in Slots /\ g_idx[p] \in Nat
  BY DEF ringTypeOK
<1>2. cntrl_pkt_it[at[p]] \in Slots /\ local_seq_no[at[p]] \in Nat
  BY <1>1 DEF ringTypeOK
<1>3. map_from_gsn[at[p]] \in [Slots -> Nat]
  BY <1>1 DEF ringTypeOK
<1>4. map_from_gsn[at[p]][pkt_it[p]] \in Nat
  BY <1>1, <1>3
<1> QED
  BY <1>1, <1>2, <1>4 DEF Final

\* Initially no append is in the loop or numbered.
LEMMA InvInit == ringInit => ringInv
BY DEF ringInit, ringInv, OpenBatch, FinishedBatch, BatchOrder, Current, Done,
       Looping, Sequenced

\* A control packet that finds the batch of its switch empty disturbs no append:
\* no append is current at the switch, and only the current entry is written.
LEMMA InvEmptyBatch ==
    ASSUME ringTypeOK, ringInv, NEW c, Injectors = {c},
           CntrlPacket(c), local_seq_no[token_at[c]] = 0
    PROVE  ringInv'
<1> DEFINE s == token_at[c]
           it == cntrl_pkt_it[s]
<1>1. /\ c \in Injectors /\ s \in Switches /\ it \in Slots /\ token_gsn[c] \in Nat
  BY DEF ringTypeOK
<1>2. \A p \in Packets : Current(p) => at[p] # s
  BY LoopReads DEF ringInv, OpenBatch
<1>3. UNCHANGED <<stage, at, g_idx, pkt_it, before, cntrl_pkt_it, local_seq_no>>
  BY <1>1 DEF CntrlPacket, packetVars, update_cntrl_pkt_it, read_local_seq_no, ringTypeOK
<1>4. token_gsn'[c] = token_gsn[c]
  BY <1>1 DEF CntrlPacket, ringTypeOK
<1>5. \A p \in Packets :
        Looping(p) => map_from_gsn'[at[p]][pkt_it[p]] = map_from_gsn[at[p]][pkt_it[p]]
                      \/ (at[p] = s /\ pkt_it[p] = it)
  BY <1>1, LoopReads DEF CntrlPacket, add_gsn, ringTypeOK
<1>6. \A p \in Packets : /\ Looping(p)' = Looping(p)
                         /\ Current(p)' = Current(p)
                         /\ Done(p)' = Done(p)
  BY <1>3 DEF Looping, Current, Done, Sequenced
<1>7. \A p \in Packets :
        Looping(p) => map_from_gsn'[at[p]][pkt_it[p]] = map_from_gsn[at[p]][pkt_it[p]]
  BY <1>2, <1>5 DEF Current
<1>8. \A p \in Packets : Final(p)' = Final(p)
  BY <1>3, <1>6, <1>7 DEF Final
<1>9. OpenBatch'
  BY <1>3, <1>6, <1>7 DEF ringInv, OpenBatch, Current
<1>10. FinishedBatch'
  BY <1>4, <1>6, <1>8 DEF ringInv, FinishedBatch
<1>11. BatchOrder'
  BY <1>3, <1>6, <1>8, LoopReads DEF ringInv, BatchOrder, ringTypeOK
<1> QED
  BY <1>9, <1>10, <1>11 DEF ringInv

\* A control packet that closes a batch turns the current appends of its switch
\* into finished ones, above every index finished before.
LEMMA InvCloseBatch ==
    ASSUME ringTypeOK, ringInv, NEW c, Injectors = {c},
           CntrlPacket(c), RecirculationKeepsUp(c), local_seq_no[token_at[c]] # 0
    PROVE  ringInv'
<1> DEFINE s == token_at[c]
           n == local_seq_no[s]
           it == cntrl_pkt_it[s]
           Closed(p) == Current(p) /\ at[p] = s
<1>1. /\ c \in Injectors /\ s \in Switches /\ it \in Slots /\ token_gsn[c] \in Nat
      /\ n \in Nat
  BY DEF ringTypeOK
<1>2. NextIt(it) \in Slots /\ NextIt(it) # it
  BY <1>1, RingCloses
<1>3. UNCHANGED <<stage, at, g_idx, pkt_it, before>>
  BY DEF CntrlPacket, packetVars
<1>4. token_gsn'[c] = token_gsn[c] + n
  BY <1>1 DEF CntrlPacket, ringTypeOK
<1>5. /\ cntrl_pkt_it'[s] = NextIt(it)
      /\ \A t \in Switches : t # s => /\ cntrl_pkt_it'[t] = cntrl_pkt_it[t]
                                      /\ local_seq_no'[t] = local_seq_no[t]
  BY <1>1 DEF CntrlPacket, update_cntrl_pkt_it, read_local_seq_no, ringTypeOK
<1>6. \A p \in Packets :
        map_from_gsn'[at[p]][pkt_it[p]] =
          IF at[p] = s /\ pkt_it[p] = it THEN token_gsn[c] ELSE map_from_gsn[at[p]][pkt_it[p]]
  BY <1>1, LoopReads DEF CntrlPacket, add_gsn, ringTypeOK
<1>7. \A p \in Packets : Looping(p) /\ at[p] = s => pkt_it[p] # NextIt(it)
  BY DEF RecirculationKeepsUp, Looping
<1>8. \A p \in Packets : Looping(p)' = Looping(p) /\ (p \in Sequenced)' = (p \in Sequenced)
  BY <1>3 DEF Looping, Sequenced
<1>9. \A p \in Packets : Current(p)' <=> Current(p) /\ at[p] # s
  BY <1>3, <1>5, <1>7, <1>8, LoopReads DEF Current
<1>10. \A p \in Packets : Done(p)' <=> Done(p) \/ Closed(p)
  BY <1>8, <1>9 DEF Done, Current
<1>11. \A p \in Packets : Done(p) => Final(p)' = Final(p)
  BY <1>3, <1>6, <1>8 DEF Done, Final, Current, Sequenced, Looping
<1>12. \A p \in Packets : Closed(p) => /\ Final(p)' = g_idx[p] + token_gsn[c]
                                       /\ g_idx[p] \in 1 .. n
  BY <1>3, <1>6, <1>8 DEF Final, Current, ringInv, OpenBatch
<1>13. \A p \in Packets : Done(p) => Final(p) \in 1 .. token_gsn[c]
  BY DEF ringInv, FinishedBatch
<1>14. OpenBatch'
  BY <1>3, <1>5, <1>6, <1>9, LoopReads DEF ringInv, OpenBatch
<1>15. FinishedBatch'
  <2> SUFFICES ASSUME NEW p \in Packets, Done(p)'
               PROVE  /\ Final(p)' \in 1 .. token_gsn'[c]
                      /\ \A q \in Packets : Done(q)' /\ q # p => Final(q)' # Final(p)'
    BY <1>1 DEF FinishedBatch
  <2>1. Final(p)' \in 1 .. token_gsn'[c]
    BY <1>1, <1>4, <1>10, <1>11, <1>12, <1>13, LoopReads
  <2>2. ASSUME NEW q \in Packets, Done(q)', q # p PROVE Final(q)' # Final(p)'
    <3>1. CASE Done(p) /\ Done(q)
      BY <1>11, <2>2, <3>1 DEF ringInv, FinishedBatch
    <3>2. CASE Closed(p) /\ Closed(q)
      <4>1. g_idx[p] # g_idx[q]
        BY <2>2, <3>2 DEF ringInv, OpenBatch
      <4>2. g_idx[p] \in Nat /\ g_idx[q] \in Nat
        BY LoopReads
      <4>3. /\ Final(p)' = g_idx[p] + token_gsn[c]
            /\ Final(q)' = g_idx[q] + token_gsn[c]
        BY <1>12, <3>2
      <4> QED
        BY <1>1, <4>1, <4>2, <4>3
    <3>3. CASE (Done(p) /\ Closed(q)) \/ (Done(q) /\ Closed(p))
      BY <1>1, <1>11, <1>12, <1>13, <3>3
    <3> QED
      BY <1>10, <2>2, <3>1, <3>2, <3>3
  <2> QED
    BY <2>1, <2>2
<1>16. BatchOrder'
  <2> SUFFICES ASSUME NEW p \in Packets, NEW q \in before[p]
               PROVE  \/ stage[q] = "lost"
                      \/ Done(q)' /\ (Done(p)' => Final(q)' < Final(p)')
                      \/ /\ Current(q)' /\ Current(p)' /\ at[q] = at[p]
                         /\ g_idx[q] < g_idx[p]
                      \/ stage[p] = "lost"
    BY <1>3 DEF BatchOrder
  <2>1. q \in Packets
    BY DEF ringTypeOK
  <2>2. CASE Done(q) /\ (Done(p) => Final(q) < Final(p))
    BY <1>1, <1>10, <1>11, <1>12, <1>13, <2>1, <2>2
  <2>3. CASE Current(q) /\ Current(p) /\ at[q] = at[p] /\ g_idx[q] < g_idx[p]
    BY <1>1, <1>9, <1>10, <1>12, <2>1, <2>3, LoopReads
  <2> QED
    BY <2>1, <2>2, <2>3 DEF ringInv, BatchOrder
<1> QED
  BY <1>14, <1>15, <1>16 DEF ringInv

\* An append that enters takes a new offset, above all of its open batch.
LEMMA InvFirstPass ==
    ASSUME ringTypeOK, ringInv, NEW c, Injectors = {c},
           NEW p0 \in Packets, NEW s \in Switches, FirstPass(p0, s)
    PROVE  ringInv'
<1> DEFINE it == cntrl_pkt_it[s]
<1>1. it \in Slots /\ local_seq_no[s] \in Nat
  BY DEF ringTypeOK
<1>2. UNCHANGED <<cntrl_pkt_it, token_gsn>>
  BY DEF FirstPass, tokenVars
<1>3. /\ stage[p0] = "client" /\ stage'[p0] = "loop" /\ at'[p0] = s
      /\ g_idx'[p0] = local_seq_no[s] + 1 /\ pkt_it'[p0] = it
      /\ before'[p0] = Sequenced \cup {q \in Packets : Looping(q) /\ at[q] = s}
  BY DEF FirstPass, Looping, ringTypeOK
<1>4. \A p \in Packets : p # p0 =>
        /\ stage'[p] = stage[p] /\ at'[p] = at[p] /\ g_idx'[p] = g_idx[p]
        /\ pkt_it'[p] = pkt_it[p] /\ before'[p] = before[p]
  BY DEF FirstPass, ringTypeOK
<1>5. /\ local_seq_no'[s] = local_seq_no[s] + 1
      /\ \A t \in Switches : t # s => local_seq_no'[t] = local_seq_no[t]
  BY DEF FirstPass, write_local_seq_no, ringTypeOK
<1>6. \A t \in Switches, i \in Slots :
        map_from_gsn'[t][i] = IF t = s /\ i = it THEN 0 ELSE map_from_gsn[t][i]
  BY <1>1 DEF FirstPass, zero_gsn, ringTypeOK
<1>7. ~Looping(p0) /\ ~Current(p0) /\ ~Done(p0) /\ Looping(p0)' /\ Current(p0)' /\ ~Done(p0)'
  BY <1>2, <1>3 DEF Looping, Current, Done, Sequenced
<1>8. \A p \in Packets : p # p0 => /\ Looping(p)' = Looping(p)
                                  /\ Current(p)' = Current(p)
                                  /\ Done(p)' = Done(p)
  BY <1>2, <1>4 DEF Looping, Current, Done, Sequenced
<1>9. \A p \in Packets : Done(p) => Final(p)' = Final(p)
  BY <1>4, <1>6, <1>7, LoopReads DEF Done, Final, Current, Sequenced, Looping
<1>10. OpenBatch'
  <2> SUFFICES ASSUME NEW p \in Packets, Current(p)'
               PROVE  /\ g_idx'[p] \in 1 .. local_seq_no'[at'[p]]
                      /\ map_from_gsn'[at'[p]][pkt_it'[p]] = 0
                      /\ \A q \in Packets :
                           Current(q)' /\ at'[q] = at'[p] /\ q # p => g_idx'[q] # g_idx'[p]
    BY DEF OpenBatch
  <2>1. \A q \in Packets : Current(q) =>
          /\ g_idx[q] \in 1 .. local_seq_no[at[q]]
          /\ map_from_gsn[at[q]][pkt_it[q]] = 0
    BY DEF ringInv, OpenBatch
  <2>2. CASE p = p0
    BY <1>1, <1>3, <1>4, <1>5, <1>6, <1>8, <2>1, <2>2
  <2>3. CASE p # p0
    <3>1. Current(p)
      BY <1>8, <2>3
    <3>2. g_idx'[p] \in 1 .. local_seq_no'[at'[p]] /\ map_from_gsn'[at'[p]][pkt_it'[p]] = 0
      BY <1>1, <1>4, <1>5, <1>6, <2>1, <2>3, <3>1, LoopReads
    <3>3. ASSUME NEW q \in Packets, Current(q)', at'[q] = at'[p], q # p
          PROVE  g_idx'[q] # g_idx'[p]
      <4>1. CASE q = p0
        BY <1>1, <1>3, <1>4, <2>1, <2>3, <3>1, <3>3, <4>1
      <4>2. CASE q # p0
        BY <1>4, <1>8, <2>3, <3>1, <3>3, <4>2 DEF ringInv, OpenBatch
      <4> QED
        BY <4>1, <4>2
    <3> QED
      BY <3>2, <3>3
  <2> QED
    BY <2>2, <2>3
<1>11. FinishedBatch'
  BY <1>2, <1>7, <1>8, <1>9 DEF ringInv, FinishedBatch
<1>12. BatchOrder'
  <2> SUFFICES ASSUME NEW p \in Packets, NEW q \in before'[p]
               PROVE  \/ stage'[q] = "lost"
                      \/ Done(q)' /\ (Done(p)' => Final(q)' < Final(p)')
                      \/ /\ Current(q)' /\ Current(p)' /\ at'[q] = at'[p]
                         /\ g_idx'[q] < g_idx'[p]
                      \/ stage'[p] = "lost"
    BY DEF BatchOrder
  <2>1. CASE p = p0
    <3>1. q \in Packets /\ q # p0 /\ (Done(q) \/ (Current(q) /\ at[q] = s))
      BY <1>3, <1>7, <2>1 DEF Done, Sequenced, Looping
    <3>2. CASE Done(q)
      BY <1>7, <1>8, <2>1, <3>1, <3>2
    <3>3. CASE Current(q) /\ at[q] = s
      <4>1. g_idx[q] \in 1 .. local_seq_no[s]
        BY <3>1, <3>3 DEF ringInv, OpenBatch
      <4> QED
        BY <1>1, <1>3, <1>4, <1>7, <1>8, <2>1, <3>1, <3>3, <4>1
    <3> QED
      BY <3>1, <3>2, <3>3
  <2>2. CASE p # p0
    <3>1. q \in before[p] /\ q \in Packets
      BY <1>4, <2>2 DEF ringTypeOK
    <3>2. CASE q = p0
      BY <1>3, <1>4, <1>7, <2>2, <3>1, <3>2 DEF ringInv, BatchOrder
    <3>3. CASE q # p0
      BY <1>4, <1>8, <1>9, <2>2, <3>1, <3>3 DEF ringInv, BatchOrder
    <3> QED
      BY <3>2, <3>3
  <2> QED
    BY <2>1, <2>2
<1> QED
  BY <1>10, <1>11, <1>12 DEF ringInv

\* A turn of the loop leaves an append of the open batch as it is, and gives an
\* append of a finished batch the index that was fixed when the batch closed.
LEMMA InvRecirculate ==
    ASSUME ringTypeOK, ringInv, NEW p0 \in Packets, Recirculate(p0)
    PROVE  ringInv'
<1>1. UNCHANGED <<cntrl_pkt_it, token_gsn, local_seq_no, map_from_gsn, at, pkt_it, before>>
  BY DEF Recirculate, switchVars, tokenVars
<1>2. \A p \in Packets : p # p0 => stage'[p] = stage[p] /\ g_idx'[p] = g_idx[p]
  BY DEF Recirculate, ringTypeOK
<1>3. Looping(p0)
  BY DEF Recirculate, Looping
<1>4. g_idx'[p0] = g_idx[p0] + map_from_gsn[at[p0]][pkt_it[p0]]
  BY DEF Recirculate, ringTypeOK
<1>5. stage'[p0] = IF Current(p0) THEN "loop" ELSE Route(p0, g_idx'[p0])
  BY <1>3, <1>4 DEF Recirculate, ringTypeOK, Current
<1>6. Route(p0, g_idx'[p0]) \in {"shard", "resp", "unrouted"}
  BY DEF Route
<1>7. Current(p0) => g_idx'[p0] = g_idx[p0]
  BY <1>4, LoopReads DEF ringInv, OpenBatch
<1>8. \A p \in Packets : Current(p)' = Current(p)
  BY <1>1, <1>2, <1>3, <1>5, <1>6 DEF Current, Looping
<1>9. \A p \in Packets : Done(p)' = Done(p)
  BY <1>1, <1>2, <1>3, <1>5, <1>6, <1>8 DEF Done, Current, Looping, Sequenced
<1>10. \A p \in Packets : Done(p) => Final(p)' = Final(p)
  BY <1>1, <1>2, <1>3, <1>4, <1>5, <1>6 DEF Done, Final, Looping, Sequenced
<1>11. \A p \in Packets : Current(p) => g_idx'[p] = g_idx[p]
  BY <1>2, <1>7
<1>12. \A p \in Packets : stage[p] = "lost" => stage'[p] = "lost"
  BY <1>2, <1>3 DEF Looping
<1>13. OpenBatch'
  BY <1>1, <1>8, <1>11 DEF ringInv, OpenBatch
<1>14. FinishedBatch'
  BY <1>1, <1>9, <1>10 DEF ringInv, FinishedBatch
<1>15. BatchOrder'
  <2>1. \A p \in Packets : before[p] \subseteq Packets
    BY DEF ringTypeOK
  <2> QED
    BY <1>1, <1>8, <1>9, <1>10, <1>11, <1>12, <2>1 DEF ringInv, BatchOrder
<1> QED
  BY <1>13, <1>14, <1>15 DEF ringInv

\* A lost append only leaves a gap.
LEMMA InvLose ==
    ASSUME ringTypeOK, ringInv, NEW p0 \in Packets, LoseInLoop(p0)
    PROVE  ringInv'
<1>1. UNCHANGED <<cntrl_pkt_it, token_gsn, local_seq_no, map_from_gsn, at, pkt_it, before,
                  g_idx>>
  BY DEF LoseInLoop, switchVars, tokenVars
<1>2. /\ stage'[p0] = "lost"
      /\ \A p \in Packets : p # p0 => stage'[p] = stage[p]
  BY DEF LoseInLoop, ringTypeOK
<1>3. /\ ~Current(p0)' /\ ~Done(p0)'
      /\ \A p \in Packets : p # p0 => Current(p)' = Current(p) /\ Done(p)' = Done(p)
  BY <1>1, <1>2 DEF Current, Done, Looping, Sequenced
<1>4. \A p \in Packets : p # p0 => Final(p)' = Final(p)
  BY <1>1, <1>2 DEF Final, Looping
<1>5. OpenBatch'
  BY <1>1, <1>3 DEF ringInv, OpenBatch
<1>6. FinishedBatch'
  BY <1>1, <1>3, <1>4 DEF ringInv, FinishedBatch
<1>7. BatchOrder'
  <2>1. \A p \in Packets : before[p] \subseteq Packets
    BY DEF ringTypeOK
  <2> QED
    BY <1>1, <1>2, <1>3, <1>4, <2>1 DEF ringInv, BatchOrder
<1> QED
  BY <1>5, <1>6, <1>7 DEF ringInv

\* Every step of a ring with one control packet keeps the numbering invariant.
LEMMA InvNext ==
    ASSUME NEW c, Injectors = {c}, ringTypeOK, ringInv, [ringNext]_ringVars
    PROVE  ringInv'
<1>1. CASE InjectToken(c) \/ LoseToken(c)
  BY <1>1 DEF InjectToken, LoseToken, switchVars, packetVars, ringInv, OpenBatch, FinishedBatch,
              BatchOrder, Current, Done, Final, Looping, Sequenced
<1>2. CASE CntrlPacket(c) /\ RecirculationKeepsUp(c)
  BY <1>2, InvEmptyBatch, InvCloseBatch
<1>3. ASSUME NEW p \in Packets, NEW s \in Switches, FirstPass(p, s) PROVE ringInv'
  BY <1>3, InvFirstPass
<1>4. ASSUME NEW p \in Packets, Recirculate(p) PROVE ringInv'
  BY <1>4, InvRecirculate
<1>5. ASSUME NEW p \in Packets, LoseInLoop(p) PROVE ringInv'
  BY <1>5, InvLose
<1>6. CASE UNCHANGED ringVars
  BY <1>6 DEF ringVars, switchVars, tokenVars, packetVars, ringInv, OpenBatch,
              FinishedBatch, BatchOrder, Current, Done, Final, Looping, Sequenced
<1> QED
  BY <1>1, <1>2, <1>3, <1>4, <1>5, <1>6 DEF ringNext

\* The numbering invariant holds on every run of a ring with one control packet.
THEOREM RingInvariant ==
    ASSUME NEW c, Injectors = {c}
    PROVE  ringSpec => []ringInv
<1>1. ringTypeOK /\ ringInv /\ [ringNext]_ringVars => ringInv'
  BY InvNext
<1> QED
  BY <1>1, InvInit, RingTypeCorrect, PTL DEF ringSpec

\* Whatever batches the appends of a ring with one control packet fall into, no
\* two of them leave the ring with the same index.
THEOREM RingUnique ==
    ASSUME NEW c, Injectors = {c}
    PROVE  ringSpec => []UniqueIndex
<1>1. ringInv => UniqueIndex
  BY DEF ringInv, FinishedBatch, UniqueIndex, Done, Final, Looping, Sequenced
<1> QED
  BY <1>1, RingInvariant, PTL

\* The index of an append is one the control packet has reserved.
THEOREM RingReserved ==
    ASSUME NEW c, Injectors = {c}
    PROVE  ringSpec => []IndexReserved
<1>1. ringInv => IndexReserved
  BY DEF ringInv, FinishedBatch, IndexReserved, Done, Final, Looping, Sequenced
<1> QED
  BY <1>1, RingInvariant, PTL

\* Appends are numbered in real-time order, over all the switches of the ring.
THEOREM RingOrdered ==
    ASSUME NEW c, Injectors = {c}
    PROVE  ringSpec => []OrderRespected
<1>1. ringInv => OrderRespected
  BY DEF ringInv, BatchOrder, OrderRespected, Done, Final, Current, Looping, Sequenced
<1> QED
  BY <1>1, RingInvariant, PTL

\* While no append has been lost, every offset of an open batch and every number
\* reserved belongs to an append.
Dense ==
    (\A p \in Packets : stage[p] # "lost") =>
      /\ \A s \in Switches : \A k \in 1 .. local_seq_no[s] :
           \E p \in Packets : Current(p) /\ at[p] = s /\ g_idx[p] = k
      /\ \A c \in Injectors : \A k \in 1 .. token_gsn[c] :
           \E p \in Packets : Done(p) /\ Final(p) = k

\* A control packet hands the offsets of the batch it closes over to the numbers
\* it reserves.
LEMMA DenseCntrlPacket ==
    ASSUME ringTypeOK, ringInv, Dense, NEW c, Injectors = {c},
           CntrlPacket(c), RecirculationKeepsUp(c), \A p \in Packets : stage[p] # "lost"
    PROVE  Dense'
<1> DEFINE s == token_at[c]
           n == local_seq_no[s]
           it == cntrl_pkt_it[s]
           Closed(p) == Current(p) /\ at[p] = s
<1>1. /\ c \in Injectors /\ s \in Switches /\ it \in Slots /\ token_gsn[c] \in Nat
      /\ n \in Nat
  BY DEF ringTypeOK
<1>2. UNCHANGED <<stage, at, g_idx, pkt_it>>
  BY DEF CntrlPacket, packetVars
<1>3. /\ token_gsn'[c] = token_gsn[c] + n
      /\ local_seq_no'[s] = 0
      /\ \A t \in Switches : t # s => /\ local_seq_no'[t] = local_seq_no[t]
                                      /\ cntrl_pkt_it'[t] = cntrl_pkt_it[t]
      /\ cntrl_pkt_it'[s] = IF n # 0 THEN NextIt(it) ELSE it
  BY <1>1 DEF CntrlPacket, read_local_seq_no, update_cntrl_pkt_it, ringTypeOK
<1>4. \A p \in Packets :
        map_from_gsn'[at[p]][pkt_it[p]] =
          IF at[p] = s /\ pkt_it[p] = it THEN token_gsn[c] ELSE map_from_gsn[at[p]][pkt_it[p]]
  BY <1>1, LoopReads DEF CntrlPacket, add_gsn, ringTypeOK
<1>5. \A p \in Packets : Looping(p)' = Looping(p) /\ (p \in Sequenced)' = (p \in Sequenced)
  BY <1>2 DEF Looping, Sequenced
<1>6. NextIt(it) # it
  BY <1>1, RingCloses
<1>7. \A p \in Packets : Current(p) /\ at[p] # s => Current(p)' /\ at'[p] = at[p]
  BY <1>2, <1>3, <1>5, LoopReads DEF Current
<1>8. n = 0 => \A p \in Packets : Current(p) => at[p] # s
  BY LoopReads DEF ringInv, OpenBatch
<1>9. \A p \in Packets : Done(p) => Done(p)' /\ Final(p)' = Final(p)
  <2> SUFFICES ASSUME NEW p \in Packets, Done(p) PROVE Done(p)' /\ Final(p)' = Final(p)
    OBVIOUS
  <2>1. Looping(p) => pkt_it[p] # cntrl_pkt_it[at[p]]
    BY DEF Done, Current, Looping, Sequenced
  <2>2. Looping(p) => pkt_it[p] # cntrl_pkt_it'[at[p]]
    BY <1>3, <2>1, LoopReads DEF RecirculationKeepsUp, Looping
  <2> QED
    BY <1>2, <1>4, <1>5, <2>1, <2>2 DEF Done, Current, Final, Looping
<1>10. \A p \in Packets : Closed(p) => Done(p)' /\ Final(p)' = g_idx[p] + token_gsn[c]
  BY <1>2, <1>3, <1>4, <1>5, <1>6, <1>8 DEF Done, Current, Final
<1>11. \A t \in Switches : \A k \in 1 .. local_seq_no'[t] :
         \E p \in Packets : Current(p)' /\ at'[p] = t /\ g_idx'[p] = k
  <2> SUFFICES ASSUME NEW t \in Switches, NEW k \in 1 .. local_seq_no'[t]
               PROVE  \E p \in Packets : Current(p)' /\ at'[p] = t /\ g_idx'[p] = k
    OBVIOUS
  <2>1. t # s /\ k \in 1 .. local_seq_no[t]
    BY <1>3
  <2>2. PICK p \in Packets : Current(p) /\ at[p] = t /\ g_idx[p] = k
    BY <2>1 DEF Dense
  <2> QED
    BY <1>2, <1>7, <2>1, <2>2
<1>12. \A k \in 1 .. token_gsn'[c] : \E p \in Packets : Done(p)' /\ Final(p)' = k
  <2> SUFFICES ASSUME NEW k \in 1 .. token_gsn'[c]
               PROVE  \E p \in Packets : Done(p)' /\ Final(p)' = k
    OBVIOUS
  <2>1. CASE k <= token_gsn[c]
    <3>1. PICK p \in Packets : Done(p) /\ Final(p) = k
      BY <1>1, <2>1 DEF Dense
    <3> QED
      BY <1>9, <3>1
  <2>2. CASE k > token_gsn[c]
    <3>1. k - token_gsn[c] \in 1 .. n
      BY <1>1, <1>3, <2>2
    <3>2. PICK p \in Packets : Closed(p) /\ g_idx[p] = k - token_gsn[c]
      BY <1>1, <3>1 DEF Dense
    <3> QED
      BY <1>1, <1>10, <3>2
  <2> QED
    BY <1>1, <2>1, <2>2
<1> QED
  BY <1>11, <1>12 DEF Dense

\* Every step of a ring with one control packet keeps the numbers dense.
LEMMA DenseNext ==
    ASSUME NEW c, Injectors = {c}, ringTypeOK, ringInv, Dense, [ringNext]_ringVars
    PROVE  Dense'
<1> SUFFICES ASSUME \A p \in Packets : stage'[p] # "lost" PROVE Dense'
  BY DEF Dense
<1>1. CASE InjectToken(c) \/ LoseToken(c)
  BY <1>1 DEF InjectToken, LoseToken, switchVars, packetVars, Dense, Current, Done, Final, Looping,
              Sequenced
<1>2. CASE CntrlPacket(c) /\ RecirculationKeepsUp(c)
  <2>1. \A p \in Packets : stage[p] # "lost"
    BY <1>2 DEF CntrlPacket, packetVars
  <2> QED
    BY <1>2, <2>1, DenseCntrlPacket
<1>3. ASSUME NEW p0 \in Packets, NEW s \in Switches, FirstPass(p0, s) PROVE Dense'
  <2>1. /\ stage[p0] = "client" /\ stage'[p0] = "loop" /\ at'[p0] = s
        /\ g_idx'[p0] = local_seq_no[s] + 1 /\ pkt_it'[p0] = cntrl_pkt_it[s]
        /\ UNCHANGED <<cntrl_pkt_it, token_gsn>>
    BY <1>3 DEF FirstPass, tokenVars, ringTypeOK
  <2>2. \A p \in Packets : p # p0 =>
          /\ stage'[p] = stage[p] /\ at'[p] = at[p] /\ g_idx'[p] = g_idx[p]
          /\ pkt_it'[p] = pkt_it[p]
    BY <1>3 DEF FirstPass, ringTypeOK
  <2>3. /\ local_seq_no[s] \in Nat /\ local_seq_no'[s] = local_seq_no[s] + 1
        /\ \A t \in Switches : t # s => local_seq_no'[t] = local_seq_no[t]
    BY <1>3 DEF FirstPass, write_local_seq_no, ringTypeOK
  <2>4. \A p \in Packets : Current(p) => p # p0 /\ Current(p)'
    BY <2>1, <2>2 DEF Current, Looping
  <2>5. \A p \in Packets : Done(p) => p # p0 /\ Done(p)' /\ Final(p)' = Final(p)
    <3>1. \A t \in Switches, i \in Slots :
            map_from_gsn'[t][i] = IF t = s /\ i = cntrl_pkt_it[s] THEN 0 ELSE map_from_gsn[t][i]
      BY <1>3 DEF FirstPass, zero_gsn, ringTypeOK
    <3> QED
      BY <2>1, <2>2, <3>1, LoopReads DEF Done, Final, Current, Sequenced, Looping
  <2>6. \A p \in Packets : stage[p] # "lost"
    BY <2>1, <2>2
  <2>7. \A t \in Switches : \A k \in 1 .. local_seq_no'[t] :
          \E p \in Packets : Current(p)' /\ at'[p] = t /\ g_idx'[p] = k
    <3> SUFFICES ASSUME NEW t \in Switches, NEW k \in 1 .. local_seq_no'[t]
                 PROVE  \E p \in Packets : Current(p)' /\ at'[p] = t /\ g_idx'[p] = k
      OBVIOUS
    <3>1. CASE t = s /\ k = local_seq_no[s] + 1
      BY <2>1, <3>1 DEF Current, Looping
    <3>2. CASE ~(t = s /\ k = local_seq_no[s] + 1)
      <4>1. k \in 1 .. local_seq_no[t]
        BY <2>3, <3>2
      <4>2. PICK p \in Packets : Current(p) /\ at[p] = t /\ g_idx[p] = k
        BY <2>6, <4>1 DEF Dense
      <4> QED
        BY <2>2, <2>4, <4>2
    <3> QED
      BY <3>1, <3>2
  <2>8. \A k \in 1 .. token_gsn'[c] : \E p \in Packets : Done(p)' /\ Final(p)' = k
    BY <2>1, <2>5, <2>6 DEF Dense
  <2> QED
    BY <2>7, <2>8 DEF Dense
<1>4. ASSUME NEW p0 \in Packets, Recirculate(p0) PROVE Dense'
  <2>1. /\ UNCHANGED <<cntrl_pkt_it, token_gsn, local_seq_no, map_from_gsn, at, pkt_it>>
        /\ Looping(p0)
        /\ \A p \in Packets : p # p0 => stage'[p] = stage[p] /\ g_idx'[p] = g_idx[p]
    BY <1>4 DEF Recirculate, switchVars, tokenVars, ringTypeOK, Looping
  <2>2. g_idx'[p0] = g_idx[p0] + map_from_gsn[at[p0]][pkt_it[p0]]
    BY <1>4 DEF Recirculate, ringTypeOK
  <2>3. stage'[p0] = IF Current(p0) THEN "loop" ELSE Route(p0, g_idx'[p0])
    BY <1>4, <2>1, <2>2 DEF Recirculate, ringTypeOK, Current
  <2>4. Route(p0, g_idx'[p0]) \in {"shard", "resp", "unrouted"}
    BY DEF Route
  <2>5. \A p \in Packets : Current(p) => Current(p)' /\ g_idx'[p] = g_idx[p]
    <3>1. Current(p0) => g_idx'[p0] = g_idx[p0]
      BY <2>2, LoopReads DEF ringInv, OpenBatch
    <3> QED
      BY <2>1, <2>3, <3>1 DEF Current, Looping
  <2>6. \A p \in Packets : Done(p) => Done(p)' /\ Final(p)' = Final(p)
    BY <2>1, <2>2, <2>3, <2>4 DEF Done, Final, Current, Looping, Sequenced
  <2>7. \A p \in Packets : stage[p] # "lost"
    BY <2>1 DEF Looping
  <2> QED
    BY <2>1, <2>5, <2>6, <2>7 DEF Dense
<1>5. ASSUME NEW p \in Packets, LoseInLoop(p) PROVE Dense'
  BY <1>5 DEF LoseInLoop, ringTypeOK
<1>6. CASE UNCHANGED ringVars
  BY <1>6 DEF ringVars, switchVars, tokenVars, packetVars, Dense, Current, Done, Final,
              Looping, Sequenced
<1> QED
  BY <1>1, <1>2, <1>3, <1>4, <1>5, <1>6 DEF ringNext

\* The log of a ring with one control packet has no holes: once everything that
\* was batched has left the loop, each number reserved is the index of an append.
THEOREM RingDense ==
    ASSUME NEW c, Injectors = {c}
    PROVE  ringSpec => []NoHoles
<1>1. ringInit => Dense
  BY DEF ringInit, Dense
<1>2. ringTypeOK /\ ringInv /\ Dense /\ [ringNext]_ringVars => Dense'
  BY DenseNext
<1>3. ringTypeOK /\ Dense => NoHoles
  <2> SUFFICES ASSUME Dense, \A p \in Packets : stage[p] \notin {"loop", "lost"},
                      NEW k \in 1 .. token_gsn[c]
               PROVE  \E p \in Sequenced : g_idx[p] = k
    BY DEF NoHoles
  <2>1. PICK p \in Packets : Done(p) /\ Final(p) = k
    BY DEF Dense
  <2> QED
    BY <2>1 DEF Done, Final, Looping
<1> QED
  BY <1>1, <1>2, <1>3, RingTypeCorrect, RingInvariant, PTL DEF ringSpec

\* The index of an append is fixed from the step that closes its batch, for any
\* number of control packets: both writers of the map write the current entry, and
\* the counter does not come round while an append of that iteration is in the loop.
THEOREM RingIndexFixed == ringSpec => IndexFixed
<1>1. ringTypeOK /\ [ringNext]_ringVars => [IndexFixedStep]_ringVars
  <2> SUFFICES ASSUME ringTypeOK, ringNext, NEW p \in Packets, Done(p), stage'[p] # "lost"
               PROVE  Done(p)' /\ Final(p)' = Final(p)
    BY DEF IndexFixedStep
  <2>1. /\ at[p] \in Switches /\ pkt_it[p] \in Slots
        /\ Looping(p) => pkt_it[p] # cntrl_pkt_it[at[p]]
    BY LoopReads DEF Current, Done, Looping, Sequenced
  <2>2. ASSUME NEW c \in Injectors, CntrlPacket(c), RecirculationKeepsUp(c)
        PROVE  Done(p)' /\ Final(p)' = Final(p)
    <3> DEFINE s == token_at[c]
    <3>1. s \in Switches /\ cntrl_pkt_it[s] \in Slots
      BY DEF ringTypeOK
    <3>2. UNCHANGED <<stage, at, g_idx, pkt_it>>
      BY <2>2 DEF CntrlPacket, packetVars
    <3>3. Looping(p) => map_from_gsn'[at[p]][pkt_it[p]] = map_from_gsn[at[p]][pkt_it[p]]
      BY <2>1, <2>2, <3>1 DEF CntrlPacket, add_gsn, ringTypeOK
    <3>4. Looping(p) => pkt_it[p] # cntrl_pkt_it'[at[p]]
      <4>1. CASE at[p] = s /\ local_seq_no[s] # 0
        BY <2>2, <3>1, <4>1
        DEF CntrlPacket, update_cntrl_pkt_it, RecirculationKeepsUp, Looping, ringTypeOK
      <4>2. CASE ~(at[p] = s /\ local_seq_no[s] # 0)
        BY <2>1, <2>2, <3>1, <4>2 DEF CntrlPacket, update_cntrl_pkt_it, ringTypeOK
      <4> QED
        BY <4>1, <4>2
    <3> QED
      BY <3>2, <3>3, <3>4 DEF Done, Current, Final, Looping, Sequenced
  <2>3. ASSUME NEW q \in Packets, NEW s \in Switches, FirstPass(q, s)
        PROVE  Done(p)' /\ Final(p)' = Final(p)
    <3>1. /\ p # q /\ stage'[p] = stage[p] /\ at'[p] = at[p] /\ g_idx'[p] = g_idx[p]
          /\ pkt_it'[p] = pkt_it[p] /\ cntrl_pkt_it' = cntrl_pkt_it
      BY <2>3 DEF FirstPass, ringTypeOK, Done, Looping, Sequenced
    <3>2. Looping(p) => map_from_gsn'[at[p]][pkt_it[p]] = map_from_gsn[at[p]][pkt_it[p]]
      BY <2>1, <2>3 DEF FirstPass, zero_gsn, ringTypeOK
    <3> QED
      BY <3>1, <3>2 DEF Done, Current, Final, Looping, Sequenced
  <2>4. ASSUME NEW q \in Packets, Recirculate(q) PROVE Done(p)' /\ Final(p)' = Final(p)
    <3>1. UNCHANGED <<cntrl_pkt_it, map_from_gsn, at, pkt_it>>
      BY <2>4 DEF Recirculate, switchVars
    <3>2. CASE q # p
      BY <2>4, <3>1, <3>2 DEF Recirculate, Done, Current, Final, Looping, Sequenced, ringTypeOK
    <3>3. CASE q = p
      BY <2>1, <2>4, <3>1, <3>3
      DEF Recirculate, Route, Done, Current, Final, Looping, Sequenced, ringTypeOK
    <3> QED
      BY <3>2, <3>3
  <2>5. ASSUME NEW q \in Packets, LoseInLoop(q) PROVE Done(p)' /\ Final(p)' = Final(p)
    BY <2>5 DEF LoseInLoop, switchVars, Done, Current, Final, Looping, Sequenced, ringTypeOK
  <2>6. ASSUME NEW c \in Injectors, InjectToken(c) \/ LoseToken(c) PROVE Done(p)' /\ Final(p)' = Final(p)
    BY <2>6 DEF InjectToken, LoseToken, switchVars, packetVars, Done, Current, Final, Looping, Sequenced
  <2> QED
    BY <2>2, <2>3, <2>4, <2>5, <2>6 DEF ringNext
<1> QED
  BY <1>1, RingTypeCorrect, PTL DEF ringSpec, IndexFixed

-----------------------------------------------------------------------------
(* The ring implements the shared log.                                     *)

\* With one control packet, the abstract reservation is that packet's number.
LEMMA OwnerIs == ASSUME NEW c, Injectors = {c} PROVE Owner = c /\ Owner \in Injectors
BY DEF Owner

\* An append outside the sequenced stages has no place in the abstract log.
LogIndex == [p \in Packets |-> IF p \in Sequenced THEN g_idx[p] ELSE 0]
LogArrived == {p \in Packets : stage[p] # "client"}

\* A first pass is the arrival of the append in the log.
LEMMA FirstPassArrives ==
    ASSUME ringTypeOK, ringInv, NEW p \in Packets, NEW s \in Switches, FirstPass(p, s)
    PROVE  Log!Arrive(p)
<1> DEFINE S == Sequenced \cup {q \in Packets : stage[q] = "loop" /\ at[q] = s}
<1>1. /\ stage[p] = "client" /\ stage' = [stage EXCEPT ![p] = "loop"]
      /\ g_idx' = [g_idx EXCEPT ![p] = local_seq_no[s] + 1]
      /\ before' = [before EXCEPT ![p] = S] /\ token_gsn' = token_gsn
  BY DEF FirstPass, tokenVars
<1>2. p \notin LogArrived /\ LogArrived' = LogArrived \cup {p}
  BY <1>1 DEF LogArrived, ringTypeOK
<1>3. LogIndex' = LogIndex
  BY <1>1 DEF LogIndex, Sequenced, ringTypeOK
<1>4. S \in SUBSET LogArrived /\ {q \in Packets : LogIndex[q] # 0} \subseteq S
  BY DEF LogArrived, LogIndex, Sequenced
<1> QED
  BY <1>1, <1>2, <1>3, <1>4 DEF Log!Arrive, LogArrived, LogIndex

\* The pass in which an append leaves the loop gives it a place that is free,
\* reserved, and after all the appends it has to follow; other passes stutter.
LEMMA RecirculateNumbers ==
    ASSUME NEW c, Injectors = {c}, ringTypeOK, ringInv, NEW p \in Packets, Recirculate(p)
    PROVE  Log!Number(p) \/ UNCHANGED Log!logVars
<1>1. /\ Looping(p) /\ UNCHANGED <<before, token_gsn, at, pkt_it, cntrl_pkt_it, map_from_gsn>>
      /\ \A q \in Packets : q # p => stage'[q] = stage[q] /\ g_idx'[q] = g_idx[q]
  BY DEF Recirculate, switchVars, tokenVars, ringTypeOK, Looping
<1>2. g_idx'[p] = g_idx[p] + map_from_gsn[at[p]][pkt_it[p]]
  BY DEF Recirculate, ringTypeOK
<1>3. stage'[p] = IF Current(p) THEN "loop" ELSE Route(p, g_idx'[p])
  BY <1>1, <1>2 DEF Recirculate, ringTypeOK, Current
<1>4. Route(p, g_idx'[p]) \in {"shard", "resp", "unrouted"}
  BY DEF Route
<1>5. LogArrived' = LogArrived
  BY <1>1, <1>3, <1>4 DEF LogArrived, Looping
<1>6. CASE Current(p)
  <2>1. LogIndex' = LogIndex
    BY <1>1, <1>3, <1>6 DEF LogIndex, Sequenced, Looping
  <2> QED
    BY <1>1, <1>5, <2>1 DEF Log!logVars, LogArrived, LogIndex
<1>7. CASE ~Current(p)
  <2> DEFINE i == Final(p)
  <2>1. /\ Done(p) /\ i = g_idx'[p] /\ p \notin Sequenced
    BY <1>1, <1>2, <1>7 DEF Done, Final, Looping, Sequenced
  <2>2. i \in 1 .. token_gsn[Owner]
    BY <2>1, OwnerIs DEF ringInv, FinishedBatch
  <2>3. \A q \in Packets : q \in Sequenced <=> Done(q) /\ ~Looping(q)
    BY DEF Done, Looping, Sequenced
  <2>4. \A q \in Sequenced : LogIndex[q] = Final(q) /\ LogIndex[q] # i
    BY <2>1, <2>3 DEF LogIndex, Final, ringInv, FinishedBatch, Looping, Sequenced
  <2>5. \A q \in Packets : q \notin Sequenced => LogIndex[q] = 0
    BY DEF LogIndex
  <2>6. \A q \in Packets : LogIndex[q] # i
    BY <2>2, <2>4, <2>5
  <2>7. \A q \in before[p] : LogIndex[q] < i
    <3> SUFFICES ASSUME NEW q \in before[p], q \in Sequenced PROVE LogIndex[q] < i
      <4>1. before[p] \subseteq Packets
        BY DEF ringTypeOK
      <4>2. token_gsn[Owner] \in Nat
        BY OwnerIs DEF ringTypeOK
      <4>3. 0 < i
        BY <2>2, <4>2
      <4> QED
        BY <2>5, <4>1, <4>3
    <3> QED
      BY <1>1, <2>1, <2>4 DEF ringInv, BatchOrder, Sequenced, Looping, Current
  <2>8. \A q \in Packets : p \in before[q] /\ LogIndex[q] # 0 => i < LogIndex[q]
    <3> SUFFICES ASSUME NEW q \in Sequenced, p \in before[q] PROVE i < LogIndex[q]
      BY <2>5
    <3> QED
      BY <1>1, <1>7, <2>3, <2>4 DEF ringInv, BatchOrder, Sequenced, Looping
  <2>9. p \in LogArrived /\ LogIndex[p] = 0
    BY <1>1, <2>1, <2>5 DEF LogArrived, Looping
  <2>10. LogIndex' = [LogIndex EXCEPT ![p] = i]
    BY <1>1, <1>3, <1>4, <1>7, <2>1 DEF LogIndex, Sequenced
  <2> QED
    BY <1>1, <1>5, <2>2, <2>6, <2>7, <2>8, <2>9, <2>10 DEF Log!Number, LogArrived, LogIndex
<1> QED
  BY <1>6, <1>7

\* Every step of the ring is a step of the log, or leaves it as it is.
LEMMA StepImplements ==
    ASSUME NEW c, Injectors = {c}, ringTypeOK, ringInv, [ringNext]_ringVars
    PROVE  [Log!logNext]_(Log!logVars)
<1>1. CASE InjectToken(c) \/ LoseToken(c)
  BY <1>1 DEF InjectToken, LoseToken, packetVars, Log!logVars, Sequenced
<1>2. CASE CntrlPacket(c)
  <2>1. c \in Injectors /\ token_at[c] \in Switches
    BY DEF ringTypeOK
  <2>2. token_gsn'[Owner] = token_gsn[Owner] + local_seq_no[token_at[c]]
    BY <1>2, <2>1, OwnerIs DEF CntrlPacket, ringTypeOK
  <2>3. token_gsn[Owner] \in Nat /\ local_seq_no[token_at[c]] \in Nat
    BY <2>1, OwnerIs DEF ringTypeOK
  <2>4. UNCHANGED <<stage, g_idx, before>>
    BY <1>2 DEF CntrlPacket, packetVars
  <2>5. UNCHANGED Log!logVars \/ Log!Reserve
    BY <2>2, <2>3, <2>4 DEF Log!logVars, Log!Reserve, Sequenced
  <2> QED
    BY <2>5 DEF Log!logNext
<1>3. ASSUME NEW p \in Packets, NEW s \in Switches, FirstPass(p, s)
      PROVE  [Log!logNext]_(Log!logVars)
  BY <1>3, FirstPassArrives DEF Log!logNext
<1>4. ASSUME NEW p \in Packets, Recirculate(p) PROVE [Log!logNext]_(Log!logVars)
  BY <1>4, RecirculateNumbers DEF Log!logNext
<1>5. ASSUME NEW p \in Packets, LoseInLoop(p) PROVE [Log!logNext]_(Log!logVars)
  <2>1. /\ stage[p] = "loop" /\ stage' = [stage EXCEPT ![p] = "lost"]
        /\ UNCHANGED <<g_idx, before, token_gsn>>
    BY <1>5 DEF LoseInLoop, tokenVars
  <2>2. LogArrived' = LogArrived /\ LogIndex' = LogIndex
    BY <2>1 DEF LogArrived, LogIndex, Sequenced, ringTypeOK
  <2> QED
    BY <2>1, <2>2 DEF Log!logVars, LogArrived, LogIndex
<1>6. CASE UNCHANGED ringVars
  BY <1>6 DEF ringVars, switchVars, tokenVars, packetVars, Log!logVars, Sequenced
<1> QED
  BY <1>1, <1>2, <1>3, <1>4, <1>5, <1>6 DEF ringNext

\* A ring of P4 switches with one control packet implements the shared log: its
\* appends get distinct places, in real-time order, out of what is reserved.
THEOREM RingImplements ==
    ASSUME NEW c, Injectors = {c}
    PROVE  ringSpec => RingImplementsLog
<1>1. ringInit => Log!logInit
  <2>1. ringInit => token_gsn[Owner] = 0
    BY OwnerIs DEF ringInit
  <2> QED
    BY <2>1 DEF ringInit, Log!logInit, Sequenced
<1>2. ringTypeOK /\ ringInv /\ [ringNext]_ringVars => [Log!logNext]_(Log!logVars)
  BY StepImplements
<1> QED
  BY <1>1, <1>2, RingTypeCorrect, RingInvariant, PTL DEF ringSpec, RingImplementsLog, Log!logSpec
=============================================================================
