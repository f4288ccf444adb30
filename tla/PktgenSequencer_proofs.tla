----------------------- MODULE PktgenSequencer_proofs -----------------------
(***************************************************************************)
(* Proofs about PktgenSequencer, for rings of every size, every set of     *)
(* appends, every size of the map and any number of control packets.       *)
(***************************************************************************)
EXTENDS PktgenSequencer, RingLog_proofs, FiniteSetTheorems

\* The appends of the open batch, the finished batches with appends in the loop,
\* and all appends in loops.
Open(s)   == {p \in Packets : stage[p] = "loop" /\ at[p] = s /\ pkt_it[p] = cntrl_pkt_it[s]}
Active(s) == {i \in Slots : Unfinished(s, i) # {}}
InLoop    == {p \in Packets : stage[p] = "loop"}

batchTypeOK ==
    /\ active_batches \in [Switches -> Nat]
    /\ map_from_batch_sz \in [Switches -> [Slots -> Nat]]

\* The counters of a switch: local_seq_no has counted every append of the open
\* batch, so that closing it counts every append still to leave.
Counted(s) ==
    /\ Cardinality(Open(s)) <= local_seq_no[s]
    /\ Cardinality(Active(s)) <= active_batches[s]
    /\ \A i \in Slots : Cardinality(Unfinished(s, i)) <= map_from_batch_sz[s][i]

\* ... and nothing else, if all of them are generated.
Exact(s) ==
    /\ Cardinality(Open(s)) = local_seq_no[s]
    /\ Cardinality(Active(s)) = active_batches[s]
    /\ \A i \in Active(s) : Cardinality(Unfinished(s, i)) = map_from_batch_sz[s][i]

batchInv ==
    /\ batchTypeOK
    /\ IsFiniteSet(InLoop)
    /\ \A s \in Switches : Counted(s) /\ (OnlyGenerated(s) => Exact(s))

\* The sets that are counted are finite.
LEMMA SetsFinite ==
    ASSUME IsFiniteSet(InLoop), NEW s \in Switches
    PROVE  /\ IsFiniteSet(Open(s)) /\ IsFiniteSet(Active(s))
           /\ \A i \in Slots : IsFiniteSet(Unfinished(s, i))
           /\ Cardinality(Open(s)) \in Nat /\ Cardinality(Active(s)) \in Nat
           /\ \A i \in Slots : Cardinality(Unfinished(s, i)) \in Nat
<1>1. IsFiniteSet(Open(s))
  <2>1. Open(s) \in SUBSET InLoop
    BY DEF Open, InLoop
  <2> QED
    BY <2>1, FS_Subset
<1>2. \A i \in Slots : IsFiniteSet(Unfinished(s, i))
  <2> TAKE i \in Slots
  <2>1. Unfinished(s, i) \in SUBSET InLoop
    BY RingAssumption DEF Unfinished, InLoop
  <2> QED
    BY <2>1, FS_Subset
<1>3. IsFiniteSet(Active(s))
  <2>1. IsFiniteSet(0 .. MAX_GSN_MAP_SIZE)
    BY RingAssumption, FS_Interval
  <2>2. Active(s) \in SUBSET (0 .. MAX_GSN_MAP_SIZE)
    BY DEF Active, Slots
  <2> QED
    BY <2>1, <2>2, FS_Subset
<1> QED
  BY <1>1, <1>2, <1>3, FS_CardinalityType

-----------------------------------------------------------------------------
(* Steps that count nothing.                                               *)

\* An append that has reached a switch stays there, and a lost one is lost.
StaysAt ==
    \A p \in Packets : stage[p] # "client" =>
      /\ stage'[p] # "client" /\ at'[p] = at[p]
      /\ stage[p] = "lost" => stage'[p] = "lost"

LEMMA OnlyBefore ==
    ASSUME StaysAt, NEW s \in Switches, OnlyGenerated(s)'
    PROVE  OnlyGenerated(s)
BY DEF StaysAt, OnlyGenerated

\* A switch at which nothing changes that is counted.
Same(s) ==
    /\ Open(s)' = Open(s)
    /\ \A i \in Slots : Unfinished(s, i)' = Unfinished(s, i)
    /\ local_seq_no'[s] = local_seq_no[s]
    /\ active_batches'[s] = active_batches[s]
    /\ map_from_batch_sz'[s] = map_from_batch_sz[s]

LEMMA SameKeeps ==
    ASSUME StaysAt, NEW s \in Switches, Same(s),
           Counted(s), OnlyGenerated(s) => Exact(s)
    PROVE  Counted(s)' /\ (OnlyGenerated(s)' => Exact(s)')
<1>1. Active(s)' = Active(s)
  BY DEF Same, Active
<1>2. Counted(s)'
  BY <1>1 DEF Same, Counted
<1>3. ASSUME OnlyGenerated(s)' PROVE Exact(s)'
  <2>1. Exact(s)
    BY <1>3, OnlyBefore
  <2>2. \A i \in Active(s) : i \in Slots
    BY DEF Active
  <2> QED
    BY <1>1, <2>1, <2>2 DEF Same, Exact
<1> QED
  BY <1>2, <1>3

\* Without a batch that closes and an append that leaves, nothing is counted.
LEMMA NothingCounted ==
    ASSUME Counts, \A s \in Switches : ~Closes(s), \A p \in Packets : ~Leaves(p)
    PROVE  UNCHANGED batchVars
BY DEF Counts

\* Control packets that are sent or lost, empty batches, answers and queries.
LEMMA QuietKeeps ==
    ASSUME batchInv, Counts, UNCHANGED <<stage, at, pkt_it, local_seq_no, cntrl_pkt_it>>
    PROVE  batchInv'
<1>1. UNCHANGED batchVars
  BY NothingCounted DEF Closes, Leaves
<1>2. StaysAt
  BY DEF StaysAt
<1>3. ASSUME NEW s \in Switches PROVE Counted(s)' /\ (OnlyGenerated(s)' => Exact(s)')
  <2>1. Same(s)
    BY <1>1 DEF Same, Open, Unfinished, batchVars
  <2> QED
    BY <1>2, <2>1, SameKeeps DEF batchInv
<1>4. batchTypeOK' /\ IsFiniteSet(InLoop)'
  BY <1>1 DEF batchInv, batchTypeOK, batchVars, InLoop
<1> QED
  BY <1>3, <1>4 DEF batchInv

-----------------------------------------------------------------------------
(* An append arrives.                                                      *)

LEMMA FirstPassKeeps ==
    ASSUME ringTypeOK, batchInv, Counts, NEW p \in Packets, NEW s \in Switches, FirstPass(p, s)
    PROVE  batchInv'
<1>1. /\ stage[p] = "client" /\ stage' = [stage EXCEPT ![p] = "loop"]
      /\ at' = [at EXCEPT ![p] = s] /\ pkt_it' = [pkt_it EXCEPT ![p] = cntrl_pkt_it[s]]
      /\ local_seq_no' = [local_seq_no EXCEPT ![s] = @ + 1] /\ UNCHANGED cntrl_pkt_it
  BY DEF FirstPass, write_local_seq_no
<1>2. /\ stage'[p] = "loop" /\ at'[p] = s /\ pkt_it'[p] = cntrl_pkt_it[s]
      /\ \A q \in Packets : q # p =>
           stage'[q] = stage[q] /\ at'[q] = at[q] /\ pkt_it'[q] = pkt_it[q]
      /\ local_seq_no'[s] = local_seq_no[s] + 1 /\ local_seq_no[s] \in Nat
      /\ \A t \in Switches : t # s => local_seq_no'[t] = local_seq_no[t]
  BY <1>1 DEF ringTypeOK
<1>3. UNCHANGED batchVars
  <2>1. \A q \in Packets : ~Leaves(q)
    BY <1>1, <1>2 DEF Leaves
  <2> QED
    BY <1>1, <2>1, NothingCounted DEF Closes
<1>4. StaysAt
  BY <1>1, <1>2 DEF StaysAt
<1>5. \A t \in Switches, i \in Slots : Unfinished(t, i)' = Unfinished(t, i)
  <2> TAKE t \in Switches, i \in Slots
  <2>1. \A q \in Timer : q \in Packets
    BY RingAssumption
  <2>2. p \notin Unfinished(t, i) /\ p \notin Unfinished(t, i)'
    BY <1>1, <1>2 DEF Unfinished
  <2>3. \A q \in Timer : q # p => (q \in Unfinished(t, i)' <=> q \in Unfinished(t, i))
    BY <1>1, <1>2, <2>1 DEF Unfinished
  <2>4. Unfinished(t, i) \subseteq Timer /\ Unfinished(t, i)' \subseteq Timer
    BY DEF Unfinished
  <2> QED
    BY <2>2, <2>3, <2>4
<1>6. ASSUME NEW t \in Switches, t # s PROVE Counted(t)' /\ (OnlyGenerated(t)' => Exact(t)')
  <2>1. Open(t)' = Open(t)
    <3>1. p \notin Open(t) /\ p \notin Open(t)'
      BY <1>1, <1>2, <1>6 DEF Open
    <3>2. \A q \in Packets : q # p => (q \in Open(t)' <=> q \in Open(t))
      BY <1>1, <1>2 DEF Open
    <3> QED
      BY <3>1, <3>2 DEF Open
  <2>2. Same(t)
    BY <1>2, <1>3, <1>5, <1>6, <2>1 DEF Same, batchVars
  <2> QED
    BY <1>4, <2>2, SameKeeps DEF batchInv
<1>7. Open(s)' = Open(s) \cup {p} /\ p \notin Open(s)
  <2>1. p \in Open(s)' /\ p \notin Open(s)
    BY <1>1, <1>2 DEF Open
  <2>2. \A q \in Packets : q # p => (q \in Open(s)' <=> q \in Open(s))
    BY <1>1, <1>2 DEF Open
  <2> QED
    BY <2>1, <2>2 DEF Open
<1>8. Cardinality(Open(s))' = Cardinality(Open(s)) + 1 /\ Cardinality(Open(s)) \in Nat
  <2>1. IsFiniteSet(Open(s)) /\ Cardinality(Open(s)) \in Nat
    BY SetsFinite DEF batchInv
  <2> QED
    BY <1>7, <2>1, FS_AddElement
<1>9. Active(s)' = Active(s)
  BY <1>5 DEF Active
<1>10. Counted(s)'
  BY <1>2, <1>3, <1>5, <1>8, <1>9 DEF batchInv, Counted, batchVars
<1>11. ASSUME OnlyGenerated(s)' PROVE Exact(s)'
  <2>1. Exact(s)
    BY <1>4, <1>11, OnlyBefore DEF batchInv
  <2>2. \A i \in Active(s) : i \in Slots
    BY DEF Active
  <2> QED
    BY <1>2, <1>3, <1>5, <1>8, <1>9, <2>1, <2>2 DEF Exact, batchVars
<1>12. IsFiniteSet(InLoop)'
  <2>1. InLoop' = InLoop \cup {p}
    BY <1>2 DEF InLoop
  <2>2. IsFiniteSet(InLoop \cup {p})
    BY FS_AddElement DEF batchInv
  <2> QED
    BY <2>1, <2>2
<1>13. batchTypeOK'
  BY <1>3 DEF batchInv, batchTypeOK, batchVars
<1> QED
  BY <1>6, <1>10, <1>11, <1>12, <1>13 DEF batchInv
-----------------------------------------------------------------------------
(* Appends that stay in the loop, leave it, or are dropped there.          *)

\* What one append p of switch s changes when it leaves the loop, to whatever
\* stage: it is gone from the open batch or from its finished one.
LEMMA GoneFromLoop ==
    ASSUME ringTypeOK, NEW p \in Packets, stage[p] = "loop",
           NEW x \in Stages, x # "loop", stage' = [stage EXCEPT ![p] = x],
           UNCHANGED <<at, pkt_it, cntrl_pkt_it>>
    PROVE  /\ InLoop' = InLoop \ {p}
           /\ \A t \in Switches : Open(t)' = Open(t) \ {p}
           /\ \A t \in Switches, i \in Slots : Unfinished(t, i)' = Unfinished(t, i) \ {p}
<1>1. stage'[p] = x /\ \A q \in Packets : q # p => stage'[q] = stage[q]
  BY DEF ringTypeOK
<1>2. \A q \in Timer : q \in Packets
  BY RingAssumption
<1>3. InLoop' = InLoop \ {p}
  BY <1>1 DEF InLoop
<1>4. \A t \in Switches : Open(t)' = Open(t) \ {p}
  BY <1>1 DEF Open
<1>5. \A t \in Switches, i \in Slots : Unfinished(t, i)' = Unfinished(t, i) \ {p}
  BY <1>1, <1>2 DEF Unfinished
<1> QED
  BY <1>3, <1>4, <1>5

\* An append that is dropped, or a client's append that leaves, makes the sets
\* smaller; its switch has no exact counts any more.
LEMMA UncountedKeeps ==
    ASSUME ringTypeOK, batchInv, Counts, NEW p \in Packets, stage[p] = "loop",
           NEW x \in Stages, x \notin {"client", "loop", "resp"},
           stage' = [stage EXCEPT ![p] = x], x = "lost" \/ p \notin Timer,
           UNCHANGED <<at, pkt_it, cntrl_pkt_it, local_seq_no>>
    PROVE  batchInv'
<1>1. stage'[p] = x /\ \A q \in Packets : q # p => stage'[q] = stage[q]
  BY DEF ringTypeOK
<1>2. UNCHANGED batchVars
  <2>1. \A q \in Packets : ~Leaves(q)
    BY <1>1 DEF Leaves
  <2> QED
    BY <2>1, NothingCounted DEF Closes
<1>3. StaysAt
  BY <1>1 DEF StaysAt
<1>4. /\ InLoop' = InLoop \ {p}
      /\ \A t \in Switches : Open(t)' = Open(t) \ {p}
      /\ \A t \in Switches, i \in Slots : Unfinished(t, i)' = Unfinished(t, i) \ {p}
  BY GoneFromLoop
<1>5. ASSUME NEW t \in Switches, at[p] # t
      PROVE  Counted(t)' /\ (OnlyGenerated(t)' => Exact(t)')
  <2>1. p \notin Open(t) /\ \A i \in Slots : p \notin Unfinished(t, i)
    BY <1>5 DEF Open, Unfinished
  <2>2. Same(t)
    BY <1>2, <1>4, <2>1 DEF Same, batchVars
  <2> QED
    BY <1>3, <2>2, SameKeeps DEF batchInv
<1>6. ASSUME NEW t \in Switches, at[p] = t
      PROVE  Counted(t)' /\ (OnlyGenerated(t)' => Exact(t)')
  <2>1. ~OnlyGenerated(t)'
    BY <1>1, <1>6 DEF OnlyGenerated
  <2>2. /\ IsFiniteSet(Open(t)) /\ IsFiniteSet(Active(t))
        /\ \A i \in Slots : IsFiniteSet(Unfinished(t, i))
        /\ Cardinality(Open(t)) \in Nat /\ Cardinality(Active(t)) \in Nat
        /\ \A i \in Slots : Cardinality(Unfinished(t, i)) \in Nat
    BY SetsFinite DEF batchInv
  <2>3. /\ Cardinality(Open(t))' \in Nat
        /\ Cardinality(Open(t))' <= Cardinality(Open(t))
    BY <1>4, <2>2, FS_Subset, FS_CardinalityType
  <2>4. \A i \in Slots : /\ Cardinality(Unfinished(t, i))' \in Nat
                         /\ Cardinality(Unfinished(t, i))' <= Cardinality(Unfinished(t, i))
    BY <1>4, <2>2, FS_Subset, FS_CardinalityType
  <2>5. /\ Cardinality(Active(t))' \in Nat
        /\ Cardinality(Active(t))' <= Cardinality(Active(t))
    <3>1. Active(t)' \subseteq Active(t)
      BY <1>4 DEF Active
    <3> QED
      BY <2>2, <3>1, FS_Subset, FS_CardinalityType
  <2>6. /\ local_seq_no[t] \in Nat /\ active_batches[t] \in Nat
        /\ \A i \in Slots : map_from_batch_sz[t][i] \in Nat
    BY DEF ringTypeOK, batchInv, batchTypeOK
  <2>7. Counted(t)
    BY DEF batchInv
  <2>8. Cardinality(Open(t))' <= local_seq_no'[t]
    BY <2>2, <2>3, <2>6, <2>7 DEF Counted
  <2>9. Cardinality(Active(t))' <= active_batches'[t]
    BY <1>2, <2>2, <2>5, <2>6, <2>7 DEF Counted, batchVars
  <2>10. \A i \in Slots : Cardinality(Unfinished(t, i))' <= map_from_batch_sz'[t][i]
    BY <1>2, <2>2, <2>4, <2>6, <2>7 DEF Counted, batchVars
  <2> QED
    BY <2>1, <2>8, <2>9, <2>10 DEF Counted
<1>7. IsFiniteSet(InLoop)'
  BY <1>4, FS_RemoveElement DEF batchInv
<1>8. batchTypeOK'
  BY <1>2 DEF batchInv, batchTypeOK, batchVars
<1> QED
  BY <1>5, <1>6, <1>7, <1>8 DEF batchInv

\* A generated append leaves the loop: its batch has one append less, and is no
\* longer active when it was the last one that had been counted.
LEMMA LeaveKeeps ==
    ASSUME ringTypeOK, batchInv, Counts, NEW p \in Timer, stage[p] = "loop",
           NEW s \in Switches, at[p] = s, NEW i \in Slots, pkt_it[p] = i,
           i # cntrl_pkt_it[s], stage' = [stage EXCEPT ![p] = "resp"],
           UNCHANGED <<at, pkt_it, cntrl_pkt_it, local_seq_no>>
    PROVE  batchInv'
<1>0. p \in Packets
  BY RingAssumption
<1>1. stage'[p] = "resp" /\ \A q \in Packets : q # p => stage'[q] = stage[q]
  BY <1>0 DEF ringTypeOK
<1>2. CountLeaving(p)
  <2>1. Leaves(p) /\ \A q \in Packets : Leaves(q) => q = p
    BY <1>1 DEF Leaves
  <2>2. \A t \in Switches : ~Closes(t)
    BY DEF Closes
  <2> QED
    BY <1>0, <2>1, <2>2 DEF Counts
<1>3. StaysAt
  BY <1>1 DEF StaysAt
<1>4. /\ InLoop' = InLoop \ {p}
      /\ \A t \in Switches : Open(t)' = Open(t) \ {p}
      /\ \A t \in Switches, j \in Slots : Unfinished(t, j)' = Unfinished(t, j) \ {p}
  BY <1>0, GoneFromLoop DEF Stages
<1>5. /\ p \notin Open(s) /\ p \in Unfinished(s, i)
      /\ \A j \in Slots : j # i => p \notin Unfinished(s, j)
      /\ \A t \in Switches : t # s =>
           p \notin Open(t) /\ \A j \in Slots : p \notin Unfinished(t, j)
  BY DEF Open, Unfinished
<1>6. /\ IsFiniteSet(Active(s)) /\ Cardinality(Active(s)) \in Nat
      /\ \A j \in Slots : IsFiniteSet(Unfinished(s, j)) /\ Cardinality(Unfinished(s, j)) \in Nat
  BY <1>0, SetsFinite DEF batchInv
<1>7. /\ active_batches \in [Switches -> Nat]
      /\ map_from_batch_sz \in [Switches -> [Slots -> Nat]]
  BY DEF batchInv, batchTypeOK
<1>8. /\ map_from_batch_sz' = [map_from_batch_sz EXCEPT ![s][i] = @ - 1]
      /\ map_from_batch_sz'[s][i] = map_from_batch_sz[s][i] - 1
      /\ \A j \in Slots : j # i => map_from_batch_sz'[s][j] = map_from_batch_sz[s][j]
      /\ \A t \in Switches : t # s => map_from_batch_sz'[t] = map_from_batch_sz[t]
  BY <1>0, <1>2, <1>7 DEF CountLeaving, update_batch_sz
<1>9. active_batches' = IF map_from_batch_sz[s][i] = 1
                          THEN [active_batches EXCEPT ![s] = @ - 1] ELSE active_batches
  <2>1. map_from_batch_sz[s][i] \in Nat
    BY <1>0, <1>7
  <2> QED
    BY <1>2, <1>8, <2>1 DEF CountLeaving, update_batch_sz, sub_batch
<1>10. /\ Cardinality(Unfinished(s, i))' = Cardinality(Unfinished(s, i)) - 1
       /\ Cardinality(Unfinished(s, i)) \in Nat /\ Cardinality(Unfinished(s, i)) > 0
       /\ \A j \in Slots : j # i => Unfinished(s, j)' = Unfinished(s, j)
  <2>1. Unfinished(s, i)' = Unfinished(s, i) \ {p}
    BY <1>0, <1>4
  <2>2. /\ IsFiniteSet(Unfinished(s, i) \ {p})
        /\ Cardinality(Unfinished(s, i) \ {p}) = Cardinality(Unfinished(s, i)) - 1
        /\ Cardinality(Unfinished(s, i) \ {p}) \in Nat
    BY <1>0, <1>5, <1>6, FS_RemoveElement, FS_CardinalityType
  <2>3. \A j \in Slots : j # i => Unfinished(s, j)' = Unfinished(s, j)
    BY <1>0, <1>4, <1>5
  <2> QED
    BY <1>0, <1>6, <2>1, <2>2, <2>3
<1>11. Counted(s) /\ map_from_batch_sz[s][i] \in Nat /\ active_batches[s] \in Nat
       /\ Cardinality(Unfinished(s, i)) <= map_from_batch_sz[s][i]
  BY <1>0, <1>7 DEF batchInv, Counted
<1>12. i \in Active(s)
  BY <1>0, <1>5 DEF Active
<1>13. \A j \in Slots : j # i => (j \in Active(s)' <=> j \in Active(s))
  BY <1>10 DEF Active
<1>14. Open(s)' = Open(s) /\ local_seq_no'[s] = local_seq_no[s]
  BY <1>0, <1>4, <1>5
<1>15. ASSUME map_from_batch_sz[s][i] = 1
       PROVE  /\ active_batches' \in [Switches -> Nat]
              /\ Cardinality(Active(s))' <= active_batches'[s]
              /\ Exact(s) => Cardinality(Active(s))' = active_batches'[s]
              /\ \A t \in Switches : t # s => active_batches'[t] = active_batches[t]
  <2>1. Cardinality(Unfinished(s, i)) = 1
    BY <1>10, <1>11, <1>15
  <2>2. Unfinished(s, i) = {p}
    BY <1>0, <1>5, <1>6, <2>1, FS_Singleton
  <2>3. i \notin Active(s)'
    <3>1. Unfinished(s, i)' = {}
      BY <1>0, <1>4, <2>2
    <3> QED
      BY <3>1 DEF Active
  <2>4. Active(s)' = Active(s) \ {i}
    BY <1>13, <2>3 DEF Active
  <2>5. Cardinality(Active(s))' = Cardinality(Active(s)) - 1
    BY <1>6, <1>12, <2>4, FS_RemoveElement
  <2>6. active_batches' = [active_batches EXCEPT ![s] = @ - 1]
    BY <1>9, <1>15
  <2>7. Cardinality(Active(s)) > 0
    BY <1>6, <1>12, FS_EmptySet
  <2>8. Cardinality(Active(s)) <= active_batches[s]
    BY <1>11 DEF Counted
  <2>9. active_batches[s] - 1 \in Nat
    BY <1>6, <1>11, <2>7, <2>8
  <2>10. /\ active_batches' \in [Switches -> Nat]
         /\ active_batches'[s] = active_batches[s] - 1
         /\ \A t \in Switches : t # s => active_batches'[t] = active_batches[t]
    BY <1>0, <1>7, <2>6, <2>9
  <2>11. Cardinality(Active(s))' <= active_batches'[s]
    BY <1>6, <1>11, <2>5, <2>8, <2>10
  <2>12. Exact(s) => Cardinality(Active(s))' = active_batches'[s]
    BY <2>5, <2>10 DEF Exact
  <2> QED
    BY <2>10, <2>11, <2>12
<1>16. ASSUME map_from_batch_sz[s][i] # 1
       PROVE  /\ active_batches' = active_batches
              /\ Cardinality(Active(s))' <= active_batches'[s]
              /\ Exact(s) => Cardinality(Active(s))' = active_batches'[s]
  <2>1. active_batches' = active_batches
    BY <1>9, <1>16
  <2>2. Active(s)' \subseteq Active(s)
    BY <1>12, <1>13 DEF Active
  <2>3. /\ Cardinality(Active(s))' \in Nat
        /\ Cardinality(Active(s))' <= Cardinality(Active(s))
    BY <1>6, <2>2, FS_Subset, FS_CardinalityType
  <2>4. Cardinality(Active(s))' <= active_batches'[s]
    BY <1>6, <1>11, <2>1, <2>3 DEF Counted
  <2>5. ASSUME Exact(s) PROVE Active(s)' = Active(s)
    <3>1. Cardinality(Unfinished(s, i)) > 1
      BY <1>10, <1>11, <1>12, <1>16, <2>5 DEF Exact
    <3>2. Cardinality(Unfinished(s, i))' # 0
      BY <1>10, <3>1
    <3>3. Unfinished(s, i)' # {}
      BY <3>2, FS_EmptySet
    <3>4. i \in Active(s)'
      BY <1>0, <3>3 DEF Active
    <3>5. Active(s) \subseteq Slots
      BY DEF Active
    <3> QED
      BY <1>13, <2>2, <3>4, <3>5
  <2>6. Exact(s) => Cardinality(Active(s))' = active_batches'[s]
    BY <2>1, <2>5 DEF Exact
  <2> QED
    BY <2>1, <2>4, <2>6
<1>17. /\ active_batches' \in [Switches -> Nat]
       /\ Cardinality(Active(s))' <= active_batches'[s]
       /\ Exact(s) => Cardinality(Active(s))' = active_batches'[s]
       /\ \A t \in Switches : t # s => active_batches'[t] = active_batches[t]
  BY <1>7, <1>15, <1>16
<1>18. batchTypeOK'
  <2>1. map_from_batch_sz[s][i] - 1 \in Nat
    BY <1>10, <1>11
  <2>2. map_from_batch_sz' \in [Switches -> [Slots -> Nat]]
    BY <1>0, <1>7, <1>8, <2>1
  <2> QED
    BY <1>17, <2>2 DEF batchTypeOK
<1>19. Counted(s)'
  <2>1. Cardinality(Unfinished(s, i))' <= map_from_batch_sz'[s][i]
    BY <1>8, <1>10, <1>11
  <2>2. \A j \in Slots : Cardinality(Unfinished(s, j))' <= map_from_batch_sz'[s][j]
    BY <1>8, <1>10, <1>11, <2>1 DEF Counted
  <2>3. Cardinality(Open(s))' <= local_seq_no'[s]
    BY <1>11, <1>14 DEF Counted
  <2> QED
    BY <1>17, <2>2, <2>3 DEF Counted
<1>20. ASSUME OnlyGenerated(s)' PROVE Exact(s)'
  <2>1. Exact(s)
    BY <1>0, <1>3, <1>20, OnlyBefore DEF batchInv
  <2>2. Cardinality(Unfinished(s, i))' = map_from_batch_sz'[s][i]
    BY <1>8, <1>10, <1>12, <2>1 DEF Exact
  <2>3. \A j \in Active(s)' : j # i =>
          Cardinality(Unfinished(s, j))' = map_from_batch_sz'[s][j]
    BY <1>8, <1>10, <1>13, <2>1 DEF Exact, Active
  <2>4. Cardinality(Open(s))' = local_seq_no'[s]
    BY <1>14, <2>1 DEF Exact
  <2>5. \A j \in Active(s)' : Cardinality(Unfinished(s, j))' = map_from_batch_sz'[s][j]
    BY <2>2, <2>3
  <2>6. Cardinality(Active(s))' = active_batches'[s]
    BY <1>17, <2>1
  <2> QED
    BY <2>4, <2>5, <2>6 DEF Exact
<1>21. ASSUME NEW t \in Switches, t # s PROVE Counted(t)' /\ (OnlyGenerated(t)' => Exact(t)')
  <2>1. Open(t)' = Open(t) /\ \A j \in Slots : Unfinished(t, j)' = Unfinished(t, j)
    <3>1. p \notin Open(t) /\ \A j \in Slots : p \notin Unfinished(t, j)
      BY <1>5, <1>21
    <3>2. Open(t)' = Open(t)
      <4>1. Open(t)' = Open(t) \ {p}
        BY <1>4
      <4> QED
        BY <3>1, <4>1
    <3>3. ASSUME NEW j \in Slots PROVE Unfinished(t, j)' = Unfinished(t, j)
      <4>1. Unfinished(t, j)' = Unfinished(t, j) \ {p}
        BY <1>4
      <4> QED
        BY <3>1, <4>1
    <3> QED
      BY <3>2, <3>3
  <2>2. /\ local_seq_no'[t] = local_seq_no[t] /\ active_batches'[t] = active_batches[t]
        /\ map_from_batch_sz'[t] = map_from_batch_sz[t]
    BY <1>8, <1>17, <1>21
  <2>3. Same(t)
    BY <2>1, <2>2 DEF Same
  <2> QED
    BY <1>3, <2>3, SameKeeps DEF batchInv
<1>22. IsFiniteSet(InLoop)'
  BY <1>4, FS_RemoveElement DEF batchInv
<1> QED
  BY <1>18, <1>19, <1>20, <1>21, <1>22 DEF batchInv

-----------------------------------------------------------------------------
(* A control packet closes a batch.                                        *)

LEMMA CloseKeeps ==
    ASSUME ringTypeOK, batchInv, Counts, NEW c \in Injectors,
           NEW s \in Switches, token_at[c] = s, NEW i \in Slots, cntrl_pkt_it[s] = i,
           CntrlPacket(c), RecirculationKeepsUp(c), local_seq_no[s] # 0
    PROVE  batchInv'
<1>n. PICK n \in Slots : n = NextIt(i)
  BY RingAssumption DEF NextIt, Slots
<1>1. /\ cntrl_pkt_it' = [cntrl_pkt_it EXCEPT ![s] = NextIt(@)]
      /\ local_seq_no' = [local_seq_no EXCEPT ![s] = 0]
      /\ UNCHANGED <<stage, at, pkt_it>>
  BY DEF CntrlPacket, update_cntrl_pkt_it, read_local_seq_no, packetVars
<1>2. n # i
  BY <1>n, RingAssumption DEF NextIt, Slots
<1>3. /\ cntrl_pkt_it'[s] = n /\ local_seq_no'[s] = 0 /\ local_seq_no[s] \in Nat
      /\ \A t \in Switches : t # s =>
           cntrl_pkt_it'[t] = cntrl_pkt_it[t] /\ local_seq_no'[t] = local_seq_no[t]
  BY <1>1, <1>n DEF ringTypeOK
<1>4. CountBatch(s)
  <2>1. Closes(s) /\ \A t \in Switches : Closes(t) => t = s
    BY <1>2, <1>3 DEF Closes
  <2>2. \A p \in Packets : ~Leaves(p)
    BY <1>1 DEF Leaves
  <2> QED
    BY <2>1, <2>2 DEF Counts
<1>5. /\ active_batches \in [Switches -> Nat]
      /\ map_from_batch_sz \in [Switches -> [Slots -> Nat]]
  BY DEF batchInv, batchTypeOK
<1>6. /\ active_batches' = [active_batches EXCEPT ![s] = @ + 1]
      /\ map_from_batch_sz' = [map_from_batch_sz EXCEPT ![s][i] = local_seq_no[s]]
  BY <1>4 DEF CountBatch, add_batch, set_batch_sz
<1>7. /\ active_batches'[s] = active_batches[s] + 1
      /\ map_from_batch_sz'[s][i] = local_seq_no[s]
      /\ \A j \in Slots : j # i => map_from_batch_sz'[s][j] = map_from_batch_sz[s][j]
      /\ \A t \in Switches : t # s =>
           /\ active_batches'[t] = active_batches[t]
           /\ map_from_batch_sz'[t] = map_from_batch_sz[t]
  BY <1>2, <1>5, <1>6
<1>8. batchTypeOK'
  BY <1>2, <1>3, <1>5, <1>6 DEF batchTypeOK
<1>9. StaysAt
  BY <1>1 DEF StaysAt
<1>10. \A p \in Timer : p \in Packets /\ pkt_it[p] \in Slots
  BY RingAssumption DEF ringTypeOK
\* Nothing in the loop belongs to the iteration that begins.
<1>11. Unfinished(s, n) = {} /\ Unfinished(s, n)' = {} /\ Open(s)' = {}
  <2>1. \A p \in Packets : ~(stage[p] = "loop" /\ at[p] = s /\ pkt_it[p] = n)
    BY <1>n DEF RecirculationKeepsUp
  <2>2. Unfinished(s, n) = {} /\ Unfinished(s, n)' = {}
    BY <1>3, <1>10, <2>1 DEF Unfinished
  <2>3. Open(s)' = {}
    BY <1>1, <1>3, <2>1 DEF Open
  <2> QED
    BY <2>2, <2>3
\* The open batch becomes a finished one, the others stay what they are.
<1>12. Unfinished(s, i) = {} /\ Unfinished(s, i)' = Open(s) \cap Timer
  <2>1. Unfinished(s, i) = {}
    BY DEF Unfinished
  <2>2. \A p \in Timer : p \in Unfinished(s, i)' <=> p \in Open(s)
    BY <1>1, <1>2, <1>3, <1>10 DEF Unfinished, Open
  <2>3. Unfinished(s, i)' \subseteq Timer
    BY DEF Unfinished
  <2> QED
    BY <2>1, <2>2, <2>3
<1>13. \A j \in Slots : j # i => Unfinished(s, j)' = Unfinished(s, j)
  <2> SUFFICES ASSUME NEW j \in Slots, j # i, j # n
               PROVE  Unfinished(s, j)' = Unfinished(s, j)
    BY <1>11
  <2> QED
    BY <1>1, <1>3 DEF Unfinished
<1>14. /\ IsFiniteSet(Open(s)) /\ IsFiniteSet(Active(s))
       /\ Cardinality(Open(s)) \in Nat /\ Cardinality(Active(s)) \in Nat
       /\ \A j \in Slots : Cardinality(Unfinished(s, j)) \in Nat
  BY SetsFinite DEF batchInv
<1>15. Counted(s) /\ active_batches[s] \in Nat
  BY <1>5 DEF batchInv
<1>16. i \notin Active(s) /\ Active(s)' \subseteq Active(s) \cup {i} /\ Active(s) \subseteq Active(s)'
  <2>1. \A j \in Slots : j # i => (j \in Active(s)' <=> j \in Active(s))
    BY <1>13 DEF Active
  <2>2. i \notin Active(s)
    BY <1>12 DEF Active
  <2>3. Active(s)' \subseteq Slots /\ Active(s) \subseteq Slots
    BY DEF Active
  <2> QED
    BY <2>1, <2>2, <2>3
<1>17. /\ IsFiniteSet(Active(s) \cup {i})
       /\ Cardinality(Active(s) \cup {i}) = Cardinality(Active(s)) + 1
  BY <1>14, <1>16, FS_AddElement
<1>18. Counted(s)'
  <2>1. /\ Cardinality(Unfinished(s, i))' \in Nat
        /\ Cardinality(Unfinished(s, i))' <= Cardinality(Open(s))
    BY <1>12, <1>14, FS_Subset, FS_CardinalityType
  <2>2. Cardinality(Unfinished(s, i))' <= map_from_batch_sz'[s][i]
    BY <1>3, <1>7, <1>14, <1>15, <2>1 DEF Counted
  <2>3. \A j \in Slots : Cardinality(Unfinished(s, j))' <= map_from_batch_sz'[s][j]
    BY <1>7, <1>13, <1>15, <2>2 DEF Counted
  <2>4. /\ Cardinality(Active(s))' \in Nat
        /\ Cardinality(Active(s))' <= Cardinality(Active(s)) + 1
    BY <1>16, <1>17, FS_Subset, FS_CardinalityType
  <2>5. Cardinality(Active(s))' <= active_batches'[s]
    BY <1>7, <1>14, <1>15, <2>4 DEF Counted
  <2>6. Cardinality(Open(s))' <= local_seq_no'[s]
    BY <1>3, <1>11, FS_EmptySet
  <2> QED
    BY <2>3, <2>5, <2>6 DEF Counted
<1>19. ASSUME OnlyGenerated(s)' PROVE Exact(s)'
  <2>1. OnlyGenerated(s)
    BY <1>9, <1>19, OnlyBefore
  <2>2. Exact(s)
    BY <2>1 DEF batchInv
  <2>3. Open(s) \subseteq Timer
    BY <2>1 DEF OnlyGenerated, Open
  <2>4. Unfinished(s, i)' = Open(s)
    BY <1>12, <2>3
  <2>5. Cardinality(Unfinished(s, i))' = map_from_batch_sz'[s][i]
    BY <1>7, <2>2, <2>4 DEF Exact
  <2>6. Unfinished(s, i)' # {}
    BY <2>2, <2>4, FS_EmptySet DEF Exact
  <2>7. Active(s)' = Active(s) \cup {i}
    <3>1. i \in Active(s)'
      BY <2>6 DEF Active
    <3> QED
      BY <1>16, <3>1
  <2>8. Cardinality(Active(s))' = active_batches'[s]
    BY <1>7, <1>17, <2>2, <2>7 DEF Exact
  <2>9. \A j \in Active(s)' : Cardinality(Unfinished(s, j))' = map_from_batch_sz'[s][j]
    <3>1. ASSUME NEW j \in Active(s), j \in Slots, j # i
          PROVE  Cardinality(Unfinished(s, j))' = map_from_batch_sz'[s][j]
      BY <1>7, <1>13, <2>2, <3>1 DEF Exact
    <3>2. \A j \in Active(s) : j \in Slots /\ j # i
      BY <1>16 DEF Active
    <3> QED
      BY <2>5, <2>7, <3>1, <3>2
  <2>10. Cardinality(Open(s))' = local_seq_no'[s]
    BY <1>3, <1>11, FS_EmptySet
  <2> QED
    BY <2>8, <2>9, <2>10 DEF Exact
<1>20. ASSUME NEW t \in Switches, t # s PROVE Counted(t)' /\ (OnlyGenerated(t)' => Exact(t)')
  <2>1. Same(t)
    BY <1>1, <1>3, <1>7, <1>20 DEF Same, Open, Unfinished
  <2> QED
    BY <1>9, <2>1, SameKeeps DEF batchInv
<1>21. IsFiniteSet(InLoop)'
  BY <1>1 DEF batchInv, InLoop
<1> QED
  BY <1>8, <1>18, <1>19, <1>20, <1>21 DEF batchInv

-----------------------------------------------------------------------------
(* The specification.                                                      *)

LEMMA BatchInit == pktgenInit => batchInv
<1> SUFFICES ASSUME pktgenInit PROVE batchInv
  OBVIOUS
<1>1. /\ \A p \in Packets : stage[p] = "client"
      /\ local_seq_no = [s \in Switches |-> 0] /\ active_batches = [s \in Switches |-> 0]
      /\ map_from_batch_sz = [s \in Switches |-> [i \in Slots |-> 0]]
  BY DEF pktgenInit, rlInit, ringInit
<1>2. \A s \in Switches :
        /\ Open(s) = {} /\ Active(s) = {}
        /\ \A i \in Slots : Unfinished(s, i) = {}
  BY <1>1, RingAssumption DEF Open, Active, Unfinished
<1>3. batchTypeOK
  BY <1>1 DEF batchTypeOK
<1>4. InLoop = {}
  BY <1>1 DEF InLoop
<1>5. \A s \in Switches : Counted(s) /\ Exact(s)
  BY <1>1, <1>2, FS_EmptySet DEF Counted, Exact
<1> QED
  BY <1>3, <1>4, <1>5, FS_EmptySet DEF batchInv

LEMMA RecirculateKeeps ==
    ASSUME ringTypeOK, batchInv, Counts, NEW p \in Packets, Recirculate(p)
    PROVE  batchInv'
<1>1. /\ stage[p] = "loop" /\ at[p] \in Switches /\ pkt_it[p] \in Slots
      /\ UNCHANGED <<at, pkt_it, cntrl_pkt_it, local_seq_no>>
  BY DEF Recirculate, ringTypeOK, switchVars
<1>2. CASE pkt_it[p] = cntrl_pkt_it[at[p]]
  <2>1. stage' = stage
    BY <1>1, <1>2 DEF Recirculate, ringTypeOK
  <2> QED
    BY <1>1, <2>1, QuietKeeps
<1>3. CASE pkt_it[p] # cntrl_pkt_it[at[p]] /\ p \in Timer
  <2>1. stage' = [stage EXCEPT ![p] = "resp"]
    BY <1>3 DEF Recirculate, Route
  <2> QED
    BY <1>1, <1>3, <2>1, LeaveKeeps
<1>4. CASE pkt_it[p] # cntrl_pkt_it[at[p]] /\ p \notin Timer
  <2>1. PICK x \in {"shard", "unrouted"} : stage' = [stage EXCEPT ![p] = x]
    BY <1>4 DEF Recirculate, Route
  <2>2. x \in Stages /\ x \notin {"client", "loop", "resp"}
    BY DEF Stages
  <2> QED
    BY <1>1, <1>4, <2>1, <2>2, UncountedKeeps
<1> QED
  BY <1>2, <1>3, <1>4

LEMMA BatchNext ==
    ASSUME ringTypeOK, batchInv, [pktgenNext]_pktgenVars
    PROVE  batchInv'
<1>1. CASE UNCHANGED pktgenVars
  <2>1. /\ UNCHANGED <<stage, at, pkt_it, local_seq_no, cntrl_pkt_it>>
        /\ UNCHANGED batchVars
    BY <1>1 DEF pktgenVars, allVars, ringVars, switchVars, packetVars
  <2>2. Counts
    BY <2>1 DEF Counts, Closes, Leaves
  <2> QED
    BY <2>1, <2>2, QuietKeeps
<1>2. CASE pktgenNext
  <2>1. Counts /\ rlNext
    BY <1>2 DEF pktgenNext
  <2>2. CASE UNCHANGED ringVars
    <3>1. UNCHANGED <<stage, at, pkt_it, local_seq_no, cntrl_pkt_it>>
      BY <2>2 DEF ringVars, switchVars, packetVars
    <3> QED
      BY <2>1, <3>1, QuietKeeps
  <2>3. CASE ringNext
    <3>1. ASSUME NEW c \in Injectors, InjectToken(c) \/ LoseToken(c) PROVE batchInv'
      <4>1. UNCHANGED <<stage, at, pkt_it, local_seq_no, cntrl_pkt_it>>
        BY <3>1 DEF InjectToken, LoseToken, switchVars, packetVars
      <4> QED
        BY <2>1, <4>1, QuietKeeps
    <3>2. ASSUME NEW c \in Injectors, CntrlPacket(c), RecirculationKeepsUp(c) PROVE batchInv'
      <4>1. PICK s \in Switches : token_at[c] = s
        BY DEF ringTypeOK
      <4>2. CASE local_seq_no[s] = 0
        <5>1. UNCHANGED <<stage, at, pkt_it, local_seq_no, cntrl_pkt_it>>
          BY <3>2, <4>1, <4>2
          DEF CntrlPacket, update_cntrl_pkt_it, read_local_seq_no, packetVars, ringTypeOK
        <5> QED
          BY <2>1, <5>1, QuietKeeps
      <4>3. CASE local_seq_no[s] # 0
        <5>1. cntrl_pkt_it[s] \in Slots
          BY DEF ringTypeOK
        <5> QED
          BY <2>1, <3>2, <4>1, <4>3, <5>1, CloseKeeps
      <4> QED
        BY <4>2, <4>3
    <3>3. ASSUME NEW p \in Packets, NEW s \in Switches, FirstPass(p, s) PROVE batchInv'
      BY <2>1, <3>3, FirstPassKeeps
    <3>4. ASSUME NEW p \in Packets, Recirculate(p) PROVE batchInv'
      BY <2>1, <3>4, RecirculateKeeps
    <3>5. ASSUME NEW p \in Packets, LoseInLoop(p) PROVE batchInv'
      <4>1. /\ stage[p] = "loop" /\ stage' = [stage EXCEPT ![p] = "lost"]
            /\ UNCHANGED <<at, pkt_it, cntrl_pkt_it, local_seq_no>>
        BY <3>5 DEF LoseInLoop, switchVars
      <4>2. "lost" \in Stages /\ "lost" \notin {"client", "loop", "resp"}
        BY DEF Stages
      <4> QED
        BY <2>1, <4>1, <4>2, UncountedKeeps
    <3> QED
      BY <2>3, <3>1, <3>2, <3>3, <3>4, <3>5 DEF ringNext
  <2> QED
    BY <2>1, <2>2, <2>3 DEF rlNext
<1> QED
  BY <1>1, <1>2

LEMMA BatchInductive == pktgenSpec => []batchInv
<1>1. pktgenSpec => []rlTypeOK
  <2>1. pktgenInit => rlInit
    BY DEF pktgenInit
  <2>2. [pktgenNext]_pktgenVars => [rlNext]_allVars
    BY DEF pktgenNext, pktgenVars
  <2>3. pktgenSpec => rlSpec
    BY <2>1, <2>2, PTL DEF pktgenSpec, rlSpec
  <2> QED
    BY <2>3, LogTypeCorrect, PTL
<1>2. rlTypeOK /\ batchInv /\ [pktgenNext]_pktgenVars => batchInv'
  BY BatchNext DEF rlTypeOK
<1> QED
  BY <1>1, <1>2, BatchInit, PTL DEF pktgenSpec

\* The counters of unfinished batches never count less than what is in the loop
\* and, where every append is a generated one, exactly that: no register goes
\* below zero, and active_batches comes back to zero.
THEOREM PktgenBatchesCounted == pktgenSpec => []BatchesCounted
<1>1. batchInv => BatchesCounted
  <2> SUFFICES ASSUME batchInv, NEW s \in Switches
               PROVE  LET active == {i \in Slots : Unfinished(s, i) # {}}
                      IN  /\ \A i \in Slots :
                               map_from_batch_sz[s][i] >= Cardinality(Unfinished(s, i))
                          /\ active_batches[s] >= Cardinality(active)
                          /\ OnlyGenerated(s) =>
                               /\ active_batches[s] = Cardinality(active)
                               /\ \A i \in active :
                                    map_from_batch_sz[s][i] = Cardinality(Unfinished(s, i))
    BY DEF BatchesCounted
  <2>1. Counted(s) /\ (OnlyGenerated(s) => Exact(s))
    BY DEF batchInv
  <2>2. /\ Cardinality(Active(s)) \in Nat
        /\ \A i \in Slots : Cardinality(Unfinished(s, i)) \in Nat
    BY SetsFinite DEF batchInv
  <2>3. /\ active_batches[s] \in Nat
        /\ \A i \in Slots : map_from_batch_sz[s][i] \in Nat
    BY DEF batchInv, batchTypeOK
  <2> QED
    BY <2>1, <2>2, <2>3 DEF Counted, Exact, Active
<1> QED
  BY <1>1, BatchInductive, PTL
=============================================================================
