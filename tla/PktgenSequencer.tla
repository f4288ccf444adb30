--------------------------- MODULE PktgenSequencer ---------------------------
(***************************************************************************)
(* The data plane of the packet generator experiments                      *)
(* (code/p4/pktgen_tests/pktgen.p4).  It numbers, stores and answers like  *)
(* the one of RingLog, through several loopback ports, and counts what is  *)
(* left of every finished batch: the control packet notes the size of the  *)
(* batch it closes, a generated append takes one off when it leaves the    *)
(* loop, and the last one takes the batch off the active ones.  The        *)
(* controller (batch_check of pktgen_tests/test.py) reports the active     *)
(* batches once a second.                                                  *)
(*                                                                         *)
(* The counters read the ring and the ring does not read them: a step of   *)
(* this module is a step of RingLog with what it counts.                   *)
(***************************************************************************)
EXTENDS RingLog

VARIABLES
    active_batches,     \* per switch: finished batches with appends in the loop
    map_from_batch_sz   \* per switch and iteration: appends left of that batch

batchVars  == <<active_batches, map_from_batch_sz>>
pktgenVars == <<allVars, batchVars>>

pktgenInit ==
    /\ rlInit
    /\ active_batches    = [s \in Switches |-> 0]
    /\ map_from_batch_sz = [s \in Switches |-> [i \in Slots |-> 0]]

-----------------------------------------------------------------------------
(* The register actions.                                                   *)

add_batch(s) == [active_batches EXCEPT ![s] = @ + 1]

sub_batch(s) == [active_batches EXCEPT ![s] = @ - 1]

\* Every append of the batch is counted, the generated ones and the others.
set_batch_sz(s, i) == [map_from_batch_sz EXCEPT ![s][i] = local_seq_no[s]]

\* (mutUpdateCurrent: the iteration of the switch instead of the packet's own.)
mutUpdateCurrent(s, i) == [map_from_batch_sz EXCEPT ![s][cntrl_pkt_it[s]] = @ - 1]
update_batch_sz(s, i) == [map_from_batch_sz EXCEPT ![s][i] = @ - 1]

-----------------------------------------------------------------------------
(* What a step of the ring counts.                                         *)

\* The control packet closes the batch of switch s.
Closes(s) == cntrl_pkt_it'[s] # cntrl_pkt_it[s]

CountBatch(s) ==
    /\ active_batches'    = add_batch(s)
    /\ map_from_batch_sz' = set_batch_sz(s, cntrl_pkt_it[s])

\* A generated append leaves the loop and becomes its own answer.
Leaves(p) == stage[p] = "loop" /\ stage'[p] = "resp"

CountLeaving(p) ==
    LET left == update_batch_sz(at[p], pkt_it[p])
    IN  /\ map_from_batch_sz' = left
        /\ active_batches' =
             IF left[at[p]][pkt_it[p]] = 0 THEN sub_batch(at[p]) ELSE active_batches

Counts ==
    \/ \E s \in Switches : Closes(s) /\ CountBatch(s)
    \/ \E p \in Packets : Leaves(p) /\ CountLeaving(p)
    \/ /\ \A s \in Switches : ~Closes(s)
       /\ \A p \in Packets : ~Leaves(p)
       /\ UNCHANGED batchVars

pktgenNext == rlNext /\ Counts

pktgenSpec == pktgenInit /\ [][pktgenNext]_pktgenVars

FairPktgenSpec == pktgenSpec /\ rlFairness

-----------------------------------------------------------------------------
(* Properties.                                                             *)

\* The generated appends of a finished batch that are still in the loop.
Unfinished(s, i) ==
    {p \in Timer : stage[p] = "loop" /\ at[p] = s /\ pkt_it[p] = i /\ i # cntrl_pkt_it[s]}

\* A switch that only generated appends went through, and that dropped none.
OnlyGenerated(s) ==
    \A p \in Packets : stage[p] # "client" /\ at[p] = s => p \in Timer /\ stage[p] # "lost"

\* The counters agree with what is in the loop, although batches finish in any
\* order and iterations are used again: they never count less (no register goes
\* below zero) and, where every append is a generated one, never more, so that
\* active_batches comes back to zero.
BatchesCounted ==
    \A s \in Switches :
      LET active == {i \in Slots : Unfinished(s, i) # {}}
      IN  /\ \A i \in Slots : map_from_batch_sz[s][i] >= Cardinality(Unfinished(s, i))
          /\ active_batches[s] >= Cardinality(active)
          /\ OnlyGenerated(s) =>
               /\ active_batches[s] = Cardinality(active)
               /\ \A i \in active : map_from_batch_sz[s][i] = Cardinality(Unfinished(s, i))
=============================================================================
