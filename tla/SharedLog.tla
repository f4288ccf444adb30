----------------------------- MODULE SharedLog -----------------------------
(***************************************************************************)
(* What Pringles promises to the clients of its shared log: appends get    *)
(* distinct places in one log, and an append gets a later place than every *)
(* append it has to follow.  Places are reserved in blocks, so the one of  *)
(* an earlier append may still be unknown when a later append gets its own.*)
(***************************************************************************)
EXTENDS Naturals

CONSTANT Packets   \* the appends

VARIABLES
    arrived,       \* appends that have entered the system
    preds,         \* preds[p]: the appends that p has to follow
    reserved,      \* the log is reserved up to this place
    index          \* index[p]: the place of p in the log, 0 as long as it has none

logVars == <<arrived, preds, reserved, index>>

logInit ==
    /\ arrived = {}
    /\ preds = [p \in Packets |-> {}]
    /\ reserved = 0
    /\ index = [p \in Packets |-> 0]

\* An append enters; it has to follow at least the appends with a place.
Arrive(p) ==
    /\ p \notin arrived
    /\ arrived' = arrived \cup {p}
    /\ \E S \in SUBSET arrived :
         /\ {q \in Packets : index[q] # 0} \subseteq S
         /\ preds' = [preds EXCEPT ![p] = S]
    /\ UNCHANGED <<reserved, index>>

Reserve ==
    /\ reserved' \in Nat
    /\ reserved < reserved'
    /\ UNCHANGED <<arrived, preds, index>>

\* An append gets a reserved place that no other append has.
Number(p) ==
    /\ p \in arrived
    /\ index[p] = 0
    /\ \E i \in 1 .. reserved :
         /\ \A q \in Packets : index[q] # i
         /\ \A q \in preds[p] : index[q] < i
         /\ \A q \in Packets : p \in preds[q] /\ index[q] # 0 => i < index[q]
         /\ index' = [index EXCEPT ![p] = i]
    /\ UNCHANGED <<arrived, preds, reserved>>

logNext ==
    \/ \E p \in Packets : Arrive(p) \/ Number(p)
    \/ Reserve

logSpec == logInit /\ [][logNext]_logVars
=============================================================================
