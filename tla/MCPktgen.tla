------------------------------ MODULE MCPktgen ------------------------------
(* Small rings with the batch counters, storage and tail queries for TLC.   *)
EXTENDS PktgenSequencer, TLC

CONSTANTS p1, p2, p3, r1, q1

\* Run ring_three: p1 and p3 are generated, and the third index has no shard.
mcTimer    == {p1, p3}
mcNoStream == [p \in Packets |-> 0]

\* Run ringlog_answers: p2 is in a stream, whose shard has number 2.
mcStream == [p \in Packets |-> IF p = p2 THEN 2 ELSE 0]
mcShards == {1, 2}
=============================================================================
