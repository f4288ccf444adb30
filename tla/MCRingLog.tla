----------------------------- MODULE MCRingLog -----------------------------
(* Small rings with storage servers for TLC.                                *)
EXTENDS RingLog, TLC

CONSTANTS p1, p2, r1, r2

\* Clients' appends only; p2 is in a stream, whose shard has number 2.
mcTimer  == {}
mcStream == [p \in Packets |-> IF p = p2 THEN 2 ELSE 0]
mcShards == 1 .. 2
=============================================================================
