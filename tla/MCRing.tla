------------------------------- MODULE MCRing -------------------------------
(* Small rings for TLC.                                                     *)
EXTENDS RingSequencer, TLC

CONSTANTS p1, p2, p3, p4

\* p3 is produced by the packet generator; p2 is in a stream of its own.
mcTimer  == {p3}
mcStream == [p \in Packets |-> IF p = p2 THEN 9 ELSE 0]
mcShards == {1, 2, 9}
=============================================================================
