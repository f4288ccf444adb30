--------------------------- MODULE MCSwitchControl ---------------------------
(* Small rings of controllers for TLC.                                      *)
EXTENDS SwitchControl, TLC

CONSTANTS port1, port2, port3

Request(x, p, s) == [stream |-> x, port |-> p, at |-> s]

\* Subscribers without a stream and of two streams, at different switches.
mcRequests == {Request(0, port1, 1), Request(1, port2, 2), Request(1, port3, 1)}
mcShards   == <<{port3}>>
=============================================================================
