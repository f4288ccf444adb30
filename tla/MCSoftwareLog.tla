--------------------------- MODULE MCSoftwareLog ---------------------------
(* Small switches, with one or two threads, for TLC.                        *)
EXTENDS SoftwareLog

CONSTANTS c1, c2
=============================================================================
