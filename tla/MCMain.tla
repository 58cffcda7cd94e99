------------------------------- MODULE MCMain -------------------------------
(* A small instance of Main for TLC: durations of four bits. *)
EXTENDS Main

MCDurations == {-1, 0, 1, 2, 3, 6}
MCPorts == {1023, 1024, 65536}
=============================================================================
