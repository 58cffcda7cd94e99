----------------------------- MODULE MCExporter -----------------------------
(* Small instances of Exporter for TLC. *)
EXTENDS Exporter, TLC

CONSTANTS u1, s1, s2, n1, n2, d1
=============================================================================
