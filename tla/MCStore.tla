------------------------------ MODULE MCStore ------------------------------
(* Small instances of Store for TLC. *)
EXTENDS Store, TLC

CONSTANTS u1, s1, s2, n1, n2, d1
=============================================================================
