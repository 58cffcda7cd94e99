------------------------------ MODULE MCMapper ------------------------------
(* Small instances of Mapper for TLC. *)
EXTENDS Mapper, TLC

CONSTANTS p1, p2, k1, k2, t1, t2

MCPids == {p1, p2}
MCKeys == {k1, k2}
MCCallers == {t1, t2}

Interchangeable == Permutations(Pids) \cup Permutations(MCKeys) \cup Permutations(MCCallers)
=============================================================================
