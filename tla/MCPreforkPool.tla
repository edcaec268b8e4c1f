--------------------------- MODULE MCPreforkPool ---------------------------
(* PreforkPool for TLC: a few pids, enough of them that a fork never waits  *)
(* for one.  An adopted process takes one only while it is free; a reload   *)
(* that finds the others in use then is not followed further.               *)
EXTENDS PreforkPool, TLC

CONSTANTS p1, p2, p3, p4, icap

Pids2 == {p1, p2}
Pids4 == {p1, p2, p3, p4}
Icap == {icap}
NoSides == {}

PidSymmetry == Permutations(Pids)

ASSUME EnoughPids ==
    Cardinality(Pids) >= MaxGen * (Workers + Cardinality(Sides))
=============================================================================
