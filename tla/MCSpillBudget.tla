--------------------------- MODULE MCSpillBudget ---------------------------
(* SpillBudget for TLC: two connections, one of them serving ICAP.          *)
EXTENDS SpillBudget, TLC

CONSTANTS c1, c2

TwoConns == {c1, c2}
OneIcap == {c1}
=============================================================================
