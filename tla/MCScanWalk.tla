----------------------------- MODULE MCScanWalk -----------------------------
(* ScanWalk for TLC: an input, what is in it, and what is in that.          *)
EXTENDS ScanWalk

MCOptions ==
    {[all |-> FALSE, alert |-> "off"], [all |-> FALSE, alert |-> "ignored"],
     [all |-> TRUE, alert |-> "on"]}
=============================================================================
