---------------------------- MODULE MCIcapServer ----------------------------
(* IcapServer for TLC: a few connections, one more than the cap.            *)
EXTENDS IcapServer

CONSTANTS c1, c2, c3

ThreeConns == {c1, c2, c3}
=============================================================================
