----------------------------- MODULE MCWakePipe -----------------------------
(* WakePipe for TLC: a handler on the supervisor's thread and two other     *)
(* threads (a handler that runs on one of them, `request_reload`).          *)
EXTENDS WakePipe, TLC

CONSTANTS h1, t1, t2

MCSignallers == {h1, t1, t2}
MCHandlers == {h1}
=============================================================================
