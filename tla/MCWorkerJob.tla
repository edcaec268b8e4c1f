---------------------------- MODULE MCWorkerJob ----------------------------
(* WorkerJob for TLC. *)
EXTENDS WorkerJob, TLC
=============================================================================
