-------------------------- MODULE MCWorkerSession --------------------------
(* An instance of WorkerSession for TLC: a window of one and a half          *)
(* intervals, a queue of one message, and as many sessions as may be.        *)
EXTENDS WorkerSession
=============================================================================
