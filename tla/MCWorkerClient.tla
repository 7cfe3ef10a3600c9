--------------------------- MODULE MCWorkerClient ---------------------------
(* Small instances of WorkerClient for TLC. *)
EXTENDS WorkerClient

CONSTANTS r1, r2
=============================================================================
