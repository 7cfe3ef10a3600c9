--------------------------- MODULE MCWorkerServer ---------------------------
(* Small instances of WorkerServer for TLC. *)
EXTENDS WorkerServer

CONSTANTS r1, r2, r3
=============================================================================
