------------------------- MODULE MCProgressTracker -------------------------
(* A small instance of ProgressTracker for TLC. *)
EXTENDS ProgressTracker
=============================================================================
