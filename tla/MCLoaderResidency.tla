-------------------------- MODULE MCLoaderResidency --------------------------
(* A small instance of LoaderResidency for TLC. *)
EXTENDS LoaderResidency

CONSTANT m1
=============================================================================
