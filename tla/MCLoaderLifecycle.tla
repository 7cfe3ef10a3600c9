------------------------- MODULE MCLoaderLifecycle -------------------------
(* Small instances of LoaderLifecycle for TLC. *)
EXTENDS LoaderLifecycle, TLC

CONSTANTS k1, k2, m1, m2, a1

(* Keys are only compared with each other. *)
KeySymmetry == Permutations(Keys)
=============================================================================
