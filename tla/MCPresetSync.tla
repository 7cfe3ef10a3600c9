---------------------------- MODULE MCPresetSync ----------------------------
(* Three models, the last without a step cache, and presets for the other *)
(* two; the first preset leaves the Sample node's number alone.             *)
EXTENDS PresetSync, TLC

CONSTANTS m1, m2, m3, p1, p2

MCModelOf == (p1 :> m1) @@ (p2 :> m2)
=============================================================================
