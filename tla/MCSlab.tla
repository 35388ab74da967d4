------------------------------- MODULE MCSlab -------------------------------
(* Two size classes, of three and two objects, compete for two frames.     *)
EXTENDS Slab, TLC

CONSTANTS small, large, f1, f2

MCClasses  == {small, large}
MCObjSize  == (small :> 3) @@ (large :> 4)
MCFrames   == {f1, f2}
MCSymmetry == Permutations(MCFrames)
=============================================================================
