------------------------- MODULE MC_TransformTraces -------------------------
(* Three context entries over the two trace consumer types (so a type can  *)
(* recur with another in between) and two concurrent ProcessTraces calls.  *)
EXTENDS TransformTraces

MCN == 3
MCTypes == {"span", "spanevent"}
CONSTANTS g1, g2
MCCalls == {g1, g2}
CallSymmetry == Permutations(MCCalls)
=============================================================================
