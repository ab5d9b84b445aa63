------------------------------ MODULE MCAether ------------------------------
EXTENDS Aether, TLC

CONSTANTS v1, v2

(* A composite p that provides x and y, in it a composite q that hides p's y  *)
(* with its own, set without trigger, and in that a leaf.                     *)
MCKeys == {"p", "q", "l"}
MCParent == [k \in MCKeys |-> CASE k = "p" -> "root" [] k = "q" -> "p" [] k = "l" -> "q"]
MCProvides == [k \in MCKeys |-> CASE k = "p" -> {"x", "y"} [] k = "q" -> {"y"} [] k = "l" -> {}]
MCAnnounces == [MCProvides EXCEPT !["q"] = {}]

MCSymmetry == Permutations({v1, v2})
=============================================================================
