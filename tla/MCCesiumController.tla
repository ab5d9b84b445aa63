------------------------- MODULE MCCesiumController -------------------------
(* Bounded instances of CesiumController. *)
EXTENDS CesiumController, TLC

\* The end of an open-ended writer, telem.TimeStampMax.
Max == 9

FromNow == {[start |-> 1, end |-> Max]}
Bounded == {[start |-> 1, end |-> 2], [start |-> 2, end |-> 3]}
Mixed == Bounded \cup {[start |-> 1, end |-> Max]}

Identities == Permutations(Gates) \cup Permutations(Regions) \cup Permutations(Subjects)
=============================================================================
