---------------------------- MODULE MCTelemReader ----------------------------
(* Model-checking instance of TelemReader: two reads that share a channel,  *)
(* the range of one inside that of the other; one has a channel more.       *)
EXTENDS TelemReader, TLC

CONSTANTS r1, r2, c1, c2

mcKeysOf == r1 :> {c1} @@ r2 :> {c1, c2}
mcRangeOf == r1 :> {0, 1, 2} @@ r2 :> {1}

==============================================================================
