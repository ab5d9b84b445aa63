---------------------------- MODULE MCTelemCache ----------------------------
(* Model-checking instance of TelemCache.                                  *)
EXTENDS TelemCache

(* Buffers that one frame fills and buffers that several frames share.     *)
mcCaps == {2, 4}

(* No frame missed, one sample missed (tolerated), two missed (not).       *)
mcSkips == 0 .. 2

(* Reads that begin before what the first buffer holds and inside it.      *)
mcReadRanges ==
    {[start |-> 0, end |-> 1], [start |-> 1, end |-> 5]}

=============================================================================
