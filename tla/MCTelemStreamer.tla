--------------------------- MODULE MCTelemStreamer ---------------------------
(* Model-checking instance of TelemStreamer: two handlers, one of which     *)
(* asks for a channel the other asks for too.                               *)
EXTENDS TelemStreamer, TLC

CONSTANTS h1, h2, c1, c2

mcKeysOf == h1 :> {c1} @@ h2 :> {c1, c2}

==============================================================================
