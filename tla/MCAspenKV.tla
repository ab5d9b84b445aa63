------------------------------ MODULE MCAspenKV -----------------------------
(* Bounded instances of AspenKV. *)
EXTENDS AspenKV
=============================================================================
