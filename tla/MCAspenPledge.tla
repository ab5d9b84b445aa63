--------------------------- MODULE MCAspenPledge ----------------------------
(* Bounded instances of AspenPledge. *)
EXTENDS AspenPledge, TLC

CONSTANTS n1, n2, n3, n4, n5

\* Two nodes join the bootstrapped one; two nodes join a cluster of three, whose
\* juries are two out of three, through different members.
SmallClusters ==
    {[members |-> <<n1>>, calm |-> FALSE,
      peers |-> (n4 :> {n1, n5} @@ n5 :> {n1, n4})],
     [members |-> <<n1, n2, n3>>, calm |-> TRUE,
      peers |-> (n4 :> {n2} @@ n5 :> {n3})]}
=============================================================================
