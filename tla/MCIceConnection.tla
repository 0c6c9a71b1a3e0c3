--------------------------- MODULE MCIceConnection ---------------------------
(***************************************************************************)
(* Networks for model checking IceConnection.                              *)
(***************************************************************************)
EXTENDS IceConnection

\* One address each, or two for one of the agents.
OneEach == [p \in Peers |-> IF p = First THEN <<"h">> ELSE <<"k">>]
TwoForFirst == [p \in Peers |-> IF p = First THEN <<"h1", "h2">> ELSE <<"k">>]
TwoForOther == [p \in Peers |-> IF p = First THEN <<"h">> ELSE <<"k1", "k2">>]

\* A restart; two addresses, of which both or only the second one can be reached; and
\* what a loss or a late answer does to a single pair.
MCNetworks ==
  {[hosts |-> OneEach, blocked |-> {}, rounds |-> 2, losses |-> 0, lates |-> 0],
   [hosts |-> TwoForOther, blocked |-> {}, rounds |-> 1, losses |-> 0, lates |-> 0],
   [hosts |-> TwoForFirst, blocked |-> {{"h1", "k"}}, rounds |-> 1, losses |-> 0, lates |-> 0],
   [hosts |-> OneEach, blocked |-> {}, rounds |-> 1, losses |-> 1, lates |-> 1]}
=============================================================================
