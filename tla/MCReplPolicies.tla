--------------------------- MODULE MCReplPolicies ---------------------------
(* Four addresses in two ways of two sets.  They compete for three of the  *)
(* positions, so the fourth miss finds only valid candidates: its walk     *)
(* branches, meets lines twice, and may end two steps from its seed.       *)
EXTENDS ReplPolicies

MCHash ==
    LET ways == << <<0, 0, 0, 0>>, <<0, 0, 1, 1>> >>
    IN  [w \in 0..1 |-> [a \in Address |-> ways[w + 1][a]]]
=============================================================================
