------------------------------- MODULE MCWeave ------------------------------
(* Two domains, simulated by one thread or by two. *)
EXTENDS Weave

MCCore == {"c1", "c2"}
MCBank == {"b0", "b1"}
MCBankDomain == "b0" :> 0 @@ "b1" :> 1
MCCoreDomain == "c1" :> 0 @@ "c2" :> 1
MCNumMSHRs == "b0" :> 1 @@ "b1" :> 2
MCMaxOps == "c1" :> 2 @@ "c2" :> 3
A(c, b, k, v) == [core |-> c, bank |-> b, kind |-> k, victim |-> v]
MCAccesses ==
    {A("c1", "b0", "miss", {"b0"}), A("c1", "b1", "hit", {"b1"}),
     A("c2", "b0", "hit", {"b0"}), A("c2", "b1", "missWriteback", {"b1"})}
=============================================================================
