---------------------------- MODULE MCScheduler ----------------------------
(* Three threads on two cores; t1 may use either core, the others compete  *)
(* with it for one each.  t3 is a process of its own and can be killed.    *)
EXTENDS Scheduler

CONSTANTS t1, t2, t3, c1, c2, p1, p2

MCMask == (t1 :> {c1, c2}) @@ (t2 :> {c1}) @@ (t3 :> {c2})
MCProcess == (t1 :> p1) @@ (t2 :> p1) @@ (t3 :> p2)
MCCalls == (t1 :> {"plain", "sleep"}) @@ (t2 :> {"plain", "timed"}) @@ (t3 :> {"plain"})
FewCalls == (t1 :> {"sleep"}) @@ (t2 :> {"plain"}) @@ (t3 :> {})
=============================================================================
