----------------------------- MODULE MCBarrier -----------------------------
(* Barrier for TLC: three cores, fewer of which may run in parallel, and a *)
(* cleanup pass every other phase instead of every 32nd.                   *)
EXTENDS Barrier
=============================================================================
