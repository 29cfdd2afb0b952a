------------------------------- MODULE Mutex -------------------------------
(***************************************************************************)
(* What a lock of locks.h promises its callers, whichever futex_lock*      *)
(* variant they call: a thread asks for the lock, at some later point it   *)
(* owns it alone (or, for the variant with a timeout, gives up), and an    *)
(* owner gives it back.  FutexLock implements this specification.          *)
(***************************************************************************)
CONSTANT Thread

VARIABLE hold        \* hold[t]: "idle", "waiting" or "holding"

Init == hold = [t \in Thread |-> "idle"]

Request(t) == hold[t] = "idle"    /\ hold' = [hold EXCEPT ![t] = "waiting"]
GiveUp(t)  == hold[t] = "waiting" /\ hold' = [hold EXCEPT ![t] = "idle"]
Release(t) == hold[t] = "holding" /\ hold' = [hold EXCEPT ![t] = "idle"]

Acquire(t) ==
    /\ hold[t] = "waiting"
    /\ \A u \in Thread : hold[u] # "holding"
    /\ hold' = [hold EXCEPT ![t] = "holding"]

Next == \E t \in Thread : Request(t) \/ GiveUp(t) \/ Acquire(t) \/ Release(t)

Spec == Init /\ [][Next]_hold
=============================================================================
