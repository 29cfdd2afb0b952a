----------------------------- MODULE FutexLock -----------------------------
(***************************************************************************)
(* The futex lock of zsim's locks.h: futex_lock, futex_lock_nospin,        *)
(* futex_trylock_nospin_timeout, futex_unlock and futex_haswaiters, run by *)
(* any number of threads on one lock word, one atomic memory operation or  *)
(* system call per step.                                                   *)
(*                                                                         *)
(* The word is 0 (free), 1 (taken, nobody announced that it will block) or *)
(* 2 (taken, somebody may be asleep in the kernel).                        *)
(***************************************************************************)
EXTENDS Integers

CONSTANTS
    Thread,     \* the threads that use the lock
    SpinTries   \* test-and-test-and-set attempts of futex_lock before it blocks

ASSUME SpinTriesAssumption == SpinTries \in Nat \ {0}

VARIABLES
    lock,       \* the futex word
    pc,         \* where each thread is
    call,       \* the function each thread called last
    tries       \* loop counter i of futex_lock

vars == <<lock, pc, call, tries>>

Calls == {"lock", "nospin", "timed"}

(* The loop bound of the call: only futex_lock spins. *)
Attempts(t) == IF call[t] = "lock" THEN SpinTries ELSE 1

Asleep == {t \in Thread : pc[t] = "asleep"}

(* The lock is owned from the winning atomic until the word becomes 0. *)
Owners == {t \in Thread : pc[t] \in {"owner", "storeZero"}}

(* futex_haswaiters *)
HasWaiters == lock = 2

Init ==
    /\ lock = 0
    /\ pc = [t \in Thread |-> "out"]
    /\ call = [t \in Thread |-> "lock"]
    /\ tries = [t \in Thread |-> 0]

Goto(t, where) == pc' = [pc EXCEPT ![t] = where]

Call(t) ==
    /\ pc[t] = "out"
    /\ \E c \in Calls : call' = [call EXCEPT ![t] = c]
    /\ Goto(t, "try")
    /\ UNCHANGED <<lock, tries>>

(* Mutant: the spin loop has no end. *)
SpinForever(t) ==
    /\ pc[t] = "try" /\ lock = 0
    /\ lock' = 1
    /\ Goto(t, "owner")
    /\ UNCHANGED <<call, tries>>

(***************************************************************************)
(* lock == 0 && CAS(lock, 0, 1): return.  A read of 0 followed by a      *)
(* CAS that loses is the same failed attempt as a read of a taken lock.    *)
(***************************************************************************)
TryCAS(t) ==
    /\ pc[t] = "try"
    /\ IF lock = 0
         THEN /\ lock' = 1
              /\ Goto(t, "owner")
              /\ tries' = [tries EXCEPT ![t] = 0]
         ELSE /\ IF tries[t] + 1 < Attempts(t)
                   THEN /\ tries' = [tries EXCEPT ![t] = @ + 1]
                        /\ UNCHANGED pc
                   ELSE /\ tries' = [tries EXCEPT ![t] = 0]
                        /\ Goto(t, "announce")
              /\ UNCHANGED lock
    /\ UNCHANGED call

(* c = xchg(lock, 2); if (c == 0) return. *)
Announce(t) ==
    /\ pc[t] = "announce"
    /\ lock' = 2
    /\ Goto(t, IF lock = 0 THEN "owner" ELSE "wait")
    /\ UNCHANGED <<call, tries>>

(* Mutant: sleeps whatever the word is. *)
SleepAlways(t) ==
    /\ pc[t] = "wait"
    /\ Goto(t, "asleep")
    /\ UNCHANGED <<lock, call, tries>>

(* FUTEX_WAIT compares the word with 2 and sleeps, or returns at once. *)
FutexWait(t) ==
    /\ pc[t] = "wait"
    /\ Goto(t, IF lock = 2 THEN "asleep" ELSE "retry")
    /\ UNCHANGED <<lock, call, tries>>

(* FUTEX_WAIT returns without a FUTEX_WAKE: a signal, or the timeout. *)
Interrupted(t) ==
    /\ pc[t] = "asleep"
    /\ Goto(t, "retry")
    /\ UNCHANGED <<lock, call, tries>>

(* Mutants: takes a lock whose word was 1; takes a free lock as if nobody  *)
(* else could be asleep.                                                   *)
RetryBelowTwo(t) ==
    /\ pc[t] = "retry"
    /\ lock' = 2
    /\ Goto(t, IF lock < 2 THEN "owner" ELSE IF call[t] = "timed" THEN "out" ELSE "try")
    /\ UNCHANGED <<call, tries>>

RetryAsOne(t) ==
    /\ pc[t] = "retry"
    /\ lock' = IF lock = 0 THEN 1 ELSE 2
    /\ Goto(t, IF lock = 0 THEN "owner" ELSE IF call[t] = "timed" THEN "out" ELSE "try")
    /\ UNCHANGED <<call, tries>>

(* c = xchg(lock, 2): owner, or another round, or "false" to the caller. *)
Retry(t) ==
    /\ pc[t] = "retry"
    /\ lock' = 2
    /\ Goto(t, IF lock = 0 THEN "owner"
               ELSE IF call[t] = "timed" THEN "out" ELSE "try")
    /\ UNCHANGED <<call, tries>>

(* futex_unlock: if (fetch_and_add(lock, -1) != 1) ... *)
Decrement(t) ==
    /\ pc[t] = "owner"
    /\ lock' = lock - 1
    /\ Goto(t, IF lock = 1 THEN "out" ELSE "storeZero")
    /\ UNCHANGED <<call, tries>>

(* ... then the plain store of 0 to the word ... *)
StoreZero(t) ==
    /\ pc[t] = "storeZero"
    /\ lock' = 0
    /\ Goto(t, "wake")
    /\ UNCHANGED <<call, tries>>

(* ... FUTEX_WAKE of one sleeper, if there is one. *)
FutexWake(t) ==
    /\ pc[t] = "wake"
    /\ IF Asleep = {}
         THEN Goto(t, "out")
         ELSE \E u \in Asleep : pc' = [pc EXCEPT ![t] = "out", ![u] = "retry"]
    /\ UNCHANGED <<lock, call, tries>>

(* The steps a thread takes by itself once it has called lock or unlock. *)
Step(t) ==
    \/ TryCAS(t) \/ Announce(t) \/ FutexWait(t) \/ Retry(t)
    \/ StoreZero(t) \/ FutexWake(t)

Next == \E t \in Thread : Call(t) \/ Step(t) \/ Interrupted(t) \/ Decrement(t)

(***************************************************************************)
(* A thread inside lock or unlock keeps running.  Nothing is assumed of    *)
(* how long an owner keeps the lock, of signals, or of timeouts.           *)
(***************************************************************************)
Spec == Init /\ [][Next]_vars /\ \A t \in Thread : WF_vars(Step(t))
-----------------------------------------------------------------------------
(* Types, and the word's three values: the decrement never wraps it. *)
TypeOK ==
    /\ lock \in 0..2
    /\ pc \in [Thread -> {"out", "try", "announce", "wait", "asleep", "retry",
                          "owner", "storeZero", "wake"}]
    /\ call \in [Thread -> Calls]
    /\ tries \in [Thread -> 0..(SpinTries - 1)]

(* The word is non-zero exactly while somebody owns the lock, and at most *)
(* one thread does, from the winning CAS or exchange until the word is 0  *)
(* again: futex_unlock's plain store never wipes out another's ownership. *)
Exclusive ==
    /\ lock # 0 <=> Owners # {}
    /\ \A t, u \in Owners : t = u

(* While a thread sleeps in FUTEX_WAIT, either the word is 2, so that the *)
(* owner's futex_unlock will wake somebody, or a thread is on its way that *)
(* will wake it or set the word to 2: no wakeup is ever lost, timeouts and *)
(* signals included.                                                       *)
NoLostWakeup ==
    Asleep # {} => lock = 2 \/ \E t \in Thread : pc[t] \in {"storeZero", "wake", "retry"}

(* The lock never stays free while threads that do not time out want it.  *)
Progress ==
    (\E t \in Thread : pc[t] \in {"try", "announce", "wait", "asleep", "retry"}
                       /\ call[t] # "timed")
        ~> (\E t \in Thread : pc[t] = "owner")

(* futex_haswaiters "will eventually return true" for an owner that keeps *)
(* the lock while another thread wants it.                                *)
WaitersShow ==
    \A t, u \in Thread :
        (pc[t] = "owner" /\ pc[u] \in {"try", "announce", "wait", "asleep"} /\ t # u)
            ~> (HasWaiters \/ pc[t] # "owner")

(* The lock its callers see. *)
Holding ==
    [t \in Thread |->
        CASE pc[t] \in {"owner", "storeZero"} -> "holding"
          [] pc[t] \in {"out", "wake"}        -> "idle"
          [] OTHER                            -> "waiting"]

M == INSTANCE Mutex WITH hold <- Holding

(* Every futex_lock variant together with futex_unlock implements Mutex. *)
ImplementsMutex == M!Spec
=============================================================================
