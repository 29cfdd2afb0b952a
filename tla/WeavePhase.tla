----------------------------- MODULE WeavePhase -----------------------------
(***************************************************************************)
(* How ContentionSim (contention_sim.cpp) starts and ends the weave phase. *)
(* The thread that ends a bound phase calls simulatePhase: it opens the    *)
(* wakeLock of every simulation thread and sleeps on waitLock until the    *)
(* last of them has counted itself in threadsDone and opened that lock.    *)
(* The locks are futex locks (FutexLock) used as binary semaphores: they   *)
(* are locked from the start, and each is opened by another thread than    *)
(* the one that takes it.                                                  *)
(*                                                                         *)
(* finish() has no caller, so terminate stays false and is left out.       *)
(***************************************************************************)
EXTENDS Integers

CONSTANTS
    ThreadCounts,   \* the numbers of simulation threads to consider
    PhaseLength,    \* zinfo->phaseLength
    MaxPhases       \* bound: phases explored

ASSUME PhaseAssumption ==
    /\ ThreadCounts \subseteq Nat \ {0}
    /\ PhaseLength \in Nat \ {0}
    /\ MaxPhases \in Nat

VARIABLES
    numSimThreads,  \* set by the constructor
    driver,         \* where simulatePhase stands; "bound" when not called
    toWake,         \* the thread whose wakeLock it opens next
    tpc,            \* tpc[t]: where simThreadLoop stands in thread t
    wakeLock,       \* wakeLock[t]: TRUE while locked
    waitLock,
    threadsDone,
    inCSim,
    limit, lastLimit

phaseVars == <<numSimThreads, driver, toWake, tpc, wakeLock, waitLock, threadsDone,
               inCSim, limit, lastLimit>>

SimThread == 0..(numSimThreads - 1)

(* The constructor: every lock starts locked, so the first lock blocks. *)
PhaseInit ==
    /\ numSimThreads \in ThreadCounts
    /\ driver = "bound" /\ toWake = 0
    /\ tpc = [t \in SimThread |-> "asleep"]
    /\ wakeLock = [t \in SimThread |-> TRUE]
    /\ waitLock = TRUE
    /\ threadsDone = 0
    /\ inCSim = FALSE
    /\ limit = 0 /\ lastLimit = 0

-----------------------------------------------------------------------------
(* simulatePhase, called with the end of the phase that ran. *)
SimulatePhase ==
    /\ driver = "bound" /\ lastLimit < MaxPhases * PhaseLength
    /\ driver' = "wake" /\ toWake' = 0
    /\ limit' = lastLimit + PhaseLength
    /\ inCSim' = TRUE
    /\ UNCHANGED <<numSimThreads, tpc, wakeLock, waitLock, threadsDone, lastLimit>>

(* futex_unlock(&simThreads[i].wakeLock) for one i after the other. *)
WakeThread ==
    /\ driver = "wake"
    /\ wakeLock' = [wakeLock EXCEPT ![toWake] = FALSE]
    /\ toWake' = toWake + 1
    /\ driver' = IF toWake + 1 = numSimThreads THEN "sleep" ELSE "wake"
    /\ UNCHANGED <<numSimThreads, tpc, waitLock, threadsDone, inCSim, limit, lastLimit>>

(* futex_lock_nospin(&waitLock) succeeds, and simulatePhase returns. *)
PhaseOver ==
    /\ driver = "sleep" /\ ~waitLock
    /\ waitLock' = TRUE
    /\ inCSim' = FALSE
    /\ lastLimit' = limit
    /\ driver' = "bound"
    /\ UNCHANGED <<numSimThreads, toWake, tpc, wakeLock, threadsDone, limit>>

-----------------------------------------------------------------------------
(* futex_lock_nospin(&simThreads[thid].wakeLock) succeeds. *)
StartPhase(t) ==
    /\ tpc[t] = "asleep" /\ ~wakeLock[t]
    /\ wakeLock' = [wakeLock EXCEPT ![t] = TRUE]
    /\ tpc' = [tpc EXCEPT ![t] = "simulate"]
    /\ UNCHANGED <<numSimThreads, driver, toWake, waitLock, threadsDone, inCSim, limit, lastLimit>>

(* simulatePhaseThread returns. *)
EndSimulation(t) ==
    /\ tpc[t] = "simulate"
    /\ tpc' = [tpc EXCEPT ![t] = "count"]
    /\ UNCHANGED <<numSimThreads, driver, toWake, wakeLock, waitLock, threadsDone, inCSim, limit, lastLimit>>

(* __sync_add_and_fetch(&threadsDone, 1), and the test for the last one. *)
CountDone(t) ==
    /\ tpc[t] = "count"
    /\ threadsDone' = threadsDone + 1
    /\ tpc' = [tpc EXCEPT ![t] =
                 IF threadsDone + 1 = numSimThreads THEN "reset" ELSE "asleep"]
    /\ UNCHANGED <<numSimThreads, driver, toWake, wakeLock, waitLock, inCSim, limit, lastLimit>>

(* Mutant: the caller is unblocked before the counter is reset. *)
ResetAfterUnlock(t) ==
    /\ tpc[t] \in {"reset", "late"}
    /\ IF tpc[t] = "reset" THEN waitLock' = FALSE /\ UNCHANGED threadsDone
       ELSE threadsDone' = 0 /\ UNCHANGED waitLock
    /\ tpc' = [tpc EXCEPT ![t] = IF @ = "reset" THEN "late" ELSE "asleep"]
    /\ UNCHANGED <<numSimThreads, driver, toWake, wakeLock, inCSim, limit, lastLimit>>

(* threadsDone = 0, before the caller may go on. *)
ResetDone(t) ==
    /\ tpc[t] = "reset"
    /\ threadsDone' = 0
    /\ tpc' = [tpc EXCEPT ![t] = "open"]
    /\ UNCHANGED <<numSimThreads, driver, toWake, wakeLock, waitLock, inCSim, limit, lastLimit>>

(* futex_unlock(&waitLock): unblock the caller. *)
UnblockCaller(t) ==
    /\ tpc[t] = "open"
    /\ waitLock' = FALSE
    /\ tpc' = [tpc EXCEPT ![t] = "asleep"]
    /\ UNCHANGED <<numSimThreads, driver, toWake, wakeLock, threadsDone, inCSim, limit, lastLimit>>

PhaseNext ==
    \/ SimulatePhase \/ WakeThread \/ PhaseOver
    \/ \E t \in SimThread :
          StartPhase(t) \/ EndSimulation(t) \/ CountDone(t) \/ ResetDone(t) \/ UnblockCaller(t)

PhaseSpec == PhaseInit /\ [][PhaseNext]_phaseVars

-----------------------------------------------------------------------------
PhaseTypeOK ==
    /\ numSimThreads \in ThreadCounts
    /\ driver \in {"bound", "wake", "sleep"}
    /\ toWake \in 0..numSimThreads
    /\ tpc \in [SimThread -> {"asleep", "simulate", "count", "reset", "open"}]
    /\ wakeLock \in [SimThread -> BOOLEAN]
    /\ waitLock \in BOOLEAN /\ inCSim \in BOOLEAN
    /\ threadsDone \in Nat
    /\ limit \in Nat /\ lastLimit \in Nat

(* The bound phase has the simulator for itself: while no simulatePhase is *)
(* in progress no simulation thread simulates, none is about to count      *)
(* itself or to open waitLock, no wakeup is left over for the next phase   *)
(* and threadsDone starts from 0; and simulatePhase never opens a wakeLock *)
(* that is still open, which would lose a wakeup (the lock word counts to  *)
(* one).  Cores record their accesses into the event queues without the    *)
(* simulation threads' consent, so one late thread is a data race.         *)
BoundPhaseAlone ==
    /\ driver = "bound" =>
         /\ \A t \in SimThread : tpc[t] = "asleep" /\ wakeLock[t]
         /\ threadsDone = 0 /\ waitLock /\ ~inCSim
    /\ driver = "wake" => wakeLock[toWake]
=============================================================================
