-------------------------- MODULE FutexLockProofs --------------------------
(***************************************************************************)
(* Proofs about FutexLock, for any set of threads and any number of spins: *)
(* the futex word and the threads' positions keep their types, at most one *)
(* thread owns the lock, no wakeup is lost, and the lock implements Mutex. *)
(*                                                                         *)
(* The conjunction of the three invariants is inductive.  The types alone  *)
(* are not: only Exclusive says that the word is not 0 when its owner      *)
(* decrements it.  Exclusive in turn needs the word's range: an owner that *)
(* finds it different from 1 finds it 2, and leaves it non-zero until the  *)
(* store of 0.                                                             *)
(***************************************************************************)
EXTENDS FutexLock, TLAPS

IInv == TypeOK /\ Exclusive /\ NoLostWakeup

(* No thread sleeps, owns or waits for the lock in the initial state. *)
LEMMA InitIInv == Init => IInv
  <1> SUFFICES ASSUME Init PROVE IInv
    OBVIOUS
  <1>1. TypeOK
    BY SpinTriesAssumption DEF Init, TypeOK, Calls
  <1>2. Exclusive
    BY DEF Init, Exclusive, Owners
  <1>3. NoLostWakeup
    BY DEF Init, NoLostWakeup, Asleep
  <1> QED
    BY <1>1, <1>2, <1>3 DEF IInv

(* Every operation of locks.h keeps the word in 0..2. *)
LEMMA NextTypeOK == IInv /\ [Next]_vars => TypeOK'
  <1> SUFFICES ASSUME IInv, [Next]_vars PROVE TypeOK'
    OBVIOUS
  <1> USE SpinTriesAssumption DEF IInv, TypeOK, Calls, Goto
  <1>1. ASSUME NEW t \in Thread, Call(t) PROVE TypeOK'
    BY <1>1 DEF Call
  <1>2. ASSUME NEW t \in Thread, TryCAS(t) PROVE TypeOK'
    <2>1. Attempts(t) \in 1..SpinTries
      BY DEF Attempts
    <2> QED
      BY <1>2, <2>1 DEF TryCAS
  <1>3. ASSUME NEW t \in Thread, Announce(t) PROVE TypeOK'
    BY <1>3 DEF Announce
  <1>4. ASSUME NEW t \in Thread, FutexWait(t) PROVE TypeOK'
    BY <1>4 DEF FutexWait
  <1>5. ASSUME NEW t \in Thread, Retry(t) PROVE TypeOK'
    BY <1>5 DEF Retry
  <1>6. ASSUME NEW t \in Thread, StoreZero(t) PROVE TypeOK'
    BY <1>6 DEF StoreZero
  <1>7. ASSUME NEW t \in Thread, FutexWake(t) PROVE TypeOK'
    BY <1>7 DEF FutexWake, Asleep
  <1>8. ASSUME NEW t \in Thread, Interrupted(t) PROVE TypeOK'
    BY <1>8 DEF Interrupted
  <1>9. ASSUME NEW t \in Thread, Decrement(t) PROVE TypeOK'
    <2>1. lock # 0
      BY <1>9 DEF Decrement, Exclusive, Owners
    <2> QED
      BY <1>9, <2>1 DEF Decrement
  <1>10. CASE UNCHANGED vars
    BY <1>10 DEF vars
  <1> QED
    BY <1>1, <1>2, <1>3, <1>4, <1>5, <1>6, <1>7, <1>8, <1>9, <1>10 DEF Next, Step

(* The word is non-zero exactly while one thread owns the lock. *)
LEMMA NextExclusive == IInv /\ [Next]_vars => Exclusive'
  <1> SUFFICES ASSUME IInv, [Next]_vars PROVE Exclusive'
    OBVIOUS
  <1> USE DEF IInv, TypeOK, Exclusive, Owners, Goto
  <1>1. ASSUME NEW t \in Thread, Call(t) PROVE Exclusive'
    BY <1>1 DEF Call
  <1>2. ASSUME NEW t \in Thread, TryCAS(t) PROVE Exclusive'
    <2>1. CASE lock = 0
      BY <1>2, <2>1 DEF TryCAS
    <2>2. CASE lock # 0
      BY <1>2, <2>2 DEF TryCAS
    <2> QED
      BY <2>1, <2>2
  <1>3. ASSUME NEW t \in Thread, Announce(t) PROVE Exclusive'
    <2>1. CASE lock = 0
      BY <1>3, <2>1 DEF Announce
    <2>2. CASE lock # 0
      BY <1>3, <2>2 DEF Announce
    <2> QED
      BY <2>1, <2>2
  <1>4. ASSUME NEW t \in Thread, FutexWait(t) PROVE Exclusive'
    BY <1>4 DEF FutexWait
  <1>5. ASSUME NEW t \in Thread, Retry(t) PROVE Exclusive'
    <2>1. CASE lock = 0
      BY <1>5, <2>1 DEF Retry
    <2>2. CASE lock # 0
      BY <1>5, <2>2 DEF Retry
    <2> QED
      BY <2>1, <2>2
  <1>6. ASSUME NEW t \in Thread, StoreZero(t) PROVE Exclusive'
    BY <1>6 DEF StoreZero
  <1>7. ASSUME NEW t \in Thread, FutexWake(t) PROVE Exclusive'
    BY <1>7 DEF FutexWake, Asleep
  <1>8. ASSUME NEW t \in Thread, Interrupted(t) PROVE Exclusive'
    BY <1>8 DEF Interrupted
  <1>9. ASSUME NEW t \in Thread, Decrement(t) PROVE Exclusive'
    <2>1. CASE lock = 1
      BY <1>9, <2>1 DEF Decrement
    <2>2. CASE lock # 1
      BY <1>9, <2>2 DEF Decrement
    <2> QED
      BY <2>1, <2>2
  <1>10. CASE UNCHANGED vars
    BY <1>10 DEF vars
  <1> QED
    BY <1>1, <1>2, <1>3, <1>4, <1>5, <1>6, <1>7, <1>8, <1>9, <1>10 DEF Next, Step

(* A sleeper always has a waker: each step that takes the word away from 2 *)
(* leaves a thread on its way to FUTEX_WAKE or to xchg(lock, 2).           *)
LEMMA NextNoLostWakeup == IInv /\ [Next]_vars => NoLostWakeup'
  <1> SUFFICES ASSUME IInv, [Next]_vars PROVE NoLostWakeup'
    OBVIOUS
  <1> USE DEF IInv, TypeOK, NoLostWakeup, Asleep, Goto
  <1>1. ASSUME NEW t \in Thread, Call(t) PROVE NoLostWakeup'
    BY <1>1 DEF Call
  <1>2. ASSUME NEW t \in Thread, TryCAS(t) PROVE NoLostWakeup'
    <2>1. CASE lock = 0
      BY <1>2, <2>1 DEF TryCAS
    <2>2. CASE lock # 0
      BY <1>2, <2>2 DEF TryCAS
    <2> QED
      BY <2>1, <2>2
  <1>3. ASSUME NEW t \in Thread, Announce(t) PROVE NoLostWakeup'
    BY <1>3 DEF Announce
  <1>4. ASSUME NEW t \in Thread, FutexWait(t) PROVE NoLostWakeup'
    BY <1>4 DEF FutexWait
  <1>5. ASSUME NEW t \in Thread, Retry(t) PROVE NoLostWakeup'
    BY <1>5 DEF Retry
  <1>6. ASSUME NEW t \in Thread, StoreZero(t) PROVE NoLostWakeup'
    BY <1>6 DEF StoreZero
  <1>7. ASSUME NEW t \in Thread, FutexWake(t) PROVE NoLostWakeup'
    <2>1. CASE Asleep = {}
      BY <1>7, <2>1 DEF FutexWake
    <2>2. CASE Asleep # {}
      BY <1>7, <2>2 DEF FutexWake
    <2> QED
      BY <2>1, <2>2
  <1>8. ASSUME NEW t \in Thread, Interrupted(t) PROVE NoLostWakeup'
    BY <1>8 DEF Interrupted
  <1>9. ASSUME NEW t \in Thread, Decrement(t) PROVE NoLostWakeup'
    <2>1. CASE lock = 1
      BY <1>9, <2>1 DEF Decrement
    <2>2. CASE lock # 1
      BY <1>9, <2>2 DEF Decrement
    <2> QED
      BY <2>1, <2>2
  <1>10. CASE UNCHANGED vars
    BY <1>10 DEF vars
  <1> QED
    BY <1>1, <1>2, <1>3, <1>4, <1>5, <1>6, <1>7, <1>8, <1>9, <1>10 DEF Next, Step

(* The three invariants together hold in every state of the lock. *)
THEOREM Invariance == Spec => []IInv
  <1>1. IInv /\ [Next]_vars => IInv'
    BY NextTypeOK, NextExclusive, NextNoLostWakeup DEF IInv
  <1> QED
    BY InitIInv, <1>1, PTL DEF Spec

(* The futex word stays in 0..2 and every thread at a known position: the  *)
(* decrement of futex_unlock never makes the word wrap.                    *)
THEOREM TypeCorrect == Spec => []TypeOK
  <1>1. IInv => TypeOK
    BY DEF IInv
  <1> QED
    BY Invariance, <1>1, PTL

(* Mutual exclusion: at most one thread owns the lock between the atomic   *)
(* that wins it and the store of 0, for any number of threads.             *)
THEOREM MutualExclusion == Spec => []Exclusive
  <1>1. IInv => Exclusive
    BY DEF IInv
  <1> QED
    BY Invariance, <1>1, PTL

(* No lost wakeups: a thread asleep in FUTEX_WAIT always has the word at 2 *)
(* or a waker on its way, whatever signals and timeouts do.                *)
THEOREM NoWakeupLost == Spec => []NoLostWakeup
  <1>1. IInv => NoLostWakeup
    BY DEF IInv
  <1> QED
    BY Invariance, <1>1, PTL
-----------------------------------------------------------------------------
(* What the refinement mapping says of each position. *)
LEMMA HoldingIs ==
    ASSUME TypeOK, NEW t \in Thread
    PROVE  /\ Holding[t] = "holding" <=> pc[t] \in {"owner", "storeZero"}
           /\ Holding[t] = "idle"    <=> pc[t] \in {"out", "wake"}
           /\ Holding[t] = "waiting" <=> pc[t] \in {"try", "announce", "wait", "asleep", "retry"}
  BY DEF Holding, TypeOK

(* A step that moves one thread moves it alone under the mapping. *)
LEMMA HoldingMoves ==
    ASSUME TypeOK, NEW t \in Thread,
           NEW w \in {"out", "try", "announce", "wait", "asleep", "retry",
                      "owner", "storeZero", "wake"},
           pc' = [pc EXCEPT ![t] = w]
    PROVE  Holding' = [Holding EXCEPT ![t] =
              CASE w \in {"owner", "storeZero"} -> "holding"
                [] w \in {"out", "wake"}        -> "idle"
                [] OTHER                        -> "waiting"]
  BY DEF Holding, TypeOK

(* Every step of the lock is a step of Mutex or leaves it unchanged. *)
LEMMA StepSimulation == IInv /\ [Next]_vars => [M!Next]_Holding
  <1> SUFFICES ASSUME IInv, [Next]_vars PROVE [M!Next]_Holding
    OBVIOUS
  <1> USE DEF Goto
  <1>1. TypeOK /\ Exclusive
    BY DEF IInv
  <1>2. ASSUME NEW t \in Thread, Call(t) PROVE M!Request(t)
    BY <1>1, <1>2, HoldingIs, HoldingMoves DEF Call, M!Request
  <1>3. ASSUME lock = 0 PROVE \A u \in Thread : Holding[u] # "holding"
    BY <1>1, <1>3, HoldingIs DEF Exclusive, Owners
  <1>4. ASSUME NEW t \in Thread, TryCAS(t) PROVE M!Acquire(t) \/ UNCHANGED Holding
    <2>1. CASE lock = 0
      <3>1. pc[t] = "try" /\ pc' = [pc EXCEPT ![t] = "owner"]
        BY <1>4, <2>1 DEF TryCAS
      <3> QED
        BY <1>1, <1>3, <2>1, <3>1, HoldingIs, HoldingMoves DEF M!Acquire
    <2>2. CASE lock # 0
      <3>1. CASE UNCHANGED pc
        BY <3>1 DEF Holding
      <3>2. CASE pc[t] = "try" /\ pc' = [pc EXCEPT ![t] = "announce"]
        BY <1>1, <3>2, HoldingIs, HoldingMoves DEF Holding, TypeOK
      <3> QED
        BY <1>4, <2>2, <3>1, <3>2 DEF TryCAS
    <2> QED
      BY <2>1, <2>2
  <1>5. ASSUME NEW t \in Thread, Announce(t) PROVE M!Acquire(t) \/ UNCHANGED Holding
    <2>1. CASE lock = 0
      <3>1. pc[t] = "announce" /\ pc' = [pc EXCEPT ![t] = "owner"]
        BY <1>5, <2>1 DEF Announce
      <3> QED
        BY <1>1, <1>3, <2>1, <3>1, HoldingIs, HoldingMoves DEF M!Acquire
    <2>2. CASE lock # 0
      BY <1>1, <1>5, <2>2 DEF Announce, Holding, TypeOK
    <2> QED
      BY <2>1, <2>2
  <1>6. ASSUME NEW t \in Thread, FutexWait(t) PROVE UNCHANGED Holding
    BY <1>1, <1>6 DEF FutexWait, Holding, TypeOK
  <1>7. ASSUME NEW t \in Thread, Retry(t)
        PROVE M!Acquire(t) \/ M!GiveUp(t) \/ UNCHANGED Holding
    <2>1. CASE lock = 0
      <3>1. pc[t] = "retry" /\ pc' = [pc EXCEPT ![t] = "owner"]
        BY <1>7, <2>1 DEF Retry
      <3> QED
        BY <1>1, <1>3, <2>1, <3>1, HoldingIs, HoldingMoves DEF M!Acquire
    <2>2. CASE lock # 0 /\ call[t] = "timed"
      <3>1. pc[t] = "retry" /\ pc' = [pc EXCEPT ![t] = "out"]
        BY <1>7, <2>2 DEF Retry
      <3> QED
        BY <1>1, <3>1, HoldingIs, HoldingMoves DEF M!GiveUp
    <2>3. CASE lock # 0 /\ call[t] # "timed"
      BY <1>1, <1>7, <2>3 DEF Retry, Holding, TypeOK
    <2> QED
      BY <2>1, <2>2, <2>3
  <1>8. ASSUME NEW t \in Thread, StoreZero(t) PROVE M!Release(t)
    BY <1>1, <1>8, HoldingIs, HoldingMoves DEF StoreZero, M!Release
  <1>9. ASSUME NEW t \in Thread, FutexWake(t) PROVE UNCHANGED Holding
    BY <1>1, <1>9 DEF FutexWake, Asleep, Holding, TypeOK
  <1>10. ASSUME NEW t \in Thread, Interrupted(t) PROVE UNCHANGED Holding
    BY <1>1, <1>10 DEF Interrupted, Holding, TypeOK
  <1>11. ASSUME NEW t \in Thread, Decrement(t) PROVE M!Release(t) \/ UNCHANGED Holding
    <2>1. CASE lock = 1
      <3>1. pc[t] = "owner" /\ pc' = [pc EXCEPT ![t] = "out"]
        BY <1>11, <2>1 DEF Decrement
      <3> QED
        BY <1>1, <3>1, HoldingIs, HoldingMoves DEF M!Release
    <2>2. CASE lock # 1
      BY <1>1, <1>11, <2>2 DEF Decrement, Holding, TypeOK
    <2> QED
      BY <2>1, <2>2
  <1>12. CASE UNCHANGED vars
    BY <1>12 DEF vars, Holding
  <1> QED
    BY <1>2, <1>4, <1>5, <1>6, <1>7, <1>8, <1>9, <1>10, <1>11, <1>12
       DEF Next, Step, M!Next

(* futex_lock, its variants and futex_unlock implement the abstract lock:  *)
(* their callers can reason with Mutex alone.                              *)
THEOREM Refinement == Spec => ImplementsMutex
  <1>1. Init => M!Init
    BY DEF Init, M!Init, Holding
  <1> QED
    BY Invariance, <1>1, StepSimulation, PTL DEF Spec, M!Spec, ImplementsMutex
=============================================================================
