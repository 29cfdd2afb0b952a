-------------------------- MODULE WeavePhaseProofs --------------------------
(***************************************************************************)
(* Proof that the bound phase of zsim never overlaps the weave phase, for  *)
(* any number of simulation threads and of phases: simulatePhase returns   *)
(* after every simulation thread has gone back to its wakeLock, and leaves *)
(* the locks and the counter as it found them.                             *)
(*                                                                         *)
(* BoundPhaseAlone is not inductive: it says nothing of what happens while *)
(* simulatePhase is in progress.  IInv adds which threads have been woken, *)
(* that threadsDone counts those that are back (DoneExact), and that a     *)
(* thread that finds itself last, and whoever sees waitLock open, has all  *)
(* the others behind it.                                                   *)
(***************************************************************************)
EXTENDS WeavePhase, FiniteSets, FiniteSetTheorems, TLAPS

Back(t) == tpc[t] = "asleep" /\ wakeLock[t]

(* The threads that counted themselves since simulatePhase was called. *)
Counted ==
    {t \in SimThread : t < toWake /\ wakeLock[t] /\ tpc[t] \in {"asleep", "reset", "open"}}

(* toWake tells whose wakeLock was opened in this phase. *)
WokenInOrder ==
    /\ driver = "wake" => toWake < numSimThreads
    /\ driver = "sleep" => toWake = numSimThreads
    /\ driver # "bound" => \A t \in SimThread : t >= toWake => Back(t)
    /\ \A t \in SimThread : tpc[t] # "asleep" => wakeLock[t]

(* The last thread, and then the caller, finds all the others back. *)
LastAlone ==
    /\ \A t \in SimThread : tpc[t] \in {"reset", "open"} =>
         /\ driver = "sleep" /\ waitLock = TRUE
         /\ \A u \in SimThread : u # t => Back(u)
    /\ waitLock = FALSE => driver = "sleep" /\ threadsDone = 0 /\ \A u \in SimThread : Back(u)

(* threadsDone is what the threads take it for, until the last resets it. *)
DoneExact ==
    /\ \A t \in SimThread : tpc[t] = "open" => threadsDone = 0
    /\ (driver # "bound" /\ waitLock = TRUE /\ \A t \in SimThread : tpc[t] # "open")
         => threadsDone = Cardinality(Counted)

IInv == PhaseTypeOK /\ BoundPhaseAlone /\ WokenInOrder /\ LastAlone /\ DoneExact

-----------------------------------------------------------------------------
(* There is a simulation thread, the threads are finitely many, and so are *)
(* those that counted themselves.                                          *)
LEMMA CountedFinite ==
  ASSUME PhaseTypeOK
  PROVE  /\ numSimThreads \in Nat \ {0}
         /\ IsFiniteSet(SimThread) /\ Cardinality(SimThread) = numSimThreads
         /\ IsFiniteSet(Counted) /\ Cardinality(Counted) \in Nat
  <1>1. numSimThreads \in Nat \ {0}
    BY PhaseAssumption DEF PhaseTypeOK
  <1>2. IsFiniteSet(SimThread) /\ Cardinality(SimThread) = numSimThreads
    BY <1>1, FS_Interval DEF SimThread
  <1>3. IsFiniteSet(Counted)
    BY <1>2, FS_Subset DEF Counted
  <1> QED
    BY <1>1, <1>2, <1>3, FS_CardinalityType

(* The constructor leaves every thread behind its locked wakeLock. *)
LEMMA InitIInv == PhaseInit => IInv
  <1> SUFFICES ASSUME PhaseInit PROVE IInv
    OBVIOUS
  <1>1. PhaseTypeOK
    <2>1. numSimThreads \in Nat \ {0}
      BY PhaseAssumption DEF PhaseInit
    <2>2. wakeLock \in [SimThread -> BOOLEAN] /\ waitLock \in BOOLEAN /\ inCSim \in BOOLEAN
      BY Zenon DEF PhaseInit
    <2> QED
      BY <2>1, <2>2 DEF PhaseInit, PhaseTypeOK
  <1>2. BoundPhaseAlone
    BY DEF PhaseInit, BoundPhaseAlone
  <1>3. WokenInOrder /\ LastAlone /\ DoneExact
    BY DEF PhaseInit, WokenInOrder, LastAlone, DoneExact, Back
  <1> QED
    BY <1>1, <1>2, <1>3 DEF IInv

(* Types are kept by every step. *)
LEMMA NextTypeOK == IInv /\ [PhaseNext]_phaseVars => PhaseTypeOK'
  <1> SUFFICES ASSUME IInv, [PhaseNext]_phaseVars PROVE PhaseTypeOK'
    OBVIOUS
  <1>1. numSimThreads \in Nat \ {0} /\ PhaseLength \in Nat
    BY CountedFinite, PhaseAssumption DEF IInv
  <1> USE <1>1 DEF IInv, PhaseTypeOK, SimThread
  <1>2. CASE SimulatePhase
    BY <1>2 DEF SimulatePhase
  <1>3. CASE WakeThread
    BY <1>3 DEF WakeThread, WokenInOrder
  <1>4. CASE PhaseOver
    BY <1>4 DEF PhaseOver
  <1>5. ASSUME NEW t \in SimThread, StartPhase(t) PROVE PhaseTypeOK'
    BY <1>5 DEF StartPhase
  <1>6. ASSUME NEW t \in SimThread, EndSimulation(t) PROVE PhaseTypeOK'
    BY <1>6 DEF EndSimulation
  <1>7. ASSUME NEW t \in SimThread, CountDone(t) PROVE PhaseTypeOK'
    BY <1>7 DEF CountDone
  <1>8. ASSUME NEW t \in SimThread, ResetDone(t) PROVE PhaseTypeOK'
    BY <1>8 DEF ResetDone
  <1>9. ASSUME NEW t \in SimThread, UnblockCaller(t) PROVE PhaseTypeOK'
    BY <1>9 DEF UnblockCaller
  <1>10. CASE UNCHANGED phaseVars
    BY <1>10 DEF phaseVars
  <1> QED
    BY <1>2, <1>3, <1>4, <1>5, <1>6, <1>7, <1>8, <1>9, <1>10 DEF PhaseNext

(* __sync_add_and_fetch counts a thread that was not counted yet; if it is *)
(* the last, simulatePhase has woken all of them and the others are back.  *)
LEMMA CountsOnce ==
  ASSUME IInv, NEW t \in SimThread, CountDone(t)
  PROVE  /\ driver # "bound" /\ waitLock = TRUE
         /\ \A u \in SimThread : tpc[u] \notin {"reset", "open"}
         /\ Counted' = Counted \cup {t}
         /\ threadsDone' = Cardinality(Counted')
         /\ threadsDone' = numSimThreads =>
              driver = "sleep" /\ \A u \in SimThread : u # t => Back(u)
  <1> USE DEF IInv, PhaseTypeOK
  <1>1. tpc[t] = "count" /\ wakeLock[t] = TRUE
    BY DEF CountDone, WokenInOrder
  <1>2. driver # "bound" /\ waitLock = TRUE
    BY <1>1 DEF BoundPhaseAlone, LastAlone, Back
  <1>3. \A u \in SimThread : tpc[u] \notin {"reset", "open"}
    BY <1>1 DEF LastAlone, Back
  <1>4. t < toWake /\ t \notin Counted
    BY <1>1, <1>2, CountedFinite DEF WokenInOrder, Back, Counted, SimThread
  <1>5. Counted' = Counted \cup {t}
    BY <1>1, <1>4 DEF CountDone, Counted, SimThread
  <1>6. threadsDone = Cardinality(Counted)
    BY <1>2, <1>3 DEF DoneExact
  <1>7. threadsDone' = Cardinality(Counted')
    BY <1>4, <1>5, <1>6, CountedFinite, FS_AddElement DEF CountDone
  <1>8. ASSUME threadsDone' = numSimThreads
        PROVE  driver = "sleep" /\ \A u \in SimThread : u # t => Back(u)
    <2>1. Counted' = SimThread
      <3>1. Counted' \in SUBSET SimThread
        BY <1>5 DEF Counted
      <3>2. Cardinality(SimThread) = Cardinality(Counted')
        BY <1>7, <1>8, CountedFinite
      <3> QED
        BY <3>1, <3>2, CountedFinite, FS_Subset
    <2>2. \A u \in SimThread : u # t => Back(u)
      BY <1>3, <1>5, <2>1 DEF Counted, Back
    <2>3. numSimThreads - 1 < toWake
      BY <1>4, <1>5, <2>1, CountedFinite DEF Counted, SimThread
    <2> QED
      BY <1>2, <2>2, <2>3, CountedFinite DEF WokenInOrder
  <1> QED
    BY <1>2, <1>3, <1>5, <1>7, <1>8

(* Every step of the handshake keeps the rest of IInv. *)
LEMMA NextIInv == IInv /\ [PhaseNext]_phaseVars => IInv'
  <1> SUFFICES ASSUME IInv, [PhaseNext]_phaseVars PROVE IInv'
    OBVIOUS
  <1> DEFINE Parts == BoundPhaseAlone /\ WokenInOrder /\ LastAlone /\ DoneExact
  <1>1. PhaseTypeOK'
    BY NextTypeOK
  <1>2. numSimThreads \in Nat \ {0} /\ SimThread \subseteq Nat
    BY CountedFinite DEF IInv, SimThread
  <1> SUFFICES Parts'
    BY <1>1 DEF IInv
  <1> USE <1>2 DEF IInv, PhaseTypeOK
  <1>3. CASE SimulatePhase
    <2>1. Counted' = {}
      BY <1>3 DEF SimulatePhase, Counted, SimThread
    <2>2. Cardinality(Counted') = 0
      BY <2>1, FS_EmptySet
    <2> QED
      BY <1>3, <2>2 DEF SimulatePhase, SimThread, BoundPhaseAlone, WokenInOrder, LastAlone,
                        DoneExact, Back
  <1>4. CASE WakeThread
    <2>1. toWake \in SimThread /\ Back(toWake) /\ waitLock = TRUE
          /\ \A t \in SimThread : tpc[t] \notin {"reset", "open"}
      BY <1>4 DEF WakeThread, WokenInOrder, LastAlone, SimThread
    <2>2. Counted' = Counted
      BY <1>4, <2>1 DEF WakeThread, Counted, Back, SimThread
    <2> QED
      BY <1>4, <2>1, <2>2 DEF WakeThread, SimThread, BoundPhaseAlone, WokenInOrder, LastAlone,
                        DoneExact, Back
  <1>5. CASE PhaseOver
    BY <1>5 DEF PhaseOver, SimThread, BoundPhaseAlone, WokenInOrder, LastAlone, DoneExact, Back
  <1>6. ASSUME NEW t \in SimThread, StartPhase(t) PROVE Parts'
    <2>1. driver # "bound" /\ waitLock = TRUE
          /\ \A u \in SimThread : tpc[u] \notin {"reset", "open"}
      BY <1>6 DEF StartPhase, BoundPhaseAlone, LastAlone, Back
    <2>2. Counted' = Counted
      BY <1>6 DEF StartPhase, Counted, SimThread
    <2> QED
      BY <1>6, <2>1, <2>2 DEF StartPhase, SimThread, BoundPhaseAlone, WokenInOrder, LastAlone,
                        DoneExact, Back
  <1>7. ASSUME NEW t \in SimThread, EndSimulation(t) PROVE Parts'
    <2>1. Counted' = Counted
      BY <1>7 DEF EndSimulation, Counted, SimThread
    <2> QED
      BY <1>7, <2>1 DEF EndSimulation, SimThread, BoundPhaseAlone, WokenInOrder, LastAlone,
                        DoneExact, Back
  <1>8. ASSUME NEW t \in SimThread, CountDone(t) PROVE Parts'
    <2>1. /\ driver # "bound" /\ waitLock = TRUE
          /\ \A u \in SimThread : tpc[u] \notin {"reset", "open"}
          /\ threadsDone' = Cardinality(Counted')
          /\ threadsDone' = numSimThreads =>
               driver = "sleep" /\ \A u \in SimThread : u # t => Back(u)
      BY <1>8, CountsOnce
    <2>2. wakeLock[t] /\ tpc[t] # "asleep"
      BY <1>8 DEF CountDone, WokenInOrder
    <2>3. BoundPhaseAlone' /\ WokenInOrder'
      BY <1>8, <2>1, <2>2 DEF CountDone, SimThread, BoundPhaseAlone, WokenInOrder, Back
    <2>4. LastAlone'
      BY <1>8, <2>1 DEF CountDone, SimThread, LastAlone, Back
    <2>5. DoneExact'
      BY <1>8, <2>1 DEF CountDone, SimThread, DoneExact
    <2> QED
      BY <2>3, <2>4, <2>5
  <1>9. ASSUME NEW t \in SimThread, ResetDone(t) PROVE Parts'
    BY <1>9 DEF ResetDone, SimThread, BoundPhaseAlone, WokenInOrder, LastAlone, DoneExact, Back
  <1>10. ASSUME NEW t \in SimThread, UnblockCaller(t) PROVE Parts'
    BY <1>10 DEF UnblockCaller, SimThread, BoundPhaseAlone, WokenInOrder, LastAlone,
                        DoneExact, Back
  <1>11. CASE UNCHANGED phaseVars
    BY <1>11 DEF phaseVars, SimThread, BoundPhaseAlone, WokenInOrder, LastAlone, DoneExact,
                        Back, Counted
  <1> QED
    BY <1>3, <1>4, <1>5, <1>6, <1>7, <1>8, <1>9, <1>10, <1>11 DEF PhaseNext

(* While no simulatePhase is in progress every simulation thread is behind *)
(* its wakeLock, with nothing left over for the next phase: the cores and  *)
(* the simulation threads never use the event queues at the same time.     *)
THEOREM BoundAlone == PhaseSpec => []BoundPhaseAlone
  <1>1. IInv => BoundPhaseAlone
    BY DEF IInv
  <1> QED
    BY InitIInv, NextIInv, <1>1, PTL DEF PhaseSpec
=============================================================================
