------------------------------ MODULE Barrier ------------------------------
(***************************************************************************)
(* The phase barrier of zsim (barrier.h).  At most so many of the threads  *)
(* that joined it run at a time; once every one of them has had its turn   *)
(* the phase ends, and the next one starts.  join, leave and sync are each *)
(* one step up to their futex_unlock, because the caller holds schedLock;  *)
(* what a thread does after it (read its state, FUTEX_WAIT on its word) is *)
(* interleaved with the others.                                            *)
(*                                                                         *)
(* Indices start at 1 here and at 0 in the code.                           *)
(***************************************************************************)
EXTENDS Integers, Sequences, FiniteSets, SequencesExt

CONSTANTS
    Thread,         \* the tids of the barrier (the scheduler's core ids)
    Parallel,       \* the values of parallelThreads considered
    CleanupPeriod,  \* phases between two cleanup passes (32 in the code)
    KillNewcomers   \* are threads killed that were never served since they joined?

ASSUME BarrierAssumption ==
    /\ Parallel \subseteq Nat \ {0}
    /\ CleanupPeriod \in Nat \ {0}
    /\ KillNewcomers \in BOOLEAN
    /\ IsFiniteSet(Thread)

VARIABLES
    bar,        \* the fields of the Barrier object
    word,       \* threadList[t].futexWord
    pc,         \* where each thread is
    rejoined,   \* history: threads that rejoined this phase
    failed      \* the assertion or panic that stopped the program, or "none"

vars == <<bar, word, pc, rejoined, failed>>

In(b, state) == {t \in Thread : b.state[t] = state}

Init ==
    /\ \E n \in Parallel :
       bar = [parallel |-> n,
              state   |-> [t \in Thread |-> "OFFLINE"],
              lastIdx |-> [t \in Thread |-> 1],
              runList |-> <<>>,
              cur     |-> 1,
              running |-> 0,
              left    |-> 0,
              phase   |-> 0]
    /\ word = [t \in Thread |-> 0]
    /\ pc = [t \in Thread |-> "out"]
    /\ rejoined = {}
    /\ failed = "none"
-----------------------------------------------------------------------------
(***************************************************************************)
(* checkRunList: from curThreadIdx on, wake the threads that wait, while   *)
(* there is room for one more.  The loop ends behind the entry that took   *)
(* the last free place, or behind the list.                                *)
(***************************************************************************)
Waits(b, from, to) == {i \in from..to : b.state[b.runList[i]] = "WAITING"}

StopIdx(b) ==
    Min({i \in b.cur..(Len(b.runList) + 1) :
            \/ i = Len(b.runList) + 1
            \/ b.running + Cardinality(Waits(b, b.cur, i - 1)) >= b.parallel})

CheckRunList(b) ==
    LET stop  == StopIdx(b)
        Woken == Waits(b, b.cur, stop - 1)
        At(t) == CHOOSE i \in Woken : b.runList[i] = t
        IsWoken == [t \in Thread |-> \E i \in Woken : b.runList[i] = t]
    IN  [b EXCEPT
            !.cur     = stop,
            !.state   = [t \in Thread |-> IF IsWoken[t] THEN "RUNNING" ELSE @[t]],
            !.lastIdx = [t \in Thread |-> IF IsWoken[t] THEN At(t) ELSE @[t]],
            !.running = @ + Cardinality(Woken)]

(***************************************************************************)
(* The cleanup pass: every thread that LEFT goes OFFLINE, and the entry at *)
(* the end of the list takes its place, to be looked at in turn.  The      *)
(* stayers at the front of the list keep their places; the entries behind  *)
(* the new end, taken from the back, go to the holes in order, and the one *)
(* that stays there is the last that was put.  lastIdx is written for each *)
(* of them, whether it stays or goes OFFLINE, but for one that was itself  *)
(* the hole and is overwritten.                                            *)
(***************************************************************************)
Cleanup(b) ==
    LET n       == Len(b.runList)
        Stays(i) == b.state[b.runList[i]] # "LEFT"
        size    == Cardinality({i \in 1..n : Stays(i)})
        Holes   == {i \in 1..size : ~Stays(i)} \cup {size + 1}
        \* the hole the loop stands at when entry j is the last of the list
        HoleOf(j) == CHOOSE h \in Holes :
                        Cardinality({g \in Holes : g < h})
                            = Cardinality({k \in (j + 1)..n : Stays(k)})
        Puts(t) == {j \in (size + 1)..n : b.runList[j] = t /\ (j = n \/ HoleOf(j + 1) # j)}
        Mover(h) == CHOOSE j \in (size + 1)..n : Stays(j) /\ HoleOf(j) = h
    IN  [b EXCEPT
            !.runList = [i \in 1..size |-> IF Stays(i) THEN @[i] ELSE @[Mover(i)]],
            !.lastIdx = [t \in Thread |->
                IF Puts(t) # {} THEN HoleOf(CHOOSE j \in Puts(t) : TRUE) ELSE @[t]],
            !.state   = [t \in Thread |-> IF @[t] = "LEFT" THEN "OFFLINE" ELSE @[t]],
            !.left    = 0]

(***************************************************************************)
(* The Fisher-Yates shuffle: any order, and lastIdx follows each thread    *)
(* the loop touches.  The loop stops above the first entry, so a thread    *)
(* that stays first keeps the lastIdx it had.                              *)
(***************************************************************************)
Shuffled(b) ==
    LET n == Len(b.runList)
        Moved(p) ==
            [b EXCEPT !.runList = [i \in 1..n |-> b.runList[p[i]]],
                      !.lastIdx = [t \in Thread |->
                          IF \E i \in 1..n : b.runList[p[i]] = t /\ <<i, p[i]>> # <<1, 1>>
                            THEN CHOOSE i \in 1..n : b.runList[p[i]] = t
                            ELSE b.lastIdx[t]]]
    IN  {Moved(p) : p \in {q \in [1..n -> 1..n] : \A i, j \in 1..n : q[i] = q[j] => i = j}}

(* The condition of checkEndPhase, early return included. *)
EndOfPhase(b) ==
    /\ b.cur = Len(b.runList) + 1
    /\ b.running = 0
    /\ b.left # Len(b.runList)

(* checkEndPhase: the barriers it may leave behind. *)
CheckEndPhase(b) ==
    IF ~EndOfPhase(b)
      THEN {b}
      ELSE LET rewound == [b EXCEPT !.cur = 1, !.phase = (@ + 1) % CleanupPeriod]
               clean   == IF b.phase = 0 THEN Cleanup(rewound) ELSE rewound
           IN  IF clean.parallel < Len(clean.runList) THEN Shuffled(clean) ELSE {clean}

(* The barrier when checkRunList returns for the first time, whether the   *)
(* phase ends then, and the barrier afterwards.                            *)
TryWakeNext(b) ==
    UNION {{[served |-> s, ended |-> EndOfPhase(s), b |-> CheckRunList(e)] :
                e \in CheckEndPhase(s)} : s \in {CheckRunList(b)}}
-----------------------------------------------------------------------------
(* assert(runListSize - newSize == leftThreads) of the cleanup pass. *)
CleanupCounts(b) ==
    b.phase = 0 /\ EndOfPhase(b) => Len(b.runList) - Len(Cleanup(b).runList) = b.left

(***************************************************************************)
(* The rest of join, leave and sync once they changed the barrier to b and *)
(* the futex words to w: tryWakeNext, which sets the word of every thread  *)
(* it wakes from 1 to 0 (or panics) and wakes it up in FUTEX_WAIT.  me is  *)
(* where the caller goes next; it is not in FUTEX_WAIT yet.                *)
(***************************************************************************)
Serve(t, changed, w, me, joins) ==
    \E b \in {changed} : \E n \in TryWakeNext(b) :
        LET Woken == In(n.b, "RUNNING") \ In(b, "RUNNING")
        IN  /\ bar' = n.b
            /\ word' = [u \in Thread |-> IF u \in Woken THEN 0 ELSE w[u]]
            /\ pc' = [u \in Thread |->
                        IF u = t THEN me
                        ELSE IF u \in Woken /\ pc[u] = "asleep" THEN "running" ELSE pc[u]]
            /\ rejoined' = IF n.ended THEN {} ELSE rejoined \cup joins
            /\ failed' = IF \E u \in Woken : w[u] # 1 THEN "wakeup race"
                         ELSE IF CleanupCounts(n.served) THEN "none" ELSE "left threads"

(***************************************************************************)
(* join.  A thread that left in this phase and had its turn already swaps  *)
(* its entry with the last one served, so that it is served next.          *)
(***************************************************************************)
Appended(t) == [bar EXCEPT !.runList = Append(@, t), !.state[t] = "WAITING"]

Back(t) == [bar EXCEPT !.left = @ - 1, !.state[t] = "WAITING"]

(* Mutant: off by one. *)
ServedLongBefore(t) == bar.cur > bar.lastIdx[t] + 1

ServedBefore(t) == bar.cur > bar.lastIdx[t]

(* What join asserts of the index: tid == runList[lastIdx]. *)
IndexKnown(t) == \E i \in DOMAIN bar.runList : i = bar.lastIdx[t] /\ bar.runList[i] = t

(* Mutant: the other thread of the swap is dropped from the list. *)
RescheduledAlone(t) ==
    LET nxt == bar.cur - 1
    IN  [Back(t) EXCEPT !.cur = nxt, !.runList[nxt] = t, !.lastIdx[t] = nxt]

Rescheduled(t) ==
    LET at  == bar.lastIdx[t]
        nxt == bar.cur - 1
        u   == bar.runList[nxt]
    IN  [Back(t) EXCEPT !.cur = nxt,
                        !.runList = [@ EXCEPT ![at] = u, ![nxt] = t],
                        !.lastIdx = [@ EXCEPT ![u] = at, ![t] = nxt]]

Join(t) ==
    /\ failed = "none"
    /\ pc[t] = "out"
    /\ LET w == [word EXCEPT ![t] = 1] IN
       \/ /\ bar.state[t] = "OFFLINE"
          /\ Serve(t, Appended(t), w, "check", {})
       \/ /\ bar.state[t] = "LEFT" /\ ~ServedBefore(t)
          /\ Serve(t, Back(t), w, "check", {})
       \/ /\ bar.state[t] = "LEFT" /\ ServedBefore(t)
          /\ IndexKnown(t)
          /\ Serve(t, Rescheduled(t), w, "check", {t})
       \/ /\ bar.state[t] = "LEFT" /\ ServedBefore(t)
          /\ ~IndexKnown(t)
          /\ failed' = "runList index"
          /\ UNCHANGED <<bar, word, pc, rejoined>>

(* leave of a running thread.  It rejoins a phase at most once (see Spec). *)
Leave(t) ==
    /\ failed = "none"
    /\ pc[t] = "running" /\ t \notin rejoined
    /\ bar.state[t] = "RUNNING"
    /\ Serve(t, [bar EXCEPT !.state[t] = "LEFT", !.left = @ + 1, !.running = @ - 1],
             word, "out", {})

(***************************************************************************)
(* leave on behalf of a thread that waits in the barrier: the scheduler's  *)
(* watchdog runs it when the thread's process was killed.  The tid is free *)
(* for another thread then.  KillNewcomers says whether this may happen to *)
(* a thread whose lastIdx was not written since join put it on the list.   *)
(***************************************************************************)
LeaveWaiting(t) ==
    /\ KillNewcomers \/ IndexKnown(t)
    /\ failed = "none"
    /\ pc[t] \in {"check", "wait", "asleep"} /\ t \notin rejoined
    /\ bar.state[t] = "WAITING"
    /\ bar' = [bar EXCEPT !.state[t] = "LEFT", !.left = @ + 1]
    /\ pc' = [pc EXCEPT ![t] = "out"]
    /\ UNCHANGED <<word, rejoined, failed>>

(* Mutant: the word is not armed. *)
SyncUnarmed(t) ==
    /\ failed = "none"
    /\ pc[t] = "running"
    /\ Serve(t, [bar EXCEPT !.state[t] = "WAITING", !.running = @ - 1], word, "check", {})

Sync(t) ==
    /\ failed = "none"
    /\ pc[t] = "running"
    /\ IF bar.state[t] = "RUNNING"
         THEN Serve(t, [bar EXCEPT !.state[t] = "WAITING", !.running = @ - 1],
                    [word EXCEPT ![t] = 1], "check", {})
         ELSE /\ failed' = "sync state"
              /\ UNCHANGED <<bar, word, pc, rejoined>>

(* if (threadList[tid].state == WAITING), read without the lock. *)
CheckState(t) ==
    /\ failed = "none"
    /\ pc[t] = "check"
    /\ pc' = [pc EXCEPT ![t] = IF bar.state[t] = "WAITING" THEN "wait" ELSE "running"]
    /\ UNCHANGED <<bar, word, rejoined, failed>>

(* Mutant: FUTEX_WAIT without the expected value. *)
WaitAnyway(t) ==
    /\ failed = "none"
    /\ pc[t] = "wait"
    /\ pc' = [pc EXCEPT ![t] = "asleep"]
    /\ UNCHANGED <<bar, word, rejoined, failed>>

(* FUTEX_WAIT on a word that is 1 sleeps; otherwise the loop ends. *)
FutexWait(t) ==
    /\ failed = "none"
    /\ pc[t] = "wait"
    /\ pc' = [pc EXCEPT ![t] = IF word[t] = 1 THEN "asleep" ELSE "running"]
    /\ failed' = IF word[t] # 1 /\ bar.state[t] # "RUNNING" THEN "woken state" ELSE "none"
    /\ UNCHANGED <<bar, word, rejoined>>

(* A signal ends FUTEX_WAIT: the loop looks at the word again. *)
Interrupted(t) ==
    /\ failed = "none"
    /\ pc[t] = "asleep"
    /\ pc' = [pc EXCEPT ![t] = "wait"]
    /\ UNCHANGED <<bar, word, rejoined, failed>>

Next ==
    \E t \in Thread :
        \/ Join(t) \/ Leave(t) \/ LeaveWaiting(t) \/ Sync(t)
        \/ CheckState(t) \/ FutexWait(t) \/ Interrupted(t)

(***************************************************************************)
(* A thread inside the barrier keeps running, and a running thread ends    *)
(* its phase: every instruction advances its core's clock, so it comes to  *)
(* sync or leaves for a system call.  That is also why it cannot leave and *)
(* rejoin a phase for ever; the model lets it do so once.                  *)
(***************************************************************************)
Spec ==
    /\ Init /\ [][Next]_vars
    /\ \A t \in Thread : WF_vars(CheckState(t)) /\ WF_vars(FutexWait(t))
                         /\ []<>(pc[t] # "running" \/ failed # "none")
-----------------------------------------------------------------------------
TypeOK ==
    /\ bar.parallel \in Parallel
    /\ bar.state \in [Thread -> {"OFFLINE", "WAITING", "RUNNING", "LEFT"}]
    /\ bar.lastIdx \in [Thread -> 1..Cardinality(Thread)]
    /\ bar.runList \in Seq(Thread)
    /\ bar.cur \in 1..(Len(bar.runList) + 1)
    /\ bar.phase \in 0..(CleanupPeriod - 1)
    /\ word \in [Thread -> 0..1]
    /\ pc \in [Thread -> {"out", "running", "check", "wait", "asleep"}]
    /\ rejoined \subseteq Thread

(* The run list holds every thread that is not OFFLINE once, and the two  *)
(* counters count it: what checkEndPhase decides from is what is there.   *)
CountersExact ==
    /\ TypeOK
    /\ IsInjective(bar.runList)
    /\ ToSet(bar.runList) = Thread \ In(bar, "OFFLINE")
    /\ bar.running = Cardinality(In(bar, "RUNNING"))
    /\ bar.left = Cardinality(In(bar, "LEFT"))
    /\ bar.running <= bar.parallel

(* The assertions and panics of barrier.h hold, unless a thread is killed *)
(* that waits for its first turn: with KillNewcomers, the next user of    *)
(* its tid rejoins with a lastIdx nobody wrote, and join's                *)
(* assert(tid == runList[lastIdx]) fails.                                 *)
AssertsHold == failed = "none"

(* Every thread that waits is woken, unless it is killed or an assertion  *)
(* stops the program.                                                     *)
EverybodyRuns ==
    \A t \in Thread : bar.state[t] = "WAITING"
                        ~> (pc[t] = "running" \/ bar.state[t] = "LEFT" \/ failed # "none")

(* The barrier its callers see: a waiting thread behind curThreadIdx had   *)
(* its turn.                                                               *)
Seen ==
    LET At(I) == {bar.runList[i] : i \in I} \cap In(bar, "WAITING")
    IN  [limit   |-> bar.parallel,
         todo    |-> At(bar.cur..Len(bar.runList)),
         running |-> In(bar, "RUNNING"),
         done    |-> At(1..(bar.cur - 1))]

P == INSTANCE PhaseBarrier WITH bar <- Seen

(* join, leave and sync implement PhaseBarrier, over every shuffle and     *)
(* cleanup of the run list: one turn per phase for each member, none       *)
(* beyond the limit, no phase that ends early, or late, or in a join.      *)
ImplementsPhaseBarrier == P!Spec
=============================================================================
