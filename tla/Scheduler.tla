----------------------------- MODULE Scheduler -----------------------------
(***************************************************************************)
(* zsim's scheduler (scheduler.h, scheduler.cpp): simulated threads share  *)
(* the cores' contexts.  A thread that blocks keeps its context until      *)
(* somebody wants it (OUT), a thread in a short system call does not leave *)
(* at all (a fake leave), a sleeping thread is woken by the phase count,   *)
(* at the end of a quantum contexts are handed over, and a watchdog breaks *)
(* stalls, drives time when everybody is out and cleans up killed          *)
(* processes.  The callers' protocol is that of zsim.cpp and virt/.        *)
(*                                                                         *)
(* Every function holds schedLock, so a step runs from one futex_lock of   *)
(* it to the next place where the thread blocks or takes it again.  The    *)
(* barrier is PhaseBarrier, which Barrier implements.                      *)
(***************************************************************************)
EXTENDS Integers, Sequences, FiniteSets, SequencesExt

CONSTANTS
    Thread,
    Core,           \* the contexts, and the barrier's tids
    Mask,           \* Mask[t]: the contexts t may use
    Process,        \* Process[t]
    Pc,             \* Pc[t]: the address of t's system calls
    FirstCore,      \* cid 0
    None,
    Parallel,       \* parallelThreads
    Quantum,        \* schedQuantum, in phases
    Calls,          \* Calls[t]: the kinds of system calls t makes
    SleepPhases,    \* how many phases a sleep may take
    LeavesKept,     \* fake leaves the watchdog's loop stops at: 8 in the code
    RaceWatchdog,   \* may a thread go on while the watchdog has ended its fake
                    \* leave and has not left for it yet?
    BackToBack      \* kinds of system calls that may follow another one with
                    \* no instrumented instruction between them

ASSUME SchedulerAssumption ==
    /\ Mask \in [Thread -> SUBSET Core \ {{}}]
    /\ Calls \in [Thread -> SUBSET {"plain", "sleep", "timed"}]
    /\ FirstCore \in Core
    /\ None \notin Thread \cup Core
    /\ Parallel \in Nat \ {0} /\ Quantum \in Nat \ {0} /\ LeavesKept \in Nat
    /\ RaceWatchdog \in BOOLEAN
    /\ SleepPhases \subseteq Nat \ {0}

VARIABLES
    s,      \* the Scheduler object, its ThreadInfos and ContextInfos
    pc,     \* where each thread is
    sys,    \* the kind of system call it is in
    wd      \* where the watchdog thread is, and on whose behalf

vars == <<s, pc, sys, wd>>

B == INSTANCE PhaseBarrier WITH Thread <- Core, Parallel <- {Parallel}, bar <- s.bar

Site(t) == <<Process[t], Pc[t]>>
Places == {"ff", "join", "inJoin", "waitCtx", "run", "inSync", "sys", "finish", "delete", "dead"}
WdIdle == [at |-> "idle", th |-> None]

Init ==
    /\ s = [state   |-> [t \in Thread |-> "none"],  \* none: not in gidMap
            cid     |-> [t \in Thread |-> FirstCore],
            word    |-> [t \in Thread |-> 0],       \* futexWord
            handoff |-> [t \in Thread |-> None],    \* handoffThread
            marked  |-> [t \in Thread |-> FALSE],   \* markedForSleep
            wake    |-> [t \in Thread |-> 0],       \* wakeupPhase - curPhase
            cur     |-> [c \in Core |-> None],      \* curThread; IDLE if None
            free    |-> <<FirstCore>> \o SetToSeq(Core \ {FirstCore}),  \* freeList
            run     |-> << >>, out |-> << >>,       \* runQueue, outQueue
            sleep   |-> << >>, fake |-> << >>,      \* sleepQueue, fakeLeaves
            blocking |-> {},                        \* blockingSyscalls
            phase   |-> 0,                          \* curPhase % schedQuantum
            bar     |-> [limit |-> Parallel, todo |-> {}, running |-> {}, done |-> {}],
            failed  |-> "none"]                     \* the assertion that failed
    /\ pc = [t \in Thread |-> "ff"]
    /\ sys = [t \in Thread |-> "none"]
    /\ wd = WdIdle

(* assert(p) *)
Check(x, p, what) == IF p \/ x.failed # "none" THEN x ELSE [x EXCEPT !.failed = what]

(* The first element of a list that passes the test, or None. *)
First(q, Test(_)) == IF SelectInSeq(q, Test) = 0 THEN None ELSE q[SelectInSeq(q, Test)]
-----------------------------------------------------------------------------
(* The private functions, from the scheduler they find to the one(s) they  *)
(* may leave behind.                                                       *)

Schedule(x, t, c) ==
    LET y == Check(x, x.state[t] \in {"STARTED", "BLOCKED", "QUEUED"} /\ x.cur[c] = None, "schedule")
    IN  [y EXCEPT !.state[t] = "RUNNING", !.cid[t] = c, !.cur[c] = t]

Deschedule(x, t, target) ==
    LET c == x.cid[t]
        y == Check(x, x.state[t] \in {"RUNNING", "OUT"} /\ x.cur[c] = t, "deschedule")
    IN  [y EXCEPT !.state[t] = target, !.cur[c] = None]

Wakeup(x, t) == [Check(x, x.word[t] = 1, "wakeup race") EXCEPT !.word[t] = 0]

(* Mutant: nothing is taken from the threads that are OUT. *)
NoStealing(x, t) ==
    LET idle == First(x.free, LAMBDA c : c \in Mask[t])
    IN  IF x.cur[x.cid[t]] = None /\ x.cid[t] \in Mask[t] THEN x.cid[t] ELSE idle

(* schedThread: the context t used last, the first free one, or that of    *)
(* the first thread that is OUT and holds one t may use.                   *)
ContextFor(x, t) ==
    LET owner == First(x.out, LAMBDA u : x.cid[u] \in Mask[t])
        idle  == First(x.free, LAMBDA c : c \in Mask[t])
    IN  IF x.cur[x.cid[t]] = None /\ x.cid[t] \in Mask[t] THEN x.cid[t]
        ELSE IF idle # None THEN idle
        ELSE IF owner # None THEN x.cid[owner] ELSE None

Vacated(x, c) ==
    IF x.cur[c] = None
      THEN [x EXCEPT !.free = Remove(@, c)]
      ELSE [Deschedule(x, x.cur[c], "BLOCKED") EXCEPT !.out = Remove(@, x.cur[c])]

(* schedContext: the first thread of the run queue that may use c. *)
ThreadFor(x, c) == First(x.run, LAMBDA t : c \in Mask[t])

(* schedule, core join and wakeup of the thread that takes over c. *)
TakeOver(x, c, t) ==
    Wakeup(Schedule([x EXCEPT !.run = Remove(@, t)], t, c), t)

(***************************************************************************)
(* schedTick: the queued threads in order each take the first core of a    *)
(* shuffled list that they may use.  Its thread is to hand it over.        *)
(***************************************************************************)
Assign(acc, t) ==
    LET c == First(acc.avail, LAMBDA d : d \in Mask[t])
        victim == acc.x.cur[c]
    IN  IF c = None THEN acc
        ELSE IF victim = None THEN [acc EXCEPT !.x = Check(@, FALSE, "victim")]
        ELSE [x |-> [acc.x EXCEPT !.handoff[victim] = t, !.run = Remove(@, t)],
              avail |-> Remove(acc.avail, c)]

SchedTick(x) ==
    {FoldLeft(Assign, [x |-> x, avail |-> cores], x.run).x : cores \in SetToSeqs(Core)}

(* The sleepers whose deadline is met, from the front of the queue. *)
Due(x) ==
    LET n == SelectInSeq(x.sleep, LAMBDA t : x.wake[t] > 0)
    IN  IF n = 0 THEN x.sleep ELSE SubSeq(x.sleep, 1, n - 1)

WakeSleeper(x, t) ==
    [Wakeup(Check(x, x.wake[t] = 0, "wakeup phase"), t) EXCEPT !.state[t] = "BLOCKED",
        !.wake[t] = 0, !.sleep = Tail(@)]

(* callback: a phase has passed.  The rest of a sleep is counted down, to  *)
(* -1 for a deadline that was missed.                                      *)
Callback(x) ==
    LET later == [x EXCEPT
            !.phase = (@ + 1) % Quantum,
            !.wake = [t \in Thread |->
                IF (x.state[t] = "SLEEPING" \/ x.marked[t]) /\ @[t] >= 0 THEN @[t] - 1 ELSE @[t]]]
        y == FoldLeft(WakeSleeper, later, Due(later))
    IN  IF y.run # << >> /\ y.phase = 0 THEN SchedTick(y) ELSE {y}

(* The barrier's tryWakeNext, which may end the phase and call back. *)
Wake(x) == {[x EXCEPT !.bar = b] : b \in B!Woken(x.bar)}

TryWakeNext(x) ==
    UNION {IF B!PhaseOver(w.bar)
             THEN UNION {Wake([y EXCEPT !.bar = B!NextPhase(@)]) : y \in Callback(w)}
             ELSE {w} : w \in Wake(x)}

BarJoin(x, c) ==
    TryWakeNext([Check(x, c \notin B!Members(x.bar), "barrier join") EXCEPT
                    !.bar = B!Joined(@, c)])

BarLeave(x, c) ==
    IF c \in x.bar.running
      THEN TryWakeNext([x EXCEPT !.bar = B!Without(@, c)])
      ELSE {[Check(x, c \in B!Members(x.bar), "barrier leave") EXCEPT !.bar = B!Without(@, c)]}
-----------------------------------------------------------------------------
(* Ordered insertion into the sleep queue, behind equal deadlines. *)
AsleepIn(x, t) ==
    LET later == SelectInSeq(x.sleep, LAMBDA u : x.wake[u] > x.wake[t])
    IN  IF later = 0 THEN Append(x.sleep, t) ELSE InsertAt(x.sleep, later, t)

(***************************************************************************)
(* leave: a thread that is marked goes to sleep and gives up its context;  *)
(* another gives it to a queued thread, or keeps it and is OUT.            *)
(***************************************************************************)
LeaveAs(x, t, c) ==
    LET in == ThreadFor(x, c)
        slept == [Deschedule(x, t, "SLEEPING") EXCEPT !.marked[t] = FALSE, !.sleep = AsleepIn(x, t)]
    IN  IF x.marked[t]
          THEN IF in # None THEN {TakeOver(slept, c, in)}
               ELSE BarLeave([slept EXCEPT !.free = Append(@, c)], c)
          ELSE IF in # None THEN {TakeOver(Deschedule(x, t, "BLOCKED"), c, in)}
               ELSE BarLeave([x EXCEPT !.state[t] = "OUT", !.out = Append(@, t)], c)

Leave(x, t, c, caller) ==
    IF x.cur[c] = t /\ x.state[t] = "RUNNING"
      THEN LeaveAs(x, t, c)
      ELSE {Check(x, FALSE, caller)}

FinishFakeLeave(x, t) ==
    [Check(x, x.state[t] = "RUNNING", "fake leave") EXCEPT !.fake = Remove(@, t)]

InFakeLeave(x, t) == Contains(x.fake, t)

(* Mutant: the thread takes its context and does not join the barrier. *)
PlaceOnly(x, t) ==
    LET c == ContextFor(x, t)
    IN  IF c # None THEN {Schedule(Vacated(x, c), t, c)}
        ELSE {[x EXCEPT !.state[t] = "QUEUED", !.run = Append(@, t), !.word[t] = 1]}

(* schedThread and what join and a handoff do with its answer. *)
Place(x, t) ==
    LET c == ContextFor(x, t)
    IN  IF c # None THEN BarJoin(Schedule(Vacated(x, c), t, c), c)
        ELSE {[x EXCEPT !.state[t] = "QUEUED", !.run = Append(@, t), !.word[t] = 1]}
-----------------------------------------------------------------------------
Live == s.failed = "none"
At(t, where) == Live /\ pc[t] = where /\ (RaceWatchdog \/ wd # [at |-> "leave", th |-> t])
Goto(t, where) == pc' = [pc EXCEPT ![t] = where]

(* start: the thread enters the scheduler with a new ThreadInfo, whose     *)
(* fields FinishDelete has reset.                                          *)
Start(t) ==
    /\ At(t, "ff")
    /\ s' = [s EXCEPT !.state[t] = "STARTED"]
    /\ Goto(t, "join")
    /\ UNCHANGED <<sys, wd>>

(* Mutant: the thread keeps its place in the queue of OUT threads. *)
RejoinKept(t) ==
    LET x == [Check(s, ~s.marked[t], "join marked") EXCEPT !.state[t] = "RUNNING"]
    IN  s' \in BarJoin(x, x.cid[t])

(* join of a thread whose context is still its own. *)
Rejoin(t) ==
    LET x == [Check(s, ~s.marked[t], "join marked") EXCEPT
                  !.state[t] = "RUNNING", !.out = Remove(@, t)]
    IN  s' \in BarJoin(x, x.cid[t])

(* join of a thread that has none; a sleep may end early. *)
Unplaced(x, t) ==
    [Check(Check(x, ~x.marked[t], "join marked"),
           x.state[t] \in {"BLOCKED", "STARTED", "SLEEPING"}, "join state") EXCEPT
        !.state[t] = IF @ = "SLEEPING" THEN "BLOCKED" ELSE @,
        !.wake[t] = 0, !.sleep = Remove(@, t)]

JoinAgain(t) ==
    LET x == Unplaced(s, t)
    IN  s' \in IF x.failed = "none" THEN Place(x, t) ELSE {x}

(* join, after a system call or at the start. *)
Join(t) ==
    /\ At(t, "join")
    /\ \/ /\ InFakeLeave(s, t)
          /\ s' = FinishFakeLeave(s, t)
          /\ Goto(t, "run")
       \/ /\ ~InFakeLeave(s, t) /\ s.state[t] = "OUT"
          /\ Rejoin(t)
          /\ Goto(t, "inJoin")
       \/ /\ ~InFakeLeave(s, t) /\ s.state[t] # "OUT"
          /\ JoinAgain(t)
          /\ Goto(t, IF s'.state[t] = "QUEUED" THEN "waitCtx" ELSE "inJoin")
    /\ UNCHANGED <<sys, wd>>

(* The barrier's join returns once the context's turn has come. *)
Joined(t) ==
    /\ At(t, "inJoin")
    /\ s.cid[t] \in s.bar.running
    /\ Goto(t, "run")
    /\ UNCHANGED <<s, sys, wd>>

(* waitForContext returns; no caller of wakeup asks for a join. *)
GotContext(t) ==
    /\ At(t, "waitCtx")
    /\ s.word[t] = 0
    /\ Goto(t, "run")
    /\ UNCHANGED <<s, sys, wd>>

(* sync: the end of the thread's phase. *)
Sync(t) ==
    /\ At(t, "run")
    /\ LET c == s.cid[t]
           ok == Check(Check(s, ~s.marked[t], "sync marked"), c \in s.bar.running, "sync state")
       IN  s' \in TryWakeNext([ok EXCEPT !.bar = B!Synced(@, c)])
    /\ Goto(t, "inSync")
    /\ UNCHANGED <<sys, wd>>

(* Mutant: the thread does not queue up for another context. *)
HandOverOnly(t, dst) ==
    LET c == s.cid[t]
        x == Deschedule([s EXCEPT !.handoff[t] = None], t, "QUEUED")
    IN  {[Wakeup(Schedule(x, dst, c), dst) EXCEPT !.word[t] = 1]}

(* sync, its turn has come: hand the context over, if asked to. *)
HandOver(t, dst) ==
    LET c == s.cid[t]
        x == Deschedule([s EXCEPT !.handoff[t] = None], t, "QUEUED")
    IN  Place(Wakeup(Schedule(x, dst, c), dst), t)

Synced(t) ==
    /\ At(t, "inSync")
    /\ s.cid[t] \in s.bar.running
    /\ IF s.handoff[t] = None
         THEN UNCHANGED s /\ Goto(t, "run")
         ELSE /\ s' \in HandOver(t, s.handoff[t])
              /\ Goto(t, IF s'.state[t] = "QUEUED" THEN "waitCtx" ELSE "inJoin")
    /\ UNCHANGED <<sys, wd>>
-----------------------------------------------------------------------------
(* A timed call waits for two phases at least. *)
Waits(kind) == IF kind = "timed" THEN SleepPhases \ {1} ELSE SleepPhases

(* Mutant: the word is left to the patched call. *)
MarkedOnly(x, t, n) == [Check(x, ~x.marked[t], "marked twice") EXCEPT
                            !.marked[t] = TRUE, !.wake[t] = n]

(* markForSleep, by the patches of the sleeping and the timed calls. *)
Marked(x, t, n) == [Check(x, ~x.marked[t], "marked twice") EXCEPT
                        !.marked[t] = TRUE, !.wake[t] = n, !.word[t] = 1]

(* SyscallEnter: a call that is to sleep, or once stalled the simulation,  *)
(* leaves; any other only pretends to.                                     *)
Enter(t) ==
    /\ At(t, "run")
    /\ \E kind \in Calls[t] :
        /\ sys' = [sys EXCEPT ![t] = kind]
        /\ \E x \in IF kind = "plain" THEN {s} ELSE {Marked(s, t, n) : n \in Waits(kind)} :
              IF x.marked[t] \/ Site(t) \in x.blocking
                THEN s' \in Leave(x, t, x.cid[t], "leave")
                ELSE s' = [x EXCEPT !.fake = Append(@, t)]
    /\ Goto(t, "sys")
    /\ UNCHANGED wd

(* SyscallEnter before the thread has joined, right after another call or  *)
(* at its start: the patches run, but there is no leave.                   *)
EnterAgain(t) ==
    /\ At(t, "join")
    /\ \E kind \in BackToBack \cap Calls[t] :
        /\ sys' = [sys EXCEPT ![t] = kind]
        /\ s' \in IF kind = "plain" THEN {s} ELSE {Marked(s, t, n) : n \in Waits(kind)}
    /\ Goto(t, "sys")
    /\ UNCHANGED wd

(***************************************************************************)
(* The call returns.  A sleep is a FUTEX_WAIT on the thread's word (or a   *)
(* signal ends it).  A timed call that timed out while the thread is still *)
(* SLEEPING is tried again; one that did not time out ends the sleep.      *)
(***************************************************************************)
NotifySleepEnd(t) ==
    s' = IF s.state[t] = "SLEEPING"
           THEN [Check(s, ~s.marked[t], "sleep end") EXCEPT
                    !.state[t] = "BLOCKED", !.wake[t] = 0, !.sleep = Remove(@, t)]
           ELSE s

Return(t) ==
    /\ At(t, "sys")
    /\ IF sys[t] = "timed" THEN NotifySleepEnd(t) ELSE UNCHANGED s
    /\ \/ Goto(t, "join")
       \/ Goto(t, "finish")     \* it exits, or its process fast-forwards
    /\ sys' = [sys EXCEPT ![t] = "none"]
    /\ UNCHANGED wd

(* TakeBarrier or a magic op, when the process starts to fast-forward. *)
EnterFastForward(t) ==
    /\ At(t, "run")
    /\ s' \in Leave(s, t, s.cid[t], "leave")
    /\ Goto(t, "finish")
    /\ UNCHANGED <<sys, wd>>

(* finish, first part: execute the leave that was suppressed or forgotten. *)
(* The lock is dropped before each leave.                                  *)
FinishLeave(t) ==
    /\ At(t, "finish")
    /\ \/ /\ InFakeLeave(s, t)
          /\ s' = FinishFakeLeave(s, t)
          /\ UNCHANGED pc
       \/ /\ ~InFakeLeave(s, t) /\ s.state[t] = "RUNNING"
          /\ s' \in Leave(s, t, s.cid[t], "leave")
          /\ Goto(t, "delete")
       \/ /\ ~InFakeLeave(s, t) /\ s.state[t] # "RUNNING"
          /\ UNCHANGED s
          /\ Goto(t, "delete")
    /\ UNCHANGED <<sys, wd>>

(* finish, second part: out of the queues, and the ThreadInfo is deleted. *)
ContextFreed(t) ==
    [Deschedule(s, t, "BLOCKED") EXCEPT !.out = Remove(@, t), !.free = Append(@, s.cid[t])]

FinishDelete(t) ==
    LET x == Check(Check(s, s.state[t] # "SLEEPING", "finish asleep"),
                   s.state[t] \in {"STARTED", "OUT", "BLOCKED", "QUEUED"}, "finish")
        y == IF s.state[t] = "OUT" THEN ContextFreed(t) ELSE x
    IN  /\ At(t, "delete")
        /\ s' = [y EXCEPT !.state[t] = "none", !.run = Remove(@, t), !.cid[t] = FirstCore, !.word[t] = 0,
                          !.handoff[t] = None, !.marked[t] = FALSE, !.wake[t] = 0]
        /\ Goto(t, "ff")
        /\ UNCHANGED sys
        /\ wd' = IF wd = [at |-> "cleanup", th |-> t] THEN WdIdle ELSE wd
-----------------------------------------------------------------------------
(* A fatal signal ends a process of one thread, which is not in the        *)
(* scheduler then, or runs; its cleanup is left to the watchdog.           *)
Kill(t) ==
    /\ Live /\ pc[t] \in {"run", "sys", "join"} /\ s.state[t] # "STARTED"
    /\ \A u \in Thread \ {t} : Process[u] # Process[t]
    /\ Goto(t, "dead")
    /\ UNCHANGED <<s, sys, wd>>

(* processCleanup: isSleeping, notifySleepEnd, then finish. *)
Cleanup(t) ==
    /\ At(t, "dead") /\ wd = WdIdle
    /\ NotifySleepEnd(t)
    /\ wd' = [at |-> "cleanup", th |-> t]
    /\ Goto(t, "finish")
    /\ sys' = [sys EXCEPT ![t] = "none"]

(* No phase has ended for a while and a fake leave is to blame: make the   *)
(* first of them a real leave, and remember the call if it was the only    *)
(* one.  The lock is dropped between finishFakeLeave and leave.            *)
BreakStall ==
    /\ Live /\ wd = WdIdle
    /\ s.fake # << >>
    /\ LET t == Head(s.fake)
           x == [s EXCEPT !.blocking = IF Len(s.fake) = 1 THEN @ \cup {Site(t)} ELSE @]
       IN  /\ s' = FinishFakeLeave(x, t)
           /\ wd' = [at |-> "leave", th |-> t]
    /\ UNCHANGED <<pc, sys>>

(* leave, then the same for other threads at this address, down to a few;  *)
(* the loop asks for the process of the thread it has just dealt with.     *)
BreakNext ==
    /\ Live /\ wd.at = "leave"
    /\ \E x \in Leave(s, wd.th, s.cid[wd.th], "watchdog leave") :
         IF Len(x.fake) > LeavesKept /\ Pc[Head(x.fake)] = Pc[wd.th]
           THEN LET t == Head(x.fake)
                    y == Check(FinishFakeLeave(x, t), Process[t] = Process[wd.th], "leave gid")
                IN  s' = y /\ wd' = [wd EXCEPT !.th = t]
           ELSE s' = x /\ wd' = WdIdle
    /\ UNCHANGED <<pc, sys>>

(* Everybody is out and somebody sleeps: the watchdog ends the phase.      *)
(* Mutant: it counts the idle contexts only.                               *)
OnlyIdle == \A c \in Core : s.cur[c] = None
EverybodyOut == Cardinality({c \in Core : s.cur[c] # None}) = Len(s.out)

DriveTime ==
    /\ Live /\ wd = WdIdle
    /\ EverybodyOut /\ s.sleep # << >>
    /\ s' \in Callback(s)
    /\ UNCHANGED <<pc, sys, wd>>

(* After a failed assertion nothing happens any more. *)
Stopped == ~Live /\ UNCHANGED vars

Next ==
    \/ \E t \in Thread :
          \/ Start(t) \/ Join(t) \/ Joined(t) \/ GotContext(t) \/ Sync(t) \/ Synced(t)
          \/ Enter(t) \/ EnterAgain(t) \/ Return(t) \/ EnterFastForward(t)
          \/ FinishLeave(t) \/ FinishDelete(t) \/ Kill(t) \/ Cleanup(t)
    \/ BreakStall \/ BreakNext \/ DriveTime \/ Stopped

(***************************************************************************)
(* The host runs threads that can go on, and the watchdog's; a system call *)
(* may take for ever.  Each instruction advances the core's clock, so a    *)
(* thread that runs again and again reaches the end of the phase, unless   *)
(* the phase ends before.  (Weak fairness of the actions is written with   *)
(* their guards, which TLC evaluates faster than ENABLED.)                 *)
(***************************************************************************)
CanGo(t) ==
    \/ At(t, "join") \/ At(t, "finish") \/ At(t, "delete")
    \/ (At(t, "inJoin") \/ At(t, "inSync")) /\ s.cid[t] \in s.bar.running
    \/ At(t, "waitCtx") /\ s.word[t] = 0
    \/ At(t, "dead") /\ wd = WdIdle

ClockAdvances(t) ==
    []<>(Live /\ pc[t] = "run") => []<><<Sync(t) \/ s'.phase # s.phase>>_vars

WatchdogRuns ==
    /\ WF_wd(Live /\ wd = WdIdle /\ s.fake # << >> /\ wd' \in [at : {"leave"}, th : Thread])
    /\ WF_wd(Live /\ wd.at = "leave" /\ wd' \in {WdIdle} \cup [at : {"leave"}, th : Thread])
    /\ <>[](Live /\ wd = WdIdle /\ EverybodyOut /\ s.sleep # << >>)
          => []<><<s'.phase # s.phase>>_vars

Fairness ==
    /\ \A t \in Thread :
          /\ WF_pc(CanGo(t) /\ \E where \in Places : pc' = [pc EXCEPT ![t] = where])
          /\ ClockAdvances(t)
    /\ WatchdogRuns

Spec == Init /\ [][Next]_vars /\ Fairness
-----------------------------------------------------------------------------
TypeOK ==
    /\ pc \in [Thread -> Places]
    /\ s.state \in [Thread -> {"none", "STARTED", "RUNNING", "OUT", "BLOCKED", "SLEEPING", "QUEUED"}]
    /\ s.cid \in [Thread -> Core] /\ s.word \in [Thread -> 0..1]
    /\ s.cur \in [Core -> Thread \cup {None}] /\ s.handoff \in [Thread -> Thread \cup {None}]
    /\ \A q \in {s.run, s.out, s.sleep, s.fake} : ToSet(q) \subseteq Thread

QueueOf(st) ==
    CASE st = "OUT" -> s.out [] st = "SLEEPING" -> s.sleep [] OTHER -> s.run

(* A thread is exactly where its state says: in the one queue of its state *)
(* once, or, QUEUED and picked by schedTick, the target of one handoff; on *)
(* its context if it runs or is OUT, and every other context is free.      *)
ThreadsPlaced ==
    TypeOK /\ (Live =>
        /\ \A st \in {"OUT", "SLEEPING"} : \A t \in Thread :
              Contains(QueueOf(st), t) <=> s.state[t] = st
        /\ \A t \in Thread : s.state[t] = "QUEUED" <=>
              (Contains(s.run, t) \/ \E u \in Thread : s.handoff[u] = t)
        /\ \A t, u \in Thread : s.handoff[u] = t /\ u # t =>
              ~Contains(s.run, t) /\ (\A v \in Thread \ {u} : s.handoff[v] # t)
        /\ \A t \in Thread, c \in Core :
              s.cur[c] = t <=> s.state[t] \in {"RUNNING", "OUT"} /\ s.cid[t] = c
        /\ \A c \in Core : Contains(s.free, c) <=> s.cur[c] = None
        /\ \A q \in {s.run, s.out, s.sleep, s.fake, s.free} : IsInjective(q))

(* The barrier waits for a context exactly while its thread is RUNNING,    *)
(* and a thread that executes has its turn: a phase cannot end under it.   *)
BarrierAgrees ==
    Live =>
        /\ B!Members(s.bar) = {c \in Core : s.cur[c] # None /\ s.state[s.cur[c]] = "RUNNING"}
        /\ \A t \in Thread : pc[t] = "run" \/ InFakeLeave(s, t) =>
              s.cur[s.cid[t]] = t /\ s.cid[t] \in s.bar.running

(* A context a queued thread may use is never idle or held by a thread     *)
(* that is OUT; schedTick's assert(victimTh) rests on it.                  *)
WorkConserving ==
    Live => \A t \in ToSet(s.run) : \A c \in Mask[t] :
                s.cur[c] # None /\ s.state[s.cur[c]] = "RUNNING"

(* The assertions and panics of the scheduler hold, as long as no thread   *)
(* races with the watchdog; but a process may start to fast-forward when a *)
(* signal has just ended a thread's sleep, and finish finds it SLEEPING.   *)
AssertsHold == s.failed \in {"none", "finish asleep"}

(* A thread that waits for a context gets one: phases go on to end while   *)
(* others block, sleep, finish or are killed, and a quantum's end does not *)
(* pass it over for ever.                                                  *)
QueuedRuns ==
    \A t \in Thread : pc[t] = "waitCtx" ~> pc[t] # "waitCtx" \/ ~Live

(* A sleeping thread is woken, be it by the watchdog alone. *)
SleepersWake ==
    \A t \in Thread : s.state[t] = "SLEEPING" ~> s.state[t] # "SLEEPING" \/ ~Live

(* assert(th->state == BLOCKED || th->state == STARTED) in join. *)
JoinStateKnown == s.failed # "join state"
=============================================================================
