# A verification development of zsim and its replacement policies

This directory holds TLA+ models of zsim, the execution-driven simulator under
`zsim/src`, as this repository extends it with the SRRIP, SHiP and EHC
replacement policies; the TLC configurations that check them on small instances;
and TLAPS proofs of the properties that matter most for every value of the
parameters. `PROJECT.json` gives, for every definition, the lines it models, and
lists runs, mutants, hazards, findings and theorems.

## 1. The system

zsim runs a program under Pin in *phases* of some thousand simulated cycles. In
the **bound** part of a phase every simulated core runs its thread's
instructions against a shared hierarchy of caches, concurrently and with
minimum latencies; a barrier holds back threads that have ended their phase.
When all have, one thread runs the **weave** part: the recorded memory events are
replayed, in parallel domains, with contention. All state is in a heap that
several instrumented processes share.

### Inventory

| Component | Code | State | Operations | What makes it correct |
|---|---|---|---|---|
| Futex locks | `locks.h` | one word: 0, 1, 2 | lock (spinning, not spinning, timed), unlock, haswaiters | one owner; no lost wakeup; a free lock is taken |
| Cache arrays | `cache_arrays.*` | tag of each line; position of each line (zcache) | lookup, preinsert, postinsert | an address in one line, which its lookup finds |
| SRRIP, SHiP | `repl_rrip.h`, `repl_ship.h` | prediction value per line; insertion flags; signature counters; per-line signature and outcome | update, replaced, rank | the victim is the line predicted farthest; the metadata is that of the line; only dead lines train |
| EHC | `repl_ehc.h` | prediction value, address, hit count, expected hits per line; hit history table | update, replaced, rank, score, table search / add / push | the table's entries are unique and their recencies a permutation; counts are filed under the right address; the victim expects the fewest hits |
| Caches and coherence | `cache.*`, `coherence_ctrls.*` | MESI state per line; directory entry per line; two locks per cache | access (GETS, GETX, PUTS, PUTX), invalidate (INV, INVX) | single writer, inclusion, exact directory, no lost dirty data, no deadlock |
| Filter caches | `filter_cache.h` | read and write address per line, a lock | load, store, replace, invalidate, contextSwitch | never promises more than the L1 holds |
| Phase barrier | `barrier.h` | run list, per-thread state, futex word and list index, counters | join, leave, sync, tryWakeNext, cleanup, shuffle | nobody skipped, one turn per phase, no stall |
| Read-write mutex | `mutex.h` | two locks, readers' count | rdLock, wrLock, downgrade, ... | readers or one writer |
| Scheduler and watchdog | `scheduler.*` | threads, contexts, run / out / sleep queues, fake leaves, futex table | start, finish, join, leave, syncAndLeave, timeouts, cleanup | a thread on one context; no starvation; no stuck phase |
| Process tree, termination | `process_tree.*`, `zsim_harness.cpp` | process states and counts | start, end, restart, kill | ends exactly when all have ended |
| Driver | `zsim.cpp`, `virt/` | fast-forward state, per-thread function pointers | instrumented callbacks, system calls | legal orders of join and leave |
| Weave | `contention_sim.*`, `timing_event.*`, `prio_queue.h`, `slab_alloc.h` | locks and counter of the phase handshake; domains, queues, event graphs, crossings; live events per slab | simulatePhase, simThreadLoop, enqueue, run, done, crossing, allocate, free | events in order of time; every event happens; no crossing late or into the past; phases end and never overlap |
| Recorders and timing caches | `core_recorder.*`, `timing_core.cpp`, `timing_cache.*` | recorder state and two clocks; MSHRs, pending queue, port | record, join, leave, start and end of the weave; hit, miss, writeback | no access lost; one access a cycle on a port |
| Classic policies | `repl_policies.h` | timestamps, ages, counts | update, replaced, rank | the victim is the least worth keeping |
| DDR, partitioning | `ddr_mem.*`, `part_repl_policies.h` | bank queues; partitions | schedule; repartition | fair queues; sizes add up |
| Prefetcher | `prefetcher.*` | stream table | access, invalidate | entries unique |
| Cores, decoder, stats, config, traces, heap | rest of `zsim/src` | clocks, tables, counters | | no interleaving of their own |
| Benchmark runner | `zsim/runpolicy/` | pool of child processes | start, poll, stop | never more than the limit; every job run |

How they interact: a core calls its filter cache; that calls `Cache::access`,
which calls the array, the replacement policy and the coherence controllers; a
controller calls its parent's `access` going up and its children's `invalidate`
going down. Each bottom and top controller has a futex lock. A thread whose phase
ends calls the scheduler's `sync`, which holds `schedLock` (a futex lock) and calls
the barrier; the barrier calls back at the end of a phase, and the callback runs
the weave. System calls make threads leave and join the barrier. A watchdog
thread times out sleepers and cleans up killed processes.

What is hard: several threads in one cache tree with hand-over-hand locks, and
invalidations that overtake requests; a futex word manipulated by three lock
variants; a barrier where the state is read after the lock is dropped; threads
that leave, rejoin or die while they wait; saturating and wrapping counters of
the policies, whose metadata is written in one call and consumed in the next; and
simulation threads that advance several domains at once, where an event of one domain
waits for one of another and reads its progress without a lock.
`PROJECT.json` lists such hazards with their lines; those without a property say why.

## 2. What is modelled, and how

`Mutex` is the abstract lock and `PhaseBarrier` the abstract barrier. The modules
`FutexLock`, `MESI`, `Barrier`, `Scheduler` and `Weave` model concurrent code; `RRIP` and `EHC` extend
`SetAssocArray`, `ReplPolicies` extends `ZArray`, and these model code that runs
under a bank's lock, one access at a time. `Weave` is the last of a chain of modules that extend one
another: `WeavePhase` and `PrioQueue`, `TimingEvent`, `TimingCache`, `CoreRecorder`.

**FutexLock** (`locks.h`). `lock` is the word, `pc[t]` the place of a thread in
the functions, `call[t]` the variant, `tries[t]` the spin counter. Each atomic
instruction or system call is an action: `TryCAS` (test and compare-and-swap),
`Announce` (first exchange of 2), `FutexWait`, `Retry` (the exchange after the wait),
`Decrement`, `StoreZero`, `FutexWake`. `Interrupted` is a FUTEX_WAIT that returns by
a signal or a timeout. `FutexLock` implements `Mutex` (`ImplementsMutex`,
refinement mapping `Holding`).

**SetAssocArray** (`cache_arrays.cpp`). `array[id]` is the tag of a line, 0 when it was
never filled; `op` is the access in flight: idle, ranking, or with a victim.
The set index hash is the constant `SetOf`.

**RRIP** (`repl_rrip.h`, `repl_ship.h`). `Hit` and `Miss` are the two ways out of
the lookup. rank's loop is a step per pass: `RankFound` or `RankAge`. `Insert` is
postinsert: `replaced(victim)`, the tag, `update(victim)`, in this order. The policy
is chosen in `Init`. `reused` and `before` are history variables, read by properties
only.

**EHC** (`repl_ehc.h`). The same access, with rank's three outcomes: a candidate of
score -3 (`RankBottom`), a pass that ages every line of the cache (`RankAge`), or all
lines aged (`RankGiveUp`). The operators `Found`, `VictimWay`, `AddEntry`, `PushCount` and
`UpdateHHT` are the history table. `EFH` is taken modulo the width of its byte.

**MESI** (`cache.cpp`, `coherence_ctrls.*`, `filter_cache.h`, `mem_ctrls.cpp`).
A core's access is a stack of calls (`stack[c]`), one frame for each cache it has
reached and for each invalidation it is carrying out. A step runs from one lock operation to
the next. `LockTcc` and `LockBcc` are startAccess with the race check;
`SendInvalidate` and `FinishInv` the invalidations; `Evict` processEviction;
`BottomAccess`, `TopAccess` and `Grant` the two processAccess; `EndAccess` and `FillFilter`
the way out. Every assert and panic on the way is a `Check` that sets `failed`.
The locks are those of `Mutex`, which `FutexLock` implements. Replacement may
choose any line, so what is shown holds under every policy.
`Cache` is the set of the *banks* of all caches: each bank is a `Cache` object with lines and locks of its own. `Parents[k]` is the vector of the
banks above `k`, and `Parent(k, a)` (getParentId) picks one by a hash of the address, so two banks can be at work
on one child at once, for different lines. `NoLoops`, `SameBanks` and `OneLastLevel` are what `init.cpp` makes sure of (section 5).

**Barrier** (`barrier.h`). `bar` is the object; join, leave and sync change it
in one step, since the caller holds `schedLock`, and `CheckState` and `FutexWait` are
what the thread does after it dropped that lock. `CheckRunList`, `CheckEndPhase`, `Cleanup` and
`Shuffled` are its helpers as functions of the barrier. `LeaveWaiting` is the leave the
watchdog carries out for a thread of a killed process. `rejoined` bounds how often a
thread comes back in one phase. The module implements `PhaseBarrier` under the mapping `Seen`.

**PhaseBarrier**. What the barrier promises: four fields, the limit and the members
that wait for their turn, have it, or had it. Each member gets one turn a phase;
a phase is over when all had theirs; which waiting member is next is open. Who joins is served
in the phase it joined.

**Scheduler** (`scheduler.*`, with its callers in `zsim.cpp` and `virt/`). `s` is the
object: thread states, contexts, the four queues, handoffs, sleep marks, futex words,
the blacklist and a `PhaseBarrier`. Every function holds `schedLock`, so an action runs from one
acquisition to the place where the thread blocks or lets go. `Place`, `ContextFor`, `ThreadFor`
and `SchedTick` are the scheduling policy; `Join`, `LeaveAs`, `Sync`, `Synced`, `FinishLeave` and
`FinishDelete` the interface; `Enter`, `EnterAgain` and `Return` the system calls (plain, sleeping, or timed
ones that are tried again until the sleep is over); `BreakStall`, `BreakNext`, `DriveTime` and `Cleanup` the
watchdog. A deadline is kept as the number of phases that remain. Each assertion
is a `Check` that sets `failed`, after which nothing happens.

**ZArray and ReplPolicies** (`cache_arrays.cpp`, `repl_policies.h`). `lookupArray[p]` is the line in
position `p`, `array[id]` the address in line `id`. `WalkCands` is the breadth-first walk of preinsert,
`SwapPath` the path from the victim back to a position of the new address, `Swapped` the chain of swaps of
postinsert. A set-associative array is the case where all positions of an address are those of its set.
`Hit`, `Put`, `Preinsert`, `Postinsert` and `Invalidate` are the ways in which a bank uses array and policy; an
invalidation may come between preinsert and postinsert, as it may in `Cache::access`. The coherence controller is
reduced to its answers `isValid` and `numSharers`. `since` is a history variable: `since[a]` are the
addresses used since `a` was, against which `VictimLeastUsed` judges the policies' counters.

**PrioQueue** (`prio_queue.h`). The two-level queue as a record and operators: a window of blocks of
64 cycles (`PQBlocks`, `PQWidth`) and a map for what lies beyond it, from which dequeue refills every half window.

**WeavePhase** (`contention_sim.cpp`). `simulatePhase` and the frame of `simThreadLoop`: wake locks,
wait lock and the counter `threadsDone`, one lock operation or atomic per step.

**TimingEvent** (`timing_event.*`, the queueing half of `contention_sim.cpp`). `w` holds the events that
live, the queues and clocks of the domains, and the last crossings. `AddChild`, `Done`, `ParentDone`, `Queue`,
`NewCrossing`, `EnqueueCrossing`, `CrossingRetry` and `CrossingDone` map `w` to its next value. An edge to another
domain becomes a pair of events as in `produceCrossings`. Events are never reused in the model; `w.live`
counts allocations and frees of a core's slab as the code does.

**TimingCache** (`timing_cache.cpp`, `weave_md1_mem.h`). The records of a hit, a miss and a miss with a dirty victim, and
what their events do: MSHRs, pending queue and port. **CoreRecorder** (`core_recorder.cpp`, `timing_core.cpp`): the recorder's three
states and the two clocks.

**Weave** composes them. Cores join, leave, access and run basic blocks in the bound phase; `EndBound` is the last
thread in the barrier; `Wake` to `RequeueDomain` are `simulatePhaseThread` for a thread with one domain or several. A step
of a thread touches the state it shares with others (the clock of a domain, `called` and `doneCycle` of a
crossing, a core's slack) as one access of the code does.

## 3. The runs

| Run | Instance | Shows |
|---|---|---|
| `futex_lock` | 3 threads, 2 spins | mutual exclusion, no lost wakeup, refinement of `Mutex`; a wanted lock is taken (`Progress`); an owner eventually sees a waiter (`WaitersShow`) |
| `rrip` | 4 addresses, 2 sets of 2 lines, 2 signatures, counters 0..3, both policies | unique tags; the victim is the oldest of the start of the miss; metadata follows the line; only dead lines train; rank ends |
| `ehc` | the same array, one table set of 2 ways with colliding tags, hit counter limit 2, byte modulo 3, 9 accesses | the table stays sound; addresses follow tags; the victim expects least; rank ends |
| `ehc_expect` | same | violation: a hit can raise the expectation |
| `mesi` | 2 cores, one with a data L1 (2 lines) and an instruction L1, one with a data L1 under a private L2, all below a last level of 2 banks, 3 addresses | coherence, inclusion, directory, dirty data, filter, no deadlock, no failed assertion |
| `barrier` | 3 threads, 1 or 2 in parallel, cleanup every 2 phases | exact counters, no failed assertion, refinement of `PhaseBarrier` (nobody skipped or served twice), everybody is woken |
| `scheduler` | 3 threads, 2 contexts with masks that overlap, 2 processes, quantum 2, sleeps of 1 or 2 phases | every thread in the queue of its state and nowhere else; the barrier waits for the running contexts; no usable context idles; no assertion fails |
| `scheduler_live` | same, fewer kinds of calls | a queued thread runs, a sleeper wakes |
| `scheduler_race` | same, and threads may race with the watchdog | violation: join finds a RUNNING thread |
| `weave` | 2 cores and 2 banks (1 and 2 MSHRs) in 2 domains, 1 or 2 simulation threads, phases of 4 cycles, 2 phases, a queue window of 4 cycles, 2 and 3 operations per core | no failed assertion; every event is where it will still happen; crossings on time; one access a cycle on a port; bound and weave never overlap; every weave phase ends |
| `weave_slab` | same | violation: a slab's count is 0 while events in it live |
| `repl` | 5 policies on a set-associative array and (but for random replacement) on a zcache, 2 ways of 2 positions, 6 candidates, 4 addresses, at most 1 sharer, 6 accesses | every line is found after any swaps; LRU and LFU evict the line worth least |

Why the bounds are enough. Three threads on a lock give an owner, a sleeper and a
thread that overtakes both; two spins distinguish the last attempt from the others.
Two sets show that aging stays in a set (SRRIP) or does not (EHC); two ways give a
choice; four addresses make every set overflow; two signatures shared by the
addresses make them interfere, and a counter of 0..3 saturates on both sides. EHC's
table is full after two evictions, and its counter and byte wrap within a few
accesses; the accesses are bounded because hit history queues make the state space
large.

`mesi` has the shape of the multi-core configurations in the repository (`l3` with `banks = 8`): two banks, with one line each, to which
`getParentId` sends the addresses, so that the second of its addresses evicts the first. The core `c1` has an L1 with a line for either bank:
while a store of `c2` invalidates one of them through one bank, an instruction fetch of `c1` evicts the other through the second bank. The L2 of
`c2` has one line, so that its PUTs and GETX race with an invalidation, a downgrade or an eviction by the bank. After
a fetch by `c1`, a store of `c2` to the same address is an upgrade, which another fetch or an eviction can overtake; after a load of `c2` alone the bank
is in E, and its L1 below may go to M on its own. Each L1 has a program (`Requests`): with every request by every L1 the
graph is too large. The theorems of section 5 are for every request, on any number of banks and lines.

Three threads with room for one or two need several rounds of
waking, and the shuffle; a cleanup every second phase separates phases with and
without one. In the scheduler one thread may use both contexts and the two others one
each, so that a context can be usable for one waiting thread and not for another; the
watchdog's loop goes down to 0 fake leaves instead of 8, because two contexts never have
more than two; quantum 2 has phases with and without a handover.
In the weave the operations per core are few, but they
make a queue's window wrap, crossings in both directions meet, a miss wait for the only MSHR of its
bank, and a core leave and come back while its events are still to run; phases of 4 cycles make every miss outlast
its phase. One thread with two domains runs the code that picks domains, two threads
with one each race. In `repl` four lines, of which each address reaches four by two swaps, give walks with
loops, and a score variable of 8 values (`ScoreRange`; 2^32 in the code) overflows within the bound, where `VictimLeastUsed` stops to promise anything.
The liveness run of the scheduler keeps one thread that sleeps, one whose calls may last for ever and one that can
be killed, since its graph is much larger than the invariants'.

Each property has a mutant in `PROJECT.json`: a plausible bug of the code under
which the same run finds the property violated.

### Fairness

- `FutexLock`: weak fairness of each thread's own steps inside lock and unlock. The
  host schedules a runnable thread eventually. Nothing is assumed of `Call`, of
  how long an owner keeps the lock (`Decrement`), or of signals and timeouts. Without
  strong fairness a thread may starve, as the code permits; `Progress` is therefore
  of the lock and not of each thread.
- `RRIP`, `EHC`: an access that has started goes on; it is one function call
  under a lock.
- `Barrier`: a thread that has dropped the lock goes on to its FUTEX_WAIT; a running thread
  ends its phase, because each instruction advances its clock to the phase's end; for
  the same reason it cannot leave and rejoin one phase for ever, and the model lets it
  rejoin once per phase.
- `Scheduler`: threads that can go on do, and so does the watchdog. A system call
  may last for ever. A thread that runs again and again ends its phase, unless the
  phase ends otherwise (`ClockAdvances`); a thread that always blocks before the end of its
  phase need not.
- `Weave`: every thread of the simulator that can take a step does: the caller of `simulatePhase` and each simulation
  thread. It is written out with the conditions in which the steps are enabled (`CanStep`, `Steps`), because
  TLC's ENABLED is too slow on the operators of events. Nothing is assumed of the cores.
- `MESI` and `ReplPolicies` have no fairness. Freedom from deadlock is the invariant `NoDeadlock`.

`CHECK_DEADLOCK FALSE` is given where the model's own bound ends it (`ehc` and `repl` after the
last access, `weave` after the last phase; there `PhaseEnds` says that no phase hangs). The type invariants are
conjuncts of `HHTSound`, `Inclusion`, `CountersExact` and `ThreadsPlaced`.

## 4. What the checks found

1. EHC's hit branch (`repl_ehc.h:125`: "Expected Further Hits down"): the
   byte is decremented with its guard commented out; at 0 it becomes 255, and the line
   becomes the last to be evicted (`ehc_expect`).
2. The watchdog (`scheduler.cpp:156`) ends a thread's fake leave, drops `schedLock` and
   then leaves for it. A thread that joins in between is RUNNING, and join's assertion
   (`scheduler.h:313`) fails. The `scheduler` run excludes this case (`RaceWatchdog = FALSE`);
   the `scheduler_race` run is the case.
3. A crossing is freed twice (`timing_event.h:337`): its source half is a member of it, not an allocation,
   but ends in `done()`, which frees. The slab's count of live events falls by two for one allocation, and the slab may be
   recycled while events in it wait, against `slab_alloc.h:32` ("Slabs are
   garbage-collected once all their events are done."). The `weave` run abstracts from this: it never reuses memory.

Two more show when a run's instance is changed. `Barrier::join` asserts `tid == runList[lastIdx]`
(`barrier.h:137`), but a thread appended to the list has no `lastIdx` until it is first woken: with
`KillNewcomers = TRUE` a thread that the watchdog removes before that leaves its tid with an index from an earlier
stay, and `AssertsHold` or `ImplementsPhaseBarrier` fails. And `futex_haswaiters` is commented
with "No false positives" (`locks.h:218`), but a thread that blocked takes the lock with the word at 2 (`locks.h:169`)
whether or not somebody else waits, and a timed locker leaves 2 behind.

`Scheduler`'s constants name three more cases in which `AssertsHold` fails, which the
`scheduler` run leaves out: two processes that call from the same address (`Pc`; the watchdog's
loop compares the process of the thread it has dealt with, and leaves for the next one with the
wrong gid, `scheduler.cpp:164`); a sleeping or timed call right after another call
(`BackToBack`; the thread is marked for sleep and does not leave, `zsim.cpp:906`); and,
excluded in the property itself, a process that starts to fast-forward when a
signal has just ended a thread's sleep (finish finds it SLEEPING, `scheduler.h:254`).

Also visible in the models, without contradicting any text of the repository: EHC's
rank ages the whole cache and scans the whole cache for the end of aging, so that
a miss without a line that expects nothing erases the recency of all sets;
and SHiP's first fill of a line trains signature 0, since its metadata
is zeroed (the second disjunct of `DeadLineTrains`).

In the weave: `visitChildren`'s assertion that all children were visited (`timing_event.h:248`) fails
when a miss with a dirty victim has its bank in the core's domain and its memory in another, because the second
response crossing becomes a fourth child of the event that is being visited (its block holds three). The instance has such an
access (core `c2` on bank `b1`); the model goes on as a release build does, which compiles assertions out
(`ProduceCrossings`), and `AssertsHold` leaves this assertion out. `finish()` has no caller and `terminate` no initial value. A response or writeback
event reads `startCycle` of the miss's first event after that was freed, for statistics only.
In the classic policies: LRU compares a 64-bit score in 32 bits (`repl_policies.h:125`), so that the order
is lost after some 2^32 accesses, or fewer with sharers; random replacement asserts a candidate
count that a zcache with an empty line does not meet, so it is explored on a set-associative array; NRU ignores validity, and
`replaced` of a young line leaves the count of young lines as it was.

## 5. What is proved

TLAPS proves these for every value of the constants.

**FutexLockProofs**, for any set of threads and any `SpinTries` > 0
(`SpinTriesAssumption`): `TypeCorrect`, `MutualExclusion`, `NoWakeupLost`, and `Refinement`
(`Spec => ImplementsMutex`). The inductive invariant is
`TypeOK /\ Exclusive /\ NoLostWakeup`: exclusion needs that the word is non-zero exactly
while there is an owner (the equivalence in `Exclusive`), for the plain store of 0
in unlock is harmless only because the storing thread is still the sole owner;
and `NoLostWakeup` needs exclusion, because a thread that decrements 1 to 0
must be the only one that could have owed a wakeup. The refinement
uses the invariant: a lock step of the implementation is `Mutex`'s Acquire only if
nobody holds.

**RRIPProofs**, for any geometry, any set hash, any signature hash and counter
bound (`ArrayAssumption`, `RRIPAssumption`): `TypeCorrect`, `UniqueTags`,
`OldestEvicted`, `MetadataFollows`, `OnlyDeadLinesTrain`. The inductive invariant adds to the
checked properties: `Pending` (the line being inserted is not in the array, and the
victim is one of its candidates), `AgedTogether` (during rank every candidate has been
aged by the same amount since the miss began, and none past 3), `NoFlag` (no insertion
flag is set between accesses) and `ColdMeta` (the metadata of a line never filled is
zero). `VictimWasOldest` follows from `AgedTogether`: a line at 3 after n equal
increments had the largest value at the start. `NoFlag` is what makes `update` take the hit branch on
a hit.

**WeavePhaseProofs**, for any number of simulation threads, phases and any phase length
(`PhaseAssumption`): `BoundAlone`, that is `PhaseSpec => []BoundPhaseAlone`. `BoundPhaseAlone` says nothing of the time while
`simulatePhase` is in progress, so the inductive invariant adds `WokenInOrder` (whose wake lock has been
opened in this phase), `DoneExact` (`threadsDone` is the number of threads that are back) and `LastAlone` (the thread that finds the
counter full, and then the caller, has all the others behind it). The step that matters is `CountsOnce`: a counter equal to
the number of threads means that all of them were counted, by the cardinality of finite sets. Every
step of `Weave` is a step of `PhaseNext` or leaves its variables alone, since `Weave` changes them only through the
actions of `WeavePhase`; `TimingEvent`'s recursion keeps `Weave` itself out of the prover's reach.

**EHCProofs**, for any geometry of cache and table, any index and tag functions and any counter width
(`ArrayAssumption`, `EHCAssumption`): `TableSound` (`HHTSound`), `AddressFollows` (`AddrTracksTag`) and `LeastExpectedEvicted`
(`VictimExpectsLeast`). The lemmas on `addHHTEntry` split on whether the table's set has a way that was never used: if it has
(`AddToFree`), the valid ways are a prefix and there is room for one more recency; if not (`AddToFull`), the recencies are a permutation
of the ways, by cardinality, so that exactly one entry is the oldest. The inductive invariant adds `Pending`, `TagsUnique` and
`BestAbove`: while `rank` loops, some candidate scores no more than the best score it remembers. Aging only lowers
scores, so `bestCand` is always replaced in the last pass, and the remembered score never outlives the line it was of.

**BarrierProofs**, for any finite set of threads, any limit and any cleanup period (`BarrierAssumption`):
`ListAndCountersExact` (`CountersExact`), `OnlyJoinFails` (no other assertion than join's on `lastIdx` can fail),
and, when no thread is killed before its first turn (`~KillNewcomers`), `NoAssertFails` (`AssertsHold`) and `Refinement`
(`ImplementsPhaseBarrier`). The hypothesis is the one under which the
code's assertion is true (section 4). The inductive invariant says that the run list holds every thread that is not OFFLINE
once (`ListExact`), that the counters count (`CountsExact`), that a RUNNING thread is behind `curThreadIdx` and that a
`lastIdx` that will be trusted points at its thread (`IndicesKnown`). What `checkRunList`, the cleanup and the shuffle do to
a list is shown once, as a lemma about any barrier object with these properties, and used by all the operations.

**MESIProofs** and **MESICoherence**, for any tree of banked caches, any number of cores, lines and addresses and any hash. The assumptions
are those of `MESI.tla`, and `init.cpp` makes each of them true:

- `TreeAssumption` and `ParentsAssumption` are the shape of the constants; a terminal cache is nobody's parent;
- `NoLoops`: there are finitely many caches and the parents form no cycle, or `init.cpp:641` panics;
- `SameBanks`: caches that share a bank have the same vector of banks, because all children of a cache get the vector of its banks
  (`init.cpp:743` to `init.cpp:756`);
- `OneLastLevel`: any two banks below the memory have a child in common, or are the same one. There is one group without a parent and it has
  `caches = 1`, or `init.cpp:624` or `init.cpp:649` panics; its banks, of which there may be any number, get the same children
  (`init.cpp:776`); a cache without children has one bank, or `init.cpp:788` panics.

`MESICoherence` states
every invariant of the run `mesi` as a theorem: `NoAssertFailsEver` (`NoAssertFails`), `WritersAlone` (`SingleWriter`),
`CachesInclusive` (`Inclusion`), `DirectoriesExact` (`DirectoryExact`), `DirtyNeverLost` (`DirtyKept`), `FiltersBacked`
(`FilterBacked`) and `LocksNeverCycle` (`NoDeadlock`). All of them rest on `CoherentAlways`,
`Spec => [](Inner /\ Coherent)`.

`Inner` describes each core's stack of calls (`Sane`: accesses go up the tree, invalidations down it, each frame called by the next one)
and explains every held lock by a call on its holder's stack (`Locks`). It gives the argument for `NoDeadlock`, which is an order:
top locks by the height of their cache, then bottom locks against the height, then filter locks. Every lock a waiting core
holds is below the one it wants, so a cycle of waiting cores would have a largest lock, and its holder waits for one above. `Inner` also says
what an access in progress has established for its L1 line so far (`FilterOK`): a filter entry is written while
the filter lock is held and after the L1 has the line, and an invalidation clears it before the line goes.

The properties of coherence are relations between a line, its directory entry and the lines above and below it, and each of them is
broken while a core is at work; none is inductive alone. `Coherent` says what holds between any two steps:

- `Included`: a valid line is valid in the bank above that its address belongs to (`Home`), and either it is listed there or it is *in flight*: an invalidation is
  carrying its loss down (`Leaving`), or its access has taken it off the list for an upgrade that is not finished (`Upgrading`);
- `Listed`: who is listed has the line; `Siblings`: a line that one child may write is in no other child; `UniqueTags`;
- `Directory`: an entry is exact, or a core is at work on it (`Busy`: an eviction, a grant or an invalidation of that line);
- `Calls`: what every frame of every stack may rely on when it goes on. `ChildOK` is the race of a request with an
  invalidation that overtook it: until the bottom lock is taken the child's line may have fallen below the state the access
  remembers, and afterwards it is one of those that the asserts of the controllers expect. `LineOK` is
  about the call's own line, `WorkOK` about the entry it empties or downgrades, `InvOK` and `Chain` about the lines an
  invalidation is on its way through, `KeepOK` about the dirty data it has in hand;
- `LocksHeld`: the locks that a call needs are held for as long as it needs them.

A step of one core must not break what another relies on. Three things give a core a say in the state of a line of cache `x`: an
access of `x` that is past `x`'s top lock, the bottom lock of `x`, and that of the bank above it that the line's address belongs to. No two cores have the same one
(`Apart`), and a step changes the state only with two of the three (`Footprint`), so that whoever holds two is safe; who holds one
knows only that the state was lowered. This is the reason why the hand-over-hand locking of `startAccess` works. Two banks may be at work on `x` at once, but never on one line:
a bank holds only addresses that `x` sends to it (`Routes`), so the third of the three belongs to a line's address and not to `x`. That the caches
which have a line are siblings or above one another is likewise a matter of one address: the banks it is sent to lead from every cache to one
bank of the last level (`OneTop`). It is proved once for
any two stacks (`Others`); each action then has to show its own footprint, its own frames, and `Lines`.
`DirtyInv` adds that the data of an address that was stored to is modified in some cache, or in the hand of the one core that is evicting or
downgrading it, and that this core's chain of invalidations is the only one that could drop it.

**ReplPoliciesProofs**, for any number of sets and ways above one, any hash functions, any number of candidates
not below the ways, and any set of policies (`ZArrayAssumption`, `PolicyAssumption`): `NoLineLost` (`LinesReachable`) and
`VictimsLeastUsed` (`VictimLeastUsed`).

`NoLineLost` is about the zcache's walk. `ArrayOK` says that an address is in one line, that the line sits in a
position of that address, and that `lookupArray` is a permutation; between `preinsert` and `postinsert` the path in `swapArray` is
`Planned`: it starts in the victim's position, ends in a position of the new address, and
from each position to the one before it the line found there may move. `Swapped` then keeps `ArrayOK`, if no position is
on the path twice (`SwapsPermute`). That is the question the code's comment on loops raises: the walk may meet a line again, and
only the choice of the *first* candidate with the victim's line excludes it. The proof (`ParentFirst`) is that a candidate which meets its line
for the first time was reached from one that did so too: the walk expands candidates in order, so if the parent's line had been met earlier,
that earlier candidate would have been expanded before and the child's line met from there (`Closed` in the walk's invariant `Upto`).
Hence the positions on the path are distinct. The bound on the path's length follows from the parents: each comes at least as
many candidates earlier as there are ways, since the walk starts with that many.

`VictimsLeastUsed` adds `CCOK` (only filled lines are valid, only valid lines are shared) and `LruOK` (no stamp has reached
the clock, a filled line has one above 0, and a line used since another has the larger one). With these LRU's score orders the
candidates as `WorthLess` does, and is not cut as long as it is below `ScoreRange`. LFU compares the best candidate so far with each next
one; `LessThanOrders` shows that its order respects validity and sharing whatever the frequencies are, which suffices.

The lemmas on the set-associative array (`CandsAreLines` to `InsertUnique`) are in both `RRIPProofs` and `EHCProofs`.

Only model-checked:

- liveness, which is out of the prover's reach: `Progress`, `WaitersShow`, `MissEnds`, `EverybodyRuns`, `QueuedRuns`,
  `SleepersWake`, `PhaseEnds`;
- `Scheduler`: `schedTick` and the callback are folds over queues, and what a fold computes needs induction over data
  (`ReplPolicies` avoids it: its walk is a recursive function on the number of expansions, of which `WalkTree` proves an invariant by
  the least number at which it would fail);
- `Weave`, since `TimingEvent` has recursive operators.

## 6. What is not modelled

In the modelled components: latencies, statistics and timing records; the values of hash functions (parameters);
MESI's prefetch flags, non-inclusive mode, FWD and PUTX_KEEPEXCL; several memory controllers (`Mem` stands for all: they keep no state
that coherence depends on); more than one process in the
filter cache's address mask; more than one line in a filter cache; in the scheduler the
matching of futex wakes and waits, the timing of `waitUntilQueued`, the regular expression of
the blacklist (its default matches all), the termination condition, and kills of processes with several threads
or of a thread that waits inside the scheduler. The arithmetic of the EHC table is complete, at smaller widths.

In the weave: the reuse of slabs; records of writebacks alone and the extra accesses of a zcache walk (`ReplAccessEvent`);
the out-of-order core's recorder; the assertions that an event is less than ten phases ahead (the
instance never reaches them); the three reads of a crossing's retry are one step (`RetryCrossing` says why that is enough); a core's event publishes its slack and
enqueues its crossings in one step (`RunEvent`), and a finished event tells its children in the order in which they were added (`Done`), where
the code takes the newest block of children first when there are four or more.

The other components are listed in `PROJECT.json` with the reason. The decoder is a stateless table; statistics, traces,
configuration and the shared heap are input and output; DRAMSim2 and all programs under `tools/` are third-party, and
so is the vendored allocator under `zsim/src/g_heap`: together they are more than nine tenths of the repository's
lines (`zsim/src` has about 28,000 of 334,000). The partitioned policies need many lines and accesses before a
partition reaches its target; the read-write mutex, the process tree, the event queue and the ideal arrays add
no interleaving that the modelled locks and scheduler do not have. The benchmark runner stores a failed fork as pid -1: if it is not the
first, `waitpid(-1)` (`runpolicy/test.cpp:48`, with pid -1) waits for children that have stopped already, for ever, and if it is the first, its entry
is never seen to finish; the limit on the pool holds all the same. In the scheduler, the matching of futex wakes and waits only delays the return of a wake and its
wait is of bounded time.

## 7. Plan

1. Proofs: the scheduler's operations other than the folds.
2. Process masks in `MESI`, so that an invalidation by a core of another process (`filter_cache.h:155`) can be
   asked about; the stream prefetcher between two of its levels.
3. The DDR controller's queues behind `TimingCache`.
