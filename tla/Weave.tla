-------------------------------- MODULE Weave -------------------------------
(***************************************************************************)
(* The bound and weave phases composed: cores record their accesses while  *)
(* a bound phase runs (CoreRecorder, TimingCache), simulatePhase hands     *)
(* over to the simulation threads (WeavePhase), and these run the events   *)
(* of their domains (TimingEvent, PrioQueue), simulatePhaseThread of       *)
(* contention_sim.cpp.                                                     *)
(*                                                                         *)
(* A domain's queue, its banks and its cores belong to one thread.  What   *)
(* threads share is curCycle of a domain, called and doneCycle of a        *)
(* crossing, and the start slack of a core: a step of a thread touches     *)
(* these as one access of the code does, in the code's order.              *)
(***************************************************************************)
EXTENDS CoreRecorder

CONSTANTS
    L1Lat,          \* accLat of the first-level caches
    BblSizes,       \* instructions of a basic block
    Accesses,       \* the accesses that are considered
    MaxOps          \* bound: MaxOps[c] joins, leaves and accesses of core c

ASSUME WeaveAssumption ==
    /\ L1Lat \in Nat \ {0} /\ BblSizes \subseteq Nat \ {0} /\ MaxOps \in [Core -> Nat]
    /\ Accesses \subseteq [core : Core, bank : Bank, victim : SUBSET Bank,
                          kind : {"hit", "miss", "missWriteback"}]
    /\ \A n \in ThreadCounts : NumDomains % n = 0

VARIABLES
    th,         \* th[t]: the locals of simulatePhaseThread in thread t
    waiting,    \* the cores whose thread is in the barrier
    ops         \* ops[c]: operations core c has left

vars == <<phaseVars, w, th, waiting, ops>>

Asleep == [step |-> "loop", dom |-> NoDomain, ev |-> NoEvent, cycle |-> 0, domPq |-> {},
           stalledQueue |-> << >>, nextStalled |-> << >>, finished |-> 0, stalled |-> FALSE]

Init ==
    /\ PhaseInit
    /\ w = [ev |-> << >>, next |-> [c \in Core |-> 0],
            pq |-> [d \in Domain |-> PQEmpty],
            cur |-> [d \in Domain |-> 0], prio |-> [d \in Domain |-> 0],
            queuePrio |-> [d \in Domain |-> 0],
            last |-> [c \in Core |-> [s \in Domain |-> [d \in Domain |->
                        [cycle |-> 0, ev |-> NoEvent]]]],
            stack |-> << >>, live |-> [c \in Core |-> 0],
            rec |-> [c \in Core |-> HaltedCore], bank |-> [b \in Bank |-> IdleBank],
            failed |-> ""]
    /\ th = [t \in SimThread |-> Asleep]
    /\ waiting = {} /\ ops = MaxOps

-----------------------------------------------------------------------------
(* The bound phase.  What a core does, until its clock passes the end of   *)
(* the phase and its thread waits in the barrier (TakeBarrier).            *)

InBound == driver = "bound" /\ lastLimit < MaxPhases * PhaseLength

Spend(c) == ops[c] > 0 /\ ops' = [ops EXCEPT ![c] = @ - 1]

Running == {c \in Core : w.rec[c].state = "running"}

Join(c) ==
    /\ InBound /\ c \notin Running
    /\ Spend(c)
    /\ w' = NotifyJoin(w, c)
    /\ UNCHANGED <<phaseVars, th, waiting>>

Leave(c) ==
    /\ InBound /\ c \in Running
    /\ Spend(c)
    /\ w' = NotifyLeave(w, c)
    /\ waiting' = waiting \ {c}
    /\ UNCHANGED <<phaseVars, th>>

(* A load or a store that misses in the first level, on a bank; if its     *)
(* victim there is dirty, the writeback goes to the victim's bank first.   *)
Access(a) ==
    LET c == a.core
        cycle == w.rec[c].cur
        sent  == cycle + L1Lat
        tr(wb, acc) == Stitch(acc[1], c, cycle, wb[2], acc[2])
        stitched(wb) == tr(wb, BankRecord(wb[1], c, a.bank, a.kind, sent))
        record == IF a.victim = {} THEN BankRecord(w, c, a.bank, a.kind, sent)
                  ELSE stitched(HitRecord(w, c, CHOOSE v \in a.victim : TRUE, sent))
    IN  /\ InBound /\ c \in Running \ waiting
        /\ Spend(c)
        /\ w' = RecordAccess(record[1], c, record[2])
        /\ UNCHANGED <<phaseVars, th, waiting>>

(* A basic block of n instructions that hits in the instruction cache; the *)
(* barrier is taken only here.                                             *)
Bbl(c, n) ==
    /\ InBound /\ c \in Running \ waiting
    /\ w' = [w EXCEPT !.rec[c].cur = @ + n]
    /\ waiting' = IF w.rec[c].cur + n > PhaseEnd THEN waiting \union {c} ELSE waiting
    /\ UNCHANGED <<phaseVars, th, ops>>

(* The barrier is complete: simulatePhase. *)
EndBound ==
    /\ Running \subseteq waiting
    /\ SimulatePhase
    /\ w' = LET start(c, s) == CSimStart(s, c) IN FoldSet(start, w, Core)
    /\ UNCHANGED <<th, waiting, ops>>

(* simulatePhase returns; a core that is still ahead waits again. *)
EndWeave ==
    /\ PhaseOver
    /\ w' = LET end(c, s) == CSimEnd(s, c) IN FoldSet(end, w, Core)
    /\ waiting' = {c \in waiting : w'.rec[c].cur > limit + PhaseLength}
    /\ UNCHANGED <<th, ops>>

-----------------------------------------------------------------------------
(* The weave phase: simulatePhaseThread. *)

DomainsOf(t) ==
    ((t * NumDomains) \div numSimThreads) .. (((t + 1) * NumDomains) \div numSimThreads - 1)
Single(t) == Cardinality(DomainsOf(t)) = 1

Wake(t) ==
    /\ StartPhase(t)
    /\ th' = [th EXCEPT ![t] = [Asleep EXCEPT
                !.dom = IF Single(t) THEN Min(DomainsOf(t)) ELSE NoDomain,
                !.domPq = IF Single(t) THEN {} ELSE DomainsOf(t)]]
    /\ UNCHANGED <<w, waiting, ops>>

(* The state in which domain d has taken its first event, with the event   *)
(* and its cycle; curCycle follows.                                        *)
Dequeued(d) ==
    LET r == PQDequeue(w.pq[d])
    IN  [s |-> [w EXCEPT !.pq[d] = r.q, !.cur[d] = r.cycle], ev |-> r.obj, cycle |-> r.cycle]

(* pq.size()? pq.firstCycle() : limit. *)
NextCycle(d) == IF PQSize(w.pq[d]) > 0 THEN PQFirstCycle(w.pq[d]) ELSE limit

(* A thread with one domain takes events before the limit. *)
TakeEvent(t) ==
    LET d == th[t].dom
        r == Dequeued(d)
    IN  /\ tpc[t] = "simulate" /\ th[t].step = "loop" /\ Single(t)
        /\ NextCycle(d) < limit
        /\ w' = Check(r.s, r.cycle >= w.cur[d], "dequeue: back in time")
        /\ th' = [th EXCEPT ![t].step = "run", ![t].ev = r.ev, ![t].cycle = r.cycle]
        /\ UNCHANGED <<phaseVars, waiting, ops>>

DomainDone(t) ==
    LET d == th[t].dom
    IN  /\ EndSimulation(t)
        /\ th[t].step = "loop" /\ Single(t)
        /\ NextCycle(d) >= limit
        /\ w' = [w EXCEPT !.cur[d] = limit]
        /\ UNCHANGED <<th, waiting, ops>>

(* std::swap of the stalled queues, when the loops leave the first empty. *)
SwapStalled(l) ==
    IF l.stalledQueue = << >>
    THEN [l EXCEPT !.stalledQueue = l.nextStalled, !.nextStalled = << >>] ELSE l

(* A thread with several domains serves the one that is behind, unless it  *)
(* waits for a crossing; only when all do it tries those.  An event of a   *)
(* finished domain comes after the limit.                                  *)
ServeDomain(t, d, l) ==
    /\ tpc[t] = "simulate" /\ th[t].step = "loop" /\ ~Single(t)
    /\ IF PQSize(w.pq[d]) = 0 \/ PQFirstCycle(w.pq[d]) > limit
       THEN /\ w' = [w EXCEPT !.cur[d] = limit]
            /\ th' = [th EXCEPT ![t] =
                        LET m == [l EXCEPT !.finished = @ + 1]
                        IN  IF l.stalled \/ l.domPq = {} THEN SwapStalled(m) ELSE m]
       ELSE LET r == Dequeued(d)
            IN  /\ w' = r.s
                /\ th' = [th EXCEPT ![t] = [l EXCEPT !.step = "run", !.dom = d,
                                                     !.ev = r.ev, !.cycle = r.cycle]]
    /\ UNCHANGED <<phaseVars, waiting, ops>>

PickDomain(t) ==
    \E d \in th[t].domPq :
        /\ \A o \in th[t].domPq : w.queuePrio[d] <= w.queuePrio[o]
        /\ ServeDomain(t, d, [th[t] EXCEPT !.domPq = @ \ {d}, !.stalled = FALSE])

PickStalled(t) ==
    LET q == th[t].stalledQueue
    IN  /\ th[t].domPq = {} /\ q # << >>
        /\ ServeDomain(t, Last(q), [th[t] EXCEPT !.stalledQueue = Front(q), !.stalled = TRUE])

DomainsDone(t) ==
    /\ th[t].step = "loop" /\ ~Single(t)
    /\ th[t].finished = Cardinality(DomainsOf(t))
    /\ EndSimulation(t)
    /\ UNCHANGED <<w, th, waiting, ops>>

(* TimingEvent::run up to simulate; a stalled domain's event is simulated  *)
(* without its checks.                                                     *)
Started(t) ==
    LET e == th[t].ev
        s == Check(Check(w, w.ev[e].state \in {"none", "queued"}, "run: state"),
                   th[t].cycle >= w.ev[e].min, "run: before minStartCycle")
    IN  [IF th[t].stalled THEN w ELSE s EXCEPT !.ev[e].state = "running"]

(* simulate of every class but CrossingEvent. *)
Simulate(s, e, cycle) ==
    CASE s.ev[e].kind = "core"          -> SimulateCore(s, e, cycle)
      [] s.ev[e].kind = "hit"           -> SimulateHit(s, e, cycle)
      [] s.ev[e].kind = "missStart"     -> SimulateMissStart(s, e, cycle)
      [] s.ev[e].kind = "missResponse"  -> Done(s, e, cycle)
      [] s.ev[e].kind = "missWriteback" -> SimulateMissWriteback(s, e, cycle)
      [] s.ev[e].kind = "mem"           -> Done(s, e, cycle + MemLat - ZeroLoadLat)
      [] OTHER                          -> Check(s, FALSE, "simulate of a delay or source event")

RunEvent(t) ==
    LET e == th[t].ev
        s == Started(t)
    IN  /\ tpc[t] = "simulate" /\ th[t].step = "run"
        /\ CASE w.ev[e].kind # "crossing" ->
                  w' = Simulate(s, e, th[t].cycle) /\ th' = [th EXCEPT ![t].step = "after"]
             [] w.ev[e].kind = "crossing" /\ w.ev[e].called ->
                  w' = CrossingDone(s, e, th[t].cycle) /\ th' = [th EXCEPT ![t].step = "after"]
             [] OTHER -> w' = s /\ th' = [th EXCEPT ![t].step = "recheck"]
        /\ UNCHANGED <<phaseVars, waiting, ops>>

(* Mutant: called is not tested again after the source's cycle was read. *)
RetryCrossingUnchecked(t) ==
    LET e == th[t].ev
    IN  /\ tpc[t] = "simulate" /\ th[t].step = "recheck"
        /\ w' = CrossingRetry(w, e, th[t].cycle, w.cur[w.ev[e].src])
        /\ th' = [th EXCEPT ![t].step = "after"]
        /\ UNCHANGED <<phaseVars, waiting, ops>>

(* The rest of CrossingEvent::simulate: the source's cycle, the slack and  *)
(* then called are read.  called never falls, and the other two are used   *)
(* only if it is still false: the three reads are one step, at the time of *)
(* the first if called is false and of the last if it is true.             *)
RetryCrossing(t) ==
    LET e == th[t].ev
    IN  /\ tpc[t] = "simulate" /\ th[t].step = "recheck"
        /\ w' = IF w.ev[e].called THEN CrossingDone(w, e, th[t].cycle)
                ELSE CrossingRetry(w, e, th[t].cycle, w.cur[w.ev[e].src])
        /\ th' = [th EXCEPT ![t].step = "after"]
        /\ UNCHANGED <<phaseVars, waiting, ops>>

(* After an event a thread with one domain moves curCycle on to the next   *)
(* one in the queue, or to the limit.  If that is before the limit it also *)
(* takes the event, which concerns only its own queue.                     *)
AfterEvent(t) ==
    LET d == th[t].dom
        next == NextCycle(d)
        s == Check(w, next >= w.cur[d], "queue goes back in time")
        r == Dequeued(d)
    IN  /\ tpc[t] = "simulate" /\ th[t].step = "after" /\ Single(t)
        /\ IF next < limit
           THEN /\ w' = [r.s EXCEPT !.failed = Check(s, r.cycle >= next, "dequeue").failed]
                /\ th' = [th EXCEPT ![t].step = "run", ![t].ev = r.ev, ![t].cycle = r.cycle]
           ELSE /\ w' = [s EXCEPT !.cur[d] = next]
                /\ th' = [th EXCEPT ![t].step = "loop", ![t].ev = NoEvent, ![t].cycle = 0]
        /\ UNCHANGED <<phaseVars, waiting, ops>>

(* With several domains, the domain goes back into its queue, or into that *)
(* of the stalled ones if its crossing has to wait.                        *)
RequeueDomain(t) ==
    LET d == th[t].dom
        next == NextCycle(d)
        l == [th[t] EXCEPT !.step = "loop", !.ev = NoEvent, !.cycle = 0]
        m == IF w.prio[d] = 0 THEN [l EXCEPT !.domPq = @ \union {d}]
             ELSE IF l.stalled THEN [l EXCEPT !.nextStalled = Append(@, d)]
             ELSE [l EXCEPT !.stalledQueue = Append(@, d)]
    IN  /\ tpc[t] = "simulate" /\ th[t].step = "after" /\ ~Single(t)
        /\ w' = [w EXCEPT !.cur[d] = next, !.queuePrio[d] = next]
        /\ th' = [th EXCEPT ![t] =
                    IF l.stalled \/ m.domPq = {} THEN SwapStalled(m) ELSE m]
        /\ UNCHANGED <<phaseVars, waiting, ops>>

Handshake ==
    /\ WakeThread \/ \E t \in SimThread : CountDone(t) \/ ResetDone(t) \/ UnblockCaller(t)
    /\ UNCHANGED <<w, th, waiting, ops>>

ThreadStep(t) ==
    \/ Wake(t) \/ TakeEvent(t) \/ DomainDone(t)
    \/ PickDomain(t) \/ PickStalled(t) \/ DomainsDone(t)
    \/ RunEvent(t) \/ RetryCrossing(t) \/ AfterEvent(t) \/ RequeueDomain(t)

Next ==
    \/ \E c \in Core :
          \/ Join(c) \/ Leave(c)
          \/ \E n \in BblSizes : Bbl(c, n)
    \/ \E a \in Accesses : Access(a)
    \/ EndBound \/ EndWeave \/ Handshake
    \/ \E t \in SimThread : ThreadStep(t)

(* The host runs every thread of the simulator: the one in simulatePhase   *)
(* and each simulation thread take another step as long as they can.  This *)
(* is WF_vars of Handshake, EndWeave and ThreadStep(t); the last two are   *)
(* written out, with the condition they are enabled in and what only they  *)
(* change, because TLC's ENABLED is too slow for the events' recursion.    *)
CanStep(t) == t \in SimThread /\ (tpc[t] = "simulate" \/ (tpc[t] = "asleep" /\ ~wakeLock[t]))
Steps(t) ==
    /\ t \in SimThread
    /\ th'[t] # th[t] \/ (tpc[t] \in {"asleep", "simulate"} /\ tpc'[t] # tpc[t])

Fairness ==
    /\ WF_vars(Handshake)
    /\ \/ []<>~(driver = "sleep" /\ ~waitLock)
       \/ []<><<driver' = "bound">>_vars
    /\ \A t \in 0..(Max(ThreadCounts) - 1) :
          []<>~CanStep(t) \/ []<><<Steps(t)>>_vars

Spec == Init /\ [][Next]_vars /\ Fairness

-----------------------------------------------------------------------------
(* No assertion or panic of the weave simulation fires: no event is queued *)
(* or taken in the past of its domain, none runs before the cycle the      *)
(* bound phase gave it or in a state that does not allow it, a core's last *)
(* event is reached only when the core has left, and the weave phase never *)
(* makes a core faster than the bound phase did.  Not among them is the    *)
(* count of visitChildren, which does fail (see ProduceCrossings).         *)
AssertsHold == w.failed = ""

Alive == DOMAIN w.ev

(* Every event can still happen, and at its time: it is in the queue of    *)
(* its domain at the cycle it was queued for, held by a bank whose MSHRs   *)
(* are all taken, run by a thread at that cycle, or counts as parents      *)
(* exactly the events that will still report to it; and it is in one of    *)
(* these places only.                                                      *)
EventsScheduled ==
    LET inQueue == UNION {{<<d, x[2], x[1]>> : x \in PQContent(w.pq[d])} : d \in Domain}
        held    == UNION {{<<b, e>> : e \in Range(w.bank[b].pending)} :
                            b \in {k \in Bank : w.bank[k].active = NumMSHRs[k]}}
        inHand  == {t \in SimThread : th[t].step \in {"run", "recheck"}}
        edges   == UNION {{<<p, i>> : i \in DOMAIN w.ev[p].children} : p \in Alive}
    IN  \A e \in Alive :
          /\ w.ev[e].parents = Cardinality({x \in edges : w.ev[x[1]].children[x[2]] = e})
          /\ (IF w.ev[e].parents = 0 THEN 1 ELSE 0) =
               Cardinality({x \in inQueue : x = <<w.ev[e].domain, e, w.ev[e].priv>>})
               + Cardinality({x \in held : x[2] = e})
               + Cardinality({t \in inHand : th[t].ev = e /\ th[t].cycle = w.ev[e].priv})

(* A crossing is not held up by the synchronisation of the domains: when   *)
(* it runs with its source done, its cycle is at most the slack of its     *)
(* child after the source was done, or after the crossing could start.     *)
(* The retries look ahead by the slack; with a cycle read too late they    *)
(* would skip past the source's completion.                                *)
CrossingOnTime ==
    \A t \in SimThread :
        LET e == w.ev[th[t].ev]
        IN  th[t].step \in {"run", "recheck"} /\ e.kind = "crossing" /\ e.called =>
              th[t].cycle <= Max({e.done, e.cycle, e.min}) + e.postSlack

(* The port of a bank serves one lookup per cycle: a low-priority access   *)
(* that is granted the previous cycle in hindsight never shares it.        *)
PortExclusive == \A b \in Bank : ~w.bank[b].clash

(* A weave phase that has begun ends: no domain waits forever for another  *)
(* one's crossing, no access for an MSHR, no thread for its wakeup.        *)
PhaseEnds == driver = "wake" ~> driver = "bound"

(* A slab is collected only once all its events are done (slab_alloc.h):   *)
(* its count of live elements reaches 0 with the last of them.             *)
SlabsOutliveEvents ==
    \A e \in Alive : w.ev[e].kind # "crossingSrc" => w.live[w.ev[e].core] > 0
=============================================================================
