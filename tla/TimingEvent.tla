----------------------------- MODULE TimingEvent ----------------------------
(***************************************************************************)
(* Timing events (timing_event.h, timing_event.cpp) and the queues that    *)
(* ContentionSim keeps them in (contention_sim.cpp).                       *)
(*                                                                         *)
(* The bound phase builds a graph of events; an event starts when all its  *)
(* parents are done, and each event belongs to a domain, simulated by one  *)
(* thread.  Where an edge leaves its domain a pair of events is put in     *)
(* between: a CrossingSrcEvent in the parent's domain, which only notes    *)
(* the cycle at which the parent was done, and a CrossingEvent in the      *)
(* child's, which is queued at once and waits there for that cycle.        *)
(*                                                                         *)
(* The operators map the state w of the simulator to its next state; a     *)
(* call that sets off others (done, parentDone) is their composition.      *)
(***************************************************************************)
EXTENDS WeavePhase, PrioQueue

CONSTANTS
    Core,
    NumDomains

ASSUME DomainAssumption == NumDomains \in Nat \ {0}

VARIABLE w
(* w.ev       the events not yet freed, each known by its core and number  *)
(* w.next     w.next[c]: the events allocated by core c so far             *)
(* w.pq       w.pq[d]: the queue of domain d, and w.cur[d], w.prio[d] and  *)
(*            w.queuePrio[d]: curCycle, prio and queuePrio of DomainData   *)
(* w.last     lastCrossing, by core, source and destination domain         *)
(* w.stack    the crossing stack of the recording core's EventRecorder     *)
(* w.live     w.live[c]: liveElems of c's slab, all its events being in one *)
(* w.rec      the core recorders (CoreRecorder)                            *)
(* w.bank     the timing caches' ports and MSHRs (TimingCache)             *)
(* w.failed   the first assert or panic that fired, "" if none             *)

Domain == 0..(NumDomains - 1)
NoDomain == -1
NoEvent == << >>

Max2(a, b) == IF a >= b THEN a ELSE b

(* assert(cond): the first one that does not hold is remembered. *)
Check(s, cond, what) ==
    IF cond \/ s.failed # "" THEN s ELSE [s EXCEPT !.failed = what]

(* TimingEvent(preDelay, postDelay, domain), for core c at unit u; the     *)
(* last six fields are those of CrossingEvent.                             *)
Event(kind, c, u, min, pre, post, dom) ==
    [kind |-> kind, core |-> c, unit |-> u, state |-> "none", cycle |-> 0, priv |-> 0,
     min |-> min, pre |-> pre, post |-> post, domain |-> dom,
     parents |-> 0, children |-> << >>, orig |-> 0,
     src |-> NoDomain, called |-> FALSE, done |-> 0, preSlack |-> 0, postSlack |-> 0,
     parent |-> NoEvent]

(* The k-th event that core c will allocate; the last one it allocated. *)
Coming(s, c, k) == <<c, s.next[c] + k>>
Newest(s, c) == <<c, s.next[c]>>

(* A new event, and operator new (evRec), which takes its memory from the  *)
(* core's slab.                                                            *)
Create(s, e) == [s EXCEPT !.ev = (Coming(s, e.core, 1) :> e) @@ @, !.next[e.core] = @ + 1]
New(s, e) == [Create(s, e) EXCEPT !.live[e.core] = @ + 1]

-----------------------------------------------------------------------------
(* The TimingEventBlocks that hold n children. *)
Blocks(n) == IF n < 2 THEN 0 ELSE (n + 2) \div 3

RECURSIVE PropagateDomain(_, _, _)

(* propagateDomain: events without a domain take that of their parent. *)
PropagateDomain(s, e, d) ==
    LET t == [s EXCEPT !.ev[e].domain = d]
        pass(u, c) == PropagateDomain(u, c, d)
    IN  IF s.ev[e].domain # NoDomain \/ d = NoDomain THEN s
        ELSE FoldLeft(pass, t, s.ev[e].children)

(* addChild: legal until the parent runs. *)
AddChild(s, p, c) ==
    LET ok == p \in DOMAIN s.ev /\ s.ev[p].state \in {"none", "queued"}
              /\ s.ev[c].state = "none"
        n  == Len(s.ev[p].children)
        t  == Check(s, ok, "addChild: state")
    IN  IF ~ok THEN t
        ELSE PropagateDomain([t EXCEPT !.ev[p].children = Append(@, c),
                                       !.ev[c].parents = @ + 1,
                                       !.live[s.ev[p].core] = @ + Blocks(n + 1) - Blocks(n)],
                             c, s.ev[p].domain)

(* freeEvent: the event and its blocks leave the slab. *)
FreeEvent(s, e) ==
    [s EXCEPT !.ev = [f \in DOMAIN @ \ {e} |-> @[f]],
              !.live[s.ev[e].core] = @ - 1 - Blocks(Len(s.ev[e].children))]

(* ContentionSim::enqueue, in the weave phase. *)
Enqueue(s, e, cycle) ==
    LET d == s.ev[e].domain
        t == Check(Check(s, inCSim /\ cycle >= lastLimit, "enqueue: phase"),
                   cycle >= s.cur[d] /\ PQAccepts(s.pq[d], cycle), "enqueue: back in time")
        u == Check(t, s.ev[e].parents = 0, "enqueue: parents")
    IN  [u EXCEPT !.pq[d] = PQEnqueue(@, e, cycle), !.ev[e].priv = cycle]

(* ContentionSim::enqueueSynced, in the bound phase, under the pqLock. *)
EnqueueSynced(s, e, cycle) ==
    LET d == s.ev[e].domain
        t == Check(s, ~inCSim /\ cycle >= lastLimit /\ s.ev[e].parents = 0
                      /\ PQAccepts(s.pq[d], cycle), "enqueueSynced")
    IN  [t EXCEPT !.pq[d] = PQEnqueue(@, e, cycle), !.ev[e].priv = cycle]

(* queue: the first event of a core that joins. *)
Queue(s, e, cycle) ==
    EnqueueSynced([Check(s, s.ev[e].state = "none", "queue: state")
                      EXCEPT !.ev[e].state = "queued"], e, cycle)

(* requeue: run again at that cycle. *)
Requeue(s, e, cycle) ==
    Enqueue([Check(s, s.ev[e].parents = 0 /\ s.ev[e].state \in {"running", "held"},
                   "requeue: state")
                EXCEPT !.ev[e].state = "queued"], e, cycle)

(* hold: an external object takes control of the event. *)
Hold(s, e) ==
    [Check(s, s.ev[e].state = "running", "hold: state") EXCEPT !.ev[e].state = "held"]

-----------------------------------------------------------------------------
(* CrossingSrcEvent::parentDone and CrossingEvent::markSrcEventDone; the   *)
(* source event is then done, and freed.                                   *)
MarkSrcEventDone(s, e, cycle) ==
    LET x == s.ev[e].parent
        t == Check(s, s.ev[e].parents = 1 /\ ~s.ev[x].called
                      /\ cycle >= s.cur[s.ev[x].src], "markSrcEventDone")
    IN  FreeEvent([t EXCEPT !.ev[x].done = cycle, !.ev[x].called = TRUE], e)

(* TimingEvent::parentDone: the last parent queues the event. *)
Ready(s, e, start) ==
    LET t == Check(s, s.ev[e].parents > 0, "parentDone: parents")
        u == [t EXCEPT !.ev[e].cycle = Max2(@, start), !.ev[e].parents = @ - 1]
    IN  IF u.ev[e].parents > 0 THEN u
        ELSE Enqueue([Check(u, u.ev[e].state = "none", "parentDone: state")
                         EXCEPT !.ev[e].state = "queued"],
                     e, u.ev[e].cycle + u.ev[e].pre)

(* CrossingEvent::parentDone: a chained crossing waits for the one before  *)
(* it, whatever its own source says.                                       *)
CrossingReady(s, e, start) ==
    LET cycle == Max2(start, s.ev[e].min)
        late  == s.ev[e].called /\ s.ev[e].done < cycle
    IN  Ready([s EXCEPT !.ev[e].done = IF late THEN cycle ELSE @], e, cycle)

RECURSIVE Done(_, _, _)

(* parentDone of each class; a DelayEvent with no parent left is done. *)
ParentDone(s, e, start) ==
    CASE s.ev[e].kind = "crossing"    -> CrossingReady(s, e, start)
      [] s.ev[e].kind = "crossingSrc" -> MarkSrcEventDone(s, e, start)
      [] s.ev[e].kind = "delay" ->
           LET t == [s EXCEPT !.ev[e].cycle = Max2(@, start), !.ev[e].parents = @ - 1]
           IN  IF t.ev[e].parents > 0 THEN t
               ELSE Done([t EXCEPT !.ev[e].state = "running"], e, t.ev[e].cycle + t.ev[e].pre)
      [] OTHER -> Ready(s, e, start)

(* done: every child hears of it, then the event is reclaimed. *)
Done(s, e, cycle) ==
    LET t == [Check(s, s.ev[e].state = "running", "done: state") EXCEPT !.ev[e].state = "done"]
        tell(u, c) == ParentDone(u, c, cycle + s.ev[e].post)
        u == FoldLeft(tell, t, s.ev[e].children)
    IN  FreeEvent(u, e)

-----------------------------------------------------------------------------
(* Mutant: a crossing is chained to its predecessor even if that one may   *)
(* already have run.                                                       *)
EnqueueCrossingStale(s, x, cycle) ==
    LET e == s.ev[x]
        l == s.last[e.core][e.src][e.domain]
        t == IF l.ev # NoEvent /\ l.cycle <= cycle
             THEN AddChild(s, l.ev, x) ELSE EnqueueSynced(s, x, cycle)
    IN  [t EXCEPT !.last[e.core][e.src][e.domain] = [cycle |-> cycle, ev |-> x],
                  !.stack = Append(@, x)]

(* enqueueCrossing: a crossing that answers the one on top of the stack is *)
(* a child of that one's parent.  Any other is chained to the previous     *)
(* crossing of its core between the two domains, if that one cannot have   *)
(* been simulated yet, or else queued.                                     *)
EnqueueCrossing(s, x, cycle) ==
    LET e == s.ev[x]
        top == IF s.stack = << >> THEN NoEvent ELSE s.stack[Len(s.stack)]
        isResp == top # NoEvent /\ s.ev[top].src = e.domain /\ s.ev[top].domain = e.src
        l == s.last[e.core][e.src][e.domain]
        t == IF l.cycle > s.cur[e.src] /\ l.cycle <= cycle
             THEN AddChild(s, l.ev, x)
             ELSE EnqueueSynced(Check(s, cycle >= s.cur[e.src], "enqueueCrossing"), x, cycle)
    IN  IF isResp
        THEN AddChild([s EXCEPT !.stack = SubSeq(@, 1, Len(@) - 1)], s.ev[top].parent, x)
        ELSE [t EXCEPT !.last[e.core][e.src][e.domain] = [cycle |-> cycle, ev |-> x],
                       !.stack = Append(@, x)]

(* Mutant: a crossing without latency to steal gets no slack. *)
NewCrossingNoSlack(s, p, c) ==
    LET parent == s.ev[p]
        child  == s.ev[c]
        e == [Event("crossing", parent.core, 0, parent.min + parent.post, 0, 0, child.domain)
                EXCEPT !.src = parent.domain, !.preSlack = parent.post, !.postSlack = child.pre,
                       !.parent = p,
                       !.orig = parent.min + parent.post - s.rec[parent.core].gap]
        t == New([s EXCEPT !.ev[c].parents = @ - 1], e)
        x == Newest(t, parent.core)
        src == [Event("crossingSrc", parent.core, 0, 0, 0, 0, parent.domain)
                  EXCEPT !.parents = 1, !.parent = x]
        u == AddChild(Create(t, src), x, c)
    IN  EnqueueCrossing(u, x, Max2(lastLimit, e.min))

(* handleCrossing and the constructor of CrossingEvent, for the child c of *)
(* p: c is left with the crossing as its parent, and the crossing's source *)
(* event, the newest event, takes c's place.  A crossing has at least one  *)
(* cycle of slack, or two domains could wait for each other forever.       *)
NewCrossing(s, p, c) ==
    LET parent == s.ev[p]
        child  == s.ev[c]
        extra  == IF parent.post = 0 THEN 1 ELSE 0
        start  == parent.min + parent.post + extra
        e == [Event("crossing", parent.core, 0, start, 0, 0, child.domain)
                EXCEPT !.src = parent.domain, !.preSlack = parent.post + extra,
                       !.postSlack = child.pre, !.parent = p,
                       !.orig = start - s.rec[parent.core].gap]
        t == New([Check(s, child.parents > 0, "handleCrossing") EXCEPT !.ev[c].parents = @ - 1], e)
        x == Newest(t, parent.core)
        src == [Event("crossingSrc", parent.core, 0, 0, 0, 0, parent.domain)
                  EXCEPT !.parents = 1, !.parent = x]
        u == AddChild(Create(t, src), x, c)
    IN  EnqueueCrossing(u, x, Max2(lastLimit, e.min))

RECURSIVE ProduceCrossings(_, _)

(* produceCrossings: below e, every edge out of its domain gets one.  A    *)
(* response crossing becomes a further child of e while e's children are   *)
(* visited; to visit it too changes nothing, as all below it has been.     *)
(* With a fourth child visitChildren's count is off, and a build with      *)
(* assertions stops (timing_event.h:248); one without goes on like this.   *)
ProduceCrossings(s, e) ==
    LET visit(t, i) ==
            LET c == t.ev[e].children[i]
                x == NewCrossing(t, e, c)
                u == IF t.ev[c].domain = t.ev[e].domain THEN t
                     ELSE [x EXCEPT !.ev[e].children[i] = Newest(x, t.ev[e].core)]
            IN  ProduceCrossings(u, c)
    IN  FoldLeft(visit, s, [i \in DOMAIN s.ev[e].children |-> i])

-----------------------------------------------------------------------------
(* CrossingEvent::simulate, once the source domain's cycle srcCycle has    *)
(* been read: the crossing is tried again no earlier than its source can   *)
(* be done, or completed if that has happened meanwhile.                   *)
CrossingDone(s, x, cycle) ==
    Done([s EXCEPT !.prio[s.ev[x].domain] = 0], x, Max2(cycle, s.ev[x].done))

CrossingRetry(s, x, cycle, srcCycle) ==
    LET e == s.ev[x]
        curSrcCycle == srcCycle + e.preSlack + e.postSlack
        coreRelCycle == e.orig + s.rec[e.core].startSlack + e.postSlack
        next == Max2(coreRelCycle, Max2(curSrcCycle, cycle))
    IN  Requeue([s EXCEPT !.prio[e.domain] = IF next = cycle THEN 1 ELSE 2,
                          !.ev[x].parents = 0], x, next)
=============================================================================
