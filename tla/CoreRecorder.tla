---------------------------- MODULE CoreRecorder ----------------------------
(***************************************************************************)
(* CoreRecorder (core_recorder.cpp) of a TimingCore (timing_core.cpp): it  *)
(* turns what a core does in the bound phase into a chain of events that   *)
(* never runs dry while the core is scheduled, and moves the core's clock  *)
(* by the delay the weave phase found.                                     *)
(***************************************************************************)
EXTENDS TimingCache

CONSTANT CoreDomain     \* CoreDomain[c]

ASSUME CoreAssumption == CoreDomain \in [Core -> Domain]

(* state, gapCycles, prevRespEvent, prevRespCycle and lastEventSimulated.. *)
(* of the recorder, lastStartSlack of its EventRecorder, and curCycle of   *)
(* the core.                                                               *)
HaltedCore == [state |-> "halted", gap |-> 0, prev |-> NoEvent, prevCycle |-> 0,
               lastStart |-> 0, lastOrig |-> 0, startSlack |-> 0, cur |-> 0]

PhaseEnd == lastLimit + PhaseLength

(* A TimingCoreEvent that starts where the last response was, linked to it. *)
AppendEvent(s, c, delay) ==
    LET r == s.rec[c]
        e == [Event("core", c, 0, r.prevCycle, 0, delay, NoDomain)
                EXCEPT !.orig = r.prevCycle - r.gap]
        t == AddChild(New(s, e), r.prev, Coming(s, c, 1))
    IN  [t EXCEPT !.rec[c].prev = Newest(t, c), !.rec[c].prevCycle = @ + delay]

(* notifyJoin, from join of the core. *)
NotifyJoin(s, c) ==
    LET r == s.rec[c]
        e == [Event("core", c, 0, lastLimit, 0, 0, CoreDomain[c]) EXCEPT !.orig = lastLimit]
        t == New(Check(s, r.prev = NoEvent, "notifyJoin: events"), e)
        u == Queue(t, Newest(t, c), lastLimit)
    IN  IF r.state = "halted"
        THEN [u EXCEPT !.rec[c] = [r EXCEPT !.state = "running", !.gap = 0, !.prev = Newest(t, c),
                                            !.prevCycle = lastLimit, !.startSlack = 0,
                                            !.cur = lastLimit]]
        ELSE [Check(s, r.cur >= lastLimit, "notifyJoin: cycle")
                 EXCEPT !.rec[c].state = "running"]

(* notifyLeave: an event up to now, and one that ends the chain. *)
NotifyLeave(s, c) ==
    LET r == s.rec[c]
        t == Check(s, r.prev # NoEvent /\ r.cur >= r.prevCycle, "notifyLeave")
    IN  [AppendEvent(AppendEvent(t, c, r.cur - r.prevCycle), c, 0)
            EXCEPT !.rec[c].state = "draining"]

(* recordAccess of a GET: the record that the caches left is hung on the   *)
(* chain, and crossings are made for all of it.  cur becomes the cycle of  *)
(* the response (loadAndRecord, storeAndRecord).                           *)
RecordAccess(s, c, tr) ==
    LET r == s.rec[c]
        t == Check(s, r.cur >= r.prevCycle /\ tr.req >= r.cur, "recordAccess")
        u == AppendEvent(t, c, tr.req - r.prevCycle)
        v == AddChild(u, Newest(u, c), tr.start)
        x == IF NumDomains > 1 THEN ProduceCrossings(v, r.prev) ELSE v
    IN  [x EXCEPT !.stack = << >>, !.rec[c].prev = tr.end, !.rec[c].prevCycle = tr.resp,
                  !.rec[c].cur = tr.resp]

(* cSimStart: a running core's chain is brought up to its clock and gets   *)
(* an event that starts in the next phase, so that it does not run dry.    *)
CSimStart(s, c) ==
    LET r == s.rec[c]
        t == Check(s, r.cur >= PhaseEnd, "cSimStart")
        u == IF r.prevCycle < r.cur THEN AppendEvent(t, c, r.cur - r.prevCycle) ELSE t
    IN  CASE r.state = "running" -> AppendEvent(u, c, 0)
          [] r.state = "draining" -> [s EXCEPT !.rec[c].cur = Max2(@, PhaseEnd)]
          [] OTHER -> s

(* cSimEnd: the core's clocks move by the delay of the last event that was *)
(* simulated; a core that left and has no event left is halted.            *)
CSimEnd(s, c) ==
    LET r == s.rec[c]
        before == r.lastOrig + r.gap
        skew == r.lastStart - before
        t == Check(Check(s, before <= r.cur /\ r.lastStart <= r.cur, "cSimEnd: event after clock"),
                   skew >= 0, "cSimEnd: negative skew")
        u == [t EXCEPT !.rec[c].cur = @ + skew, !.rec[c].gap = @ + skew,
                       !.rec[c].prevCycle = @ + skew]
    IN  IF r.state = "halted" THEN s
        ELSE IF r.prev # NoEvent THEN u
        ELSE [Check(u, r.state = "draining", "cSimEnd: no event") EXCEPT !.rec[c].state = "halted"]

(* TimingCoreEvent::simulate and reportEventSimulated. *)
SimulateCore(s, e, cycle) ==
    LET c == s.ev[e].core
        lastOne == s.rec[c].prev = e
        t == Check(s, lastOne => s.rec[c].state = "draining", "reportEventSimulated")
    IN  Done([t EXCEPT !.rec[c].lastStart = cycle, !.rec[c].lastOrig = s.ev[e].orig,
                       !.rec[c].startSlack = cycle - s.ev[e].orig,
                       !.rec[c].prev = IF lastOne THEN NoEvent ELSE @], e, cycle)
=============================================================================
