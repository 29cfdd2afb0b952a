----------------------------- MODULE TimingCache ----------------------------
(***************************************************************************)
(* The banks of a TimingCache (timing_cache.cpp) in front of a memory with *)
(* a weave model (WeaveSimpleMemory, weave_md1_mem.h): the events an       *)
(* access leaves behind in the bound phase, and what they do in the weave  *)
(* phase, where they compete for the bank's port and its MSHRs.            *)
(*                                                                         *)
(* Whether an access hits, and whether its victim has to be written back,  *)
(* is the input: tags and coherence are MESI's.  The accesses of a zcache  *)
(* walk (ReplAccessEvent) are left out: the banks are set-associative.     *)
(***************************************************************************)
EXTENDS TimingEvent

CONSTANTS
    Bank,
    BankDomain,     \* BankDomain[b]
    MemDomain,
    AccLat,         \* accLat of every bank
    NumMSHRs,       \* NumMSHRs[b]: mshrs of bank b
    ZeroLoadLat,    \* zeroLoadLatency of the memory
    MemLat          \* its latency

ASSUME BankAssumption ==
    /\ BankDomain \in [Bank -> Domain] /\ MemDomain \in Domain
    /\ AccLat \in Nat \ {0} /\ NumMSHRs \in [Bank -> Nat \ {0}]
    /\ ZeroLoadLat \in Nat \ {0} /\ MemLat \in Nat /\ MemLat >= ZeroLoadLat

(* lastAccCycle, lastFreeCycle, activeMisses and pendingQueue; used and    *)
(* clash are history: the cycles the port was granted for, and whether one *)
(* was granted twice.                                                      *)
IdleBank == [lastAcc |-> 0, lastFree |-> 0, active |-> 0, pending |-> << >>,
             used |-> {}, clash |-> FALSE]

-----------------------------------------------------------------------------
(* TimingCache::access at cycle, in the bound phase.  The three shapes it  *)
(* can leave in the event recorder, as <<state, record>>: a record is the  *)
(* request's and the response's cycle and the first and last event.        *)

Record(req, resp, start, end) == [req |-> req, resp |-> resp, start |-> start, end |-> end]

HitRecord(s, c, b, cycle) ==
    LET t == New(s, Event("hit", c, b, cycle, 0, AccLat, BankDomain[b]))
    IN  <<t, Record(cycle, cycle + AccLat, Newest(t, c), Newest(t, c))>>

(* WeaveSimpleMemory::access for a GET or a PUTX. *)
MemRecord(s, c, cycle) ==
    LET pre == ZeroLoadLat \div 2
        t == New(s, Event("mem", c, 0, cycle, pre, ZeroLoadLat - pre, MemDomain))
    IN  <<t, Record(cycle, cycle + ZeroLoadLat, Newest(t, c), Newest(t, c))>>

(* A miss: MissStart -> fill -> MissResponse -> MissWriteback, and         *)
(* MissStart -> eviction -> MissWriteback.  Both records start where       *)
(* MissStart ends and end where their successor starts, so connect adds no *)
(* delays; a victim that needs no writeback connects the two directly.     *)
MissRecord(s, c, b, cycle, writeback) ==
    LET d    == BankDomain[b]
        sent == cycle + AccLat
        wb   == IF writeback THEN MemRecord(s, c, sent) ELSE <<s, Record(sent, sent, NoEvent, NoEvent)>>
        get  == MemRecord(wb[1], c, sent)
        mse  == Coming(get[1], c, 1)
        mre  == Coming(get[1], c, 2)
        mwe  == Coming(get[1], c, 3)
        t1 == New(get[1], Event("missStart", c, b, cycle, 0, AccLat, d))
        t2 == New(t1, Event("missResponse", c, b, get[2].resp, 0, 0, d))
        t3 == New(t2, Event("missWriteback", c, b, Max2(wb[2].resp, get[2].resp), 0, AccLat, d))
        t4 == AddChild(AddChild(AddChild(t3, mse, get[2].start), get[2].end, mre), mre, mwe)
        t5 == IF writeback THEN AddChild(AddChild(t4, mse, wb[2].start), wb[2].end, mwe)
              ELSE AddChild(t4, mse, mwe)
    IN  <<t5, Record(cycle, get[2].resp, mse, mre)>>

(* TimingCache::access, for a line that is there or not. *)
BankRecord(s, c, b, kind, cycle) ==
    IF kind = "hit" THEN HitRecord(s, c, b, cycle)
    ELSE MissRecord(s, c, b, cycle, kind = "missWriteback")

(* Cache::access of a first-level cache that has sent its dirty victim to  *)
(* a bank before the request: the two records are stitched together.       *)
Stitch(s, c, cycle, wb, acc) ==
    LET delay(lat) == Event("delay", c, 0, cycle, lat, 0, NoDomain)
        start == Coming(s, c, 1)
        dWb   == Coming(s, c, 2)
        dAcc  == Coming(s, c, 3)
        t1 == New(New(New(s, delay(0)), delay(wb.req - cycle)), delay(acc.req - cycle))
        t2 == AddChild(AddChild(t1, start, dWb), dWb, wb.start)
        t3 == AddChild(AddChild(t2, start, dAcc), dAcc, acc.start)
    IN  <<t3, Record(cycle, acc.resp, start, acc.end)>>

-----------------------------------------------------------------------------
(* The port.  A grant is for one slot; events come in the order of their   *)
(* cycles, so that slots before the last cycle cannot be granted again.    *)
Grant(k, slot, cycle) ==
    [k EXCEPT !.clash = @ \/ slot \in k.used,
              !.used = {u \in @ \union {slot} : u >= cycle - 1}]

(* highPrioAccess: the cycle at which the lookup is done. *)
LookupCycle(k, cycle) == Max2(cycle, k.lastAcc + 1)

HighPrioAccess(k, cycle) ==
    Grant([k EXCEPT !.lastAcc = LookupCycle(k, cycle),
                    !.lastFree = IF k.lastAcc < cycle - 1 THEN cycle - 1 ELSE @],
          LookupCycle(k, cycle), cycle)

(* Mutant: an access in the previous cycle is taken for a free port. *)
LowPrioFreeLate(k, cycle) == k.lastAcc <= cycle - 1 \/ k.lastFree = cycle - 1

(* tryLowPrioAccess: granted if the port was free in the previous cycle. *)
LowPrioFree(k, cycle) == k.lastAcc < cycle - 1 \/ k.lastFree = cycle - 1

LowPrioAccess(k, cycle) ==
    Grant([k EXCEPT !.lastFree = 0, !.lastAcc = Max2(cycle - 1, @)], cycle - 1, cycle)

Wait(s, e) == [Hold(s, e) EXCEPT !.bank[s.ev[e].unit].pending = Append(@, e)]

SimulateHit(s, e, cycle) ==
    LET b == s.ev[e].unit
        k == s.bank[b]
    IN  IF k.active < NumMSHRs[b]
        THEN Done([Check(s, cycle >= k.lastFree, "highPrioAccess")
                      EXCEPT !.bank[b] = HighPrioAccess(k, cycle)], e, LookupCycle(k, cycle))
        ELSE Wait(s, e)

SimulateMissStart(s, e, cycle) ==
    LET b == s.ev[e].unit
        k == s.bank[b]
        m == [k EXCEPT !.active = @ + 1]
    IN  IF k.active < NumMSHRs[b]
        THEN Done([Check(s, cycle >= k.lastFree, "highPrioAccess")
                      EXCEPT !.bank[b] = HighPrioAccess(m, cycle)], e, LookupCycle(k, cycle))
        ELSE Wait(s, e)

(* simulateMissWriteback: it frees its MSHR when it gets the port, and the *)
(* accesses that found none are requeued.                                  *)
SimulateMissWriteback(s, e, cycle) ==
    LET b == s.ev[e].unit
        k == s.bank[b]
        again(t, q) == Requeue(t, q, cycle + 1)
        t == [Check(s, k.active > 0, "activeMisses") EXCEPT
                !.bank[b] = [LowPrioAccess(k, cycle) EXCEPT !.active = @ - 1,
                                                            !.pending = << >>]]
        u == FoldLeft(again, t, k.pending)
    IN  IF LowPrioFree(k, cycle) THEN Done(u, e, cycle) ELSE Requeue(s, e, cycle + 1)
=============================================================================
