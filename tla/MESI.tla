-------------------------------- MODULE MESI --------------------------------
(***************************************************************************)
(* The coherent cache hierarchy of the bound phase: Cache::access and      *)
(* invalidate (cache.cpp), the MESI controllers (coherence_ctrls.h, .cpp), *)
(* the filter caches in front of the L1s (filter_cache.h) and a simple     *)
(* memory (mem_ctrls.cpp), for any tree of inclusive, banked caches.       *)
(*                                                                         *)
(* Each bank of a cache is a Cache of its own, with its own lines and      *)
(* locks: Cache is the set of the banks.  The bank above that a call goes  *)
(* to is chosen by the address, so a cache may have as many parents at     *)
(* work on it at once as the cache above it has banks.                     *)
(*                                                                         *)
(* A core runs its own access through the tree; the access is a stack of   *)
(* calls.  Going up it locks hand over hand (the parent's startAccess      *)
(* drops the child's bottom lock before it takes its own two), so that     *)
(* invalidations may come down in between; CheckForMESIRace sorts those    *)
(* out.  An invalidation takes bottom locks only.  The locks are those of  *)
(* FutexLock, seen as Mutex: a lock has an owner or is free.               *)
(*                                                                         *)
(* A step runs from one lock operation to the next.  Replacement chooses   *)
(* any line.  Not here: prefetches, non-inclusive caches, PUTX_KEEPEXCL    *)
(* and FWD, which no component of the tree issues.                         *)
(***************************************************************************)
EXTENDS Integers, Sequences, FiniteSets

CONSTANTS
    Core,
    Cache,      \* the banks of all caches
    L1,         \* the terminal caches; each is a FilterCache
    ICache,     \* the L1s whose accesses carry NOEXCL: instruction fetches
    CoreOf,     \* CoreOf[l]: the core that accesses the L1 l
    Parents,    \* Parents[k]: the banks of the cache above k, or the memory
    Hash,       \* Hash[a]: what getParentId folds the address a to
    Mem,
    NumLines,   \* NumLines[k]
    Addr,
    None

ASSUME TreeAssumption ==
    /\ ICache \subseteq L1 /\ L1 \subseteq Cache
    /\ CoreOf \in [L1 -> Core]
    /\ Mem \notin Cache /\ None \notin Core \union Addr
    /\ NumLines \in [Cache -> Nat \ {0}]

(* The memory controllers count as one.  The address of a line that was    *)
(* never filled is 0: here None.                                           *)
ASSUME ParentsAssumption ==
    /\ \A k \in Cache : Parents[k] = <<Mem>> \/ Parents[k] \in Seq(Cache \ L1) \ {<< >>}
    /\ Hash \in [Addr \union {None} -> Nat]

(* The members of the vector of cache k: the memory, or banks. *)
Banks(k) == {Parents[k][i] : i \in DOMAIN Parents[k]}
Children(k) == {ch \in Cache : k \in Banks(ch)}

(* MESIBottomCC::getParentId. *)
Parent(k, a) == Parents[k][1 + (Hash[a] % Len(Parents[k]))]

(* The caches are no loop: init.cpp panics on one ("the cache 'tree' has a *)
(* loop"), so every bank has a height below those above it.                *)
ASSUME NoLoops ==
    /\ IsFiniteSet(Cache)
    /\ \E h \in [Cache -> 0..Cardinality(Cache)] :
          \A k \in Cache : \A p \in Banks(k) \ {Mem} : h[k] < h[p]

(* init.cpp gives all children of a cache one vector, that of its banks,   *)
(* so that they agree on the bank of an address.                           *)
ASSUME SameBanks ==
    \A k, l \in Cache :
        Banks(k) \intersect Banks(l) \subseteq {Mem} \/ Parents[k] = Parents[l]

(* There is one last-level cache, with one instance: init.cpp panics       *)
(* otherwise.  It may have any number of banks; they share their children. *)
ASSUME OneLastLevel ==
    \A k, l \in Cache :
        Mem \in Banks(k) \intersect Banks(l) => k = l \/ Children(k) \intersect Children(l) # {}

VARIABLES
    tag,        \* tag[k][s]: the address in line s of cache k (CacheArray)
    st,         \* st[k][s]: its MESI state (MESIBottomCC::array)
    dir,        \* dir[k][s]: the directory entry (MESITopCC::array)
    bcc, tcc,   \* owners of the bottom and top controllers' locks
    filterLock, \* owner of each L1's filterLock
    rd, wr,     \* rdAddr and wrAddr of each L1's filter
    stack,      \* stack[c]: the calls core c is in, innermost first
    wb,         \* wb[c]: lowerLevelWriteback of its innermost access
    dirty,      \* history: addresses stored to and not yet written to memory
    failed      \* an assert or a panic of the code has fired

vars == <<tag, st, dir, bcc, tcc, filterLock, rd, wr, stack, wb, dirty, failed>>

Slots(k) == 1..NumLines[k]
Free == None

NoEntry == [sharers |-> {}, n |-> 0, excl |-> FALSE]

Init ==
    /\ tag = [k \in Cache |-> [s \in Slots(k) |-> None]]
    /\ st = [k \in Cache |-> [s \in Slots(k) |-> "I"]]
    /\ dir = [k \in Cache |-> [s \in Slots(k) |-> NoEntry]]
    /\ bcc = [k \in Cache |-> Free]
    /\ tcc = [k \in Cache |-> Free]
    /\ filterLock = [l \in L1 |-> Free]
    /\ rd = [l \in L1 |-> None]
    /\ wr = [l \in L1 |-> None]
    /\ stack = [c \in Core |-> << >>]
    /\ wb = [c \in Core |-> FALSE]
    /\ dirty = {}
    /\ failed = FALSE

-----------------------------------------------------------------------------
(* MemReq: the call access(req) on cache k for line slot of child (none    *)
(* for the core), whose state was init when the request was made.          *)
Access(k, type, a, child, slot, init, noexcl) ==
    [kind |-> "access", at |-> IF k \in L1 THEN "lockBcc" ELSE "lockTcc",
     cache |-> k, type |-> type, addr |-> a, child |-> child, slot |-> slot,
     init |-> init, noexcl |-> noexcl, line |-> 0, todo |-> {}]

(* InvReq: the call invalidate(req) on cache k, once it has its lock. *)
Invalidate(k, type, a, s, todo) ==
    [kind |-> "inv", at |-> "down", cache |-> k, type |-> type, addr |-> a,
     line |-> s, todo |-> todo]

Top(c) == Head(stack[c])
In(c, kind, at) == stack[c] # << >> /\ Top(c).kind = kind /\ Top(c).at = at

Goto(c, f) == stack' = [stack EXCEPT ![c] = <<f>> \o Tail(@)]
CallFrom(c, f, g) == stack' = [stack EXCEPT ![c] = <<g, f>> \o Tail(@)]
Return(c) == stack' = [stack EXCEPT ![c] = Tail(@)]

(* assert(p) *)
Check(p) == failed' = (failed \/ ~p)

IsPut(type) == type \in {"PUTS", "PUTX"}
IsExclusive(e) == e.n = 1 /\ e.excl
HaveExclusive(k, s) == st[k][s] \in {"E", "M"}

(* CacheArray::lookup *)
Holding(k, a) == {s \in Slots(k) : tag[k][s] = a}

(* The state *req.state points to: the child's line, or the core's dummy. *)
ChildState(f) == IF f.cache \in L1 THEN "I" ELSE st[f.child][f.slot]

(* The parent's startAccess drops the lock of the child that called it.    *)
(* Mutant: it does not.                                                    *)
KeepChildLock(k) == UNCHANGED bcc
DropChildLock(k) == bcc' = [bcc EXCEPT ![k] = Free]

-----------------------------------------------------------------------------
(***************************************************************************)
(* FilterCache::load and store that miss in the filter call replace, which *)
(* takes filterLock; the L1's startAccess drops it again at once.          *)
(***************************************************************************)
Replace(c) ==
    \E l \in L1, a \in Addr, type \in {"GETS", "GETX"} :
        /\ stack[c] = << >> /\ CoreOf[l] = c
        /\ type = "GETX" => l \notin ICache
        /\ a # (IF type = "GETS" THEN rd[l] ELSE wr[l])
        /\ filterLock[l] = Free
        /\ stack' = [stack EXCEPT ![c] = <<Access(l, type, a, None, 0, "I", l \in ICache)>>]
        /\ UNCHANGED <<tag, st, dir, bcc, tcc, filterLock, rd, wr, wb, dirty, failed>>

(* FilterCache::contextSwitch *)
ContextSwitch(c) ==
    \E l \in L1 :
        /\ stack[c] = << >> /\ CoreOf[l] = c
        /\ filterLock[l] = Free
        /\ rd' = [rd EXCEPT ![l] = None]
        /\ wr' = [wr EXCEPT ![l] = None]
        /\ UNCHANGED <<tag, st, dir, bcc, tcc, filterLock, stack, wb, dirty, failed>>

(* MESICC::startAccess: the top lock first. *)
LockTcc(c) ==
    /\ In(c, "access", "lockTcc")
    /\ tcc[Top(c).cache] = Free
    /\ tcc' = [tcc EXCEPT ![Top(c).cache] = c]
    /\ Goto(c, [Top(c) EXCEPT !.at = "lockBcc"])
    /\ UNCHANGED <<tag, st, dir, bcc, filterLock, rd, wr, wb, dirty, failed>>

(* CheckForMESIRace: a PUT whose line was invalidated is skipped, one      *)
(* whose line was downgraded becomes a PUTS; a GETX may have lost its S    *)
(* copy; nothing else may have happened to the child's line.               *)
(* Mutant: the PUTX stays one.                                             *)
Raced(f) == ChildState(f) # f.init
StillPUTX(f) == f.type
SkipAccess(f) == Raced(f) /\ IsPut(f.type) /\ ChildState(f) = "I"
TypeAfterRace(f) == IF Raced(f) /\ f.type = "PUTX" THEN "PUTS" ELSE f.type
LegalRace(f) ==
    \/ IsPut(f.type) /\ ChildState(f) \in {"I", "S"}
    \/ f.type = "GETX" /\ f.init = "S" /\ ChildState(f) = "I"

(* MESITopCC::processEviction: which children lose the line with us.       *)
(* Mutant: none do, the cache is not inclusive.                            *)
NoChild(k, s) == {}
EvictFrom(k, s) == dir[k][s].sharers

(* Then the bottom lock, the race check, and Cache::access up to preinsert *)
(* (any line may be the victim).  shouldAllocate panics on a PUT.          *)
LockBcc(c) ==
    LET f == Top(c)
        k == f.cache
        g == [f EXCEPT !.type = TypeAfterRace(f)]
    IN  /\ In(c, "access", "lockBcc")
        /\ bcc[k] = Free
        /\ bcc' = [bcc EXCEPT ![k] = c]
        /\ wb' = [wb EXCEPT ![c] = FALSE]
        /\ \/ /\ SkipAccess(f)
              /\ Goto(c, [g EXCEPT !.at = "end"])
              /\ Check(LegalRace(f))
           \/ /\ ~SkipAccess(f)
              /\ \E s \in Holding(k, f.addr) : Goto(c, [g EXCEPT !.at = "access", !.line = s])
              /\ Check(Raced(f) => LegalRace(f))
           \/ /\ ~SkipAccess(f)
              /\ Holding(k, f.addr) = {}
              /\ \E s \in Slots(k) :
                    /\ Goto(c, [g EXCEPT !.at = "evict", !.line = s, !.todo = EvictFrom(k, s)])
                    /\ Check(/\ Raced(f) => LegalRace(f)
                             /\ ~IsPut(f.type)
                             /\ Cardinality(dir[k][s].sharers) = dir[k][s].n)
        /\ UNCHANGED <<tag, st, dir, tcc, filterLock, rd, wr, dirty>>

(***************************************************************************)
(* The loop of MESITopCC::sendInvalidates, for an eviction, for a GET that *)
(* needs other copies gone or downgraded, or for an invalidation passed    *)
(* down.  The child's bit goes when it is invalidated.                     *)
(***************************************************************************)
(* Mutant: a GETX leaves the other copies readable.                        *)
DowngradesOnly(f) ==
    CASE f.at = "evict" -> "INV" [] f.at = "grant" -> "INVX" [] f.at = "down" -> f.type

InvType(f) ==
    CASE f.at = "evict" -> "INV"
      [] f.at = "grant" -> IF f.type = "GETX" THEN "INV" ELSE "INVX"
      [] f.at = "down"  -> f.type

InvAddr(f) == IF f.at = "evict" THEN tag[f.cache][f.line] ELSE f.addr

(* The children in the order of their index: some fixed order. *)
NextChild(f) == CHOOSE ch \in f.todo : TRUE

(* children[c]->invalidate(req): startInvalidate takes the child's bottom  *)
(* lock, and a child with children passes it on, a downgrade only if one   *)
(* of them is exclusive.                                                   *)
SendInvalidate(c) ==
    LET f    == Top(c)
        ch   == NextChild(f)
        type == InvType(f)
        a    == InvAddr(f)
        s    == CHOOSE i \in Holding(ch, a) : TRUE
        e    == dir[ch][s]
        todo == IF type = "INVX" /\ ~IsExclusive(e) THEN {} ELSE e.sharers
    IN  /\ stack[c] # << >> /\ f.at \in {"evict", "grant", "down"}
        /\ f.todo # {}
        /\ bcc[ch] = Free
        /\ bcc' = [bcc EXCEPT ![ch] = c]
        /\ Check(Holding(ch, a) # {})
        /\ Holding(ch, a) # {} =>
              CallFrom(c, [f EXCEPT !.todo = @ \ {ch}], Invalidate(ch, type, a, s, todo))
        /\ Holding(ch, a) = {} => UNCHANGED stack
        /\ dir' = IF type = "INV" THEN [dir EXCEPT ![f.cache][f.line].sharers = @ \ {ch}]
                                  ELSE dir
        /\ UNCHANGED <<tag, st, tcc, filterLock, rd, wr, wb, dirty>>

(* The rest of processEviction: write the line back, to memory at once or  *)
(* by a PUT to the parent, whose startAccess drops our bottom lock.        *)
Evict(c) ==
    LET f == Top(c)
        k == f.cache
        s == f.line
        state == IF wb[c] THEN "M" ELSE st[k][s]
        put == IF state = "M" THEN "PUTX" ELSE "PUTS"
        p == Parent(k, tag[k][s])
    IN  /\ In(c, "access", "evict") /\ f.todo = {}
        /\ dir' = [dir EXCEPT ![k][s].n = 0]
        /\ Check(wb[c] => HaveExclusive(k, s))
        /\ IF state = "I" \/ p = Mem
             THEN /\ st' = [st EXCEPT ![k][s] = "I"]
                  /\ dirty' = IF state = "M" THEN dirty \ {tag[k][s]} ELSE dirty
                  /\ Goto(c, [f EXCEPT !.at = "insert"])
                  /\ UNCHANGED bcc
             ELSE /\ st' = [st EXCEPT ![k][s] = state]
                  /\ CallFrom(c, [f EXCEPT !.at = "insert"],
                              Access(p, put, tag[k][s], k, s, state, FALSE))
                  /\ DropChildLock(k)
                  /\ UNCHANGED dirty
        /\ UNCHANGED <<tag, tcc, filterLock, rd, wr, wb>>

(***************************************************************************)
(* postinsert, if the line is new, and MESIBottomCC::processAccess: a PUTX *)
(* or a GETX hit makes the line M; a miss asks memory, or the parent,      *)
(* which drops our bottom lock.  A terminal cache has no directory.        *)
(***************************************************************************)
NeedsParent(type, state) ==
    \/ type = "GETS" /\ state = "I"
    \/ type = "GETX" /\ state \in {"I", "S"}

Granted(type, noexcl) == IF type = "GETX" THEN "M" ELSE IF noexcl THEN "S" ELSE "E"

BottomAccess(c) ==
    LET f == Top(c)
        k == f.cache
        s == f.line
        p == Parent(k, f.addr)
        g == [f EXCEPT !.at = IF k \in L1 THEN "end" ELSE "dir"]
    IN  /\ In(c, "access", "access") \/ In(c, "access", "insert")
        /\ tag' = [tag EXCEPT ![k][s] = f.addr]
        /\ Check(/\ f.at = "insert" => st[k][s] = "I"
                 /\ f.type = "PUTS" => st[k][s] # "I"
                 /\ f.type = "PUTX" => HaveExclusive(k, s))
        /\ \/ /\ NeedsParent(f.type, st[k][s]) /\ p # Mem
              /\ CallFrom(c, g, Access(p, f.type, f.addr, k, s, st[k][s], f.noexcl))
              /\ DropChildLock(k)
              /\ UNCHANGED st
           \/ /\ NeedsParent(f.type, st[k][s]) /\ p = Mem
              /\ st' = [st EXCEPT ![k][s] = Granted(f.type, f.noexcl)]
              /\ Goto(c, g) /\ UNCHANGED bcc
           \/ /\ ~NeedsParent(f.type, st[k][s])
              /\ st' = [st EXCEPT ![k][s] = IF f.type \in {"GETX", "PUTX"} THEN "M" ELSE @]
              /\ Goto(c, g) /\ UNCHANGED bcc
        /\ UNCHANGED <<dir, tcc, filterLock, rd, wr, wb, dirty>>

(***************************************************************************)
(* MESITopCC::processAccess up to its sendInvalidates.                     *)
(***************************************************************************)
TopAccess(c) ==
    LET f == Top(c)
        k == f.cache
        e == dir[k][f.line]
        others == e.sharers \ {f.child}
        upgrade == f.child \in e.sharers
    IN  /\ In(c, "access", "dir")
        /\ wb' = [wb EXCEPT ![c] = FALSE]
        /\ \/ /\ IsPut(f.type)
              /\ dir' = [dir EXCEPT ![k][f.line].sharers = others, ![k][f.line].n = @ - 1]
              /\ st' = [st EXCEPT ![f.child][f.slot] = "I"]
              /\ Goto(c, [f EXCEPT !.at = "end"])
              /\ Check(upgrade /\ (f.type = "PUTX" => IsExclusive(e)))
           \/ /\ f.type = "GETS"
              /\ IF e.n = 0 /\ HaveExclusive(k, f.line) /\ ~f.noexcl
                   THEN /\ dir' = [dir EXCEPT ![k][f.line] =
                                    [sharers |-> {f.child}, n |-> 1, excl |-> TRUE]]
                        /\ st' = [st EXCEPT ![f.child][f.slot] = "E"]
                        /\ Goto(c, [f EXCEPT !.at = "end"])
                   ELSE /\ Goto(c, [f EXCEPT !.at = "grant",
                                             !.todo = IF IsExclusive(e) THEN e.sharers ELSE {}])
                        /\ UNCHANGED <<st, dir>>
              /\ Check(st[k][f.line] # "I" /\ ~upgrade)
           \/ /\ f.type = "GETX"
              /\ dir' = [dir EXCEPT ![k][f.line].sharers = others,
                                    ![k][f.line].n = IF upgrade THEN @ - 1 ELSE @]
              /\ Goto(c, [f EXCEPT !.at = "grant", !.todo = others])
              /\ Check(/\ st[k][f.line] = "M"
                       /\ upgrade => ~IsExclusive(e)
                       /\ e.n = Cardinality(e.sharers))
              /\ UNCHANGED st
        /\ UNCHANGED <<tag, bcc, tcc, filterLock, rd, wr, dirty>>

(* The directory entry after a GETS that shares the line.                  *)
(* Mutant: a stale exclusive flag survives.                                *)
StaleExclusive(e, child) ==
    [sharers |-> e.sharers \union {child}, n |-> e.n + 1, excl |-> e.excl /\ ~IsExclusive(e)]
SharedEntry(e, child) ==
    [sharers |-> e.sharers \union {child}, n |-> e.n + 1, excl |-> FALSE]

(* The rest of it: the child gets its copy, and processWritebackOnAccess   *)
(* keeps the dirty data an invalidation or downgrade brought in.           *)
Grant(c) ==
    LET f == Top(c)
        k == f.cache
        e == dir[k][f.line]
    IN  /\ In(c, "access", "grant") /\ f.todo = {}
        /\ dir' = [dir EXCEPT ![k][f.line] =
                     IF f.type = "GETS" THEN SharedEntry(e, f.child)
                     ELSE [sharers |-> e.sharers \union {f.child}, n |-> 1, excl |-> TRUE]]
        /\ st' = [st EXCEPT ![f.child][f.slot] = IF f.type = "GETX" THEN "M" ELSE "S",
                            ![k][f.line] = IF wb[c] THEN "M" ELSE @]
        /\ Check(wb[c] => HaveExclusive(k, f.line))
        /\ Goto(c, [f EXCEPT !.at = "end"])
        /\ UNCHANGED <<tag, bcc, tcc, filterLock, rd, wr, wb, dirty>>

(* endAccess: relock the child, then drop both locks. *)
EndAccess(c) ==
    LET f == Top(c)
        k == f.cache
    IN  /\ In(c, "access", "end")
        /\ IF k \in L1
             THEN /\ filterLock[k] = Free
                  /\ filterLock' = [filterLock EXCEPT ![k] = c]
                  /\ bcc' = [bcc EXCEPT ![k] = Free]
                  /\ Goto(c, [f EXCEPT !.at = "fill"])
                  /\ Check(IF f.type = "GETX" THEN st[k][f.line] = "M" ELSE st[k][f.line] # "I")
                  /\ dirty' = IF f.type = "GETX" THEN dirty \union {f.addr} ELSE dirty
             ELSE /\ bcc[f.child] = Free
                  /\ bcc' = [bcc EXCEPT ![f.child] = c, ![k] = Free]
                  /\ Return(c)
                  /\ UNCHANGED <<filterLock, dirty, failed>>
        /\ tcc' = [tcc EXCEPT ![k] = Free]
        /\ UNCHANGED <<tag, st, dir, rd, wr, wb>>

(* The end of FilterCache::replace. *)
FillFilter(c) ==
    LET f == Top(c)
    IN  /\ In(c, "access", "fill")
        /\ rd' = [rd EXCEPT ![f.cache] = f.addr]
        /\ wr' = [wr EXCEPT ![f.cache] = IF f.type = "GETX" THEN f.addr ELSE None]
        /\ filterLock' = [filterLock EXCEPT ![f.cache] = Free]
        /\ Return(c)
        /\ UNCHANGED <<tag, st, dir, bcc, tcc, wb, dirty, failed>>

-----------------------------------------------------------------------------
(* processInval reports dirty data.  Mutant: clean data instead. *)
ReportsClean(state) == state = "E"
WritesBack(state) == state = "M"

(* FilterCache::invalidate compares the read address of the entry.  Mutant: *)
(* the write address.                                                       *)
WriteMatches(l, a) == wr[l] = a
FilterMatches(l, a) == rd[l] = a

(***************************************************************************)
(* The children are done: the end of sendInvalidates, then                 *)
(* MESIBottomCC::processInval and the unlock.  An L1 clears a matching     *)
(* filter entry first, under filterLock.                                   *)
(***************************************************************************)
FinishInv(c) ==
    LET f == Top(c)
        k == f.cache
    IN  /\ In(c, "inv", "down") /\ f.todo = {}
        /\ k \in L1 => filterLock[k] = Free
        /\ IF k \in L1 /\ FilterMatches(k, f.addr)
             THEN rd' = [rd EXCEPT ![k] = None] /\ wr' = [wr EXCEPT ![k] = None]
             ELSE UNCHANGED <<rd, wr>>
        /\ \E s \in Holding(k, f.addr) :
              /\ st' = [st EXCEPT ![k][s] = IF f.type = "INV" THEN "I" ELSE "S"]
              /\ wb' = [wb EXCEPT ![c] = @ \/ WritesBack(st[k][s])]
              /\ dir' = IF f.type = "INV" THEN [dir EXCEPT ![k][s].n = 0]
                        ELSE [dir EXCEPT ![k][s].excl = @ /\ ~IsExclusive(dir[k][s])]
              /\ Check(IF f.type = "INV" THEN st[k][s] # "I" ELSE HaveExclusive(k, s))
        /\ bcc' = [bcc EXCEPT ![k] = Free]
        /\ Return(c)
        /\ UNCHANGED <<tag, tcc, filterLock, dirty>>

Step(c) ==
    \/ LockTcc(c) \/ LockBcc(c) \/ SendInvalidate(c) \/ FinishInv(c) \/ Evict(c)
    \/ BottomAccess(c) \/ TopAccess(c) \/ Grant(c) \/ EndAccess(c) \/ FillFilter(c)

Next == \E c \in Core : Replace(c) \/ ContextSwitch(c) \/ Step(c)

Spec == Init /\ [][Next]_vars

-----------------------------------------------------------------------------
Frames(c) == {stack[c][i] : i \in 1..Len(stack[c])}

TypeOK ==
    /\ \A k \in Cache : \A s \in Slots(k) :
          /\ tag[k][s] \in Addr \union {None}
          /\ st[k][s] \in {"I", "S", "E", "M"}
          /\ dir[k][s] \in [sharers : SUBSET Children(k), n : 0..Cardinality(Children(k)),
                             excl : BOOLEAN]
    /\ bcc \in [Cache -> Core \union {Free}] /\ tcc \in [Cache -> Core \union {Free}]
    /\ filterLock \in [L1 -> Core \union {Free}]
    /\ rd \in [L1 -> Addr \union {None}] /\ wr \in [L1 -> Addr \union {None}]
    /\ wb \in [Core -> BOOLEAN] /\ dirty \subseteq Addr /\ failed \in BOOLEAN
    /\ \A c \in Core : \A f \in Frames(c) :
          /\ f.cache \in Cache /\ f.addr \in Addr /\ f.todo \subseteq Cache
          /\ f.line \in {0} \union Slots(f.cache)

(* No assert or panic of the coherence code fires: every race that really  *)
(* happens is one CheckForMESIRace knows, inclusion is never lost, the     *)
(* sharer count matches the sharers, permissions are as each call expects. *)
NoAssertFails == ~failed

Valid(k, a) == \E s \in Slots(k) : tag[k][s] = a /\ st[k][s] # "I"
Owns(k, a) == \E s \in Slots(k) : tag[k][s] = a /\ HaveExclusive(k, s)

(* Single writer: while an L1 may write a line, no other L1 has a copy of  *)
(* it, at every instant of every interleaving.                             *)
SingleWriter ==
    \A k, l \in L1, a \in Addr : k # l /\ Owns(k, a) => ~Valid(l, a)

(* Inclusion: what a cache holds, the bank above it holds that the address *)
(* belongs to, with at least the same permission; and a line is in a cache *)
(* only once.                                                              *)
Inclusion == TypeOK /\
    \A k \in Cache, a \in Addr :
        /\ Parent(k, a) # Mem => (Valid(k, a) => Valid(Parent(k, a), a))
                               /\ (Owns(k, a) => Owns(Parent(k, a), a))
        /\ Cardinality(Holding(k, a)) <= 1

(* Whenever a cache's bottom lock is free, that is, whenever anybody else  *)
(* may act on its directory, every entry lists exactly the children that   *)
(* hold the line and says exclusive exactly if its sharer may write.       *)
DirectoryExact ==
    \A k \in Cache \ L1 : bcc[k] = Free =>
        \A s \in Slots(k) :
            LET e == dir[k][s]
                a == tag[k][s]
            IN  /\ e.sharers = {ch \in Children(k) : a # None /\ Valid(ch, a)}
                /\ e.n = Cardinality(e.sharers)
                /\ IsExclusive(e) <=> \E ch \in Children(k) : a # None /\ Owns(ch, a)

(* Dirty data is never dropped: until memory has been written, some cache  *)
(* holds the line in M, or the core that took it from one has it in hand.  *)
DirtyKept ==
    \A a \in dirty :
        \/ \E k \in Cache : \E s \in Slots(k) : tag[k][s] = a /\ st[k][s] = "M"
        \/ \E c \in Core : wb[c] /\ \E f \in Frames(c) :
              /\ f.kind = "access" /\ f.at \in {"evict", "grant"}
              /\ InvAddr(f) = a

(* The lock-free filter never promises more than its L1 has: whatever a    *)
(* core would hit in the filter is readable, or writable, in the L1.       *)
FilterBacked ==
    \A l \in L1 : stack[CoreOf[l]] = << >> =>
        /\ rd[l] # None => Valid(l, rd[l])
        /\ wr[l] # None => \E s \in Slots(l) : tag[l][s] = wr[l] /\ st[l][s] = "M"

(* The owner of the lock that core c is waiting for. *)
WaitsFor(c) ==
    IF stack[c] = << >> THEN None
    ELSE LET f == Top(c) IN
         CASE f.at = "lockTcc" -> tcc[f.cache]
           [] f.at = "lockBcc" -> bcc[f.cache]
           [] f.todo # {} -> bcc[NextChild(f)]
           [] f.at = "end" -> IF f.cache \in L1 THEN filterLock[f.cache] ELSE bcc[f.child]
           [] f.at = "down" /\ f.cache \in L1 -> filterLock[f.cache]
           [] OTHER -> None

(* Hand-over-hand going up and bottom locks going down never close a       *)
(* cycle: from any set of waiting cores some wait leads out of the set.    *)
NoDeadlock ==
    /\ \A c \in Core : WaitsFor(c) # c
    /\ \A C \in SUBSET Core : C # {} => \E c \in C : WaitsFor(c) \notin C
    /\ \A c \in Core : stack[c] = << >> =>
          \A k \in Cache : bcc[k] # c /\ tcc[k] # c /\ (k \in L1 => filterLock[k] # c)
=============================================================================
