-------------------------------- MODULE RRIP --------------------------------
(***************************************************************************)
(* The re-reference interval policies of repl_rrip.h (SRRIP) and           *)
(* repl_ship.h (SHiP) driving a set-associative bank.  Both keep a         *)
(* re-reference prediction value per line and evict a line whose value is  *)
(* 3, aging the whole set until there is one.  SHiP also learns, per       *)
(* signature of the address, whether lines are used again before eviction, *)
(* and inserts lines of dead signatures at 3.  init.cpp chooses the policy *)
(* from the configuration and passes rpvMax = 3 to both.                   *)
(***************************************************************************)
EXTENDS SetAssocArray

CONSTANTS
    MaxSHCT,        \* maxSHCTVal: 7 in init.cpp
    SHCTSize,       \* SHCT_size: 16384 in init.cpp
    Signature       \* create_signature: a hash of the whole line address

MaxRPV == 3

ASSUME RRIPAssumption ==
    /\ MaxSHCT \in Nat
    /\ SHCTSize \in Nat \ {0}
    /\ Signature \in [Address -> 0..(SHCTSize - 1)]

VARIABLES
    policy,         \* repl.type of the configuration
    rpv,            \* rrpv_array of SRRIP, array of SHiP
    inserted,       \* lines flagged by replaced(): recently_inserted of SRRIP,
                    \* evicted_cacheID of SHiP (at most one line)
    SHCT,           \* SHiP's signature history counters
    meta,           \* SHiP's block_meta
    reused,         \* history: lines hit since they were filled
    before          \* history: rpv when the current miss began to rank

rripVars == <<policy, rpv, inserted, SHCT, meta, reused, before>>
vars == <<array, op, rripVars>>

Signatures == 0..(SHCTSize - 1)

Init ==
    /\ ArrayInit
    /\ policy \in {"SRRIP", "SHiP"}
    /\ rpv = [id \in Lines |-> MaxRPV]
    /\ inserted = {}
    /\ SHCT = [s \in Signatures |-> MaxSHCT \div 2]
    /\ meta = [id \in Lines |-> [signature |-> 0, outcome |-> FALSE]]
    /\ reused = {}
    /\ before = [id \in Lines |-> MaxRPV]

-----------------------------------------------------------------------------
(* replaced(id): SRRIP sets the value at once, SHiP leaves it to update. *)
RpvReplaced(id) == IF policy = "SRRIP" THEN [rpv EXCEPT ![id] = 2] ELSE rpv

FlagReplaced(id) == IF policy = "SRRIP" THEN inserted \union {id} ELSE {id}

(* SRRIPReplPolicy::update, on the values v and the flags f it finds. *)
SRRIPUpdate(id, v, f) ==
    /\ rpv' = IF id \in f THEN v ELSE [v EXCEPT ![id] = 0]
    /\ inserted' = f \ {id}
    /\ UNCHANGED <<SHCT, meta>>

(* The eviction branch of SHIPReplPolicy::update: the outgoing line trains *)
(* its signature, the incoming one is inserted by what its own has learnt. *)
(* Mutants: the counter does not saturate; the line keeps its old          *)
(* signature; the incoming signature is trained.                           *)
IncUnbounded(n) == n + 1
Dec(n) == IF n > 0 THEN n - 1 ELSE n
Inc(n) == IF n < MaxSHCT THEN n + 1 ELSE n

KeepsSignature(id, a, v) ==
    /\ SHCT' = IF meta[id].outcome THEN SHCT ELSE [SHCT EXCEPT ![meta[id].signature] = Dec(@)]
    /\ meta' = [meta EXCEPT ![id].outcome = FALSE]
    /\ rpv' = [v EXCEPT ![id] = MaxRPV - 1]

TrainsIncoming(id, a, v) ==
    /\ SHCT' = IF meta[id].outcome THEN SHCT ELSE [SHCT EXCEPT ![Signature[a]] = Dec(@)]
    /\ meta' = [meta EXCEPT ![id] = [signature |-> Signature[a], outcome |-> FALSE]]
    /\ rpv' = [v EXCEPT ![id] = MaxRPV - 1]

SHiPInsert(id, a, v) ==
    LET trained == IF meta[id].outcome THEN SHCT
                   ELSE [SHCT EXCEPT ![meta[id].signature] = Dec(@)]
        s == Signature[a]
    IN  /\ SHCT' = trained
        /\ meta' = [meta EXCEPT ![id] = [signature |-> s, outcome |-> FALSE]]
        /\ rpv' = [v EXCEPT ![id] = IF trained[s] = 0 THEN MaxRPV ELSE MaxRPV - 1]

(* The hit branch. *)
SHiPHit(id, v) ==
    /\ SHCT' = [SHCT EXCEPT ![meta[id].signature] = Inc(@)]
    /\ meta' = [meta EXCEPT ![id].outcome = TRUE]
    /\ rpv' = [v EXCEPT ![id] = 0]

SHiPUpdate(id, a, v, f) ==
    /\ IF id \in f THEN SHiPInsert(id, a, v) ELSE SHiPHit(id, v)
    /\ inserted' = {}

Update(id, a, v, f) ==
    \/ policy = "SRRIP" /\ SRRIPUpdate(id, v, f)
    \/ policy = "SHiP"  /\ SHiPUpdate(id, a, v, f)

-----------------------------------------------------------------------------
(* Cache::access with GETS or GETX: the lookup finds the line. *)
Hit(a) ==
    LET id == Lookup(a)
    IN  /\ op = Idle
        /\ id # -1
        /\ Update(id, a, rpv, inserted)
        /\ reused' = reused \union {id}
        /\ UNCHANGED <<array, op, policy, before>>

(* The lookup fails: preinsert calls rank. *)
Miss(a) ==
    /\ op = Idle
    /\ Lookup(a) = -1
    /\ op' = Ranking(a)
    /\ before' = rpv
    /\ UNCHANGED <<array, policy, rpv, inserted, SHCT, meta, reused>>

(* One pass of rank's loop that finds a value of MaxRPV: the leftmost one. *)
(* Mutant: one less will do.                                               *)
AlmostOldest(a) == {id \in Cands(a) : rpv[id] >= MaxRPV - 1}
Oldest(a) == {id \in Cands(a) : rpv[id] = MaxRPV}

RankFound ==
    /\ op.at = "rank"
    /\ \E id \in Oldest(op.addr) :
          /\ \A j \in Oldest(op.addr) : id <= j
          /\ op' = Evicting(op.addr, id)
    /\ UNCHANGED <<array, rripVars>>

(* Mutant: the increment stops one short. *)
AgesToTwo ==
    /\ op.at = "rank"
    /\ Oldest(op.addr) = {}
    /\ rpv' = [id \in Lines |->
                 IF id \in Cands(op.addr) /\ rpv[id] < 2 THEN rpv[id] + 1 ELSE rpv[id]]
    /\ UNCHANGED <<array, op, policy, inserted, SHCT, meta, reused, before>>

(* One pass that does not: every candidate below 3 grows by one. *)
RankAge ==
    /\ op.at = "rank"
    /\ Oldest(op.addr) = {}
    /\ rpv' = [id \in Lines |->
                 IF id \in Cands(op.addr) /\ rpv[id] < 3 THEN rpv[id] + 1 ELSE rpv[id]]
    /\ UNCHANGED <<array, op, policy, inserted, SHCT, meta, reused, before>>

(* postinsert: replaced(victim), the new tag, update(victim). *)
Insert ==
    /\ op.at = "evict"
    /\ WriteTag(op.addr, op.victim)
    /\ Update(op.victim, op.addr, RpvReplaced(op.victim), FlagReplaced(op.victim))
    /\ reused' = reused \ {op.victim}
    /\ op' = Idle
    /\ before' = [id \in Lines |-> MaxRPV]
    /\ UNCHANGED policy

Next ==
    \/ \E a \in Address : Hit(a) \/ Miss(a)
    \/ RankFound \/ RankAge \/ Insert

(* An access that has started runs to its end. *)
Spec == Init /\ [][Next]_vars /\ WF_vars(RankFound \/ RankAge \/ Insert)

-----------------------------------------------------------------------------
TypeOK ==
    /\ ArrayTypeOK
    /\ policy \in {"SRRIP", "SHiP"}
    /\ rpv \in [Lines -> 0..MaxRPV]
    /\ inserted \subseteq Lines
    /\ SHCT \in [Signatures -> 0..MaxSHCT]
    /\ meta \in [Lines -> [signature : Signatures, outcome : BOOLEAN]]
    /\ reused \subseteq Lines
    /\ before \in [Lines -> 0..MaxRPV]

(* The victim is the leftmost of the lines that had the largest prediction *)
(* value when the miss began: aging moves the whole set together, never    *)
(* past 3, so however many passes rank takes it cannot change who is next. *)
VictimWasOldest ==
    op.at = "evict" =>
        /\ op.victim \in Cands(op.addr)
        /\ \A id \in Cands(op.addr) :
              \/ before[op.victim] > before[id]
              \/ before[op.victim] = before[id] /\ op.victim <= id

(* What SHiP remembers of a line is true of the line in the array: its     *)
(* signature is that of the tag, its outcome bit says whether it was hit   *)
(* since it was filled.  A replaced() whose update() went to another line, *)
(* or a hit taken for an insertion, would break it.                        *)
MetaTracksLine ==
    policy = "SHiP" => \A id \in Lines : array[id] # 0 =>
        /\ meta[id].signature = Signature[array[id]]
        /\ meta[id].outcome <=> id \in reused

(* A signature loses confidence only when a line of that signature leaves  *)
(* without a hit, or (signature 0) when a line that was never filled is    *)
(* filled: update() trains on the zeroed block_meta as if on an eviction.  *)
DeadLineTrains ==
    [][\A s \in Signatures : SHCT'[s] < SHCT[s] =>
          /\ op.at = "evict"
          /\ op.victim \notin reused
          /\ IF array[op.victim] = 0 THEN s = 0 ELSE s = Signature[array[op.victim]]]_vars

(* Every miss ends: rank returns after finitely many passes. *)
MissEnds == (op # Idle) ~> (op = Idle)
=============================================================================
