-------------------------------- MODULE EHC --------------------------------
(***************************************************************************)
(* The expected-hit-count policy of repl_ehc.h driving a set-associative   *)
(* bank.  Each line counts its hits (CHC) and the further hits it is still *)
(* expected to get (EFH); the hit history table (HHT), a small set-        *)
(* associative table of its own, remembers the last hit counts of evicted  *)
(* lines and supplies the expectation when a line comes back.              *)
(***************************************************************************)
EXTENDS SetAssocArray

CONSTANTS
    HHTSets,    \* 128
    HHTWays,    \* 16
    HHTIndex,   \* HHTIndex[a]: (a >> 6) & 0x7F, for a = 0 too
    HHTTag,     \* HHTTag[a]: (a >> 13) & 0xFFFFF, for a = 0 too
    CHCMax,     \* the current hit counter is recorded when it gets here: 7
    EFHMod      \* EFH_array holds uint8_t: 256

MaxRPV == 3

ASSUME EHCAssumption ==
    /\ HHTSets \in Nat \ {0}
    /\ HHTWays \in Nat \ {0, 1}
    /\ HHTIndex \in [Address \union {0} -> 0..(HHTSets - 1)]
    /\ HHTTag \in [Address \union {0} -> Nat]
    /\ CHCMax \in Nat \ {0}
    /\ EFHMod \in Nat /\ CHCMax < EFHMod

VARIABLES
    RPV,        \* array[id].RPV, -1 between replaced() and update()
    lineAddr,   \* array[id].lineAddr
    CHC,        \* CHC_array
    EFH,        \* EFH_array
    HHT,        \* HHT[index][way]
    best        \* rank's bestCand and bestScore between two passes

ehcVars == <<RPV, lineAddr, CHC, EFH, HHT, best>>
vars == <<array, op, ehcVars>>

Ways == 0..(HHTWays - 1)
Slots == 1..4
Counts == 0..CHCMax

(* calloc: an entry that was never used. *)
EmptyEntry == [valid |-> FALSE, tag |-> 0, lru |-> 0, hits |-> [i \in Slots |-> 0]]

(* No candidate yet: bestCand is -1, bestScore larger than any score. *)
NoBest == [cand |-> -1, score |-> EFHMod + 1]

Init ==
    /\ ArrayInit
    /\ RPV = [id \in Lines |-> MaxRPV]
    /\ lineAddr = [id \in Lines |-> 0]
    /\ CHC = [id \in Lines |-> 0]
    /\ EFH = [id \in Lines |-> 1]
    /\ HHT = [s \in 0..(HHTSets - 1) |-> [w \in Ways |-> EmptyEntry]]
    /\ best = NoBest

-----------------------------------------------------------------------------
(* searchHHT: the ways of a set that hold the tag. *)
Found(set, tag) == {w \in Ways : set[w].valid /\ set[w].tag = tag}

(* addHHTEntry's choice: the first invalid way, else the first way of the  *)
(* largest recency, provided that is above 0 (victimWay starts at -1).     *)
(* Mutant: a full set always gives up its first way.                       *)
FirstWay(set) ==
    LET free == {w \in Ways : ~set[w].valid}
    IN  IF free = {} THEN 0 ELSE CHOOSE w \in free : \A v \in free : w <= v

VictimWay(set) ==
    LET free == {w \in Ways : ~set[w].valid}
        old  == {w \in Ways : set[w].lru > 0 /\ \A v \in Ways : set[v].lru <= set[w].lru}
        from == IF free # {} THEN free ELSE old
    IN  CHOOSE w \in from : \A v \in from : w <= v

(* addHHTEntry: overwrite the victim, one hit count in its queue, and age  *)
(* every other valid entry of the set.                                     *)
AddEntry(set, tag, count) ==
    LET victim == VictimWay(set)
    IN  [w \in Ways |->
           IF w = victim
             THEN [valid |-> TRUE, tag |-> tag, lru |-> 0,
                   hits |-> [i \in Slots |-> IF i = 1 THEN count ELSE 0]]
             ELSE IF set[w].valid THEN [set[w] EXCEPT !.lru = @ + 1] ELSE set[w]]

(* The other half of updateHHT: the entry is there, push the count. *)
PushCount(set, tag, count) ==
    [w \in Ways |->
       IF w \in Found(set, tag)
         THEN [set[w] EXCEPT !.hits =
                 [i \in Slots |-> IF i = 1 THEN count ELSE set[w].hits[i - 1]]]
         ELSE set[w]]

(* updateHHT(id, a) with CHC_array[id] = count *)
UpdateHHT(a, count) ==
    [HHT EXCEPT ![HHTIndex[a]] =
        IF Found(@, HHTTag[a]) = {} THEN AddEntry(@, HHTTag[a], count)
                                    ELSE PushCount(@, HHTTag[a], count)]

(* update() on a miss: the rounded mean of the entry's queue, 1 if none. *)
Expected(hht, a) ==
    LET set == hht[HHTIndex[a]]
        ws  == Found(set, HHTTag[a])
        q   == set[CHOOSE w \in ws : TRUE].hits
    IN  IF ws = {} THEN 1 ELSE (q[1] + q[2] + q[3] + q[4] + 2) \div 4

-----------------------------------------------------------------------------
(* Cache::access finds the line: the hit branch of update().  The guard    *)
(* against an expectation of 0 is commented out in the code, so the byte   *)
(* wraps around.                                                           *)
Hit(a) ==
    LET id == Lookup(a)
    IN  /\ op = Idle
        /\ id # -1
        /\ RPV' = [RPV EXCEPT ![id] = 0]
        /\ IF CHC[id] + 1 = CHCMax
             THEN HHT' = UpdateHHT(a, CHCMax) /\ CHC' = [CHC EXCEPT ![id] = 0]
             ELSE UNCHANGED HHT /\ CHC' = [CHC EXCEPT ![id] = @ + 1]
        /\ EFH' = [EFH EXCEPT ![id] = (@ - 1) % EFHMod]
        /\ UNCHANGED <<array, op, lineAddr, best>>

(* The lookup fails: preinsert calls rank. *)
Miss(a) ==
    /\ op = Idle
    /\ Lookup(a) = -1
    /\ op' = Ranking(a)
    /\ best' = NoBest
    /\ UNCHANGED <<array, RPV, lineAddr, CHC, EFH, HHT>>

(* score().  Mutant: the difference the other way round. *)
ScoreReversed(id) == RPV[id] - EFH[id]
Score(id) == EFH[id] - RPV[id]

Bottom(a) == {id \in Cands(a) : Score(id) = -3}

(* The first candidate whose score is -3 ends rank at once. *)
RankBottom ==
    /\ op.at = "rank"
    /\ \E id \in Bottom(op.addr) :
          /\ \A j \in Bottom(op.addr) : id <= j
          /\ op' = Evicting(op.addr, id)
    /\ UNCHANGED <<array, RPV, lineAddr, CHC, EFH, HHT>>
    /\ best' = NoBest

(* A full pass keeps the last candidate of the lowest score seen so far. *)
PassBest(a) ==
    LET lowest == {id \in Cands(a) : \A j \in Cands(a) : Score(id) <= Score(j)}
        last   == CHOOSE id \in lowest : \A j \in lowest : j <= id
    IN  IF Score(last) <= best.score THEN [cand |-> last, score |-> Score(last)] ELSE best

(* The all_3 scan covers the whole cache, not the candidates only. *)
AllAged == \A id \in Lines : RPV[id] = 3

(* The pass found no -3, and every line of the cache is at 3: give up. *)
RankGiveUp ==
    /\ op.at = "rank"
    /\ Bottom(op.addr) = {}
    /\ AllAged
    /\ op' = Evicting(op.addr, PassBest(op.addr).cand)
    /\ best' = NoBest
    /\ UNCHANGED <<array, RPV, lineAddr, CHC, EFH, HHT>>

(* Mutant: age the candidates only. *)
AgeSet ==
    /\ op.at = "rank"
    /\ Bottom(op.addr) = {}
    /\ ~AllAged
    /\ best' = PassBest(op.addr)
    /\ RPV' = [id \in Lines |-> IF id \in Cands(op.addr) /\ RPV[id] < 3 THEN RPV[id] + 1 ELSE RPV[id]]
    /\ UNCHANGED <<array, op, lineAddr, CHC, EFH, HHT>>

(* Otherwise age every line, of this set and of all the others. *)
RankAge ==
    /\ op.at = "rank"
    /\ Bottom(op.addr) = {}
    /\ ~AllAged
    /\ best' = PassBest(op.addr)
    /\ RPV' = [id \in Lines |-> IF RPV[id] < 3 THEN RPV[id] + 1 ELSE RPV[id]]
    /\ UNCHANGED <<array, op, lineAddr, CHC, EFH, HHT>>

(* update() on a miss records the new address.  Mutant: it does not. *)
KeepLineAddr(id, a) == UNCHANGED lineAddr
SetLineAddr(id, a) == lineAddr' = [lineAddr EXCEPT ![id] = a]

(***************************************************************************)
(* postinsert: replaced(victim) marks the line with -1 and records its hit *)
(* count under the address it held (address 0 if it held none); then the   *)
(* new tag; then update(victim), which finds the mark.                     *)
(***************************************************************************)
Insert ==
    LET id == op.victim
    IN  /\ op.at = "evict"
        /\ WriteTag(op.addr, id)
        /\ HHT' = UpdateHHT(lineAddr[id], CHC[id])
        /\ RPV' = [RPV EXCEPT ![id] = 2]
        /\ SetLineAddr(id, op.addr)
        /\ CHC' = [CHC EXCEPT ![id] = 0]
        /\ EFH' = [EFH EXCEPT ![id] = Expected(HHT', op.addr)]
        /\ op' = Idle
        /\ UNCHANGED best

Next ==
    \/ \E a \in Address : Hit(a) \/ Miss(a)
    \/ RankBottom \/ RankGiveUp \/ RankAge \/ Insert

(* An access that has started runs to its end. *)
Spec ==
    /\ Init /\ [][Next]_vars
    /\ WF_vars(RankBottom \/ RankGiveUp \/ RankAge \/ Insert)

-----------------------------------------------------------------------------
(* Types and ranges: the hit counter is below its limit between accesses,  *)
(* and a recency fits the ways of the table (4 bits for 16 ways).          *)
TypeOK ==
    /\ ArrayTypeOK
    /\ RPV \in [Lines -> 0..MaxRPV]
    /\ lineAddr \in [Lines -> Address \union {0}]
    /\ CHC \in [Lines -> 0..(CHCMax - 1)]
    /\ EFH \in [Lines -> 0..(EFHMod - 1)]
    /\ HHT \in [0..(HHTSets - 1) -> [Ways ->
                 [valid : BOOLEAN, tag : Nat, lru : Ways, hits : [Slots -> Counts]]]]
    /\ best \in [cand : Lines \union {-1}, score : Int]

(* In every set of the history table the valid ways form a prefix, hold    *)
(* distinct tags, and their recencies are exactly 0..n-1.  So a full set   *)
(* always has one entry of recency 15, addHHTEntry's victimWay is never    *)
(* left at -1, and searchHHT has one answer at most.                       *)
HHTSound == TypeOK /\
    \A s \in 0..(HHTSets - 1) :
        LET set == HHT[s]
            valid == {w \in Ways : set[w].valid}
        IN  /\ \A w \in valid : \A v \in Ways : v < w => v \in valid
            /\ \A v, w \in valid : v # w => set[v].tag # set[w].tag /\ set[v].lru # set[w].lru
            /\ \A w \in valid : set[w].lru \in valid

(* The policy's own copy of a line's address is the tag in the array, so   *)
(* that replaced() files the outgoing hit count under the right line.      *)
AddrTracksTag == \A id \in Lines : lineAddr[id] = array[id]

(* The policy replaces the block with the lowest expected number of        *)
(* further hits of its set, whatever path rank takes to its answer.        *)
VictimExpectsLeast ==
    op.at = "evict" =>
        /\ op.victim \in Cands(op.addr)
        /\ \A id \in Cands(op.addr) : EFH[op.victim] <= EFH[id]

(* Every miss ends: rank reaches -3 or finds all lines aged. *)
MissEnds == (op # Idle) ~> (op = Idle)

(* "Expected Further Hits down": what the comment in update() says a hit   *)
(* does to the expectation of the line.                                    *)
HitLowersExpectation ==
    [][\A a \in Address : Hit(a) => EFH'[Lookup(a)] <= EFH[Lookup(a)]]_vars
=============================================================================
