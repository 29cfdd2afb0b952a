------------------------------ MODULE EHCProofs ------------------------------
(***************************************************************************)
(* Proofs about EHC, for every number of sets and ways of the cache and of *)
(* the hit history table, every index and tag function and every counter   *)
(* width: every set of the table stays sound, the policy's copy of a       *)
(* line's address is the tag, and the victim expects the fewest hits.      *)
(*                                                                         *)
(* The inductive invariant adds what holds between the passes of rank: the *)
(* address that is being inserted is in no line, and the best score seen   *)
(* so far is not below that of every candidate, because aging only lowers  *)
(* scores.  So the last pass always replaces bestCand.                     *)
(***************************************************************************)
EXTENDS EHC, FiniteSetTheorems, WellFoundedInduction, TLAPS

(* The address of a miss in progress is not cached, and its victim is one *)
(* of its candidates.                                                     *)
Pending ==
    /\ op.at # "idle" => \A id \in Lines : array[id] # op.addr
    /\ op.at = "evict" => op.victim \in Cands(op.addr)

(* Some candidate scores no more than the best score that rank remembers. *)
BestAbove ==
    op.at = "rank" => \E id \in Cands(op.addr) : Score(id) <= best.score

IInv ==
    /\ HHTSound /\ TagsUnique /\ Pending /\ AddrTracksTag /\ BestAbove
    /\ VictimExpectsLeast

(* What HHTSound says of one set of the table. *)
Entries == [valid : BOOLEAN, tag : Nat, lru : Ways, hits : [Slots -> Counts]]
ValidWays(set) == {w \in Ways : set[w].valid}
SetSound(set) ==
    /\ \A w \in ValidWays(set) : \A v \in Ways : v < w => v \in ValidWays(set)
    /\ \A v, w \in ValidWays(set) : v # w => set[v].tag # set[w].tag /\ set[v].lru # set[w].lru
    /\ \A w \in ValidWays(set) : set[w].lru \in ValidWays(set)

-----------------------------------------------------------------------------
(* A set of natural numbers that is not empty has a least element. *)
LEMMA LeastNumber ==
    ASSUME NEW T, T \subseteq Nat, T # {}
    PROVE  \E x \in T : \A y \in T : x <= y
  <1> DEFINE R == OpToRel(<, Nat)
  <1>1. IsWellFoundedOn(R, Nat)
    BY NatLessThanWellFounded
  <1>2. \A x, y \in Nat : y < x => <<y, x>> \in R
    BY DEF OpToRel
  <1> HIDE DEF R
  <1>3. PICK x \in T : \A y \in T : ~(<<y, x>> \in R)
    BY <1>1, WFMin
  <1>4. \A y \in T : y \in Nat /\ ~(y < x)
    BY <1>2, <1>3
  <1>5. \A y \in T : x <= y
    BY <1>4
  <1> QED
    BY <1>5

(* One that is bounded has a greatest element: the one that is nearest to *)
(* the bound.                                                             *)
LEMMA GreatestNumber ==
    ASSUME NEW T, T \subseteq Int, T # {}, NEW n \in Int, \A x \in T : x <= n
    PROVE  \E x \in T : \A y \in T : y <= x
  <1> DEFINE D == {n - x : x \in T}
  <1>1. D \subseteq Nat
    <2>1. \A x \in T : n - x \in Nat
      OBVIOUS
    <2> QED
      BY <2>1
  <1>2. D # {}
    <2>1. PICK x \in T : TRUE
      OBVIOUS
    <2>2. n - x \in D
      OBVIOUS
    <2> QED
      BY <2>2
  <1>3. PICK d \in D : \A e \in D : d <= e
    BY <1>1, <1>2, LeastNumber
  <1>4. PICK x \in T : d = n - x
    BY <1>3
  <1>5. \A y \in T : y <= x
    BY <1>3, <1>4
  <1> QED
    BY <1>5

-----------------------------------------------------------------------------
(* The array.  The lines of a set are lines of it, and there is one at     *)
(* least.                                                                  *)
LEMMA CandsAreLines ==
    ASSUME NEW a \in Address
    PROVE  Cands(a) \subseteq Lines /\ Cands(a) # {}
  <1> DEFINE s == SetOf[a]
  <1>1. s \in Nat /\ s + 1 <= NumSets /\ NumSets \in Nat /\ Assoc \in Nat \ {0}
    BY ArrayAssumption
  <1> HIDE DEF s
  <1>2. (s + 1) * Assoc <= NumSets * Assoc
    BY <1>1
  <1>3. (s + 1) * Assoc = s * Assoc + Assoc
    BY <1>1
  <1>4. s * Assoc \in Nat /\ NumSets * Assoc \in Nat
    BY <1>1
  <1>5. s * Assoc \in Cands(a)
    BY <1>1, <1>4 DEF Cands, s
  <1>6. Cands(a) \subseteq Lines
    BY <1>1, <1>2, <1>3, <1>4 DEF Cands, Lines, s
  <1> QED
    BY <1>5, <1>6

(* An access is idle, ranks the candidates of an address, or has a victim. *)
LEMMA OpCases ==
    ASSUME ArrayTypeOK
    PROVE  \/ op = Idle /\ op.at = "idle"
           \/ op.at = "rank" /\ op.addr \in Address /\ op = Ranking(op.addr)
           \/ op.at = "evict" /\ op.addr \in Address /\ op.victim \in Lines
  BY DEF ArrayTypeOK, Idle, Ranking, Evicting

(* With unique tags lookup finds the line of an address, wherever it is. *)
LEMMA LookupExact ==
    ASSUME TagsUnique, NEW a \in Address
    PROVE  /\ Lookup(a) = -1 => \A id \in Lines : array[id] # a
           /\ Lookup(a) # -1 => Lookup(a) \in Lines /\ array[Lookup(a)] = a
  <1> DEFINE hits == {i \in Cands(a) : array[i] = a}
  <1>1. Cands(a) \subseteq Lines /\ Lines \subseteq Nat /\ a # 0
    BY CandsAreLines, ArrayAssumption DEF Lines
  <1>2. ASSUME NEW id \in Lines, array[id] = a PROVE hits = {id}
    BY <1>1, <1>2 DEF TagsUnique
  <1>3. CASE hits = {}
    BY <1>2, <1>3 DEF Lookup
  <1>4. CASE hits # {}
    <2>1. PICK id \in Lines : array[id] = a /\ hits = {id}
      BY <1>1, <1>2, <1>4
    <2>2. Lookup(a) = id
      BY <1>1, <2>1 DEF Lookup
    <2> QED
      BY <1>1, <2>1, <2>2
  <1> QED
    BY <1>3, <1>4

(* A miss starts on an address that is in no line. *)
LEMMA MissPending ==
    ASSUME TagsUnique, NEW a \in Address, Lookup(a) = -1, op' = Ranking(a), UNCHANGED array
    PROVE  Pending'
  <1>1. \A id \in Lines : array[id] # a
    BY LookupExact
  <1> QED
    BY <1>1 DEF Pending, Ranking, Lines

(* The new tag was in no line and goes to a line of its own set. *)
LEMMA InsertUnique ==
    ASSUME ArrayTypeOK, TagsUnique, Pending, op.at = "evict", WriteTag(op.addr, op.victim)
    PROVE  TagsUnique'
  <1> DEFINE a == op.addr
             v == op.victim
  <1>1. a \in Address /\ v \in Lines /\ v \in Cands(a) /\ a # 0
    BY OpCases, ArrayAssumption DEF Pending
  <1>2. \A id \in Lines : array[id] # a
    BY DEF Pending
  <1>3. \A id \in Lines : array'[id] = IF id = v THEN a ELSE array[id]
    BY <1>1 DEF ArrayTypeOK, WriteTag
  <1> QED
    BY <1>1, <1>2, <1>3 DEF TagsUnique, Lines, Cands
-----------------------------------------------------------------------------
(* HHTSound, a set at a time. *)
LEMMA SoundBySet ==
    HHTSound <=> TypeOK /\ \A s \in 0..(HHTSets - 1) : SetSound(HHT[s])
  BY DEF HHTSound, SetSound, ValidWays

(* addHHTEntry on a set with a way that was never used: the valid ways are *)
(* those below it, so that aging them leaves room for a recency of 0.      *)
LEMMA AddToFree ==
    ASSUME NEW set \in [Ways -> Entries], SetSound(set), ValidWays(set) # Ways
    PROVE  /\ VictimWay(set) \in Ways
           /\ ValidWays(set) = 0..(VictimWay(set) - 1)
  <1> DEFINE free == {w \in Ways : ~set[w].valid}
  <1>1. Ways \subseteq Nat
    BY DEF Ways
  <1>2. free # {} /\ free \subseteq Nat
    BY <1>1 DEF ValidWays
  <1>3. PICK v \in free : \A w \in free : v <= w
    BY <1>2, LeastNumber
  <1>4. VictimWay(set) = v
    <2>1. \A u \in free : (\A w \in free : u <= w) => u = v
      BY <1>2, <1>3
    <2> QED
      BY <1>2, <1>3, <2>1 DEF VictimWay
  <1>5. \A w \in Ways : w \in ValidWays(set) <=> w < v
    BY <1>1, <1>3 DEF SetSound, ValidWays
  <1>6. ValidWays(set) = 0..(v - 1)
    BY <1>1, <1>3, <1>5, EHCAssumption DEF Ways, ValidWays
  <1> QED
    BY <1>3, <1>4, <1>6

(* addHHTEntry on a full set: the recencies are a permutation of the ways, *)
(* so that exactly one entry has the largest one, and it is above 0.       *)
LEMMA AddToFull ==
    ASSUME NEW set \in [Ways -> Entries], SetSound(set), ValidWays(set) = Ways
    PROVE  /\ VictimWay(set) \in Ways
           /\ \A w \in Ways : w # VictimWay(set) => set[w].lru < HHTWays - 1
  <1> DEFINE f == [w \in Ways |-> set[w].lru]
             top == HHTWays - 1
             old == {w \in Ways : set[w].lru > 0 /\ \A v \in Ways : set[v].lru <= set[w].lru}
  <1>1. top \in Nat /\ top > 0 /\ Ways = 0..top
    BY EHCAssumption DEF Ways
  <1> HIDE DEF top
  <1>2. \A w \in Ways : set[w].lru \in Ways
    BY DEF Entries
  <1>3. \A v, w \in Ways : set[v].lru = set[w].lru => v = w
    BY DEF SetSound
  <1>4. f \in Injection(Ways, Ways)
    BY <1>2, <1>3 DEF Injection, IsInjective
  <1>5. IsFiniteSet(Ways)
    BY <1>1, FS_Interval
  <1>6. f \in Surjection(Ways, Ways)
    BY <1>4, <1>5, FS_Injection
  <1>7. PICK v \in Ways : set[v].lru = top
    <2>1. top \in Ways
      BY <1>1
    <2>2. \E v \in Ways : f[v] = top
      BY <1>6, <2>1 DEF Surjection
    <2> QED
      BY <2>2
  <1>8. old = {v}
    <2>1. v \in old
      BY <1>1, <1>2, <1>7
    <2>2. \A w \in old : set[w].lru = top
      BY <1>1, <1>2, <1>7
    <2> QED
      BY <1>3, <1>7, <2>1, <2>2
  <1>9. VictimWay(set) = v
    <2>1. {w \in Ways : ~set[w].valid} = {}
      BY DEF ValidWays
    <2>2. v <= v
      BY <1>1
    <2> QED
      BY <1>8, <2>1, <2>2 DEF VictimWay
  <1>10. ASSUME NEW w \in Ways, w # v PROVE set[w].lru < top
    <2>1. set[w].lru \in 0..top /\ set[w].lru # top
      BY <1>1, <1>2, <1>3, <1>7, <1>10
    <2> QED
      BY <1>1, <2>1
  <1> QED
    BY <1>7, <1>9, <1>10 DEF top

(* addHHTEntry leaves a sound set: the new entry is the only one with its  *)
(* tag, the valid ways are still a prefix, and the recencies still fill it.*)
LEMMA AddSound ==
    ASSUME NEW set \in [Ways -> Entries], SetSound(set), NEW tag \in Nat, NEW count \in Counts,
           Found(set, tag) = {}
    PROVE  AddEntry(set, tag, count) \in [Ways -> Entries] /\ SetSound(AddEntry(set, tag, count))
  <1> DEFINE v == VictimWay(set)
             new == AddEntry(set, tag, count)
             fresh == [valid |-> TRUE, tag |-> tag, lru |-> 0,
                       hits |-> [i \in Slots |-> IF i = 1 THEN count ELSE 0]]
             aged(w) == IF set[w].valid THEN [set[w] EXCEPT !.lru = @ + 1] ELSE set[w]
             V == ValidWays(set)
  <1>1. Ways \subseteq Nat /\ 0 \in Ways /\ 0 \in Counts /\ HHTWays \in Nat
    BY EHCAssumption DEF Ways, Counts
  <1>2. \A w \in Ways : set[w] \in Entries /\ set[w].lru \in Ways /\ set[w].lru \in Nat
    BY <1>1 DEF Entries
  <1>3. /\ v \in Ways
        /\ \A w \in V : w # v => set[w].lru + 1 \in Ways
        /\ \A u \in Ways : u < v => u \in V
        /\ \A w \in V : w # v => set[w].lru + 1 \in V \union {v}
    <2>1. CASE V = Ways
      <3>1. v \in Ways /\ \A w \in Ways : w # v => set[w].lru < HHTWays - 1
        BY <2>1, AddToFull
      <3>2. \A w \in Ways : w # v => set[w].lru + 1 \in Ways
        BY <1>1, <1>2, <3>1 DEF Ways
      <3> QED
        BY <2>1, <3>1, <3>2
    <2>2. CASE V # Ways
      <3>1. v \in Ways /\ V = 0..(v - 1)
        BY <2>2, AddToFree
      <3>2. \A w \in V : set[w].lru \in V
        BY DEF SetSound
      <3>3. \A w \in V : set[w].lru + 1 \in 0..v
        <4>1. v \in Nat /\ \A w \in V : set[w].lru \in 0..(v - 1)
          BY <1>1, <3>1, <3>2
        <4> HIDE DEF v, V
        <4> QED
          BY <4>1
      <3>4. 0..v \subseteq Ways /\ 0..v = V \union {v}
        BY <1>1, <3>1 DEF Ways
      <3> QED
        BY <1>1, <3>1, <3>3, <3>4
    <2> QED
      BY <2>1, <2>2
  <1> HIDE DEF v, V
  <1>4. new = [w \in Ways |-> IF w = v THEN fresh ELSE aged(w)]
    BY DEF AddEntry, v
  <1> HIDE DEF new
  <1>5. fresh \in Entries
    BY <1>1 DEF Entries
  <1>6. \A w \in Ways : w \in V => set[w].valid
    BY DEF V, ValidWays
  <1>7. \A w \in Ways : w \notin V => ~set[w].valid
    BY DEF V, ValidWays
  <1>8. ASSUME NEW w \in Ways, w # v PROVE aged(w) \in Entries
    <2>1. CASE w \in V
      BY <1>2, <1>3, <1>6, <1>8, <2>1 DEF Entries
    <2>2. CASE w \notin V
      BY <1>2, <1>7, <2>2
    <2> QED
      BY <2>1, <2>2
  <1>9. new \in [Ways -> Entries]
    BY <1>4, <1>5, <1>8
  <1>10. new[v].valid /\ new[v].tag = tag /\ new[v].lru = 0
    BY <1>3, <1>4
  <1>11. ASSUME NEW w \in Ways, w # v
         PROVE  /\ w \in V => new[w].valid /\ new[w].tag = set[w].tag /\ new[w].lru = set[w].lru + 1
                /\ w \notin V => ~new[w].valid
    <2>1. new[w] = aged(w)
      BY <1>4, <1>11
    <2>2. CASE w \in V
      BY <1>2, <1>6, <2>1, <2>2 DEF Entries
    <2>3. CASE w \notin V
      BY <1>7, <2>1, <2>3
    <2> QED
      BY <2>2, <2>3
  <1>12. ValidWays(new) = V \union {v}
    <2>1. V \subseteq Ways
      BY DEF V, ValidWays
    <2>2. \A w \in Ways : new[w].valid <=> w \in V \union {v}
      BY <1>3, <1>10, <1>11
    <2> QED
      BY <1>3, <2>1, <2>2 DEF ValidWays
  <1>13. SetSound(new)
    <2>1. \A w \in V : w \in Ways /\ set[w].valid /\ set[w].tag # tag
      BY DEF V, ValidWays, Found
    <2>2. ASSUME NEW w \in V \union {v}, NEW u \in Ways, u < w PROVE u \in V \union {v}
      BY <1>3, <2>2 DEF SetSound, V
    <2>3. ASSUME NEW u \in V \union {v}, NEW w \in V \union {v}, u # w
          PROVE  new[u].tag # new[w].tag /\ new[u].lru # new[w].lru
      <3>1. CASE u = v
        BY <1>2, <1>10, <1>11, <2>1, <2>3, <3>1
      <3>2. CASE w = v
        BY <1>2, <1>10, <1>11, <2>1, <2>3, <3>2
      <3>3. CASE u # v /\ w # v
        <4>1. u \in V /\ w \in V /\ u \in Ways /\ w \in Ways
          BY <2>1, <3>3
        <4>2. set[u].tag # set[w].tag /\ set[u].lru # set[w].lru
          BY <2>3, <4>1 DEF SetSound, V
        <4> QED
          BY <1>2, <1>11, <3>3, <4>1, <4>2
      <3> QED
        BY <3>1, <3>2, <3>3
    <2>4. ASSUME NEW w \in V \union {v} PROVE new[w].lru \in V \union {v}
      <3>1. CASE w = v
        <4>1. 0 = v \/ 0 < v
          BY <1>1, <1>3
        <4> QED
          BY <1>1, <1>3, <1>10, <3>1, <4>1
      <3>2. CASE w # v
        BY <1>3, <1>11, <2>1, <3>2
      <3> QED
        BY <3>1, <3>2
    <2> QED
      BY <1>12, <2>2, <2>3, <2>4 DEF SetSound
  <1> QED
    BY <1>9, <1>13 DEF new

(* updateHHT on an entry that is there changes its queue only. *)
LEMMA PushSound ==
    ASSUME NEW set \in [Ways -> Entries], SetSound(set), NEW tag \in Nat, NEW count \in Counts
    PROVE  PushCount(set, tag, count) \in [Ways -> Entries] /\ SetSound(PushCount(set, tag, count))
  <1> DEFINE new == PushCount(set, tag, count)
             queue(w) == [i \in Slots |-> IF i = 1 THEN count ELSE set[w].hits[i - 1]]
             pushed(w) == [set[w] EXCEPT !.hits = queue(w)]
  <1>1. new = [w \in Ways |-> IF w \in Found(set, tag) THEN pushed(w) ELSE set[w]]
    BY DEF PushCount
  <1>2. \A w \in Ways : set[w] \in Entries
    OBVIOUS
  <1>3. ASSUME NEW w \in Ways PROVE queue(w) \in [Slots -> Counts]
    <2>1. set[w].hits \in [Slots -> Counts]
      BY <1>2 DEF Entries
    <2>2. \A i \in Slots : i # 1 => i - 1 \in Slots
      BY DEF Slots
    <2> QED
      BY <2>1, <2>2
  <1> HIDE DEF new, queue
  <1>4. \A w \in Ways : pushed(w) \in Entries
    BY <1>2, <1>3 DEF Entries
  <1>5. new \in [Ways -> Entries]
    BY <1>1, <1>2, <1>4
  <1>6. ASSUME NEW w \in Ways
        PROVE  new[w].valid = set[w].valid /\ new[w].tag = set[w].tag /\ new[w].lru = set[w].lru
    BY <1>1, <1>2 DEF Entries
  <1>7. ValidWays(new) = ValidWays(set) /\ ValidWays(set) \subseteq Ways
    BY <1>6 DEF ValidWays
  <1>8. SetSound(new)
    BY <1>6, <1>7 DEF SetSound
  <1> QED
    BY <1>5, <1>8 DEF new

(* So updateHHT keeps the table sound, whatever line it files. *)
LEMMA UpdateSound ==
    ASSUME HHTSound, NEW a \in Address \union {0}, NEW count \in Counts
    PROVE  /\ UpdateHHT(a, count) \in [0..(HHTSets - 1) -> [Ways -> Entries]]
           /\ \A s \in 0..(HHTSets - 1) : SetSound(UpdateHHT(a, count)[s])
  <1> DEFINE i == HHTIndex[a]
             tag == HHTTag[a]
             set == HHT[i]
             new == IF Found(set, tag) = {} THEN AddEntry(set, tag, count)
                                            ELSE PushCount(set, tag, count)
  <1>1. i \in 0..(HHTSets - 1) /\ tag \in Nat
    BY EHCAssumption
  <1>2. HHT \in [0..(HHTSets - 1) -> [Ways -> Entries]]
    BY SoundBySet DEF TypeOK, Entries
  <1>3. \A s \in 0..(HHTSets - 1) : SetSound(HHT[s])
    BY SoundBySet
  <1>4. UpdateHHT(a, count) = [HHT EXCEPT ![i] = new]
    BY <1>1, <1>2 DEF UpdateHHT
  <1>5. set \in [Ways -> Entries] /\ SetSound(set)
    BY <1>1, <1>2, <1>3
  <1> HIDE DEF i, tag, set
  <1>6. new \in [Ways -> Entries] /\ SetSound(new)
    BY <1>1, <1>5, AddSound, PushSound
  <1> QED
    BY <1>1, <1>2, <1>3, <1>4, <1>6

(* The mean of four counters is no more than the largest of them can be. *)
LEMMA ExpectedRange ==
    ASSUME NEW hht \in [0..(HHTSets - 1) -> [Ways -> Entries]], NEW a \in Address
    PROVE  Expected(hht, a) \in 0..(EFHMod - 1)
  <1> DEFINE set == hht[HHTIndex[a]]
             ws == Found(set, HHTTag[a])
             w == CHOOSE x \in ws : TRUE
             q == set[w].hits
  <1>1. CHCMax \in Nat /\ EFHMod \in Nat /\ 0 < CHCMax /\ CHCMax < EFHMod
    BY EHCAssumption
  <1>2. CASE ws = {}
    <2>1. Expected(hht, a) = 1
      BY <1>2 DEF Expected
    <2> QED
      BY <1>1, <2>1
  <1>3. CASE ws # {}
    <2>1. w \in Ways
      BY <1>3 DEF Found
    <2>2. HHTIndex[a] \in 0..(HHTSets - 1)
      BY EHCAssumption
    <2>3. q \in [Slots -> Counts]
      BY <2>1, <2>2 DEF Entries
    <2>4. Expected(hht, a) = (q[1] + q[2] + q[3] + q[4] + 2) \div 4
      BY <1>3 DEF Expected
    <2> HIDE DEF q
    <2>5. q[1] \in 0..CHCMax /\ q[2] \in 0..CHCMax /\ q[3] \in 0..CHCMax /\ q[4] \in 0..CHCMax
      BY <2>3 DEF Slots, Counts
    <2> QED
      BY <1>1, <2>4, <2>5, SMTT(30)
  <1> QED
    BY <1>2, <1>3

(* A pass of rank always ends with a candidate of the lowest score: what   *)
(* an earlier pass remembered is not lower.                                *)
LEMMA PassBestLeast ==
    ASSUME TypeOK, NEW a \in Address, \E id \in Cands(a) : Score(id) <= best.score
    PROVE  LET p == PassBest(a)
           IN  /\ p.cand \in Cands(a) /\ p.score = Score(p.cand)
               /\ \A j \in Cands(a) : Score(p.cand) <= Score(j)
  <1> DEFINE lowest == {id \in Cands(a) : \A j \in Cands(a) : Score(id) <= Score(j)}
             last == CHOOSE id \in lowest : \A j \in lowest : j <= id
             D == {Score(id) + 3 : id \in Cands(a)}
  <1>1. \A id \in Cands(a) : id \in Lines /\ id \in Int /\ Score(id) \in Int /\ Score(id) >= -3
    <2>1. \A id \in Cands(a) : id \in Lines /\ RPV[id] \in 0..3 /\ EFH[id] \in 0..(EFHMod - 1)
      BY CandsAreLines DEF TypeOK, MaxRPV
    <2>2. Lines \subseteq Int /\ EFHMod \in Nat
      BY EHCAssumption DEF Lines
    <2>3. ASSUME NEW id \in Cands(a) PROVE Score(id) \in Int /\ Score(id) >= -3
      <3>1. RPV[id] \in 0..3 /\ EFH[id] \in Nat
        BY <2>1, <2>2
      <3> QED
        BY <3>1 DEF Score
    <2> QED
      BY <2>1, <2>2, <2>3
  <1>2. D \subseteq Nat /\ D # {}
    BY <1>1, CandsAreLines
  <1>3. PICK d \in D : \A e \in D : d <= e
    BY <1>2, LeastNumber
  <1>4. PICK m \in Cands(a) : d = Score(m) + 3
    BY <1>3
  <1>5. m \in lowest
    <2>1. ASSUME NEW j \in Cands(a) PROVE Score(m) <= Score(j)
      <3>1. Score(j) + 3 \in D
        OBVIOUS
      <3>2. Score(m) + 3 <= Score(j) + 3
        BY <1>3, <1>4, <3>1
      <3> QED
        BY <1>1, <3>2
    <2> QED
      BY <2>1
  <1>6. PICK x \in lowest : \A y \in lowest : y <= x
    <2>1. lowest \subseteq Int /\ lowest # {}
      BY <1>1, <1>5
    <2>2. NumSets * Assoc - 1 \in Int
      BY ArrayAssumption
    <2>3. \A y \in lowest : y <= NumSets * Assoc - 1
      BY <1>1, <2>2 DEF Lines
    <2> HIDE DEF lowest
    <2> QED
      BY <2>1, <2>2, <2>3, GreatestNumber
  <1>7. last \in lowest
    BY <1>6
  <1>8. Score(last) <= best.score
    <2>1. PICK id \in Cands(a) : Score(id) <= best.score
      OBVIOUS
    <2>2. Score(last) <= Score(id) /\ last \in Cands(a)
      BY <1>7
    <2>3. best.score \in Int
      BY DEF TypeOK
    <2> QED
      BY <1>1, <2>1, <2>2, <2>3
  <1>9. PassBest(a) = [cand |-> last, score |-> Score(last)]
    BY <1>8 DEF PassBest
  <1> HIDE DEF last
  <1> QED
    BY <1>7, <1>9

-----------------------------------------------------------------------------
(* The empty cache and the empty table. *)
LEMMA InitIInv == Init => IInv
  <1> SUFFICES ASSUME Init PROVE IInv
    OBVIOUS
  <1> USE DEF Init, ArrayInit
  <1>1. EmptyEntry \in Entries
    BY EHCAssumption DEF EmptyEntry, Entries, Ways, Counts
  <1>2. HHT \in [0..(HHTSets - 1) -> [Ways -> Entries]]
    BY <1>1
  <1>3. TypeOK
    <2>1. best \in [cand : Lines \union {-1}, score : Int]
      BY EHCAssumption DEF NoBest
    <2>2. ArrayTypeOK
      BY DEF ArrayTypeOK
    <2>3. /\ RPV \in [Lines -> 0..MaxRPV] /\ lineAddr \in [Lines -> Address \union {0}]
          /\ CHC \in [Lines -> 0..(CHCMax - 1)] /\ EFH \in [Lines -> 0..(EFHMod - 1)]
      BY EHCAssumption DEF MaxRPV
    <2> QED
      BY <1>2, <2>1, <2>2, <2>3 DEF TypeOK, Entries
  <1>4. \A s \in 0..(HHTSets - 1) : ValidWays(HHT[s]) = {}
    BY DEF ValidWays, EmptyEntry
  <1>5. HHTSound
    BY <1>3, <1>4, SoundBySet DEF SetSound
  <1>6. op.at = "idle"
    BY DEF Idle
  <1> QED
    BY <1>5, <1>6 DEF IInv, TagsUnique, Pending, AddrTracksTag, BestAbove, VictimExpectsLeast

(* A hit changes the counters of one line, and may file its count. *)
LEMMA HitIInv == ASSUME IInv, NEW a \in Address, Hit(a) PROVE IInv'
  <1> DEFINE id == Lookup(a)
  <1>1. HHTSound /\ TypeOK /\ TagsUnique /\ op = Idle /\ op.at = "idle"
    BY SoundBySet DEF IInv, Hit, Idle
  <1>2. id \in Lines
    BY <1>1, LookupExact DEF Hit
  <1>3. /\ UNCHANGED <<array, op, lineAddr, best>>
        /\ RPV' = [RPV EXCEPT ![id] = 0]
        /\ EFH' = [EFH EXCEPT ![id] = (@ - 1) % EFHMod]
    BY DEF Hit
  <1>4. /\ CHC' \in [Lines -> 0..(CHCMax - 1)]
        /\ HHT' \in [0..(HHTSets - 1) -> [Ways -> Entries]]
        /\ \A s \in 0..(HHTSets - 1) : SetSound(HHT'[s])
    <2>1. CASE CHC[id] + 1 = CHCMax
      <3>1. HHT' = UpdateHHT(a, CHCMax) /\ CHC' = [CHC EXCEPT ![id] = 0]
        BY <2>1 DEF Hit
      <3>2. CHCMax \in Counts
        BY EHCAssumption DEF Counts
      <3> QED
        BY <1>1, <1>2, <3>1, <3>2, UpdateSound, EHCAssumption DEF TypeOK
    <2>2. CASE CHC[id] + 1 # CHCMax
      <3>1. HHT' = HHT /\ CHC' = [CHC EXCEPT ![id] = @ + 1]
        BY <2>2 DEF Hit
      <3>2. CHC[id] \in 0..(CHCMax - 1)
        BY <1>1, <1>2 DEF TypeOK
      <3>3. CHC[id] + 1 \in 0..(CHCMax - 1)
        BY <2>2, <3>2, EHCAssumption
      <3> QED
        BY <1>1, <1>2, <3>1, <3>3, SoundBySet DEF TypeOK, Entries
    <2> QED
      BY <2>1, <2>2
  <1> HIDE DEF id
  <1>5. EFH' \in [Lines -> 0..(EFHMod - 1)]
    <2>1. \A n \in 0..(EFHMod - 1) : (n - 1) % EFHMod \in 0..(EFHMod - 1)
      BY EHCAssumption
    <2> QED
      BY <1>1, <1>2, <1>3, <2>1 DEF TypeOK
  <1>6. TypeOK'
    BY <1>1, <1>2, <1>3, <1>4, <1>5 DEF TypeOK, ArrayTypeOK, Entries, MaxRPV
  <1>7. HHTSound'
    BY <1>4, <1>6 DEF HHTSound, SetSound, ValidWays
  <1> QED
    BY <1>1, <1>3, <1>7
       DEF IInv, TagsUnique, Pending, AddrTracksTag, BestAbove, VictimExpectsLeast, Lines, Cands

(* A miss starts with no best candidate: any score is lower. *)
LEMMA MissIInv == ASSUME IInv, NEW a \in Address, Miss(a) PROVE IInv'
  <1>1. HHTSound /\ TypeOK /\ TagsUnique
    BY SoundBySet DEF IInv
  <1>2. op' = Ranking(a) /\ op'.at = "rank" /\ op'.addr = a /\ best' = NoBest
    BY DEF Miss, Ranking
  <1>3. UNCHANGED <<array, RPV, lineAddr, CHC, EFH, HHT>>
    BY DEF Miss
  <1>4. TypeOK'
    <2>1. NoBest \in [cand : Lines \union {-1}, score : Int]
      BY EHCAssumption DEF NoBest
    <2>2. ArrayTypeOK'
      BY <1>1, <1>2, <1>3 DEF TypeOK, ArrayTypeOK
    <2> QED
      BY <1>1, <1>2, <1>3, <2>1, <2>2 DEF TypeOK
  <1>5. Pending'
    BY <1>1, <1>2, <1>3, MissPending DEF Miss
  <1>6. BestAbove'
    <2>1. PICK id \in Cands(a) : id \in Lines
      BY CandsAreLines
    <2>2. RPV[id] \in 0..3 /\ EFH[id] \in 0..(EFHMod - 1)
      BY <1>1, <2>1 DEF TypeOK, MaxRPV
    <2>3. EFH'[id] - RPV'[id] <= best'.score
      BY <1>2, <1>3, <2>2, EHCAssumption DEF NoBest
    <2> QED
      BY <1>2, <2>1, <2>3 DEF BestAbove, Score, Cands
  <1>7. HHTSound'
    BY <1>1, <1>3, <1>4 DEF HHTSound
  <1> QED
    BY <1>2, <1>3, <1>5, <1>6, <1>7
       DEF IInv, TagsUnique, AddrTracksTag, VictimExpectsLeast, Lines

(* rank answers with a candidate of which no other expects less. *)
LEMMA ChosenIInv ==
    ASSUME IInv, op.at = "rank", NEW v \in Cands(op.addr), op' = Evicting(op.addr, v),
           \A j \in Cands(op.addr) : EFH[v] <= EFH[j],
           best' = NoBest, UNCHANGED <<array, RPV, lineAddr, CHC, EFH, HHT>>
    PROVE  IInv'
  <1>1. HHTSound /\ TypeOK /\ op.addr \in Address
    BY OpCases, SoundBySet DEF IInv, TypeOK
  <1>2. op'.at = "evict" /\ op'.addr = op.addr /\ op'.victim = v
    BY DEF Evicting
  <1>3. v \in Lines
    BY <1>1, CandsAreLines
  <1>4. TypeOK'
    <2>1. NoBest \in [cand : Lines \union {-1}, score : Int]
      BY EHCAssumption DEF NoBest
    <2>2. ArrayTypeOK'
      BY <1>1, <1>3 DEF TypeOK, ArrayTypeOK
    <2> QED
      BY <1>1, <2>1, <2>2 DEF TypeOK
  <1>5. HHTSound'
    BY <1>1, <1>4 DEF HHTSound
  <1>6. Pending'
    BY <1>2 DEF IInv, Pending, Cands, Lines
  <1>7. VictimExpectsLeast'
    BY <1>2 DEF VictimExpectsLeast, Cands
  <1> QED
    BY <1>2, <1>5, <1>6, <1>7 DEF IInv, TagsUnique, AddrTracksTag, BestAbove, Lines

(* A score of -3: nothing is expected of that line any more. *)
LEMMA RankBottomIInv == ASSUME IInv, RankBottom PROVE IInv'
  <1>1. TypeOK /\ op.at = "rank" /\ op.addr \in Address
    BY OpCases, SoundBySet DEF IInv, TypeOK, RankBottom
  <1>2. PICK v \in Bottom(op.addr) : op' = Evicting(op.addr, v)
    BY DEF RankBottom
  <1>3. \A j \in Cands(op.addr) : RPV[j] \in 0..3 /\ EFH[j] \in 0..(EFHMod - 1)
    BY <1>1, CandsAreLines DEF TypeOK, MaxRPV
  <1>4. v \in Cands(op.addr) /\ EFH[v] = 0
    BY <1>2, <1>3, EHCAssumption DEF Bottom, Score
  <1>5. \A j \in Cands(op.addr) : EFH[v] <= EFH[j]
    BY <1>3, <1>4, EHCAssumption
  <1> QED
    BY <1>1, <1>2, <1>4, <1>5, ChosenIInv DEF RankBottom

(* All lines at 3: the lowest score is the lowest expectation. *)
LEMMA RankGiveUpIInv == ASSUME IInv, RankGiveUp PROVE IInv'
  <1> DEFINE v == PassBest(op.addr).cand
  <1>1. TypeOK /\ op.at = "rank" /\ op.addr \in Address
    BY OpCases, SoundBySet DEF IInv, TypeOK, RankGiveUp
  <1>2. v \in Cands(op.addr) /\ \A j \in Cands(op.addr) : Score(v) <= Score(j)
    BY <1>1, PassBestLeast DEF IInv, BestAbove
  <1>3. op' = Evicting(op.addr, v)
    BY DEF RankGiveUp
  <1> HIDE DEF v
  <1>4. \A j \in Cands(op.addr) : RPV[j] = 3 /\ EFH[j] \in 0..(EFHMod - 1)
    BY <1>1, CandsAreLines DEF RankGiveUp, AllAged, TypeOK
  <1>5. \A j \in Cands(op.addr) : EFH[v] <= EFH[j]
    BY <1>2, <1>4, EHCAssumption DEF Score
  <1> QED
    BY <1>1, <1>2, <1>3, <1>5, ChosenIInv DEF RankGiveUp

(* A pass that ages: the scores fall, so what it remembers stays above. *)
LEMMA RankAgeIInv == ASSUME IInv, RankAge PROVE IInv'
  <1> DEFINE a == op.addr
             p == PassBest(a)
  <1>1. HHTSound /\ TypeOK /\ op.at = "rank" /\ a \in Address
    BY OpCases, SoundBySet DEF IInv, TypeOK, RankAge
  <1>2. p.cand \in Cands(a) /\ p.score = Score(p.cand)
    BY <1>1, PassBestLeast DEF IInv, BestAbove
  <1>3. best' = p /\ UNCHANGED <<array, op, lineAddr, CHC, EFH, HHT>>
    BY DEF RankAge
  <1>4. p = best \/ p = [cand |-> p.cand, score |-> p.score]
    BY DEF PassBest
  <1> HIDE DEF p
  <1>5. p.cand \in Lines
    BY <1>1, <1>2, CandsAreLines
  <1>6. /\ RPV[p.cand] \in 0..3 /\ EFH[p.cand] \in 0..(EFHMod - 1) /\ EFHMod \in Nat
        /\ RPV' = [id \in Lines |-> IF RPV[id] < 3 THEN RPV[id] + 1 ELSE RPV[id]]
    BY <1>1, <1>5, EHCAssumption DEF TypeOK, MaxRPV, RankAge
  <1>7. p \in [cand : Lines \union {-1}, score : Int]
    BY <1>1, <1>2, <1>4, <1>5, <1>6 DEF Score, TypeOK
  <1>8. TypeOK'
    BY <1>1, <1>3, <1>6, <1>7 DEF TypeOK, ArrayTypeOK, MaxRPV
  <1>9. HHTSound'
    BY <1>1, <1>3, <1>8 DEF HHTSound
  <1>10. BestAbove'
    <2>1. EFH'[p.cand] - RPV'[p.cand] <= best'.score
      BY <1>2, <1>3, <1>5, <1>6 DEF Score
    <2> QED
      BY <1>2, <1>3, <2>1 DEF BestAbove, Score, Cands
  <1> QED
    BY <1>1, <1>3, <1>9, <1>10
       DEF IInv, TagsUnique, Pending, AddrTracksTag, VictimExpectsLeast, Lines, Cands

(* The new line goes in, and the count of the old one into the table. *)
LEMMA InsertIInv == ASSUME IInv, Insert PROVE IInv'
  <1> DEFINE a == op.addr
             v == op.victim
  <1>1. HHTSound /\ TypeOK /\ TagsUnique /\ Pending /\ AddrTracksTag
    BY SoundBySet DEF IInv
  <1>2. op.at = "evict" /\ a \in Address /\ v \in Lines
    BY <1>1, OpCases DEF Insert, TypeOK
  <1>3. /\ array' = [array EXCEPT ![v] = a]
        /\ HHT' = UpdateHHT(lineAddr[v], CHC[v])
        /\ RPV' = [RPV EXCEPT ![v] = 2]
        /\ lineAddr' = [lineAddr EXCEPT ![v] = a]
        /\ CHC' = [CHC EXCEPT ![v] = 0]
        /\ EFH' = [EFH EXCEPT ![v] = Expected(HHT', a)]
        /\ op' = Idle /\ UNCHANGED best
    BY DEF Insert, WriteTag, SetLineAddr
  <1>4. TagsUnique'
    BY <1>1, InsertUnique DEF TypeOK, Insert
  <1> HIDE DEF a, v
  <1>5. lineAddr[v] \in Address \union {0} /\ CHC[v] \in Counts
    BY <1>1, <1>2, EHCAssumption DEF TypeOK, Counts
  <1>6. /\ HHT' \in [0..(HHTSets - 1) -> [Ways -> Entries]]
        /\ \A s \in 0..(HHTSets - 1) : SetSound(HHT'[s])
    BY <1>1, <1>3, <1>5, UpdateSound
  <1>7. Expected(HHT', a) \in 0..(EFHMod - 1)
    BY <1>2, <1>6, ExpectedRange
  <1>8. TypeOK'
    <2>1. ArrayTypeOK'
      BY <1>1, <1>2, <1>3 DEF TypeOK, ArrayTypeOK
    <2>2. RPV' \in [Lines -> 0..MaxRPV] /\ lineAddr' \in [Lines -> Address \union {0}]
      BY <1>1, <1>2, <1>3 DEF TypeOK, MaxRPV
    <2>3. CHC' \in [Lines -> 0..(CHCMax - 1)] /\ EFH' \in [Lines -> 0..(EFHMod - 1)]
      BY <1>1, <1>2, <1>3, <1>7, EHCAssumption DEF TypeOK
    <2>4. best' \in [cand : Lines \union {-1}, score : Int]
      BY <1>1, <1>3 DEF TypeOK
    <2> QED
      BY <1>6, <2>1, <2>2, <2>3, <2>4 DEF TypeOK, Entries
  <1>9. HHTSound'
    BY <1>6, <1>8 DEF HHTSound, SetSound, ValidWays
  <1>10. AddrTracksTag'
    BY <1>1, <1>2, <1>3 DEF AddrTracksTag, TypeOK, ArrayTypeOK, Lines
  <1>11. op'.at = "idle"
    BY <1>3 DEF Idle
  <1> QED
    BY <1>4, <1>9, <1>10, <1>11 DEF IInv, Pending, BestAbove, VictimExpectsLeast

LEMMA StutterIInv == IInv /\ UNCHANGED vars => IInv'
  <1> SUFFICES ASSUME IInv, UNCHANGED vars PROVE IInv'
    OBVIOUS
  <1>1. UNCHANGED <<array, op, RPV, lineAddr, CHC, EFH, HHT, best>>
    BY DEF vars, ehcVars
  <1>2. HHTSound'
    BY <1>1 DEF IInv, HHTSound, TypeOK, ArrayTypeOK
  <1> QED
    BY <1>1, <1>2 DEF IInv, TagsUnique, Pending, AddrTracksTag, BestAbove,
                      VictimExpectsLeast, Score, Lines, Cands

(* The inductive invariant holds in every state, whatever the accesses. *)
THEOREM Invariance == Spec => []IInv
  <1>1. IInv /\ [Next]_vars => IInv'
    BY HitIInv, MissIInv, RankBottomIInv, RankGiveUpIInv, RankAgeIInv, InsertIInv, StutterIInv
       DEF Next
  <1> QED
    BY InitIInv, <1>1, PTL DEF Spec

(* Types, and the hit history table: in every set the valid ways form a    *)
(* prefix with distinct tags and the recencies 0..n-1, so addHHTEntry      *)
(* always finds a victim and no recency outgrows its field.                *)
THEOREM TableSound == Spec => []HHTSound
  <1>1. IInv => HHTSound
    BY DEF IInv
  <1> QED
    BY Invariance, <1>1, PTL

(* replaced() files the hit count of a line under the address it held. *)
THEOREM AddressFollows == Spec => []AddrTracksTag
  <1>1. IInv => AddrTracksTag
    BY DEF IInv
  <1> QED
    BY Invariance, <1>1, PTL

(* The victim expects no more hits than any other line of its set, after   *)
(* any number of passes of rank.                                           *)
THEOREM LeastExpectedEvicted == Spec => []VictimExpectsLeast
  <1>1. IInv => VictimExpectsLeast
    BY DEF IInv
  <1> QED
    BY Invariance, <1>1, PTL
=============================================================================
