----------------------------- MODULE RRIPProofs -----------------------------
(***************************************************************************)
(* Proofs about RRIP, for every number of sets and ways, every address and *)
(* signature function and every counter width: tags are unique, the victim *)
(* is the line that was the oldest when the miss began, SHiP's metadata    *)
(* describes the line it is stored with, and only a line that leaves       *)
(* without a hit lowers a counter.                                         *)
(*                                                                         *)
(* The inductive invariant adds what holds between the steps of a miss:    *)
(* the address that is being inserted is in no line, the candidates have   *)
(* aged together, and no line is flagged as just inserted outside Insert.  *)
(***************************************************************************)
EXTENDS RRIP, TLAPS

(* The address of a miss in progress is not cached, and its victim is one *)
(* of its candidates.                                                     *)
Pending ==
    /\ op.at # "idle" => \A id \in Lines : array[id] # op.addr
    /\ op.at = "evict" => op.victim \in Cands(op.addr)

(* rank has added the same number to every candidate. *)
AgedTogether ==
    op.at = "rank" =>
        \A i, j \in Cands(op.addr) : rpv[i] - before[i] = rpv[j] - before[j]

(* replaced() and the update() of the same line leave no flag behind. *)
NoFlag == inserted = {}

(* A line that was never filled has the block_meta SHiP started with. *)
ColdMeta ==
    \A id \in Lines : array[id] = 0 =>
        /\ id \notin reused
        /\ policy = "SHiP" => meta[id] = [signature |-> 0, outcome |-> FALSE]

IInv ==
    /\ TypeOK /\ TagsUnique /\ Pending /\ AgedTogether /\ VictimWasOldest
    /\ NoFlag /\ ColdMeta /\ MetaTracksLine

-----------------------------------------------------------------------------
(* The array.  The lines of a set are lines of it, and there is one at     *)
(* least.                                                                  *)
LEMMA CandsAreLines ==
    ASSUME NEW a \in Address
    PROVE  Cands(a) \subseteq Lines /\ Cands(a) # {}
  <1> DEFINE s == SetOf[a]
  <1>1. s \in Nat /\ s + 1 <= NumSets /\ NumSets \in Nat /\ Assoc \in Nat \ {0}
    BY ArrayAssumption
  <1> HIDE DEF s
  <1>2. (s + 1) * Assoc <= NumSets * Assoc
    BY <1>1
  <1>3. (s + 1) * Assoc = s * Assoc + Assoc
    BY <1>1
  <1>4. s * Assoc \in Nat /\ NumSets * Assoc \in Nat
    BY <1>1
  <1>5. s * Assoc \in Cands(a)
    BY <1>1, <1>4 DEF Cands, s
  <1>6. Cands(a) \subseteq Lines
    BY <1>1, <1>2, <1>3, <1>4 DEF Cands, Lines, s
  <1> QED
    BY <1>5, <1>6

(* An access is idle, ranks the candidates of an address, or has a victim. *)
LEMMA OpCases ==
    ASSUME ArrayTypeOK
    PROVE  \/ op = Idle /\ op.at = "idle"
           \/ op.at = "rank" /\ op.addr \in Address /\ op = Ranking(op.addr)
           \/ op.at = "evict" /\ op.addr \in Address /\ op.victim \in Lines
  BY DEF ArrayTypeOK, Idle, Ranking, Evicting

(* With unique tags lookup finds the line of an address, wherever it is. *)
LEMMA LookupExact ==
    ASSUME TagsUnique, NEW a \in Address
    PROVE  /\ Lookup(a) = -1 => \A id \in Lines : array[id] # a
           /\ Lookup(a) # -1 => Lookup(a) \in Lines /\ array[Lookup(a)] = a
  <1> DEFINE hits == {i \in Cands(a) : array[i] = a}
  <1>1. Cands(a) \subseteq Lines /\ Lines \subseteq Nat /\ a # 0
    BY CandsAreLines, ArrayAssumption DEF Lines
  <1>2. ASSUME NEW id \in Lines, array[id] = a PROVE hits = {id}
    BY <1>1, <1>2 DEF TagsUnique
  <1>3. CASE hits = {}
    BY <1>2, <1>3 DEF Lookup
  <1>4. CASE hits # {}
    <2>1. PICK id \in Lines : array[id] = a /\ hits = {id}
      BY <1>1, <1>2, <1>4
    <2>2. Lookup(a) = id
      BY <1>1, <2>1 DEF Lookup
    <2> QED
      BY <1>1, <2>1, <2>2
  <1> QED
    BY <1>3, <1>4

(* A miss starts on an address that is in no line. *)
LEMMA MissPending ==
    ASSUME TagsUnique, NEW a \in Address, Lookup(a) = -1, op' = Ranking(a), UNCHANGED array
    PROVE  Pending'
  <1>1. \A id \in Lines : array[id] # a
    BY LookupExact
  <1> QED
    BY <1>1 DEF Pending, Ranking, Lines

(* The new tag was in no line and goes to a line of its own set. *)
LEMMA InsertUnique ==
    ASSUME ArrayTypeOK, TagsUnique, Pending, op.at = "evict", WriteTag(op.addr, op.victim)
    PROVE  TagsUnique'
  <1> DEFINE a == op.addr
             v == op.victim
  <1>1. a \in Address /\ v \in Lines /\ v \in Cands(a) /\ a # 0
    BY OpCases, ArrayAssumption DEF Pending
  <1>2. \A id \in Lines : array[id] # a
    BY DEF Pending
  <1>3. \A id \in Lines : array'[id] = IF id = v THEN a ELSE array[id]
    BY <1>1 DEF ArrayTypeOK, WriteTag
  <1> QED
    BY <1>1, <1>2, <1>3 DEF TagsUnique, Lines, Cands
-----------------------------------------------------------------------------
(* The empty array, with every line at the largest prediction value. *)
LEMMA InitIInv == Init => IInv
  <1> SUFFICES ASSUME Init PROVE IInv
    OBVIOUS
  <1> USE DEF Init, ArrayInit
  <1>1. TypeOK
    <2>1. MaxSHCT \div 2 \in 0..MaxSHCT
      BY RRIPAssumption
    <2>2. 0 \in Signatures
      BY RRIPAssumption DEF Signatures
    <2> QED
      BY <2>1, <2>2 DEF TypeOK, ArrayTypeOK, MaxRPV
  <1>2. op.at = "idle"
    BY DEF Idle
  <1> QED
    BY <1>1, <1>2 DEF IInv, TagsUnique, Pending, AgedTogether, VictimWasOldest,
                      NoFlag, ColdMeta, MetaTracksLine

(* A hit: the line found goes to 0 and, under SHiP, counts as reused. *)
LEMMA HitIInv == ASSUME IInv, NEW a \in Address, Hit(a) PROVE IInv'
  <1> DEFINE id == Lookup(a)
  <1>1. TypeOK /\ TagsUnique /\ NoFlag /\ op = Idle /\ op.at = "idle"
    BY DEF IInv, Hit, Idle
  <1>2. id \in Lines /\ array[id] = a /\ a # 0
    BY <1>1, LookupExact, ArrayAssumption DEF Hit
  <1>3. UNCHANGED <<array, op, policy, before>> /\ reused' = reused \union {id}
    BY DEF Hit
  <1>4. Update(id, a, rpv, inserted)
    BY DEF Hit
  <1> HIDE DEF id
  <1>5. CASE policy = "SRRIP"
    <2>1. rpv' = [rpv EXCEPT ![id] = 0] /\ inserted' = {} /\ UNCHANGED <<SHCT, meta>>
      BY <1>1, <1>4, <1>5 DEF Update, SRRIPUpdate, NoFlag
    <2>2. TypeOK'
      BY <1>1, <1>2, <1>3, <2>1 DEF TypeOK, ArrayTypeOK, MaxRPV
    <2> QED
      BY <1>1, <1>2, <1>3, <1>5, <2>1, <2>2
         DEF IInv, TagsUnique, Pending, AgedTogether, VictimWasOldest,
             NoFlag, ColdMeta, MetaTracksLine
  <1>6. CASE policy = "SHiP"
    <2>1. /\ SHCT' = [SHCT EXCEPT ![meta[id].signature] = Inc(@)]
          /\ meta' = [meta EXCEPT ![id].outcome = TRUE]
          /\ rpv' = [rpv EXCEPT ![id] = 0]
          /\ inserted' = {}
      BY <1>1, <1>4, <1>6 DEF Update, SHiPUpdate, SHiPHit, NoFlag
    <2>2. \A n \in 0..MaxSHCT : Inc(n) \in 0..MaxSHCT
      BY RRIPAssumption DEF Inc
    <2>3. TypeOK'
      <3>1. meta[id] \in [signature : Signatures, outcome : BOOLEAN]
        BY <1>1, <1>2 DEF TypeOK
      <3>2. meta' \in [Lines -> [signature : Signatures, outcome : BOOLEAN]]
        BY <1>1, <1>2, <2>1, <3>1 DEF TypeOK
      <3>3. SHCT' \in [Signatures -> 0..MaxSHCT]
        BY <1>1, <2>1, <2>2, <3>1 DEF TypeOK
      <3> QED
        BY <1>1, <1>2, <1>3, <2>1, <3>2, <3>3 DEF TypeOK, ArrayTypeOK, MaxRPV, Signatures, Lines
    <2>4. \A i \in Lines : meta'[i].signature = meta[i].signature
                          /\ meta'[i].outcome = (IF i = id THEN TRUE ELSE meta[i].outcome)
      BY <1>1, <1>2, <2>1 DEF TypeOK
    <2>5. MetaTracksLine'
      BY <1>2, <1>3, <1>6, <2>4 DEF MetaTracksLine, IInv
    <2>6. ColdMeta'
      BY <1>1, <1>2, <1>3, <1>6, <2>1 DEF ColdMeta, IInv, TypeOK
    <2> QED
      BY <1>1, <1>2, <1>3, <2>1, <2>3, <2>5, <2>6
         DEF IInv, TagsUnique, Pending, AgedTogether, VictimWasOldest, NoFlag
  <1> QED
    BY <1>1, <1>5, <1>6 DEF TypeOK

(* A miss starts: the address is in no line, and no candidate has aged. *)
LEMMA MissIInv == ASSUME IInv, NEW a \in Address, Miss(a) PROVE IInv'
  <1>1. TypeOK /\ TagsUnique
    BY DEF IInv
  <1>2. op' = Ranking(a) /\ op'.at = "rank" /\ op'.addr = a
    BY DEF Miss, Ranking
  <1>3. /\ before' = rpv
        /\ UNCHANGED <<array, policy, rpv, inserted, SHCT, meta, reused>>
    BY DEF Miss
  <1>4. TypeOK'
    BY <1>1, <1>2, <1>3 DEF TypeOK, ArrayTypeOK
  <1>5. Pending'
    BY <1>1, <1>2, <1>3, MissPending DEF Miss
  <1>6. AgedTogether'
    <2>1. \A i \in Cands(a) : rpv'[i] - before'[i] = 0
      BY <1>1, <1>3, CandsAreLines DEF TypeOK, MaxRPV
    <2> QED
      BY <1>2, <2>1 DEF AgedTogether, Cands
  <1> QED
    BY <1>1, <1>2, <1>3, <1>4, <1>5, <1>6
       DEF IInv, TagsUnique, VictimWasOldest, NoFlag, ColdMeta, MetaTracksLine, Lines, Cands

(* rank finds a line at 3: since all candidates aged by the same amount,   *)
(* the leftmost of them was the leftmost of the oldest before.             *)
LEMMA RankFoundIInv == ASSUME IInv, RankFound PROVE IInv'
  <1> DEFINE a == op.addr
  <1>1. TypeOK /\ op.at = "rank" /\ a \in Address /\ AgedTogether /\ Pending
    BY OpCases DEF IInv, TypeOK, RankFound
  <1>2. PICK v \in Oldest(a) : (\A j \in Oldest(a) : v <= j) /\ op' = Evicting(a, v)
    BY DEF RankFound
  <1>3. UNCHANGED <<array, policy, rpv, inserted, SHCT, meta, reused, before>>
    BY DEF RankFound, rripVars
  <1>4. v \in Cands(a) /\ v \in Lines /\ rpv[v] = MaxRPV
    BY <1>1, <1>2, CandsAreLines DEF Oldest
  <1>5. op'.at = "evict" /\ op'.addr = a /\ op'.victim = v
    BY <1>2 DEF Evicting
  <1>6. TypeOK'
    BY <1>1, <1>2, <1>3, <1>4 DEF TypeOK, ArrayTypeOK
  <1>7. ASSUME NEW i \in Cands(a)
        PROVE  before[v] > before[i] \/ (before[v] = before[i] /\ v <= i)
    <2>1. i \in Lines /\ rpv[i] \in 0..3 /\ before[i] \in 0..3 /\ before[v] \in 0..3
      BY <1>1, <1>4, CandsAreLines DEF TypeOK, MaxRPV
    <2>2. rpv[i] - before[i] = 3 - before[v]
      BY <1>1, <1>4 DEF AgedTogether, MaxRPV
    <2>3. rpv[i] = 3 => v <= i
      BY <1>2 DEF Oldest, MaxRPV
    <2> QED
      BY <2>1, <2>2, <2>3
  <1>8. VictimWasOldest'
    BY <1>3, <1>4, <1>5, <1>7 DEF VictimWasOldest, Cands
  <1>9. Pending'
    BY <1>1, <1>3, <1>4, <1>5 DEF Pending, Cands, Lines
  <1> QED
    BY <1>3, <1>5, <1>6, <1>8, <1>9
       DEF IInv, TagsUnique, AgedTogether, NoFlag, ColdMeta, MetaTracksLine, Lines, Cands

(* rank ages the set: every candidate is below 3, so every one grows. *)
LEMMA RankAgeIInv == ASSUME IInv, RankAge PROVE IInv'
  <1> DEFINE a == op.addr
  <1>1. TypeOK /\ op.at = "rank" /\ a \in Address /\ AgedTogether
    BY OpCases DEF IInv, TypeOK, RankAge
  <1>2. UNCHANGED <<array, op, policy, inserted, SHCT, meta, reused, before>>
    BY DEF RankAge
  <1>3. rpv' = [id \in Lines |->
                  IF id \in Cands(a) /\ rpv[id] < 3 THEN rpv[id] + 1 ELSE rpv[id]]
    BY DEF RankAge
  <1>4. \A i \in Cands(a) : i \in Lines /\ rpv[i] \in 0..2 /\ before[i] \in 0..3
    BY <1>1, CandsAreLines DEF RankAge, Oldest, TypeOK, MaxRPV
  <1>5. TypeOK'
    BY <1>1, <1>2, <1>3 DEF TypeOK, ArrayTypeOK, MaxRPV
  <1>6. AgedTogether'
    <2>1. \A i \in Cands(a) : rpv'[i] = rpv[i] + 1
      BY <1>3, <1>4
    <2>2. \A i, j \in Cands(a) : rpv[i] - before[i] = rpv[j] - before[j]
      BY <1>1 DEF AgedTogether
    <2>3. \A i, j \in Cands(a) : rpv'[i] - before'[i] = rpv'[j] - before'[j]
      BY <1>2, <1>4, <2>1, <2>2
    <2> QED
      BY <1>2, <2>3 DEF AgedTogether, Cands
  <1> QED
    BY <1>1, <1>2, <1>5, <1>6
       DEF IInv, TagsUnique, Pending, VictimWasOldest, NoFlag, ColdMeta, MetaTracksLine,
           Lines, Cands

(* What the eviction branch of update writes, under either policy. *)
LEMMA InsertEffect ==
    ASSUME IInv, Insert
    PROVE  /\ op.at = "evict" /\ op.addr \in Address /\ op.victim \in Lines
           /\ op.victim \in Cands(op.addr)
           /\ array' = [array EXCEPT ![op.victim] = op.addr]
           /\ reused' = reused \ {op.victim}
           /\ op' = Idle /\ UNCHANGED policy /\ inserted' = {}
           /\ before' = [id \in Lines |-> MaxRPV]
           /\ policy = "SRRIP" =>
                 rpv' = [rpv EXCEPT ![op.victim] = 2] /\ UNCHANGED <<SHCT, meta>>
           /\ policy = "SHiP" => SHiPInsert(op.victim, op.addr, rpv)
  <1>1. TypeOK /\ Pending /\ NoFlag
    BY DEF IInv
  <1>2. op.at = "evict" /\ op.addr \in Address /\ op.victim \in Lines
    BY <1>1, OpCases DEF Insert, TypeOK
  <1>3. CASE policy = "SRRIP"
    BY <1>1, <1>2, <1>3 DEF Insert, Update, SRRIPUpdate, RpvReplaced, FlagReplaced,
                            NoFlag, WriteTag, Pending
  <1>4. CASE policy = "SHiP"
    BY <1>1, <1>2, <1>4 DEF Insert, Update, SHiPUpdate, RpvReplaced, FlagReplaced,
                            NoFlag, WriteTag, Pending
  <1> QED
    BY <1>1, <1>3, <1>4 DEF TypeOK

(* The new line goes in: its tag was nowhere, its metadata is its own. *)
LEMMA InsertIInv == ASSUME IInv, Insert PROVE IInv'
  <1> DEFINE a == op.addr
             v == op.victim
             Meta == [signature : Signatures, outcome : BOOLEAN]
  <1>1. TypeOK /\ TagsUnique /\ Pending /\ ColdMeta /\ MetaTracksLine
    BY DEF IInv
  <1>2. /\ op.at = "evict" /\ a \in Address /\ v \in Lines /\ v \in Cands(a)
        /\ array' = [array EXCEPT ![v] = a]
        /\ reused' = reused \ {v}
        /\ op' = Idle /\ UNCHANGED policy /\ inserted' = {}
        /\ before' = [id \in Lines |-> MaxRPV]
    BY InsertEffect
  <1>3. op'.at = "idle"
    BY <1>2 DEF Idle
  <1>4. a # 0 /\ Signature[a] \in Signatures
    BY <1>2, ArrayAssumption, RRIPAssumption DEF Signatures
  <1>5. TagsUnique'
    BY <1>1, InsertUnique DEF TypeOK, Insert
  <1>6. CASE policy = "SRRIP"
    <2>1. rpv' = [rpv EXCEPT ![v] = 2] /\ UNCHANGED <<SHCT, meta>>
      BY <1>6, InsertEffect
    <2>2. TypeOK'
      BY <1>1, <1>2, <2>1 DEF TypeOK, ArrayTypeOK, MaxRPV
    <2>3. ColdMeta' /\ MetaTracksLine'
      BY <1>1, <1>2, <1>4, <1>6 DEF ColdMeta, MetaTracksLine, TypeOK, ArrayTypeOK
    <2> QED
      BY <1>2, <1>3, <1>5, <2>2, <2>3
         DEF IInv, Pending, AgedTogether, VictimWasOldest, NoFlag
  <1>7. CASE policy = "SHiP"
    <2>1. SHiPInsert(v, a, rpv)
      BY <1>7, InsertEffect
    <2>2. meta' = [meta EXCEPT ![v] = [signature |-> Signature[a], outcome |-> FALSE]]
      BY <2>1 DEF SHiPInsert
    <2>3. TypeOK'
      <3>1. meta' \in [Lines -> Meta]
        BY <1>1, <1>2, <1>4, <2>2 DEF TypeOK
      <3>2. \A n \in 0..MaxSHCT : Dec(n) \in 0..MaxSHCT
        BY RRIPAssumption DEF Dec
      <3>3. meta[v].signature \in Signatures
        BY <1>1, <1>2 DEF TypeOK
      <3>4. SHCT' \in [Signatures -> 0..MaxSHCT]
        BY <1>1, <2>1, <3>2, <3>3 DEF TypeOK, SHiPInsert
      <3>5. rpv' \in [Lines -> 0..MaxRPV]
        BY <1>1, <1>2, <2>1 DEF TypeOK, SHiPInsert, MaxRPV
      <3>6. ArrayTypeOK'
        BY <1>1, <1>2 DEF TypeOK, ArrayTypeOK
      <3> QED
        BY <1>1, <1>2, <3>1, <3>4, <3>5, <3>6 DEF TypeOK, MaxRPV
    <2>4. \A id \in Lines : array'[id] = (IF id = v THEN a ELSE array[id])
                /\ meta'[id] = (IF id = v THEN [signature |-> Signature[a], outcome |-> FALSE]
                                ELSE meta[id])
      BY <1>1, <1>2, <2>2 DEF TypeOK, ArrayTypeOK
    <2>5. MetaTracksLine'
      BY <1>1, <1>2, <1>7, <2>4 DEF MetaTracksLine, Lines
    <2>6. ColdMeta'
      BY <1>1, <1>2, <1>4, <1>7, <2>4 DEF ColdMeta, Lines
    <2> QED
      BY <1>2, <1>3, <1>5, <2>3, <2>5, <2>6
         DEF IInv, Pending, AgedTogether, VictimWasOldest, NoFlag
  <1> QED
    BY <1>1, <1>6, <1>7 DEF TypeOK

LEMMA StutterIInv == IInv /\ UNCHANGED vars => IInv'
  BY DEF vars, rripVars, IInv, TypeOK, ArrayTypeOK, TagsUnique, Pending, AgedTogether,
         VictimWasOldest, NoFlag, ColdMeta, MetaTracksLine, Lines, Cands, Signatures,
         Idle, Ranking, Evicting

(* The inductive invariant holds in every state, whatever the accesses. *)
THEOREM Invariance == Spec => []IInv
  <1>1. IInv /\ [Next]_vars => IInv'
    BY HitIInv, MissIInv, RankFoundIInv, RankAgeIInv, InsertIInv, StutterIInv DEF Next
  <1> QED
    BY InitIInv, <1>1, PTL DEF Spec

(* Types: prediction values stay in 0..3 and counters in 0..MaxSHCT, and   *)
(* every index into SHCT that a block_meta holds is one of its entries.    *)
THEOREM TypeCorrect == Spec => []TypeOK
  <1>1. IInv => TypeOK
    BY DEF IInv
  <1> QED
    BY Invariance, <1>1, PTL

(* An address is cached in its own set and in one line only. *)
THEOREM UniqueTags == Spec => []TagsUnique
  <1>1. IInv => TagsUnique
    BY DEF IInv
  <1> QED
    BY Invariance, <1>1, PTL

(* rank evicts the leftmost line of those that had the largest prediction  *)
(* value when the miss began, for every associativity.                     *)
THEOREM OldestEvicted == Spec => []VictimWasOldest
  <1>1. IInv => VictimWasOldest
    BY DEF IInv
  <1> QED
    BY Invariance, <1>1, PTL

(* block_meta describes the line that is in the array. *)
THEOREM MetadataFollows == Spec => []MetaTracksLine
  <1>1. IInv => MetaTracksLine
    BY DEF IInv
  <1> QED
    BY Invariance, <1>1, PTL

(* Only a line that leaves without a hit, or the first fill of a line,     *)
(* lowers a counter of SHCT, and it is the counter of that line.           *)
THEOREM OnlyDeadLinesTrain == Spec => DeadLineTrains
  <1> DEFINE Trains ==
        \A s \in Signatures : SHCT'[s] < SHCT[s] =>
            /\ op.at = "evict"
            /\ op.victim \notin reused
            /\ IF array[op.victim] = 0 THEN s = 0 ELSE s = Signature[array[op.victim]]
  <1>1. IInv /\ [Next]_vars => [Trains]_vars
    <2> SUFFICES ASSUME IInv, Next PROVE Trains
      OBVIOUS
    <2>1. TypeOK /\ MetaTracksLine /\ ColdMeta /\ NoFlag
      BY DEF IInv
    <2>2. \A s \in Signatures : SHCT[s] \in 0..MaxSHCT
      BY <2>1 DEF TypeOK
    <2>3. ASSUME UNCHANGED SHCT PROVE Trains
      BY <2>2, <2>3, RRIPAssumption
    <2>4. ASSUME NEW a \in Address, Hit(a) PROVE Trains
      <3>1. CASE policy = "SRRIP"
        BY <2>3, <2>4, <3>1 DEF Hit, Update, SRRIPUpdate
      <3>2. CASE policy = "SHiP"
        <4>1. SHCT' = [SHCT EXCEPT ![meta[Lookup(a)].signature] = Inc(@)]
          BY <2>1, <2>4, <3>2 DEF Hit, Update, SHiPUpdate, SHiPHit, NoFlag
        <4>2. \A n \in 0..MaxSHCT : ~(Inc(n) < n)
          BY RRIPAssumption DEF Inc
        <4>3. \A s \in Signatures : SHCT'[s] = SHCT[s] \/ SHCT'[s] = Inc(SHCT[s])
          BY <2>1, <4>1 DEF TypeOK
        <4>4. \A s \in Signatures : ~(SHCT'[s] < SHCT[s])
          BY <2>2, <4>2, <4>3, RRIPAssumption
        <4> QED
          BY <4>4
      <3> QED
        BY <2>1, <3>1, <3>2 DEF TypeOK
    <2>5. ASSUME NEW a \in Address, Miss(a) PROVE Trains
      BY <2>3, <2>5 DEF Miss
    <2>6. ASSUME RankFound PROVE Trains
      BY <2>3, <2>6 DEF RankFound, rripVars
    <2>7. ASSUME RankAge PROVE Trains
      BY <2>3, <2>7 DEF RankAge
    <2>8. ASSUME Insert PROVE Trains
      <3> DEFINE v == op.victim
      <3>1. op.at = "evict" /\ v \in Lines
        BY <2>8, InsertEffect
      <3>2. CASE policy = "SRRIP"
        BY <2>3, <2>8, <3>2, InsertEffect
      <3>3. CASE policy = "SHiP" /\ meta[v].outcome
        BY <2>3, <2>8, <3>3, InsertEffect DEF SHiPInsert
      <3>4. CASE policy = "SHiP" /\ ~meta[v].outcome
        <4>1. SHCT' = [SHCT EXCEPT ![meta[v].signature] = Dec(@)]
          BY <2>8, <3>4, InsertEffect DEF SHiPInsert
        <4>2. \A s \in Signatures : s # meta[v].signature => SHCT'[s] = SHCT[s]
          BY <2>1, <4>1 DEF TypeOK
        <4>3. \A s \in Signatures : SHCT'[s] < SHCT[s] => s = meta[v].signature
          BY <2>2, <4>2, RRIPAssumption
        <4>4. v \notin reused
          BY <2>1, <3>1, <3>4 DEF MetaTracksLine, ColdMeta
        <4>5. meta[v].signature = IF array[v] = 0 THEN 0 ELSE Signature[array[v]]
          BY <2>1, <3>1, <3>4 DEF MetaTracksLine, ColdMeta
        <4> QED
          BY <3>1, <4>3, <4>4, <4>5
      <3> QED
        BY <2>1, <3>2, <3>3, <3>4 DEF TypeOK
    <2> QED
      BY <2>4, <2>5, <2>6, <2>7, <2>8 DEF Next
  <1> QED
    BY Invariance, <1>1, PTL DEF Spec, DeadLineTrains
=============================================================================
