--------------------------- MODULE BarrierProofs ---------------------------
(***************************************************************************)
(* Proofs about Barrier, for every number of threads, every limit and      *)
(* every cleanup period: the run list and the counters are exact, the      *)
(* assertions and panics of barrier.h hold, and join, leave and sync       *)
(* implement PhaseBarrier.                                                 *)
(***************************************************************************)
EXTENDS Barrier, FiniteSetTheorems, TLAPS

States == {"OFFLINE", "WAITING", "RUNNING", "LEFT"}

Bars == [parallel : Parallel, state : [Thread -> States],
         lastIdx : [Thread -> 1..Cardinality(Thread)], runList : Seq(Thread),
         cur : Nat, running : Nat, left : Nat, phase : 0..(CleanupPeriod - 1)]

(* join's assertion would hold for t. *)
KnownIn(b, t) == b.lastIdx[t] \in 1..Len(b.runList) /\ b.runList[b.lastIdx[t]] = t

(* The run list holds every thread that is not OFFLINE, once. *)
ListExact(b) ==
    /\ IsInjective(b.runList)
    /\ ToSet(b.runList) = Thread \ In(b, "OFFLINE")
    /\ b.cur \in 1..(Len(b.runList) + 1)

(* The counters count, within the limit. *)
CountsExact(b) ==
    /\ b.running = Cardinality(In(b, "RUNNING"))
    /\ b.left = Cardinality(In(b, "LEFT"))
    /\ b.running <= b.parallel

(* A thread that has its turn is behind curThreadIdx, and its lastIdx was  *)
(* written; so was that of a thread that left, unless it was killed before *)
(* its first turn.                                                         *)
IndicesKnown(b) ==
    /\ \A t \in In(b, "RUNNING") : KnownIn(b, t) /\ b.lastIdx[t] < b.cur
    /\ ~KillNewcomers => \A t \in In(b, "LEFT") : KnownIn(b, t)

(* What the callers of a barrier see: Seen is SeenOf(bar). *)
WaitingAt(b, I) == {b.runList[i] : i \in I} \cap In(b, "WAITING")

SeenOf(b) ==
    [limit   |-> b.parallel,
     todo    |-> WaitingAt(b, b.cur..Len(b.runList)),
     running |-> In(b, "RUNNING"),
     done    |-> WaitingAt(b, 1..(b.cur - 1))]

Sound(b) == b \in Bars /\ ListExact(b) /\ CountsExact(b) /\ IndicesKnown(b)

-----------------------------------------------------------------------------
(* A set of natural numbers that is not empty has a least element. *)
LEMMA LeastNumber ==
    ASSUME NEW T, T \subseteq Nat, T # {}
    PROVE  \E x \in T : \A y \in T : x <= y
  <1> DEFINE R == OpToRel(<, Nat)
  <1>1. IsWellFoundedOn(R, Nat)
    BY NatLessThanWellFounded
  <1>2. \A x, y \in Nat : y < x => <<y, x>> \in R
    BY DEF OpToRel
  <1> HIDE DEF R
  <1>3. PICK x \in T : \A y \in T : ~(<<y, x>> \in R)
    BY <1>1, WFMin
  <1>4. \A y \in T : y \in Nat /\ ~(y < x)
    BY <1>2, <1>3
  <1>5. \A y \in T : x <= y
    BY <1>4
  <1> QED
    BY <1>5

(* Min is what its name says. *)
LEMMA MinIsLeast ==
    ASSUME NEW T, T \subseteq Nat, T # {}
    PROVE  Min(T) \in T /\ \A y \in T : Min(T) <= y
  <1>1. PICK x \in T : \A y \in T : x <= y
    BY LeastNumber
  <1> QED
    BY <1>1 DEF Min

(* The places of a list. *)
LEMMA Places == \A n \in Nat : IsFiniteSet(1..n) /\ Cardinality(1..n) = n
  BY FS_Interval

(* One more element adds one at most. *)
LEMMA OneMore ==
    ASSUME NEW S, IsFiniteSet(S), NEW x
    PROVE  /\ IsFiniteSet(S \union {x}) /\ Cardinality(S \union {x}) \in Nat
           /\ Cardinality(S \union {x}) <= Cardinality(S) + 1
  <1>1. Cardinality(S) \in Nat
    BY FS_CardinalityType
  <1>2. /\ IsFiniteSet(S \union {x})
        /\ Cardinality(S \union {x}) = IF x \in S THEN Cardinality(S) ELSE Cardinality(S) + 1
    BY FS_AddElement
  <1> QED
    BY <1>1, <1>2

(* Disjoint sets add up. *)
LEMMA DisjointUnion ==
    ASSUME NEW S, IsFiniteSet(S), NEW T, IsFiniteSet(T), S \cap T = {}
    PROVE  Cardinality(S \union T) = Cardinality(S) + Cardinality(T)
  <1>1. Cardinality(S \union T) = Cardinality(S) + Cardinality(T) - Cardinality(S \cap T)
    BY FS_Union
  <1>2. Cardinality(S \cap T) = 0 /\ Cardinality(S) \in Nat /\ Cardinality(T) \in Nat
    BY FS_EmptySet, FS_CardinalityType
  <1> QED
    BY <1>1, <1>2

(* R orders S strictly, and what is below h in that order. *)
StrictOrder(R, S) ==
    /\ \A g, h \in S : g = h \/ <<g, h>> \in R \/ <<h, g>> \in R
    /\ \A h \in S : <<h, h>> \notin R
    /\ \A g, h, k \in S : <<g, h>> \in R /\ <<h, k>> \in R => <<g, k>> \in R
Below(R, S, h) == {g \in S : <<g, h>> \in R}

(* How many are below an element is its number: 0, 1, ... *)
Numbered(R, S) ==
    /\ \A h \in S : Cardinality(Below(R, S, h)) \in 0..(Cardinality(S) - 1)
    /\ \A h, k \in S : Cardinality(Below(R, S, h)) = Cardinality(Below(R, S, k)) => h = k
    /\ \A r \in 0..(Cardinality(S) - 1) : \E h \in S : Cardinality(Below(R, S, h)) = r

(* The elements of a finite set can be numbered in any strict order. *)
LEMMA RankInOrder ==
    ASSUME NEW S, IsFiniteSet(S), NEW R,
           StrictOrder(R, S)
    PROVE  Numbered(R, S)
  <1> DEFINE B(h) == Below(R, S, h)
             m == Cardinality(S)
             f == [h \in S |-> Cardinality(B(h))]
  <1>1. m \in Nat
    BY FS_CardinalityType
  <1>2. \A h \in S : IsFiniteSet(B(h)) /\ Cardinality(B(h)) \in Nat
    <2>1. \A h \in S : B(h) \in SUBSET S
      BY DEF Below
    <2> QED
      BY <2>1, FS_Subset, FS_CardinalityType
  <1>3. ASSUME NEW h \in S PROVE Cardinality(B(h)) \in 0..(m - 1)
    <2>1. B(h) \in SUBSET (S \ {h})
      BY DEF Below, StrictOrder
    <2>2. IsFiniteSet(S \ {h}) /\ Cardinality(S \ {h}) = m - 1
      BY FS_RemoveElement
    <2>3. Cardinality(B(h)) <= m - 1
      BY <2>1, <2>2, FS_Subset
    <2> QED
      BY <1>1, <1>2, <2>3
  <1>4. ASSUME NEW h \in S, NEW k \in S, <<h, k>> \in R
        PROVE  Cardinality(B(h)) < Cardinality(B(k))
    <2>1. h \notin B(h) /\ B(h) \union {h} \in SUBSET B(k)
      <3>1. \A g \in B(h) : g \in B(k)
        BY <1>4 DEF Below, StrictOrder
      <3>2. h \in B(k) /\ h \notin B(h)
        BY <1>4 DEF Below, StrictOrder
      <3> QED
        BY <3>1, <3>2
    <2>2. Cardinality(B(h) \union {h}) = Cardinality(B(h)) + 1
      BY <1>2, <2>1, FS_AddElement
    <2>3. Cardinality(B(h) \union {h}) <= Cardinality(B(k))
      BY <1>2, <2>1, FS_Subset
    <2> QED
      BY <1>2, <2>2, <2>3
  <1>5. ASSUME NEW h \in S, NEW k \in S, Cardinality(B(h)) = Cardinality(B(k)) PROVE h = k
    <2>1. <<h, k>> \notin R /\ <<k, h>> \notin R
      BY <1>2, <1>4, <1>5
    <2> QED
      BY <2>1 DEF StrictOrder
  <1>6. f \in Injection(S, 0..(m - 1))
    <2>1. f \in [S -> 0..(m - 1)]
      BY <1>3
    <2>2. \A h, k \in S : f[h] = f[k] => h = k
      BY <1>5
    <2> HIDE DEF f
    <2> QED
      BY <2>1, <2>2 DEF Injection, IsInjective
  <1>7. IsFiniteSet(0..(m - 1)) /\ Cardinality(0..(m - 1)) = m
    BY <1>1, FS_Interval
  <1>8. f \in Surjection(S, 0..(m - 1))
    BY <1>6, <1>7, FS_Injection
  <1>9. \A r \in 0..(m - 1) : \E h \in S : f[h] = r
    BY <1>8 DEF Surjection
  <1> QED
    BY <1>3, <1>5, <1>9 DEF Numbered

(* So can the elements of a finite set of numbers, from below *)
LEMMA RankFromBelow ==
    ASSUME NEW S, S \subseteq Int, IsFiniteSet(S)
    PROVE  LET rank(h) == Cardinality({g \in S : g < h})
           IN  /\ \A h \in S : rank(h) \in 0..(Cardinality(S) - 1)
               /\ \A h, k \in S : rank(h) = rank(k) => h = k
               /\ \A r \in 0..(Cardinality(S) - 1) : \E h \in S : rank(h) = r
  <1> DEFINE R == {p \in S \X S : p[1] < p[2]}
  <1>1. \A g, h \in S : <<g, h>> \in R <=> g < h
    OBVIOUS
  <1>2. \A h \in S : Below(R, S, h) = {g \in S : g < h}
    BY <1>1 DEF Below
  <1>3. StrictOrder(R, S)
    BY <1>1 DEF StrictOrder
  <1> HIDE DEF R
  <1>4. Numbered(R, S)
    BY <1>3, RankInOrder
  <1>5. \A h \in S : Cardinality(Below(R, S, h)) = Cardinality({g \in S : g < h})
    BY <1>2
  <1> QED
    BY <1>4, <1>5 DEF Numbered

(* and from above. *)
LEMMA RankFromAbove ==
    ASSUME NEW S, S \subseteq Int, IsFiniteSet(S)
    PROVE  LET rank(h) == Cardinality({g \in S : g > h})
           IN  /\ \A h \in S : rank(h) \in 0..(Cardinality(S) - 1)
               /\ \A h, k \in S : rank(h) = rank(k) => h = k
               /\ \A r \in 0..(Cardinality(S) - 1) : \E h \in S : rank(h) = r
  <1> DEFINE R == {p \in S \X S : p[1] > p[2]}
  <1>1. \A g, h \in S : <<g, h>> \in R <=> g > h
    OBVIOUS
  <1>2. \A h \in S : Below(R, S, h) = {g \in S : g > h}
    BY <1>1 DEF Below
  <1>3. StrictOrder(R, S)
    BY <1>1 DEF StrictOrder
  <1> HIDE DEF R
  <1>4. Numbered(R, S)
    BY <1>3, RankInOrder
  <1>5. \A h \in S : Cardinality(Below(R, S, h)) = Cardinality({g \in S : g > h})
    BY <1>2
  <1> QED
    BY <1>4, <1>5 DEF Numbered

(* The threads at some places of a list without repetitions are as many as *)
(* the places.                                                             *)
LEMMA ThreadsAtPlaces ==
    ASSUME NEW l \in Seq(Thread), IsInjective(l), NEW I \in SUBSET (1..Len(l))
    PROVE  /\ IsFiniteSet(I)
           /\ IsFiniteSet({l[i] : i \in I}) /\ Cardinality({l[i] : i \in I}) = Cardinality(I)
  <1> DEFINE T == {l[i] : i \in I}
             f == [i \in I |-> l[i]]
  <1>1. Len(l) \in Nat /\ DOMAIN l = 1..Len(l)
    OBVIOUS
  <1>2. IsFiniteSet(I)
    <2>1. IsFiniteSet(1..Len(l))
      BY <1>1, FS_Interval
    <2> QED
      BY <2>1, FS_Subset
  <1>3. f \in [I -> T] /\ \A i, j \in I : f[i] = f[j] => i = j
    BY <1>1 DEF IsInjective
  <1>4. \A t \in T : \E i \in I : f[i] = t
    OBVIOUS
  <1> HIDE DEF f, T
  <1>5. f \in Bijection(I, T)
    BY <1>3, <1>4 DEF Bijection, Injection, Surjection, IsInjective
  <1>6. ExistsBijection(I, T)
    BY <1>5 DEF ExistsBijection
  <1>7. IsFiniteSet(T) /\ Cardinality(T) = Cardinality(I)
    BY <1>2, <1>6, FS_Bijection
  <1> QED
    BY <1>2, <1>7 DEF T

(* The threads in a state are finitely many, and those on the list have a  *)
(* place there, only one.                                                  *)
LEMMA StatesFinite ==
    ASSUME NEW b, NEW s
    PROVE  IsFiniteSet(In(b, s)) /\ Cardinality(In(b, s)) \in Nat
  <1>1. In(b, s) \in SUBSET Thread /\ IsFiniteSet(Thread)
    BY BarrierAssumption DEF In
  <1>2. IsFiniteSet(In(b, s))
    BY <1>1, FS_Subset
  <1> QED
    BY <1>2, FS_CardinalityType

LEMMA ListFacts ==
    ASSUME NEW b, b \in Bars, ListExact(b)
    PROVE  /\ Len(b.runList) \in Nat /\ DOMAIN b.runList = 1..Len(b.runList)
           /\ \A i \in 1..Len(b.runList) :
                 b.runList[i] \in Thread /\ b.state[b.runList[i]] # "OFFLINE"
           /\ \A i, j \in 1..Len(b.runList) : b.runList[i] = b.runList[j] => i = j
           /\ \A t \in Thread : b.state[t] # "OFFLINE" =>
                 \E i \in 1..Len(b.runList) : b.runList[i] = t
           /\ Len(b.runList) <= Cardinality(Thread) /\ Cardinality(Thread) \in Nat
  <1> DEFINE l == b.runList
             n == Len(l)
  <1>1. l \in Seq(Thread)
    BY DEF Bars
  <1>2. n \in Nat /\ DOMAIN l = 1..n /\ \A i \in 1..n : l[i] \in Thread
    BY <1>1
  <1>3. {l[i] : i \in 1..n} = Thread \ In(b, "OFFLINE")
    BY <1>2 DEF ListExact, ToSet
  <1>4. \A i, j \in 1..n : l[i] = l[j] => i = j
    BY <1>2 DEF ListExact, IsInjective
  <1>5. Cardinality({l[i] : i \in 1..n}) = n
    <2>1. IsInjective(l) /\ 1..n \in SUBSET (1..n)
      BY DEF ListExact
    <2>2. Cardinality({l[i] : i \in 1..n}) = Cardinality(1..n)
      BY <1>1, <2>1, ThreadsAtPlaces
    <2> QED
      BY <1>2, <2>2, Places
  <1>6. n <= Cardinality(Thread) /\ Cardinality(Thread) \in Nat
    <2>1. Thread \ In(b, "OFFLINE") \in SUBSET Thread
      OBVIOUS
    <2>2. Cardinality(Thread \ In(b, "OFFLINE")) <= Cardinality(Thread)
      BY <2>1, FS_Subset, BarrierAssumption
    <2> QED
      BY <1>3, <1>5, <2>2, FS_CardinalityType, BarrierAssumption
  <1> HIDE DEF l, n
  <1>7. \A i \in 1..n : b.state[l[i]] # "OFFLINE"
    BY <1>2, <1>3 DEF In
  <1>8. \A t \in Thread : b.state[t] # "OFFLINE" => \E i \in 1..n : l[i] = t
    BY <1>3 DEF In
  <1> QED
    BY <1>2, <1>4, <1>6, <1>7, <1>8 DEF l, n

-----------------------------------------------------------------------------
(* Where checkRunList stops: behind the list, or when there is no room     *)
(* left; it never wakes more threads than there is room for.               *)
LEMMA StopIdxIs ==
    ASSUME NEW b, Sound(b)
    PROVE  LET stop == StopIdx(b)
               W == Waits(b, b.cur, stop - 1)
               n == Len(b.runList)
           IN  /\ stop \in b.cur..(n + 1)
               /\ W \in SUBSET (1..n) /\ IsFiniteSet(W) /\ Cardinality(W) \in Nat
               /\ b.running + Cardinality(W) <= b.parallel
               /\ stop = n + 1 \/ b.running + Cardinality(W) = b.parallel
  <1> DEFINE n == Len(b.runList)
             V(i) == Waits(b, b.cur, i - 1)
             full(i) == b.running + Cardinality(V(i)) >= b.parallel
             T == {i \in b.cur..(n + 1) : i = n + 1 \/ full(i)}
             stop == StopIdx(b)
  <1>1. /\ n \in Nat /\ b.cur \in 1..(n + 1) /\ b.running \in Nat
        /\ b.parallel \in Nat /\ b.running <= b.parallel
    BY ListFacts, BarrierAssumption DEF Sound, ListExact, CountsExact, Bars
  <1>2. T \subseteq Nat /\ n + 1 \in T
    BY <1>1
  <1>3. stop = Min(T)
    BY DEF StopIdx
  <1>4. stop \in T /\ \A y \in T : stop <= y
    <2> HIDE DEF T, stop
    <2>1. T # {}
      BY <1>2
    <2> QED
      BY <1>2, <1>3, <2>1, MinIsLeast
  <1>5. ASSUME NEW i \in b.cur..(n + 1)
        PROVE  V(i) \in SUBSET (1..n) /\ IsFiniteSet(V(i)) /\ Cardinality(V(i)) \in Nat
    <2>1. V(i) \in SUBSET (1..n)
      BY <1>1 DEF Waits
    <2>2. IsFiniteSet(1..n)
      BY <1>1, Places
    <2> QED
      BY <2>1, <2>2, FS_Subset, FS_CardinalityType
  <1>6. b.running + Cardinality(V(stop)) <= b.parallel
    <2>1. CASE stop = b.cur
      <3>1. V(stop) = {}
        BY <1>1, <2>1 DEF Waits
      <3>2. Cardinality(V(stop)) = 0
        BY <3>1, FS_EmptySet
      <3> QED
        BY <1>1, <3>2
    <2>2. CASE stop # b.cur
      <3>1. stop - 1 \in b.cur..(n + 1) /\ stop - 1 # n + 1 /\ stop - 1 \notin T
        BY <1>1, <1>4, <2>2
      <3>2. b.running + Cardinality(V(stop - 1)) < b.parallel
        BY <1>1, <1>5, <3>1
      <3>3. V(stop) \in SUBSET (V(stop - 1) \union {stop - 1})
        BY <1>1, <1>4, <3>1 DEF Waits
      <3>4. /\ IsFiniteSet(V(stop - 1) \union {stop - 1})
            /\ Cardinality(V(stop - 1) \union {stop - 1}) <= Cardinality(V(stop - 1)) + 1
        BY <1>5, <3>1, OneMore
      <3>5. Cardinality(V(stop)) <= Cardinality(V(stop - 1) \union {stop - 1})
        BY <3>3, <3>4, FS_Subset
      <3>6. Cardinality(V(stop)) \in Nat /\ Cardinality(V(stop - 1)) \in Nat
        BY <1>4, <1>5, <3>1
      <3>7. Cardinality(V(stop - 1) \union {stop - 1}) \in Nat
        BY <1>5, <3>1, OneMore
      <3> QED
        BY <1>1, <3>2, <3>4, <3>5, <3>6, <3>7
    <2> QED
      BY <2>1, <2>2
  <1>7. stop = n + 1 \/ b.running + Cardinality(V(stop)) = b.parallel
    <2>1. stop = n + 1 \/ full(stop)
      BY <1>4
    <2>2. Cardinality(V(stop)) \in Nat
      BY <1>4, <1>5
    <2> QED
      BY <1>1, <1>6, <2>1, <2>2
  <1> QED
    BY <1>4, <1>5, <1>6, <1>7

(* checkRunList, field by field: the threads at the places W are woken. *)
LEMMA CheckRunListIs ==
    ASSUME NEW b, Sound(b)
    PROVE  LET c == CheckRunList(b)
               stop == StopIdx(b)
               W == Waits(b, b.cur, stop - 1)
           IN  /\ c \in Bars
               /\ c.parallel = b.parallel /\ c.runList = b.runList
               /\ c.left = b.left /\ c.phase = b.phase
               /\ c.cur = stop /\ c.running = b.running + Cardinality(W)
               /\ \A i \in W : /\ c.state[b.runList[i]] = "RUNNING"
                               /\ c.lastIdx[b.runList[i]] = i
               /\ \A t \in Thread : t \notin {b.runList[i] : i \in W} =>
                       c.state[t] = b.state[t] /\ c.lastIdx[t] = b.lastIdx[t]
  <1> DEFINE stop == StopIdx(b)
             W == Waits(b, b.cur, stop - 1)
             n == Len(b.runList)
             l == b.runList
             woken == [t \in Thread |-> \E i \in W : l[i] = t]
             at(t) == CHOOSE i \in W : l[i] = t
             state == [t \in Thread |-> IF woken[t] THEN "RUNNING" ELSE b.state[t]]
             lastIdx == [t \in Thread |-> IF woken[t] THEN at(t) ELSE b.lastIdx[t]]
             c == [b EXCEPT !.cur = stop, !.state = state, !.lastIdx = lastIdx,
                            !.running = @ + Cardinality(W)]
  <1>1. /\ stop \in b.cur..(n + 1) /\ W \in SUBSET (1..n) /\ Cardinality(W) \in Nat
    BY StopIdxIs
  <1>2. /\ n \in Nat /\ n <= Cardinality(Thread) /\ Cardinality(Thread) \in Nat
        /\ \A i \in 1..n : l[i] \in Thread
        /\ \A i, j \in 1..n : l[i] = l[j] => i = j
    BY ListFacts DEF Sound
  <1>3. b \in Bars /\ b.cur \in 1..(n + 1)
    BY DEF Sound, ListExact
  <1>4. CheckRunList(b) = c
    BY <1>3 DEF CheckRunList, Bars
  <1> HIDE DEF W, stop, l
  <1>5. \A i \in W : l[i] \in Thread /\ woken[l[i]] /\ at(l[i]) = i
    <2> SUFFICES ASSUME NEW i \in W PROVE l[i] \in Thread /\ woken[l[i]] /\ at(l[i]) = i
      OBVIOUS
    <2>1. \A j \in W : l[j] = l[i] => j = i
      BY <1>1, <1>2
    <2> QED
      BY <1>1, <1>2, <2>1
  <1>6. \A t \in Thread : t \notin {l[i] : i \in W} => ~woken[t]
    OBVIOUS
  <1>7. \A t \in Thread : woken[t] => at(t) \in 1..Cardinality(Thread)
    <2> SUFFICES ASSUME NEW t \in Thread, woken[t] PROVE at(t) \in 1..Cardinality(Thread)
      OBVIOUS
    <2>1. PICK i \in W : l[i] = t
      OBVIOUS
    <2>2. at(t) = i /\ i \in 1..n
      BY <1>1, <1>5, <2>1
    <2> HIDE DEF at
    <2> QED
      BY <1>2, <2>2
  <1> HIDE DEF woken, at
  <1>8. state \in [Thread -> States]
    BY <1>3 DEF Bars, States
  <1>9. lastIdx \in [Thread -> 1..Cardinality(Thread)]
    BY <1>3, <1>7 DEF Bars
  <1> HIDE DEF state, lastIdx
  <1>10. /\ c \in Bars
         /\ c.parallel = b.parallel /\ c.runList = b.runList /\ c.left = b.left
         /\ c.phase = b.phase /\ c.cur = stop /\ c.running = b.running + Cardinality(W)
         /\ c.state = state /\ c.lastIdx = lastIdx
    <2>1. stop \in Nat /\ b.running + Cardinality(W) \in Nat
      BY <1>1, <1>2, <1>3 DEF Bars
    <2>2. c = [b EXCEPT !.cur = stop, !.state = state, !.lastIdx = lastIdx,
                        !.running = b.running + Cardinality(W)]
      OBVIOUS
    <2> HIDE DEF c
    <2>3. c \in Bars
      BY <1>3, <1>8, <1>9, <2>1, <2>2 DEF Bars
    <2> QED
      BY <1>3, <2>2, <2>3 DEF Bars
  <1> HIDE DEF c
  <1>11. \A i \in W : c.state[l[i]] = "RUNNING" /\ c.lastIdx[l[i]] = i
    BY <1>5, <1>10 DEF state, lastIdx
  <1>12. \A t \in Thread : t \notin {l[i] : i \in W} =>
                       c.state[t] = b.state[t] /\ c.lastIdx[t] = b.lastIdx[t]
    BY <1>6, <1>10 DEF state, lastIdx
  <1> QED
    BY <1>4, <1>10, <1>11, <1>12 DEF W, stop, l

(* The abstract states, which are equal if their fields are. *)
Seens == [limit : Parallel, todo : SUBSET Thread, running : SUBSET Thread,
          done : SUBSET Thread]

LEMMA SameSeen ==
    ASSUME NEW u \in Seens, NEW v \in Seens,
           u.limit = v.limit, u.todo = v.todo, u.running = v.running, u.done = v.done
    PROVE  u = v
  <1>1. /\ u = [limit |-> u.limit, todo |-> u.todo, running |-> u.running, done |-> u.done]
        /\ v = [limit |-> v.limit, todo |-> v.todo, running |-> v.running, done |-> v.done]
    BY DEF Seens
  <1> QED
    BY <1>1

LEMMA SeenFields ==
    ASSUME NEW b, b \in Bars
    PROVE  /\ SeenOf(b) \in Seens
           /\ SeenOf(b).limit = b.parallel
           /\ SeenOf(b).todo = WaitingAt(b, b.cur..Len(b.runList))
           /\ SeenOf(b).running = In(b, "RUNNING")
           /\ SeenOf(b).done = WaitingAt(b, 1..(b.cur - 1))
  <1>1. b.parallel \in Parallel
    BY DEF Bars
  <1>2. \A I, x : In(b, x) \in SUBSET Thread /\ WaitingAt(b, I) \in SUBSET Thread
    BY DEF In, WaitingAt
  <1> QED
    BY <1>1, <1>2 DEF SeenOf, Seens

(* PhaseBarrier counts with its own instance of FiniteSets. *)
LEMMA SameCardinality == \A S : P!Cardinality(S) = Cardinality(S)
  BY DEF P!Cardinality, Cardinality

(* The steps of the abstract barrier that wake threads. *)
LEMMA AbstractWoken ==
    ASSUME NEW s, NEW V \in SUBSET s.todo,
           Cardinality(V) = IF Cardinality(s.todo) < s.limit - Cardinality(s.running)
                              THEN Cardinality(s.todo)
                              ELSE s.limit - Cardinality(s.running)
    PROVE  [s EXCEPT !.todo = @ \ V, !.running = @ \union V] \in P!Woken(s)
  BY SameCardinality DEF P!Woken, P!Room

(* What checkRunList leaves behind: some waiting threads have their turn,  *)
(* and either the list is done or there is no room.                        *)
Wakes(b, c) ==
    /\ c.parallel = b.parallel /\ c.runList = b.runList /\ c.phase = b.phase
    /\ In(c, "OFFLINE") = In(b, "OFFLINE") /\ In(c, "LEFT") = In(b, "LEFT")
    /\ In(b, "RUNNING") \subseteq In(c, "RUNNING")
    /\ In(c, "RUNNING") \subseteq In(b, "RUNNING") \union In(b, "WAITING")
    /\ In(c, "WAITING") = In(b, "WAITING") \ In(c, "RUNNING")
    /\ c.cur = Len(c.runList) + 1 \/ c.running = c.parallel

LEMMA CheckRunListSound ==
    ASSUME NEW b, Sound(b)
    PROVE  /\ Sound(CheckRunList(b)) /\ Wakes(b, CheckRunList(b))
           /\ SeenOf(CheckRunList(b)) \in P!Woken(SeenOf(b))
  <1> DEFINE c == CheckRunList(b)
             stop == StopIdx(b)
             W == Waits(b, b.cur, stop - 1)
             l == b.runList
             n == Len(l)
             T == {l[i] : i \in W}
  <1>1. /\ stop \in b.cur..(n + 1)
        /\ W \in SUBSET (1..n) /\ IsFiniteSet(W) /\ Cardinality(W) \in Nat
        /\ b.running + Cardinality(W) <= b.parallel
        /\ stop = n + 1 \/ b.running + Cardinality(W) = b.parallel
    BY StopIdxIs
  <1>2. /\ n \in Nat
        /\ \A i \in 1..n : l[i] \in Thread
        /\ \A i, j \in 1..n : l[i] = l[j] => i = j
        /\ b.cur \in 1..(n + 1) /\ b \in Bars
    BY ListFacts DEF Sound, ListExact
  <1>3. /\ c \in Bars
        /\ c.parallel = b.parallel /\ c.runList = b.runList
        /\ c.left = b.left /\ c.phase = b.phase
        /\ c.cur = stop /\ c.running = b.running + Cardinality(W)
        /\ \A i \in W : c.state[l[i]] = "RUNNING" /\ c.lastIdx[l[i]] = i
        /\ \A t \in Thread : t \notin T => c.state[t] = b.state[t] /\ c.lastIdx[t] = b.lastIdx[t]
    BY CheckRunListIs
  <1>4. \A i \in 1..n : i \in W <=> i >= b.cur /\ i < stop /\ b.state[l[i]] = "WAITING"
    BY <1>1, <1>2 DEF Waits
  <1> HIDE DEF c, stop, W, l
  <1>5. T \subseteq In(b, "WAITING")
    BY <1>1, <1>2, <1>4 DEF In
  <1>6. /\ In(c, "RUNNING") = In(b, "RUNNING") \union T
        /\ In(c, "WAITING") = In(b, "WAITING") \ T
        /\ In(c, "LEFT") = In(b, "LEFT") /\ In(c, "OFFLINE") = In(b, "OFFLINE")
    <2>1. \A t \in T : c.state[t] = "RUNNING"
      BY <1>3
    <2> HIDE DEF T
    <2> QED
      BY <1>3, <1>5, <2>1 DEF In
  <1>7. In(b, "RUNNING") \cap T = {}
    BY <1>5 DEF In
  <1>8. IsFiniteSet(T) /\ Cardinality(T) = Cardinality(W)
    BY <1>1, <1>2, ThreadsAtPlaces DEF Sound, ListExact, Bars, l
  <1>9. Cardinality(In(c, "RUNNING")) = Cardinality(In(b, "RUNNING")) + Cardinality(T)
    <2> HIDE DEF T
    <2>1. IsFiniteSet(In(b, "RUNNING"))
      BY StatesFinite
    <2>2. Cardinality(In(b, "RUNNING") \union T) = Cardinality(In(b, "RUNNING")) + Cardinality(T)
      BY <1>7, <1>8, <2>1, DisjointUnion
    <2> QED
      BY <1>6, <2>2
  <1>10. ListExact(c)
    BY <1>1, <1>2, <1>3, <1>6 DEF Sound, ListExact, l
  <1>11. CountsExact(c)
    BY <1>1, <1>3, <1>6, <1>8, <1>9 DEF Sound, CountsExact
  <1>12. IndicesKnown(c)
    <2>1. ASSUME NEW t \in In(c, "RUNNING") PROVE KnownIn(c, t) /\ c.lastIdx[t] < c.cur
      <3>1. CASE t \in T
        <4>1. PICK i \in W : l[i] = t
          BY <3>1
        <4>2. c.lastIdx[t] = i /\ i \in 1..n /\ i < stop
          BY <1>1, <1>3, <1>4, <4>1
        <4> QED
          BY <1>3, <4>1, <4>2 DEF KnownIn, l
      <3>2. CASE t \notin T
        <4>1. t \in In(b, "RUNNING") /\ t \in Thread
          BY <1>6, <2>1, <3>2 DEF In
        <4>2. c.lastIdx[t] = b.lastIdx[t]
          BY <1>3, <3>2, <4>1
        <4>3. KnownIn(b, t) /\ b.lastIdx[t] < b.cur
          BY <4>1 DEF Sound, IndicesKnown
        <4> QED
          BY <1>1, <1>2, <1>3, <4>2, <4>3 DEF KnownIn
      <3> QED
        BY <3>1, <3>2
    <2>2. ASSUME ~KillNewcomers, NEW t \in In(c, "LEFT") PROVE KnownIn(c, t)
      <3>1. t \in In(b, "LEFT") /\ t \in Thread /\ t \notin T
        BY <1>5, <1>6, <2>2 DEF In
      <3>2. KnownIn(b, t)
        BY <2>2, <3>1 DEF Sound, IndicesKnown
      <3> QED
        BY <1>3, <3>1, <3>2 DEF KnownIn
    <2> QED
      BY <2>1, <2>2 DEF IndicesKnown
  <1>13. Wakes(b, c)
    <2> HIDE DEF T
    <2>1. c.cur = Len(c.runList) + 1 \/ c.running = c.parallel
      BY <1>1, <1>3 DEF l
    <2>2. In(b, "WAITING") \ T = In(b, "WAITING") \ In(c, "RUNNING")
      BY <1>6 DEF In
    <2> QED
      BY <1>3, <1>5, <1>6, <2>1, <2>2 DEF Wakes
  <1>14. SeenOf(c) \in P!Woken(SeenOf(b))
    <2> DEFINE s == SeenOf(b)
               todo == WaitingAt(b, b.cur..n)
    <2>1. T \in SUBSET todo
      BY <1>1, <1>2, <1>4, <1>5 DEF WaitingAt, l
    <2>2. IsFiniteSet(todo) /\ Cardinality(todo) \in Nat
      <3>1. todo \in SUBSET In(b, "WAITING")
        BY DEF WaitingAt
      <3>2. IsFiniteSet(todo)
        BY <3>1, StatesFinite, FS_Subset
      <3> QED
        BY <3>2, FS_CardinalityType
    <2>3. stop = n + 1 => T = todo
      BY <1>1, <1>2, <1>4, <1>5 DEF WaitingAt, In, l
    <2>4. Cardinality(T) <= Cardinality(todo)
      BY <2>1, <2>2, FS_Subset
    <2> DEFINE room == b.parallel - b.running
    <2>5. b.parallel \in Nat /\ b.running \in Nat
      BY <1>2, BarrierAssumption DEF Bars
    <2>6. Cardinality(T) = IF Cardinality(todo) < room THEN Cardinality(todo) ELSE room
      <3> HIDE DEF T, todo
      <3> QED
        BY <1>1, <1>8, <2>2, <2>3, <2>4, <2>5
    <2>7. s.todo = todo /\ s.limit - Cardinality(s.running) = room
      <3>1. s.limit = b.parallel /\ s.running = In(b, "RUNNING") /\ s.todo = todo
        BY <1>2, SeenFields DEF l
      <3>2. b.running = Cardinality(In(b, "RUNNING"))
        BY DEF Sound, CountsExact
      <3> HIDE DEF s, todo
      <3> QED
        BY <3>1, <3>2
    <2>8. WaitingAt(c, stop..n) = todo \ T
      <3>1. \A i \in 1..n : i >= b.cur /\ l[i] \in In(b, "WAITING") /\ l[i] \notin T => i >= stop
        BY <1>1, <1>2, <1>4 DEF In
      <3> HIDE DEF T
      <3> QED
        BY <1>1, <1>2, <1>3, <1>6, <3>1 DEF WaitingAt, l
    <2>9. WaitingAt(c, 1..(stop - 1)) = WaitingAt(b, 1..(b.cur - 1))
      <3>1. \A i \in 1..n : i < b.cur => l[i] \notin T
        BY <1>1, <1>2, <1>4
      <3>2. \A i \in 1..n : i < stop /\ l[i] \in In(b, "WAITING") /\ l[i] \notin T => i < b.cur
        BY <1>1, <1>2, <1>4 DEF In
      <3>3. \A i \in 1..n : i < stop /\ l[i] \in In(c, "WAITING")
                              <=> i < b.cur /\ l[i] \in In(b, "WAITING")
        <4> HIDE DEF T
        <4> QED
          BY <1>1, <1>2, <1>6, <3>1, <3>2
      <3>4. 1..(stop - 1) \subseteq 1..n /\ 1..(b.cur - 1) \subseteq 1..n
            /\ stop \in Nat /\ b.cur \in Nat /\ n \in Nat
        BY <1>1, <1>2
      <3> HIDE DEF T, n
      <3> QED
        BY <1>3, <3>3, <3>4 DEF WaitingAt, l
    <2>10. SeenOf(c) = [s EXCEPT !.todo = @ \ T, !.running = @ \union T]
      <3> DEFINE w == [s EXCEPT !.todo = @ \ T, !.running = @ \union T]
      <3>1. s \in Seens /\ s.limit = b.parallel /\ s.todo = todo /\ s.running = In(b, "RUNNING")
            /\ s.done = WaitingAt(b, 1..(b.cur - 1))
        BY <1>2, SeenFields DEF l
      <3>2. SeenOf(c) \in Seens /\ SeenOf(c).limit = b.parallel /\ SeenOf(c).todo = todo \ T
            /\ SeenOf(c).running = In(b, "RUNNING") \union T
            /\ SeenOf(c).done = WaitingAt(b, 1..(b.cur - 1))
        BY <1>3, <1>6, <2>8, <2>9, SeenFields DEF l
      <3>3. T \in SUBSET Thread
        BY <1>5 DEF In
      <3> HIDE DEF s, T, todo
      <3>4. w \in Seens /\ w.limit = s.limit /\ w.todo = s.todo \ T
            /\ w.running = s.running \union T /\ w.done = s.done
        BY <3>1, <3>3 DEF Seens
      <3> HIDE DEF w
      <3> DEFINE v == SeenOf(c)
      <3>5. v \in Seens /\ v.limit = w.limit /\ v.todo = w.todo /\ v.running = w.running
            /\ v.done = w.done
        BY <3>1, <3>2, <3>4
      <3> HIDE DEF v
      <3>6. v = w
        BY <3>4, <3>5, SameSeen
      <3> QED
        BY <3>6 DEF v, w
    <2> HIDE DEF s, todo, T, room
    <2> QED
      BY <2>1, <2>6, <2>7, <2>10, AbstractWoken DEF s
  <1> QED
    BY <1>3, <1>10, <1>11, <1>12, <1>13, <1>14 DEF Sound, c

-----------------------------------------------------------------------------
(* The parts of the cleanup pass, as in Cleanup: the places whose thread   *)
(* stays, the size of the new list, the holes in it and the place behind   *)
(* it, the hole that the loop fills from place j, the place it is filled   *)
(* from.                                                                   *)
Stays(b, i) == b.state[b.runList[i]] # "LEFT"
Size(b) == Cardinality({i \in 1..Len(b.runList) : Stays(b, i)})
Gaps(b) == {i \in 1..Size(b) : ~Stays(b, i)}
Holes(b) == Gaps(b) \union {Size(b) + 1}
After(b, j) == {k \in (j + 1)..Len(b.runList) : Stays(b, k)}
HoleOf(b, j) ==
    CHOOSE h \in Holes(b) : Cardinality({g \in Holes(b) : g < h}) = Cardinality(After(b, j))
Mover(b, h) ==
    CHOOSE j \in (Size(b) + 1)..Len(b.runList) : Stays(b, j) /\ HoleOf(b, j) = h
Rest(b) == {j \in (Size(b) + 1)..Len(b.runList) : Stays(b, j)}

(* There are as many stayers behind the new end as gaps before it. *)
LEMMA GapsAndRest ==
    ASSUME NEW b, Len(b.runList) \in Nat
    PROVE  /\ Size(b) \in 0..Len(b.runList)
           /\ IsFiniteSet(Gaps(b)) /\ IsFiniteSet(Rest(b))
           /\ Cardinality(Gaps(b)) \in Nat /\ Cardinality(Gaps(b)) = Cardinality(Rest(b))
  <1> DEFINE n == Len(b.runList)
             S == {i \in 1..n : Stays(b, i)}
             size == Size(b)
             Lo == {i \in 1..size : Stays(b, i)}
  <1>1. IsFiniteSet(1..n) /\ Cardinality(1..n) = n
    BY Places
  <1>2. S \in SUBSET (1..n)
    OBVIOUS
  <1>3. IsFiniteSet(S) /\ Cardinality(S) <= n /\ Cardinality(S) \in Nat /\ size = Cardinality(S)
    BY <1>1, <1>2, FS_Subset, FS_CardinalityType DEF Size
  <1> HIDE DEF n, size, S
  <1>4. size \in 0..n /\ n \in Nat
    BY <1>3 DEF n
  <1>5. IsFiniteSet(1..size) /\ Cardinality(1..size) = size
    BY <1>4, Places
  <1>6. Lo \in SUBSET (1..size) /\ Gaps(b) \in SUBSET (1..size) /\ Lo \union Gaps(b) = 1..size
        /\ Lo \cap Gaps(b) = {}
    BY DEF Gaps, size
  <1>7. Lo \in SUBSET S /\ Rest(b) \in SUBSET S /\ Lo \union Rest(b) = S /\ Lo \cap Rest(b) = {}
    BY <1>4 DEF Rest, S, n, size
  <1> HIDE DEF Lo
  <1>8. /\ IsFiniteSet(Lo) /\ IsFiniteSet(Gaps(b)) /\ IsFiniteSet(Rest(b))
        /\ Cardinality(Lo) \in Nat /\ Cardinality(Gaps(b)) \in Nat /\ Cardinality(Rest(b)) \in Nat
    BY <1>3, <1>5, <1>6, <1>7, FS_Subset, FS_CardinalityType
  <1>9. size = Cardinality(Lo) + Cardinality(Gaps(b))
    <2>1. Cardinality(Lo \union Gaps(b)) = Cardinality(Lo) + Cardinality(Gaps(b))
      BY <1>6, <1>8, DisjointUnion
    <2> QED
      BY <1>5, <1>6, <2>1
  <1>10. size = Cardinality(Lo) + Cardinality(Rest(b))
    <2>1. Cardinality(Lo \union Rest(b)) = Cardinality(Lo) + Cardinality(Rest(b))
      BY <1>7, <1>8, DisjointUnion
    <2> QED
      BY <1>3, <1>7, <2>1
  <1> QED
    BY <1>4, <1>8, <1>9, <1>10 DEF n, size

(* The loop fills each gap from one place of the rest, and the other way   *)
(* round; what else it looks at goes to a hole too.                        *)
LEMMA GapsFilled ==
    ASSUME NEW b, Len(b.runList) \in Nat
    PROVE  /\ \A j \in (Size(b) + 1)..Len(b.runList) : HoleOf(b, j) \in Holes(b)
           /\ \A h \in Gaps(b) : Mover(b, h) \in Rest(b) /\ HoleOf(b, Mover(b, h)) = h
           /\ \A j \in Rest(b) : HoleOf(b, j) \in Gaps(b) /\ Mover(b, HoleOf(b, j)) = j
  <1> DEFINE n == Len(b.runList)
             size == Size(b)
             m == Cardinality(Gaps(b))
             H == Holes(b)
             T == Rest(b)
             rank(h) == Cardinality({g \in H : g < h})
             behind(j) == Cardinality(After(b, j))
  <1>1. /\ size \in 0..n /\ n \in Nat /\ m \in Nat /\ m = Cardinality(T)
        /\ IsFiniteSet(Gaps(b)) /\ IsFiniteSet(T)
    BY GapsAndRest
  <1>2. /\ Gaps(b) \subseteq 1..size /\ T \subseteq (size + 1)..n
        /\ H = Gaps(b) \union {size + 1} /\ size + 1 \notin Gaps(b)
    BY <1>1 DEF Gaps, Rest, Holes
  <1>3. IsFiniteSet(H) /\ Cardinality(H) = m + 1 /\ H \subseteq Int
    <2>1. IsFiniteSet(H) /\ Cardinality(H) = m + 1
      <3> HIDE DEF H, size
      <3>1. /\ IsFiniteSet(Gaps(b) \union {size + 1})
            /\ Cardinality(Gaps(b) \union {size + 1}) =
                  IF size + 1 \in Gaps(b) THEN m ELSE m + 1
        BY <1>1, FS_AddElement
      <3> QED
        BY <1>2, <3>1
    <2> QED
      BY <1>1, <1>2, <2>1
  <1>4. /\ \A h \in H : rank(h) \in 0..m
        /\ \A h, k \in H : rank(h) = rank(k) => h = k
        /\ \A r \in 0..m : \E h \in H : rank(h) = r
    <2> HIDE DEF H, m
    <2>1. Cardinality(H) - 1 = m
      BY <1>1, <1>3
    <2> QED
      BY <1>3, <2>1, RankFromBelow
  <1>5. rank(size + 1) = m
    <2>1. {g \in H : g < size + 1} = Gaps(b)
      BY <1>1, <1>2
    <2> QED
      BY <2>1
  <1>6. ASSUME NEW j \in (size + 1)..n PROVE behind(j) \in 0..m
    <2>1. After(b, j) \in SUBSET T
      BY <1>1 DEF After, Rest
    <2>2. IsFiniteSet(After(b, j)) /\ behind(j) <= Cardinality(T) /\ behind(j) \in Nat
      BY <1>1, <2>1, FS_Subset, FS_CardinalityType
    <2> QED
      BY <1>1, <2>2
  <1>7. /\ \A j \in T : behind(j) \in 0..(m - 1)
        /\ \A j, k \in T : behind(j) = behind(k) => j = k
        /\ \A r \in 0..(m - 1) : \E j \in T : behind(j) = r
    <2>1. \A j \in T : After(b, j) = {g \in T : g > j}
      BY <1>1 DEF After, Rest
    <2>2. T \subseteq Int
      BY <1>1, <1>2
    <2>3. \A j \in T : behind(j) = Cardinality({g \in T : g > j})
      BY <2>1
    <2> HIDE DEF T, m, behind
    <2>4. /\ \A j \in T : Cardinality({g \in T : g > j}) \in 0..(m - 1)
          /\ \A j, k \in T : Cardinality({g \in T : g > j}) = Cardinality({g \in T : g > k}) => j = k
          /\ \A r \in 0..(m - 1) : \E j \in T : Cardinality({g \in T : g > j}) = r
      BY <1>1, <2>2, RankFromAbove, ZenonT(30)
    <2> QED
      BY <2>3, <2>4
  <1>8. ASSUME NEW j \in (size + 1)..n
        PROVE  HoleOf(b, j) \in H /\ rank(HoleOf(b, j)) = behind(j)
    <2>1. \E h \in H : rank(h) = behind(j)
      BY <1>4, <1>6
    <2>2. HoleOf(b, j) = CHOOSE h \in H : rank(h) = behind(j)
      BY DEF HoleOf
    <2> HIDE DEF H, rank, behind
    <2> QED
      BY <2>1, <2>2
  <1> HIDE DEF rank, behind, m, n, size, H, T
  <1>9. ASSUME NEW j \in T PROVE HoleOf(b, j) \in Gaps(b)
    <2>1. j \in (size + 1)..n
      BY <1>2
    <2>2. HoleOf(b, j) \in H /\ rank(HoleOf(b, j)) # m
      BY <1>1, <1>7, <1>8, <2>1
    <2> QED
      BY <1>2, <1>5, <2>2
  <1>10. ASSUME NEW h \in Gaps(b) PROVE Mover(b, h) \in T /\ HoleOf(b, Mover(b, h)) = h
    <2>1. h \in H /\ size + 1 \in H /\ h # size + 1
      BY <1>2
    <2>2. rank(h) \in 0..(m - 1)
      BY <1>1, <1>4, <1>5, <2>1
    <2>3. PICK j \in T : behind(j) = rank(h)
      BY <1>7, <2>2
    <2>4. HoleOf(b, j) = h
      BY <1>2, <1>4, <1>8, <2>1, <2>3
    <2>5. Mover(b, h) = CHOOSE k \in (size + 1)..n : Stays(b, k) /\ HoleOf(b, k) = h
      BY DEF Mover, size, n
    <2>6. j \in (size + 1)..n /\ Stays(b, j)
      BY <1>2 DEF T, Rest
    <2>7. Mover(b, h) \in (size + 1)..n /\ Stays(b, Mover(b, h)) /\ HoleOf(b, Mover(b, h)) = h
      BY <2>4, <2>5, <2>6
    <2> QED
      BY <2>7 DEF T, Rest, size, n
  <1>11. ASSUME NEW j \in T PROVE Mover(b, HoleOf(b, j)) = j
    <2> DEFINE k == Mover(b, HoleOf(b, j))
    <2>1. k \in T /\ HoleOf(b, k) = HoleOf(b, j)
      BY <1>9, <1>10
    <2> HIDE DEF k
    <2>2. behind(k) = behind(j)
      BY <1>2, <1>8, <2>1
    <2>3. k = j
      BY <1>7, <2>1, <2>2
    <2> QED
      BY <2>3 DEF k
  <1> QED
    BY <1>8, <1>9, <1>10, <1>11 DEF n, size, H, T

(* What the cleanup pass leaves: a list of the stayers, each once, shorter *)
(* by the number of threads that left, which are OFFLINE now.              *)
LEMMA CleanupIs ==
    ASSUME NEW b, Sound(b), In(b, "RUNNING") = {}
    PROVE  LET c == Cleanup(b)
           IN  /\ c \in Bars
               /\ c.parallel = b.parallel /\ c.cur = b.cur /\ c.running = b.running
               /\ c.phase = b.phase /\ c.left = 0
               /\ Len(c.runList) = Size(b) /\ Size(b) = Len(b.runList) - b.left
               /\ IsInjective(c.runList) /\ ToSet(c.runList) = In(b, "WAITING")
               /\ In(c, "WAITING") = In(b, "WAITING") /\ In(c, "RUNNING") = {}
               /\ In(c, "LEFT") = {}
               /\ In(c, "OFFLINE") = In(b, "OFFLINE") \union In(b, "LEFT")
  <1> DEFINE n == Len(b.runList)
             l == b.runList
             size == Size(b)
             puts(t) == {j \in (size + 1)..n : l[j] = t /\ (j = n \/ HoleOf(b, j + 1) # j)}
             from(i) == IF Stays(b, i) THEN i ELSE Mover(b, i)
             list == [i \in 1..size |-> IF Stays(b, i) THEN l[i] ELSE l[Mover(b, i)]]
             lastIdx == [t \in Thread |->
                IF puts(t) # {} THEN HoleOf(b, CHOOSE j \in puts(t) : TRUE) ELSE b.lastIdx[t]]
             state == [t \in Thread |-> IF b.state[t] = "LEFT" THEN "OFFLINE" ELSE b.state[t]]
             c == [b EXCEPT !.runList = list, !.lastIdx = lastIdx, !.state = state, !.left = 0]
  <1>1. Cleanup(b) = c
    BY DEF Cleanup, Stays, Size, Gaps, Holes, After, HoleOf, Mover, Sound, Bars
  <1>2. /\ n \in Nat /\ n <= Cardinality(Thread) /\ Cardinality(Thread) \in Nat
        /\ \A i \in 1..n : l[i] \in Thread /\ b.state[l[i]] # "OFFLINE"
        /\ \A i, j \in 1..n : l[i] = l[j] => i = j
        /\ \A t \in Thread : b.state[t] # "OFFLINE" => \E i \in 1..n : l[i] = t
        /\ b \in Bars /\ b.state \in [Thread -> States]
    BY ListFacts DEF Sound, Bars
  <1>3. /\ size \in 0..n
        /\ \A j \in (size + 1)..n : HoleOf(b, j) \in Holes(b)
        /\ \A h \in Gaps(b) : Mover(b, h) \in Rest(b) /\ HoleOf(b, Mover(b, h)) = h
        /\ \A j \in Rest(b) : HoleOf(b, j) \in Gaps(b) /\ Mover(b, HoleOf(b, j)) = j
    BY <1>2, GapsAndRest, GapsFilled
  <1> HIDE DEF l
  <1>4. \A i \in 1..n : b.state[l[i]] = "WAITING" <=> Stays(b, i)
    BY <1>2 DEF Stays, In, States, l
  <1>5. size = n - b.left
    <2> DEFINE S == {i \in 1..n : Stays(b, i)}
               G == {i \in 1..n : ~Stays(b, i)}
    <2>1. S \in SUBSET (1..n) /\ G \in SUBSET (1..n) /\ S \union G = 1..n /\ S \cap G = {}
      OBVIOUS
    <2>2. {l[i] : i \in G} = In(b, "LEFT")
      BY <1>2 DEF Stays, In, l
    <2> HIDE DEF S, G
    <2>3. IsFiniteSet(G) /\ Cardinality(G) = b.left /\ IsFiniteSet(S)
      BY <2>1, <2>2, ThreadsAtPlaces DEF Sound, ListExact, CountsExact, Bars, l
    <2>4. Cardinality(S) \in Nat /\ Cardinality(G) \in Nat
      BY <2>3, FS_CardinalityType
    <2>5. Cardinality(1..n) = Cardinality(S) + Cardinality(G)
      <3>1. Cardinality(S \union G) = Cardinality(S) + Cardinality(G)
        BY <2>1, <2>3, DisjointUnion
      <3> QED
        BY <2>1, <3>1
    <2>6. size = Cardinality(S)
      BY DEF Size, S
    <2>7. Cardinality(1..n) = n
      BY <1>2, Places
    <2> HIDE DEF n, size
    <2> QED
      BY <1>2, <2>3, <2>4, <2>5, <2>6, <2>7
  <1> HIDE DEF n, size
  <1>6. /\ \A i \in 1..size : from(i) \in 1..n /\ Stays(b, from(i))
        /\ \A i, j \in 1..size : from(i) = from(j) => i = j
        /\ \A k \in 1..n : Stays(b, k) => \E i \in 1..size : from(i) = k
    <2>1. /\ \A i \in 1..size : ~Stays(b, i) <=> i \in Gaps(b)
          /\ Gaps(b) \subseteq 1..size
      BY DEF Gaps, size
    <2>2. \A k \in 1..n : k \in Rest(b) <=> k > size /\ Stays(b, k)
      BY <1>2, <1>3 DEF Rest, size, n
    <2>3. Rest(b) \subseteq 1..n
      BY <1>2, <1>3 DEF Rest, size, n
    <2>4. ASSUME NEW i \in 1..size
          PROVE  from(i) \in 1..n /\ Stays(b, from(i)) /\ (from(i) > size <=> i \in Gaps(b))
      BY <1>2, <1>3, <2>1, <2>2, <2>3
    <2>5. ASSUME NEW i \in 1..size, NEW j \in 1..size, from(i) = from(j) PROVE i = j
      <3>1. i \in Gaps(b) <=> j \in Gaps(b)
        BY <2>4, <2>5
      <3> QED
        BY <1>3, <2>1, <2>5, <3>1
    <2>6. ASSUME NEW k \in 1..n, Stays(b, k) PROVE \E i \in 1..size : from(i) = k
      <3>1. CASE k <= size
        BY <1>2, <1>3, <2>6, <3>1
      <3>2. CASE k > size
        <4>1. k \in Rest(b)
          BY <2>2, <2>6, <3>2
        <4>2. HoleOf(b, k) \in Gaps(b) /\ Mover(b, HoleOf(b, k)) = k
          BY <1>3, <4>1
        <4>3. HoleOf(b, k) \in 1..size /\ from(HoleOf(b, k)) = k
          BY <2>1, <4>2
        <4> QED
          BY <4>3
      <3> QED
        BY <1>2, <1>3, <3>1, <3>2
    <2> QED
      BY <2>4, <2>5, <2>6
  <1> DEFINE f(i) == from(i)
  <1>7. \A i \in 1..size : list[i] = l[f(i)]
    OBVIOUS
  <1>8. list \in Seq(Thread) /\ Len(list) = size /\ DOMAIN list = 1..size
    <2>1. \A i \in 1..size : list[i] \in Thread
      BY <1>2, <1>6, <1>7
    <2>2. list \in [1..size -> Thread] /\ size \in Nat
      BY <1>3, <2>1
    <2> HIDE DEF list
    <2> QED
      BY <2>2
  <1>9. /\ \A i \in 1..size : f(i) \in 1..n /\ Stays(b, f(i))
        /\ \A i, j \in 1..size : f(i) = f(j) => i = j
        /\ \A k \in 1..n : Stays(b, k) => \E i \in 1..size : f(i) = k
    BY <1>6
  <1> HIDE DEF list, f
  <1>10. IsInjective(list)
    BY <1>2, <1>7, <1>8, <1>9 DEF IsInjective
  <1>11. ToSet(list) = In(b, "WAITING")
    <2>1. ToSet(list) = {list[i] : i \in 1..size}
      BY <1>8 DEF ToSet
    <2>2. \A i \in 1..size : list[i] \in In(b, "WAITING")
      BY <1>2, <1>4, <1>7, <1>9 DEF In
    <2>3. ASSUME NEW t \in In(b, "WAITING") PROVE \E i \in 1..size : list[i] = t
      <3>1. PICK k \in 1..n : l[k] = t
        BY <1>2, <2>3 DEF In
      <3>2. Stays(b, k)
        BY <1>4, <2>3, <3>1 DEF In
      <3> QED
        BY <1>7, <1>9, <3>1, <3>2
    <2> QED
      BY <2>1, <2>2, <2>3
  <1>12. lastIdx \in [Thread -> 1..Cardinality(Thread)]
    <2>1. ASSUME NEW j \in (size + 1)..n PROVE HoleOf(b, j) \in 1..Cardinality(Thread)
      <3>1. Holes(b) \subseteq 1..(size + 1)
        BY <1>2, <1>3 DEF Holes, Gaps, size
      <3> QED
        BY <1>2, <1>3, <2>1, <3>1
    <2>2. \A t \in Thread : puts(t) # {} => (CHOOSE j \in puts(t) : TRUE) \in (size + 1)..n
      OBVIOUS
    <2>3. b.lastIdx \in [Thread -> 1..Cardinality(Thread)]
      BY <1>2 DEF Bars
    <2> HIDE DEF puts
    <2> QED
      BY <2>1, <2>2, <2>3
  <1>13. state \in [Thread -> States]
    BY <1>2 DEF States
  <1> HIDE DEF lastIdx, state
  <1>14. /\ c \in Bars /\ c.runList = list /\ c.state = state /\ c.left = 0
         /\ c.parallel = b.parallel /\ c.cur = b.cur /\ c.running = b.running
         /\ c.phase = b.phase
    BY <1>2, <1>8, <1>12, <1>13 DEF Bars
  <1> HIDE DEF c
  <1>15. /\ In(c, "WAITING") = In(b, "WAITING") /\ In(c, "RUNNING") = {}
         /\ In(c, "LEFT") = {} /\ In(c, "OFFLINE") = In(b, "OFFLINE") \union In(b, "LEFT")
    <2>1. \A t \in Thread : c.state[t] = IF b.state[t] = "LEFT" THEN "OFFLINE" ELSE b.state[t]
      BY <1>14 DEF state
    <2> QED
      BY <2>1 DEF In
  <1> QED
    BY <1>1, <1>5, <1>8, <1>10, <1>11, <1>14, <1>15 DEF n, size

(* The shuffle permutes the list, and the indices that were right stay so. *)
LEMMA ShuffledSound ==
    ASSUME NEW b, Sound(b), In(b, "RUNNING") = {}, NEW e \in Shuffled(b)
    PROVE  /\ Sound(e)
           /\ e.parallel = b.parallel /\ e.state = b.state /\ e.cur = b.cur
           /\ e.running = b.running /\ e.left = b.left /\ e.phase = b.phase
  <1> DEFINE l == b.runList
             n == Len(l)
  <1>1. PICK p \in [1..n -> 1..n] :
          /\ \A i, j \in 1..n : p[i] = p[j] => i = j
          /\ e = [b EXCEPT !.runList = [i \in 1..n |-> l[p[i]]],
                           !.lastIdx = [t \in Thread |->
                               IF \E i \in 1..n : l[p[i]] = t /\ <<i, p[i]>> # <<1, 1>>
                                 THEN CHOOSE i \in 1..n : l[p[i]] = t
                                 ELSE b.lastIdx[t]]]
    BY Zenon DEF Shuffled
  <1> DEFINE list == [i \in 1..n |-> l[p[i]]]
             touched(t) == \E i \in 1..n : l[p[i]] = t /\ <<i, p[i]>> # <<1, 1>>
             place(t) == CHOOSE i \in 1..n : l[p[i]] = t
             lastIdx == [t \in Thread |-> IF touched(t) THEN place(t) ELSE b.lastIdx[t]]
  <1>2. /\ n \in Nat /\ n <= Cardinality(Thread) /\ Cardinality(Thread) \in Nat
        /\ \A i \in 1..n : l[i] \in Thread
        /\ \A i, j \in 1..n : l[i] = l[j] => i = j
        /\ b \in Bars /\ DOMAIN l = 1..n
    BY ListFacts DEF Sound
  <1>3. \A k \in 1..n : \E i \in 1..n : p[i] = k
    <2>1. p \in Injection(1..n, 1..n)
      BY <1>1 DEF Injection, IsInjective
    <2>2. IsFiniteSet(1..n)
      BY <1>2, Places
    <2>3. p \in Surjection(1..n, 1..n)
      BY <2>1, <2>2, FS_Injection
    <2> QED
      BY <2>3 DEF Surjection
  <1> HIDE DEF l, n
  <1>4. list \in Seq(Thread) /\ Len(list) = n /\ DOMAIN list = 1..n
        /\ \A i \in 1..n : list[i] = l[p[i]]
    <2>1. \A i \in 1..n : list[i] = l[p[i]] /\ list[i] \in Thread
      BY <1>1, <1>2
    <2>2. list \in [1..n -> Thread]
      BY <2>1
    <2> HIDE DEF list
    <2> QED
      BY <1>2, <2>1, <2>2
  <1>5. IsInjective(list)
    <2> HIDE DEF list
    <2> QED
      BY <1>1, <1>2, <1>4 DEF IsInjective
  <1>6. ToSet(list) = ToSet(l)
    <2>1. ToSet(list) = {list[i] : i \in 1..n} /\ ToSet(l) = {l[i] : i \in 1..n}
      BY <1>2, <1>4 DEF ToSet
    <2> HIDE DEF list
    <2>2. \A i \in 1..n : list[i] \in {l[k] : k \in 1..n}
      BY <1>1, <1>4
    <2>3. \A k \in 1..n : l[k] \in {list[i] : i \in 1..n}
      BY <1>1, <1>3, <1>4
    <2> QED
      BY <2>1, <2>2, <2>3
  <1>7. \A i \in 1..n : place(list[i]) = i
    <2> SUFFICES ASSUME NEW i \in 1..n PROVE place(list[i]) = i
      OBVIOUS
    <2>1. \A j \in 1..n : l[p[j]] = list[i] <=> j = i
      BY <1>1, <1>2, <1>4
    <2> HIDE DEF list
    <2> QED
      BY <2>1
  <1>8. \A t \in Thread : touched(t) => place(t) \in 1..n
    OBVIOUS
  <1>9. \A i \in 1..n : ~touched(list[i]) => i = 1 /\ p[i] = 1
    BY <1>1, <1>2, <1>4
  <1> HIDE DEF place, touched
  <1>10. b.lastIdx \in [Thread -> 1..Cardinality(Thread)]
    BY <1>2 DEF Bars
  <1>11. lastIdx \in [Thread -> 1..Cardinality(Thread)]
    BY <1>2, <1>8, <1>10
  <1>12. \A t \in Thread : lastIdx[t] = IF touched(t) THEN place(t) ELSE b.lastIdx[t]
    OBVIOUS
  <1>13. e = [b EXCEPT !.runList = list, !.lastIdx = lastIdx]
    BY <1>1 DEF place, touched
  <1> HIDE DEF list, lastIdx
  <1>14. e \in Bars /\ e.runList = list /\ e.lastIdx = lastIdx
         /\ e.parallel = b.parallel /\ e.state = b.state /\ e.cur = b.cur
         /\ e.running = b.running /\ e.left = b.left /\ e.phase = b.phase
    BY <1>2, <1>4, <1>11, <1>13 DEF Bars
  <1>15. \A s : In(e, s) = In(b, s)
    BY <1>14 DEF In
  <1>16. ListExact(e)
    BY <1>4, <1>5, <1>6, <1>14, <1>15 DEF Sound, ListExact, l, n
  <1>17. CountsExact(e)
    BY <1>14, <1>15 DEF Sound, CountsExact
  <1>18. IndicesKnown(e)
    <2>1. ASSUME ~KillNewcomers, NEW t \in In(e, "LEFT") PROVE KnownIn(e, t)
      <3>1. KnownIn(b, t) /\ t \in Thread
        BY <1>15, <2>1 DEF Sound, IndicesKnown, In
      <3>2. b.lastIdx[t] \in 1..n /\ l[b.lastIdx[t]] = t
        BY <3>1 DEF KnownIn, l, n
      <3>3. PICK i \in 1..n : p[i] = b.lastIdx[t]
        BY <1>3, <3>2
      <3>4. list[i] = t
        BY <1>4, <3>2, <3>3
      <3>5. lastIdx[t] = i
        BY <1>7, <1>9, <1>12, <3>1, <3>3, <3>4
      <3> QED
        BY <1>4, <1>14, <3>4, <3>5 DEF KnownIn
    <2> QED
      BY <1>15, <2>1 DEF IndicesKnown
  <1> QED
    BY <1>14, <1>16, <1>17, <1>18 DEF Sound

-----------------------------------------------------------------------------
(* At the start of a phase all waiting threads have their turn before them *)
(* and at the end behind them.                                             *)
LEMMA WaitingAll ==
    ASSUME NEW b, Sound(b)
    PROVE  /\ WaitingAt(b, 1..Len(b.runList)) = In(b, "WAITING")
           /\ WaitingAt(b, 1..0) = {} /\ WaitingAt(b, (Len(b.runList) + 1)..Len(b.runList)) = {}
  <1>1. /\ Len(b.runList) \in Nat
        /\ \A t \in Thread : b.state[t] # "OFFLINE" => \E i \in 1..Len(b.runList) : b.runList[i] = t
    BY ListFacts DEF Sound
  <1>2. \A t \in In(b, "WAITING") : \E i \in 1..Len(b.runList) : b.runList[i] = t
    BY <1>1 DEF In
  <1>3. 1..0 = {} /\ (Len(b.runList) + 1)..Len(b.runList) = {}
    BY <1>1
  <1> QED
    BY <1>2, <1>3 DEF WaitingAt

(* Nobody runs if and only if the counter says so, and everybody on the    *)
(* list left if and only if the other one does.                            *)
LEMMA CountersTell ==
    ASSUME NEW b, Sound(b)
    PROVE  /\ b.running = 0 <=> In(b, "RUNNING") = {}
           /\ b.left = Len(b.runList) <=> In(b, "RUNNING") = {} /\ In(b, "WAITING") = {}
  <1> DEFINE l == b.runList
             n == Len(l)
             L == In(b, "LEFT")
             T == {l[i] : i \in 1..n}
  <1>1. b.running = Cardinality(In(b, "RUNNING")) /\ b.left = Cardinality(L)
    BY DEF Sound, CountsExact
  <1>2. b.running = 0 <=> In(b, "RUNNING") = {}
    BY <1>1, StatesFinite, FS_EmptySet
  <1>3. n \in Nat /\ T = Thread \ In(b, "OFFLINE")
    BY ListFacts DEF Sound, ListExact, ToSet
  <1>4. Cardinality(T) = n /\ IsFiniteSet(T)
    <2>1. l \in Seq(Thread) /\ IsInjective(l) /\ 1..n \in SUBSET (1..n)
      BY DEF Sound, ListExact, Bars
    <2> QED
      BY <1>3, <2>1, ThreadsAtPlaces, Places
  <1>5. L \in SUBSET T
    <2> HIDE DEF T
    <2> QED
      BY <1>3 DEF In
  <1>6. Cardinality(L) = n <=> L = T
    <2> HIDE DEF L, T, n
    <2> QED
      BY <1>4, <1>5, FS_Subset
  <1>7. L = T <=> In(b, "RUNNING") = {} /\ In(b, "WAITING") = {}
    <2>1. \A t \in Thread : b.state[t] \in States
      BY DEF Sound, Bars
    <2> HIDE DEF T
    <2> QED
      BY <1>3, <2>1 DEF In, States
  <1> QED
    BY <1>1, <1>2, <1>6, <1>7

(* The barrier that starts the next phase, before the shuffle. *)
Rewound(b) == [b EXCEPT !.cur = 1, !.phase = (@ + 1) % CleanupPeriod]

LEMMA RewoundSound ==
    ASSUME NEW b, Sound(b), In(b, "RUNNING") = {}
    PROVE  /\ Sound(Rewound(b)) /\ Rewound(b).cur = 1
           /\ Rewound(b).parallel = b.parallel /\ Rewound(b).state = b.state
           /\ Rewound(b).running = b.running
  <1> DEFINE r == Rewound(b)
             ph == (b.phase + 1) % CleanupPeriod
  <1>1. ph \in 0..(CleanupPeriod - 1)
    BY BarrierAssumption DEF Sound, Bars
  <1>2. r = [b EXCEPT !.cur = 1, !.phase = ph]
    BY DEF Rewound, Sound, Bars
  <1> HIDE DEF r, ph
  <1>3. /\ r \in Bars /\ r.cur = 1 /\ r.parallel = b.parallel /\ r.state = b.state
        /\ r.running = b.running /\ r.left = b.left /\ r.runList = b.runList
        /\ r.lastIdx = b.lastIdx
    BY <1>1, <1>2 DEF Sound, Bars
  <1>4. \A s : In(r, s) = In(b, s)
    BY <1>3 DEF In
  <1>5. Len(r.runList) \in Nat
    BY <1>3 DEF Bars
  <1>6. ListExact(r)
    BY <1>3, <1>4, <1>5 DEF Sound, ListExact
  <1>7. CountsExact(r)
    BY <1>3, <1>4 DEF Sound, CountsExact
  <1>8. IndicesKnown(r)
    BY <1>3, <1>4 DEF Sound, IndicesKnown, KnownIn
  <1> QED
    BY <1>3, <1>6, <1>7, <1>8 DEF Sound, r

LEMMA CleanupSound ==
    ASSUME NEW b, Sound(b), In(b, "RUNNING") = {}, b.cur = 1
    PROVE  /\ Sound(Cleanup(b)) /\ Cleanup(b).cur = 1 /\ Cleanup(b).parallel = b.parallel
           /\ In(Cleanup(b), "RUNNING") = {} /\ In(Cleanup(b), "WAITING") = In(b, "WAITING")
  <1> DEFINE c == Cleanup(b)
  <1>1. /\ c \in Bars
        /\ c.parallel = b.parallel /\ c.cur = b.cur /\ c.running = b.running /\ c.left = 0
        /\ IsInjective(c.runList) /\ ToSet(c.runList) = In(b, "WAITING")
        /\ In(c, "WAITING") = In(b, "WAITING") /\ In(c, "RUNNING") = {}
        /\ In(c, "LEFT") = {}
    BY CleanupIs
  <1> HIDE DEF c
  <1>2. \A t \in Thread : c.state[t] \in States
    BY <1>1 DEF Bars
  <1>3. In(b, "WAITING") = Thread \ In(c, "OFFLINE")
    BY <1>1, <1>2 DEF In, States
  <1>4. Len(c.runList) \in Nat
    BY <1>1 DEF Bars
  <1>5. ListExact(c)
    BY <1>1, <1>3, <1>4 DEF ListExact
  <1>6. CountsExact(c)
    BY <1>1, FS_EmptySet DEF Sound, CountsExact
  <1>7. IndicesKnown(c)
    BY <1>1 DEF IndicesKnown
  <1> QED
    BY <1>1, <1>5, <1>6, <1>7 DEF Sound, c

(* checkEndPhase after checkRunList: it ends the phase if and only if all  *)
(* who waited had their turn and nobody has it, its assertion holds, and   *)
(* those who had their turn wait for the next.                             *)
LEMMA EndPhaseSound ==
    ASSUME NEW b, Sound(b), b.cur = Len(b.runList) + 1 \/ b.running = b.parallel,
           NEW e \in CheckEndPhase(b)
    PROVE  /\ Sound(e) /\ CleanupCounts(b)
           /\ In(e, "RUNNING") = In(b, "RUNNING") /\ In(e, "WAITING") = In(b, "WAITING")
           /\ EndOfPhase(b) <=> P!PhaseOver(SeenOf(b))
           /\ ~EndOfPhase(b) => e = b
           /\ EndOfPhase(b) => SeenOf(e) = P!NextPhase(SeenOf(b))
  <1> DEFINE n == Len(b.runList)
  <1>1. /\ b \in Bars /\ b.cur \in 1..(n + 1) /\ n \in Nat
        /\ b.parallel \in Nat \ {0} /\ b.running \in Nat
    BY ListFacts, BarrierAssumption DEF Sound, ListExact, Bars
  <1>2. /\ b.running = 0 <=> In(b, "RUNNING") = {}
        /\ b.left = n <=> In(b, "RUNNING") = {} /\ In(b, "WAITING") = {}
    BY CountersTell
  <1>3. b.cur = n + 1 => WaitingAt(b, b.cur..n) = {} /\ WaitingAt(b, 1..(b.cur - 1)) = In(b, "WAITING")
    <2>1. b.cur = n + 1 => b.cur - 1 = n
      BY <1>1
    <2> QED
      BY <2>1, WaitingAll
  <1>4. /\ SeenOf(b) \in Seens /\ SeenOf(b).limit = b.parallel
        /\ SeenOf(b).todo = WaitingAt(b, b.cur..n) /\ SeenOf(b).running = In(b, "RUNNING")
        /\ SeenOf(b).done = WaitingAt(b, 1..(b.cur - 1))
    BY <1>1, SeenFields
  <1>5. EndOfPhase(b) <=> b.cur = n + 1 /\ In(b, "RUNNING") = {} /\ In(b, "WAITING") # {}
    BY <1>2 DEF EndOfPhase
  <1>6. EndOfPhase(b) <=> P!PhaseOver(SeenOf(b))
    <2>1. P!PhaseOver(SeenOf(b)) <=> SeenOf(b).todo = {} /\ SeenOf(b).running = {} /\ SeenOf(b).done # {}
      BY DEF P!PhaseOver
    <2>2. In(b, "RUNNING") = {} => b.cur = n + 1
      BY <1>1, <1>2
    <2> QED
      BY <1>3, <1>4, <1>5, <2>1, <2>2
  <1>7. CleanupCounts(b)
    <2>1. EndOfPhase(b) => Len(Cleanup(b).runList) = n - b.left
      BY <1>5, CleanupIs
    <2>2. b.left \in Nat
      BY <1>1 DEF Bars
    <2>3. EndOfPhase(b) => n - Len(Cleanup(b).runList) = b.left
      <3> HIDE DEF n
      <3> QED
        BY <1>1, <2>1, <2>2
    <2> QED
      BY <2>3, Zenon DEF CleanupCounts
  <1>8. CASE ~EndOfPhase(b)
    <2>1. e = b
      BY <1>8 DEF CheckEndPhase
    <2> QED
      BY <1>6, <1>7, <1>8, <2>1
  <1>9. CASE EndOfPhase(b)
    <2> DEFINE r == Rewound(b)
               c == IF b.phase = 0 THEN Cleanup(r) ELSE r
    <2>1. e \in (IF c.parallel < Len(c.runList) THEN Shuffled(c) ELSE {c})
      BY <1>9 DEF CheckEndPhase, Rewound
    <2>2. /\ Sound(r) /\ r.cur = 1 /\ r.parallel = b.parallel /\ r.state = b.state
      BY <1>5, <1>9, RewoundSound
    <2>3. In(r, "RUNNING") = {} /\ In(r, "WAITING") = In(b, "WAITING")
      BY <1>5, <1>9, <2>2 DEF In
    <2> HIDE DEF r
    <2>4. /\ Sound(c) /\ c.cur = 1 /\ c.parallel = b.parallel
          /\ In(c, "RUNNING") = {} /\ In(c, "WAITING") = In(b, "WAITING")
      BY <2>2, <2>3, CleanupSound
    <2> HIDE DEF c
    <2>5. /\ Sound(e) /\ e.parallel = c.parallel /\ e.state = c.state /\ e.cur = c.cur
      BY <2>1, <2>4, ShuffledSound
    <2>6. In(e, "RUNNING") = {} /\ In(e, "WAITING") = In(b, "WAITING")
      BY <2>4, <2>5 DEF In
    <2>7. WaitingAt(e, e.cur..Len(e.runList)) = In(b, "WAITING") /\ WaitingAt(e, 1..(e.cur - 1)) = {}
      <3>1. e.cur = 1 /\ e.cur - 1 = 0
        BY <2>4, <2>5
      <3> QED
        BY <2>5, <2>6, <3>1, WaitingAll
    <2>8. /\ SeenOf(e) \in Seens /\ SeenOf(e).limit = b.parallel
          /\ SeenOf(e).todo = In(b, "WAITING") /\ SeenOf(e).running = {} /\ SeenOf(e).done = {}
      BY <2>4, <2>5, <2>6, <2>7, SeenFields DEF Sound
    <2> DEFINE s == SeenOf(b)
               w == [s EXCEPT !.todo = s.done, !.done = {}]
    <2>9. s \in Seens /\ s.limit = b.parallel /\ s.running = {} /\ s.done = In(b, "WAITING")
      BY <1>3, <1>4, <1>5, <1>9
    <2>10. P!NextPhase(s) = w
      BY DEF P!NextPhase
    <2> HIDE DEF s
    <2>11. /\ w \in Seens /\ w.limit = b.parallel /\ w.todo = In(b, "WAITING")
           /\ w.running = {} /\ w.done = {}
      BY <2>9 DEF Seens
    <2> HIDE DEF w
    <2>12. SeenOf(e) = w
      BY <2>8, <2>11, SameSeen
    <2> QED
      BY <1>5, <1>6, <1>7, <1>9, <2>5, <2>6, <2>10, <2>12 DEF s
  <1> QED
    BY <1>8, <1>9

(* Where there is no room, or nobody waits, nobody is woken. *)
LEMMA NobodyToWake ==
    ASSUME NEW b, Sound(b), b.cur = Len(b.runList) + 1 \/ b.running = b.parallel,
           NEW w \in P!Woken(SeenOf(b))
    PROVE  w = SeenOf(b)
  <1> DEFINE s == SeenOf(b)
             n == Len(b.runList)
  <1>1. /\ s \in Seens /\ s.limit = b.parallel /\ s.running = In(b, "RUNNING")
        /\ s.todo = WaitingAt(b, b.cur..n)
    BY SeenFields DEF Sound
  <1>2. b.cur = n + 1 => s.todo = {}
    BY <1>1, WaitingAll
  <1> HIDE DEF s
  <1>3. b.running = b.parallel => s.limit - Cardinality(s.running) = 0
    <2>1. s.limit \in Nat /\ b.running = Cardinality(s.running)
      BY <1>1, BarrierAssumption DEF Sound, CountsExact, Bars
    <2> QED
      BY <1>1, <2>1
  <1>4. IsFiniteSet(s.todo) /\ Cardinality(s.todo) \in Nat
    <2>1. s.todo \in SUBSET Thread
      BY <1>1 DEF Seens
    <2> QED
      BY <2>1, BarrierAssumption, FS_Subset, FS_CardinalityType
  <1>5. PICK V \in SUBSET s.todo :
          /\ w = [s EXCEPT !.todo = @ \ V, !.running = @ \union V]
          /\ Cardinality(V) = IF Cardinality(s.todo) < s.limit - Cardinality(s.running)
                                THEN Cardinality(s.todo) ELSE s.limit - Cardinality(s.running)
    BY SameCardinality, Zenon DEF P!Woken, P!Room, s
  <1>6. V = {}
    <2>1. CASE s.todo = {}
      BY <2>1
    <2>2. CASE s.limit - Cardinality(s.running) = 0
      <3>1. Cardinality(V) = 0
        BY <1>4, <1>5, <2>2
      <3>2. IsFiniteSet(V)
        BY <1>4, FS_Subset
      <3> QED
        BY <3>1, <3>2, FS_EmptySet
    <2> QED
      BY <1>2, <1>3, <2>1, <2>2
  <1>7. w \in Seens /\ w.limit = s.limit /\ w.todo = s.todo /\ w.running = s.running
        /\ w.done = s.done
    BY <1>1, <1>5, <1>6 DEF Seens
  <1>8. w = s
    BY <1>1, <1>7, SameSeen
  <1> QED
    BY <1>8 DEF s

(* All of tryWakeNext: it keeps the barrier sound, its assertion holds,    *)
(* the threads it wakes were waiting, and the callers see the abstract     *)
(* step.                                                                   *)
LEMMA TryWakeNextSound ==
    ASSUME NEW b, Sound(b), NEW n \in TryWakeNext(b)
    PROVE  /\ Sound(n.b) /\ CleanupCounts(n.served)
           /\ In(b, "RUNNING") \subseteq In(n.b, "RUNNING")
           /\ In(n.b, "RUNNING") \subseteq In(b, "RUNNING") \union In(b, "WAITING")
           /\ In(n.b, "WAITING") = In(b, "WAITING") \ In(n.b, "RUNNING")
           /\ SeenOf(n.b) \in P!Served(SeenOf(b))
  <1> DEFINE s == CheckRunList(b)
  <1>1. PICK e \in CheckEndPhase(s) :
          n = [served |-> s, ended |-> EndOfPhase(s), b |-> CheckRunList(e)]
    BY Zenon DEF TryWakeNext
  <1>2. n.served = s /\ n.b = CheckRunList(e)
    BY <1>1
  <1>3. Sound(s) /\ Wakes(b, s) /\ SeenOf(s) \in P!Woken(SeenOf(b))
    BY CheckRunListSound
  <1> HIDE DEF s
  <1>4. s.cur = Len(s.runList) + 1 \/ s.running = s.parallel
    BY <1>3 DEF Wakes
  <1>5. /\ Sound(e) /\ CleanupCounts(s)
        /\ In(e, "RUNNING") = In(s, "RUNNING") /\ In(e, "WAITING") = In(s, "WAITING")
        /\ EndOfPhase(s) <=> P!PhaseOver(SeenOf(s))
        /\ ~EndOfPhase(s) => e = s
        /\ EndOfPhase(s) => SeenOf(e) = P!NextPhase(SeenOf(s))
    BY <1>1, <1>3, <1>4, EndPhaseSound
  <1> DEFINE d == CheckRunList(e)
  <1>6. Sound(d) /\ Wakes(e, d) /\ SeenOf(d) \in P!Woken(SeenOf(e))
    BY <1>5, CheckRunListSound
  <1> HIDE DEF d
  <1>7. /\ In(b, "RUNNING") \subseteq In(d, "RUNNING")
        /\ In(d, "RUNNING") \subseteq In(b, "RUNNING") \union In(b, "WAITING")
        /\ In(d, "WAITING") = In(b, "WAITING") \ In(d, "RUNNING")
    BY <1>3, <1>5, <1>6 DEF Wakes
  <1>8. SeenOf(d) \in P!Served(SeenOf(b))
    <2>1. CASE EndOfPhase(s)
      <3>1. SeenOf(d) \in P!Woken(P!NextPhase(SeenOf(s))) /\ P!PhaseOver(SeenOf(s))
        BY <1>5, <1>6, <2>1
      <3> QED
        BY <1>3, <3>1, Zenon DEF P!Served
    <2>2. CASE ~EndOfPhase(s)
      <3>1. SeenOf(d) = SeenOf(s) /\ ~P!PhaseOver(SeenOf(s))
        BY <1>3, <1>4, <1>5, <1>6, <2>2, NobodyToWake
      <3> QED
        BY <1>3, <3>1, Zenon DEF P!Served
    <2> QED
      BY <2>1, <2>2
  <1> QED
    BY <1>2, <1>5, <1>6, <1>7, <1>8 DEF d

-----------------------------------------------------------------------------
(* The abstract changes, field by field. *)
LEMMA AbstractChanges ==
    ASSUME NEW a \in Bars, NEW b \in Bars, NEW t \in Thread, a.parallel = b.parallel
    PROVE  LET u == SeenOf(a)
               v == SeenOf(b)
           IN  /\ /\ u.todo = v.todo \union {t} /\ u.running = v.running /\ u.done = v.done
                  => u = P!Joined(v, t)
               /\ /\ u.todo = v.todo /\ u.running = v.running \ {t} /\ u.done = v.done \union {t}
                  => u = P!Synced(v, t)
               /\ /\ u.todo = v.todo \ {t} /\ u.running = v.running \ {t} /\ u.done = v.done \ {t}
                  => u = P!Without(v, t)
  <1> DEFINE u == SeenOf(a)
             v == SeenOf(b)
             j == [v EXCEPT !.todo = v.todo \union {t}]
             s == [v EXCEPT !.running = v.running \ {t}, !.done = v.done \union {t}]
             w == [v EXCEPT !.todo = v.todo \ {t}, !.running = v.running \ {t}, !.done = v.done \ {t}]
  <1>1. u \in Seens /\ v \in Seens /\ u.limit = v.limit
    BY SeenFields
  <1> HIDE DEF u, v
  <1>2. P!Joined(v, t) = j /\ P!Synced(v, t) = s /\ P!Without(v, t) = w
    BY DEF P!Joined, P!Synced, P!Without
  <1>3. j \in Seens /\ j.limit = v.limit /\ j.todo = v.todo \union {t}
        /\ j.running = v.running /\ j.done = v.done
    BY <1>1 DEF Seens
  <1>4. s \in Seens /\ s.limit = v.limit /\ s.todo = v.todo
        /\ s.running = v.running \ {t} /\ s.done = v.done \union {t}
    BY <1>1 DEF Seens
  <1>5. w \in Seens /\ w.limit = v.limit /\ w.todo = v.todo \ {t}
        /\ w.running = v.running \ {t} /\ w.done = v.done \ {t}
    BY <1>1 DEF Seens
  <1> HIDE DEF j, s, w
  <1>6. u.todo = v.todo \union {t} /\ u.running = v.running /\ u.done = v.done => u = j
    BY <1>1, <1>3, SameSeen
  <1>7. u.todo = v.todo /\ u.running = v.running \ {t} /\ u.done = v.done \union {t} => u = s
    BY <1>1, <1>4, SameSeen
  <1>8. u.todo = v.todo \ {t} /\ u.running = v.running \ {t} /\ u.done = v.done \ {t} => u = w
    BY <1>1, <1>5, SameSeen
  <1> QED
    BY <1>2, <1>6, <1>7, <1>8 DEF u, v

(* One thread changes its state. *)
Moves(a, b, t, x) == a.state = [b.state EXCEPT ![t] = x]

(* What that does to the threads in each state, and to their numbers. *)
Counted(a, b, t, x) ==
    /\ \A y \in States : In(a, y) = IF y = x THEN In(b, y) \union {t} ELSE In(b, y) \ {t}
    /\ t \notin In(b, x) => Cardinality(In(a, x)) = Cardinality(In(b, x)) + 1
    /\ \A y \in States :
          y # x /\ t \in In(b, y) => Cardinality(In(a, y)) = Cardinality(In(b, y)) - 1

LEMMA StateMoves ==
    ASSUME NEW a, NEW b \in Bars, NEW t \in Thread, NEW x \in States, Moves(a, b, t, x)
    PROVE  Counted(a, b, t, x)
  <1>1. /\ a.state[t] = x
        /\ \A u \in Thread : u # t => a.state[u] = b.state[u]
    BY DEF Bars, Moves
  <1>2. \A y \in States : In(a, y) = IF y = x THEN In(b, y) \union {t} ELSE In(b, y) \ {t}
    BY <1>1 DEF In
  <1>3. ASSUME t \notin In(b, x) PROVE Cardinality(In(a, x)) = Cardinality(In(b, x)) + 1
    <2>1. IsFiniteSet(In(b, x)) /\ In(a, x) = In(b, x) \union {t}
      BY <1>2, StatesFinite
    <2>2. Cardinality(In(b, x) \union {t}) = Cardinality(In(b, x)) + 1
      BY <1>3, <2>1, FS_AddElement
    <2> QED
      BY <2>1, <2>2
  <1>4. ASSUME NEW y \in States, y # x, t \in In(b, y)
        PROVE  Cardinality(In(a, y)) = Cardinality(In(b, y)) - 1
    <2>1. IsFiniteSet(In(b, y)) /\ In(a, y) = In(b, y) \ {t}
      BY <1>2, <1>4, StatesFinite
    <2>2. Cardinality(In(b, y) \ {t}) = Cardinality(In(b, y)) - 1
      BY <1>4, <2>1, FS_RemoveElement
    <2> QED
      BY <2>1, <2>2
  <1> QED
    BY <1>2, <1>3, <1>4 DEF Counted

(* The four states. *)
LEMMA FourStates ==
    "OFFLINE" \in States /\ "WAITING" \in States /\ "RUNNING" \in States /\ "LEFT" \in States
  BY DEF States

(* join of a thread that is OFFLINE: it waits, at the end of the list. *)
LEMMA AppendedSound ==
    ASSUME Sound(bar), NEW t \in Thread, bar.state[t] = "OFFLINE"
    PROVE  /\ Sound(Appended(t)) /\ Moves(Appended(t), bar, t, "WAITING")
           /\ SeenOf(Appended(t)) = P!Joined(SeenOf(bar), t)
  <1> DEFINE a == Appended(t)
             l == bar.runList
             n == Len(l)
             k == Append(l, t)
  <1>1. /\ bar \in Bars /\ l \in Seq(Thread) /\ n \in Nat /\ bar.cur \in 1..(n + 1)
        /\ DOMAIN l = 1..n
        /\ \A i \in 1..n : l[i] \in Thread /\ bar.state[l[i]] # "OFFLINE"
        /\ \A i, j \in 1..n : l[i] = l[j] => i = j
        /\ IndicesKnown(bar) /\ CountsExact(bar) /\ ToSet(l) = Thread \ In(bar, "OFFLINE")
    BY ListFacts DEF Sound, ListExact, Bars
  <1>2. k \in Seq(Thread) /\ Len(k) = n + 1 /\ DOMAIN k = 1..(n + 1) /\ k[n + 1] = t
        /\ \A i \in 1..n : k[i] = l[i]
    BY <1>1
  <1> HIDE DEF l, k
  <1>3. [bar.state EXCEPT ![t] = "WAITING"] \in [Thread -> States]
    BY <1>1 DEF Bars, States
  <1>4. a = [bar EXCEPT !.runList = k, !.state = [bar.state EXCEPT ![t] = "WAITING"]]
    BY <1>1 DEF Appended, Bars, k, l
  <1> HIDE DEF a
  <1>5. /\ a \in Bars /\ Moves(a, bar, t, "WAITING") /\ a.runList = k
        /\ a.parallel = bar.parallel /\ a.cur = bar.cur /\ a.lastIdx = bar.lastIdx
        /\ a.running = bar.running /\ a.left = bar.left
    BY <1>1, <1>2, <1>3, <1>4 DEF Bars, Moves
  <1>6. /\ In(a, "WAITING") = In(bar, "WAITING") \union {t}
        /\ In(a, "RUNNING") = In(bar, "RUNNING") /\ In(a, "LEFT") = In(bar, "LEFT")
        /\ In(a, "OFFLINE") = In(bar, "OFFLINE") \ {t}
    <2>1. Counted(a, bar, t, "WAITING")
      BY <1>1, <1>5, FourStates, StateMoves
    <2> QED
      BY <2>1, FourStates DEF In, Counted
  <1>7. ListExact(a)
    <2>1. IsInjective(k)
      BY <1>1, <1>2 DEF IsInjective
    <2>2. ToSet(k) = ToSet(l) \union {t}
      BY <1>1, <1>2 DEF ToSet
    <2>3. bar.cur \in 1..(n + 2)
      BY <1>1
    <2> QED
      BY <1>1, <1>2, <1>5, <1>6, <2>1, <2>2, <2>3 DEF ListExact
  <1>8. CountsExact(a)
    BY <1>1, <1>5, <1>6 DEF CountsExact
  <1>9. IndicesKnown(a)
    <2>1. \A u : KnownIn(bar, u) => KnownIn(a, u)
      BY <1>1, <1>2, <1>5 DEF KnownIn, l
    <2> QED
      BY <1>1, <1>5, <1>6, <2>1 DEF IndicesKnown
  <1>10. SeenOf(a) = P!Joined(SeenOf(bar), t)
    <2>1. \A i \in 1..n : k[i] # t
      BY <1>1, <1>2
    <2>2. WaitingAt(a, a.cur..(n + 1)) = WaitingAt(bar, bar.cur..n) \union {t}
      <3>1. a.cur..(n + 1) = (bar.cur..n) \union {n + 1} /\ bar.cur..n \subseteq 1..n
        BY <1>1, <1>5
      <3>2. \A i \in bar.cur..n : k[i] = l[i] /\ l[i] # t
        BY <1>1, <1>2, <2>1, <3>1
      <3> HIDE DEF n
      <3> QED
        BY <1>2, <1>5, <1>6, <3>1, <3>2 DEF WaitingAt, l
    <2>3. WaitingAt(a, 1..(a.cur - 1)) = WaitingAt(bar, 1..(bar.cur - 1))
      BY <1>1, <1>2, <1>5, <1>6, <2>1, SMTT(30) DEF WaitingAt, l
    <2>4. /\ SeenOf(a).todo = SeenOf(bar).todo \union {t}
          /\ SeenOf(a).running = SeenOf(bar).running /\ SeenOf(a).done = SeenOf(bar).done
      BY <1>1, <1>2, <1>5, <1>6, <2>2, <2>3, SeenFields DEF l
    <2> QED
      BY <1>1, <1>5, <2>4, AbstractChanges
  <1> QED
    BY <1>5, <1>7, <1>8, <1>9, <1>10 DEF Sound, a

(* join of a thread that left and keeps its place. *)
LEMMA BackSound ==
    ASSUME Sound(bar), NEW t \in Thread, bar.state[t] = "LEFT"
    PROVE  /\ Sound(Back(t)) /\ Moves(Back(t), bar, t, "WAITING")
           /\ Back(t).parallel = bar.parallel /\ Back(t).cur = bar.cur
           /\ Back(t).runList = bar.runList /\ Back(t).lastIdx = bar.lastIdx
           /\ Back(t).phase = bar.phase /\ Back(t).running = bar.running
           /\ ~KillNewcomers /\ ~ServedBefore(t) => SeenOf(Back(t)) = P!Joined(SeenOf(bar), t)
  <1> DEFINE a == Back(t)
             l == bar.runList
             n == Len(l)
  <1>1. /\ bar \in Bars /\ n \in Nat /\ bar.cur \in 1..(n + 1)
        /\ \A i, j \in 1..n : l[i] = l[j] => i = j
        /\ IndicesKnown(bar) /\ CountsExact(bar) /\ ListExact(bar)
    BY ListFacts DEF Sound, ListExact
  <1>2. [bar.state EXCEPT ![t] = "WAITING"] \in [Thread -> States]
    BY <1>1 DEF Bars, States
  <1>3. a = [bar EXCEPT !.left = bar.left - 1, !.state = [bar.state EXCEPT ![t] = "WAITING"]]
    BY <1>1 DEF Back, Bars
  <1> HIDE DEF a, l
  <1>4. /\ Moves(a, bar, t, "WAITING") /\ a.runList = l /\ a.left = bar.left - 1
        /\ a.parallel = bar.parallel /\ a.cur = bar.cur /\ a.lastIdx = bar.lastIdx
        /\ a.running = bar.running /\ a.phase = bar.phase
    BY <1>1, <1>2, <1>3 DEF Bars, Moves, l
  <1>5. /\ In(a, "WAITING") = In(bar, "WAITING") \union {t}
        /\ In(a, "RUNNING") = In(bar, "RUNNING") /\ In(a, "LEFT") = In(bar, "LEFT") \ {t}
        /\ In(a, "OFFLINE") = In(bar, "OFFLINE")
        /\ Cardinality(In(a, "LEFT")) = bar.left - 1
    <2> HIDE DEF n
    <2> USE FourStates
    <2>1. Counted(a, bar, t, "WAITING")
      BY <1>1, <1>4, StateMoves
    <2>2. t \in In(bar, "LEFT")
      BY DEF In
    <2>3. Cardinality(In(a, "LEFT")) = Cardinality(In(bar, "LEFT")) - 1
      BY <2>1, <2>2 DEF Counted
    <2>4. Cardinality(In(a, "LEFT")) = bar.left - 1
      BY <1>1, <2>3 DEF CountsExact
    <2> QED
      BY <2>1, <2>4 DEF In, Counted
  <1>6. a \in Bars
    <2>1. bar.left - 1 \in Nat
      BY <1>5, StatesFinite
    <2> QED
      BY <1>1, <1>2, <1>3, <2>1 DEF Bars
  <1>7. ListExact(a)
    BY <1>1, <1>4, <1>5 DEF ListExact, l
  <1>8. CountsExact(a)
    BY <1>1, <1>4, <1>5 DEF CountsExact
  <1>9. IndicesKnown(a)
    BY <1>1, <1>4, <1>5 DEF IndicesKnown, KnownIn, l
  <1>10. ASSUME ~KillNewcomers, ~ServedBefore(t) PROVE SeenOf(a) = P!Joined(SeenOf(bar), t)
    <2>1. KnownIn(bar, t)
      BY <1>1, <1>10 DEF IndicesKnown, In
    <2> DEFINE at == bar.lastIdx[t]
    <2>2. at \in bar.cur..n /\ l[at] = t
      BY <1>1, <1>10, <2>1 DEF KnownIn, ServedBefore, l
    <2> HIDE DEF at
    <2>3. \A i \in 1..n : i < bar.cur => l[i] # t
      BY <1>1, <2>2
    <2>4. WaitingAt(a, a.cur..n) = WaitingAt(bar, bar.cur..n) \union {t}
      BY <1>1, <1>4, <1>5, <2>2 DEF WaitingAt, l
    <2>5. WaitingAt(a, 1..(a.cur - 1)) = WaitingAt(bar, 1..(bar.cur - 1))
      BY <1>1, <1>4, <1>5, <2>3 DEF WaitingAt, l
    <2>6. /\ SeenOf(a).todo = SeenOf(bar).todo \union {t}
          /\ SeenOf(a).running = SeenOf(bar).running /\ SeenOf(a).done = SeenOf(bar).done
      BY <1>1, <1>4, <1>5, <1>6, <2>4, <2>5, SeenFields DEF l
    <2> QED
      BY <1>1, <1>4, <1>6, <2>6, AbstractChanges
  <1> QED
    BY <1>4, <1>6, <1>7, <1>8, <1>9, <1>10 DEF Sound, a, l

(* join of a thread that left and had its turn: it swaps places with the   *)
(* last one served, and is served next.                                    *)
LEMMA RescheduledSound ==
    ASSUME Sound(bar), NEW t \in Thread, bar.state[t] = "LEFT",
           ServedBefore(t), IndexKnown(t)
    PROVE  /\ Sound(Rescheduled(t)) /\ Moves(Rescheduled(t), bar, t, "WAITING")
           /\ SeenOf(Rescheduled(t)) = P!Joined(SeenOf(bar), t)
  <1> DEFINE a == Back(t)
             c == Rescheduled(t)
             l == bar.runList
             n == Len(l)
             at == bar.lastIdx[t]
             nxt == bar.cur - 1
             u == l[nxt]
             list == [l EXCEPT ![at] = u, ![nxt] = t]
             lastIdx == [bar.lastIdx EXCEPT ![u] = at, ![t] = nxt]
  <1>1. /\ Sound(a) /\ Moves(a, bar, t, "WAITING") /\ a.parallel = bar.parallel
        /\ a.cur = bar.cur /\ a.runList = l /\ a.lastIdx = bar.lastIdx
        /\ a.phase = bar.phase /\ a.running = bar.running
    BY BackSound
  <1>2. /\ bar \in Bars /\ n \in Nat /\ n <= Cardinality(Thread) /\ Cardinality(Thread) \in Nat
        /\ bar.cur \in 1..(n + 1) /\ l \in Seq(Thread) /\ DOMAIN l = 1..n
        /\ \A i \in 1..n : l[i] \in Thread
        /\ \A i, j \in 1..n : l[i] = l[j] => i = j
        /\ a \in Bars /\ ListExact(a) /\ CountsExact(a) /\ IndicesKnown(a)
    BY <1>1, ListFacts DEF Sound, ListExact, Bars
  <1>3. at \in 1..n /\ l[at] = t /\ at < bar.cur
    BY <1>2 DEF IndexKnown, ServedBefore, Bars
  <1>4. nxt \in 1..n /\ at <= nxt /\ u \in Thread
    BY <1>2, <1>3
  <1> HIDE DEF at, nxt, u, l, n
  <1>5. /\ list \in [1..n -> Thread] /\ list[nxt] = t /\ list[at] = u
        /\ \A i \in 1..n : i # at /\ i # nxt => list[i] = l[i]
    <2>1. l \in [1..n -> Thread]
      BY <1>2 DEF n
    <2>2. at = nxt => u = t
      BY <1>3 DEF u
    <2> QED
      BY <1>3, <1>4, <2>1, <2>2
  <1>6. /\ lastIdx \in [Thread -> 1..Cardinality(Thread)]
        /\ lastIdx[t] = nxt /\ lastIdx[u] = at
        /\ \A v \in Thread : v # t /\ v # u => lastIdx[v] = bar.lastIdx[v]
    <2>1. bar.lastIdx \in [Thread -> 1..Cardinality(Thread)]
      BY <1>2 DEF Bars
    <2>2. u = t => at = nxt
      BY <1>2, <1>3, <1>4 DEF u
    <2>3. at \in 1..Cardinality(Thread) /\ nxt \in 1..Cardinality(Thread)
      BY <1>2, <1>3, <1>4
    <2> QED
      BY <1>4, <2>1, <2>2, <2>3
  <1>7. c = [a EXCEPT !.cur = nxt, !.runList = list, !.lastIdx = lastIdx]
    BY <1>1, <1>2 DEF Rescheduled, Bars, l, at, nxt, u
  <1> HIDE DEF a, c, list, lastIdx
  <1>8. list \in Seq(Thread) /\ Len(list) = n /\ DOMAIN list = 1..n
    BY <1>2, <1>5
  <1>9. /\ c \in Bars /\ c.cur = nxt /\ c.runList = list /\ c.lastIdx = lastIdx
        /\ c.state = a.state /\ c.parallel = bar.parallel
        /\ c.running = a.running /\ c.left = a.left
    <2>1. nxt \in Nat
      BY <1>4
    <2> QED
      BY <1>1, <1>2, <1>6, <1>7, <1>8, <2>1 DEF Bars
  <1>10. \A s : In(c, s) = In(a, s)
    BY <1>9 DEF In
  <1>11. Moves(c, bar, t, "WAITING")
    BY <1>1, <1>9 DEF Moves
  <1>12. ListExact(c)
    <2>1. IsInjective(list)
      <3>1. l[nxt] = u
        BY DEF u
      <3> QED
        BY <1>2, <1>3, <1>4, <1>5, <1>8, <3>1 DEF IsInjective
    <2>2. ToSet(list) = ToSet(l)
      <3>1. ToSet(list) = {list[i] : i \in 1..n} /\ ToSet(l) = {l[i] : i \in 1..n}
        BY <1>2, <1>8 DEF ToSet
      <3>2. \A i \in 1..n : \E j \in 1..n : list[i] = l[j]
        BY <1>3, <1>4, <1>5 DEF u
      <3>3. \A i \in 1..n : \E j \in 1..n : l[i] = list[j]
        BY <1>3, <1>4, <1>5 DEF u
      <3> QED
        BY <3>1, <3>2, <3>3
    <2>3. nxt \in 1..(n + 1)
      BY <1>2, <1>4
    <2> QED
      BY <1>1, <1>2, <1>8, <1>9, <1>10, <2>1, <2>2, <2>3 DEF ListExact
  <1>13. CountsExact(c)
    BY <1>1, <1>2, <1>9, <1>10 DEF CountsExact
  <1>14. ASSUME NEW v \in Thread, v # t, KnownIn(a, v)
         PROVE  KnownIn(c, v) /\ (bar.lastIdx[v] < bar.cur => c.lastIdx[v] < c.cur)
    <2>1. bar.lastIdx[v] \in 1..n /\ l[bar.lastIdx[v]] = v
      BY <1>1, <1>14 DEF KnownIn, n
    <2>2. CASE v = u
      <3>1. at # nxt /\ at < nxt
        BY <1>2, <1>3, <1>4, <1>14, <2>2 DEF u
      <3> QED
        BY <1>3, <1>5, <1>6, <1>8, <1>9, <2>2, <3>1 DEF KnownIn
    <2>3. CASE v # u
      <3>1. bar.lastIdx[v] # at /\ bar.lastIdx[v] # nxt
        BY <1>3, <1>14, <2>1, <2>3 DEF u
      <3>2. bar.lastIdx[v] < bar.cur => bar.lastIdx[v] < nxt
        BY <1>2, <2>1, <3>1 DEF nxt
      <3> QED
        BY <1>5, <1>6, <1>8, <1>9, <1>14, <2>1, <2>3, <3>1, <3>2 DEF KnownIn
    <2> QED
      BY <2>2, <2>3
  <1>15. IndicesKnown(c)
    <2>1. t \notin In(a, "RUNNING") /\ t \notin In(a, "LEFT")
      <3>1. a.state[t] = "WAITING"
        BY <1>1, <1>2 DEF Moves, Bars
      <3> QED
        BY <3>1 DEF In
    <2>2. In(a, "RUNNING") \subseteq Thread /\ In(a, "LEFT") \subseteq Thread
      BY DEF In
    <2>3. /\ \A v \in In(a, "RUNNING") : KnownIn(a, v) /\ bar.lastIdx[v] < bar.cur
          /\ ~KillNewcomers => \A v \in In(a, "LEFT") : KnownIn(a, v)
      BY <1>1, <1>2 DEF IndicesKnown
    <2> QED
      BY <1>10, <1>14, <2>1, <2>2, <2>3 DEF IndicesKnown
  <1>16. SeenOf(c) = P!Joined(SeenOf(bar), t)
    <2>1. In(c, "WAITING") = In(bar, "WAITING") \union {t} /\ In(c, "RUNNING") = In(bar, "RUNNING")
      <3>1. Counted(c, bar, t, "WAITING")
        BY <1>2, <1>11, FourStates, StateMoves
      <3> QED
        BY <3>1, FourStates DEF In, Counted
    <2>2. t \notin In(bar, "WAITING")
      BY DEF In
    <2> DEFINE W == In(bar, "WAITING")
    <2>3. bar.cur - 1 = nxt /\ bar.cur = nxt + 1
      BY <1>2 DEF nxt
    <2>4. \A i \in (nxt + 1)..n : list[i] = l[i]
      BY <1>2, <1>3, <1>4, <1>5
    <2>5. WaitingAt(c, nxt..n) = WaitingAt(bar, (nxt + 1)..n) \union {t}
      <3>1. {list[i] : i \in nxt..n} = {l[i] : i \in (nxt + 1)..n} \union {t}
        BY <1>2, <1>4, <1>5, <2>4
      <3> QED
        BY <1>9, <2>1, <3>1 DEF WaitingAt, l
    <2>6. WaitingAt(c, 1..(nxt - 1)) = WaitingAt(bar, 1..nxt)
      <3>1. ASSUME NEW i \in 1..(nxt - 1) PROVE \E j \in 1..nxt : list[i] = l[j]
        BY <1>2, <1>3, <1>4, <1>5 DEF u
      <3>2. ASSUME NEW j \in 1..nxt, l[j] # t PROVE \E i \in 1..(nxt - 1) : list[i] = l[j]
        <4>1. CASE j = nxt
          <5>1. l[j] = u /\ at \in 1..(nxt - 1)
            BY <1>3, <1>4, <3>2, <4>1 DEF u
          <5> QED
            BY <1>5, <5>1
        <4>2. CASE j # nxt
          BY <1>2, <1>3, <1>4, <1>5, <3>2, <4>2
        <4> QED
          BY <4>1, <4>2
      <3>3. ASSUME NEW i \in 1..(nxt - 1) PROVE list[i] # t
        <4>1. \A x, y \in 1..n : list[x] = list[y] => x = y
          BY <1>8, <1>9, <1>12 DEF ListExact, IsInjective
        <4> QED
          BY <1>2, <1>4, <1>5, <4>1
      <3> QED
        BY <1>9, <2>1, <2>2, <3>1, <3>2, <3>3 DEF WaitingAt, l
    <2>7. /\ SeenOf(c).todo = SeenOf(bar).todo \union {t}
          /\ SeenOf(c).running = SeenOf(bar).running /\ SeenOf(c).done = SeenOf(bar).done
      BY <1>2, <1>8, <1>9, <2>1, <2>3, <2>5, <2>6, SeenFields DEF l, n
    <2> QED
      BY <1>2, <1>9, <2>7, AbstractChanges
  <1> QED
    BY <1>9, <1>11, <1>12, <1>13, <1>15, <1>16 DEF Sound, c

(* What leave and sync change of a running thread, and leave of one that   *)
(* waits.                                                                  *)
Left(t) == [bar EXCEPT !.state[t] = "LEFT", !.left = @ + 1, !.running = @ - 1]
Finished(t) == [bar EXCEPT !.state[t] = "WAITING", !.running = @ - 1]
Removed(t) == [bar EXCEPT !.state[t] = "LEFT", !.left = @ + 1]

LEMMA LeftSound ==
    ASSUME Sound(bar), NEW t \in Thread, bar.state[t] = "RUNNING"
    PROVE  /\ Sound(Left(t)) /\ Moves(Left(t), bar, t, "LEFT")
           /\ SeenOf(Left(t)) = P!Without(SeenOf(bar), t)
  <1> DEFINE a == Left(t)
             state == [bar.state EXCEPT ![t] = "LEFT"]
  <1>1. /\ bar \in Bars /\ ListExact(bar) /\ CountsExact(bar) /\ IndicesKnown(bar)
    BY DEF Sound
  <1>2. state \in [Thread -> States]
    BY <1>1 DEF Bars, States
  <1>3. a = [bar EXCEPT !.state = state, !.left = bar.left + 1, !.running = bar.running - 1]
    BY <1>1 DEF Left, Bars
  <1> HIDE DEF a
  <1>4. /\ a.state = state /\ a.runList = bar.runList /\ a.left = bar.left + 1
        /\ a.parallel = bar.parallel /\ a.cur = bar.cur /\ a.lastIdx = bar.lastIdx
        /\ a.running = bar.running - 1 /\ a.phase = bar.phase
    BY <1>1, <1>3 DEF Bars
  <1>5. Moves(a, bar, t, "LEFT")
    BY <1>4 DEF Moves
  <1> HIDE DEF state
  <1>6. Counted(a, bar, t, "LEFT")
    BY <1>1, <1>5, FourStates, StateMoves
  <1>7. t \in In(bar, "RUNNING") /\ t \notin In(bar, "LEFT")
    BY DEF In
  <1>8. /\ Cardinality(In(a, "RUNNING")) = Cardinality(In(bar, "RUNNING")) - 1
        /\ Cardinality(In(a, "LEFT")) = Cardinality(In(bar, "LEFT")) + 1
    BY <1>6, <1>7, FourStates DEF Counted
  <1>9. /\ In(a, "RUNNING") = In(bar, "RUNNING") \ {t} /\ In(a, "LEFT") = In(bar, "LEFT") \union {t}
        /\ In(a, "WAITING") = In(bar, "WAITING") /\ In(a, "OFFLINE") = In(bar, "OFFLINE")
        /\ t \notin In(bar, "WAITING")
    BY <1>6, FourStates DEF In, Counted
  <1>10. CountsExact(a) /\ a.running \in Nat /\ a.left \in Nat
    <2>1. Cardinality(In(a, "RUNNING")) \in Nat /\ Cardinality(In(a, "LEFT")) \in Nat
      BY StatesFinite
    <2>2. a.running = Cardinality(In(a, "RUNNING")) /\ a.left = Cardinality(In(a, "LEFT"))
      BY <1>1, <1>4, <1>8 DEF CountsExact
    <2>3. bar.running \in Nat /\ bar.parallel \in Nat /\ bar.running <= bar.parallel
      BY <1>1, BarrierAssumption DEF Bars, CountsExact
    <2> QED
      BY <1>4, <2>1, <2>2, <2>3 DEF CountsExact
  <1>11. a \in Bars
    BY <1>1, <1>2, <1>3, <1>4, <1>10 DEF Bars
  <1>12. ListExact(a)
    BY <1>1, <1>4, <1>9 DEF ListExact
  <1>13. IndicesKnown(a)
    BY <1>1, <1>4, <1>7, <1>9 DEF IndicesKnown, KnownIn
  <1>14. SeenOf(a) = P!Without(SeenOf(bar), t)
    <2>1. \A I : WaitingAt(a, I) = WaitingAt(bar, I) \ {t}
      BY <1>4, <1>9 DEF WaitingAt
    <2>2. /\ SeenOf(a).todo = SeenOf(bar).todo \ {t}
          /\ SeenOf(a).running = SeenOf(bar).running \ {t} /\ SeenOf(a).done = SeenOf(bar).done \ {t}
      BY <1>1, <1>4, <1>9, <1>11, <2>1, SeenFields
    <2> QED
      BY <1>1, <1>4, <1>11, <2>2, AbstractChanges
  <1> QED
    BY <1>5, <1>10, <1>11, <1>12, <1>13, <1>14 DEF Sound, a

LEMMA FinishedSound ==
    ASSUME Sound(bar), NEW t \in Thread, bar.state[t] = "RUNNING"
    PROVE  /\ Sound(Finished(t)) /\ Moves(Finished(t), bar, t, "WAITING")
           /\ SeenOf(Finished(t)) = P!Synced(SeenOf(bar), t)
  <1> DEFINE a == Finished(t)
             state == [bar.state EXCEPT ![t] = "WAITING"]
             n == Len(bar.runList)
  <1>1. /\ bar \in Bars /\ ListExact(bar) /\ CountsExact(bar) /\ IndicesKnown(bar)
    BY DEF Sound
  <1>2. state \in [Thread -> States]
    BY <1>1 DEF Bars, States
  <1>3. a = [bar EXCEPT !.state = state, !.running = bar.running - 1]
    BY <1>1 DEF Finished, Bars
  <1> HIDE DEF a
  <1>4. /\ a.state = state /\ a.runList = bar.runList /\ a.left = bar.left
        /\ a.parallel = bar.parallel /\ a.cur = bar.cur /\ a.lastIdx = bar.lastIdx
        /\ a.running = bar.running - 1 /\ a.phase = bar.phase
    BY <1>1, <1>3 DEF Bars
  <1>5. Moves(a, bar, t, "WAITING")
    BY <1>4 DEF Moves
  <1> HIDE DEF state
  <1>6. Counted(a, bar, t, "WAITING")
    BY <1>1, <1>5, FourStates, StateMoves
  <1>7. t \in In(bar, "RUNNING")
    BY DEF In
  <1>8. Cardinality(In(a, "RUNNING")) = Cardinality(In(bar, "RUNNING")) - 1
    BY <1>6, <1>7, FourStates DEF Counted
  <1>9. /\ In(a, "RUNNING") = In(bar, "RUNNING") \ {t} /\ In(a, "LEFT") = In(bar, "LEFT")
        /\ In(a, "WAITING") = In(bar, "WAITING") \union {t} /\ In(a, "OFFLINE") = In(bar, "OFFLINE")
    BY <1>6, FourStates DEF In, Counted
  <1>10. CountsExact(a) /\ a.running \in Nat
    <2>1. Cardinality(In(a, "RUNNING")) \in Nat
      BY StatesFinite
    <2>2. a.running = Cardinality(In(a, "RUNNING")) /\ a.left = Cardinality(In(a, "LEFT"))
      BY <1>1, <1>4, <1>8, <1>9 DEF CountsExact
    <2>3. bar.running \in Nat /\ bar.parallel \in Nat /\ bar.running <= bar.parallel
      BY <1>1, BarrierAssumption DEF Bars, CountsExact
    <2> QED
      BY <1>4, <2>1, <2>2, <2>3 DEF CountsExact
  <1>11. a \in Bars
    BY <1>1, <1>2, <1>3, <1>4, <1>10 DEF Bars
  <1>12. ListExact(a)
    BY <1>1, <1>4, <1>9 DEF ListExact
  <1>13. IndicesKnown(a)
    BY <1>1, <1>4, <1>9 DEF IndicesKnown, KnownIn
  <1>14. SeenOf(a) = P!Synced(SeenOf(bar), t)
    <2> DEFINE at == bar.lastIdx[t]
               l == bar.runList
    <2>1. at \in 1..n /\ l[at] = t /\ at < bar.cur /\ bar.cur \in 1..(n + 1) /\ n \in Nat
          /\ \A i, j \in 1..n : l[i] = l[j] => i = j
      BY <1>1, <1>7, ListFacts DEF IndicesKnown, KnownIn, ListExact
    <2> HIDE DEF at, n, l
    <2>2. WaitingAt(a, 1..(bar.cur - 1)) = WaitingAt(bar, 1..(bar.cur - 1)) \union {t}
      <3>1. at \in 1..(bar.cur - 1)
        BY <2>1
      <3>2. t \in {l[i] : i \in 1..(bar.cur - 1)}
        BY <2>1, <3>1
      <3> QED
        BY <1>4, <1>9, <3>2 DEF WaitingAt, l
    <2>3. WaitingAt(a, bar.cur..n) = WaitingAt(bar, bar.cur..n)
      <3>1. \A i \in bar.cur..n : l[i] # t
        BY <2>1
      <3> QED
        BY <1>4, <1>9, <3>1 DEF WaitingAt, l
    <2>4. /\ SeenOf(a).todo = SeenOf(bar).todo
          /\ SeenOf(a).running = SeenOf(bar).running \ {t}
          /\ SeenOf(a).done = SeenOf(bar).done \union {t}
      BY <1>1, <1>4, <1>9, <1>11, <2>2, <2>3, SeenFields DEF n
    <2> QED
      BY <1>1, <1>4, <1>11, <2>4, AbstractChanges
  <1> QED
    BY <1>5, <1>10, <1>11, <1>12, <1>13, <1>14 DEF Sound, a

LEMMA RemovedSound ==
    ASSUME Sound(bar), NEW t \in Thread, bar.state[t] = "WAITING",
           KillNewcomers \/ IndexKnown(t)
    PROVE  /\ Sound(Removed(t)) /\ Moves(Removed(t), bar, t, "LEFT")
           /\ SeenOf(Removed(t)) = P!Without(SeenOf(bar), t)
  <1> DEFINE a == Removed(t)
             state == [bar.state EXCEPT ![t] = "LEFT"]
  <1>1. /\ bar \in Bars /\ ListExact(bar) /\ CountsExact(bar) /\ IndicesKnown(bar)
    BY DEF Sound
  <1>2. state \in [Thread -> States]
    BY <1>1 DEF Bars, States
  <1>3. a = [bar EXCEPT !.state = state, !.left = bar.left + 1]
    BY <1>1 DEF Removed, Bars
  <1> HIDE DEF a
  <1>4. /\ a.state = state /\ a.runList = bar.runList /\ a.left = bar.left + 1
        /\ a.parallel = bar.parallel /\ a.cur = bar.cur /\ a.lastIdx = bar.lastIdx
        /\ a.running = bar.running /\ a.phase = bar.phase
    BY <1>1, <1>3 DEF Bars
  <1>5. Moves(a, bar, t, "LEFT")
    BY <1>4 DEF Moves
  <1> HIDE DEF state
  <1>6. Counted(a, bar, t, "LEFT")
    BY <1>1, <1>5, FourStates, StateMoves
  <1>7. t \in In(bar, "WAITING") /\ t \notin In(bar, "LEFT")
    BY DEF In
  <1>8. Cardinality(In(a, "LEFT")) = Cardinality(In(bar, "LEFT")) + 1
    BY <1>6, <1>7, FourStates DEF Counted
  <1>9. /\ In(a, "RUNNING") = In(bar, "RUNNING") /\ In(a, "LEFT") = In(bar, "LEFT") \union {t}
        /\ In(a, "WAITING") = In(bar, "WAITING") \ {t} /\ In(a, "OFFLINE") = In(bar, "OFFLINE")
        /\ t \notin In(bar, "RUNNING")
    BY <1>6, FourStates DEF In, Counted
  <1>10. CountsExact(a) /\ a.left \in Nat
    <2>1. Cardinality(In(a, "LEFT")) \in Nat
      BY StatesFinite
    <2> QED
      BY <1>1, <1>4, <1>8, <1>9, <2>1 DEF CountsExact
  <1>11. a \in Bars
    BY <1>1, <1>2, <1>3, <1>4, <1>10 DEF Bars
  <1>12. ListExact(a)
    BY <1>1, <1>4, <1>9 DEF ListExact
  <1>13. IndicesKnown(a)
    <2>1. IndexKnown(t) => KnownIn(bar, t)
      BY <1>1 DEF IndexKnown, KnownIn, Bars
    <2>2. \A u : KnownIn(a, u) <=> KnownIn(bar, u)
      BY <1>4 DEF KnownIn
    <2> QED
      BY <1>1, <1>4, <1>9, <2>1, <2>2 DEF IndicesKnown
  <1>14. SeenOf(a) = P!Without(SeenOf(bar), t)
    <2>1. \A I : WaitingAt(a, I) = WaitingAt(bar, I) \ {t}
      BY <1>4, <1>9 DEF WaitingAt
    <2>2. /\ SeenOf(a).todo = SeenOf(bar).todo \ {t}
          /\ SeenOf(a).running = SeenOf(bar).running \ {t} /\ SeenOf(a).done = SeenOf(bar).done \ {t}
      BY <1>1, <1>4, <1>9, <1>11, <2>1, SeenFields
    <2> QED
      BY <1>1, <1>4, <1>11, <2>2, AbstractChanges
  <1> QED
    BY <1>5, <1>10, <1>11, <1>12, <1>13, <1>14 DEF Sound, a

-----------------------------------------------------------------------------
Pcs == {"out", "running", "check", "wait", "asleep"}

(* A thread is outside the barrier if and only if it is OFFLINE or LEFT;   *)
(* it runs and sleeps only as its state says; and its futex word is armed  *)
(* while it waits and cleared when it runs, so that no wakeup is lost.     *)
PcOf(b, w, p, t) ==
    /\ p[t] = "out" <=> b.state[t] \in {"OFFLINE", "LEFT"}
    /\ p[t] = "running" => b.state[t] = "RUNNING"
    /\ p[t] = "asleep" => b.state[t] = "WAITING"
    /\ b.state[t] = "WAITING" => w[t] = 1
    /\ b.state[t] = "RUNNING" => w[t] = 0

Fits(b, w, p) ==
    /\ w \in [Thread -> 0..1] /\ p \in [Thread -> Pcs]
    /\ \A t \in Thread : PcOf(b, w, p, t)

(* The inductive invariant. *)
IInv ==
    /\ Sound(bar) /\ Fits(bar, word, pc)
    /\ rejoined \subseteq Thread
    /\ failed \in {"none", "runList index"}
    /\ ~KillNewcomers => failed = "none"

LEMMA InitIInv == Init => IInv
  <1> SUFFICES ASSUME Init PROVE IInv
    OBVIOUS
  <1>1. PICK n \in Parallel :
       bar = [parallel |-> n, state |-> [t \in Thread |-> "OFFLINE"],
              lastIdx |-> [t \in Thread |-> 1], runList |-> <<>>,
              cur |-> 1, running |-> 0, left |-> 0, phase |-> 0]
    BY DEF Init
  <1>2. [t \in Thread |-> 1] \in [Thread -> 1..Cardinality(Thread)]
    <2>1. ASSUME NEW t \in Thread PROVE 1 \in 1..Cardinality(Thread)
      <3>1. Cardinality(Thread) \in Nat /\ Cardinality(Thread) # 0
        BY <2>1, BarrierAssumption, FS_CardinalityType, FS_EmptySet
      <3> QED
        BY <3>1
    <2> QED
      BY <2>1
  <1>3. bar \in Bars
    <2>1. <<>> \in Seq(Thread) /\ 0 \in 0..(CleanupPeriod - 1)
      BY BarrierAssumption
    <2>2. [t \in Thread |-> "OFFLINE"] \in [Thread -> States]
      BY DEF States
    <2> QED
      BY <1>1, <1>2, <2>1, <2>2 DEF Bars
  <1>4. /\ bar.state = [t \in Thread |-> "OFFLINE"] /\ bar.runList = <<>> /\ bar.cur = 1
        /\ bar.running = 0 /\ bar.left = 0 /\ bar.parallel = n
    BY <1>1
  <1>5. In(bar, "OFFLINE") = Thread /\ In(bar, "RUNNING") = {} /\ In(bar, "LEFT") = {}
    BY <1>4 DEF In
  <1>6. ListExact(bar)
    BY <1>4, <1>5 DEF ListExact, IsInjective, ToSet
  <1>7. CountsExact(bar)
    <2>1. n \in Nat /\ 0 <= n
      BY BarrierAssumption
    <2>2. Cardinality({}) = 0
      BY FS_EmptySet
    <2> QED
      BY <1>4, <1>5, <2>1, <2>2 DEF CountsExact
  <1>8. IndicesKnown(bar)
    BY <1>5 DEF IndicesKnown
  <1>9. Fits(bar, word, pc)
    BY <1>4 DEF Init, Fits, PcOf, Pcs
  <1> QED
    BY <1>3, <1>6, <1>7, <1>8, <1>9 DEF Init, IInv, Sound

(* The changed barrier, the words and the place of the caller that join,   *)
(* leave and sync hand to tryWakeNext: the caller waits with its word      *)
(* armed, or it left.                                                      *)
Prepared(t, b, w, me) ==
    /\ Sound(b) /\ w \in [Thread -> 0..1] /\ me \in {"check", "out"}
    /\ \/ Moves(b, bar, t, "WAITING") /\ me = "check" /\ w[t] = 1
       \/ Moves(b, bar, t, "LEFT") /\ me = "out"
    /\ \A u \in Thread : u # t => w[u] = word[u]

(* tryWakeNext leaves the invariant as it was, and neither its panic nor   *)
(* its assertion can happen.                                               *)
LEMMA ServeIInv ==
    ASSUME IInv, NEW t \in Thread, NEW b, NEW w, NEW me, NEW joins \in SUBSET Thread,
           Prepared(t, b, w, me), Serve(t, b, w, me, joins)
    PROVE  IInv' /\ failed' = "none" /\ SeenOf(bar') \in P!Served(SeenOf(b))
  <1>1. PICK n \in TryWakeNext(b) :
          LET Woken == In(n.b, "RUNNING") \ In(b, "RUNNING")
          IN  /\ bar' = n.b
              /\ word' = [u \in Thread |-> IF u \in Woken THEN 0 ELSE w[u]]
              /\ pc' = [u \in Thread |->
                          IF u = t THEN me
                          ELSE IF u \in Woken /\ pc[u] = "asleep" THEN "running" ELSE pc[u]]
              /\ rejoined' = IF n.ended THEN {} ELSE rejoined \cup joins
              /\ failed' = IF \E u \in Woken : w[u] # 1 THEN "wakeup race"
                           ELSE IF CleanupCounts(n.served) THEN "none" ELSE "left threads"
    BY Zenon DEF Serve
  <1> DEFINE W == In(n.b, "RUNNING") \ In(b, "RUNNING")
             c == n.b
  <1>2. /\ Sound(c) /\ CleanupCounts(n.served)
        /\ In(b, "RUNNING") \subseteq In(c, "RUNNING")
        /\ In(c, "RUNNING") \subseteq In(b, "RUNNING") \union In(b, "WAITING")
        /\ In(c, "WAITING") = In(b, "WAITING") \ In(c, "RUNNING")
        /\ SeenOf(c) \in P!Served(SeenOf(b))
    BY TryWakeNextSound DEF Prepared
  <1>3. /\ bar' = c
        /\ word' = [u \in Thread |-> IF u \in W THEN 0 ELSE w[u]]
        /\ pc' = [u \in Thread |->
                    IF u = t THEN me
                    ELSE IF u \in W /\ pc[u] = "asleep" THEN "running" ELSE pc[u]]
        /\ rejoined' \subseteq Thread
        /\ failed' = IF \E u \in W : w[u] # 1 THEN "wakeup race" ELSE "none"
    <2>1. rejoined \subseteq Thread
      BY DEF IInv
    <2> QED
      BY <1>1, <1>2, <2>1
  <1>4. /\ W \subseteq In(b, "WAITING") /\ W \subseteq Thread
        /\ \A u \in Thread : u \in W <=> c.state[u] = "RUNNING" /\ b.state[u] # "RUNNING"
    BY <1>2 DEF In
  <1>5. ASSUME NEW u \in Thread
        PROVE  /\ b.state[u] = "RUNNING" => c.state[u] = "RUNNING"
               /\ c.state[u] = "RUNNING" => b.state[u] \in {"RUNNING", "WAITING"}
               /\ c.state[u] = "WAITING" <=> b.state[u] = "WAITING" /\ c.state[u] # "RUNNING"
    BY <1>2 DEF In
  <1>6. \A u \in Thread : b.state[u] \in States /\ c.state[u] \in States /\ bar.state[u] \in States
    BY <1>2 DEF Prepared, Sound, Bars, IInv
  <1> HIDE DEF W, c
  <1>7. Fits(bar, word, pc) /\ word \in [Thread -> 0..1] /\ pc \in [Thread -> Pcs]
    BY DEF IInv, Fits
  <1>8. /\ \A u \in Thread : u # t => b.state[u] = bar.state[u] /\ w[u] = word[u]
        /\ \/ b.state[t] = "WAITING" /\ me = "check" /\ w[t] = 1
           \/ b.state[t] = "LEFT" /\ me = "out"
    <2>1. bar.state \in [Thread -> States]
      BY DEF IInv, Sound, Bars
    <2> QED
      BY <2>1 DEF Prepared, Moves
  <1>9. \A u \in W : w[u] = 1
    <2> SUFFICES ASSUME NEW u \in W PROVE w[u] = 1
      OBVIOUS
    <2>1. u \in Thread /\ b.state[u] = "WAITING"
      BY <1>4 DEF In
    <2>2. CASE u = t
      BY <1>8, <2>1, <2>2
    <2>3. CASE u # t
      BY <1>7, <1>8, <2>1, <2>3 DEF Fits, PcOf
    <2> QED
      BY <2>2, <2>3
  <1>10. failed' = "none"
    BY <1>3, <1>9
  <1>11. ASSUME NEW u \in Thread PROVE PcOf(c, word', pc', u)
    <2>1. /\ word'[u] = IF u \in W THEN 0 ELSE w[u]
          /\ pc'[u] = IF u = t THEN me
                      ELSE IF u \in W /\ pc[u] = "asleep" THEN "running" ELSE pc[u]
      BY <1>3
    <2>2. u \in W <=> c.state[u] = "RUNNING" /\ b.state[u] # "RUNNING"
      BY <1>4
    <2>3. CASE u = t
      BY <1>5, <1>6, <1>8, <2>1, <2>2, <2>3 DEF PcOf, States
    <2>4. CASE u # t
      <3>1. PcOf(bar, word, pc, u) /\ b.state[u] = bar.state[u] /\ w[u] = word[u]
        BY <1>7, <1>8, <2>4 DEF Fits
      <3> QED
        BY <1>5, <1>6, <2>1, <2>2, <2>4, <3>1 DEF PcOf, States
    <2> QED
      BY <2>3, <2>4
  <1>12. word' \in [Thread -> 0..1]
    <2>1. \A u \in Thread : w[u] \in 0..1
      BY DEF Prepared
    <2>2. \A u \in Thread : (IF u \in W THEN 0 ELSE w[u]) \in 0..1
      BY <2>1
    <2>3. word' = [u \in Thread |-> IF u \in W THEN 0 ELSE w[u]]
      BY <1>3
    <2> QED
      BY <2>2, <2>3
  <1>13. pc' \in [Thread -> Pcs]
    BY <1>3, <1>7 DEF Prepared, Pcs
  <1>14. Fits(c, word', pc')
    BY <1>11, <1>12, <1>13 DEF Fits
  <1>15. Sound(bar') /\ Fits(bar', word', pc')
    BY <1>2, <1>3, <1>14
  <1> QED
    BY <1>2, <1>3, <1>10, <1>15 DEF IInv

(* Every step keeps the invariant, and is a step of the abstract barrier   *)
(* or none, one action at a time.  Only join can stop the program, and     *)
(* only if newcomers are killed.                                           *)
Simulated(t) == (P!Join(t) \/ P!Sync(t) \/ P!Leave(t) \/ P!Removed(t)) \/ Seen' = Seen

LEMMA SeenIs == Seen = SeenOf(bar) /\ Seen' = SeenOf(bar')
  BY DEF Seen, SeenOf, WaitingAt, In

(* What the abstract barrier knows of a thread. *)
LEMMA SeenStates ==
    ASSUME Sound(bar), NEW t \in Thread
    PROVE  /\ t \in Seen.running <=> bar.state[t] = "RUNNING"
           /\ t \in P!Members(Seen) <=> bar.state[t] \in {"RUNNING", "WAITING"}
  <1> DEFINE n == Len(bar.runList)
  <1>1. bar \in Bars
    BY DEF Sound
  <1>2. /\ Seen.running = In(bar, "RUNNING")
        /\ Seen.todo = WaitingAt(bar, bar.cur..n) /\ Seen.done = WaitingAt(bar, 1..(bar.cur - 1))
    BY <1>1, SeenIs, SeenFields
  <1>3. WaitingAt(bar, bar.cur..n) \union WaitingAt(bar, 1..(bar.cur - 1)) = In(bar, "WAITING")
    <2>1. n \in Nat /\ bar.cur \in 1..(n + 1)
          /\ \A u \in Thread : bar.state[u] # "OFFLINE" => \E i \in 1..n : bar.runList[i] = u
      BY ListFacts DEF Sound, ListExact
    <2>2. \A i \in 1..n : i \in bar.cur..n \/ i \in 1..(bar.cur - 1)
      BY <2>1
    <2>3. \A u \in In(bar, "WAITING") : \E i \in 1..n : bar.runList[i] = u
      BY <2>1 DEF In
    <2> QED
      BY <2>2, <2>3 DEF WaitingAt
  <1>4. P!Members(Seen) = In(bar, "RUNNING") \union In(bar, "WAITING")
    BY <1>2, <1>3 DEF P!Members
  <1> QED
    BY <1>2, <1>4 DEF In

LEMMA JoinStep ==
    ASSUME IInv, NEW t \in Thread, Join(t)
    PROVE  IInv' /\ (~KillNewcomers => Simulated(t))
  <1> DEFINE w == [word EXCEPT ![t] = 1]
  <1>1. /\ Sound(bar) /\ bar \in Bars /\ word \in [Thread -> 0..1]
        /\ rejoined \subseteq Thread
    BY DEF IInv, Sound, Fits
  <1>2. w \in [Thread -> 0..1] /\ w[t] = 1 /\ \A u \in Thread : u # t => w[u] = word[u]
    BY <1>1
  <1>3. ASSUME NEW b, Sound(b), Moves(b, bar, t, "WAITING") PROVE Prepared(t, b, w, "check")
    BY <1>2, <1>3 DEF Prepared
  <1>4. bar.state[t] \in {"OFFLINE", "LEFT"} => t \notin P!Members(Seen)
    BY <1>1, SeenStates
  <1>5. ASSUME NEW b, bar.state[t] \in {"OFFLINE", "LEFT"}, SeenOf(b) = P!Joined(SeenOf(bar), t),
               SeenOf(bar') \in P!Served(SeenOf(b))
        PROVE  Simulated(t)
    <2>1. P!Join(t)
      BY <1>4, <1>5, SeenIs DEF P!Join
    <2> QED
      BY <2>1 DEF Simulated
  <1> HIDE DEF w
  <1>6. CASE bar.state[t] = "OFFLINE" /\ Serve(t, Appended(t), w, "check", {})
    <2> DEFINE b == Appended(t)
    <2>1. Sound(b) /\ Moves(b, bar, t, "WAITING") /\ SeenOf(b) = P!Joined(SeenOf(bar), t)
      BY <1>1, <1>6, AppendedSound
    <2> HIDE DEF b
    <2>2. IInv' /\ SeenOf(bar') \in P!Served(SeenOf(b))
      BY <1>3, <1>6, <2>1, ServeIInv DEF b
    <2> QED
      BY <1>5, <1>6, <2>1, <2>2
  <1>7. CASE bar.state[t] = "LEFT" /\ ~ServedBefore(t) /\ Serve(t, Back(t), w, "check", {})
    <2> DEFINE b == Back(t)
    <2>1. /\ Sound(b) /\ Moves(b, bar, t, "WAITING")
          /\ ~KillNewcomers => SeenOf(b) = P!Joined(SeenOf(bar), t)
      BY <1>1, <1>7, BackSound
    <2> HIDE DEF b
    <2>2. IInv' /\ SeenOf(bar') \in P!Served(SeenOf(b))
      BY <1>3, <1>7, <2>1, ServeIInv DEF b
    <2> QED
      BY <1>5, <1>7, <2>1, <2>2
  <1>8. CASE bar.state[t] = "LEFT" /\ ServedBefore(t) /\ IndexKnown(t)
             /\ Serve(t, Rescheduled(t), w, "check", {t})
    <2> DEFINE b == Rescheduled(t)
    <2>1. Sound(b) /\ Moves(b, bar, t, "WAITING") /\ SeenOf(b) = P!Joined(SeenOf(bar), t)
      BY <1>1, <1>8, RescheduledSound
    <2> HIDE DEF b
    <2>2. IInv' /\ SeenOf(bar') \in P!Served(SeenOf(b))
      BY <1>3, <1>8, <2>1, ServeIInv DEF b
    <2> QED
      BY <1>5, <1>8, <2>1, <2>2
  <1>9. CASE bar.state[t] = "LEFT" /\ ServedBefore(t) /\ ~IndexKnown(t)
             /\ failed' = "runList index" /\ UNCHANGED <<bar, word, pc, rejoined>>
    <2>1. KillNewcomers
      <3>1. t \in In(bar, "LEFT")
        BY <1>9 DEF In
      <3>2. KnownIn(bar, t) => IndexKnown(t)
        BY <1>1 DEF KnownIn, IndexKnown, Bars
      <3> QED
        BY <1>1, <1>9, <3>1, <3>2 DEF Sound, IndicesKnown
    <2>2. Sound(bar') /\ Fits(bar', word', pc') /\ rejoined' \subseteq Thread
      BY <1>9 DEF IInv
    <2> QED
      BY <1>9, <2>1, <2>2 DEF IInv
  <1> QED
    BY <1>6, <1>7, <1>8, <1>9 DEF Join, w

LEMMA LeaveStep ==
    ASSUME IInv, NEW t \in Thread, Leave(t)
    PROVE  IInv' /\ Simulated(t)
  <1> DEFINE b == Left(t)
  <1>1. Sound(bar) /\ bar.state[t] = "RUNNING" /\ word \in [Thread -> 0..1]
    BY DEF IInv, Leave, Fits
  <1>2. Sound(b) /\ Moves(b, bar, t, "LEFT") /\ SeenOf(b) = P!Without(SeenOf(bar), t)
    BY <1>1, LeftSound
  <1>3. Serve(t, b, word, "out", {})
    BY DEF Leave, Left
  <1> HIDE DEF b
  <1>4. Prepared(t, b, word, "out")
    BY <1>1, <1>2 DEF Prepared
  <1>5. IInv' /\ SeenOf(bar') \in P!Served(SeenOf(b))
    BY <1>3, <1>4, ServeIInv
  <1>6. P!Leave(t)
    BY <1>1, <1>2, <1>5, SeenIs, SeenStates DEF P!Leave
  <1> QED
    BY <1>5, <1>6 DEF Simulated

LEMMA SyncStep ==
    ASSUME IInv, NEW t \in Thread, Sync(t)
    PROVE  IInv' /\ Simulated(t)
  <1> DEFINE b == Finished(t)
             w == [word EXCEPT ![t] = 1]
  <1>1. Sound(bar) /\ bar.state[t] = "RUNNING" /\ word \in [Thread -> 0..1]
    BY DEF IInv, Sync, Fits, PcOf
  <1>2. Sound(b) /\ Moves(b, bar, t, "WAITING") /\ SeenOf(b) = P!Synced(SeenOf(bar), t)
    BY <1>1, FinishedSound
  <1>3. Serve(t, b, w, "check", {})
    BY <1>1 DEF Sync, Finished
  <1> HIDE DEF b
  <1>4. w \in [Thread -> 0..1] /\ w[t] = 1 /\ \A u \in Thread : u # t => w[u] = word[u]
    BY <1>1
  <1> HIDE DEF w
  <1>5. Prepared(t, b, w, "check")
    BY <1>2, <1>4 DEF Prepared
  <1>6. IInv' /\ SeenOf(bar') \in P!Served(SeenOf(b))
    BY <1>3, <1>5, ServeIInv
  <1>7. P!Sync(t)
    BY <1>1, <1>2, <1>6, SeenIs, SeenStates DEF P!Sync
  <1> QED
    BY <1>6, <1>7 DEF Simulated

LEMMA LeaveWaitingStep ==
    ASSUME IInv, NEW t \in Thread, LeaveWaiting(t)
    PROVE  IInv' /\ Simulated(t)
  <1> DEFINE b == Removed(t)
  <1>1. /\ Sound(bar) /\ bar \in Bars /\ bar.state[t] = "WAITING"
        /\ KillNewcomers \/ IndexKnown(t)
        /\ Fits(bar, word, pc) /\ word \in [Thread -> 0..1] /\ pc \in [Thread -> Pcs]
    BY DEF IInv, LeaveWaiting, Fits, Sound
  <1>2. Sound(b) /\ Moves(b, bar, t, "LEFT") /\ SeenOf(b) = P!Without(SeenOf(bar), t)
    BY <1>1, RemovedSound
  <1>3. bar' = b /\ pc' = [pc EXCEPT ![t] = "out"] /\ word' = word
        /\ rejoined' = rejoined /\ failed' = failed
    BY DEF LeaveWaiting, Removed
  <1> HIDE DEF b
  <1>4. b.state[t] = "LEFT" /\ \A u \in Thread : u # t => b.state[u] = bar.state[u]
    BY <1>1, <1>2 DEF Moves, Bars
  <1>5. Fits(b, word, pc')
    BY <1>1, <1>3, <1>4 DEF Fits, PcOf, Pcs
  <1>6. Sound(bar') /\ Fits(bar', word', pc')
    BY <1>2, <1>3, <1>5
  <1>7. IInv'
    BY <1>3, <1>6 DEF IInv
  <1>8. P!Removed(t)
    BY <1>1, <1>2, <1>3, SeenIs, SeenStates DEF P!Removed
  <1> QED
    BY <1>7, <1>8 DEF Simulated

(* What a thread does without the barrier's lock. *)
LEMMA AloneStep ==
    ASSUME IInv, NEW t \in Thread, CheckState(t) \/ FutexWait(t) \/ Interrupted(t)
    PROVE  IInv' /\ Simulated(t)
  <1>1. /\ Sound(bar) /\ Fits(bar, word, pc) /\ word \in [Thread -> 0..1] /\ pc \in [Thread -> Pcs]
        /\ bar.state[t] \in States /\ PcOf(bar, word, pc, t) /\ word[t] \in 0..1
    BY DEF IInv, Fits, Sound, Bars
  <1>2. bar' = bar /\ word' = word /\ rejoined' = rejoined
    BY DEF CheckState, FutexWait, Interrupted
  <1>3. PICK p \in Pcs : pc' = [pc EXCEPT ![t] = p]
                         /\ p # "out" /\ pc[t] # "out"
                         /\ (p = "running" => bar.state[t] = "RUNNING")
                         /\ (p = "asleep" => bar.state[t] = "WAITING")
    <2>1. CASE CheckState(t)
      <3> DEFINE p == IF bar.state[t] = "WAITING" THEN "wait" ELSE "running"
      <3>1. /\ p \in Pcs /\ p # "out" /\ pc[t] # "out" /\ p # "asleep"
            /\ (p = "running" => bar.state[t] = "RUNNING")
        BY <1>1, <2>1 DEF CheckState, PcOf, Pcs, States
      <3>2. pc' = [pc EXCEPT ![t] = p]
        BY <2>1 DEF CheckState
      <3> HIDE DEF p
      <3> QED
        BY <3>1, <3>2
    <2>2. CASE FutexWait(t)
      <3> DEFINE p == IF word[t] = 1 THEN "asleep" ELSE "running"
      <3>0. /\ pc[t] = "wait" /\ bar.state[t] \in {"WAITING", "RUNNING"}
            /\ word[t] = 1 <=> bar.state[t] = "WAITING"
        <4>1. pc[t] = "wait" /\ bar.state[t] \in States /\ PcOf(bar, word, pc, t)
          BY <1>1, <2>2 DEF FutexWait
        <4>2. bar.state[t] \in {"WAITING", "RUNNING"}
          BY <4>1 DEF PcOf, States
        <4>3. bar.state[t] = "WAITING" => word[t] = 1
          BY <4>1 DEF PcOf
        <4>4. bar.state[t] = "RUNNING" => word[t] = 0
          BY <4>1 DEF PcOf
        <4> QED
          BY <4>1, <4>2, <4>3, <4>4
      <3>1. /\ p \in Pcs /\ p # "out" /\ pc[t] # "out"
            /\ (p = "running" => bar.state[t] = "RUNNING")
            /\ (p = "asleep" => bar.state[t] = "WAITING")
        BY <3>0 DEF Pcs
      <3>2. pc' = [pc EXCEPT ![t] = p]
        BY <2>2 DEF FutexWait
      <3> HIDE DEF p
      <3> QED
        BY <3>1, <3>2
    <2>3. CASE Interrupted(t)
      <3>1. pc' = [pc EXCEPT ![t] = "wait"] /\ pc[t] # "out" /\ "wait" \in Pcs
        BY <2>3 DEF Interrupted, Pcs
      <3> QED
        BY <3>1
    <2> QED
      BY <2>1, <2>2, <2>3
  <1>4. failed' = "none" /\ failed = "none"
    <2>1. CASE FutexWait(t)
      BY <1>1, <2>1 DEF FutexWait, PcOf, States
    <2>2. CASE CheckState(t) \/ Interrupted(t)
      BY <2>2 DEF CheckState, Interrupted
    <2> QED
      BY <2>1, <2>2
  <1>5. Fits(bar, word, pc')
    <2>1. PcOf(bar, word, pc', t)
      BY <1>1, <1>3 DEF PcOf
    <2>2. \A u \in Thread : u # t => PcOf(bar, word, pc', u)
      BY <1>1, <1>3 DEF Fits, PcOf
    <2>3. pc' \in [Thread -> Pcs]
      BY <1>1, <1>3
    <2> QED
      BY <1>1, <2>1, <2>2, <2>3 DEF Fits
  <1>6. Sound(bar') /\ Fits(bar', word', pc')
    BY <1>1, <1>2, <1>5
  <1>7. IInv'
    BY <1>2, <1>4, <1>6 DEF IInv
  <1>8. Seen' = Seen
    BY <1>2, SeenIs
  <1> QED
    BY <1>7, <1>8 DEF Simulated

LEMMA NextStep ==
    ASSUME IInv, [Next]_vars
    PROVE  IInv' /\ (~KillNewcomers => [P!Next]_Seen)
  <1>1. CASE Next
    <2>1. PICK t \in Thread : \/ Join(t) \/ Leave(t) \/ LeaveWaiting(t) \/ Sync(t)
                              \/ CheckState(t) \/ FutexWait(t) \/ Interrupted(t)
      BY <1>1 DEF Next
    <2>2. IInv' /\ (~KillNewcomers => Simulated(t))
      BY <2>1, JoinStep, LeaveStep, LeaveWaitingStep, SyncStep, AloneStep
    <2> QED
      BY <2>2 DEF Simulated, P!Next
  <1>2. CASE UNCHANGED vars
    <2>1. bar' = bar /\ word' = word /\ pc' = pc /\ rejoined' = rejoined /\ failed' = failed
      BY <1>2 DEF vars
    <2>2. Sound(bar') /\ Fits(bar', word', pc')
      BY <2>1 DEF IInv
    <2>3. Seen' = Seen
      BY <2>1, SeenIs
    <2> QED
      BY <2>1, <2>2, <2>3 DEF IInv
  <1> QED
    BY <1>1, <1>2

(* The inductive invariant holds in every state of the barrier. *)
THEOREM Invariance == Spec => []IInv
  <1>1. IInv /\ [Next]_vars => IInv'
    BY NextStep
  <1> QED
    BY InitIInv, <1>1, PTL DEF Spec

(* The run list holds every thread that is not OFFLINE exactly once, and   *)
(* runningThreads and leftThreads count what is there, within the limit,   *)
(* over every wakeup, swap, cleanup and shuffle, for any number of threads *)
(* and any limit, and whichever threads are killed.                        *)
THEOREM ListAndCountersExact == Spec => []CountersExact
  <1>1. IInv => CountersExact
    <2> SUFFICES ASSUME IInv PROVE CountersExact
      OBVIOUS
    <2>1. /\ bar \in Bars /\ ListExact(bar) /\ CountsExact(bar)
          /\ word \in [Thread -> 0..1] /\ pc \in [Thread -> Pcs] /\ rejoined \subseteq Thread
      BY DEF IInv, Sound, Fits
    <2>2. TypeOK
      BY <2>1 DEF TypeOK, Bars, ListExact, States, Pcs
    <2> QED
      BY <2>1, <2>2 DEF CountersExact, ListExact, CountsExact
  <1> QED
    BY Invariance, <1>1, PTL

(* Whatever happens, the panics of tryWakeNext, sync and the futex loop    *)
(* and the assertion of the cleanup pass hold: what can stop the program   *)
(* is the index assertion of join alone.                                   *)
THEOREM OnlyJoinFails == Spec => [](failed \in {"none", "runList index"})
  <1>1. IInv => failed \in {"none", "runList index"}
    BY DEF IInv
  <1> QED
    BY Invariance, <1>1, PTL

(* Unless a thread is killed that waits for its first turn, every          *)
(* assertion and panic of barrier.h holds.                                 *)
THEOREM NoAssertFails == ~KillNewcomers => (Spec => []AssertsHold)
  <1> SUFFICES ASSUME ~KillNewcomers PROVE Spec => []AssertsHold
    OBVIOUS
  <1>1. IInv => AssertsHold
    BY DEF IInv, AssertsHold
  <1> QED
    BY Invariance, <1>1, PTL

(* join, leave and sync implement PhaseBarrier, for any number of threads: *)
(* every shuffle and cleanup of the run list is invisible to the callers,  *)
(* who see one turn per phase for each member and no more turns at a time  *)
(* than the limit allows.                                                  *)
THEOREM Refinement == ~KillNewcomers => (Spec => ImplementsPhaseBarrier)
  <1> SUFFICES ASSUME ~KillNewcomers PROVE Spec => ImplementsPhaseBarrier
    OBVIOUS
  <1>1. Init => P!Init
    <2> SUFFICES ASSUME Init PROVE P!Init
      OBVIOUS
    <2>1. /\ bar.parallel \in Parallel /\ bar.state = [t \in Thread |-> "OFFLINE"]
      BY DEF Init
    <2>2. In(bar, "RUNNING") = {} /\ In(bar, "WAITING") = {}
      BY <2>1 DEF In
    <2>3. Seen = [limit |-> bar.parallel, todo |-> {}, running |-> {}, done |-> {}]
      BY <2>2 DEF Seen
    <2> QED
      BY <2>1, <2>3 DEF P!Init
  <1>2. IInv /\ [Next]_vars => [P!Next]_Seen
    BY NextStep
  <1> QED
    BY Invariance, <1>1, <1>2, PTL DEF Spec, P!Spec, ImplementsPhaseBarrier
=============================================================================
