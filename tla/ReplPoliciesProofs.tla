------------------------- MODULE ReplPoliciesProofs -------------------------
(***************************************************************************)
(* Proofs about the classic policies and the arrays they run on, for every *)
(* geometry, hash, number of candidates and policy: a zcache never loses a *)
(* line (NoLineLost), and LRU and LFU never evict a candidate while        *)
(* another one is worth less (VictimsLeastUsed).                           *)
(*                                                                         *)
(* The first rests on the walk: a line is met for the first time only from *)
(* lines met for the first time, so the path to the victim's first         *)
(* candidate has no position twice and postinsert permutes the lines.  The *)
(* second rests on what the timestamps of LRU say: the valid line used     *)
(* later has the larger one, and none has reached the current time.        *)
(***************************************************************************)
EXTENDS ReplPolicies, WellFoundedInduction, TLAPS

-----------------------------------------------------------------------------
(* Numbers and recursion. *)

(* A set of natural numbers that is not empty has a least element, and Min *)
(* finds it.                                                               *)
LEMMA MinIsLeast ==
    ASSUME NEW T, T \subseteq Nat, T # {}
    PROVE  Min(T) \in T /\ \A y \in T : Min(T) <= y
  <1> DEFINE R == OpToRel(<, Nat)
  <1>1. IsWellFoundedOn(R, Nat)
    BY NatLessThanWellFounded
  <1>2. \A x, y \in Nat : y < x => <<y, x>> \in R
    BY DEF OpToRel
  <1> HIDE DEF R
  <1>3. PICK x \in T : \A y \in T : ~(<<y, x>> \in R)
    BY <1>1, WFMin
  <1>4. \A y \in T : y \in Nat /\ ~(y < x)
    BY <1>2, <1>3
  <1>5. \A y \in T : x <= y
    BY <1>4
  <1>6. \E z \in T : \A y \in T : z =< y
    BY <1>5
  <1> QED
    BY <1>6 DEF Min

(* What holds of the first element and passes from each to the next holds  *)
(* of all; I[k] is what is said of element k.                              *)
LEMMA PassesOn ==
    ASSUME NEW n \in Nat, NEW I, NEW f,
           f[0] \in I[0],
           \A k \in 1..n : f[k - 1] \in I[k - 1] => f[k] \in I[k]
    PROVE  \A k \in 0..n : f[k] \in I[k]
  <1> DEFINE M == {k \in 0..n : f[k] \notin I[k]}
  <1> SUFFICES ASSUME M # {} PROVE FALSE
    OBVIOUS
  <1>1. M \subseteq Nat
    OBVIOUS
  <1>2. Min(M) \in M /\ \A y \in M : Min(M) <= y
    BY <1>1, MinIsLeast
  <1>3. PICK m \in 0..n : m = Min(M) /\ f[m] \notin I[m]
    BY <1>2
  <1>4. m \in 1..n /\ m - 1 \in 0..n /\ ~(m <= m - 1)
    BY <1>3
  <1>5. m - 1 \notin M
    BY <1>2, <1>3, <1>4
  <1> HIDE DEF M
  <1>6. f[m - 1] \in I[m - 1]
    BY <1>4, <1>5 DEF M
  <1> QED
    BY <1>3, <1>4, <1>6

(* A sequence given by its first element and by the step to the next. *)
Iterates(f, n, x, step) ==
    f = [k \in 0..n |-> IF k = 0 THEN x ELSE step[k][f[k - 1]]]

(* It exists, if step[k] takes what element k-1 may be to what k may be. *)
LEMMA SequenceExists ==
    ASSUME NEW n \in Nat, NEW I, NEW step, NEW x,
           x \in I[0],
           \A k \in 1..n : \A y \in I[k - 1] : step[k][y] \in I[k]
    PROVE  \E f : Iterates(f, n, x, step) /\ \A k \in 0..n : f[k] \in I[k]
  <1> DEFINE Good(f, m) == /\ f[0] = x
                           /\ \A k \in 1..m : f[k] = step[k][f[k - 1]]
                           /\ \A k \in 0..m : f[k] \in I[k]
             M == {m \in 0..n : ~\E f : Good(f, m)}
  <1>1. ASSUME NEW m \in 1..n, NEW f, Good(f, m - 1) PROVE \E g : Good(g, m)
    <2> DEFINE g == [k \in 0..m |-> IF k = m THEN step[m][f[m - 1]] ELSE f[k]]
    <2>1. \A k \in 0..(m - 1) : g[k] = f[k] /\ k \in 0..m
      OBVIOUS
    <2>2. g[m] = step[m][f[m - 1]]
      OBVIOUS
    <2> HIDE DEF g
    <2>3. 0 \in 0..(m - 1) /\ m - 1 \in 0..(m - 1)
      OBVIOUS
    <2>4. \A k \in 1..m : k - 1 \in 0..(m - 1) /\ (k # m => k \in 1..(m - 1) /\ k \in 0..(m - 1))
      OBVIOUS
    <2>5. \A k \in 0..m : k # m => k \in 0..(m - 1)
      OBVIOUS
    <2>6. g[0] = x
      BY <1>1, <2>1, <2>3
    <2>7. \A k \in 1..m : g[k] = step[k][g[k - 1]]
      BY <1>1, <2>1, <2>2, <2>4
    <2>8. f[m - 1] \in I[m - 1]
      BY <1>1, <2>3
    <2>9. g[m] \in I[m]
      BY <2>2, <2>8
    <2>10. \A k \in 0..m : g[k] \in I[k]
      BY <1>1, <2>1, <2>5, <2>9
    <2> QED
      BY <2>6, <2>7, <2>10
  <1>2. \E f : Good(f, 0)
    <2> DEFINE f == [k \in {0} |-> x]
    <2>1. f[0] = x /\ (\A k \in 0..0 : k = 0) /\ 1..0 = {}
      OBVIOUS
    <2> HIDE DEF f
    <2>2. Good(f, 0)
      BY <2>1
    <2> QED
      BY <2>2
  <1> HIDE DEF Good
  <1>3. M = {}
    <2> SUFFICES ASSUME M # {} PROVE FALSE
      OBVIOUS
    <2>1. M \subseteq Nat
      OBVIOUS
    <2>2. Min(M) \in M /\ \A y \in M : Min(M) <= y
      BY <2>1, MinIsLeast
    <2>3. PICK m \in 0..n : m = Min(M) /\ ~\E f : Good(f, m)
      BY <2>2
    <2>4. m # 0
      BY <1>2, <2>3
    <2>5. m \in 1..n /\ m - 1 \in 0..n /\ ~(m <= m - 1)
      BY <2>4
    <2>6. m - 1 \notin M
      <3> HIDE DEF M
      <3> QED
        BY <2>2, <2>3, <2>5
    <2>7. PICK f : Good(f, m - 1)
      BY <2>5, <2>6
    <2> QED
      BY <1>1, <2>3, <2>5, <2>7
  <1>4. n \in 0..n
    OBVIOUS
  <1>5. PICK f : Good(f, n)
    BY <1>3, <1>4
  <1> DEFINE h == [k \in 0..n |-> f[k]]
  <1>6. \A k \in 1..n : k \in 0..n /\ k - 1 \in 0..n
    OBVIOUS
  <1>7. \A k \in 0..n : k # 0 => k \in 1..n
    OBVIOUS
  <1>8. \A k \in 0..n : h[k] = f[k]
    OBVIOUS
  <1> HIDE DEF h
  <1>9. \A k \in 0..n : f[k] = IF k = 0 THEN x ELSE step[k][h[k - 1]]
    BY <1>5, <1>6, <1>7, <1>8 DEF Good
  <1>10. h = [k \in 0..n |-> IF k = 0 THEN x ELSE step[k][h[k - 1]]]
    BY <1>9 DEF h
  <1>11. \A k \in 0..n : h[k] \in I[k]
    BY <1>5, <1>8 DEF Good
  <1> QED
    BY <1>10, <1>11 DEF Iterates

(* A sequence in which every element is below the one before is injective. *)
LEMMA FallingInjective ==
    ASSUME NEW n \in Nat, NEW f, \A k \in 0..n : f[k] \in Int,
           \A k \in 1..n : f[k] < f[k - 1]
    PROVE  \A k, l \in 0..n : f[k] = f[l] => k = l
  <1>1. ASSUME NEW k \in 0..n PROVE \A l \in 0..n : k < l => f[l] < f[k]
    <2> DEFINE M == {l \in 0..n : k < l /\ ~(f[l] < f[k])}
    <2> SUFFICES ASSUME M # {} PROVE FALSE
      OBVIOUS
    <2>1. M \subseteq Nat
      OBVIOUS
    <2>2. Min(M) \in M /\ \A y \in M : Min(M) <= y
      BY <2>1, MinIsLeast
    <2>3. PICK m \in 0..n : m = Min(M) /\ k < m /\ ~(f[m] < f[k])
      BY <2>2
    <2>4. m \in 1..n /\ m - 1 \in 0..n /\ ~(m <= m - 1)
      BY <2>3
    <2>5. m - 1 \notin M
      <3> HIDE DEF M
      <3> QED
        BY <2>2, <2>3, <2>4
    <2>6. f[m] < f[m - 1]
      BY <2>4
    <2>7. CASE k = m - 1
      BY <2>3, <2>6, <2>7
    <2>8. CASE k # m - 1
      <3>1. k < m - 1
        BY <2>3, <2>8
      <3>2. f[m - 1] < f[k]
        BY <2>4, <2>5, <3>1
      <3> QED
        BY <2>3, <2>4, <2>6, <3>2
    <2> QED
      BY <2>7, <2>8
  <1> QED
    <2> SUFFICES ASSUME NEW k \in 0..n, NEW l \in 0..n, f[k] = f[l], k # l PROVE FALSE
      OBVIOUS
    <2>1. k < l \/ l < k
      OBVIOUS
    <2>2. f[k] \in Int
      OBVIOUS
    <2>3. CASE k < l
      <3>1. f[l] < f[k]
        BY <1>1, <2>3
      <3> QED
        BY <2>2, <3>1
    <2>4. CASE l < k
      <3>1. f[k] < f[l]
        BY <1>1, <2>4
      <3> QED
        BY <2>2, <3>1
    <2> QED
      BY <2>1, <2>3, <2>4
-----------------------------------------------------------------------------
(* The array. *)

(* p is one of the positions that address x may be in. *)
Home(x, p) == \E i \in 1..Ways : Positions(x)[i] = p

(* Every position has a line and every line a position. *)
Permutation(l) ==
    /\ l \in [Lines -> Lines]
    /\ \A p, q \in Lines : l[p] = l[q] => p = q
    /\ \A id \in Lines : \E p \in Lines : l[p] = id

(* An address is in one line, and that line in a position of the address. *)
ArrayOK ==
    /\ arrayType \in {"Z", "SetAssoc"}
    /\ array \in [Lines -> Address \cup {0}]
    /\ Permutation(lookupArray)
    /\ \A i, j \in Lines : array[i] = array[j] /\ array[i] # 0 => i = j
    /\ \A p \in Lines : array[lookupArray[p]] # 0 => Home(array[lookupArray[p]], p)

LEMMA Sizes ==
    /\ NumSets \in Nat \ {0} /\ Ways \in Nat /\ Ways >= 2
    /\ Candidates \in Nat /\ Candidates >= Ways
    /\ Lines \subseteq Nat /\ 0 \notin Address
  BY ZArrayAssumption DEF Lines

(* The positions of an address are positions of the array, and those of   *)
(* the first two ways differ in a zcache.                                  *)
LEMMA PositionsExist ==
    ASSUME NEW x \in Address, arrayType \in {"Z", "SetAssoc"}
    PROVE  /\ \A i \in 1..Ways : Positions(x)[i] \in Lines
           /\ arrayType = "Z" => Positions(x)[1] # Positions(x)[2]
  <1>1. \A w \in 0..(Ways - 1) : Hash[w][x] \in 0..(NumSets - 1)
    BY ZArrayAssumption
  <1>2. ASSUME NEW m \in Nat, NEW n \in Nat, NEW i \in 0..(m - 1), NEW h \in 0..(n - 1)
        PROVE  i * n + h \in Nat /\ i * n + h < m * n
    <2>1. (i + 1) * n <= m * n
      BY <1>2
    <2>2. (i + 1) * n = i * n + n /\ i * n \in Nat /\ m * n \in Nat
      BY <1>2
    <2> QED
      BY <2>1, <2>2
  <1>3. ASSUME NEW i \in 1..Ways PROVE Positions(x)[i] \in Lines
    <2>1. i - 1 \in 0..(Ways - 1) /\ 0 \in 0..(Ways - 1) /\ Ways * NumSets = NumSets * Ways
          /\ Ways \in Nat /\ NumSets \in Nat /\ Ways * NumSets \in Nat
      BY Sizes
    <2>2. CASE arrayType = "Z"
      <3> DEFINE p == (i - 1) * NumSets + Hash[i - 1][x]
      <3>1. Positions(x)[i] = p
        BY <2>2 DEF Positions
      <3>2. p \in Nat /\ p < Ways * NumSets
        BY <1>1, <1>2, <2>1
      <3> HIDE DEF p
      <3> QED
        BY <2>1, <3>1, <3>2 DEF Lines
    <2>3. CASE arrayType # "Z"
      <3> DEFINE p == Hash[0][x] * Ways + (i - 1)
      <3>1. Positions(x)[i] = p
        BY <2>3 DEF Positions
      <3>2. p \in Nat /\ p < NumSets * Ways
        BY <1>1, <1>2, <2>1
      <3> HIDE DEF p
      <3> QED
        BY <2>1, <3>1, <3>2 DEF Lines
    <2> QED
      BY <2>2, <2>3
  <1>4. ASSUME arrayType = "Z" PROVE Positions(x)[1] # Positions(x)[2]
    <2>1. 1 \in 1..Ways /\ 2 \in 1..Ways /\ 0 \in 0..(Ways - 1) /\ 1 \in 0..(Ways - 1)
          /\ NumSets \in Nat
      BY Sizes
    <2>2. /\ Positions(x)[1] = (1 - 1) * NumSets + Hash[1 - 1][x]
          /\ Positions(x)[2] = (2 - 1) * NumSets + Hash[2 - 1][x]
      BY <1>4, <2>1 DEF Positions
    <2>3. Hash[0][x] \in 0..(NumSets - 1) /\ Hash[1][x] \in 0..(NumSets - 1)
      BY <1>1, <2>1
    <2>4. Positions(x)[1] = Hash[0][x] /\ Positions(x)[2] = NumSets + Hash[1][x]
      BY <2>1, <2>2, <2>3
    <2> QED
      BY <2>1, <2>3, <2>4
  <1> QED
    BY <1>3, <1>4

(* A lookup finds the line of every address that the array holds, and it  *)
(* misses no other.                                                        *)
LEMMA LookupFinds ==
    ASSUME ArrayOK
    PROVE  /\ \A id \in Lines : array[id] # 0 => Lookup(array[id]) = id
           /\ \A a \in Address : Lookup(a) = -1 => \A id \in Lines : array[id] # a
  <1>1. ASSUME NEW id \in Lines, array[id] # 0 PROVE Lookup(array[id]) = id
    <2> DEFINE a == array[id]
               W == {i \in 1..Ways : array[lookupArray[Positions(a)[i]]] = a}
    <2>1. a \in Address
      BY <1>1 DEF ArrayOK
    <2>2. PICK p \in Lines : lookupArray[p] = id
      BY DEF ArrayOK, Permutation
    <2>3. Home(a, p)
      BY <1>1, <2>2 DEF ArrayOK
    <2>4. W # {}
      BY <2>2, <2>3 DEF Home
    <2>5. W \subseteq Nat
      OBVIOUS
    <2>6. Min(W) \in W
      BY <2>4, <2>5, MinIsLeast
    <2>7. Lookup(a) = lookupArray[Positions(a)[Min(W)]]
      BY <2>4 DEF Lookup
    <2> DEFINE q == Positions(a)[Min(W)]
    <2>8. Min(W) \in 1..Ways /\ array[lookupArray[q]] = a
      BY <2>6
    <2>9. q \in Lines
      BY <2>1, <2>8, PositionsExist DEF ArrayOK
    <2> HIDE DEF q, W
    <2>10. lookupArray[q] \in Lines
      BY <2>9 DEF ArrayOK, Permutation
    <2>11. lookupArray[q] = id
      BY <1>1, <2>8, <2>10 DEF ArrayOK
    <2> QED
      BY <2>7, <2>11 DEF q, W
  <1>2. ASSUME NEW a \in Address, Lookup(a) = -1, NEW id \in Lines, array[id] = a PROVE FALSE
    <2>1. a # 0 /\ id # -1
      BY Sizes
    <2> QED
      BY <1>1, <1>2, <2>1
  <1> QED
    BY <1>1, <1>2
-----------------------------------------------------------------------------
(* The walk. *)

Cand == [pos : Lines, line : Lines, parent : Nat]

(* A candidate reached from number f, whose line holds address x. *)
Reached(e, f, self, x) ==
    /\ e.parent = f /\ e.line = lookupArray[e.pos]
    /\ e.line # self /\ Home(x, e.pos)

Expanded(E, f, self, x) ==
    /\ E \in Seq(Cand) /\ Len(E) >= 1
    /\ \A j \in 1..Len(E) : Reached(E[j], f, self, x)
    /\ \A i \in 1..Ways : lookupArray[Positions(x)[i]] # self =>
          \E j \in 1..Len(E) : E[j].line = lookupArray[Positions(x)[i]]

(* An expansion adds the lines in the other positions of the address, and  *)
(* there is one: two positions differ, so not both have the line itself.   *)
LEMMA ExpansionAdds ==
    ASSUME ArrayOK, arrayType = "Z",
           NEW c \in Seq(Cand), NEW f \in 1..Len(c), NEW self, self = c[f].line,
           NEW x \in Address, x = array[self],
           NEW E, E = Expansion(c, f)
    PROVE  Expanded(E, f, self, x)
  <1> DEFINE to(i) == Walk(Positions(x)[i], f)
             Add(i, s) == s \o (IF to(i).line = self THEN << >> ELSE <<to(i)>>)
             Good(s, k) ==
               /\ \A j \in 1..Len(s) : Reached(s[j], f, self, x)
               /\ \A i \in 1..k : lookupArray[Positions(x)[i]] # self =>
                     \E j \in 1..Len(s) : s[j].line = lookupArray[Positions(x)[i]]
             I == [k \in 0..Ways |-> {s \in Seq(Cand) : Good(s, k)}]
             step == [k \in 1..Ways |-> [s \in I[k - 1] |-> Add(k, s)]]
             Rest(g) == [i \in 0..Ways |-> IF i = 0 THEN << >> ELSE Add(i, g[i - 1])]
             g == CHOOSE h : h = Rest(h)
  <1>1. Ways \in Nat /\ Ways >= 2 /\ f \in Nat
    BY Sizes
  <1>2. ASSUME NEW i \in 1..Ways
        PROVE  /\ to(i) \in Cand /\ to(i).line = lookupArray[Positions(x)[i]]
               /\ to(i).line # self => Reached(to(i), f, self, x)
    <2>1. Positions(x)[i] \in Lines
      BY PositionsExist DEF ArrayOK
    <2>2. lookupArray[Positions(x)[i]] \in Lines
      BY <2>1 DEF ArrayOK, Permutation
    <2>3. Home(x, Positions(x)[i])
      BY DEF Home
    <2> QED
      BY <1>1, <2>1, <2>2, <2>3 DEF Walk, Cand, Reached
  <1> HIDE DEF to
  <1>3. ASSUME NEW k \in 1..Ways, NEW s \in Seq(Cand), Good(s, k - 1)
        PROVE  Add(k, s) \in Seq(Cand) /\ Good(Add(k, s), k)
    <2>1. CASE to(k).line = self
      <3>1. Add(k, s) = s
        BY <2>1
      <3>2. \A i \in 1..k : i # k => i \in 1..(k - 1)
        OBVIOUS
      <3>3. Good(s, k)
        BY <1>2, <1>3, <2>1, <3>2
      <3> HIDE DEF Add, Good
      <3> QED
        BY <3>1, <3>3
    <2>2. CASE to(k).line # self
      <3> DEFINE t == Append(s, to(k))
      <3>1. Add(k, s) = t
        BY <1>2, <2>2
      <3>2. Len(s) \in Nat /\ Len(t) = Len(s) + 1 /\ t \in Seq(Cand)
        BY <1>2
      <3>3. (\A j \in 1..Len(s) : t[j] = s[j]) /\ t[Len(s) + 1] = to(k)
        BY <1>2
      <3> HIDE DEF t
      <3>4. \A j \in 1..Len(t) : j # Len(s) + 1 => j \in 1..Len(s)
        BY <3>2
      <3>5. Len(s) + 1 \in 1..Len(t) /\ \A j \in 1..Len(s) : j \in 1..Len(t)
        BY <3>2
      <3>6. \A j \in 1..Len(t) : Reached(t[j], f, self, x)
        BY <1>2, <1>3, <2>2, <3>3, <3>4
      <3>7. ASSUME NEW i \in 1..k, lookupArray[Positions(x)[i]] # self
            PROVE  \E j \in 1..Len(t) : t[j].line = lookupArray[Positions(x)[i]]
        <4>1. CASE i = k
          BY <1>2, <3>3, <3>5, <4>1
        <4>2. CASE i # k
          <5>1. i \in 1..(k - 1)
            BY <4>2
          <5>2. PICK j \in 1..Len(s) : s[j].line = lookupArray[Positions(x)[i]]
            BY <1>3, <3>7, <5>1
          <5> QED
            BY <3>3, <3>5, <5>2
        <4> QED
          BY <4>1, <4>2
      <3>8. Good(t, k)
        BY <3>6, <3>7
      <3> HIDE DEF Add, Good
      <3> QED
        BY <3>1, <3>2, <3>8
    <2> QED
      BY <2>1, <2>2
  <1>4. << >> \in Seq(Cand) /\ Good(<< >>, 0)
    OBVIOUS
  <1> HIDE DEF Add, Good
  <1>5. << >> \in I[0] /\ \A k \in 1..Ways : k - 1 \in 0..Ways /\ k \in 0..Ways /\ k # 0
    BY <1>1, <1>4
  <1>6. \A k \in 1..Ways : \A s \in I[k - 1] : Add(k, s) \in I[k] /\ step[k][s] = Add(k, s)
    BY <1>3, <1>5
  <1>7. \A k \in 0..Ways : k # 0 => k \in 1..Ways
    BY <1>1
  <1> HIDE DEF I, step
  <1>8. \A k \in 1..Ways : \A s \in I[k - 1] : step[k][s] \in I[k]
    BY <1>6
  <1>9. PICK h : /\ h = [k \in 0..Ways |-> IF k = 0 THEN << >> ELSE step[k][h[k - 1]]]
                 /\ \A k \in 0..Ways : h[k] \in I[k]
    <2>1. << >> \in I[0]
      BY <1>5
    <2>2. \E h : Iterates(h, Ways, << >>, step) /\ \A k \in 0..Ways : h[k] \in I[k]
      BY <1>1, <1>8, <2>1, SequenceExists
    <2> QED
      BY <2>2 DEF Iterates
  <1>10. \A k \in 0..Ways : k # 0 => step[k][h[k - 1]] = Add(k, h[k - 1])
    BY <1>5, <1>6, <1>7, <1>9
  <1>11. h = Rest(h)
    BY <1>9, <1>10
  <1>12. g = Rest(g)
    <2> HIDE DEF Rest
    <2> QED
      BY <1>11
  <1> HIDE DEF g
  <1>13. g[0] = << >> /\ \A k \in 1..Ways : g[k] = Add(k, g[k - 1])
    <2>1. \A k \in 0..Ways : g[k] = IF k = 0 THEN << >> ELSE Add(k, g[k - 1])
      BY <1>12
    <2> HIDE DEF Rest
    <2> QED
      BY <1>1, <1>5, <2>1
  <1>14. g[0] \in I[0] /\ \A k \in 1..Ways : g[k - 1] \in I[k - 1] => g[k] \in I[k]
    BY <1>5, <1>6, <1>13
  <1>15. \A k \in 0..Ways : g[k] \in I[k]
    BY <1>1, <1>14, PassesOn
  <1>16. E = g[Ways]
    BY DEF Expansion, g, Add, to
  <1>17. Ways \in 0..Ways /\ E \in I[Ways]
    BY <1>1, <1>15, <1>16
  <1>18. E \in Seq(Cand) /\ Good(E, Ways)
    BY <1>17 DEF I
  <1>19. Len(E) >= 1
    <2>1. 1 \in 1..Ways /\ 2 \in 1..Ways
      BY <1>1
    <2>2. /\ Positions(x)[1] \in Lines /\ Positions(x)[2] \in Lines
          /\ Positions(x)[1] # Positions(x)[2]
      BY <2>1, PositionsExist DEF ArrayOK
    <2>3. lookupArray[Positions(x)[1]] # lookupArray[Positions(x)[2]]
      BY <2>2 DEF ArrayOK, Permutation
    <2>4. \E j \in 1..Len(E) : TRUE
      BY <1>18, <2>1, <2>3 DEF Good
    <2> QED
      BY <1>18, <2>4
  <1> QED
    <2>1. (\A j \in 1..Len(E) : Reached(E[j], f, self, x))
          /\ \A i \in 1..Ways : lookupArray[Positions(x)[i]] # self =>
                \E j \in 1..Len(E) : E[j].line = lookupArray[Positions(x)[i]]
      BY <1>18 DEF Good
    <2> QED
      BY <1>18, <1>19, <2>1, Zenon DEF Expanded

(* Candidate j of the walk for address a: it is in a position of a, or of  *)
(* the line it was reached from, which came earlier.  If that line had     *)
(* been met before, so had this one: a walk meets a line first along lines *)
(* that it meets for the first time.                                       *)
Node(a, c, j) ==
    LET f == c[j].parent
    IN  /\ c[j].line = lookupArray[c[j].pos]
        /\ f = 0 => Home(a, c[j].pos)
        /\ f # 0 => /\ arrayType = "Z" /\ f + Ways <= j
                    /\ array[c[f].line] # 0 /\ Home(array[c[f].line], c[j].pos)
                    /\ \A g \in 1..(f - 1) : c[g].line = c[f].line =>
                          \E i \in 1..(j - 1) : c[i].line = c[j].line

Tree(a, c) == c \in Seq(Cand) /\ Len(c) >= Ways /\ \A j \in 1..Len(c) : Node(a, c, j)

(* What the lines of the first f candidates can move to has been met. *)
Closed(c, f) ==
    \A g \in 1..f : \A i \in 1..Ways :
        LET p == Positions(array[c[g].line])[i]
        IN  lookupArray[p] # c[g].line => \E j \in 1..Len(c) : c[j].line = lookupArray[p]

(* The walk after f steps. *)
Upto(a, c, f) == Tree(a, c) /\ (GoesOn(c) => Len(c) >= Ways + f /\ Closed(c, f))

LEMMA SeedsTree ==
    ASSUME ArrayOK, NEW a \in Address, NEW c, c = [i \in 1..Ways |-> Walk(Positions(a)[i], 0)]
    PROVE  Upto(a, c, 0)
  <1>1. Ways \in Nat
    BY Sizes
  <1>2. ASSUME NEW i \in 1..Ways
        PROVE  c[i] \in Cand /\ c[i].line = lookupArray[c[i].pos] /\ c[i].parent = 0
               /\ Home(a, c[i].pos)
    <2>1. Positions(a)[i] \in Lines
      BY PositionsExist DEF ArrayOK
    <2>2. lookupArray[Positions(a)[i]] \in Lines
      BY <2>1 DEF ArrayOK, Permutation
    <2>3. Home(a, Positions(a)[i])
      BY DEF Home
    <2>4. c[i] = Walk(Positions(a)[i], 0)
      OBVIOUS
    <2> QED
      BY <2>1, <2>2, <2>3, <2>4 DEF Walk, Cand
  <1>3. c \in [1..Ways -> Cand]
    BY <1>2
  <1>4. c \in Seq(Cand) /\ Len(c) = Ways
    BY <1>1, <1>3
  <1>5. \A j \in 1..Len(c) : Node(a, c, j)
    BY <1>2, <1>4 DEF Node
  <1>6. Closed(c, 0)
    BY DEF Closed
  <1> QED
    BY <1>1, <1>4, <1>5, <1>6 DEF Upto, Tree

LEMMA StepTree ==
    ASSUME ArrayOK, NEW a \in Address, NEW f \in Nat \ {0}, NEW c, Upto(a, c, f - 1),
           NEW d, ~GoesOn(c) => d = c, GoesOn(c) => d = c \o Expansion(c, f)
    PROVE  Upto(a, d, f)
  <1>1. c \in Seq(Cand) /\ Len(c) >= Ways /\ Len(c) \in Nat /\ Ways \in Nat /\ Ways >= 2
        /\ \A j \in 1..Len(c) : Node(a, c, j)
    BY Sizes DEF Upto, Tree
  <1>2. CASE ~GoesOn(c)
    <2>1. d = c
      BY <1>1, <1>2
    <2> QED
      BY <1>2, <2>1 DEF Upto
  <1>3. CASE GoesOn(c)
    <2>0. PICK self, x, E : self = c[f].line /\ x = array[self] /\ E = Expansion(c, f)
      OBVIOUS
    <2> DEFINE n == Len(c)
    <2>1. n >= Ways + (f - 1) /\ Closed(c, f - 1)
      BY <1>3 DEF Upto
    <2>2. f \in 1..n /\ DOMAIN c = 1..n
      BY <1>1, <2>1
    <2>3. arrayType = "Z" /\ x # 0
      BY <1>3, <2>0, <2>2 DEF GoesOn
    <2>4. c[f] \in Cand
      BY <1>1, <2>2
    <2>40. self \in Lines
      BY <2>0, <2>4 DEF Cand
    <2>5. x \in Address
      BY <2>0, <2>3, <2>40 DEF ArrayOK
    <2>6. /\ E \in Seq(Cand) /\ Len(E) >= 1
          /\ \A j \in 1..Len(E) : Reached(E[j], f, self, x)
          /\ \A i \in 1..Ways : lookupArray[Positions(x)[i]] # self =>
                \E j \in 1..Len(E) : E[j].line = lookupArray[Positions(x)[i]]
      <3>1. c \in Seq(Cand) /\ f \in 1..Len(c) /\ self = c[f].line
        BY <1>1, <2>0, <2>2
      <3>2. x \in Address /\ x = array[self] /\ E = Expansion(c, f) /\ arrayType = "Z"
        BY <2>0, <2>3, <2>5
      <3>3. Expanded(E, f, self, x)
        BY <3>1, <3>2, ExpansionAdds
      <3> QED
        BY <3>3 DEF Expanded
    <2>7. d = c \o E
      BY <1>3, <2>0
    <2>8. /\ d \in Seq(Cand) /\ Len(d) = n + Len(E) /\ Len(E) \in Nat
          /\ \A j \in 1..n : d[j] = c[j]
          /\ \A k \in 1..Len(E) : d[n + k] = E[k]
      <3>0. E \in Seq(Cand) /\ c \in Seq(Cand)
        BY <1>1, <2>6
      <3>1. d \in Seq(Cand) /\ Len(E) \in Nat /\ Len(d) = Len(c) + Len(E)
        BY <2>7, <3>0
      <3>2. \A j \in 1..n : d[j] = c[j]
        BY <1>1, <2>6, <2>7
      <3>3. \A k \in 1..Len(E) : d[n + k] = E[k]
        BY <1>1, <2>6, <2>7
      <3> QED
        BY <3>1, <3>2, <3>3
    <2>9. ASSUME NEW j \in 1..n PROVE Node(a, d, j)
      <3> DEFINE m == c[j].parent
      <3>1. Node(a, c, j) /\ d[j] = c[j] /\ c[j] \in Cand
        BY <1>1, <2>8
      <3>2. CASE m = 0
        BY <3>1, <3>2 DEF Node
      <3>3. CASE m # 0
        <4>1. m \in Nat
          BY <3>1 DEF Cand
        <4>2. /\ c[j].line = lookupArray[c[j].pos]
              /\ arrayType = "Z" /\ m + Ways <= j
              /\ array[c[m].line] # 0 /\ Home(array[c[m].line], c[j].pos)
              /\ \A g \in 1..(m - 1) : c[g].line = c[m].line =>
                     \E i \in 1..(j - 1) : c[i].line = c[j].line
          BY <3>1, <3>3 DEF Node
        <4>3. m \in 1..n /\ (\A g \in 1..(m - 1) : g \in 1..n) /\ \A i \in 1..(j - 1) : i \in 1..n
          <5>1. m + Ways <= j /\ Ways \in Nat /\ n \in Nat
            BY <1>1, <4>2
          <5> QED
            BY <3>3, <4>1, <5>1
        <4>4. d[m] = c[m] /\ (\A g \in 1..(m - 1) : d[g] = c[g])
              /\ \A i \in 1..(j - 1) : d[i] = c[i]
          BY <2>8, <4>3
        <4>5. \A g \in 1..(m - 1) : d[g].line = d[m].line =>
                     \E i \in 1..(j - 1) : d[i].line = d[j].line
          BY <3>1, <4>2, <4>4
        <4> QED
          BY <3>1, <3>3, <4>2, <4>4, <4>5 DEF Node
      <3> QED
        BY <3>2, <3>3
    <2>10. ASSUME NEW k \in 1..Len(E) PROVE Node(a, d, n + k)
      <3>0. PICK j : j = n + k
        OBVIOUS
      <3>1. d[j] = E[k] /\ d[f] = c[f] /\ \A g \in 1..(f - 1) : d[g] = c[g]
        BY <2>2, <2>8, <3>0
      <3>2. Reached(E[k], f, self, x)
        BY <2>6
      <3>3. f + Ways <= j
        BY <1>1, <2>1, <2>8, <3>0
      <3>4. ASSUME NEW g \in 1..(f - 1), d[g].line = d[f].line
            PROVE  \E i \in 1..(j - 1) : d[i].line = d[j].line
        <4>1. c[g].line = self
          BY <2>0, <3>1, <3>4
        <4>2. PICK i \in 1..Ways : Positions(x)[i] = E[k].pos
          BY <3>2 DEF Reached, Home
        <4>3. lookupArray[Positions(x)[i]] = E[k].line /\ E[k].line # self
          BY <3>2, <4>2 DEF Reached
        <4>4. PICK i1 \in 1..n : c[i1].line = E[k].line
          BY <2>0, <2>1, <4>1, <4>3 DEF Closed
        <4>5. d[i1] = c[i1] /\ i1 \in 1..(j - 1)
          BY <1>1, <2>8, <3>0
        <4> QED
          BY <3>1, <4>4, <4>5
      <3>5. f # 0 /\ d[j].parent = f /\ d[j].line = lookupArray[d[j].pos] /\ Home(x, d[j].pos)
        BY <3>1, <3>2 DEF Reached
      <3>6. x = array[d[f].line] /\ x # 0 /\ arrayType = "Z"
        BY <2>0, <2>3, <3>1
      <3>7. Node(a, d, j)
        BY <3>3, <3>4, <3>5, <3>6 DEF Node
      <3> QED
        BY <3>0, <3>7
    <2>11. \A j \in 1..Len(d) : Node(a, d, j)
      <3> SUFFICES ASSUME NEW j \in 1..Len(d) PROVE Node(a, d, j)
        OBVIOUS
      <3>1. CASE j <= n
        BY <1>1, <2>9, <3>1
      <3>2. CASE ~(j <= n)
        <4>1. j - n \in 1..Len(E) /\ n + (j - n) = j
          BY <1>1, <2>8, <3>2
        <4> QED
          BY <2>10, <4>1
      <3> QED
        BY <3>1, <3>2
    <2>12. Closed(d, f)
      <3> SUFFICES ASSUME NEW g \in 1..f, NEW i \in 1..Ways,
                          lookupArray[Positions(array[d[g].line])[i]] # d[g].line
                   PROVE  \E j \in 1..Len(d) :
                             d[j].line = lookupArray[Positions(array[d[g].line])[i]]
        BY DEF Closed
      <3>0. PICK p : p = Positions(array[d[g].line])[i]
        OBVIOUS
      <3>1. d[g] = c[g]
        BY <2>2, <2>8
      <3>2. CASE g = f
        <4>1. p = Positions(x)[i] /\ lookupArray[p] # self
          BY <2>0, <3>0, <3>1, <3>2
        <4>2. PICK j \in 1..Len(E) : E[j].line = lookupArray[p]
          BY <2>6, <4>1
        <4>3. d[n + j] = E[j] /\ n + j \in 1..Len(d)
          BY <1>1, <2>8
        <4> QED
          BY <3>0, <4>2, <4>3
      <3>3. CASE g # f
        <4>1. g \in 1..(f - 1)
          BY <3>3
        <4>2. PICK j \in 1..n : c[j].line = lookupArray[p]
          BY <2>1, <3>0, <3>1, <4>1 DEF Closed
        <4>3. d[j] = c[j] /\ j \in 1..Len(d)
          BY <1>1, <2>8
        <4> QED
          BY <3>0, <4>2, <4>3
      <3> QED
        BY <3>2, <3>3
    <2>13. Len(d) >= Ways + f /\ Len(d) >= Ways
      BY <1>1, <2>1, <2>6, <2>8
    <2> QED
      BY <2>8, <2>11, <2>12, <2>13 DEF Upto, Tree
  <1> QED
    BY <1>2, <1>3
(* The beginning of a walk is one, and it keeps as many as it may use. *)
LEMMA PrefixTree ==
    ASSUME NEW a, NEW c, Tree(a, c), NEW n \in Nat, n >= Ways, n <= Len(c),
           NEW d, d = SubSeq(c, 1, n)
    PROVE  Tree(a, d) /\ Len(d) = n
  <1>1. c \in Seq(Cand) /\ Len(c) \in Nat /\ Ways \in Nat
        /\ \A j \in 1..Len(c) : Node(a, c, j)
    BY Sizes DEF Tree
  <1>2. d \in Seq(Cand) /\ Len(d) = n
    BY <1>1
  <1>3. \A j \in 1..n : d[j] = c[j]
    BY <1>1
  <1>4. ASSUME NEW j \in 1..n PROVE Node(a, d, j)
    <2>0. PICK m : m = c[j].parent
      OBVIOUS
    <2>1. Node(a, c, j) /\ d[j] = c[j] /\ c[j] \in Cand
      BY <1>1, <1>3
    <2>2. CASE m = 0
      BY <2>0, <2>1, <2>2 DEF Node
    <2>3. CASE m # 0
      <3>1. m \in Nat
        BY <2>0, <2>1 DEF Cand
      <3>2. /\ c[j].line = lookupArray[c[j].pos]
            /\ arrayType = "Z" /\ m + Ways <= j
            /\ array[c[m].line] # 0 /\ Home(array[c[m].line], c[j].pos)
            /\ \A g \in 1..(m - 1) : c[g].line = c[m].line =>
                   \E i \in 1..(j - 1) : c[i].line = c[j].line
        BY <2>0, <2>1, <2>3 DEF Node
      <3>3. m \in 1..n /\ (\A g \in 1..(m - 1) : g \in 1..n) /\ \A i \in 1..(j - 1) : i \in 1..n
        BY <1>1, <2>3, <3>1, <3>2
      <3>4. d[m] = c[m] /\ (\A g \in 1..(m - 1) : d[g] = c[g])
            /\ \A i \in 1..(j - 1) : d[i] = c[i]
        BY <1>3, <3>3
      <3>5. \A g \in 1..(m - 1) : d[g].line = d[m].line =>
                   \E i \in 1..(j - 1) : d[i].line = d[j].line
        BY <2>1, <3>2, <3>4
      <3>6. d[j].parent = m
        BY <2>0, <2>1
      <3> QED
        BY <2>1, <2>3, <3>2, <3>4, <3>5, <3>6 DEF Node
    <2> QED
      BY <2>2, <2>3
  <1> QED
    BY <1>2, <1>4 DEF Tree

LEMMA WalkTree ==
    ASSUME ArrayOK, NEW a \in Address, NEW c, c = WalkCands(a)
    PROVE  Tree(a, c) /\ Len(c) <= Candidates
  <1> DEFINE seeds == [i \in 1..Ways |-> Walk(Positions(a)[i], 0)]
             Add(f, s) == s \o (IF GoesOn(s) THEN Expansion(s, f) ELSE << >>)
             I == [f \in 0..Candidates |-> {s \in Seq(Cand) : Upto(a, s, f)}]
             step == [f \in 1..Candidates |-> [s \in I[f - 1] |-> Add(f, s)]]
             Rest(g) == [f \in 0..Candidates |-> IF f = 0 THEN seeds ELSE Add(f, g[f - 1])]
             g == CHOOSE h : h = Rest(h)
  <1>1. Candidates \in Nat /\ Candidates >= Ways /\ Ways \in Nat
    BY Sizes
  <1>2. \A s : \A f : Upto(a, s, f) => s \in Seq(Cand)
    BY DEF Upto, Tree
  <1>3. seeds \in Seq(Cand) /\ Upto(a, seeds, 0)
    BY <1>2, SeedsTree
  <1>4. ASSUME NEW f \in 1..Candidates, NEW s, s \in Seq(Cand), Upto(a, s, f - 1)
        PROVE  Add(f, s) \in Seq(Cand) /\ Upto(a, Add(f, s), f)
    <2>1. PICK d : d = Add(f, s)
      OBVIOUS
    <2>2. ~GoesOn(s) => d = s
      BY <1>4, <2>1
    <2>3. GoesOn(s) => d = s \o Expansion(s, f)
      BY <2>1
    <2>4. f \in Nat \ {0}
      OBVIOUS
    <2> HIDE DEF Add
    <2>5. Upto(a, d, f)
      BY <1>4, <2>2, <2>3, <2>4, StepTree
    <2> QED
      BY <1>2, <2>1, <2>5
  <1> HIDE DEF seeds, Add
  <1>5. \A f \in 1..Candidates : f - 1 \in 0..Candidates /\ f \in 0..Candidates /\ f # 0
    BY <1>1
  <1>6. seeds \in I[0]
    BY <1>1, <1>3
  <1>7. \A f \in 1..Candidates : \A s \in I[f - 1] : Add(f, s) \in I[f] /\ step[f][s] = Add(f, s)
    BY <1>4, <1>5
  <1>8. \A f \in 0..Candidates : f # 0 => f \in 1..Candidates
    BY <1>1
  <1> HIDE DEF I, step
  <1>9. \A f \in 1..Candidates : \A s \in I[f - 1] : step[f][s] \in I[f]
    BY <1>7
  <1>10. PICK h : Iterates(h, Candidates, seeds, step) /\ \A f \in 0..Candidates : h[f] \in I[f]
    BY <1>1, <1>6, <1>9, SequenceExists
  <1>11. \A f \in 0..Candidates : f # 0 => step[f][h[f - 1]] = Add(f, h[f - 1])
    BY <1>5, <1>7, <1>8, <1>10
  <1>12. h = Rest(h)
    BY <1>10, <1>11 DEF Iterates
  <1>13. g = Rest(g)
    <2> HIDE DEF Rest
    <2> QED
      BY <1>12
  <1> HIDE DEF g
  <1>14. g[0] = seeds /\ \A f \in 1..Candidates : g[f] = Add(f, g[f - 1])
    <2>1. \A f \in 0..Candidates : g[f] = IF f = 0 THEN seeds ELSE Add(f, g[f - 1])
      BY <1>13
    <2> HIDE DEF Rest
    <2> QED
      BY <1>1, <1>5, <2>1
  <1>15. g[0] \in I[0] /\ \A f \in 1..Candidates : g[f - 1] \in I[f - 1] => g[f] \in I[f]
    BY <1>6, <1>7, <1>14
  <1>16. \A f \in 0..Candidates : g[f] \in I[f]
    BY <1>1, <1>15, PassesOn
  <1>17. PICK all : all = g[Candidates]
    OBVIOUS
  <1>18. all \in I[Candidates] /\ Candidates \in 0..Candidates
    BY <1>1, <1>16, <1>17
  <1>19. Tree(a, all)
    BY <1>18 DEF I, Upto
  <1>20. Len(all) \in Nat /\ Len(all) >= Ways
    BY <1>19 DEF Tree
  <1>21. PICK n : n = Min({Len(all), Candidates})
    OBVIOUS
  <1>22. c = SubSeq(all, 1, n)
    BY <1>17, <1>21 DEF WalkCands, g, Rest, Add, seeds
  <1>23. n \in {Len(all), Candidates} /\ n <= Len(all) /\ n <= Candidates
    <2> DEFINE T == {Len(all), Candidates}
    <2>1. T \subseteq Nat /\ T # {}
      BY <1>1, <1>20
    <2>2. Min(T) \in T /\ \A y \in T : Min(T) <= y
      BY <2>1, MinIsLeast
    <2> QED
      BY <1>21, <2>2
  <1>24. n \in Nat /\ n >= Ways
    BY <1>1, <1>20, <1>23
  <1>25. Tree(a, c) /\ Len(c) = n
    BY <1>19, <1>22, <1>23, <1>24, PrefixTree
  <1> QED
    BY <1>23, <1>25
-----------------------------------------------------------------------------
(* The path. *)

LEMMA DivBound ==
    ASSUME NEW m \in Nat, NEW w \in Nat \ {0}, NEW c \in Nat, w * m <= c
    PROVE  c \div w \in Nat /\ m <= c \div w
  <1> DEFINE q == c \div w
  <1>1. q \in Int /\ w * q <= c /\ c < w * (q + 1)
    OBVIOUS
  <1> HIDE DEF q
  <1>2. q >= 0
    <2> SUFFICES ASSUME q <= -1 PROVE FALSE
      BY <1>1
    <2>1. w * (q + 1) <= w * 0
      BY <1>1
    <2> QED
      BY <1>1, <2>1
  <1>3. m <= q
    <2> SUFFICES ASSUME q + 1 <= m PROVE FALSE
      BY <1>1
    <2>1. w * (q + 1) <= w * m
      BY <1>1
    <2> QED
      BY <1>1, <2>1
  <1> QED
    BY <1>1, <1>2, <1>3 DEF q

(* What a swap needs: no position twice, the victim's line in the first,   *)
(* a position of the new address last, and each line but the victim's      *)
(* moves to a position of its own address.                                 *)
Path(path, a, v) ==
    /\ path \in Seq(Lines) /\ Len(path) \in 1..(Candidates \div Ways + 2)
    /\ \A k, l \in 1..Len(path) : path[k] = path[l] => k = l
    /\ lookupArray[path[1]] = v
    /\ Home(a, path[Len(path)])
    /\ \A k \in 1..(Len(path) - 1) :
          LET x == array[lookupArray[path[k + 1]]] IN x # 0 /\ Home(x, path[k])

(* Candidate u is the first with its line. *)
First(c, u) == \A j \in 1..(u - 1) : c[j].line # c[u].line

(* The parent of a first candidate is one, Ways places earlier at least. *)
LEMMA ParentFirst ==
    ASSUME NEW a, NEW c, Tree(a, c), NEW u \in 1..Len(c), First(c, u),
           NEW f, f = c[u].parent
    PROVE  f \in 0..Len(c) /\ (f # 0 => First(c, f) /\ f + Ways <= u)
  <1>1. c \in Seq(Cand) /\ Len(c) \in Nat /\ Ways \in Nat /\ Node(a, c, u) /\ c[u] \in Cand
    BY Sizes DEF Tree
  <1>2. f \in Nat
    BY <1>1 DEF Cand
  <1>3. CASE f # 0
    <2>1. f + Ways <= u /\ \A g \in 1..(f - 1) : c[g].line = c[f].line =>
                   \E i \in 1..(u - 1) : c[i].line = c[u].line
      BY <1>1, <1>3 DEF Node
    <2>2. First(c, f)
      BY <2>1 DEF First
    <2> QED
      BY <1>1, <1>2, <2>1, <2>2
  <1> QED
    BY <1>1, <1>2, <1>3

LEMMA PathFound ==
    ASSUME ArrayOK, NEW a \in Address, NEW c, Tree(a, c), Len(c) <= Candidates,
           NEW i \in 1..Len(c), First(c, i), NEW path, path = PathFrom(c, i)
    PROVE  Path(path, a, c[i].line)
  <1> DEFINE n == Len(c)
             Up(u) == IF u = 0 THEN 0 ELSE c[u].parent
             I == [k \in 0..n |-> {u \in 0..n : u # 0 => First(c, u) /\ u + Ways * k <= i}]
             step == [k \in 1..n |-> [u \in I[k - 1] |-> Up(u)]]
             Rest(g) == [k \in 0..n |-> IF k = 0 THEN i ELSE Up(g[k - 1])]
             up == CHOOSE h : h = Rest(h)
  <1>1. /\ n \in Nat /\ Ways \in Nat /\ Ways >= 2 /\ c \in Seq(Cand)
        /\ Candidates \in Nat /\ \A j \in 1..n : Node(a, c, j) /\ c[j] \in Cand
    BY Sizes DEF Tree
  <1>2. ASSUME NEW k \in 1..n, NEW u \in 0..n, u # 0 => First(c, u) /\ u + Ways * (k - 1) <= i
        PROVE  Up(u) \in 0..n /\ (Up(u) # 0 => First(c, Up(u)) /\ Up(u) + Ways * k <= i)
    <2>1. CASE u = 0
      BY <1>1, <2>1
    <2>2. CASE u # 0
      <3>1. PICK f : f = c[u].parent
        OBVIOUS
      <3>2. u \in 1..Len(c) /\ First(c, u)
        BY <1>1, <1>2, <2>2
      <3>3. f \in 0..Len(c) /\ (f # 0 => First(c, f) /\ f + Ways <= u)
        BY <3>1, <3>2, ParentFirst
      <3>4. Ways * k = Ways * (k - 1) + Ways /\ Ways * (k - 1) \in Int
        BY <1>1
      <3>5. f # 0 => f + Ways * k <= i
        BY <1>1, <1>2, <2>2, <3>3, <3>4
      <3>6. Up(u) = f
        BY <2>2, <3>1
      <3> HIDE DEF Up
      <3> QED
        BY <3>3, <3>5, <3>6
    <2> QED
      BY <2>1, <2>2
  <1>3. i \in 0..n /\ i # 0 /\ i + Ways * 0 <= i /\ 0 \in 0..n
    BY <1>1
  <1> HIDE DEF Up
  <1>4. \A k \in 1..n : k - 1 \in 0..n /\ k \in 0..n /\ k # 0
    BY <1>1
  <1>5. i \in I[0]
    BY <1>3
  <1>6. \A k \in 1..n : \A u \in I[k - 1] : Up(u) \in I[k] /\ step[k][u] = Up(u)
    BY <1>2, <1>4
  <1>7. \A k \in 0..n : k # 0 => k \in 1..n
    BY <1>1
  <1> HIDE DEF I, step
  <1>8. \A k \in 1..n : \A u \in I[k - 1] : step[k][u] \in I[k]
    BY <1>6
  <1>9. PICK h : Iterates(h, n, i, step) /\ \A k \in 0..n : h[k] \in I[k]
    BY <1>1, <1>5, <1>8, SequenceExists
  <1>10. \A k \in 0..n : k # 0 => step[k][h[k - 1]] = Up(h[k - 1])
    BY <1>4, <1>6, <1>7, <1>9
  <1>11. h = Rest(h)
    BY <1>9, <1>10 DEF Iterates
  <1>12. up = Rest(up)
    <2> HIDE DEF Rest
    <2> QED
      BY <1>11
  <1> HIDE DEF up
  <1>13. up[0] = i /\ \A k \in 1..n : up[k] = Up(up[k - 1])
    <2>1. \A k \in 0..n : up[k] = IF k = 0 THEN i ELSE Up(up[k - 1])
      BY <1>12
    <2> HIDE DEF Rest
    <2> QED
      BY <1>1, <1>4, <2>1
  <1>14. up[0] \in I[0] /\ \A k \in 1..n : up[k - 1] \in I[k - 1] => up[k] \in I[k]
    BY <1>5, <1>6, <1>13
  <1>15. \A k \in 0..n : up[k] \in I[k]
    BY <1>1, <1>14, PassesOn
  <1>16. \A k \in 0..n : up[k] \in 0..n /\ (up[k] # 0 => First(c, up[k]) /\ up[k] + Ways * k <= i)
    BY <1>15 DEF I
  <1> DEFINE T == {k \in 0..n : up[k] = 0}
  <1>17. up[n] = 0
    <2> SUFFICES ASSUME up[n] # 0 PROVE FALSE
      OBVIOUS
    <2>1. n \in 0..n
      BY <1>1
    <2>2. up[n] \in 0..n /\ up[n] + Ways * n <= i
      BY <1>16, <2>1
    <2>3. Ways * n >= n /\ Ways * n \in Nat
      BY <1>1
    <2> QED
      BY <1>1, <2>2, <2>3
  <1>18. T \subseteq Nat /\ T # {}
    BY <1>1, <1>17
  <1>19. Min(T) \in T /\ \A y \in T : Min(T) <= y
    BY <1>18, MinIsLeast
  <1>20. PICK m \in 0..n : m = Min(T) /\ up[m] = 0 /\ \A k \in 0..n : up[k] = 0 => m <= k
    BY <1>19
  <1>21. m # 0 /\ m \in 1..n
    BY <1>3, <1>13, <1>20
  <1>22. ASSUME NEW k \in 0..(m - 1)
         PROVE  k \in 0..n /\ up[k] \in 1..n /\ First(c, up[k]) /\ up[k] + Ways * k <= i
    BY <1>1, <1>16, <1>20
  <1>23. ASSUME NEW k \in 1..m
         PROVE  k - 1 \in 0..(m - 1) /\ up[k] = c[up[k - 1]].parent
    <2>1. k - 1 \in 0..(m - 1) /\ k \in 1..n
      BY <1>20
    <2>2. up[k - 1] # 0 /\ up[k] = Up(up[k - 1])
      BY <1>13, <1>22, <2>1
    <2> QED
      BY <2>1, <2>2 DEF Up
  <1>24. path = [k \in 1..m |-> c[up[k - 1]].pos]
    BY <1>20 DEF PathFrom, up, Rest, Up
  <1>25. ASSUME NEW k \in 1..m
         PROVE  /\ path[k] = c[up[k - 1]].pos /\ path[k] \in Lines
                /\ lookupArray[path[k]] = c[up[k - 1]].line
    <2>1. PICK u : u = up[k - 1]
      OBVIOUS
    <2>2. u \in 1..n
      BY <1>22, <1>23, <2>1
    <2>3. Node(a, c, u) /\ c[u] \in Cand
      BY <1>1, <2>2
    <2> QED
      BY <1>24, <2>1, <2>3 DEF Node, Cand
  <1>26. path \in Seq(Lines) /\ Len(path) = m
    <2>1. path \in [1..m -> Lines]
      BY <1>24, <1>25
    <2> QED
      BY <1>21, <2>1
  <1>27. m \in 1..(Candidates \div Ways + 2)
    <2>1. m - 1 \in 0..(m - 1) /\ m - 1 \in Nat
      BY <1>21
    <2>2. up[m - 1] \in 1..n /\ up[m - 1] + Ways * (m - 1) <= i
      BY <1>22, <2>1
    <2>3. Ways * (m - 1) <= Candidates /\ Ways * (m - 1) \in Int
      BY <1>1, <2>1, <2>2
    <2>4. Candidates \div Ways \in Nat /\ m - 1 <= Candidates \div Ways
      <3>1. m - 1 \in Nat /\ Ways \in Nat \ {0} /\ Candidates \in Nat
        BY <1>1, <2>1
      <3> QED
        BY <2>3, <3>1, DivBound, Zenon
    <2> QED
      BY <1>21, <2>4
  <1>28. ASSUME NEW k \in 1..m, NEW l \in 1..m, path[k] = path[l] PROVE k = l
    <2>1. c[up[k - 1]].line = c[up[l - 1]].line
      BY <1>25, <1>28
    <2>2. PICK f : f = [j \in 0..(m - 1) |-> up[j]]
      OBVIOUS
    <2>3. \A j \in 0..(m - 1) : f[j] = up[j] /\ f[j] \in Int
      BY <1>22, <2>2
    <2>4. ASSUME NEW j \in 1..(m - 1) PROVE f[j] < f[j - 1]
      <3>1. j \in 1..m /\ j - 1 \in 0..(m - 1) /\ j \in 0..(m - 1)
        BY <1>21
      <3>2. PICK u : u = up[j - 1]
        OBVIOUS
      <3>3. u \in 1..Len(c) /\ First(c, u) /\ up[j] = c[u].parent /\ up[j] # 0 /\ up[j] \in 1..n
        BY <1>22, <1>23, <3>1, <3>2
      <3>4. up[j] + Ways <= u
        BY <3>3, ParentFirst
      <3> QED
        BY <1>1, <2>3, <3>1, <3>2, <3>3, <3>4
    <2>5. m - 1 \in Nat
      BY <1>21
    <2>6. \A x, y \in 0..(m - 1) : f[x] = f[y] => x = y
      BY <2>3, <2>4, <2>5, FallingInjective
    <2>7. k - 1 \in 0..(m - 1) /\ l - 1 \in 0..(m - 1)
      BY <1>23
    <2>8. up[k - 1] = up[l - 1]
      <3>1. PICK u, w : u = up[k - 1] /\ w = up[l - 1]
        OBVIOUS
      <3>2. u \in 1..n /\ w \in 1..n /\ First(c, u) /\ First(c, w) /\ c[u].line = c[w].line
        BY <1>22, <2>1, <2>7, <3>1
      <3>3. ~(u < w) /\ ~(w < u)
        BY <3>2 DEF First
      <3> QED
        BY <3>1, <3>2, <3>3
    <2>9. k - 1 = l - 1
      BY <2>3, <2>6, <2>7, <2>8
    <2> QED
      BY <2>9
  <1>29. lookupArray[path[1]] = c[i].line
    BY <1>13, <1>21, <1>25
  <1>30. Home(a, path[m])
    <2>1. PICK u : u = up[m - 1]
      OBVIOUS
    <2>2. u \in 1..n /\ c[u].parent = 0 /\ path[m] = c[u].pos
      BY <1>20, <1>21, <1>22, <1>23, <1>25, <2>1
    <2> QED
      BY <1>1, <2>2 DEF Node
  <1>31. ASSUME NEW k \in 1..(m - 1), NEW x, x = array[lookupArray[path[k + 1]]]
         PROVE  x # 0 /\ Home(x, path[k])
    <2>1. PICK u, f : u = up[k - 1] /\ f = up[k]
      OBVIOUS
    <2>2. k \in 1..m /\ k + 1 \in 1..m /\ k \in 0..(m - 1)
      BY <1>21
    <2>3. u \in 1..n /\ f \in 1..n /\ f = c[u].parent /\ path[k] = c[u].pos
      BY <1>22, <1>23, <1>25, <2>1, <2>2
    <2>4. lookupArray[path[k + 1]] = c[f].line
      BY <1>25, <2>1, <2>2
    <2>5. Node(a, c, u) /\ f # 0
      BY <1>1, <2>3
    <2> QED
      BY <1>31, <2>3, <2>4, <2>5 DEF Node
  <1> QED
    BY <1>26, <1>27, <1>28, <1>29, <1>30, <1>31 DEF Path
-----------------------------------------------------------------------------
(* The swaps. *)

(* Along a path the swaps permute the lines: position number k of the path *)
(* gets the line of number k+1, and the last one the victim.               *)
LEMMA SwapsPermute ==
    ASSUME ArrayOK, NEW a, NEW v, NEW path, path = swapArray, Path(path, a, v),
           NEW l, l = Swapped(v)
    PROVE  /\ Permutation(l)
           /\ \A p \in Lines : l[p] = v => Home(a, p)
           /\ \A p \in Lines : l[p] # v /\ array[l[p]] # 0 => Home(array[l[p]], p)
  <1>1. PICK n, old : n = Len(path) /\ old = lookupArray
    OBVIOUS
  <1> DEFINE At(p) == {k \in 1..n : path[k] = p}
  <1>2. /\ path \in Seq(Lines) /\ n \in Nat /\ n >= 1
        /\ DOMAIN path = 1..n /\ \A k \in 1..n : path[k] \in Lines
    BY <1>1 DEF Path
  <1>3. \A k, m \in 1..n : path[k] = path[m] => k = m
    BY <1>1 DEF Path
  <1>4. /\ old[path[1]] = v /\ Home(a, path[n])
        /\ \A k \in 1..(n - 1) : array[old[path[k + 1]]] # 0
                              /\ Home(array[old[path[k + 1]]], path[k])
    BY <1>1 DEF Path
  <1>5. /\ \A p \in Lines : old[p] \in Lines
        /\ \A p, q \in Lines : old[p] = old[q] => p = q
        /\ \A id \in Lines : \E p \in Lines : old[p] = id
        /\ \A p \in Lines : array[old[p]] # 0 => Home(array[old[p]], p)
    BY <1>1 DEF ArrayOK, Permutation
  <1>6. ASSUME NEW p \in Lines, At(p) = {} PROVE l[p] = old[p]
    BY <1>1, <1>2, <1>6 DEF Swapped
  <1>7. ASSUME NEW k \in 1..n PROVE l[path[k]] = IF k = n THEN v ELSE old[path[k + 1]]
    <2>1. At(path[k]) = {k}
      BY <1>3
    <2>2. Max({k}) = k
      BY <1>2 DEF Max
    <2>3. {j \in DOMAIN path : path[j] = path[k]} = {k}
      BY <1>2, <2>1
    <2>4. PICK p \in Lines : p = path[k]
      BY <1>2
    <2>5. l[p] = IF k = n THEN v ELSE old[path[k + 1]]
      BY <1>1, <2>2, <2>3, <2>4 DEF Swapped
    <2> QED
      BY <2>4, <2>5
  <1> HIDE DEF At
  <1>8. \A k \in 1..(n - 1) : k \in 1..n /\ k + 1 \in 1..n /\ k # n
    BY <1>2
  <1>9. \A k \in 1..(n - 1) : l[path[k]] = old[path[k + 1]]
    BY <1>7, <1>8
  <1>10. l[path[n]] = v /\ n \in 1..n /\ 1 \in 1..n
    BY <1>2, <1>7
  <1>11. v \in Lines
    BY <1>2, <1>4, <1>5, <1>10
  <1>12. \A p \in Lines : \/ At(p) = {} /\ \A k \in 1..n : path[k] # p
                          \/ \E k \in 1..(n - 1) : p = path[k]
                          \/ p = path[n]
    <2> SUFFICES ASSUME NEW p \in Lines, NEW k \in 1..n, path[k] = p
                 PROVE  (\E j \in 1..(n - 1) : p = path[j]) \/ p = path[n]
      BY DEF At
    <2>1. CASE k = n
      BY <2>1
    <2>2. CASE k # n
      <3>1. k \in 1..(n - 1)
        BY <1>2, <2>2
      <3> QED
        BY <3>1
    <2> QED
      BY <2>1, <2>2
  <1> DEFINE From(p, q) ==      \* p gets the line that q had
        \/ q = p /\ \A k \in 1..n : path[k] # p
        \/ \E k \in 1..(n - 1) : p = path[k] /\ q = path[k + 1]
        \/ p = path[n] /\ q = path[1]
  <1>13. ASSUME NEW p \in Lines PROVE \E q \in Lines : From(p, q) /\ l[p] = old[q]
    BY <1>2, <1>4, <1>6, <1>8, <1>9, <1>10, <1>12
  <1>14. ASSUME NEW p, NEW q, NEW r, From(p, r), From(q, r) PROVE p = q
    <2>1. \A k \in 1..(n - 1) : k + 1 # 1
      BY <1>2
    <2>2. \A k, m \in 1..(n - 1) : k + 1 = m + 1 => k = m
      BY <1>2
    <2> QED
      BY <1>3, <1>8, <1>10, <1>14, <2>1, <2>2
  <1>15. ASSUME NEW q \in Lines PROVE \E p \in Lines : From(p, q)
    <2>1. CASE \A k \in 1..n : path[k] # q
      BY <2>1
    <2>2. ASSUME NEW k \in 1..n, path[k] = q PROVE \E p \in Lines : From(p, q)
      <3>1. CASE k = 1
        BY <1>2, <1>10, <2>2, <3>1
      <3>2. CASE k # 1
        <4>1. k - 1 \in 1..(n - 1) /\ (k - 1) + 1 = k
          BY <1>2, <3>2
        <4>2. path[k - 1] \in Lines
          BY <1>2, <1>8, <4>1
        <4>3. From(path[k - 1], q)
          BY <2>2, <4>1
        <4> QED
          BY <4>2, <4>3
      <3> QED
        BY <3>1, <3>2
    <2> QED
      BY <2>1, <2>2
  <1>16. ASSUME NEW p \in Lines, NEW q, From(p, q)
         PROVE  /\ old[q] = v => Home(a, p)
                /\ old[q] # v /\ array[old[q]] # 0 => Home(array[old[q]], p)
    <2>1. CASE q = p /\ \A k \in 1..n : path[k] # p
      <3>1. old[p] # v
        BY <1>2, <1>4, <1>5, <1>10, <2>1
      <3> QED
        BY <1>5, <2>1, <3>1
    <2>2. ASSUME NEW k \in 1..(n - 1), p = path[k], q = path[k + 1]
          PROVE  old[q] # v /\ Home(array[old[q]], p)
      <3>1. k + 1 # 1
        BY <1>2
      <3>2. path[k + 1] # path[1]
        BY <1>3, <1>8, <1>10, <3>1
      <3> QED
        BY <1>2, <1>4, <1>5, <1>8, <1>10, <2>2, <3>2
    <2>3. CASE p = path[n] /\ q = path[1]
      BY <1>4, <2>3
    <2> QED
      BY <1>16, <2>1, <2>2, <2>3
  <1> HIDE DEF From
  <1>17. \A p, q \in Lines : l[p] = l[q] => p = q
    <2> SUFFICES ASSUME NEW p \in Lines, NEW q \in Lines, l[p] = l[q] PROVE p = q
      OBVIOUS
    <2>1. PICK r \in Lines : From(p, r) /\ l[p] = old[r]
      BY <1>13
    <2>2. PICK t \in Lines : From(q, t) /\ l[q] = old[t]
      BY <1>13
    <2>3. r = t
      <3>1. old[r] = old[t]
        BY <2>1, <2>2
      <3> QED
        BY <1>5, <3>1
    <2>4. From(p, r) /\ From(q, r)
      BY <2>1, <2>2, <2>3
    <2> QED
      BY <1>14, <2>4
  <1>18. \A id \in Lines : \E p \in Lines : l[p] = id
    <2> SUFFICES ASSUME NEW id \in Lines PROVE \E p \in Lines : l[p] = id
      OBVIOUS
    <2>1. PICK q \in Lines : old[q] = id
      BY <1>5
    <2>2. PICK p \in Lines : From(p, q)
      BY <1>15
    <2>3. PICK r \in Lines : From(p, r) /\ l[p] = old[r]
      BY <1>13
    <2>4. r = q
      <3>1. \A k, m \in 1..(n - 1) : path[k] = path[m] => k = m
        BY <1>3, <1>8
      <3>2. \A k \in 1..(n - 1) : path[k] # path[n]
        BY <1>3, <1>8, <1>10
      <3> QED
        BY <1>8, <1>10, <2>2, <2>3, <3>1, <3>2 DEF From
    <2> QED
      BY <2>1, <2>3, <2>4
  <1>19. l \in [Lines -> Lines]
    <2>1. \A p \in Lines : l[p] \in Lines
      BY <1>5, <1>13
    <2>2. l = [p \in Lines |-> l[p]]
      BY DEF Swapped
    <2> QED
      BY <2>1, <2>2
  <1> QED
    <2>1. Permutation(l)
      BY <1>17, <1>18, <1>19 DEF Permutation
    <2>2. ASSUME NEW p \in Lines
          PROVE  /\ l[p] = v => Home(a, p)
                 /\ l[p] # v /\ array[l[p]] # 0 => Home(array[l[p]], p)
      <3>1. PICK q \in Lines : From(p, q) /\ l[p] = old[q]
        BY <1>13
      <3> QED
        BY <1>16, <3>1
    <2> QED
      BY <2>1, <2>2
-----------------------------------------------------------------------------
(* The replacement. *)

(* LFU goes through the candidates and keeps the better one. *)
Better(lines, k, b) == IF LessThan(lines[k], b) THEN lines[k] ELSE b

(* Its choice is what J says of the last, if J[k] is what passes on from   *)
(* the first k.                                                            *)
LEMMA BestPassesOn ==
    ASSUME policy = "LFU", NEW n \in Nat, NEW lines, Len(lines) = n, NEW J,
           lines[1] \in J[0],
           \A k \in 1..n : \A b \in J[k - 1] : Better(lines, k, b) \in J[k],
           NEW v \in Rank(lines)
    PROVE  v \in J[n]
  <1> DEFINE step == [k \in 1..n |-> [b \in J[k - 1] |-> Better(lines, k, b)]]
             Rest(g) == [k \in 0..n |-> IF k = 0 THEN lines[1] ELSE Better(lines, k, g[k - 1])]
             best == CHOOSE h : h = Rest(h)
  <1>1. \A k \in 1..n : k - 1 \in 0..n /\ k \in 0..n /\ k # 0
    OBVIOUS
  <1>2. \A k \in 0..n : k # 0 => k \in 1..n
    OBVIOUS
  <1>3. \A k \in 1..n : \A b \in J[k - 1] : step[k][b] = Better(lines, k, b)
    OBVIOUS
  <1> HIDE DEF step
  <1>4. \A k \in 1..n : \A b \in J[k - 1] : step[k][b] \in J[k]
    BY <1>3
  <1>5. PICK h : Iterates(h, n, lines[1], step) /\ \A k \in 0..n : h[k] \in J[k]
    BY <1>4, SequenceExists
  <1>6. \A k \in 0..n : k # 0 => step[k][h[k - 1]] = Better(lines, k, h[k - 1])
    BY <1>1, <1>2, <1>3, <1>5
  <1>7. h = Rest(h)
    BY <1>5, <1>6 DEF Iterates
  <1>8. best = Rest(best)
    <2> HIDE DEF Rest
    <2> QED
      BY <1>7
  <1> HIDE DEF best
  <1>9. best[0] = lines[1] /\ \A k \in 1..n : best[k] = Better(lines, k, best[k - 1])
    <2>1. \A k \in 0..n : best[k] = IF k = 0 THEN lines[1] ELSE Better(lines, k, best[k - 1])
      BY <1>8
    <2> HIDE DEF Rest
    <2> QED
      BY <1>1, <2>1
  <1>10. best[0] \in J[0] /\ \A k \in 1..n : best[k - 1] \in J[k - 1] => best[k] \in J[k]
    BY <1>9
  <1>11. \A k \in 0..n : best[k] \in J[k]
    BY <1>10, PassesOn
  <1>12. Rank(lines) = {best[n]}
    BY DEF Rank, best, Rest, Better
  <1> QED
    BY <1>11, <1>12

(* Whatever the policy, its choice is among the candidates. *)
LEMMA RankChooses ==
    ASSUME policy \in {"LRU", "LRUNoSh", "NRU", "LFU", "Rand"},
           NEW lines \in Seq(Lines), Len(lines) >= 1, NEW v \in Rank(lines)
    PROVE  \E j \in 1..Len(lines) : lines[j] = v
  <1>1. DOMAIN lines = 1..Len(lines) /\ Len(lines) \in Nat /\ 1 \in 1..Len(lines)
    OBVIOUS
  <1>2. CASE policy = "LFU"
    <2>1. PICK n, S : n = Len(lines) /\ S = {lines[j] : j \in 1..Len(lines)}
      OBVIOUS
    <2>2. PICK J : J = [k \in 0..n |-> S]
      OBVIOUS
    <2>3. /\ n \in Nat /\ J[0] = S /\ J[n] = S /\ lines[1] \in S
          /\ \A k \in 1..n : J[k - 1] = S /\ J[k] = S /\ lines[k] \in S
      BY <1>1, <2>1, <2>2
    <2>4. \A k \in 1..n : \A b \in J[k - 1] : Better(lines, k, b) \in J[k]
      BY <2>3 DEF Better
    <2>5. v \in J[n]
      BY <1>2, <2>1, <2>3, <2>4, BestPassesOn
    <2> QED
      BY <2>1, <2>3, <2>5
  <1>3. CASE policy \in {"LRU", "LRUNoSh"}
    BY <1>1, <1>3 DEF Rank
  <1>4. CASE policy = "NRU"
    BY <1>1, <1>4 DEF Rank
  <1>5. CASE policy = "Rand"
    BY <1>1, <1>5 DEF Rank, Range
  <1> QED
    BY <1>2, <1>3, <1>4, <1>5

(* What postinsert finds: a path in a zcache, and elsewhere a victim in a  *)
(* position of the address.                                                *)
Planned(path, a, v) ==
    /\ arrayType = "Z" => Path(path, a, v)
    /\ arrayType # "Z" => path = << >> /\ \E p \in Lines : lookupArray[p] = v /\ Home(a, p)

LEMMA PreinsertPlans ==
    ASSUME ArrayOK, policy \in {"LRU", "LRUNoSh", "NRU", "LFU", "Rand"}, NEW a \in Address,
           NEW c, c = WalkCands(a), NEW v \in Rank(CandLines(c)),
           NEW path, path = IF arrayType = "Z" THEN SwapPath(c, v) ELSE << >>
    PROVE  v \in Lines /\ Planned(path, a, v)
  <1>1. Tree(a, c) /\ Len(c) <= Candidates
    BY WalkTree
  <1>2. /\ c \in Seq(Cand) /\ Len(c) \in Nat /\ Len(c) >= 1 /\ Ways \in Nat /\ Ways >= 2
        /\ DOMAIN c = 1..Len(c) /\ \A j \in 1..Len(c) : Node(a, c, j) /\ c[j] \in Cand
    BY <1>1, Sizes DEF Tree
  <1>3. PICK lines : lines = CandLines(c)
    OBVIOUS
  <1>4. lines = [j \in 1..Len(c) |-> c[j].line]
    BY <1>2, <1>3 DEF CandLines
  <1>5. lines \in [1..Len(c) -> Lines]
    BY <1>2, <1>4 DEF Cand
  <1>6. lines \in Seq(Lines) /\ Len(lines) = Len(c)
    BY <1>2, <1>5
  <1>7. Len(lines) >= 1 /\ v \in Rank(lines)
    BY <1>2, <1>3, <1>6
  <1>8. PICK j \in 1..Len(c) : c[j].line = v
    <2>1. PICK k \in 1..Len(lines) : lines[k] = v
      BY <1>6, <1>7, RankChooses
    <2> QED
      BY <1>4, <1>6, <2>1
  <1>9. v \in Lines
    BY <1>2, <1>8 DEF Cand
  <1>10. CASE arrayType = "Z"
    <2> DEFINE T == {k \in 1..Len(c) : c[k].line = v}
    <2>1. T \subseteq Nat /\ T # {}
      BY <1>2, <1>8
    <2>2. Min(T) \in T /\ \A y \in T : Min(T) <= y
      BY <2>1, MinIsLeast
    <2>3. PICK i \in 1..Len(c) : i = Min(T) /\ c[i].line = v
      BY <2>2
    <2>4. First(c, i)
      <3> SUFFICES ASSUME NEW k \in 1..(i - 1), c[k].line = c[i].line PROVE FALSE
        BY DEF First
      <3>1. k \in 1..Len(c) /\ ~(i <= k)
        BY <1>2
      <3>2. k \in T
        BY <2>3, <3>1
      <3> QED
        BY <2>2, <2>3, <3>1, <3>2
    <2>5. path = PathFrom(c, i)
      BY <1>2, <1>10, <2>3 DEF SwapPath
    <2>6. Path(path, a, c[i].line)
      BY <1>1, <2>4, <2>5, PathFound
    <2> QED
      BY <1>9, <1>10, <2>3, <2>6 DEF Planned
  <1>11. CASE arrayType # "Z"
    <2>1. Node(a, c, j) /\ c[j].pos \in Lines
      BY <1>2, <1>8 DEF Cand
    <2>2. Home(a, c[j].pos) /\ lookupArray[c[j].pos] = v
      BY <1>8, <1>11, <2>1 DEF Node
    <2> QED
      BY <1>9, <1>11, <2>1, <2>2 DEF Planned
  <1> QED
    BY <1>10, <1>11

(* The new address takes the victim's line, wherever the swaps put it. *)
LEMMA PostinsertPlaces ==
    ASSUME ArrayOK, NEW a \in Address, NEW v \in Lines,
           NEW path, path = swapArray, Planned(path, a, v),
           \A id \in Lines : array[id] # a,
           UNCHANGED arrayType, array' = [array EXCEPT ![v] = a],
           lookupArray' = IF arrayType = "Z" THEN Swapped(v) ELSE lookupArray
    PROVE  ArrayOK'
  <1>1. PICK l : l = lookupArray'
    OBVIOUS
  <1>2. /\ Permutation(l)
        /\ \A p \in Lines : l[p] = v => Home(a, p)
        /\ \A p \in Lines : l[p] # v /\ array[l[p]] # 0 => Home(array[l[p]], p)
    <2>1. CASE arrayType = "Z"
      <3>1. l = Swapped(v) /\ Path(path, a, v)
        BY <1>1, <2>1 DEF Planned
      <3> QED
        BY <3>1, SwapsPermute
    <2>2. CASE arrayType # "Z"
      <3>1. l = lookupArray
        BY <1>1, <2>2
      <3>2. Permutation(l) /\ \A p \in Lines : array[l[p]] # 0 => Home(array[l[p]], p)
        BY <3>1 DEF ArrayOK
      <3>3. \A p \in Lines : l[p] = v => Home(a, p)
        BY <2>2, <3>1, <3>2 DEF Planned, Permutation
      <3> QED
        BY <3>2, <3>3
    <2> QED
      BY <2>1, <2>2
  <1>3. \A id \in Lines : array'[id] = IF id = v THEN a ELSE array[id]
    BY DEF ArrayOK
  <1>4. array' \in [Lines -> Address \cup {0}]
    BY DEF ArrayOK
  <1>5. \A i, j \in Lines : array'[i] = array'[j] /\ array'[i] # 0 => i = j
    BY <1>3 DEF ArrayOK
  <1>6. \A x, p : Home(x, p)' <=> Home(x, p)
    BY DEF Home, Positions
  <1>7. \A p \in Lines : l[p] \in Lines
    BY <1>2 DEF Permutation
  <1>8. ASSUME NEW p \in Lines, NEW x, x = array'[l[p]], x # 0 PROVE Home(x, p)
    <2>1. CASE l[p] = v
      BY <1>2, <1>3, <1>8, <2>1
    <2>2. CASE l[p] # v
      <3>1. x = array[l[p]]
        BY <1>3, <1>7, <1>8, <2>2
      <3> QED
        BY <1>2, <1>8, <2>2, <3>1
    <2> QED
      BY <2>1, <2>2
  <1>9. \A p \in Lines : array'[lookupArray'[p]] # 0 => Home(array[lookupArray[p]], p)'
    <2> SUFFICES ASSUME NEW p \in Lines, array'[lookupArray'[p]] # 0
                 PROVE  Home(array[lookupArray[p]], p)'
      OBVIOUS
    <2>1. PICK x : x = array'[lookupArray'[p]]
      OBVIOUS
    <2>2. Home(x, p)
      BY <1>1, <1>8, <2>1
    <2>3. Home(x, p)'
      BY <1>6, <2>2
    <2> QED
      BY <2>1, <2>3 DEF Home
  <1>10. Permutation(lookupArray)'
    BY <1>1, <1>2 DEF Permutation, Lines
  <1> QED
    BY <1>4, <1>5, <1>9, <1>10 DEF ArrayOK, Lines

-----------------------------------------------------------------------------
(* What every state satisfies: the array is in order and, while a miss is *)
(* in progress, its address is not cached and its swaps are planned.      *)
IInv ==
    /\ ArrayOK
    /\ policy \in {"LRU", "LRUNoSh", "NRU", "LFU", "Rand"}
    /\ \/ op = Idle /\ swapArray = << >>
       \/ \E a \in Address, v \in Lines, path \in Seq(Lines) :
            /\ op = Evicting(a, v) /\ swapArray = path
            /\ \A id \in Lines : array[id] # a
            /\ Planned(path, a, v)

LEMMA InitOK == Init => IInv
  <1> SUFFICES ASSUME Init PROVE IInv
    OBVIOUS
  <1>1. /\ arrayType \in {"Z", "SetAssoc"} /\ array = [id \in Lines |-> 0]
        /\ lookupArray = [p \in Lines |-> p] /\ swapArray = << >>
    BY DEF Init, ArrayInit
  <1>2. Permutation(lookupArray)
    BY <1>1 DEF Permutation
  <1>3. ArrayOK
    BY <1>1, <1>2 DEF ArrayOK
  <1>4. policy \in {"LRU", "LRUNoSh", "NRU", "LFU", "Rand"} /\ op = Idle
    BY PolicyAssumption DEF Init
  <1> QED
    BY <1>1, <1>3, <1>4 DEF IInv

(* A step that leaves the array alone leaves it, and every plan, in order. *)
LEMMA ArrayStays ==
    ASSUME UNCHANGED <<arrayType, array, lookupArray>>
    PROVE  /\ ArrayOK => ArrayOK'
           /\ \A path, a, v : Planned(path, a, v) => Planned(path, a, v)'
  <1>1. \A x, p : Home(x, p) => Home(x, p)'
    BY DEF Home, Positions
  <1>2. \A path, a, v : Path(path, a, v) => Path(path, a, v)'
    BY DEF Path, Lines, Home, Positions
  <1>3. ArrayOK => ArrayOK'
    BY DEF ArrayOK, Permutation, Lines, Home, Positions
  <1> QED
    BY <1>1, <1>2, <1>3 DEF Planned, Lines

LEMMA IdleOK ==
    ASSUME IInv, UNCHANGED <<arrayVars, policy, op>>
    PROVE  IInv'
  <1>1. UNCHANGED <<arrayType, array, lookupArray, swapArray, policy, op>>
    BY DEF arrayVars
  <1>2. ArrayOK'
    BY <1>1, ArrayStays DEF IInv
  <1>3. CASE op = Idle /\ swapArray = << >>
    BY <1>1, <1>2, <1>3 DEF IInv, Idle
  <1>4. ASSUME NEW a \in Address, NEW v \in Lines, NEW path \in Seq(Lines),
               op = Evicting(a, v), swapArray = path, \A id \in Lines : array[id] # a,
               Planned(path, a, v)
        PROVE  IInv'
    <2>1. Planned(path, a, v)'
      BY <1>1, <1>4, ArrayStays
    <2>2. (op = Evicting(a, v))' /\ (swapArray = path)'
      BY <1>1, <1>4 DEF Evicting
    <2>3. (\A id \in Lines : array[id] # a)' /\ (v \in Lines)' /\ (path \in Seq(Lines))'
      BY <1>1, <1>4 DEF Lines
    <2> QED
      BY <1>1, <1>2, <2>1, <2>2, <2>3 DEF IInv
  <1> QED
    BY <1>3, <1>4 DEF IInv

LEMMA PreinsertOK ==
    ASSUME IInv, NEW a \in Address, Preinsert(a)
    PROVE  IInv'
  <1>1. /\ op = Idle /\ Lookup(a) = -1
        /\ UNCHANGED <<arrayType, array, lookupArray, policy>>
    BY DEF Preinsert
  <1>2. PICK c : c = WalkCands(a)
    OBVIOUS
  <1>3. PICK v \in Rank(CandLines(c)) :
            /\ op' = Evicting(a, v)
            /\ swapArray' = IF arrayType = "Z" THEN SwapPath(c, v) ELSE << >>
    BY <1>2 DEF Preinsert
  <1>4. PICK path : path = swapArray'
    OBVIOUS
  <1>5. ArrayOK /\ policy \in {"LRU", "LRUNoSh", "NRU", "LFU", "Rand"}
    BY DEF IInv
  <1>6. path = IF arrayType = "Z" THEN SwapPath(c, v) ELSE << >>
    BY <1>3, <1>4
  <1>7. v \in Lines /\ Planned(path, a, v)
    BY <1>2, <1>5, <1>6, PreinsertPlans
  <1>8. \A id \in Lines : array[id] # a
    BY <1>1, <1>5, LookupFinds
  <1>9. path \in Seq(Lines)
    <2>1. CASE arrayType = "Z"
      BY <1>7, <2>1 DEF Planned, Path
    <2>2. CASE arrayType # "Z"
      <3>1. path = << >>
        BY <1>7, <2>2 DEF Planned
      <3> QED
        BY <3>1
    <2> QED
      BY <2>1, <2>2
  <1>10. ArrayOK' /\ Planned(path, a, v)'
    BY <1>1, <1>5, <1>7, ArrayStays
  <1>11. (op = Evicting(a, v))' /\ (swapArray = path)'
    BY <1>3, <1>4 DEF Evicting
  <1>12. (\A id \in Lines : array[id] # a)' /\ (v \in Lines)' /\ (path \in Seq(Lines))'
    BY <1>1, <1>7, <1>8, <1>9 DEF Lines
  <1> QED
    BY <1>1, <1>5, <1>10, <1>11, <1>12 DEF IInv

LEMMA PostinsertOK ==
    ASSUME IInv, Postinsert
    PROVE  IInv'
  <1>1. op # Idle
    BY DEF Postinsert, Idle
  <1>2. PICK a \in Address, v \in Lines, path \in Seq(Lines) :
            /\ op = Evicting(a, v) /\ swapArray = path
            /\ \A id \in Lines : array[id] # a
            /\ Planned(path, a, v)
    BY <1>1 DEF IInv
  <1>3. op.addr = a /\ op.victim = v
    BY <1>2 DEF Evicting
  <1>4. ArrayOK /\ policy \in {"LRU", "LRUNoSh", "NRU", "LFU", "Rand"}
    BY DEF IInv
  <1>5. /\ UNCHANGED arrayType /\ array' = [array EXCEPT ![v] = a]
        /\ lookupArray' = IF arrayType = "Z" THEN Swapped(v) ELSE lookupArray
        /\ swapArray' = << >> /\ op' = Idle /\ policy' = policy
    BY <1>3 DEF Postinsert
  <1>6. ArrayOK'
    BY <1>2, <1>4, <1>5, PostinsertPlaces
  <1> QED
    BY <1>4, <1>5, <1>6 DEF IInv, Idle

LEMMA NextOK == IInv /\ [Next]_vars => IInv'
  <1> SUFFICES ASSUME IInv, [Next]_vars PROVE IInv'
    OBVIOUS
  <1>1. ASSUME NEW a \in Address, Hit(a) PROVE IInv'
    BY <1>1, IdleOK DEF Hit
  <1>2. ASSUME NEW a \in Address, Put(a) PROVE IInv'
    BY <1>2, IdleOK DEF Put
  <1>3. ASSUME NEW a \in Address, Preinsert(a) PROVE IInv'
    BY <1>3, PreinsertOK
  <1>4. CASE Postinsert
    BY <1>4, PostinsertOK
  <1>5. ASSUME NEW id \in Lines, Invalidate(id) PROVE IInv'
    BY <1>5, IdleOK DEF Invalidate
  <1>6. CASE UNCHANGED vars
    BY <1>6, IdleOK DEF vars
  <1> QED
    BY <1>1, <1>2, <1>3, <1>4, <1>5, <1>6 DEF Next

LEMMA IInvReachable == IInv => LinesReachable
  <1> SUFFICES ASSUME IInv PROVE LinesReachable
    OBVIOUS
  <1>1. ArrayOK
    BY DEF IInv
  <1>2. \A id \in Lines : array[id] # 0 => Lookup(array[id]) = id
    BY <1>1, LookupFinds
  <1>3. \A id \in Lines : \E p \in Lines : lookupArray[p] = id
    BY <1>1 DEF ArrayOK, Permutation
  <1>4. Candidates \div Ways \in Nat
    <2>1. Ways \in Nat \ {0} /\ Candidates \in Nat /\ 0 \in Nat /\ Ways * 0 <= Candidates
      BY Sizes
    <2> QED
      BY <2>1, DivBound
  <1>5. Len(swapArray) <= Candidates \div Ways + 2
    <2>1. CASE swapArray = << >>
      BY <1>4, <2>1
    <2>2. CASE swapArray # << >>
      <3>1. PICK a, v, path : swapArray = path /\ Path(path, a, v)
        BY <2>2 DEF IInv, Planned
      <3> QED
        BY <1>4, <3>1 DEF Path
    <2> QED
      BY <2>1, <2>2
  <1> QED
    BY <1>2, <1>3, <1>5 DEF LinesReachable

(* Whatever hits, misses, evictions and invalidations come in whatever     *)
(* order, under every policy: the swaps of ZArray::postinsert leave every  *)
(* filled line where ZArray::lookup finds it and no position twice, and    *)
(* the path of ZArray::preinsert fits the swapArray of the constructor.    *)
(* With a walk that meets a line more than once this is so only because    *)
(* preinsert goes back from the first candidate with the victim's line.    *)
THEOREM NoLineLost == Spec => []LinesReachable
  <1>1. Init => IInv
    BY InitOK
  <1>2. IInv /\ [Next]_vars => IInv'
    BY NextOK
  <1>3. IInv => LinesReachable
    BY IInvReachable
  <1> QED
    BY <1>1, <1>2, <1>3, PTL DEF Spec
-----------------------------------------------------------------------------
(* The victim. *)

(* LRU's fields agree with the history: what is valid has been filled, an  *)
(* invalid line is not shared, and of two filled lines the one that was    *)
(* used since the other has the higher time stamp.                         *)
CCOK ==
    /\ cc \in [Lines -> [valid : BOOLEAN, sharers : Nat]]
    /\ \A id \in Lines : /\ cc[id].valid => array[id] # 0
                         /\ ~cc[id].valid => cc[id].sharers = 0

LruOK ==
    policy \in {"LRU", "LRUNoSh"} =>
        /\ rp.timestamp \in Nat
        /\ DOMAIN rp = {"timestamp", "youngLines", "val", "acc"}
        /\ rp.val \in [Lines -> Nat]
        /\ since \in [Address -> SUBSET Address]
        /\ \A id \in Lines : /\ rp.val[id] < rp.timestamp
                             /\ array[id] # 0 => rp.val[id] > 0
        /\ \A i, j \in Lines : array[i] # 0 /\ array[j] # 0 /\ array[j] \in since[array[i]]
                               => rp.val[i] < rp.val[j]

AgeInv == IInv /\ CCOK /\ LruOK

LEMMA InitAge == Init => AgeInv
  <1> SUFFICES ASSUME Init PROVE AgeInv
    OBVIOUS
  <1>1. IInv
    BY InitOK
  <1>2. CCOK
    BY DEF Init, CCOK, Invalid
  <1>3. LruOK
    BY DEF Init, ArrayInit, LruOK
  <1> QED
    BY <1>1, <1>2, <1>3 DEF AgeInv

(* The line of an access is stamped; addresses are in one line each. *)
LEMMA UseAges ==
    ASSUME LruOK, policy \in {"LRU", "LRUNoSh"}, policy' = policy,
           NEW id \in Lines, NEW a \in Address,
           array' \in [Lines -> Address \cup {0}], array'[id] = a,
           \A j \in Lines : j # id => array'[j] = array[j] /\ array[j] # a,
           rp' = UpdateLRU([rp EXCEPT !.val[id] = 0], id) \/ rp' = UpdateLRU(rp, id),
           since' = [b \in Address |-> IF b = a THEN {} ELSE since[b] \union {a}]
    PROVE  LruOK'
  <1>0. Lines' = Lines /\ 0 \notin Address
    BY Sizes DEF Lines
  <1>1. /\ rp.timestamp \in Nat
        /\ DOMAIN rp = {"timestamp", "youngLines", "val", "acc"}
        /\ rp.val \in [Lines -> Nat] /\ since \in [Address -> SUBSET Address]
        /\ \A j \in Lines : rp.val[j] < rp.timestamp /\ (array[j] # 0 => rp.val[j] > 0)
    BY DEF LruOK
  <1>2. \A i, j \in Lines : array[i] # 0 /\ array[j] # 0 /\ array[j] \in since[array[i]]
                            => rp.val[i] < rp.val[j]
    BY DEF LruOK
  <1>3. /\ rp'.timestamp = rp.timestamp + 1
        /\ DOMAIN rp' = {"timestamp", "youngLines", "val", "acc"}
        /\ rp'.val = [rp.val EXCEPT ![id] = rp.timestamp]
    <2>1. PICK r : /\ r = rp \/ r = [rp EXCEPT !.val[id] = 0]
                   /\ rp' = UpdateLRU(r, id)
      OBVIOUS
    <2>2. /\ r.timestamp = rp.timestamp
          /\ DOMAIN r = {"timestamp", "youngLines", "val", "acc"}
      BY <1>1, <2>1
    <2>3. r.val = rp.val \/ r.val = [rp.val EXCEPT ![id] = 0]
      BY <1>1, <2>1
    <2>4. /\ rp'.timestamp = r.timestamp + 1
          /\ DOMAIN rp' = {"timestamp", "youngLines", "val", "acc"}
          /\ rp'.val = [r.val EXCEPT ![id] = r.timestamp]
      <3>1. rp' = [r EXCEPT !.val[id] = r.timestamp, !.timestamp = r.timestamp + 1]
        BY <2>1 DEF UpdateLRU
      <3> QED
        BY <2>2, <3>1
    <2>5. [r.val EXCEPT ![id] = r.timestamp] = [rp.val EXCEPT ![id] = rp.timestamp]
      BY <1>1, <2>2, <2>3
    <2> QED
      BY <2>2, <2>4, <2>5
  <1>4. /\ rp'.val \in [Lines -> Nat] /\ rp'.val[id] = rp.timestamp
        /\ \A j \in Lines : j # id => rp'.val[j] = rp.val[j]
    BY <1>1, <1>3
  <1>5. since' \in [Address -> SUBSET Address]
    BY <1>1
  <1>6. ASSUME NEW j \in Lines
        PROVE  rp'.val[j] < rp'.timestamp /\ (array'[j] # 0 => rp'.val[j] > 0)
    <2>1. CASE j = id
      <3>1. rp.val[id] \in Nat /\ rp.val[id] < rp.timestamp
        BY <1>1
      <3> QED
        BY <1>1, <1>3, <1>4, <2>1, <3>1
    <2>2. CASE j # id
      <3>1. rp.val[j] \in Nat
        BY <1>1
      <3> QED
        BY <1>1, <1>3, <1>4, <2>2, <3>1
    <2> QED
      BY <2>1, <2>2
  <1>7. ASSUME NEW i \in Lines, NEW j \in Lines, array'[i] # 0, array'[j] # 0,
               array'[j] \in since'[array'[i]]
        PROVE  rp'.val[i] < rp'.val[j]
    <2>1. array'[i] \in Address /\ array'[j] \in Address
      BY <1>7
    <2>2. array'[i] # a /\ i # id
      BY <1>7, <2>1
    <2>3. CASE j = id
      BY <1>1, <1>4, <2>2, <2>3
    <2>4. CASE j # id
      <3>1. array'[i] = array[i] /\ array'[j] = array[j] /\ array[j] # a
        BY <2>2, <2>4
      <3>2. array[j] \in since[array[i]]
        BY <1>7, <2>1, <2>2, <3>1
      <3>3. rp.val[i] < rp.val[j]
        BY <1>2, <1>7, <3>1, <3>2
      <3> QED
        BY <1>4, <2>2, <2>4, <3>3
    <2> QED
      BY <2>3, <2>4
  <1> QED
    BY <1>0, <1>1, <1>3, <1>4, <1>5, <1>6, <1>7 DEF LruOK
LEMMA LookupHits ==
    ASSUME ArrayOK, NEW a \in Address, Lookup(a) # -1
    PROVE  Lookup(a) \in Lines /\ array[Lookup(a)] = a
  <1> DEFINE W == {i \in 1..Ways : array[lookupArray[Positions(a)[i]]] = a}
  <1>1. W # {} /\ W \subseteq Nat
    BY DEF Lookup
  <1>2. Min(W) \in W
    BY <1>1, MinIsLeast
  <1>3. PICK i \in 1..Ways : i = Min(W) /\ array[lookupArray[Positions(a)[i]]] = a
    BY <1>2
  <1>4. Lookup(a) = lookupArray[Positions(a)[i]]
    BY <1>1, <1>3 DEF Lookup
  <1>5. Positions(a)[i] \in Lines
    BY PositionsExist DEF ArrayOK
  <1>6. lookupArray[Positions(a)[i]] \in Lines
    BY <1>5 DEF ArrayOK, Permutation
  <1> QED
    BY <1>3, <1>4, <1>6

LEMMA AnswersOK ==
    ASSUME NEW ans \in Answers
    PROVE  ans \in [valid : BOOLEAN, sharers : Nat] /\ (~ans.valid => ans.sharers = 0)
  <1>1. MaxSharers \in Nat
    BY PolicyAssumption
  <1>2. CASE policy \in {"LRU", "LFU"}
    <2>1. Answers = {[valid |-> TRUE, sharers |-> s] : s \in 0..MaxSharers}
      BY <1>2 DEF Answers
    <2>2. PICK s \in 0..MaxSharers : ans = [valid |-> TRUE, sharers |-> s]
      BY <2>1
    <2> QED
      BY <1>1, <2>2
  <1>3. CASE policy = "LRUNoSh"
    <2>1. Answers = {[valid |-> TRUE, sharers |-> 0]}
      BY <1>3 DEF Answers
    <2>2. ans = [valid |-> TRUE, sharers |-> 0]
      BY <2>1
    <2> QED
      BY <2>2
  <1>4. CASE policy \notin {"LRU", "LFU", "LRUNoSh"}
    <2>1. ans = Invalid
      BY <1>4 DEF Answers
    <2> QED
      BY <2>1 DEF Invalid
  <1> QED
    BY <1>2, <1>3, <1>4

(* What a step sets the answers of a line to. *)
LEMMA SetsCC ==
    ASSUME CCOK, NEW id \in Lines, NEW ans \in [valid : BOOLEAN, sharers : Nat],
           cc' = [cc EXCEPT ![id] = ans], ~ans.valid => ans.sharers = 0,
           ans.valid => array'[id] # 0,
           \A j \in Lines : j # id => array'[j] = array[j]
    PROVE  CCOK'
  <1>1. /\ cc' \in [Lines -> [valid : BOOLEAN, sharers : Nat]] /\ cc'[id] = ans
        /\ \A j \in Lines : j # id => cc'[j] = cc[j]
    BY DEF CCOK
  <1> QED
    BY <1>1 DEF CCOK, Lines

LEMMA LruStays ==
    ASSUME LruOK, UNCHANGED <<array, policy, rp, since>>
    PROVE  LruOK'
  BY DEF LruOK, Lines

(* An access that leaves its address a in line id. *)
LEMMA AccessAges ==
    ASSUME IInv, CCOK, LruOK, policy' = policy, NEW id \in Lines, NEW a \in Address,
           array' = [array EXCEPT ![id] = a], \A j \in Lines : j # id => array[j] # a,
           \E ans \in Answers : cc' = [cc EXCEPT ![id] = ans],
           rp' = Update(rp, id) \/ rp' = Update(Replaced(rp, id), id),
           since' = Touched(a)
    PROVE  CCOK' /\ LruOK'
  <1>1. array \in [Lines -> Address \cup {0}] /\ a # 0
    BY Sizes DEF IInv, ArrayOK
  <1>2. /\ array' \in [Lines -> Address \cup {0}] /\ array'[id] = a
        /\ \A j \in Lines : j # id => array'[j] = array[j] /\ array[j] # a
    BY <1>1
  <1>3. CCOK'
    <2>1. PICK ans \in Answers : cc' = [cc EXCEPT ![id] = ans]
      OBVIOUS
    <2>2. ans \in [valid : BOOLEAN, sharers : Nat] /\ (~ans.valid => ans.sharers = 0)
      BY AnswersOK
    <2> QED
      BY <1>1, <1>2, <2>1, <2>2, SetsCC
  <1>4. LruOK'
    <2>1. CASE policy \in {"LRU", "LRUNoSh"}
      <3>1. rp' = UpdateLRU([rp EXCEPT !.val[id] = 0], id) \/ rp' = UpdateLRU(rp, id)
        BY <2>1 DEF Update, Replaced
      <3>2. since' = [b \in Address |-> IF b = a THEN {} ELSE since[b] \union {a}]
        BY <2>1 DEF Touched
      <3>3. array' \in [Lines -> Address \cup {0}]
        BY <1>2
      <3>4. array'[id] = a
        BY <1>2
      <3>5. \A j \in Lines : j # id => array'[j] = array[j] /\ array[j] # a
        BY <1>2
      <3> QED
        BY <2>1, <3>1, <3>2, <3>3, <3>4, <3>5, UseAges, ZenonT(30)
    <2>2. CASE policy \notin {"LRU", "LRUNoSh"}
      BY <2>2 DEF LruOK
    <2> QED
      BY <2>1, <2>2
  <1> QED
    BY <1>3, <1>4

LEMMA NextAge == AgeInv /\ [Next]_vars => AgeInv'
  <1> SUFFICES ASSUME AgeInv, [Next]_vars PROVE AgeInv'
    OBVIOUS
  <1>0. /\ IInv /\ CCOK /\ LruOK /\ ArrayOK /\ IInv'
        /\ array \in [Lines -> Address \cup {0}]
    BY NextOK DEF AgeInv, IInv, ArrayOK
  <1>1. ASSUME NEW a \in Address, Hit(a) PROVE CCOK' /\ LruOK'
    <2>1. PICK id : id = Lookup(a)
      OBVIOUS
    <2>2. id \in Lines /\ array[id] = a
      BY <1>0, <1>1, <2>1, LookupHits DEF Hit
    <2>3. a # 0
      BY Sizes
    <2>4. \A j \in Lines : j # id => array[j] # a
      BY <1>0, <2>2, <2>3 DEF ArrayOK
    <2>5. array' = [array EXCEPT ![id] = a]
      BY <1>0, <1>1, <2>2 DEF Hit, arrayVars
    <2>6. /\ policy' = policy /\ since' = Touched(a) /\ rp' = Update(rp, id)
          /\ \E ans \in Answers : cc' = [cc EXCEPT ![id] = ans]
      BY <1>1, <2>1 DEF Hit
    <2> QED
      BY <1>0, <2>2, <2>4, <2>5, <2>6, AccessAges
  <1>2. ASSUME NEW a \in Address, Put(a) PROVE CCOK' /\ LruOK'
    <2>1. PICK id : id = Lookup(a)
      OBVIOUS
    <2>2. id \in Lines
      BY <1>0, <1>2, <2>1, LookupHits DEF Put
    <2>3. PICK n \in Nat : n = cc[id].sharers /\ n > 0 /\ cc[id].valid
                           /\ cc[id] \in [valid : BOOLEAN, sharers : Nat] /\ array[id] # 0
      BY <1>0, <1>2, <2>1, <2>2 DEF Put, CCOK
    <2>4. PICK ans : ans = [cc[id] EXCEPT !.sharers = n - 1]
      OBVIOUS
    <2>5. cc' = [cc EXCEPT ![id] = ans] /\ UNCHANGED <<array, policy, rp, since>>
      BY <1>2, <2>1, <2>3, <2>4 DEF Put, arrayVars
    <2>6. ans \in [valid : BOOLEAN, sharers : Nat] /\ ans.valid
      BY <2>3, <2>4
    <2>7. CCOK'
      BY <1>0, <2>2, <2>3, <2>5, <2>6, SetsCC
    <2> QED
      BY <1>0, <2>5, <2>7, LruStays
  <1>3. ASSUME NEW id \in Lines, cc' = [cc EXCEPT ![id] = Invalid],
               UNCHANGED <<array, policy, rp, since>>
        PROVE  CCOK' /\ LruOK'
    <2>1. PICK ans : ans = Invalid
      OBVIOUS
    <2>2. ans \in [valid : BOOLEAN, sharers : Nat] /\ ~ans.valid /\ ans.sharers = 0
      BY <2>1 DEF Invalid
    <2>3. CCOK'
      BY <1>0, <1>3, <2>1, <2>2, SetsCC
    <2> QED
      BY <1>0, <1>3, <2>3, LruStays
  <1>4. ASSUME NEW a \in Address, Preinsert(a) PROVE CCOK' /\ LruOK'
    <2>1. PICK c : c = WalkCands(a)
      OBVIOUS
    <2>2. PICK v \in Rank(CandLines(c)) : cc' = [cc EXCEPT ![v] = Invalid]
      BY <1>4, <2>1 DEF Preinsert
    <2>3. policy \in {"LRU", "LRUNoSh", "NRU", "LFU", "Rand"}
      BY <1>0 DEF IInv
    <2>4. PICK path : path = IF arrayType = "Z" THEN SwapPath(c, v) ELSE << >>
      OBVIOUS
    <2>5. v \in Lines
      BY <1>0, <2>1, <2>3, <2>4, PreinsertPlans
    <2> QED
      BY <1>3, <1>4, <2>2, <2>5 DEF Preinsert
  <1>5. ASSUME Postinsert PROVE CCOK' /\ LruOK'
    <2>1. op # Idle
      BY <1>5 DEF Postinsert, Idle
    <2>2. PICK a \in Address, v \in Lines :
              op = Evicting(a, v) /\ \A id \in Lines : array[id] # a
      BY <1>0, <2>1 DEF IInv
    <2>3. op.addr = a /\ op.victim = v
      BY <2>2 DEF Evicting
    <2>4. /\ policy' = policy /\ since' = Touched(a) /\ rp' = Update(Replaced(rp, v), v)
          /\ array' = [array EXCEPT ![v] = a]
          /\ \E ans \in Answers : cc' = [cc EXCEPT ![v] = ans]
      BY <1>5, <2>3 DEF Postinsert
    <2> QED
      BY <1>0, <2>2, <2>4, AccessAges
  <1>6. ASSUME NEW id \in Lines, Invalidate(id) PROVE CCOK' /\ LruOK'
    BY <1>3, <1>6 DEF Invalidate, arrayVars
  <1>7. ASSUME UNCHANGED vars PROVE CCOK' /\ LruOK'
    <2>1. UNCHANGED <<array, policy, rp, cc, since>>
      BY <1>7 DEF vars, arrayVars
    <2>2. CCOK'
      BY <1>0, <2>1 DEF CCOK, Lines
    <2> QED
      BY <1>0, <2>1, <2>2, LruStays
  <1> QED
    BY <1>0, <1>1, <1>2, <1>4, <1>5, <1>6, <1>7 DEF Next, AgeInv
(* The values that LRU compares order the lines by their worth. *)
LEMMA ScoreOrders ==
    ASSUME AgeInv, policy \in {"LRU", "LRUNoSh"}, NEW i \in Lines, NEW j \in Lines
    PROVE  /\ FullScore(i) \in Nat
           /\ WorthLess(i, j) => FullScore(i) < FullScore(j)
  <1>1. PICK si, sj, vi, vj, t :
            /\ si = (IF policy = "LRU" THEN cc[i].sharers ELSE 0)
            /\ sj = (IF policy = "LRU" THEN cc[j].sharers ELSE 0)
            /\ vi = rp.val[i] /\ vj = rp.val[j] /\ t = rp.timestamp
    OBVIOUS
  <1>2. /\ si \in Nat /\ sj \in Nat /\ (~cc[i].valid => si = 0)
        /\ (cc[i].valid => array[i] # 0) /\ (cc[j].valid => array[j] # 0)
    BY <1>1 DEF AgeInv, CCOK
  <1>3. /\ t \in Nat /\ vi \in Nat /\ vj \in Nat /\ vi < t /\ vj < t
        /\ array[j] # 0 => vj > 0
        /\ array[i] # 0 /\ array[j] # 0 /\ array[j] \in since[array[i]] => vi < vj
    BY <1>1 DEF AgeInv, LruOK
  <1>4. /\ FullScore(i) = si * t + (IF cc[i].valid THEN vi ELSE 0)
        /\ FullScore(j) = sj * t + (IF cc[j].valid THEN vj ELSE 0)
    BY <1>1 DEF FullScore
  <1>5. si * t \in Nat /\ sj * t \in Nat
    BY <1>2, <1>3
  <1>6. FullScore(i) \in Nat
    BY <1>3, <1>4, <1>5
  <1>7. ASSUME WorthLess(i, j) PROVE FullScore(i) < FullScore(j)
    <2>1. cc[j].valid /\ FullScore(j) = sj * t + vj /\ vj > 0
      BY <1>2, <1>3, <1>4, <1>7 DEF WorthLess
    <2>2. CASE ~cc[i].valid
      <3>1. FullScore(i) = 0
        BY <1>2, <1>3, <1>4, <2>2
      <3> QED
        BY <1>3, <1>5, <2>1, <3>1
    <2>3. CASE cc[i].valid /\ si < sj
      <3>1. (si + 1) * t <= sj * t
        BY <1>2, <1>3, <2>3
      <3>2. (si + 1) * t = si * t + t
        BY <1>2, <1>3
      <3> QED
        BY <1>3, <1>4, <1>5, <2>1, <2>3, <3>1, <3>2
    <2>4. CASE cc[i].valid /\ si = sj /\ array[j] \in since[array[i]]
      <3>1. vi < vj
        BY <1>2, <1>3, <2>1, <2>4
      <3> QED
        BY <1>3, <1>4, <1>5, <2>1, <2>4, <3>1
    <2> QED
      BY <1>1, <1>7, <2>2, <2>3, <2>4 DEF WorthLess
  <1> QED
    BY <1>6, <1>7

(* LFU's worth of a line is whether it is valid and whether it is shared. *)
LEMMA LfuWorth ==
    ASSUME AgeInv, policy = "LFU"
    PROVE  /\ \A x \in Lines : /\ cc[x].sharers \in Nat /\ cc[x].valid \in BOOLEAN
                               /\ ~cc[x].valid => cc[x].sharers = 0
           /\ \A x, y \in Lines : WorthLess(x, y) <=>
                  /\ cc[y].valid
                  /\ ~cc[x].valid \/ (cc[x].sharers = 0 /\ cc[y].sharers # 0)
  <1>1. \A n \in Nat : Min({1, n}) = IF n = 0 THEN 0 ELSE 1
    <2> SUFFICES ASSUME NEW n \in Nat PROVE Min({1, n}) = IF n = 0 THEN 0 ELSE 1
      OBVIOUS
    <2>1. {1, n} \subseteq Nat /\ {1, n} # {}
      OBVIOUS
    <2>2. Min({1, n}) \in {1, n} /\ \A y \in {1, n} : Min({1, n}) <= y
      BY <2>1, MinIsLeast
    <2> QED
      BY <2>2
  <1>2. \A x \in Lines : /\ cc[x].sharers \in Nat /\ cc[x].valid \in BOOLEAN
                         /\ ~cc[x].valid => cc[x].sharers = 0
    BY DEF AgeInv, CCOK
  <1> QED
    BY <1>1, <1>2 DEF WorthLess

(* LessThan compares the worths first, and of three lines, if the first is *)
(* worth less than the last, the one between differs from one of them.     *)
LEMMA LessThanOrders ==
    ASSUME AgeInv, policy = "LFU", NEW i \in Lines, NEW j \in Lines
    PROVE  /\ WorthLess(i, j) => LessThan(i, j)
           /\ WorthLess(j, i) => ~LessThan(i, j)
           /\ \A k \in Lines : WorthLess(i, j) => WorthLess(i, k) \/ WorthLess(k, j)
  <1>1. /\ \A x \in Lines : /\ cc[x].sharers \in Nat /\ cc[x].valid \in BOOLEAN
                            /\ ~cc[x].valid => cc[x].sharers = 0
        /\ \A x, y \in Lines : WorthLess(x, y) <=>
               /\ cc[y].valid
               /\ ~cc[x].valid \/ (cc[x].sharers = 0 /\ cc[y].sharers # 0)
    BY LfuWorth
  <1>2. PICK s, t : s = cc[i].sharers /\ t = cc[j].sharers
    OBVIOUS
  <1>3. /\ s \in Nat /\ t \in Nat /\ cc[i].valid \in BOOLEAN /\ cc[j].valid \in BOOLEAN
        /\ (~cc[i].valid => s = 0) /\ (~cc[j].valid => t = 0)
    BY <1>1, <1>2
  <1>4. ASSUME WorthLess(i, j) PROVE LessThan(i, j)
    <2>1. cc[j].valid /\ (~cc[i].valid \/ (s = 0 /\ t # 0))
      BY <1>1, <1>2, <1>4
    <2>2. CASE ~cc[i].valid
      BY <2>1, <2>2, Zenon DEF LessThan
    <2>3. CASE cc[i].valid
      <3>1. cc[i].valid = TRUE /\ cc[j].valid = TRUE
        BY <1>3, <2>1, <2>3
      <3>2. cc[i].valid = cc[j].valid
        BY <3>1
      <3>3. cc[i].sharers = 0 /\ cc[j].sharers > 0
        BY <1>2, <1>3, <2>1, <2>3
      <3> QED
        BY <3>2, <3>3, Zenon DEF LessThan
    <2> QED
      BY <2>2, <2>3
  <1>5. ASSUME WorthLess(j, i) PROVE ~LessThan(i, j)
    <2>1. cc[i].valid /\ (~cc[j].valid \/ (t = 0 /\ s # 0))
      BY <1>1, <1>2, <1>5
    <2> QED
      BY <1>2, <1>3, <2>1 DEF LessThan
  <1>6. \A k \in Lines : WorthLess(i, j) => WorthLess(i, k) \/ WorthLess(k, j)
    BY <1>1
  <1> QED
    BY <1>4, <1>5, <1>6

(* The victim is worth least among the candidates. *)
LEMMA LruChoosesLeast ==
    ASSUME AgeInv, policy \in {"LRU", "LRUNoSh"}, NEW lines \in Seq(Lines),
           \A i \in 1..Len(lines) : FullScore(lines[i]) < ScoreRange,
           NEW v \in Rank(lines), NEW j \in 1..Len(lines)
    PROVE  ~WorthLess(lines[j], v)
  <1>1. DOMAIN lines = 1..Len(lines) /\ \A i \in 1..Len(lines) : lines[i] \in Lines
    OBVIOUS
  <1>2. PICK i \in 1..Len(lines) :
            v = lines[i] /\ \A k \in 1..Len(lines) : Score(lines[i]) <= Score(lines[k])
    BY <1>1 DEF Rank
  <1>3. ASSUME NEW k \in 1..Len(lines)
        PROVE  Score(lines[k]) = FullScore(lines[k]) /\ FullScore(lines[k]) \in Nat
    <2>1. PICK x, m : x = FullScore(lines[k]) /\ m = ScoreRange
      OBVIOUS
    <2>2. x \in Nat /\ x < m /\ m \in Nat \ {0}
      BY <1>1, <2>1, ScoreOrders, PolicyAssumption
    <2>3. x % m = x
      BY <2>2
    <2> QED
      BY <2>1, <2>2, <2>3 DEF Score
  <1>4. FullScore(lines[i]) <= FullScore(lines[j])
    BY <1>2, <1>3
  <1> SUFFICES ASSUME WorthLess(lines[j], lines[i]) PROVE FALSE
    BY <1>2
  <1>5. FullScore(lines[j]) < FullScore(lines[i])
    BY <1>1, ScoreOrders
  <1> QED
    BY <1>3, <1>4, <1>5

LEMMA LfuChoosesLeast ==
    ASSUME AgeInv, policy = "LFU", NEW lines \in Seq(Lines), Len(lines) >= 1,
           NEW v \in Rank(lines), NEW j \in 1..Len(lines)
    PROVE  ~WorthLess(lines[j], v)
  <1>1. PICK n : n = Len(lines)
    OBVIOUS
  <1>2. n \in Nat /\ n >= 1 /\ \A i \in 1..n : lines[i] \in Lines
    BY <1>1
  <1>3. PICK J : J = [k \in 0..n |-> {b \in Lines : \A m \in 1..k : ~WorthLess(lines[m], b)}]
    OBVIOUS
  <1>4. \A k \in 0..n : \A b : b \in J[k] <=>
            b \in Lines /\ \A m \in 1..k : ~WorthLess(lines[m], b)
    BY <1>3
  <1>5. 0 \in 0..n /\ n \in 0..n /\ 1 \in 1..n /\ \A m \in 1..0 : FALSE
    BY <1>2
  <1>6. lines[1] \in J[0]
    BY <1>2, <1>4, <1>5
  <1>7. ASSUME NEW k \in 1..n, NEW b \in J[k - 1] PROVE Better(lines, k, b) \in J[k]
    <2>1. PICK x : x = lines[k]
      OBVIOUS
    <2>2. k - 1 \in 0..n /\ k \in 0..n /\ \A m \in 1..k : m # k => m \in 1..(k - 1)
      BY <1>2
    <2>3. b \in Lines /\ x \in Lines /\ \A m \in 1..(k - 1) : ~WorthLess(lines[m], b)
      BY <1>2, <1>4, <1>7, <2>1, <2>2
    <2>4. \A m \in 1..k : lines[m] \in Lines
      BY <1>2
    <2>5. ~WorthLess(x, x)
      BY <2>3, LfuWorth
    <2>6. CASE LessThan(x, b)
      <3>1. Better(lines, k, b) = x
        BY <2>1, <2>6 DEF Better
      <3>2. ~WorthLess(b, x)
        BY <2>3, <2>6, LessThanOrders
      <3>3. ASSUME NEW m \in 1..(k - 1), m \in 1..k PROVE ~WorthLess(lines[m], x)
        BY <2>3, <2>4, <3>2, <3>3, LessThanOrders
      <3>4. \A m \in 1..k : ~WorthLess(lines[m], x)
        BY <2>1, <2>2, <2>5, <3>3
      <3> QED
        BY <1>4, <2>2, <2>3, <3>1, <3>4
    <2>7. CASE ~LessThan(x, b)
      <3>1. Better(lines, k, b) = b
        BY <2>1, <2>7 DEF Better
      <3>2. ~WorthLess(x, b)
        BY <2>3, <2>7, LessThanOrders
      <3>3. \A m \in 1..k : ~WorthLess(lines[m], b)
        BY <2>1, <2>2, <2>3, <3>2
      <3> QED
        BY <1>4, <2>2, <2>3, <3>1, <3>3
    <2> QED
      BY <2>6, <2>7
  <1>8. \A k \in 1..n : \A b \in J[k - 1] : Better(lines, k, b) \in J[k]
    BY <1>7
  <1>9. v \in J[n]
    BY <1>1, <1>2, <1>6, <1>8, BestPassesOn
  <1> QED
    BY <1>1, <1>4, <1>5, <1>9

(* A step that chooses a victim is a preinsert, and chooses the one of its *)
(* candidates that is worth least.                                         *)
LEMMA StepChoosesLeast ==
    ASSUME AgeInv, [Next]_vars, op.at = "idle", op'.at = "evict",
           policy \in {"LRU", "LRUNoSh", "LFU"},
           NEW L, L = Range(CandLines(WalkCands(op'.addr))),
           policy # "LFU" => \A id \in L : FullScore(id) < ScoreRange,
           NEW id \in L
    PROVE  ~WorthLess(id, op'.victim)
  <1>1. PICK a \in Address : Preinsert(a)
    <2>1. op' # op /\ op' # Idle
      BY DEF Idle
    <2> QED
      BY <2>1 DEF Next, vars, Hit, Put, Postinsert, Invalidate
  <1>2. PICK c : c = WalkCands(a)
    OBVIOUS
  <1>3. PICK lines, v : lines = CandLines(c) /\ v \in Rank(lines) /\ op' = Evicting(a, v)
    BY <1>1, <1>2 DEF Preinsert
  <1>4. op'.addr = a /\ op'.victim = v
    BY <1>3 DEF Evicting
  <1>5. Tree(a, c)
    BY <1>2, WalkTree DEF AgeInv, IInv
  <1>6. /\ c \in Seq(Cand) /\ Len(c) \in Nat /\ Len(c) >= 1 /\ DOMAIN c = 1..Len(c)
        /\ \A j \in 1..Len(c) : c[j] \in Cand
    BY <1>5, Sizes DEF Tree
  <1>7. lines = [j \in 1..Len(c) |-> c[j].line]
    BY <1>3, <1>6 DEF CandLines
  <1>8. lines \in [1..Len(c) -> Lines]
    BY <1>6, <1>7 DEF Cand
  <1>9. lines \in Seq(Lines) /\ Len(lines) = Len(c) /\ DOMAIN lines = 1..Len(lines)
    BY <1>6, <1>8
  <1>10. L = {lines[j] : j \in 1..Len(lines)}
    BY <1>2, <1>3, <1>4, <1>9 DEF Range
  <1>11. PICK j \in 1..Len(lines) : id = lines[j]
    BY <1>10
  <1>12. CASE policy = "LFU"
    <2>1. ~WorthLess(lines[j], v)
      BY <1>3, <1>6, <1>9, <1>12, LfuChoosesLeast
    <2> QED
      BY <1>4, <1>11, <2>1
  <1>13. CASE policy \in {"LRU", "LRUNoSh"}
    <2>1. \A i \in 1..Len(lines) : FullScore(lines[i]) < ScoreRange
      BY <1>10, <1>13
    <2>2. ~WorthLess(lines[j], v)
      BY <1>3, <1>9, <1>13, <2>1, LruChoosesLeast
    <2> QED
      BY <1>4, <1>11, <2>2
  <1> QED
    BY <1>12, <1>13

(* Through any interleaving of hits, PUTs, invalidations and evictions,    *)
(* LRUReplPolicy and LFUReplPolicy never evict a candidate of the walk     *)
(* while another one is worth less: invalid, less shared or, under LRU,    *)
(* not used since.  For LRU this is so as long as the 64-bit scores fit    *)
(* the 32-bit variable in which rank compares them.                        *)
THEOREM VictimsLeastUsed == Spec => VictimLeastUsed
  <1>1. Init => AgeInv
    BY InitAge
  <1>2. AgeInv /\ [Next]_vars => AgeInv'
    BY NextAge
  <1>3. AgeInv /\ [Next]_vars =>
            [op.at = "idle" /\ op'.at = "evict" /\ policy \in {"LRU", "LRUNoSh", "LFU"}
              => LET lines == Range(CandLines(WalkCands(op'.addr)))
                 IN  (policy # "LFU" => \A id \in lines : FullScore(id) < ScoreRange)
                     => \A id \in lines : ~WorthLess(id, op'.victim)]_vars
    BY StepChoosesLeast
  <1> QED
    BY <1>1, <1>2, <1>3, PTL DEF Spec, VictimLeastUsed
=============================================================================
