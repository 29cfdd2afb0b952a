----------------------------- MODULE MESIProofs -----------------------------
(***************************************************************************)
(* Proofs about MESI, for every tree of banked caches, every number of     *)
(* cores, banks, lines and addresses: the locks are taken in one order, so *)
(* that nobody waits for ever for anybody, and the filter caches promise   *)
(* nothing that their L1 does not have (Inner).  Then the invariant of     *)
(* coherence, Coherent, the lemmas on what other cores can do to it, and   *)
(* the steps that change no line; MESICoherence has the steps that do.     *)
(***************************************************************************)
EXTENDS MESI, FiniteSetTheorems, SequenceTheorems, WellFoundedInduction, TLAPS

MESIStates == {"I", "S", "E", "M"}
Entries == [sharers : SUBSET Cache, n : Int, excl : BOOLEAN]
Ats == {"lockTcc", "lockBcc", "access", "evict", "insert", "dir", "grant", "end", "fill"}

AccessFrame ==
    [kind : {"access"}, at : Ats, cache : Cache, type : {"GETS", "GETX", "PUTS", "PUTX"},
     addr : Addr \union {None}, child : Cache \union {None}, slot : Nat, init : MESIStates,
     noexcl : BOOLEAN, line : Nat, todo : SUBSET Cache]

InvFrame ==
    [kind : {"inv"}, at : {"down"}, cache : Cache, type : {"INV", "INVX"},
     addr : Addr \union {None}, line : Nat, todo : SUBSET Cache]

(* A call: which invalidations are left, where a terminal cache can be,    *)
(* and from when on the line is known.                                     *)
FrameOK(f) ==
    /\ f \in AccessFrame \union InvFrame
    /\ f.todo # {} => f.at \in {"evict", "grant", "down"}
    /\ f.todo \subseteq Children(f.cache)
    /\ f.at \in {"lockTcc", "dir", "grant"} => f.cache \notin L1
    /\ f.at = "fill" => f.cache \in L1
    /\ f.kind = "access" /\ f.cache \in L1 => f.type \in {"GETS", "GETX"}
    /\ f.at \in {"access", "evict", "insert", "dir", "grant", "down"} => f.line \in Slots(f.cache)
    /\ f.at = "end" /\ f.cache \in L1 => f.line \in Slots(f.cache)
    /\ f.at = "fill" => f.line \in Slots(f.cache)

(* g was called by f: an access of the parent, on behalf of f's line, or   *)
(* an invalidation of a child.                                             *)
Called(f, g) ==
    \/ /\ g.kind = "access" /\ f.kind = "access" /\ f.at \in {"insert", "dir", "end"}
       /\ f.at = "end" => f.cache \in L1
       /\ g.cache = Parent(f.cache, g.addr) /\ g.cache \in Cache /\ g.child = f.cache /\ g.slot = f.line
    \/ /\ g.kind = "inv" /\ f.at \in {"evict", "grant", "down"}
       /\ g.cache \in Children(f.cache)

(* The height of a cache in the tree. *)
H == CHOOSE h \in [Cache -> 0..Cardinality(Cache)] :
        \A k \in Cache : \A p \in Banks(k) \ {Mem} : h[k] < h[p]

(* Accesses go up and invalidations go down: nothing but accesses is below *)
(* an access, and the calls that hold a bottom lock are above each other.  *)
Ordered(q) ==
    \A i, j \in 1..Len(q) : i < j =>
        /\ q[i].kind = "access" => q[j].kind = "access" /\ H[q[j].cache] < H[q[i].cache]
        /\ q[i].kind = "inv" /\ (q[j].kind = "inv" \/ q[j - 1].kind = "inv")
              => H[q[i].cache] < H[q[j].cache]

(* The stack of core c: it starts with an access of one of its L1s. *)
Sane(c, q) ==
    /\ q \in Seq(AccessFrame \union InvFrame)
    /\ \A i \in 1..Len(q) : FrameOK(q[i])
    /\ \A i \in 1..Len(q) : i > 1 => Called(q[i], q[i - 1])
    /\ q # << >> => /\ q[Len(q)].kind = "access" /\ q[Len(q)].cache \in L1
                    /\ CoreOf[q[Len(q)].cache] = c
    /\ Ordered(q)

(* The calls of a stack that explain a lock. *)
HoldsTop(q, k) ==
    k \notin L1 /\
    \E i \in 1..Len(q) : q[i].kind = "access" /\ q[i].cache = k /\ q[i].at # "lockTcc"
HasBottom(q, i) ==
    \/ q[i].kind = "inv"
    \/ q[i].at \notin {"lockTcc", "lockBcc", "fill"} /\ (i = 1 \/ q[i - 1].kind = "inv")
HoldsBottom(q, k) == \E i \in 1..Len(q) : q[i].cache = k /\ HasBottom(q, i)
Fills(q, l) == q # << >> /\ q[1].at = "fill" /\ q[1].cache = l

Locks ==
    /\ bcc \in [Cache -> Core \union {Free}] /\ tcc \in [Cache -> Core \union {Free}]
    /\ filterLock \in [L1 -> Core \union {Free}]
    /\ \A k \in Cache, c \in Core :
          /\ tcc[k] = c => HoldsTop(stack[c], k)
          /\ bcc[k] = c => HoldsBottom(stack[c], k)
    /\ \A l \in L1, c \in Core : filterLock[l] = c <=> Fills(stack[c], l)

IsArray(x, V) ==
    /\ x \in [Cache -> UNION {[Slots(k) -> V] : k \in Cache}]
    /\ \A k \in Cache : x[k] \in [Slots(k) -> V]

Arrays ==
    /\ IsArray(tag, Addr \union {None}) /\ IsArray(st, MESIStates) /\ IsArray(dir, Entries)
    /\ \A k \in Cache : \A s \in Slots(k) : dir[k][s].sharers \subseteq Children(k)

(* The L1 l has what its filter promises. *)
Backed(l) ==
    /\ rd[l] # None => Valid(l, rd[l])
    /\ wr[l] # None => \E s \in Slots(l) : tag[l][s] = wr[l] /\ st[l][s] = "M"

(* The access a core is in, if any, is one of the L1 l. *)
Base(q) == q[Len(q)]
Accesses(q, l) == q # << >> /\ Base(q).cache = l

(* Outside of its core's accesses the filter of l promises what l has; an  *)
(* access that is about to fill it has its line.                           *)
FilterOK(l, q) ==
    /\ wr[l] # None => wr[l] = rd[l]
    /\ ~Accesses(q, l) => Backed(l)
    /\ Accesses(q, l) /\ Base(q).at \in {"end", "fill"} => tag[l][Base(q).line] = Base(q).addr
    /\ Accesses(q, l) /\ Base(q).at = "fill" =>
          IF Base(q).type = "GETX" THEN st[l][Base(q).line] = "M" ELSE st[l][Base(q).line] # "I"

FilterInv == \A l \in L1 : FilterOK(l, stack[CoreOf[l]])

Filters == rd \in [L1 -> Addr \union {None}] /\ wr \in [L1 -> Addr \union {None}]

(* Until an assertion fails. *)
Inner ==
    /\ \A c \in Core : Sane(c, stack[c])
    /\ DOMAIN stack = Core
    /\ Locks
    /\ Arrays
    /\ Filters
    /\ FilterInv
IInv == ~failed => Inner

-----------------------------------------------------------------------------
(* What Goto, CallFrom and Return do to a stack. *)
LEMMA GotoSeq ==
    ASSUME NEW S, NEW q \in Seq(S), q # << >>, NEW f \in S
    PROVE  LET r == <<f>> \o Tail(q)
           IN  /\ r \in Seq(S) /\ r # << >> /\ Len(r) = Len(q) /\ Len(q) \in Nat \ {0}
               /\ r[1] = f /\ \A i \in 2..Len(q) : r[i] = q[i]
  <1> DEFINE t == Tail(q)
             r == <<f>> \o t
  <1>1. Len(q) \in Nat \ {0} /\ t \in Seq(S) /\ Len(t) = Len(q) - 1
        /\ \A i \in 1..(Len(q) - 1) : t[i] = q[i + 1]
    OBVIOUS
  <1> HIDE DEF t
  <1>2. r \in Seq(S) /\ Len(r) = 1 + Len(t) /\ r[1] = f
        /\ \A i \in 2..(1 + Len(t)) : r[i] = t[i - 1]
    BY <1>1
  <1> HIDE DEF r
  <1>3. \A i \in 2..Len(q) : r[i] = q[i]
    BY <1>1, <1>2
  <1>4. r # << >>
    BY <1>1, <1>2
  <1> QED
    BY <1>1, <1>2, <1>3, <1>4 DEF r, t

LEMMA CallSeq ==
    ASSUME NEW S, NEW q \in Seq(S), q # << >>, NEW f \in S, NEW g \in S
    PROVE  LET r == <<g, f>> \o Tail(q)
           IN  /\ r \in Seq(S) /\ r # << >> /\ Len(r) = Len(q) + 1 /\ Len(q) \in Nat \ {0}
               /\ r[1] = g /\ r[2] = f /\ \A i \in 3..(Len(q) + 1) : r[i] = q[i - 1]
  <1> DEFINE t == Tail(q)
             r == <<g, f>> \o t
  <1>1. Len(q) \in Nat \ {0} /\ t \in Seq(S) /\ Len(t) = Len(q) - 1
        /\ \A i \in 1..(Len(q) - 1) : t[i] = q[i + 1]
    OBVIOUS
  <1> HIDE DEF t
  <1>2. r \in Seq(S) /\ Len(r) = 2 + Len(t) /\ r[1] = g /\ r[2] = f
        /\ \A i \in 3..(2 + Len(t)) : r[i] = t[i - 2]
    BY <1>1
  <1> HIDE DEF r
  <1>3. ASSUME NEW i \in 3..(Len(q) + 1) PROVE r[i] = q[i - 1]
    <2>1. i \in 3..(2 + Len(t)) /\ i - 2 \in 1..(Len(q) - 1)
      BY <1>1
    <2>2. r[i] = t[i - 2]
      BY <1>2, <2>1
    <2>3. t[i - 2] = q[(i - 2) + 1]
      BY <1>1, <2>1
    <2>4. (i - 2) + 1 = i - 1
      OBVIOUS
    <2> QED
      BY <2>2, <2>3, <2>4
  <1>4. r # << >>
    BY <1>1, <1>2
  <1> QED
    BY <1>1, <1>2, <1>3, <1>4 DEF r, t

LEMMA ReturnSeq ==
    ASSUME NEW S, NEW q \in Seq(S), q # << >>
    PROVE  LET r == Tail(q)
           IN  /\ r \in Seq(S) /\ Len(r) = Len(q) - 1 /\ Len(q) \in Nat \ {0}
               /\ \A i \in 1..(Len(q) - 1) : r[i] = q[i + 1]
               /\ r = << >> <=> Len(q) = 1
  <1> DEFINE r == Tail(q)
  <1>1. r \in Seq(S) /\ Len(r) = Len(q) - 1 /\ Len(q) \in Nat \ {0}
    OBVIOUS
  <1>2. \A i \in 1..(Len(q) - 1) : r[i] = q[i + 1]
    OBVIOUS
  <1>3. Len(r) = 0 <=> r = << >>
    BY <1>1, EmptySeq
  <1> HIDE DEF r
  <1>4. r = << >> <=> Len(q) = 1
    BY <1>1, <1>3
  <1> QED
    BY <1>1, <1>2, <1>4 DEF r

(* The bank an address belongs to is one of those above. *)
LEMMA ParentFacts ==
    ASSUME NEW k \in Cache, NEW a \in Addr \union {None}
    PROVE  /\ Parent(k, a) \in (Cache \ L1) \union {Mem} /\ Parent(k, a) \in Banks(k)
           /\ Parent(k, a) # Mem => Parent(k, a) \in Cache /\ k \in Children(Parent(k, a))
           /\ Parent(k, a) = Mem => Parents[k] = <<Mem>>
  <1> DEFINE i == 1 + (Hash[a] % Len(Parents[k]))
  <1>1. Parents[k] = <<Mem>> \/ Parents[k] \in Seq(Cache \ L1) \ {<< >>}
    BY ParentsAssumption
  <1>2. Len(Parents[k]) \in Nat \ {0} /\ DOMAIN Parents[k] = 1..Len(Parents[k])
    BY <1>1
  <1>3. Hash[a] \in Nat
    BY ParentsAssumption
  <1>4. i \in DOMAIN Parents[k]
    BY <1>2, <1>3
  <1> HIDE DEF i
  <1>5. Parents[k][i] \in Banks(k)
    BY <1>4 DEF Banks
  <1>6. /\ Parents[k][i] \in (Cache \ L1) \union {Mem}
        /\ Parents[k][i] = Mem => Parents[k] = <<Mem>>
    BY <1>1, <1>2, <1>4, TreeAssumption
  <1> QED
    BY <1>5, <1>6, TreeAssumption DEF Parent, Children, i

(* A child has no memory above it, but caches with children. *)
LEMMA ChildFacts ==
    ASSUME NEW k, NEW ch \in Children(k), k # Mem
    PROVE  /\ ch \in Cache /\ k \in Cache /\ k \notin L1
           /\ \A a \in Addr \union {None} : Parent(ch, a) # Mem /\ Parent(ch, a) \in Cache
  <1>1. ch \in Cache /\ k \in Banks(ch)
    BY DEF Children
  <1>2. PICK i \in DOMAIN Parents[ch] : k = Parents[ch][i]
    BY <1>1 DEF Banks
  <1>3. Parents[ch] # <<Mem>>
    BY <1>2
  <1>4. Parents[ch] \in Seq(Cache \ L1)
    BY <1>1, <1>3, ParentsAssumption
  <1>5. k \in Cache \ L1
    BY <1>2, <1>4
  <1> QED
    BY <1>1, <1>3, <1>5, ParentFacts

(* The banks above a cache are higher. *)
LEMMA Heights ==
    /\ H \in [Cache -> 0..Cardinality(Cache)] /\ Cardinality(Cache) \in Nat
    /\ \A k \in Cache : H[k] \in Nat
    /\ \A k \in Cache : \A ch \in Children(k) : H[ch] < H[k] /\ ch # k
  <1>1. Cardinality(Cache) \in Nat
    BY NoLoops, FS_CardinalityType
  <1>2. /\ H \in [Cache -> 0..Cardinality(Cache)]
        /\ \A k \in Cache : \A p \in Banks(k) \ {Mem} : H[k] < H[p]
    BY NoLoops DEF H
  <1>3. \A k \in Cache : H[k] \in Nat
    BY <1>1, <1>2
  <1> QED
    BY <1>1, <1>2, <1>3, TreeAssumption DEF Children

(* A call that goes on is called by the same one, for the same line. *)
SameCall(f, g) ==
    /\ f.kind = g.kind /\ f.cache = g.cache
    /\ f.kind = "access" => f.child = g.child /\ f.slot = g.slot /\ f.addr = g.addr

FrameSet == AccessFrame \union InvFrame

LEMMA FrameFacts ==
    ASSUME NEW f, FrameOK(f)
    PROVE  /\ f \in FrameSet /\ f.cache \in Cache /\ f.kind \in {"access", "inv"}
           /\ f.kind = "access" => f \in AccessFrame
           /\ f.kind = "inv" => f \in InvFrame /\ f.at = "down"
           /\ f.at = "down" => f.kind = "inv"
  BY DEF FrameOK, FrameSet, AccessFrame, InvFrame, Ats

LEMMA CalledSame ==
    ASSUME NEW f, NEW g, NEW h, Called(f, g), SameCall(h, g)
    PROVE  Called(f, h)
  BY DEF Called, SameCall

LEMMA SaneGoto ==
    ASSUME NEW c, NEW q, Sane(c, q), q # << >>, NEW f, FrameOK(f), SameCall(f, q[1])
    PROVE  Sane(c, <<f>> \o Tail(q))
  <1> DEFINE r == <<f>> \o Tail(q)
             n == Len(q)
  <1>1. q \in Seq(FrameSet) /\ f \in FrameSet
    BY FrameFacts DEF Sane, FrameSet
  <1>2. /\ r \in Seq(FrameSet) /\ r # << >> /\ Len(r) = n /\ n \in Nat \ {0}
        /\ r[1] = f /\ \A i \in 2..n : r[i] = q[i]
    BY <1>1, GotoSeq
  <1> HIDE DEF r, n
  <1>3. \A i \in 1..n : r[i].kind = q[i].kind /\ r[i].cache = q[i].cache
    BY <1>2 DEF SameCall
  <1>4. \A i \in 1..n : FrameOK(r[i])
    BY <1>2 DEF Sane, n
  <1>5. \A i \in 1..n : i > 1 => Called(r[i], r[i - 1])
    <2> SUFFICES ASSUME NEW i \in 1..n, i > 1 PROVE Called(r[i], r[i - 1])
      OBVIOUS
    <2>1. Called(q[i], q[i - 1]) /\ r[i] = q[i]
      BY <1>2 DEF Sane, n
    <2>2. CASE i = 2
      BY <1>2, <2>1, <2>2, CalledSame
    <2>3. CASE i # 2
      BY <1>2, <2>1, <2>3
    <2> QED
      BY <2>2, <2>3
  <1>6. r[n].kind = "access" /\ r[n].cache \in L1 /\ CoreOf[r[n].cache] = c
    BY <1>2, <1>3 DEF Sane, n
  <1>7. Ordered(r)
    BY <1>2, <1>3, SMTT(30) DEF Sane, Ordered, n
  <1> QED
    BY <1>2, <1>4, <1>5, <1>6, <1>7 DEF Sane, FrameSet, r

LEMMA SaneCall ==
    ASSUME NEW c, NEW q, Sane(c, q), q # << >>, NEW f, FrameOK(f), SameCall(f, q[1]),
           NEW g, FrameOK(g), Called(f, g)
    PROVE  Sane(c, <<g, f>> \o Tail(q))
  <1> DEFINE r == <<g, f>> \o Tail(q)
             n == Len(q)
  <1>1. q \in Seq(FrameSet) /\ f \in FrameSet /\ g \in FrameSet
    BY FrameFacts DEF Sane, FrameSet
  <1>2. /\ r \in Seq(FrameSet) /\ r # << >> /\ Len(r) = n + 1 /\ n \in Nat \ {0}
        /\ r[1] = g /\ r[2] = f /\ \A i \in 3..(n + 1) : r[i] = q[i - 1]
    BY <1>1, CallSeq
  <1> HIDE DEF r, n
  <1>3. \A i \in 2..(n + 1) : i - 1 \in 1..n /\ r[i].kind = q[i - 1].kind /\ r[i].cache = q[i - 1].cache
    BY <1>2 DEF SameCall
  <1>4. \A i \in 1..(n + 1) : FrameOK(r[i])
    BY <1>2 DEF Sane, n
  <1>5. \A i \in 1..(n + 1) : i > 1 => Called(r[i], r[i - 1])
    <2> SUFFICES ASSUME NEW i \in 1..(n + 1), i > 1 PROVE Called(r[i], r[i - 1])
      OBVIOUS
    <2>1. CASE i = 2
      BY <1>2, <2>1
    <2>2. CASE i > 2
      <3>1. Called(q[i - 1], q[i - 2]) /\ r[i] = q[i - 1]
        BY <1>2, <2>2 DEF Sane, n
      <3>2. CASE i = 3
        BY <1>2, <3>1, <3>2, CalledSame
      <3>3. CASE i > 3
        BY <1>2, <3>1, <3>3
      <3> QED
        BY <2>2, <3>2, <3>3
    <2> QED
      BY <2>1, <2>2
  <1>6. r[n + 1].kind = "access" /\ r[n + 1].cache \in L1 /\ CoreOf[r[n + 1].cache] = c
    BY <1>2, <1>3 DEF Sane, n
  <1>7. Ordered(r)
    <2>1. f.cache \in Cache /\ g.cache \in Cache /\ g.kind \in {"access", "inv"}
          /\ \A i \in 1..n : q[i].cache \in Cache /\ H[q[i].cache] \in Nat
          /\ H[f.cache] \in Nat /\ H[g.cache] \in Nat
      BY FrameFacts, Heights DEF Sane, n
    <2>2. /\ g.kind = "access" => f.kind = "access" /\ H[f.cache] < H[g.cache]
          /\ g.kind = "inv" => H[g.cache] < H[f.cache]
      <3>1. g.addr \in Addr \union {None}
        BY <1>1 DEF FrameSet, AccessFrame, InvFrame
      <3>2. Parent(f.cache, g.addr) \in Cache => f.cache \in Children(Parent(f.cache, g.addr))
        BY <2>1, <3>1, ParentFacts, TreeAssumption
      <3> QED
        BY <2>1, <3>2, Heights DEF Called
    <2> SUFFICES ASSUME NEW i \in 1..(n + 1), NEW j \in 1..(n + 1), i < j
                 PROVE  /\ r[i].kind = "access" => r[j].kind = "access" /\ H[r[j].cache] < H[r[i].cache]
                        /\ r[i].kind = "inv" /\ (r[j].kind = "inv" \/ r[j - 1].kind = "inv")
                              => H[r[i].cache] < H[r[j].cache]
      BY <1>2 DEF Ordered
    <2>3. CASE i > 1
      <3>1. i - 1 \in 1..n /\ j - 1 \in 1..n /\ i - 1 < j - 1 /\ j - 1 \in 2..(n + 1)
        BY <1>2, <2>3
      <3>2. /\ q[i - 1].kind = "access" =>
                  q[j - 1].kind = "access" /\ H[q[j - 1].cache] < H[q[i - 1].cache]
            /\ q[i - 1].kind = "inv" /\ (q[j - 1].kind = "inv" \/ q[j - 2].kind = "inv")
                  => H[q[i - 1].cache] < H[q[j - 1].cache]
        <4>1. PICK x, y : x = i - 1 /\ y = j - 1
          OBVIOUS
        <4>2. x \in 1..Len(q) /\ y \in 1..Len(q) /\ x < y /\ y - 1 = j - 2
          BY <1>2, <3>1, <4>1 DEF n
        <4>3. /\ q[x].kind = "access" => q[y].kind = "access" /\ H[q[y].cache] < H[q[x].cache]
              /\ q[x].kind = "inv" /\ (q[y].kind = "inv" \/ q[y - 1].kind = "inv")
                    => H[q[x].cache] < H[q[y].cache]
          BY <4>2 DEF Sane, Ordered
        <4> QED
          BY <4>1, <4>2, <4>3
      <3>3. r[i].kind = q[i - 1].kind /\ r[i].cache = q[i - 1].cache
            /\ r[j].kind = q[j - 1].kind /\ r[j].cache = q[j - 1].cache
            /\ r[j - 1].kind = q[j - 2].kind
        BY <1>3, <2>3, <3>1
      <3> QED
        BY <3>2, <3>3
    <2>4. CASE i = 1
      <3>1. CASE j = 2
        BY <1>2, <2>2, <2>4, <3>1
      <3>2. CASE j > 2
        <4>1. /\ q[1].kind = "access" => q[j - 1].kind = "access" /\ H[q[j - 1].cache] < H[q[1].cache]
              /\ q[1].kind = "inv" /\ (q[j - 1].kind = "inv" \/ q[j - 2].kind = "inv")
                    => H[q[1].cache] < H[q[j - 1].cache]
          BY <1>2, <3>2 DEF Sane, Ordered, n
        <4>2. /\ r[j].kind = q[j - 1].kind /\ r[j].cache = q[j - 1].cache /\ j - 1 \in 1..n
              /\ r[j - 1].kind = q[j - 2].kind /\ q[1].kind = f.kind /\ q[1].cache = f.cache
          BY <1>2, <1>3, <3>2 DEF SameCall
        <4>3. q[j - 2].kind = "access" \/ q[1].kind # "access"
          <5>1. CASE j = 3
            BY <5>1
          <5>2. CASE j > 3
            <6>1. j - 2 \in 1..n /\ 1 < j - 2 /\ 1 \in 1..n
              BY <1>2, <5>2
            <6> QED
              BY <6>1 DEF Sane, Ordered, n
          <5> QED
            BY <3>2, <5>1, <5>2
        <4>4. q[1].kind \in {"access", "inv"} /\ H[q[j - 1].cache] \in Nat
          BY <1>2, <2>1, <4>2, FrameFacts DEF Sane, n
        <4>5. CASE g.kind = "access"
          BY <1>2, <2>1, <2>2, <2>4, <4>1, <4>2, <4>4, <4>5
        <4>6. CASE g.kind = "inv"
          BY <1>2, <2>1, <2>2, <2>4, <4>1, <4>2, <4>3, <4>4, <4>6
        <4> QED
          BY <2>1, <4>5, <4>6
      <3> QED
        BY <2>4, <3>1, <3>2
    <2> QED
      BY <2>3, <2>4
  <1> QED
    BY <1>2, <1>4, <1>5, <1>6, <1>7 DEF Sane, FrameSet, r

LEMMA SaneReturn ==
    ASSUME NEW c, NEW q, Sane(c, q), q # << >>
    PROVE  Sane(c, Tail(q))
  <1> DEFINE r == Tail(q)
             n == Len(q)
  <1>1. q \in Seq(FrameSet)
    BY DEF Sane, FrameSet
  <1>2. /\ r \in Seq(FrameSet) /\ Len(r) = n - 1 /\ n \in Nat \ {0}
        /\ \A i \in 1..(n - 1) : r[i] = q[i + 1]
        /\ r = << >> <=> n = 1
    BY <1>1, ReturnSeq
  <1> HIDE DEF r, n
  <1>3. \A i \in 1..(n - 1) : FrameOK(r[i])
    BY <1>2 DEF Sane, n
  <1>4. \A i \in 1..(n - 1) : i > 1 => Called(r[i], r[i - 1])
    <2> SUFFICES ASSUME NEW i \in 1..(n - 1), i > 1 PROVE Called(r[i], r[i - 1])
      OBVIOUS
    <2>1. r[i] = q[i + 1] /\ r[i - 1] = q[i] /\ i + 1 \in 1..n /\ i + 1 > 1
      BY <1>2
    <2>2. Called(q[i + 1], q[(i + 1) - 1])
      BY <2>1 DEF Sane, n
    <2> QED
      BY <2>1, <2>2
  <1>5. n # 1 => /\ r[n - 1].kind = "access" /\ r[n - 1].cache \in L1
                 /\ CoreOf[r[n - 1].cache] = c
    BY <1>2 DEF Sane, n
  <1>6. Ordered(r)
    <2> SUFFICES ASSUME NEW i \in 1..(n - 1), NEW j \in 1..(n - 1), i < j
                 PROVE  /\ r[i].kind = "access" => r[j].kind = "access" /\ H[r[j].cache] < H[r[i].cache]
                        /\ r[i].kind = "inv" /\ (r[j].kind = "inv" \/ r[j - 1].kind = "inv")
                              => H[r[i].cache] < H[r[j].cache]
      BY <1>2 DEF Ordered
    <2>1. r[i] = q[i + 1] /\ r[j] = q[j + 1] /\ r[j - 1] = q[(j + 1) - 1]
          /\ i + 1 \in 1..n /\ j + 1 \in 1..n /\ i + 1 < j + 1
      BY <1>2
    <2> HIDE DEF Ordered
    <2>2. /\ q[i + 1].kind = "access" => q[j + 1].kind = "access" /\ H[q[j + 1].cache] < H[q[i + 1].cache]
          /\ q[i + 1].kind = "inv" /\ (q[j + 1].kind = "inv" \/ q[(j + 1) - 1].kind = "inv")
                => H[q[i + 1].cache] < H[q[j + 1].cache]
      BY <2>1 DEF Sane, Ordered, n
    <2> QED
      BY <2>1, <2>2
  <1> QED
    BY <1>2, <1>3, <1>4, <1>5, <1>6 DEF Sane, FrameSet, r

-----------------------------------------------------------------------------
(* An access of an L1 is the call a core began with. *)
LEMMA L1Base ==
    ASSUME NEW c, NEW q, Sane(c, q), NEW i \in 1..Len(q), q[i].kind = "access", q[i].cache \in L1
    PROVE  i = Len(q) /\ CoreOf[q[i].cache] = c /\ q # << >>
  <1>1. q \in Seq(FrameSet) /\ Len(q) \in Nat /\ q # << >>
    BY DEF Sane, FrameSet
  <1>2. ASSUME i < Len(q) PROVE FALSE
    <2>1. i + 1 \in 1..Len(q) /\ i + 1 > 1
      BY <1>1, <1>2
    <2>2. Called(q[i + 1], q[(i + 1) - 1]) /\ FrameOK(q[i + 1])
      BY <2>1 DEF Sane
    <2>3. q[i + 1].cache \in Cache /\ q[i].cache = Parent(q[i + 1].cache, q[i].addr)
      BY <2>2, FrameFacts DEF Called
    <2>4. q[i].addr \in Addr \union {None}
      BY <1>1 DEF FrameSet, AccessFrame, InvFrame
    <2> QED
      BY <2>3, <2>4, ParentFacts, TreeAssumption
  <1> QED
    BY <1>1, <1>2 DEF Sane

(* What a stack holds after each of the three moves. *)
LEMMA TopGoto ==
    ASSUME NEW q \in Seq(FrameSet), q # << >>, NEW f \in FrameSet, SameCall(f, q[1]),
           NEW k, HoldsTop(q, k), f.at # "lockTcc"
    PROVE  HoldsTop(<<f>> \o Tail(q), k)
  <1> DEFINE r == <<f>> \o Tail(q)
  <1>1. Len(r) = Len(q) /\ Len(q) \in Nat \ {0} /\ r[1] = f /\ \A i \in 2..Len(q) : r[i] = q[i]
    BY GotoSeq
  <1> HIDE DEF r
  <1>2. PICK i \in 1..Len(q) : q[i].kind = "access" /\ q[i].cache = k /\ q[i].at # "lockTcc"
    BY DEF HoldsTop
  <1>3. i \in 1..Len(r) /\ r[i].kind = "access" /\ r[i].cache = k /\ r[i].at # "lockTcc"
    BY <1>1, <1>2 DEF SameCall
  <1> QED
    BY <1>3 DEF HoldsTop, r

LEMMA TopCall ==
    ASSUME NEW q \in Seq(FrameSet), q # << >>, NEW f \in FrameSet, SameCall(f, q[1]),
           NEW g \in FrameSet, NEW k, HoldsTop(q, k), f.at # "lockTcc"
    PROVE  HoldsTop(<<g, f>> \o Tail(q), k)
  <1> DEFINE r == <<g, f>> \o Tail(q)
  <1>1. /\ Len(r) = Len(q) + 1 /\ Len(q) \in Nat \ {0} /\ r[2] = f
        /\ \A i \in 3..(Len(q) + 1) : r[i] = q[i - 1]
    BY CallSeq
  <1> HIDE DEF r
  <1>2. PICK i \in 1..Len(q) : q[i].kind = "access" /\ q[i].cache = k /\ q[i].at # "lockTcc"
    BY DEF HoldsTop
  <1>3. i + 1 \in 1..Len(r) /\ (i # 1 => r[i + 1] = q[i])
    BY <1>1
  <1>4. r[i + 1].kind = "access" /\ r[i + 1].cache = k /\ r[i + 1].at # "lockTcc"
    BY <1>1, <1>2, <1>3 DEF SameCall
  <1> QED
    BY <1>3, <1>4 DEF HoldsTop, r

LEMMA TopReturn ==
    ASSUME NEW q \in Seq(FrameSet), q # << >>, NEW k, HoldsTop(q, k),
           q[1].kind = "access" => q[1].cache # k
    PROVE  HoldsTop(Tail(q), k)
  <1> DEFINE r == Tail(q)
  <1>1. /\ Len(r) = Len(q) - 1 /\ Len(q) \in Nat \ {0}
        /\ \A i \in 1..(Len(q) - 1) : r[i] = q[i + 1]
    BY ReturnSeq
  <1> HIDE DEF r
  <1>2. PICK i \in 1..Len(q) : q[i].kind = "access" /\ q[i].cache = k /\ q[i].at # "lockTcc"
    BY DEF HoldsTop
  <1>3. i - 1 \in 1..Len(r) /\ r[i - 1] = q[i]
    BY <1>1, <1>2
  <1> QED
    BY <1>2, <1>3 DEF HoldsTop, r

LEMMA BottomGoto ==
    ASSUME NEW q \in Seq(FrameSet), q # << >>, NEW f \in FrameSet, SameCall(f, q[1]),
           NEW k, HoldsBottom(q, k),
           k = q[1].cache => f.kind = "inv" \/ f.at \notin {"lockTcc", "lockBcc", "fill"}
    PROVE  HoldsBottom(<<f>> \o Tail(q), k)
  <1> DEFINE r == <<f>> \o Tail(q)
  <1>1. Len(r) = Len(q) /\ Len(q) \in Nat \ {0} /\ r[1] = f /\ \A i \in 2..Len(q) : r[i] = q[i]
    BY GotoSeq
  <1> HIDE DEF r
  <1>2. PICK i \in 1..Len(q) : q[i].cache = k /\ HasBottom(q, i)
    BY DEF HoldsBottom
  <1>3. CASE i = 1
    BY <1>1, <1>2, <1>3 DEF HasBottom, HoldsBottom, SameCall, r
  <1>4. CASE i # 1
    <2>0. r[1].kind = q[1].kind
      BY <1>1 DEF SameCall
    <2>1. i \in 1..Len(r) /\ r[i] = q[i] /\ r[i - 1].kind = q[i - 1].kind
      BY <1>1, <1>4, <2>0
    <2>2. HasBottom(r, i)
      BY <1>2, <1>4, <2>1 DEF HasBottom
    <2> QED
      BY <1>2, <2>1, <2>2 DEF HoldsBottom, r
  <1> QED
    BY <1>3, <1>4

LEMMA BottomCall ==
    ASSUME NEW q \in Seq(FrameSet), q # << >>, NEW f \in FrameSet, SameCall(f, q[1]),
           NEW g \in FrameSet, g.kind = "inv", f.at \notin {"lockTcc", "lockBcc", "fill"},
           NEW k, HoldsBottom(q, k) \/ k = g.cache
    PROVE  HoldsBottom(<<g, f>> \o Tail(q), k)
  <1> DEFINE r == <<g, f>> \o Tail(q)
  <1>1. /\ Len(r) = Len(q) + 1 /\ Len(q) \in Nat \ {0} /\ r[1] = g /\ r[2] = f
        /\ \A i \in 3..(Len(q) + 1) : r[i] = q[i - 1]
    BY CallSeq
  <1> HIDE DEF r
  <1>2. CASE k = g.cache
    BY <1>1, <1>2 DEF HoldsBottom, HasBottom, r
  <1>3. CASE HoldsBottom(q, k)
    <2>1. PICK i \in 1..Len(q) : q[i].cache = k /\ HasBottom(q, i)
      BY <1>3 DEF HoldsBottom
    <2>2. i + 1 \in 1..Len(r) /\ (i + 1) - 1 = i /\ (i # 1 => r[i + 1] = q[i])
          /\ (i # 1 => r[i].kind = q[i - 1].kind)
      BY <1>1 DEF SameCall
    <2>3. CASE i = 1
      BY <1>1, <2>1, <2>3 DEF HasBottom, HoldsBottom, SameCall, r
    <2>4. CASE i # 1
      <3>1. HasBottom(r, i + 1) /\ r[i + 1].cache = k
        BY <2>1, <2>2, <2>4 DEF HasBottom
      <3> QED
        BY <2>2, <3>1 DEF HoldsBottom, r
    <2> QED
      BY <2>3, <2>4
  <1> QED
    BY <1>2, <1>3

(* An access at work is the only call that can hold a bottom lock. *)
LEMMA BottomAlone ==
    ASSUME NEW c, NEW q, Sane(c, q), q # << >>, q[1].kind = "access", NEW k, HoldsBottom(q, k)
    PROVE  k = q[1].cache /\ q[1].at \notin {"lockTcc", "lockBcc", "fill"}
  <1>1. q \in Seq(FrameSet) /\ Len(q) \in Nat \ {0}
    BY EmptySeq DEF Sane, FrameSet
  <1>2. PICK i \in 1..Len(q) : q[i].cache = k /\ HasBottom(q, i)
    BY DEF HoldsBottom
  <1>3. \A j \in 1..Len(q) : q[j].kind = "access"
    BY <1>1 DEF Sane, Ordered
  <1>4. CASE i = 1
    BY <1>1, <1>2, <1>3, <1>4 DEF HasBottom
  <1>5. CASE i # 1
    <2>1. i - 1 \in 1..Len(q)
      BY <1>1, <1>5
    <2> QED
      BY <1>2, <1>3, <1>5, <2>1 DEF HasBottom
  <1> QED
    BY <1>4, <1>5

LEMMA BottomReturn ==
    ASSUME NEW q \in Seq(FrameSet), q # << >>, NEW k, HoldsBottom(q, k), q[1].cache # k
    PROVE  HoldsBottom(Tail(q), k)
  <1> DEFINE r == Tail(q)
  <1>1. /\ Len(r) = Len(q) - 1 /\ Len(q) \in Nat \ {0}
        /\ \A i \in 1..(Len(q) - 1) : r[i] = q[i + 1]
    BY ReturnSeq
  <1> HIDE DEF r
  <1>2. PICK i \in 1..Len(q) : q[i].cache = k /\ HasBottom(q, i)
    BY DEF HoldsBottom
  <1>3. i - 1 \in 1..Len(r) /\ r[i - 1] = q[i] /\ (i # 2 => r[(i - 1) - 1] = q[i - 1])
    BY <1>1, <1>2
  <1>4. HasBottom(r, i - 1)
    BY <1>2, <1>3 DEF HasBottom
  <1> QED
    BY <1>2, <1>3, <1>4 DEF HoldsBottom, r

(* The call an access goes back to. *)
LEMMA Caller ==
    ASSUME NEW c, NEW q, Sane(c, q), q # << >>, q[1].kind = "access", q[1].cache \notin L1
    PROVE  /\ Tail(q) # << >> /\ Tail(q)[1] = q[2] /\ FrameOK(q[2]) /\ Called(q[2], q[1])
           /\ q[2].kind = "access" /\ q[2].cache = q[1].child /\ q[2].line = q[1].slot
           /\ q[2].cache \in Cache /\ q[2].line \in Slots(q[2].cache)
           /\ q[1].cache = Parent(q[2].cache, q[1].addr) /\ q[2].at \in {"insert", "dir", "end"}
           /\ 2 \in 1..Len(q) /\ q[1].addr \in Addr \union {None} /\ q[1].cache \in Cache
  <1>1. q \in Seq(FrameSet) /\ Len(q) \in Nat \ {0}
    BY EmptySeq DEF Sane, FrameSet
  <1>2. Len(q) # 1
    BY <1>1 DEF Sane
  <1>3. 2 \in 1..Len(q) /\ 2 > 1 /\ Called(q[2], q[2 - 1]) /\ FrameOK(q[2])
    BY <1>1, <1>2 DEF Sane
  <1>4. Tail(q) # << >> /\ Tail(q)[1] = q[2]
    BY <1>1, <1>2, ReturnSeq
  <1>5. /\ q[2].kind = "access" /\ q[2].cache = q[1].child /\ q[2].line = q[1].slot
        /\ q[1].cache = Parent(q[2].cache, q[1].addr) /\ q[2].at \in {"insert", "dir", "end"}
        /\ q[2].at = "end" => q[2].cache \in L1
    BY <1>3 DEF Called
  <1>6. q[1].addr \in Addr \union {None} /\ q[1].cache \in Cache
    BY <1>1 DEF FrameSet, AccessFrame, InvFrame
  <1> QED
    BY <1>3, <1>4, <1>5, <1>6, FrameFacts DEF FrameOK

(* The child that called an access is one of the cache's children. *)
LEMMA CallingChild ==
    ASSUME NEW c, NEW q, Sane(c, q), q # << >>, NEW f, f = q[1], f.kind = "access",
           f.cache \notin L1
    PROVE  /\ f.child \in Cache /\ Parent(f.child, f.addr) = f.cache
           /\ f.child \in Children(f.cache)
  <1>1. /\ q[2].cache = f.child /\ q[2].cache \in Cache /\ f.addr \in Addr \union {None}
        /\ Parent(q[2].cache, f.addr) = f.cache /\ f.cache \in Cache
    BY Caller
  <1> QED
    BY <1>1, ParentFacts, TreeAssumption

(* Nobody but the innermost call fills a filter. *)
LEMMA FillsReturn ==
    ASSUME NEW c, NEW q, Sane(c, q), q # << >>, NEW l
    PROVE  ~Fills(Tail(q), l)
  <1>1. q \in Seq(FrameSet) /\ Len(q) \in Nat \ {0}
    BY EmptySeq DEF Sane, FrameSet
  <1>2. CASE Len(q) = 1
    BY <1>1, <1>2, ReturnSeq DEF Fills
  <1>3. CASE Len(q) # 1
    <2>1. 2 \in 1..Len(q) /\ Called(q[2], q[2 - 1]) /\ Tail(q)[1] = q[2]
      BY <1>1, <1>3, ReturnSeq DEF Sane
    <2> QED
      BY <2>1 DEF Fills, Called
  <1> QED
    BY <1>2, <1>3

-----------------------------------------------------------------------------
(* A move leaves the access the core is in what it was; unless it is the   *)
(* innermost call it does not change at all.                               *)
Follows(q, r) ==
    /\ q # << >> /\ r # << >> /\ Base(r).cache = Base(q).cache
    /\ Base(r).at \in {"end", "fill"} => Base(r) = Base(q)

LEMMA BaseGoto ==
    ASSUME NEW c, NEW q, Sane(c, q), q # << >>, NEW f \in FrameSet, SameCall(f, q[1]),
           f.at \in {"end", "fill"} => f.cache \notin L1
    PROVE  Follows(q, <<f>> \o Tail(q))
  <1> DEFINE r == <<f>> \o Tail(q)
  <1>1. q \in Seq(FrameSet)
    BY DEF Sane, FrameSet
  <1>2. /\ r # << >> /\ Len(r) = Len(q) /\ Len(q) \in Nat \ {0}
        /\ r[1] = f /\ \A i \in 2..Len(q) : r[i] = q[i]
    BY <1>1, GotoSeq
  <1> HIDE DEF r
  <1>3. CASE Len(q) = 1
    BY <1>2, <1>3 DEF Sane, Follows, Base, SameCall, r
  <1>4. CASE Len(q) # 1
    BY <1>2, <1>4 DEF Follows, Base, r
  <1> QED
    BY <1>3, <1>4

LEMMA BaseCall ==
    ASSUME NEW c, NEW q, Sane(c, q), q # << >>, NEW f \in FrameSet, SameCall(f, q[1]),
           NEW g \in FrameSet, f.at \in {"end", "fill"} => f.cache \notin L1
    PROVE  Follows(q, <<g, f>> \o Tail(q))
  <1> DEFINE r == <<g, f>> \o Tail(q)
  <1>1. q \in Seq(FrameSet)
    BY DEF Sane, FrameSet
  <1>2. /\ r # << >> /\ Len(r) = Len(q) + 1 /\ Len(q) \in Nat \ {0}
        /\ r[2] = f /\ \A i \in 3..(Len(q) + 1) : r[i] = q[i - 1]
    BY <1>1, CallSeq
  <1> HIDE DEF r
  <1>3. CASE Len(q) = 1
    BY <1>2, <1>3 DEF Sane, Follows, Base, SameCall, r
  <1>4. CASE Len(q) # 1
    <2>1. Len(q) + 1 \in 3..(Len(q) + 1) /\ (Len(q) + 1) - 1 = Len(q)
      BY <1>2, <1>4
    <2>2. r[Len(q) + 1] = q[Len(q)]
      BY <1>2, <2>1
    <2> QED
      BY <1>2, <2>2 DEF Follows, Base, r
  <1> QED
    BY <1>3, <1>4

LEMMA BaseReturn ==
    ASSUME NEW c, NEW q, Sane(c, q), q # << >>, Tail(q) # << >>
    PROVE  Follows(q, Tail(q))
  <1>1. q \in Seq(FrameSet)
    BY DEF Sane, FrameSet
  <1> DEFINE r == Tail(q)
  <1>2. /\ Len(r) = Len(q) - 1 /\ Len(q) \in Nat \ {0}
        /\ \A i \in 1..(Len(q) - 1) : r[i] = q[i + 1]
        /\ r = << >> <=> Len(q) = 1
    BY <1>1, ReturnSeq
  <1> HIDE DEF r
  <1>3. Len(q) - 1 \in 1..(Len(q) - 1) /\ (Len(q) - 1) + 1 = Len(q)
    BY <1>2 DEF r
  <1>4. r[Len(r)] = q[Len(q)]
    BY <1>2, <1>3
  <1> QED
    BY <1>4 DEF Follows, Base, r

(* The innermost call of a core. *)
LEMMA TopFacts ==
    ASSUME Inner, NEW c \in Core, stack[c] # << >>
    PROVE  /\ Sane(c, stack[c]) /\ stack[c] \in Seq(FrameSet)
           /\ Top(c) = stack[c][1] /\ FrameOK(Top(c)) /\ Top(c) \in FrameSet
           /\ 1 \in 1..Len(stack[c])
  <1>1. Sane(c, stack[c]) /\ stack[c] \in Seq(FrameSet)
    BY DEF Inner, Sane, FrameSet
  <1>2. Top(c) = stack[c][1] /\ 1 \in 1..Len(stack[c])
    BY <1>1, EmptySeq DEF Top
  <1>3. FrameOK(Top(c))
    BY <1>1, <1>2 DEF Sane
  <1> QED
    BY <1>1, <1>2, <1>3, FrameFacts

(* A step of one core that takes and drops locks. *)
LEMMA LocksStep ==
    ASSUME Inner, NEW c \in Core, NEW r, stack' = [stack EXCEPT ![c] = r],
           bcc' \in [Cache -> Core \union {Free}], tcc' \in [Cache -> Core \union {Free}],
           filterLock' \in [L1 -> Core \union {Free}],
           \A k \in Cache : IF tcc'[k] = c THEN HoldsTop(r, k) ELSE tcc'[k] \in {tcc[k], Free},
           \A k \in Cache : IF bcc'[k] = c THEN HoldsBottom(r, k) ELSE bcc'[k] \in {bcc[k], Free},
           \A l \in L1 : /\ filterLock'[l] = c <=> Fills(r, l)
                         /\ \/ filterLock'[l] = filterLock[l]
                            \/ filterLock[l] \in {Free, c} /\ filterLock'[l] \in {Free, c}
    PROVE  Locks'
  <1>1. stack'[c] = r /\ \A d \in Core : d # c => stack'[d] = stack[d]
    BY DEF Inner
  <1>2. Free \notin Core
    BY TreeAssumption DEF Free
  <1>3. ASSUME NEW k \in Cache, NEW d \in Core
        PROVE  /\ tcc'[k] = d => HoldsTop(stack'[d], k)
               /\ bcc'[k] = d => HoldsBottom(stack'[d], k)
    <2>1. CASE d = c
      BY <1>1, <2>1
    <2>2. CASE d # c
      <3>1. tcc'[k] = d => tcc[k] = d
        BY <1>2, <2>2
      <3>2. bcc'[k] = d => bcc[k] = d
        BY <1>2, <2>2
      <3> QED
        BY <1>1, <2>2, <3>1, <3>2 DEF Inner, Locks
    <2> QED
      BY <2>1, <2>2
  <1>4. ASSUME NEW l \in L1, NEW d \in Core
        PROVE  filterLock'[l] = d <=> Fills(stack'[d], l)
    <2>1. CASE d = c
      BY <1>1, <2>1
    <2>2. CASE d # c
      <3>1. filterLock'[l] = d <=> filterLock[l] = d
        BY <1>2, <2>2
      <3> QED
        BY <1>1, <2>2, <3>1 DEF Inner, Locks
    <2> QED
      BY <2>1, <2>2
  <1> QED
    BY <1>3, <1>4 DEF Locks

(* A step of one core that may change the line it is an access for. *)
LEMMA FilterStep ==
    ASSUME Inner, NEW c \in Core, NEW r, stack' = [stack EXCEPT ![c] = r], Follows(stack[c], r),
           rd' = rd, wr' = wr,
           \A l \in L1 : /\ tag'[l] = tag[l]
                         /\ st'[l] = st[l] \/ (Accesses(stack[c], l) /\ Base(r).at # "fill")
    PROVE  FilterInv'
  <1>1. stack'[c] = r /\ \A d \in Core : d # c => stack'[d] = stack[d]
    BY DEF Inner
  <1> SUFFICES ASSUME NEW l \in L1 PROVE FilterOK(l, stack[CoreOf[l]])'
    BY DEF FilterInv
  <1>2. CoreOf[l] \in Core /\ FilterOK(l, stack[CoreOf[l]])
    BY TreeAssumption DEF Inner, FilterInv
  <1>3. Backed(l) /\ st'[l] = st[l] => Backed(l)'
    BY DEF Backed, Valid
  <1>4. Accesses(stack[c], l) => CoreOf[l] = c
    BY DEF Inner, Sane, Accesses, Base
  <1>5. CASE CoreOf[l] # c
    BY <1>1, <1>2, <1>3, <1>4, <1>5 DEF FilterOK
  <1>6. CASE CoreOf[l] = c
    <2>1. Accesses(r, l) <=> Accesses(stack[c], l)
      BY DEF Follows, Accesses
    <2>2. CASE ~Accesses(stack[c], l)
      BY <1>1, <1>2, <1>3, <1>6, <2>1, <2>2 DEF FilterOK
    <2>3. CASE Accesses(stack[c], l)
      BY <1>1, <1>2, <1>6, <2>1, <2>3 DEF FilterOK, Follows
    <2> QED
      BY <2>2, <2>3
  <1> QED
    BY <1>5, <1>6

LEMMA SaneStep ==
    ASSUME Inner, NEW c \in Core, NEW r, Sane(c, r), stack' = [stack EXCEPT ![c] = r]
    PROVE  (\A d \in Core : Sane(d, stack'[d])) /\ DOMAIN stack' = Core
  BY DEF Inner

(* A call that goes on, at another place: g is what becomes of f. *)
Moves(g, f, a, t, s, d) ==
    /\ g \in AccessFrame /\ SameCall(g, f) /\ g.kind = "access" /\ g.at = a
    /\ g.cache = f.cache /\ g.addr = f.addr /\ g.type = t /\ g.line = s /\ g.todo = d

LEMMA MoveAt ==
    ASSUME NEW f \in AccessFrame, NEW a \in Ats
    PROVE  Moves([f EXCEPT !.at = a], f, a, f.type, f.line, f.todo)
  BY DEF Moves, AccessFrame, SameCall

LEMMA MoveTodo ==
    ASSUME NEW f \in AccessFrame, NEW a \in Ats, NEW d \in SUBSET Cache
    PROVE  Moves([f EXCEPT !.at = a, !.todo = d], f, a, f.type, f.line, d)
  BY DEF Moves, AccessFrame, SameCall

LEMMA MoveFound ==
    ASSUME NEW f \in AccessFrame, NEW a \in Ats, NEW t \in {"GETS", "GETX", "PUTS", "PUTX"},
           NEW s \in Nat, NEW d \in SUBSET Cache
    PROVE  /\ Moves([[f EXCEPT !.type = t] EXCEPT !.at = a], f, a, t, f.line, f.todo)
           /\ Moves([[f EXCEPT !.type = t] EXCEPT !.at = a, !.line = s], f, a, t, s, f.todo)
           /\ Moves([[f EXCEPT !.type = t] EXCEPT !.at = a, !.line = s, !.todo = d], f, a, t, s, d)
  BY DEF Moves, AccessFrame, SameCall

LEMMA MoveSent ==
    ASSUME NEW f \in FrameSet, NEW d \in SUBSET Cache, NEW g, g = [f EXCEPT !.todo = d]
    PROVE  /\ g \in FrameSet /\ SameCall(g, f) /\ g.at = f.at /\ g.kind = f.kind
           /\ g.cache = f.cache /\ g.type = f.type /\ g.addr = f.addr /\ g.line = f.line
           /\ g.todo = d
  <1>1. CASE f \in AccessFrame
    BY <1>1 DEF FrameSet, AccessFrame, SameCall
  <1>2. CASE f \in InvFrame
    BY <1>2 DEF FrameSet, InvFrame, SameCall
  <1> QED
    BY <1>1, <1>2 DEF FrameSet

(* A call just made. *)
Begins(g, k, t, a, ch, s) ==
    /\ FrameOK(g) /\ g \in FrameSet /\ g.kind = "access"
    /\ g.at = (IF k \in L1 THEN "lockBcc" ELSE "lockTcc")
    /\ g.cache = k /\ g.child = ch /\ g.slot = s /\ g.type = t /\ g.addr = a

LEMMA AccessCall ==
    ASSUME NEW k \in Cache, NEW t \in {"GETS", "GETX", "PUTS", "PUTX"},
           NEW a \in Addr \union {None}, NEW ch \in Cache \union {None}, NEW s \in Nat,
           NEW i \in MESIStates, NEW x \in BOOLEAN, k \in L1 => t \in {"GETS", "GETX"}
    PROVE  Begins(Access(k, t, a, ch, s, i, x), k, t, a, ch, s)
  <1> DEFINE g == Access(k, t, a, ch, s, i, x)
  <1>1. /\ g \in AccessFrame /\ g.kind = "access"
        /\ g.at = (IF k \in L1 THEN "lockBcc" ELSE "lockTcc") /\ g.todo = {}
        /\ g.cache = k /\ g.child = ch /\ g.slot = s /\ g.type = t /\ g.addr = a
    BY DEF Access, AccessFrame, Ats
  <1> HIDE DEF g
  <1>2. FrameOK(g)
    BY <1>1 DEF FrameOK
  <1> QED
    BY <1>1, <1>2 DEF FrameSet, Begins, g

LEMMA InvCall ==
    ASSUME NEW k \in Cache, NEW t \in {"INV", "INVX"}, NEW a \in Addr \union {None},
           NEW s \in Slots(k), NEW d \in SUBSET Children(k)
    PROVE  LET g == Invalidate(k, t, a, s, d)
           IN  FrameOK(g) /\ g \in FrameSet /\ g.kind = "inv" /\ g.cache = k /\ g.at = "down"
  <1> DEFINE g == Invalidate(k, t, a, s, d)
  <1>1. s \in Nat /\ d \in SUBSET Cache
    BY DEF Slots, Children
  <1>2. /\ g \in InvFrame /\ g.kind = "inv" /\ g.at = "down" /\ g.todo = d
        /\ g.cache = k /\ g.line = s
    BY <1>1 DEF Invalidate, InvFrame
  <1> HIDE DEF g
  <1>3. FrameOK(g)
    BY <1>2 DEF FrameOK
  <1> QED
    BY <1>2, <1>3 DEF FrameSet, g

(* A cell of the tag, state or directory array is written. *)
LEMMA WriteCell ==
    ASSUME NEW x, NEW V, IsArray(x, V), NEW k \in Cache, NEW s, NEW v \in V
    PROVE  IsArray([x EXCEPT ![k][s] = v], V)
  BY DEF IsArray

LEMMA WriteTwo ==
    ASSUME NEW x, NEW V, IsArray(x, V), NEW k \in Cache, NEW j \in Cache, NEW s, NEW u,
           NEW v \in V, NEW w \in V
    PROVE  IsArray([x EXCEPT ![j][u] = v, ![k][s] = w], V)
  BY DEF IsArray

-----------------------------------------------------------------------------
(* Each action keeps the invariant. *)
LEMMA ReplaceStep ==
    ASSUME Inner, NEW c \in Core, Replace(c)
    PROVE  Inner'
  <1>1. PICK l \in L1, a \in Addr, type \in {"GETS", "GETX"} :
            /\ stack[c] = << >> /\ CoreOf[l] = c
            /\ stack' = [stack EXCEPT ![c] = <<Access(l, type, a, None, 0, "I", l \in ICache)>>]
            /\ UNCHANGED <<tag, st, dir, bcc, tcc, filterLock, rd, wr, wb, dirty, failed>>
    BY DEF Replace
  <1> DEFINE g == Access(l, type, a, None, 0, "I", l \in ICache)
             r == <<g>>
  <1>2. /\ FrameOK(g) /\ g \in FrameSet /\ g.kind = "access" /\ g.at = "lockBcc" /\ g.cache = l
    <2>1. /\ l \in Cache /\ type \in {"GETS", "GETX", "PUTS", "PUTX"} /\ a \in Addr \union {None}
          /\ None \in Cache \union {None} /\ 0 \in Nat /\ "I" \in MESIStates
          /\ (l \in ICache) \in BOOLEAN
      BY TreeAssumption DEF MESIStates
    <2>2. l \in L1 => type \in {"GETS", "GETX"}
      OBVIOUS
    <2>3. Begins(g, l, type, a, None, 0)
      BY <2>1, <2>2, AccessCall, Zenon
    <2> HIDE DEF g
    <2> QED
      BY <2>3 DEF Begins
  <1> HIDE DEF g
  <1>3. r \in Seq(FrameSet) /\ Len(r) = 1 /\ r[1] = g /\ r # << >>
    BY <1>2
  <1> HIDE DEF r
  <1>4. Sane(c, r)
    BY <1>1, <1>2, <1>3 DEF Sane, Ordered, FrameSet
  <1>5. stack' = [stack EXCEPT ![c] = r]
    BY <1>1 DEF r, g
  <1>6. Locks'
    <2>1. \A k \in Cache : tcc[k] # c /\ bcc[k] # c
      BY <1>1 DEF Inner, Locks, HoldsTop, HoldsBottom
    <2>2. \A k \in L1 : filterLock[k] # c
      BY <1>1 DEF Inner, Locks, Fills
    <2>3. \A k \in L1 : ~Fills(r, k)
      BY <1>2, <1>3 DEF Fills
    <2>4. bcc' = bcc /\ tcc' = tcc /\ filterLock' = filterLock
      BY <1>1
    <2>5. /\ bcc \in [Cache -> Core \union {Free}] /\ tcc \in [Cache -> Core \union {Free}]
          /\ filterLock \in [L1 -> Core \union {Free}]
      BY DEF Inner, Locks
    <2> QED
      BY <1>5, <2>1, <2>2, <2>3, <2>4, <2>5, LocksStep
  <1>7. FilterInv'
    <2> SUFFICES ASSUME NEW m \in L1 PROVE FilterOK(m, stack[CoreOf[m]])'
      BY DEF FilterInv
    <2>1. FilterOK(m, stack[CoreOf[m]]) /\ CoreOf[m] \in Core
      BY TreeAssumption DEF Inner, FilterInv
    <2>2. Backed(m) => Backed(m)'
      BY <1>1 DEF Backed, Valid
    <2>3. CASE CoreOf[m] = c
      <3>1. stack'[CoreOf[m]] = r /\ ~Accesses(stack[CoreOf[m]], m)
        BY <1>1, <1>5, <2>3 DEF Inner, Accesses
      <3>2. Accesses(r, m) => Base(r).at = "lockBcc"
        BY <1>2, <1>3 DEF Base
      <3> QED
        BY <1>1, <2>1, <2>2, <3>1, <3>2 DEF FilterOK
    <2>4. CASE CoreOf[m] # c
      <3>1. stack'[CoreOf[m]] = stack[CoreOf[m]]
        BY <1>5, <2>1, <2>4 DEF Inner
      <3> QED
        BY <1>1, <2>1, <2>2, <3>1 DEF FilterOK
    <2> QED
      BY <2>3, <2>4
  <1>8. Arrays' /\ Filters'
    BY <1>1 DEF Inner, Arrays, Filters
  <1> QED
    BY <1>4, <1>5, <1>6, <1>7, <1>8, SaneStep DEF Inner

LEMMA ContextSwitchStep ==
    ASSUME Inner, NEW c \in Core, ContextSwitch(c)
    PROVE  Inner'
  <1>1. PICK l \in L1 :
            /\ rd' = [rd EXCEPT ![l] = None] /\ wr' = [wr EXCEPT ![l] = None]
            /\ UNCHANGED <<tag, st, dir, bcc, tcc, filterLock, stack, wb, dirty, failed>>
    BY DEF ContextSwitch
  <1>2. Locks' /\ Arrays' /\ Filters'
    BY <1>1 DEF Inner, Locks, Arrays, Filters
  <1>3. FilterInv'
    <2> SUFFICES ASSUME NEW m \in L1 PROVE FilterOK(m, stack[CoreOf[m]])'
      BY DEF FilterInv
    <2>1. FilterOK(m, stack[CoreOf[m]])
      BY DEF Inner, FilterInv
    <2>2. (rd'[m] = None /\ wr'[m] = None) \/ (rd'[m] = rd[m] /\ wr'[m] = wr[m])
      BY <1>1 DEF Inner, Filters
    <2> QED
      BY <1>1, <2>1, <2>2 DEF FilterOK, Backed, Valid
  <1> QED
    BY <1>1, <1>2, <1>3 DEF Inner

LEMMA LockTccStep ==
    ASSUME Inner, NEW c \in Core, LockTcc(c)
    PROVE  Inner'
  <1> DEFINE q == stack[c]
             k == Top(c).cache
             f == [Top(c) EXCEPT !.at = "lockBcc"]
             r == <<f>> \o Tail(q)
  <1>1. /\ q # << >> /\ Top(c).kind = "access" /\ Top(c).at = "lockTcc"
        /\ tcc[k] = Free /\ tcc' = [tcc EXCEPT ![k] = c]
        /\ stack' = [stack EXCEPT ![c] = r]
        /\ UNCHANGED <<tag, st, dir, bcc, filterLock, rd, wr, wb, dirty, failed>>
    BY DEF LockTcc, In, Goto
  <1>2. /\ Sane(c, q) /\ q \in Seq(FrameSet) /\ Top(c) = q[1] /\ FrameOK(q[1])
    BY <1>1, TopFacts
  <1>3. Top(c) \in AccessFrame /\ k \in Cache
    BY <1>1, <1>2, FrameFacts
  <1>4. /\ f \in AccessFrame /\ SameCall(f, q[1]) /\ f.at = "lockBcc" /\ f.kind = "access"
        /\ f.cache = k /\ f.type = q[1].type /\ f.todo = q[1].todo
    <2>1. Top(c) \in AccessFrame /\ "lockBcc" \in Ats
      BY <1>3 DEF Ats
    <2>2. Moves(f, Top(c), "lockBcc", Top(c).type, Top(c).line, Top(c).todo)
      BY <2>1, MoveAt, Zenon
    <2> HIDE DEF f, q
    <2> QED
      BY <1>2, <2>2 DEF Moves
  <1> HIDE DEF f
  <1>5. FrameOK(f) /\ f \in FrameSet
    BY <1>1, <1>2, <1>4 DEF FrameOK, FrameSet
  <1>6. Sane(c, r)
    BY <1>1, <1>2, <1>4, <1>5, SaneGoto
  <1>7. Follows(q, r)
    BY <1>1, <1>2, <1>4, <1>5, BaseGoto
  <1>8. r # << >> /\ r[1] = f /\ 1 \in 1..Len(r)
    BY <1>1, <1>2, <1>5, GotoSeq
  <1>9. Locks'
    <2>1. /\ bcc \in [Cache -> Core \union {Free}] /\ tcc \in [Cache -> Core \union {Free}]
          /\ filterLock \in [L1 -> Core \union {Free}]
      BY DEF Inner, Locks
    <2>2. \A j \in Cache : HoldsTop(q, j) => HoldsTop(r, j)
      BY <1>1, <1>2, <1>4, <1>5, TopGoto
    <2>3. HoldsTop(r, k)
      BY <1>1, <1>2, <1>4, <1>8 DEF HoldsTop, FrameOK
    <2>4. \A j \in Cache : bcc[j] # c
      BY <1>1, <1>2, BottomAlone DEF Inner, Locks
    <2>5. \A l \in L1 : ~Fills(r, l) /\ filterLock[l] # c
      BY <1>1, <1>2, <1>4, <1>8 DEF Inner, Locks, Fills
    <2> HIDE DEF r, q, k
    <2>6. \A j \in Cache : IF tcc'[j] = c THEN HoldsTop(r, j) ELSE tcc'[j] \in {tcc[j], Free}
      BY <1>1, <2>1, <2>2, <2>3 DEF Inner, Locks, q
    <2>7. tcc' \in [Cache -> Core \union {Free}] /\ bcc' = bcc /\ filterLock' = filterLock
      BY <1>1, <2>1
    <2> QED
      BY <1>1, <2>1, <2>4, <2>5, <2>6, <2>7, LocksStep, ZenonT(30)
  <1>10. FilterInv'
    <2> HIDE DEF r, q, k
    <2> QED
      BY <1>1, <1>7, FilterStep DEF q
  <1>11. Arrays' /\ Filters'
    BY <1>1 DEF Inner, Arrays, Filters
  <1> QED
    BY <1>1, <1>6, <1>9, <1>10, <1>11, SaneStep DEF Inner

(* An access goes on with its locks. *)
Stacks == (\A c \in Core : Sane(c, stack[c])) /\ DOMAIN stack = Core

LEMMA GotoStep ==
    ASSUME Inner, NEW c \in Core, stack[c] # << >>, Top(c).kind = "access", Top(c).at # "fill",
           NEW f, FrameOK(f), SameCall(f, Top(c)), f.at \notin {"lockTcc", "lockBcc", "fill"},
           Goto(c, f), tcc' = tcc, filterLock' = filterLock,
           bcc' = bcc \/ bcc' = [bcc EXCEPT ![Top(c).cache] = c]
    PROVE  /\ Stacks' /\ Locks' /\ stack' = [stack EXCEPT ![c] = <<f>> \o Tail(stack[c])]
           /\ (f.at = "end" => f.cache \notin L1) => Follows(stack[c], <<f>> \o Tail(stack[c]))
  <1> DEFINE q == stack[c]
             k == Top(c).cache
             r == <<f>> \o Tail(q)
  <1>1. stack' = [stack EXCEPT ![c] = r]
    BY DEF Goto
  <1>2. Sane(c, q) /\ q \in Seq(FrameSet) /\ Top(c) = q[1] /\ FrameOK(q[1])
    BY TopFacts
  <1>3. k \in Cache /\ f \in FrameSet /\ f.kind = "access" /\ f.cache = k
    BY <1>2, FrameFacts DEF SameCall
  <1>4. Sane(c, r)
    BY <1>2, SaneGoto
  <1>5. r # << >> /\ r[1] = f /\ 1 \in 1..Len(r)
    BY <1>2, <1>3, GotoSeq
  <1>6. Stacks'
    BY <1>1, <1>4, SaneStep DEF Stacks
  <1>7. Locks'
    <2>1. /\ bcc \in [Cache -> Core \union {Free}] /\ tcc \in [Cache -> Core \union {Free}]
          /\ filterLock \in [L1 -> Core \union {Free}]
      BY DEF Inner, Locks
    <2>2. \A j \in Cache : HoldsTop(q, j) => HoldsTop(r, j)
      BY <1>2, <1>3, TopGoto
    <2>3. \A j \in Cache : HoldsBottom(q, j) => HoldsBottom(r, j)
      BY <1>2, <1>3, BottomGoto
    <2>4. HoldsBottom(r, k)
      BY <1>3, <1>5 DEF HoldsBottom, HasBottom
    <2>5. \A l \in L1 : ~Fills(r, l) /\ filterLock[l] # c
      BY <1>2, <1>3, <1>5 DEF Inner, Locks, Fills
    <2> HIDE DEF r, q, k
    <2>6. \A j \in Cache : IF tcc'[j] = c THEN HoldsTop(r, j) ELSE tcc'[j] \in {tcc[j], Free}
      BY <2>1, <2>2 DEF Inner, Locks, q
    <2>7. \A j \in Cache : IF bcc'[j] = c THEN HoldsBottom(r, j) ELSE bcc'[j] \in {bcc[j], Free}
      BY <2>1, <2>3, <2>4 DEF Inner, Locks, q, k
    <2>8. bcc' \in [Cache -> Core \union {Free}]
      BY <2>1
    <2> QED
      BY <1>1, <2>1, <2>5, <2>6, <2>7, <2>8, LocksStep
  <1>8. (f.at = "end" => f.cache \notin L1) => Follows(q, r)
    BY <1>2, <1>3, BaseGoto
  <1> QED
    BY <1>1, <1>6, <1>7, <1>8

(* An access calls the parent's and lets its bottom lock go. *)
LEMMA CallUpStep ==
    ASSUME Inner, NEW c \in Core, stack[c] # << >>, Top(c).kind = "access", Top(c).at # "fill",
           NEW f, FrameOK(f), SameCall(f, Top(c)), f.at \notin {"lockTcc", "lockBcc", "fill"},
           NEW g, FrameOK(g), Called(f, g), g.kind = "access", g.at # "fill",
           CallFrom(c, f, g), tcc' = tcc, filterLock' = filterLock, DropChildLock(Top(c).cache)
    PROVE  /\ Stacks' /\ Locks' /\ stack' = [stack EXCEPT ![c] = <<g, f>> \o Tail(stack[c])]
           /\ (f.at = "end" => f.cache \notin L1) => Follows(stack[c], <<g, f>> \o Tail(stack[c]))
  <1> DEFINE q == stack[c]
             k == Top(c).cache
             r == <<g, f>> \o Tail(q)
  <1>1. stack' = [stack EXCEPT ![c] = r] /\ bcc' = [bcc EXCEPT ![k] = Free]
    BY DEF CallFrom, DropChildLock
  <1>2. Sane(c, q) /\ q \in Seq(FrameSet) /\ Top(c) = q[1] /\ FrameOK(q[1])
    BY TopFacts
  <1>3. k \in Cache /\ f \in FrameSet /\ g \in FrameSet
    BY <1>2, FrameFacts
  <1>4. Sane(c, r)
    BY <1>2, SaneCall
  <1>5. r # << >> /\ r[1] = g
    BY <1>2, <1>3, CallSeq
  <1>6. Stacks'
    BY <1>1, <1>4, SaneStep DEF Stacks
  <1>7. Locks'
    <2>1. /\ bcc \in [Cache -> Core \union {Free}] /\ tcc \in [Cache -> Core \union {Free}]
          /\ filterLock \in [L1 -> Core \union {Free}] /\ Free \notin Core
      BY TreeAssumption DEF Inner, Locks, Free
    <2>2. \A j \in Cache : HoldsTop(q, j) => HoldsTop(r, j)
      BY <1>2, <1>3, TopCall
    <2>3. \A j \in Cache : HoldsBottom(q, j) => j = k
      BY <1>2, BottomAlone
    <2>5. \A l \in L1 : ~Fills(r, l) /\ filterLock[l] # c
      BY <1>2, <1>5 DEF Inner, Locks, Fills
    <2> HIDE DEF r, q, k
    <2>6. \A j \in Cache : IF tcc'[j] = c THEN HoldsTop(r, j) ELSE tcc'[j] \in {tcc[j], Free}
      BY <2>1, <2>2 DEF Inner, Locks, q
    <2>7. \A j \in Cache : IF bcc'[j] = c THEN HoldsBottom(r, j) ELSE bcc'[j] \in {bcc[j], Free}
      BY <1>1, <1>3, <2>1, <2>3 DEF Inner, Locks, q
    <2>8. bcc' \in [Cache -> Core \union {Free}]
      BY <1>1, <2>1
    <2> QED
      BY <1>1, <2>1, <2>5, <2>6, <2>7, <2>8, LocksStep
  <1>8. (f.at = "end" => f.cache \notin L1) => Follows(q, r)
    BY <1>2, <1>3, BaseCall
  <1> QED
    BY <1>1, <1>6, <1>7, <1>8

LEMMA LockBccStep ==
    ASSUME Inner, ~failed, ~failed', NEW c \in Core, LockBcc(c)
    PROVE  Inner'
  <1> DEFINE f == Top(c)
             k == f.cache
             t == TypeAfterRace(f)
             g == [f EXCEPT !.type = t]
  <1>1. /\ stack[c] # << >> /\ f.kind = "access" /\ f.at = "lockBcc"
        /\ bcc' = [bcc EXCEPT ![k] = c]
        /\ UNCHANGED <<tag, st, dir, tcc, filterLock, rd, wr, dirty>>
    BY DEF LockBcc, In
  <1>2. FrameOK(f) /\ f \in AccessFrame /\ k \in Cache
    BY <1>1, TopFacts, FrameFacts
  <1>3. /\ f.todo = {} /\ f.type \in {"GETS", "GETX", "PUTS", "PUTX"} /\ t \in {"GETS", "GETX", "PUTS", "PUTX"}
        /\ k \in L1 => f.type \in {"GETS", "GETX"} /\ t = f.type
    BY <1>1, <1>2 DEF FrameOK, AccessFrame, TypeAfterRace
  <1>4. PICK h : /\ Goto(c, h) /\ FrameOK(h) /\ SameCall(h, f) /\ h.at \in {"end", "access", "evict"}
                 /\ h.at = "end" => k \notin L1
    <2>1. CASE SkipAccess(f) /\ Goto(c, [g EXCEPT !.at = "end"])
      <3> DEFINE h == [g EXCEPT !.at = "end"]
      <3>1. Moves(h, f, "end", t, f.line, f.todo)
        <4>1. "end" \in Ats /\ 0 \in Nat /\ {} \in SUBSET Cache
          BY DEF Ats
        <4> QED
          BY <1>2, <1>3, <4>1, MoveFound, Zenon
      <3> HIDE DEF h
      <3>2. k \notin L1
        BY <1>3, <2>1 DEF SkipAccess, IsPut
      <3>3. FrameOK(h) /\ SameCall(h, f) /\ h.at = "end"
        BY <1>2, <1>3, <3>1, <3>2 DEF Moves, FrameOK
      <3> QED
        BY <2>1, <3>2, <3>3 DEF h
    <2>2. CASE \E s \in Holding(k, f.addr) : Goto(c, [g EXCEPT !.at = "access", !.line = s])
      <3>1. PICK s \in Holding(k, f.addr) : Goto(c, [g EXCEPT !.at = "access", !.line = s])
        BY <2>2
      <3> DEFINE h == [g EXCEPT !.at = "access", !.line = s]
      <3>2. s \in Slots(k) /\ s \in Nat
        BY DEF Holding, Slots
      <3>3. Moves(h, f, "access", t, s, f.todo)
        <4>1. "access" \in Ats /\ {} \in SUBSET Cache
          BY DEF Ats
        <4> QED
          BY <1>2, <1>3, <3>2, <4>1, MoveFound, Zenon
      <3> HIDE DEF h
      <3>4. FrameOK(h) /\ SameCall(h, f) /\ h.at = "access"
        BY <1>2, <1>3, <3>2, <3>3 DEF Moves, FrameOK
      <3> QED
        BY <3>1, <3>4 DEF h
    <2>3. CASE \E s \in Slots(k) : Goto(c, [g EXCEPT !.at = "evict", !.line = s, !.todo = EvictFrom(k, s)])
      <3>1. PICK s \in Slots(k) : Goto(c, [g EXCEPT !.at = "evict", !.line = s, !.todo = EvictFrom(k, s)])
        BY <2>3
      <3> DEFINE d == EvictFrom(k, s)
                 h == [g EXCEPT !.at = "evict", !.line = s, !.todo = d]
      <3>2. s \in Nat /\ d \subseteq Children(k) /\ d \in SUBSET Cache
        BY <1>2 DEF Slots, EvictFrom, Inner, Arrays, Children
      <3> HIDE DEF d
      <3>3. Moves(h, f, "evict", t, s, d)
        <4>1. "evict" \in Ats
          BY DEF Ats
        <4> QED
          BY <1>2, <1>3, <3>2, <4>1, MoveFound, Zenon
      <3> HIDE DEF h
      <3>4. FrameOK(h) /\ SameCall(h, f) /\ h.at = "evict"
        BY <1>2, <1>3, <3>2, <3>3 DEF Moves, FrameOK
      <3> QED
        BY <3>1, <3>4 DEF h, d
    <2> QED
      BY <2>1, <2>2, <2>3 DEF LockBcc
  <1> DEFINE r == <<h>> \o Tail(stack[c])
  <1>5. /\ Stacks' /\ Locks' /\ stack' = [stack EXCEPT ![c] = r] /\ Follows(stack[c], r)
    <2>1. h.cache = k
      BY <1>4 DEF SameCall
    <2> HIDE DEF f, k, g, t
    <2>2. h.at \notin {"lockTcc", "lockBcc", "fill"} /\ f.at # "fill"
      BY <1>1, <1>4
    <2> QED
      BY <1>1, <1>4, <2>1, <2>2, GotoStep DEF f, k
  <1> HIDE DEF r
  <1>6. FilterInv'
    BY <1>1, <1>5, FilterStep
  <1> QED
    BY <1>1, <1>5, <1>6 DEF Inner, Stacks, Arrays, Filters

(* The directory: a written entry lists children only. *)
DirOK(x) ==
    /\ IsArray(x, Entries)
    /\ \A k \in Cache : \A s \in Slots(k) : x[k][s].sharers \subseteq Children(k)

LEMMA WriteDir ==
    ASSUME NEW x, DirOK(x), NEW k \in Cache, NEW s \in Slots(k), NEW v \in Entries,
           v.sharers \subseteq Children(k)
    PROVE  DirOK([x EXCEPT ![k][s] = v])
  BY DEF DirOK, IsArray

LEMMA EntryFacts ==
    ASSUME Inner, NEW k \in Cache, NEW s \in Slots(k)
    PROVE  /\ DirOK(dir) /\ dir[k][s] \in Entries /\ dir[k][s].sharers \subseteq Children(k)
           /\ dir[k][s].n \in Int /\ dir[k][s].excl \in BOOLEAN
           /\ st[k][s] \in MESIStates /\ tag[k][s] \in Addr \union {None}
  BY DEF Inner, Arrays, DirOK, IsArray, Entries

LEMMA SendInvalidateStep ==
    ASSUME Inner, ~failed, ~failed', NEW c \in Core, SendInvalidate(c)
    PROVE  Inner'
  <1> DEFINE f == Top(c)
             q == stack[c]
             ch == NextChild(f)
             type == InvType(f)
             a == InvAddr(f)
             s == CHOOSE i \in Holding(ch, a) : TRUE
             e == dir[ch][s]
             todo == IF type = "INVX" /\ ~IsExclusive(e) THEN {} ELSE e.sharers
             g == Invalidate(ch, type, a, s, todo)
             d == f.todo \ {ch}
             h == [f EXCEPT !.todo = d]
             r == <<g, h>> \o Tail(q)
  <1>1. /\ q # << >> /\ f.at \in {"evict", "grant", "down"} /\ f.todo # {}
        /\ bcc' = [bcc EXCEPT ![ch] = c]
        /\ dir' = IF type = "INV" THEN [dir EXCEPT ![f.cache][f.line].sharers = @ \ {ch}] ELSE dir
        /\ UNCHANGED <<tag, st, tcc, filterLock, rd, wr, wb, dirty>>
    BY DEF SendInvalidate
  <1>2. Check(Holding(ch, a) # {})
    BY DEF SendInvalidate
  <1>3. Holding(ch, a) # {}
    BY <1>2 DEF Check
  <1>4. stack' = [stack EXCEPT ![c] = r]
    BY <1>3 DEF SendInvalidate, CallFrom
  <1>5. /\ Sane(c, q) /\ q \in Seq(FrameSet) /\ f = q[1] /\ FrameOK(f) /\ f \in FrameSet
        /\ f.cache \in Cache /\ f.kind \in {"access", "inv"}
    BY <1>1, TopFacts, FrameFacts
  <1>6. ch \in f.todo /\ f.todo \subseteq Children(f.cache)
    BY <1>1, <1>5 DEF NextChild, FrameOK
  <1>7. ch \in Cache /\ ch \in Children(f.cache)
    BY <1>6 DEF Children
  <1>8. s \in Slots(ch)
    BY <1>3 DEF Holding
  <1>9. type \in {"INV", "INVX"}
    <2>1. f.at = "down" => f \in InvFrame
      BY <1>5, FrameFacts
    <2>2. f.at = "down" => f.type \in {"INV", "INVX"}
      BY <2>1 DEF InvFrame
    <2> QED
      BY <1>1, <2>2 DEF InvType
  <1>10. f.line \in Slots(f.cache)
    BY <1>1, <1>5 DEF FrameOK
  <1>11. a \in Addr \union {None}
    <2>1. tag[f.cache][f.line] \in Addr \union {None}
      BY <1>5, <1>10, EntryFacts
    <2>2. f.addr \in Addr \union {None}
      BY <1>5 DEF FrameSet, AccessFrame, InvFrame
    <2> QED
      BY <2>1, <2>2 DEF InvAddr
  <1>12. todo \in SUBSET Children(ch)
    BY <1>7, <1>8, EntryFacts
  <1>13. FrameOK(g) /\ g \in FrameSet /\ g.kind = "inv" /\ g.cache = ch /\ g.at = "down"
    <2> HIDE DEF f, ch, type, a, s, e, todo
    <2> QED
      BY <1>7, <1>8, <1>9, <1>11, <1>12, InvCall
  <1> HIDE DEF g
  <1>14. d \subseteq Children(f.cache) /\ d \in SUBSET Cache
    BY <1>6 DEF Children
  <1>15. /\ h \in FrameSet /\ SameCall(h, f) /\ h.at = f.at /\ h.kind = f.kind
         /\ h.cache = f.cache /\ h.type = f.type /\ h.addr = f.addr /\ h.line = f.line
         /\ h.todo = d
    <2> HIDE DEF f, ch, d
    <2>1. f \in FrameSet /\ d \in SUBSET Cache /\ h = [f EXCEPT !.todo = d]
      BY <1>5, <1>14
    <2> HIDE DEF h
    <2> QED
      BY <2>1, MoveSent
  <1> HIDE DEF h
  <1>16. FrameOK(h)
    <2> HIDE DEF f, d
    <2> QED
      BY <1>1, <1>5, <1>14, <1>15 DEF FrameOK, FrameSet
  <1>17. Called(h, g)
    BY <1>1, <1>7, <1>13, <1>15 DEF Called
  <1>18. Sane(c, r) /\ r # << >> /\ r[1] = g
    <2>1. SameCall(h, q[1])
      BY <1>5, <1>15
    <2> HIDE DEF q, f
    <2> QED
      BY <1>1, <1>5, <1>13, <1>15, <1>16, <1>17, <2>1, SaneCall, CallSeq
  <1>19. Locks'
    <2>1. /\ bcc \in [Cache -> Core \union {Free}] /\ tcc \in [Cache -> Core \union {Free}]
          /\ filterLock \in [L1 -> Core \union {Free}]
      BY DEF Inner, Locks
    <2>2. SameCall(h, q[1]) /\ h.at \notin {"lockTcc", "lockBcc", "fill"}
      BY <1>1, <1>5, <1>15
    <2>3. \A j \in Cache : HoldsTop(q, j) => HoldsTop(r, j)
      BY <1>1, <1>5, <1>13, <1>15, <2>2, TopCall
    <2>4. ASSUME NEW j \in Cache, HoldsBottom(q, j) \/ j = ch PROVE HoldsBottom(r, j)
      <3>1. /\ q \in Seq(FrameSet) /\ q # << >> /\ h \in FrameSet /\ SameCall(h, q[1])
            /\ g \in FrameSet /\ g.kind = "inv" /\ h.at \notin {"lockTcc", "lockBcc", "fill"}
        BY <1>1, <1>5, <1>13, <1>15, <2>2
      <3>2. HoldsBottom(q, j) \/ j = g.cache
        BY <1>13, <2>4
      <3> HIDE DEF q, f, ch
      <3> QED
        BY <3>1, <3>2, BottomCall, ZenonT(30)
    <2>5. \A l \in L1 : ~Fills(r, l) /\ filterLock[l] # c
      BY <1>1, <1>5, <1>13, <1>18 DEF Inner, Locks, Fills
    <2> HIDE DEF r, q, ch
    <2>6. \A j \in Cache : IF tcc'[j] = c THEN HoldsTop(r, j) ELSE tcc'[j] \in {tcc[j], Free}
      BY <1>1, <2>1, <2>3 DEF Inner, Locks, q
    <2>7. \A j \in Cache : IF bcc'[j] = c THEN HoldsBottom(r, j) ELSE bcc'[j] \in {bcc[j], Free}
      BY <1>1, <1>7, <2>1, <2>4 DEF Inner, Locks, q
    <2>8. bcc' \in [Cache -> Core \union {Free}] /\ filterLock' = filterLock /\ tcc' = tcc
      BY <1>1, <2>1
    <2> QED
      BY <1>4, <2>1, <2>5, <2>6, <2>7, <2>8, LocksStep
  <1>20. FilterInv'
    <2>1. Follows(q, r)
      BY <1>1, <1>5, <1>13, <1>15, BaseCall
    <2> HIDE DEF r, q, ch
    <2> QED
      BY <1>1, <1>4, <2>1, FilterStep DEF q
  <1>21. DirOK(dir')
    <2> DEFINE old == dir[f.cache][f.line]
               v == [old EXCEPT !.sharers = @ \ {ch}]
    <2>1. DirOK(dir) /\ old \in Entries /\ old.sharers \subseteq Children(f.cache)
      BY <1>5, <1>10, EntryFacts
    <2>2. dir' = [dir EXCEPT ![f.cache][f.line] = v] \/ dir' = dir
      BY <1>1
    <2>3. v \in Entries /\ v.sharers \subseteq Children(f.cache)
      <3> HIDE DEF old, f, ch
      <3> QED
        BY <2>1 DEF Entries
    <2> HIDE DEF v, old, f
    <2> QED
      BY <1>5, <1>10, <2>1, <2>2, <2>3, WriteDir
  <1>22. Arrays'
    BY <1>1, <1>21 DEF Inner, Arrays, DirOK
  <1> HIDE DEF r
  <1> QED
    BY <1>1, <1>4, <1>18, <1>19, <1>20, <1>22, SaneStep DEF Inner, Filters

(* The access of an L1 is all there is on its core's stack. *)
LEMMA OwnBase ==
    ASSUME NEW c, NEW q, Sane(c, q), q # << >>, q[1].kind = "access", q[1].cache \in L1
    PROVE  /\ Len(q) = 1 /\ CoreOf[q[1].cache] = c /\ Accesses(q, q[1].cache) /\ Base(q) = q[1]
           /\ Tail(q) = << >> /\ q \in Seq(FrameSet)
  <1>1. q \in Seq(FrameSet) /\ Len(q) \in Nat \ {0} /\ 1 \in 1..Len(q)
    BY EmptySeq DEF Sane, FrameSet
  <1>2. Len(q) = 1 /\ CoreOf[q[1].cache] = c
    BY <1>1, L1Base
  <1>3. Accesses(q, q[1].cache) /\ Base(q) = q[1]
    BY <1>2 DEF Accesses, Base
  <1>4. Tail(q) = << >>
    BY <1>1, <1>2, ReturnSeq
  <1> QED
    BY <1>1, <1>2, <1>3, <1>4

LEMMA OwnGoto ==
    ASSUME NEW c, NEW q, Sane(c, q), q # << >>, q[1].kind = "access", q[1].cache \in L1,
           NEW f \in FrameSet
    PROVE  Base(<<f>> \o Tail(q)) = f /\ <<f>> \o Tail(q) # << >>
  BY OwnBase, GotoSeq DEF Base

LEMMA OwnCall ==
    ASSUME NEW c, NEW q, Sane(c, q), q # << >>, q[1].kind = "access", q[1].cache \in L1,
           NEW f \in FrameSet, NEW g \in FrameSet
    PROVE  Base(<<g, f>> \o Tail(q)) = f /\ <<g, f>> \o Tail(q) # << >>
  BY OwnBase, CallSeq DEF Base

LEMMA EvictStep ==
    ASSUME Inner, NEW c \in Core, Evict(c)
    PROVE  Inner'
  <1> DEFINE f == Top(c)
             q == stack[c]
             k == f.cache
             s == f.line
             p == Parent(k, tag[k][s])
             state == IF wb[c] THEN "M" ELSE st[k][s]
             put == IF state = "M" THEN "PUTX" ELSE "PUTS"
             h == [f EXCEPT !.at = "insert"]
             g == Access(p, put, tag[k][s], k, s, state, FALSE)
  <1>1. /\ q # << >> /\ f.kind = "access" /\ f.at = "evict" /\ f.todo = {}
        /\ dir' = [dir EXCEPT ![k][s].n = 0]
        /\ UNCHANGED <<tag, tcc, filterLock, rd, wr, wb>>
    BY DEF Evict, In
  <1>2. \/ st' = [st EXCEPT ![k][s] = "I"] /\ Goto(c, h) /\ bcc' = bcc
        \/ /\ p # Mem /\ st' = [st EXCEPT ![k][s] = state]
           /\ CallFrom(c, h, g) /\ DropChildLock(k)
    BY DEF Evict
  <1>3. /\ Sane(c, q) /\ q \in Seq(FrameSet) /\ f = q[1] /\ FrameOK(f) /\ f \in AccessFrame
        /\ k \in Cache /\ s \in Slots(k)
    <2>1. FrameOK(f) /\ Sane(c, q) /\ q \in Seq(FrameSet) /\ f = q[1]
      BY <1>1, TopFacts
    <2> QED
      BY <1>1, <2>1, FrameFacts DEF FrameOK
  <1>4. state \in MESIStates /\ tag[k][s] \in Addr \union {None}
    BY <1>3, EntryFacts DEF MESIStates
  <1>5. Moves(h, f, "insert", f.type, s, {})
    <2>1. Moves(h, f, "insert", f.type, s, f.todo)
      <3>1. "insert" \in Ats
        BY DEF Ats
      <3> QED
        BY <1>3, <3>1, MoveAt, Zenon
    <2> QED
      BY <1>1, <2>1
  <1> HIDE DEF h
  <1>6. FrameOK(h) /\ SameCall(h, f) /\ h.at = "insert" /\ h \in FrameSet /\ h.kind = "access" /\ h.cache = k
    BY <1>1, <1>3, <1>5 DEF FrameOK, Moves, FrameSet
  <1>7. PICK r : /\ Stacks' /\ Locks' /\ stack' = [stack EXCEPT ![c] = r] /\ Follows(q, r)
                 /\ k \in L1 => Base(r) = h
    <2>1. CASE Goto(c, h) /\ bcc' = bcc
      <3> DEFINE r == <<h>> \o Tail(q)
      <3>1. k \in L1 => Base(r) = h
        BY <1>1, <1>3, <1>6, OwnGoto
      <3>2. Stacks' /\ Locks' /\ stack' = [stack EXCEPT ![c] = r] /\ Follows(q, r)
        BY <1>1, <1>3, <1>6, <2>1, GotoStep
      <3> QED
        BY <3>1, <3>2
    <2>2. CASE p # Mem /\ CallFrom(c, h, g) /\ DropChildLock(k)
      <3> DEFINE r == <<g, h>> \o Tail(q)
      <3>1. Begins(g, p, put, tag[k][s], k, s)
        <4>1. p \in Cache /\ p \notin L1
          BY <1>3, <1>4, <2>2, ParentFacts
        <4>2. put \in {"GETS", "GETX", "PUTS", "PUTX"} /\ FALSE \in BOOLEAN
          OBVIOUS
        <4>3. k \in Cache \union {None} /\ s \in Nat
          BY <1>3, TreeAssumption DEF Slots
        <4> HIDE DEF state, put, k, s, p
        <4> QED
          BY <1>4, <4>1, <4>2, <4>3, AccessCall, Zenon
      <3> HIDE DEF g
      <3>2. /\ FrameOK(g) /\ g \in FrameSet /\ g.kind = "access" /\ g.at # "fill"
            /\ g.cache = p /\ g.addr = tag[k][s] /\ g.child = k /\ g.slot = s /\ g.cache \in Cache
        BY <1>3, <3>1, FrameFacts DEF Begins
      <3>3. Called(h, g)
        BY <1>5, <1>6, <3>2 DEF Called, Moves
      <3>4. k \in L1 => Base(r) = h
        BY <1>1, <1>3, <1>6, <3>2, OwnCall, ZenonT(90)
      <3>5. Stacks' /\ Locks' /\ stack' = [stack EXCEPT ![c] = r] /\ Follows(q, r)
        BY <1>1, <1>3, <1>6, <2>2, <3>2, <3>3, CallUpStep, ZenonT(30)
      <3> QED
        BY <3>4, <3>5
    <2> QED
      BY <1>2, <2>1, <2>2
  <1>8. FilterInv'
    <2>1. IsArray(st, MESIStates)
      BY DEF Inner, Arrays
    <2>2. \A l \in L1 : l # k => st'[l] = st[l]
      BY <1>2, <1>3, <2>1, TreeAssumption DEF IsArray
    <2>3. k \in L1 => Accesses(q, k) /\ Base(r).at # "fill"
      <3>1. k \in L1 => Accesses(q, k)
        BY <1>1, <1>3, OwnBase
      <3>2. k \in L1 => Base(r) = h /\ h.at = "insert"
        BY <1>6, <1>7
      <3> HIDE DEF q, k, h
      <3> QED
        BY <3>1, <3>2
    <2> HIDE DEF q, k
    <2>4. \A l \in L1 : /\ tag'[l] = tag[l]
                        /\ st'[l] = st[l] \/ (Accesses(q, l) /\ Base(r).at # "fill")
      BY <1>1, <2>2, <2>3
    <2> QED
      BY <1>1, <1>7, <2>4, FilterStep DEF q
  <1>9. Arrays'
    <2>1. IsArray(st', MESIStates)
      <3>1. IsArray(st, MESIStates) /\ "I" \in MESIStates
        BY DEF Inner, Arrays, MESIStates
      <3> HIDE DEF state, k, s
      <3>2. IsArray([st EXCEPT ![k][s] = "I"], MESIStates)
        BY <1>3, <3>1, WriteCell, Zenon
      <3>3. IsArray([st EXCEPT ![k][s] = state], MESIStates)
        BY <1>3, <1>4, <3>1, WriteCell, Zenon
      <3> QED
        BY <1>2, <3>2, <3>3
    <2>2. DirOK(dir')
      <3> DEFINE old == dir[k][s]
                 v == [old EXCEPT !.n = 0]
      <3>1. DirOK(dir) /\ old \in Entries /\ old.sharers \subseteq Children(k)
        BY <1>3, EntryFacts
      <3>2. dir' = [dir EXCEPT ![k][s] = v]
        BY <1>1
      <3>3. v \in Entries /\ v.sharers \subseteq Children(k)
        <4> HIDE DEF old, k, s
        <4> QED
          BY <3>1 DEF Entries
      <3> HIDE DEF v, old, k, s
      <3> QED
        BY <1>3, <3>1, <3>2, <3>3, WriteDir
    <2> QED
      BY <1>1, <2>1, <2>2 DEF Inner, Arrays, DirOK
  <1> QED
    BY <1>1, <1>7, <1>8, <1>9 DEF Inner, Filters, Stacks

(* A step of a core's access on its own L1. *)
LEMMA FilterOwn ==
    ASSUME Inner, NEW c \in Core, NEW r, stack' = [stack EXCEPT ![c] = r],
           NEW k \in L1, CoreOf[k] = c, Accesses(stack[c], k),
           \A l \in L1 : l # k => ~Accesses(r, l),
           \A l \in L1 : l # k => tag'[l] = tag[l] /\ st'[l] = st[l],
           \A l \in L1 : l # k => rd'[l] = rd[l] /\ wr'[l] = wr[l],
           FilterOK(k, stack[c])'
    PROVE  FilterInv'
  <1>1. stack'[c] = r /\ \A d \in Core : d # c => stack'[d] = stack[d]
    BY DEF Inner
  <1> SUFFICES ASSUME NEW l \in L1 PROVE FilterOK(l, stack[CoreOf[l]])'
    BY DEF FilterInv
  <1>2. CASE l = k
    BY <1>2
  <1>3. CASE l # k
    <2>1. CoreOf[l] \in Core /\ FilterOK(l, stack[CoreOf[l]])
      BY TreeAssumption DEF Inner, FilterInv
    <2>2. Backed(l) => Backed(l)'
      BY <1>3 DEF Backed, Valid
    <2>3. CASE CoreOf[l] = c
      <3>1. ~Accesses(stack[c], l)
        BY <1>3 DEF Accesses
      <3> QED
        BY <1>1, <1>3, <2>1, <2>2, <2>3, <3>1 DEF FilterOK
    <2>4. CASE CoreOf[l] # c
      BY <1>1, <1>3, <2>1, <2>2, <2>4 DEF FilterOK
    <2> QED
      BY <2>3, <2>4
  <1> QED
    BY <1>2, <1>3

LEMMA BottomAccessStep ==
    ASSUME Inner, NEW c \in Core, BottomAccess(c)
    PROVE  Inner'
  <1> DEFINE f == Top(c)
             q == stack[c]
             k == f.cache
             s == f.line
             p == Parent(k, f.addr)
             a == IF k \in L1 THEN "end" ELSE "dir"
             h == [f EXCEPT !.at = a]
             g == Access(p, f.type, f.addr, k, s, st[k][s], f.noexcl)
  <1>1. /\ q # << >> /\ f.kind = "access" /\ f.at \in {"access", "insert"}
        /\ tag' = [tag EXCEPT ![k][s] = f.addr]
        /\ UNCHANGED <<dir, tcc, filterLock, rd, wr, wb, dirty>>
    BY DEF BottomAccess, In
  <1>2. \/ /\ p # Mem /\ CallFrom(c, h, g) /\ DropChildLock(k) /\ NeedsParent(f.type, st[k][s])
           /\ st' = st
        \/ /\ \/ st' = [st EXCEPT ![k][s] = Granted(f.type, f.noexcl)]
              \/ st' = [st EXCEPT ![k][s] = IF f.type \in {"GETX", "PUTX"} THEN "M" ELSE @]
           /\ Goto(c, h) /\ bcc' = bcc
    BY DEF BottomAccess
  <1>3. /\ Sane(c, q) /\ q \in Seq(FrameSet) /\ f = q[1] /\ FrameOK(f) /\ f \in AccessFrame
        /\ k \in Cache /\ s \in Slots(k) /\ f.todo = {}
    <2>1. FrameOK(f) /\ Sane(c, q) /\ q \in Seq(FrameSet) /\ f = q[1]
      BY <1>1, TopFacts
    <2> QED
      BY <1>1, <2>1, FrameFacts DEF FrameOK
  <1>4. /\ f.addr \in Addr \union {None} /\ f.type \in {"GETS", "GETX", "PUTS", "PUTX"}
        /\ f.noexcl \in BOOLEAN /\ st[k][s] \in MESIStates
    BY <1>3, EntryFacts DEF AccessFrame
  <1>5. Moves(h, f, a, f.type, s, {})
    <2>1. Moves(h, f, a, f.type, s, f.todo)
      <3>1. a \in Ats
        BY DEF Ats
      <3> HIDE DEF a
      <3> QED
        BY <1>3, <3>1, MoveAt, Zenon
    <2> QED
      BY <1>3, <2>1
  <1> HIDE DEF h
  <1>6. /\ FrameOK(h) /\ SameCall(h, f) /\ h \in FrameSet /\ h.kind = "access" /\ h.cache = k
        /\ h.at = a /\ h.line = s /\ h.addr = f.addr
    BY <1>1, <1>3, <1>5 DEF FrameOK, Moves, FrameSet
  <1>7. PICK r : /\ Stacks' /\ Locks' /\ stack' = [stack EXCEPT ![c] = r]
                 /\ k \notin L1 => Follows(q, r)
                 /\ k \in L1 => Base(r) = h /\ r # << >>
    <2>1. CASE Goto(c, h) /\ bcc' = bcc
      <3> DEFINE r == <<h>> \o Tail(q)
      <3>1. k \in L1 => Base(r) = h /\ r # << >>
        BY <1>1, <1>3, <1>6, OwnGoto
      <3>2. Stacks' /\ Locks' /\ stack' = [stack EXCEPT ![c] = r] /\ (k \notin L1 => Follows(q, r))
        BY <1>1, <1>3, <1>6, <2>1, GotoStep
      <3> QED
        BY <3>1, <3>2
    <2>2. CASE /\ p # Mem /\ CallFrom(c, h, g) /\ DropChildLock(k)
      <3> DEFINE r == <<g, h>> \o Tail(q)
      <3>1. Begins(g, p, f.type, f.addr, k, s)
        <4>1. /\ p \in Cache /\ p \notin L1
              /\ k \in Cache \union {None} /\ s \in Nat
          BY <1>3, <1>4, <2>2, ParentFacts DEF Slots
        <4> HIDE DEF k, s, f, p
        <4> QED
          BY <1>4, <4>1, AccessCall, Zenon
      <3> HIDE DEF g
      <3>2. /\ FrameOK(g) /\ g \in FrameSet /\ g.kind = "access" /\ g.at # "fill"
            /\ g.cache = p /\ g.addr = f.addr /\ g.child = k /\ g.slot = s /\ g.cache \in Cache
        BY <1>3, <3>1, FrameFacts DEF Begins
      <3>3. Called(h, g)
        BY <1>6, <3>2 DEF Called
      <3>4. k \in L1 => Base(r) = h /\ r # << >>
        BY <1>1, <1>3, <1>6, <3>2, OwnCall
      <3>5. Stacks' /\ Locks' /\ stack' = [stack EXCEPT ![c] = r] /\ (k \notin L1 => Follows(q, r))
        BY <1>1, <1>3, <1>6, <2>2, <3>2, <3>3, CallUpStep, SMTT(30)
      <3> QED
        BY <3>4, <3>5
    <2> QED
      BY <1>2, <2>1, <2>2
  <1>8. IsArray(tag', Addr \union {None}) /\ IsArray(st', MESIStates)
    <2>1. IsArray(tag, Addr \union {None}) /\ IsArray(st, MESIStates)
      BY DEF Inner, Arrays
    <2>2. Granted(f.type, f.noexcl) \in MESIStates
          /\ (IF f.type \in {"GETX", "PUTX"} THEN "M" ELSE st[k][s]) \in MESIStates
      BY <1>4 DEF Granted, MESIStates
    <2> HIDE DEF k, s, f, p
    <2>3. IsArray([tag EXCEPT ![k][s] = f.addr], Addr \union {None})
      BY <1>3, <1>4, <2>1, WriteCell, Zenon
    <2>4. IsArray([st EXCEPT ![k][s] = Granted(f.type, f.noexcl)], MESIStates)
      BY <1>3, <2>1, <2>2, WriteCell, Zenon
    <2>5. IsArray([st EXCEPT ![k][s] = IF f.type \in {"GETX", "PUTX"} THEN "M" ELSE st[k][s]], MESIStates)
      BY <1>3, <2>1, <2>2, WriteCell, Zenon
    <2> QED
      BY <1>1, <1>2, <2>1, <2>3, <2>4, <2>5
  <1>9. \A l \in L1 : l # k => tag'[l] = tag[l] /\ st'[l] = st[l]
    <2>1. IsArray(tag, Addr \union {None}) /\ IsArray(st, MESIStates)
      BY DEF Inner, Arrays
    <2> QED
      BY <1>1, <1>2, <1>3, <2>1, TreeAssumption DEF IsArray
  <1>10. FilterInv'
    <2>1. CASE k \notin L1
      <3> HIDE DEF q, k
      <3>1. \A l \in L1 : tag'[l] = tag[l] /\ st'[l] = st[l]
        BY <1>9, <2>1
      <3> QED
        BY <1>1, <1>7, <2>1, <3>1, FilterStep DEF q
    <2>2. CASE k \in L1
      <3>1. Base(r) = h /\ r # << >> /\ Base(r).cache = k /\ Base(r).at = "end"
        BY <1>6, <1>7, <2>2
      <3>2. Accesses(q, k) /\ CoreOf[k] = c
        BY <1>1, <1>3, <2>2, OwnBase
      <3>3. PICK m \in L1 : m = k
        BY <2>2
      <3>4. FilterOK(m, stack[c])'
        <4>1. stack'[c] = r
          BY <1>7 DEF Inner
        <4>2. tag'[m][s] = f.addr
          BY <1>1, <1>3, <3>3 DEF Inner, Arrays, IsArray
        <4>3. wr[m] # None => wr[m] = rd[m]
          BY DEF Inner, FilterInv, FilterOK
        <4>4. Accesses(r, m) /\ tag'[m][Base(r).line] = Base(r).addr
          BY <1>6, <3>1, <3>3, <4>2 DEF Accesses
        <4> HIDE DEF k, q, s
        <4> QED
          BY <1>1, <3>1, <4>1, <4>3, <4>4 DEF FilterOK
      <3>5. \A l \in L1 : l # m => ~Accesses(r, l)
        BY <3>1, <3>3 DEF Accesses
      <3> HIDE DEF q, k
      <3> QED
        BY <1>1, <1>7, <1>9, <3>2, <3>3, <3>4, <3>5, FilterOwn DEF q
    <2> QED
      BY <2>1, <2>2
  <1>11. Arrays'
    BY <1>1, <1>8 DEF Inner, Arrays
  <1> QED
    BY <1>1, <1>7, <1>10, <1>11 DEF Inner, Filters, Stacks

(* The child whose line an access writes may be the core's own L1. *)
LEMMA ChildWrite ==
    ASSUME NEW c, NEW q, Sane(c, q), q # << >>, q[1].kind = "access", q[1].cache \notin L1,
           q[1].child \in L1, NEW r, Follows(q, r)
    PROVE  Accesses(q, q[1].child) /\ Base(r).at # "fill"
  <1>1. /\ q[2].kind = "access" /\ q[2].cache = q[1].child /\ 2 \in 1..Len(q)
        /\ q[2].at \in {"insert", "dir", "end"}
    BY Caller
  <1>2. 2 = Len(q)
    <2>1. PICK i \in 1..Len(q) : i = 2
      BY <1>1
    <2>2. q[i].kind = "access" /\ q[i].cache \in L1
      BY <1>1, <2>1
    <2>3. i = Len(q)
      BY <2>2, L1Base
    <2> QED
      BY <2>1, <2>3
  <1> QED
    BY <1>1, <1>2 DEF Accesses, Base, Follows

LEMMA TopAccessStep ==
    ASSUME Inner, NEW c \in Core, TopAccess(c)
    PROVE  Inner'
  <1> DEFINE f == Top(c)
             q == stack[c]
             k == f.cache
             s == f.line
             e == dir[k][s]
             ch == f.child
             others == e.sharers \ {ch}
             upgrade == ch \in e.sharers
             grantees == IF IsExclusive(e) THEN e.sharers ELSE {}
             hEnd == [f EXCEPT !.at = "end"]
             hGets == [f EXCEPT !.at = "grant", !.todo = grantees]
             hGetx == [f EXCEPT !.at = "grant", !.todo = others]
             less == [e EXCEPT !.sharers = others]
             vPut == [less EXCEPT !.n = @ - 1]
             vGets == [sharers |-> {ch}, n |-> 1, excl |-> TRUE]
             vGetx == [less EXCEPT !.n = IF upgrade THEN @ - 1 ELSE @]
  <1>1. /\ q # << >> /\ f.kind = "access" /\ f.at = "dir"
        /\ UNCHANGED <<tag, bcc, tcc, filterLock, rd, wr, dirty>>
    BY DEF TopAccess, In
  <1>2. /\ Sane(c, q) /\ q \in Seq(FrameSet) /\ f = q[1] /\ FrameOK(f) /\ f \in AccessFrame
        /\ k \in Cache /\ s \in Slots(k) /\ f.todo = {} /\ k \notin L1
    <2>1. FrameOK(f) /\ Sane(c, q) /\ q \in Seq(FrameSet) /\ f = q[1]
      BY <1>1, TopFacts
    <2> QED
      BY <1>1, <2>1, FrameFacts DEF FrameOK
  <1>3. ch \in Cache /\ ch \in Children(k)
    <2> HIDE DEF f, q
    <2> QED
      BY <1>1, <1>2, CallingChild
  <1>4. /\ DirOK(dir) /\ e \in Entries /\ e.sharers \subseteq Children(k) /\ e.n \in Int
        /\ IsArray(st, MESIStates)
    BY <1>2, EntryFacts DEF Inner, Arrays
  <1>5. /\ Goto(c, hEnd) \/ Goto(c, hGets) \/ Goto(c, hGetx)
        /\ \/ dir' = [dir EXCEPT ![k][s] = vPut] \/ dir' = dir
           \/ dir' = [dir EXCEPT ![k][s] = vGets] \/ dir' = [dir EXCEPT ![k][s] = vGetx]
        /\ \/ st' = [st EXCEPT ![ch][f.slot] = "I"] \/ st' = st
           \/ st' = [st EXCEPT ![ch][f.slot] = "E"]
    <2>1. CASE IsPut(f.type)
      <3>1. /\ dir' = [dir EXCEPT ![k][s].sharers = others, ![k][s].n = @ - 1]
            /\ st' = [st EXCEPT ![ch][f.slot] = "I"] /\ Goto(c, hEnd)
        BY <2>1 DEF TopAccess, IsPut
      <3>2. dir' = [dir EXCEPT ![k][s] = vPut]
        BY <1>2, <1>4, <3>1 DEF DirOK, IsArray, Entries
      <3> QED
        BY <3>1, <3>2
    <2>2. CASE f.type = "GETS"
      BY <2>2 DEF TopAccess, IsPut
    <2>3. CASE f.type = "GETX"
      <3>1. /\ dir' = [dir EXCEPT ![k][s].sharers = others,
                                  ![k][s].n = IF upgrade THEN @ - 1 ELSE @]
            /\ st' = st /\ Goto(c, hGetx)
        BY <2>3 DEF TopAccess, IsPut
      <3>2. dir' = [dir EXCEPT ![k][s] = vGetx]
        BY <1>2, <1>4, <3>1 DEF DirOK, IsArray, Entries
      <3> QED
        BY <3>1, <3>2
    <2> QED
      BY <2>1, <2>2, <2>3 DEF TopAccess
  <1>6. PICK h : /\ Goto(c, h) /\ FrameOK(h) /\ SameCall(h, f) /\ h \in FrameSet
                 /\ h.at \in {"end", "grant"}
    <2>1. "end" \in Ats /\ "grant" \in Ats /\ others \in SUBSET Children(k)
          /\ grantees \in SUBSET Children(k) /\ Children(k) \subseteq Cache
      BY <1>4 DEF Ats, Children
    <2>2. others \in SUBSET Cache /\ grantees \in SUBSET Cache
      BY <2>1
    <2> HIDE DEF others, grantees, f
    <2>3. Moves(hEnd, f, "end", f.type, s, f.todo)
      BY <1>2, <2>1, MoveAt, Zenon
    <2>4. Moves(hGets, f, "grant", f.type, s, grantees) /\ Moves(hGetx, f, "grant", f.type, s, others)
      BY <1>2, <2>1, <2>2, MoveTodo, Zenon
    <2> HIDE DEF hEnd, hGets, hGetx
    <2>5. FrameOK(hEnd) /\ SameCall(hEnd, f) /\ hEnd \in FrameSet /\ hEnd.at = "end"
      BY <1>1, <1>2, <2>3 DEF FrameOK, Moves, FrameSet
    <2>6. FrameOK(hGets) /\ SameCall(hGets, f) /\ hGets \in FrameSet /\ hGets.at = "grant"
      BY <1>1, <1>2, <2>1, <2>4 DEF FrameOK, Moves, FrameSet
    <2>7. FrameOK(hGetx) /\ SameCall(hGetx, f) /\ hGetx \in FrameSet /\ hGetx.at = "grant"
      BY <1>1, <1>2, <2>1, <2>4 DEF FrameOK, Moves, FrameSet
    <2> QED
      BY <1>5, <2>5, <2>6, <2>7
  <1> DEFINE r == <<h>> \o Tail(q)
  <1>7. Stacks' /\ Locks' /\ stack' = [stack EXCEPT ![c] = r] /\ Follows(q, r)
    <2>1. h.cache = k
      BY <1>6 DEF SameCall
    <2> QED
      BY <1>1, <1>2, <1>6, <2>1, GotoStep
  <1> HIDE DEF r
  <1>8. FilterInv'
    <2>1. \A l \in L1 : l # ch => st'[l] = st[l]
      BY <1>3, <1>4, <1>5, TreeAssumption DEF IsArray
    <2>2. ch \in L1 => Accesses(q, ch) /\ Base(r).at # "fill"
      BY <1>1, <1>2, <1>7, ChildWrite
    <2> HIDE DEF q, ch
    <2>3. \A l \in L1 : /\ tag'[l] = tag[l]
                        /\ st'[l] = st[l] \/ (Accesses(q, l) /\ Base(r).at # "fill")
      BY <1>1, <2>1, <2>2
    <2> QED
      BY <1>1, <1>7, <2>3, FilterStep DEF q
  <1>9. Arrays'
    <2>1. IsArray(st', MESIStates)
      <3> HIDE DEF ch, f
      <3>1. "I" \in MESIStates /\ "E" \in MESIStates
        BY DEF MESIStates
      <3>2. /\ IsArray([st EXCEPT ![ch][f.slot] = "I"], MESIStates)
            /\ IsArray([st EXCEPT ![ch][f.slot] = "E"], MESIStates)
        BY <1>3, <1>4, <3>1, WriteCell, Zenon
      <3> QED
        BY <1>4, <1>5, <3>2
    <2>2. /\ vPut \in Entries /\ vPut.sharers \subseteq Children(k)
          /\ vGets \in Entries /\ vGets.sharers \subseteq Children(k)
          /\ vGetx \in Entries /\ vGetx.sharers \subseteq Children(k)
      <3> HIDE DEF e, k, ch
      <3>1. Children(k) \subseteq Cache
        BY DEF Children
      <3>5. less \in Entries /\ less.sharers \subseteq Children(k) /\ less.n \in Int
        BY <1>4 DEF Entries
      <3> HIDE DEF less
      <3>2. /\ vPut \in Entries /\ vPut.sharers \subseteq Children(k)
        BY <3>5 DEF Entries
      <3>3. vGets \in Entries /\ vGets.sharers \subseteq Children(k)
        BY <1>3, <1>4, <3>1 DEF Entries
      <3>4. vGetx \in Entries /\ vGetx.sharers \subseteq Children(k)
        <4>1. (IF upgrade THEN less.n - 1 ELSE less.n) \in Int
          BY <3>5
        <4> HIDE DEF upgrade
        <4> QED
          BY <3>5, <4>1 DEF Entries
      <3> QED
        BY <3>2, <3>3, <3>4
    <2> HIDE DEF vPut, vGets, vGetx, k, s
    <2>3. /\ DirOK([dir EXCEPT ![k][s] = vPut]) /\ DirOK([dir EXCEPT ![k][s] = vGets])
          /\ DirOK([dir EXCEPT ![k][s] = vGetx])
      BY <1>2, <1>4, <2>2, WriteDir, Zenon
    <2>4. DirOK(dir')
      BY <1>4, <1>5, <2>3
    <2> QED
      BY <1>1, <2>1, <2>4 DEF Inner, Arrays, DirOK
  <1> QED
    BY <1>1, <1>7, <1>8, <1>9 DEF Inner, Filters, Stacks

LEMMA GrantStep ==
    ASSUME Inner, NEW c \in Core, Grant(c)
    PROVE  Inner'
  <1> DEFINE f == Top(c)
             q == stack[c]
             k == f.cache
             s == f.line
             e == dir[k][s]
             ch == f.child
             h == [f EXCEPT !.at = "end"]
             v == IF f.type = "GETS" THEN SharedEntry(e, ch)
                  ELSE [sharers |-> e.sharers \union {ch}, n |-> 1, excl |-> TRUE]
             m == IF f.type = "GETX" THEN "M" ELSE "S"
             r == <<h>> \o Tail(q)
  <1>1. /\ q # << >> /\ f.kind = "access" /\ f.at = "grant" /\ f.todo = {}
        /\ dir' = [dir EXCEPT ![k][s] = v]
        /\ st' = [st EXCEPT ![ch][f.slot] = m, ![k][s] = IF wb[c] THEN "M" ELSE @]
        /\ Goto(c, h)
        /\ UNCHANGED <<tag, bcc, tcc, filterLock, rd, wr, wb, dirty>>
    BY DEF Grant, In
  <1>2. /\ Sane(c, q) /\ q \in Seq(FrameSet) /\ f = q[1] /\ FrameOK(f) /\ f \in AccessFrame
        /\ k \in Cache /\ s \in Slots(k) /\ k \notin L1
    <2>1. FrameOK(f) /\ Sane(c, q) /\ q \in Seq(FrameSet) /\ f = q[1]
      BY <1>1, TopFacts
    <2> QED
      BY <1>1, <2>1, FrameFacts DEF FrameOK
  <1>3. ch \in Cache /\ ch \in Children(k)
    <2> HIDE DEF f, q
    <2> QED
      BY <1>1, <1>2, CallingChild
  <1>4. /\ DirOK(dir) /\ e \in Entries /\ e.sharers \subseteq Children(k) /\ e.n \in Int
        /\ IsArray(st, MESIStates)
    BY <1>2, EntryFacts DEF Inner, Arrays
  <1>5. FrameOK(h) /\ SameCall(h, f) /\ h \in FrameSet /\ h.at = "end" /\ h.cache = k
    <2>1. Moves(h, f, "end", f.type, s, f.todo)
      <3>1. "end" \in Ats
        BY DEF Ats
      <3> QED
        BY <1>2, <3>1, MoveAt, Zenon
    <2> HIDE DEF h
    <2> QED
      BY <1>1, <1>2, <2>1 DEF FrameOK, Moves, FrameSet
  <1> HIDE DEF h
  <1>6. Stacks' /\ Locks' /\ stack' = [stack EXCEPT ![c] = r] /\ Follows(q, r)
    BY <1>1, <1>2, <1>5, GotoStep
  <1> HIDE DEF r
  <1>7. IsArray(st', MESIStates) /\ \A l \in Cache \ {k, ch} : st'[l] = st[l]
    <2> DEFINE w == IF wb[c] THEN "M" ELSE st[k][s]
    <2>1. m \in MESIStates /\ w \in MESIStates
      BY <1>2, EntryFacts DEF MESIStates
    <2>2. st' = [st EXCEPT ![ch][f.slot] = m, ![k][s] = w]
      BY <1>1
    <2> HIDE DEF m, ch, f, k, s, w
    <2>3. IsArray([st EXCEPT ![ch][f.slot] = m, ![k][s] = w], MESIStates)
      BY <1>2, <1>3, <1>4, <2>1, WriteTwo, Zenon
    <2>4. \A l \in Cache \ {k, ch} : [st EXCEPT ![ch][f.slot] = m, ![k][s] = w][l] = st[l]
      BY <1>2, <1>3, <1>4 DEF IsArray
    <2> QED
      BY <2>2, <2>3, <2>4
  <1>8. FilterInv'
    <2>1. \A l \in L1 : l # ch => st'[l] = st[l]
      BY <1>2, <1>7, TreeAssumption
    <2>2. ch \in L1 => Accesses(q, ch) /\ Base(r).at # "fill"
      BY <1>1, <1>2, <1>6, ChildWrite
    <2> HIDE DEF q, ch
    <2>3. \A l \in L1 : /\ tag'[l] = tag[l]
                        /\ st'[l] = st[l] \/ (Accesses(q, l) /\ Base(r).at # "fill")
      BY <1>1, <2>1, <2>2
    <2> QED
      BY <1>1, <1>6, <2>3, FilterStep DEF q
  <1>9. DirOK(dir')
    <2>1. v \in Entries /\ v.sharers \subseteq Children(k)
      <3> HIDE DEF e, k, ch
      <3>1. Children(k) \subseteq Cache
        BY DEF Children
      <3> QED
        BY <1>3, <1>4, <3>1 DEF Entries, SharedEntry
    <2> HIDE DEF v, k, s
    <2> QED
      BY <1>1, <1>2, <1>4, <2>1, WriteDir
  <1>10. Arrays'
    BY <1>1, <1>7, <1>9 DEF Inner, Arrays, DirOK
  <1> QED
    BY <1>1, <1>6, <1>8, <1>10 DEF Inner, Filters, Stacks

LEMMA EndAccessL1 ==
    ASSUME Inner, ~failed', NEW c \in Core, EndAccess(c), Top(c).cache \in L1
    PROVE  Inner'
  <1> DEFINE f == Top(c)
             q == stack[c]
             h == [f EXCEPT !.at = "fill"]
             r == <<h>> \o Tail(q)
  <1>1. PICK k \in L1 : k = f.cache
    OBVIOUS
  <1>2. /\ q # << >> /\ f.kind = "access" /\ f.at = "end" /\ k = f.cache
        /\ filterLock[k] = Free /\ filterLock' = [filterLock EXCEPT ![k] = c]
        /\ bcc' = [bcc EXCEPT ![k] = Free] /\ tcc' = [tcc EXCEPT ![k] = Free]
        /\ stack' = [stack EXCEPT ![c] = r]
        /\ UNCHANGED <<tag, st, dir, rd, wr, wb>>
    BY <1>1 DEF EndAccess, In, Goto
  <1>3. Check(IF f.type = "GETX" THEN st[k][f.line] = "M" ELSE st[k][f.line] # "I")
    BY <1>1 DEF EndAccess
  <1>4. IF f.type = "GETX" THEN st[k][f.line] = "M" ELSE st[k][f.line] # "I"
    BY <1>3 DEF Check
  <1>5. /\ Sane(c, q) /\ q \in Seq(FrameSet) /\ f = q[1] /\ FrameOK(f) /\ f \in AccessFrame
        /\ k \in Cache
    <2>1. FrameOK(f) /\ Sane(c, q) /\ q \in Seq(FrameSet) /\ f = q[1]
      BY <1>2, TopFacts
    <2> QED
      BY <1>2, <2>1, FrameFacts
  <1>6. /\ FrameOK(h) /\ SameCall(h, f) /\ h \in FrameSet /\ h.at = "fill" /\ h.cache = k
        /\ h.line = f.line /\ h.addr = f.addr /\ h.type = f.type
    <2>1. Moves(h, f, "fill", f.type, f.line, f.todo)
      <3>1. "fill" \in Ats
        BY DEF Ats
      <3> QED
        BY <1>5, <3>1, MoveAt, Zenon
    <2> HIDE DEF h
    <2> QED
      BY <1>1, <1>2, <1>5, <2>1 DEF FrameOK, Moves, FrameSet
  <1> HIDE DEF h
  <1>7. Sane(c, r)
    BY <1>2, <1>5, <1>6, SaneGoto
  <1>8. r # << >> /\ r[1] = h
    BY <1>2, <1>5, <1>6, GotoSeq
  <1>9. Base(r) = h /\ Base(q) = f /\ Accesses(q, k) /\ CoreOf[k] = c
    BY <1>1, <1>2, <1>5, <1>6, OwnBase, OwnGoto
  <1>10. Locks'
    <2>1. /\ bcc \in [Cache -> Core \union {Free}] /\ tcc \in [Cache -> Core \union {Free}]
          /\ filterLock \in [L1 -> Core \union {Free}] /\ Free \notin Core
      BY TreeAssumption DEF Inner, Locks, Free
    <2>2. \A j \in Cache : HoldsTop(q, j) => HoldsTop(r, j)
      BY <1>2, <1>5, <1>6, TopGoto
    <2>3. \A j \in Cache : HoldsBottom(q, j) => j = k
      BY <1>2, <1>5, BottomAlone
    <2>4. \A l \in L1 : (Fills(r, l) <=> l = k) /\ filterLock[l] # c
      BY <1>2, <1>5, <1>6, <1>8 DEF Inner, Locks, Fills
    <2> HIDE DEF r, q
    <2>5. \A j \in Cache : IF tcc'[j] = c THEN HoldsTop(r, j) ELSE tcc'[j] \in {tcc[j], Free}
      BY <1>2, <2>1, <2>2 DEF Inner, Locks, q
    <2>6. \A j \in Cache : IF bcc'[j] = c THEN HoldsBottom(r, j) ELSE bcc'[j] \in {bcc[j], Free}
      BY <1>2, <2>1, <2>3 DEF Inner, Locks, q
    <2>7. \A l \in L1 : /\ filterLock'[l] = c <=> Fills(r, l)
                        /\ \/ filterLock'[l] = filterLock[l]
                           \/ filterLock[l] \in {Free, c} /\ filterLock'[l] \in {Free, c}
      BY <1>2, <2>1, <2>4
    <2>8. /\ bcc' \in [Cache -> Core \union {Free}] /\ tcc' \in [Cache -> Core \union {Free}]
          /\ filterLock' \in [L1 -> Core \union {Free}]
      BY <1>2, <2>1
    <2> QED
      BY <1>2, <2>5, <2>6, <2>7, <2>8, LocksStep
  <1>11. FilterInv'
    <2>1. FilterOK(k, stack[c])'
      <3>1. stack'[c] = r
        BY <1>2 DEF Inner
      <3>2. FilterOK(k, q)
        BY <1>9 DEF Inner, FilterInv
      <3>3. Accesses(r, k)
        BY <1>6, <1>8, <1>9 DEF Accesses
      <3> HIDE DEF q, f, r
      <3> QED
        BY <1>2, <1>4, <1>6, <1>9, <3>1, <3>2, <3>3 DEF FilterOK
    <2>2. \A l \in L1 : l # k => ~Accesses(r, l)
      BY <1>6, <1>9 DEF Accesses
    <2> HIDE DEF q, r
    <2> QED
      BY <1>2, <1>9, <2>1, <2>2, FilterOwn DEF q
  <1> HIDE DEF r
  <1> QED
    BY <1>2, <1>7, <1>10, <1>11, SaneStep DEF Inner, Arrays, Filters

LEMMA EndAccessUp ==
    ASSUME Inner, NEW c \in Core, EndAccess(c), Top(c).cache \notin L1
    PROVE  Inner'
  <1> DEFINE f == Top(c)
             q == stack[c]
             k == f.cache
             ch == f.child
             r == Tail(q)
  <1>1. /\ q # << >> /\ f.kind = "access" /\ f.at = "end"
        /\ bcc' = [bcc EXCEPT ![ch] = c, ![k] = Free] /\ tcc' = [tcc EXCEPT ![k] = Free]
        /\ stack' = [stack EXCEPT ![c] = r]
        /\ UNCHANGED <<tag, st, dir, filterLock, rd, wr, wb, dirty, failed>>
    BY DEF EndAccess, In, Return
  <1>2. /\ Sane(c, q) /\ q \in Seq(FrameSet) /\ f = q[1] /\ FrameOK(f) /\ k \in Cache
    BY <1>1, TopFacts, FrameFacts
  <1>3. /\ r # << >> /\ r[1] = q[2] /\ q[2].cache = ch /\ ch \in Cache
        /\ q[2].at \in {"insert", "dir", "end"}
    BY <1>1, <1>2, Caller
  <1>4. Sane(c, r) /\ Follows(q, r)
    BY <1>1, <1>2, <1>3, SaneReturn, BaseReturn
  <1>5. 1 \in 1..Len(r)
    BY <1>3, <1>4, EmptySeq DEF Sane
  <1>6. Locks'
    <2>1. /\ bcc \in [Cache -> Core \union {Free}] /\ tcc \in [Cache -> Core \union {Free}]
          /\ filterLock \in [L1 -> Core \union {Free}] /\ Free \notin Core
      BY TreeAssumption DEF Inner, Locks, Free
    <2>2. \A j \in Cache : HoldsTop(q, j) /\ j # k => HoldsTop(r, j)
      BY <1>1, <1>2, TopReturn
    <2>3. \A j \in Cache : HoldsBottom(q, j) => j = k
      BY <1>1, <1>2, BottomAlone
    <2>4. HoldsBottom(r, ch)
      BY <1>3, <1>5 DEF HoldsBottom, HasBottom
    <2>5. \A l \in L1 : ~Fills(r, l) /\ filterLock[l] # c
      <3>1. \A l \in L1 : ~Fills(r, l)
        BY <1>1, <1>2, FillsReturn
      <3>2. \A l \in L1 : filterLock[l] # c
        BY <1>1, <1>2 DEF Inner, Locks, Fills
      <3> QED
        BY <3>1, <3>2
    <2> HIDE DEF r, q, k, ch
    <2>6. \A j \in Cache : IF tcc'[j] = c THEN HoldsTop(r, j) ELSE tcc'[j] \in {tcc[j], Free}
      BY <1>1, <2>1, <2>2 DEF Inner, Locks, q
    <2>7. \A j \in Cache : IF bcc'[j] = c THEN HoldsBottom(r, j) ELSE bcc'[j] \in {bcc[j], Free}
      BY <1>1, <1>2, <1>3, <2>1, <2>3, <2>4 DEF Inner, Locks, q
    <2>8. /\ bcc' \in [Cache -> Core \union {Free}] /\ tcc' \in [Cache -> Core \union {Free}]
          /\ filterLock' = filterLock
      BY <1>1, <2>1
    <2> QED
      BY <1>1, <2>1, <2>5, <2>6, <2>7, <2>8, LocksStep, ZenonT(30)
  <1> HIDE DEF r
  <1>7. FilterInv'
    <2> HIDE DEF q
    <2> QED
      BY <1>1, <1>4, FilterStep DEF q
  <1> QED
    BY <1>1, <1>4, <1>6, <1>7, SaneStep DEF Inner, Arrays, Filters

LEMMA FillFilterStep ==
    ASSUME Inner, NEW c \in Core, FillFilter(c)
    PROVE  Inner'
  <1> DEFINE f == Top(c)
             q == stack[c]
             r == Tail(q)
  <1>1. /\ q # << >> /\ f.kind = "access" /\ f.at = "fill"
        /\ rd' = [rd EXCEPT ![f.cache] = f.addr]
        /\ wr' = [wr EXCEPT ![f.cache] = IF f.type = "GETX" THEN f.addr ELSE None]
        /\ filterLock' = [filterLock EXCEPT ![f.cache] = Free]
        /\ stack' = [stack EXCEPT ![c] = r]
        /\ UNCHANGED <<tag, st, dir, bcc, tcc, wb, dirty, failed>>
    BY DEF FillFilter, In, Return
  <1>2. /\ Sane(c, q) /\ q \in Seq(FrameSet) /\ f = q[1] /\ FrameOK(f) /\ f \in AccessFrame
        /\ f.cache \in L1
    <2>1. FrameOK(f) /\ Sane(c, q) /\ q \in Seq(FrameSet) /\ f = q[1]
      BY <1>1, TopFacts
    <2> QED
      BY <1>1, <2>1, FrameFacts DEF FrameOK
  <1>3. PICK k \in L1 : k = f.cache
    BY <1>2
  <1>4. /\ Len(q) = 1 /\ r = << >> /\ Base(q) = f /\ Accesses(q, k) /\ CoreOf[k] = c
    BY <1>1, <1>2, <1>3, OwnBase
  <1>5. Sane(c, r)
    BY <1>1, <1>2, SaneReturn
  <1>6. Locks'
    <2>1. /\ bcc \in [Cache -> Core \union {Free}] /\ tcc \in [Cache -> Core \union {Free}]
          /\ filterLock \in [L1 -> Core \union {Free}] /\ Free \notin Core
      BY TreeAssumption DEF Inner, Locks, Free
    <2>2. \A j \in Cache : ~HoldsTop(q, j)
      BY <1>2, <1>4 DEF HoldsTop
    <2>3. \A j \in Cache : ~HoldsBottom(q, j)
      BY <1>1, <1>2, BottomAlone
    <2>4. \A l \in L1 : ~Fills(r, l)
      BY <1>4 DEF Fills
    <2>5. \A l \in L1 : filterLock[l] = c => l = k
      BY <1>2, <1>3 DEF Inner, Locks, Fills
    <2>9. filterLock[k] = c
      BY <1>1, <1>2, <1>3 DEF Inner, Locks, Fills
    <2> HIDE DEF r, q
    <2>6. \A j \in Cache : tcc[j] # c /\ bcc[j] # c
      BY <2>2, <2>3 DEF Inner, Locks, q
    <2>7. \A l \in L1 : /\ filterLock'[l] = c <=> Fills(r, l)
                        /\ \/ filterLock'[l] = filterLock[l]
                           \/ filterLock[l] \in {Free, c} /\ filterLock'[l] \in {Free, c}
      BY <1>1, <1>3, <2>1, <2>4, <2>5, <2>9
    <2>8. filterLock' \in [L1 -> Core \union {Free}] /\ bcc' = bcc /\ tcc' = tcc
      BY <1>1, <1>3, <2>1
    <2>10. /\ \A j \in Cache : IF tcc'[j] = c THEN HoldsTop(r, j) ELSE tcc'[j] \in {tcc[j], Free}
           /\ \A j \in Cache : IF bcc'[j] = c THEN HoldsBottom(r, j) ELSE bcc'[j] \in {bcc[j], Free}
      BY <2>6, <2>8
    <2>11. stack' = [stack EXCEPT ![c] = r]
      BY <1>1
    <2> HIDE DEF f
    <2> QED
      BY <2>1, <2>7, <2>8, <2>10, <2>11, LocksStep
  <1>7. f.addr \in Addr \union {None} /\ f.type \in {"GETS", "GETX"} /\ f.line \in Slots(k)
    BY <1>1, <1>2, <1>3 DEF FrameOK, AccessFrame
  <1>8. Filters'
    BY <1>1, <1>3, <1>7 DEF Inner, Filters
  <1>9. FilterInv'
    <2>1. rd'[k] = f.addr /\ wr'[k] = (IF f.type = "GETX" THEN f.addr ELSE None)
      BY <1>1, <1>3 DEF Inner, Filters
    <2>2. FilterOK(k, q)
      BY <1>4 DEF Inner, FilterInv
    <2>3. /\ tag[k][f.line] = f.addr
          /\ IF f.type = "GETX" THEN st[k][f.line] = "M" ELSE st[k][f.line] # "I"
      BY <1>1, <1>4, <2>2 DEF FilterOK
    <2>4. FilterOK(k, stack[c])'
      <3>1. stack'[c] = << >>
        BY <1>1, <1>4 DEF Inner
      <3>2. ~Accesses(<< >>, k)
        BY DEF Accesses
      <3> HIDE DEF f, q, r
      <3>3. Backed(k)'
        BY <1>1, <1>7, <2>1, <2>3 DEF Backed, Valid
      <3>4. (wr[k] # None => wr[k] = rd[k])'
        BY <2>1
      <3> QED
        BY <3>1, <3>2, <3>3, <3>4 DEF FilterOK
    <2>5. \A l \in L1 : l # k => ~Accesses(r, l)
      BY <1>4 DEF Accesses
    <2>6. \A l \in L1 : l # k => tag'[l] = tag[l] /\ st'[l] = st[l]
      BY <1>1
    <2>7. \A l \in L1 : l # k => rd'[l] = rd[l] /\ wr'[l] = wr[l]
      BY <1>1, <1>3 DEF Inner, Filters
    <2>8. stack' = [stack EXCEPT ![c] = r] /\ Accesses(stack[c], k) /\ CoreOf[k] = c
      BY <1>1, <1>4
    <2> HIDE DEF q, r, f
    <2> QED
      BY <2>4, <2>5, <2>6, <2>7, <2>8, FilterOwn
  <1> HIDE DEF r
  <1> QED
    BY <1>1, <1>5, <1>6, <1>8, <1>9, SaneStep DEF Inner, Arrays

(* An access that fills its filter is the innermost call. *)
LEMMA FillTop ==
    ASSUME NEW c, NEW q, Sane(c, q), NEW l \in L1, Accesses(q, l), Base(q).at = "fill"
    PROVE  Fills(q, l)
  <1>1. q \in Seq(FrameSet) /\ Len(q) \in Nat \ {0} /\ q # << >>
    BY EmptySeq DEF Sane, FrameSet, Accesses
  <1>2. CASE Len(q) = 1
    BY <1>1, <1>2 DEF Fills, Base, Accesses
  <1>3. CASE Len(q) # 1
    <2> DEFINE n == Len(q)
    <2>3. n \in Nat \ {0} /\ n # 1
      BY <1>1, <1>3
    <2> HIDE DEF n
    <2>1. PICK i \in 1..n : i = n /\ i > 1
      BY <2>3
    <2>2. Called(q[i], q[i - 1])
      BY <2>1 DEF Sane, n
    <2> QED
      BY <2>1, <2>2 DEF Called, Base, n
  <1> QED
    BY <1>2, <1>3

(* An invalidation clears the filter's entry before it takes the line. *)
LEMMA FinishInvStep ==
    ASSUME Inner, NEW c \in Core, FinishInv(c)
    PROVE  Inner'
  <1> DEFINE f == Top(c)
             q == stack[c]
             r == Tail(q)
  <1>1. /\ q # << >> /\ f.kind = "inv" /\ f.at = "down" /\ f.todo = {}
        /\ f.cache \in L1 => filterLock[f.cache] = Free
        /\ bcc' = [bcc EXCEPT ![f.cache] = Free]
        /\ stack' = [stack EXCEPT ![c] = r]
        /\ UNCHANGED <<tag, tcc, filterLock, dirty>>
    BY DEF FinishInv, In, Return
  <1>2. /\ Sane(c, q) /\ q \in Seq(FrameSet) /\ f = q[1] /\ FrameOK(f) /\ f.cache \in Cache
    BY <1>1, TopFacts, FrameFacts
  <1>3. PICK k \in Cache : k = f.cache
    BY <1>2
  <1>4. IF k \in L1 /\ rd[k] = f.addr
          THEN rd' = [rd EXCEPT ![k] = None] /\ wr' = [wr EXCEPT ![k] = None]
          ELSE rd' = rd /\ wr' = wr
    BY <1>3 DEF FinishInv, FilterMatches
  <1>5. PICK s \in Holding(k, f.addr) :
            /\ st' = [st EXCEPT ![k][s] = IF f.type = "INV" THEN "I" ELSE "S"]
            /\ dir' = IF f.type = "INV" THEN [dir EXCEPT ![k][s].n = 0]
                      ELSE [dir EXCEPT ![k][s].excl = @ /\ ~IsExclusive(dir[k][s])]
    BY <1>3 DEF FinishInv
  <1>6. s \in Slots(k) /\ tag[k][s] = f.addr
    BY DEF Holding
  <1>7. r # << >>
    <2>1. Len(q) # 1
      BY <1>1, <1>2 DEF Sane
    <2> QED
      BY <1>1, <1>2, <2>1, ReturnSeq
  <1>8. Sane(c, r) /\ Follows(q, r)
    BY <1>1, <1>2, <1>7, SaneReturn, BaseReturn
  <1>9. Locks'
    <2>1. /\ bcc \in [Cache -> Core \union {Free}] /\ tcc \in [Cache -> Core \union {Free}]
          /\ filterLock \in [L1 -> Core \union {Free}] /\ Free \notin Core
      BY TreeAssumption DEF Inner, Locks, Free
    <2>2. \A j \in Cache : HoldsTop(q, j) => HoldsTop(r, j)
      BY <1>1, <1>2, TopReturn
    <2>3. \A j \in Cache : HoldsBottom(q, j) /\ j # k => HoldsBottom(r, j)
      BY <1>1, <1>2, <1>3, BottomReturn
    <2>4. \A l \in L1 : ~Fills(r, l)
      BY <1>1, <1>2, FillsReturn
    <2>5. \A l \in L1 : filterLock[l] # c
      BY <1>1, <1>2 DEF Inner, Locks, Fills
    <2>6. bcc' = [bcc EXCEPT ![k] = Free] /\ tcc' = tcc /\ filterLock' = filterLock
          /\ stack' = [stack EXCEPT ![c] = r]
      BY <1>1, <1>3
    <2> HIDE DEF r, q, f
    <2>7. \A j \in Cache : IF tcc'[j] = c THEN HoldsTop(r, j) ELSE tcc'[j] \in {tcc[j], Free}
      BY <2>1, <2>2, <2>6 DEF Inner, Locks, q
    <2>8. \A j \in Cache : IF bcc'[j] = c THEN HoldsBottom(r, j) ELSE bcc'[j] \in {bcc[j], Free}
      BY <2>1, <2>3, <2>6 DEF Inner, Locks, q
    <2>9. bcc' \in [Cache -> Core \union {Free}]
      BY <2>1, <2>6
    <2> QED
      BY <2>1, <2>4, <2>5, <2>6, <2>7, <2>8, <2>9, LocksStep
  <1>10. Arrays'
    <2>1. IsArray(st', MESIStates)
      <3> DEFINE m == IF f.type = "INV" THEN "I" ELSE "S"
      <3>1. m \in MESIStates /\ IsArray(st, MESIStates)
        BY DEF MESIStates, Inner, Arrays
      <3>2. st' = [st EXCEPT ![k][s] = m]
        BY <1>5
      <3> HIDE DEF m
      <3>3. IsArray([st EXCEPT ![k][s] = m], MESIStates)
        BY <3>1, WriteCell, Zenon
      <3> QED
        BY <3>2, <3>3
    <2>2. DirOK(dir')
      <3> DEFINE e == dir[k][s]
                 b == e.excl /\ ~IsExclusive(e)
                 v == [e EXCEPT !.n = 0]
                 w == [e EXCEPT !.excl = b]
      <3>1. DirOK(dir) /\ e \in Entries /\ e.sharers \subseteq Children(k)
        BY <1>6, EntryFacts
      <3>2. dir' = [dir EXCEPT ![k][s] = v] \/ dir' = [dir EXCEPT ![k][s] = w]
        BY <1>5
      <3>3. v \in Entries /\ v.sharers \subseteq Children(k)
        <4> HIDE DEF e
        <4> QED
          BY <3>1 DEF Entries
      <3>4. b \in BOOLEAN
        BY <3>1
      <3>5. w \in Entries /\ w.sharers \subseteq Children(k)
        <4> HIDE DEF e, b
        <4> QED
          BY <3>1, <3>4 DEF Entries
      <3> HIDE DEF v, w, e
      <3>6. DirOK([dir EXCEPT ![k][s] = v]) /\ DirOK([dir EXCEPT ![k][s] = w])
        BY <1>6, <3>1, <3>3, <3>5, WriteDir, Zenon
      <3> QED
        BY <3>2, <3>6
    <2> QED
      BY <1>1, <2>1, <2>2 DEF Inner, Arrays, DirOK
  <1>11. Filters'
    BY <1>4 DEF Inner, Filters
  <1>12. FilterInv'
    <2> SUFFICES ASSUME NEW l \in L1 PROVE FilterOK(l, stack[CoreOf[l]])'
      BY DEF FilterInv
    <2> DEFINE o == stack[CoreOf[l]]
    <2>0. PICK p : p = stack'[CoreOf[l]]
      OBVIOUS
    <2>1. CoreOf[l] \in Core /\ FilterOK(l, o) /\ l \in Cache /\ Sane(CoreOf[l], o)
      BY TreeAssumption DEF Inner, FilterInv
    <2>2. p = o \/ Follows(o, p)
      BY <1>1, <1>8, <2>0, <2>1 DEF Inner
    <2>3. /\ Accesses(p, l) <=> Accesses(o, l)
          /\ Accesses(o, l) /\ Base(p).at \in {"end", "fill"} => Base(p) = Base(o)
      <3> HIDE DEF o
      <3> QED
        BY <2>2 DEF Follows, Accesses
    <2>4. CASE l # k
      <3>1. st'[l] = st[l] /\ rd'[l] = rd[l] /\ wr'[l] = wr[l] /\ tag' = tag
        BY <1>1, <1>4, <1>5, <2>1, <2>4 DEF Inner, Filters, Arrays, IsArray
      <3>2. Backed(l) => Backed(l)'
        BY <3>1 DEF Backed, Valid
      <3>3. FilterOK(l, p)'
        <4> HIDE DEF o
        <4> QED
          BY <2>1, <2>3, <3>1, <3>2 DEF FilterOK
      <3> QED
        BY <2>0, <3>3
    <2>5. CASE l = k
      <3>1. ~(Accesses(p, l) /\ Base(p).at = "fill")
        <4>1. ASSUME Accesses(o, l), Base(o).at = "fill" PROVE FALSE
          <5>1. filterLock[l] = CoreOf[l]
            BY <2>1, <4>1, FillTop DEF Inner, Locks
          <5> QED
            BY <1>1, <1>3, <2>1, <2>5, <5>1, TreeAssumption DEF Free
        <4> HIDE DEF o
        <4> QED
          BY <2>3, <4>1
      <3>2. \/ rd'[l] = None /\ wr'[l] = None
            \/ rd[l] # f.addr /\ rd'[l] = rd[l] /\ wr'[l] = wr[l]
        BY <1>4, <2>5 DEF Inner, Filters
      <3>3. \A j \in Slots(l) : j # s => st'[l][j] = st[l][j]
        BY <1>5, <1>6, <2>1, <2>5 DEF Inner, Arrays, IsArray
      <3>4. (wr[l] # None => wr[l] = rd[l])'
        BY <2>1, <3>2 DEF FilterOK
      <3>5. Backed(l) => Backed(l)'
        BY <1>1, <1>6, <2>1, <2>5, <3>2, <3>3 DEF Backed, Valid, FilterOK
      <3>6. FilterOK(l, p)'
        <4> HIDE DEF o, f
        <4> QED
          BY <1>1, <2>1, <2>3, <3>1, <3>4, <3>5 DEF FilterOK
      <3> QED
        BY <2>0, <3>6
    <2> QED
      BY <2>4, <2>5
  <1> HIDE DEF r
  <1> QED
    BY <1>1, <1>8, <1>9, <1>10, <1>11, <1>12, SaneStep DEF Inner

-----------------------------------------------------------------------------
LEMMA InitInv ==
    ASSUME Init PROVE Inner
  <1>1. ASSUME NEW c \in Core PROVE Sane(c, stack[c])
    <2>1. stack[c] = << >>
      BY DEF Init
    <2>2. << >> \in Seq(AccessFrame \union InvFrame) /\ Len(<< >>) = 0
      BY EmptySeq
    <2> QED
      BY <2>1, <2>2 DEF Sane, Ordered
  <1>2. Locks
    <2>1. Free \notin Core
      BY TreeAssumption DEF Free
    <2> QED
      BY <2>1 DEF Init, Locks, Fills
  <1>3. Arrays
    <2>1. NoEntry \in Entries /\ NoEntry.sharers = {}
      BY DEF NoEntry, Entries
    <2>2. IsArray(tag, Addr \union {None}) /\ IsArray(st, MESIStates)
      BY DEF Init, IsArray, MESIStates
    <2>3. IsArray(dir, Entries)
      BY <2>1 DEF Init, IsArray
    <2>4. \A k \in Cache : \A s \in Slots(k) : dir[k][s].sharers \subseteq Children(k)
      BY <2>1 DEF Init
    <2> QED
      BY <2>2, <2>3, <2>4 DEF Arrays
  <1>4. Filters /\ FilterInv
    <2>1. \A l \in L1 : CoreOf[l] \in Core
      BY TreeAssumption
    <2> QED
      BY <2>1 DEF Init, Filters, FilterInv, FilterOK, Accesses, Backed
  <1>5. DOMAIN stack = Core
    BY DEF Init
  <1> QED
    BY <1>1, <1>2, <1>3, <1>4, <1>5 DEF Inner

(* A failed assertion is never forgotten. *)
LEMMA FailedStays ==
    ASSUME Next, ~failed' PROVE ~failed
  <1>1. PICK c \in Core : Replace(c) \/ ContextSwitch(c) \/ Step(c)
    BY DEF Next
  <1>2. CASE Replace(c) \/ ContextSwitch(c) \/ LockTcc(c) \/ FillFilter(c)
    BY <1>2 DEF Replace, ContextSwitch, LockTcc, FillFilter
  <1>3. CASE LockBcc(c) \/ SendInvalidate(c) \/ FinishInv(c) \/ Evict(c) \/ BottomAccess(c)
    BY <1>3 DEF LockBcc, SendInvalidate, FinishInv, Evict, BottomAccess, Check
  <1>4. CASE TopAccess(c) \/ Grant(c) \/ EndAccess(c)
    BY <1>4 DEF TopAccess, Grant, EndAccess, Check
  <1> QED
    BY <1>1, <1>2, <1>3, <1>4 DEF Step

LEMMA NextInv ==
    ASSUME IInv, [Next]_vars PROVE IInv'
  <1>1. CASE vars' = vars
    BY <1>1 DEF vars, IInv, Inner, Locks, Arrays, Filters, FilterInv, FilterOK, Backed, Valid
  <1>2. CASE Next
    <2> SUFFICES ASSUME ~failed' PROVE Inner'
      BY DEF IInv
    <2>1. ~failed /\ Inner
      BY <1>2, FailedStays DEF IInv
    <2>2. PICK c \in Core : Replace(c) \/ ContextSwitch(c) \/ Step(c)
      BY <1>2 DEF Next
    <2>3. CASE Replace(c)
      BY <2>1, <2>3, ReplaceStep
    <2>4. CASE ContextSwitch(c)
      BY <2>1, <2>4, ContextSwitchStep
    <2>5. CASE LockTcc(c)
      BY <2>1, <2>5, LockTccStep
    <2>6. CASE LockBcc(c)
      BY <2>1, <2>6, LockBccStep
    <2>7. CASE SendInvalidate(c)
      BY <2>1, <2>7, SendInvalidateStep
    <2>8. CASE FinishInv(c)
      BY <2>1, <2>8, FinishInvStep
    <2>9. CASE Evict(c)
      BY <2>1, <2>9, EvictStep
    <2>10. CASE BottomAccess(c)
      BY <2>1, <2>10, BottomAccessStep
    <2>11. CASE TopAccess(c)
      BY <2>1, <2>11, TopAccessStep
    <2>12. CASE Grant(c)
      BY <2>1, <2>12, GrantStep
    <2>13. CASE EndAccess(c)
      BY <2>1, <2>13, EndAccessL1, EndAccessUp
    <2>14. CASE FillFilter(c)
      BY <2>1, <2>14, FillFilterStep
    <2> QED
      BY <2>2, <2>3, <2>4, <2>5, <2>6, <2>7, <2>8, <2>9, <2>10, <2>11, <2>12, <2>13, <2>14 DEF Step
  <1> QED
    BY <1>1, <1>2

(***************************************************************************)
(* Until an assertion fails, every call stack is one the code can be in,   *)
(* every lock is explained by a call of its owner, and the filters are     *)
(* backed by their L1s except while their core's own access is at work.    *)
(***************************************************************************)
THEOREM Invariance == Spec => []IInv
  <1>1. Init => IInv
    BY InitInv DEF IInv
  <1>2. IInv /\ [Next]_vars => IInv'
    BY NextInv
  <1> QED
    BY <1>1, <1>2, PTL DEF Spec

(* The filters' part of the invariant is what FilterCache relies on. *)
LEMMA InnerBacks ==
    ASSUME Inner PROVE FilterBacked
  BY DEF Inner, FilterInv, FilterOK, Accesses, Backed, FilterBacked

-----------------------------------------------------------------------------
(* The order of the locks: the top locks up the tree, then the bottom      *)
(* locks down it, then the filters' locks.  Wants(c) is the place of the   *)
(* lock core c waits for.                                                  *)
M == Cardinality(Cache)
BottomRank(k) == 2 * M + 1 - H[k]
FilterRank == 2 * M + 2

Wants(c) ==
    LET f == Top(c) IN
    CASE f.at = "lockTcc" -> H[f.cache]
      [] f.at = "lockBcc" -> BottomRank(f.cache)
      [] f.todo # {} -> BottomRank(NextChild(f))
      [] f.at = "end" -> IF f.cache \in L1 THEN FilterRank ELSE BottomRank(f.child)
      [] f.at = "down" /\ f.cache \in L1 -> FilterRank
      [] OTHER -> 0

LEMMA Ranks ==
    /\ M \in Nat /\ FilterRank \in Nat
    /\ \A k \in Cache : /\ H[k] \in 0..M /\ BottomRank(k) \in Nat /\ M < BottomRank(k)
                        /\ BottomRank(k) < FilterRank /\ H[k] < FilterRank
    /\ \A j, k \in Cache : H[j] < H[k] => BottomRank(k) < BottomRank(j)
  <1>1. M \in Nat /\ \A k \in Cache : H[k] \in 0..M
    BY Heights DEF M
  <1> QED
    BY <1>1 DEF BottomRank, FilterRank

(* Core c waits for the lock x[k]. *)
WaitsTop(c) ==
    LET f == Top(c) IN
    f.kind = "access" /\ f.at = "lockTcc" /\ Wants(c) = H[f.cache] /\ WaitsFor(c) = tcc[f.cache]
WaitsUp(c) ==
    LET f == Top(c) IN
    /\ f.kind = "access" /\ f.at = "lockBcc" /\ Wants(c) = BottomRank(f.cache)
    /\ WaitsFor(c) = bcc[f.cache]
WaitsDown(c, ch) ==
    LET f == Top(c) IN
    /\ f.at \notin {"lockTcc", "lockBcc", "fill"} /\ ch \in Children(f.cache)
    /\ Wants(c) = BottomRank(ch) /\ WaitsFor(c) = bcc[ch]
WaitsFilter(c) ==
    LET f == Top(c) IN
    /\ f.at # "fill" /\ f.cache \in L1 /\ Wants(c) = FilterRank
    /\ WaitsFor(c) = filterLock[f.cache]

LEMMA WaitCases ==
    ASSUME Inner, NEW c \in Core, WaitsFor(c) \in Core
    PROVE  /\ stack[c] # << >>
           /\ \/ WaitsTop(c) \/ WaitsUp(c) \/ WaitsFilter(c)
              \/ \E ch \in Cache : WaitsDown(c, ch)
  <1> DEFINE f == Top(c)
             q == stack[c]
  <1>1. q # << >>
    BY TreeAssumption DEF WaitsFor
  <1>2. Sane(c, q) /\ FrameOK(f) /\ f = q[1] /\ f.cache \in Cache /\ f.kind \in {"access", "inv"}
    BY <1>1, TopFacts, FrameFacts
  <1>3. f.at = "down" <=> f.kind = "inv"
    BY <1>2, FrameFacts
  <1>4. f.todo # {} => /\ f.at \in {"evict", "grant", "down"} /\ f.cache \notin L1
                       /\ NextChild(f) \in Children(f.cache)
    <2>1. SUFFICES ASSUME f.todo # {}
                   PROVE  /\ f.at \in {"evict", "grant", "down"} /\ f.cache \notin L1
                          /\ NextChild(f) \in Children(f.cache)
      OBVIOUS
    <2>2. NextChild(f) \in f.todo
      BY <2>1 DEF NextChild
    <2>3. NextChild(f) \in Children(f.cache)
      BY <1>2, <2>2 DEF FrameOK
    <2> QED
      BY <1>2, <2>1, <2>3, ChildFacts, TreeAssumption DEF FrameOK
  <1>5. CASE f.at = "lockTcc"
    BY <1>1, <1>2, <1>3, <1>4, <1>5 DEF WaitsTop, Wants, WaitsFor
  <1>6. CASE f.at = "lockBcc"
    BY <1>1, <1>2, <1>3, <1>4, <1>6 DEF WaitsUp, Wants, WaitsFor
  <1>7. CASE f.todo # {}
    <2>1. WaitsDown(c, NextChild(f))
      BY <1>1, <1>2, <1>4, <1>7 DEF WaitsDown, Wants, WaitsFor
    <2> QED
      BY <1>1, <1>4, <1>7, <2>1 DEF Children
  <1>8. CASE f.at = "end" /\ f.cache \in L1
    BY <1>1, <1>2, <1>4, <1>8 DEF WaitsFilter, Wants, WaitsFor
  <1>9. CASE f.at = "end" /\ f.cache \notin L1
    <2>1. f.child \in Cache /\ f.child \in Children(f.cache)
      BY <1>1, <1>2, <1>3, <1>9, CallingChild
    <2>2. WaitsDown(c, f.child)
      BY <1>1, <1>2, <1>4, <1>9, <2>1 DEF WaitsDown, Wants, WaitsFor
    <2> QED
      BY <1>1, <2>1, <2>2
  <1>10. CASE f.at = "down" /\ f.cache \in L1
    BY <1>1, <1>2, <1>4, <1>10 DEF WaitsFilter, Wants, WaitsFor
  <1>11. CASE /\ f.at \notin {"lockTcc", "lockBcc", "end"} /\ f.todo = {}
              /\ ~(f.at = "down" /\ f.cache \in L1)
    BY <1>1, <1>11, TreeAssumption DEF WaitsFor
  <1> QED
    BY <1>5, <1>6, <1>7, <1>8, <1>9, <1>10, <1>11

(* What a waiting core holds comes before what it waits for. *)
LEMMA TopBelow ==
    ASSUME Inner, NEW c \in Core, WaitsFor(c) \in Core, NEW k \in Cache, tcc[k] = c
    PROVE  H[k] < Wants(c)
  <1> DEFINE f == Top(c)
             q == stack[c]
  <1>1. q # << >> /\ Sane(c, q) /\ f = q[1] /\ f.cache \in Cache /\ 1 \in 1..Len(q)
    BY WaitCases, TopFacts, FrameFacts
  <1>2. CASE WaitsTop(c)
    <2>1. PICK i \in 1..Len(q) : q[i].kind = "access" /\ q[i].cache = k /\ q[i].at # "lockTcc"
      BY DEF Inner, Locks, HoldsTop
    <2>2. 1 < i /\ q[1].kind = "access"
      BY <1>1, <1>2, <2>1 DEF WaitsTop
    <2>3. H[q[i].cache] < H[q[1].cache]
      BY <1>1, <2>2 DEF Sane, Ordered
    <2> QED
      BY <1>1, <1>2, <2>1, <2>3 DEF WaitsTop
  <1>3. CASE WaitsUp(c)
    BY <1>1, <1>3, Ranks DEF WaitsUp
  <1>4. CASE WaitsFilter(c)
    BY <1>4, Ranks DEF WaitsFilter
  <1>5. ASSUME NEW ch \in Cache, WaitsDown(c, ch) PROVE H[k] < Wants(c)
    BY <1>5, Ranks DEF WaitsDown
  <1> QED
    BY <1>2, <1>3, <1>4, <1>5, WaitCases

LEMMA BottomBelow ==
    ASSUME Inner, NEW c \in Core, WaitsFor(c) \in Core, NEW k \in Cache, bcc[k] = c
    PROVE  BottomRank(k) < Wants(c)
  <1> DEFINE f == Top(c)
             q == stack[c]
  <1>1. /\ q # << >> /\ Sane(c, q) /\ f = q[1] /\ f.cache \in Cache /\ 1 \in 1..Len(q)
        /\ f.kind \in {"access", "inv"}
    BY WaitCases, TopFacts, FrameFacts
  <1>2. HoldsBottom(q, k)
    BY DEF Inner, Locks
  <1>3. f.kind = "access" => k = f.cache /\ f.at \notin {"lockTcc", "lockBcc", "fill"}
    BY <1>1, <1>2, BottomAlone
  <1>4. ~WaitsTop(c) /\ ~WaitsUp(c)
    BY <1>3 DEF WaitsTop, WaitsUp
  <1>5. CASE WaitsFilter(c)
    BY <1>5, Ranks DEF WaitsFilter
  <1>6. ASSUME NEW ch \in Cache, WaitsDown(c, ch) PROVE BottomRank(k) < Wants(c)
    <2>1. ch \in Children(f.cache) /\ Wants(c) = BottomRank(ch)
      BY <1>6 DEF WaitsDown
    <2>2. H[ch] < H[f.cache]
      BY <1>1, <2>1, Heights
    <2>3. CASE k = f.cache
      BY <1>1, <2>1, <2>2, <2>3, Ranks
    <2>4. CASE k # f.cache
      <3>1. PICK i \in 1..Len(q) : q[i].cache = k /\ HasBottom(q, i)
        BY <1>2 DEF HoldsBottom
      <3>2. i # 1 /\ q[1].kind = "inv" /\ 1 < i
        BY <1>1, <1>3, <2>4, <3>1
      <3>3. q[i].kind = "inv" \/ q[i - 1].kind = "inv"
        BY <3>1, <3>2 DEF HasBottom
      <3>4. H[q[1].cache] < H[q[i].cache]
        BY <1>1, <3>2, <3>3 DEF Sane, Ordered
      <3>5. H[ch] < H[k]
        BY <1>1, <2>2, <3>1, <3>4, Heights
      <3> QED
        BY <2>1, <3>5, Ranks
    <2> QED
      BY <2>3, <2>4
  <1> QED
    BY <1>4, <1>5, <1>6, WaitCases

LEMMA FillerRuns ==
    ASSUME Inner, NEW c \in Core, WaitsFor(c) \in Core, NEW l \in L1
    PROVE  filterLock[l] # c
  <1>1. stack[c] # << >> /\ Top(c) = stack[c][1]
    BY WaitCases, TopFacts
  <1>2. Top(c).at # "fill"
    BY WaitCases DEF WaitsTop, WaitsUp, WaitsDown, WaitsFilter
  <1> QED
    BY <1>1, <1>2 DEF Inner, Locks, Fills

(* A core waiting for a waiting core wants less. *)
LEMMA WaitsRise ==
    ASSUME Inner, NEW c \in Core, NEW d \in Core, WaitsFor(c) = d, WaitsFor(d) \in Core
    PROVE  Wants(c) < Wants(d)
  <1>1. stack[c] # << >> /\ Top(c).cache \in Cache
    BY WaitCases, TopFacts, FrameFacts
  <1>2. CASE WaitsTop(c)
    BY <1>1, <1>2, TopBelow DEF WaitsTop
  <1>3. CASE WaitsUp(c)
    BY <1>1, <1>3, BottomBelow DEF WaitsUp
  <1>4. CASE WaitsFilter(c)
    BY <1>4, FillerRuns DEF WaitsFilter
  <1>5. ASSUME NEW ch \in Cache, WaitsDown(c, ch) PROVE Wants(c) < Wants(d)
    BY <1>5, BottomBelow DEF WaitsDown
  <1> QED
    BY <1>2, <1>3, <1>4, <1>5, WaitCases

LEMMA WantsBounded ==
    ASSUME Inner, NEW c \in Core, WaitsFor(c) \in Core
    PROVE  Wants(c) \in 0..FilterRank
  <1>1. stack[c] # << >> /\ Top(c).cache \in Cache
    BY WaitCases, TopFacts, FrameFacts
  <1>2. CASE WaitsTop(c)
    BY <1>1, <1>2, Ranks DEF WaitsTop
  <1>3. CASE WaitsUp(c)
    BY <1>1, <1>3, Ranks DEF WaitsUp
  <1>4. CASE WaitsFilter(c)
    BY <1>4, Ranks DEF WaitsFilter
  <1>5. ASSUME NEW ch \in Cache, WaitsDown(c, ch) PROVE Wants(c) \in 0..FilterRank
    BY <1>5, Ranks DEF WaitsDown
  <1> QED
    BY <1>2, <1>3, <1>4, <1>5, WaitCases

LEMMA SomeoneGetsOut ==
    ASSUME Inner, NEW C \in SUBSET Core, C # {}
    PROVE  \E c \in C : WaitsFor(c) \notin C
  <1> SUFFICES ASSUME \A c \in C : WaitsFor(c) \in C PROVE FALSE
    OBVIOUS
  <1>1. \A c \in C : WaitsFor(c) \in Core
    OBVIOUS
  <1> DEFINE S == {FilterRank - Wants(c) : c \in C}
  <1>2. \A c \in C : Wants(c) \in 0..FilterRank
    BY <1>1, WantsBounded
  <1>3. S \in SUBSET Nat /\ S # {}
    BY <1>2, Ranks
  <1>4. PICK n \in S : \A i \in S : ~(<<i, n>> \in OpToRel(<, Nat))
    BY <1>3, NatLessThanWellFounded, WFMin
  <1>5. PICK c \in C : n = FilterRank - Wants(c)
    BY <1>4
  <1>6. PICK d \in C : d = WaitsFor(c)
    OBVIOUS
  <1>7. Wants(c) < Wants(d)
    BY <1>1, <1>6, WaitsRise
  <1>8. FilterRank - Wants(d) < n /\ FilterRank - Wants(d) \in S /\ n \in Nat
    BY <1>2, <1>3, <1>5, <1>7, Ranks
  <1> QED
    BY <1>3, <1>4, <1>8 DEF OpToRel

(* The owner of each wait's lock waits further along the order, if at all. *)
LEMMA InnerFree ==
    ASSUME Inner PROVE NoDeadlock
  <1>1. \A C \in SUBSET Core : C # {} => \E c \in C : WaitsFor(c) \notin C
    BY SomeoneGetsOut
  <1>2. ASSUME NEW c \in Core PROVE WaitsFor(c) # c
    <2>1. {c} \in SUBSET Core /\ {c} # {}
      OBVIOUS
    <2> QED
      BY <1>1, <2>1
  <1>3. ASSUME NEW c \in Core, stack[c] = << >>, NEW k \in Cache
        PROVE  bcc[k] # c /\ tcc[k] # c /\ (k \in L1 => filterLock[k] # c)
    BY <1>3 DEF Inner, Locks, HoldsTop, HoldsBottom, Fills
  <1> QED
    BY <1>1, <1>2, <1>3 DEF NoDeadlock

-----------------------------------------------------------------------------
(* The locks are held as long as a call needs them. *)
LocksHeld ==
    \A c \in Core, k \in Cache :
        /\ HoldsTop(stack[c], k) => tcc[k] = c
        /\ HoldsBottom(stack[c], k) => bcc[k] = c

(* A line is in a cache once, and a line that was never filled is invalid. *)
UniqueTags ==
    \A k \in Cache : \A s, t \in Slots(k) : tag[k][s] = tag[k][t] /\ tag[k][s] # None => s = t
NamedLines ==
    \A k \in Cache : \A s \in Slots(k) : st[k][s] # "I" => tag[k][s] # None

(* The bank above that line s of x belongs to.  A cache has only lines that *)
(* its children ask it for, and no other bank.                             *)
Home(x, s) == Parent(x, tag[x][s])
Routed(k, a) == \A ch \in Children(k) : Parent(ch, a) = k
Routes == \A k \in Cache : \A s \in Slots(k) : tag[k][s] # None => Routed(k, tag[k][s])

(* A child whose bit is gone while it still has the line: an invalidation  *)
(* of it is on its way, or it waits for its upgrade.                       *)
Leaving(q, k, ch, s) ==
    \E i \in 2..Len(q) : /\ q[i - 1].kind = "inv" /\ q[i - 1].type = "INV"
                         /\ q[i - 1].cache = ch /\ q[i].cache = k /\ q[i].line = s
Upgrading(q, k, ch, s) ==
    \E i \in 1..Len(q) : /\ q[i].at = "grant" /\ q[i].type = "GETX" /\ q[i].cache = k
                         /\ q[i].child = ch /\ q[i].line = s
Going(q, k, ch, s) == Leaving(q, k, ch, s) \/ Upgrading(q, k, ch, s)
InFlight(k, ch, s) == \E c \in Core : Going(stack[c], k, ch, s)

(* Line t of ch is in line s of the bank above, which knows. *)
InParent(ch, t, s) ==
    LET p == Home(ch, t)
    IN  /\ tag[p][s] = tag[ch][t] /\ st[p][s] # "I"
        /\ HaveExclusive(ch, t) => HaveExclusive(p, s)
        /\ ch \in dir[p][s].sharers \/ InFlight(p, ch, s)
Included ==
    \A ch \in Cache : \A t \in Slots(ch) : Home(ch, t) # Mem =>
        (st[ch][t] # "I" => \E s \in Slots(Home(ch, t)) : InParent(ch, t, s))

HasLine(ch, a) == \E t \in Slots(ch) : tag[ch][t] = a /\ st[ch][t] # "I"
Listed ==
    \A k \in Cache : \A s \in Slots(k) : \A ch \in dir[k][s].sharers : HasLine(ch, tag[k][s])

Siblings ==
    \A x, y \in Cache : x # y =>
        \A s \in Slots(x), t \in Slots(y) :
            Home(x, s) = Home(y, t) /\ Home(x, s) # Mem =>
                (tag[x][s] = tag[y][t] /\ HaveExclusive(x, s) => st[y][t] = "I")

CanWrite(ch, a) == \E t \in Slots(ch) : tag[ch][t] = a /\ HaveExclusive(ch, t)
Writable(k, a) == \E ch \in Children(k) : CanWrite(ch, a)

CountOK(e) == e.n = Cardinality(e.sharers) /\ (e.n > 1 => ~e.excl)
EntryOK(k, s) == CountOK(dir[k][s]) /\ (IsExclusive(dir[k][s]) <=> Writable(k, tag[k][s]))
Working(q, k, s) ==
    \E i \in 1..Len(q) : q[i].at \in {"evict", "grant", "down"} /\ q[i].cache = k /\ q[i].line = s
Busy(k, s) == \E c \in Core : Working(stack[c], k, s)
Directory ==
    \A k \in Cache : \A s \in Slots(k) :
        /\ dir[k][s].n \in 0..Cardinality(Children(k))
        /\ EntryOK(k, s) \/ Busy(k, s)

(* What a call knows of the line of the child that called. *)
ChildOK(f) ==
    LET cs == st[f.child][f.slot]
    IN  /\ tag[f.child][f.slot] = f.addr
        /\ f.at \in {"lockTcc", "lockBcc"} =>
              \/ f.type = "GETS" /\ f.init = "I" /\ cs = "I"
              \/ f.type = "GETX" /\ f.init \in {"I", "S"} /\ cs \in {"I", f.init}
              \/ f.type = "PUTS" /\ f.init \in {"S", "E"} /\ cs \in {"I", "S", f.init}
              \/ f.type = "PUTX" /\ f.init = "M" /\ cs \in {"I", "S", "M"}
        /\ f.at \in {"access", "evict", "insert", "dir", "grant"} =>
              \/ f.type = "GETS" /\ cs = "I"
              \/ f.type = "GETX" /\ cs \in {"I", "S"}
              \/ f.type = "PUTS" /\ cs \in {"S", "E"} /\ f.at \in {"access", "dir"}
              \/ f.type = "PUTX" /\ cs = "M" /\ f.at \in {"access", "dir"}
        /\ f.at = "end" =>
              \/ f.type = "GETS" /\ cs # "I"
              \/ f.type = "GETX" /\ cs = "M"
              \/ IsPut(f.type) /\ cs = "I"

Served(type, state) == state # "I" /\ (type \in {"GETX", "PUTX"} => state = "M")

(* ... and of its own line; inner if it is the innermost call. *)
LineOK(f, inner) ==
    /\ f.at \in {"access", "dir", "grant"} => tag[f.cache][f.line] = f.addr
    /\ f.at \in {"evict", "insert"} => \A s \in Slots(f.cache) : tag[f.cache][s] # f.addr
    /\ f.at = "insert" => dir[f.cache][f.line].sharers = {}
    /\ f.at = "insert" /\ inner => st[f.cache][f.line] = "I"
    /\ f.cache \in L1 /\ f.at = "lockBcc" => f.init = "I"
    /\ \/ f.at = "dir" /\ inner
       \/ f.at = "grant"
       \/ f.at = "end" /\ inner /\ f.cache \in L1
       =>
          Served(f.type, st[f.cache][f.line])

(* ... of the directory entry it works on *)
WorkOK(f, inner) ==
    LET e == dir[f.cache][f.line]
        a == tag[f.cache][f.line]
    IN  f.at \in {"evict", "grant", "down"} =>
          IF InvType(f) = "INV" THEN e.sharers = f.todo
          ELSE /\ CountOK(e) /\ f.todo \subseteq e.sharers
               /\ \A ch \in f.todo : CanWrite(ch, a)
               /\ inner /\ f.todo = {} => ~Writable(f.cache, a)

(* ... of the line it invalidates *)
InvOK(f) ==
    /\ tag[f.cache][f.line] = f.addr /\ st[f.cache][f.line] # "I"
    /\ f.type = "INVX" => HaveExclusive(f.cache, f.line)

CallOK(f, g) ==
    /\ g.kind = "access" /\ f.at = "insert" => IsPut(g.type)
    /\ g.kind = "access" /\ f.at \in {"dir", "end"} => g.type = f.type /\ ~IsPut(f.type)
    /\ g.kind = "inv" => g.type = InvType(f) /\ g.addr = tag[f.cache][f.line] /\ g.cache \notin f.todo

FrameFact(f, inner) ==
    /\ f.addr \in Addr
    /\ f.kind = "access" /\ f.cache \notin L1 => ChildOK(f)
    /\ f.kind = "access" => LineOK(f, inner)
    /\ WorkOK(f, inner)
    /\ f.kind = "inv" => InvOK(f)

(* Dirty data in hand belongs to a line that may be written. *)
KeepOK(f, w) == w /\ f.at \in {"evict", "grant"} => HaveExclusive(f.cache, f.line)

(* Two invalidated lines, or one and the line that makes it go. *)
Above(f, g) ==
    /\ tag[g.cache][g.line] = tag[f.cache][f.line]
    /\ HaveExclusive(g.cache, g.line) => HaveExclusive(f.cache, f.line)

Chain(q) == \A i, j \in 1..Len(q) : i < j /\ q[j - 1].kind = "inv" => Above(q[j], q[i])

Calls(q, w) ==
    /\ \A i \in 1..Len(q) : FrameFact(q[i], i = 1) /\ KeepOK(q[i], w)
    /\ \A i \in 2..Len(q) : CallOK(q[i], q[i - 1])
    /\ Chain(q)

Lines ==
    /\ UniqueTags /\ NamedLines /\ Routes
    /\ Included /\ Listed /\ Siblings
    /\ Directory

Coherent ==
    /\ ~failed
    /\ wb \in [Core -> BOOLEAN]
    /\ LocksHeld
    /\ Lines
    /\ \A c \in Core : Calls(stack[c], wb[c])

-----------------------------------------------------------------------------
(* Who has a lock afterwards had it before, or got it. *)
LEMMA LocksHeldStep ==
    ASSUME Inner, LocksHeld, NEW c \in Core, NEW r, stack' = [stack EXCEPT ![c] = r],
           \A k \in Cache : HoldsTop(r, k) => tcc'[k] = c,
           \A k \in Cache : HoldsBottom(r, k) => bcc'[k] = c,
           \A k \in Cache : tcc'[k] = tcc[k] \/ tcc[k] \in {c, Free},
           \A k \in Cache : bcc'[k] = bcc[k] \/ bcc[k] \in {c, Free}
    PROVE  LocksHeld'
  <1>1. stack'[c] = r /\ \A d \in Core : d # c => stack'[d] = stack[d]
    BY DEF Inner
  <1>2. Free \notin Core
    BY TreeAssumption DEF Free
  <1> SUFFICES ASSUME NEW d \in Core, NEW k \in Cache
               PROVE  /\ HoldsTop(stack'[d], k) => tcc'[k] = d
                      /\ HoldsBottom(stack'[d], k) => bcc'[k] = d
    BY Zenon DEF LocksHeld, HoldsTop, HoldsBottom, HasBottom
  <1>3. CASE d = c
    BY <1>1, <1>3
  <1>4. CASE d # c
    <2>1. stack'[d] = stack[d]
      BY <1>1, <1>4
    <2>2. (HoldsTop(stack[d], k) => tcc[k] = d) /\ (HoldsBottom(stack[d], k) => bcc[k] = d)
      BY DEF LocksHeld
    <2> QED
      BY <1>2, <1>4, <2>1, <2>2
  <1> QED
    BY <1>3, <1>4

(* A call that goes on in its cache holds the top locks it held, and the   *)
(* one it took.                                                            *)
LEMMA TopOfGoto ==
    ASSUME NEW q \in Seq(FrameSet), q # << >>, NEW f \in FrameSet, SameCall(f, q[1]),
           NEW k, HoldsTop(<<f>> \o Tail(q), k)
    PROVE  HoldsTop(q, k) \/ (k = f.cache /\ q[1].at = "lockTcc")
  <1> DEFINE r == <<f>> \o Tail(q)
  <1>1. Len(r) = Len(q) /\ Len(q) \in Nat \ {0} /\ r[1] = f /\ \A i \in 2..Len(q) : r[i] = q[i]
    BY GotoSeq
  <1> HIDE DEF r
  <1>2. PICK i \in 1..Len(r) : k \notin L1 /\ r[i].kind = "access" /\ r[i].cache = k /\ r[i].at # "lockTcc"
    BY DEF HoldsTop, r
  <1>3. CASE i = 1
    BY <1>1, <1>2, <1>3 DEF SameCall, HoldsTop
  <1>4. CASE i # 1
    BY <1>1, <1>2, <1>4 DEF HoldsTop
  <1> QED
    BY <1>3, <1>4

(* A call does not take a top lock. *)
LEMMA TopOfCall ==
    ASSUME NEW q \in Seq(FrameSet), q # << >>, NEW f \in FrameSet, SameCall(f, q[1]),
           NEW g \in FrameSet, g.kind = "inv" \/ g.at = "lockTcc", q[1].at # "lockTcc",
           NEW k, HoldsTop(<<g, f>> \o Tail(q), k)
    PROVE  HoldsTop(q, k)
  <1> DEFINE r == <<g, f>> \o Tail(q)
  <1>1. /\ Len(r) = Len(q) + 1 /\ Len(q) \in Nat \ {0} /\ r[1] = g /\ r[2] = f
        /\ \A i \in 3..(Len(q) + 1) : r[i] = q[i - 1]
    BY CallSeq
  <1> HIDE DEF r
  <1>2. PICK i \in 1..Len(r) : k \notin L1 /\ r[i].kind = "access" /\ r[i].cache = k /\ r[i].at # "lockTcc"
    BY DEF HoldsTop, r
  <1>3. i # 1
    BY <1>1, <1>2
  <1>4. i - 1 \in 1..Len(q)
    BY <1>1, <1>3
  <1>5. CASE i = 2
    BY <1>1, <1>2, <1>5 DEF SameCall, HoldsTop
  <1>6. CASE i # 2
    BY <1>1, <1>2, <1>3, <1>4, <1>6, SMTT(20) DEF HoldsTop
  <1> QED
    BY <1>5, <1>6

(* A return keeps the top locks of the calls that wait, but not its own. *)
LEMMA TopOfReturn ==
    ASSUME NEW c, NEW q, Sane(c, q), q # << >>, NEW k, HoldsTop(Tail(q), k)
    PROVE  HoldsTop(q, k) /\ (q[1].kind = "access" => k # q[1].cache)
  <1> DEFINE r == Tail(q)
  <1>1. /\ Len(r) = Len(q) - 1 /\ Len(q) \in Nat \ {0}
        /\ \A i \in 1..(Len(q) - 1) : r[i] = q[i + 1]
    BY ReturnSeq DEF Sane, FrameSet
  <1> HIDE DEF r
  <1>2. PICK i \in 1..Len(r) : k \notin L1 /\ r[i].kind = "access" /\ r[i].cache = k /\ r[i].at # "lockTcc"
    BY DEF HoldsTop, r
  <1>3. i + 1 \in 1..Len(q) /\ r[i] = q[i + 1] /\ 1 \in 1..Len(q) /\ 1 < i + 1
    BY <1>1
  <1>4. q[1].kind = "access" => H[q[i + 1].cache] < H[q[1].cache]
    BY <1>3 DEF Sane, Ordered
  <1>5. H[q[i + 1].cache] \in Nat
    BY <1>3, FrameFacts, Heights DEF Sane
  <1> QED
    BY <1>2, <1>3, <1>4, <1>5 DEF HoldsTop

(* The same of the bottom locks. *)
LEMMA BottomOfGoto ==
    ASSUME NEW q \in Seq(FrameSet), q # << >>, NEW f \in FrameSet, SameCall(f, q[1]),
           NEW k, HoldsBottom(<<f>> \o Tail(q), k)
    PROVE  HoldsBottom(q, k) \/ (k = f.cache /\ q[1].at \in {"lockTcc", "lockBcc", "fill"}
                                /\ f.at \notin {"lockTcc", "lockBcc", "fill"})
  <1> DEFINE r == <<f>> \o Tail(q)
  <1>1. Len(r) = Len(q) /\ Len(q) \in Nat \ {0} /\ r[1] = f /\ \A i \in 2..Len(q) : r[i] = q[i]
    BY GotoSeq
  <1> HIDE DEF r
  <1>2. PICK i \in 1..Len(r) : r[i].cache = k /\ HasBottom(r, i)
    BY DEF HoldsBottom, r
  <1>3. CASE i = 1
    BY <1>1, <1>2, <1>3 DEF SameCall, HoldsBottom, HasBottom
  <1>4. CASE i # 1
    <2>1. i \in 1..Len(q) /\ r[i] = q[i] /\ r[i - 1].kind = q[i - 1].kind
      BY <1>1, <1>4 DEF SameCall
    <2> QED
      BY <1>2, <1>4, <2>1 DEF HoldsBottom, HasBottom
  <1> QED
    BY <1>3, <1>4

(* A core whose access waits for its locks holds no bottom lock: the       *)
(* parent's startAccess dropped the child's.                               *)
LEMMA BottomOfCallUp ==
    ASSUME NEW c, NEW r, Sane(c, r), NEW k, HoldsBottom(r, k), r # << >>,
           r[1].kind = "access", r[1].at \in {"lockTcc", "lockBcc", "fill"}
    PROVE  FALSE
  BY BottomAlone

(* An invalidation adds the bottom lock of the child it was sent to. *)
LEMMA BottomOfCallDown ==
    ASSUME NEW q \in Seq(FrameSet), q # << >>, NEW f \in FrameSet, SameCall(f, q[1]),
           f.at = q[1].at, f.at \in {"evict", "grant", "down"},
           NEW g \in FrameSet, g.kind = "inv",
           NEW k, HoldsBottom(<<g, f>> \o Tail(q), k)
    PROVE  HoldsBottom(q, k) \/ k = g.cache
  <1> DEFINE r == <<g, f>> \o Tail(q)
  <1>1. /\ Len(r) = Len(q) + 1 /\ Len(q) \in Nat \ {0} /\ r[1] = g /\ r[2] = f
        /\ \A i \in 3..(Len(q) + 1) : r[i] = q[i - 1]
    BY CallSeq
  <1> HIDE DEF r
  <1>2. PICK i \in 1..Len(r) : r[i].cache = k /\ HasBottom(r, i)
    BY DEF HoldsBottom, r
  <1>3. CASE i = 1
    BY <1>1, <1>2, <1>3
  <1>4. CASE i = 2
    BY <1>1, <1>2, <1>4 DEF SameCall, HoldsBottom, HasBottom
  <1>5. CASE i # 1 /\ i # 2
    <2>1. /\ i - 1 \in 1..Len(q) /\ r[i] = q[i - 1] /\ i - 1 # 1
          /\ r[i - 1].kind = q[(i - 1) - 1].kind
      BY <1>1, <1>5 DEF SameCall
    <2> QED
      BY <1>2, <1>5, <2>1 DEF HoldsBottom, HasBottom
  <1> QED
    BY <1>3, <1>4, <1>5

(* A bottom lock is held for one call. *)
LEMMA BottomOnce ==
    ASSUME NEW c, NEW q, Sane(c, q), NEW i \in 1..Len(q), NEW j \in 1..Len(q),
           HasBottom(q, i), HasBottom(q, j), q[i].cache = q[j].cache
    PROVE  i = j
  <1>0. Len(q) \in Nat
    BY DEF Sane
  <1>1. ASSUME NEW m \in 1..Len(q), NEW n \in 1..Len(q), m < n, HasBottom(q, n),
               q[m].cache = q[n].cache
        PROVE  FALSE
    <2>1. H[q[n].cache] \in Nat /\ q[m].kind \in {"access", "inv"}
      BY FrameFacts, Heights DEF Sane
    <2>2. /\ q[m].kind = "access" => q[n].kind = "access" /\ H[q[n].cache] < H[q[m].cache]
          /\ q[m].kind = "inv" /\ (q[n].kind = "inv" \/ q[n - 1].kind = "inv")
                => H[q[m].cache] < H[q[n].cache]
      BY <1>1 DEF Sane, Ordered
    <2>3. q[n].kind = "inv" \/ q[n - 1].kind = "inv"
      BY <1>0, <1>1 DEF HasBottom
    <2> QED
      BY <1>1, <2>1, <2>2, <2>3
  <1> QED
    BY <1>0, <1>1

(* An access goes through a cache once. *)
LEMMA AccessOnce ==
    ASSUME NEW c, NEW q, Sane(c, q), NEW i \in 1..Len(q), NEW j \in 1..Len(q),
           q[i].kind = "access", q[j].kind = "access", q[i].cache = q[j].cache
    PROVE  i = j
  <1>0. Len(q) \in Nat
    BY DEF Sane
  <1>1. ASSUME NEW m \in 1..Len(q), NEW n \in 1..Len(q), m < n, q[m].kind = "access",
               q[m].cache = q[n].cache
        PROVE  FALSE
    <2>1. H[q[n].cache] \in Nat
      BY FrameFacts, Heights DEF Sane
    <2>2. H[q[n].cache] < H[q[m].cache]
      BY <1>1 DEF Sane, Ordered
    <2> QED
      BY <1>1, <2>1, <2>2
  <1> QED
    BY <1>0, <1>1

-----------------------------------------------------------------------------
(* Three things give a core a say in the state of line s of x: an access   *)
(* of x, the bottom lock of x and that of the bank above that the line     *)
(* belongs to.  Two of them are needed to change the state, so two of them *)
(* keep it what it is.                                                     *)
Visits(q, x) ==
    \E i \in 1..Len(q) : /\ q[i].kind = "access" /\ q[i].cache = x
                         /\ x \notin L1 => q[i].at # "lockTcc"
TwoOf(q, x, s) ==
    \/ Visits(q, x) /\ HoldsBottom(q, x)
    \/ Visits(q, x) /\ HoldsBottom(q, Home(x, s))
    \/ HoldsBottom(q, x) /\ HoldsBottom(q, Home(x, s))

Lowered(new, old) == old # "I" /\ new \in {"I", "S"} /\ (new = "S" => old \in {"E", "M"})

(* What a step of the core with stack q may do to the line s of x. *)
Footprint(q, x, s) ==
    /\ \/ dir'[x][s] = dir[x][s]
       \/ HoldsBottom(q, x) /\ (Visits(q, x) \/ dir'[x][s].sharers \subseteq dir[x][s].sharers)
    /\ \/ tag'[x][s] = tag[x][s]
       \/ /\ HoldsBottom(q, x) /\ Visits(q, x) /\ st[x][s] = "I"
          /\ HaveExclusive(x, s)' => Home(x, s)' = Mem
    /\ st'[x][s] = st[x][s] \/ TwoOf(q, x, s)
    /\ st'[x][s] = st[x][s] \/ Visits(q, x) \/ Lowered(st'[x][s], st[x][s])
    /\ HoldsBottom(q, Home(x, s)) \/ Home(x, s) = Mem
          \/ (HaveExclusive(x, s)' <=> HaveExclusive(x, s))

Apart(p, q) ==
    \A x : /\ ~(HoldsBottom(p, x) /\ HoldsBottom(q, x))
           /\ ~(Visits(p, x) /\ Visits(q, x))

(* The locks keep the stacks of two cores apart. *)
LEMMA CoresApart ==
    ASSUME Inner, LocksHeld, NEW c \in Core, NEW d \in Core, c # d
    PROVE  Apart(stack[d], stack[c])
  <1> SUFFICES ASSUME NEW x
               PROVE  /\ ~(HoldsBottom(stack[d], x) /\ HoldsBottom(stack[c], x))
                      /\ ~(Visits(stack[d], x) /\ Visits(stack[c], x))
    BY Zenon DEF Apart
  <1>1. Sane(c, stack[c]) /\ Sane(d, stack[d])
    BY DEF Inner
  <1>2. CASE x \notin Cache
    <2>1. \A e \in {c, d} : \A i \in 1..Len(stack[e]) : stack[e][i].cache \in Cache
      BY <1>1, FrameFacts DEF Sane
    <2> QED
      BY <1>2, <2>1 DEF HoldsBottom, Visits
  <1>3. CASE x \in Cache
    <2>1. ~(HoldsBottom(stack[d], x) /\ HoldsBottom(stack[c], x))
      BY <1>3 DEF LocksHeld
    <2>2. CASE x \in L1
      <3>1. \A e \in {c, d} : Visits(stack[e], x) => CoreOf[x] = e
        BY <1>1, <2>2, L1Base DEF Visits
      <3> QED
        BY <2>1, <3>1
    <2>3. CASE x \notin L1
      <3>1. \A e \in {c, d} : Visits(stack[e], x) => HoldsTop(stack[e], x)
        BY <2>3 DEF Visits, HoldsTop
      <3> QED
        BY <1>3, <2>1, <3>1 DEF LocksHeld
    <2> QED
      BY <2>2, <2>3
  <1> QED
    BY <1>2, <1>3

(* ... so a step of one core leaves what the other has a say in, but for a *)
(* line it may find lowered.                                               *)
LEMMA Stable ==
    ASSUME NEW p, NEW q, Apart(p, q), NEW x \in Cache, NEW s, Footprint(q, x, s)
    PROVE  /\ TwoOf(p, x, s) => st'[x][s] = st[x][s]
           /\ Visits(p, x) \/ HoldsBottom(p, x) => tag'[x][s] = tag[x][s]
           /\ HoldsBottom(p, x) => dir'[x][s] = dir[x][s]
           /\ Visits(p, x) => dir'[x][s].sharers \subseteq dir[x][s].sharers
           /\ Visits(p, x) => st'[x][s] = st[x][s] \/ Lowered(st'[x][s], st[x][s])
  <1>1. /\ ~(HoldsBottom(p, x) /\ HoldsBottom(q, x)) /\ ~(Visits(p, x) /\ Visits(q, x))
        /\ ~(HoldsBottom(p, Home(x, s)) /\ HoldsBottom(q, Home(x, s)))
    BY DEF Apart
  <1> QED
    BY <1>1 DEF Footprint, TwoOf

(* What a call gives its core a say in. *)
LEMMA Rights ==
    ASSUME NEW d, NEW p, Sane(d, p), NEW i \in 1..Len(p)
    PROVE  /\ p[i].kind = "access" /\ (p[i].cache \notin L1 => p[i].at # "lockTcc")
                 => Visits(p, p[i].cache)
           /\ p[i].kind = "access" /\ p[i].cache \notin L1 =>
                 /\ Visits(p, p[i].child) /\ p[i].child \in Children(p[i].cache)
                 /\ Parent(p[i].child, p[i].addr) = p[i].cache /\ p[i].slot \in Slots(p[i].child)
                 /\ i + 1 \in 1..Len(p) /\ p[i + 1].kind = "access"
                 /\ p[i + 1].cache = p[i].child /\ p[i + 1].line = p[i].slot
           /\ p[i].at \in {"evict", "grant", "down", "access"} => HasBottom(p, i)
           /\ p[i].at = "end" /\ p[i].cache \notin L1 => HasBottom(p, i)
           /\ HasBottom(p, i) => HoldsBottom(p, p[i].cache)
           /\ p[i].kind = "inv" =>
                 /\ HoldsBottom(p, p[i].cache) /\ HoldsBottom(p, p[i + 1].cache)
                 /\ p[i + 1].cache \in Cache /\ p[i].cache \in Children(p[i + 1].cache)
                 /\ i + 1 \in 1..Len(p)
                 /\ p[i + 1].at \in {"evict", "grant", "down"} /\ HasBottom(p, i + 1)
  <1>1. Len(p) \in Nat /\ \A j \in 1..Len(p) : FrameOK(p[j])
    BY DEF Sane
  <1>2. i # Len(p) => i + 1 \in 1..Len(p) /\ i + 1 > 1 /\ Called(p[i + 1], p[(i + 1) - 1])
    BY <1>1 DEF Sane
  <1>3. (i + 1) - 1 = i
    BY <1>1
  <1>4. i > 1 => i - 1 \in 1..Len(p) /\ Called(p[i], p[i - 1])
    BY <1>1 DEF Sane
  <1>5. p # << >> => p[Len(p)].kind = "access" /\ p[Len(p)].cache \in L1
    BY DEF Sane
  <1>6. p # << >>
    BY <1>1
  <1>7. p[i].kind \in {"access", "inv"} /\ p[i].cache \in Cache
        /\ (p[i].at = "down" <=> p[i].kind = "inv")
    BY <1>1, FrameFacts
  <1>8. p[i].kind = "access" /\ (p[i].cache \notin L1 => p[i].at # "lockTcc")
           => Visits(p, p[i].cache)
    BY DEF Visits
  <1>9. ASSUME p[i].kind = "access", p[i].cache \notin L1
        PROVE  /\ Visits(p, p[i].child) /\ p[i].child \in Children(p[i].cache)
               /\ Parent(p[i].child, p[i].addr) = p[i].cache /\ p[i].slot \in Slots(p[i].child)
               /\ i + 1 \in 1..Len(p) /\ p[i + 1].kind = "access"
               /\ p[i + 1].cache = p[i].child /\ p[i + 1].line = p[i].slot
    <2>1. i # Len(p)
      BY <1>5, <1>6, <1>9
    <2>2. Called(p[i + 1], p[i]) /\ i + 1 \in 1..Len(p) /\ FrameOK(p[i + 1])
      BY <1>1, <1>2, <1>3, <2>1
    <2>3. /\ p[i + 1].kind = "access" /\ p[i + 1].at \in {"insert", "dir", "end"}
          /\ p[i + 1].at = "end" => p[i + 1].cache \in L1
          /\ p[i].cache = Parent(p[i + 1].cache, p[i].addr) /\ p[i].child = p[i + 1].cache
          /\ p[i].slot = p[i + 1].line
      BY <1>9, <2>2 DEF Called
    <2>4. p[i + 1].cache \in Cache /\ p[i + 1].line \in Slots(p[i + 1].cache)
      BY <2>2, <2>3, FrameFacts DEF FrameOK
    <2>5. Visits(p, p[i].child)
      BY <2>2, <2>3 DEF Visits
    <2>6. p[i].addr \in Addr \union {None}
      BY <1>1, <1>9, FrameFacts DEF AccessFrame
    <2>7. p[i + 1].cache \in Children(p[i].cache)
      BY <1>7, <2>3, <2>4, <2>6, ParentFacts, TreeAssumption
    <2> QED
      BY <2>2, <2>3, <2>4, <2>5, <2>7
  <1>10. p[i].at \in {"evict", "grant", "down", "access"} => HasBottom(p, i)
    <2>1. i > 1 => p[i - 1].kind = "inv" \/ p[i].at \in {"insert", "dir", "end"}
      BY <1>4 DEF Called
    <2> QED
      BY <1>7, <2>1 DEF HasBottom
  <1>11. p[i].at = "end" /\ p[i].cache \notin L1 => HasBottom(p, i)
    BY <1>4, <1>7 DEF HasBottom, Called
  <1>12. HasBottom(p, i) => HoldsBottom(p, p[i].cache)
    BY DEF HoldsBottom
  <1>13. ASSUME p[i].kind = "inv"
         PROVE  /\ HoldsBottom(p, p[i].cache) /\ HoldsBottom(p, p[i + 1].cache)
                /\ p[i + 1].cache \in Cache /\ p[i].cache \in Children(p[i + 1].cache)
                /\ i + 1 \in 1..Len(p)
                /\ p[i + 1].at \in {"evict", "grant", "down"} /\ HasBottom(p, i + 1)
    <2>1. i # Len(p)
      BY <1>5, <1>6, <1>13
    <2>2. Called(p[i + 1], p[i]) /\ i + 1 \in 1..Len(p) /\ FrameOK(p[i + 1]) /\ i + 1 # 1
      BY <1>1, <1>2, <1>3, <2>1
    <2>3. p[i].cache \in Children(p[i + 1].cache) /\ p[i + 1].at \in {"evict", "grant", "down"}
      BY <1>13, <2>2 DEF Called
    <2>4. p[i + 1].cache \in Cache
      BY <2>2, FrameFacts
    <2>5. HasBottom(p, i + 1) /\ HasBottom(p, i)
      BY <1>3, <1>13, <2>3 DEF HasBottom
    <2> QED
      BY <2>2, <2>3, <2>4, <2>5 DEF HoldsBottom
  <1> QED
    BY <1>8, <1>9, <1>10, <1>11, <1>12, <1>13

(* An invalidated line is one of those of the cache that the invalidation  *)
(* came from, so the core has two of the three.                            *)
LEMMA InvHome ==
    ASSUME Routes, NEW d, NEW p, Sane(d, p), NEW w, Calls(p, w),
           NEW i \in 1..Len(p), p[i].kind = "inv"
    PROVE  /\ Home(p[i].cache, p[i].line) = p[i + 1].cache
           /\ tag[p[i].cache][p[i].line] \in Addr
           /\ TwoOf(p, p[i].cache, p[i].line) /\ HoldsBottom(p, p[i].cache)
  <1>1. /\ HoldsBottom(p, p[i].cache) /\ HoldsBottom(p, p[i + 1].cache)
        /\ p[i + 1].cache \in Cache /\ p[i].cache \in Children(p[i + 1].cache)
        /\ i + 1 \in 1..Len(p) /\ p[i + 1].at \in {"evict", "grant", "down"}
    BY Rights
  <1>2. FrameOK(p[i + 1]) /\ Len(p) \in Nat
    BY <1>1 DEF Sane
  <1>3. p[i + 1].line \in Slots(p[i + 1].cache)
    BY <1>1, <1>2 DEF FrameOK
  <1>4. i + 1 \in 2..Len(p) /\ (i + 1) - 1 = i
    BY <1>1, <1>2
  <1>5. CallOK(p[i + 1], p[i])
    BY <1>4 DEF Calls
  <1>6. FrameFact(p[i], i = 1)
    BY DEF Calls
  <1>7. /\ p[i].addr = tag[p[i + 1].cache][p[i + 1].line]
        /\ tag[p[i].cache][p[i].line] = p[i].addr /\ p[i].addr \in Addr
    BY <1>5, <1>6 DEF CallOK, FrameFact, InvOK
  <1>8. Parent(p[i].cache, p[i].addr) = p[i + 1].cache
    BY <1>1, <1>3, <1>7, TreeAssumption DEF Routes, Routed
  <1> QED
    BY <1>1, <1>7, <1>8 DEF Home, TwoOf

-----------------------------------------------------------------------------
(* A step of another core leaves what a core knows as it is. *)
LEMMA WriteStays ==
    ASSUME NEW p, NEW q, Apart(p, q), NEW ch, NEW a, NEW k, Parent(ch, a) = k, k # Mem,
           HoldsBottom(p, k), \A s \in Slots(ch) : Footprint(q, ch, s)
    PROVE  CanWrite(ch, a)' <=> CanWrite(ch, a)
  <1>1. ~HoldsBottom(q, k)
    BY DEF Apart
  <1>2. ASSUME NEW s \in Slots(ch), tag[ch][s] = a \/ tag'[ch][s] = a
        PROVE  /\ tag[ch][s] = a => (HaveExclusive(ch, s)' <=> HaveExclusive(ch, s))
               /\ HaveExclusive(ch, s) \/ HaveExclusive(ch, s)' => tag'[ch][s] = tag[ch][s]
    <2>1. /\ tag[ch][s] = a => Home(ch, s) = k
          /\ tag'[ch][s] = a => Home(ch, s)' = k
      BY DEF Home
    <2> QED
      BY <1>1, <1>2, <2>1 DEF Footprint, HaveExclusive
  <1>3. CanWrite(ch, a)' <=> \E s \in Slots(ch) : tag'[ch][s] = a /\ HaveExclusive(ch, s)'
    BY DEF CanWrite
  <1> QED
    BY <1>2, <1>3, Zenon DEF CanWrite

(* The child's line, as an access of the parent knows it. *)
LEMMA ChildStays ==
    ASSUME NEW d, NEW p, NEW q, Sane(d, p), Apart(p, q),
           \A x \in Cache : \A s \in Slots(x) : Footprint(q, x, s),
           NEW i \in 1..Len(p), p[i].kind = "access", p[i].cache \notin L1, ChildOK(p[i]),
           i > 1 => CallOK(p[i], p[i - 1])
    PROVE  ChildOK(p[i])'
  <1> DEFINE f == p[i]
             x == f.child
             s == f.slot
  <1>1. /\ Visits(p, x) /\ x \in Cache /\ s \in Slots(x)
        /\ Parent(x, f.addr) = f.cache
        /\ HasBottom(p, i) => HoldsBottom(p, f.cache)
        /\ f.at \in {"evict", "grant", "access"} => HasBottom(p, i)
        /\ f.at = "end" => HasBottom(p, i)
    BY Rights DEF Children
  <1>2. Footprint(q, x, s) /\ Home(x, s) = f.cache
    BY <1>1 DEF ChildOK, Home
  <1>3. /\ tag'[x][s] = tag[x][s]
        /\ HasBottom(p, i) => st'[x][s] = st[x][s]
        /\ st'[x][s] = st[x][s] \/ Lowered(st'[x][s], st[x][s])
    BY <1>1, <1>2, Stable DEF TwoOf
  <1>4. f.at = "dir" /\ IsPut(f.type) => HasBottom(p, i)
    <2>1. CASE i = 1
      BY <2>1 DEF HasBottom
    <2>2. CASE i # 1
      <3>1. i - 1 \in 1..Len(p) /\ i > 1 /\ FrameOK(p[i - 1])
        BY <2>2 DEF Sane
      <3>2. p[i - 1].kind \in {"access", "inv"}
        BY <3>1, FrameFacts
      <3>3. f.at = "dir" /\ IsPut(f.type) => p[i - 1].kind = "inv"
        BY <3>1, <3>2 DEF CallOK
      <3> QED
        BY <3>3 DEF HasBottom
    <2> QED
      BY <2>1, <2>2
  <1> HIDE DEF f, x, s
  <1>5. ChildOK(f)
    BY DEF f
  <1>6. ChildOK(f)'
    BY <1>1, <1>3, <1>4, <1>5 DEF ChildOK, Lowered, IsPut, x, s
  <1> QED
    BY <1>6 DEF f

(* The access's own line. *)
LEMMA LineStays ==
    ASSUME NEW d, NEW p, NEW q, Sane(d, p), Apart(p, q),
           \A x \in Cache : \A s \in Slots(x) : Footprint(q, x, s),
           NEW i \in 1..Len(p), p[i].kind = "access", LineOK(p[i], i = 1)
    PROVE  LineOK(p[i], i = 1)'
  <1> DEFINE f == p[i]
             x == f.cache
             l == f.line
  <1>1. FrameOK(f) /\ x \in Cache
    BY FrameFacts DEF Sane
  <1>2. /\ x \notin L1 /\ f.at # "lockTcc" => Visits(p, x)
        /\ x \in L1 => Visits(p, x)
        /\ HasBottom(p, i) => HoldsBottom(p, x)
        /\ f.at = "grant" => HasBottom(p, i)
    BY Rights
  <1>3. i = 1 /\ f.at \in {"insert", "dir", "end"} => HasBottom(p, i)
    BY DEF HasBottom
  <1>4. ASSUME NEW s \in Slots(x)
        PROVE  /\ Visits(p, x) => tag'[x][s] = tag[x][s] /\ dir'[x][s].sharers \subseteq dir[x][s].sharers
               /\ Visits(p, x) /\ HoldsBottom(p, x) => st'[x][s] = st[x][s]
    BY <1>1, Stable DEF TwoOf
  <1>5. f.at \in {"access", "evict", "insert", "dir", "grant"} => l \in Slots(x)
    BY <1>1 DEF FrameOK
  <1>6. f.at = "end" /\ x \in L1 => l \in Slots(x)
    BY <1>1 DEF FrameOK
  <1> DEFINE b == i = 1
  <1>7. LineOK(f, b)
    OBVIOUS
  <1>8. b /\ f.at \in {"insert", "dir", "end"} => HasBottom(p, i)
    BY <1>3
  <1> HIDE DEF f, x, l, b
  <1>9. f.at # "lockTcc" \/ x \in L1 => Visits(p, x)
    BY <1>2
  <1>10. LineOK(f, b)'
    BY <1>2, <1>4, <1>5, <1>6, <1>7, <1>8, <1>9 DEF LineOK, x, l
  <1> QED
    BY <1>10 DEF f, b

(* The directory entry an invalidation loop works on. *)
LEMMA WorkStays ==
    ASSUME NEW d, NEW p, NEW q, Sane(d, p), Apart(p, q),
           \A x \in Cache : \A s \in Slots(x) : Footprint(q, x, s),
           Routes, NEW i \in 1..Len(p), FrameFact(p[i], i = 1)
    PROVE  WorkOK(p[i], i = 1)'
  <1> DEFINE f == p[i]
             x == f.cache
             l == f.line
             b == i = 1
  <1>1. CASE f.at \in {"evict", "grant", "down"}
    <2>1. FrameOK(f) /\ x \in Cache /\ l \in Slots(x) /\ f.todo \subseteq Children(x)
      BY <1>1, FrameFacts DEF Sane, FrameOK
    <2>2. HoldsBottom(p, x)
      BY <1>1, Rights
    <2>3. dir'[x][l] = dir[x][l] /\ tag'[x][l] = tag[x][l]
      BY <2>1, <2>2, Stable
    <2>4. InvType(f) # "INV" => tag[x][l] \in Addr
      BY <1>1, <2>1, FrameFacts DEF FrameFact, LineOK, InvOK, InvType
    <2>5. ASSUME InvType(f) # "INV"
          PROVE  /\ \A ch \in Children(x) : CanWrite(ch, tag[x][l])' <=> CanWrite(ch, tag[x][l])
                 /\ Writable(x, tag[x][l])' <=> Writable(x, tag[x][l])
      <3>1. PICK a \in Addr : a = tag[x][l]
        BY <2>4, <2>5
      <3>2. ASSUME NEW ch \in Children(x) PROVE CanWrite(ch, a)' <=> CanWrite(ch, a)
        <4>1. Parent(ch, a) = x /\ x # Mem /\ ch \in Cache
          BY <2>1, <3>1, TreeAssumption DEF Routes, Routed, Children
        <4> QED
          BY <2>2, <4>1, WriteStays
      <3>3. Writable(x, a)' <=> Writable(x, a)
        BY <3>2 DEF Writable
      <3>4. /\ \A ch \in Children(x) : CanWrite(ch, tag[x][l])' <=> CanWrite(ch, a)'
            /\ Writable(x, tag[x][l])' <=> Writable(x, a)'
        BY <2>3, <3>1
      <3> QED
        BY <3>1, <3>2, <3>3, <3>4
    <2>6. WorkOK(f, b)
      BY DEF FrameFact
    <2> HIDE DEF f, x, l, b
    <2>7. WorkOK(f, b)'
      BY <2>1, <2>3, <2>5, <2>6 DEF WorkOK, InvType, x, l
    <2> QED
      BY <2>7 DEF f, b
  <1>2. CASE f.at \notin {"evict", "grant", "down"}
    BY <1>2 DEF WorkOK
  <1> QED
    BY <1>1, <1>2

(* All that the calls of another core know. *)
LEMMA Others ==
    ASSUME NEW d, NEW p, NEW q, Sane(d, p), Apart(p, q),
           \A x \in Cache : \A s \in Slots(x) : Footprint(q, x, s), Routes,
           NEW w, Calls(p, w)
    PROVE  Calls(p, w)'
  <1>0. Len(p) \in Nat
    BY DEF Sane
  <1>1. ASSUME NEW i \in 1..Len(p) PROVE (FrameFact(p[i], i = 1) /\ KeepOK(p[i], w))'
    <2>1. FrameFact(p[i], i = 1) /\ KeepOK(p[i], w) /\ (i > 1 => CallOK(p[i], p[i - 1]))
      BY DEF Calls
    <2>2. FrameOK(p[i]) /\ p[i].cache \in Cache
      BY FrameFacts DEF Sane
    <2>3. p[i].kind = "access" /\ p[i].cache \notin L1 => ChildOK(p[i])'
      BY <2>1, ChildStays DEF FrameFact
    <2>4. p[i].kind = "access" => LineOK(p[i], i = 1)'
      BY <2>1, LineStays DEF FrameFact
    <2>5. WorkOK(p[i], i = 1)'
      BY <2>1, WorkStays
    <2>6. ASSUME p[i].kind = "inv" \/ p[i].at \in {"evict", "grant"}
          PROVE  /\ tag'[p[i].cache][p[i].line] = tag[p[i].cache][p[i].line]
                 /\ st'[p[i].cache][p[i].line] = st[p[i].cache][p[i].line]
      <3>1. p[i].line \in Slots(p[i].cache)
        BY <2>2, <2>6, FrameFacts DEF FrameOK
      <3>2. TwoOf(p, p[i].cache, p[i].line) /\ HoldsBottom(p, p[i].cache)
        <4>1. p[i].at # "lockTcc" /\ p[i].kind \in {"access", "inv"}
              /\ p[i].at \in {"evict", "grant", "down"}
          BY <2>2, <2>6, FrameFacts
        <4> QED
          BY <2>6, <4>1, Rights, InvHome DEF TwoOf
      <3> QED
        BY <2>2, <3>1, <3>2, Stable
    <2>7. (p[i].kind = "inv" => InvOK(p[i]))'
      BY <2>1, <2>6 DEF FrameFact, InvOK, HaveExclusive
    <2>8. KeepOK(p[i], w)'
      BY <2>1, <2>6 DEF KeepOK, HaveExclusive
    <2> QED
      BY <2>1, <2>3, <2>4, <2>5, <2>7, <2>8 DEF FrameFact
  <1>2. ASSUME NEW i \in 1..Len(p), p[i].kind = "inv" \/ (i > 1 /\ p[i - 1].kind = "inv")
        PROVE  /\ tag'[p[i].cache][p[i].line] = tag[p[i].cache][p[i].line]
               /\ st'[p[i].cache][p[i].line] = st[p[i].cache][p[i].line]
    <2>1. FrameOK(p[i]) /\ p[i].cache \in Cache
      BY FrameFacts DEF Sane
    <2>2. p[i].at \in {"evict", "grant", "down"} /\ HoldsBottom(p, p[i].cache)
      <3>1. p[i].kind = "inv" => p[i].at = "down"
        BY <2>1, FrameFacts
      <3>2. i > 1 /\ p[i - 1].kind = "inv" => p[i].at \in {"evict", "grant", "down"}
        <4>1. i > 1 => i - 1 \in 1..Len(p) /\ (i - 1) + 1 = i
          OBVIOUS
        <4> QED
          BY <4>1, Rights
      <3> QED
        BY <1>2, <3>1, <3>2, Rights
    <2>3. p[i].line \in Slots(p[i].cache)
      BY <2>1, <2>2 DEF FrameOK
    <2>4. TwoOf(p, p[i].cache, p[i].line)
      <3>1. p[i].at # "lockTcc" /\ p[i].kind \in {"access", "inv"}
        BY <2>1, <2>2, FrameFacts
      <3> QED
        BY <2>2, <3>1, Rights, InvHome DEF TwoOf
    <2> QED
      BY <2>1, <2>2, <2>3, <2>4, Stable
  <1>3. ASSUME NEW i \in 2..Len(p) PROVE CallOK(p[i], p[i - 1])'
    <2>1. CallOK(p[i], p[i - 1]) /\ i \in 1..Len(p) /\ i > 1
      BY DEF Calls
    <2> QED
      BY <1>2, <2>1 DEF CallOK
  <1>4. Chain(p)'
    <2> SUFFICES ASSUME NEW i \in 1..Len(p), NEW j \in 1..Len(p), i < j, p[j - 1].kind = "inv"
                 PROVE  Above(p[j], p[i])'
      BY DEF Chain
    <2>1. Above(p[j], p[i])
      BY DEF Calls, Chain
    <2>2. p[i].kind = "inv"
      <3>1. CASE i = j - 1
        BY <3>1
      <3>2. CASE i # j - 1
        <4>1. j - 1 \in 1..Len(p) /\ i < j - 1
          BY <1>0, <3>2
        <4>2. p[i].kind # "access"
          BY <4>1 DEF Sane, Ordered
        <4> QED
          BY <4>2, FrameFacts DEF Sane
      <3> QED
        BY <3>1, <3>2
    <2>3. j > 1
      OBVIOUS
    <2> QED
      BY <1>2, <2>1, <2>2, <2>3 DEF Above, HaveExclusive
  <1> QED
    BY <1>1, <1>3, <1>4 DEF Calls

-----------------------------------------------------------------------------
(* The calls that wait for the innermost one of the same core. *)
RestOK(q, v) ==
    \A i \in 2..Len(q) :
        /\ FrameFact(q[i], FALSE) /\ KeepOK(q[i], v)
        /\ i > 2 => CallOK(q[i], q[i - 1])
        /\ \A j \in 2..Len(q) : i < j /\ q[j - 1].kind = "inv" => Above(q[j], q[i])

(* What a step may do to the line s of x, as seen from the calls that wait. *)
OwnPrint(q, x, s) ==
    /\ tag'[x][s] = tag[x][s] \/ (x = q[1].cache /\ q[1].kind = "access")
    /\ \/ dir'[x][s] = dir[x][s]
       \/ x = q[1].cache /\ (q[1].kind = "inv" => dir'[x][s].sharers \subseteq dir[x][s].sharers)
    /\ \/ st'[x][s] = st[x][s]
       \/ q[1].kind = "access" /\ x = q[1].cache
       \/ q[1].kind = "access" /\ x = q[1].child /\ q[1].cache \notin L1
       \/ q[1].kind = "inv" /\ x = q[1].cache /\ Lowered(st'[x][s], st[x][s])

(* The child's line may be lowered while the access of its parent is under *)
(* way.                                                                    *)
LEMMA ChildLowered ==
    ASSUME NEW f, ChildOK(f), tag'[f.child][f.slot] = tag[f.child][f.slot],
           \/ st'[f.child][f.slot] = st[f.child][f.slot]
           \/ Lowered(st'[f.child][f.slot], st[f.child][f.slot]),
           f.at # "end", IsPut(f.type) => f.at \notin {"access", "dir"}
    PROVE  ChildOK(f)'
  BY DEF ChildOK, Lowered, IsPut

(* A step of the innermost call leaves what the calls that wait for it     *)
(* know.                                                                   *)
LEMMA RestStays ==
    ASSUME NEW c, NEW q, Sane(c, q), NEW w, Calls(q, w), q # << >>, Routes,
           \A x \in Cache : \A s \in Slots(x) : OwnPrint(q, x, s),
           NEW v, \A i \in 2..Len(q) : KeepOK(q[i], v)'
    PROVE  RestOK(q, v)'
  <1>0. Len(q) \in Nat \ {0} /\ 1 \in 1..Len(q)
    BY EmptySeq DEF Sane
  <1>1. \A i \in 1..Len(q) : FrameOK(q[i]) /\ q[i].cache \in Cache /\ q[i].kind \in {"access", "inv"}
    BY FrameFacts DEF Sane
  <1>2. q[1].kind = "access" => \A i \in 1..Len(q) : q[i].kind = "access"
    BY <1>0 DEF Sane, Ordered
  <1>3. q[1].kind = "inv" => HasBottom(q, 1)
    BY DEF HasBottom
  <1>4. ASSUME NEW i \in 2..Len(q)
        PROVE  /\ i \in 1..Len(q) /\ i - 1 \in 1..Len(q) /\ Called(q[i], q[i - 1])
               /\ CallOK(q[i], q[i - 1]) /\ FrameFact(q[i], FALSE)
    <2>1. i \in 1..Len(q) /\ i - 1 \in 1..Len(q) /\ i > 1
      BY <1>0
    <2>2. Called(q[i], q[i - 1]) /\ CallOK(q[i], q[i - 1])
      BY <2>1 DEF Sane, Calls
    <2>3. FrameFact(q[i], i = 1) /\ (i = 1) = FALSE
      BY <2>1 DEF Calls
    <2>4. FrameFact(q[i], FALSE)
      BY <2>3
    <2> QED
      BY <2>1, <2>2, <2>4
  (* A call that holds a bottom lock is not at the cache of the innermost. *)
  <1>5. ASSUME NEW i \in 2..Len(q), HasBottom(q, i) \/ q[1].kind = "access"
        PROVE  q[i].cache # q[1].cache
    <2>1. CASE q[1].kind = "access"
      BY <1>0, <1>2, <1>4, <2>1, AccessOnce
    <2>2. CASE q[1].kind = "inv"
      BY <1>0, <1>3, <1>4, <1>5, <2>2, BottomOnce
    <2> QED
      BY <1>0, <1>1, <2>1, <2>2
  <1>6. ASSUME NEW i \in 2..Len(q), q[i].kind = "inv" \/ q[i - 1].kind = "inv"
        PROVE  HasBottom(q, i) /\ q[i].line \in Slots(q[i].cache)
               /\ q[1].kind = "inv"
    <2>1. HasBottom(q, i) /\ q[i].at \in {"evict", "grant", "down"}
      <3>1. q[i].kind = "inv" => q[i].at = "down"
        BY <1>4, <1>1, FrameFacts
      <3>2. q[i - 1].kind = "inv" => q[i].at \in {"evict", "grant", "down"}
        BY <1>4 DEF Called
      <3>3. q[i].at \in {"evict", "grant", "down"} => HasBottom(q, i)
        BY <1>4, Rights
      <3> QED
        BY <1>6, <3>1, <3>2, <3>3
    <2>2. q[i].line \in Slots(q[i].cache)
      BY <1>1, <1>4, <2>1 DEF FrameOK
    <2>3. q[1].kind # "access"
      BY <1>2, <1>4, <1>6
    <2> QED
      BY <1>0, <1>1, <2>1, <2>2, <2>3
  <1>7. ASSUME NEW i \in 2..Len(q), q[i].kind = "inv" \/ q[i - 1].kind = "inv"
        PROVE  /\ tag'[q[i].cache][q[i].line] = tag[q[i].cache][q[i].line]
               /\ st'[q[i].cache][q[i].line] = st[q[i].cache][q[i].line]
               /\ dir'[q[i].cache][q[i].line] = dir[q[i].cache][q[i].line]
    <2>1. OwnPrint(q, q[i].cache, q[i].line)
      BY <1>1, <1>4, <1>6, <1>7
    <2>2. q[i].cache # q[1].cache /\ q[1].kind = "inv"
      BY <1>5, <1>6, <1>7
    <2> QED
      BY <2>1, <2>2 DEF OwnPrint
  <1>8. ASSUME NEW i \in 2..Len(q) PROVE FrameFact(q[i], FALSE)'
    <2>1. FrameFact(q[i], FALSE) /\ q[i].cache \in Cache /\ FrameOK(q[i])
          /\ q[i].kind \in {"access", "inv"}
      BY <1>1, <1>4
    <2>2. ASSUME q[i].kind = "access", q[i].cache \notin L1
          PROVE  ChildOK(q[i])'
      <3>1. /\ q[i].child \in Cache /\ q[i].slot \in Slots(q[i].child)
            /\ i + 1 \in 1..Len(q) /\ q[i + 1].kind = "access"
            /\ q[i + 1].cache = q[i].child
        BY <1>4, <2>2, Rights DEF Children
      <3>2. i + 1 \in 2..Len(q) /\ i + 1 # 2
        BY <3>1
      <3>3. OwnPrint(q, q[i].child, q[i].slot)
        BY <3>1
      <3>4. q[1].kind = "access" =>
               /\ q[i].child # q[1].cache
               /\ q[1].cache \notin L1 => q[i].child # q[1].child
        <4> SUFFICES ASSUME q[1].kind = "access"
                     PROVE  /\ q[i].child # q[1].cache
                            /\ q[1].cache \notin L1 => q[i].child # q[1].child
          OBVIOUS
        <4>1. q[i + 1].cache # q[1].cache
          BY <1>5, <3>2
        <4>2. q[1].cache \notin L1 => 2 \in 1..Len(q) /\ q[2].cache = q[1].child /\ q[2].kind = "access"
          BY <1>0, Rights
        <4>3. q[1].cache \notin L1 => q[i + 1].cache # q[2].cache
          BY <3>1, <3>2, <4>2, AccessOnce
        <4> QED
          BY <3>1, <4>1, <4>2, <4>3
      <3>5. /\ tag'[q[i].child][q[i].slot] = tag[q[i].child][q[i].slot]
            /\ \/ st'[q[i].child][q[i].slot] = st[q[i].child][q[i].slot]
               \/ Lowered(st'[q[i].child][q[i].slot], st[q[i].child][q[i].slot])
        BY <1>0, <1>1, <3>3, <3>4 DEF OwnPrint
      <3>6. q[i].at # "end" /\ (IsPut(q[i].type) => q[i].at \notin {"access", "dir"})
        <4>1. Called(q[i], q[i - 1]) /\ CallOK(q[i], q[i - 1]) /\ q[i - 1].kind \in {"access", "inv"}
          BY <1>1, <1>4
        <4> QED
          BY <2>2, <4>1 DEF Called, CallOK
      <3>7. ChildOK(q[i])
        BY <2>1, <2>2 DEF FrameFact
      <3> QED
        BY <3>5, <3>6, <3>7, ChildLowered
    <2>3. ASSUME q[i].kind = "access"
          PROVE  LineOK(q[i], FALSE)'
      <3>1. \A s \in Slots(q[i].cache) : OwnPrint(q, q[i].cache, s)
        BY <2>1
      <3>2. q[i].at = "grant" => q[i - 1].kind = "inv"
        BY <1>1, <1>4 DEF Called
      <3>3. q[1].kind = "access" => q[i].cache # q[1].cache
        BY <1>5
      <3>4. \A s \in Slots(q[i].cache) :
               /\ tag'[q[i].cache][s] = tag[q[i].cache][s]
               /\ dir'[q[i].cache][s].sharers \subseteq dir[q[i].cache][s].sharers
        BY <1>0, <1>1, <3>1, <3>3 DEF OwnPrint
      <3>5. q[i].at = "grant" =>
               st'[q[i].cache][q[i].line] = st[q[i].cache][q[i].line]
        BY <1>7, <3>2
      <3>6. q[i].at \in {"access", "evict", "insert", "dir", "grant"} => q[i].line \in Slots(q[i].cache)
        BY <2>1 DEF FrameOK
      <3>7. LineOK(q[i], FALSE)
        BY <2>1, <2>3 DEF FrameFact
      <3> QED
        BY <3>4, <3>5, <3>6, <3>7 DEF LineOK
    <2>4. WorkOK(q[i], FALSE)'
      <3>1. CASE q[i].at \notin {"evict", "grant", "down"}
        BY <3>1 DEF WorkOK
      <3>2. CASE q[i].at \in {"evict", "grant", "down"}
        <4>1. q[i - 1].kind = "inv" /\ q[i - 1].cache \in Cache /\ q[i].todo \subseteq Children(q[i].cache)
          BY <1>1, <1>4, <2>1, <3>2 DEF Called, FrameOK
        <4>2. ASSUME NEW ch \in q[i].todo, NEW a PROVE CanWrite(ch, a)' <=> CanWrite(ch, a)
          <5>1. ch \in Cache /\ ch \in Children(q[i].cache)
            BY <4>1 DEF Children
          <5>2. ch # q[1].cache
            <6>1. CASE i = 2
              <7>0. i - 1 = 1
                BY <6>1
              <7>1. CallOK(q[i], q[i - 1]) /\ q[1].kind = "inv"
                BY <1>4, <4>1, <7>0
              <7> QED
                BY <7>0, <7>1 DEF CallOK
            <6>2. CASE i # 2
              <7>1. HasBottom(q, i) /\ q[1].kind = "inv"
                BY <1>6, <4>1
              <7>2. /\ 2 \in 1..Len(q) /\ q[1].cache \in Children(q[2].cache)
                    /\ HasBottom(q, 2) /\ q[2].at \in {"evict", "grant", "down"}
                BY <1>0, <7>1, Rights
              <7>3. q[i].cache # q[2].cache
                BY <1>4, <6>2, <7>1, <7>2, BottomOnce
              <7>4. /\ q[i].line \in Slots(q[i].cache) /\ q[i].cache \in Cache
                    /\ q[2].line \in Slots(q[2].cache) /\ q[2].cache \in Cache
                BY <1>1, <1>4, <3>2, <7>2 DEF FrameOK
              <7>5. tag[q[i].cache][q[i].line] = tag[q[2].cache][q[2].line]
                <8>1. 2 < i
                  BY <6>2
                <8> QED
                  BY <1>4, <4>1, <7>2, <8>1 DEF Calls, Chain, Above
              <7>6. tag[q[2].cache][q[2].line] # None
                <8>1. /\ q[1].addr = tag[q[2].cache][q[2].line] /\ q[1].addr \in Addr
                  BY <1>0, <1>4, <7>1, <7>2 DEF Calls, CallOK, FrameFact
                <8> QED
                  BY <8>1, TreeAssumption
              <7>7. ch # q[1].cache
                BY <5>1, <7>2, <7>3, <7>4, <7>5, <7>6 DEF Routes, Routed
              <7> QED
                BY <7>7
            <6> QED
              BY <6>1, <6>2
          <5>3. q[1].kind = "inv"
            BY <1>6, <4>1
          <5>4. \A s \in Slots(ch) : tag'[ch][s] = tag[ch][s] /\ st'[ch][s] = st[ch][s]
            BY <5>1, <5>2, <5>3 DEF OwnPrint
          <5> QED
            BY <5>4 DEF CanWrite, HaveExclusive
        <4>3. WorkOK(q[i], FALSE)
          BY <2>1 DEF FrameFact
        <4> QED
          BY <1>7, <4>1, <4>2, <4>3 DEF WorkOK
      <3> QED
        BY <3>1, <3>2
    <2>5. (q[i].kind = "inv" => InvOK(q[i]))'
      BY <1>7, <2>1 DEF FrameFact, InvOK, HaveExclusive
    <2> QED
      BY <2>1, <2>2, <2>3, <2>4, <2>5 DEF FrameFact
  <1>9. ASSUME NEW i \in 2..Len(q) PROVE CallOK(q[i], q[i - 1])'
    BY <1>4, <1>7 DEF CallOK
  <1>10. ASSUME NEW i \in 2..Len(q), NEW j \in 2..Len(q), i < j, q[j - 1].kind = "inv"
         PROVE  Above(q[j], q[i])'
    <2>1. Above(q[j], q[i])
      BY <1>4, <1>10 DEF Calls, Chain
    <2>2. q[i].kind = "inv"
      <3>1. CASE i = j - 1
        BY <1>10, <3>1
      <3>2. CASE i # j - 1
        <4>1. j - 1 \in 1..Len(q) /\ i \in 1..Len(q) /\ i < j - 1
          BY <1>0, <1>10, <3>2
        <4>2. q[i].kind # "access"
          BY <1>10, <4>1 DEF Sane, Ordered
        <4> QED
          BY <1>1, <4>1, <4>2
      <3> QED
        BY <3>1, <3>2
    <2> QED
      BY <1>7, <1>10, <2>1, <2>2 DEF Above, HaveExclusive
  <1> QED
    BY <1>8, <1>9, <1>10 DEF RestOK

(* What a stack knows after each move. *)
LEMMA CallsGoto ==
    ASSUME NEW c, NEW q, Sane(c, q), q # << >>, q[1].kind = "access",
           NEW f \in FrameSet, SameCall(f, q[1]), NEW v, RestOK(q, v)',
           FrameFact(f, TRUE)', KeepOK(f, v)', 2 \in 1..Len(q) => CallOK(q[2], f)'
    PROVE  Calls(<<f>> \o Tail(q), v)'
  <1> DEFINE r == <<f>> \o Tail(q)
  <1>1. Len(r) = Len(q) /\ Len(q) \in Nat \ {0} /\ r[1] = f /\ \A i \in 2..Len(q) : r[i] = q[i]
    BY GotoSeq DEF Sane, FrameSet
  <1>2. \A i \in 1..Len(q) : q[i].kind = "access"
    BY <1>1 DEF Sane, Ordered
  <1> HIDE DEF r
  <1>3. ASSUME NEW i \in 1..Len(r) PROVE (FrameFact(r[i], i = 1) /\ KeepOK(r[i], v))'
    <2>1. CASE i = 1
      BY <1>1, <2>1
    <2>2. CASE i # 1
      <3>1. i \in 2..Len(q) /\ r[i] = q[i] /\ (i = 1) = FALSE
        BY <1>1, <2>2
      <3> QED
        BY <3>1 DEF RestOK
    <2> QED
      BY <2>1, <2>2
  <1>4. ASSUME NEW i \in 2..Len(r) PROVE CallOK(r[i], r[i - 1])'
    <2>1. CASE i = 2
      <3>1. r[2] = q[2] /\ r[2 - 1] = f /\ 2 \in 1..Len(q)
        BY <1>1, <2>1
      <3> QED
        BY <2>1, <3>1
    <2>2. CASE i # 2
      <3>1. i \in 2..Len(q) /\ i > 2 /\ r[i] = q[i] /\ r[i - 1] = q[i - 1]
        BY <1>1, <2>2
      <3> QED
        BY <3>1 DEF RestOK
    <2> QED
      BY <2>1, <2>2
  <1>5. \A i \in 1..Len(r) : r[i].kind = "access"
    BY <1>1, <1>2 DEF SameCall
  <1>6. Chain(r)'
    <2>1. \A i, j \in 1..Len(r) : i < j => r[j - 1].kind = "access"
      BY <1>1, <1>5
    <2> QED
      BY <2>1 DEF Chain
  <1>7. Calls(r, v)'
    BY <1>3, <1>4, <1>6 DEF Calls
  <1> QED
    BY <1>7 DEF r

(* ... after a call, *)
LEMMA CallsCall ==
    ASSUME NEW c, NEW q, Sane(c, q), q # << >>, NEW f \in FrameSet, SameCall(f, q[1]),
           NEW g \in FrameSet, NEW v, RestOK(q, v)',
           FrameFact(g, TRUE)', KeepOK(g, v)', FrameFact(f, FALSE)', KeepOK(f, v)', CallOK(f, g)',
           2 \in 1..Len(q) => CallOK(q[2], f)',
           g.kind = "inv" => Above(f, g)',
           \A j \in 2..Len(q) : q[j - 1].kind = "inv" => (Above(q[j], g) /\ Above(q[j], f))'
    PROVE  Calls(<<g, f>> \o Tail(q), v)'
  <1> DEFINE r == <<g, f>> \o Tail(q)
  <1>1. /\ Len(r) = Len(q) + 1 /\ Len(q) \in Nat \ {0} /\ r[1] = g /\ r[2] = f
        /\ \A i \in 3..(Len(q) + 1) : r[i] = q[i - 1]
    BY CallSeq DEF Sane, FrameSet
  <1> HIDE DEF r
  <1>3. ASSUME NEW i \in 1..Len(r) PROVE (FrameFact(r[i], i = 1) /\ KeepOK(r[i], v))'
    <2>1. CASE i = 1
      BY <1>1, <2>1
    <2>2. CASE i = 2
      <3>1. r[i] = f /\ (i = 1) = FALSE
        BY <1>1, <2>2
      <3> QED
        BY <3>1
    <2>3. CASE i # 1 /\ i # 2
      <3>1. i - 1 \in 2..Len(q) /\ r[i] = q[i - 1] /\ (i = 1) = FALSE
        BY <1>1, <2>3
      <3> QED
        BY <3>1 DEF RestOK
    <2> QED
      BY <2>1, <2>2, <2>3
  <1>4. ASSUME NEW i \in 2..Len(r) PROVE CallOK(r[i], r[i - 1])'
    <2>1. CASE i = 2
      <3>1. r[2] = f /\ r[2 - 1] = g
        BY <1>1
      <3> QED
        BY <2>1, <3>1
    <2>2. CASE i = 3
      <3>1. r[3] = q[2] /\ r[3 - 1] = f /\ 2 \in 1..Len(q)
        BY <1>1, <2>2
      <3> QED
        BY <2>2, <3>1
    <2>3. CASE i # 2 /\ i # 3
      <3>1. i - 1 \in 2..Len(q) /\ i - 1 > 2 /\ r[i] = q[i - 1] /\ r[i - 1] = q[(i - 1) - 1]
        BY <1>1, <2>3
      <3> QED
        BY <3>1 DEF RestOK
    <2> QED
      BY <2>1, <2>2, <2>3
  <1>6. Chain(r)'
    <2> SUFFICES ASSUME NEW i \in 1..Len(r), NEW j \in 1..Len(r), i < j, r[j - 1].kind = "inv"
                 PROVE  Above(r[j], r[i])'
      BY DEF Chain
    <2>1. CASE j = 2
      <3>1. i = 1 /\ r[j] = f /\ r[i] = g /\ r[j - 1] = g
        BY <1>1, <2>1
      <3> QED
        BY <3>1
    <2>2. CASE j # 2
      <3>1. j - 1 \in 2..Len(q) /\ r[j] = q[j - 1] /\ (j # 3 => r[j - 1] = q[(j - 1) - 1])
            /\ (j = 3 => r[j - 1] = f /\ (j - 1) - 1 = 1)
        BY <1>1, <2>2
      <3>2. q[(j - 1) - 1].kind = "inv"
        BY <3>1 DEF SameCall
      <3>3. CASE i \in {1, 2}
        <4>1. (Above(q[j - 1], g) /\ Above(q[j - 1], f))'
          BY <3>1, <3>2
        <4>2. r[i] \in {g, f}
          BY <1>1, <3>3
        <4> QED
          BY <3>1, <4>1, <4>2
      <3>4. CASE i \notin {1, 2}
        <4>1. i - 1 \in 2..Len(q) /\ i - 1 < j - 1 /\ r[i] = q[i - 1]
          BY <1>1, <3>4
        <4> QED
          BY <3>1, <3>2, <4>1 DEF RestOK
      <3> QED
        BY <3>3, <3>4
    <2> QED
      BY <2>1, <2>2
  <1>7. Calls(r, v)'
    BY <1>3, <1>4, <1>6 DEF Calls
  <1> QED
    BY <1>7 DEF r

(* ... and after a return. *)
LEMMA CallsReturn ==
    ASSUME NEW c, NEW q, Sane(c, q), q # << >>, NEW v, RestOK(q, v)',
           2 \in 1..Len(q) => FrameFact(q[2], TRUE)'
    PROVE  Calls(Tail(q), v)'
  <1> DEFINE r == Tail(q)
  <1>1. /\ Len(r) = Len(q) - 1 /\ Len(q) \in Nat \ {0}
        /\ \A i \in 1..(Len(q) - 1) : r[i] = q[i + 1]
    BY ReturnSeq DEF Sane, FrameSet
  <1> HIDE DEF r
  <1>3. ASSUME NEW i \in 1..Len(r) PROVE (FrameFact(r[i], i = 1) /\ KeepOK(r[i], v))'
    <2>1. i + 1 \in 2..Len(q) /\ r[i] = q[i + 1]
      BY <1>1
    <2>2. CASE i = 1
      <3>1. r[i] = q[2] /\ 2 \in 1..Len(q) /\ 2 \in 2..Len(q)
        BY <1>1, <2>1, <2>2
      <3>2. FrameFact(q[2], TRUE)' /\ KeepOK(q[2], v)'
        BY <3>1 DEF RestOK
      <3>3. (i = 1) = TRUE
        BY <2>2
      <3> QED
        BY <3>1, <3>2, <3>3
    <2>3. CASE i # 1
      <3>1. (i = 1) = FALSE
        BY <2>3
      <3> QED
        BY <2>1, <3>1 DEF RestOK
    <2> QED
      BY <2>2, <2>3
  <1>4. ASSUME NEW i \in 2..Len(r) PROVE CallOK(r[i], r[i - 1])'
    <2>1. i + 1 \in 2..Len(q) /\ i + 1 > 2 /\ r[i] = q[i + 1] /\ r[i - 1] = q[(i + 1) - 1]
      BY <1>1
    <2> QED
      BY <2>1 DEF RestOK
  <1>6. Chain(r)'
    <2> SUFFICES ASSUME NEW i \in 1..Len(r), NEW j \in 1..Len(r), i < j, r[j - 1].kind = "inv"
                 PROVE  Above(r[j], r[i])'
      BY DEF Chain
    <2>1. i + 1 \in 2..Len(q) /\ j + 1 \in 2..Len(q) /\ i + 1 < j + 1
      BY <1>1
    <2>2. r[i] = q[i + 1] /\ r[j] = q[j + 1]
      BY <1>1
    <2>3. j - 1 \in 1..(Len(q) - 1) /\ (j - 1) + 1 = (j + 1) - 1
      BY <1>1
    <2>4. r[j - 1] = q[(j + 1) - 1]
      BY <1>1, <2>3
    <2> QED
      BY <2>1, <2>2, <2>4 DEF RestOK
  <1>7. Calls(r, v)'
    BY <1>3, <1>4, <1>6 DEF Calls
  <1> QED
    BY <1>7 DEF r

-----------------------------------------------------------------------------
(* Who works on a directory entry has the bottom lock of its cache. *)
Holder(d, k, i) ==
    bcc[k] = d /\ i \in 1..Len(stack[d]) /\ HasBottom(stack[d], i) /\ stack[d][i].cache = k

Doing(f, s) == f.line = s /\ f.at \in {"evict", "grant", "down"}
UpgradesFor(f, ch, s) == f.line = s /\ f.child = ch /\ f.at = "grant" /\ f.type = "GETX"

(* Whoever works on an entry holds the bottom lock of its cache. *)
LEMMA AtWork ==
    ASSUME Inner, LocksHeld, NEW d \in Core, NEW i \in 1..Len(stack[d]), NEW k \in Cache,
           stack[d][i].at \in {"evict", "grant", "down"}, stack[d][i].cache = k
    PROVE  Holder(d, k, i)
  <1> DEFINE q == stack[d]
  <1>0. Sane(d, q) /\ i \in 1..Len(q) /\ q[i].at \in {"evict", "grant", "down"}
    BY DEF Inner
  <1>1. HasBottom(q, i)
    <2> HIDE DEF q
    <2> QED
      BY <1>0, Rights
  <1>2. HoldsBottom(q, k)
    BY <1>1 DEF HoldsBottom
  <1> QED
    BY <1>1, <1>2 DEF LocksHeld, Holder

(* The same of a Working stack, *)
LEMMA WorkHeld ==
    ASSUME Inner, LocksHeld, NEW d \in Core, NEW k \in Cache, NEW s, Working(stack[d], k, s)
    PROVE  \E i : Holder(d, k, i) /\ Doing(stack[d][i], s)
  BY AtWork DEF Working, Doing

(* of an upgrade that waits for the other copies to go, *)
LEMMA UpgradeHeld ==
    ASSUME Inner, LocksHeld, NEW d \in Core, NEW k \in Cache, NEW s, NEW ch,
           Upgrading(stack[d], k, ch, s)
    PROVE  \E i : Holder(d, k, i) /\ UpgradesFor(stack[d][i], ch, s)
  BY AtWork DEF Upgrading, UpgradesFor

(* and of the call that sent the invalidation of a leaving child. *)
LEMMA LeavingHeld ==
    ASSUME Inner, LocksHeld, NEW d \in Core, NEW k \in Cache, NEW s, NEW ch,
           Leaving(stack[d], k, ch, s)
    PROVE  \E i : Holder(d, k, i) /\ i # 1
  <1> DEFINE q == stack[d]
  <1>0. Sane(d, q) /\ Len(q) \in Nat
    BY DEF Inner, Sane
  <1>1. PICK i \in 2..Len(q) : q[i - 1].kind = "inv" /\ q[i].cache = k
    BY DEF Leaving
  <1>2. i - 1 \in 1..Len(q) /\ (i - 1) + 1 = i /\ i \in 1..Len(q) /\ i # 1
    BY <1>0
  <1>3. q[i].cache = k /\ q[i].at \in {"evict", "grant", "down"}
    BY <1>0, <1>1, <1>2, Rights
  <1> QED
    BY <1>2, <1>3, AtWork

(* Where the bottom lock is free nobody works and nothing is in flight. *)
LEMMA FreeQuiet ==
    ASSUME Inner, LocksHeld, NEW k \in Cache, bcc[k] = Free, NEW s
    PROVE  /\ \A d \in Core : ~Working(stack[d], k, s)
           /\ \A ch : ~InFlight(k, ch, s)
  <1>1. Free \notin Core
    BY TreeAssumption DEF Free
  <1>2. ASSUME NEW d \in Core
        PROVE  /\ ~Working(stack[d], k, s)
               /\ \A ch : ~Leaving(stack[d], k, ch, s)
               /\ \A ch : ~Upgrading(stack[d], k, ch, s)
    <2>1. bcc[k] # d
      BY <1>1
    <2>2. Working(stack[d], k, s) => bcc[k] = d
      BY WorkHeld DEF Holder
    <2>3. \A ch : Leaving(stack[d], k, ch, s) => bcc[k] = d
      BY LeavingHeld DEF Holder
    <2>4. \A ch : Upgrading(stack[d], k, ch, s) => bcc[k] = d
      BY UpgradeHeld DEF Holder
    <2> QED
      BY <2>1, <2>2, <2>3, <2>4, Zenon
  <1>3. \A d \in Core : ~Working(stack[d], k, s)
    BY <1>2
  <1>4. \A ch : ~InFlight(k, ch, s)
    BY <1>2, Zenon DEF InFlight, Going
  <1> QED
    BY <1>3, <1>4

(* The innermost call of c is the only one at work at its cache. *)
OnlyTop(c, q, k) ==
    /\ \A d \in Core : \A s : Working(stack[d], k, s) =>
          d = c /\ q[1].at \in {"evict", "grant", "down"} /\ q[1].line = s
    /\ \A ch, s : InFlight(k, ch, s) =>
          q[1].at = "grant" /\ q[1].type = "GETX" /\ q[1].child = ch /\ q[1].line = s

LEMMA TopQuiet ==
    ASSUME Inner, LocksHeld, NEW c \in Core, NEW q, q = stack[c], q # << >>, HasBottom(q, 1),
           NEW k \in Cache, k = q[1].cache
    PROVE  OnlyTop(c, q, k)
  <1>1. Sane(c, q) /\ 1 \in 1..Len(q)
    BY TopFacts DEF Inner
  <1>2. HoldsBottom(q, k)
    BY <1>1 DEF HoldsBottom
  <1>3. bcc[k] = c
    BY <1>2 DEF LocksHeld
  <1>4. \A i \in 1..Len(q) : HasBottom(q, i) /\ q[i].cache = k => i = 1
    BY <1>1, BottomOnce
  <1>5. ASSUME NEW d \in Core, NEW s, Working(stack[d], k, s)
        PROVE  d = c /\ q[1].at \in {"evict", "grant", "down"} /\ q[1].line = s
    <2>1. PICK i : Holder(d, k, i) /\ Doing(stack[d][i], s)
      BY <1>5, WorkHeld
    <2>2. d = c /\ i \in 1..Len(q) /\ HasBottom(q, i) /\ q[i].cache = k
      BY <1>3, <2>1 DEF Holder
    <2> QED
      BY <1>4, <2>1, <2>2 DEF Doing
  <1>6. ASSUME NEW ch, NEW s, InFlight(k, ch, s)
        PROVE  q[1].at = "grant" /\ q[1].type = "GETX" /\ q[1].child = ch /\ q[1].line = s
    <2>1. PICK d \in Core : Leaving(stack[d], k, ch, s) \/ Upgrading(stack[d], k, ch, s)
      BY <1>6 DEF InFlight, Going
    <2>2. CASE Leaving(stack[d], k, ch, s)
      <3>1. PICK i : Holder(d, k, i) /\ i # 1
        BY <1>6, <2>2, LeavingHeld
      <3>2. d = c /\ i \in 1..Len(q) /\ HasBottom(q, i) /\ q[i].cache = k
        BY <1>3, <3>1 DEF Holder
      <3> QED
        BY <1>4, <3>1, <3>2
    <2>3. CASE Upgrading(stack[d], k, ch, s)
      <3>1. PICK i : Holder(d, k, i) /\ UpgradesFor(stack[d][i], ch, s)
        BY <2>3, UpgradeHeld
      <3>2. d = c /\ i \in 1..Len(q) /\ HasBottom(q, i) /\ q[i].cache = k
        BY <1>3, <3>1 DEF Holder
      <3> QED
        BY <1>4, <3>1, <3>2 DEF UpgradesFor
    <2> QED
      BY <2>1, <2>2, <2>3
  <1> QED
    BY <1>5, <1>6 DEF OnlyTop

(* A line belongs to the memory or to a bank that has its cache as a child. *)
LEMMA HomeFacts ==
    ASSUME Inner, NEW ch \in Cache, NEW t \in Slots(ch), Home(ch, t) # Mem
    PROVE  /\ Home(ch, t) \in Cache /\ Home(ch, t) \notin L1 /\ ch \in Children(Home(ch, t))
           /\ Home(ch, t) # ch
  <1>1. tag[ch][t] \in Addr \union {None}
    BY EntryFacts
  <1> QED
    BY <1>1, ParentFacts, Heights DEF Home

(* The copies of a bank's line in its children belong to this bank. *)
LEMMA ChildHome ==
    ASSUME Lines, NEW k \in Cache, NEW s \in Slots(k), tag[k][s] # None, NEW ch \in Children(k)
    PROVE  /\ Parent(ch, tag[k][s]) = k
           /\ \A t : tag[ch][t] = tag[k][s] => Home(ch, t) = k
  BY DEF Lines, Routes, Routed, Home

(* If nothing is in flight the sharers are the children that have it. *)
LEMMA SharersExact ==
    ASSUME Lines, NEW k \in Cache, NEW s \in Slots(k), NEW ch \in Children(k),
           ~InFlight(k, ch, s)
    PROVE  /\ HasLine(ch, tag[k][s]) <=> ch \in dir[k][s].sharers
           /\ HasLine(ch, tag[k][s]) => st[k][s] # "I"
           /\ CanWrite(ch, tag[k][s]) => HaveExclusive(k, s)
  <1>1. ch \in dir[k][s].sharers => HasLine(ch, tag[k][s])
    BY DEF Lines, Listed
  <1>2. ASSUME NEW t \in Slots(ch), tag[ch][t] = tag[k][s], st[ch][t] # "I"
        PROVE  InParent(ch, t, s) /\ Home(ch, t) = k
    <2>1. tag[ch][t] # None /\ ch \in Cache
      BY <1>2 DEF Lines, NamedLines, Children
    <2>2. Home(ch, t) = k /\ k # Mem
      BY <1>2, <2>1, ChildHome, TreeAssumption
    <2>3. PICK u \in Slots(k) : InParent(ch, t, u)
      BY <1>2, <2>1, <2>2 DEF Lines, Included
    <2>4. u = s
      BY <1>2, <2>1, <2>2, <2>3 DEF Lines, UniqueTags, InParent
    <2>5. InParent(ch, t, s) /\ Home(ch, t) = k
      BY <2>2, <2>3, <2>4
    <2> QED
      BY <2>5
  <1>3. HasLine(ch, tag[k][s]) => ch \in dir[k][s].sharers /\ st[k][s] # "I"
    BY <1>2 DEF HasLine, InParent
  <1>4. CanWrite(ch, tag[k][s]) => HaveExclusive(k, s)
    BY <1>2 DEF CanWrite, InParent, HaveExclusive
  <1> QED
    BY <1>1, <1>3, <1>4

(* A valid line has one place in the bank above. *)
LEMMA PlaceInParent ==
    ASSUME Lines, NEW ch \in Cache, NEW t \in Slots(ch), st[ch][t] # "I",
           NEW p \in Cache, Home(ch, t) = p, NEW s \in Slots(p), tag[p][s] = tag[ch][t]
    PROVE  InParent(ch, t, s)
  <1>1. PICK u \in Slots(p) : InParent(ch, t, u)
    BY TreeAssumption DEF Lines, Included
  <1>2. tag[ch][t] # None
    BY DEF Lines, NamedLines
  <1>3. u = s
    BY <1>1, <1>2 DEF Lines, UniqueTags, InParent
  <1> QED
    BY <1>1, <1>3

-----------------------------------------------------------------------------
(* What becomes of the calls at work. *)
KeepsWork(q, r) ==
    \A k, s : /\ Working(q, k, s) => Working(r, k, s)
              /\ \A ch : Going(q, k, ch, s) => Going(r, k, ch, s)

(* The work of a stack stays when its top goes on, *)
LEMMA WorkGoto ==
    ASSUME NEW q \in Seq(FrameSet), q # << >>, NEW f \in FrameSet,
           q[1].kind = "access", q[1].at \notin {"evict", "grant", "down"}
    PROVE  KeepsWork(q, <<f>> \o Tail(q))
  <1> DEFINE r == <<f>> \o Tail(q)
  <1>1. Len(r) = Len(q) /\ Len(q) \in Nat \ {0} /\ r[1] = f /\ \A i \in 2..Len(q) : r[i] = q[i]
    BY GotoSeq
  <1> HIDE DEF r
  <1>2. ASSUME NEW i \in 1..Len(q), q[i].at \in {"evict", "grant", "down"}
        PROVE  i \in 1..Len(r) /\ r[i] = q[i]
    BY <1>1, <1>2
  <1>3. ASSUME NEW i \in 2..Len(q), q[i - 1].kind = "inv"
        PROVE  i \in 2..Len(r) /\ r[i] = q[i] /\ r[i - 1] = q[i - 1]
    BY <1>1, <1>3
  <1>4. KeepsWork(q, r)
    BY <1>2, <1>3 DEF KeepsWork, Working, Going, Leaving, Upgrading
  <1> QED
    BY <1>4 DEF r

(* calls, *)
LEMMA WorkCall ==
    ASSUME NEW q \in Seq(FrameSet), q # << >>, NEW f \in FrameSet, NEW g \in FrameSet,
           \/ q[1].kind = "access" /\ q[1].at \notin {"evict", "grant", "down"}
           \/ /\ SameCall(f, q[1]) /\ f.at = q[1].at /\ f.line = q[1].line /\ f.type = q[1].type
              /\ q[1].at = "grant" => q[1].kind = "access"
    PROVE  KeepsWork(q, <<g, f>> \o Tail(q))
  <1> DEFINE r == <<g, f>> \o Tail(q)
  <1>1. /\ Len(r) = Len(q) + 1 /\ Len(q) \in Nat \ {0} /\ r[1] = g /\ r[2] = f
        /\ \A i \in 3..(Len(q) + 1) : r[i] = q[i - 1]
    BY CallSeq
  <1> HIDE DEF r
  <1>2. ASSUME NEW i \in 1..Len(q)
        PROVE  /\ i + 1 \in 2..Len(r) /\ (i # 1 => r[i + 1] = q[i]) /\ (i = 1 => r[i + 1] = f)
    BY <1>1
  <1>3. ASSUME NEW i \in 1..Len(q), q[i].at \in {"evict", "grant", "down"}
        PROVE  /\ i + 1 \in 1..Len(r) /\ r[i + 1].at = q[i].at /\ r[i + 1].cache = q[i].cache
               /\ r[i + 1].line = q[i].line /\ r[i + 1].type = q[i].type
               /\ q[i].at = "grant" => r[i + 1].child = q[i].child
    BY <1>2, <1>3 DEF SameCall
  <1>4. ASSUME NEW i \in 2..Len(q), q[i - 1].kind = "inv"
        PROVE  /\ i + 1 \in 2..Len(r) /\ r[i + 1] = q[i] /\ r[(i + 1) - 1].kind = "inv"
               /\ r[(i + 1) - 1].cache = q[i - 1].cache /\ r[(i + 1) - 1].type = q[i - 1].type
    <2>1. i \in 1..Len(q) /\ i - 1 \in 1..Len(q) /\ (i - 1) + 1 = (i + 1) - 1 /\ i # 1
      OBVIOUS
    <2>2. r[i + 1] = q[i] /\ i + 1 \in 2..Len(r)
      BY <1>2, <2>1
    <2>3. CASE i = 2
      BY <1>1, <1>4, <2>1, <2>2, <2>3 DEF SameCall
    <2>4. CASE i # 2
      BY <1>1, <1>4, <2>1, <2>2, <2>4, SMTT(20)
    <2> QED
      BY <2>3, <2>4
  <1>5. KeepsWork(q, r)
    <2> SUFFICES ASSUME NEW k, NEW s, NEW ch
                 PROVE  /\ Working(q, k, s) => Working(r, k, s)
                        /\ Leaving(q, k, ch, s) => Leaving(r, k, ch, s)
                        /\ Upgrading(q, k, ch, s) => Upgrading(r, k, ch, s)
      BY DEF KeepsWork, Going
    <2>1. Working(q, k, s) => Working(r, k, s)
      BY <1>3 DEF Working
    <2>2. Leaving(q, k, ch, s) => Leaving(r, k, ch, s)
      BY <1>4 DEF Leaving
    <2>3. Upgrading(q, k, ch, s) => Upgrading(r, k, ch, s)
      BY <1>3 DEF Upgrading
    <2> QED
      BY <2>1, <2>2, <2>3
  <1> QED
    BY <1>5 DEF r

(* or returns, if the top was not at work itself. *)
LEMMA WorkReturn ==
    ASSUME NEW q \in Seq(FrameSet), q # << >>, q[1].kind = "access",
           q[1].at \notin {"evict", "grant", "down"}
    PROVE  KeepsWork(q, Tail(q))
  <1> DEFINE r == Tail(q)
  <1>1. /\ Len(r) = Len(q) - 1 /\ Len(q) \in Nat \ {0}
        /\ \A i \in 1..(Len(q) - 1) : r[i] = q[i + 1]
    BY ReturnSeq
  <1> HIDE DEF r
  <1>2. ASSUME NEW i \in 1..Len(q), q[i].at \in {"evict", "grant", "down"}
        PROVE  i - 1 \in 1..Len(r) /\ r[i - 1] = q[i]
    BY <1>1, <1>2
  <1>3. ASSUME NEW i \in 2..Len(q), q[i - 1].kind = "inv"
        PROVE  i - 1 \in 2..Len(r) /\ r[i - 1] = q[i] /\ r[(i - 1) - 1] = q[i - 1]
    <2>1. i # 2
      BY <1>3
    <2> QED
      BY <1>1, <2>1
  <1>4. KeepsWork(q, r)
    <2> SUFFICES ASSUME NEW k, NEW s, NEW ch
                 PROVE  /\ Working(q, k, s) => Working(r, k, s)
                        /\ Leaving(q, k, ch, s) => Leaving(r, k, ch, s)
                        /\ Upgrading(q, k, ch, s) => Upgrading(r, k, ch, s)
      BY DEF KeepsWork, Going
    <2>1. Working(q, k, s) => Working(r, k, s)
      BY <1>2 DEF Working
    <2>2. Leaving(q, k, ch, s) => Leaving(r, k, ch, s)
      BY <1>3 DEF Leaving
    <2>3. Upgrading(q, k, ch, s) => Upgrading(r, k, ch, s)
      BY <1>2 DEF Upgrading
    <2> QED
      BY <2>1, <2>2, <2>3
  <1> QED
    BY <1>4 DEF r

(* Then a busy entry stays busy, *)
LEMMA BusyStays ==
    ASSUME Inner, NEW c \in Core, NEW q, q = stack[c], NEW r, stack' = [stack EXCEPT ![c] = r],
           NEW k, NEW s, Working(q, k, s) => Working(r, k, s), Busy(k, s)
    PROVE  Busy(k, s)'
  <1>1. stack'[c] = r /\ \A d \in Core : d # c => stack'[d] = stack[d]
    BY DEF Inner
  <1>2. PICK d \in Core : Working(stack[d], k, s)
    BY DEF Busy
  <1>3. Working(stack'[d], k, s)
    BY <1>1, <1>2
  <1> QED
    BY <1>3 DEF Busy, Working

(* what is in flight stays so, *)
LEMMA InFlightStays ==
    ASSUME Inner, NEW c \in Core, NEW q, q = stack[c], NEW r, stack' = [stack EXCEPT ![c] = r],
           NEW k, NEW ch, NEW s, Going(q, k, ch, s) => Going(r, k, ch, s), InFlight(k, ch, s)
    PROVE  InFlight(k, ch, s)'
  <1>1. stack'[c] = r /\ \A d \in Core : d # c => stack'[d] = stack[d]
    BY DEF Inner
  <1>2. PICK d \in Core : Going(stack[d], k, ch, s)
    BY DEF InFlight
  <1>3. Going(stack'[d], k, ch, s)
    BY <1>1, <1>2
  <1> QED
    BY <1>3 DEF InFlight, Going, Leaving, Upgrading

(* and so do all the lines if no array changes. *)
LEMMA LinesStay ==
    ASSUME Inner, Lines, NEW c \in Core, NEW q, q = stack[c], NEW r,
           stack' = [stack EXCEPT ![c] = r], KeepsWork(q, r), tag' = tag, st' = st, dir' = dir
    PROVE  Lines'
  <1>1. UniqueTags' /\ NamedLines' /\ Routes' /\ Listed' /\ Siblings'
    BY DEF Lines, UniqueTags, NamedLines, Routes, Listed, HasLine, Siblings, Home, HaveExclusive
  <1>2. Included'
    <2> SUFFICES ASSUME NEW ch \in Cache, NEW t \in Slots(ch), Home(ch, t) # Mem, st[ch][t] # "I"
                 PROVE  \E s \in Slots(Home(ch, t)) : InParent(ch, t, s)'
      BY DEF Included, Home
    <2>1. PICK s \in Slots(Home(ch, t)) : InParent(ch, t, s)
      BY DEF Lines, Included
    <2>2. PICK p : p = Home(ch, t)
      OBVIOUS
    <2>3. InFlight(p, ch, s) => InFlight(p, ch, s)'
      BY InFlightStays DEF KeepsWork
    <2>4. Home(ch, t)' = Home(ch, t)
      BY DEF Home
    <2> QED
      BY <2>1, <2>2, <2>3, <2>4 DEF InParent, HaveExclusive
  <1>3. Directory'
    <2> SUFFICES ASSUME NEW k \in Cache, NEW s \in Slots(k)
                 PROVE  (/\ dir[k][s].n \in 0..Cardinality(Children(k))
                         /\ EntryOK(k, s) \/ Busy(k, s))'
      BY DEF Directory
    <2>1. dir[k][s].n \in 0..Cardinality(Children(k)) /\ (EntryOK(k, s) \/ Busy(k, s))
      BY DEF Lines, Directory
    <2>2. Busy(k, s) => Busy(k, s)'
      BY BusyStays DEF KeepsWork
    <2>3. EntryOK(k, s) => EntryOK(k, s)'
      BY DEF EntryOK, CountOK, IsExclusive, Writable, CanWrite, HaveExclusive
    <2> QED
      BY <2>1, <2>2, <2>3
  <1> QED
    BY <1>1, <1>2, <1>3 DEF Lines

(* What a step has to show. *)
LEMMA CoherentStep ==
    ASSUME Inner, Coherent, NEW c \in Core, NEW q, q = stack[c], NEW r,
           stack' = [stack EXCEPT ![c] = r], NEW v \in BOOLEAN, wb' = [wb EXCEPT ![c] = v],
           \A x \in Cache : \A s \in Slots(x) : Footprint(q, x, s),
           Calls(r, v)', ~failed', LocksHeld', Lines'
    PROVE  Coherent'
  <1>1. stack'[c] = r /\ \A d \in Core : d # c => stack'[d] = stack[d]
    BY DEF Inner
  <1>2. wb' \in [Core -> BOOLEAN] /\ wb'[c] = v /\ \A d \in Core : d # c => wb'[d] = wb[d]
    BY DEF Coherent
  <1>3. ASSUME NEW d \in Core PROVE Calls(stack[d], wb[d])'
    <2>1. CASE d = c
      <3>1. stack'[d] = r /\ wb'[d] = v
        BY <1>1, <1>2, <2>1
      <3> QED
        BY <3>1
    <2>2. CASE d # c
      <3>1. PICK p : p = stack[d]
        OBVIOUS
      <3>2. PICK w : w = wb[d]
        OBVIOUS
      <3>3. Sane(d, p) /\ Calls(p, w) /\ Routes
        BY <3>1, <3>2 DEF Inner, Coherent, Lines
      <3>4. Apart(p, q)
        BY <2>2, <3>1, CoresApart DEF Coherent
      <3>5. Calls(p, w)'
        BY <3>3, <3>4, Others
      <3>6. stack'[d] = p /\ wb'[d] = w
        BY <1>1, <1>2, <2>2, <3>1, <3>2
      <3> QED
        BY <3>5, <3>6
    <2> QED
      BY <2>1, <2>2
  <1> QED
    BY <1>2, <1>3 DEF Coherent

(* A step that does not write back leaves wb as it is. *)
LEMMA SameWb ==
    ASSUME Coherent, NEW c \in Core, wb' = wb, NEW v, v = wb[c]
    PROVE  wb' = [wb EXCEPT ![c] = v] /\ v \in BOOLEAN
  BY DEF Coherent

(* A step that changes no array is harmless to everybody. *)
LEMMA QuietPrint ==
    ASSUME tag' = tag, st' = st, dir' = dir, NEW q
    PROVE  \A x \in Cache : \A s \in Slots(x) : Footprint(q, x, s) /\ OwnPrint(q, x, s)
  <1>1. \A x, s : HaveExclusive(x, s)' <=> HaveExclusive(x, s)
    BY DEF HaveExclusive
  <1> QED
    <2> SUFFICES ASSUME NEW x \in Cache, NEW s \in Slots(x)
                 PROVE  Footprint(q, x, s) /\ OwnPrint(q, x, s)
      OBVIOUS
    <2>1. tag'[x][s] = tag[x][s] /\ st'[x][s] = st[x][s] /\ dir'[x][s] = dir[x][s]
      OBVIOUS
    <2>2. HaveExclusive(x, s)' <=> HaveExclusive(x, s)
      BY <1>1
    <2>3. OwnPrint(q, x, s)
      BY <2>1 DEF OwnPrint
    <2>4. Footprint(q, x, s)
      BY <2>1, <2>2 DEF Footprint
    <2> QED
      BY <2>3, <2>4

(* The innermost call. *)
LEMMA TopSays ==
    ASSUME Inner, Coherent, NEW c \in Core, NEW q, q = stack[c], q # << >>
    PROVE  /\ Sane(c, q) /\ q \in Seq(FrameSet) /\ Top(c) = q[1] /\ FrameOK(q[1])
           /\ q[1] \in FrameSet /\ q[1].cache \in Cache /\ 1 \in 1..Len(q)
           /\ Calls(q, wb[c]) /\ FrameFact(q[1], TRUE) /\ KeepOK(q[1], wb[c])
           /\ 2 \in 1..Len(q) => Called(q[2], q[1]) /\ CallOK(q[2], q[1]) /\ FrameOK(q[2])
           /\ wb[c] \in BOOLEAN
  <1>1. Sane(c, q) /\ q \in Seq(FrameSet) /\ Top(c) = q[1] /\ FrameOK(q[1]) /\ 1 \in 1..Len(q)
    BY TopFacts
  <1>2. Calls(q, wb[c]) /\ wb[c] \in BOOLEAN
    BY DEF Coherent
  <1>3. FrameFact(q[1], TRUE) /\ KeepOK(q[1], wb[c])
    <2>1. (1 = 1) = TRUE
      OBVIOUS
    <2>2. FrameFact(q[1], 1 = 1) /\ KeepOK(q[1], wb[c])
      BY <1>1, <1>2, Zenon DEF Calls
    <2> QED
      BY <2>1, <2>2
  <1>4. 2 \in 1..Len(q) => Called(q[2], q[1]) /\ CallOK(q[2], q[1]) /\ FrameOK(q[2])
    <2>1. 2 > 1 /\ 2 - 1 = 1 /\ (2 \in 1..Len(q) => 2 \in 2..Len(q))
      OBVIOUS
    <2> QED
      BY <1>1, <1>2, <2>1 DEF Sane, Calls
  <1> QED
    BY <1>1, <1>2, <1>3, <1>4, FrameFacts

(* Who waits for an access has no dirty data in hand, and asked for it. *)
LEMMA AccessRest ==
    ASSUME NEW c, NEW q, Sane(c, q), q # << >>, q[1].kind = "access", NEW v
    PROVE  \A i \in 2..Len(q) : KeepOK(q[i], v)'
  <1> SUFFICES ASSUME NEW i \in 2..Len(q) PROVE KeepOK(q[i], v)'
    OBVIOUS
  <1>1. i \in 1..Len(q) /\ i > 1 /\ i - 1 \in 1..Len(q) /\ 1 \in 1..Len(q)
    BY DEF Sane
  <1>2. q[i - 1].kind = "access"
    BY <1>1 DEF Sane, Ordered
  <1>3. Called(q[i], q[i - 1])
    BY <1>1 DEF Sane
  <1>4. q[i].at \notin {"evict", "grant"}
    BY <1>2, <1>3 DEF Called
  <1> QED
    BY <1>4 DEF KeepOK

(* The caller of an access does not see it go on. *)
LEMMA AccessCalled ==
    ASSUME NEW h, NEW g, NEW f, Called(h, g), CallOK(h, g), SameCall(f, g), g.kind = "access",
           f.type = g.type \/ (IsPut(f.type) /\ IsPut(g.type))
    PROVE  CallOK(h, f)'
  BY DEF CallOK, SameCall, Called, IsPut

(* A step that changes no array: what is left to show. *)
LEMMA QuietStep ==
    ASSUME Inner, Coherent, NEW c \in Core, NEW q, q = stack[c], NEW r,
           stack' = [stack EXCEPT ![c] = r], NEW v \in BOOLEAN, wb' = [wb EXCEPT ![c] = v],
           tag' = tag, st' = st, dir' = dir, KeepsWork(q, r),
           Calls(r, v)', ~failed', LocksHeld'
    PROVE  Coherent'
  <1>1. Lines'
    BY LinesStay DEF Coherent
  <1>2. \A x \in Cache : \A s \in Slots(x) : Footprint(q, x, s)
    BY QuietPrint
  <1> QED
    BY <1>1, <1>2, CoherentStep

(* The locks after a step that ends at an access. *)
LEMMA AccessLocksHeld ==
    ASSUME Inner, LocksHeld, NEW c \in Core, NEW r, stack' = [stack EXCEPT ![c] = r], Inner',
           r # << >>, r[1].kind = "access", \A k \in Cache : HoldsTop(r, k) => tcc'[k] = c,
           r[1].at \notin {"lockTcc", "lockBcc", "fill"} => bcc'[r[1].cache] = c,
           \A k \in Cache : tcc'[k] = tcc[k] \/ tcc[k] \in {c, Free},
           \A k \in Cache : bcc'[k] = bcc[k] \/ bcc[k] \in {c, Free}
    PROVE  LocksHeld' /\ Sane(c, r)
  <1>1. Sane(c, r)
    BY DEF Inner
  <1>2. \A k \in Cache : HoldsBottom(r, k) => bcc'[k] = c
    BY <1>1, BottomAlone
  <1> QED
    BY <1>1, <1>2, LocksHeldStep

-----------------------------------------------------------------------------
(* FilterCache::replace only starts a call. *)
LEMMA ReplaceCoherent ==
    ASSUME Inner, Coherent, Inner', NEW c \in Core, Replace(c)
    PROVE  Coherent'
  <1>1. PICK l \in L1, a \in Addr, type \in {"GETS", "GETX"} :
            /\ stack[c] = << >> /\ CoreOf[l] = c
            /\ stack' = [stack EXCEPT ![c] = <<Access(l, type, a, None, 0, "I", l \in ICache)>>]
            /\ UNCHANGED <<tag, st, dir, bcc, tcc, filterLock, rd, wr, wb, dirty, failed>>
    BY DEF Replace
  <1>2. PICK g : g = Access(l, type, a, None, 0, "I", l \in ICache)
    OBVIOUS
  <1>3. /\ g.kind = "access" /\ g.at = "lockBcc" /\ g.cache = l /\ g.init = "I" /\ g.addr = a
    BY <1>2 DEF Access
  <1>4. PICK r : r = <<g>>
    OBVIOUS
  <1>5. Len(r) = 1 /\ r[1] = g /\ r # << >>
    BY <1>4
  <1>6. stack' = [stack EXCEPT ![c] = r]
    BY <1>1, <1>2, <1>4
  <1>7. PICK q : q = stack[c]
    OBVIOUS
  <1>8. Len(q) = 0
    BY <1>1, <1>7
  <1>9. LocksHeld'
    <2>1. \A k \in Cache : ~HoldsTop(r, k)
      BY <1>3, <1>5 DEF HoldsTop
    <2> QED
      BY <1>1, <1>3, <1>5, <1>6, <2>1, AccessLocksHeld DEF Coherent
  <1>10. KeepsWork(q, r)
    BY <1>8 DEF KeepsWork, Working, Going, Leaving, Upgrading
  <1>11. PICK v : v = wb[c]
    OBVIOUS
  <1>12. wb' = [wb EXCEPT ![c] = v] /\ v \in BOOLEAN
    BY <1>1, <1>11, SameWb
  <1>13. Calls(r, v)'
    <2>1. FrameFact(g, TRUE)' /\ KeepOK(g, v)'
      BY <1>3 DEF FrameFact, LineOK, WorkOK, KeepOK
    <2>2. ASSUME NEW i \in 1..Len(r) PROVE (FrameFact(r[i], i = 1) /\ KeepOK(r[i], v))'
      <3>1. r[i] = g /\ (i = 1) = TRUE
        BY <1>5
      <3> QED
        BY <2>1, <3>1
    <2>3. 2..Len(r) = {} /\ \A i, j \in 1..Len(r) : ~(i < j)
      BY <1>5
    <2> QED
      BY <2>2, <2>3 DEF Calls, Chain
  <1>14. ~failed' /\ tag' = tag /\ st' = st /\ dir' = dir
    BY <1>1 DEF Coherent
  <1> QED
    BY <1>6, <1>7, <1>9, <1>10, <1>12, <1>13, <1>14, QuietStep

(* A context switch, or no step at all, changes nothing that Coherent      *)
(* speaks of.                                                              *)
LEMMA CoherentStutters ==
    ASSUME Inner, Coherent, tag' = tag, st' = st, dir' = dir, bcc' = bcc, tcc' = tcc,
           stack' = stack, wb' = wb, failed' = failed
    PROVE  Coherent'
  <1>1. /\ tag' = tag /\ st' = st /\ dir' = dir /\ bcc' = bcc /\ tcc' = tcc
        /\ stack' = stack /\ wb' = wb /\ failed' = failed
    OBVIOUS
  <1>2. /\ UniqueTags' /\ NamedLines' /\ Routes' /\ Listed' /\ Siblings'
    BY <1>1 DEF Coherent, Lines, UniqueTags, NamedLines, Routes, Listed, HasLine, Siblings, Home,
                HaveExclusive
  <1>3. Included'
    BY <1>1 DEF Coherent, Lines, Included, InParent, Home, InFlight, Going, Leaving, Upgrading,
                HaveExclusive
  <1>4. Directory'
    BY <1>1 DEF Coherent, Lines, Directory, EntryOK, CountOK, IsExclusive, Writable, CanWrite,
                HaveExclusive, Busy, Working
  <1>5. Lines'
    BY <1>2, <1>3, <1>4 DEF Lines
  <1>6. LocksHeld'
    BY <1>1 DEF Coherent, LocksHeld
  <1>7. ASSUME NEW d \in Core PROVE Calls(stack[d], wb[d])'
    <2>1. PICK p : p = stack[d]
      OBVIOUS
    <2>2. PICK w : w = wb[d]
      OBVIOUS
    <2>3. Sane(d, p) /\ Calls(p, w) /\ Routes
      BY <2>1, <2>2 DEF Inner, Coherent, Lines
    <2>4. Apart(p, << >>)
      BY DEF Apart, HoldsBottom, Visits
    <2>5. Calls(p, w)'
      <3>1. \A x \in Cache : \A s \in Slots(x) : Footprint(<< >>, x, s)
        BY <1>1, QuietPrint
      <3> QED
        BY <2>3, <2>4, <3>1, Others
    <2>6. stack'[d] = p /\ wb'[d] = w
      BY <1>1, <2>1, <2>2
    <2> QED
      BY <2>5, <2>6
  <1> QED
    BY <1>1, <1>5, <1>6, <1>7 DEF Coherent

(* The innermost access goes on, and nothing else happens to the lines. *)
LEMMA QuietGoto ==
    ASSUME Inner, Coherent, Inner', NEW c \in Core, NEW q, q = stack[c], q # << >>,
           q[1].kind = "access", q[1].at \notin {"evict", "grant"}, q[1].at # "down",
           NEW f \in FrameSet, SameCall(f, q[1]),
           f.type = q[1].type \/ (IsPut(f.type) /\ IsPut(q[1].type)),
           stack' = [stack EXCEPT ![c] = <<f>> \o Tail(q)],
           NEW v \in BOOLEAN, wb' = [wb EXCEPT ![c] = v], tag' = tag, st' = st, dir' = dir,
           FrameFact(f, TRUE)', KeepOK(f, v)', ~failed',
           f.at # "lockTcc", q[1].at = "lockTcc" => tcc'[q[1].cache] = c,
           \A k \in Cache : HoldsTop(q, k) => tcc'[k] = tcc[k],
           f.at \notin {"lockBcc", "fill"} => bcc'[q[1].cache] = c,
           \A k \in Cache : tcc'[k] = tcc[k] \/ tcc[k] \in {c, Free},
           \A k \in Cache : bcc'[k] = bcc[k] \/ bcc[k] \in {c, Free}
    PROVE  Coherent'
  <1>1. PICK r : r = <<f>> \o Tail(q)
    OBVIOUS
  <1>2. stack' = [stack EXCEPT ![c] = r]
    BY <1>1
  <1>3. PICK w : w = wb[c]
    OBVIOUS
  <1>4. /\ Sane(c, q) /\ q \in Seq(FrameSet) /\ Calls(q, w) /\ Routes
        /\ 2 \in 1..Len(q) => Called(q[2], q[1]) /\ CallOK(q[2], q[1])
    BY <1>3, TopSays DEF Coherent, Lines
  <1>5. r # << >> /\ r[1] = f /\ f.kind = "access" /\ f.cache = q[1].cache
    BY <1>1, <1>4, GotoSeq DEF SameCall
  <1>6. LocksHeld'
    <2>1. \A k \in Cache : HoldsTop(r, k) => tcc'[k] = c
      <3> SUFFICES ASSUME NEW k \in Cache, HoldsTop(r, k) PROVE tcc'[k] = c
        OBVIOUS
      <3>1. HoldsTop(q, k) \/ (k = f.cache /\ q[1].at = "lockTcc")
        BY <1>1, <1>4, TopOfGoto
      <3>2. HoldsTop(q, k) => tcc[k] = c
        BY DEF Coherent, LocksHeld
      <3> QED
        BY <1>5, <3>1, <3>2
    <2>2. r[1].at \notin {"lockTcc", "lockBcc", "fill"} => bcc'[r[1].cache] = c
      BY <1>5
    <2>3. r[1].kind = "access" /\ LocksHeld
      BY <1>5 DEF Coherent
    <2> QED
      BY <1>2, <1>5, <2>1, <2>2, <2>3, AccessLocksHeld
  <1>7. KeepsWork(q, r)
    BY <1>1, <1>4, WorkGoto
  <1>8. Calls(r, v)'
    <2>1. \A i \in 2..Len(q) : KeepOK(q[i], v)'
      BY <1>4, AccessRest
    <2>2. \A x \in Cache : \A s \in Slots(x) : OwnPrint(q, x, s)
      BY QuietPrint
    <2>3. RestOK(q, v)'
      BY <1>4, <2>1, <2>2, RestStays
    <2>4. 2 \in 1..Len(q) => CallOK(q[2], f)'
      BY <1>4, AccessCalled
    <2>5. Calls(<<f>> \o Tail(q), v)'
      BY <1>4, <2>3, <2>4, CallsGoto
    <2> QED
      BY <1>1, <2>5
  <1> QED
    BY <1>2, <1>6, <1>7, <1>8, QuietStep, ZenonT(90)

(* startAccess takes the top lock. *)
LEMMA LockTccCoherent ==
    ASSUME Inner, Coherent, Inner', NEW c \in Core, LockTcc(c)
    PROVE  Coherent'
  <1>1. PICK q : q = stack[c]
    OBVIOUS
  <1>2. PICK v : v = wb[c]
    OBVIOUS
  <1>3. q # << >>
    BY <1>1 DEF LockTcc, In
  <1>4. /\ Top(c) = q[1] /\ FrameOK(q[1]) /\ FrameFact(q[1], TRUE) /\ q[1].cache \in Cache
        /\ q \in Seq(FrameSet)
    BY <1>1, <1>3, TopSays
  <1>5. PICK f : f = [q[1] EXCEPT !.at = "lockBcc"]
    OBVIOUS
  <1>6. /\ q[1].kind = "access" /\ q[1].at = "lockTcc" /\ tcc[q[1].cache] = Free
        /\ tcc' = [tcc EXCEPT ![q[1].cache] = c]
        /\ stack' = [stack EXCEPT ![c] = <<f>> \o Tail(q)]
        /\ tag' = tag /\ st' = st /\ dir' = dir /\ bcc' = bcc /\ wb' = wb /\ failed' = failed
    BY <1>1, <1>4, <1>5 DEF LockTcc, In, Goto
  <1>7. /\ f \in FrameSet /\ SameCall(f, q[1]) /\ f.type = q[1].type /\ f.at = "lockBcc"
        /\ f.addr = q[1].addr /\ f.child = q[1].child /\ f.slot = q[1].slot
        /\ f.init = q[1].init /\ f.cache = q[1].cache /\ f.kind = "access"
        /\ f.cache \notin L1
    <2>1. q[1] \in AccessFrame /\ q[1].cache \notin L1
      BY <1>4, <1>6, FrameFacts DEF FrameOK
    <2> QED
      BY <1>5, <2>1 DEF FrameSet, AccessFrame, SameCall, Ats
  <1>8. wb' = [wb EXCEPT ![c] = v] /\ v \in BOOLEAN
    BY <1>2, <1>6, SameWb
  <1>9. FrameFact(f, TRUE)' /\ KeepOK(f, v)'
    <2>1. ChildOK(q[1]) /\ q[1].addr \in Addr
      BY <1>4, <1>6, <1>7 DEF FrameFact
    <2>2. ChildOK(f)'
      BY <1>6, <1>7, <2>1 DEF ChildOK
    <2> QED
      BY <1>7, <2>1, <2>2 DEF FrameFact, LineOK, WorkOK, KeepOK
  <1>10. /\ tcc'[q[1].cache] = c
         /\ \A k \in Cache : HoldsTop(q, k) => tcc'[k] = tcc[k]
         /\ \A k \in Cache : tcc'[k] = tcc[k] \/ tcc[k] \in {c, Free}
    <2>1. tcc \in [Cache -> Core \union {Free}] /\ Free \notin Core
      BY TreeAssumption DEF Inner, Locks, Free
    <2>2. \A k \in Cache : HoldsTop(q, k) => tcc[k] = c
      BY <1>1 DEF Coherent, LocksHeld
    <2> QED
      BY <1>4, <1>6, <2>1, <2>2
  <1>11. ~failed' /\ \A k \in Cache : bcc'[k] = bcc[k]
    BY <1>6 DEF Coherent
  <1>12. /\ q[1].at \notin {"evict", "grant"} /\ q[1].at # "down"
         /\ f.type = q[1].type \/ (IsPut(f.type) /\ IsPut(q[1].type))
         /\ f.at # "lockTcc" /\ (q[1].at = "lockTcc" => tcc'[q[1].cache] = c)
         /\ f.at \notin {"lockBcc", "fill"} => bcc'[q[1].cache] = c
         /\ \A k \in Cache : bcc'[k] = bcc[k] \/ bcc[k] \in {c, Free}
    BY <1>6, <1>7, <1>10, <1>11
  <1>13. /\ f \in FrameSet /\ SameCall(f, q[1]) /\ q[1].kind = "access"
         /\ stack' = [stack EXCEPT ![c] = <<f>> \o Tail(q)]
         /\ tag' = tag /\ st' = st /\ dir' = dir
    BY <1>6, <1>7
  <1> QED
    BY <1>1, <1>3, <1>8, <1>9, <1>10, <1>11, <1>12, <1>13, QuietGoto, ZenonT(90)

(* endAccess of an L1 drops its bottom lock. *)
LEMMA EndAccessL1Coherent ==
    ASSUME Inner, Coherent, Inner', NEW c \in Core, EndAccess(c), Top(c).cache \in L1
    PROVE  Coherent'
  <1>1. PICK q : q = stack[c]
    OBVIOUS
  <1>2. PICK v : v = wb[c]
    OBVIOUS
  <1>3. q # << >>
    BY <1>1 DEF EndAccess, In
  <1>4. /\ Top(c) = q[1] /\ FrameOK(q[1]) /\ FrameFact(q[1], TRUE) /\ q[1].cache \in Cache
        /\ q \in Seq(FrameSet)
    BY <1>1, <1>3, TopSays
  <1>5. PICK f : f = [q[1] EXCEPT !.at = "fill"]
    OBVIOUS
  <1>6. /\ q[1].kind = "access" /\ q[1].at = "end" /\ q[1].cache \in L1
        /\ tcc' = [tcc EXCEPT ![q[1].cache] = Free] /\ bcc' = [bcc EXCEPT ![q[1].cache] = Free]
        /\ stack' = [stack EXCEPT ![c] = <<f>> \o Tail(q)]
        /\ tag' = tag /\ st' = st /\ dir' = dir /\ wb' = wb
        /\ Check(IF q[1].type = "GETX" THEN st[q[1].cache][q[1].line] = "M"
                                       ELSE st[q[1].cache][q[1].line] # "I")
    BY <1>1, <1>4, <1>5 DEF EndAccess, In, Goto
  <1>7. /\ f \in FrameSet /\ SameCall(f, q[1]) /\ f.type = q[1].type /\ f.at = "fill"
        /\ f.addr = q[1].addr /\ f.cache = q[1].cache /\ f.kind = "access"
    <2>1. q[1] \in AccessFrame
      BY <1>4, <1>6, FrameFacts
    <2> QED
      BY <1>5, <2>1 DEF FrameSet, AccessFrame, SameCall, Ats
  <1>8. wb' = [wb EXCEPT ![c] = v] /\ v \in BOOLEAN
    BY <1>2, <1>6, SameWb
  <1>9. FrameFact(f, TRUE)' /\ KeepOK(f, v)'
    <2>1. q[1].addr \in Addr
      BY <1>4 DEF FrameFact
    <2> QED
      BY <1>6, <1>7, <2>1 DEF FrameFact, LineOK, WorkOK, KeepOK
  <1>10. ~failed'
    <2>1. Served(q[1].type, st[q[1].cache][q[1].line])
      BY <1>4, <1>6 DEF FrameFact, LineOK
    <2> QED
      BY <1>6, <2>1 DEF Check, Served, Coherent
  <1>11. /\ \A k \in Cache : HoldsTop(q, k) => tcc'[k] = tcc[k]
         /\ \A k \in Cache : tcc'[k] = tcc[k] \/ tcc[k] \in {c, Free}
         /\ \A k \in Cache : bcc'[k] = bcc[k] \/ bcc[k] \in {c, Free}
    <2>1. /\ tcc \in [Cache -> Core \union {Free}] /\ bcc \in [Cache -> Core \union {Free}]
          /\ Free \notin Core
      BY TreeAssumption DEF Inner, Locks, Free
    <2>2. \A k \in Cache : HoldsTop(q, k) => k # q[1].cache
      BY <1>6 DEF HoldsTop
    <2>3. tcc[q[1].cache] \in {c, Free}
      <3>1. \A d \in Core : tcc[q[1].cache] = d => HoldsTop(stack[d], q[1].cache)
        BY <1>4 DEF Inner, Locks
      <3> QED
        BY <1>4, <1>6, <2>1, <3>1 DEF HoldsTop
    <2>4. bcc[q[1].cache] = c
      <3>1. HasBottom(q, 1) /\ 1 \in 1..Len(q)
        BY <1>1, <1>3, <1>6, TopSays DEF HasBottom
      <3>2. HoldsBottom(q, q[1].cache)
        BY <3>1 DEF HoldsBottom
      <3> QED
        BY <1>1, <1>4, <3>2 DEF Coherent, LocksHeld
    <2> QED
      BY <1>4, <1>6, <2>1, <2>2, <2>3, <2>4
  <1>12. /\ q[1].at \notin {"evict", "grant"} /\ q[1].at # "down"
         /\ f.type = q[1].type \/ (IsPut(f.type) /\ IsPut(q[1].type))
         /\ f.at # "lockTcc" /\ (q[1].at = "lockTcc" => tcc'[q[1].cache] = c)
         /\ f.at \notin {"lockBcc", "fill"} => bcc'[q[1].cache] = c
    BY <1>6, <1>7
  <1>13. /\ f \in FrameSet /\ SameCall(f, q[1]) /\ q[1].kind = "access"
         /\ stack' = [stack EXCEPT ![c] = <<f>> \o Tail(q)]
         /\ tag' = tag /\ st' = st /\ dir' = dir
    BY <1>6, <1>7
  <1> QED
    BY <1>1, <1>3, <1>8, <1>9, <1>10, <1>11, <1>12, <1>13, QuietGoto, ZenonT(90)

(* endAccess of another cache relocks the child and drops its own locks:   *)
(* nothing of its work is left.                                            *)
LEMMA EndAccessUpCoherent ==
    ASSUME Inner, Coherent, Inner', NEW c \in Core, EndAccess(c), Top(c).cache \notin L1
    PROVE  Coherent'
  <1>1. PICK q : q = stack[c]
    OBVIOUS
  <1>2. PICK v : v = wb[c]
    OBVIOUS
  <1>3. q # << >>
    BY <1>1 DEF EndAccess, In
  <1>4. /\ Top(c) = q[1] /\ FrameOK(q[1]) /\ FrameFact(q[1], TRUE) /\ q[1].cache \in Cache
        /\ q \in Seq(FrameSet) /\ Sane(c, q) /\ Calls(q, v) /\ Routes
    BY <1>1, <1>2, <1>3, TopSays DEF Coherent, Lines
  <1>5. PICK r : r = Tail(q)
    OBVIOUS
  <1>6. /\ q[1].kind = "access" /\ q[1].at = "end" /\ q[1].cache \notin L1
        /\ tcc' = [tcc EXCEPT ![q[1].cache] = Free]
        /\ bcc' = [bcc EXCEPT ![q[1].child] = c, ![q[1].cache] = Free]
        /\ bcc[q[1].child] = Free
        /\ stack' = [stack EXCEPT ![c] = r]
        /\ tag' = tag /\ st' = st /\ dir' = dir /\ wb' = wb /\ failed' = failed
    BY <1>1, <1>4, <1>5 DEF EndAccess, In, Return
  <1>7. /\ r # << >> /\ r[1] = q[2] /\ FrameOK(q[2]) /\ Called(q[2], q[1])
        /\ q[2].kind = "access" /\ q[2].cache = q[1].child /\ q[2].line = q[1].slot
        /\ q[2].cache \in Cache
        /\ q[2].at \in {"insert", "dir", "end"} /\ 2 \in 1..Len(q)
    BY <1>3, <1>4, <1>5, <1>6, Caller
  <1>8. wb' = [wb EXCEPT ![c] = v] /\ v \in BOOLEAN
    BY <1>2, <1>6, SameWb
  <1>9. q[1].child # q[1].cache
    <2>1. q[1].child \in Children(q[1].cache)
      BY <1>3, <1>4, <1>6, CallingChild
    <2> QED
      BY <1>4, <2>1, Heights
  <1>10. LocksHeld'
    <2>1. /\ tcc \in [Cache -> Core \union {Free}] /\ bcc \in [Cache -> Core \union {Free}]
          /\ Free \notin Core
      BY TreeAssumption DEF Inner, Locks, Free
    <2>2. HoldsTop(q, q[1].cache) /\ HoldsBottom(q, q[1].cache)
      <3>1. HasBottom(q, 1) /\ 1 \in 1..Len(q)
        BY <1>1, <1>3, <1>6, TopSays DEF HasBottom
      <3> QED
        BY <1>6, <3>1 DEF HoldsBottom, HoldsTop
    <2>3. tcc[q[1].cache] = c /\ bcc[q[1].cache] = c
      BY <1>1, <1>4, <2>2 DEF Coherent, LocksHeld
    <2>4. \A k \in Cache : HoldsTop(r, k) => tcc'[k] = c
      <3> SUFFICES ASSUME NEW k \in Cache, HoldsTop(r, k) PROVE tcc'[k] = c
        OBVIOUS
      <3>1. HoldsTop(q, k) /\ k # q[1].cache
        BY <1>3, <1>4, <1>5, <1>6, TopOfReturn
      <3>2. tcc[k] = c
        BY <1>1, <3>1 DEF Coherent, LocksHeld
      <3> QED
        BY <1>6, <3>1, <3>2
    <2>5. bcc'[r[1].cache] = c
      BY <1>4, <1>6, <1>7, <1>9, <2>1
    <2>6. \A k \in Cache : tcc'[k] = tcc[k] \/ tcc[k] \in {c, Free}
      BY <1>6, <2>1, <2>3
    <2>7. \A k \in Cache : bcc'[k] = bcc[k] \/ bcc[k] \in {c, Free}
      BY <1>6, <2>1, <2>3
    <2>8. r[1].kind = "access" /\ LocksHeld
      BY <1>7 DEF Coherent
    <2> QED
      BY <1>6, <1>7, <2>4, <2>5, <2>6, <2>7, <2>8, AccessLocksHeld
  <1>11. Calls(r, v)'
    <2>1. \A i \in 2..Len(q) : KeepOK(q[i], v)'
      BY <1>3, <1>4, <1>6, AccessRest
    <2>2. \A x \in Cache : \A s \in Slots(x) : OwnPrint(q, x, s)
      BY <1>6, QuietPrint
    <2>3. RestOK(q, v)'
      BY <1>3, <1>4, <2>1, <2>2, RestStays
    <2>4. FrameFact(q[2], FALSE)'
      <3>1. 2 \in 2..Len(q)
        BY <1>7
      <3> QED
        BY <2>3, <3>1 DEF RestOK
    <2>5. ChildOK(q[1]) /\ CallOK(q[2], q[1])
      BY <1>1, <1>3, <1>4, <1>6, <1>7, TopSays DEF FrameFact
    <2>6. (/\ q[2].at = "insert" => st[q[2].cache][q[2].line] = "I"
           /\ q[2].at \in {"dir", "end"} => Served(q[2].type, st[q[2].cache][q[2].line]))'
      BY <1>6, <1>7, <2>5 DEF ChildOK, CallOK, Served, IsPut
    <2>7. FrameFact(q[2], TRUE)'
      BY <1>7, <2>4, <2>6 DEF FrameFact, LineOK, WorkOK
    <2>8. Calls(Tail(q), v)'
      BY <1>3, <1>4, <2>3, <2>7, CallsReturn
    <2> QED
      BY <1>5, <2>8
  <1>12. KeepsWork(q, r)
    BY <1>3, <1>4, <1>5, <1>6, WorkReturn
  <1>13. ~failed'
    BY <1>6 DEF Coherent
  <1> QED
    BY <1>1, <1>6, <1>8, <1>10, <1>11, <1>12, <1>13, QuietStep

(* The end of FilterCache::replace. *)
LEMMA FillFilterCoherent ==
    ASSUME Inner, Coherent, Inner', NEW c \in Core, FillFilter(c)
    PROVE  Coherent'
  <1>1. PICK q : q = stack[c]
    OBVIOUS
  <1>2. PICK v : v = wb[c]
    OBVIOUS
  <1>3. q # << >>
    BY <1>1 DEF FillFilter, In
  <1>4. /\ Top(c) = q[1] /\ FrameOK(q[1]) /\ q[1].cache \in Cache
        /\ q \in Seq(FrameSet) /\ Sane(c, q)
    BY <1>1, <1>3, TopSays
  <1>5. PICK r : r = Tail(q)
    OBVIOUS
  <1>6. /\ q[1].kind = "access" /\ q[1].at = "fill" /\ stack' = [stack EXCEPT ![c] = r]
        /\ tag' = tag /\ st' = st /\ dir' = dir /\ wb' = wb /\ failed' = failed
        /\ bcc' = bcc /\ tcc' = tcc
    BY <1>1, <1>4, <1>5 DEF FillFilter, In, Return
  <1>7. Len(q) = 1
    <2>1. 1 \in 1..Len(q) /\ q[1].cache \in L1
      BY <1>1, <1>3, <1>4, <1>6, TopSays DEF FrameOK
    <2> QED
      BY <1>4, <1>6, <2>1, L1Base, ZenonT(90)
  <1>8. Len(r) = 0
    BY <1>3, <1>4, <1>5, <1>7, ReturnSeq
  <1>9. LocksHeld'
    <2>1. \A k \in Cache : ~HoldsTop(r, k) /\ ~HoldsBottom(r, k)
      BY <1>8 DEF HoldsTop, HoldsBottom
    <2>2. \A k \in Cache : tcc'[k] = tcc[k] /\ bcc'[k] = bcc[k]
      BY <1>6
    <2> QED
      BY <1>6, <2>1, <2>2, LocksHeldStep DEF Coherent
  <1>10. Calls(r, v)'
    BY <1>8 DEF Calls, Chain
  <1>11. KeepsWork(q, r)
    BY <1>3, <1>4, <1>5, <1>6, WorkReturn
  <1>12. wb' = [wb EXCEPT ![c] = v] /\ v \in BOOLEAN /\ ~failed'
    BY <1>2, <1>6, SameWb DEF Coherent
  <1> QED
    BY <1>1, <1>6, <1>9, <1>10, <1>11, <1>12, QuietStep

(* Past the race check an access finds its line where it was. *)
Passed(h, f) ==
    /\ h \in FrameSet /\ h.kind = "access" /\ SameCall(h, f) /\ h.cache = f.cache /\ h.addr = f.addr
    /\ h.type = TypeAfterRace(f)

PassesTo(h, f, a, s) == Passed(h, f) /\ h.at = a /\ h.line = s
Evicting(h, f, s, d) == PassesTo(h, f, "evict", s) /\ h.todo = d

(* CheckForMESIRace may change the type of an access, and no more. *)
LEMMA PassType ==
    ASSUME NEW f \in AccessFrame
    PROVE  LET g == [f EXCEPT !.type = TypeAfterRace(f)]
           IN  /\ g \in AccessFrame /\ g.type = TypeAfterRace(f) /\ g.kind = "access"
               /\ g.cache = f.cache /\ g.addr = f.addr /\ SameCall(g, f)
  <1>1. PICK t : t = TypeAfterRace(f)
    OBVIOUS
  <1>2. t \in {"GETS", "GETX", "PUTS", "PUTX"}
    BY <1>1 DEF TypeAfterRace, AccessFrame
  <1> QED
    BY <1>1, <1>2 DEF AccessFrame, SameCall

(* Then the access is skipped, *)
LEMMA PassEnd ==
    ASSUME NEW f, NEW g \in AccessFrame, g.type = TypeAfterRace(f), g.kind = "access",
           g.cache = f.cache, g.addr = f.addr, SameCall(g, f),
           NEW h, h = [g EXCEPT !.at = "end"]
    PROVE  Passed(h, f) /\ h.at = "end"
  BY DEF AccessFrame, FrameSet, SameCall, Passed, Ats

(* goes on with the line it found, *)
LEMMA PassHit ==
    ASSUME NEW f, NEW g \in AccessFrame, g.type = TypeAfterRace(f), g.kind = "access",
           g.cache = f.cache, g.addr = f.addr, SameCall(g, f),
           NEW s \in Nat
    PROVE  PassesTo([g EXCEPT !.at = "access", !.line = s], f, "access", s)
  BY DEF PassesTo, AccessFrame, FrameSet, SameCall, Passed, Ats

(* or evicts a line for its own. *)
LEMMA PassMiss ==
    ASSUME NEW f, NEW g \in AccessFrame, g.type = TypeAfterRace(f), g.kind = "access",
           g.cache = f.cache, g.addr = f.addr, SameCall(g, f),
           NEW s \in Nat, NEW d \in SUBSET Cache
    PROVE  Evicting([g EXCEPT !.at = "evict", !.line = s, !.todo = d], f, s, d)
  BY DEF Evicting, PassesTo, AccessFrame, FrameSet, SameCall, Passed, Ats

(* What the race check of an access that waited for its locks finds. *)
LEMMA RaceKnown ==
    ASSUME NEW f, FrameOK(f), FrameFact(f, TRUE), f.kind = "access", f.at = "lockBcc"
    PROVE  /\ Raced(f) => LegalRace(f)
           /\ SkipAccess(f) => f.cache \notin L1 /\ st[f.child][f.slot] = "I"
           /\ ~SkipAccess(f) /\ f.cache \notin L1 =>
                 \/ TypeAfterRace(f) = "GETS" /\ st[f.child][f.slot] = "I"
                 \/ TypeAfterRace(f) = "GETX" /\ st[f.child][f.slot] \in {"I", "S"}
                 \/ TypeAfterRace(f) = "PUTS" /\ st[f.child][f.slot] \in {"S", "E"}
                 \/ TypeAfterRace(f) = "PUTX" /\ st[f.child][f.slot] = "M"
           /\ IsPut(TypeAfterRace(f)) <=> IsPut(f.type)
           /\ IsPut(f.type) => f.cache \notin L1
  <1>1. CASE f.cache \in L1
    <2>1. f.init = "I" /\ f.type \in {"GETS", "GETX"}
      BY <1>1, FrameFacts DEF FrameFact, LineOK, FrameOK
    <2> QED
      BY <1>1, <2>1 DEF Raced, LegalRace, SkipAccess, TypeAfterRace, IsPut, ChildState
  <1>2. CASE f.cache \notin L1
    <2>1. ChildOK(f)
      BY <1>2 DEF FrameFact
    <2>2. PICK cs : cs = st[f.child][f.slot]
      OBVIOUS
    <2>3. \/ f.type = "GETS" /\ f.init = "I" /\ cs = "I"
          \/ f.type = "GETX" /\ f.init \in {"I", "S"} /\ cs \in {"I", f.init}
          \/ f.type = "PUTS" /\ f.init \in {"S", "E"} /\ cs \in {"I", "S", f.init}
          \/ f.type = "PUTX" /\ f.init = "M" /\ cs \in {"I", "S", "M"}
      BY <2>1, <2>2 DEF ChildOK
    <2>4. Raced(f) <=> cs # f.init
      BY <1>2, <2>2 DEF Raced, ChildState
    <2>5. SkipAccess(f) <=> cs # f.init /\ IsPut(f.type) /\ cs = "I"
      BY <1>2, <2>2, <2>4 DEF SkipAccess, ChildState
    <2>6. LegalRace(f) <=> (IsPut(f.type) /\ cs \in {"I", "S"})
                           \/ (f.type = "GETX" /\ f.init = "S" /\ cs = "I")
      BY <1>2, <2>2 DEF LegalRace, ChildState
    <2>7. TypeAfterRace(f) = (IF cs # f.init /\ f.type = "PUTX" THEN "PUTS" ELSE f.type)
      BY <2>4 DEF TypeAfterRace
    <2> QED
      BY <1>2, <2>2, <2>3, <2>4, <2>5, <2>6, <2>7 DEF IsPut
  <1> QED
    BY <1>1, <1>2

(* startAccess takes the bottom lock: every race it finds is one that      *)
(* CheckForMESIRace knows, a PUT always hits, and the count of the         *)
(* victim's sharers is right.                                              *)
LEMMA LockBccCoherent ==
    ASSUME Inner, Coherent, NEW c \in Core, LockBcc(c)
    PROVE  ~failed' /\ (Inner' => Coherent')
  <1>1. PICK q : q = stack[c]
    OBVIOUS
  <1>2. q # << >>
    BY <1>1 DEF LockBcc, In
  <1>3. /\ Top(c) = q[1] /\ FrameOK(q[1]) /\ FrameFact(q[1], TRUE) /\ q[1].cache \in Cache
        /\ q \in Seq(FrameSet) /\ Sane(c, q) /\ 1 \in 1..Len(q)
    BY <1>1, <1>2, TopSays
  <1>4. PICK f : f = q[1]
    OBVIOUS
  <1>5. PICK k \in Cache : k = f.cache
    BY <1>3, <1>4
  <1>6. PICK g : g = [f EXCEPT !.type = TypeAfterRace(f)]
    OBVIOUS
  <1>7. /\ f.kind = "access" /\ f.at = "lockBcc" /\ bcc[k] = Free
        /\ bcc' = [bcc EXCEPT ![k] = c] /\ wb' = [wb EXCEPT ![c] = FALSE]
        /\ tag' = tag /\ st' = st /\ dir' = dir /\ tcc' = tcc
    BY <1>3, <1>4, <1>5 DEF LockBcc, In
  <1>8. \/ SkipAccess(f) /\ Goto(c, [g EXCEPT !.at = "end"]) /\ Check(LegalRace(f))
        \/ /\ ~SkipAccess(f)
           /\ \E s \in Holding(k, f.addr) : Goto(c, [g EXCEPT !.at = "access", !.line = s])
           /\ Check(Raced(f) => LegalRace(f))
        \/ /\ ~SkipAccess(f) /\ Holding(k, f.addr) = {}
           /\ \E s \in Slots(k) :
                 /\ Goto(c, [g EXCEPT !.at = "evict", !.line = s, !.todo = EvictFrom(k, s)])
                 /\ Check(/\ Raced(f) => LegalRace(f)
                          /\ ~IsPut(f.type)
                          /\ Cardinality(dir[k][s].sharers) = dir[k][s].n)
    BY <1>3, <1>4, <1>5, <1>6 DEF LockBcc
  <1>9. f \in AccessFrame /\ FrameOK(f) /\ FrameFact(f, TRUE)
    BY <1>3, <1>4, <1>7, FrameFacts
  <1>17. /\ g \in AccessFrame /\ g.type = TypeAfterRace(f) /\ g.kind = "access"
         /\ g.cache = f.cache /\ g.addr = f.addr /\ SameCall(g, f)
    BY <1>6, <1>9, PassType
  <1>10. f.cache \notin L1 =>
            /\ ChildOK(f) /\ f.child \in Cache /\ f.slot \in Slots(f.child)
            /\ Home(f.child, f.slot) = k
    BY <1>3, <1>4, <1>5, <1>7, Rights DEF FrameFact, Children, ChildOK, Home
  <1>11. PICK h : /\ Passed(h, f) /\ Goto(c, h) /\ ~failed' /\ h.at \in {"end", "access", "evict"}
                  /\ h.at = "end" => SkipAccess(f) /\ f.cache \notin L1
                  /\ h.at # "end" => ~SkipAccess(f)
                  /\ h.at = "access" => tag[k][h.line] = f.addr
                  /\ h.at = "evict" => /\ Holding(k, f.addr) = {} /\ ~IsPut(f.type)
                                       /\ h.todo = dir[k][h.line].sharers
    <2>0. ~failed /\ (Raced(f) => LegalRace(f))
      BY <1>7, <1>9, RaceKnown DEF Coherent
    <2>1. CASE SkipAccess(f) /\ Goto(c, [g EXCEPT !.at = "end"]) /\ Check(LegalRace(f))
      <3>1. PICK h : h = [g EXCEPT !.at = "end"]
        OBVIOUS
      <3>2. Passed(h, f) /\ h.at = "end"
        BY <1>17, <3>1, PassEnd
      <3>3. f.cache \notin L1
        BY <1>7, <1>9, <2>1, RaceKnown
      <3>4. LegalRace(f)
        BY <2>0, <2>1 DEF SkipAccess
      <3> QED
        BY <2>0, <2>1, <3>1, <3>2, <3>3, <3>4 DEF Check
    <2>2. CASE /\ ~SkipAccess(f)
               /\ \E s \in Holding(k, f.addr) : Goto(c, [g EXCEPT !.at = "access", !.line = s])
               /\ Check(Raced(f) => LegalRace(f))
      <3>1. PICK s \in Holding(k, f.addr) : Goto(c, [g EXCEPT !.at = "access", !.line = s])
        BY <2>2
      <3>2. PICK h : h = [g EXCEPT !.at = "access", !.line = s]
        OBVIOUS
      <3>3. s \in Nat /\ tag[k][s] = f.addr
        BY DEF Holding, Slots
      <3>4. Passed(h, f) /\ h.at = "access" /\ h.line = s
        <4>1. PassesTo([g EXCEPT !.at = "access", !.line = s], f, "access", s)
          BY <1>17, <3>3, PassHit, Zenon
        <4>2. PassesTo(h, f, "access", s)
          BY <3>2, <4>1, Zenon
        <4> QED
          BY <4>2 DEF PassesTo
      <3> QED
        BY <2>0, <2>2, <3>1, <3>2, <3>3, <3>4 DEF Check
    <2>3. CASE /\ ~SkipAccess(f) /\ Holding(k, f.addr) = {}
               /\ \E s \in Slots(k) :
                     /\ Goto(c, [g EXCEPT !.at = "evict", !.line = s, !.todo = EvictFrom(k, s)])
                     /\ Check(/\ Raced(f) => LegalRace(f)
                              /\ ~IsPut(f.type)
                              /\ Cardinality(dir[k][s].sharers) = dir[k][s].n)
      <3>1. PICK s \in Slots(k) :
               /\ Goto(c, [g EXCEPT !.at = "evict", !.line = s, !.todo = EvictFrom(k, s)])
               /\ Check(/\ Raced(f) => LegalRace(f)
                        /\ ~IsPut(f.type)
                        /\ Cardinality(dir[k][s].sharers) = dir[k][s].n)
        BY <2>3
      <3>2. PICK d : d = EvictFrom(k, s)
        OBVIOUS
      <3>3. PICK h : h = [g EXCEPT !.at = "evict", !.line = s, !.todo = d]
        OBVIOUS
      <3>4. s \in Nat /\ d \in SUBSET Cache /\ d = dir[k][s].sharers
        BY <3>2, EntryFacts DEF Slots, EvictFrom, Children
      <3>5. Passed(h, f) /\ h.at = "evict" /\ h.line = s /\ h.todo = d
        <4>1. Evicting([g EXCEPT !.at = "evict", !.line = s, !.todo = d], f, s, d)
          BY <1>17, <3>4, PassMiss, Zenon
        <4>2. Evicting(h, f, s, d)
          BY <3>3, <4>1, Zenon
        <4> QED
          BY <4>2 DEF Evicting, PassesTo
      <3>6. ~IsPut(f.type)
        <4> SUFFICES ASSUME IsPut(f.type) PROVE FALSE
          OBVIOUS
        <4>1. f.cache \notin L1 /\ st[f.child][f.slot] # "I"
          BY <1>7, <1>9, <2>3, RaceKnown DEF IsPut
        <4>2. tag[f.child][f.slot] = f.addr
          BY <1>10, <4>1 DEF ChildOK
        <4>3. Home(f.child, f.slot) # Mem
          BY <1>10, <4>1, TreeAssumption
        <4>4. PICK u \in Slots(k) : tag[k][u] = tag[f.child][f.slot]
          BY <1>10, <4>1, <4>3 DEF Coherent, Lines, Included, InParent
        <4> QED
          BY <2>3, <4>2, <4>4 DEF Holding
      <3>7. Cardinality(dir[k][s].sharers) = dir[k][s].n
        <4>1. ~Busy(k, s)
          BY <1>7, FreeQuiet DEF Busy, Coherent
        <4> QED
          BY <4>1 DEF Coherent, Lines, Directory, EntryOK, CountOK
      <3> QED
        BY <2>0, <2>3, <3>1, <3>2, <3>3, <3>4, <3>5, <3>6, <3>7 DEF Check
    <2> QED
      BY <1>8, <2>1, <2>2, <2>3
  <1>12. /\ h \in FrameSet /\ h.kind = "access" /\ SameCall(h, f) /\ h.cache = k /\ h.addr = f.addr
         /\ h.type = TypeAfterRace(f) /\ h.child = f.child /\ h.slot = f.slot
    BY <1>5, <1>7, <1>11 DEF Passed, SameCall
  <1>13. FrameFact(h, TRUE)' /\ KeepOK(h, FALSE)'
    <2>1. f.addr \in Addr
      BY <1>9 DEF FrameFact
    <2>2. k \notin L1 => ChildOK(h)'
      <3> SUFFICES ASSUME k \notin L1 PROVE ChildOK(h)'
        OBVIOUS
      <3>1. PICK cs : cs = st[f.child][f.slot]
        OBVIOUS
      <3>2. tag'[h.child][h.slot] = h.addr /\ st'[h.child][h.slot] = cs
        BY <1>5, <1>7, <1>10, <1>12, <3>1 DEF ChildOK
      <3>3. CASE h.at = "end"
        <4>1. IsPut(h.type) /\ cs = "I"
          BY <1>7, <1>9, <1>11, <1>12, <3>1, <3>3, RaceKnown DEF SkipAccess
        <4> QED
          BY <3>2, <3>3, <4>1 DEF ChildOK
      <3>4. CASE h.at # "end"
        <4>1. \/ h.type = "GETS" /\ cs = "I"
              \/ h.type = "GETX" /\ cs \in {"I", "S"}
              \/ h.type = "PUTS" /\ cs \in {"S", "E"}
              \/ h.type = "PUTX" /\ cs = "M"
          BY <1>5, <1>7, <1>9, <1>11, <1>12, <3>1, <3>4, RaceKnown
        <4>2. IsPut(h.type) => h.at = "access"
          BY <1>7, <1>9, <1>11, <1>12, <3>4, RaceKnown
        <4> QED
          BY <1>11, <3>2, <3>4, <4>1, <4>2 DEF ChildOK, IsPut
      <3> QED
        BY <3>3, <3>4
    <2>3. LineOK(h, TRUE)'
      <3>1. h.at = "evict" => \A s \in Slots(k) : tag[k][s] # f.addr
        BY <1>11 DEF Holding
      <3>2. h.at = "end" => k \notin L1
        BY <1>5, <1>11
      <3> QED
        BY <1>7, <1>11, <1>12, <3>1, <3>2 DEF LineOK
    <2>4. WorkOK(h, TRUE)'
      <3>1. h.at = "evict" => h.todo = dir'[k][h.line].sharers
        BY <1>7, <1>11
      <3>2. h.at = "evict" => InvType(h) = "INV"
        BY DEF InvType
      <3> QED
        BY <1>11, <1>12, <3>1, <3>2 DEF WorkOK, InvType
    <2> QED
      BY <1>12, <2>1, <2>2, <2>3, <2>4 DEF FrameFact, KeepOK
  <1>14. h.type = f.type \/ (IsPut(h.type) /\ IsPut(f.type))
    BY <1>12 DEF TypeAfterRace, IsPut
  <1>15. stack' = [stack EXCEPT ![c] = <<h>> \o Tail(q)]
    BY <1>1, <1>11 DEF Goto
  <1>16. ASSUME Inner' PROVE Coherent'
    <2>1. q[1].kind = "access" /\ q[1].at \notin {"evict", "grant"} /\ q[1].at # "down"
      BY <1>4, <1>7
    <2>2. /\ h \in FrameSet /\ SameCall(h, q[1])
          /\ h.type = q[1].type \/ (IsPut(h.type) /\ IsPut(q[1].type))
      BY <1>4, <1>12, <1>14
    <2>3. /\ h.at # "lockTcc" /\ (q[1].at = "lockTcc" => tcc'[q[1].cache] = c)
          /\ \A j \in Cache : HoldsTop(q, j) => tcc'[j] = tcc[j]
          /\ \A j \in Cache : tcc'[j] = tcc[j] \/ tcc[j] \in {c, Free}
      BY <1>4, <1>7, <1>11
    <2>4. /\ h.at \notin {"lockBcc", "fill"} => bcc'[q[1].cache] = c
          /\ \A j \in Cache : bcc'[j] = bcc[j] \/ bcc[j] \in {c, Free}
      <3>1. bcc \in [Cache -> Core \union {Free}]
        BY DEF Inner, Locks
      <3> QED
        BY <1>4, <1>5, <1>7, <3>1
    <2>5. FALSE \in BOOLEAN /\ ~failed'
      BY <1>11
    <2> QED
      BY <1>1, <1>2, <1>7, <1>13, <1>15, <1>16, <2>1, <2>2, <2>3, <2>4, <2>5, QuietGoto, ZenonT(90)
  <1> QED
    BY <1>11, <1>16
=============================================================================
