--------------------------- MODULE MESICoherence ---------------------------
(***************************************************************************)
(* Coherence of the cache hierarchy, for every tree of banked caches,      *)
(* every number of cores, banks, lines and addresses: no assert of the     *)
(* coherence code ever fires, the directories are exact, writers are       *)
(* alone, caches are inclusive, and dirty data is never lost.              *)
(*                                                                         *)
(* The inductive invariant is Coherent, with MESIProofs's Inner.  It says  *)
(* what holds between any two lock operations of any core: what is in      *)
(* flight (a child that is losing its line is no longer listed but still   *)
(* has it, an upgrade has left the list and still has its copy), which     *)
(* entries are being worked on and by whom, and what every call on every   *)
(* stack may rely on when it goes on.  That the other cores respect the    *)
(* latter is the locks' doing (Apart, Footprint): it takes two of three    *)
(* holds on a line (an access of its cache, the cache's bottom lock, that  *)
(* of the bank above the line's address, Home) to change its state.  Two   *)
(* banks may be at work on a child at once, but on different lines of it:  *)
(* a bank only has addresses that all its children send to it (Routes).    *)
(***************************************************************************)
EXTENDS MESIProofs

-----------------------------------------------------------------------------
(* A directory entry loses sharers that are on their way out. *)
LEMMA LinesShrink ==
    ASSUME Inner, Lines, NEW c \in Core, NEW q, q = stack[c], NEW r,
           stack' = [stack EXCEPT ![c] = r], KeepsWork(q, r), tag' = tag, st' = st,
           NEW k \in Cache, NEW l \in Slots(k),
           \A x \in Cache : \A s \in Slots(x) : x # k \/ s # l => dir'[x][s] = dir[x][s],
           dir'[k][l].sharers \subseteq dir[k][l].sharers,
           dir'[k][l].n \in 0..Cardinality(Children(k)),
           \A ch \in dir[k][l].sharers : ch \in dir'[k][l].sharers \/ Going(r, k, ch, l),
           Working(r, k, l)
    PROVE  Lines'
  <1>0. stack'[c] = r
    BY DEF Inner
  <1>1. UniqueTags' /\ NamedLines' /\ Routes' /\ Siblings'
    BY DEF Lines, UniqueTags, NamedLines, Routes, Siblings, Home, HaveExclusive
  <1>2. \A x \in Cache : \A s \in Slots(x) : dir'[x][s].sharers \subseteq dir[x][s].sharers
    OBVIOUS
  <1>3. Listed'
    BY <1>2 DEF Lines, Listed, HasLine
  <1>4. Included'
    <2> SUFFICES ASSUME NEW ch \in Cache, NEW t \in Slots(ch), Home(ch, t) # Mem, st[ch][t] # "I"
                 PROVE  \E s \in Slots(Home(ch, t)) : InParent(ch, t, s)'
      BY DEF Included, Home
    <2>0. PICK p \in Cache : p = Home(ch, t)
      BY HomeFacts
    <2>1. PICK s \in Slots(p) : InParent(ch, t, s)
      BY <2>0 DEF Lines, Included
    <2>2. InFlight(p, ch, s) => InFlight(p, ch, s)'
      BY InFlightStays DEF KeepsWork
    <2>3. Going(r, p, ch, s) => InFlight(p, ch, s)'
      BY <1>0 DEF InFlight, Going, Leaving, Upgrading
    <2>4. Home(ch, t)' = p
      BY <2>0 DEF Home
    <2>5. ch \in dir[p][s].sharers => ch \in dir'[p][s].sharers \/ Going(r, p, ch, s)
      <3>1. CASE p = k /\ s = l
        BY <3>1
      <3>2. CASE ~(p = k /\ s = l)
        BY <3>2
      <3> QED
        BY <3>1, <3>2
    <2> QED
      BY <2>0, <2>1, <2>2, <2>3, <2>4, <2>5 DEF InParent, HaveExclusive
  <1>5. Directory'
    <2> SUFFICES ASSUME NEW x \in Cache, NEW s \in Slots(x)
                 PROVE  (/\ dir[x][s].n \in 0..Cardinality(Children(x))
                         /\ EntryOK(x, s) \/ Busy(x, s))'
      BY DEF Directory
    <2>1. dir[x][s].n \in 0..Cardinality(Children(x)) /\ (EntryOK(x, s) \/ Busy(x, s))
      BY DEF Lines, Directory
    <2>2. Busy(x, s) => Busy(x, s)'
      BY BusyStays DEF KeepsWork
    <2>3. CASE x = k /\ s = l
      <3>1. Busy(k, l)'
        BY <1>0 DEF Busy, Working
      <3> QED
        BY <2>3, <3>1
    <2>4. CASE ~(x = k /\ s = l)
      <3>1. dir'[x][s] = dir[x][s]
        BY <2>4
      <3>2. EntryOK(x, s) => EntryOK(x, s)'
        BY <3>1 DEF EntryOK, CountOK, IsExclusive, Writable, CanWrite, HaveExclusive
      <3> QED
        BY <2>1, <2>2, <3>1, <3>2
    <2> QED
      BY <2>3, <2>4
  <1> QED
    BY <1>1, <1>3, <1>4, <1>5 DEF Lines

(* sendInvalidates clears the bit of one child. *)
LEMMA DropSharer ==
    ASSUME Inner, NEW k \in Cache, NEW l \in Slots(k), NEW ch,
           dir' = [dir EXCEPT ![k][l].sharers = @ \ {ch}]
    PROVE  /\ dir'[k][l].sharers = dir[k][l].sharers \ {ch}
           /\ dir'[k][l].n = dir[k][l].n /\ dir'[k][l].excl = dir[k][l].excl
           /\ \A x \in Cache : \A s \in Slots(x) : x # k \/ s # l => dir'[x][s] = dir[x][s]
  BY EntryFacts DEF DirOK, IsArray, Entries

(* The line of a child of which an invalidation is due. *)
LEMMA ToInvalidate ==
    ASSUME Inner, Lines, NEW f, FrameOK(f), FrameFact(f, TRUE), f.at \in {"evict", "grant", "down"},
           NEW ch \in f.todo
    PROVE  /\ ch \in Cache /\ ch \in Children(f.cache)
           /\ f.cache \in Cache /\ f.line \in Slots(f.cache) /\ ch # f.cache
           /\ InvAddr(f) = tag[f.cache][f.line] /\ InvAddr(f) \in Addr
           /\ ch \in dir[f.cache][f.line].sharers
           /\ \E s \in Slots(ch) : /\ Holding(ch, InvAddr(f)) = {s} /\ st[ch][s] # "I"
                                   /\ InvType(f) = "INVX" => HaveExclusive(ch, s)
  <1>1. /\ ch \in Cache /\ ch \in Children(f.cache)
        /\ f.cache \in Cache /\ f.line \in Slots(f.cache)
    BY FrameFacts DEF FrameOK, Children
  <1>2. ch # f.cache
    BY <1>1, Heights
  <1>3. InvAddr(f) = tag[f.cache][f.line]
    <2>1. f.kind \in {"access", "inv"} /\ (f.at = "down" => f.kind = "inv")
          /\ (f.kind = "inv" => f.at = "down")
      BY FrameFacts
    <2> QED
      BY <2>1 DEF FrameFact, LineOK, InvOK, InvAddr
  <1>4. ch \in dir[f.cache][f.line].sharers /\ (InvType(f) = "INVX" => CanWrite(ch, InvAddr(f)))
    BY <1>3 DEF FrameFact, WorkOK
  <1>5. PICK s \in Slots(ch) : tag[ch][s] = InvAddr(f) /\ st[ch][s] # "I"
    BY <1>1, <1>3, <1>4 DEF Lines, Listed, HasLine
  <1>6. InvAddr(f) # None /\ InvAddr(f) \in Addr
    BY <1>1, <1>5, EntryFacts DEF Lines, NamedLines
  <1>7. \A t \in Slots(ch) : tag[ch][t] = InvAddr(f) => t = s
    BY <1>1, <1>5, <1>6 DEF Lines, UniqueTags
  <1>8. Holding(ch, InvAddr(f)) = {s}
    BY <1>5, <1>7 DEF Holding
  <1>9. InvType(f) = "INVX" => HaveExclusive(ch, s)
    BY <1>4, <1>7 DEF CanWrite
  <1> QED
    BY <1>1, <1>2, <1>3, <1>4, <1>5, <1>6, <1>8, <1>9

(* A free directory entry: the sharers have the line, an exclusive one may *)
(* write it.                                                               *)
FreeEntryFact(k, s) ==
    /\ EntryOK(k, s)
    /\ IsExclusive(dir[k][s]) =>
          \E x \in Children(k) : dir[k][s].sharers = {x} /\ CanWrite(x, tag[k][s])
    /\ \A ch \in Children(k) :
          /\ HasLine(ch, tag[k][s]) <=> ch \in dir[k][s].sharers
          /\ HasLine(ch, tag[k][s]) => st[k][s] # "I"
          /\ CanWrite(ch, tag[k][s]) => HaveExclusive(k, s)

(* An entry nobody works on says what the children have. *)
LEMMA FreeEntry ==
    ASSUME Inner, Lines, NEW k \in Cache, NEW s \in Slots(k), ~Busy(k, s),
           \A ch : ~InFlight(k, ch, s)
    PROVE  FreeEntryFact(k, s)
  <1>1. EntryOK(k, s)
    BY DEF Lines, Directory
  <1>2. ASSUME NEW ch \in Children(k)
        PROVE  /\ HasLine(ch, tag[k][s]) <=> ch \in dir[k][s].sharers
               /\ HasLine(ch, tag[k][s]) => st[k][s] # "I"
               /\ CanWrite(ch, tag[k][s]) => HaveExclusive(k, s)
    BY <1>2, SharersExact
  <1>3. ASSUME IsExclusive(dir[k][s])
        PROVE  \E x \in Children(k) : dir[k][s].sharers = {x} /\ CanWrite(x, tag[k][s])
    <2>1. PICK x \in Children(k) : CanWrite(x, tag[k][s])
      BY <1>1, <1>3 DEF EntryOK, Writable
    <2>2. x \in dir[k][s].sharers
      BY <1>2, <2>1 DEF CanWrite, HasLine, HaveExclusive, Children
    <2>3. Cardinality(dir[k][s].sharers) = 1
      BY <1>1, <1>3 DEF EntryOK, CountOK, IsExclusive
    <2>4. IsFiniteSet(dir[k][s].sharers)
      <3>1. dir[k][s].sharers \subseteq Cache
        BY EntryFacts DEF Children
      <3> QED
        BY <3>1, NoLoops, FS_Subset
    <2>5. PICK y : dir[k][s].sharers = {y}
      BY <2>3, <2>4, FS_Singleton
    <2> QED
      BY <2>1, <2>2, <2>5
  <1> QED
    BY <1>1, <1>2, <1>3 DEF FreeEntryFact

(* sendInvalidates finds the line in every child it calls. *)
LEMMA SendInvalidateCoherent ==
    ASSUME Inner, Coherent, NEW c \in Core, SendInvalidate(c)
    PROVE  ~failed' /\ (Inner' => Coherent')
  <1>1. PICK q : q = stack[c]
    OBVIOUS
  <1>2. q # << >>
    BY <1>1 DEF SendInvalidate
  <1>3. PICK v : v = wb[c]
    OBVIOUS
  <1>4. /\ Top(c) = q[1] /\ FrameOK(q[1]) /\ FrameFact(q[1], TRUE) /\ q[1].cache \in Cache
        /\ q \in Seq(FrameSet) /\ Sane(c, q) /\ 1 \in 1..Len(q) /\ Calls(q, v) /\ KeepOK(q[1], v)
        /\ 2 \in 1..Len(q) => Called(q[2], q[1]) /\ CallOK(q[2], q[1])
    BY <1>1, <1>2, <1>3, TopSays
  <1>5. PICK f : f = q[1]
    OBVIOUS
  <1>6. PICK k \in Cache : k = f.cache
    BY <1>4, <1>5
  <1>7. PICK ch : ch = NextChild(f)
    OBVIOUS
  <1>8. PICK a : a = InvAddr(f)
    OBVIOUS
  <1>9. PICK s : s = CHOOSE i \in Holding(ch, a) : TRUE
    OBVIOUS
  <1>10. PICK type : type = InvType(f)
    OBVIOUS
  <1>11. PICK d : d = IF type = "INVX" /\ ~IsExclusive(dir[ch][s]) THEN {} ELSE dir[ch][s].sharers
    OBVIOUS
  <1>12. PICK g : g = Invalidate(ch, type, a, s, d)
    OBVIOUS
  <1>13. PICK e : e = [f EXCEPT !.todo = @ \ {ch}]
    OBVIOUS
  <1>14. /\ f.at \in {"evict", "grant", "down"} /\ f.todo # {} /\ bcc[ch] = Free
         /\ bcc' = [bcc EXCEPT ![ch] = c]
         /\ Check(Holding(ch, a) # {})
         /\ Holding(ch, a) # {} => CallFrom(c, e, g)
         /\ dir' = IF type = "INV" THEN [dir EXCEPT ![k][f.line].sharers = @ \ {ch}] ELSE dir
         /\ tag' = tag /\ st' = st /\ tcc' = tcc /\ wb' = wb
    BY <1>4, <1>5, <1>6, <1>7, <1>8, <1>9, <1>10, <1>11, <1>12, <1>13 DEF SendInvalidate
  <1>15. ch \in f.todo
    BY <1>7, <1>14 DEF NextChild
  <1>16. /\ FrameOK(f) /\ FrameFact(f, TRUE) /\ KeepOK(f, v) /\ Lines /\ Routes
         /\ ~failed /\ LocksHeld
    BY <1>4, <1>5 DEF Coherent, Lines
  <1>17. /\ ch \in Cache /\ ch \in Children(k) /\ f.line \in Slots(k) /\ ch # k
         /\ a = tag[k][f.line] /\ a \in Addr /\ ch \in dir[k][f.line].sharers
         /\ s \in Slots(ch) /\ Holding(ch, a) = {s} /\ st[ch][s] # "I" /\ tag[ch][s] = a
         /\ type = "INVX" => HaveExclusive(ch, s)
    <2>1. /\ ch \in Cache /\ ch \in Children(k) /\ f.line \in Slots(k) /\ ch # k
          /\ a = tag[k][f.line] /\ a \in Addr /\ ch \in dir[k][f.line].sharers
          /\ \E t \in Slots(ch) : /\ Holding(ch, a) = {t} /\ st[ch][t] # "I"
                                  /\ type = "INVX" => HaveExclusive(ch, t)
      BY <1>6, <1>8, <1>10, <1>14, <1>15, <1>16, ToInvalidate
    <2>2. PICK t \in Slots(ch) : /\ Holding(ch, a) = {t} /\ st[ch][t] # "I"
                                 /\ type = "INVX" => HaveExclusive(ch, t)
      BY <2>1
    <2>3. s = t
      BY <1>9, <2>2
    <2>4. tag[ch][t] = a
      BY <2>2 DEF Holding
    <2> QED
      BY <2>1, <2>2, <2>3, <2>4
  <1>18. ~failed' /\ CallFrom(c, e, g)
    BY <1>14, <1>16, <1>17 DEF Check
  <1>19. /\ e \in FrameSet /\ SameCall(e, f) /\ e.at = f.at /\ e.kind = f.kind /\ e.cache = k
         /\ e.type = f.type /\ e.addr = f.addr /\ e.line = f.line /\ e.todo = f.todo \ {ch}
    <2>1. f \in FrameSet
      BY <1>16, FrameFacts
    <2>2. f.todo \ {ch} \in SUBSET Cache
      BY <1>16 DEF FrameOK, Children
    <2>3. e = [f EXCEPT !.todo = f.todo \ {ch}]
      BY <1>13
    <2>4. PICK D : D = f.todo \ {ch}
      OBVIOUS
    <2>5. e = [f EXCEPT !.todo = D] /\ D \in SUBSET Cache
      BY <2>2, <2>3, <2>4
    <2>6. /\ e \in FrameSet /\ SameCall(e, f) /\ e.at = f.at /\ e.kind = f.kind
          /\ e.cache = f.cache /\ e.type = f.type /\ e.addr = f.addr /\ e.line = f.line
          /\ e.todo = D
      BY <2>1, <2>5, MoveSent
    <2> QED
      BY <1>6, <2>4, <2>6
  <1>20. /\ g \in FrameSet /\ g.kind = "inv" /\ g.at = "down" /\ g.cache = ch /\ g.type = type
         /\ g.addr = a /\ g.line = s /\ g.todo = d /\ FrameOK(g)
    <2>1. type \in {"INV", "INVX"}
      BY <1>10, <1>14, <1>16, FrameFacts DEF InvType, InvFrame
    <2>2. d \in SUBSET Children(ch)
      BY <1>11, <1>17, EntryFacts
    <2>3. FrameOK(g) /\ g \in FrameSet
      <3>1. a \in Addr \union {None}
        BY <1>17
      <3> QED
        BY <1>12, <1>17, <2>1, <2>2, <3>1, InvCall
    <2> QED
      BY <1>12, <2>3 DEF Invalidate
  <1>21. PICK r : r = <<g, e>> \o Tail(q)
    OBVIOUS
  <1>22. stack' = [stack EXCEPT ![c] = r]
    BY <1>1, <1>18, <1>21 DEF CallFrom
  <1>23. /\ dir'[k][f.line].sharers = IF type = "INV" THEN dir[k][f.line].sharers \ {ch}
                                                      ELSE dir[k][f.line].sharers
         /\ dir'[k][f.line].n = dir[k][f.line].n /\ dir'[k][f.line].excl = dir[k][f.line].excl
         /\ \A x \in Cache : \A u \in Slots(x) : x # k \/ u # f.line => dir'[x][u] = dir[x][u]
         /\ type # "INV" => dir' = dir
    <2>1. CASE type = "INV"
      <3>1. dir' = [dir EXCEPT ![k][f.line].sharers = @ \ {ch}]
        BY <1>14, <2>1
      <3>2. PICK l \in Slots(k) : l = f.line
        BY <1>17
      <3>3. dir' = [dir EXCEPT ![k][l].sharers = @ \ {ch}]
        BY <3>1, <3>2
      <3>4. /\ dir'[k][l].sharers = dir[k][l].sharers \ {ch}
            /\ dir'[k][l].n = dir[k][l].n /\ dir'[k][l].excl = dir[k][l].excl
            /\ \A x \in Cache : \A u \in Slots(x) : x # k \/ u # l => dir'[x][u] = dir[x][u]
        BY <3>3, DropSharer
      <3> QED
        BY <2>1, <3>2, <3>4
    <2>2. CASE type # "INV"
      BY <1>14, <2>2
    <2> QED
      BY <2>1, <2>2
  <1>24. wb' = [wb EXCEPT ![c] = v] /\ v \in BOOLEAN
    BY <1>3, <1>14, SameWb
  <1>25. \A x, u : HaveExclusive(x, u)' <=> HaveExclusive(x, u)
    BY <1>14 DEF HaveExclusive
  (* What the new call knows. *)
  <1>26. FrameFact(g, TRUE)' /\ KeepOK(g, v)' /\ CallOK(e, g)'
    <2>1. FreeEntryFact(ch, s)
      <3>1. ~Busy(ch, s) /\ \A x : ~InFlight(ch, x, s)
        BY <1>14, <1>16, <1>17, FreeQuiet DEF Busy
      <3> QED
        BY <1>16, <1>17, <3>1, FreeEntry
    <2>2. dir'[ch][s] = dir[ch][s] /\ tag'[ch][s] = a /\ st'[ch][s] = st[ch][s]
      BY <1>14, <1>17, <1>23
    <2>3. WorkOK(g, TRUE)'
      <3>1. InvType(g) = type
        BY <1>20 DEF InvType
      <3>2. CASE type = "INV"
        <4>1. dir'[ch][s].sharers = d
          BY <1>11, <2>2, <3>2
        <4> QED
          BY <1>20, <3>1, <3>2, <4>1 DEF WorkOK
      <3>3. CASE type # "INV"
        <4>1. \A x : CanWrite(x, a)' <=> CanWrite(x, a)
          BY <1>14, <1>25 DEF CanWrite
        <4>2. Writable(ch, a)' <=> Writable(ch, a)
          BY <4>1 DEF Writable
        <4>3. type = "INVX"
          BY <1>20, <3>3 DEF FrameSet, AccessFrame, InvFrame
        <4>4. CASE IsExclusive(dir[ch][s])
          <5>1. PICK x \in Children(ch) : dir[ch][s].sharers = {x} /\ CanWrite(x, a)
            BY <1>17, <2>1, <4>4 DEF FreeEntryFact
          <5>2. d = {x} /\ CountOK(dir[ch][s])
            BY <1>11, <2>1, <4>4, <5>1 DEF FreeEntryFact, EntryOK
          <5>3. CountOK(dir[ch][s])' /\ d \subseteq dir'[ch][s].sharers /\ d # {}
                /\ \A y \in d : CanWrite(y, a)'
            BY <2>2, <4>1, <5>1, <5>2 DEF CountOK
          <5> QED
            BY <1>20, <2>2, <3>1, <3>3, <5>3 DEF WorkOK
        <4>5. CASE ~IsExclusive(dir[ch][s])
          <5>1. d = {} /\ CountOK(dir[ch][s]) /\ ~Writable(ch, a)
            BY <1>11, <1>17, <2>1, <4>3, <4>5 DEF FreeEntryFact, EntryOK
          <5>2. CountOK(dir[ch][s])' /\ ~Writable(ch, a)'
            BY <2>2, <4>2, <5>1 DEF CountOK
          <5> QED
            BY <1>20, <2>2, <3>1, <3>3, <5>1, <5>2 DEF WorkOK
        <4> QED
          BY <4>4, <4>5
      <3> QED
        BY <3>2, <3>3
    <2>4. InvOK(g)'
      BY <1>14, <1>17, <1>20, <1>25 DEF InvOK
    <2>5. KeepOK(g, v)'
      BY <1>20 DEF KeepOK
    <2>6. CallOK(e, g)'
      <3>1. InvType(e) = InvType(f)
        BY <1>19 DEF InvType
      <3> QED
        BY <1>10, <1>14, <1>17, <1>19, <1>20, <3>1 DEF CallOK
    <2> QED
      BY <1>17, <1>20, <2>3, <2>4, <2>5, <2>6 DEF FrameFact
  (* ... and the one that made it. *)
  <1>27. FrameFact(e, FALSE)' /\ KeepOK(e, v)'
    <2>1. e.kind = "access" /\ e.cache \notin L1 => ChildOK(e)'
      <3> SUFFICES ASSUME e.kind = "access", e.cache \notin L1 PROVE ChildOK(e)'
        OBVIOUS
      <3>1. ChildOK(f) /\ e.child = f.child /\ e.slot = f.slot
        BY <1>6, <1>16, <1>19 DEF FrameFact, SameCall
      <3> QED
        BY <1>14, <1>19, <3>1 DEF ChildOK
    <2>2. e.kind = "access" => LineOK(e, FALSE)'
      <3> SUFFICES ASSUME e.kind = "access" PROVE LineOK(e, FALSE)'
        OBVIOUS
      <3>1. LineOK(f, TRUE)
        BY <1>16, <1>19 DEF FrameFact
      <3> QED
        BY <1>6, <1>14, <1>19, <3>1 DEF LineOK
    <2>3. WorkOK(e, FALSE)'
      <3>1. InvType(e) = type
        BY <1>10, <1>19 DEF InvType
      <3>2. CASE type = "INV"
        <4>1. dir[k][f.line].sharers = f.todo
          BY <1>6, <1>10, <1>14, <1>16, <3>2 DEF FrameFact, WorkOK
        <4> QED
          BY <1>19, <1>23, <3>1, <3>2, <4>1 DEF WorkOK
      <3>3. CASE type # "INV"
        <4>1. /\ CountOK(dir[k][f.line]) /\ f.todo \subseteq dir[k][f.line].sharers
              /\ \A x \in f.todo : CanWrite(x, tag[k][f.line])
          BY <1>6, <1>10, <1>14, <1>16, <3>3 DEF FrameFact, WorkOK
        <4>2. \A x, b : CanWrite(x, b)' <=> CanWrite(x, b)
          BY <1>14, <1>25 DEF CanWrite
        <4>3. dir' = dir
          BY <1>23, <3>3
        <4> QED
          BY <1>14, <1>19, <3>1, <3>3, <4>1, <4>2, <4>3 DEF WorkOK, CountOK
      <3> QED
        BY <3>2, <3>3
    <2>4. e.kind = "inv" => InvOK(e)'
      BY <1>6, <1>14, <1>16, <1>19, <1>25 DEF FrameFact, InvOK
    <2>5. KeepOK(e, v)'
      BY <1>6, <1>16, <1>19, <1>25 DEF KeepOK
    <2>6. e.addr \in Addr
      BY <1>16, <1>19 DEF FrameFact
    <2> QED
      BY <2>1, <2>2, <2>3, <2>4, <2>5, <2>6 DEF FrameFact
  <1>28. \A x \in Cache : \A u \in Slots(x) : OwnPrint(q, x, u) /\ Footprint(q, x, u)
    <2> SUFFICES ASSUME NEW x \in Cache, NEW u \in Slots(x)
                 PROVE  OwnPrint(q, x, u) /\ Footprint(q, x, u)
      OBVIOUS
    <2>1. tag'[x][u] = tag[x][u] /\ st'[x][u] = st[x][u] /\ (HaveExclusive(x, u)' <=> HaveExclusive(x, u))
      BY <1>14, <1>25
    <2>2. dir'[x][u] = dir[x][u] \/ (x = k /\ dir'[x][u].sharers \subseteq dir[x][u].sharers)
      BY <1>23
    <2>3. HoldsBottom(q, k)
      BY <1>4, <1>5, <1>6, <1>14, Rights
    <2>4. OwnPrint(q, x, u)
      BY <1>5, <1>6, <2>1, <2>2 DEF OwnPrint
    <2>5. Footprint(q, x, u)
      BY <2>1, <2>2, <2>3 DEF Footprint
    <2> QED
      BY <2>4, <2>5
  <1>29. Above(f, g) /\ \A j \in 2..Len(q) : q[j - 1].kind = "inv" => Above(q[j], f) /\ Above(q[j], g)
    <2>1. Above(f, g)
      <3>1. Home(ch, s) = k
        BY <1>16, <1>17, ChildHome, TreeAssumption
      <3>2. InParent(ch, s, f.line)
        BY <1>16, <1>17, <3>1, PlaceInParent
      <3> QED
        BY <1>6, <1>17, <1>20, <3>1, <3>2 DEF Above, InParent
    <2>2. ASSUME NEW j \in 2..Len(q), q[j - 1].kind = "inv" PROVE Above(q[j], f)
      <3>1. j \in 1..Len(q) /\ 1 < j
        OBVIOUS
      <3> QED
        BY <1>4, <1>5, <2>2, <3>1 DEF Calls, Chain
    <2>3. \A x : Above(x, f) => Above(x, g)
      BY <2>1 DEF Above
    <2> QED
      BY <2>1, <2>2, <2>3
  <1>30. Calls(r, v)'
    <2>1. \A i \in 2..Len(q) : KeepOK(q[i], v)'
      <3>1. ASSUME NEW i \in 2..Len(q) PROVE KeepOK(q[i], v)'
        <4>1. KeepOK(q[i], v)
          BY <1>4 DEF Calls
        <4> QED
          BY <1>25, <4>1 DEF KeepOK
      <3> QED
        BY <3>1
    <2>2. RestOK(q, v)'
      BY <1>2, <1>4, <1>16, <1>28, <2>1, RestStays
    <2>3. 2 \in 1..Len(q) => CallOK(q[2], e)'
      <3>1. \A h : CallOK(h, f) => CallOK(h, e)'
        BY <1>6, <1>14, <1>19 DEF CallOK
      <3> QED
        BY <1>4, <1>5, <3>1
    <2>4. \A x, y : Above(x, y) => Above(x, y)'
      BY <1>14, <1>25 DEF Above
    <2>5. \A x : Above(x, f)' => Above(x, e)'
      BY <1>6, <1>19 DEF Above
    <2>6. Above(e, g)'
      BY <1>6, <1>19, <1>29, <2>4 DEF Above
    <2>7. \A j \in 2..Len(q) : q[j - 1].kind = "inv" => (Above(q[j], g) /\ Above(q[j], e))'
      BY <1>29, <2>4, <2>5
    <2>8. SameCall(e, q[1])
      BY <1>5, <1>19
    <2>9. Calls(<<g, e>> \o Tail(q), v)'
      BY <1>2, <1>4, <1>19, <1>20, <1>26, <1>27, <2>2, <2>3, <2>6, <2>7, <2>8, CallsCall
    <2> QED
      BY <1>21, <2>9
  <1>31. LocksHeld'
    <2>1. \A j \in Cache : HoldsTop(r, j) => tcc'[j] = c
      <3> SUFFICES ASSUME NEW j \in Cache, HoldsTop(r, j) PROVE tcc'[j] = c
        OBVIOUS
      <3>1. HoldsTop(q, j)
        BY <1>2, <1>4, <1>5, <1>14, <1>19, <1>20, <1>21, TopOfCall
      <3> QED
        BY <1>1, <1>14, <1>16, <3>1 DEF LocksHeld
    <2>2. \A j \in Cache : HoldsBottom(r, j) => bcc'[j] = c
      <3> SUFFICES ASSUME NEW j \in Cache, HoldsBottom(r, j) PROVE bcc'[j] = c
        OBVIOUS
      <3>1. HoldsBottom(q, j) \/ j = ch
        <4>1. e.at = q[1].at /\ e.at \in {"evict", "grant", "down"} /\ SameCall(e, q[1])
          BY <1>5, <1>14, <1>19
        <4> QED
          BY <1>2, <1>4, <1>19, <1>20, <1>21, <4>1, BottomOfCallDown
      <3>2. HoldsBottom(q, j) => bcc[j] = c
        BY <1>1, <1>16 DEF LocksHeld
      <3>3. bcc \in [Cache -> Core \union {Free}]
        BY DEF Inner, Locks
      <3> QED
        BY <1>14, <3>1, <3>2, <3>3
    <2>3. \A j \in Cache : tcc'[j] = tcc[j] /\ (bcc'[j] = bcc[j] \/ bcc[j] \in {c, Free})
      BY <1>14 DEF Inner, Locks
    <2> QED
      BY <1>16, <1>22, <2>1, <2>2, <2>3, LocksHeldStep
  <1>32. Lines'
    <2>1. Len(r) = Len(q) + 1 /\ r[1] = g /\ r[2] = e
      BY <1>2, <1>4, <1>19, <1>20, <1>21, CallSeq
    <2>2. 2 \in 2..Len(r) /\ 2 \in 1..Len(r) /\ 2 - 1 = 1
      BY <1>4, <2>1
    <2>3. KeepsWork(q, r)
      <3>1. /\ SameCall(e, q[1]) /\ e.at = q[1].at /\ e.line = q[1].line /\ e.type = q[1].type
            /\ q[1].at = "grant" => q[1].kind = "access"
        BY <1>4, <1>5, <1>19, FrameFacts DEF FrameOK, InvFrame, AccessFrame
      <3> QED
        BY <1>2, <1>4, <1>19, <1>20, <1>21, <3>1, WorkCall
    <2>4. Working(r, k, f.line)
      BY <1>14, <1>19, <2>1, <2>2 DEF Working
    <2>5. \A x \in dir[k][f.line].sharers : x \in dir'[k][f.line].sharers \/ Going(r, k, x, f.line)
      <3>1. type = "INV" => Leaving(r, k, ch, f.line)
        BY <1>19, <1>20, <2>1, <2>2 DEF Leaving
      <3> QED
        BY <1>23, <3>1 DEF Going
    <2>6. dir'[k][f.line].n \in 0..Cardinality(Children(k))
      BY <1>16, <1>17, <1>23 DEF Lines, Directory
    <2>7. dir'[k][f.line].sharers \subseteq dir[k][f.line].sharers
      BY <1>23
    <2>8. PICK l \in Slots(k) : l = f.line
      BY <1>17
    <2> QED
      BY <1>1, <1>14, <1>16, <1>22, <1>23, <2>3, <2>4, <2>5, <2>6, <2>7, <2>8, LinesShrink
  <1>33. Coherent'
    BY <1>1, <1>18, <1>22, <1>24, <1>28, <1>30, <1>31, <1>32, CoherentStep
  <1> QED
    BY <1>18, <1>33

-----------------------------------------------------------------------------
(* What an invalidation finds when its children are done. *)
LEMMA BottomOfReturn ==
    ASSUME NEW c, NEW q, Sane(c, q), q # << >>, q[1].kind = "inv", NEW k, HoldsBottom(Tail(q), k)
    PROVE  HoldsBottom(q, k) /\ k # q[1].cache
  <1> DEFINE r == Tail(q)
  <1>1. /\ Len(r) = Len(q) - 1 /\ Len(q) \in Nat \ {0}
        /\ \A i \in 1..(Len(q) - 1) : r[i] = q[i + 1]
    BY ReturnSeq DEF Sane, FrameSet
  <1> HIDE DEF r
  <1>2. PICK i \in 1..Len(r) : r[i].cache = k /\ HasBottom(r, i)
    BY DEF HoldsBottom, r
  <1>3. i + 1 \in 1..Len(q) /\ r[i] = q[i + 1] /\ 1 \in 1..Len(q) /\ i + 1 # 1 /\ (i + 1) - 1 = i
    BY <1>1
  <1>4. HasBottom(q, i + 1)
    <2>1. CASE i = 1
      BY <1>2, <1>3, <2>1 DEF HasBottom
    <2>2. CASE i # 1
      <3>1. r[i - 1] = q[i]
        BY <1>1, <2>2
      <3> QED
        BY <1>2, <1>3, <2>2, <3>1 DEF HasBottom
    <2> QED
      BY <2>1, <2>2
  <1>5. HasBottom(q, 1)
    BY DEF HasBottom
  <1>6. q[i + 1].cache # q[1].cache
    BY <1>3, <1>4, <1>5, BottomOnce
  <1> QED
    BY <1>2, <1>3, <1>4, <1>6 DEF HoldsBottom

(* The work that ends with an invalidation. *)
EndsWork(q, r) ==
    /\ \A x, s : Working(q, x, s) => Working(r, x, s) \/ (x = q[1].cache /\ s = q[1].line)
    /\ \A x, ch, s : Going(q, x, ch, s) =>
          \/ Going(r, x, ch, s)
          \/ x = q[2].cache /\ ch = q[1].cache /\ s = q[2].line /\ q[1].type = "INV"

(* What is over when an invalidation returns: its own work, and the way    *)
(* out of its line.                                                        *)
LEMMA InvWorkEnds ==
    ASSUME NEW c, NEW q, Sane(c, q), q # << >>, q[1].kind = "inv", NEW r, r = Tail(q)
    PROVE  EndsWork(q, r)
  <1>1. /\ Len(r) = Len(q) - 1 /\ Len(q) \in Nat \ {0}
        /\ \A i \in 1..(Len(q) - 1) : r[i] = q[i + 1]
    BY ReturnSeq DEF Sane, FrameSet
  <1>2. \A i \in 2..Len(q) : i - 1 \in 1..Len(r) /\ r[i - 1] = q[i]
    BY <1>1
  <1>3. q[1].at = "down"
    BY <1>1, FrameFacts DEF Sane
  <1>4. ASSUME NEW x, NEW s, Working(q, x, s)
        PROVE  Working(r, x, s) \/ (x = q[1].cache /\ s = q[1].line)
    <2>1. PICK i \in 1..Len(q) : q[i].at \in {"evict", "grant", "down"} /\ q[i].cache = x /\ q[i].line = s
      BY <1>4 DEF Working
    <2>2. CASE i = 1
      BY <2>1, <2>2
    <2>3. CASE i # 1
      <3>1. i \in 2..Len(q)
        BY <1>1, <2>3
      <3> QED
        BY <1>2, <2>1, <3>1 DEF Working
    <2> QED
      BY <2>2, <2>3
  <1>5. ASSUME NEW x, NEW ch, NEW s, Going(q, x, ch, s)
        PROVE  \/ Going(r, x, ch, s)
               \/ x = q[2].cache /\ ch = q[1].cache /\ s = q[2].line /\ q[1].type = "INV"
    <2>1. CASE Leaving(q, x, ch, s)
      <3>1. PICK i \in 2..Len(q) : /\ q[i - 1].kind = "inv" /\ q[i - 1].type = "INV"
                                   /\ q[i - 1].cache = ch /\ q[i].cache = x /\ q[i].line = s
        BY <2>1 DEF Leaving
      <3>2. CASE i = 2
        BY <3>1, <3>2
      <3>3. CASE i # 2
        <4>1. /\ i - 1 \in 2..Len(r) /\ r[i - 1] = q[i] /\ r[(i - 1) - 1] = q[i - 1]
          <5>1. i - 1 \in 2..Len(q) /\ i \in 2..Len(q)
            BY <1>1, <3>3
          <5> QED
            BY <1>1, <1>2, <5>1
        <4>2. Leaving(r, x, ch, s)
          BY <3>1, <4>1 DEF Leaving
        <4> QED
          BY <4>2 DEF Going
      <3> QED
        BY <3>2, <3>3
    <2>2. CASE Upgrading(q, x, ch, s)
      <3>1. PICK i \in 1..Len(q) : /\ q[i].at = "grant" /\ q[i].type = "GETX" /\ q[i].cache = x
                                   /\ q[i].child = ch /\ q[i].line = s
        BY <2>2 DEF Upgrading
      <3>2. i \in 2..Len(q)
        BY <1>1, <1>3, <3>1
      <3>3. Upgrading(r, x, ch, s)
        BY <1>2, <3>1, <3>2 DEF Upgrading
      <3> QED
        BY <3>3 DEF Going
    <2> QED
      BY <1>5, <2>1, <2>2 DEF Going
  <1> QED
    BY <1>4, <1>5 DEF EndsWork

(* The invalidation f of line f.line, on behalf of h. *)
InvFact(f, h) ==
    LET k == f.cache
        t == f.line
        p == h.cache
    IN  /\ f.kind = "inv" /\ f.type \in {"INV", "INVX"} /\ f.addr \in Addr
        /\ k \in Cache /\ p \in Cache /\ k \in Children(p) /\ p # k /\ t \in Slots(k)
        /\ Home(k, t) = p
        /\ tag[k][t] = f.addr /\ st[k][t] # "I" /\ Holding(k, f.addr) = {t}
        /\ f.type = "INVX" => HaveExclusive(k, t)
        /\ f.todo = {} =>
              IF f.type = "INV" THEN dir[k][t].sharers = {}
              ELSE CountOK(dir[k][t]) /\ ~Writable(k, f.addr)
        /\ \A ch : ~InFlight(k, ch, t)
        /\ h.at \in {"evict", "grant", "down"} /\ h.line \in Slots(p)
        /\ tag[p][h.line] = f.addr /\ InvType(h) = f.type /\ k \notin h.todo
        /\ f.type = "INV" => dir[p][h.line].sharers = h.todo

(* An invalidation whose children are done, and the call that sent it. *)
LEMMA InvFinds ==
    ASSUME Inner, Coherent, NEW c \in Core, NEW q, q = stack[c], q # << >>, q[1].kind = "inv"
    PROVE  InvFact(q[1], q[2]) /\ 2 \in 1..Len(q)
  <1>1. PICK f : f = q[1]
    OBVIOUS
  <1>2. PICK h : h = q[2]
    OBVIOUS
  <1>3. PICK v : v = wb[c]
    OBVIOUS
  <1>4. /\ FrameOK(f) /\ FrameFact(f, TRUE) /\ Sane(c, q) /\ 1 \in 1..Len(q) /\ Calls(q, v)
        /\ 2 \in 1..Len(q) => Called(h, f) /\ CallOK(h, f) /\ FrameOK(h)
    BY <1>1, <1>2, <1>3, TopSays
  <1>5. PICK k \in Cache : k = f.cache
    BY <1>4, FrameFacts
  <1>6. PICK p : p = h.cache
    OBVIOUS
  <1>7. /\ 2 \in 1..Len(q) /\ p \in Cache /\ k \in Children(p) /\ h.cache = p
        /\ h.at \in {"evict", "grant", "down"}
    BY <1>1, <1>2, <1>4, <1>5, <1>6, Rights
  <1>8. f.kind = "inv" /\ f.type \in {"INV", "INVX"} /\ f.at = "down" /\ InvOK(f) /\ f.addr \in Addr
    BY <1>1, <1>4, FrameFacts DEF FrameFact, InvFrame
  <1>9. PICK t \in Slots(k) : t = f.line
    BY <1>4, <1>5, <1>8 DEF FrameOK
  <1>10. tag[k][t] = f.addr /\ st[k][t] # "I" /\ (f.type = "INVX" => HaveExclusive(k, t))
    BY <1>5, <1>8, <1>9 DEF InvOK
  <1>11. f.addr # None
    BY <1>8, TreeAssumption
  <1>12. Holding(k, f.addr) = {t}
    <2>1. \A u \in Slots(k) : tag[k][u] = f.addr => u = t
      BY <1>10, <1>11 DEF Coherent, Lines, UniqueTags
    <2> QED
      BY <1>10, <2>1 DEF Holding
  <1>13. p # k
    BY <1>7, Heights
  <1>14. f.todo = {} =>
              IF f.type = "INV" THEN dir[k][t].sharers = {}
              ELSE CountOK(dir[k][t]) /\ ~Writable(k, f.addr)
    <2>1. InvType(f) = f.type
      BY <1>8 DEF InvType
    <2>2. WorkOK(f, TRUE)
      BY <1>4 DEF FrameFact
    <2> QED
      BY <1>5, <1>8, <1>9, <1>10, <2>1, <2>2 DEF WorkOK
  <1>15. \A ch : ~InFlight(k, ch, t)
    <2>1. HasBottom(q, 1)
      BY DEF HasBottom
    <2>2. q[1].at # "grant" /\ LocksHeld /\ k = q[1].cache
      BY <1>1, <1>5, <1>8 DEF Coherent
    <2>3. OnlyTop(c, q, k)
      BY <2>1, <2>2, TopQuiet
    <2> QED
      BY <2>2, <2>3 DEF OnlyTop
  <1>16. h.line \in Slots(p) /\ tag[p][h.line] = f.addr /\ InvType(h) = f.type /\ k \notin h.todo
    BY <1>4, <1>5, <1>7, <1>8 DEF CallOK, FrameOK
  <1>17. f.type = "INV" => dir[p][h.line].sharers = h.todo
    <2>1. FrameFact(h, 2 = 1)
      BY <1>2, <1>4, <1>7 DEF Calls
    <2>2. WorkOK(h, 2 = 1)
      BY <2>1 DEF FrameFact
    <2> QED
      BY <1>7, <1>16, <2>2 DEF WorkOK
  <1>18. Home(k, t) = p
    BY <1>7, <1>10, <1>11, <1>16, ChildHome DEF Coherent
  <1> QED
    BY <1>1, <1>2, <1>5, <1>6, <1>7, <1>8, <1>9, <1>10, <1>12, <1>13, <1>14, <1>15, <1>16, <1>17,
       <1>18
    DEF InvFact

(* What it leaves: the line of k with the state n. *)
InvDone(k, t, type) ==
    /\ tag' = tag
    /\ st'[k][t] = (IF type = "INV" THEN "I" ELSE "S")
    /\ dir'[k][t].sharers = dir[k][t].sharers
    /\ IF type = "INV" THEN dir'[k][t].n = 0
       ELSE dir'[k][t].n = dir[k][t].n /\ dir'[k][t].excl = (dir[k][t].excl /\ ~IsExclusive(dir[k][t]))
    /\ \A x \in Cache : \A s \in Slots(x) : x # k \/ s # t =>
          st'[x][s] = st[x][s] /\ dir'[x][s] = dir[x][s]

(* processInval, and the eviction, set the count of an entry to zero. *)
LEMMA ZeroCount ==
    ASSUME Inner, NEW k \in Cache, NEW l \in Slots(k), dir' = [dir EXCEPT ![k][l].n = 0]
    PROVE  /\ dir'[k][l].sharers = dir[k][l].sharers
           /\ dir'[k][l].n = 0 /\ dir'[k][l].excl = dir[k][l].excl
           /\ \A x \in Cache : \A s \in Slots(x) : x # k \/ s # l => dir'[x][s] = dir[x][s]
  BY EntryFacts DEF DirOK, IsArray, Entries

(* A downgrade takes an entry's exclusive flag. *)
LEMMA DropExclusive ==
    ASSUME Inner, NEW k \in Cache, NEW l \in Slots(k), NEW b, dir' = [dir EXCEPT ![k][l].excl = b]
    PROVE  /\ dir'[k][l].sharers = dir[k][l].sharers
           /\ dir'[k][l].n = dir[k][l].n /\ dir'[k][l].excl = b
           /\ \A x \in Cache : \A s \in Slots(x) : x # k \/ s # l => dir'[x][s] = dir[x][s]
  BY EntryFacts DEF DirOK, IsArray, Entries

InvWrite(k, t, type) ==
    /\ tag' = tag
    /\ st' = [st EXCEPT ![k][t] = IF type = "INV" THEN "I" ELSE "S"]
    /\ dir' = IF type = "INV" THEN [dir EXCEPT ![k][t].n = 0]
              ELSE [dir EXCEPT ![k][t].excl = @ /\ ~IsExclusive(dir[k][t])]

(* What processInval leaves of the line and of its entry. *)
LEMMA InvWrites ==
    ASSUME Inner, NEW k \in Cache, NEW t \in Slots(k), NEW type, InvWrite(k, t, type)
    PROVE  InvDone(k, t, type)
  <1>1. /\ st'[k][t] = (IF type = "INV" THEN "I" ELSE "S")
        /\ \A x \in Cache : \A s \in Slots(x) : x # k \/ s # t => st'[x][s] = st[x][s]
    BY DEF Inner, Arrays, IsArray, InvWrite
  <1>2. tag' = tag
    BY DEF InvWrite
  <1>3. CASE type = "INV"
    <2>1. dir' = [dir EXCEPT ![k][t].n = 0]
      BY <1>3 DEF InvWrite
    <2>2. /\ dir'[k][t].sharers = dir[k][t].sharers
          /\ dir'[k][t].n = 0
          /\ \A x \in Cache : \A s \in Slots(x) : x # k \/ s # t => dir'[x][s] = dir[x][s]
      BY <2>1, ZeroCount
    <2> QED
      BY <1>1, <1>2, <1>3, <2>2 DEF InvDone
  <1>4. CASE type # "INV"
    <2>1. PICK b : b = (dir[k][t].excl /\ ~IsExclusive(dir[k][t]))
      OBVIOUS
    <2>2. dir' = [dir EXCEPT ![k][t].excl = b]
      BY <1>4, <2>1 DEF InvWrite
    <2>3. /\ dir'[k][t].sharers = dir[k][t].sharers
          /\ dir'[k][t].n = dir[k][t].n /\ dir'[k][t].excl = b
          /\ \A x \in Cache : \A s \in Slots(x) : x # k \/ s # t => dir'[x][s] = dir[x][s]
      BY <2>2, DropExclusive
    <2> QED
      BY <1>1, <1>2, <1>4, <2>1, <2>3 DEF InvDone
  <1> QED
    BY <1>3, <1>4

(* The children of a cache are finitely many. *)
LEMMA CountType ==
    ASSUME NEW k PROVE Cardinality(Children(k)) \in Nat /\ IsFiniteSet(Children(k))
  <1>1. Children(k) \subseteq Cache
    BY DEF Children
  <1> QED
    BY <1>1, NoLoops, FS_Subset, FS_CardinalityType

(* The lines after an invalidation: the child's is gone or shared, and the *)
(* parent's entry no longer lists it, or counts on it.                     *)
LEMMA FinishInvLines ==
    ASSUME Inner, Coherent, NEW c \in Core, NEW q, q = stack[c], q # << >>, q[1].todo = {},
           NEW f, f = q[1], NEW h, h = q[2], InvFact(f, h), 2 \in 1..Len(q), Sane(c, q),
           InvDone(f.cache, f.line, f.type), NEW r, r = Tail(q), stack' = [stack EXCEPT ![c] = r]
    PROVE  Lines'
  <1>1. PICK k : k = f.cache
    OBVIOUS
  <1>2. PICK p : p = h.cache
    OBVIOUS
  <1>3. PICK t : t = f.line
    OBVIOUS
  <1>4. PICK l : l = h.line
    OBVIOUS
  <1>5. PICK a : a = f.addr
    OBVIOUS
  <1>6. /\ k \in Cache /\ p \in Cache /\ p # k /\ t \in Slots(k) /\ l \in Slots(p) /\ a \in Addr
        /\ f.type \in {"INV", "INVX"} /\ f.kind = "inv"
        /\ tag[k][t] = a /\ tag[p][l] = a /\ st[k][t] # "I"
        /\ f.type = "INVX" => HaveExclusive(k, t)
        /\ f.type = "INV" => dir[k][t].sharers = {} /\ k \notin dir[p][l].sharers
        /\ f.type = "INVX" => CountOK(dir[k][t]) /\ ~Writable(k, a)
        /\ \A ch : ~InFlight(k, ch, t)
        /\ h.cache = p /\ h.at \in {"evict", "grant", "down"} /\ h.line = l
        /\ k \in Children(p) /\ Home(k, t) = p
    BY <1>1, <1>2, <1>3, <1>4, <1>5 DEF InvFact
  <1>7. /\ tag' = tag
        /\ st'[k][t] = (IF f.type = "INV" THEN "I" ELSE "S")
        /\ dir'[k][t].sharers = dir[k][t].sharers
        /\ f.type = "INV" => dir'[k][t].n = 0
        /\ f.type = "INVX" =>
              /\ dir'[k][t].n = dir[k][t].n
              /\ dir'[k][t].excl = (dir[k][t].excl /\ ~IsExclusive(dir[k][t]))
        /\ \A x \in Cache : \A s \in Slots(x) : x # k \/ s # t =>
              st'[x][s] = st[x][s] /\ dir'[x][s] = dir[x][s]
    BY <1>1, <1>3 DEF InvDone
  <1>8. Lines /\ LocksHeld /\ a # None
    BY <1>6, TreeAssumption DEF Coherent
  <1>9. /\ \A x \in Cache : \A s \in Slots(x) : st'[x][s] # "I" => st[x][s] # "I"
        /\ \A x \in Cache : \A s \in Slots(x) : HaveExclusive(x, s)' => HaveExclusive(x, s)
        /\ \A x \in Cache : \A s \in Slots(x) : dir'[x][s].sharers = dir[x][s].sharers
    <2> SUFFICES ASSUME NEW x \in Cache, NEW s \in Slots(x)
                 PROVE  /\ st'[x][s] # "I" => st[x][s] # "I"
                        /\ HaveExclusive(x, s)' => HaveExclusive(x, s)
                        /\ dir'[x][s].sharers = dir[x][s].sharers
      BY Zenon DEF HaveExclusive
    <2>1. CASE x = k /\ s = t
      BY <1>6, <1>7, <2>1 DEF HaveExclusive
    <2>2. CASE x # k \/ s # t
      BY <1>7, <2>2 DEF HaveExclusive
    <2> QED
      BY <2>1, <2>2
  <1>10. \A s \in Slots(k) : tag[k][s] = a => s = t
    BY <1>6, <1>8 DEF Lines, UniqueTags
  <1>11. \A s \in Slots(p) : tag[p][s] = a => s = l
    BY <1>6, <1>8 DEF Lines, UniqueTags
  <1>12. /\ \A x, s : Working(q, x, s) => Working(r, x, s) \/ (x = k /\ s = t)
         /\ \A x, ch, s : Going(q, x, ch, s) =>
               Going(r, x, ch, s) \/ (x = p /\ ch = k /\ s = l /\ f.type = "INV")
    <2>1. q[1].kind = "inv"
      BY <1>6
    <2>2. EndsWork(q, r)
      BY <2>1, InvWorkEnds
    <2>3. /\ q[1].cache = k /\ q[1].line = t /\ q[2].line = l /\ q[2].cache = p
          /\ q[1].type = f.type
      BY <1>1, <1>2, <1>3, <1>4
    <2> QED
      BY <2>2, <2>3 DEF EndsWork
  <1>13. UniqueTags' /\ NamedLines' /\ Routes'
    BY <1>7, <1>8, <1>9 DEF Lines, UniqueTags, NamedLines, Routes
  <1>14. Siblings'
    <2> SUFFICES ASSUME NEW x \in Cache, NEW y \in Cache, x # y,
                        NEW s \in Slots(x), NEW u \in Slots(y),
                        Home(x, s) = Home(y, u), Home(x, s) # Mem,
                        tag[x][s] = tag[y][u], HaveExclusive(x, s)'
                 PROVE  st'[y][u] = "I"
      BY <1>7 DEF Siblings, Home
    <2>1. HaveExclusive(x, s)
      BY <1>9
    <2>2. st[y][u] = "I"
      BY <1>8, <2>1 DEF Lines, Siblings
    <2> QED
      BY <1>9, <2>2
  (* No child of k has what k gives up. *)
  <1>15. ASSUME NEW ch \in Children(k), NEW u \in Slots(ch), st[ch][u] # "I", tag[ch][u] = a
         PROVE  f.type = "INVX" /\ ~HaveExclusive(ch, u)
    <2>1. Home(ch, u) = k /\ ch \in Cache
      BY <1>6, <1>8, <1>15, ChildHome DEF Children
    <2>2. InParent(ch, u, t)
      BY <1>6, <1>8, <1>15, <2>1, PlaceInParent
    <2>3. ch \in dir[k][t].sharers
      BY <1>6, <1>15, <2>1, <2>2 DEF InParent
    <2>4. f.type = "INVX" /\ ~Writable(k, a)
      BY <1>6, <2>3
    <2> QED
      BY <1>15, <2>4 DEF Writable, CanWrite, Children
  <1>16. Included'
    <2> SUFFICES ASSUME NEW ch \in Cache, NEW u \in Slots(ch), Home(ch, u) # Mem, st'[ch][u] # "I"
                 PROVE  \E s \in Slots(Home(ch, u)) : InParent(ch, u, s)'
      BY <1>7 DEF Included, Home
    <2>0. /\ Home(ch, u) \in Cache /\ ch \in Children(Home(ch, u)) /\ st[ch][u] # "I"
          /\ Home(ch, u)' = Home(ch, u)
      BY <1>7, <1>9, HomeFacts DEF Home
    <2>1. PICK s \in Slots(Home(ch, u)) : InParent(ch, u, s)
      BY <1>8, <2>0 DEF Lines, Included
    <2>2. PICK x \in Cache : x = Home(ch, u)
      BY <2>0
    <2>3. /\ tag[x][s] = tag[ch][u] /\ st[x][s] # "I" /\ s \in Slots(x)
          /\ HaveExclusive(ch, u) => HaveExclusive(x, s)
          /\ ch \in dir[x][s].sharers \/ InFlight(x, ch, s)
      BY <2>1, <2>2 DEF InParent
    <2>4. st'[x][s] # "I" /\ (HaveExclusive(ch, u)' => HaveExclusive(x, s)')
      <3>1. CASE x = k /\ s = t
        <4>1. f.type = "INVX" /\ ~HaveExclusive(ch, u)
          BY <1>6, <1>15, <2>0, <2>2, <2>3, <3>1
        <4> QED
          BY <1>7, <1>9, <3>1, <4>1
      <3>2. CASE x # k \/ s # t
        BY <1>7, <1>9, <2>3, <3>2 DEF HaveExclusive
      <3> QED
        BY <3>1, <3>2
    <2>5. InFlight(x, ch, s) => InFlight(x, ch, s)'
      <3>1. SUFFICES ASSUME InFlight(x, ch, s) PROVE InFlight(x, ch, s)'
        OBVIOUS
      <3>2. ~(x = p /\ ch = k /\ s = l /\ f.type = "INV")
        <4> SUFFICES ASSUME x = p, ch = k, s = l, f.type = "INV" PROVE FALSE
          OBVIOUS
        <4>1. u = t
          BY <1>6, <1>10, <2>3
        <4> QED
          BY <1>7, <4>1
      <3>3. Going(q, x, ch, s) => Going(r, x, ch, s)
        BY <1>12, <3>2
      <3> QED
        BY <3>1, <3>3, InFlightStays
    <2>6. InParent(ch, u, s)'
      BY <1>7, <1>9, <2>0, <2>2, <2>3, <2>4, <2>5 DEF InParent
    <2> QED
      BY <2>6
  <1>17. Listed'
    <2> SUFFICES ASSUME NEW x \in Cache, NEW s \in Slots(x), NEW ch \in dir[x][s].sharers
                 PROVE  HasLine(ch, tag[x][s])'
      BY <1>7, <1>9 DEF Listed
    <2>1. PICK u \in Slots(ch) : tag[ch][u] = tag[x][s] /\ st[ch][u] # "I"
      BY <1>8 DEF Lines, Listed, HasLine
    <2>2. ch \in Cache /\ ch \in Children(x)
      BY EntryFacts DEF Children
    <2>3. st'[ch][u] # "I"
      <3>1. CASE ch = k /\ u = t
        <4>0. x = p
          BY <1>6, <1>8, <2>1, <2>2, <3>1, ChildHome
        <4>1. s = l /\ x = p
          BY <1>6, <1>11, <2>1, <3>1, <4>0
        <4>2. f.type = "INVX"
          BY <1>6, <3>1, <4>1
        <4> QED
          BY <1>7, <3>1, <4>2
      <3>2. CASE ch # k \/ u # t
        BY <1>7, <2>1, <2>2, <3>2
      <3> QED
        BY <3>1, <3>2
    <2> QED
      BY <1>7, <2>1, <2>3 DEF HasLine
  <1>18. Directory'
    <2> SUFFICES ASSUME NEW x \in Cache, NEW s \in Slots(x)
                 PROVE  (/\ dir[x][s].n \in 0..Cardinality(Children(x))
                         /\ EntryOK(x, s) \/ Busy(x, s))'
      BY DEF Directory
    <2>1. dir[x][s].n \in 0..Cardinality(Children(x)) /\ (EntryOK(x, s) \/ Busy(x, s))
      BY <1>8 DEF Lines, Directory
    <2>2. CASE x = k /\ s = t
      <3>1. ~Writable(k, a)'
        <4> SUFFICES ASSUME NEW ch \in Children(k), NEW u \in Slots(ch), tag[ch][u] = a,
                            HaveExclusive(ch, u)'
                     PROVE  FALSE
          BY <1>7 DEF Writable, CanWrite
        <4>0. ch \in Cache
          BY DEF Children
        <4>1. HaveExclusive(ch, u) /\ st[ch][u] # "I"
          BY <1>9, <4>0 DEF HaveExclusive
        <4> QED
          BY <1>15, <4>1
      <3>2. CASE f.type = "INV"
        <4>1. dir'[k][t].n = 0 /\ dir'[k][t].sharers = {} /\ 0 \in 0..Cardinality(Children(k))
          BY <1>6, <1>7, <3>2, CountType
        <4>2. CountOK(dir[k][t])' /\ ~IsExclusive(dir[k][t])'
          BY <4>1, FS_EmptySet DEF CountOK, IsExclusive
        <4> QED
          BY <1>6, <1>7, <2>2, <3>1, <4>1, <4>2 DEF EntryOK
      <3>3. CASE f.type = "INVX"
        <4>1. CountOK(dir[k][t])' /\ ~IsExclusive(dir[k][t])'
          BY <1>6, <1>7, <3>3, ZenonT(30) DEF CountOK, IsExclusive
        <4> QED
          BY <1>6, <1>7, <2>1, <2>2, <3>1, <3>3, <4>1 DEF EntryOK
      <3> QED
        BY <1>6, <3>2, <3>3
    <2>3. CASE x # k \/ s # t
      <3>1. dir'[x][s] = dir[x][s]
        BY <1>7, <2>3
      <3>2. Busy(x, s) => Busy(x, s)'
        <4>1. Working(q, x, s) => Working(r, x, s)
          BY <1>12, <2>3
        <4> QED
          BY <4>1, BusyStays
      <3>3. CASE x = p /\ s = l
        <4>1. Working(r, p, l)
          <5>1. 1 \in 1..Len(r) /\ r[1] = h
            <6>1. /\ Len(r) = Len(q) - 1 /\ Len(q) \in Nat \ {0}
                  /\ \A i \in 1..(Len(q) - 1) : r[i] = q[i + 1]
              BY ReturnSeq DEF Sane, FrameSet
            <6> QED
              BY <6>1
          <5> QED
            BY <1>6, <5>1 DEF Working
        <4>2. stack'[c] = r
          BY DEF Inner
        <4>3. Busy(p, l)'
          BY <4>1, <4>2 DEF Busy, Working
        <4> QED
          BY <2>1, <3>1, <3>3, <4>3
      <3>4. CASE ~(x = p /\ s = l)
        <4>1. ASSUME NEW ch \in Children(x) PROVE CanWrite(ch, tag[x][s])' <=> CanWrite(ch, tag[x][s])
          <5>1. ch \in Cache /\ ch \in Children(x)
            BY <4>1 DEF Children
          <5>2. \A u \in Slots(ch) : tag[ch][u] = tag[x][s] => ch # k \/ u # t
            <6> SUFFICES ASSUME tag[k][t] = tag[x][s], ch = k PROVE FALSE
              OBVIOUS
            <6>0. k \in Children(x) /\ tag[x][s] # None /\ tag[k][t] = tag[x][s]
              BY <1>6, <1>8, <5>1
            <6>1. Home(k, t) = x
              BY <1>8, <6>0, ChildHome
            <6> QED
              BY <1>6, <1>11, <3>4, <6>1
          <5>3. \A u \in Slots(ch) : tag[ch][u] = tag[x][s] => (HaveExclusive(ch, u)' <=> HaveExclusive(ch, u))
            BY <1>7, <5>1, <5>2 DEF HaveExclusive
          <5> QED
            BY <1>7, <5>3 DEF CanWrite
        <4>2. Writable(x, tag[x][s])' <=> Writable(x, tag[x][s])
          BY <4>1 DEF Writable
        <4>3. EntryOK(x, s) => EntryOK(x, s)'
          BY <1>7, <3>1, <4>2 DEF EntryOK, CountOK, IsExclusive
        <4> QED
          BY <2>1, <3>1, <3>2, <4>3
      <3> QED
        BY <3>3, <3>4
    <2> QED
      BY <2>2, <2>3
  <1> QED
    BY <1>13, <1>14, <1>16, <1>17, <1>18 DEF Lines

(* processInval finds the line valid, or exclusive if it is to be          *)
(* downgraded.                                                             *)
LEMMA FinishInvCoherent ==
    ASSUME Inner, Coherent, NEW c \in Core, FinishInv(c)
    PROVE  ~failed' /\ (Inner' => Coherent')
  <1>1. PICK q : q = stack[c]
    OBVIOUS
  <1>2. q # << >>
    BY <1>1 DEF FinishInv, In
  <1>3. PICK v : v = wb[c]
    OBVIOUS
  <1>4. /\ Top(c) = q[1] /\ FrameOK(q[1]) /\ Sane(c, q) /\ 1 \in 1..Len(q) /\ Calls(q, v)
        /\ v \in BOOLEAN /\ q \in Seq(FrameSet)
    BY <1>1, <1>2, <1>3, TopSays
  <1>5. PICK f : f = q[1]
    OBVIOUS
  <1>6. PICK h : h = q[2]
    OBVIOUS
  <1>7. PICK r : r = Tail(q)
    OBVIOUS
  <1>8. PICK k : k = f.cache
    OBVIOUS
  <1>9. PICK t : t = f.line
    OBVIOUS
  <1>10. /\ f.kind = "inv" /\ f.todo = {}
         /\ bcc' = [bcc EXCEPT ![k] = Free] /\ stack' = [stack EXCEPT ![c] = r]
         /\ tag' = tag /\ tcc' = tcc
    BY <1>1, <1>4, <1>5, <1>7, <1>8 DEF FinishInv, In, Return
  <1>11. InvFact(f, h) /\ 2 \in 1..Len(q)
    <2>1. q[1].kind = "inv"
      BY <1>5, <1>10
    <2>2. InvFact(q[1], q[2]) /\ 2 \in 1..Len(q)
      BY <1>1, <1>2, <2>1, InvFinds
    <2> QED
      BY <1>5, <1>6, <2>2
  <1>12. /\ f.type \in {"INV", "INVX"} /\ f.addr \in Addr
         /\ k \in Cache /\ h.cache \in Cache /\ k \in Children(h.cache) /\ h.cache # k
         /\ t \in Slots(k) /\ Home(k, t) = h.cache
         /\ tag[k][t] = f.addr /\ st[k][t] # "I" /\ Holding(k, f.addr) = {t}
         /\ f.type = "INVX" => HaveExclusive(k, t)
         /\ h.at \in {"evict", "grant", "down"} /\ h.line \in Slots(h.cache)
         /\ tag[h.cache][h.line] = f.addr /\ InvType(h) = f.type
    BY <1>8, <1>9, <1>11 DEF InvFact
  <1>13. /\ InvWrite(k, t, f.type) /\ ~failed'
         /\ wb' = [wb EXCEPT ![c] = @ \/ WritesBack(st[k][t])]
    <2>1. PICK s \in Holding(k, f.addr) :
             /\ st' = [st EXCEPT ![k][s] = IF f.type = "INV" THEN "I" ELSE "S"]
             /\ wb' = [wb EXCEPT ![c] = @ \/ WritesBack(st[k][s])]
             /\ dir' = IF f.type = "INV" THEN [dir EXCEPT ![k][s].n = 0]
                       ELSE [dir EXCEPT ![k][s].excl = @ /\ ~IsExclusive(dir[k][s])]
             /\ Check(IF f.type = "INV" THEN st[k][s] # "I" ELSE HaveExclusive(k, s))
      <3>1. \E s \in Holding(Top(c).cache, Top(c).addr) :
             /\ st' = [st EXCEPT ![Top(c).cache][s] = IF Top(c).type = "INV" THEN "I" ELSE "S"]
             /\ wb' = [wb EXCEPT ![c] = @ \/ WritesBack(st[Top(c).cache][s])]
             /\ dir' = IF Top(c).type = "INV" THEN [dir EXCEPT ![Top(c).cache][s].n = 0]
                       ELSE [dir EXCEPT ![Top(c).cache][s].excl = @ /\ ~IsExclusive(dir[Top(c).cache][s])]
             /\ Check(IF Top(c).type = "INV" THEN st[Top(c).cache][s] # "I"
                      ELSE HaveExclusive(Top(c).cache, s))
        BY DEF FinishInv
      <3>2. Top(c).cache = k /\ Top(c).addr = f.addr /\ Top(c).type = f.type
        BY <1>4, <1>5, <1>8
      <3> QED
        BY <3>1, <3>2
    <2>2. s = t
      BY <1>12
    <2>3. ~failed'
      BY <1>12, <2>1, <2>2 DEF Check, Coherent
    <2> QED
      BY <1>10, <2>1, <2>2, <2>3 DEF InvWrite
  <1>14. InvDone(k, t, f.type)
    BY <1>12, <1>13, InvWrites
  <1>15. PICK w \in BOOLEAN : w = (v \/ st[k][t] = "M")
    OBVIOUS
  <1>16. wb' = [wb EXCEPT ![c] = w]
    BY <1>3, <1>13, <1>15 DEF WritesBack
  <1>17. /\ Lowered(st'[k][t], st[k][t]) /\ dir'[k][t].sharers = dir[k][t].sharers
         /\ ~HaveExclusive(k, t)'
         /\ \A x \in Cache : \A s \in Slots(x) : x # k \/ s # t =>
               /\ st'[x][s] = st[x][s] /\ dir'[x][s] = dir[x][s]
               /\ HaveExclusive(x, s)' <=> HaveExclusive(x, s)
    <2>1. st'[k][t] = (IF f.type = "INV" THEN "I" ELSE "S") /\ dir'[k][t].sharers = dir[k][t].sharers
      BY <1>14 DEF InvDone
    <2>2. \A x \in Cache : \A s \in Slots(x) : x # k \/ s # t =>
             st'[x][s] = st[x][s] /\ dir'[x][s] = dir[x][s]
      BY <1>14 DEF InvDone
    <2> QED
      BY <1>12, <2>1, <2>2 DEF Lowered, HaveExclusive
  <1>18. HoldsBottom(q, k) /\ HoldsBottom(q, Home(k, t))
    BY <1>4, <1>5, <1>6, <1>8, <1>10, <1>12, Rights
  <1>19. \A x \in Cache : \A s \in Slots(x) : OwnPrint(q, x, s) /\ Footprint(q, x, s)
    <2> SUFFICES ASSUME NEW x \in Cache, NEW s \in Slots(x)
                 PROVE  OwnPrint(q, x, s) /\ Footprint(q, x, s)
      OBVIOUS
    <2>1. q[1].kind = "inv" /\ q[1].cache = k /\ tag'[x][s] = tag[x][s]
      BY <1>5, <1>8, <1>10
    <2>2. CASE x = k /\ s = t
      BY <1>17, <1>18, <2>1, <2>2 DEF OwnPrint, Footprint, TwoOf
    <2>3. CASE x # k \/ s # t
      BY <1>17, <2>1, <2>3 DEF OwnPrint, Footprint
    <2> QED
      BY <2>2, <2>3
  <1>20. \A i \in 2..Len(q) : KeepOK(q[i], w)'
    <2> SUFFICES ASSUME NEW i \in 2..Len(q), w, q[i].at \in {"evict", "grant"}
                 PROVE  HaveExclusive(q[i].cache, q[i].line)'
      BY DEF KeepOK
    <2>1. /\ i \in 1..Len(q) /\ 1 < i /\ i - 1 \in 1..Len(q) /\ Called(q[i], q[i - 1])
          /\ FrameOK(q[i]) /\ FrameOK(q[i - 1])
      <3>1. i \in 1..Len(q) /\ 1 < i /\ i > 1 /\ i - 1 \in 1..Len(q)
        BY <1>4
      <3>2. /\ \A j \in 1..Len(q) : FrameOK(q[j])
            /\ \A j \in 1..Len(q) : j > 1 => Called(q[j], q[j - 1])
        BY <1>4 DEF Sane
      <3> QED
        BY <3>1, <3>2
    <2>2. q[i - 1].kind = "inv"
      BY <2>1, FrameFacts DEF Called
    <2>3. Above(q[i], q[1]) /\ KeepOK(q[i], v)
      BY <1>4, <2>1, <2>2 DEF Calls, Chain
    <2>4. HaveExclusive(q[i].cache, q[i].line)
      <3>1. CASE v
        BY <2>3, <3>1 DEF KeepOK
      <3>2. CASE ~v
        <4>1. HaveExclusive(q[1].cache, q[1].line)
          BY <1>5, <1>8, <1>9, <1>15, <3>2 DEF HaveExclusive
        <4> QED
          BY <2>3, <4>1 DEF Above
      <3> QED
        BY <3>1, <3>2
    <2>5. q[i].cache # k
      <3>1. H[q[1].cache] < H[q[i].cache] /\ H[k] \in Nat
        BY <1>4, <1>5, <1>10, <1>12, <2>1, <2>2, Heights DEF Sane, Ordered
      <3> QED
        BY <1>5, <1>8, <3>1
    <2>6. q[i].cache \in Cache /\ q[i].line \in Slots(q[i].cache)
      BY <2>1, FrameFacts DEF FrameOK
    <2> QED
      BY <1>17, <2>4, <2>5, <2>6
  <1>21. RestOK(q, w)'
    BY <1>2, <1>4, <1>19, <1>20, RestStays DEF Coherent, Lines
  <1>22. FrameFact(q[2], TRUE)'
    <2>1. FrameFact(h, FALSE)'
      <3>1. 2 \in 2..Len(q)
        BY <1>11
      <3> QED
        BY <1>6, <1>21, <3>1 DEF RestOK
    <2>2. InvType(h) = "INVX" => ~Writable(h.cache, tag[h.cache][h.line])'
      <3> SUFFICES ASSUME f.type = "INVX", NEW y \in Children(h.cache),
                          NEW u \in Slots(y), tag[y][u] = f.addr, HaveExclusive(y, u)'
                   PROVE  FALSE
        BY <1>10, <1>12 DEF Writable, CanWrite
      <3>0. y \in Cache
        BY DEF Children
      <3>1. CASE y = k
        <4>1. u = t
          BY <1>12, <3>1 DEF Holding
        <4> QED
          BY <1>17, <3>1, <4>1
      <3>2. CASE y # k
        <4>1. HaveExclusive(y, u) /\ st[y][u] # "I"
          BY <1>17, <3>0, <3>2 DEF HaveExclusive
        <4>2. HaveExclusive(k, t) /\ Home(k, t) # Mem
          BY <1>12, TreeAssumption
        <4>3. Siblings /\ Lines /\ tag[k][t] = tag[y][u]
          BY <1>12 DEF Coherent, Lines
        <4>4. Home(y, u) = h.cache
          BY <1>12, <4>3, ChildHome, TreeAssumption
        <4>5. st[y][u] = "I"
          BY <1>12, <3>0, <3>2, <4>2, <4>3, <4>4 DEF Siblings
        <4> QED
          BY <4>1, <4>5
      <3> QED
        BY <3>1, <3>2
    <2>3. h.kind = "access" => LineOK(h, TRUE)'
      BY <1>12, <2>1 DEF FrameFact, LineOK
    <2>4. WorkOK(h, TRUE)'
      BY <1>12, <2>1, <2>2 DEF FrameFact, WorkOK
    <2> QED
      BY <1>6, <2>1, <2>3, <2>4 DEF FrameFact
  <1>23. Calls(r, w)'
    BY <1>2, <1>4, <1>7, <1>21, <1>22, CallsReturn
  <1>24. LocksHeld'
    <2>0. LocksHeld /\ bcc \in [Cache -> Core \union {Free}] /\ q[1].kind = "inv" /\ q[1].cache = k
      BY <1>5, <1>8, <1>10 DEF Coherent, Inner, Locks
    <2>1. \A j \in Cache : HoldsTop(r, j) => tcc'[j] = c
      <3> SUFFICES ASSUME NEW j \in Cache, HoldsTop(r, j) PROVE tcc'[j] = c
        OBVIOUS
      <3>1. HoldsTop(q, j)
        BY <1>2, <1>4, <1>7, TopOfReturn
      <3> QED
        BY <1>1, <1>10, <2>0, <3>1 DEF LocksHeld
    <2>2. \A j \in Cache : HoldsBottom(r, j) => bcc'[j] = c
      <3> SUFFICES ASSUME NEW j \in Cache, HoldsBottom(r, j) PROVE bcc'[j] = c
        OBVIOUS
      <3>1. HoldsBottom(q, j) /\ j # k
        BY <1>2, <1>4, <1>7, <2>0, BottomOfReturn
      <3>2. bcc[j] = c
        BY <1>1, <2>0, <3>1 DEF LocksHeld
      <3> QED
        BY <1>10, <2>0, <3>1, <3>2
    <2>3. \A j \in Cache : tcc'[j] = tcc[j]
      BY <1>10
    <2>4. \A j \in Cache : bcc'[j] = bcc[j] \/ bcc[j] \in {c, Free}
      <3>1. bcc[k] = c
        BY <1>1, <1>12, <1>18, <2>0 DEF LocksHeld
      <3> QED
        BY <1>10, <2>0, <3>1
    <2> QED
      BY <1>10, <2>0, <2>1, <2>2, <2>3, <2>4, LocksHeldStep
  <1>25. Lines'
    <2>1. q[1].todo = {} /\ InvDone(f.cache, f.line, f.type)
      BY <1>5, <1>8, <1>9, <1>10, <1>14
    <2> QED
      BY <1>1, <1>2, <1>4, <1>5, <1>6, <1>7, <1>10, <1>11, <2>1, FinishInvLines
  <1>26. \A x \in Cache : \A s \in Slots(x) : Footprint(q, x, s)
    BY <1>19
  <1>27. Coherent'
    BY <1>1, <1>10, <1>13, <1>16, <1>23, <1>24, <1>25, <1>26, CoherentStep, ZenonT(30)
  <1> QED
    BY <1>13, <1>27

-----------------------------------------------------------------------------
(* An access is the only call of its core that is at work. *)
WorksAlone(q) ==
    /\ \A x, s : Working(q, x, s) =>
          q[1].at \in {"evict", "grant"} /\ x = q[1].cache /\ s = q[1].line
    /\ \A x, ch, s : Going(q, x, ch, s) =>
          /\ q[1].at = "grant" /\ q[1].type = "GETX" /\ x = q[1].cache /\ ch = q[1].child
          /\ s = q[1].line
    /\ \A j \in 2..Len(q) : q[j - 1].kind # "inv"

(* An access at the top of its stack is the only call of it at work. *)
LEMMA AccessWork ==
    ASSUME NEW c, NEW q, Sane(c, q), q # << >>, q[1].kind = "access"
    PROVE  WorksAlone(q)
  <1>1. Len(q) \in Nat \ {0} /\ \A i \in 1..Len(q) : FrameOK(q[i])
    BY ReturnSeq DEF Sane, FrameSet
  <1>2. \A i \in 1..Len(q) : q[i].kind = "access"
    BY <1>1 DEF Sane, Ordered
  <1>3. \A i \in 2..Len(q) : q[i].at \in {"insert", "dir", "end"}
    <2> SUFFICES ASSUME NEW i \in 2..Len(q) PROVE q[i].at \in {"insert", "dir", "end"}
      OBVIOUS
    <2>1. i \in 1..Len(q) /\ i > 1 /\ i - 1 \in 1..Len(q)
      BY <1>1
    <2>2. Called(q[i], q[i - 1])
      BY <2>1 DEF Sane
    <2> QED
      BY <1>2, <2>1, <2>2 DEF Called
  <1>4. \A j \in 2..Len(q) : q[j - 1].kind # "inv"
    BY <1>1, <1>2
  <1>5. q[1].at # "down"
    BY <1>1, FrameFacts DEF Ats
  <1>6. ASSUME NEW x, NEW s, Working(q, x, s)
        PROVE  q[1].at \in {"evict", "grant"} /\ x = q[1].cache /\ s = q[1].line
    <2>1. PICK i \in 1..Len(q) : q[i].at \in {"evict", "grant", "down"} /\ q[i].cache = x /\ q[i].line = s
      BY <1>6 DEF Working
    <2>2. i = 1
      BY <1>1, <1>3, <2>1
    <2> QED
      BY <1>5, <2>1, <2>2
  <1>7. ASSUME NEW x, NEW ch, NEW s, Going(q, x, ch, s)
        PROVE  /\ q[1].at = "grant" /\ q[1].type = "GETX" /\ x = q[1].cache /\ ch = q[1].child
               /\ s = q[1].line
    <2>1. ~Leaving(q, x, ch, s)
      BY <1>4 DEF Leaving
    <2>2. PICK i \in 1..Len(q) : /\ q[i].at = "grant" /\ q[i].type = "GETX" /\ q[i].cache = x
                                 /\ q[i].child = ch /\ q[i].line = s
      BY <1>7, <2>1 DEF Going, Upgrading
    <2>3. i = 1
      BY <1>1, <1>3, <2>2
    <2> QED
      BY <2>2, <2>3
  <1> QED
    BY <1>4, <1>6, <1>7 DEF WorksAlone

(* Nothing is left of the line s of k in its children. *)
LEMMA NoneBelow ==
    ASSUME Inner, Lines, NEW k \in Cache, NEW s \in Slots(k), dir[k][s].sharers = {},
           \A ch : ~InFlight(k, ch, s),
           NEW ch \in Children(k), NEW u \in Slots(ch), tag[ch][u] = tag[k][s]
    PROVE  st[ch][u] = "I"
  <1> SUFFICES ASSUME st[ch][u] # "I" PROVE FALSE
    OBVIOUS
  <1>1. ch \in Cache /\ tag[k][s] # None
    BY DEF Children, Lines, NamedLines
  <1>2. Home(ch, u) = k
    BY <1>1, ChildHome
  <1>3. InParent(ch, u, s)
    BY <1>1, <1>2, PlaceInParent
  <1> QED
    BY <1>2, <1>3 DEF InParent

(* A line without copies below gives way: what Evict leaves of it. *)
Evicted(k, s) ==
    /\ tag' = tag
    /\ dir'[k][s].sharers = dir[k][s].sharers /\ dir'[k][s].n = 0
    /\ \A x \in Cache : \A u \in Slots(x) : x # k \/ u # s =>
          st'[x][u] = st[x][u] /\ dir'[x][u] = dir[x][u]
    /\ st'[k][s] # "I" => st[k][s] # "I"
    /\ HaveExclusive(k, s)' => HaveExclusive(k, s)
    /\ Home(k, s) # Mem => (st[k][s] # "I" => st'[k][s] # "I")
                        /\ (HaveExclusive(k, s) => HaveExclusive(k, s)')

(* The lines after an eviction: no child has the line any more. *)
LEMMA EvictLines ==
    ASSUME Inner, Coherent, NEW c \in Core, NEW q, q = stack[c], WorksAlone(q),
           q[1].at = "evict", NEW r, stack' = [stack EXCEPT ![c] = r],
           NEW k \in Cache, NEW s \in Slots(k), k = q[1].cache, s = q[1].line, Evicted(k, s),
           dir[k][s].sharers = {}, \A ch : ~InFlight(k, ch, s)
    PROVE  Lines'
  <1>0. tag' = tag /\ dir'[k][s].sharers = {} /\ dir'[k][s].n = 0
    BY DEF Evicted
  <1>1. /\ tag' = tag
        /\ dir'[k][s].sharers = {} /\ dir'[k][s].n = 0
        /\ \A x \in Cache : \A u \in Slots(x) : x # k \/ u # s =>
              st'[x][u] = st[x][u] /\ dir'[x][u] = dir[x][u]
        /\ st'[k][s] # "I" => st[k][s] # "I"
        /\ HaveExclusive(k, s)' => HaveExclusive(k, s)
        /\ Home(k, s) # Mem => (st[k][s] # "I" => st'[k][s] # "I")
                            /\ (HaveExclusive(k, s) => HaveExclusive(k, s)')
    BY DEF Evicted
  <1>2. Lines
    BY DEF Coherent
  <1>3. /\ \A x \in Cache : \A u \in Slots(x) : st'[x][u] # "I" => st[x][u] # "I"
        /\ \A x \in Cache : \A u \in Slots(x) : HaveExclusive(x, u)' => HaveExclusive(x, u)
        /\ \A x \in Cache : \A u \in Slots(x) : dir'[x][u].sharers = dir[x][u].sharers
        /\ \A x \in Cache : \A u \in Slots(x) : Home(x, u) # Mem =>
              /\ st[x][u] # "I" => st'[x][u] # "I"
              /\ HaveExclusive(x, u) => HaveExclusive(x, u)'
    <2> SUFFICES ASSUME NEW x \in Cache, NEW u \in Slots(x)
                 PROVE  /\ st'[x][u] # "I" => st[x][u] # "I"
                        /\ HaveExclusive(x, u)' => HaveExclusive(x, u)
                        /\ dir'[x][u].sharers = dir[x][u].sharers
                        /\ Home(x, u) # Mem => /\ st[x][u] # "I" => st'[x][u] # "I"
                                               /\ HaveExclusive(x, u) => HaveExclusive(x, u)'
      BY ZenonT(30) DEF HaveExclusive
    <2>1. CASE x = k /\ u = s
      BY <1>1, <2>1
    <2>2. CASE x # k \/ u # s
      BY <1>1, <2>2, ZenonT(30) DEF HaveExclusive
    <2> QED
      BY <2>1, <2>2
  <1>4. UniqueTags' /\ NamedLines' /\ Routes'
    <2>1. UniqueTags' /\ Routes'
      BY <1>0, <1>2 DEF Lines, UniqueTags, Routes
    <2>2. NamedLines
      BY <1>2 DEF Lines
    <2> QED
      BY <1>0, <1>3, <2>1, <2>2 DEF NamedLines
  <1>5. Siblings'
    <2> SUFFICES ASSUME NEW x \in Cache, NEW y \in Cache, x # y,
                        NEW t \in Slots(x), NEW u \in Slots(y),
                        Home(x, t) = Home(y, u), Home(x, t) # Mem,
                        tag[x][t] = tag[y][u], HaveExclusive(x, t)'
                 PROVE  st'[y][u] = "I"
      BY <1>0 DEF Siblings, Home
    <2>1. HaveExclusive(x, t)
      BY <1>3
    <2>2. st[y][u] = "I"
      BY <1>2, <2>1 DEF Lines, Siblings
    <2> QED
      BY <1>3, <2>2
  <1>6. \A x, ch, u : ~Going(q, x, ch, u)
    BY DEF WorksAlone
  <1>7. Included'
    <2> SUFFICES ASSUME NEW ch \in Cache, NEW u \in Slots(ch), Home(ch, u) # Mem, st'[ch][u] # "I"
                 PROVE  \E t \in Slots(Home(ch, u)) : InParent(ch, u, t)'
      BY <1>0 DEF Included, Home
    <2>0. Home(ch, u) \in Cache /\ st[ch][u] # "I" /\ Home(ch, u)' = Home(ch, u)
      BY <1>0, <1>3, HomeFacts DEF Home
    <2>1. PICK t \in Slots(Home(ch, u)) : InParent(ch, u, t)
      BY <1>2, <2>0 DEF Lines, Included
    <2>2. PICK x \in Cache : x = Home(ch, u)
      BY <2>0
    <2>3. /\ tag[x][t] = tag[ch][u] /\ st[x][t] # "I" /\ t \in Slots(x)
          /\ HaveExclusive(ch, u) => HaveExclusive(x, t)
          /\ ch \in dir[x][t].sharers \/ InFlight(x, ch, t)
      BY <2>1, <2>2 DEF InParent
    <2>4. x # k \/ t # s
      BY <2>2, <2>3
    <2>5. st'[x][t] # "I" /\ (HaveExclusive(ch, u)' => HaveExclusive(x, t)')
      <3>1. st'[x][t] = st[x][t]
        BY <1>1, <2>3, <2>4
      <3>2. HaveExclusive(ch, u)' => HaveExclusive(ch, u)
        BY <1>3
      <3> QED
        BY <2>3, <3>1, <3>2 DEF HaveExclusive
    <2>6. InFlight(x, ch, t) => InFlight(x, ch, t)'
      BY <1>6, InFlightStays
    <2>7. InParent(ch, u, t)'
      <3>1. dir'[x][t].sharers = dir[x][t].sharers
        BY <1>3, <2>3
      <3> QED
        BY <1>0, <2>0, <2>2, <2>3, <2>5, <2>6, <3>1 DEF InParent
    <2> QED
      BY <2>0, <2>2, <2>3, <2>7
  <1>8. Listed'
    <2> SUFFICES ASSUME NEW x \in Cache, NEW t \in Slots(x), NEW ch \in dir[x][t].sharers
                 PROVE  HasLine(ch, tag[x][t])'
      BY <1>1, <1>3, SMTT(30) DEF Listed
    <2>1. PICK u \in Slots(ch) : tag[ch][u] = tag[x][t] /\ st[ch][u] # "I"
      BY <1>2 DEF Lines, Listed, HasLine
    <2>2. ch \in Cache /\ ch \in Children(x)
      BY EntryFacts DEF Children
    <2>3. st'[ch][u] # "I"
      <3>1. tag[x][t] # None
        BY <1>2, <2>1, <2>2 DEF Lines, NamedLines
      <3>2. Home(ch, u) # Mem
        BY <1>2, <2>1, <2>2, <3>1, ChildHome, TreeAssumption
      <3> QED
        BY <1>3, <2>1, <2>2, <3>2
    <2> QED
      BY <1>1, <2>1, <2>3 DEF HasLine
  <1>9. Directory'
    <2> SUFFICES ASSUME NEW x \in Cache, NEW t \in Slots(x)
                 PROVE  (/\ dir[x][t].n \in 0..Cardinality(Children(x))
                         /\ EntryOK(x, t) \/ Busy(x, t))'
      BY DEF Directory
    <2>1. dir[x][t].n \in 0..Cardinality(Children(x)) /\ (EntryOK(x, t) \/ Busy(x, t))
      BY <1>2 DEF Lines, Directory
    <2>2. CASE x = k /\ t = s
      <3>1. ~Writable(k, tag[k][s])'
        <4> SUFFICES ASSUME NEW ch \in Children(k), NEW u \in Slots(ch),
                            tag[ch][u] = tag[k][s], HaveExclusive(ch, u)'
                     PROVE  FALSE
          BY <1>1 DEF Writable, CanWrite
        <4>1. st[ch][u] # "I"
          BY <1>3 DEF HaveExclusive, Children
        <4> QED
          BY <1>2, <4>1, NoneBelow
      <3>2. dir'[k][s].n \in 0..Cardinality(Children(k))
        BY <1>0, CountType
      <3>3. CountOK(dir[k][s])' /\ ~IsExclusive(dir[k][s])'
        BY <1>1, FS_EmptySet, SMTT(30) DEF CountOK, IsExclusive
      <3>4. EntryOK(k, s)'
        BY <3>1, <3>3 DEF EntryOK
      <3> QED
        BY <2>2, <3>2, <3>4
    <2>3. CASE x # k \/ t # s
      <3>1. dir'[x][t] = dir[x][t]
        BY <1>1, <2>3
      <3>2. Busy(x, t) => Busy(x, t)'
        <4>1. ~Working(q, x, t)
          BY <2>3 DEF WorksAlone
        <4> QED
          BY <4>1, BusyStays
      <3>3. ASSUME NEW ch \in Children(x) PROVE CanWrite(ch, tag[x][t])' <=> CanWrite(ch, tag[x][t])
        <4>1. ch \in Cache /\ x # Mem
          BY <3>3, TreeAssumption DEF Children
        <4>2. \A u \in Slots(ch) : tag[ch][u] = tag[x][t] =>
                  (HaveExclusive(ch, u)' <=> HaveExclusive(ch, u))
          <5> SUFFICES ASSUME NEW u \in Slots(ch), tag[ch][u] = tag[x][t], HaveExclusive(ch, u)
                       PROVE  HaveExclusive(ch, u)'
            BY <1>3, <4>1
          <5>1. tag[x][t] # None
            BY <1>2, <4>1 DEF Lines, NamedLines, HaveExclusive
          <5>2. Home(ch, u) = x
            BY <1>2, <3>3, <5>1, ChildHome
          <5> QED
            BY <1>3, <4>1, <5>2
        <4> QED
          BY <1>1, <4>2 DEF CanWrite
      <3>4. Writable(x, tag[x][t])' <=> Writable(x, tag[x][t])
        BY <3>3 DEF Writable
      <3>5. EntryOK(x, t) => EntryOK(x, t)'
        BY <1>1, <3>1, <3>4 DEF EntryOK, CountOK, IsExclusive
      <3> QED
        BY <2>1, <3>1, <3>2, <3>5
    <2> QED
      BY <2>2, <2>3
  <1> QED
    BY <1>4, <1>5, <1>7, <1>8, <1>9 DEF Lines

(* What is known of an access at work, in whatever it does. *)
AccessFact(c, q, f, v) ==
    /\ f = q[1] /\ Top(c) = f /\ Sane(c, q) /\ q \in Seq(FrameSet) /\ 1 \in 1..Len(q)
    /\ f \in AccessFrame /\ FrameOK(f) /\ f.cache \in Cache /\ f.addr \in Addr
    /\ LineOK(f, TRUE) /\ WorkOK(f, TRUE) /\ KeepOK(f, v) /\ Calls(q, v) /\ v \in BOOLEAN
    /\ f.cache \notin L1 =>
          /\ ChildOK(f) /\ f.child \in Cache /\ f.child # f.cache /\ f.slot \in Slots(f.child)
          /\ f.child \in Children(f.cache) /\ Home(f.child, f.slot) = f.cache
    /\ Routes
    /\ 2 \in 1..Len(q) => Called(q[2], f) /\ CallOK(q[2], f)
    /\ WorksAlone(q)
    /\ f.at # "lockTcc" => Visits(q, f.cache)
    /\ f.at \notin {"lockTcc", "lockBcc", "fill"} => HoldsBottom(q, f.cache) /\ bcc[f.cache] = c

(* What an access at the top knows, in one place. *)
LEMMA AccessSays ==
    ASSUME Inner, Coherent, NEW c \in Core, NEW q, q = stack[c], q # << >>, q[1].kind = "access",
           NEW f, f = q[1], NEW v, v = wb[c]
    PROVE  AccessFact(c, q, f, v)
  <1>1. /\ Sane(c, q) /\ q \in Seq(FrameSet) /\ Top(c) = f /\ FrameOK(f)
        /\ f.cache \in Cache /\ 1 \in 1..Len(q)
        /\ Calls(q, v) /\ FrameFact(f, TRUE) /\ KeepOK(f, v)
        /\ 2 \in 1..Len(q) => Called(q[2], f) /\ CallOK(q[2], f)
        /\ v \in BOOLEAN
    BY TopSays
  <1>2. f \in AccessFrame /\ f.kind = "access"
    BY <1>1, FrameFacts
  <1>3. f.addr \in Addr /\ LineOK(f, TRUE) /\ WorkOK(f, TRUE) /\ (f.cache \notin L1 => ChildOK(f))
    BY <1>1, <1>2 DEF FrameFact
  <1>4. f.cache \notin L1 =>
           /\ f.child \in Children(f.cache) /\ Parent(f.child, f.addr) = f.cache
           /\ f.slot \in Slots(f.child)
    BY <1>1, <1>2, Rights
  <1>5. f.cache \notin L1 =>
           f.child \in Cache /\ f.child # f.cache /\ Home(f.child, f.slot) = f.cache
    <2> SUFFICES ASSUME f.cache \notin L1
                 PROVE  f.child \in Cache /\ f.child # f.cache /\ Home(f.child, f.slot) = f.cache
      OBVIOUS
    <2>1. f.child \in Cache /\ f.child # f.cache
      BY <1>1, <1>4, Heights DEF Children
    <2>2. Home(f.child, f.slot) = f.cache
      BY <1>3, <1>4 DEF ChildOK, Home
    <2> QED
      BY <2>1, <2>2
  <1>9. Routes
    BY DEF Coherent, Lines
  <1>6. WorksAlone(q)
    BY <1>1, AccessWork
  <1>7. f.at # "lockTcc" => Visits(q, f.cache)
    BY <1>1 DEF Visits
  <1>8. f.at \notin {"lockTcc", "lockBcc", "fill"} => HoldsBottom(q, f.cache) /\ bcc[f.cache] = c
    <2> SUFFICES ASSUME f.at \notin {"lockTcc", "lockBcc", "fill"}
                 PROVE  HoldsBottom(q, f.cache) /\ bcc[f.cache] = c
      OBVIOUS
    <2>1. HoldsBottom(q, f.cache)
      BY <1>1 DEF HoldsBottom, HasBottom
    <2> QED
      BY <1>1, <2>1 DEF Coherent, LocksHeld
  <1> QED
    BY <1>1, <1>2, <1>3, <1>4, <1>5, <1>6, <1>7, <1>8, <1>9 DEF AccessFact

(* The locks of an access that goes on in its cache. *)
LEMMA GotoLocks ==
    ASSUME Inner, Coherent, Inner', NEW c \in Core, NEW q, q = stack[c], q # << >>,
           NEW f, NEW v, AccessFact(c, q, f, v), f.at \notin {"lockTcc", "lockBcc", "fill"},
           NEW h \in FrameSet, SameCall(h, f), h.at \notin {"lockTcc", "lockBcc", "fill"},
           stack' = [stack EXCEPT ![c] = <<h>> \o Tail(q)], tcc' = tcc, bcc' = bcc
    PROVE  LocksHeld'
  <1>1. PICK r : r = <<h>> \o Tail(q)
    OBVIOUS
  <1>2. /\ f = q[1] /\ Sane(c, q) /\ q \in Seq(FrameSet) /\ f \in AccessFrame /\ bcc[f.cache] = c
    BY DEF AccessFact
  <1>3. r # << >> /\ r[1] = h
    BY <1>1, <1>2, GotoSeq
  <1>4. h.kind = "access" /\ h.cache = f.cache
    BY <1>2 DEF SameCall, AccessFrame
  <1>5. \A k \in Cache : HoldsTop(r, k) => tcc'[k] = c
    <2> SUFFICES ASSUME NEW k \in Cache, HoldsTop(r, k) PROVE tcc'[k] = c
      OBVIOUS
    <2>1. SameCall(h, q[1]) /\ q[1].at # "lockTcc"
      BY <1>2
    <2>2. HoldsTop(q, k)
      BY <1>1, <1>2, <2>1, TopOfGoto
    <2> QED
      BY <2>2 DEF Coherent, LocksHeld
  <1>6. r[1].kind = "access" /\ bcc'[r[1].cache] = c /\ LocksHeld
    BY <1>2, <1>3, <1>4 DEF Coherent
  <1>7. stack' = [stack EXCEPT ![c] = r]
    BY <1>1
  <1> QED
    BY <1>3, <1>5, <1>6, <1>7, AccessLocksHeld

(* ... and of one that calls the parent's. *)
LEMMA CallLocks ==
    ASSUME Inner, Coherent, Inner', NEW c \in Core, NEW q, q = stack[c], q # << >>,
           NEW f, NEW v, AccessFact(c, q, f, v), f.at \notin {"lockTcc", "lockBcc", "fill"},
           NEW h \in FrameSet, SameCall(h, f),
           NEW g \in FrameSet, g.kind = "access", g.at = "lockTcc",
           stack' = [stack EXCEPT ![c] = <<g, h>> \o Tail(q)],
           tcc' = tcc, bcc' = [bcc EXCEPT ![f.cache] = Free]
    PROVE  LocksHeld'
  <1>1. PICK r : r = <<g, h>> \o Tail(q)
    OBVIOUS
  <1>2. /\ f = q[1] /\ Sane(c, q) /\ q \in Seq(FrameSet) /\ f.cache \in Cache /\ bcc[f.cache] = c
    BY DEF AccessFact
  <1>3. r # << >> /\ r[1] = g
    BY <1>1, <1>2, CallSeq
  <1>5. \A k \in Cache : HoldsTop(r, k) => tcc'[k] = c
    <2> SUFFICES ASSUME NEW k \in Cache, HoldsTop(r, k) PROVE tcc'[k] = c
      OBVIOUS
    <2>1. SameCall(h, q[1]) /\ q[1].at # "lockTcc"
      BY <1>2
    <2>2. HoldsTop(q, k)
      BY <1>1, <1>2, <2>1, TopOfCall
    <2> QED
      BY <2>2 DEF Coherent, LocksHeld
  <1>6. r[1].kind = "access" /\ r[1].at = "lockTcc" /\ LocksHeld
    BY <1>3 DEF Coherent
  <1>7. stack' = [stack EXCEPT ![c] = r]
    BY <1>1
  <1>8. \A k \in Cache : bcc'[k] = bcc[k] \/ bcc[k] \in {c, Free}
    BY <1>2 DEF Inner, Locks
  <1> QED
    BY <1>3, <1>5, <1>6, <1>7, <1>8, AccessLocksHeld

(* What follows for the calls. *)
LEMMA GotoCalls ==
    ASSUME NEW c, NEW q, q # << >>, NEW f, NEW v, AccessFact(c, q, f, v),
           \A x \in Cache : \A s \in Slots(x) : OwnPrint(q, x, s),
           NEW h \in FrameSet, SameCall(h, f), h.type = f.type, NEW w,
           FrameFact(h, TRUE)', KeepOK(h, w)'
    PROVE  Calls(<<h>> \o Tail(q), w)'
  <1>1. /\ Routes /\ f = q[1] /\ Sane(c, q) /\ q \in Seq(FrameSet) /\ f \in AccessFrame /\ Calls(q, v)
        /\ 2 \in 1..Len(q) => Called(q[2], f) /\ CallOK(q[2], f)
    BY DEF AccessFact
  <1>2. q[1].kind = "access" /\ SameCall(h, q[1])
    BY <1>1 DEF AccessFrame
  <1>3. \A i \in 2..Len(q) : KeepOK(q[i], w)'
    BY <1>1, <1>2, AccessRest
  <1>4. RestOK(q, w)'
    BY <1>1, <1>3, RestStays
  <1>5. 2 \in 1..Len(q) => CallOK(q[2], h)'
    BY <1>1, <1>2, AccessCalled
  <1> QED
    BY <1>1, <1>2, <1>4, <1>5, CallsGoto

(* The calls after an access of the parent. *)
LEMMA UpCalls ==
    ASSUME NEW c, NEW q, q # << >>, NEW f, NEW v, AccessFact(c, q, f, v),
           \A x \in Cache : \A s \in Slots(x) : OwnPrint(q, x, s),
           NEW h \in FrameSet, SameCall(h, f), h.type = f.type, NEW w,
           NEW g \in FrameSet, g.kind = "access", g.at = "lockTcc",
           h.at \notin {"evict", "grant"},
           FrameFact(h, FALSE)', FrameFact(g, TRUE)', CallOK(h, g)'
    PROVE  Calls(<<g, h>> \o Tail(q), w)'
  <1>1. /\ Routes /\ f = q[1] /\ Sane(c, q) /\ q \in Seq(FrameSet) /\ f \in AccessFrame /\ Calls(q, v)
        /\ 2 \in 1..Len(q) => Called(q[2], f) /\ CallOK(q[2], f)
        /\ \A j \in 2..Len(q) : q[j - 1].kind # "inv"
    BY DEF AccessFact, WorksAlone
  <1>2. q[1].kind = "access" /\ SameCall(h, q[1])
    BY <1>1 DEF AccessFrame
  <1>3. \A i \in 2..Len(q) : KeepOK(q[i], w)'
    BY <1>1, <1>2, AccessRest
  <1>4. RestOK(q, w)'
    BY <1>1, <1>3, RestStays
  <1>5. 2 \in 1..Len(q) => CallOK(q[2], h)'
    BY <1>1, <1>2, AccessCalled
  <1>6. KeepOK(g, w)' /\ KeepOK(h, w)' /\ g.kind # "inv"
    BY DEF KeepOK
  <1> QED
    BY <1>1, <1>2, <1>4, <1>5, <1>6, CallsCall

(* A call f that goes on at a: h is what becomes of it. *)
GoesOn(h, f, a) ==
    /\ h \in FrameSet /\ h.kind = "access" /\ SameCall(h, f) /\ h.at = a
    /\ h.cache = f.cache /\ h.addr = f.addr /\ h.type = f.type /\ h.line = f.line
    /\ h.child = f.child /\ h.slot = f.slot

(* The same call, one place further. *)
LEMMA GoOn ==
    ASSUME NEW f \in AccessFrame, NEW a \in Ats, NEW h, h = [f EXCEPT !.at = a]
    PROVE  GoesOn(h, f, a)
  BY DEF GoesOn, FrameSet, AccessFrame, SameCall

(* An access of the bank p above for the line s of k. *)
CallsUp(g, p, t, a, k, s, i) ==
    /\ g \in FrameSet /\ g.kind = "access" /\ g.at = "lockTcc" /\ g.cache = p /\ g.type = t
    /\ g.addr = a /\ g.child = k /\ g.slot = s /\ g.init = i

(* The call of the parent's access. *)
LEMMA CallUp ==
    ASSUME NEW k \in Cache, NEW a \in Addr, NEW p, p = Parent(k, a), p # Mem,
           NEW t \in {"GETS", "GETX", "PUTS", "PUTX"}, NEW s \in Slots(k), NEW i \in MESIStates, NEW x \in BOOLEAN,
           NEW g, g = Access(p, t, a, k, s, i, x)
    PROVE  CallsUp(g, p, t, a, k, s, i) /\ p \in Cache \ L1
  <1>1. p \in Cache \ L1
    BY ParentFacts
  <1>2. s \in Nat
    BY DEF Slots
  <1>3. g \in AccessFrame
    BY <1>1, <1>2 DEF Access, AccessFrame, Ats
  <1> QED
    BY <1>1, <1>3 DEF CallsUp, FrameSet, Access

(* The parent's access starts from the child's line as it is. *)
LEMMA CallsUpFact ==
    ASSUME NEW k, NEW s, NEW p, NEW t \in {"GETS", "GETX", "PUTS", "PUTX"},
           NEW a \in Addr, NEW i, NEW g, CallsUp(g, p, t, a, k, s, i),
           tag'[k][s] = a, st'[k][s] = i,
           \/ t = "GETS" /\ i = "I"
           \/ t = "GETX" /\ i \in {"I", "S"}
           \/ t = "PUTS" /\ i \in {"S", "E"}
           \/ t = "PUTX" /\ i = "M"
    PROVE  FrameFact(g, TRUE)'
  <1>1. ChildOK(g)'
    BY DEF ChildOK, CallsUp
  <1>2. LineOK(g, TRUE)'
    BY DEF LineOK, CallsUp
  <1>3. WorkOK(g, TRUE)'
    BY DEF WorkOK, CallsUp
  <1> QED
    BY <1>1, <1>2, <1>3 DEF FrameFact, CallsUp

(* processEviction: dirty data that the children bring in is that of an    *)
(* exclusive line.                                                         *)
LEMMA EvictCoherent ==
    ASSUME Inner, Coherent, NEW c \in Core, Evict(c)
    PROVE  ~failed' /\ (Inner' => Coherent')
  <1>1. PICK q : q = stack[c]
    OBVIOUS
  <1>2. q # << >> /\ q[1].kind = "access" /\ q[1].at = "evict"
    <2>1. q # << >> /\ Top(c).kind = "access" /\ Top(c).at = "evict"
      BY <1>1 DEF Evict, In
    <2> QED
      BY <1>1, <2>1, TopSays
  <1>3. PICK v : v = wb[c]
    OBVIOUS
  <1>4. PICK f : f = q[1]
    OBVIOUS
  <1>5. AccessFact(c, q, f, v)
    BY <1>1, <1>2, <1>3, <1>4, AccessSays
  <1>6. /\ Top(c) = f /\ Sane(c, q) /\ f \in AccessFrame /\ FrameOK(f) /\ f.cache \in Cache
        /\ f.addr \in Addr /\ LineOK(f, TRUE) /\ WorkOK(f, TRUE) /\ KeepOK(f, v) /\ v \in BOOLEAN
        /\ WorksAlone(q) /\ Visits(q, f.cache) /\ HoldsBottom(q, f.cache) /\ bcc[f.cache] = c
        /\ f.kind = "access" /\ f.at = "evict"
    BY <1>2, <1>4, <1>5 DEF AccessFact
  <1>7. PICK k \in Cache : k = f.cache
    BY <1>6
  <1>8. PICK s \in Slots(k) : s = f.line
    BY <1>6, <1>7 DEF FrameOK
  <1>9. PICK state : state = IF v THEN "M" ELSE st[k][s]
    OBVIOUS
  <1>10. PICK put : put = IF state = "M" THEN "PUTX" ELSE "PUTS"
    OBVIOUS
  <1>11. PICK h : h = [f EXCEPT !.at = "insert"]
    OBVIOUS
  <1>32. PICK p : p = Parent(k, tag[k][s])
    OBVIOUS
  <1>12. PICK g : g = Access(p, put, tag[k][s], k, s, state, FALSE)
    OBVIOUS
  <1>13. /\ f.todo = {} /\ dir' = [dir EXCEPT ![k][s].n = 0]
         /\ Check(wb[c] => HaveExclusive(k, s))
         /\ tag' = tag /\ tcc' = tcc /\ wb' = wb
         /\ IF state = "I" \/ p = Mem
              THEN st' = [st EXCEPT ![k][s] = "I"] /\ Goto(c, h) /\ bcc' = bcc
              ELSE st' = [st EXCEPT ![k][s] = state] /\ CallFrom(c, h, g)
                   /\ bcc' = [bcc EXCEPT ![k] = Free]
    BY <1>3, <1>6, <1>7, <1>8, <1>9, <1>10, <1>11, <1>32, <1>12 DEF Evict, DropChildLock
  <1>14. v => HaveExclusive(k, s)
    BY <1>6, <1>7, <1>8 DEF KeepOK
  <1>15. ~failed'
    BY <1>3, <1>13, <1>14 DEF Check, Coherent
  <1>16. dir[k][s].sharers = {}
    <2>1. InvType(f) = "INV"
      BY <1>6 DEF InvType
    <2> QED
      BY <1>6, <1>7, <1>8, <1>13, <2>1 DEF WorkOK
  <1>17. \A ch : ~InFlight(k, ch, s)
    <2>1. HasBottom(q, 1)
      BY <1>2 DEF HasBottom
    <2>2. q[1].at # "grant" /\ LocksHeld /\ k = q[1].cache
      BY <1>2, <1>4, <1>7 DEF Coherent
    <2>3. OnlyTop(c, q, k)
      BY <1>1, <1>2, <2>1, <2>2, TopQuiet
    <2> QED
      BY <2>2, <2>3 DEF OnlyTop
  <1>18. /\ state = "I" \/ p = Mem => st'[k][s] = "I"
         /\ state # "I" /\ p # Mem => st'[k][s] = state
         /\ \A x \in Cache : \A u \in Slots(x) : x # k \/ u # s => st'[x][u] = st[x][u]
    <2>1. IsArray(st, MESIStates)
      BY DEF Inner, Arrays
    <2>2. CASE state = "I" \/ p = Mem
      <3>1. st' = [st EXCEPT ![k][s] = "I"]
        BY <1>13, <2>2
      <3> QED
        BY <2>1, <2>2, <3>1 DEF IsArray
    <2>3. CASE ~(state = "I" \/ p = Mem)
      <3>1. st' = [st EXCEPT ![k][s] = state]
        BY <1>13, <2>3
      <3> QED
        BY <2>1, <2>3, <3>1 DEF IsArray
    <2> QED
      BY <2>2, <2>3
  <1>19. /\ dir'[k][s].sharers = dir[k][s].sharers /\ dir'[k][s].n = 0
         /\ \A x \in Cache : \A u \in Slots(x) : x # k \/ u # s => dir'[x][u] = dir[x][u]
    <2>1. dir' = [dir EXCEPT ![k][s].n = 0]
      BY <1>13
    <2> QED
      BY <2>1, ZeroCount
  <1>20. /\ st'[k][s] # "I" => st[k][s] # "I"
         /\ HaveExclusive(k, s)' => HaveExclusive(k, s)
         /\ Home(k, s) # Mem => (st[k][s] # "I" => st'[k][s] # "I")
                             /\ (HaveExclusive(k, s) => HaveExclusive(k, s)')
    <2>1. CASE state = "I" \/ p = Mem
      BY <1>9, <1>14, <1>18, <1>32, <2>1 DEF HaveExclusive, Home
    <2>2. CASE ~(state = "I" \/ p = Mem)
      BY <1>9, <1>14, <1>18, <2>2 DEF HaveExclusive
    <2> QED
      BY <2>1, <2>2
  <1>21. Evicted(k, s)
    BY <1>13, <1>18, <1>19, <1>20 DEF Evicted
  <1>22. \A x \in Cache : \A u \in Slots(x) : OwnPrint(q, x, u) /\ Footprint(q, x, u)
    <2> SUFFICES ASSUME NEW x \in Cache, NEW u \in Slots(x)
                 PROVE  OwnPrint(q, x, u) /\ Footprint(q, x, u)
      OBVIOUS
    <2>1. /\ q[1].kind = "access" /\ q[1].cache = k /\ tag'[x][u] = tag[x][u]
          /\ Visits(q, k) /\ HoldsBottom(q, k)
      BY <1>4, <1>6, <1>7, <1>13
    <2>2. CASE x = k /\ u = s
      <3>1. Home(x, u) = Mem \/ (HaveExclusive(x, u)' <=> HaveExclusive(x, u))
        BY <1>20, <2>2
      <3> QED
        BY <2>1, <2>2, <3>1 DEF OwnPrint, Footprint, TwoOf
    <2>3. CASE x # k \/ u # s
      BY <1>18, <1>19, <2>1, <2>3 DEF OwnPrint, Footprint, HaveExclusive
    <2> QED
      BY <2>2, <2>3
  <1>23. GoesOn(h, f, "insert")
    <2>1. "insert" \in Ats
      BY DEF Ats
    <2> QED
      BY <1>6, <1>11, <2>1, GoOn
  <1>24. /\ h \in FrameSet /\ SameCall(h, f) /\ h.type = f.type /\ h.at = "insert" /\ h.kind = "access"
         /\ h.cache = k /\ h.line = s /\ h.addr = f.addr /\ h.child = f.child /\ h.slot = f.slot
    BY <1>7, <1>8, <1>23 DEF GoesOn
  <1>25. ASSUME NEW inner \in BOOLEAN, inner => st'[k][s] = "I" PROVE FrameFact(h, inner)'
    <2>1. k \notin L1 => ChildOK(h)'
      <3> SUFFICES ASSUME k \notin L1 PROVE ChildOK(h)'
        OBVIOUS
      <3>1. /\ ChildOK(f) /\ f.child \in Cache /\ f.child # k /\ f.slot \in Slots(f.child)
        BY <1>5, <1>7 DEF AccessFact
      <3>2. st'[f.child][f.slot] = st[f.child][f.slot] /\ tag' = tag
        BY <1>13, <1>18, <3>1
      <3> QED
        BY <1>6, <1>24, <3>1, <3>2 DEF ChildOK
    <2>2. LineOK(h, inner)'
      <3>1. \A u \in Slots(k) : tag'[k][u] # f.addr
        BY <1>6, <1>7, <1>13 DEF LineOK
      <3>2. dir'[k][s].sharers = {}
        BY <1>16, <1>19
      <3> QED
        BY <1>24, <1>25, <3>1, <3>2 DEF LineOK
    <2>3. WorkOK(h, inner)'
      BY <1>24 DEF WorkOK
    <2> QED
      BY <1>6, <1>7, <1>24, <2>1, <2>2, <2>3 DEF FrameFact
  <1>26. \A x \in Cache : \A u \in Slots(x) : OwnPrint(q, x, u)
    BY <1>22
  <1>27. \A x \in Cache : \A u \in Slots(x) : Footprint(q, x, u)
    BY <1>22
  <1>28. wb' = [wb EXCEPT ![c] = v] /\ v \in BOOLEAN
    BY <1>3, <1>13, SameWb
  <1>29. f.at \notin {"lockTcc", "lockBcc", "fill"} /\ h.at \notin {"lockTcc", "lockBcc", "fill"}
    BY <1>6, <1>24
  <1>30. CASE state = "I" \/ p = Mem
    <2>1. PICK r : r = <<h>> \o Tail(q)
      OBVIOUS
    <2>2. stack' = [stack EXCEPT ![c] = r] /\ bcc' = bcc
      BY <1>1, <1>13, <1>30, <2>1 DEF Goto
    <2>3. KeepOK(h, v)' /\ FrameFact(h, TRUE)'
      BY <1>18, <1>24, <1>25, <1>30 DEF KeepOK
    <2>4. Calls(r, v)'
      BY <1>2, <1>5, <1>24, <1>26, <2>1, <2>3, GotoCalls
    <2>5. Inner' => LocksHeld'
      BY <1>1, <1>2, <1>5, <1>13, <1>24, <1>29, <2>1, <2>2, GotoLocks
    <2>6. Lines'
      <3>1. q[1].at = "evict" /\ k = q[1].cache /\ s = q[1].line
        BY <1>2, <1>4, <1>7, <1>8
      <3> QED
        BY <1>1, <1>6, <1>16, <1>17, <1>21, <2>2, <3>1, EvictLines
    <2>7. Inner' => Coherent'
      BY <1>1, <1>15, <1>27, <1>28, <2>2, <2>4, <2>5, <2>6, CoherentStep
    <2> QED
      BY <1>15, <2>7
  <1>31. CASE ~(state = "I" \/ p = Mem)
    <2>1. PICK r : r = <<g, h>> \o Tail(q)
      OBVIOUS
    <2>2. stack' = [stack EXCEPT ![c] = r] /\ bcc' = [bcc EXCEPT ![f.cache] = Free]
      BY <1>1, <1>7, <1>13, <1>31, <2>1 DEF CallFrom
    <2>3. PICK a \in Addr : a = tag[k][s]
      <3>1. st[k][s] # "I"
        BY <1>18, <1>20, <1>31
      <3>2. tag[k][s] # None
        BY <3>1 DEF Coherent, Lines, NamedLines
      <3> QED
        BY <3>2, EntryFacts
    <2>4. CallsUp(g, p, put, a, k, s, state) /\ put \in {"PUTS", "PUTX"} /\ state \in MESIStates
      <3>1. state \in MESIStates /\ put \in {"PUTS", "PUTX"}
        BY <1>9, <1>10, EntryFacts DEF MESIStates
      <3>2. g = Access(p, put, a, k, s, state, FALSE) /\ p # Mem /\ p = Parent(k, a)
        BY <1>12, <1>31, <1>32, <2>3
      <3> QED
        BY <3>1, <3>2, CallUp
    <2>5. FrameFact(g, TRUE)'
      <3>1. tag'[k][s] = a /\ st'[k][s] = state
        BY <1>13, <1>18, <1>31, <2>3
      <3>2. \/ put = "PUTS" /\ state \in {"S", "E"}
            \/ put = "PUTX" /\ state = "M"
        BY <1>10, <1>31, <2>4 DEF MESIStates
      <3> QED
        BY <2>4, <3>1, <3>2, CallsUpFact
    <2>6. g \in FrameSet /\ g.kind = "access" /\ g.at = "lockTcc" /\ g.type = put
      BY <2>4 DEF CallsUp
    <2>7. CallOK(h, g)'
      BY <1>24, <2>4, <2>6 DEF CallOK, IsPut
    <2>8. FrameFact(h, FALSE)' /\ h.at \notin {"evict", "grant"}
      BY <1>24, <1>25
    <2>9. Calls(r, v)'
      BY <1>2, <1>5, <1>24, <1>26, <2>1, <2>5, <2>6, <2>7, <2>8, UpCalls
    <2>10. Inner' => LocksHeld'
      BY <1>1, <1>2, <1>5, <1>13, <1>24, <1>29, <2>1, <2>2, <2>6, CallLocks
    <2>11. Lines'
      <3>1. q[1].at = "evict" /\ k = q[1].cache /\ s = q[1].line
        BY <1>2, <1>4, <1>7, <1>8
      <3> QED
        BY <1>1, <1>6, <1>16, <1>17, <1>21, <2>2, <3>1, EvictLines
    <2>12. Inner' => Coherent'
      BY <1>1, <1>15, <1>27, <1>28, <2>2, <2>9, <2>10, <2>11, CoherentStep
    <2> QED
      BY <1>15, <2>12
  <1> QED
    BY <1>30, <1>31

-----------------------------------------------------------------------------
(* A line is there, or takes a free slot: what BottomAccess makes of it. *)
Fetched(k, s, a) ==
    /\ dir' = dir /\ tag'[k][s] = a
    /\ \A x \in Cache : \A u \in Slots(x) : x # k \/ u # s =>
          st'[x][u] = st[x][u] /\ tag'[x][u] = tag[x][u]
    /\ \/ tag[k][s] = a
       \/ st[k][s] = "I" /\ dir[k][s].sharers = {} /\ \A u \in Slots(k) : tag[k][u] # a
    /\ st[k][s] # "I" => st'[k][s] # "I"
    /\ HaveExclusive(k, s) => HaveExclusive(k, s)'
    /\ Parent(k, a) # Mem => (st'[k][s] # "I" => st[k][s] # "I")
                          /\ (HaveExclusive(k, s)' => HaveExclusive(k, s))

(* Whether the memory is above a cache is no matter of the address. *)
LEMMA MemAbove ==
    ASSUME NEW k \in Cache, NEW a \in Addr \union {None}, NEW b \in Addr \union {None},
           Parent(k, a) = Mem
    PROVE  Parent(k, b) = Mem
  <1>1. Parents[k] = <<Mem>>
    BY ParentFacts
  <1>2. Banks(k) = {Mem}
    BY <1>1 DEF Banks
  <1> QED
    BY <1>2, ParentFacts

(* What one child asks a bank for, the others ask it for too. *)
LEMMA AllRouted ==
    ASSUME NEW k \in Cache, NEW a, k \in L1 \/ \E ch \in Children(k) : Parent(ch, a) = k
    PROVE  Routed(k, a)
  <1>1. k # Mem
    BY TreeAssumption
  <1>2. CASE k \in L1
    BY <1>1, <1>2, ChildFacts DEF Routed
  <1>3. CASE k \notin L1
    <2>1. PICK ch \in Children(k) : Parent(ch, a) = k
      BY <1>3
    <2> SUFFICES ASSUME NEW j \in Children(k) PROVE Parent(j, a) = k
      BY DEF Routed
    <2>2. /\ j \in Cache /\ ch \in Cache
          /\ k \in Banks(j) \intersect Banks(ch)
      BY DEF Children
    <2>3. Parents[j] = Parents[ch]
      BY <1>1, <2>2, SameBanks
    <2> QED
      BY <2>1, <2>3 DEF Parent
  <1> QED
    BY <1>2, <1>3

(* The lines after postinsert and processAccess: nothing below has the new *)
(* line, and a better permission comes from memory only.                   *)
LEMMA FetchLines ==
    ASSUME Inner, Coherent, NEW c \in Core, NEW q, q = stack[c], WorksAlone(q),
           q[1].at \in {"access", "insert"}, NEW r, stack' = [stack EXCEPT ![c] = r],
           NEW k \in Cache, NEW s \in Slots(k), NEW a \in Addr, Fetched(k, s, a), Routed(k, a)
    PROVE  Lines'
  <1>1. /\ dir' = dir /\ tag'[k][s] = a
        /\ \A x \in Cache : \A u \in Slots(x) : x # k \/ u # s =>
              st'[x][u] = st[x][u] /\ tag'[x][u] = tag[x][u]
        /\ \/ tag[k][s] = a
           \/ st[k][s] = "I" /\ dir[k][s].sharers = {} /\ \A u \in Slots(k) : tag[k][u] # a
        /\ st[k][s] # "I" => st'[k][s] # "I"
        /\ HaveExclusive(k, s) => HaveExclusive(k, s)'
        /\ Parent(k, a) # Mem => (st'[k][s] # "I" => st[k][s] # "I")
                              /\ (HaveExclusive(k, s)' => HaveExclusive(k, s))
    BY DEF Fetched
  <1>2. Lines /\ a # None
    BY TreeAssumption DEF Coherent
  <1>3. /\ \A x \in Cache : \A u \in Slots(x) : st[x][u] # "I" =>
              st'[x][u] # "I" /\ tag'[x][u] = tag[x][u]
        /\ \A x \in Cache : \A u \in Slots(x) : HaveExclusive(x, u) => HaveExclusive(x, u)'
        /\ \A x \in Cache : \A u \in Slots(x) : Home(x, u)' # Mem =>
              /\ st'[x][u] # "I" => st[x][u] # "I"
              /\ HaveExclusive(x, u)' => HaveExclusive(x, u)
    <2> SUFFICES ASSUME NEW x \in Cache, NEW u \in Slots(x)
                 PROVE  /\ st[x][u] # "I" => st'[x][u] # "I" /\ tag'[x][u] = tag[x][u]
                        /\ HaveExclusive(x, u) => HaveExclusive(x, u)'
                        /\ Home(x, u)' # Mem => /\ st'[x][u] # "I" => st[x][u] # "I"
                                                /\ HaveExclusive(x, u)' => HaveExclusive(x, u)
      BY Zenon DEF HaveExclusive
    <2>1. CASE x = k /\ u = s
      <3>1. Home(x, u)' = Parent(k, a)
        BY <1>1, <2>1 DEF Home
      <3> QED
        BY <1>1, <2>1, <3>1
    <2>2. CASE x # k \/ u # s
      BY <1>1, <2>2 DEF HaveExclusive
    <2> QED
      BY <2>1, <2>2
  <1>4. UniqueTags'
    <2> SUFFICES ASSUME NEW x \in Cache, NEW t \in Slots(x), NEW u \in Slots(x),
                        tag'[x][t] = tag'[x][u], tag'[x][t] # None
                 PROVE  t = u
      BY DEF UniqueTags
    <2>1. CASE tag[x][t] = tag'[x][t] /\ tag[x][u] = tag'[x][u]
      BY <1>2, <2>1 DEF Lines, UniqueTags
    <2>2. CASE ~(tag[x][t] = tag'[x][t] /\ tag[x][u] = tag'[x][u])
      <3>1. x = k /\ (t = s \/ u = s) /\ \A y \in Slots(k) : tag[k][y] # a
        BY <1>1, <2>2
      <3>2. \A y \in Slots(k) : y # s => tag'[k][y] # a
        BY <1>1, <3>1
      <3> QED
        BY <1>1, <3>1, <3>2
    <2> QED
      BY <2>1, <2>2
  <1>5. NamedLines'
    <2> SUFFICES ASSUME NEW x \in Cache, NEW u \in Slots(x), st'[x][u] # "I"
                 PROVE  tag'[x][u] # None
      BY DEF NamedLines
    <2>1. CASE x = k /\ u = s
      BY <1>1, <1>2, <2>1
    <2>2. CASE x # k \/ u # s
      BY <1>1, <1>2, <2>2 DEF Lines, NamedLines
    <2> QED
      BY <2>1, <2>2
  <1>13. Routes'
    <2> SUFFICES ASSUME NEW x \in Cache, NEW u \in Slots(x), tag'[x][u] # None
                 PROVE  Routed(x, tag'[x][u])
      BY DEF Routes, Routed
    <2>1. CASE x = k /\ u = s
      BY <1>1, <2>1
    <2>2. CASE x # k \/ u # s
      BY <1>1, <1>2, <2>2 DEF Lines, Routes
    <2> QED
      BY <2>1, <2>2
  <1>6. Siblings'
    <2> SUFFICES ASSUME NEW x \in Cache, NEW y \in Cache, x # y,
                        NEW t \in Slots(x), NEW u \in Slots(y),
                        Home(x, t)' = Home(y, u)', Home(x, t)' # Mem,
                        tag'[x][t] = tag'[y][u], HaveExclusive(x, t)', st'[y][u] # "I"
                 PROVE  FALSE
      BY DEF Siblings
    <2>1. HaveExclusive(x, t) /\ st[y][u] # "I"
      BY <1>3
    <2>2. tag[x][t] = tag'[x][t] /\ tag[y][u] = tag'[y][u]
      BY <1>3, <2>1 DEF HaveExclusive
    <2>3. Home(x, t) = Home(x, t)' /\ Home(y, u) = Home(y, u)'
      BY <2>2 DEF Home
    <2> QED
      BY <1>2, <2>1, <2>2, <2>3 DEF Lines, Siblings
  <1>7. /\ \A x, ch, u : ~Going(q, x, ch, u)
        /\ \A x, u : ~Working(q, x, u)
    BY DEF WorksAlone
  <1>8. Included'
    <2> SUFFICES ASSUME NEW ch \in Cache, NEW u \in Slots(ch), Home(ch, u)' # Mem, st'[ch][u] # "I"
                 PROVE  \E t \in Slots(Home(ch, u)') : InParent(ch, u, t)'
      BY DEF Included, Slots
    <2>8. st[ch][u] # "I" /\ Home(ch, u)' = Home(ch, u)
      BY <1>3 DEF Home
    <2>0. Home(ch, u) \in Cache /\ st[ch][u] # "I"
      BY <2>8, HomeFacts
    <2>1. PICK t \in Slots(Home(ch, u)) : InParent(ch, u, t)
      BY <1>2, <2>0, <2>8 DEF Lines, Included
    <2>2. PICK x \in Cache : x = Home(ch, u)
      BY <2>0
    <2>3. /\ tag[x][t] = tag[ch][u] /\ st[x][t] # "I" /\ t \in Slots(x)
          /\ HaveExclusive(ch, u) => HaveExclusive(x, t)
          /\ ch \in dir[x][t].sharers \/ InFlight(x, ch, t)
      BY <2>1, <2>2 DEF InParent
    <2>4. /\ st'[x][t] # "I" /\ tag'[x][t] = tag[x][t] /\ tag'[ch][u] = tag[ch][u]
          /\ HaveExclusive(ch, u)' => HaveExclusive(x, t)'
      BY <1>3, <2>0, <2>3
    <2>6. InFlight(x, ch, t) => InFlight(x, ch, t)'
      BY <1>7, InFlightStays
    <2>7. InParent(ch, u, t)'
      BY <1>1, <2>2, <2>3, <2>4, <2>6, <2>8 DEF InParent
    <2> QED
      BY <2>2, <2>3, <2>7, <2>8
  <1>9. \A x \in Cache : \A t \in Slots(x) : dir[x][t].sharers # {} => tag'[x][t] = tag[x][t]
    BY <1>1
  <1>10. Listed'
    <2> SUFFICES ASSUME NEW x \in Cache, NEW t \in Slots(x), NEW ch \in dir[x][t].sharers
                 PROVE  HasLine(ch, tag[x][t])'
      BY <1>1 DEF Listed
    <2>1. PICK u \in Slots(ch) : tag[ch][u] = tag[x][t] /\ st[ch][u] # "I"
      BY <1>2 DEF Lines, Listed, HasLine
    <2>2. ch \in Cache
      BY EntryFacts DEF Children
    <2>3. st'[ch][u] # "I" /\ tag'[ch][u] = tag'[x][t]
      BY <1>3, <1>9, <2>1, <2>2
    <2> QED
      BY <2>3 DEF HasLine
  <1>11. ASSUME NEW x \in Cache, NEW b PROVE Writable(x, b)' <=> Writable(x, b)
    <2>1. ASSUME NEW ch \in Children(x) PROVE CanWrite(ch, b)' <=> CanWrite(ch, b)
      <3>1. ch \in Cache /\ \A d \in Addr \union {None} : Parent(ch, d) # Mem
        BY <2>1, ChildFacts, TreeAssumption
      <3>4. \A u \in Slots(ch) : tag'[ch][u] \in Addr \union {None}
        BY <1>1, <3>1, EntryFacts
      <3>2. \A u \in Slots(ch) : HaveExclusive(ch, u)' <=> HaveExclusive(ch, u)
        BY <1>3, <3>1, <3>4 DEF Home
      <3>3. \A u \in Slots(ch) : HaveExclusive(ch, u) => tag'[ch][u] = tag[ch][u]
        BY <1>3, <3>1 DEF HaveExclusive
      <3> QED
        BY <3>2, <3>3 DEF CanWrite
    <2> QED
      BY <2>1 DEF Writable
  <1>12. Directory'
    <2> SUFFICES ASSUME NEW x \in Cache, NEW t \in Slots(x)
                 PROVE  (/\ dir[x][t].n \in 0..Cardinality(Children(x))
                         /\ EntryOK(x, t) \/ Busy(x, t))'
      BY DEF Directory
    <2>1. dir[x][t].n \in 0..Cardinality(Children(x)) /\ (EntryOK(x, t) \/ Busy(x, t))
      BY <1>2 DEF Lines, Directory
    <2>2. Busy(x, t) => Busy(x, t)'
      BY <1>7, BusyStays
    <2>3. EntryOK(x, t) => EntryOK(x, t)'
      <3> SUFFICES ASSUME EntryOK(x, t) PROVE EntryOK(x, t)'
        OBVIOUS
      <3>1. CountOK(dir[x][t])' /\ (IsExclusive(dir[x][t])' <=> IsExclusive(dir[x][t]))
        BY <1>1 DEF EntryOK, CountOK, IsExclusive
      <3>2. CASE tag'[x][t] = tag[x][t]
        BY <1>11, <3>1, <3>2 DEF EntryOK
      <3>3. CASE tag'[x][t] # tag[x][t]
        <4>1. /\ x = k /\ t = s /\ tag'[x][t] = a /\ dir[x][t].sharers = {}
              /\ \A u \in Slots(k) : tag[k][u] # a
          BY <1>1, <3>3
        <4>2. ~IsExclusive(dir[x][t])
          BY <4>1, FS_EmptySet DEF EntryOK, CountOK, IsExclusive
        <4>3. ~Writable(k, a)
          <5> SUFFICES ASSUME NEW ch \in Children(k), NEW u \in Slots(ch),
                              tag[ch][u] = a, HaveExclusive(ch, u)
                       PROVE  FALSE
            BY DEF Writable, CanWrite
          <5>1. Home(ch, u) = k /\ k # Mem /\ ch \in Cache /\ st[ch][u] # "I"
            BY TreeAssumption DEF Routed, Home, Children, HaveExclusive
          <5>2. PICK y \in Slots(k) : InParent(ch, u, y)
            BY <1>2, <5>1 DEF Lines, Included
          <5> QED
            BY <4>1, <5>1, <5>2 DEF InParent
        <4> QED
          BY <1>11, <3>1, <4>1, <4>2, <4>3 DEF EntryOK
      <3> QED
        BY <3>2, <3>3
    <2> QED
      BY <1>1, <2>1, <2>2, <2>3
  <1> QED
    BY <1>4, <1>5, <1>6, <1>8, <1>10, <1>12, <1>13 DEF Lines

(* MESIBottomCC::processAccess: the line is there with what a PUT needs,   *)
(* and a new one comes into an invalid place.                              *)
LEMMA BottomAccessCoherent ==
    ASSUME Inner, Coherent, NEW c \in Core, BottomAccess(c)
    PROVE  ~failed' /\ (Inner' => Coherent')
  <1>1. PICK q : q = stack[c]
    OBVIOUS
  <1>2. q # << >> /\ q[1].kind = "access" /\ q[1].at \in {"access", "insert"}
    <2>1. q # << >> /\ Top(c).kind = "access" /\ Top(c).at \in {"access", "insert"}
      BY <1>1 DEF BottomAccess, In
    <2> QED
      BY <1>1, <2>1, TopSays
  <1>3. PICK v : v = wb[c]
    OBVIOUS
  <1>4. PICK f : f = q[1]
    OBVIOUS
  <1>5. AccessFact(c, q, f, v)
    BY <1>1, <1>2, <1>3, <1>4, AccessSays
  <1>6. /\ Top(c) = f /\ Sane(c, q) /\ f \in AccessFrame /\ FrameOK(f) /\ f.cache \in Cache
        /\ f.addr \in Addr /\ LineOK(f, TRUE) /\ v \in BOOLEAN
        /\ WorksAlone(q) /\ Visits(q, f.cache) /\ HoldsBottom(q, f.cache) /\ bcc[f.cache] = c
        /\ f.kind = "access" /\ f.at \in {"access", "insert"}
    BY <1>2, <1>4, <1>5 DEF AccessFact
  <1>7. PICK k \in Cache : k = f.cache
    BY <1>6
  <1>8. PICK s \in Slots(k) : s = f.line
    BY <1>6, <1>7 DEF FrameOK
  <1>9. PICK a \in Addr : a = f.addr
    BY <1>6
  <1>10. PICK b \in Ats : b = IF k \in L1 THEN "end" ELSE "dir"
    BY DEF Ats
  <1>11. PICK h : h = [f EXCEPT !.at = b]
    OBVIOUS
  <1>36. PICK p : p = Parent(k, a)
    OBVIOUS
  <1>12. PICK g : g = Access(p, f.type, a, k, s, st[k][s], f.noexcl)
    OBVIOUS
  <1>13. /\ tag' = [tag EXCEPT ![k][s] = a]
         /\ Check(/\ f.at = "insert" => st[k][s] = "I"
                  /\ f.type = "PUTS" => st[k][s] # "I"
                  /\ f.type = "PUTX" => HaveExclusive(k, s))
         /\ \/ /\ NeedsParent(f.type, st[k][s]) /\ p # Mem
               /\ CallFrom(c, h, g) /\ bcc' = [bcc EXCEPT ![k] = Free] /\ st' = st
            \/ /\ NeedsParent(f.type, st[k][s]) /\ p = Mem
               /\ st' = [st EXCEPT ![k][s] = Granted(f.type, f.noexcl)]
               /\ Goto(c, h) /\ bcc' = bcc
            \/ /\ ~NeedsParent(f.type, st[k][s])
               /\ st' = [st EXCEPT ![k][s] = IF f.type \in {"GETX", "PUTX"} THEN "M" ELSE @]
               /\ Goto(c, h) /\ bcc' = bcc
         /\ dir' = dir /\ tcc' = tcc /\ wb' = wb
    BY <1>6, <1>7, <1>8, <1>9, <1>10, <1>11, <1>12, <1>36 DEF BottomAccess, DropChildLock
  <1>14. /\ st[k][s] \in MESIStates /\ f.type \in {"GETS", "GETX", "PUTS", "PUTX"}
         /\ f.noexcl \in BOOLEAN
    BY <1>6, EntryFacts DEF AccessFrame
  (* What the child needs of the line. *)
  <1>15. k \notin L1 =>
            /\ ChildOK(f) /\ f.child \in Cache /\ f.child # k /\ f.slot \in Slots(f.child)
            /\ f.child \in Children(k) /\ Home(f.child, f.slot) = k
    BY <1>5, <1>7 DEF AccessFact
  <1>16. IsPut(f.type) => /\ f.at = "access" /\ k \notin L1 /\ st[k][s] # "I"
                          /\ f.type = "PUTX" => HaveExclusive(k, s)
    <2> SUFFICES ASSUME IsPut(f.type)
                 PROVE  /\ f.at = "access" /\ k \notin L1 /\ st[k][s] # "I"
                        /\ f.type = "PUTX" => HaveExclusive(k, s)
      OBVIOUS
    <2>1. k \notin L1
      BY <1>6, <1>7 DEF FrameOK, IsPut
    <2>2. /\ tag[f.child][f.slot] = a /\ st[f.child][f.slot] # "I" /\ f.at = "access"
          /\ f.type = "PUTX" => HaveExclusive(f.child, f.slot)
      BY <1>6, <1>9, <1>15, <2>1 DEF ChildOK, IsPut, HaveExclusive
    <2>4. tag[k][s] = a
      BY <1>6, <1>7, <1>8, <1>9, <2>2 DEF LineOK
    <2>5. InParent(f.child, f.slot, s)
      BY <1>15, <2>1, <2>2, <2>4, PlaceInParent DEF Coherent
    <2> QED
      BY <1>15, <2>1, <2>2, <2>5 DEF InParent
  <1>17. f.at = "insert" => /\ st[k][s] = "I" /\ dir[k][s].sharers = {}
                            /\ \A u \in Slots(k) : tag[k][u] # a
    BY <1>6, <1>7, <1>8, <1>9 DEF LineOK
  <1>18. f.at = "access" => tag[k][s] = a
    BY <1>6, <1>7, <1>8, <1>9 DEF LineOK
  <1>19. ~failed'
    BY <1>13, <1>16, <1>17 DEF Check, Coherent, IsPut
  <1>20. /\ tag'[k][s] = a
         /\ \A x \in Cache : \A u \in Slots(x) : x # k \/ u # s => tag'[x][u] = tag[x][u]
    BY <1>13 DEF Inner, Arrays, IsArray
  <1>21. PICK new : new = IF ~NeedsParent(f.type, st[k][s])
                            THEN IF f.type \in {"GETX", "PUTX"} THEN "M" ELSE st[k][s]
                            ELSE IF p = Mem THEN Granted(f.type, f.noexcl) ELSE st[k][s]
    OBVIOUS
  <1>22. /\ st'[k][s] = new
         /\ \A x \in Cache : \A u \in Slots(x) : x # k \/ u # s => st'[x][u] = st[x][u]
    <2>1. IsArray(st, MESIStates)
      BY DEF Inner, Arrays
    <2>2. CASE NeedsParent(f.type, st[k][s]) /\ p # Mem
      BY <1>13, <1>21, <2>2
    <2>3. CASE NeedsParent(f.type, st[k][s]) /\ p = Mem
      <3>1. st' = [st EXCEPT ![k][s] = Granted(f.type, f.noexcl)]
        BY <1>13, <2>3
      <3> QED
        BY <1>21, <2>1, <2>3, <3>1 DEF IsArray
    <2>4. CASE ~NeedsParent(f.type, st[k][s])
      <3>1. st' = [st EXCEPT ![k][s] = IF f.type \in {"GETX", "PUTX"} THEN "M" ELSE @]
        BY <1>13, <2>4
      <3>2. st' = [st EXCEPT ![k][s] = new]
        BY <1>21, <2>4, <3>1
      <3> QED
        BY <2>1, <3>2 DEF IsArray
    <2> QED
      BY <2>2, <2>3, <2>4
  <1>23. /\ st[k][s] # "I" => new # "I"
         /\ st[k][s] \in {"E", "M"} => new \in {"E", "M"}
         /\ p # Mem => (new # "I" => st[k][s] # "I")
                            /\ (new \in {"E", "M"} => st[k][s] \in {"E", "M"})
         /\ ~(NeedsParent(f.type, st[k][s]) /\ p # Mem) => Served(f.type, new)
    BY <1>14, <1>16, <1>21 DEF NeedsParent, Granted, IsPut, HaveExclusive, Served, MESIStates
  <1>24. Fetched(k, s, a)
    <2>1. /\ st[k][s] # "I" => st'[k][s] # "I"
          /\ HaveExclusive(k, s) => HaveExclusive(k, s)'
          /\ Parent(k, a) # Mem => (st'[k][s] # "I" => st[k][s] # "I")
                                /\ (HaveExclusive(k, s)' => HaveExclusive(k, s))
      BY <1>22, <1>23, <1>36 DEF HaveExclusive
    <2>2. \/ tag[k][s] = a
          \/ st[k][s] = "I" /\ dir[k][s].sharers = {} /\ \A u \in Slots(k) : tag[k][u] # a
      BY <1>6, <1>17, <1>18
    <2> QED
      BY <1>13, <1>20, <1>22, <2>1, <2>2 DEF Fetched
  <1>25. \A x \in Cache : \A u \in Slots(x) : OwnPrint(q, x, u) /\ Footprint(q, x, u)
    <2> SUFFICES ASSUME NEW x \in Cache, NEW u \in Slots(x)
                 PROVE  OwnPrint(q, x, u) /\ Footprint(q, x, u)
      OBVIOUS
    <2>1. /\ q[1].kind = "access" /\ q[1].cache = k /\ dir'[x][u] = dir[x][u]
          /\ Visits(q, k) /\ HoldsBottom(q, k)
      BY <1>4, <1>6, <1>7, <1>13
    <2>2. CASE x = k /\ u = s
      <3>0. Home(x, u)' = p /\ (p = Mem => Home(x, u) = Mem)
        <4>1. tag[k][s] \in Addr \union {None}
          BY EntryFacts
        <4> QED
          BY <1>20, <1>36, <2>2, <4>1, MemAbove DEF Home
      <3>1. p = Mem \/ (HaveExclusive(x, u)' <=> HaveExclusive(x, u))
        BY <1>24, <1>36, <2>2 DEF Fetched
      <3>2. \/ tag'[x][u] = tag[x][u]
            \/ st[x][u] = "I" /\ (HaveExclusive(x, u)' => Home(x, u)' = Mem)
        BY <1>6, <1>17, <1>18, <1>20, <2>2, <3>0, <3>1 DEF HaveExclusive
      <3> QED
        BY <2>1, <2>2, <3>0, <3>1, <3>2 DEF OwnPrint, Footprint, TwoOf
    <2>3. CASE x # k \/ u # s
      BY <1>20, <1>22, <2>1, <2>3 DEF OwnPrint, Footprint, HaveExclusive
    <2> QED
      BY <2>2, <2>3
  <1>26. \A x \in Cache : \A u \in Slots(x) : OwnPrint(q, x, u)
    BY <1>25
  <1>27. \A x \in Cache : \A u \in Slots(x) : Footprint(q, x, u)
    BY <1>25
  <1>28. wb' = [wb EXCEPT ![c] = v] /\ v \in BOOLEAN
    BY <1>3, <1>13, SameWb
  <1>29. GoesOn(h, f, b)
    BY <1>6, <1>11, GoOn
  <1>30. /\ h \in FrameSet /\ SameCall(h, f) /\ h.type = f.type /\ h.kind = "access"
         /\ h.at = (IF k \in L1 THEN "end" ELSE "dir")
         /\ h.cache = k /\ h.line = s /\ h.addr = a /\ h.child = f.child /\ h.slot = f.slot
    BY <1>7, <1>8, <1>9, <1>10, <1>29 DEF GoesOn
  <1>31. f.at \notin {"lockTcc", "lockBcc", "fill"} /\ h.at \notin {"lockTcc", "lockBcc", "fill"}
    BY <1>6, <1>30
  <1>32. ASSUME NEW inner \in BOOLEAN, inner => Served(f.type, new) PROVE FrameFact(h, inner)'
    <2>1. k \notin L1 => ChildOK(h)'
      <3> SUFFICES ASSUME k \notin L1 PROVE ChildOK(h)'
        OBVIOUS
      <3>1. st'[f.child][f.slot] = st[f.child][f.slot] /\ tag'[f.child][f.slot] = tag[f.child][f.slot]
        BY <1>15, <1>20, <1>22
      <3> QED
        BY <1>6, <1>9, <1>15, <1>30, <3>1 DEF ChildOK
    <2>2. LineOK(h, inner)'
      BY <1>20, <1>22, <1>30, <1>32 DEF LineOK, Served
    <2>3. WorkOK(h, inner)'
      BY <1>30 DEF WorkOK
    <2> QED
      BY <1>30, <2>1, <2>2, <2>3 DEF FrameFact
  <1>33. ASSUME NEW r, stack' = [stack EXCEPT ![c] = r] PROVE Lines'
    <2>1. q[1].at \in {"access", "insert"} /\ WorksAlone(q)
      BY <1>2, <1>6
    <2>2. Routed(k, a)
      <3>1. k \notin L1 => Parent(f.child, a) = k
        BY <1>6, <1>9, <1>15 DEF ChildOK, Home
      <3> QED
        BY <1>15, <3>1, AllRouted
    <2> QED
      BY <1>1, <1>24, <1>33, <2>1, <2>2, FetchLines
  <1>34. CASE ~(NeedsParent(f.type, st[k][s]) /\ p # Mem)
    <2>1. PICK r : r = <<h>> \o Tail(q)
      OBVIOUS
    <2>2. stack' = [stack EXCEPT ![c] = r] /\ bcc' = bcc
      BY <1>1, <1>13, <1>34, <2>1 DEF Goto
    <2>3. KeepOK(h, v)' /\ FrameFact(h, TRUE)'
      BY <1>23, <1>30, <1>32, <1>34 DEF KeepOK
    <2>4. Calls(r, v)'
      BY <1>2, <1>5, <1>26, <1>30, <2>1, <2>3, GotoCalls
    <2>5. Inner' => LocksHeld'
      BY <1>1, <1>2, <1>5, <1>13, <1>30, <1>31, <2>1, <2>2, GotoLocks
    <2>6. Lines'
      BY <1>33, <2>2
    <2>7. Inner' => Coherent'
      BY <1>1, <1>19, <1>27, <1>28, <2>2, <2>4, <2>5, <2>6, CoherentStep
    <2> QED
      BY <1>19, <2>7
  <1>35. CASE NeedsParent(f.type, st[k][s]) /\ p # Mem
    <2>1. PICK r : r = <<g, h>> \o Tail(q)
      OBVIOUS
    <2>2. stack' = [stack EXCEPT ![c] = r] /\ bcc' = [bcc EXCEPT ![f.cache] = Free]
      BY <1>1, <1>7, <1>13, <1>35, <2>1 DEF CallFrom
    <2>3. CallsUp(g, p, f.type, a, k, s, st[k][s])
      BY <1>12, <1>14, <1>35, <1>36, CallUp
    <2>4. \/ f.type = "GETS" /\ st[k][s] = "I"
          \/ f.type = "GETX" /\ st[k][s] \in {"I", "S"}
      BY <1>35 DEF NeedsParent
    <2>5. FrameFact(g, TRUE)'
      <3>1. tag'[k][s] = a /\ st'[k][s] = st[k][s]
        BY <1>20, <1>21, <1>22, <1>35
      <3> QED
        BY <1>14, <2>3, <2>4, <3>1, CallsUpFact
    <2>6. g \in FrameSet /\ g.kind = "access" /\ g.at = "lockTcc" /\ g.type = f.type
      BY <2>3 DEF CallsUp
    <2>7. CallOK(h, g)'
      BY <1>30, <2>4, <2>6 DEF CallOK, IsPut
    <2>8. FrameFact(h, FALSE)' /\ h.at \notin {"evict", "grant"}
      BY <1>30, <1>32
    <2>9. Calls(r, v)'
      BY <1>2, <1>5, <1>26, <1>30, <2>1, <2>5, <2>6, <2>7, <2>8, UpCalls
    <2>10. Inner' => LocksHeld'
      BY <1>1, <1>2, <1>5, <1>13, <1>30, <1>31, <2>1, <2>2, <2>6, CallLocks
    <2>11. Lines'
      BY <1>33, <2>2
    <2>12. Inner' => Coherent'
      BY <1>1, <1>19, <1>27, <1>28, <2>2, <2>9, <2>10, <2>11, CoherentStep
    <2> QED
      BY <1>19, <2>12
  <1> QED
    BY <1>34, <1>35

-----------------------------------------------------------------------------
(* The directory entry of line s of k, and line t of the child j, when an  *)
(* access of j is done: what TopAccess and Grant make of them.             *)
ServeEntry(k, s, j, t) ==
    /\ dir'[k][s].sharers = (dir[k][s].sharers \ {j}) \union (IF st'[j][t] = "I" THEN {} ELSE {j})
    /\ CountOK(dir[k][s])'
    /\ IsExclusive(dir[k][s])' <=>
          HaveExclusive(j, t)' \/ \E ch \in Children(k) : ch # j /\ CanWrite(ch, tag[k][s])

Serves(k, s, j, t) ==
    /\ tag' = tag /\ tag[j][t] = tag[k][s] /\ tag[k][s] # None
    /\ \A x \in Cache : \A u \in Slots(x) :
          /\ (x # k \/ u # s) /\ (x # j \/ u # t) => st'[x][u] = st[x][u]
          /\ x # k \/ u # s => dir'[x][u] = dir[x][u]
    /\ st[k][s] # "I" /\ st'[k][s] # "I" /\ (HaveExclusive(k, s)' <=> HaveExclusive(k, s))
    /\ ServeEntry(k, s, j, t)
    /\ HaveExclusive(j, t)' => HaveExclusive(k, s)
    /\ HaveExclusive(j, t)' => \A ch \in Children(k) : ch # j => ~HasLine(ch, tag[k][s])
    /\ st'[j][t] # "I" => \A ch \in Children(k) : ch # j => ~CanWrite(ch, tag[k][s])
    /\ \/ st'[j][t] = "M"
       \/ \A ch \in Children(j) : \A u \in Slots(ch) : tag[ch][u] = tag[j][t] => st[ch][u] = "I"

(* Calls of the line may end, those of other lines may not. *)
ServesOnly(q, k, s, j) ==
    /\ \A x, u : Working(q, x, u) => x = k /\ u = s
    /\ \A x, ch, u : Going(q, x, ch, u) => x = k /\ ch = j /\ u = s

(* The lines after the directory's access: it changes one entry, and one   *)
(* line of one child.                                                      *)
LEMMA ServeLines ==
    ASSUME Inner, Coherent, NEW c \in Core, NEW q, q = stack[c],
           NEW r, stack' = [stack EXCEPT ![c] = r],
           NEW k \in Cache, NEW s \in Slots(k), NEW j \in Cache, NEW t \in Slots(j),
           j \in Children(k), Home(j, t) = k, j # k, ServesOnly(q, k, s, j), Serves(k, s, j, t)
    PROVE  Lines'
  <1>1. /\ tag' = tag /\ tag[j][t] = tag[k][s] /\ tag[k][s] # None
        /\ \A x \in Cache : \A u \in Slots(x) :
              /\ (x # k \/ u # s) /\ (x # j \/ u # t) => st'[x][u] = st[x][u]
              /\ x # k \/ u # s => dir'[x][u] = dir[x][u]
        /\ st[k][s] # "I" /\ st'[k][s] # "I" /\ (HaveExclusive(k, s)' <=> HaveExclusive(k, s))
        /\ HaveExclusive(j, t)' => HaveExclusive(k, s)
        /\ HaveExclusive(j, t)' => \A ch \in Children(k) : ch # j => ~HasLine(ch, tag[k][s])
        /\ st'[j][t] # "I" => \A ch \in Children(k) : ch # j => ~CanWrite(ch, tag[k][s])
        /\ \/ st'[j][t] = "M"
           \/ \A ch \in Children(j) : \A u \in Slots(ch) : tag[ch][u] = tag[j][t] => st[ch][u] = "I"
    BY DEF Serves
  <1>2. /\ dir'[k][s].sharers = (dir[k][s].sharers \ {j}) \union (IF st'[j][t] = "I" THEN {} ELSE {j})
        /\ CountOK(dir[k][s])'
        /\ IsExclusive(dir[k][s])' <=>
              HaveExclusive(j, t)' \/ \E ch \in Children(k) : ch # j /\ CanWrite(ch, tag[k][s])
    BY DEF Serves, ServeEntry
  <1>3. Lines /\ k # Mem
    BY TreeAssumption DEF Coherent
  <1>4. /\ \A x, u : Working(q, x, u) => x = k /\ u = s
        /\ \A x, ch, u : Going(q, x, ch, u) => x = k /\ ch = j /\ u = s
    BY DEF ServesOnly
  (* Every line but that of j is as valid, and as exclusive, as it was. *)
  <1>5. ASSUME NEW x \in Cache, NEW u \in Slots(x), x # j \/ u # t
        PROVE  /\ st'[x][u] = "I" <=> st[x][u] = "I"
               /\ HaveExclusive(x, u)' <=> HaveExclusive(x, u)
    <2>1. CASE x = k /\ u = s
      BY <1>1, <2>1
    <2>2. CASE x # k \/ u # s
      BY <1>1, <1>5, <2>2 DEF HaveExclusive
    <2> QED
      BY <2>1, <2>2
  <1>6. UniqueTags' /\ Routes'
    BY <1>1, <1>3 DEF Lines, UniqueTags, Routes
  <1>7. NamedLines'
    <2> SUFFICES ASSUME NEW x \in Cache, NEW u \in Slots(x), st'[x][u] # "I"
                 PROVE  tag'[x][u] # None
      BY DEF NamedLines
    <2>1. CASE x = j /\ u = t
      BY <1>1, <2>1
    <2>2. CASE x # j \/ u # t
      BY <1>1, <1>3, <1>5, <2>2 DEF Lines, NamedLines
    <2> QED
      BY <2>1, <2>2
  <1>8. Siblings'
    <2> SUFFICES ASSUME NEW x \in Cache, NEW y \in Cache, x # y,
                        NEW u \in Slots(x), NEW w \in Slots(y),
                        Home(x, u) = Home(y, w), Home(x, u) # Mem,
                        tag[x][u] = tag[y][w], HaveExclusive(x, u)', st'[y][w] # "I"
                 PROVE  FALSE
      BY <1>1 DEF Siblings, Home
    <2>0. x \in Children(Home(x, u)) /\ y \in Children(Home(y, w))
      BY HomeFacts
    <2>1. CASE x = j /\ u = t
      <3>1. y \in Children(k) /\ y # j /\ st[y][w] # "I" /\ tag[y][w] = tag[k][s]
        BY <1>1, <1>5, <2>0, <2>1
      <3> QED
        BY <1>1, <2>1, <3>1 DEF HasLine
    <2>2. CASE y = j /\ w = t
      <3>1. x \in Children(k) /\ x # j /\ HaveExclusive(x, u) /\ tag[x][u] = tag[k][s]
        BY <1>1, <1>5, <2>0, <2>2
      <3> QED
        BY <1>1, <2>2, <3>1 DEF CanWrite
    <2>3. CASE (x # j \/ u # t) /\ (y # j \/ w # t)
      <3>1. HaveExclusive(x, u) /\ st[y][w] # "I"
        BY <1>5, <2>3
      <3> QED
        BY <1>3, <3>1 DEF Lines, Siblings
    <2> QED
      BY <2>1, <2>2, <2>3
  <1>9. Included'
    <2> SUFFICES ASSUME NEW ch \in Cache, NEW u \in Slots(ch), Home(ch, u) # Mem, st'[ch][u] # "I"
                 PROVE  \E w \in Slots(Home(ch, u)) : InParent(ch, u, w)'
      BY <1>1 DEF Included, Home
    <2>3. Home(ch, u)' = Home(ch, u)
      BY <1>1 DEF Home
    <2>1. CASE ch = j /\ u = t
      <3>1. j \in dir'[k][s].sharers
        BY <1>2, <2>1
      <3>2. InParent(j, t, s)'
        BY <1>1, <2>1, <2>3, <3>1 DEF InParent
      <3> QED
        BY <2>1, <3>2
    <2>2. CASE ch # j \/ u # t
      <3>0. /\ Home(ch, u) \in Cache /\ ch \in Children(Home(ch, u)) /\ st[ch][u] # "I"
        BY <1>5, <2>2, HomeFacts
      <3>1. PICK w \in Slots(Home(ch, u)) : InParent(ch, u, w)
        BY <1>3, <3>0 DEF Lines, Included
      <3>2. PICK x \in Cache : x = Home(ch, u)
        BY <3>0
      <3>3. /\ tag[x][w] = tag[ch][u] /\ st[x][w] # "I" /\ w \in Slots(x)
            /\ HaveExclusive(ch, u) => HaveExclusive(x, w)
            /\ ch \in dir[x][w].sharers \/ InFlight(x, ch, w)
        BY <3>1, <3>2 DEF InParent
      <3>4. HaveExclusive(ch, u)' => HaveExclusive(ch, u)
        BY <1>5, <2>2
      <3>5. st'[x][w] # "I" /\ (HaveExclusive(ch, u)' => HaveExclusive(x, w)')
        <4>1. CASE x = j /\ w = t
          <5>1. ch \in Children(j) /\ tag[ch][u] = tag[j][t]
            BY <3>0, <3>2, <3>3, <4>1
          <5>2. st'[j][t] = "M"
            BY <1>1, <3>0, <5>1
          <5> QED
            BY <4>1, <5>2 DEF HaveExclusive
        <4>2. CASE x # j \/ w # t
          BY <1>5, <3>3, <3>4, <4>2
        <4> QED
          BY <4>1, <4>2
      <3>6. ~(x = k /\ ch = j /\ w = s)
        <4> SUFFICES ASSUME x = k, ch = j, w = s PROVE FALSE
          OBVIOUS
        <4>1. tag[j][u] = tag[j][t] /\ tag[j][t] # None
          BY <1>1, <3>3
        <4>2. u = t
          BY <1>3, <4>1 DEF Lines, UniqueTags
        <4> QED
          BY <2>2, <4>2
      <3>7. InFlight(x, ch, w) => InFlight(x, ch, w)'
        BY <1>4, <3>6, InFlightStays
      <3>8. ch \in dir[x][w].sharers => ch \in dir'[x][w].sharers
        <4>1. CASE x = k /\ w = s
          BY <1>2, <3>6, <4>1
        <4>2. CASE x # k \/ w # s
          BY <1>1, <3>3, <4>2
        <4> QED
          BY <4>1, <4>2
      <3>9. InParent(ch, u, w)'
        BY <1>1, <2>3, <3>2, <3>3, <3>5, <3>7, <3>8 DEF InParent
      <3> QED
        BY <3>2, <3>3, <3>9
    <2> QED
      BY <2>1, <2>2
  <1>10. Listed'
    <2> SUFFICES ASSUME NEW x \in Cache, NEW w \in Slots(x), NEW ch \in dir'[x][w].sharers
                 PROVE  HasLine(ch, tag[x][w])'
      BY <1>1 DEF Listed
    <2>1. CASE x = k /\ w = s /\ ch = j
      <3>1. st'[j][t] # "I"
        BY <1>2, <2>1
      <3> QED
        BY <1>1, <2>1, <3>1 DEF HasLine
    <2>2. CASE ~(x = k /\ w = s /\ ch = j)
      <3>1. ch \in dir[x][w].sharers
        <4>1. CASE x = k /\ w = s
          BY <1>2, <2>2, <4>1
        <4>2. CASE x # k \/ w # s
          BY <1>1, <4>2
        <4> QED
          BY <4>1, <4>2
      <3>2. PICK u \in Slots(ch) : tag[ch][u] = tag[x][w] /\ st[ch][u] # "I"
        BY <1>3, <3>1 DEF Lines, Listed, HasLine
      <3>3. ch \in Cache /\ ch \in Children(x)
        BY <3>1, EntryFacts DEF Children
      <3>4. ch # j \/ u # t
        <4> SUFFICES ASSUME ch = j, u = t PROVE FALSE
          OBVIOUS
        <4>0. Home(j, t) = x
          BY <1>1, <1>3, <3>2, <3>3, ChildHome
        <4>1. x = k /\ tag[k][w] = tag[k][s]
          BY <1>1, <3>2, <4>0
        <4>2. w = s
          BY <1>1, <1>3, <4>1 DEF Lines, UniqueTags
        <4> QED
          BY <2>2, <4>1, <4>2
      <3>5. st'[ch][u] # "I"
        BY <1>5, <3>2, <3>3, <3>4
      <3> QED
        BY <1>1, <3>2, <3>5 DEF HasLine
    <2> QED
      BY <2>1, <2>2
  <1>11. Directory'
    <2> SUFFICES ASSUME NEW x \in Cache, NEW w \in Slots(x)
                 PROVE  (/\ dir[x][w].n \in 0..Cardinality(Children(x))
                         /\ EntryOK(x, w) \/ Busy(x, w))'
      BY DEF Directory
    <2>1. ASSUME NEW ch \in Children(x), ~(x = k /\ w = s /\ ch = j)
          PROVE  CanWrite(ch, tag[x][w])' <=> CanWrite(ch, tag[x][w])
      <3>1. ch \in Cache
        BY DEF Children
      <3>2. \A u \in Slots(ch) : tag[ch][u] = tag[x][w] => ch # j \/ u # t
        <4> SUFFICES ASSUME NEW u \in Slots(ch), tag[ch][u] = tag[x][w], ch = j, u = t PROVE FALSE
          OBVIOUS
        <4>0. Home(j, t) = x
          BY <1>1, <1>3, ChildHome
        <4>1. x = k /\ tag[k][w] = tag[k][s]
          BY <1>1, <4>0
        <4>2. w = s
          BY <1>1, <1>3, <4>1 DEF Lines, UniqueTags
        <4> QED
          BY <2>1, <4>1, <4>2
      <3>3. \A u \in Slots(ch) : tag[ch][u] = tag[x][w] =>
               (HaveExclusive(ch, u)' <=> HaveExclusive(ch, u))
        BY <1>5, <3>1, <3>2
      <3> QED
        BY <1>1, <3>3 DEF CanWrite
    <2>2. CASE x = k /\ w = s
      <3>1. CanWrite(j, tag[k][s])' <=> HaveExclusive(j, t)'
        <4>1. \A u \in Slots(j) : tag[j][u] = tag[k][s] => u = t
          BY <1>1, <1>3 DEF Lines, UniqueTags
        <4> QED
          BY <1>1, <4>1 DEF CanWrite
      <3>2. j \in Children(k)
        OBVIOUS
      <3>3. Writable(k, tag[k][s])' <=>
               HaveExclusive(j, t)' \/ \E ch \in Children(k) : ch # j /\ CanWrite(ch, tag[k][s])
        BY <2>1, <2>2, <3>1, <3>2 DEF Writable
      <3>4. EntryOK(k, s)'
        BY <1>2, <3>3 DEF EntryOK
      <3>5. dir'[k][s].n \in 0..Cardinality(Children(k))
        <4>1. dir'[k][s].sharers \subseteq Children(k)
          BY <1>2, <3>2, EntryFacts
        <4>2. PICK S : S = dir'[k][s].sharers
          OBVIOUS
        <4>3. Cardinality(S) \in Nat /\ Cardinality(S) <= Cardinality(Children(k))
              /\ Cardinality(Children(k)) \in Nat
          BY <4>1, <4>2, CountType, FS_Subset, FS_CardinalityType
        <4>4. dir'[k][s].n = Cardinality(S)
          BY <1>2, <4>2 DEF CountOK
        <4> QED
          BY <4>3, <4>4
      <3> QED
        BY <2>2, <3>4, <3>5
    <2>3. CASE x # k \/ w # s
      <3>1. dir'[x][w] = dir[x][w]
        BY <1>1, <2>3
      <3>2. dir[x][w].n \in 0..Cardinality(Children(x)) /\ (EntryOK(x, w) \/ Busy(x, w))
        BY <1>3 DEF Lines, Directory
      <3>3. Busy(x, w) => Busy(x, w)'
        <4>1. ~Working(q, x, w)
          BY <1>4, <2>3
        <4> QED
          BY <4>1, BusyStays
      <3>4. Writable(x, tag[x][w])' <=> Writable(x, tag[x][w])
        BY <2>1, <2>3 DEF Writable
      <3>5. EntryOK(x, w) => EntryOK(x, w)'
        BY <1>1, <3>1, <3>4 DEF EntryOK, CountOK, IsExclusive
      <3> QED
        BY <3>1, <3>2, <3>3, <3>5
    <2> QED
      BY <2>2, <2>3
  <1> QED
    BY <1>6, <1>7, <1>8, <1>9, <1>10, <1>11 DEF Lines

(* The child has what it asked for, and the access ends. *)
ChildServed(type, state) ==
    \/ type = "GETS" /\ state # "I"
    \/ type = "GETX" /\ state = "M"
    \/ IsPut(type) /\ state = "I"

(* The directory's access has served the child: what is left to show. *)
LEMMA ServeCoherent ==
    ASSUME Inner, Coherent, NEW c \in Core, NEW q, q = stack[c], q # << >>,
           NEW f, NEW v, AccessFact(c, q, f, v), f.at \in {"dir", "grant"},
           NEW k \in Cache, k = f.cache, k \notin L1, NEW s \in Slots(k), s = f.line,
           NEW j \in Cache, j = f.child, NEW t \in Slots(j), t = f.slot,
           Serves(k, s, j, t), ChildServed(f.type, st'[j][t]),
           NEW h, GoesOn(h, f, "end"), stack' = [stack EXCEPT ![c] = <<h>> \o Tail(q)],
           NEW w \in BOOLEAN, wb' = [wb EXCEPT ![c] = w], tcc' = tcc, bcc' = bcc, ~failed', Inner'
    PROVE  Coherent'
  <1>1. PICK r : r = <<h>> \o Tail(q)
    OBVIOUS
  <1>2. stack' = [stack EXCEPT ![c] = r]
    BY <1>1
  <1>3. /\ f = q[1] /\ Sane(c, q) /\ f \in AccessFrame /\ f.addr \in Addr /\ WorksAlone(q)
        /\ ChildOK(f) /\ j \in Children(k) /\ Home(j, t) = k /\ j # k
        /\ Visits(q, k) /\ HoldsBottom(q, k) /\ 1 \in 1..Len(q)
    BY DEF AccessFact
  <1>4. Visits(q, j)
    <2>1. q[1].kind = "access" /\ q[1].cache \notin L1
      BY <1>3 DEF AccessFrame
    <2> QED
      BY <1>3, <2>1, Rights
  <1>5. /\ h \in FrameSet /\ SameCall(h, f) /\ h.type = f.type /\ h.at = "end" /\ h.kind = "access"
        /\ h.cache = k /\ h.line = s /\ h.addr = f.addr /\ h.child = j /\ h.slot = t
    BY DEF GoesOn
  <1>6. /\ tag' = tag
        /\ \A x \in Cache : \A u \in Slots(x) :
              /\ (x # k \/ u # s) /\ (x # j \/ u # t) => st'[x][u] = st[x][u]
              /\ x # k \/ u # s => dir'[x][u] = dir[x][u]
        /\ HaveExclusive(k, s)' <=> HaveExclusive(k, s)
        /\ st[k][s] # "I" /\ st'[k][s] # "I"
    BY DEF Serves
  <1>7. \A x \in Cache : \A u \in Slots(x) : OwnPrint(q, x, u) /\ Footprint(q, x, u)
    <2> SUFFICES ASSUME NEW x \in Cache, NEW u \in Slots(x)
                 PROVE  OwnPrint(q, x, u) /\ Footprint(q, x, u)
      OBVIOUS
    <2>1. /\ q[1].kind = "access" /\ q[1].cache = k /\ q[1].child = j /\ k \notin L1
          /\ tag'[x][u] = tag[x][u] /\ Visits(q, k) /\ HoldsBottom(q, k) /\ Visits(q, j)
          /\ Home(j, t) = k
      BY <1>3, <1>4, <1>6 DEF AccessFrame
    <2>2. CASE x = k /\ u = s
      BY <1>6, <2>1, <2>2 DEF OwnPrint, Footprint, TwoOf
    <2>3. CASE x = j /\ u = t
      <3>1. dir'[x][u] = dir[x][u]
        BY <1>3, <1>6, <2>3
      <3> QED
        BY <2>1, <2>3, <3>1 DEF OwnPrint, Footprint, TwoOf
    <2>4. CASE (x # k \/ u # s) /\ (x # j \/ u # t)
      <3>1. st'[x][u] = st[x][u] /\ dir'[x][u] = dir[x][u]
        BY <1>6, <2>4
      <3> QED
        BY <2>1, <3>1 DEF OwnPrint, Footprint, HaveExclusive
    <2> QED
      BY <2>2, <2>3, <2>4
  <1>8. \A x \in Cache : \A u \in Slots(x) : OwnPrint(q, x, u)
    BY <1>7
  <1>9. \A x \in Cache : \A u \in Slots(x) : Footprint(q, x, u)
    BY <1>7
  <1>10. FrameFact(h, TRUE)'
    <2>1. ChildOK(h)'
      <3>1. tag'[j][t] = f.addr
        BY <1>3, <1>6 DEF ChildOK
      <3> QED
        BY <1>5, <3>1 DEF ChildOK, ChildServed
    <2>2. LineOK(h, TRUE)'
      BY <1>5 DEF LineOK
    <2>3. WorkOK(h, TRUE)'
      BY <1>5 DEF WorkOK
    <2> QED
      BY <1>3, <1>5, <2>1, <2>2, <2>3 DEF FrameFact
  <1>11. KeepOK(h, w)'
    BY <1>5 DEF KeepOK
  <1>12. Calls(r, w)'
    BY <1>1, <1>5, <1>8, <1>10, <1>11, GotoCalls
  <1>13. LocksHeld'
    <2>1. f.at \notin {"lockTcc", "lockBcc", "fill"} /\ h.at \notin {"lockTcc", "lockBcc", "fill"}
      BY <1>5
    <2> QED
      BY <1>5, <2>1, GotoLocks
  <1>14. Lines'
    <2>1. ServesOnly(q, k, s, j)
      BY <1>3 DEF ServesOnly, WorksAlone
    <2> QED
      BY <1>2, <1>3, <2>1, ServeLines
  <1> QED
    BY <1>2, <1>9, <1>12, <1>13, <1>14, CoherentStep, ZenonT(90)

(* Nobody else can be at work on a line of a cache whose access c is in,   *)
(* if c has the bottom lock of the bank above that line.                   *)
LEMMA HeldAround ==
    ASSUME Inner, Coherent, NEW c \in Core, NEW d \in Core, d # c, NEW q, q = stack[c],
           NEW j \in Cache, NEW u \in Slots(j), Visits(q, j), HoldsBottom(q, Home(j, u)),
           NEW i, Holder(d, j, i), stack[d][i].at \in {"evict", "grant", "down"},
           stack[d][i].line = u
    PROVE  FALSE
  <1>1. PICK p : p = stack[d]
    OBVIOUS
  <1>2. /\ Sane(d, p) /\ i \in 1..Len(p) /\ p[i].cache = j /\ p[i].line = u
        /\ p[i].at \in {"evict", "grant", "down"} /\ Calls(p, wb[d])
    BY <1>1 DEF Inner, Holder, Coherent
  <1>3. Apart(p, q)
    BY <1>1, CoresApart DEF Coherent
  <1>4. Routes
    BY DEF Coherent, Lines
  <1>5. p[i].kind = "access" => Visits(p, j)
    BY <1>2, Rights
  <1>6. p[i].kind = "inv" => HoldsBottom(p, Home(j, u))
    <2> SUFFICES ASSUME p[i].kind = "inv" PROVE HoldsBottom(p, Home(j, u))
      OBVIOUS
    <2>1. HoldsBottom(p, p[i + 1].cache)
      BY <1>2, Rights
    <2>2. Home(j, u) = p[i + 1].cache
      BY <1>2, <1>4, InvHome
    <2> QED
      BY <2>1, <2>2
  <1>7. p[i].kind \in {"access", "inv"}
    BY <1>2, FrameFacts DEF Sane
  <1> QED
    BY <1>3, <1>5, <1>6, <1>7 DEF Apart

(* Nothing is in flight below a child's line whose call upwards waits. *)
LEMMA NothingBelow ==
    ASSUME Inner, Coherent, NEW c \in Core, NEW q, q = stack[c], WorksAlone(q),
           q[1].at # "grant", NEW j \in Cache, NEW s \in Slots(j), Visits(q, j),
           HoldsBottom(q, Home(j, s)), NEW ch
    PROVE  ~InFlight(j, ch, s)
  <1> SUFFICES ASSUME NEW d \in Core, Going(stack[d], j, ch, s) PROVE FALSE
    BY DEF InFlight
  <1>1. d # c /\ LocksHeld
    BY DEF WorksAlone, Coherent
  <1>2. CASE Leaving(stack[d], j, ch, s)
    <2>1. PICK p : p = stack[d]
      OBVIOUS
    <2>2. Sane(d, p) /\ Len(p) \in Nat
      BY <2>1 DEF Inner, Sane
    <2>3. PICK i \in 2..Len(p) : p[i - 1].kind = "inv" /\ p[i].cache = j /\ p[i].line = s
      BY <1>2, <2>1 DEF Leaving
    <2>4. i - 1 \in 1..Len(p) /\ (i - 1) + 1 = i /\ i \in 1..Len(p)
      BY <2>2
    <2>5. p[i].at \in {"evict", "grant", "down"}
      BY <2>2, <2>3, <2>4, Rights
    <2>6. Holder(d, j, i)
      BY <1>1, <2>1, <2>3, <2>4, <2>5, AtWork
    <2> QED
      BY <1>1, <2>1, <2>3, <2>5, <2>6, HeldAround
  <1>3. CASE Upgrading(stack[d], j, ch, s)
    <2>1. PICK i : Holder(d, j, i) /\ UpgradesFor(stack[d][i], ch, s)
      BY <1>1, <1>3, UpgradeHeld
    <2> QED
      BY <1>1, <2>1, HeldAround DEF UpgradesFor
  <1> QED
    BY <1>2, <1>3 DEF Going

(* What the directory knows when MESITopCC::processAccess begins: nobody   *)
(* else is at work on the entry of line s, and it lists j exactly if j's   *)
(* line t is valid.                                                        *)
DirFact(f, k, s, j, t) ==
    /\ k \notin L1 /\ j \in Children(k) /\ Home(j, t) = k /\ j # k
    /\ f.type \in {"GETS", "GETX", "PUTS", "PUTX"}
    /\ tag[k][s] = f.addr /\ tag[j][t] = f.addr /\ f.addr \in Addr /\ f.addr # None
    /\ Served(f.type, st[k][s]) /\ FreeEntryFact(k, s)
    /\ j \in dir[k][s].sharers <=> st[j][t] # "I"
    /\ CanWrite(j, f.addr) <=> HaveExclusive(j, t)
    /\ \/ f.type = "GETS" /\ st[j][t] = "I"
       \/ f.type = "GETX" /\ st[j][t] \in {"I", "S"}
       \/ f.type = "PUTS" /\ st[j][t] \in {"S", "E"}
       \/ f.type = "PUTX" /\ st[j][t] = "M"

(* A cache has an address in one line: whether it has it is what that line *)
(* says.                                                                   *)
LEMMA OnlyLine ==
    ASSUME UniqueTags, NEW j \in Cache, NEW t \in Slots(j), tag[j][t] # None
    PROVE  /\ HasLine(j, tag[j][t]) <=> st[j][t] # "I"
           /\ CanWrite(j, tag[j][t]) <=> HaveExclusive(j, t)
  <1>1. \A u \in Slots(j) : tag[j][u] = tag[j][t] => u = t
    BY DEF UniqueTags
  <1> QED
    BY <1>1 DEF HasLine, CanWrite

(* What MESITopCC::processAccess finds: the child's line, its own, and an  *)
(* entry that is exact for all but the child.                              *)
LEMMA DirSays ==
    ASSUME Inner, Coherent, NEW c \in Core, NEW q, q = stack[c], q # << >>,
           NEW f, NEW v, AccessFact(c, q, f, v), f.at = "dir",
           NEW k \in Cache, k = f.cache, NEW s \in Slots(k), s = f.line,
           NEW j \in Cache, j = f.child, NEW t \in Slots(j), t = f.slot
    PROVE  DirFact(f, k, s, j, t)
  <1>1. /\ f = q[1] /\ FrameOK(f) /\ f \in AccessFrame /\ f.addr \in Addr /\ LineOK(f, TRUE)
        /\ f.type \in {"GETS", "GETX", "PUTS", "PUTX"}
    BY DEF AccessFact, AccessFrame
  <1>2. k \notin L1
    BY <1>1 DEF FrameOK
  <1>3. ChildOK(f) /\ j \in Children(k) /\ Home(j, t) = k /\ j # k
    BY <1>2 DEF AccessFact
  <1>4. tag[k][s] = f.addr /\ tag[j][t] = f.addr /\ f.addr # None /\ Served(f.type, st[k][s])
    BY <1>1, <1>3, TreeAssumption DEF LineOK, ChildOK
  <1>5. FreeEntryFact(k, s)
    <2>1. HasBottom(q, 1) /\ k = q[1].cache /\ q[1].at = "dir" /\ LocksHeld /\ Lines
      BY <1>1 DEF HasBottom, Coherent
    <2>0. OnlyTop(c, q, k)
      BY <2>1, TopQuiet
    <2>2. \A ch : ~InFlight(k, ch, s)
      BY <2>0, <2>1 DEF OnlyTop
    <2>3. \A d \in Core : Working(stack[d], k, s) =>
             d = c /\ q[1].at \in {"evict", "grant", "down"} /\ q[1].line = s
      BY <2>0 DEF OnlyTop
    <2>4. ~Busy(k, s)
      BY <2>1, <2>3 DEF Busy
    <2> QED
      BY <2>1, <2>2, <2>4, FreeEntry
  <1>6. /\ HasLine(j, f.addr) <=> st[j][t] # "I"
        /\ CanWrite(j, f.addr) <=> HaveExclusive(j, t)
    <2>1. UniqueTags /\ tag[j][t] # None
      BY <1>4 DEF Coherent, Lines
    <2> QED
      BY <1>4, <2>1, OnlyLine
  <1>7. j \in dir[k][s].sharers <=> st[j][t] # "I"
    BY <1>3, <1>4, <1>5, <1>6 DEF FreeEntryFact
  <1>8. \/ f.type = "GETS" /\ st[j][t] = "I"
        \/ f.type = "GETX" /\ st[j][t] \in {"I", "S"}
        \/ f.type = "PUTS" /\ st[j][t] \in {"S", "E"}
        \/ f.type = "PUTX" /\ st[j][t] = "M"
    BY <1>3 DEF ChildOK
  <1> QED
    BY <1>1, <1>2, <1>3, <1>4, <1>5, <1>6, <1>7, <1>8 DEF DirFact

(* The sharers of an entry are finitely many. *)
LEMMA FiniteSharers ==
    ASSUME Inner, NEW k \in Cache, NEW s \in Slots(k)
    PROVE  /\ IsFiniteSet(dir[k][s].sharers) /\ dir[k][s].sharers \subseteq Children(k)
           /\ Cardinality(dir[k][s].sharers) \in Nat
  BY EntryFacts, CountType, FS_Subset, FS_CardinalityType

(* Taking one out of a finite set. *)
LEMMA RemoveOne ==
    ASSUME NEW S, IsFiniteSet(S), NEW x
    PROVE  /\ Cardinality(S) \in Nat /\ Cardinality(S \ {x}) \in Nat
           /\ Cardinality(S \ {x}) = IF x \in S THEN Cardinality(S) - 1 ELSE Cardinality(S)
  <1>1. CASE x \in S
    <2>1. IsFiniteSet(S \ {x}) /\ Cardinality(S \ {x}) = Cardinality(S) - 1
      BY <1>1, FS_RemoveElement
    <2> QED
      BY <1>1, <2>1, FS_CardinalityType
  <1>2. CASE x \notin S
    <2>1. S \ {x} = S
      BY <1>2
    <2> QED
      BY <1>2, <2>1, FS_CardinalityType
  <1> QED
    BY <1>1, <1>2

(* A PUT takes the child off the list. *)
PutLine(k, s, j, t) ==
    /\ tag' = tag
    /\ dir'[k][s].sharers = dir[k][s].sharers \ {j} /\ dir'[k][s].n = dir[k][s].n - 1
    /\ dir'[k][s].excl = dir[k][s].excl
    /\ st'[j][t] = "I"
    /\ \A x \in Cache : \A u \in Slots(x) :
          /\ x # j \/ u # t => st'[x][u] = st[x][u]
          /\ x # k \/ u # s => dir'[x][u] = dir[x][u]

(* A PUT: the child's line is gone, and its bit with it. *)
LEMMA PutServes ==
    ASSUME Inner, Coherent, NEW f, NEW k \in Cache, NEW s \in Slots(k), NEW j \in Cache,
           NEW t \in Slots(j), DirFact(f, k, s, j, t), IsPut(f.type), PutLine(k, s, j, t),
           \A ch \in Children(j) : \A u \in Slots(ch) : tag[ch][u] = tag[j][t] => st[ch][u] = "I"
    PROVE  Serves(k, s, j, t)
  <1>1. /\ j \in Children(k) /\ Home(j, t) = k /\ j # k
        /\ tag[k][s] = f.addr /\ tag[j][t] = f.addr /\ f.addr # None
        /\ st[k][s] # "I" /\ j \in dir[k][s].sharers /\ FreeEntryFact(k, s)
    BY DEF DirFact, Served, IsPut
  <1>2. /\ tag' = tag
        /\ dir'[k][s].sharers = dir[k][s].sharers \ {j} /\ dir'[k][s].n = dir[k][s].n - 1
        /\ dir'[k][s].excl = dir[k][s].excl
        /\ st'[j][t] = "I"
        /\ \A x \in Cache : \A u \in Slots(x) :
              /\ x # j \/ u # t => st'[x][u] = st[x][u]
              /\ x # k \/ u # s => dir'[x][u] = dir[x][u]
    BY DEF PutLine
  <1>3. st'[k][s] = st[k][s] /\ (HaveExclusive(k, s)' <=> HaveExclusive(k, s)) /\ ~HaveExclusive(j, t)'
    BY <1>1, <1>2 DEF HaveExclusive
  <1>4. /\ dir[k][s].n = Cardinality(dir[k][s].sharers) /\ (dir[k][s].n > 1 => ~dir[k][s].excl)
        /\ IsExclusive(dir[k][s]) <=> Writable(k, tag[k][s])
        /\ IsExclusive(dir[k][s]) => \E x \in Children(k) : dir[k][s].sharers = {x}
        /\ \A ch \in Children(k) : HasLine(ch, tag[k][s]) => ch \in dir[k][s].sharers
    BY <1>1 DEF FreeEntryFact, EntryOK, CountOK, Children
  <1>5. CountOK(dir[k][s])' /\ ~IsExclusive(dir[k][s])'
    <2>1. PICK S : S = dir[k][s].sharers
      OBVIOUS
    <2>2. Cardinality(S) \in Nat /\ Cardinality(S \ {j}) = Cardinality(S) - 1
      BY <1>1, <2>1, FiniteSharers, RemoveOne
    <2>3. dir'[k][s].n = Cardinality(S \ {j}) /\ dir'[k][s].sharers = S \ {j}
      BY <1>2, <1>4, <2>1, <2>2
    <2>4. dir'[k][s].n \in {1} \union {n \in Int : n > 1} => ~dir'[k][s].excl
      BY <1>2, <1>4, <2>1, <2>2
    <2> QED
      BY <2>2, <2>3, <2>4 DEF CountOK, IsExclusive
  <1>6. \A ch \in Children(k) : ch # j => ~CanWrite(ch, tag[k][s])
    <2> SUFFICES ASSUME NEW ch \in Children(k), ch # j, CanWrite(ch, tag[k][s]) PROVE FALSE
      OBVIOUS
    <2>1. HasLine(ch, tag[k][s]) /\ Writable(k, tag[k][s])
      BY DEF CanWrite, HasLine, HaveExclusive, Writable
    <2> QED
      BY <1>1, <1>4, <2>1
  <1>7. ServeEntry(k, s, j, t)
    <2>1. dir'[k][s].sharers = (dir[k][s].sharers \ {j}) \union (IF st'[j][t] = "I" THEN {} ELSE {j})
      BY <1>2
    <2> QED
      BY <1>3, <1>5, <1>6, <2>1 DEF ServeEntry
  <1> QED
    BY <1>1, <1>2, <1>3, <1>7 DEF Serves

(* The only child gets the line exclusively. *)
ExclusiveLine(k, s, j, t) ==
    /\ tag' = tag
    /\ dir'[k][s].sharers = {j} /\ dir'[k][s].n = 1 /\ dir'[k][s].excl = TRUE
    /\ st'[j][t] = "E"
    /\ \A x \in Cache : \A u \in Slots(x) :
          /\ x # j \/ u # t => st'[x][u] = st[x][u]
          /\ x # k \/ u # s => dir'[x][u] = dir[x][u]

(* A line that is invalid is in no cache below. *)
LEMMA InvalidBelow ==
    ASSUME Lines, NEW j \in Cache, NEW t \in Slots(j), st[j][t] = "I",
           NEW ch \in Children(j), NEW u \in Slots(ch), tag[ch][u] = tag[j][t]
    PROVE  st[ch][u] = "I"
  <1> SUFFICES ASSUME st[ch][u] # "I" PROVE FALSE
    OBVIOUS
  <1>1. ch \in Cache /\ tag[j][t] # None
    BY DEF Children, Lines, NamedLines
  <1>2. Home(ch, u) = j
    BY <1>1, ChildHome
  <1>3. InParent(ch, u, t)
    BY <1>1, <1>2, PlaceInParent
  <1> QED
    BY <1>2, <1>3 DEF InParent

(* A GETS of a line no other child has: the child gets it in E. *)
LEMMA ExclusiveServes ==
    ASSUME Inner, Coherent, NEW f, NEW k \in Cache, NEW s \in Slots(k), NEW j \in Cache,
           NEW t \in Slots(j), DirFact(f, k, s, j, t), f.type = "GETS", dir[k][s].n = 0,
           HaveExclusive(k, s), ExclusiveLine(k, s, j, t)
    PROVE  Serves(k, s, j, t)
  <1>1. /\ j \in Children(k) /\ Home(j, t) = k /\ j # k
        /\ tag[k][s] = f.addr /\ tag[j][t] = f.addr /\ f.addr # None
        /\ st[k][s] # "I" /\ FreeEntryFact(k, s) /\ st[j][t] = "I"
    BY DEF DirFact, Served
  <1>2. /\ tag' = tag
        /\ dir'[k][s].sharers = {j} /\ dir'[k][s].n = 1 /\ dir'[k][s].excl = TRUE
        /\ st'[j][t] = "E"
        /\ \A x \in Cache : \A u \in Slots(x) :
              /\ x # j \/ u # t => st'[x][u] = st[x][u]
              /\ x # k \/ u # s => dir'[x][u] = dir[x][u]
    BY DEF ExclusiveLine
  <1>3. st'[k][s] = st[k][s] /\ (HaveExclusive(k, s)' <=> HaveExclusive(k, s)) /\ HaveExclusive(j, t)'
    BY <1>1, <1>2 DEF HaveExclusive
  <1>4. dir[k][s].sharers = {}
    <2>1. Cardinality(dir[k][s].sharers) = 0
      BY <1>1 DEF FreeEntryFact, EntryOK, CountOK
    <2> QED
      BY <2>1, FiniteSharers, FS_EmptySet
  <1>5. \A ch \in Children(k) : ~HasLine(ch, tag[k][s])
    BY <1>1, <1>4 DEF FreeEntryFact, Children
  <1>6. \A ch \in Children(k) : ~CanWrite(ch, tag[k][s])
    BY <1>5 DEF CanWrite, HasLine, HaveExclusive
  <1>7. CountOK(dir[k][s])' /\ IsExclusive(dir[k][s])'
    <2>1. Cardinality({j}) = 1
      BY FS_Singleton
    <2>2. CountOK(dir[k][s])'
      BY <1>2, <2>1 DEF CountOK
    <2>3. IsExclusive(dir[k][s])'
      BY <1>2 DEF IsExclusive
    <2> QED
      BY <2>2, <2>3
  <1>8. ServeEntry(k, s, j, t)
    <2>1. dir'[k][s].sharers = (dir[k][s].sharers \ {j}) \union (IF st'[j][t] = "I" THEN {} ELSE {j})
      BY <1>2, <1>4
    <2> QED
      BY <1>3, <1>7, <2>1 DEF ServeEntry
  <1>9. \A ch \in Children(j) : \A u \in Slots(ch) : tag[ch][u] = tag[j][t] => st[ch][u] = "I"
    BY <1>1, InvalidBelow DEF Coherent
  <1> QED
    BY <1>1, <1>2, <1>3, <1>5, <1>6, <1>8, <1>9 DEF Serves

EntryWritten(k, l, S, n) ==
    /\ dir'[k][l].sharers = S /\ dir'[k][l].n = n /\ dir'[k][l].excl = dir[k][l].excl
    /\ \A x \in Cache : \A s \in Slots(x) : x # k \/ s # l => dir'[x][s] = dir[x][s]

(* What a PUT writes into the entry. *)
LEMMA PutWrites ==
    ASSUME Inner, NEW k \in Cache, NEW l \in Slots(k), NEW S,
           dir' = [dir EXCEPT ![k][l].sharers = S, ![k][l].n = @ - 1]
    PROVE  EntryWritten(k, l, S, dir[k][l].n - 1)
  <1> DEFINE e == dir[k][l]
             less == [e EXCEPT !.sharers = S]
             last == [less EXCEPT !.n = @ - 1]
  <1>1. DirOK(dir) /\ e \in Entries
    BY EntryFacts
  <1>2. dir' = [dir EXCEPT ![k][l] = last]
    BY <1>1 DEF DirOK, IsArray, Entries
  <1>3. last.sharers = S /\ last.n = e.n - 1 /\ last.excl = e.excl
    BY <1>1 DEF Entries
  <1> HIDE DEF last
  <1> QED
    BY <1>1, <1>2, <1>3 DEF EntryWritten, DirOK, IsArray

(* What a GETX writes into it before it sends its invalidations. *)
LEMMA AskWrites ==
    ASSUME Inner, NEW k \in Cache, NEW l \in Slots(k), NEW S, NEW b \in BOOLEAN,
           dir' = [dir EXCEPT ![k][l].sharers = S, ![k][l].n = IF b THEN @ - 1 ELSE @]
    PROVE  EntryWritten(k, l, S, IF b THEN dir[k][l].n - 1 ELSE dir[k][l].n)
  <1> DEFINE e == dir[k][l]
             less == [e EXCEPT !.sharers = S]
             last == [less EXCEPT !.n = IF b THEN @ - 1 ELSE @]
  <1>1. DirOK(dir) /\ e \in Entries
    BY EntryFacts
  <1>2. dir' = [dir EXCEPT ![k][l] = last]
    BY <1>1 DEF DirOK, IsArray, Entries
  <1>3. last.sharers = S /\ last.n = (IF b THEN e.n - 1 ELSE e.n) /\ last.excl = e.excl
    BY <1>1 DEF Entries
  <1> HIDE DEF last
  <1> QED
    BY <1>1, <1>2, <1>3 DEF EntryWritten, DirOK, IsArray

StateWritten(k, l, m) ==
    /\ st'[k][l] = m
    /\ \A x \in Cache : \A s \in Slots(x) : x # k \/ s # l => st'[x][s] = st[x][s]

(* One line changes its state. *)
LEMMA StateWrites ==
    ASSUME Inner, NEW k \in Cache, NEW l \in Slots(k), NEW m, st' = [st EXCEPT ![k][l] = m]
    PROVE  StateWritten(k, l, m)
  BY DEF Inner, Arrays, IsArray, StateWritten

(* Nothing is left below a line that its cache puts back. *)
LEMMA PutBelow ==
    ASSUME Inner, Coherent, NEW c \in Core, NEW q, q = stack[c], q # << >>,
           NEW f, NEW v, AccessFact(c, q, f, v), f.at = "dir", IsPut(f.type),
           NEW k \in Cache, k = f.cache, k \notin L1,
           NEW j \in Cache, j = f.child, NEW t \in Slots(j), t = f.slot,
           NEW ch \in Children(j), NEW u \in Slots(ch), tag[ch][u] = tag[j][t]
    PROVE  st[ch][u] = "I"
  <1>1. /\ f = q[1] /\ Sane(c, q) /\ f \in AccessFrame /\ 1 \in 1..Len(q) /\ f.kind = "access"
        /\ Calls(q, v) /\ WorksAlone(q) /\ HoldsBottom(q, k) /\ Home(j, t) = k
        /\ 2 \in 1..Len(q) => Called(q[2], f) /\ CallOK(q[2], f)
    BY DEF AccessFact, AccessFrame
  <1>2. /\ Visits(q, j) /\ 2 \in 1..Len(q) /\ q[2].kind = "access"
        /\ q[2].cache = j /\ q[2].line = t
    <2>1. 1 + 1 = 2
      OBVIOUS
    <2> QED
      BY <1>1, <2>1, Rights
  <1>3. q[2].at = "insert"
    BY <1>1, <1>2 DEF Called, CallOK
  <1>4. dir[j][t].sharers = {}
    <2>1. FrameFact(q[2], 2 = 1)
      BY <1>1, <1>2 DEF Calls
    <2> QED
      BY <1>2, <1>3, <2>1 DEF FrameFact, LineOK
  <1>5. \A x : ~InFlight(j, x, t)
    <2>1. q[1].at # "grant" /\ HoldsBottom(q, Home(j, t))
      BY <1>1
    <2> QED
      BY <1>1, <1>2, <2>1, NothingBelow
  <1> QED
    BY <1>4, <1>5, NoneBelow DEF Coherent

(* The access f of line s of k for the line t of the child j, before its   *)
(* turn at the directory.                                                  *)
DirBegun(c, q, v, f, k, s, j, t) ==
    /\ q = stack[c] /\ v = wb[c] /\ q # << >> /\ AccessFact(c, q, f, v)
    /\ Top(c) = f /\ f \in AccessFrame /\ f.at = "dir"
    /\ k \in Cache \ L1 /\ k = f.cache /\ s \in Slots(k) /\ s = f.line
    /\ j \in Cache /\ j = f.child /\ t \in Slots(j) /\ t = f.slot
    /\ DirFact(f, k, s, j, t)

(* MESITopCC::processAccess at its start: names for all it touches. *)
LEMMA DirBegins ==
    ASSUME Inner, Coherent, NEW c \in Core, In(c, "access", "dir")
    PROVE  \E q, v, f, k, s, j, t : DirBegun(c, q, v, f, k, s, j, t)
  <1>1. PICK q : q = stack[c]
    OBVIOUS
  <1>2. q # << >> /\ q[1].kind = "access" /\ q[1].at = "dir"
    <2>1. q # << >> /\ Top(c).kind = "access" /\ Top(c).at = "dir"
      BY <1>1 DEF In
    <2> QED
      BY <1>1, <2>1, TopSays
  <1>3. PICK v : v = wb[c]
    OBVIOUS
  <1>4. PICK f : f = q[1]
    OBVIOUS
  <1>5. AccessFact(c, q, f, v)
    BY <1>1, <1>2, <1>3, <1>4, AccessSays
  <1>6. Top(c) = f /\ f \in AccessFrame /\ FrameOK(f) /\ f.at = "dir" /\ f.cache \in Cache
    BY <1>2, <1>4, <1>5 DEF AccessFact
  <1>7. PICK k \in Cache : k = f.cache /\ k \notin L1
    BY <1>6 DEF FrameOK
  <1>8. PICK s \in Slots(k) : s = f.line
    BY <1>6, <1>7 DEF FrameOK
  <1>9. PICK j \in Cache : j = f.child
    BY <1>5, <1>7 DEF AccessFact
  <1>10. PICK t \in Slots(j) : t = f.slot
    BY <1>5, <1>7, <1>9 DEF AccessFact
  <1>11. DirFact(f, k, s, j, t)
    BY <1>1, <1>2, <1>5, <1>6, <1>7, <1>8, <1>9, <1>10, DirSays
  <1>12. DirBegun(c, q, v, f, k, s, j, t)
    BY <1>1, <1>2, <1>3, <1>5, <1>6, <1>7, <1>8, <1>9, <1>10, <1>11 DEF DirBegun
  <1> QED
    BY <1>12

(* A PUT finds the child among the sharers, exclusive if the line is       *)
(* dirty.                                                                  *)
LEMMA PutCoherent ==
    ASSUME Inner, Coherent, NEW c \in Core, TopAccess(c), IsPut(Top(c).type)
    PROVE  ~failed' /\ (Inner' => Coherent')
  <1>1. PICK q, v, f, k, s, j, t : DirBegun(c, q, v, f, k, s, j, t)
    <2>1. In(c, "access", "dir")
      BY DEF TopAccess
    <2> QED
      BY <2>1, DirBegins
  <1>2. /\ q = stack[c] /\ v = wb[c] /\ q # << >> /\ AccessFact(c, q, f, v)
        /\ Top(c) = f /\ f \in AccessFrame /\ f.at \in {"dir", "grant"} /\ f.at = "dir"
        /\ k \in Cache /\ k \notin L1 /\ k = f.cache /\ s \in Slots(k) /\ s = f.line
        /\ j \in Cache /\ j = f.child /\ t \in Slots(j) /\ t = f.slot
        /\ IsPut(f.type)
    BY <1>1 DEF DirBegun
  <1>3. DirFact(f, k, s, j, t)
    BY <1>1 DEF DirBegun
  <1>4. PICK h : h = [f EXCEPT !.at = "end"]
    OBVIOUS
  <1>5. /\ dir' = [dir EXCEPT ![k][s].sharers = dir[k][s].sharers \ {j}, ![k][s].n = @ - 1]
        /\ st' = [st EXCEPT ![j][t] = "I"] /\ Goto(c, h)
        /\ Check(j \in dir[k][s].sharers /\ (f.type = "PUTX" => IsExclusive(dir[k][s])))
        /\ wb' = [wb EXCEPT ![c] = FALSE] /\ tag' = tag /\ tcc' = tcc /\ bcc' = bcc
    BY <1>2, <1>4 DEF TopAccess, IsPut
  <1>6. j \in dir[k][s].sharers /\ (f.type = "PUTX" => IsExclusive(dir[k][s]))
    <2>1. j \in dir[k][s].sharers
      BY <1>2, <1>3 DEF DirFact, IsPut
    <2>2. f.type = "PUTX" => CanWrite(j, tag[k][s]) /\ j \in Children(k)
      BY <1>2, <1>3 DEF DirFact, HaveExclusive, Children
    <2>3. f.type = "PUTX" => Writable(k, tag[k][s])
      BY <2>2 DEF Writable
    <2> QED
      BY <1>3, <2>1, <2>3 DEF DirFact, FreeEntryFact, EntryOK
  <1>7. ~failed'
    BY <1>5, <1>6 DEF Check, Coherent
  <1>8. PutLine(k, s, j, t)
    <2>1. /\ dir' = [dir EXCEPT ![k][s].sharers = dir[k][s].sharers \ {j}, ![k][s].n = @ - 1]
          /\ st' = [st EXCEPT ![j][t] = "I"]
      BY <1>5
    <2>2. EntryWritten(k, s, dir[k][s].sharers \ {j}, dir[k][s].n - 1)
      BY <1>2, <2>1, PutWrites
    <2>3. StateWritten(j, t, "I")
      BY <1>2, <2>1, StateWrites
    <2> QED
      BY <1>5, <2>2, <2>3 DEF PutLine, EntryWritten, StateWritten
  <1>9. \A ch \in Children(j) : \A u \in Slots(ch) : tag[ch][u] = tag[j][t] => st[ch][u] = "I"
    BY <1>2, PutBelow
  <1>10. Serves(k, s, j, t)
    BY <1>2, <1>3, <1>8, <1>9, PutServes
  <1>11. ChildServed(f.type, st'[j][t])
    BY <1>2, <1>8 DEF ChildServed, PutLine
  <1>12. GoesOn(h, f, "end")
    <2>1. "end" \in Ats
      BY DEF Ats
    <2> QED
      BY <1>2, <1>4, <2>1, GoOn
  <1>13. stack' = [stack EXCEPT ![c] = <<h>> \o Tail(q)]
    BY <1>2, <1>5 DEF Goto
  <1>14. Inner' => Coherent'
    BY <1>2, <1>5, <1>7, <1>10, <1>11, <1>12, <1>13, ServeCoherent
  <1> QED
    BY <1>7, <1>14

(* A call that goes on to its grant. *)
GrantsOf(h, f, d) == GoesOn(h, f, "grant") /\ h.todo = d

(* The access goes on to its grant, once the other copies are gone. *)
LEMMA GoOnTo ==
    ASSUME NEW f \in AccessFrame, NEW d \in SUBSET Cache, NEW h, h = [f EXCEPT !.at = "grant", !.todo = d]
    PROVE  GrantsOf(h, f, d)
  BY DEF GrantsOf, GoesOn, FrameSet, AccessFrame, SameCall, Ats

(* A GETS finds the line valid and the child not among the sharers. *)
LEMMA GetsCoherent ==
    ASSUME Inner, Coherent, NEW c \in Core, TopAccess(c), Top(c).type = "GETS"
    PROVE  ~failed' /\ (Inner' => Coherent')
  <1>1. PICK q, v, f, k, s, j, t : DirBegun(c, q, v, f, k, s, j, t)
    <2>1. In(c, "access", "dir")
      BY DEF TopAccess
    <2> QED
      BY <2>1, DirBegins
  <1>2. /\ q = stack[c] /\ v = wb[c] /\ q # << >> /\ AccessFact(c, q, f, v)
        /\ Top(c) = f /\ f \in AccessFrame /\ f.at \in {"dir", "grant"} /\ f.at = "dir"
        /\ k \in Cache /\ k \notin L1 /\ k = f.cache /\ s \in Slots(k) /\ s = f.line
        /\ j \in Cache /\ j = f.child /\ t \in Slots(j) /\ t = f.slot
        /\ f.type = "GETS"
    BY <1>1 DEF DirBegun
  <1>3. DirFact(f, k, s, j, t)
    BY <1>1 DEF DirBegun
  <1>4. PICK b \in BOOLEAN : b = (dir[k][s].n = 0 /\ HaveExclusive(k, s) /\ ~f.noexcl)
    OBVIOUS
  <1>5. PICK h : h = [f EXCEPT !.at = "end"]
    OBVIOUS
  <1>6. PICK d : d = IF IsExclusive(dir[k][s]) THEN dir[k][s].sharers ELSE {}
    OBVIOUS
  <1>7. PICK g : g = [f EXCEPT !.at = "grant", !.todo = d]
    OBVIOUS
  <1>8. /\ IF b THEN /\ dir' = [dir EXCEPT ![k][s] = [sharers |-> {j}, n |-> 1, excl |-> TRUE]]
                     /\ st' = [st EXCEPT ![j][t] = "E"] /\ Goto(c, h)
                ELSE Goto(c, g) /\ st' = st /\ dir' = dir
        /\ Check(st[k][s] # "I" /\ j \notin dir[k][s].sharers)
        /\ wb' = [wb EXCEPT ![c] = FALSE] /\ tag' = tag /\ tcc' = tcc /\ bcc' = bcc
    BY <1>2, <1>4, <1>5, <1>6, <1>7 DEF TopAccess, IsPut
  <1>9. ~failed'
    <2>1. st[k][s] # "I" /\ j \notin dir[k][s].sharers
      BY <1>2, <1>3 DEF DirFact, Served
    <2> QED
      BY <1>8, <2>1 DEF Check, Coherent
  <1>10. CASE b
    <2>1. /\ dir' = [dir EXCEPT ![k][s] = [sharers |-> {j}, n |-> 1, excl |-> TRUE]]
          /\ st' = [st EXCEPT ![j][t] = "E"]
      BY <1>8, <1>10
    <2>2. ExclusiveLine(k, s, j, t)
      <3>1. StateWritten(j, t, "E")
        BY <1>2, <2>1, StateWrites
      <3>2. /\ dir'[k][s] = [sharers |-> {j}, n |-> 1, excl |-> TRUE]
            /\ \A x \in Cache : \A u \in Slots(x) : x # k \/ u # s => dir'[x][u] = dir[x][u]
        <4>1. IsArray(dir, Entries)
          BY DEF Inner, Arrays
        <4> QED
          BY <1>2, <2>1, <4>1 DEF IsArray
      <3> QED
        BY <1>8, <3>1, <3>2 DEF ExclusiveLine, StateWritten
    <2>3. Serves(k, s, j, t)
      <3>1. dir[k][s].n = 0 /\ HaveExclusive(k, s)
        BY <1>4, <1>10
      <3> QED
        BY <1>2, <1>3, <2>2, <3>1, ExclusiveServes
    <2>4. ChildServed(f.type, st'[j][t])
      BY <1>2, <2>2 DEF ChildServed, ExclusiveLine
    <2>5. GoesOn(h, f, "end")
      <3>1. "end" \in Ats
        BY DEF Ats
      <3> QED
        BY <1>2, <1>5, <3>1, GoOn
    <2>6. stack' = [stack EXCEPT ![c] = <<h>> \o Tail(q)]
      BY <1>2, <1>8, <1>10 DEF Goto
    <2>7. Inner' => Coherent'
      BY <1>2, <1>8, <1>9, <2>3, <2>4, <2>5, <2>6, ServeCoherent
    <2> QED
      BY <1>9, <2>7
  <1>11. CASE ~b
    <2>1. stack' = [stack EXCEPT ![c] = <<g>> \o Tail(q)] /\ st' = st /\ dir' = dir /\ tag' = tag
      BY <1>2, <1>8, <1>11 DEF Goto
    <2>2. GrantsOf(g, f, d)
      <3>1. d \in SUBSET Cache
        BY <1>2, <1>6, FiniteSharers DEF Children
      <3> QED
        BY <1>2, <1>7, <3>1, GoOnTo
    <2>3. /\ g \in FrameSet /\ g.kind = "access" /\ SameCall(g, f) /\ g.at = "grant"
          /\ g.cache = k /\ g.addr = f.addr /\ g.type = "GETS" /\ g.line = s
          /\ g.child = j /\ g.slot = t /\ g.todo = d
      BY <1>2, <2>2 DEF GrantsOf, GoesOn
    <2>4. FrameFact(g, TRUE)'
      <3>1. /\ tag'[k][s] = f.addr /\ tag'[j][t] = f.addr /\ f.addr \in Addr
            /\ Served("GETS", st'[k][s]) /\ st'[j][t] = "I"
        BY <1>2, <1>3, <2>1 DEF DirFact
      <3>2. ChildOK(g)'
        BY <2>3, <3>1 DEF ChildOK
      <3>3. LineOK(g, TRUE)'
        BY <2>3, <3>1 DEF LineOK
      <3>4. WorkOK(g, TRUE)
        <4>1. InvType(g) = "INVX"
          BY <2>3 DEF InvType
        <4>2. /\ CountOK(dir[k][s]) /\ (IsExclusive(dir[k][s]) <=> Writable(k, tag[k][s]))
              /\ IsExclusive(dir[k][s]) =>
                    \E x \in Children(k) : dir[k][s].sharers = {x} /\ CanWrite(x, tag[k][s])
          BY <1>3 DEF DirFact, FreeEntryFact, EntryOK
        <4>3. /\ d \subseteq dir[k][s].sharers /\ \A ch \in d : CanWrite(ch, tag[k][s])
              /\ d = {} => ~Writable(k, tag[k][s])
          BY <1>6, <4>2
        <4> QED
          BY <2>3, <4>1, <4>2, <4>3 DEF WorkOK
      <3>5. WorkOK(g, TRUE)'
        BY <2>1, <3>4 DEF WorkOK, InvType, CountOK, CanWrite, Writable, HaveExclusive
      <3> QED
        BY <2>3, <3>1, <3>2, <3>3, <3>5 DEF FrameFact
    <2>5. KeepOK(g, FALSE)'
      BY DEF KeepOK
    <2>6. /\ f = q[1] /\ q[1].kind = "access" /\ q[1].at = "dir" /\ bcc[k] = c
          /\ f.type = q[1].type
      BY <1>2 DEF AccessFact, AccessFrame
    <2>7. /\ q[1].at \notin {"evict", "grant"} /\ q[1].at # "down" /\ SameCall(g, q[1])
          /\ g.type = q[1].type \/ (IsPut(g.type) /\ IsPut(q[1].type))
          /\ g.at # "lockTcc" /\ (q[1].at = "lockTcc" => tcc'[q[1].cache] = c)
          /\ g.at \notin {"lockBcc", "fill"} => bcc'[q[1].cache] = c
      BY <1>2, <1>8, <2>3, <2>6
    <2>8. /\ \A x \in Cache : HoldsTop(q, x) => tcc'[x] = tcc[x]
          /\ \A x \in Cache : tcc'[x] = tcc[x] \/ tcc[x] \in {c, Free}
          /\ \A x \in Cache : bcc'[x] = bcc[x] \/ bcc[x] \in {c, Free}
      BY <1>8
    <2>9. Inner' => Coherent'
      <3>1. FALSE \in BOOLEAN /\ wb' = [wb EXCEPT ![c] = FALSE]
        BY <1>8
      <3> QED
        BY <1>2, <1>9, <2>1, <2>3, <2>4, <2>5, <2>6, <2>7, <2>8, <3>1, QuietGoto
    <2> QED
      BY <1>9, <2>9
  <1> QED
    BY <1>10, <1>11

(* A GETX finds the line in M, no exclusive copy in the child that asks,   *)
(* and as many sharers as it counts.                                       *)
LEMMA GetxCoherent ==
    ASSUME Inner, Coherent, NEW c \in Core, TopAccess(c), Top(c).type = "GETX"
    PROVE  ~failed' /\ (Inner' => Coherent')
  <1>1. PICK q, v, f, k, s, j, t : DirBegun(c, q, v, f, k, s, j, t)
    <2>1. In(c, "access", "dir")
      BY DEF TopAccess
    <2> QED
      BY <2>1, DirBegins
  <1>2. /\ q = stack[c] /\ v = wb[c] /\ q # << >> /\ AccessFact(c, q, f, v)
        /\ Top(c) = f /\ f \in AccessFrame /\ f.at \in {"dir", "grant"} /\ f.at = "dir"
        /\ k \in Cache /\ k \notin L1 /\ k = f.cache /\ s \in Slots(k) /\ s = f.line
        /\ j \in Cache /\ j = f.child /\ t \in Slots(j) /\ t = f.slot
        /\ f.type = "GETX"
    BY <1>1 DEF DirBegun
  <1>3. DirFact(f, k, s, j, t)
    BY <1>1 DEF DirBegun
  <1>4. PICK S : S = dir[k][s].sharers
    OBVIOUS
  <1>5. PICK b \in BOOLEAN : b = (j \in S)
    <2>1. CASE j \in S
      <3>1. TRUE = (j \in S)
        BY <2>1
      <3> QED
        BY <3>1
    <2>2. CASE j \notin S
      <3>1. FALSE = (j \in S)
        BY <2>2
      <3> QED
        BY <3>1
    <2> QED
      BY <2>1, <2>2
  <1>6. PICK d : d = S \ {j}
    OBVIOUS
  <1>7. PICK g : g = [f EXCEPT !.at = "grant", !.todo = d]
    OBVIOUS
  <1>8. /\ dir' = [dir EXCEPT ![k][s].sharers = d, ![k][s].n = IF b THEN @ - 1 ELSE @]
        /\ Goto(c, g) /\ st' = st
        /\ Check(/\ st[k][s] = "M"
                 /\ b => ~IsExclusive(dir[k][s])
                 /\ dir[k][s].n = Cardinality(S))
        /\ wb' = [wb EXCEPT ![c] = FALSE] /\ tag' = tag /\ tcc' = tcc /\ bcc' = bcc
    BY <1>2, <1>4, <1>5, <1>6, <1>7 DEF TopAccess, IsPut
  <1>9. /\ CountOK(dir[k][s])
        /\ IsExclusive(dir[k][s]) =>
              \E x \in Children(k) : dir[k][s].sharers = {x} /\ CanWrite(x, tag[k][s])
    BY <1>3 DEF DirFact, FreeEntryFact, EntryOK
  <1>10. ~failed'
    <2>1. st[k][s] = "M" /\ dir[k][s].n = Cardinality(S)
      BY <1>2, <1>3, <1>4, <1>9 DEF DirFact, Served, CountOK
    <2>2. b => ~IsExclusive(dir[k][s])
      <3> SUFFICES ASSUME b, IsExclusive(dir[k][s]) PROVE FALSE
        OBVIOUS
      <3>1. CanWrite(j, tag[k][s])
        BY <1>4, <1>5, <1>9
      <3> QED
        BY <1>2, <1>3, <3>1 DEF DirFact, HaveExclusive
    <2> QED
      BY <1>8, <2>1, <2>2 DEF Check, Coherent
  <1>11. IsFiniteSet(S) /\ S \subseteq Children(k) /\ d \in SUBSET Cache
    <2>1. IsFiniteSet(S) /\ S \subseteq Children(k)
      BY <1>2, <1>4, FiniteSharers
    <2> QED
      BY <1>6, <2>1 DEF Children
  <1>12. GrantsOf(g, f, d)
    BY <1>2, <1>7, <1>11, GoOnTo
  <1>13. /\ g \in FrameSet /\ g.kind = "access" /\ SameCall(g, f) /\ g.at = "grant"
         /\ g.cache = k /\ g.addr = f.addr /\ g.type = "GETX" /\ g.line = s
         /\ g.child = j /\ g.slot = t /\ g.todo = d
    BY <1>2, <1>12 DEF GrantsOf, GoesOn
  <1>14. EntryWritten(k, s, d, IF b THEN dir[k][s].n - 1 ELSE dir[k][s].n)
    <2>1. dir' = [dir EXCEPT ![k][s].sharers = d, ![k][s].n = IF b THEN @ - 1 ELSE @]
      BY <1>8
    <2> QED
      BY <1>2, <2>1, AskWrites
  <1>15. /\ dir'[k][s].sharers = d /\ dir'[k][s].n = Cardinality(d)
         /\ \A x \in Cache : \A u \in Slots(x) : x # k \/ u # s => dir'[x][u] = dir[x][u]
    <2>1. Cardinality(d) = IF b THEN Cardinality(S) - 1 ELSE Cardinality(S)
      BY <1>5, <1>6, <1>11, RemoveOne
    <2>2. dir[k][s].n = Cardinality(S)
      BY <1>4, <1>9 DEF CountOK
    <2> QED
      BY <1>14, <2>1, <2>2 DEF EntryWritten
  <1>16. dir'[k][s].n \in 0..Cardinality(Children(k)) /\ dir'[k][s].sharers \subseteq dir[k][s].sharers
    <2>1. d \subseteq Children(k)
      BY <1>6, <1>11
    <2>2. Cardinality(d) \in Nat /\ Cardinality(d) <= Cardinality(Children(k))
          /\ Cardinality(Children(k)) \in Nat
      BY <2>1, CountType, FS_Subset, FS_CardinalityType
    <2> QED
      BY <1>4, <1>6, <1>15, <2>2
  <1>17. PICK r : r = <<g>> \o Tail(q)
    OBVIOUS
  <1>18. stack' = [stack EXCEPT ![c] = r]
    BY <1>2, <1>8, <1>17 DEF Goto
  <1>19. /\ f = q[1] /\ Sane(c, q) /\ q \in Seq(FrameSet) /\ q[1].kind = "access" /\ q[1].at = "dir"
         /\ HoldsBottom(q, k) /\ Visits(q, k)
    BY <1>2 DEF AccessFact, AccessFrame
  <1>20. Len(r) \in Nat \ {0} /\ r[1] = g /\ 1 \in 1..Len(r)
    BY <1>2, <1>13, <1>17, <1>19, GotoSeq
  <1>21. Lines'
    <2>1. KeepsWork(q, r)
      <3>1. q[1].at \notin {"evict", "grant", "down"}
        BY <1>19
      <3> QED
        BY <1>2, <1>13, <1>17, <1>19, <3>1, WorkGoto
    <2>2. Working(r, k, s)
      BY <1>13, <1>20 DEF Working
    <2>3. Going(r, k, j, s)
      BY <1>13, <1>20 DEF Going, Upgrading
    <2>4. \A ch \in dir[k][s].sharers : ch \in dir'[k][s].sharers \/ Going(r, k, ch, s)
      BY <1>4, <1>6, <1>15, <2>3
    <2>5. \A x \in Cache : \A u \in Slots(x) : x # k \/ u # s => dir'[x][u] = dir[x][u]
      BY <1>15
    <2>6. dir'[k][s].sharers \subseteq dir[k][s].sharers
      BY <1>16
    <2>7. dir'[k][s].n \in 0..Cardinality(Children(k))
      BY <1>16
    <2>8. Lines /\ tag' = tag /\ st' = st
      BY <1>8 DEF Coherent
    <2>9. q = stack[c] /\ k \in Cache /\ s \in Slots(k)
      BY <1>2
    <2> QED
      BY <1>18, <2>1, <2>2, <2>4, <2>5, <2>6, <2>7, <2>8, <2>9, LinesShrink
  <1>22. \A x \in Cache : \A u \in Slots(x) : OwnPrint(q, x, u) /\ Footprint(q, x, u)
    <2> SUFFICES ASSUME NEW x \in Cache, NEW u \in Slots(x)
                 PROVE  OwnPrint(q, x, u) /\ Footprint(q, x, u)
      OBVIOUS
    <2>1. /\ q[1].kind = "access" /\ q[1].cache = k /\ tag'[x][u] = tag[x][u]
          /\ st'[x][u] = st[x][u] /\ (HaveExclusive(x, u)' <=> HaveExclusive(x, u))
      BY <1>2, <1>8, <1>19 DEF HaveExclusive
    <2>2. CASE x = k
      BY <1>19, <2>1, <2>2 DEF OwnPrint, Footprint
    <2>3. CASE x # k
      <3>1. dir'[x][u] = dir[x][u]
        BY <1>15, <2>3
      <3> QED
        BY <2>1, <3>1 DEF OwnPrint, Footprint
    <2> QED
      BY <2>2, <2>3
  <1>23. \A x \in Cache : \A u \in Slots(x) : OwnPrint(q, x, u)
    BY <1>22
  <1>24. \A x \in Cache : \A u \in Slots(x) : Footprint(q, x, u)
    BY <1>22
  <1>25. FrameFact(g, TRUE)'
    <2>1. /\ tag'[k][s] = f.addr /\ tag'[j][t] = f.addr /\ f.addr \in Addr
          /\ Served("GETX", st'[k][s]) /\ st'[j][t] \in {"I", "S"}
      BY <1>2, <1>3, <1>8 DEF DirFact
    <2>2. ChildOK(g)'
      BY <1>13, <2>1 DEF ChildOK
    <2>3. LineOK(g, TRUE)'
      BY <1>13, <2>1 DEF LineOK
    <2>4. WorkOK(g, TRUE)'
      BY <1>13, <1>15 DEF WorkOK, InvType
    <2> QED
      BY <1>13, <2>1, <2>2, <2>3, <2>4 DEF FrameFact
  <1>26. KeepOK(g, FALSE)'
    BY DEF KeepOK
  <1>27. Calls(r, FALSE)'
    <2>1. g.type = f.type
      BY <1>2, <1>13
    <2> QED
      BY <1>2, <1>13, <1>17, <1>23, <1>25, <1>26, <2>1, GotoCalls
  <1>28. Inner' => LocksHeld'
    <2>1. f.at \notin {"lockTcc", "lockBcc", "fill"} /\ g.at \notin {"lockTcc", "lockBcc", "fill"}
      BY <1>2, <1>13
    <2> QED
      BY <1>2, <1>8, <1>13, <1>17, <1>18, <2>1, GotoLocks
  <1>29. Inner' => Coherent'
    <2>1. FALSE \in BOOLEAN /\ wb' = [wb EXCEPT ![c] = FALSE]
      BY <1>8
    <2> QED
      BY <1>2, <1>10, <1>18, <1>21, <1>24, <1>27, <1>28, <2>1, CoherentStep
  <1> QED
    BY <1>10, <1>29

(* MESITopCC::processAccess as a whole. *)
LEMMA TopAccessCoherent ==
    ASSUME Inner, Coherent, NEW c \in Core, TopAccess(c)
    PROVE  ~failed' /\ (Inner' => Coherent')
  <1>1. IsPut(Top(c).type) \/ Top(c).type = "GETS" \/ Top(c).type = "GETX"
    BY DEF TopAccess
  <1> QED
    BY <1>1, PutCoherent, GetsCoherent, GetxCoherent

(* What Grant writes. *)
Granting(k, s, j, t, e, m, n) ==
    /\ tag' = tag
    /\ dir'[k][s].sharers = e.sharers /\ dir'[k][s].n = e.n /\ dir'[k][s].excl = e.excl
    /\ st'[j][t] = m /\ st'[k][s] = n
    /\ \A x \in Cache : \A u \in Slots(x) :
          /\ (x # k \/ u # s) /\ (x # j \/ u # t) => st'[x][u] = st[x][u]
          /\ x # k \/ u # s => dir'[x][u] = dir[x][u]

(* What the end of MESITopCC::processAccess writes. *)
LEMMA GrantWrites ==
    ASSUME Inner, NEW k \in Cache, NEW s \in Slots(k), NEW j \in Cache, j # k, NEW t \in Slots(j),
           NEW e, NEW m, NEW n, tag' = tag, dir' = [dir EXCEPT ![k][s] = e],
           st' = [st EXCEPT ![j][t] = m, ![k][s] = n]
    PROVE  Granting(k, s, j, t, e, m, n)
  <1>1. IsArray(dir, Entries) /\ IsArray(st, MESIStates)
    BY DEF Inner, Arrays
  <1>2. /\ dir'[k][s] = e
        /\ \A x \in Cache : \A u \in Slots(x) : x # k \/ u # s => dir'[x][u] = dir[x][u]
    BY <1>1 DEF IsArray
  <1>3. /\ st'[j][t] = m /\ st'[k][s] = n
        /\ \A x \in Cache : \A u \in Slots(x) :
              (x # k \/ u # s) /\ (x # j \/ u # t) => st'[x][u] = st[x][u]
    BY <1>1 DEF IsArray
  <1> QED
    BY <1>2, <1>3 DEF Granting

(* What it knows of the line and of its children. *)
GrantFact(f, k, s, j, t) ==
    /\ k \notin L1 /\ j \in Children(k) /\ Home(j, t) = k /\ j # k
    /\ f.type \in {"GETS", "GETX"}
    /\ tag[k][s] = f.addr /\ tag[j][t] = f.addr /\ f.addr \in Addr /\ f.addr # None
    /\ Served(f.type, st[k][s])
    /\ IF f.type = "GETX"
         THEN /\ dir[k][s].sharers = {}
              /\ \A ch \in Children(k) : ch # j => ~HasLine(ch, tag[k][s])
         ELSE /\ CountOK(dir[k][s]) /\ ~Writable(k, tag[k][s])
              /\ j \notin dir[k][s].sharers /\ st[j][t] = "I"

(* All that is in flight while a grant is at the top is its own child's    *)
(* upgrade.                                                                *)
LEMMA OnlyForChild ==
    ASSUME Inner, LocksHeld, NEW c \in Core, NEW q, q = stack[c], q # << >>, HasBottom(q, 1),
           NEW k \in Cache, k = q[1].cache, NEW s, NEW x, InFlight(k, x, s)
    PROVE  q[1].child = x
  <1>1. OnlyTop(c, q, k)
    BY TopQuiet
  <1> QED
    BY <1>1 DEF OnlyTop

(* What the grant finds when the other copies are gone, or shared. *)
LEMMA GrantSays ==
    ASSUME Inner, Coherent, NEW c \in Core, NEW q, q = stack[c], q # << >>,
           NEW f, NEW v, AccessFact(c, q, f, v), f.at = "grant", f.todo = {},
           NEW k \in Cache, k = f.cache, NEW s \in Slots(k), s = f.line,
           NEW j \in Cache, j = f.child, NEW t \in Slots(j), t = f.slot
    PROVE  GrantFact(f, k, s, j, t)
  <1>1. /\ f = q[1] /\ FrameOK(f) /\ f \in AccessFrame /\ f.addr \in Addr /\ LineOK(f, TRUE)
        /\ WorkOK(f, TRUE) /\ f.kind = "access"
    BY DEF AccessFact, AccessFrame
  <1>2. k \notin L1
    BY <1>1 DEF FrameOK
  <1>3. ChildOK(f) /\ j \in Children(k) /\ Home(j, t) = k /\ j # k
    BY <1>2 DEF AccessFact
  <1>4. tag[k][s] = f.addr /\ tag[j][t] = f.addr /\ f.addr # None /\ Served(f.type, st[k][s])
    BY <1>1, <1>3, TreeAssumption DEF LineOK, ChildOK
  <1>5. f.type \in {"GETS", "GETX"} /\ (f.type = "GETS" => st[j][t] = "I")
    BY <1>3 DEF ChildOK
  <1>6. Lines /\ LocksHeld
    BY DEF Coherent
  <1>7. CASE f.type = "GETX"
    <2>1. dir[k][s].sharers = {}
      <3>1. InvType(f) = "INV"
        BY <1>7 DEF InvType
      <3> QED
        BY <1>1, <3>1 DEF WorkOK
    <2>2. ASSUME NEW ch \in Children(k), ch # j PROVE ~HasLine(ch, tag[k][s])
      <3>1. ~InFlight(k, ch, s)
        <4>1. HasBottom(q, 1) /\ k = q[1].cache /\ LocksHeld
          BY <1>1, <1>6 DEF HasBottom
        <4> QED
          BY <1>1, <2>2, <4>1, OnlyForChild
      <3> QED
        BY <1>6, <2>1, <3>1, SharersExact
    <2> QED
      BY <1>1, <1>2, <1>3, <1>4, <1>7, <2>1, <2>2 DEF GrantFact
  <1>8. CASE f.type = "GETS"
    <2>1. CountOK(dir[k][s]) /\ ~Writable(k, tag[k][s])
      <3>1. InvType(f) = "INVX"
        BY <1>1, <1>8 DEF InvType
      <3> QED
        BY <1>1, <3>1 DEF WorkOK
    <2>2. j \notin dir[k][s].sharers
      <3>1. ~HasLine(j, f.addr)
        BY <1>4, <1>5, <1>6, <1>8, OnlyLine DEF Lines
      <3> QED
        BY <1>4, <1>6, <3>1 DEF Lines, Listed
    <2> QED
      BY <1>1, <1>2, <1>3, <1>4, <1>5, <1>8, <2>1, <2>2 DEF GrantFact
  <1> QED
    BY <1>5, <1>7, <1>8

(* A GETS that shares the line: nobody may write it now. *)
LEMMA SharedServes ==
    ASSUME Inner, Coherent, NEW f, NEW k \in Cache, NEW s \in Slots(k), NEW j \in Cache,
           NEW t \in Slots(j), GrantFact(f, k, s, j, t), f.type = "GETS", NEW n,
           Granting(k, s, j, t, SharedEntry(dir[k][s], j), "S", n),
           n # "I", n \in {"E", "M"} <=> HaveExclusive(k, s)
    PROVE  Serves(k, s, j, t)
  <1>1. /\ j \in Children(k) /\ Home(j, t) = k /\ j # k
        /\ tag[k][s] = f.addr /\ tag[j][t] = f.addr /\ f.addr # None
        /\ st[k][s] # "I" /\ CountOK(dir[k][s]) /\ ~Writable(k, tag[k][s])
        /\ j \notin dir[k][s].sharers /\ st[j][t] = "I"
    BY DEF GrantFact, Served
  <1>2. /\ tag' = tag
        /\ dir'[k][s].sharers = dir[k][s].sharers \union {j} /\ dir'[k][s].n = dir[k][s].n + 1
        /\ dir'[k][s].excl = FALSE
        /\ st'[j][t] = "S" /\ st'[k][s] = n
        /\ \A x \in Cache : \A u \in Slots(x) :
              /\ (x # k \/ u # s) /\ (x # j \/ u # t) => st'[x][u] = st[x][u]
              /\ x # k \/ u # s => dir'[x][u] = dir[x][u]
    BY DEF Granting, SharedEntry
  <1>3. st'[k][s] # "I" /\ (HaveExclusive(k, s)' <=> HaveExclusive(k, s)) /\ ~HaveExclusive(j, t)'
    BY <1>2 DEF HaveExclusive
  <1>4. \A ch \in Children(k) : ~CanWrite(ch, tag[k][s])
    BY <1>1 DEF Writable
  <1>5. CountOK(dir[k][s])' /\ ~IsExclusive(dir[k][s])'
    <2>1. PICK S : S = dir[k][s].sharers
      OBVIOUS
    <2>2. Cardinality(S \union {j}) = Cardinality(S) + 1
      <3>1. IsFiniteSet(S) /\ j \notin S
        BY <1>1, <2>1, FiniteSharers
      <3> QED
        BY <3>1, FS_AddElement
    <2>3. dir'[k][s].n = Cardinality(S \union {j}) /\ dir'[k][s].sharers = S \union {j}
      BY <1>1, <1>2, <2>1, <2>2 DEF CountOK
    <2> QED
      BY <1>2, <2>3 DEF CountOK, IsExclusive
  <1>6. ServeEntry(k, s, j, t)
    <2>1. dir'[k][s].sharers = (dir[k][s].sharers \ {j}) \union (IF st'[j][t] = "I" THEN {} ELSE {j})
      BY <1>2
    <2> QED
      BY <1>3, <1>4, <1>5, <2>1 DEF ServeEntry
  <1>7. \A ch \in Children(j) : \A u \in Slots(ch) : tag[ch][u] = tag[j][t] => st[ch][u] = "I"
    BY <1>1, InvalidBelow DEF Coherent
  <1> QED
    BY <1>1, <1>2, <1>3, <1>4, <1>6, <1>7 DEF Serves

(* A GETX: the child is the only one left. *)
LEMMA OwnedServes ==
    ASSUME Inner, Coherent, NEW f, NEW k \in Cache, NEW s \in Slots(k), NEW j \in Cache,
           NEW t \in Slots(j), GrantFact(f, k, s, j, t), f.type = "GETX", NEW n,
           Granting(k, s, j, t, [sharers |-> {j}, n |-> 1, excl |-> TRUE], "M", n),
           n # "I", n \in {"E", "M"} <=> HaveExclusive(k, s)
    PROVE  Serves(k, s, j, t)
  <1>1. /\ j \in Children(k) /\ Home(j, t) = k /\ j # k
        /\ tag[k][s] = f.addr /\ tag[j][t] = f.addr /\ f.addr # None
        /\ st[k][s] = "M" /\ dir[k][s].sharers = {}
        /\ \A ch \in Children(k) : ch # j => ~HasLine(ch, tag[k][s])
    BY DEF GrantFact, Served
  <1>2. /\ tag' = tag
        /\ dir'[k][s].sharers = {j} /\ dir'[k][s].n = 1
        /\ dir'[k][s].excl = TRUE
        /\ st'[j][t] = "M" /\ st'[k][s] = n
        /\ \A x \in Cache : \A u \in Slots(x) :
              /\ (x # k \/ u # s) /\ (x # j \/ u # t) => st'[x][u] = st[x][u]
              /\ x # k \/ u # s => dir'[x][u] = dir[x][u]
    BY DEF Granting
  <1>3. /\ st'[k][s] # "I" /\ (HaveExclusive(k, s)' <=> HaveExclusive(k, s)) /\ HaveExclusive(j, t)'
        /\ HaveExclusive(k, s)
    BY <1>1, <1>2 DEF HaveExclusive
  <1>4. \A ch \in Children(k) : ch # j => ~CanWrite(ch, tag[k][s])
    BY <1>1 DEF CanWrite, HasLine, HaveExclusive
  <1>5. CountOK(dir[k][s])' /\ IsExclusive(dir[k][s])'
    <2>1. Cardinality({j}) = 1
      BY FS_Singleton
    <2>2. CountOK(dir[k][s])'
      BY <1>2, <2>1 DEF CountOK
    <2>3. IsExclusive(dir[k][s])'
      BY <1>2 DEF IsExclusive
    <2> QED
      BY <2>2, <2>3
  <1>6. ServeEntry(k, s, j, t)
    <2>1. dir'[k][s].sharers = (dir[k][s].sharers \ {j}) \union (IF st'[j][t] = "I" THEN {} ELSE {j})
      BY <1>1, <1>2
    <2> QED
      BY <1>3, <1>5, <2>1 DEF ServeEntry
  <1> QED
    BY <1>1, <1>2, <1>3, <1>4, <1>6 DEF Serves

(* The end of processAccess: data brought in belongs to an exclusive line. *)
LEMMA GrantCoherent ==
    ASSUME Inner, Coherent, NEW c \in Core, Grant(c)
    PROVE  ~failed' /\ (Inner' => Coherent')
  <1>1. PICK q : q = stack[c]
    OBVIOUS
  <1>2. q # << >> /\ q[1].kind = "access" /\ q[1].at = "grant"
    <2>1. q # << >> /\ Top(c).kind = "access" /\ Top(c).at = "grant"
      BY <1>1 DEF Grant, In
    <2> QED
      BY <1>1, <2>1, TopSays
  <1>3. PICK v : v = wb[c]
    OBVIOUS
  <1>4. PICK f : f = q[1]
    OBVIOUS
  <1>5. AccessFact(c, q, f, v)
    BY <1>1, <1>2, <1>3, <1>4, AccessSays
  <1>6. /\ Top(c) = f /\ f \in AccessFrame /\ FrameOK(f) /\ f.at = "grant" /\ f.cache \in Cache
        /\ KeepOK(f, v) /\ v \in BOOLEAN /\ f.at \in {"dir", "grant"}
    BY <1>2, <1>4, <1>5 DEF AccessFact
  <1>7. PICK k \in Cache : k = f.cache /\ k \notin L1
    BY <1>6 DEF FrameOK
  <1>8. PICK s \in Slots(k) : s = f.line
    BY <1>6, <1>7 DEF FrameOK
  <1>9. PICK j \in Cache : j = f.child
    BY <1>5, <1>7 DEF AccessFact
  <1>10. PICK t \in Slots(j) : t = f.slot
    BY <1>5, <1>7, <1>9 DEF AccessFact
  <1>11. PICK h : h = [f EXCEPT !.at = "end"]
    OBVIOUS
  <1>12. PICK n : n = IF v THEN "M" ELSE st[k][s]
    OBVIOUS
  <1>13. PICK m : m = IF f.type = "GETX" THEN "M" ELSE "S"
    OBVIOUS
  <1>14. PICK e : e = IF f.type = "GETS" THEN SharedEntry(dir[k][s], j)
                      ELSE [sharers |-> dir[k][s].sharers \union {j}, n |-> 1, excl |-> TRUE]
    OBVIOUS
  <1>15. /\ f.todo = {} /\ dir' = [dir EXCEPT ![k][s] = e]
         /\ st' = [st EXCEPT ![j][t] = m, ![k][s] = IF v THEN "M" ELSE @]
         /\ Check(v => HaveExclusive(k, s)) /\ Goto(c, h)
         /\ tag' = tag /\ tcc' = tcc /\ bcc' = bcc /\ wb' = wb
    BY <1>3, <1>6, <1>7, <1>8, <1>9, <1>10, <1>11, <1>13, <1>14 DEF Grant
  <1>16. v => HaveExclusive(k, s)
    BY <1>6, <1>7, <1>8 DEF KeepOK
  <1>17. ~failed'
    BY <1>15, <1>16 DEF Check, Coherent
  <1>18. GrantFact(f, k, s, j, t)
    BY <1>1, <1>2, <1>5, <1>6, <1>7, <1>8, <1>9, <1>10, <1>15, GrantSays
  <1>19. n # "I" /\ (n \in {"E", "M"} <=> HaveExclusive(k, s))
    BY <1>12, <1>16, <1>18 DEF HaveExclusive, GrantFact, Served
  <1>20. Granting(k, s, j, t, e, m, n)
    <2>1. j # k
      BY <1>18 DEF GrantFact
    <2>2. st' = [st EXCEPT ![j][t] = m, ![k][s] = n]
      <3>1. IsArray(st, MESIStates)
        BY DEF Inner, Arrays
      <3> QED
        BY <1>12, <1>15, <2>1, <3>1 DEF IsArray
    <2>3. tag' = tag /\ dir' = [dir EXCEPT ![k][s] = e]
      BY <1>15
    <2> QED
      BY <2>1, <2>2, <2>3, GrantWrites
  <1>21. Serves(k, s, j, t)
    <2>1. CASE f.type = "GETS"
      <3>1. Granting(k, s, j, t, SharedEntry(dir[k][s], j), "S", n)
        BY <1>13, <1>14, <1>20, <2>1
      <3> QED
        BY <1>18, <1>19, <2>1, <3>1, SharedServes
    <2>2. CASE f.type = "GETX"
      <3>1. e = [sharers |-> {j}, n |-> 1, excl |-> TRUE]
        BY <1>14, <1>18, <2>2 DEF GrantFact
      <3>2. Granting(k, s, j, t, [sharers |-> {j}, n |-> 1, excl |-> TRUE], "M", n)
        BY <1>13, <1>20, <2>2, <3>1
      <3> QED
        BY <1>18, <1>19, <2>2, <3>2, OwnedServes
    <2> QED
      BY <1>18, <2>1, <2>2 DEF GrantFact
  <1>22. ChildServed(f.type, st'[j][t])
    BY <1>13, <1>18, <1>20 DEF ChildServed, Granting, GrantFact
  <1>23. GoesOn(h, f, "end")
    <2>1. "end" \in Ats
      BY DEF Ats
    <2> QED
      BY <1>6, <1>11, <2>1, GoOn
  <1>24. stack' = [stack EXCEPT ![c] = <<h>> \o Tail(q)]
    BY <1>1, <1>15 DEF Goto
  <1>25. wb' = [wb EXCEPT ![c] = v]
    BY <1>3, <1>15, SameWb
  <1>26. Inner' => Coherent'
    BY <1>1, <1>2, <1>5, <1>6, <1>7, <1>8, <1>9, <1>10, <1>15, <1>17, <1>21, <1>22, <1>23, <1>24,
       <1>25, ServeCoherent
  <1> QED
    BY <1>17, <1>26

-----------------------------------------------------------------------------
(* The caches start empty and their directories with them. *)
LEMMA InitCoherent ==
    ASSUME Init PROVE Coherent
  <1>1. \A k \in Cache : \A s \in Slots(k) : tag[k][s] = None /\ st[k][s] = "I" /\ dir[k][s] = NoEntry
    BY DEF Init
  <1>2. \A c \in Core : stack[c] = << >> /\ Len(stack[c]) = 0
    BY EmptySeq DEF Init
  <1>3. LocksHeld
    BY <1>2 DEF LocksHeld, HoldsTop, HoldsBottom
  <1>4. UniqueTags /\ NamedLines /\ Routes /\ Included /\ Listed /\ Siblings
    <2>1. UniqueTags /\ NamedLines /\ Routes /\ Included
      BY <1>1 DEF UniqueTags, NamedLines, Routes, Included
    <2>2. Listed
      BY <1>1 DEF Listed, NoEntry
    <2>3. Siblings
      BY <1>1 DEF Siblings, HaveExclusive
    <2> QED
      BY <2>1, <2>2, <2>3
  <1>5. Directory
    <2> SUFFICES ASSUME NEW k \in Cache, NEW s \in Slots(k)
                 PROVE  dir[k][s].n \in 0..Cardinality(Children(k)) /\ EntryOK(k, s)
      BY DEF Directory
    <2>1. dir[k][s].sharers = {} /\ dir[k][s].n = 0
      BY <1>1 DEF NoEntry
    <2>2. 0 \in 0..Cardinality(Children(k))
      BY CountType
    <2>3. CountOK(dir[k][s]) /\ ~IsExclusive(dir[k][s])
      BY <2>1, FS_EmptySet DEF CountOK, IsExclusive
    <2>4. ~Writable(k, tag[k][s])
      BY <1>1 DEF Writable, CanWrite, HaveExclusive, Children
    <2> QED
      BY <2>1, <2>2, <2>3, <2>4 DEF EntryOK
  <1>6. \A c \in Core : Calls(stack[c], wb[c])
    BY <1>2 DEF Calls, Chain
  <1>7. ~failed /\ wb \in [Core -> BOOLEAN]
    BY DEF Init
  <1> QED
    BY <1>3, <1>4, <1>5, <1>6, <1>7 DEF Coherent, Lines

(* While the parts of the state are coherent, no assert fails in the next  *)
(* step, and they stay so.                                                 *)
LEMMA NextCoherent ==
    ASSUME Inner, Coherent, Next
    PROVE  ~failed' /\ (Inner' => Coherent')
  <1>1. PICK c \in Core : Replace(c) \/ ContextSwitch(c) \/ Step(c)
    BY DEF Next
  <1>2. ~failed
    BY DEF Coherent
  <1>3. CASE Replace(c)
    <2>1. failed' = failed
      BY <1>3 DEF Replace
    <2> QED
      BY <1>2, <1>3, <2>1, ReplaceCoherent
  <1>4. CASE ContextSwitch(c)
    <2>1. /\ tag' = tag /\ st' = st /\ dir' = dir /\ bcc' = bcc /\ tcc' = tcc
          /\ stack' = stack /\ wb' = wb /\ failed' = failed
      BY <1>4 DEF ContextSwitch
    <2>2. Inner' => Coherent'
      BY <2>1, CoherentStutters
    <2> QED
      BY <1>2, <2>1, <2>2
  <1>5. CASE LockTcc(c)
    BY <1>2, <1>5, LockTccCoherent DEF LockTcc
  <1>6. CASE EndAccess(c)
    <2>1. CASE Top(c).cache \in L1
      <3>1. ~failed'
        <4>1. PICK q : q = stack[c]
          OBVIOUS
        <4>2. q # << >>
          BY <1>6, <4>1 DEF EndAccess, In
        <4>3. Top(c) = q[1] /\ FrameFact(q[1], TRUE)
          BY <4>1, <4>2, TopSays
        <4>4. /\ q[1].kind = "access" /\ q[1].at = "end" /\ q[1].cache \in L1
              /\ Check(IF q[1].type = "GETX" THEN st[q[1].cache][q[1].line] = "M"
                                             ELSE st[q[1].cache][q[1].line] # "I")
          BY <1>6, <2>1, <4>3 DEF EndAccess, In
        <4>5. Served(q[1].type, st[q[1].cache][q[1].line])
          BY <4>3, <4>4 DEF FrameFact, LineOK
        <4> QED
          BY <1>2, <4>4, <4>5 DEF Check, Served
      <3> QED
        BY <1>6, <2>1, <3>1, EndAccessL1Coherent
    <2>2. CASE Top(c).cache \notin L1
      BY <1>2, <1>6, <2>2, EndAccessUpCoherent DEF EndAccess
    <2> QED
      BY <2>1, <2>2
  <1>7. CASE FillFilter(c)
    BY <1>2, <1>7, FillFilterCoherent DEF FillFilter
  <1>8. CASE LockBcc(c)
    BY <1>8, LockBccCoherent
  <1>9. CASE SendInvalidate(c)
    BY <1>9, SendInvalidateCoherent
  <1>10. CASE FinishInv(c)
    BY <1>10, FinishInvCoherent
  <1>11. CASE Evict(c)
    BY <1>11, EvictCoherent
  <1>12. CASE BottomAccess(c)
    BY <1>12, BottomAccessCoherent
  <1>13. CASE TopAccess(c)
    BY <1>13, TopAccessCoherent
  <1>14. CASE Grant(c)
    BY <1>14, GrantCoherent
  <1> QED
    BY <1>1, <1>3, <1>4, <1>5, <1>6, <1>7, <1>8, <1>9, <1>10, <1>11, <1>12, <1>13, <1>14 DEF Step

(***************************************************************************)
(* The parts of the hierarchy stay coherent through every interleaving of  *)
(* the cores' accesses, evictions and invalidations: from one lock         *)
(* operation of MESICC to the next, whatever a call has read of the tags,  *)
(* states and directories is still so when it goes on.                     *)
(***************************************************************************)
THEOREM CoherentAlways == Spec => [](Inner /\ Coherent)
  <1>1. Init => Inner /\ Coherent
    BY InitInv, InitCoherent
  <1>2. Inner /\ Coherent /\ [Next]_vars => (Inner /\ Coherent)'
    <2> SUFFICES ASSUME Inner, Coherent, [Next]_vars PROVE Inner' /\ Coherent'
      OBVIOUS
    <2>1. IInv'
      BY NextInv DEF IInv
    <2>2. CASE Next
      BY <2>1, <2>2, NextCoherent DEF IInv
    <2>3. CASE vars' = vars
      <3>1. ~failed
        BY DEF Coherent
      <3>2. Inner'
        BY <2>1, <2>3, <3>1 DEF IInv, vars
      <3>3. Coherent'
        BY <2>3, CoherentStutters DEF vars
      <3> QED
        BY <3>2, <3>3
    <2> QED
      BY <2>2, <2>3
  <1> QED
    BY <1>1, <1>2, PTL DEF Spec

(***************************************************************************)
(* No assert or panic of cache.cpp and coherence_ctrls.cpp fires: every    *)
(* race CheckForMESIRace meets is one it expects, an invalidation finds    *)
(* its line, a PUT its copy, the sharers are as many as counted, and only  *)
(* exclusive lines bring dirty data.                                       *)
(***************************************************************************)
THEOREM NoAssertFailsEver == Spec => []NoAssertFails
  <1>1. Inner /\ Coherent => NoAssertFails
    BY DEF Coherent, NoAssertFails
  <1> QED
    BY <1>1, CoherentAlways, PTL

(* A free bottom lock: nobody works on the directory, and it is exact. *)
LEMMA FreeExact ==
    ASSUME Inner, Coherent PROVE DirectoryExact
  <1> SUFFICES ASSUME NEW k \in Cache \ L1, bcc[k] = Free, NEW s \in Slots(k),
                      NEW e, e = dir[k][s], NEW a, a = tag[k][s]
               PROVE  /\ e.sharers = {ch \in Children(k) : a # None /\ Valid(ch, a)}
                      /\ e.n = Cardinality(e.sharers)
                      /\ IsExclusive(e) <=> \E ch \in Children(k) : a # None /\ Owns(ch, a)
    BY DEF DirectoryExact
  <1>1. LocksHeld /\ Lines /\ NamedLines
    BY DEF Coherent, Lines
  <1>2. \A ch : ~InFlight(k, ch, s)
    BY <1>1, FreeQuiet
  <1>3. ~Busy(k, s)
    BY <1>1, FreeQuiet DEF Busy
  <1>4. FreeEntryFact(k, s)
    BY <1>1, <1>2, <1>3, FreeEntry
  <1>5. EntryOK(k, s) /\ \A ch \in Children(k) : HasLine(ch, a) <=> ch \in e.sharers
    BY <1>4 DEF FreeEntryFact
  <1>6. e.sharers \subseteq Children(k)
    BY EntryFacts
  <1>7. \A ch \in Cache : HasLine(ch, a) <=> a # None /\ Valid(ch, a)
    BY <1>1 DEF NamedLines, HasLine, Valid
  <1>8. \A ch \in Cache : CanWrite(ch, a) <=> a # None /\ Owns(ch, a)
    BY <1>1 DEF NamedLines, CanWrite, Owns, HaveExclusive
  <1>9. e.sharers = {ch \in Children(k) : a # None /\ Valid(ch, a)}
    BY <1>5, <1>6, <1>7 DEF Children
  <1>10. IsExclusive(e) <=> \E ch \in Children(k) : a # None /\ Owns(ch, a)
    <2>1. IsExclusive(e) <=> Writable(k, a)
      BY <1>5 DEF EntryOK
    <2>2. Writable(k, a) <=> \E ch \in Children(k) : CanWrite(ch, a)
      BY DEF Writable
    <2> QED
      BY <1>8, <2>1, <2>2 DEF Children
  <1>11. e.n = Cardinality(e.sharers)
    BY <1>5 DEF EntryOK, CountOK
  <1> QED
    BY <1>9, <1>10, <1>11

(***************************************************************************)
(* MESITopCC: whenever a cache's bottom lock is free its directory lists   *)
(* exactly the children that hold each line, counts them right, and says   *)
(* exclusive exactly if one of them may write it.                          *)
(***************************************************************************)
THEOREM DirectoriesExact == Spec => []DirectoryExact
  <1>1. Inner /\ Coherent => DirectoryExact
    BY FreeExact
  <1> QED
    BY <1>1, CoherentAlways, PTL

-----------------------------------------------------------------------------
(* What a cache holds the bank above it holds, with at least the same      *)
(* rights.                                                                 *)
LEMMA HeldAbove ==
    ASSUME Coherent, NEW k \in Cache, NEW a, NEW p, p = Parent(k, a), p # Mem
    PROVE  (Valid(k, a) => Valid(p, a)) /\ (Owns(k, a) => Owns(p, a))
  <1>1. \A t \in Slots(k) : st[k][t] # "I" /\ tag[k][t] = a =>
           Home(k, t) = p /\ \E s \in Slots(p) : InParent(k, t, s)
    BY DEF Coherent, Lines, Included, Home
  <1>2. ASSUME Valid(k, a) PROVE Valid(p, a)
    <2>1. PICK t \in Slots(k) : tag[k][t] = a /\ st[k][t] # "I"
      BY <1>2 DEF Valid
    <2>2. PICK s \in Slots(p) : InParent(k, t, s) /\ Home(k, t) = p
      BY <1>1, <2>1
    <2> QED
      BY <2>1, <2>2 DEF InParent, Valid
  <1>3. ASSUME Owns(k, a) PROVE Owns(p, a)
    <2>1. PICK t \in Slots(k) : tag[k][t] = a /\ HaveExclusive(k, t)
      BY <1>3 DEF Owns
    <2>2. st[k][t] # "I"
      BY <2>1 DEF HaveExclusive
    <2>3. PICK s \in Slots(p) : InParent(k, t, s) /\ Home(k, t) = p
      BY <1>1, <2>1, <2>2
    <2> QED
      BY <2>1, <2>3 DEF InParent, Owns
  <1> QED
    BY <1>2, <1>3

(* An address is in a cache once. *)
LEMMA HeldOnce ==
    ASSUME Coherent, NEW k \in Cache, NEW a \in Addr
    PROVE  Cardinality(Holding(k, a)) <= 1
  <1>1. \A s, t \in Holding(k, a) : s = t
    BY TreeAssumption DEF Coherent, Lines, UniqueTags, Holding
  <1>2. CASE Holding(k, a) = {}
    BY <1>2, FS_EmptySet
  <1>3. CASE Holding(k, a) # {}
    <2>1. PICK s \in Holding(k, a) : TRUE
      BY <1>3
    <2>2. Holding(k, a) = {s}
      BY <1>1, <2>1
    <2> QED
      BY <2>2, FS_Singleton
  <1> QED
    BY <1>2, <1>3

(* The caches above k on the way of address a, k among them: the least set *)
(* closed upwards.                                                         *)
Closed(U, a) == \A x \in U : Parent(x, a) # Mem => Parent(x, a) \in U
Path(k, a) == {x \in Cache : \A U \in SUBSET Cache : k \in U /\ Closed(U, a) => x \in U}

(* A path starts at its cache and leads up, *)
LEMMA PathUp ==
    ASSUME NEW k \in Cache, NEW a \in Addr
    PROVE  k \in Path(k, a) /\ Closed(Path(k, a), a) /\ Path(k, a) \subseteq Cache
  <1>1. \A x \in Cache : Parent(x, a) # Mem => Parent(x, a) \in Cache
    BY ParentFacts
  <1> QED
    BY <1>1 DEF Path, Closed

(* to nothing else, *)
LEMMA PathLeast ==
    ASSUME NEW k \in Cache, NEW a, NEW U \in SUBSET Cache, k \in U, Closed(U, a)
    PROVE  Path(k, a) \subseteq U
  BY DEF Path

(* All but the first cache of a path have a child on it. *)
LEMMA PathDown ==
    ASSUME NEW k \in Cache, NEW a \in Addr, NEW z \in Path(k, a), z # k
    PROVE  \E x \in Path(k, a) : Parent(x, a) = z
  <1> SUFFICES ASSUME \A x \in Path(k, a) : Parent(x, a) # z PROVE FALSE
    OBVIOUS
  <1> DEFINE P == Path(k, a)
  <1>1. k \in P /\ Closed(P, a) /\ P \subseteq Cache
    BY PathUp
  <1>2. k \in P \ {z} /\ Closed(P \ {z}, a) /\ P \ {z} \in SUBSET Cache
    BY <1>1 DEF Closed
  <1> HIDE DEF P
  <1>3. Path(k, a) \subseteq P \ {z}
    BY <1>2, PathLeast
  <1> QED
    BY <1>3 DEF P

(* Some cache of a set is no higher than the others. *)
LEMMA LeastHeight ==
    ASSUME NEW S \in SUBSET Cache, S # {}
    PROVE  \E z \in S : \A x \in S : ~(H[x] < H[z])
  <1> DEFINE N == {H[x] : x \in S}
  <1>1. N \in SUBSET Nat /\ N # {}
    BY Heights
  <1>2. PICK n \in N : \A i \in N : ~(<<i, n>> \in OpToRel(<, Nat))
    BY <1>1, NatLessThanWellFounded, WFMin
  <1>3. PICK z \in S : H[z] = n
    BY <1>2
  <1>4. \A x \in S : ~(H[x] < H[z])
    BY <1>1, <1>2, <1>3 DEF OpToRel
  <1> QED
    BY <1>4

(* A path ends in a last-level cache. *)
LEMMA PathTop ==
    ASSUME NEW k \in Cache, NEW a \in Addr
    PROVE  \E z \in Path(k, a) : Parent(z, a) = Mem
  <1> SUFFICES ASSUME \A z \in Path(k, a) : Parent(z, a) # Mem PROVE FALSE
    OBVIOUS
  <1> DEFINE C == Cardinality(Cache)
             N == {C - H[x] : x \in Path(k, a)}
  <1>1. k \in Path(k, a) /\ Closed(Path(k, a), a) /\ Path(k, a) \subseteq Cache
    BY PathUp
  <1>2. H \in [Cache -> 0..C] /\ C \in Nat
    BY Heights
  <1> HIDE DEF C
  <1>3. N \in SUBSET Nat /\ N # {}
    BY <1>1, <1>2
  <1>4. PICK n \in N : \A i \in N : ~(<<i, n>> \in OpToRel(<, Nat))
    BY <1>3, NatLessThanWellFounded, WFMin
  <1>5. PICK z \in Path(k, a) : n = C - H[z]
    BY <1>4
  <1>6. PICK p \in Path(k, a) : H[z] < H[p]
    <2>1. Parent(z, a) \in Path(k, a) /\ Parent(z, a) \in Cache /\ z \in Children(Parent(z, a))
      BY <1>1, ParentFacts DEF Closed
    <2> QED
      BY <2>1, Heights
  <1>7. C - H[p] \in N /\ C - H[p] < n /\ n \in Nat
    BY <1>1, <1>2, <1>3, <1>5, <1>6
  <1> QED
    BY <1>3, <1>4, <1>7 DEF OpToRel

(* The children of the last-level cache agree on the bank of an address,   *)
(* so two of its banks do not both hold it.                                *)
LEMMA OneTop ==
    ASSUME Coherent, NEW a \in Addr, NEW x \in Cache, NEW y \in Cache,
           Parent(x, a) = Mem, Parent(y, a) = Mem, Valid(x, a), Valid(y, a)
    PROVE  x = y
  <1> SUFFICES ASSUME x # y PROVE FALSE
    OBVIOUS
  <1>1. Mem \in Banks(x) \intersect Banks(y)
    BY ParentFacts
  <1>2. PICK ch : ch \in Children(x) /\ ch \in Children(y)
    BY <1>1, OneLastLevel
  <1>3. a # None /\ Routes
    BY TreeAssumption DEF Coherent, Lines
  <1>4. Parent(ch, a) = x
    BY <1>2, <1>3 DEF Valid, Routes, Routed
  <1>5. Parent(ch, a) = y
    BY <1>2, <1>3 DEF Valid, Routes, Routed
  <1> QED
    BY <1>4, <1>5

(* Two terminal caches: the paths of an address that both hold meet, in a  *)
(* first bank with a child of each below it.  If one may write and the     *)
(* other may read, so may these two, which are siblings.                   *)
LEMMA OneWriter ==
    ASSUME Inner, Coherent PROVE SingleWriter
  <1> SUFFICES ASSUME NEW k \in L1, NEW l \in L1, NEW a \in Addr, k # l, Owns(k, a), Valid(l, a)
               PROVE  FALSE
    BY DEF SingleWriter
  <1>1. k \in Cache /\ l \in Cache /\ \A x \in Cache : Parent(x, a) # k /\ Parent(x, a) # l
    <2>1. L1 \subseteq Cache /\ \A x \in Cache : Parent(x, a) \in (Cache \ L1) \union {Mem}
      BY TreeAssumption, ParentFacts
    <2> QED
      BY <2>1, TreeAssumption
  <1>2. /\ k \in Path(k, a) /\ Closed(Path(k, a), a) /\ Path(k, a) \subseteq Cache
        /\ l \in Path(l, a) /\ Closed(Path(l, a), a) /\ Path(l, a) \subseteq Cache
    BY <1>1, PathUp
  <1>3. \A x \in Path(k, a) : Owns(x, a)
    <2> DEFINE U == {x \in Cache : Owns(x, a)}
    <2>1. \A x \in U : Parent(x, a) # Mem => Owns(Parent(x, a), a) /\ Parent(x, a) \in Cache
      BY HeldAbove, ParentFacts
    <2>2. U \in SUBSET Cache /\ k \in U /\ Closed(U, a)
      BY <1>1, <2>1 DEF Closed
    <2> HIDE DEF U
    <2>3. Path(k, a) \subseteq U
      BY <1>1, <2>2, PathLeast
    <2> QED
      BY <2>3 DEF U
  <1>4. \A x \in Path(l, a) : Valid(x, a)
    <2> DEFINE U == {x \in Cache : Valid(x, a)}
    <2>1. \A x \in U : Parent(x, a) # Mem => Valid(Parent(x, a), a) /\ Parent(x, a) \in Cache
      BY HeldAbove, ParentFacts
    <2>2. U \in SUBSET Cache /\ l \in U /\ Closed(U, a)
      BY <1>1, <2>1 DEF Closed
    <2> HIDE DEF U
    <2>3. Path(l, a) \subseteq U
      BY <1>1, <2>2, PathLeast
    <2> QED
      BY <2>3 DEF U
  <1>5. Path(k, a) \intersect Path(l, a) # {}
    <2>1. PICK x \in Path(k, a) : Parent(x, a) = Mem
      BY <1>1, PathTop
    <2>2. PICK y \in Path(l, a) : Parent(y, a) = Mem
      BY <1>1, PathTop
    <2>3. x \in Cache /\ y \in Cache /\ Valid(x, a) /\ Valid(y, a)
      BY <1>2, <1>3, <1>4 DEF Owns, Valid, HaveExclusive
    <2>4. x = y
      BY <2>1, <2>2, <2>3, OneTop
    <2> QED
      BY <2>1, <2>2, <2>4
  <1>6. PICK z \in Path(k, a) \intersect Path(l, a) :
           \A x \in Path(k, a) \intersect Path(l, a) : ~(H[x] < H[z])
    <2>1. Path(k, a) \intersect Path(l, a) \in SUBSET Cache
      BY <1>2
    <2> QED
      BY <1>5, <2>1, LeastHeight
  <1>7. z # k /\ z # l
    <2>1. ASSUME z = k PROVE FALSE
      <3>1. z \in Path(l, a) /\ z # l
        BY <1>6, <2>1
      <3>2. \E x \in Path(l, a) : Parent(x, a) = z
        BY <1>1, <3>1, PathDown
      <3> QED
        BY <1>1, <1>2, <2>1, <3>2
    <2>2. ASSUME z = l PROVE FALSE
      <3>1. z \in Path(k, a) /\ z # k
        BY <1>6, <2>2
      <3>2. \E x \in Path(k, a) : Parent(x, a) = z
        BY <1>1, <3>1, PathDown
      <3> QED
        BY <1>1, <1>2, <2>2, <3>2
    <2> QED
      BY <2>1, <2>2
  <1>8. PICK x \in Path(k, a) : Parent(x, a) = z
    BY <1>1, <1>6, <1>7, PathDown
  <1>9. PICK y \in Path(l, a) : Parent(y, a) = z
    BY <1>1, <1>6, <1>7, PathDown
  <1>10. /\ z \in Cache /\ z # Mem /\ x \in Cache /\ y \in Cache
         /\ x \in Children(z)
    BY <1>2, <1>6, <1>8, <1>9, TreeAssumption, ParentFacts
  <1>11. x # y
    <2>1. H[x] < H[z]
      BY <1>10, Heights
    <2> QED
      BY <1>6, <1>8, <1>9, <2>1
  <1>12. PICK s \in Slots(x) : tag[x][s] = a /\ HaveExclusive(x, s)
    BY <1>3, <1>8 DEF Owns
  <1>13. PICK t \in Slots(y) : tag[y][t] = a /\ st[y][t] # "I"
    BY <1>4, <1>9 DEF Valid
  <1>14. Home(x, s) = z /\ Home(y, t) = z
    BY <1>8, <1>9, <1>12, <1>13 DEF Home
  <1>15. Siblings
    BY DEF Coherent, Lines
  <1> QED
    BY <1>10, <1>11, <1>12, <1>13, <1>14, <1>15 DEF Siblings

(***************************************************************************)
(* Single writer: while MESIBottomCC lets one L1 write a line, no other L1 *)
(* has a copy of it, at every instant.  In E or M no sibling has a copy;   *)
(* the ways of an address above two L1s that hold it meet in a first bank, *)
(* and the two children of it on these ways are such siblings.             *)
(***************************************************************************)
THEOREM WritersAlone == Spec => []SingleWriter
  <1>1. Inner /\ Coherent => SingleWriter
    BY OneWriter
  <1> QED
    BY <1>1, CoherentAlways, PTL

-----------------------------------------------------------------------------
(***************************************************************************)
(* Dirty data.  A line that was stored to is M in some cache, or a core    *)
(* took it from one and has it in hand, for its eviction or its grant.     *)
(***************************************************************************)
InHand(q, a) ==
    \E i \in 1..Len(q) : q[i].kind = "access" /\ q[i].at \in {"evict", "grant"} /\ InvAddr(q[i]) = a
Modified(a) == \E k \in Cache : \E s \in Slots(k) : tag[k][s] = a /\ st[k][s] = "M"
KeptBy(q, v, a) == Modified(a) \/ (v /\ InHand(q, a))
Tidy(q) == \A i \in 1..Len(q) : q[i].line \in {0} \union Slots(q[i].cache)

DirtyInv ==
    /\ dirty \subseteq Addr
    /\ \A c \in Core : Tidy(stack[c])
    /\ \A a \in dirty : \E c \in Core : KeptBy(stack[c], wb[c], a)

(* What a step has to show: what was dirty, or is now, is kept by the core *)
(* that took the step, if it was its to keep.                              *)
LEMMA DirtyStep ==
    ASSUME Inner, Coherent, DirtyInv, NEW c \in Core, NEW q, q = stack[c], NEW v, v = wb[c],
           NEW r, stack' = [stack EXCEPT ![c] = r], NEW w, wb' = [wb EXCEPT ![c] = w],
           Tidy(r), dirty' \subseteq Addr,
           \A a \in dirty' : a \notin dirty \/ KeptBy(q, v, a) => KeptBy(r, w, a)',
           \A d \in Core : d # c => \A i \in 1..Len(stack[d]) : stack[d][i].at = "evict" =>
              tag'[stack[d][i].cache][stack[d][i].line] = tag[stack[d][i].cache][stack[d][i].line]
    PROVE  DirtyInv'
  <1>1. /\ stack'[c] = r /\ \A d \in Core : d # c => stack'[d] = stack[d]
        /\ wb'[c] = w /\ \A d \in Core : d # c => wb'[d] = wb[d]
    BY DEF Inner, Coherent
  <1>2. \A d \in Core : Tidy(stack[d])'
    BY <1>1 DEF DirtyInv, Tidy
  <1>3. ASSUME NEW a \in dirty' PROVE \E d \in Core : KeptBy(stack[d], wb[d], a)'
    <2>1. CASE a \notin dirty \/ KeptBy(q, v, a)
      <3>1. KeptBy(r, w, a)'
        BY <1>3, <2>1
      <3>2. KeptBy(stack[c], wb[c], a)'
        BY <1>1, <3>1 DEF KeptBy, InHand, InvAddr
      <3> QED
        BY <3>2
    <2>2. CASE a \in dirty /\ ~KeptBy(q, v, a)
      <3>1. PICK d \in Core : KeptBy(stack[d], wb[d], a)
        BY <2>2 DEF DirtyInv
      <3>2. d # c /\ wb[d] /\ InHand(stack[d], a)
        BY <2>2, <3>1 DEF KeptBy
      <3>3. PICK p : p = stack[d]
        OBVIOUS
      <3>4. PICK i \in 1..Len(p) :
                p[i].kind = "access" /\ p[i].at \in {"evict", "grant"} /\ InvAddr(p[i]) = a
        BY <3>2, <3>3 DEF InHand
      <3>5. InvAddr(p[i])' = InvAddr(p[i])
        BY <3>2, <3>3, <3>4 DEF InvAddr
      <3>6. InHand(p, a)'
        BY <3>4, <3>5 DEF InHand
      <3>7. stack'[d] = p /\ wb'[d]
        BY <1>1, <3>2, <3>3
      <3>8. KeptBy(stack[d], wb[d], a)'
        BY <3>6, <3>7 DEF KeptBy, InHand, InvAddr
      <3> QED
        BY <3>8
    <2> QED
      BY <2>1, <2>2
  <1>4. (\A a \in dirty : \E d \in Core : KeptBy(stack[d], wb[d], a))'
    BY <1>3
  <1> QED
    BY <1>2, <1>4 DEF DirtyInv

(* What the calls say of the stack when its top goes on, calls, returns. *)
LEMMA GotoTidy ==
    ASSUME NEW q \in Seq(FrameSet), q # << >>, NEW f, f.line \in {0} \union Slots(f.cache), Tidy(q)
    PROVE  Tidy(<<f>> \o Tail(q))
  <1> DEFINE S == FrameSet \union {f}
  <1>1. q \in Seq(S) /\ f \in S
    OBVIOUS
  <1> HIDE DEF S
  <1>2. PICK r : r = <<f>> \o Tail(q)
    OBVIOUS
  <1>3. Len(r) = Len(q) /\ Len(q) \in Nat /\ r[1] = f /\ \A i \in 2..Len(q) : r[i] = q[i]
    BY <1>1, <1>2, GotoSeq
  <1>4. \A i \in 1..Len(r) : i = 1 \/ i \in 2..Len(q)
    BY <1>3
  <1>5. Tidy(r)
    BY <1>3, <1>4 DEF Tidy
  <1> QED
    BY <1>2, <1>5

(* ... or calls, *)
LEMMA CallTidy ==
    ASSUME NEW q \in Seq(FrameSet), q # << >>, NEW f, f.line \in {0} \union Slots(f.cache),
           NEW g, g.line \in {0} \union Slots(g.cache), Tidy(q)
    PROVE  Tidy(<<g, f>> \o Tail(q))
  <1> DEFINE S == FrameSet \union {f, g}
  <1>1. q \in Seq(S) /\ f \in S /\ g \in S
    OBVIOUS
  <1> HIDE DEF S
  <1>2. PICK r : r = <<g, f>> \o Tail(q)
    OBVIOUS
  <1>3. /\ Len(r) = Len(q) + 1 /\ Len(q) \in Nat /\ r[1] = g /\ r[2] = f
        /\ \A i \in 3..(Len(q) + 1) : r[i] = q[i - 1]
    BY <1>1, <1>2, CallSeq
  <1>4. \A i \in 1..Len(r) : i = 1 \/ i = 2 \/ (i \in 3..(Len(q) + 1) /\ i - 1 \in 1..Len(q))
    BY <1>3
  <1>5. Tidy(r)
    BY <1>3, <1>4 DEF Tidy
  <1> QED
    BY <1>2, <1>5

(* ... or returns. *)
LEMMA ReturnTidy ==
    ASSUME NEW q \in Seq(FrameSet), q # << >>, Tidy(q)
    PROVE  Tidy(Tail(q))
  <1>1. PICK r : r = Tail(q)
    OBVIOUS
  <1>2. Len(r) = Len(q) - 1 /\ Len(q) \in Nat /\ \A i \in 1..(Len(q) - 1) : r[i] = q[i + 1]
    BY <1>1, ReturnSeq
  <1>3. Tidy(r)
    BY <1>2 DEF Tidy
  <1> QED
    BY <1>1, <1>3

(* Below an access at the top nothing is in hand. *)
LEMMA HandTop ==
    ASSUME NEW c, NEW q, Sane(c, q), q # << >>, q[1].kind = "access"
    PROVE  \A a : InHand(q, a) <=> q[1].at \in {"evict", "grant"} /\ InvAddr(q[1]) = a
  <1>1. \A i \in 2..Len(q) : q[i].at \notin {"evict", "grant"}
    <2> SUFFICES ASSUME NEW i \in 2..Len(q) PROVE q[i].at \notin {"evict", "grant"}
      OBVIOUS
    <2>1. i \in 1..Len(q) /\ i > 1 /\ i - 1 \in 1..Len(q) /\ 1 \in 1..Len(q)
      BY DEF Sane
    <2>2. q[i - 1].kind = "access"
      BY <2>1 DEF Sane, Ordered
    <2>3. Called(q[i], q[i - 1])
      BY <2>1 DEF Sane
    <2> QED
      BY <2>2, <2>3 DEF Called
  <1>2. 1 \in 1..Len(q) /\ \A i \in 1..Len(q) : i = 1 \/ i \in 2..Len(q)
    BY EmptySeq DEF Sane
  <1> QED
    BY <1>1, <1>2 DEF InHand

(* A step that changes no line, of a core that has nothing in hand. *)
LEMMA QuietDirty ==
    ASSUME Inner, Coherent, DirtyInv, NEW c \in Core, NEW q, q = stack[c],
           q # << >> => q[1].kind = "access" /\ q[1].at \notin {"evict", "grant"},
           NEW r, stack' = [stack EXCEPT ![c] = r], NEW w, wb' = [wb EXCEPT ![c] = w],
           Tidy(r), tag' = tag, st' = st, dirty' \subseteq Addr,
           \A a \in dirty' : a \in dirty \/ Modified(a)
    PROVE  DirtyInv'
  <1>1. PICK v : v = wb[c]
    OBVIOUS
  <1>2. \A a : ~InHand(q, a)
    <2>1. Sane(c, q)
      BY DEF Inner
    <2>2. CASE q = << >>
      BY <2>2, EmptySeq DEF InHand
    <2>3. CASE q # << >>
      BY <2>1, <2>3, HandTop
    <2> QED
      BY <2>2, <2>3
  <1>3. \A a \in dirty' : a \notin dirty \/ KeptBy(q, v, a) => KeptBy(r, w, a)'
    <2> SUFFICES ASSUME NEW a \in dirty', a \notin dirty \/ KeptBy(q, v, a) PROVE KeptBy(r, w, a)'
      OBVIOUS
    <2>1. Modified(a)
      BY <1>2 DEF KeptBy
    <2>2. Modified(a)'
      BY <2>1 DEF Modified
    <2> QED
      BY <2>2 DEF KeptBy
  <1> QED
    BY <1>1, <1>3, DirtyStep

(* FilterCache::replace touches no line. *)
LEMMA ReplaceDirty ==
    ASSUME Inner, Coherent, DirtyInv, NEW c \in Core, Replace(c) PROVE DirtyInv'
  <1>1. PICK l \in L1, a \in Addr, type \in {"GETS", "GETX"} :
            /\ stack[c] = << >> /\ CoreOf[l] = c
            /\ stack' = [stack EXCEPT ![c] = <<Access(l, type, a, None, 0, "I", l \in ICache)>>]
            /\ UNCHANGED <<tag, st, dir, bcc, tcc, filterLock, rd, wr, wb, dirty, failed>>
    BY DEF Replace
  <1>2. PICK f : f = Access(l, type, a, None, 0, "I", l \in ICache)
    OBVIOUS
  <1>3. PICK r : r = <<f>>
    OBVIOUS
  <1>4. Tidy(r)
    <2>1. Len(r) = 1 /\ r[1] = f
      BY <1>3
    <2>2. f.line = 0
      BY <1>2 DEF Access
    <2> QED
      BY <2>1, <2>2 DEF Tidy
  <1>5. PICK v : v = wb[c]
    OBVIOUS
  <1>6. wb' = [wb EXCEPT ![c] = v] /\ tag' = tag /\ st' = st /\ dirty' = dirty
    BY <1>1, <1>5, SameWb
  <1>7. stack' = [stack EXCEPT ![c] = r]
    BY <1>1, <1>2, <1>3
  <1>8. dirty' \subseteq Addr /\ \A b \in dirty' : b \in dirty \/ Modified(b)
    BY <1>6 DEF DirtyInv
  <1>9. PICK q : q = stack[c]
    OBVIOUS
  <1>10. q # << >> => q[1].kind = "access" /\ q[1].at \notin {"evict", "grant"}
    BY <1>1, <1>9
  <1> QED
    BY <1>4, <1>6, <1>7, <1>8, <1>9, <1>10, QuietDirty

(* Nor does a step of the filters. *)
LEMMA SameDirty ==
    ASSUME DirtyInv, stack' = stack, wb' = wb, tag' = tag, st' = st, dirty' = dirty
    PROVE  DirtyInv'
  BY DEF DirtyInv, Tidy, KeptBy, Modified, InHand, InvAddr

(* The access at the top of c's stack goes on without touching a line. *)
LEMMA GotoDirty ==
    ASSUME Inner, Coherent, DirtyInv, NEW c \in Core, NEW q, q = stack[c], q # << >>,
           q[1].kind = "access", q[1].at \notin {"evict", "grant"},
           NEW f, f.line \in {0} \union Slots(f.cache), stack' = [stack EXCEPT ![c] = <<f>> \o Tail(q)],
           NEW w, wb' = [wb EXCEPT ![c] = w], tag' = tag, st' = st, dirty' \subseteq Addr,
           \A a \in dirty' : a \in dirty \/ Modified(a)
    PROVE  DirtyInv'
  <1>1. PICK r : r = <<f>> \o Tail(q)
    OBVIOUS
  <1>2. q \in Seq(FrameSet) /\ Tidy(q)
    BY TopSays DEF DirtyInv
  <1>3. Tidy(r)
    BY <1>1, <1>2, GotoTidy
  <1>4. stack' = [stack EXCEPT ![c] = r]
    BY <1>1
  <1> QED
    BY <1>3, <1>4, QuietDirty

(* startAccess touches none: what it resets of lowerLevelWriteback was of  *)
(* no use any more.                                                        *)
LEMMA LockDirty ==
    ASSUME Inner, Coherent, DirtyInv, NEW c \in Core, LockTcc(c) \/ LockBcc(c) PROVE DirtyInv'
  <1>1. PICK q : q = stack[c]
    OBVIOUS
  <1>2. PICK v : v = wb[c]
    OBVIOUS
  <1>3. q # << >>
    BY <1>1 DEF LockTcc, LockBcc, In
  <1>4. Top(c) = q[1] /\ q[1] \in FrameSet /\ 1 \in 1..Len(q)
    BY <1>1, <1>3, TopSays
  <1>5. q[1].kind = "access" /\ q[1].at \in {"lockTcc", "lockBcc"}
    BY <1>1, <1>3, <1>4 DEF LockTcc, LockBcc, In
  <1>6. q[1] \in AccessFrame
    BY <1>4, <1>5 DEF FrameSet, InvFrame
  <1>7. q[1].line \in {0} \union Slots(q[1].cache)
    BY <1>1, <1>4 DEF DirtyInv, Tidy
  <1>8. tag' = tag /\ st' = st /\ dirty' \subseteq Addr /\ \A a \in dirty' : a \in dirty \/ Modified(a)
    BY DEF LockTcc, LockBcc, DirtyInv
  <1>9. \E w : wb' = [wb EXCEPT ![c] = w]
    <2>1. CASE LockTcc(c)
      BY <1>2, <2>1, SameWb DEF LockTcc
    <2>2. CASE LockBcc(c)
      BY <2>2 DEF LockBcc
    <2> QED
      BY <2>1, <2>2
  <1>10. \E f : /\ f.line \in {0} \union Slots(f.cache)
                /\ stack' = [stack EXCEPT ![c] = <<f>> \o Tail(q)]
    <2>1. CASE LockTcc(c)
      <3>1. PICK f : f = [q[1] EXCEPT !.at = "lockBcc"]
        OBVIOUS
      <3>2. stack' = [stack EXCEPT ![c] = <<f>> \o Tail(q)]
        BY <1>1, <1>4, <2>1, <3>1 DEF LockTcc, Goto
      <3>3. f.line = q[1].line /\ f.cache = q[1].cache
        BY <1>6, <3>1 DEF AccessFrame
      <3> QED
        BY <1>7, <3>2, <3>3
    <2>2. CASE LockBcc(c)
      <3>1. PICK g : g = [q[1] EXCEPT !.type = TypeAfterRace(q[1])]
        OBVIOUS
      <3>2. \/ Goto(c, [g EXCEPT !.at = "end"])
            \/ \E s \in Holding(q[1].cache, q[1].addr) : Goto(c, [g EXCEPT !.at = "access", !.line = s])
            \/ \E s \in Slots(q[1].cache) :
                  Goto(c, [g EXCEPT !.at = "evict", !.line = s, !.todo = EvictFrom(q[1].cache, s)])
        BY <1>4, <2>2, <3>1 DEF LockBcc
      <3>3. g.line = q[1].line /\ g.cache = q[1].cache /\ g = [q[1] EXCEPT !.type = g.type]
        BY <1>6, <3>1 DEF AccessFrame
      <3>4. CASE Goto(c, [g EXCEPT !.at = "end"])
        <4>1. PICK f : f = [g EXCEPT !.at = "end"]
          OBVIOUS
        <4>2. stack' = [stack EXCEPT ![c] = <<f>> \o Tail(q)]
          BY <1>1, <3>4, <4>1 DEF Goto
        <4>3. f.line = q[1].line /\ f.cache = q[1].cache
          BY <1>6, <3>3, <4>1 DEF AccessFrame
        <4> QED
          BY <1>7, <4>2, <4>3
      <3>5. ASSUME NEW s \in Holding(q[1].cache, q[1].addr),
                   Goto(c, [g EXCEPT !.at = "access", !.line = s])
            PROVE  \E f : /\ f.line \in {0} \union Slots(f.cache)
                          /\ stack' = [stack EXCEPT ![c] = <<f>> \o Tail(q)]
        <4>1. PICK f : f = [g EXCEPT !.at = "access", !.line = s]
          OBVIOUS
        <4>2. stack' = [stack EXCEPT ![c] = <<f>> \o Tail(q)]
          BY <1>1, <3>5, <4>1 DEF Goto
        <4>3. f.line = s /\ f.cache = q[1].cache
          BY <1>6, <3>3, <4>1 DEF AccessFrame
        <4> QED
          BY <4>2, <4>3 DEF Holding
      <3>6. ASSUME NEW s \in Slots(q[1].cache),
                   Goto(c, [g EXCEPT !.at = "evict", !.line = s, !.todo = EvictFrom(q[1].cache, s)])
            PROVE  \E f : /\ f.line \in {0} \union Slots(f.cache)
                          /\ stack' = [stack EXCEPT ![c] = <<f>> \o Tail(q)]
        <4>1. PICK f : f = [g EXCEPT !.at = "evict", !.line = s, !.todo = EvictFrom(q[1].cache, s)]
          OBVIOUS
        <4>2. stack' = [stack EXCEPT ![c] = <<f>> \o Tail(q)]
          BY <1>1, <3>6, <4>1 DEF Goto
        <4>3. f.line = s /\ f.cache = q[1].cache
          BY <1>6, <3>3, <4>1 DEF AccessFrame
        <4> QED
          BY <4>2, <4>3
      <3> QED
        BY <3>2, <3>4, <3>5, <3>6
    <2> QED
      BY <2>1, <2>2
  <1>11. PICK w : wb' = [wb EXCEPT ![c] = w]
    BY <1>9
  <1>12. PICK f : /\ f.line \in {0} \union Slots(f.cache)
                  /\ stack' = [stack EXCEPT ![c] = <<f>> \o Tail(q)]
    BY <1>10
  <1>13. q[1].at \notin {"evict", "grant"}
    BY <1>5
  <1> QED
    BY <1>1, <1>3, <1>5, <1>8, <1>11, <1>12, <1>13, GotoDirty

(* An access returns. *)
LEMMA ReturnDirty ==
    ASSUME Inner, Coherent, DirtyInv, NEW c \in Core, NEW q, q = stack[c], q # << >>,
           q[1].kind = "access", q[1].at \notin {"evict", "grant"},
           stack' = [stack EXCEPT ![c] = Tail(q)], wb' = wb, tag' = tag, st' = st, dirty' = dirty
    PROVE  DirtyInv'
  <1>1. PICK r : r = Tail(q)
    OBVIOUS
  <1>2. q \in Seq(FrameSet) /\ Tidy(q)
    BY TopSays DEF DirtyInv
  <1>3. Tidy(r)
    BY <1>1, <1>2, ReturnTidy
  <1>4. stack' = [stack EXCEPT ![c] = r]
    BY <1>1
  <1>5. PICK v : v = wb[c]
    OBVIOUS
  <1>6. wb' = [wb EXCEPT ![c] = v]
    BY <1>5, SameWb
  <1>7. dirty' \subseteq Addr /\ \A a \in dirty' : a \in dirty \/ Modified(a)
    BY DEF DirtyInv
  <1> QED
    BY <1>3, <1>4, <1>6, <1>7, QuietDirty

(* The L1's access ends: what it stored is in its line, in M. *)
LEMMA EndDirty ==
    ASSUME Inner, Coherent, DirtyInv, NEW c \in Core, EndAccess(c), Top(c).cache \in L1
    PROVE  DirtyInv'
  <1>1. PICK q : q = stack[c]
    OBVIOUS
  <1>2. PICK v : v = wb[c]
    OBVIOUS
  <1>3. q # << >>
    BY <1>1 DEF EndAccess, In
  <1>4. /\ Top(c) = q[1] /\ FrameFact(q[1], TRUE) /\ q[1].cache \in Cache /\ FrameOK(q[1])
        /\ q[1] \in FrameSet /\ Sane(c, q) /\ 1 \in 1..Len(q)
        /\ 2 \in 1..Len(q) => Called(q[2], q[1]) /\ FrameOK(q[2])
    BY <1>1, <1>3, TopSays
  <1>5. PICK l \in L1 : l = q[1].cache
    BY <1>4
  <1>6. PICK a : a = q[1].addr
    OBVIOUS
  <1>7. PICK f : f = [q[1] EXCEPT !.at = "fill"]
    OBVIOUS
  <1>8. /\ q[1].kind = "access" /\ q[1].at = "end"
        /\ stack' = [stack EXCEPT ![c] = <<f>> \o Tail(q)]
        /\ tag' = tag /\ st' = st /\ wb' = wb
        /\ dirty' = IF q[1].type = "GETX" THEN dirty \union {a} ELSE dirty
    BY <1>1, <1>4, <1>6, <1>7 DEF EndAccess, In, Goto
  <1>9. wb' = [wb EXCEPT ![c] = v]
    BY <1>2, <1>8, SameWb
  <1>10. PICK s \in Slots(l) : s = q[1].line
    BY <1>4, <1>5, <1>8 DEF FrameOK
  <1>11. q[1].type = "GETX" => st[l][s] = "M"
    BY <1>4, <1>5, <1>8, <1>10 DEF FrameFact, LineOK, Served
  <1>12. tag[l][s] = a
    <2>1. Len(q) = 1
      <3>1. ASSUME 2 \in 1..Len(q) PROVE FALSE
        <4>1. q[2].cache \in Cache /\ Parent(q[2].cache, a) = l
          BY <1>4, <1>5, <1>6, <1>8, <3>1, FrameFacts DEF Called
        <4>2. a \in Addr /\ l \in Cache
          BY <1>4, <1>5, <1>6 DEF FrameFact
        <4> QED
          BY <4>1, <4>2, ParentFacts, TreeAssumption
      <3>2. Len(q) \in Nat /\ 1 \in 1..Len(q)
        BY <1>4 DEF Sane
      <3>3. ~(2 \in 1..Len(q))
        BY <3>1
      <3>4. PICK n \in Nat : n = Len(q)
        BY <3>2
      <3>5. n = 1
        BY <3>2, <3>3, <3>4
      <3> QED
        BY <3>4, <3>5
    <2>2. Base(q) = q[1] /\ Accesses(q, l) /\ CoreOf[l] = c
      BY <1>3, <1>4, <1>5, <2>1 DEF Base, Accesses, Sane
    <2>3. FilterOK(l, q)
      BY <1>1, <2>2 DEF Inner, FilterInv
    <2> QED
      BY <1>6, <1>8, <1>10, <2>2, <2>3 DEF FilterOK
  <1>13. l \in Cache /\ a \in Addr
    BY <1>4, <1>5, <1>6 DEF FrameFact
  <1>14. q[1].type = "GETX" => Modified(a)
    BY <1>11, <1>12, <1>13 DEF Modified
  <1>15. dirty' \subseteq Addr /\ \A b \in dirty' : b \in dirty \/ Modified(b)
    BY <1>8, <1>13, <1>14 DEF DirtyInv
  <1>16. f.line \in {0} \union Slots(f.cache)
    <2>1. q[1] \in AccessFrame
      BY <1>4, <1>8 DEF FrameSet, InvFrame
    <2>2. f.line = s /\ f.cache = l
      BY <1>5, <1>7, <1>10, <2>1 DEF AccessFrame
    <2> QED
      BY <2>2
  <1>17. q[1].at \notin {"evict", "grant"}
    BY <1>8
  <1> QED
    BY <1>1, <1>3, <1>8, <1>9, <1>15, <1>16, <1>17, GotoDirty

(* endAccess to the child, and the end of FilterCache::replace. *)
LEMMA LeaveDirty ==
    ASSUME Inner, Coherent, DirtyInv, NEW c \in Core,
           (EndAccess(c) /\ Top(c).cache \notin L1) \/ FillFilter(c)
    PROVE  DirtyInv'
  <1>1. PICK q : q = stack[c]
    OBVIOUS
  <1>2. q # << >>
    BY <1>1 DEF EndAccess, FillFilter, In
  <1>3. Top(c) = q[1]
    BY <1>1, <1>2, TopSays
  <1>4. q[1].kind = "access" /\ q[1].at \in {"end", "fill"}
    BY <1>3 DEF EndAccess, FillFilter, In
  <1>5. /\ stack' = [stack EXCEPT ![c] = Tail(q)]
        /\ wb' = wb /\ tag' = tag /\ st' = st /\ dirty' = dirty
    BY <1>1 DEF EndAccess, FillFilter, Return
  <1>6. q[1].at \notin {"evict", "grant"}
    BY <1>4
  <1> QED
    BY <1>1, <1>2, <1>4, <1>5, <1>6, ReturnDirty

(* What is in hand stays so while more copies below are invalidated. *)
LEMMA SendDirty ==
    ASSUME Inner, Coherent, DirtyInv, NEW c \in Core, SendInvalidate(c), ~failed' PROVE DirtyInv'
  <1>1. PICK q : q = stack[c]
    OBVIOUS
  <1>2. PICK v : v = wb[c]
    OBVIOUS
  <1>3. q # << >>
    BY <1>1 DEF SendInvalidate
  <1>4. Top(c) = q[1] /\ q[1] \in FrameSet /\ 1 \in 1..Len(q) /\ q \in Seq(FrameSet)
    BY <1>1, <1>3, TopSays
  <1>5. PICK ch : ch = NextChild(q[1])
    OBVIOUS
  <1>6. PICK a : a = InvAddr(q[1])
    OBVIOUS
  <1>7. PICK h : h = [q[1] EXCEPT !.todo = @ \ {ch}]
    OBVIOUS
  <1>8. PICK t : t = CHOOSE i \in Holding(ch, a) : TRUE
    OBVIOUS
  <1>9. PICK todo : todo = IF InvType(q[1]) = "INVX" /\ ~IsExclusive(dir[ch][t]) THEN {}
                           ELSE dir[ch][t].sharers
    OBVIOUS
  <1>10. PICK g : g = Invalidate(ch, InvType(q[1]), a, t, todo)
    OBVIOUS
  <1>11. /\ tag' = tag /\ st' = st /\ wb' = wb /\ dirty' = dirty
         /\ Check(Holding(ch, a) # {})
         /\ Holding(ch, a) # {} => CallFrom(c, h, g)
    BY <1>4, <1>5, <1>6, <1>7, <1>8, <1>9, <1>10 DEF SendInvalidate
  <1>12. Holding(ch, a) # {}
    BY <1>11 DEF Check
  <1>13. PICK r : r = <<g, h>> \o Tail(q)
    OBVIOUS
  <1>14. stack' = [stack EXCEPT ![c] = r]
    BY <1>1, <1>11, <1>12, <1>13 DEF CallFrom
  <1>15. /\ h.line = q[1].line /\ h.cache = q[1].cache /\ h.kind = q[1].kind /\ h.at = q[1].at
         /\ q[1].kind = "access" => h.addr = q[1].addr
    BY <1>4, <1>7 DEF FrameSet, AccessFrame, InvFrame
  <1>16. g.line = t /\ g.cache = ch /\ g.kind = "inv"
    BY <1>10 DEF Invalidate
  <1>17. Tidy(q)
    BY <1>1 DEF DirtyInv
  <1>18. Tidy(r)
    <2>1. h.line \in {0} \union Slots(h.cache)
      BY <1>4, <1>15, <1>17 DEF Tidy
    <2>2. g.line \in {0} \union Slots(g.cache)
      BY <1>8, <1>12, <1>16 DEF Holding
    <2> QED
      BY <1>3, <1>4, <1>13, <1>17, <2>1, <2>2, CallTidy
  <1>19. \A b : InHand(q, b) => InHand(r, b)'
    <2> SUFFICES ASSUME NEW b, InHand(q, b) PROVE InHand(r, b)'
      OBVIOUS
    <2>1. PICK i \in 1..Len(q) :
              q[i].kind = "access" /\ q[i].at \in {"evict", "grant"} /\ InvAddr(q[i]) = b
      BY DEF InHand
    <2>2. /\ Len(r) = Len(q) + 1 /\ Len(q) \in Nat /\ r[2] = h
          /\ \A j \in 3..(Len(q) + 1) : r[j] = q[j - 1]
      <3> DEFINE S == FrameSet \union {h, g}
      <3>1. q \in Seq(S) /\ h \in S /\ g \in S
        BY <1>4
      <3> HIDE DEF S
      <3> QED
        BY <1>3, <1>13, <3>1, CallSeq
    <2>3. CASE i = 1
      <3>1. 2 \in 1..Len(r)
        BY <2>1, <2>2
      <3>2. h.kind = "access" /\ h.at \in {"evict", "grant"} /\ InvAddr(h)' = b
        BY <1>11, <1>15, <2>1, <2>3 DEF InvAddr
      <3>3. r[2].kind = "access" /\ r[2].at \in {"evict", "grant"} /\ InvAddr(r[2])' = b
        BY <2>2, <3>2
      <3> QED
        BY <3>1, <3>3 DEF InHand
    <2>4. CASE i # 1
      <3>1. i + 1 \in 1..Len(r) /\ i + 1 \in 3..(Len(q) + 1) /\ (i + 1) - 1 = i
        BY <2>1, <2>2, <2>4
      <3>2. r[i + 1] = q[i]
        BY <2>2, <3>1
      <3>3. InvAddr(q[i])' = b
        BY <1>11, <2>1 DEF InvAddr
      <3> QED
        BY <2>1, <3>1, <3>2, <3>3 DEF InHand
    <2> QED
      BY <2>3, <2>4
  <1>20. wb' = [wb EXCEPT ![c] = v]
    BY <1>2, <1>11, SameWb
  <1>21. \A b \in dirty' : b \notin dirty \/ KeptBy(q, v, b) => KeptBy(r, v, b)'
    <2> SUFFICES ASSUME NEW b \in dirty', KeptBy(q, v, b) PROVE KeptBy(r, v, b)'
      BY <1>11
    <2>1. Modified(b) => Modified(b)'
      BY <1>11 DEF Modified
    <2> QED
      BY <1>19, <2>1 DEF KeptBy
  <1>22. dirty' \subseteq Addr
    BY <1>11 DEF DirtyInv
  <1> QED
    BY <1>1, <1>2, <1>11, <1>14, <1>18, <1>20, <1>21, <1>22, DirtyStep

(* The other lines keep their states. *)
LEMMA StateElsewhere ==
    ASSUME Inner, NEW k \in Cache, NEW t \in Slots(k), NEW n, st' = [st EXCEPT ![k][t] = n]
    PROVE  \A x \in Cache : \A s \in Slots(x) : x # k \/ s # t => st'[x][s] = st[x][s]
  <1>1. IsArray(st, MESIStates)
    BY DEF Inner, Arrays
  <1> QED
    BY <1>1 DEF IsArray

(* An invalidation ends on the way back to the access that wants the line  *)
(* gone, or shared: what it brings is in the hand of that access.          *)
LEMMA InvInHand ==
    ASSUME Inner, Coherent, NEW c \in Core, NEW q, q = stack[c], q # << >>, q[1].kind = "inv"
    PROVE  InHand(Tail(q), tag[q[1].cache][q[1].line])
  <1>1. PICK v : v = wb[c]
    OBVIOUS
  <1>2. Sane(c, q) /\ q \in Seq(FrameSet) /\ Calls(q, v) /\ 1 \in 1..Len(q)
    BY <1>1, TopSays
  <1> DEFINE N == {i \in 1..Len(q) : q[i].kind = "access"}
  <1>3. N \in SUBSET Nat /\ N # {}
    <2>1. Len(q) \in N /\ Len(q) \in Nat
      BY <1>2 DEF Sane
    <2> QED
      BY <2>1
  <1>4. PICK j \in N : \A i \in N : ~(<<i, j>> \in OpToRel(<, Nat))
    BY <1>3, NatLessThanWellFounded, WFMin
  <1>5. j \in 1..Len(q) /\ q[j].kind = "access"
    OBVIOUS
  <1>6. j # 1 /\ j > 1 /\ 1 < j /\ j - 1 \in 1..Len(q) /\ Len(q) \in Nat /\ j - 1 < j
    BY <1>2, <1>5 DEF Sane
  <1>7. q[j - 1].kind # "access"
    <2>1. j - 1 \in Nat /\ j \in Nat
      BY <1>6
    <2>2. <<j - 1, j>> \in OpToRel(<, Nat)
      BY <1>6, <2>1 DEF OpToRel
    <2> QED
      BY <1>4, <1>6, <2>2
  <1> HIDE DEF N
  <1>8. Called(q[j], q[j - 1]) /\ FrameOK(q[j]) /\ FrameOK(q[j - 1])
    BY <1>2, <1>5, <1>6 DEF Sane
  <1>9. q[j - 1].kind = "inv" /\ q[j].at \in {"evict", "grant", "down"}
    BY <1>7, <1>8 DEF Called
  <1>10. q[j] \in AccessFrame
    BY <1>5, <1>8, FrameFacts
  <1>11. q[j].at \in {"evict", "grant"}
    BY <1>9, <1>10 DEF AccessFrame, Ats
  <1>12. Above(q[j], q[1])
    BY <1>2, <1>5, <1>6, <1>9 DEF Calls, Chain
  <1>13. InvAddr(q[j]) = tag[q[1].cache][q[1].line]
    <2>1. tag[q[j].cache][q[j].line] = tag[q[1].cache][q[1].line]
      BY <1>12 DEF Above
    <2>2. CASE q[j].at = "evict"
      BY <2>1, <2>2 DEF InvAddr
    <2>3. CASE q[j].at = "grant"
      <3>1. LineOK(q[j], j = 1)
        BY <1>2, <1>5 DEF Calls, FrameFact
      <3>2. tag[q[j].cache][q[j].line] = q[j].addr
        BY <2>3, <3>1 DEF LineOK
      <3> QED
        BY <2>1, <2>3, <3>2 DEF InvAddr
    <2> QED
      BY <1>11, <2>2, <2>3
  <1>14. PICK r : r = Tail(q)
    OBVIOUS
  <1>15. Len(r) = Len(q) - 1 /\ \A i \in 1..(Len(q) - 1) : r[i] = q[i + 1]
    BY <1>2, <1>14, ReturnSeq
  <1>16. j - 1 \in 1..Len(r) /\ r[j - 1] = q[j]
    BY <1>5, <1>6, <1>15
  <1>17. InHand(r, tag[q[1].cache][q[1].line])
    BY <1>5, <1>11, <1>13, <1>16 DEF InHand
  <1> QED
    BY <1>14, <1>17

(* processInval reports the dirty line it takes: lowerLevelWriteback. *)
LEMMA FinishDirty ==
    ASSUME Inner, Coherent, DirtyInv, NEW c \in Core, FinishInv(c) PROVE DirtyInv'
  <1>1. PICK q : q = stack[c]
    OBVIOUS
  <1>2. q # << >>
    BY <1>1 DEF FinishInv, In
  <1>3. PICK v : v = wb[c]
    OBVIOUS
  <1>4. Top(c) = q[1] /\ FrameOK(q[1]) /\ 1 \in 1..Len(q) /\ q \in Seq(FrameSet) /\ v \in BOOLEAN
    BY <1>1, <1>2, <1>3, TopSays
  <1>5. PICK f : f = q[1]
    OBVIOUS
  <1>6. PICK h : h = q[2]
    OBVIOUS
  <1>7. PICK r : r = Tail(q)
    OBVIOUS
  <1>8. PICK k : k = f.cache
    OBVIOUS
  <1>9. PICK t : t = f.line
    OBVIOUS
  <1>10. /\ f.kind = "inv" /\ stack' = [stack EXCEPT ![c] = r] /\ tag' = tag /\ dirty' = dirty
    BY <1>1, <1>4, <1>5, <1>7 DEF FinishInv, In, Return
  <1>11. InvFact(f, h)
    <2>1. q[1].kind = "inv"
      BY <1>5, <1>10
    <2> QED
      BY <1>1, <1>2, <1>5, <1>6, <2>1, InvFinds
  <1>12. k \in Cache /\ t \in Slots(k) /\ tag[k][t] = f.addr /\ Holding(k, f.addr) = {t}
    BY <1>8, <1>9, <1>11 DEF InvFact
  <1>13. /\ \E n : st' = [st EXCEPT ![k][t] = n]
         /\ wb' = [wb EXCEPT ![c] = v \/ st[k][t] = "M"]
    <2>1. \E s \in Holding(Top(c).cache, Top(c).addr) :
             /\ st' = [st EXCEPT ![Top(c).cache][s] = IF Top(c).type = "INV" THEN "I" ELSE "S"]
             /\ wb' = [wb EXCEPT ![c] = @ \/ WritesBack(st[Top(c).cache][s])]
      BY DEF FinishInv
    <2>2. Top(c).cache = k /\ Top(c).addr = f.addr /\ Top(c).type = f.type
      BY <1>4, <1>5, <1>8
    <2>3. PICK s \in Holding(k, f.addr) :
             /\ st' = [st EXCEPT ![k][s] = IF f.type = "INV" THEN "I" ELSE "S"]
             /\ wb' = [wb EXCEPT ![c] = @ \/ WritesBack(st[k][s])]
      BY <2>1, <2>2
    <2>4. s = t
      BY <1>12
    <2> QED
      BY <1>3, <2>3, <2>4 DEF WritesBack
  <1>14. PICK w \in BOOLEAN : w = (v \/ st[k][t] = "M")
    OBVIOUS
  <1>15. wb' = [wb EXCEPT ![c] = w]
    BY <1>13, <1>14
  <1>16. \A x \in Cache : \A s \in Slots(x) : x # k \/ s # t => st'[x][s] = st[x][s]
    <2>1. PICK n : st' = [st EXCEPT ![k][t] = n]
      BY <1>13
    <2> QED
      BY <2>1, <1>12, StateElsewhere
  <1>17. Tidy(r)
    BY <1>1, <1>2, <1>4, <1>7, ReturnTidy DEF DirtyInv
  <1>18. \A a : InHand(q, a) => InHand(r, a)'
    <2> SUFFICES ASSUME NEW a, InHand(q, a) PROVE InHand(r, a)'
      OBVIOUS
    <2>1. PICK i \in 1..Len(q) :
              q[i].kind = "access" /\ q[i].at \in {"evict", "grant"} /\ InvAddr(q[i]) = a
      BY DEF InHand
    <2>2. Len(r) = Len(q) - 1 /\ Len(q) \in Nat /\ \A j \in 1..(Len(q) - 1) : r[j] = q[j + 1]
      BY <1>2, <1>4, <1>7, ReturnSeq
    <2>3. i # 1
      BY <1>5, <1>10, <2>1
    <2>4. i - 1 \in 1..Len(r) /\ r[i - 1] = q[i]
      BY <2>1, <2>2, <2>3
    <2>5. InvAddr(q[i])' = a
      BY <1>10, <2>1 DEF InvAddr
    <2> QED
      BY <2>1, <2>4, <2>5 DEF InHand
  <1>19. \A a : Modified(a) => Modified(a)' \/ (w /\ InHand(r, a)')
    <2> SUFFICES ASSUME NEW a, Modified(a) PROVE Modified(a)' \/ (w /\ InHand(r, a)')
      OBVIOUS
    <2>0. PICK x \in Cache : \E s \in Slots(x) : tag[x][s] = a /\ st[x][s] = "M"
      BY DEF Modified
    <2>1. PICK s \in Slots(x) : tag[x][s] = a /\ st[x][s] = "M"
      BY <2>0
    <2>2. CASE x = k /\ s = t
      <3>1. w
        BY <1>14, <2>1, <2>2
      <3>2. q[1].kind = "inv" /\ tag[q[1].cache][q[1].line] = a
        BY <1>5, <1>8, <1>9, <1>10, <2>1, <2>2
      <3>3. InHand(r, a)
        BY <1>1, <1>2, <1>7, <3>2, InvInHand
      <3>4. InHand(r, a)'
        BY <1>10, <3>3 DEF InHand, InvAddr
      <3> QED
        BY <3>1, <3>4
    <2>3. CASE x # k \/ s # t
      <3>1. tag'[x][s] = a /\ st'[x][s] = "M"
        BY <1>10, <1>16, <2>1, <2>3
      <3> QED
        BY <3>1 DEF Modified
    <2> QED
      BY <2>2, <2>3
  <1>20. \A a \in dirty' : a \notin dirty \/ KeptBy(q, v, a) => KeptBy(r, w, a)'
    <2> SUFFICES ASSUME NEW a \in dirty', KeptBy(q, v, a) PROVE KeptBy(r, w, a)'
      BY <1>10
    <2>1. CASE Modified(a)
      BY <1>19, <2>1 DEF KeptBy
    <2>2. CASE v /\ InHand(q, a)
      BY <1>14, <1>18, <2>2 DEF KeptBy
    <2> QED
      BY <2>1, <2>2 DEF KeptBy
  <1>21. dirty' \subseteq Addr
    BY <1>10 DEF DirtyInv
  <1> QED
    BY <1>1, <1>3, <1>10, <1>15, <1>17, <1>20, <1>21, DirtyStep

(* The line an eviction takes is written back, to memory or to the parent. *)
LEMMA EvictDirty ==
    ASSUME Inner, Coherent, DirtyInv, NEW c \in Core, Evict(c) PROVE DirtyInv'
  <1>1. PICK q : q = stack[c]
    OBVIOUS
  <1>2. q # << >> /\ q[1].kind = "access" /\ q[1].at = "evict"
    <2>1. q # << >> /\ Top(c).kind = "access" /\ Top(c).at = "evict"
      BY <1>1 DEF Evict, In
    <2> QED
      BY <1>1, <2>1, TopSays
  <1>3. PICK v : v = wb[c]
    OBVIOUS
  <1>4. PICK f : f = q[1]
    OBVIOUS
  <1>5. AccessFact(c, q, f, v)
    BY <1>1, <1>2, <1>3, <1>4, AccessSays
  <1>6. /\ Top(c) = f /\ Sane(c, q) /\ f \in AccessFrame /\ FrameOK(f) /\ f.cache \in Cache
        /\ KeepOK(f, v) /\ v \in BOOLEAN /\ f.kind = "access" /\ f.at = "evict"
        /\ q \in Seq(FrameSet)
    BY <1>2, <1>4, <1>5 DEF AccessFact
  <1>7. PICK k \in Cache : k = f.cache
    BY <1>6
  <1>8. PICK s \in Slots(k) : s = f.line
    BY <1>6, <1>7 DEF FrameOK
  <1>9. PICK state : state = IF v THEN "M" ELSE st[k][s]
    OBVIOUS
  <1>10. PICK put : put = IF state = "M" THEN "PUTX" ELSE "PUTS"
    OBVIOUS
  <1>11. PICK h : h = [f EXCEPT !.at = "insert"]
    OBVIOUS
  <1>12. PICK p, g : p = Parent(k, tag[k][s]) /\ g = Access(p, put, tag[k][s], k, s, state, FALSE)
    OBVIOUS
  <1>13. /\ tag' = tag /\ wb' = wb
         /\ IF state = "I" \/ p = Mem
              THEN /\ st' = [st EXCEPT ![k][s] = "I"] /\ Goto(c, h)
                   /\ dirty' = IF state = "M" THEN dirty \ {tag[k][s]} ELSE dirty
              ELSE st' = [st EXCEPT ![k][s] = state] /\ CallFrom(c, h, g) /\ dirty' = dirty
    BY <1>3, <1>6, <1>7, <1>8, <1>9, <1>10, <1>11, <1>12 DEF Evict
  <1>14. /\ st[k][s] = "M" \/ v => state = "M"
         /\ state = "I" \/ p = Mem =>
               dirty' = IF state = "M" THEN dirty \ {tag[k][s]} ELSE dirty
         /\ ~(state = "I" \/ p = Mem) => st'[k][s] = state /\ dirty' = dirty
         /\ \A x \in Cache : \A u \in Slots(x) : x # k \/ u # s => st'[x][u] = st[x][u]
    <2>1. CASE state = "I" \/ p = Mem
      <3>1. /\ st' = [st EXCEPT ![k][s] = "I"]
            /\ dirty' = IF state = "M" THEN dirty \ {tag[k][s]} ELSE dirty
        BY <1>13, <2>1
      <3>2. \A x \in Cache : \A u \in Slots(x) : x # k \/ u # s => st'[x][u] = st[x][u]
        BY <3>1, StateElsewhere
      <3> QED
        BY <1>9, <2>1, <3>1, <3>2
    <2>2. CASE ~(state = "I" \/ p = Mem)
      <3>1. st' = [st EXCEPT ![k][s] = state] /\ dirty' = dirty
        BY <1>13, <2>2
      <3>2. \A x \in Cache : \A u \in Slots(x) : x # k \/ u # s => st'[x][u] = st[x][u]
        BY <3>1, StateElsewhere
      <3>3. st'[k][s] = state
        <4>1. IsArray(st, MESIStates)
          BY DEF Inner, Arrays
        <4> QED
          BY <3>1, <4>1 DEF IsArray
      <3> QED
        BY <1>9, <2>2, <3>1, <3>2, <3>3
    <2> QED
      BY <2>1, <2>2
  <1>15. Tidy(q)
    BY <1>1 DEF DirtyInv
  <1>16. \E r : stack' = [stack EXCEPT ![c] = r] /\ Tidy(r)
    <2>1. h.line = s /\ h.cache = k
      BY <1>6, <1>7, <1>8, <1>11 DEF AccessFrame
    <2>2. g.line = 0
      BY <1>12 DEF Access
    <2>3. CASE state = "I" \/ p = Mem
      <3>1. PICK r : r = <<h>> \o Tail(q)
        OBVIOUS
      <3>2. stack' = [stack EXCEPT ![c] = r]
        BY <1>1, <1>13, <2>3, <3>1 DEF Goto
      <3>3. Tidy(r)
        BY <1>2, <1>6, <1>15, <2>1, <3>1, GotoTidy
      <3> QED
        BY <3>2, <3>3
    <2>4. CASE ~(state = "I" \/ p = Mem)
      <3>1. PICK r : r = <<g, h>> \o Tail(q)
        OBVIOUS
      <3>2. stack' = [stack EXCEPT ![c] = r]
        BY <1>1, <1>13, <2>4, <3>1 DEF CallFrom
      <3>3. Tidy(r)
        BY <1>2, <1>6, <1>15, <2>1, <2>2, <3>1, CallTidy
      <3> QED
        BY <3>2, <3>3
    <2> QED
      BY <2>3, <2>4
  <1>17. PICK r : stack' = [stack EXCEPT ![c] = r] /\ Tidy(r)
    BY <1>16
  <1>18. wb' = [wb EXCEPT ![c] = v]
    BY <1>3, <1>13, SameWb
  <1>19. \A a : InHand(q, a) => tag[k][s] = a
    <2>1. \A a : InHand(q, a) => InvAddr(q[1]) = a
      BY <1>2, <1>6, HandTop
    <2>2. InvAddr(q[1]) = tag[k][s]
      BY <1>4, <1>6, <1>7, <1>8 DEF InvAddr
    <2> QED
      BY <2>1, <2>2
  <1>20. ASSUME NEW a \in dirty', tag[k][s] = a, state = "M" PROVE Modified(a)'
    <2>1. ~(state = "I" \/ p = Mem)
      BY <1>14, <1>20
    <2>2. tag'[k][s] = a /\ st'[k][s] = "M"
      BY <1>13, <1>14, <1>20, <2>1
    <2> QED
      BY <2>2 DEF Modified
  <1>21. \A a \in dirty' : a \notin dirty \/ KeptBy(q, v, a) => KeptBy(r, v, a)'
    <2> SUFFICES ASSUME NEW a \in dirty', KeptBy(q, v, a) PROVE Modified(a)'
      BY <1>14 DEF KeptBy
    <2>1. CASE v /\ InHand(q, a)
      BY <1>14, <1>19, <1>20, <2>1
    <2>2. CASE Modified(a)
      <3>0. PICK x \in Cache : \E u \in Slots(x) : tag[x][u] = a /\ st[x][u] = "M"
        BY <2>2 DEF Modified
      <3>1. PICK u \in Slots(x) : tag[x][u] = a /\ st[x][u] = "M"
        BY <3>0
      <3>2. CASE x = k /\ u = s
        BY <1>14, <1>20, <3>1, <3>2
      <3>3. CASE x # k \/ u # s
        <4>1. tag'[x][u] = a /\ st'[x][u] = "M"
          BY <1>13, <1>14, <3>1, <3>3
        <4> QED
          BY <4>1 DEF Modified
      <3> QED
        BY <3>2, <3>3
    <2> QED
      BY <2>1, <2>2 DEF KeptBy
  <1>22. dirty' \subseteq Addr
    BY <1>14 DEF DirtyInv
  <1> QED
    BY <1>1, <1>3, <1>13, <1>17, <1>18, <1>21, <1>22, DirtyStep

(* A line that is fetched was not M, one that is hit in M stays so.        *)
LEMMA FetchDirty ==
    ASSUME Inner, Coherent, DirtyInv, NEW c \in Core, BottomAccess(c) PROVE DirtyInv'
  <1>1. PICK q : q = stack[c]
    OBVIOUS
  <1>2. q # << >> /\ q[1].kind = "access" /\ q[1].at \in {"access", "insert"}
    <2>1. q # << >> /\ Top(c).kind = "access" /\ Top(c).at \in {"access", "insert"}
      BY <1>1 DEF BottomAccess, In
    <2> QED
      BY <1>1, <2>1, TopSays
  <1>3. PICK v : v = wb[c]
    OBVIOUS
  <1>4. PICK f : f = q[1]
    OBVIOUS
  <1>5. AccessFact(c, q, f, v)
    BY <1>1, <1>2, <1>3, <1>4, AccessSays
  <1>6. /\ Top(c) = f /\ Sane(c, q) /\ f \in AccessFrame /\ FrameOK(f) /\ f.cache \in Cache
        /\ f.addr \in Addr /\ LineOK(f, TRUE) /\ v \in BOOLEAN
        /\ f.kind = "access" /\ f.at \in {"access", "insert"} /\ q \in Seq(FrameSet)
    BY <1>2, <1>4, <1>5 DEF AccessFact
  <1>7. PICK k \in Cache : k = f.cache
    BY <1>6
  <1>8. PICK s \in Slots(k) : s = f.line
    BY <1>6, <1>7 DEF FrameOK
  <1>9. PICK a \in Addr : a = f.addr
    BY <1>6
  <1>10. PICK b \in Ats : b = IF k \in L1 THEN "end" ELSE "dir"
    BY DEF Ats
  <1>11. PICK h : h = [f EXCEPT !.at = b]
    OBVIOUS
  <1>12. PICK g : g = Access(Parent(k, a), f.type, a, k, s, st[k][s], f.noexcl)
    OBVIOUS
  <1>13. /\ tag' = [tag EXCEPT ![k][s] = a] /\ wb' = wb /\ dirty' = dirty
         /\ \/ CallFrom(c, h, g) /\ st' = st
            \/ /\ Goto(c, h) /\ NeedsParent(f.type, st[k][s])
               /\ st' = [st EXCEPT ![k][s] = Granted(f.type, f.noexcl)]
            \/ /\ Goto(c, h) /\ ~NeedsParent(f.type, st[k][s])
               /\ st' = [st EXCEPT ![k][s] = IF f.type \in {"GETX", "PUTX"} THEN "M" ELSE @]
    BY <1>6, <1>7, <1>8, <1>9, <1>10, <1>11, <1>12 DEF BottomAccess
  <1>14. IsArray(st, MESIStates) /\ IsArray(tag, Addr \union {None})
    BY DEF Inner, Arrays
  <1>15. /\ st[k][s] = "M" => st'[k][s] = "M"
         /\ \A x \in Cache : \A u \in Slots(x) : x # k \/ u # s => st'[x][u] = st[x][u]
    <2>1. CASE st' = st
      BY <2>1
    <2>2. CASE /\ NeedsParent(f.type, st[k][s])
               /\ st' = [st EXCEPT ![k][s] = Granted(f.type, f.noexcl)]
      <3>1. st[k][s] # "M"
        BY <2>2 DEF NeedsParent
      <3> QED
        BY <2>2, <3>1, StateElsewhere
    <2>3. CASE st' = [st EXCEPT ![k][s] = IF f.type \in {"GETX", "PUTX"} THEN "M" ELSE @]
      <3>1. PICK n : n = IF f.type \in {"GETX", "PUTX"} THEN "M" ELSE st[k][s]
        OBVIOUS
      <3>2. st' = [st EXCEPT ![k][s] = n]
        BY <2>3, <3>1
      <3>3. st'[k][s] = n
        BY <1>14, <3>2 DEF IsArray
      <3>4. \A x \in Cache : \A u \in Slots(x) : x # k \/ u # s => st'[x][u] = st[x][u]
        BY <3>2, StateElsewhere
      <3> QED
        BY <3>1, <3>3, <3>4
    <2> QED
      BY <1>13, <2>1, <2>2, <2>3
  <1>16. /\ tag'[k][s] = a
         /\ \A x \in Cache : \A u \in Slots(x) : x # k \/ u # s => tag'[x][u] = tag[x][u]
    <2>1. tag' = [tag EXCEPT ![k][s] = a]
      BY <1>13
    <2> QED
      BY <1>14, <2>1 DEF IsArray
  <1>17. f.at = "access" => tag[k][s] = a
    BY <1>6, <1>7, <1>8, <1>9 DEF LineOK
  <1>18. f.at = "insert" => st[k][s] = "I"
    BY <1>6, <1>7, <1>8 DEF LineOK
  <1>19. Tidy(q)
    BY <1>1 DEF DirtyInv
  <1>20. \E r : stack' = [stack EXCEPT ![c] = r] /\ Tidy(r)
    <2>1. h.line = s /\ h.cache = k
      BY <1>6, <1>7, <1>8, <1>11 DEF AccessFrame
    <2>2. g.line = 0
      BY <1>12 DEF Access
    <2>3. CASE Goto(c, h)
      <3>1. PICK r : r = <<h>> \o Tail(q)
        OBVIOUS
      <3>2. stack' = [stack EXCEPT ![c] = r]
        BY <1>1, <2>3, <3>1 DEF Goto
      <3>3. Tidy(r)
        BY <1>2, <1>6, <1>19, <2>1, <3>1, GotoTidy
      <3> QED
        BY <3>2, <3>3
    <2>4. CASE CallFrom(c, h, g)
      <3>1. PICK r : r = <<g, h>> \o Tail(q)
        OBVIOUS
      <3>2. stack' = [stack EXCEPT ![c] = r]
        BY <1>1, <2>4, <3>1 DEF CallFrom
      <3>3. Tidy(r)
        BY <1>2, <1>6, <1>19, <2>1, <2>2, <3>1, CallTidy
      <3> QED
        BY <3>2, <3>3
    <2> QED
      BY <1>13, <2>3, <2>4
  <1>21. PICK r : stack' = [stack EXCEPT ![c] = r] /\ Tidy(r)
    BY <1>20
  <1>22. wb' = [wb EXCEPT ![c] = v]
    BY <1>3, <1>13, SameWb
  <1>23. \A e : ~InHand(q, e)
    BY <1>2, <1>6, HandTop
  <1>24. \A e \in dirty' : e \notin dirty \/ KeptBy(q, v, e) => KeptBy(r, v, e)'
    <2> SUFFICES ASSUME NEW e \in dirty', Modified(e) PROVE Modified(e)'
      BY <1>13, <1>23 DEF KeptBy
    <2>0. PICK x \in Cache : \E u \in Slots(x) : tag[x][u] = e /\ st[x][u] = "M"
      BY DEF Modified
    <2>1. PICK u \in Slots(x) : tag[x][u] = e /\ st[x][u] = "M"
      BY <2>0
    <2>2. tag'[x][u] = e /\ st'[x][u] = "M"
      <3>1. CASE x = k /\ u = s
        BY <1>6, <1>15, <1>16, <1>17, <1>18, <2>1, <3>1
      <3>2. CASE x # k \/ u # s
        BY <1>15, <1>16, <2>1, <3>2
      <3> QED
        BY <3>1, <3>2
    <2> QED
      BY <2>2 DEF Modified
  <1>25. \A d \in Core : d # c => \A i \in 1..Len(stack[d]) : stack[d][i].at = "evict" =>
              tag'[stack[d][i].cache][stack[d][i].line] = tag[stack[d][i].cache][stack[d][i].line]
    <2> SUFFICES ASSUME NEW d \in Core, d # c, NEW p, p = stack[d], NEW i \in 1..Len(p),
                        p[i].at = "evict"
                 PROVE  tag'[p[i].cache][p[i].line] = tag[p[i].cache][p[i].line]
      OBVIOUS
    <2>1. FrameOK(p[i])
      BY DEF Inner, Sane
    <2>2. p[i].cache \in Cache /\ p[i].line \in Slots(p[i].cache)
      BY <2>1, FrameFacts DEF FrameOK
    <2>3. ~(p[i].cache = k /\ p[i].line = s)
      <3> SUFFICES ASSUME p[i].cache = k, p[i].line = s PROVE FALSE
        OBVIOUS
      <3>1. Working(p, k, s)
        BY DEF Working
      <3>2. Working(stack[d], k, s)
        BY <3>1
      <3>3. HasBottom(q, 1) /\ k = q[1].cache /\ LocksHeld
        BY <1>2, <1>4, <1>7 DEF HasBottom, Coherent
      <3>4. OnlyTop(c, q, k)
        BY <1>1, <1>2, <3>3, TopQuiet
      <3> QED
        BY <3>2, <3>4 DEF OnlyTop
    <2> QED
      BY <1>16, <2>2, <2>3
  <1>26. dirty' \subseteq Addr
    BY <1>13 DEF DirtyInv
  <1> QED
    BY <1>1, <1>3, <1>21, <1>22, <1>24, <1>25, <1>26, DirtyStep

(* The child's line changes in the directory's access: if it was M it was  *)
(* put back, and ours is M.                                                *)
LEMMA ServeDirty ==
    ASSUME Inner, Coherent, DirtyInv, NEW c \in Core, TopAccess(c) PROVE DirtyInv'
  <1>1. PICK q, v, f, k, s, j, t : DirBegun(c, q, v, f, k, s, j, t)
    <2>1. In(c, "access", "dir")
      BY DEF TopAccess
    <2> QED
      BY <2>1, DirBegins
  <1>2. /\ q = stack[c] /\ v = wb[c] /\ q # << >> /\ AccessFact(c, q, f, v)
        /\ Top(c) = f /\ f \in AccessFrame /\ f.at = "dir"
        /\ k \in Cache /\ k = f.cache /\ s \in Slots(k) /\ s = f.line
        /\ j \in Cache /\ j = f.child /\ t \in Slots(j) /\ t = f.slot
        /\ DirFact(f, k, s, j, t)
    BY <1>1 DEF DirBegun
  <1>3. f = q[1] /\ q[1].kind = "access" /\ q \in Seq(FrameSet) /\ Sane(c, q)
    BY <1>2 DEF AccessFact, AccessFrame
  <1>4. /\ wb' = [wb EXCEPT ![c] = FALSE] /\ tag' = tag /\ dirty' = dirty
        /\ \/ IsPut(f.type) /\ st' = [st EXCEPT ![j][t] = "I"]
           \/ ~IsPut(f.type) /\ st' = [st EXCEPT ![j][t] = "E"]
           \/ st' = st
    BY <1>2 DEF TopAccess, IsPut
  <1>5. \E h : /\ h.line \in {0} \union Slots(h.cache)
               /\ stack' = [stack EXCEPT ![c] = <<h>> \o Tail(q)]
    <2>1. \E d : \/ Goto(c, [f EXCEPT !.at = "end"])
                 \/ Goto(c, [f EXCEPT !.at = "grant", !.todo = d])
      BY <1>2 DEF TopAccess
    <2>2. CASE Goto(c, [f EXCEPT !.at = "end"])
      <3>1. PICK h : h = [f EXCEPT !.at = "end"]
        OBVIOUS
      <3>2. h.line = s /\ h.cache = k
        BY <1>2, <3>1 DEF AccessFrame
      <3>3. stack' = [stack EXCEPT ![c] = <<h>> \o Tail(q)]
        BY <1>2, <2>2, <3>1 DEF Goto
      <3> QED
        BY <1>2, <3>2, <3>3
    <2>3. ASSUME NEW d, Goto(c, [f EXCEPT !.at = "grant", !.todo = d])
          PROVE  \E h : /\ h.line \in {0} \union Slots(h.cache)
                        /\ stack' = [stack EXCEPT ![c] = <<h>> \o Tail(q)]
      <3>1. PICK h : h = [f EXCEPT !.at = "grant", !.todo = d]
        OBVIOUS
      <3>2. h.line = s /\ h.cache = k
        BY <1>2, <3>1 DEF AccessFrame
      <3>3. stack' = [stack EXCEPT ![c] = <<h>> \o Tail(q)]
        BY <1>2, <2>3, <3>1 DEF Goto
      <3> QED
        BY <1>2, <3>2, <3>3
    <2> QED
      BY <2>1, <2>2, <2>3
  <1>6. PICK h : /\ h.line \in {0} \union Slots(h.cache)
                 /\ stack' = [stack EXCEPT ![c] = <<h>> \o Tail(q)]
    BY <1>5
  <1>7. PICK r : r = <<h>> \o Tail(q)
    OBVIOUS
  <1>8. Tidy(q)
    BY <1>2 DEF DirtyInv
  <1>9. Tidy(r)
    BY <1>2, <1>3, <1>6, <1>7, <1>8, GotoTidy
  <1>10. \A a : ~InHand(q, a)
    BY <1>2, <1>3, HandTop
  <1>11. \A x \in Cache : \A u \in Slots(x) : x # j \/ u # t => st'[x][u] = st[x][u]
    <2>1. CASE st' = st
      BY <2>1
    <2>2. CASE st' = [st EXCEPT ![j][t] = "I"]
      BY <1>2, <2>2, StateElsewhere
    <2>3. CASE st' = [st EXCEPT ![j][t] = "E"]
      BY <1>2, <2>3, StateElsewhere
    <2> QED
      BY <1>4, <2>1, <2>2, <2>3
  <1>12. /\ j # k /\ tag[k][s] = tag[j][t]
         /\ st[j][t] = "M" => f.type = "PUTX" /\ st[k][s] = "M"
    <2>1. j # k /\ tag[k][s] = tag[j][t] /\ Served(f.type, st[k][s])
      BY <1>2 DEF DirFact
    <2>2. st[j][t] = "M" => f.type = "PUTX"
      BY <1>2 DEF DirFact
    <2> QED
      BY <2>1, <2>2 DEF Served
  <1>13. \A a \in dirty' : a \notin dirty \/ KeptBy(q, v, a) => KeptBy(r, FALSE, a)'
    <2> SUFFICES ASSUME NEW a \in dirty', Modified(a) PROVE Modified(a)'
      BY <1>4, <1>10 DEF KeptBy
    <2>0. PICK x \in Cache : \E u \in Slots(x) : tag[x][u] = a /\ st[x][u] = "M"
      BY DEF Modified
    <2>1. PICK u \in Slots(x) : tag[x][u] = a /\ st[x][u] = "M"
      BY <2>0
    <2>2. CASE x = j /\ u = t
      <3>1. tag[k][s] = a /\ st[k][s] = "M" /\ k # j
        BY <1>12, <2>1, <2>2
      <3>2. tag'[k][s] = a /\ st'[k][s] = "M"
        BY <1>2, <1>4, <1>11, <3>1
      <3> QED
        BY <1>2, <3>2 DEF Modified
    <2>3. CASE x # j \/ u # t
      <3>1. tag'[x][u] = a /\ st'[x][u] = "M"
        BY <1>4, <1>11, <2>1, <2>3
      <3> QED
        BY <3>1 DEF Modified
    <2> QED
      BY <2>2, <2>3
  <1>14. dirty' \subseteq Addr /\ stack' = [stack EXCEPT ![c] = r]
    BY <1>4, <1>6, <1>7 DEF DirtyInv
  <1> QED
    BY <1>2, <1>4, <1>9, <1>13, <1>14, DirtyStep

(* What the other copies brought in hand goes into the line.               *)
LEMMA GrantDirty ==
    ASSUME Inner, Coherent, DirtyInv, NEW c \in Core, Grant(c) PROVE DirtyInv'
  <1>1. PICK q : q = stack[c]
    OBVIOUS
  <1>2. q # << >> /\ q[1].kind = "access" /\ q[1].at = "grant"
    <2>1. q # << >> /\ Top(c).kind = "access" /\ Top(c).at = "grant"
      BY <1>1 DEF Grant, In
    <2> QED
      BY <1>1, <2>1, TopSays
  <1>3. PICK v : v = wb[c]
    OBVIOUS
  <1>4. PICK f : f = q[1]
    OBVIOUS
  <1>5. AccessFact(c, q, f, v)
    BY <1>1, <1>2, <1>3, <1>4, AccessSays
  <1>6. /\ Top(c) = f /\ f \in AccessFrame /\ FrameOK(f) /\ f.at = "grant" /\ f.cache \in Cache
        /\ q \in Seq(FrameSet) /\ Sane(c, q) /\ LineOK(f, TRUE)
    BY <1>2, <1>4, <1>5 DEF AccessFact
  <1>7. PICK k \in Cache : k = f.cache /\ k \notin L1
    BY <1>6 DEF FrameOK
  <1>8. PICK s \in Slots(k) : s = f.line
    BY <1>6, <1>7 DEF FrameOK
  <1>9. PICK j \in Cache : j = f.child /\ j # k
    BY <1>5, <1>7 DEF AccessFact
  <1>10. PICK t \in Slots(j) : t = f.slot
    BY <1>5, <1>7, <1>9 DEF AccessFact
  <1>11. PICK h : h = [f EXCEPT !.at = "end"]
    OBVIOUS
  <1>12. PICK n : n = IF v THEN "M" ELSE st[k][s]
    OBVIOUS
  <1>13. PICK m : m = IF f.type = "GETX" THEN "M" ELSE "S"
    OBVIOUS
  <1>14. /\ st' = [st EXCEPT ![j][t] = m, ![k][s] = IF v THEN "M" ELSE @]
         /\ Goto(c, h) /\ tag' = tag /\ wb' = wb /\ dirty' = dirty
    BY <1>3, <1>6, <1>7, <1>8, <1>9, <1>10, <1>11, <1>13 DEF Grant
  <1>15. st[j][t] # "M"
    <2>1. ChildOK(f)
      BY <1>5, <1>7 DEF AccessFact
    <2> QED
      BY <1>6, <1>9, <1>10, <2>1 DEF ChildOK
  <1>16. /\ st'[k][s] = n
         /\ \A x \in Cache : \A u \in Slots(x) :
               (x # k \/ u # s) /\ (x # j \/ u # t) => st'[x][u] = st[x][u]
    <2>1. IsArray(st, MESIStates)
      BY DEF Inner, Arrays
    <2>2. st' = [st EXCEPT ![j][t] = m, ![k][s] = n]
      BY <1>9, <1>12, <1>14, <2>1 DEF IsArray
    <2> QED
      BY <1>9, <2>1, <2>2 DEF IsArray
  <1>17. \A a : InHand(q, a) => tag[k][s] = a
    <2>1. \A a : InHand(q, a) => InvAddr(q[1]) = a
      BY <1>2, <1>6, HandTop
    <2>2. InvAddr(q[1]) = tag[k][s]
      BY <1>4, <1>6, <1>7, <1>8 DEF InvAddr, LineOK
    <2> QED
      BY <2>1, <2>2
  <1>18. PICK r : r = <<h>> \o Tail(q)
    OBVIOUS
  <1>19. Tidy(r)
    <2>1. h.line = s /\ h.cache = k
      BY <1>6, <1>7, <1>8, <1>11 DEF AccessFrame
    <2>2. Tidy(q)
      BY <1>1 DEF DirtyInv
    <2> QED
      BY <1>2, <1>6, <1>18, <2>1, <2>2, GotoTidy
  <1>20. wb' = [wb EXCEPT ![c] = v]
    BY <1>3, <1>14, SameWb
  <1>21. ASSUME NEW a, tag[k][s] = a, n = "M" PROVE Modified(a)'
    <2>1. tag'[k][s] = a /\ st'[k][s] = "M"
      BY <1>14, <1>16, <1>21
    <2> QED
      BY <2>1 DEF Modified
  <1>22. \A a \in dirty' : a \notin dirty \/ KeptBy(q, v, a) => KeptBy(r, v, a)'
    <2> SUFFICES ASSUME NEW a \in dirty', KeptBy(q, v, a) PROVE Modified(a)'
      BY <1>14 DEF KeptBy
    <2>1. CASE v /\ InHand(q, a)
      BY <1>12, <1>17, <1>21, <2>1
    <2>2. CASE Modified(a)
      <3>0. PICK x \in Cache : \E u \in Slots(x) : tag[x][u] = a /\ st[x][u] = "M"
        BY <2>2 DEF Modified
      <3>1. PICK u \in Slots(x) : tag[x][u] = a /\ st[x][u] = "M"
        BY <3>0
      <3>2. CASE x = k /\ u = s
        BY <1>12, <1>21, <3>1, <3>2
      <3>3. CASE x = j /\ u = t
        BY <1>15, <3>1, <3>3
      <3>4. CASE (x # k \/ u # s) /\ (x # j \/ u # t)
        <4>1. tag'[x][u] = a /\ st'[x][u] = "M"
          BY <1>14, <1>16, <3>1, <3>4
        <4> QED
          BY <4>1 DEF Modified
      <3> QED
        BY <3>2, <3>3, <3>4
    <2> QED
      BY <2>1, <2>2 DEF KeptBy
  <1>23. dirty' \subseteq Addr /\ stack' = [stack EXCEPT ![c] = r]
    BY <1>1, <1>14, <1>18 DEF DirtyInv, Goto
  <1> QED
    BY <1>1, <1>3, <1>14, <1>19, <1>20, <1>22, <1>23, DirtyStep

(* No step loses dirty data. *)
LEMMA DirtyNext ==
    ASSUME Inner, Coherent, Coherent', DirtyInv, [Next]_vars PROVE DirtyInv'
  <1>1. CASE vars' = vars
    BY <1>1, SameDirty DEF vars
  <1>2. CASE Next
    <2>1. PICK c \in Core : Replace(c) \/ ContextSwitch(c) \/ Step(c)
      BY <1>2 DEF Next
    <2>2. ~failed'
      BY DEF Coherent
    <2>3. CASE Replace(c)
      BY <2>3, ReplaceDirty
    <2>4. CASE ContextSwitch(c)
      BY <2>4, SameDirty DEF ContextSwitch
    <2>5. CASE LockTcc(c)
      BY <2>5, LockDirty
    <2>6. CASE LockBcc(c)
      BY <2>6, LockDirty
    <2>7. CASE SendInvalidate(c)
      BY <2>2, <2>7, SendDirty
    <2>8. CASE FinishInv(c)
      BY <2>8, FinishDirty
    <2>9. CASE Evict(c)
      BY <2>9, EvictDirty
    <2>10. CASE BottomAccess(c)
      BY <2>10, FetchDirty
    <2>11. CASE TopAccess(c)
      BY <2>11, ServeDirty
    <2>12. CASE Grant(c)
      BY <2>12, GrantDirty
    <2>13. CASE EndAccess(c)
      <3>1. CASE Top(c).cache \in L1
        BY <2>13, <3>1, EndDirty
      <3>2. CASE Top(c).cache \notin L1
        BY <2>13, <3>2, LeaveDirty
      <3> QED
        BY <3>1, <3>2
    <2>14. CASE FillFilter(c)
      BY <2>14, LeaveDirty
    <2> QED
      BY <2>1, <2>3, <2>4, <2>5, <2>6, <2>7, <2>8, <2>9, <2>10, <2>11, <2>12, <2>13, <2>14 DEF Step
  <1> QED
    BY <1>1, <1>2

(* ... and so none ever does. *)
LEMMA DirtyAlways == Spec => []DirtyInv
  <1>1. Init => DirtyInv
    <2> SUFFICES ASSUME Init PROVE DirtyInv
      OBVIOUS
    <2>1. dirty = {} /\ \A c \in Core : Len(stack[c]) = 0
      BY EmptySeq DEF Init
    <2> QED
      BY <2>1 DEF DirtyInv, Tidy
  <1>2. Inner /\ Coherent /\ Coherent' /\ DirtyInv /\ [Next]_vars => DirtyInv'
    BY DirtyNext
  <1> QED
    BY <1>1, <1>2, CoherentAlways, PTL DEF Spec

(***************************************************************************)
(* Dirty data is never dropped by an eviction, a downgrade, a raced PUTX   *)
(* or a writeback on access (lowerLevelWriteback): until memory has been   *)
(* written some cache has the line in M, or a core has it in hand.         *)
(***************************************************************************)
THEOREM DirtyNeverLost == Spec => []DirtyKept
  <1>1. DirtyInv => DirtyKept
    <2> SUFFICES ASSUME DirtyInv, NEW a \in dirty
                 PROVE  \/ \E k \in Cache : \E s \in Slots(k) : tag[k][s] = a /\ st[k][s] = "M"
                        \/ \E c \in Core : wb[c] /\ \E f \in Frames(c) :
                              /\ f.kind = "access" /\ f.at \in {"evict", "grant"}
                              /\ InvAddr(f) = a
      BY DEF DirtyKept
    <2>1. PICK c \in Core : KeptBy(stack[c], wb[c], a)
      BY DEF DirtyInv
    <2>2. CASE Modified(a)
      BY <2>2 DEF Modified
    <2>3. CASE wb[c] /\ InHand(stack[c], a)
      <3>1. PICK i \in 1..Len(stack[c]) : /\ stack[c][i].kind = "access"
                /\ stack[c][i].at \in {"evict", "grant"} /\ InvAddr(stack[c][i]) = a
        BY <2>3 DEF InHand
      <3>2. stack[c][i] \in Frames(c)
        BY DEF Frames
      <3> QED
        BY <2>3, <3>1, <3>2
    <2> QED
      BY <2>1, <2>2, <2>3 DEF KeptBy
  <1> QED
    BY <1>1, DirtyAlways, PTL

(* The flag of the failed asserts is a truth value: a step keeps it or     *)
(* adds to it.                                                             *)
LEMMA FailedIsTruthValue == Spec => [](failed \in BOOLEAN)
  <1>1. Init => failed \in BOOLEAN
    BY DEF Init
  <1>2. failed \in BOOLEAN /\ [Next]_vars => (failed \in BOOLEAN)'
    <2> SUFFICES ASSUME failed \in BOOLEAN, [Next]_vars PROVE failed' \in BOOLEAN
      OBVIOUS
    <2>1. CASE UNCHANGED vars
      BY <2>1 DEF vars
    <2>2. CASE Next
      <3>1. PICK c \in Core : Replace(c) \/ ContextSwitch(c) \/ Step(c)
        BY <2>2 DEF Next
      <3>2. CASE Replace(c)
        BY <3>2 DEF Replace
      <3>3. CASE ContextSwitch(c)
        BY <3>3 DEF ContextSwitch
      <3>4. CASE LockTcc(c)
        BY <3>4 DEF LockTcc
      <3>5. CASE LockBcc(c)
        BY <3>5, Zenon DEF LockBcc, Check
      <3>6. CASE SendInvalidate(c)
        BY <3>6, Zenon DEF SendInvalidate, Check
      <3>7. CASE FinishInv(c)
        BY <3>7, Zenon DEF FinishInv, Check
      <3>8. CASE Evict(c)
        BY <3>8, Zenon DEF Evict, Check
      <3>9. CASE BottomAccess(c)
        BY <3>9, Zenon DEF BottomAccess, Check
      <3>10. CASE TopAccess(c)
        BY <3>10, Zenon DEF TopAccess, Check
      <3>11. CASE Grant(c)
        BY <3>11, Zenon DEF Grant, Check
      <3>12. CASE EndAccess(c)
        BY <3>12, Zenon DEF EndAccess, Check
      <3>13. CASE FillFilter(c)
        BY <3>13 DEF FillFilter
      <3> QED
        BY <3>1, <3>2, <3>3, <3>4, <3>5, <3>6, <3>7, <3>8, <3>9, <3>10, <3>11, <3>12, <3>13
        DEF Step
    <2> QED
      BY <2>1, <2>2
  <1> QED
    BY <1>1, <1>2, PTL DEF Spec

(* Every part of the state has its type. *)
LEMMA AllTyped ==
    ASSUME Inner, Coherent, DirtyInv, failed \in BOOLEAN PROVE TypeOK
  <1>1. ASSUME NEW k \in Cache, NEW s \in Slots(k)
        PROVE  /\ tag[k][s] \in Addr \union {None} /\ st[k][s] \in {"I", "S", "E", "M"}
               /\ dir[k][s] \in [sharers : SUBSET Children(k), n : 0..Cardinality(Children(k)),
                                  excl : BOOLEAN]
    <2>1. /\ dir[k][s] \in Entries /\ dir[k][s].sharers \subseteq Children(k)
          /\ st[k][s] \in MESIStates /\ tag[k][s] \in Addr \union {None}
      BY EntryFacts
    <2>2. dir[k][s].n \in 0..Cardinality(Children(k))
      BY DEF Coherent, Lines, Directory
    <2> QED
      BY <2>1, <2>2 DEF Entries, MESIStates
  <1>2. ASSUME NEW c \in Core, NEW f \in Frames(c)
        PROVE  /\ f.cache \in Cache /\ f.addr \in Addr /\ f.todo \subseteq Cache
               /\ f.line \in {0} \union Slots(f.cache)
    <2>1. PICK q : q = stack[c]
      OBVIOUS
    <2>2. PICK v : v = wb[c]
      OBVIOUS
    <2>3. PICK i \in 1..Len(q) : f = q[i]
      BY <2>1 DEF Frames
    <2>4. FrameOK(q[i]) /\ FrameFact(q[i], i = 1) /\ q[i].line \in {0} \union Slots(q[i].cache)
      BY <2>1, <2>2 DEF Inner, Sane, Coherent, Calls, DirtyInv, Tidy
    <2>5. q[i].cache \in Cache /\ q[i].addr \in Addr
      BY <2>4, FrameFacts DEF FrameFact
    <2>6. q[i].todo \subseteq Cache
      BY <2>4 DEF FrameOK, Children
    <2> QED
      BY <2>3, <2>4, <2>5, <2>6
  <1>3. /\ bcc \in [Cache -> Core \union {Free}] /\ tcc \in [Cache -> Core \union {Free}]
        /\ filterLock \in [L1 -> Core \union {Free}]
        /\ rd \in [L1 -> Addr \union {None}] /\ wr \in [L1 -> Addr \union {None}]
        /\ wb \in [Core -> BOOLEAN] /\ dirty \subseteq Addr
    BY DEF Inner, Locks, Filters, Coherent, DirtyInv
  <1> QED
    BY <1>1, <1>2, <1>3 DEF TypeOK

(***************************************************************************)
(* Inclusion: what a cache holds the cache above it holds, with at least   *)
(* the same permission, for processEviction and sendInvalidates take the   *)
(* copies below first; and Cache::access never puts a line into a cache    *)
(* twice.                                                                  *)
(***************************************************************************)
THEOREM CachesInclusive == Spec => []Inclusion
  <1>1. Inner /\ Coherent /\ DirtyInv /\ failed \in BOOLEAN => Inclusion
    <2> SUFFICES ASSUME Inner, Coherent, DirtyInv, failed \in BOOLEAN PROVE Inclusion
      OBVIOUS
    <2>1. TypeOK
      BY AllTyped
    <2>2. \A k \in Cache, a \in Addr : Parent(k, a) # Mem =>
             (Valid(k, a) => Valid(Parent(k, a), a)) /\ (Owns(k, a) => Owns(Parent(k, a), a))
      BY HeldAbove, SMT
    <2>3. \A k \in Cache, a \in Addr : Cardinality(Holding(k, a)) <= 1
      BY HeldOnce, SMT
    <2> QED
      BY <2>1, <2>2, <2>3 DEF Inclusion
  <1> QED
    BY <1>1, CoherentAlways, DirtyAlways, FailedIsTruthValue, PTL

(***************************************************************************)
(* FilterCache: what the lock-free lookup of a filter can hit is readable, *)
(* or writable, in the L1 behind it, whatever the other cores invalidate   *)
(* meanwhile.                                                              *)
(***************************************************************************)
THEOREM FiltersBacked == Spec => []FilterBacked
  <1>1. Inner => FilterBacked
    BY InnerBacks
  <1> QED
    BY <1>1, CoherentAlways, PTL

(***************************************************************************)
(* No deadlock in any tree of banked caches with any number of cores:      *)
(* accesses take top locks up the tree and let their own bottom lock go    *)
(* before, invalidations take bottom locks down it, the filters come last. *)
(* So from every set of waiting cores some wait leads out of it, and a     *)
(* core between accesses has no lock.                                      *)
(***************************************************************************)
THEOREM LocksNeverCycle == Spec => []NoDeadlock
  <1>1. Inner => NoDeadlock
    BY InnerFree
  <1> QED
    BY <1>1, CoherentAlways, PTL
=============================================================================
