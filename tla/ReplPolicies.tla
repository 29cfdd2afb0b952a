---------------------------- MODULE ReplPolicies ----------------------------
(***************************************************************************)
(* The replacement policies of repl_policies.h (LRU with and without       *)
(* sharers, NRU, LFU, Rand) on a set-associative or a zcache array, driven *)
(* by Cache::access.  The coherence controller, which the policies ask     *)
(* whether a line is valid and how many children share it, is reduced to   *)
(* these two answers (cc); an invalidation, which takes the controller's   *)
(* lock only, may come between preinsert and postinsert of an access.      *)
(***************************************************************************)
EXTENDS ZArray

CONSTANTS
    Policies,       \* the policies to explore
    MaxSharers,     \* children of the bank
    ScoreRange,     \* values of the variable LRU compares: 2^32 in the code
    TsStep,         \* how far LFU's timestamp moves: 1000 in the code
    MaxAccesses     \* bound of the model: updates of the policy

ASSUME PolicyAssumption ==
    /\ Policies \subseteq {"LRU", "LRUNoSh", "NRU", "LFU", "Rand"}
    /\ MaxSharers \in Nat /\ ScoreRange \in Nat \ {0} /\ TsStep \in Nat /\ MaxAccesses \in Nat

VARIABLES
    policy,     \* the class of rp
    rp,         \* its fields: val is array (LFU: ts), acc is LFU's
    cc,         \* cc[id]: isValid(id) and numSharers(id)
    op,         \* the access in progress
    since       \* ghost: since[a] are the addresses used since a was

vars == <<arrayVars, policy, rp, cc, op, since>>

Idle == [at |-> "idle"]
Evicting(a, id) == [at |-> "evict", addr |-> a, victim |-> id]

Invalid == [valid |-> FALSE, sharers |-> 0]

(* What the policy may learn of a line that an access left with s sharers: *)
(* NRU and Rand never ask, LRUNoSh asks for validity only.                 *)
Answers ==
    CASE policy \in {"LRU", "LFU"} -> {[valid |-> TRUE, sharers |-> s] : s \in 0..MaxSharers}
      [] policy = "LRUNoSh" -> {[valid |-> TRUE, sharers |-> 0]}
      [] OTHER -> {Invalid}

Init ==
    /\ ArrayInit
    /\ policy \in Policies
    /\ policy = "Rand" => arrayType = "SetAssoc"
    /\ rp = [timestamp |-> 1, youngLines |-> 0,
             val |-> [id \in Lines |-> 0], acc |-> [id \in Lines |-> 0]]
    /\ cc = [id \in Lines |-> Invalid]
    /\ op = Idle
    /\ since = [a \in Address |-> {}]

-----------------------------------------------------------------------------
(* update(id): LRU stamps the line. *)
UpdateLRU(r, id) ==
    [r EXCEPT !.val[id] = r.timestamp, !.timestamp = r.timestamp + 1]

(* NRU makes the line young and ages all lines when half of them are. *)
UpdateNRU(r, id) ==
    LET young == r.youngLines + 1 - r.val[id] \div 2
        val   == [r.val EXCEPT ![id] = IF @ < 2 THEN @ + 2 ELSE @]
    IN  IF young >= (NumSets * Ways) \div 2
        THEN [r EXCEPT !.youngLines = 0, !.val = [i \in Lines |-> val[i] \div 2]]
        ELSE [r EXCEPT !.youngLines = young, !.val = val]

(* LFU keeps the mean time of the line's accesses and their number. *)
UpdateLFU(r, id) ==
    [r EXCEPT !.val[id] = (r.acc[id] * r.val[id] + r.timestamp) \div (r.acc[id] + 1),
              !.acc[id] = r.acc[id] + 1,
              !.timestamp = r.timestamp + TsStep]

Update(r, id) ==
    CASE policy \in {"LRU", "LRUNoSh"} -> UpdateLRU(r, id)
      [] policy = "NRU"  -> UpdateNRU(r, id)
      [] policy = "LFU"  -> UpdateLFU(r, id)
      [] policy = "Rand" -> r

(* replaced(id): with its count LFU drops the mean, at the next update.    *)
(* The fields a policy collects candidates in are reset too; they live     *)
(* from one rank to its replaced and are local to Rank here.               *)
Replaced(r, id) ==
    IF policy = "LFU" THEN [r EXCEPT !.acc[id] = 0]
    ELSE IF policy = "Rand" THEN r ELSE [r EXCEPT !.val[id] = 0]

-----------------------------------------------------------------------------
(* Mutant: the score of a line counts its age although it is invalid. *)
FullScoreStale(id) ==
    (IF policy = "LRU" THEN cc[id].sharers ELSE 0) * rp.timestamp + rp.val[id]

(* LRU's score: higher is least evictable. *)
FullScore(id) ==
    (IF policy = "LRU" THEN cc[id].sharers ELSE 0) * rp.timestamp
        + (IF cc[id].valid THEN rp.val[id] ELSE 0)

(* The 64-bit score in the 32-bit variable in which rank compares it. *)
Score(id) == FullScore(id) % ScoreRange

(* LFU's Rank::lessThan: line i is to be evicted rather than line j. *)
LessThan(i, j) ==
    LET invFreq(k) == (rp.timestamp - rp.val[k]) \div rp.acc[k]
    IN  \/ ~cc[i].valid /\ cc[j].valid
        \/ /\ cc[i].valid = cc[j].valid
           /\ \/ cc[i].sharers = 0 /\ cc[j].sharers > 0
              \/ /\ (cc[i].sharers = 0) = (cc[j].sharers = 0)
                 /\ \/ rp.acc[i] = 0
                    \/ rp.acc[j] # 0 /\ invFreq(i) > invFreq(j)

(* rank: the lines the policy may choose from the list of candidates. *)
Rank(lines) ==
    LET least(f(_)) == {i \in DOMAIN lines : \A j \in DOMAIN lines : f(lines[i]) <= f(lines[j])}
        before(i, S) == Cardinality({j \in S : j < i})
        nth(n, S) == {lines[i] : i \in {j \in S : before(j, S) = n}}
        val(id)   == rp.val[id]
        oldest    == least(val)
        best[k \in 0..Len(lines)] ==
            IF k = 0 THEN lines[1]
            ELSE LET b == best[k - 1] IN IF LessThan(lines[k], b) THEN lines[k] ELSE b
    IN  CASE policy \in {"LRU", "LRUNoSh"} -> nth(0, least(Score))
          [] policy = "NRU"  -> nth(rp.youngLines % Cardinality(oldest), oldest)
          [] policy = "LFU"  -> {best[Len(lines)]}
          [] policy = "Rand" -> Range(lines)

-----------------------------------------------------------------------------
MayAccess == rp.timestamp < 1 + MaxAccesses * (IF policy = "LFU" THEN TsStep ELSE 1)

(* The ghost is kept for the policies whose promise is about it. *)
Touched(a) ==
    IF policy \in {"LRU", "LRUNoSh"}
    THEN [b \in Address |-> IF b = a THEN {} ELSE since[b] \union {a}] ELSE since

(* A GETS or GETX that finds its address; the line ends up valid. *)
Hit(a) ==
    /\ op = Idle /\ Lookup(a) # -1 /\ MayAccess
    /\ rp' = Update(rp, Lookup(a))
    /\ \E ans \in Answers : cc' = [cc EXCEPT ![Lookup(a)] = ans]
    /\ since' = Touched(a)
    /\ UNCHANGED <<arrayVars, policy, op>>

(* A PUT looks the line up without an update and ends one child's sharing. *)
Put(a) ==
    /\ op = Idle /\ Lookup(a) # -1
    /\ cc[Lookup(a)].sharers > 0
    /\ cc' = [cc EXCEPT ![Lookup(a)].sharers = @ - 1]
    /\ UNCHANGED <<arrayVars, policy, rp, op, since>>

(* The lines of a walk, in the order rank meets them. *)
CandLines(cands) == [i \in DOMAIN cands |-> cands[i].line]

(* A miss: preinsert, and processEviction's first half, which takes the    *)
(* victim from the children and releases the lock to tell the parent.      *)
Preinsert(a) ==
    /\ op = Idle /\ Lookup(a) = -1 /\ MayAccess
    /\ LET cands == WalkCands(a) IN
       \E id \in Rank(CandLines(cands)) :
         /\ op' = Evicting(a, id)
         /\ swapArray' = IF arrayType = "Z" THEN SwapPath(cands, id) ELSE << >>
         /\ cc' = [cc EXCEPT ![id] = Invalid]
    /\ UNCHANGED <<arrayType, array, lookupArray, policy, rp, since>>

(* postinsert, then processAccess. *)
Postinsert ==
    /\ op.at = "evict"
    /\ rp' = Update(Replaced(rp, op.victim), op.victim)
    /\ array' = [array EXCEPT ![op.victim] = op.addr]
    /\ lookupArray' = IF arrayType = "Z" THEN Swapped(op.victim) ELSE lookupArray
    /\ swapArray' = << >>
    /\ \E ans \in Answers : cc' = [cc EXCEPT ![op.victim] = ans]
    /\ since' = Touched(op.addr)
    /\ op' = Idle
    /\ UNCHANGED <<arrayType, policy>>

(* finishInvalidate: the parent takes a line away, at any time. *)
Invalidate(id) ==
    /\ cc[id].valid
    /\ cc' = [cc EXCEPT ![id] = Invalid]
    /\ UNCHANGED <<arrayVars, policy, rp, op, since>>

Next ==
    \/ \E a \in Address : Hit(a)
    \/ \E a \in Address : Put(a)
    \/ \E a \in Address : Preinsert(a)
    \/ Postinsert
    \/ \E id \in Lines : Invalidate(id)

Spec == Init /\ [][Next]_vars
-----------------------------------------------------------------------------
(* Every line that was ever filled is found by a lookup of its address,    *)
(* whatever swaps moved it (finishInvalidate asserts that an invalidated   *)
(* line is), no position lost its line, and the path of a replacement fits *)
(* the cands/ways + 2 entries that the constructor allots to swapArray.    *)
LinesReachable ==
    /\ \A id \in Lines : array[id] # 0 => Lookup(array[id]) = id
    /\ \A id \in Lines : \E p \in Lines : lookupArray[p] = id
    /\ Len(swapArray) <= Candidates \div Ways + 2

(* What makes line j worth keeping rather than line i, as the comments of  *)
(* score and lessThan rank them: valid, then shared, then (LRU) used later. *)
WorthLess(i, j) ==
    LET shared(k) == CASE policy = "LRU" -> cc[k].sharers
                       [] policy = "LFU" -> Min({1, cc[k].sharers})
                       [] OTHER -> 0
    IN  /\ cc[j].valid
        /\ \/ ~cc[i].valid
           \/ shared(i) < shared(j)
           \/ shared(i) = shared(j) /\ policy # "LFU" /\ array[j] \in since[array[i]]

(* LRU (by valid, sharers and last use) and LFU (by valid and shared or    *)
(* not) never evict a candidate while another one is worth less, through   *)
(* any interleaving of hits, PUTs, invalidations and evictions, as long as *)
(* the scores of the candidates fit the variable rank keeps them in.       *)
VictimLeastUsed ==
    [][op.at = "idle" /\ op'.at = "evict" /\ policy \in {"LRU", "LRUNoSh", "LFU"}
       => LET lines == Range(CandLines(WalkCands(op'.addr)))
          IN  (policy # "LFU" => \A id \in lines : FullScore(id) < ScoreRange)
              => \A id \in lines : ~WorthLess(id, op'.victim)]_vars
=============================================================================
