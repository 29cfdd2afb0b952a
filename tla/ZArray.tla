------------------------------- MODULE ZArray -------------------------------
(***************************************************************************)
(* ZArray of cache_arrays.cpp: a zcache.  An address has one position in   *)
(* each way, given by that way's hash; lookupArray says which line sits in *)
(* a position.  preinsert walks from the positions of the new address to   *)
(* the other positions of the lines found there, and so on, for Candidates *)
(* candidates; postinsert moves the lines on the path to the victim by one *)
(* step each and gives the freed position to the new line.                 *)
(*                                                                         *)
(* SetAssocArray is the special case in which the positions of an address  *)
(* are those of its set and the walk stops at once: lookupArray then stays *)
(* the identity.                                                           *)
(***************************************************************************)
EXTENDS Integers, Sequences, SequencesExt, FiniteSetsExt

CONSTANTS
    Address,        \* line addresses; 0 marks a line that was never filled
    NumSets, Ways,
    Candidates,     \* cands
    Hash            \* Hash[w][a]: hf->hash(w, a) & setMask

ASSUME ZArrayAssumption ==
    /\ Address \subseteq Nat \ {0}
    /\ NumSets \in Nat \ {0} /\ Ways \in Nat \ {0, 1}
    /\ Candidates \in Nat /\ Candidates >= Ways
    /\ Hash \in [0..(Ways - 1) -> [Address -> 0..(NumSets - 1)]]

VARIABLES
    arrayType,      \* "Z" or "SetAssoc"
    array,          \* array[id]: the line address in line id
    lookupArray,    \* lookupArray[p]: the line in position p
    swapArray       \* the path that preinsert leaves for postinsert

arrayVars == <<arrayType, array, lookupArray, swapArray>>

Lines == 0..(NumSets * Ways - 1)

(* The positions of an address, way by way. *)
Positions(a) ==
    [i \in 1..Ways |-> IF arrayType = "Z" THEN (i - 1) * NumSets + Hash[i - 1][a]
                       ELSE Hash[0][a] * Ways + (i - 1)]

ArrayInit ==
    /\ arrayType \in {"Z", "SetAssoc"}
    /\ array = [id \in Lines |-> 0]
    /\ lookupArray = [p \in Lines |-> p]
    /\ swapArray = << >>

(* lookup: the line of the first position that holds the address, or -1. *)
Lookup(a) ==
    LET ways == {i \in 1..Ways : array[lookupArray[Positions(a)[i]]] = a}
    IN  IF ways = {} THEN -1 ELSE lookupArray[Positions(a)[Min(ways)]]

-----------------------------------------------------------------------------
(* ZWalkInfo: a position, its line and the candidate it was reached from. *)
Walk(p, parent) == [pos |-> p, line |-> lookupArray[p], parent |-> parent]

(* The candidates that expanding number f adds: the other positions of the *)
(* address in its line.                                                    *)
Expansion(cands, f) ==
    LET reach(i) == Walk(Positions(array[cands[f].line])[i], f)
        added[i \in 0..Ways] ==
            IF i = 0 THEN << >>
            ELSE LET to == reach(i) IN
                 added[i - 1] \o (IF to.line = cands[f].line THEN << >> ELSE <<to>>)
    IN  added[Ways]

(* The walk goes on while it has too few candidates, all of them valid. *)
GoesOn(cands) ==
    /\ arrayType = "Z" /\ Len(cands) < Candidates
    /\ \A i \in DOMAIN cands : array[cands[i].line] # 0

(* The walk of preinsert: breadth first, until there are enough candidates *)
(* or an empty line is among them.                                         *)
WalkCands(a) ==
    LET walk[f \in 0..Candidates] ==
            IF f = 0 THEN [i \in 1..Ways |-> Walk(Positions(a)[i], 0)]
            ELSE LET cands == walk[f - 1] IN
                 cands \o (IF GoesOn(cands) THEN Expansion(cands, f) ELSE << >>)
        all == walk[Candidates]
    IN  SubSeq(all, 1, Min({Len(all), Candidates}))

(* The positions from candidate i's up to a seed's, along the parents. *)
PathFrom(cands, i) ==
    LET up[k \in 0..Len(cands)] ==
            IF k = 0 THEN i
            ELSE LET j == up[k - 1] IN IF j = 0 THEN 0 ELSE cands[j].parent
        length == Min({k \in 0..Len(cands) : up[k] = 0})
    IN  [k \in 1..length |-> cands[up[k - 1]].pos]

(* Mutant: with a loop in the walk, the longest path to the victim. *)
SwapPathLongest(cands, best) ==
    PathFrom(cands, Max({j \in DOMAIN cands : cands[j].line = best}))

(* swapArray.  The first candidate with the victim's line counts, in case  *)
(* there are loops.                                                        *)
SwapPath(cands, best) ==
    PathFrom(cands, Min({j \in DOMAIN cands : cands[j].line = best}))

(* The swaps of postinsert: every position on the path takes the line of   *)
(* the next one, the last takes the victim's line.                         *)
Swapped(candidate) ==
    [p \in Lines |->
        LET at == {k \in DOMAIN swapArray : swapArray[k] = p}
        IN  IF at = {} THEN lookupArray[p]
            ELSE IF Max(at) = Len(swapArray) THEN candidate
            ELSE lookupArray[swapArray[Max(at) + 1]]]
=============================================================================
