--------------------------- MODULE SetAssocArray ---------------------------
(***************************************************************************)
(* SetAssocArray of cache_arrays.cpp: the tags of one cache bank, and the  *)
(* life of one access in it.  Cache::access holds the bank's access lock   *)
(* from lookup to the end, so accesses do not overlap: an access is a hit, *)
(* or it is the sequence                                                   *)
(*    preinsert (the policy ranks the set's lines), eviction, postinsert.  *)
(* The replacement policies extend this module and say what update,        *)
(* replaced and rank do.                                                   *)
(***************************************************************************)
EXTENDS Integers

CONSTANTS
    Address,    \* line addresses; 0 marks a line that was never filled
    NumSets,
    Assoc,
    SetOf       \* SetOf[a]: hf->hash(0, a) & setMask

ASSUME ArrayAssumption ==
    /\ Address \subseteq Nat \ {0}
    /\ NumSets \in Nat \ {0}
    /\ Assoc \in Nat \ {0}
    /\ SetOf \in [Address -> 0..(NumSets - 1)]

VARIABLES
    array,      \* array[id]: the line address in line id, 0 if never filled
    op          \* the access in progress

Lines == 0..(NumSets * Assoc - 1)

(* SetAssocCands(first, first+assoc): the lines an address may live in. *)
Cands(a) == (SetOf[a] * Assoc)..(SetOf[a] * Assoc + Assoc - 1)

(* Mutant: lookup forgets the last way. *)
LookupShort(a) ==
    LET hits == {id \in Cands(a) : array[id] = a /\ id + 1 \in Cands(a)}
    IN  IF hits = {} THEN -1 ELSE CHOOSE id \in hits : \A j \in hits : id <= j

(* lookup: the first line of the set that holds the address, or -1. *)
Lookup(a) ==
    LET hits == {id \in Cands(a) : array[id] = a}
    IN  IF hits = {} THEN -1 ELSE CHOOSE id \in hits : \A j \in hits : id <= j

Idle == [at |-> "idle"]

(* A miss on a is ranking its candidates, or has chosen its victim. *)
Ranking(a)      == [at |-> "rank", addr |-> a]
Evicting(a, id) == [at |-> "evict", addr |-> a, victim |-> id]

ArrayInit ==
    /\ array = [id \in Lines |-> 0]
    /\ op = Idle

ArrayTypeOK ==
    /\ array \in [Lines -> Address \union {0}]
    /\ op \in {Idle} \union {Ranking(a) : a \in Address}
                     \union {Evicting(a, id) : a \in Address, id \in Lines}

(* The array half of postinsert: the new tag goes into the victim's line. *)
WriteTag(a, id) == array' = [array EXCEPT ![id] = a]

(* A line address sits in its own set, and in one line only: preinsert and *)
(* postinsert are two calls, and a second insertion of an address that is  *)
(* already cached would make lookup blind to one of the copies.            *)
TagsUnique ==
    \A id \in Lines : array[id] # 0 =>
        /\ id \in Cands(array[id])
        /\ \A j \in Lines : array[j] = array[id] => j = id
=============================================================================
