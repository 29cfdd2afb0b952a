------------------------------- MODULE MCEHC -------------------------------
(* Set 0 has two ways for addresses 1, 2 and 3; set 1 holds address 4.  The *)
(* history table is one set of two ways for three tags: that of address 0   *)
(* (a line never filled) and address 1, that of 2 and 4, and that of 3.     *)
(* The queues of hit counts make the state space too large to exhaust, so   *)
(* a behaviour makes at most MaxAccesses accesses.                          *)
EXTENDS EHC

CONSTANT MaxAccesses

VARIABLE left       \* accesses that may still start

MCSetOf == [a \in Address |-> IF a <= 3 THEN 0 ELSE 1]
MCIndex == [a \in Address \union {0} |-> 0]
MCTag == [a \in Address \union {0} |-> IF a <= 1 THEN 0 ELSE IF a = 3 THEN 2 ELSE 1]

Start == left > 0 /\ left' = left - 1 /\ \E a \in Address : Hit(a) \/ Miss(a)
Continue == (RankBottom \/ RankGiveUp \/ RankAge \/ Insert) /\ UNCHANGED left

MCInit == Init /\ left = MaxAccesses

MCSpec ==
    /\ MCInit
    /\ [][Start \/ Continue]_<<vars, left>>
    /\ WF_<<vars, left>>(Continue)
=============================================================================
