------------------------------- MODULE MCMESI -------------------------------
(* The last level has two banks: the first for a1, the second for a2 and   *)
(* a3, which compete for its one line.  Core c1 has an L1 for data, d1,    *)
(* and one for instructions, i1, directly under them; core c2 has an L1    *)
(* under a private L2.                                                     *)
EXTENDS MESI, SequencesExt

CONSTANTS c1, c2, d1, i1, d2, m2, b0, b1, a1, a2, a3

MCCoreOf == [l \in L1 |-> IF l = d2 THEN c2 ELSE c1]
MCParents == [k \in Cache |->
    CASE k = d2 -> <<m2>> [] k \in {d1, i1, m2} -> <<b0, b1>> [] k \in {b0, b1} -> <<Mem>>]
MCHash == [a \in Addr \union {None} |-> IF a = a1 THEN 0 ELSE 1]
MCNumLines == [k \in Cache |-> IF k = d1 THEN 2 ELSE 1]

(* The cores' programs: what each L1 is asked for.  Every address is at   *)
(* some time in dispute: the cores store to a1 in turn; c2 reads and      *)
(* stores what c1 fetches as its instructions, a2; and a3 evicts a2.      *)
Requests(l) ==
    CASE l = d1 -> {a1, a3} \X {"GETX"}
      [] l = i1 -> {<<a2, "GETS">>}
      [] l = d2 -> {<<a1, "GETX">>} \union {a2} \X {"GETS", "GETX"}
(* d1 is direct mapped: a line of either bank has its own place. *)
Way(a) == IF a = a1 THEN 1 ELSE 2

InProgram(c) ==
    stack[c] = << >> \/
    LET f == Last(stack[c])
    IN  /\ <<f.addr, f.type>> \in Requests(f.cache)
        /\ f.cache = d1 /\ f.line # 0 => f.line = Way(f.addr)
ProgramSpec == Init /\ [][Next /\ \A c \in Core : InProgram(c)']_vars
=============================================================================
