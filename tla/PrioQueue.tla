------------------------------ MODULE PrioQueue -----------------------------
(***************************************************************************)
(* PrioQueue of prio_queue.h: the event queue of one weave domain.  A      *)
(* window of PQBlocks blocks of PQWidth cycles each (1024 and 64 in the    *)
(* code) starts at curBlock and is indexed modulo PQBlocks; one cycle of a *)
(* block is a list that is pushed and popped at its head.  What is due     *)
(* after the window waits in feMap, ordered by cycle, and is moved into    *)
(* the window every PQBlocks / 2 blocks.                                   *)
(***************************************************************************)
EXTENDS Integers, Sequences, SequencesExt, FiniteSetsExt

CONSTANTS PQBlocks, PQWidth

ASSUME PQAssumption ==
    /\ PQWidth \in Nat \ {0}
    /\ PQBlocks \in Nat \ {0} /\ PQBlocks % 2 = 0

Slot    == 0..(PQBlocks - 1)
Offset  == 0..(PQWidth - 1)

PQEmpty ==
    [blocks |-> [i \in Slot |-> [o \in Offset |-> << >>]],
     feMap |-> << >>, curBlock |-> 0, elems |-> 0]

(* occ # 0, and ctz(occ), of the block that curBlock + i falls in. *)
Occupied(q, i) == \E o \in Offset : q.blocks[(q.curBlock + i) % PQBlocks][o] # << >>
FirstOffset(q, i) ==
    Min({o \in Offset : q.blocks[(q.curBlock + i) % PQBlocks][o] # << >>})

(* PQBlock::enqueue, in the block of the cycle. *)
Push(q, obj, cycle) ==
    [q EXCEPT !.blocks[(cycle \div PQWidth) % PQBlocks][cycle % PQWidth] = <<obj>> \o @]

(* assert(absBlock >= curBlock) of enqueue. *)
PQAccepts(q, cycle) == cycle \div PQWidth >= q.curBlock

PQEnqueue(q, obj, cycle) ==
    LET due(x)   == x[1] <= cycle
        later(x) == x[1] > cycle
        added == [q EXCEPT !.elems = @ + 1]
    IN  IF cycle \div PQWidth < q.curBlock + PQBlocks
        THEN Push(added, obj, cycle)
        ELSE [added EXCEPT !.feMap =
                 SelectSeq(@, due) \o <<<<cycle, obj>>>> \o SelectSeq(@, later)]

(* Mutant: the far elements are moved one window too late. *)
NextBlockLate(q) ==
    LET next == q.curBlock + 1
        near(x) == x[1] < next * PQWidth
        far(x)  == x[1] >= next * PQWidth
        push(p, x) == Push(p, x[2], x[1])
        moved == [q EXCEPT !.curBlock = next]
    IN  IF next % (PQBlocks \div 2) # 0 THEN moved
        ELSE FoldLeft(push, [moved EXCEPT !.feMap = SelectSeq(@, far)],
                      SelectSeq(q.feMap, near))

(* One turn of the loop of dequeue: on to the next block, with the far     *)
(* elements that now fall in the window when half of it has passed.        *)
NextBlock(q) ==
    LET next == q.curBlock + 1
        near(x) == x[1] < (next + PQBlocks) * PQWidth
        far(x)  == x[1] >= (next + PQBlocks) * PQWidth
        push(p, x) == Push(p, x[2], x[1])
        moved == [q EXCEPT !.curBlock = next]
    IN  IF next % (PQBlocks \div 2) # 0 THEN moved
        ELSE FoldLeft(push, [moved EXCEPT !.feMap = SelectSeq(@, far)],
                      SelectSeq(q.feMap, near))

(* The blocks the loop may have to pass: up to the last element's. *)
Horizon(q) ==
    PQBlocks + Max({q.curBlock} \union {q.feMap[i][1] \div PQWidth : i \in DOMAIN q.feMap})
             - q.curBlock

(* dequeue: the queue without its first element, that element, its cycle. *)
PQDequeue(q) ==
    LET seek(p, i) == IF Occupied(p, 0) THEN p ELSE NextBlock(p)
        p == FoldLeft(seek, q, [i \in 1..Horizon(q) |-> i])
        o == FirstOffset(p, 0)
        i == p.curBlock % PQBlocks
    IN  [q     |-> [p EXCEPT !.blocks[i][o] = Tail(@), !.elems = @ - 1],
         obj   |-> Head(p.blocks[i][o]),
         cycle |-> p.curBlock * PQWidth + o]

(* firstCycle: the cycle dequeue would return.  Beyond half of the window  *)
(* a far element may come before the first occupied block.                 *)
PQFirstCycle(q) ==
    LET full == {i \in Slot : Occupied(q, i)}
        near == (q.curBlock + Min(full)) * PQWidth + FirstOffset(q, Min(full))
    IN  IF full = {} THEN q.feMap[1][1]
        ELSE IF Min(full) < PQBlocks \div 2 \/ q.feMap = << >> THEN near
        ELSE Min({near, q.feMap[1][1]})

PQSize(q) == q.elems

(* What the queue holds, wherever it is kept: <<cycle, object>> pairs. *)
PQContent(q) ==
    Range(q.feMap) \union
    UNION {{<<(q.curBlock + i) * PQWidth + o, x>> :
              x \in Range(q.blocks[(q.curBlock + i) % PQBlocks][o])} :
           i \in Slot, o \in Offset}
=============================================================================
