---------------------------- MODULE PhaseBarrier ----------------------------
(***************************************************************************)
(* What the phase barrier promises: in every phase each member gets one    *)
(* turn, at most so many have theirs at a time, and the phase is over when *)
(* all of them had it.  Who is served next is not promised.  A thread that *)
(* joins is served in the phase it joined.  Barrier implements this;       *)
(* Scheduler is written against it.                                        *)
(***************************************************************************)
EXTENDS Integers, FiniteSets

CONSTANTS
    Thread,
    Parallel    \* the limits considered

VARIABLE bar    \* limit; the members that wait for their turn (todo), have it
                \* (running) or had it in this phase (done)

Members(b) == b.todo \cup b.running \cup b.done

Init == bar \in [limit : Parallel, todo : {{}}, running : {{}}, done : {{}}]

Room(b) == b.limit - Cardinality(b.running)

(* As many of the waiting threads as there is room for get their turn. *)
Woken(b) ==
    {[b EXCEPT !.todo = @ \ W, !.running = @ \cup W] :
        W \in {V \in SUBSET b.todo :
                  Cardinality(V) = IF Cardinality(b.todo) < Room(b) THEN Cardinality(b.todo)
                                                                   ELSE Room(b)}}

PhaseOver(b) == b.todo = {} /\ b.running = {} /\ b.done # {}
NextPhase(b) == [b EXCEPT !.todo = b.done, !.done = {}]

Served(b) ==
    UNION {IF PhaseOver(w) THEN Woken(NextPhase(w)) ELSE {w} : w \in Woken(b)}

Joined(b, t) == [b EXCEPT !.todo = @ \cup {t}]
Synced(b, t) == [b EXCEPT !.running = @ \ {t}, !.done = @ \cup {t}]
Without(b, t) == [b EXCEPT !.todo = @ \ {t}, !.running = @ \ {t}, !.done = @ \ {t}]

Join(t) == t \notin Members(bar) /\ bar' \in Served(Joined(bar, t))
Sync(t) == t \in bar.running /\ bar' \in Served(Synced(bar, t))
Leave(t) == t \in bar.running /\ bar' \in Served(Without(bar, t))

(* A member that waits is taken out by somebody else. *)
Removed(t) == t \in Members(bar) \ bar.running /\ bar' = Without(bar, t)

Next == \E t \in Thread : Join(t) \/ Sync(t) \/ Leave(t) \/ Removed(t)

Spec == Init /\ [][Next]_bar
=============================================================================
