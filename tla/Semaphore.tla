------------------------------- MODULE Semaphore -------------------------------
(***************************************************************************)
(* What a lease and a lock promise while they are in force: at most        *)
(* Capacity holders at a time.  A holder leaves when it releases, or when  *)
(* its time is up; nobody is let in while the place is full.               *)
(***************************************************************************)
EXTENDS Naturals, FiniteSets

CONSTANTS
    Holders,   \* whoever may hold a place
    Capacity   \* how many may at a time

VARIABLE held  \* who holds a place

Init == held = {}

Enter(h) ==
    /\ h \in Holders \ held
    /\ Cardinality(held) < Capacity
    /\ held' = held \cup {h}

Leave(h) ==
    /\ h \in held
    /\ held' = held \ {h}

Next == \E h \in Holders : Enter(h) \/ Leave(h)

Spec == Init /\ [][Next]_held

(* Never more holders than places.                                         *)
Bounded == Cardinality(held) <= Capacity

=============================================================================
