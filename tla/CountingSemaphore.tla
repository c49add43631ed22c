------------------------- MODULE CountingSemaphore --------------------------
(***************************************************************************)
(* What ResizableSemaphore promises: a permit is granted only while fewer  *)
(* are out than the capacity allows, and resizing takes none back.         *)
(***************************************************************************)
EXTENDS Naturals, FiniteSets

CONSTANTS Workers, Capacities

VARIABLES holders, capacity

vars == <<holders, capacity>>

Init == holders = {} /\ capacity \in Capacities

Acquire(w) ==
    /\ w \notin holders
    /\ Cardinality(holders) < capacity
    /\ holders' = holders \cup {w}
    /\ UNCHANGED capacity

Release(w) ==
    /\ w \in holders
    /\ holders' = holders \ {w}
    /\ UNCHANGED capacity

Resize == capacity' \in Capacities /\ UNCHANGED holders

Next == Resize \/ \E w \in Workers : Acquire(w) \/ Release(w)

Spec == Init /\ [][Next]_vars
=============================================================================
