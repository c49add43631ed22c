------------------------ MODULE DirectoryCompletion -------------------------
(***************************************************************************)
(* What the directory tracker promises, without threads, counters or       *)
(* channels (directory_tracker.rs:1-10, ADR-0002): a directory is handed   *)
(* to the directory workers once, after its listing is complete and after  *)
(* every child found in it has been resolved; a nested directory resolves  *)
(* after it has itself been handed over.                                   *)
(***************************************************************************)
EXTENDS Naturals

CONSTANTS Dirs, Leaves, Root, Parent

VARIABLES
    discovered,   \* the entries found so far, the root included
    listed,       \* the directories whose listing is complete
    resolved,     \* the entries that are done with
    handedOver    \* how often each directory has been handed over

vars == <<discovered, listed, resolved, handedOver>>

Nodes == Dirs \cup Leaves

FoundIn(d) == {n \in discovered \ {Root} : Parent[n] = d}

Init ==
    /\ discovered = {Root}
    /\ listed = {}
    /\ resolved = {}
    /\ handedOver = [d \in Dirs |-> 0]

Discover(n) ==
    /\ n \notin discovered
    /\ Parent[n] \in discovered \ listed
    /\ discovered' = discovered \cup {n}
    /\ UNCHANGED <<listed, resolved, handedOver>>

ListingDone(d) ==
    /\ d \in discovered \ listed
    /\ listed' = listed \cup {d}
    /\ UNCHANGED <<discovered, resolved, handedOver>>

Resolve(n) ==
    /\ n \in discovered \ (resolved \cup {Root})
    /\ n \in Dirs => handedOver[n] = 1
    /\ resolved' = resolved \cup {n}
    /\ UNCHANGED <<discovered, listed, handedOver>>

HandOver(d) ==
    /\ d \in listed
    /\ FoundIn(d) \subseteq resolved
    /\ handedOver[d] = 0
    /\ handedOver' = [handedOver EXCEPT ![d] = 1]
    /\ UNCHANGED <<discovered, listed, resolved>>

Next ==
    \/ \E n \in Nodes \ {Root} : Discover(n) \/ Resolve(n)
    \/ \E d \in Dirs : ListingDone(d) \/ HandOver(d)

Spec == Init /\ [][Next]_vars
=============================================================================
