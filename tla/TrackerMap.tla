----------------------------- MODULE TrackerMap -----------------------------
(***************************************************************************)
(* The critical sections of DirectoryTracker (directory_tracker.rs) as     *)
(* operators on the map it guards.  A map is a partial function from       *)
(* directories to DirState records; each operator is what the code does    *)
(* while it holds one DashMap entry (one `get_mut`, `insert` or `remove`), *)
(* which is the granularity at which concurrent callers interleave.        *)
(*                                                                         *)
(* `parent` and `path` never change after the insertion and are left to    *)
(* the tree of the modules that use these operators.                       *)
(***************************************************************************)
EXTENDS Integers

\* The mutable fields of one map entry.  `pending` is an i64 in the code, so
\* nothing here keeps it from going negative; `still_present` is a count of
\* which the code only ever reads whether it is positive.
DirState == [pending          : Int,
             still_present    : BOOLEAN,
             enumeration_done : BOOLEAN,
             finalised        : BOOLEAN]

NewDirState == [pending          |-> 0,
                still_present    |-> FALSE,
                enumeration_done |-> FALSE,
                finalised        |-> FALSE]

Tracked(map, d) == d \in DOMAIN map

\* `get_mut(&d)` followed by an assignment: nothing happens to an absent entry.
Update(map, d, entry) == [x \in DOMAIN map |-> IF x = d THEN entry ELSE map[x]]

\* DashMap::insert in register_directory.
Insert(map, d) ==
    [x \in DOMAIN map \cup {d} |-> IF x = d THEN NewDirState ELSE map[x]]

AddPending(map, d) ==
    Update(map, d, [map[d] EXCEPT !.pending = @ + 1])

SetEnumerationDone(map, d) ==
    Update(map, d, [map[d] EXCEPT !.enumeration_done = TRUE])

\* Mutants: mark_enumeration_done does not wait for the children, or leaves it
\* to them to finalise the directory.
ReadyWithChildren(map, d) == Tracked(map, d) /\ ~ map[d].finalised
NeverReady(map, d) == FALSE

\* What mark_enumeration_done computes before it lets go of the entry.
ReadyAfterEnumeration(map, d) ==
    /\ Tracked(map, d)
    /\ map[d].pending = 0
    /\ ~ map[d].finalised

\* Mutants: a child that is still there is not counted down, and the last child
\* to be completed decides on `still_present`.
SubtractIfGone(map, d, stillPresent) ==
    Update(map, d, [map[d] EXCEPT !.pending = IF stillPresent THEN @ ELSE @ - 1,
                                  !.still_present = @ \/ stillPresent])
LastChildDecides(map, d, stillPresent) ==
    Update(map, d, [map[d] EXCEPT !.pending = @ - 1, !.still_present = stillPresent])

SubtractPending(map, d, stillPresent) ==
    Update(map, d, [map[d] EXCEPT !.pending = @ - 1,
                                  !.still_present = @ \/ stillPresent])

\* Mutants: complete_child does not wait for the end of the listing, or for the
\* other children.
ReadyBeforeListed(map, d) ==
    Tracked(map, d) /\ map[d].pending <= 0 /\ ~ map[d].finalised
ReadyAfterAnyChild(map, d) ==
    Tracked(map, d) /\ map[d].enumeration_done /\ ~ map[d].finalised

\* What complete_child computes, from the entry it has just changed to `map`.
ReadyAfterChild(map, d) ==
    /\ Tracked(map, d)
    /\ map[d].enumeration_done
    /\ map[d].pending <= 0
    /\ ~ map[d].finalised

\* try_finalise returns early on an absent entry and on a finalised one.
MayFinalise(map, d) == Tracked(map, d) /\ ~ map[d].finalised

SetFinalised(map, d) == Update(map, d, [map[d] EXCEPT !.finalised = TRUE])

\* DashMap::remove in forget.
Remove(map, d) == [x \in DOMAIN map \ {d} |-> map[x]]
=============================================================================
