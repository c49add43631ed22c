-------------------------- MODULE DirectoryTracker --------------------------
(***************************************************************************)
(* DirectoryTracker (cursdel-core/src/directory_tracker.rs) under the      *)
(* threads that call it (pipeline.rs): the coordinator registers what the  *)
(* enumerator finds, the coordinator and the file workers complete leaves, *)
(* the directory workers take directories from the ready channel, forget   *)
(* them and complete them in their parent.                                 *)
(*                                                                         *)
(* Each action is one critical section of the map, so every interleaving   *)
(* of the code's is one of the model's.  The ready channel is here as      *)
(* large as it needs to be; Pipeline.tla gives it its capacity.            *)
(***************************************************************************)
EXTENDS TrackerMap, FiniteSets

CONSTANTS
    Dirs, Leaves, Root,   \* the tree: directories, other entries, its root
    Parent,               \* where each entry but the root is found
    Coordinator,          \* the thread of coordinator_loop
    FileWorkers,          \* the threads of file_worker_loop
    DirWorkers            \* the threads of dir_worker_loop

Nodes   == Dirs \cup Leaves
Threads == {Coordinator} \cup FileWorkers \cup DirWorkers

ASSUME TreeAssumption ==
    /\ Root \in Dirs
    /\ Dirs \cap Leaves = {}
    /\ IsFiniteSet(Dirs \cup Leaves)
    /\ Parent \in [(Dirs \cup Leaves) \ {Root} -> Dirs]

ASSUME ThreadAssumption ==
    /\ Coordinator \notin FileWorkers \cup DirWorkers
    /\ FileWorkers \cap DirWorkers = {}

VARIABLES
    state,        \* the map, DashMap<DirId, DirState>
    call,         \* where each thread is in the call it is making
    discovered,   \* the entries the coordinator has registered, and the root
    listed,       \* the directories whose DirectoryComplete was received
    claimed,      \* the leaves some thread took on to resolve
    resolved,     \* the entries complete_child was called for
    kept,         \* those of them it was told are still present
    sent,         \* how many ReadyDirectory messages each directory had sent
    received,     \* how many of those a directory worker has received
    simulated     \* directories sent with simulated_non_empty

vars == <<state, call, discovered, listed, claimed, resolved, kept, sent,
          received, simulated>>

Steps == {"idle", "add_pending", "complete_child", "attempt", "try_finalise",
          "send"}

Idle == [at |-> "idle", node |-> Root]

\* `call[t]` is the next step of thread t and the entry the step is about.
At(t, step, n) == call[t].at = step /\ call[t].node = n
IsIdle(t)      == call[t].at = "idle"
Goto(t, step, n) == call' = [call EXCEPT ![t] = [at |-> step, node |-> n]]
Return(t)        == call' = [call EXCEPT ![t] = Idle]

Init ==
    /\ state = [d \in {Root} |-> NewDirState]
    /\ call = [t \in Threads |-> Idle]
    /\ discovered = {Root}
    /\ listed = {}
    /\ claimed = {}
    /\ resolved = {}
    /\ kept = {}
    /\ sent = [d \in Dirs |-> 0]
    /\ received = [d \in Dirs |-> 0]
    /\ simulated = {}

-----------------------------------------------------------------------------
\* register_directory and register_leaf_child, called by the coordinator for
\* the entries the enumerator lists before it completes their directory.

Discoverable(n) == n \notin discovered /\ Parent[n] \in discovered \ listed

\* The first half of register_directory: insert the entry ...
RegisterDirectory(d) ==
    /\ IsIdle(Coordinator)
    /\ Discoverable(d)
    /\ state' = Insert(state, d)
    /\ Goto(Coordinator, "add_pending", d)
    /\ UNCHANGED <<discovered, listed, claimed, resolved, kept, sent, received,
                   simulated>>

\* ... and the second: count it in its parent.
AddPendingOfDirectory(d) ==
    /\ At(Coordinator, "add_pending", d)
    /\ state' = AddPending(state, Parent[d])
    /\ discovered' = discovered \cup {d}
    /\ Return(Coordinator)
    /\ UNCHANGED <<listed, claimed, resolved, kept, sent, received, simulated>>

RegisterLeafChild(n) ==
    /\ IsIdle(Coordinator)
    /\ Discoverable(n)
    /\ state' = AddPending(state, Parent[n])
    /\ discovered' = discovered \cup {n}
    /\ UNCHANGED <<call, listed, claimed, resolved, kept, sent, received,
                   simulated>>

MarkEnumerationDone(d) ==
    /\ IsIdle(Coordinator)
    /\ d \in discovered \ listed
    /\ state' = SetEnumerationDone(state, d)
    /\ listed' = listed \cup {d}
    /\ IF ReadyAfterEnumeration(state, d)
       THEN Goto(Coordinator, "try_finalise", d)
       ELSE UNCHANGED call
    /\ UNCHANGED <<discovered, claimed, resolved, kept, sent, received,
                   simulated>>

-----------------------------------------------------------------------------
\* The coordinator (retained and dry-run leaves) or the file worker that
\* received the leaf's work item has decided the leaf's fate.
ClaimLeaf(t, n) ==
    /\ IsIdle(t)
    /\ n \in discovered \ claimed
    /\ claimed' = claimed \cup {n}
    /\ Goto(t, "complete_child", n)
    /\ UNCHANGED <<state, discovered, listed, resolved, kept, sent, received,
                   simulated>>

\* Mutant: complete_child sends the parent itself whenever its count is zero.
SendAtZero(t, n, stillPresent) ==
    /\ At(t, "complete_child", n)
    /\ LET after == SubtractPending(state, Parent[n], stillPresent)
       IN  /\ state' = after
           /\ IF after[Parent[n]].pending <= 0
              THEN Goto(t, "send", Parent[n])
              ELSE Return(t)
    /\ resolved' = resolved \cup {n}
    /\ kept' = IF stillPresent THEN kept \cup {n} ELSE kept
    /\ UNCHANGED <<discovered, listed, claimed, sent, received, simulated>>

CompleteChild(t, n, stillPresent) ==
    /\ At(t, "complete_child", n)
    /\ LET after == SubtractPending(state, Parent[n], stillPresent)
       IN  /\ state' = after
           /\ IF ReadyAfterChild(after, Parent[n])
              THEN Goto(t, "try_finalise", Parent[n])
              ELSE Return(t)
    /\ resolved' = resolved \cup {n}
    /\ kept' = IF stillPresent THEN kept \cup {n} ELSE kept
    /\ UNCHANGED <<discovered, listed, claimed, sent, received, simulated>>

TryFinalise(t, d) ==
    /\ At(t, "try_finalise", d)
    /\ IF MayFinalise(state, d)
       THEN /\ state' = SetFinalised(state, d)
            /\ simulated' = IF state[d].still_present
                            THEN simulated \cup {d} ELSE simulated
            /\ Goto(t, "send", d)
       ELSE Return(t) /\ UNCHANGED <<state, simulated>>
    /\ UNCHANGED <<discovered, listed, claimed, resolved, kept, sent, received>>

SendReady(t, d) ==
    /\ At(t, "send", d)
    /\ sent' = [sent EXCEPT ![d] = @ + 1]
    /\ Return(t)
    /\ UNCHANGED <<state, discovered, listed, claimed, resolved, kept, received,
                   simulated>>

-----------------------------------------------------------------------------
\* A directory worker receives a message and makes its delete attempt ...
ReceiveReady(t, d) ==
    /\ IsIdle(t)
    /\ received[d] < sent[d]
    /\ received' = [received EXCEPT ![d] = @ + 1]
    /\ Goto(t, "attempt", d)
    /\ UNCHANGED <<state, discovered, listed, claimed, resolved, kept, sent,
                   simulated>>

\* ... then drops the bookkeeping and, below the root, tells the parent.
Forget(t, d) ==
    /\ At(t, "attempt", d)
    /\ state' = Remove(state, d)
    /\ IF d = Root THEN Return(t) ELSE Goto(t, "complete_child", d)
    /\ UNCHANGED <<discovered, listed, claimed, resolved, kept, sent, received,
                   simulated>>

-----------------------------------------------------------------------------
Discover ==
    \/ \E d \in Dirs \ {Root} : RegisterDirectory(d) \/ AddPendingOfDirectory(d)
    \/ \E n \in Leaves : RegisterLeafChild(n)

Enumerated == \E d \in Dirs : MarkEnumerationDone(d)

ResolveStep(t) ==
    \/ \E n \in Nodes \ {Root}, stillPresent \in BOOLEAN :
          CompleteChild(t, n, stillPresent)
    \/ \E d \in Dirs : TryFinalise(t, d) \/ SendReady(t, d)

LeafStep(t) == \E n \in Leaves : ClaimLeaf(t, n)

DirWorkerStep(t) == \E d \in Dirs : ReceiveReady(t, d) \/ Forget(t, d)

Next ==
    \/ Discover
    \/ Enumerated
    \/ \E t \in Threads : ResolveStep(t)
    \/ \E t \in Threads \ DirWorkers : LeafStep(t)
    \/ \E t \in DirWorkers : DirWorkerStep(t)

Spec == Init /\ [][Next]_vars

\* The enumerator ends every directory it has announced, and no thread stops
\* in the middle of a call: the operating system schedules all of them.
Fairness ==
    /\ WF_vars(\E d \in Dirs \ {Root} : AddPendingOfDirectory(d))
    /\ WF_vars(Enumerated)
    /\ \A t \in Threads : WF_vars(ResolveStep(t))
    /\ \A t \in Threads \ DirWorkers : WF_vars(LeafStep(t))
    /\ \A t \in DirWorkers : WF_vars(DirWorkerStep(t))

FairSpec == Spec /\ Fairness

-----------------------------------------------------------------------------
(* Properties *)

FoundIn(d) == {n \in discovered \ {Root} : Parent[n] = d}

\* The children of d that have been counted and not yet completed.
Outstanding(d) == FoundIn(d) \ resolved

TypeOK ==
    /\ DOMAIN state \subseteq Dirs
    /\ state \in [DOMAIN state -> DirState]
    /\ call \in [Threads -> [at : Steps, node : Nodes]]
    /\ discovered \subseteq Nodes
    /\ listed \subseteq Dirs
    /\ claimed \subseteq Leaves
    /\ resolved \subseteq Nodes \ {Root}
    /\ kept \subseteq resolved
    /\ sent \in [Dirs -> Nat]
    /\ received \in [Dirs -> Nat]
    /\ simulated \subseteq Dirs

\* `pending` is exactly the number of registered children that have not
\* completed, whatever the order of the threads' critical sections; so the
\* debug_assert of complete_child (directory_tracker.rs:134) cannot fire.
PendingIsOutstanding ==
    \A d \in DOMAIN state : state[d].pending = Cardinality(Outstanding(d))

\* The `finalised` flag (directory_tracker.rs:38-42): however
\* mark_enumeration_done and any number of complete_child calls race, a
\* directory is sent to the ready channel at most once.
HandedOverOnce == \A d \in Dirs : sent[d] <= 1

\* directory_tracker.rs:1-3: a directory becomes eligible only once its
\* enumeration is complete and every child discovered under it is resolved.
HandedOverLast ==
    \A d \in Dirs : sent[d] > 0 => d \in listed /\ Outstanding(d) = {}

\* add_pending and complete_child pass over a directory that is not in the
\* map in silence (directory_tracker.rs:102, 129); the count would then be
\* wrong for ever.  No call ever meets that case: forget never comes before
\* the last completion of a child.
NoCompletionIsLost ==
    \A t \in Threads :
        call[t].at \in {"add_pending", "complete_child"}
            => Tracked(state, Parent[call[t].node])

\* simulated_non_empty (directory_tracker.rs:51-55) is the truth about the
\* children, although it is read in another critical section than the one
\* in which `pending` was seen to be zero.
SimulationIsExact ==
    \A d \in Dirs :
        sent[d] > 0 => (d \in simulated <=> FoundIn(d) \cap kept # {})

\* forget keeps the map to the directories in flight (directory_tracker.rs:171)
\* and the root is the last of them: when it goes, the map is empty.
RootIsForgottenLast == ~ Tracked(state, Root) => DOMAIN state = {}

-----------------------------------------------------------------------------
\* The inductive invariant: the properties above, and what each thread's
\* place in its call says about the entry it is working on.

TreeInv ==
    /\ Root \in discovered
    /\ \A n \in discovered \ {Root} : Parent[n] \in discovered
    /\ listed \subseteq discovered
    /\ claimed \subseteq discovered
    /\ resolved \subseteq discovered
    /\ resolved \cap Leaves \subseteq claimed

CallOK(t) ==
    LET n == call[t].node
    IN  /\ call[t].at = "add_pending" =>
              /\ t = Coordinator
              /\ n \in Dirs \ discovered
              /\ Tracked(state, n)
              /\ Parent[n] \in discovered \ listed
        /\ call[t].at = "complete_child" =>
              /\ n \in discovered \ (resolved \cup {Root})
              /\ n \in Leaves => n \in claimed
              /\ n \in Dirs => received[n] = 1 /\ ~ Tracked(state, n)
        /\ call[t].at = "attempt" =>
              /\ n \in Dirs \ resolved
              /\ received[n] = 1
              /\ Tracked(state, n)
        /\ call[t].at = "try_finalise" =>
              /\ n \in Dirs \cap listed
              /\ Outstanding(n) = {}
        /\ call[t].at = "send" =>
              /\ n \in Dirs
              /\ sent[n] = 0
              /\ Tracked(state, n)
              /\ state[n].finalised

CallInv == \A t \in Threads : CallOK(t)

\* No two threads work on the same entry, except to try to finalise it.
UniqueInv ==
    \A t, u \in Threads :
        /\ call[t] = call[u]
        /\ call[t].at \in {"complete_child", "attempt", "send"}
        => t = u

DirOK(d) ==
    /\ received[d] <= sent[d]
    /\ sent[d] <= 1
    /\ sent[d] = 1 => /\ d \in listed
                      /\ Outstanding(d) = {}
                      /\ Tracked(state, d) => state[d].finalised
    /\ d \in discovered /\ ~ Tracked(state, d) => received[d] = 1
    /\ d \in resolved => received[d] = 1 /\ ~ Tracked(state, d)
    /\ Tracked(state, d) =>
          /\ d \in discovered \/ At(Coordinator, "add_pending", d)
          /\ state[d].enumeration_done <=> d \in listed
          /\ state[d].finalised => d \in listed /\ Outstanding(d) = {}

DirInv == \A d \in Dirs : DirOK(d)

SimulationOK(d) ==
    /\ Tracked(state, d) =>
          (state[d].still_present <=> FoundIn(d) \cap kept # {})
    /\ Tracked(state, d) /\ ~ state[d].finalised => d \notin simulated
    /\ sent[d] = 1 \/ (Tracked(state, d) /\ state[d].finalised) =>
          (d \in simulated <=> FoundIn(d) \cap kept # {})

SimulationInv ==
    /\ simulated \subseteq listed
    /\ \A d \in Dirs : SimulationOK(d)

IInv ==
    /\ TypeOK
    /\ TreeInv
    /\ CallInv
    /\ UniqueInv
    /\ DirInv
    /\ PendingIsOutstanding
    /\ SimulationInv

-----------------------------------------------------------------------------
\* No directory is left behind: whatever was discovered is handed over, unless
\* some thread stops for ever.
EveryDirectoryIsHandedOver ==
    \A d \in Dirs : d \in discovered ~> sent[d] > 0

\* The tracker implements DirectoryCompletion: whatever the threads do, it
\* hands over each directory once, after everything in it is resolved.
Completion == INSTANCE DirectoryCompletion WITH handedOver <- sent
CompletionSpec == Completion!Spec
=============================================================================
