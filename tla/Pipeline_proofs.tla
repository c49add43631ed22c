--------------------------- MODULE Pipeline_proofs ---------------------------
(***************************************************************************)
(* Pipeline for any tree, any finite number of workers and any capacities: *)
(* what the filters retain stays, a dry run changes nothing, permits are   *)
(* held by deletions, and every file scanned is accounted for. Then where  *)
(* each entry is at any time, from the listing to the report: directories  *)
(* are completed as DirectoryCompletion asks, and the root last. At last   *)
(* what the report says: what is counted is what is gone, a success leaves *)
(* nothing but what is to remain, a cancelled run has not failed, and a    *)
(* dry run counts what the same run would have deleted.                    *)
(***************************************************************************)
EXTENDS Pipeline, FiniteSetTheorems, SequenceTheorems, TLAPS

\* The leaves that may reach the file workers.
Deletable == {n \in Leaves : n \notin job.keep /\ ~ job.dry_run}

EventType == [kind : {"entry"}, node : Nodes \ {Root}]
                 \cup [kind : {"complete", "error"}, node : Dirs]
ReadyType == [dir : Dirs, simulated_non_empty : BOOLEAN]
WalkType  == [at : {"pop", "entries", "error", "flush", "exited"}, dir : Dirs,
              stack : Seq(Dirs), unsent : SUBSET (Nodes \ {Root})]
CallType  == [at : Steps, node : Nodes, still : BOOLEAN]

\* What a thread may be working on.
CallIsSound(c) ==
    /\ c.at \in {"try_finalise", "send", "attempt"} => c.node \in Dirs
    /\ c.at = "complete" => c.node # Root
    /\ c.at = "decide" => c.node \in Leaves
    /\ c.at \in {"enqueue", "acquire", "delete"} => c.node \in Deletable

JobInv == job \in Jobs /\ job \in Job
FsInv == fs \subseteq Nodes /\ meddling \in 0 .. MaxMeddling /\ cancel \in BOOLEAN
WalkInv == walk \in WalkType /\ enumQ \in Seq(EventType) /\ Len(enumQ) <= EnumCap
FileQInv == fileQ \in Seq(Deletable) /\ Len(fileQ) <= FileCap
ReadyQInv == readyQ \in Seq(ReadyType) /\ Len(readyQ) <= ReadyCap /\ rootDone \in 0 .. 1
TrackerInv == DOMAIN tracker \subseteq Dirs /\ tracker \in [DOMAIN tracker -> DirState]
CallInv == pc \in [Threads -> CallType] /\ \A t \in Threads : CallIsSound(pc[t])
CapacityInv == capacity \in Capacities
MetricsInv == metrics \in [DOMAIN NoMetrics -> Nat]

TypeInv ==
    /\ JobInv /\ FsInv /\ WalkInv /\ FileQInv /\ ReadyQInv /\ TrackerInv /\ CallInv
    /\ CapacityInv /\ MetricsInv

-----------------------------------------------------------------------------
(* The fields and the queues. *)

\* Leaves and directories are entries; the root is a directory.
LEMMA Leafs == Leaves \subseteq Nodes \ {Root} /\ Dirs \subseteq Nodes /\ Root \in Dirs
  BY PipelineAssumption DEF Nodes

\* A counter that is counted up remains a number, and the others stand.
LEMMA Counting ==
    ASSUME MetricsInv, NEW field \in DOMAIN NoMetrics, Count(field)
    PROVE  /\ MetricsInv'
           /\ \A f \in DOMAIN NoMetrics :
                 metrics'[f] = metrics[f] + (IF f = field THEN 1 ELSE 0)
  BY DEF MetricsInv, Count

\* The counters, by name.
LEMMA Fields ==
    DOMAIN NoMetrics = {"files_scanned", "files_deleted", "files_retained", "file_failures",
                        "dirs_scanned", "dirs_deleted", "dirs_retained", "dir_failures",
                        "list_failures"}
  BY DEF NoMetrics

\* Thread t is given a new entry.
LEMMA Moving ==
    ASSUME CallInv, NEW t \in Threads, NEW c \in CallType, CallIsSound(c),
           UNCHANGED job, pc' = [pc EXCEPT ![t] = c]
    PROVE  CallInv' /\ pc'[t] = c /\ \A u \in Threads : u # t => pc'[u] = pc[u]
  BY DEF CallInv, CallIsSound, Deletable

\* A channel that is not full takes one more.
LEMMA Queueing ==
    ASSUME NEW S, NEW q \in Seq(S), NEW e \in S, NEW cap \in Nat, Len(q) < cap
    PROVE  Append(q, e) \in Seq(S) /\ Len(Append(q, e)) = Len(q) + 1 /\ Len(Append(q, e)) <= cap
  OBVIOUS

\* What is taken from a channel is of its kind, and so is the rest.
LEMMA Dequeueing ==
    ASSUME NEW S, NEW q \in Seq(S), q # <<>>
    PROVE  Head(q) \in S /\ Tail(q) \in Seq(S) /\ Len(q) \in Nat /\ Len(Tail(q)) = Len(q) - 1
  BY HeadTailProperties

\* A thread at rest has nothing at hand.
LEMMA Idling == Idle \in CallType /\ CallIsSound(Idle) /\ Idle.at = "recv"
  BY Leafs DEF Idle, CallType, Steps, CallIsSound

\* A thread that goes on has a call again.
LEMMA Going ==
    ASSUME NEW step \in Steps, NEW n \in Nodes, NEW s \in BOOLEAN
    PROVE  LET c == [at |-> step, node |-> n, still |-> s]
           IN  c \in CallType /\ c.at = step /\ c.node = n /\ c.still = s
  BY DEF CallType

\* The operators of TrackerMap keep the map a map.
LEMMA MapKept ==
    ASSUME TrackerInv, NEW d \in Dirs, NEW s \in BOOLEAN
    PROVE  \A map \in {AddPending(tracker, d), SetEnumerationDone(tracker, d),
                       SubtractPending(tracker, d, s), SetFinalised(tracker, d),
                       Remove(tracker, d), Insert(tracker, d)} :
              DOMAIN map \subseteq Dirs /\ map \in [DOMAIN map -> DirState]
<1>1. AddPending(tracker, d) \in [DOMAIN tracker -> DirState]
  BY DEF TrackerInv, AddPending, Update, DirState
<1>2. SetEnumerationDone(tracker, d) \in [DOMAIN tracker -> DirState]
  BY DEF TrackerInv, SetEnumerationDone, Update, DirState
<1>3. SubtractPending(tracker, d, s) \in [DOMAIN tracker -> DirState]
  <2>1. PICK map : map = SubtractPending(tracker, d, s)
    OBVIOUS
  <2>2. /\ map = [x \in DOMAIN tracker |-> map[x]]
        /\ \A x \in DOMAIN tracker : x # d => map[x] = tracker[x]
        /\ d \in DOMAIN tracker =>
              map[d] = [tracker[d] EXCEPT !.pending = @ - 1, !.still_present = @ \/ s]
    BY <2>1 DEF SubtractPending, Update
  <2>3. ASSUME d \in DOMAIN tracker
        PROVE  map[d] \in DirState
    <3>1. tracker[d] \in DirState /\ (tracker[d].still_present \/ s) \in BOOLEAN
      BY <2>3 DEF TrackerInv
    <3>2. PICK b \in BOOLEAN : b = (tracker[d].still_present \/ s)
      BY <3>1
    <3>3. map[d] = [tracker[d] EXCEPT !.pending = tracker[d].pending - 1,
                                      !.still_present = b]
      BY <2>2, <2>3, <3>2
    <3>4. tracker[d].pending - 1 \in Int
      BY <3>1 DEF DirState
    <3> QED
      BY <3>1, <3>3, <3>4 DEF DirState
  <2> QED
    <3>1. \A x \in DOMAIN tracker : map[x] \in DirState
      BY <2>2, <2>3 DEF TrackerInv
    <3>2. map \in [DOMAIN tracker -> DirState]
      BY <2>2, <3>1
    <3> QED
      BY <2>1, <3>2
<1>4. SetFinalised(tracker, d) \in [DOMAIN tracker -> DirState]
  BY DEF TrackerInv, SetFinalised, Update, DirState
<1>5. Remove(tracker, d) \in [DOMAIN tracker \ {d} -> DirState]
  BY DEF TrackerInv, Remove
<1>6. Insert(tracker, d) \in [DOMAIN tracker \cup {d} -> DirState]
  BY DEF TrackerInv, Insert, DirState, NewDirState
<1> QED
  BY <1>1, <1>2, <1>3, <1>4, <1>5, <1>6 DEF TrackerInv

-----------------------------------------------------------------------------
(* Type correctness, and what each thread and queue has hold of. *)

\* What a step that leaves it alone does to each part.
LEMMA Untouched ==
    ASSUME TypeInv, UNCHANGED job
    PROVE  /\ JobInv'
           /\ UNCHANGED <<fsVars, cancel>> => FsInv'
           /\ UNCHANGED <<walk, enumQ>> => WalkInv'
           /\ UNCHANGED fileQ => FileQInv'
           /\ UNCHANGED <<readyQ, rootDone>> => ReadyQInv'
           /\ UNCHANGED tracker => TrackerInv'
           /\ UNCHANGED pc => CallInv'
           /\ UNCHANGED capacity => CapacityInv'
           /\ UNCHANGED metrics => MetricsInv'
<1>1. JobInv'
  BY DEF TypeInv, JobInv
<1>2. UNCHANGED <<fsVars, cancel>> => FsInv'
  BY DEF TypeInv, FsInv, fsVars
<1>3. UNCHANGED <<walk, enumQ>> => WalkInv'
  BY DEF TypeInv, WalkInv
<1>4. UNCHANGED fileQ => FileQInv'
  BY DEF TypeInv, FileQInv, Deletable
<1>5. UNCHANGED <<readyQ, rootDone>> => ReadyQInv'
  BY DEF TypeInv, ReadyQInv
<1>6. UNCHANGED tracker => TrackerInv'
  BY DEF TypeInv, TrackerInv
<1>7. UNCHANGED pc => CallInv'
  BY DEF TypeInv, CallInv, CallIsSound, Deletable
<1>8. UNCHANGED capacity => CapacityInv'
  BY DEF TypeInv, CapacityInv
<1>9. UNCHANGED metrics => MetricsInv'
  BY DEF TypeInv, MetricsInv
<1> QED
  BY <1>1, <1>2, <1>3, <1>4, <1>5, <1>6, <1>7, <1>8, <1>9

\* The types at the start.
LEMMA InitTypes == Init => TypeInv
<1> SUFFICES ASSUME Init PROVE TypeInv
  OBVIOUS
<1> USE DEF Init
<1>1. JobInv /\ FsInv
  <2>1. JobInv
    BY PipelineAssumption DEF JobInv
  <2>2. job.tree \subseteq Nodes
    BY <2>1 DEF JobInv, Job
  <2>3. 0 \in 0 .. MaxMeddling
    BY PipelineAssumption
  <2> QED
    BY <2>1, <2>2, <2>3 DEF FsInv
<1>2. WalkInv
  <2>1. <<Root>> \in Seq(Dirs)
    BY Leafs
  <2> QED
    BY <2>1, Leafs, PipelineAssumption DEF WalkInv, WalkType
<1>3. FileQInv /\ ReadyQInv
  BY PipelineAssumption DEF FileQInv, ReadyQInv
<1>4. TrackerInv
  BY Leafs DEF TrackerInv, Insert, NewDirState, DirState
<1>5. CallInv
  BY Idling DEF CallInv
<1>6. CapacityInv /\ MetricsInv
  <2>1. metrics = [NoMetrics EXCEPT !.dirs_scanned = 1]
    OBVIOUS
  <2>2. NoMetrics \in [DOMAIN NoMetrics -> Nat]
    BY DEF NoMetrics
  <2>3. metrics \in [DOMAIN NoMetrics -> Nat]
    BY <2>1, <2>2
  <2> QED
    BY <2>3 DEF CapacityInv, MetricsInv
<1> QED
  BY <1>1, <1>2, <1>3, <1>4, <1>5, <1>6 DEF TypeInv

\* The types after a step of the walk.
LEMMA WalkTypes == ASSUME TypeInv, Walk PROVE TypeInv'
<1>1. WalkInv'
  <2>1. /\ walk \in WalkType /\ enumQ \in Seq(EventType) /\ Len(enumQ) <= EnumCap
        /\ EnumCap \in Nat
    BY PipelineAssumption DEF TypeInv, WalkInv
  <2>2. /\ \A d \in Dirs : Event("complete", d) \in EventType /\ Event("error", d) \in EventType
        /\ \A n \in Nodes \ {Root} : Event("entry", n) \in EventType
    BY DEF Event, EventType
  <2>3. ASSUME NEW e \in EventType, Send(e)
        PROVE  enumQ' \in Seq(EventType) /\ Len(enumQ') <= EnumCap
    BY <2>1, <2>3 DEF Send
  <2>4. CASE WalkPop
    <3>1. Len(walk.stack) \in Nat \ {0} /\ walk.stack \in Seq(Dirs)
      BY <2>1, <2>4 DEF WalkPop, WalkType
    <3>2. Top(walk.stack) \in Dirs
      BY <3>1 DEF Top
    <3>3. Rest(walk.stack) \in Seq(Dirs)
      <4>1. \A i \in 1 .. Len(walk.stack) - 1 : walk.stack[i] \in Dirs
        BY <3>1
      <4> QED
        BY <3>1, <4>1, SubSeqProperties DEF Rest
    <3>4. ChildrenIn(Top(walk.stack), fs) \in SUBSET (Nodes \ {Root})
      BY DEF ChildrenIn, TypeInv, FsInv
    <3> HIDE DEF Top, Rest
    <3>5. walk' \in WalkType
      BY <2>4, <3>2, <3>3, <3>4 DEF WalkPop, WalkType
    <3> QED
      BY <2>1, <2>4, <3>5 DEF WalkPop, WalkInv
  <2>5. CASE WalkEntry
    <3>1. PICK n \in walk.unsent :
             /\ Send(Event("entry", n))
             /\ walk' = [walk EXCEPT !.unsent = @ \ {n},
                                     !.stack = IF n \in Dirs THEN Append(@, n) ELSE @]
      BY <2>5 DEF WalkEntry
    <3>2. n \in Nodes \ {Root}
      BY <2>1 DEF WalkType
    <3>3. PICK stack \in Seq(Dirs) :
             stack = IF n \in Dirs THEN Append(walk.stack, n) ELSE walk.stack
      <4>1. walk.stack \in Seq(Dirs)
        BY <2>1 DEF WalkType
      <4>2. n \in Dirs => Append(walk.stack, n) \in Seq(Dirs)
        BY <4>1
      <4> QED
        BY <4>1, <4>2
    <3>4. walk' = [walk EXCEPT !.unsent = walk.unsent \ {n}, !.stack = stack]
      BY <3>1, <3>3
    <3>5. walk' \in WalkType
      BY <2>1, <3>4 DEF WalkType
    <3> QED
      BY <2>2, <2>3, <3>1, <3>2, <3>5 DEF WalkInv
  <2>6. CASE WalkError
    BY <2>1, <2>2, <2>3, <2>6 DEF WalkError, WalkInv, WalkType
  <2>7. CASE WalkComplete
    BY <2>1, <2>2, <2>3, <2>7, Leafs DEF WalkComplete, WalkInv, WalkType
  <2>8. CASE WalkCancelled
    BY <2>1, <2>8 DEF WalkCancelled, WalkInv, WalkType
  <2>9. CASE WalkFlush
    <3>1. walk.stack \in Seq(Dirs) /\ walk.stack # <<>>
      BY <2>1, <2>9 DEF WalkFlush, WalkType
    <3>2. Head(walk.stack) \in Dirs /\ Tail(walk.stack) \in Seq(Dirs)
      BY <3>1, Dequeueing
    <3>3. walk' \in WalkType
      BY <2>1, <2>9, <3>2 DEF WalkFlush, WalkType
    <3> QED
      BY <2>2, <2>3, <2>9, <3>2, <3>3 DEF WalkFlush, WalkInv
  <2>10. CASE WalkExit
    BY <2>1, <2>10 DEF WalkExit, WalkInv, WalkType
  <2> QED
    BY <2>4, <2>5, <2>6, <2>7, <2>8, <2>9, <2>10 DEF Walk
<1> QED
  BY <1>1, Untouched DEF Walk, TypeInv, semVars

\* The types after a call on the tracker.
LEMMA TrackerTypes ==
    ASSUME TypeInv, NEW t \in Threads, TrackerCall(t)
    PROVE  TypeInv' /\ UNCHANGED fsVars
<1>1. pc[t] \in CallType /\ CallIsSound(pc[t])
  BY DEF TypeInv, CallInv
<1>2. /\ Idle \in CallType /\ CallIsSound(Idle)
      /\ Steps # {} /\ "try_finalise" \in Steps /\ "send" \in Steps
  BY Idling DEF Steps
<1>3. CASE CompleteChild(t)
  <2> DEFINE n == pc[t].node
             d == Parent[n]
  <2>1. n \in Nodes \ {Root} /\ d \in Dirs /\ pc[t].still \in BOOLEAN
    BY <1>1, <1>3, PipelineAssumption DEF CompleteChild, At, CallIsSound, CallType
  <2>2. tracker' = SubtractPending(tracker, d, pc[t].still)
    BY <1>3 DEF CompleteChild
  <2>3. TrackerInv'
    BY <2>1, <2>2, MapKept DEF TypeInv, TrackerInv
  <2>4. \/ pc' = [pc EXCEPT ![t] = [at |-> "try_finalise", node |-> d, still |-> FALSE]]
        \/ pc' = [pc EXCEPT ![t] = Idle]
    BY <1>3 DEF CompleteChild, Goto, Return
  <2>5. [at |-> "try_finalise", node |-> d, still |-> FALSE] \in CallType
    BY <1>2, <2>1, Leafs, Going
  <2>6. CallInv'
    BY <1>2, <1>3, <2>1, <2>4, <2>5, Moving DEF CompleteChild, TypeInv, CallIsSound
  <2> QED
    BY <1>3, <2>3, <2>6, Untouched DEF CompleteChild, TypeInv, semVars, queueVars
<1>4. CASE TryFinalise(t)
  <2> DEFINE d == pc[t].node
  <2>1. d \in Dirs
    BY <1>1, <1>4 DEF TryFinalise, At, CallIsSound
  <2>2. CASE MayFinalise(tracker, d)
    <3>1. /\ tracker' = SetFinalised(tracker, d)
          /\ pc' = [pc EXCEPT ![t] = [at |-> "send", node |-> d,
                                      still |-> tracker[d].still_present]]
      BY <1>4, <2>2 DEF TryFinalise
    <3>2. tracker[d].still_present \in BOOLEAN
      BY <2>2 DEF MayFinalise, Tracked, TypeInv, TrackerInv, DirState
    <3>3. [at |-> "send", node |-> d, still |-> tracker[d].still_present] \in CallType
      BY <1>2, <2>1, <3>2, Leafs, Going
    <3>4. CallInv'
      BY <1>4, <2>1, <3>1, <3>3, Moving DEF TryFinalise, TypeInv, CallIsSound
    <3>5. TrackerInv'
      BY <2>1, <3>1, MapKept DEF TypeInv, TrackerInv
    <3> QED
      BY <1>4, <3>4, <3>5, Untouched DEF TryFinalise, TypeInv, semVars, queueVars
  <2>3. CASE ~ MayFinalise(tracker, d)
    <3>1. pc' = [pc EXCEPT ![t] = Idle] /\ UNCHANGED tracker
      BY <1>4, <2>3 DEF TryFinalise, Return
    <3>2. CallInv'
      BY <1>2, <1>4, <3>1, Moving DEF TryFinalise, TypeInv
    <3> QED
      BY <1>4, <3>1, <3>2, Untouched DEF TryFinalise, TypeInv, semVars, queueVars
  <2> QED
    BY <2>2, <2>3
<1>5. CASE SendReady(t)
  <2>1. pc[t].node \in Dirs /\ pc[t].still \in BOOLEAN
    BY <1>1, <1>5 DEF SendReady, At, CallIsSound, CallType
  <2>2. [dir |-> pc[t].node, simulated_non_empty |-> pc[t].still] \in ReadyType
    BY <2>1 DEF ReadyType
  <2>3. ReadyQInv'
    BY <1>5, <2>2, PipelineAssumption DEF SendReady, TypeInv, ReadyQInv
  <2>4. CallInv'
    BY <1>2, <1>5, Moving DEF SendReady, Return, TypeInv
  <2> QED
    BY <1>5, <2>3, <2>4, Untouched DEF SendReady, TypeInv, semVars
<1>6. UNCHANGED fsVars
  BY DEF TrackerCall, CompleteChild, TryFinalise, SendReady
<1> QED
  BY <1>3, <1>4, <1>5, <1>6 DEF TrackerCall

\* The coordinator is one of the threads.
LEMMA CoordinatorIsAThread == Coordinator \in Threads
  BY DEF Threads

\* The channel of events after one has been received.
LEMMA ReceiveTypes ==
    ASSUME TypeInv, NEW kind \in {"entry", "complete", "error"}, ReceiveEvent(kind)
    PROVE  /\ enumQ' \in Seq(EventType) /\ Len(enumQ') <= EnumCap
           /\ kind = "entry" => Head(enumQ).node \in Nodes \ {Root}
           /\ kind # "entry" => Head(enumQ).node \in Dirs
<1>1. enumQ \in Seq(EventType) /\ enumQ # <<>> /\ Len(enumQ) <= EnumCap
  BY DEF TypeInv, WalkInv, ReceiveEvent
<1>2. /\ Head(enumQ) \in EventType /\ Tail(enumQ) \in Seq(EventType)
      /\ Len(enumQ) \in Nat /\ Len(Tail(enumQ)) = Len(enumQ) - 1
  BY <1>1, Dequeueing
<1>3. Head(enumQ).kind = kind /\ enumQ' = Tail(enumQ)
  BY DEF ReceiveEvent
<1>4. Len(enumQ') <= EnumCap
  BY <1>1, <1>2, <1>3, PipelineAssumption
<1> QED
  BY <1>2, <1>3, <1>4 DEF EventType

\* The types after a step of the coordinator.
LEMMA CoordinatorTypes ==
    ASSUME TypeInv, CoordinatorEvent \/ CoordinatorDecide \/ CoordinatorEnqueue
                    \/ CoordinatorEnd \/ Sample \/ RootIsDone \/ Join
    PROVE  TypeInv' /\ UNCHANGED fsVars
<1> USE CoordinatorIsAThread
<1>1. pc[Coordinator] \in CallType /\ CallIsSound(pc[Coordinator])
  BY DEF TypeInv, CallInv
<1>2. /\ Idle \in CallType /\ CallIsSound(Idle)
      /\ {"decide", "try_finalise", "complete", "enqueue", "wait", "join", "done"}
             \subseteq Steps
  BY Idling DEF Steps
<1>3. {"files_scanned", "dirs_scanned", "list_failures", "files_retained", "files_deleted"}
        \subseteq DOMAIN NoMetrics
  BY Fields
<1>4. CASE CoordinatorEvent
  <2>1. UNCHANGED <<job, fsVars, cancel, walk, fileQ, readyQ, rootDone, semVars>>
    BY <1>4 DEF CoordinatorEvent
  <2>2. ASSUME enumQ' \in Seq(EventType), Len(enumQ') <= EnumCap
        PROVE  WalkInv'
    BY <2>1, <2>2 DEF TypeInv, WalkInv
  <2>3. CASE CoordinatorDirectory
    <3> DEFINE d == Head(enumQ).node
    <3>1. ReceiveEvent("entry") /\ Count("dirs_scanned") /\ UNCHANGED pc /\ d \in Dirs
          /\ tracker' = AddPending(Insert(tracker, d), Parent[d])
      BY <2>3 DEF CoordinatorDirectory
    <3>2. WalkInv' /\ d \in Nodes \ {Root}
      BY <2>2, <3>1, ReceiveTypes
    <3>3. Parent[d] \in Dirs
      BY <3>2, PipelineAssumption
    <3>4. DOMAIN Insert(tracker, d) \subseteq Dirs
          /\ Insert(tracker, d) \in [DOMAIN Insert(tracker, d) -> DirState]
      BY <3>1, MapKept DEF TypeInv
    <3>5. TrackerInv'
      BY <3>1, <3>3, <3>4 DEF TrackerInv, AddPending, Update, DirState
    <3> QED
      BY <1>3, <2>1, <3>1, <3>2, <3>5, Counting, Untouched DEF TypeInv, semVars
  <2>4. CASE CoordinatorLeaf
    <3> DEFINE n == Head(enumQ).node
    <3>1. ReceiveEvent("entry") /\ Count("files_scanned") /\ n \in Leaves
          /\ tracker' = AddPending(tracker, Parent[n])
          /\ pc' = [pc EXCEPT ![Coordinator] = [at |-> "decide", node |-> n, still |-> FALSE]]
      BY <2>4 DEF CoordinatorLeaf, Goto
    <3>2. WalkInv' /\ n \in Nodes \ {Root}
      BY <2>2, <3>1, ReceiveTypes
    <3>3. Parent[n] \in Dirs
      BY <3>2, PipelineAssumption
    <3>4. TrackerInv'
      BY <3>1, <3>3, MapKept DEF TypeInv, TrackerInv
    <3>5. [at |-> "decide", node |-> n, still |-> FALSE] \in CallType
      BY <1>2, <3>2, Going
    <3>6. CallInv'
      BY <2>1, <3>1, <3>5, Moving DEF TypeInv, CallIsSound
    <3> QED
      BY <1>3, <2>1, <3>1, <3>2, <3>4, <3>6, Counting, Untouched DEF TypeInv, semVars
  <2>5. CASE CoordinatorListed
    <3> DEFINE d == Head(enumQ).node
    <3>1. ReceiveEvent("complete") /\ UNCHANGED metrics
          /\ tracker' = SetEnumerationDone(tracker, d)
          /\ \/ pc' = [pc EXCEPT ![Coordinator] =
                          [at |-> "try_finalise", node |-> d, still |-> FALSE]]
             \/ UNCHANGED pc
      BY <2>5 DEF CoordinatorListed, Goto
    <3>2. WalkInv' /\ d \in Dirs
      BY <2>2, <3>1, ReceiveTypes
    <3>3. TrackerInv'
      BY <3>1, <3>2, MapKept DEF TypeInv, TrackerInv
    <3>4. [at |-> "try_finalise", node |-> d, still |-> FALSE] \in CallType
      BY <1>2, <3>2, Leafs, Going
    <3>5. CallInv'
      BY <2>1, <3>1, <3>2, <3>4, Moving, Untouched DEF TypeInv, CallIsSound
    <3> QED
      BY <2>1, <3>1, <3>2, <3>3, <3>5, Untouched DEF TypeInv, semVars
  <2>6. CASE CoordinatorListError
    <3>1. ReceiveEvent("error") /\ Count("list_failures") /\ UNCHANGED <<tracker, pc>>
      BY <2>6 DEF CoordinatorListError
    <3>2. WalkInv'
      BY <2>2, <3>1, ReceiveTypes
    <3> QED
      BY <1>3, <2>1, <3>1, <3>2, Counting, Untouched DEF TypeInv, semVars
  <2> QED
    BY <1>4, <2>1, <2>3, <2>4, <2>5, <2>6 DEF CoordinatorEvent
<1>5. CASE CoordinatorDecide
  <2> DEFINE n == pc[Coordinator].node
  <2>1. n \in Leaves /\ n \in Nodes \ {Root}
    BY <1>1, <1>5, Leafs DEF CoordinatorDecide, At, CallIsSound
  <2>2. \A s \in BOOLEAN : [at |-> "complete", node |-> n, still |-> s] \in CallType
    BY <1>2, <2>1, Going
  <2>3. [at |-> "enqueue", node |-> n, still |-> FALSE] \in CallType
    BY <1>2, <2>1, Going
  <2>4. \/ \E s \in BOOLEAN : pc' = [pc EXCEPT ![Coordinator] =
                                       [at |-> "complete", node |-> n, still |-> s]]
        \/ /\ n \in Deletable
           /\ pc' = [pc EXCEPT ![Coordinator] = [at |-> "enqueue", node |-> n, still |-> FALSE]]
    BY <1>5, <2>1 DEF CoordinatorDecide, Complete, Goto, Deletable
  <2>5. CallInv'
    BY <1>5, <2>1, <2>2, <2>3, <2>4, Moving DEF CoordinatorDecide, TypeInv, CallIsSound
  <2>6. Count("files_retained") \/ Count("files_deleted") \/ UNCHANGED metrics
    BY <1>5 DEF CoordinatorDecide
  <2>7. MetricsInv'
    BY <1>3, <1>5, <2>6, Counting, Untouched DEF CoordinatorDecide, TypeInv
  <2> QED
    BY <1>5, <2>5, <2>7, Untouched DEF CoordinatorDecide, TypeInv, semVars, queueVars
<1>6. CASE CoordinatorEnqueue
  <2>1. pc[Coordinator].node \in Deletable
    BY <1>1, <1>6 DEF CoordinatorEnqueue, At, CallIsSound
  <2>2. FileQInv'
    BY <1>6, <2>1, PipelineAssumption DEF CoordinatorEnqueue, TypeInv, FileQInv, Deletable
  <2>3. CallInv'
    BY <1>2, <1>6, Moving DEF CoordinatorEnqueue, Return, TypeInv
  <2> QED
    BY <1>6, <2>2, <2>3, Untouched DEF CoordinatorEnqueue, TypeInv, semVars
<1>7. ASSUME NEW step \in {"wait", "join", "done"}, Goto(Coordinator, step, Root), UNCHANGED job
      PROVE  CallInv'
  <2>1. [at |-> step, node |-> Root, still |-> FALSE] \in CallType
    BY <1>2, Leafs, Going
  <2> QED
    BY <1>7, <2>1, Moving DEF Goto, TypeInv, CallIsSound
<1>8. CASE CoordinatorEnd
  BY <1>7, <1>8, Untouched DEF CoordinatorEnd, TypeInv, semVars, queueVars
<1>9. CASE Sample
  BY <1>9, Untouched DEF Sample, TypeInv, CapacityInv, queueVars
<1>10. CASE RootIsDone
  <2>1. ReadyQInv'
    BY <1>10 DEF RootIsDone, TypeInv, ReadyQInv
  <2> QED
    BY <1>7, <1>10, <2>1, Untouched DEF RootIsDone, TypeInv, semVars
<1>11. CASE Join
  BY <1>7, <1>11, Untouched DEF Join, TypeInv, semVars, queueVars
<1>12. UNCHANGED fsVars
  BY DEF CoordinatorEvent, CoordinatorDecide, CoordinatorEnqueue, CoordinatorEnd, Sample,
         RootIsDone, Join
<1> QED
  BY <1>4, <1>5, <1>6, <1>8, <1>9, <1>10, <1>11, <1>12

\* The types after a step of a file worker.
LEMMA FileTypes ==
    ASSUME TypeInv, NEW w \in FileWorkers,
           FileReceive(w) \/ FileAcquire(w) \/ FileDelete(w) \/ FileExit(w)
    PROVE  TypeInv'
<1>1. w \in Threads /\ pc[w] \in CallType /\ CallIsSound(pc[w])
  BY DEF TypeInv, CallInv, Threads
<1>2. {"acquire", "delete", "complete", "exited"} \subseteq Steps
  BY DEF Steps
<1>3. CASE FileReceive(w)
  <2>1. fileQ \in Seq(Deletable) /\ fileQ # <<>> /\ Len(fileQ) <= FileCap
    BY <1>3 DEF FileReceive, TypeInv, FileQInv
  <2>2. /\ Head(fileQ) \in Deletable /\ Tail(fileQ) \in Seq(Deletable)
        /\ Len(fileQ) \in Nat /\ Len(Tail(fileQ)) = Len(fileQ) - 1
    BY <2>1, Dequeueing
  <2>3. FileQInv'
    BY <1>3, <2>1, <2>2, PipelineAssumption DEF FileReceive, FileQInv, Deletable
  <2>4. [at |-> "acquire", node |-> Head(fileQ), still |-> FALSE] \in CallType
    BY <1>2, <2>2, Leafs, Going DEF Deletable
  <2>5. CallInv'
    BY <1>1, <1>3, <2>2, <2>4, Moving DEF FileReceive, Goto, TypeInv, CallIsSound
  <2> QED
    BY <1>3, <2>3, <2>5, Untouched DEF FileReceive, TypeInv, semVars
<1>4. CASE FileAcquire(w)
  <2>1. pc[w].node \in Deletable
    BY <1>1, <1>4 DEF FileAcquire, At, CallIsSound
  <2>2. [at |-> "delete", node |-> pc[w].node, still |-> FALSE] \in CallType
    BY <1>2, <2>1, Leafs, Going DEF Deletable
  <2>3. CallInv'
    BY <1>1, <1>4, <2>1, <2>2, Moving DEF FileAcquire, Goto, TypeInv, CallIsSound
  <2> QED
    BY <1>4, <2>3, Untouched DEF FileAcquire, TypeInv, queueVars
<1>5. CASE FileDelete(w)
  <2> DEFINE n == pc[w].node
  <2>1. n \in Nodes \ {Root}
    BY <1>1, <1>5, Leafs DEF FileDelete, At, CallIsSound, Deletable
  <2>2. \A s \in BOOLEAN : [at |-> "complete", node |-> n, still |-> s] \in CallType
    BY <1>2, <2>1, Going
  <2>3. \E s \in BOOLEAN : Complete(w, n, s)
    BY <1>5 DEF FileDelete
  <2>4. CallInv'
    BY <1>1, <1>5, <2>1, <2>2, <2>3, Moving DEF FileDelete, Complete, TypeInv, CallIsSound
  <2>5. MetricsInv'
    <3>1. Count("files_deleted") \/ Count("file_failures")
      BY <1>5 DEF FileDelete
    <3> QED
      BY <3>1, Fields, Counting DEF TypeInv
  <2>6. FsInv'
    BY <1>5 DEF FileDelete, TypeInv, FsInv
  <2> QED
    BY <1>5, <2>4, <2>5, <2>6, Untouched DEF FileDelete, TypeInv, queueVars
<1>6. CASE FileExit(w)
  <2>1. [at |-> "exited", node |-> Root, still |-> FALSE] \in CallType
    BY <1>2, Leafs, Going
  <2>2. CallInv'
    BY <1>1, <1>6, <2>1, Moving DEF FileExit, Goto, TypeInv, CallIsSound
  <2> QED
    BY <1>6, <2>2, Untouched DEF FileExit, TypeInv, queueVars, semVars
<1> QED
  BY <1>3, <1>4, <1>5, <1>6

\* The types when a directory has been attempted.
LEMMA FinishTypes ==
    ASSUME TypeInv, UNCHANGED job, NEW w \in Threads, NEW d \in Dirs, NEW s \in BOOLEAN,
           Finish(w, d, s), UNCHANGED readyQ
    PROVE  TrackerInv' /\ CallInv' /\ ReadyQInv'
<1>1. TrackerInv'
  BY MapKept DEF Finish, TypeInv, TrackerInv
<1>2. CallInv'
  <2>1. d # Root => [at |-> "complete", node |-> d, still |-> s] \in CallType
    BY Leafs, Going DEF Steps
  <2> QED
    BY <2>1, Idling, Moving DEF Finish, Return, Complete, TypeInv, CallIsSound
<1>3. ReadyQInv'
  BY DEF Finish, TypeInv, ReadyQInv
<1> QED
  BY <1>1, <1>2, <1>3

\* The types after a step of a directory worker.
LEMMA DirTypes ==
    ASSUME TypeInv, NEW w \in DirWorkers, DirReceive(w) \/ DirAttempt(w) \/ DirExit(w)
    PROVE  TypeInv'
<1>1. w \in Threads /\ pc[w] \in CallType /\ CallIsSound(pc[w])
  BY DEF TypeInv, CallInv, Threads
<1>2. {"attempt", "exited"} \subseteq Steps
  BY DEF Steps
<1>3. CASE DirReceive(w)
  <2>1. readyQ \in Seq(ReadyType) /\ readyQ # <<>> /\ Len(readyQ) <= ReadyCap
    BY <1>3 DEF DirReceive, TypeInv, ReadyQInv
  <2>2. /\ Head(readyQ) \in ReadyType /\ Tail(readyQ) \in Seq(ReadyType)
        /\ Len(readyQ) \in Nat /\ Len(Tail(readyQ)) = Len(readyQ) - 1
    BY <2>1, Dequeueing
  <2>3. ReadyQInv'
    BY <1>3, <2>1, <2>2, PipelineAssumption DEF DirReceive, ReadyQInv, TypeInv
  <2> DEFINE c == [at |-> "attempt", node |-> Head(readyQ).dir,
                   still |-> Head(readyQ).simulated_non_empty]
  <2>4. c.node \in Dirs /\ c \in CallType
    BY <1>2, <2>2, Leafs, Going DEF ReadyType
  <2>5. CallInv'
    BY <1>1, <1>3, <2>4, Moving DEF DirReceive, TypeInv, CallIsSound
  <2> QED
    BY <1>3, <2>3, <2>5, Untouched DEF DirReceive, TypeInv, semVars
<1>4. CASE DirAttempt(w)
  <2> DEFINE d == pc[w].node
  <2>1. d \in Dirs /\ pc[w].still \in BOOLEAN
    BY <1>1, <1>4 DEF DirAttempt, At, CallIsSound, CallType
  <2>2. UNCHANGED <<job, meddling, cancel, walk, enumQ, fileQ, readyQ, semVars>>
    BY <1>4 DEF DirAttempt
  <2>3. /\ \E s \in BOOLEAN : Finish(w, d, s)
        /\ fs' = fs \/ fs' = fs \ {d}
        /\ \/ UNCHANGED metrics
           \/ \E f \in {"dirs_retained", "dirs_deleted", "dir_failures"} : Count(f)
    <3>1. CASE DirPreserveRoot(w)
      BY <3>1 DEF DirPreserveRoot
    <3>2. CASE DirSimulate(w)
      BY <2>1, <3>2 DEF DirSimulate
    <3>3. CASE DirDelete(w)
      BY <3>3 DEF DirDelete
    <3> QED
      BY <1>4, <3>1, <3>2, <3>3 DEF DirAttempt
  <2>4. TrackerInv' /\ CallInv' /\ ReadyQInv'
    BY <1>1, <2>1, <2>2, <2>3, FinishTypes
  <2>5. FsInv'
    BY <2>2, <2>3 DEF TypeInv, FsInv
  <2>6. MetricsInv'
    BY <2>2, <2>3, Fields, Counting, Untouched DEF TypeInv
  <2> QED
    BY <2>2, <2>4, <2>5, <2>6, Untouched DEF TypeInv, semVars
<1>5. CASE DirExit(w)
  <2>1. [at |-> "exited", node |-> Root, still |-> FALSE] \in CallType
    BY <1>2, Leafs, Going
  <2>2. CallInv'
    BY <1>1, <1>5, <2>1, Moving DEF DirExit, Goto, TypeInv, CallIsSound
  <2> QED
    BY <1>5, <2>2, Untouched DEF DirExit, TypeInv, queueVars, semVars
<1> QED
  BY <1>3, <1>4, <1>5

\* The types when the run is cancelled or another program meddles.
LEMMA OtherTypes == ASSUME TypeInv, Cancel \/ Meddle PROVE TypeInv'
<1>1. CASE Cancel
  <2>1. FsInv'
    BY <1>1 DEF Cancel, TypeInv, FsInv, fsVars
  <2> QED
    BY <1>1, <2>1, Untouched DEF Cancel, TypeInv, queueVars, semVars
<1>2. CASE Meddle
  <2>1. meddling + 1 \in 0 .. MaxMeddling /\ meddling' = meddling + 1
    BY <1>2, PipelineAssumption DEF Meddle, TypeInv, FsInv
  <2>2. fs' \subseteq Nodes
    BY <1>2, Leafs DEF Meddle, TypeInv, FsInv
  <2>3. FsInv'
    BY <1>2, <2>1, <2>2 DEF Meddle, TypeInv, FsInv
  <2> QED
    BY <1>2, <2>3, Untouched DEF Meddle, TypeInv, queueVars, semVars
<1> QED
  BY <1>1, <1>2

\* No step breaks the types.
LEMMA TypesKept == TypeInv /\ [Next]_vars => TypeInv'
<1> SUFFICES ASSUME TypeInv, [Next]_vars PROVE TypeInv'
  OBVIOUS
<1>1. CASE Walk
  BY <1>1, WalkTypes
<1>2. CASE Coordinate \/ Sample
  BY <1>2, CoordinatorTypes, TrackerTypes, CoordinatorIsAThread DEF Coordinate
<1>3. ASSUME NEW w \in FileWorkers, FileWorker(w) PROVE TypeInv'
  BY <1>3, FileTypes, TrackerTypes DEF FileWorker, Threads
<1>4. ASSUME NEW w \in DirWorkers, DirWorker(w) PROVE TypeInv'
  BY <1>4, DirTypes, TrackerTypes DEF DirWorker, Threads
<1>5. CASE Cancel \/ Meddle
  BY <1>5, OtherTypes
<1>6. CASE UNCHANGED vars
  BY <1>6, Untouched DEF vars, fsVars, TypeInv
<1> QED
  BY <1>1, <1>2, <1>3, <1>4, <1>5, <1>6 DEF Next

-----------------------------------------------------------------------------
(* What is kept, and what a dry run does. *)

StaysInv ==
    meddling = 0 =>
        /\ fs \subseteq job.tree
        /\ Above(job.keep \cap job.tree) \cap job.tree \subseteq fs
        /\ job.dry_run => fs = job.tree

\* What is above the kept leaves is closed upwards and in the tree, and each of it
\* that is not kept itself has something of it below.
LEMMA AboveIsClosed ==
    ASSUME JobInv
    PROVE  LET kept == Above(job.keep \cap job.tree)
           IN  /\ kept \subseteq job.tree
               /\ \A n \in Leaves \ job.keep : n \notin kept
               /\ \A d \in Dirs \cap kept :
                     (d = Root /\ job.preserve_root)
                     \/ \E n \in kept \ {Root} : Parent[n] = d
<1> DEFINE base == (job.keep \cap job.tree) \cup (IF job.preserve_root THEN {Root} ELSE {})
           Closed(S) == \A n \in S \ {Root} : Parent[n] \in S
           kept == Above(job.keep \cap job.tree)
<1>1. /\ job.tree \subseteq Nodes /\ job.keep \subseteq Leaves /\ Root \in job.tree
      /\ \A n \in job.tree \ {Root} : Parent[n] \in job.tree
      /\ job.preserve_root \in BOOLEAN
  BY PipelineAssumption DEF JobInv, Job
<1>2. kept = {n \in Nodes : \A S \in SUBSET Nodes : base \subseteq S /\ Closed(S) => n \in S}
  BY DEF Above
<1>3. base \subseteq job.tree /\ base \subseteq Leaves \cup {Root}
  BY <1>1
<1> HIDE DEF base, kept
<1>4. kept \subseteq job.tree
  <2>1. Closed(job.tree) /\ job.tree \in SUBSET Nodes
    BY <1>1
  <2> QED
    BY <1>2, <1>3, <2>1
<1>5. base \subseteq kept /\ kept \in SUBSET Nodes /\ Closed(kept)
  <2>1. base \subseteq kept /\ kept \in SUBSET Nodes
    BY <1>1, <1>2, <1>3
  <2>2. ASSUME NEW n \in kept \ {Root}
        PROVE  Parent[n] \in kept
    <3>1. Parent[n] \in Nodes
      BY <2>1, <2>2, Leafs, PipelineAssumption
    <3>2. ASSUME NEW S \in SUBSET Nodes, base \subseteq S, Closed(S)
          PROVE  Parent[n] \in S
      BY <1>2, <2>2, <3>2
    <3> QED
      BY <1>2, <3>1, <3>2
  <2> QED
    BY <2>1, <2>2
<1>6. ASSUME NEW n \in Leaves \ job.keep
      PROVE  n \notin kept
  <2> DEFINE S == Nodes \ {n}
  <2>1. base \subseteq S
    BY <1>1, <1>6, Leafs DEF base
  <2>2. Closed(S)
    BY <1>6, Leafs, PipelineAssumption
  <2>3. n \notin S /\ S \in SUBSET Nodes
    OBVIOUS
  <2> HIDE DEF S
  <2> QED
    BY <1>2, <2>1, <2>2, <2>3
<1>7. ASSUME NEW d \in Dirs \cap kept, ~ (d = Root /\ job.preserve_root),
             \A n \in kept \ {Root} : Parent[n] # d
      PROVE  FALSE
  <2> DEFINE S == kept \ {d}
  <2>1. d \notin base
    BY <1>1, <1>7, PipelineAssumption DEF base
  <2>2. base \subseteq S /\ S \in SUBSET Nodes /\ d \notin S
    BY <1>5, <2>1
  <2>3. Closed(S)
    BY <1>5, <1>7
  <2> HIDE DEF S
  <2> QED
    BY <1>2, <1>7, <2>2, <2>3
<1> QED
  BY <1>4, <1>6, <1>7 DEF kept

\* At the start all of the tree is there.
LEMMA InitStays == Init => StaysInv
<1> SUFFICES ASSUME Init PROVE StaysInv
  OBVIOUS
<1>1. fs = job.tree
  BY DEF Init
<1> QED
  BY <1>1 DEF StaysInv

\* Deleting something that is neither kept nor part of a dry run.
LEMMA DeletingStays ==
    ASSUME JobInv, StaysInv, UNCHANGED <<job, meddling>>, NEW n, fs' = fs \ {n},
           ~ job.dry_run,
           meddling = 0 => n \notin Above(job.keep \cap job.tree)
    PROVE  StaysInv'
<1> DEFINE kept == Above(job.keep \cap job.tree)
<1>1. kept' = kept
  BY DEF Above
<1> QED
  BY <1>1 DEF StaysInv

\* Without a deletion what stays stays.
LEMMA NothingDeletedStays ==
    ASSUME StaysInv, UNCHANGED <<job, meddling, fs>>
    PROVE  StaysInv'
  BY DEF StaysInv, Above

\* No step deletes what is to stay.
LEMMA StaysKept == TypeInv /\ StaysInv /\ [Next]_vars => StaysInv'
<1> SUFFICES ASSUME TypeInv, StaysInv, [Next]_vars PROVE StaysInv'
  OBVIOUS
<1>1. CASE Walk
  BY <1>1, NothingDeletedStays DEF Walk, fsVars
<1>2. ASSUME NEW t \in Threads, TrackerCall(t) PROVE StaysInv'
  BY <1>2, NothingDeletedStays
     DEF TrackerCall, CompleteChild, TryFinalise, SendReady, fsVars
<1>3. CASE CoordinatorEvent \/ CoordinatorDecide \/ CoordinatorEnqueue
           \/ CoordinatorEnd \/ Sample \/ RootIsDone \/ Join
  BY <1>3, NothingDeletedStays
     DEF CoordinatorEvent, CoordinatorDecide, CoordinatorEnqueue, CoordinatorEnd, Sample,
         RootIsDone, Join, fsVars
<1>4. ASSUME NEW w \in FileWorkers, FileReceive(w) \/ FileAcquire(w) \/ FileExit(w)
      PROVE  StaysInv'
  BY <1>4, NothingDeletedStays DEF FileReceive, FileAcquire, FileExit, fsVars
<1>5. ASSUME NEW w \in FileWorkers, FileDelete(w)
      PROVE  StaysInv'
  <2>1. w \in Threads /\ CallIsSound(pc[w]) /\ pc[w].at = "delete"
    BY <1>5 DEF TypeInv, CallInv, Threads, FileDelete, At
  <2>2. pc[w].node \in Leaves \ job.keep /\ ~ job.dry_run
    BY <2>1 DEF CallIsSound, Deletable
  <2>3. pc[w].node \notin Above(job.keep \cap job.tree)
    BY <2>2, AboveIsClosed DEF TypeInv
  <2>4. UNCHANGED <<job, meddling>> /\ (fs' = fs \ {pc[w].node} \/ fs' = fs)
    BY <1>5 DEF FileDelete
  <2> QED
    BY <2>2, <2>3, <2>4, DeletingStays, NothingDeletedStays DEF TypeInv
<1>6. ASSUME NEW w \in DirWorkers, DirReceive(w) \/ DirExit(w)
      PROVE  StaysInv'
  BY <1>6, NothingDeletedStays DEF DirReceive, DirExit, fsVars
<1>7. ASSUME NEW w \in DirWorkers, DirAttempt(w)
      PROVE  StaysInv'
  <2> DEFINE d == pc[w].node
  <2>1. d \in Dirs
    BY <1>7 DEF TypeInv, CallInv, CallIsSound, Threads, DirAttempt, At
  <2>2. UNCHANGED <<job, meddling>>
    BY <1>7 DEF DirAttempt
  <2>3. CASE DirDelete(w) /\ fs' # fs
    <3>1. /\ ~ (d = Root /\ job.preserve_root) /\ ~ job.dry_run
          /\ ChildrenIn(d, fs) = {} /\ fs' = fs \ {d}
      BY <2>3 DEF DirDelete
    <3>2. ASSUME meddling = 0, d \in Above(job.keep \cap job.tree)
          PROVE  FALSE
      <4>1. PICK n \in Above(job.keep \cap job.tree) \ {Root} : Parent[n] = d
        BY <2>1, <3>1, <3>2, AboveIsClosed DEF TypeInv
      <4>2. n \in job.tree
        BY <4>1, AboveIsClosed DEF TypeInv
      <4>3. n \in fs
        BY <3>2, <4>1, <4>2 DEF StaysInv
      <4> QED
        BY <3>1, <4>1, <4>3 DEF ChildrenIn
    <3> QED
      BY <2>2, <3>1, <3>2, DeletingStays DEF TypeInv
  <2>4. CASE fs' = fs
    BY <2>2, <2>4, NothingDeletedStays
  <2>5. DirDelete(w) \/ fs' = fs
    BY <1>7 DEF DirAttempt, DirPreserveRoot, DirSimulate
  <2> QED
    BY <2>3, <2>4, <2>5
<1>8. CASE Cancel
  BY <1>8, NothingDeletedStays DEF Cancel, fsVars
<1>9. CASE Meddle
  BY <1>9 DEF Meddle, StaysInv, TypeInv, FsInv
<1>10. CASE UNCHANGED vars
  BY <1>10, NothingDeletedStays DEF vars
<1> QED
  BY <1>1, <1>2, <1>3, <1>4, <1>5, <1>6, <1>7, <1>8, <1>9, <1>10, CoordinatorIsAThread
     DEF Next, Coordinate, FileWorker, DirWorker, Threads
-----------------------------------------------------------------------------
(* Permits, and the accounts of the files. *)

Holders  == {w \in FileWorkers : pc[w].at = "delete"}
Handling == {w \in FileWorkers : pc[w].at \in {"acquire", "delete"}}
AtHand   == IF pc[Coordinator].at \in {"decide", "enqueue"} THEN 1 ELSE 0
Settled  == metrics.files_deleted + metrics.files_retained + metrics.file_failures

PermitsAreHeld == granted = Cardinality(Holders)
FilesAddUp == metrics.files_scanned = Settled + AtHand + Len(fileQ) + Cardinality(Handling)
LeavingIsSound ==
    /\ \A w \in FileWorkers : pc[w].at = "exited" => FileTxDropped /\ fileQ = <<>>
    /\ Done => \A w \in FileWorkers : pc[w].at = "exited"

CountsInv == PermitsAreHeld /\ FilesAddUp /\ LeavingIsSound

Closing == {"wait", "join", "done"}
Working == {"acquire", "delete", "decide", "enqueue"}
FileFields == {"files_scanned", "files_deleted", "files_retained", "file_failures"}

\* What is counted is finite.
LEMMA SetsAreFinite ==
    /\ IsFiniteSet(Holders) /\ IsFiniteSet(Handling)
    /\ Cardinality(Holders) \in Nat /\ Cardinality(Handling) \in Nat
<1>1. Holders \subseteq FileWorkers /\ Handling \subseteq FileWorkers
  BY DEF Holders, Handling
<1> QED
  BY <1>1, PipelineAssumption, FS_Subset, FS_CardinalityType

\* A file worker that starts or stops handling a file, or holding a permit.
LEMMA WorkerMoves ==
    ASSUME TypeInv, NEW w \in FileWorkers, NEW c, pc' = [pc EXCEPT ![w] = c]
    PROVE  /\ Cardinality(Holders') = Cardinality(Holders)
                 + (IF c.at = "delete" THEN 1 ELSE 0)
                 - (IF pc[w].at = "delete" THEN 1 ELSE 0)
           /\ Cardinality(Handling') = Cardinality(Handling)
                 + (IF c.at \in {"acquire", "delete"} THEN 1 ELSE 0)
                 - (IF pc[w].at \in {"acquire", "delete"} THEN 1 ELSE 0)
           /\ pc'[Coordinator] = pc[Coordinator]
           /\ pc'[w] = c /\ \A v \in FileWorkers : v # w => pc'[v] = pc[v]
<1>1. w # Coordinator /\ Coordinator \in Threads /\ FileWorkers \subseteq Threads
  BY PipelineAssumption DEF Threads
<1>2. /\ pc'[w] = c /\ \A v \in Threads : v # w => pc'[v] = pc[v]
  BY <1>1 DEF TypeInv, CallInv
<1>3. /\ Holders' = IF c.at = "delete" THEN Holders \cup {w} ELSE Holders \ {w}
      /\ Handling' = IF c.at \in {"acquire", "delete"} THEN Handling \cup {w}
                                                       ELSE Handling \ {w}
  BY <1>1, <1>2 DEF Holders, Handling
<1>4. /\ w \in Holders <=> pc[w].at = "delete"
      /\ w \in Handling <=> pc[w].at \in {"acquire", "delete"}
  BY DEF Holders, Handling
<1>5. ASSUME NEW S, IsFiniteSet(S)
      PROVE  /\ Cardinality(S) \in Nat
             /\ Cardinality(S \cup {w}) = Cardinality(S) + (IF w \in S THEN 0 ELSE 1)
             /\ Cardinality(S \ {w}) = Cardinality(S) - (IF w \in S THEN 1 ELSE 0)
  BY <1>5, FS_CardinalityType, FS_AddElement, FS_RemoveElement
<1>6. Cardinality(Holders') = Cardinality(Holders)
         + (IF c.at = "delete" THEN 1 ELSE 0) - (IF pc[w].at = "delete" THEN 1 ELSE 0)
  <2>1. /\ Cardinality(Holders) \in Nat
        /\ Cardinality(Holders \cup {w})
              = Cardinality(Holders) + (IF w \in Holders THEN 0 ELSE 1)
        /\ Cardinality(Holders \ {w}) = Cardinality(Holders) - (IF w \in Holders THEN 1 ELSE 0)
    BY <1>5, SetsAreFinite
  <2> QED
    BY <1>3, <1>4, <2>1
<1>7. Cardinality(Handling') = Cardinality(Handling)
         + (IF c.at \in {"acquire", "delete"} THEN 1 ELSE 0)
         - (IF pc[w].at \in {"acquire", "delete"} THEN 1 ELSE 0)
  <2>1. /\ Cardinality(Handling) \in Nat
        /\ Cardinality(Handling \cup {w})
              = Cardinality(Handling) + (IF w \in Handling THEN 0 ELSE 1)
        /\ Cardinality(Handling \ {w})
              = Cardinality(Handling) - (IF w \in Handling THEN 1 ELSE 0)
    BY <1>5, SetsAreFinite
  <2> QED
    BY <1>3, <1>4, <2>1
<1> QED
  BY <1>1, <1>2, <1>6, <1>7

\* Nobody else changes who handles what.
LEMMA OtherMoves ==
    ASSUME TypeInv, NEW t \in Threads \ FileWorkers, NEW c, pc' = [pc EXCEPT ![t] = c]
    PROVE  /\ Holders' = Holders /\ Handling' = Handling
           /\ \A w \in FileWorkers : pc'[w] = pc[w]
           /\ pc'[t] = c
           /\ t # Coordinator => pc'[Coordinator] = pc[Coordinator]
<1>1. /\ pc'[t] = c
      /\ \A w \in FileWorkers : pc'[w] = pc[w]
      /\ t # Coordinator => pc'[Coordinator] = pc[Coordinator]
  BY CoordinatorIsAThread DEF TypeInv, CallInv, Threads
<1> QED
  BY <1>1 DEF Holders, Handling

\* The counters and the sums are numbers.
LEMMA CountsAreNumbers ==
    ASSUME TypeInv
    PROVE  /\ \A f \in FileFields : metrics[f] \in Nat
           /\ metrics.files_scanned \in Nat /\ Settled \in Nat
           /\ Len(fileQ) \in Nat /\ AtHand \in Nat
           /\ Cardinality(Holders) \in Nat /\ Cardinality(Handling) \in Nat
<1>1. FileFields \subseteq DOMAIN NoMetrics
  BY Fields DEF FileFields
<1>2. \A f \in FileFields : metrics[f] \in Nat
  BY <1>1 DEF TypeInv, MetricsInv
<1>3. metrics.files_scanned \in Nat /\ Settled \in Nat
  BY <1>2 DEF FileFields, Settled
<1> QED
  BY <1>2, <1>3, SetsAreFinite DEF TypeInv, FileQInv, AtHand

\* Thread t goes on to a step.
MovesTo(t, step) == \E c : pc' = [pc EXCEPT ![t] = c] /\ c.at = step

\* Each way of going on moves the thread to the step it names.
LEMMA Moves ==
    ASSUME NEW t, NEW n
    PROVE  /\ \A step : Goto(t, step, n) => MovesTo(t, step)
           /\ \A still : Complete(t, n, still) => MovesTo(t, "complete")
           /\ Return(t) => MovesTo(t, "recv")
<1>1. ASSUME NEW step, NEW still,
             pc' = [pc EXCEPT ![t] = [at |-> step, node |-> n, still |-> still]]
      PROVE  MovesTo(t, step)
  <2> DEFINE c == [at |-> step, node |-> n, still |-> still]
  <2>1. pc' = [pc EXCEPT ![t] = c] /\ c.at = step
    BY <1>1
  <2> HIDE DEF c
  <2> QED
    BY <2>1 DEF MovesTo
<1>2. Return(t) => MovesTo(t, "recv")
  BY Idling DEF Return, MovesTo
<1> QED
  BY <1>1, <1>2 DEF Goto, Complete

\* What a file worker's step does to the counts.
LEMMA WorkerCounts ==
    ASSUME TypeInv, NEW w \in FileWorkers, NEW step, MovesTo(w, step)
    PROVE  /\ pc[w].at \notin Working /\ step \notin Working =>
                 /\ Cardinality(Holders') = Cardinality(Holders)
                 /\ Cardinality(Handling') = Cardinality(Handling)
           /\ pc[w].at = "recv" /\ step = "acquire" =>
                 /\ Cardinality(Holders') = Cardinality(Holders)
                 /\ Cardinality(Handling') = Cardinality(Handling) + 1
           /\ pc[w].at = "acquire" /\ step = "delete" =>
                 /\ Cardinality(Holders') = Cardinality(Holders) + 1
                 /\ Cardinality(Handling') = Cardinality(Handling)
           /\ pc[w].at = "delete" /\ step = "complete" =>
                 /\ Cardinality(Holders') = Cardinality(Holders) - 1
                 /\ Cardinality(Handling') = Cardinality(Handling) - 1
           /\ pc'[w].at = step /\ \A v \in FileWorkers : v # w => pc'[v] = pc[v]
           /\ AtHand' = AtHand /\ (FileTxDropped' <=> FileTxDropped) /\ (Done' <=> Done)
<1>1. PICK c : pc' = [pc EXCEPT ![w] = c] /\ c.at = step
  BY DEF MovesTo
<1>2. /\ Cardinality(Holders') = Cardinality(Holders)
            + (IF step = "delete" THEN 1 ELSE 0)
            - (IF pc[w].at = "delete" THEN 1 ELSE 0)
      /\ Cardinality(Handling') = Cardinality(Handling)
            + (IF step \in {"acquire", "delete"} THEN 1 ELSE 0)
            - (IF pc[w].at \in {"acquire", "delete"} THEN 1 ELSE 0)
  BY <1>1, WorkerMoves
<1>3. /\ pc'[Coordinator] = pc[Coordinator]
      /\ pc'[w] = c /\ \A v \in FileWorkers : v # w => pc'[v] = pc[v]
  BY <1>1, WorkerMoves
<1>4. AtHand' = AtHand /\ (FileTxDropped' <=> FileTxDropped) /\ (Done' <=> Done)
  BY <1>3 DEF AtHand, FileTxDropped, Done, At
<1>5. pc[w].at \notin Working /\ step \notin Working =>
         /\ Cardinality(Holders') = Cardinality(Holders)
         /\ Cardinality(Handling') = Cardinality(Handling)
  BY <1>2, CountsAreNumbers DEF Working
<1>6. pc[w].at = "recv" /\ step = "acquire" =>
         /\ Cardinality(Holders') = Cardinality(Holders)
         /\ Cardinality(Handling') = Cardinality(Handling) + 1
  BY <1>2, CountsAreNumbers
<1>7. pc[w].at = "acquire" /\ step = "delete" =>
         /\ Cardinality(Holders') = Cardinality(Holders) + 1
         /\ Cardinality(Handling') = Cardinality(Handling)
  BY <1>2, CountsAreNumbers
<1>8. pc[w].at = "delete" /\ step = "complete" =>
         /\ Cardinality(Holders') = Cardinality(Holders) - 1
         /\ Cardinality(Handling') = Cardinality(Handling) - 1
  BY <1>2, CountsAreNumbers
<1> QED
  BY <1>1, <1>3, <1>4, <1>5, <1>6, <1>7, <1>8

\* A step of a thread that takes no file up and puts none down.
LEMMA QuietMove ==
    ASSUME TypeInv, CountsInv, NEW t \in Threads, NEW step, MovesTo(t, step),
           pc[t].at \notin Working \cup {"exited"}, step \notin Working,
           t \in FileWorkers => step # "exited",
           t = Coordinator => step # "done" /\ (pc[t].at \in Closing => step \in Closing),
           UNCHANGED <<granted, fileQ>>, \A f \in FileFields : metrics'[f] = metrics[f]
    PROVE  CountsInv'
<1>1. Settled' = Settled /\ metrics'.files_scanned = metrics.files_scanned
  BY DEF Settled, FileFields
<1>2. CASE t \in FileWorkers
  <2>1. /\ Cardinality(Holders') = Cardinality(Holders)
        /\ Cardinality(Handling') = Cardinality(Handling)
        /\ pc'[t].at = step /\ \A v \in FileWorkers : v # t => pc'[v] = pc[v]
        /\ AtHand' = AtHand /\ (FileTxDropped' <=> FileTxDropped) /\ (Done' <=> Done)
    BY <1>2, WorkerCounts
  <2>2. ~ Done
    BY <1>2 DEF CountsInv, LeavingIsSound
  <2> QED
    BY <1>1, <1>2, <2>1, <2>2 DEF CountsInv, PermitsAreHeld, FilesAddUp, LeavingIsSound
<1>3. CASE t \notin FileWorkers
  <2>1. PICK c : pc' = [pc EXCEPT ![t] = c] /\ c.at = step
    BY DEF MovesTo
  <2>2. /\ Holders' = Holders /\ Handling' = Handling
        /\ \A w \in FileWorkers : pc'[w] = pc[w]
        /\ pc'[t].at = step
        /\ t # Coordinator => pc'[Coordinator] = pc[Coordinator]
    BY <1>3, <2>1, OtherMoves
  <2>3. AtHand' = AtHand
    BY <2>2 DEF AtHand, Working
  <2>4. (FileTxDropped => FileTxDropped') /\ (Done' => Done)
    BY <2>2 DEF FileTxDropped, Done, At, Closing
  <2> QED
    BY <1>1, <2>2, <2>3, <2>4 DEF CountsInv, PermitsAreHeld, FilesAddUp, LeavingIsSound
<1> QED
  BY <1>2, <1>3

\* Nobody moves: the sums stand.
LEMMA StandingStill ==
    ASSUME CountsInv, UNCHANGED <<pc, granted, fileQ>>,
           \A f \in FileFields : metrics'[f] = metrics[f]
    PROVE  CountsInv'
<1>1. /\ Holders' = Holders /\ Handling' = Handling /\ AtHand' = AtHand
      /\ Settled' = Settled /\ metrics'.files_scanned = metrics.files_scanned
      /\ (FileTxDropped' <=> FileTxDropped) /\ (Done' <=> Done)
  BY DEF Holders, Handling, AtHand, Settled, FileFields, FileTxDropped, Done, At
<1> QED
  BY <1>1 DEF CountsInv, PermitsAreHeld, FilesAddUp, LeavingIsSound

\* At the start there is nothing to count.
LEMMA InitCounts == Init => CountsInv
<1> SUFFICES ASSUME Init PROVE CountsInv
  OBVIOUS
<1>1. \A t \in Threads : pc[t].at = "recv"
  BY DEF Init, Idle
<1>2. Holders = {} /\ Handling = {} /\ AtHand = 0 /\ ~ Done
      /\ \A w \in FileWorkers : pc[w].at # "exited"
  BY <1>1, CoordinatorIsAThread DEF Holders, Handling, AtHand, Done, At, Threads
<1>3. Len(fileQ) = 0 /\ granted = 0 /\ Settled = 0 /\ metrics.files_scanned = 0
  BY DEF Init, Settled, NoMetrics
<1> QED
  BY <1>2, <1>3, FS_EmptySet DEF CountsInv, PermitsAreHeld, FilesAddUp, LeavingIsSound

\* A file is settled.
LEMMA Settling ==
    ASSUME TypeInv, NEW f \in FileFields \ {"files_scanned"}, Count(f)
    PROVE  Settled' = Settled + 1 /\ metrics'.files_scanned = metrics.files_scanned
<1>1. \A g \in FileFields : metrics'[g] = metrics[g] + (IF g = f THEN 1 ELSE 0)
  BY Counting, Fields DEF TypeInv, FileFields
<1>2. \A g \in FileFields : metrics[g] \in Nat
  BY CountsAreNumbers
<1>3. CASE f = "files_deleted"
  <2>1. /\ metrics'.files_deleted = metrics.files_deleted + 1
        /\ metrics'.files_retained = metrics.files_retained
        /\ metrics'.file_failures = metrics.file_failures
        /\ metrics'.files_scanned = metrics.files_scanned
    BY <1>1, <1>2, <1>3 DEF FileFields
  <2> QED
    BY <1>2, <2>1 DEF Settled, FileFields
<1>4. CASE f = "files_retained"
  <2>1. /\ metrics'.files_deleted = metrics.files_deleted
        /\ metrics'.files_retained = metrics.files_retained + 1
        /\ metrics'.file_failures = metrics.file_failures
        /\ metrics'.files_scanned = metrics.files_scanned
    BY <1>1, <1>2, <1>4 DEF FileFields
  <2> QED
    BY <1>2, <2>1 DEF Settled, FileFields
<1>5. CASE f = "file_failures"
  <2>1. /\ metrics'.files_deleted = metrics.files_deleted
        /\ metrics'.files_retained = metrics.files_retained
        /\ metrics'.file_failures = metrics.file_failures + 1
        /\ metrics'.files_scanned = metrics.files_scanned
    BY <1>1, <1>2, <1>5 DEF FileFields
  <2> QED
    BY <1>2, <2>1 DEF Settled, FileFields
<1> QED
  BY <1>3, <1>4, <1>5 DEF FileFields

\* The calls of the tracker are quiet.
LEMMA TrackerCounts ==
    ASSUME TypeInv, CountsInv, NEW t \in Threads, TrackerCall(t)
    PROVE  CountsInv'
<1>1. /\ pc[t].at \in {"complete", "try_finalise", "send"}
      /\ UNCHANGED <<granted, fileQ, metrics>>
  BY DEF TrackerCall, CompleteChild, TryFinalise, SendReady, At, semVars, queueVars
<1>2. \E step \in {"recv", "try_finalise", "send"} : MovesTo(t, step)
  <2>1. CASE CompleteChild(t)
    BY <2>1, Moves DEF CompleteChild
  <2>2. CASE TryFinalise(t)
    <3>1. CASE pc' = [pc EXCEPT ![t] = [at |-> "send", node |-> pc[t].node,
                                        still |-> tracker[pc[t].node].still_present]]
      <4>1. PICK c : c = [at |-> "send", node |-> pc[t].node,
                          still |-> tracker[pc[t].node].still_present]
        OBVIOUS
      <4>2. pc' = [pc EXCEPT ![t] = c] /\ c.at = "send"
        BY <3>1, <4>1
      <4> QED
        BY <4>2 DEF MovesTo
    <3>2. CASE Return(t)
      BY <3>2, Moves
    <3> QED
      BY <2>2, <3>1, <3>2 DEF TryFinalise
  <2>3. CASE SendReady(t)
    BY <2>3, Moves DEF SendReady
  <2> QED
    BY <2>1, <2>2, <2>3 DEF TrackerCall
<1> QED
  BY <1>1, <1>2, QuietMove DEF Working, Closing

\* The sums after a step of the coordinator.
LEMMA CoordinatorCounts ==
    ASSUME TypeInv, CountsInv,
           \/ CoordinatorEvent \/ CoordinatorDecide \/ CoordinatorEnqueue
           \/ CoordinatorEnd \/ Sample \/ RootIsDone \/ Join
    PROVE  CountsInv'
<1> DEFINE t == Coordinator
<1>1. t \in Threads \ FileWorkers
  BY CoordinatorIsAThread, PipelineAssumption
<1>2. FileFields \subseteq DOMAIN NoMetrics /\ MetricsInv
  BY Fields DEF FileFields, TypeInv
<1>3. ASSUME NEW step, MovesTo(t, step)
      PROVE  /\ Holders' = Holders /\ Handling' = Handling /\ pc'[t].at = step
             /\ \A w \in FileWorkers : pc'[w] = pc[w]
  BY <1>1, <1>3, OtherMoves DEF MovesTo
<1>4. CASE CoordinatorDirectory /\ CoordinatorEvent
  <2>1. UNCHANGED <<pc, granted, fileQ>> /\ Count("dirs_scanned")
    BY <1>4 DEF CoordinatorDirectory, CoordinatorEvent, semVars
  <2>2. \A f \in FileFields : metrics'[f] = metrics[f]
    BY <1>2, <2>1, Counting, Fields, CountsAreNumbers DEF FileFields
  <2> QED
    BY <2>1, <2>2, StandingStill
<1>5. CASE CoordinatorListError /\ CoordinatorEvent
  <2>1. UNCHANGED <<pc, granted, fileQ>> /\ Count("list_failures")
    BY <1>5 DEF CoordinatorListError, CoordinatorEvent, semVars
  <2>2. \A f \in FileFields : metrics'[f] = metrics[f]
    BY <1>2, <2>1, Counting, Fields, CountsAreNumbers DEF FileFields
  <2> QED
    BY <2>1, <2>2, StandingStill
<1>6. CASE CoordinatorListed /\ CoordinatorEvent
  <2>1. UNCHANGED <<granted, fileQ, metrics>> /\ pc[t].at = "recv"
    BY <1>6 DEF CoordinatorListed, CoordinatorEvent, ReceiveEvent, At, semVars
  <2>2. UNCHANGED pc \/ MovesTo(t, "try_finalise")
    BY <1>6, Moves DEF CoordinatorListed
  <2> QED
    BY <1>1, <2>1, <2>2, QuietMove, StandingStill DEF Working, Closing
<1>7. CASE CoordinatorLeaf /\ CoordinatorEvent
  <2>1. /\ pc[t].at = "recv" /\ UNCHANGED <<granted, fileQ>> /\ Count("files_scanned")
        /\ MovesTo(t, "decide")
    BY <1>7, Moves DEF CoordinatorLeaf, CoordinatorEvent, ReceiveEvent, At, semVars
  <2>2. /\ Holders' = Holders /\ Handling' = Handling /\ pc'[t].at = "decide"
        /\ \A w \in FileWorkers : pc'[w] = pc[w]
    BY <1>3, <2>1
  <2>3. AtHand = 0 /\ AtHand' = 1
    BY <2>1, <2>2 DEF AtHand
  <2>4. Settled' = Settled /\ metrics'.files_scanned = metrics.files_scanned + 1
    BY <1>2, <2>1, Counting, Fields, CountsAreNumbers DEF FileFields, Settled
  <2>5. ~ FileTxDropped /\ ~ Done'
    BY <2>1, <2>2 DEF FileTxDropped, Done, At
  <2>6. FilesAddUp'
    BY <2>1, <2>2, <2>3, <2>4, CountsAreNumbers DEF CountsInv, FilesAddUp
  <2> QED
    BY <2>1, <2>2, <2>5, <2>6 DEF CountsInv, PermitsAreHeld, LeavingIsSound
<1>8. CASE CoordinatorDecide
  <2>1. /\ pc[t].at = "decide" /\ UNCHANGED <<granted, fileQ>>
    BY <1>8 DEF CoordinatorDecide, At, semVars, queueVars
  <2>2. PICK step \in {"complete", "enqueue"}, f \in {"files_retained", "files_deleted", "none"} :
           /\ MovesTo(t, step)
           /\ \/ f # "none" /\ step = "complete" /\ Count(f)
              \/ f = "none" /\ step = "enqueue" /\ UNCHANGED metrics
    BY <1>8, Moves DEF CoordinatorDecide
  <2>3. /\ Holders' = Holders /\ Handling' = Handling /\ pc'[t].at = step
        /\ \A w \in FileWorkers : pc'[w] = pc[w]
    BY <1>3, <2>2
  <2>4. AtHand = 1 /\ AtHand' = IF f = "none" THEN 1 ELSE 0
    BY <2>1, <2>2, <2>3 DEF AtHand
  <2>5. /\ Settled' = Settled + (IF f = "none" THEN 0 ELSE 1)
        /\ metrics'.files_scanned = metrics.files_scanned
    <3>1. CASE f = "none"
      BY <2>2, <3>1, CountsAreNumbers DEF Settled, FileFields
    <3>2. CASE f # "none"
      <4>1. f \in FileFields \ {"files_scanned"} /\ Count(f)
        BY <2>2, <3>2 DEF FileFields
      <4> QED
        BY <3>2, <4>1, Settling
    <3> QED
      BY <3>1, <3>2
  <2>6. ~ FileTxDropped /\ ~ Done'
    BY <2>1, <2>2, <2>3 DEF FileTxDropped, Done, At
  <2>7. FilesAddUp'
    BY <2>1, <2>3, <2>4, <2>5, CountsAreNumbers DEF CountsInv, FilesAddUp
  <2> QED
    BY <2>1, <2>3, <2>6, <2>7 DEF CountsInv, PermitsAreHeld, LeavingIsSound
<1>9. CASE CoordinatorEnqueue
  <2>1. /\ pc[t].at = "enqueue" /\ UNCHANGED <<granted, metrics>>
        /\ fileQ' = Append(fileQ, pc[t].node) /\ MovesTo(t, "recv")
    BY <1>9, Moves DEF CoordinatorEnqueue, At, semVars
  <2>2. /\ Holders' = Holders /\ Handling' = Handling /\ pc'[t].at = "recv"
        /\ \A w \in FileWorkers : pc'[w] = pc[w]
    BY <1>3, <2>1
  <2>3. AtHand = 1 /\ AtHand' = 0
    BY <2>1, <2>2 DEF AtHand
  <2>4. Len(fileQ') = Len(fileQ) + 1
    BY <2>1 DEF TypeInv, FileQInv
  <2>5. Settled' = Settled /\ metrics'.files_scanned = metrics.files_scanned
    BY <2>1 DEF Settled
  <2>6. ~ FileTxDropped /\ ~ Done'
    BY <2>1, <2>2 DEF FileTxDropped, Done, At
  <2>7. FilesAddUp'
    BY <2>2, <2>3, <2>4, <2>5, CountsAreNumbers DEF CountsInv, FilesAddUp
  <2> QED
    BY <2>1, <2>2, <2>6, <2>7 DEF CountsInv, PermitsAreHeld, LeavingIsSound
<1>10. CASE CoordinatorEnd \/ RootIsDone
  <2>1. /\ pc[t].at \in {"recv", "wait"} /\ UNCHANGED <<granted, fileQ, metrics>>
        /\ MovesTo(t, "wait") \/ MovesTo(t, "join")
    BY <1>10, Moves DEF CoordinatorEnd, RootIsDone, At, semVars, queueVars
  <2> QED
    BY <1>1, <2>1, QuietMove DEF Working, Closing
<1>11. CASE Sample
  BY <1>11, StandingStill DEF Sample, queueVars
<1>12. CASE Join
  <2>1. /\ pc[t].at = "join" /\ UNCHANGED <<granted, fileQ, metrics>>
        /\ MovesTo(t, "done")
        /\ \A w \in FileWorkers : pc[w].at = "exited"
    BY <1>1, <1>12, Moves DEF Join, At, Threads, semVars, queueVars
  <2>2. /\ Holders' = Holders /\ Handling' = Handling /\ pc'[t].at = "done"
        /\ \A w \in FileWorkers : pc'[w] = pc[w]
    BY <1>3, <2>1
  <2>3. AtHand' = AtHand /\ FileTxDropped' /\ FileTxDropped
    BY <2>1, <2>2 DEF AtHand, FileTxDropped
  <2> QED
    BY <2>1, <2>2, <2>3
       DEF CountsInv, PermitsAreHeld, FilesAddUp, LeavingIsSound, Settled
<1> QED
  BY <1>4, <1>5, <1>6, <1>7, <1>8, <1>9, <1>10, <1>11, <1>12 DEF CoordinatorEvent

\* The sums after a step of a file worker.
LEMMA FileCounts ==
    ASSUME TypeInv, CountsInv, NEW w \in FileWorkers,
           FileReceive(w) \/ FileAcquire(w) \/ FileDelete(w) \/ FileExit(w)
    PROVE  CountsInv'
<1>1. ~ Done
  BY DEF CountsInv, LeavingIsSound, FileReceive, FileAcquire, FileDelete, FileExit, At
<1>2. CASE FileReceive(w)
  <2>1. /\ pc[w].at = "recv" /\ fileQ # <<>> /\ fileQ' = Tail(fileQ)
        /\ UNCHANGED <<granted, metrics>>
        /\ MovesTo(w, "acquire")
    BY <1>2, Moves DEF FileReceive, At, semVars
  <2>2. Len(fileQ') = Len(fileQ) - 1
    BY <2>1, Dequeueing DEF TypeInv, FileQInv
  <2>3. /\ Cardinality(Holders') = Cardinality(Holders)
        /\ Cardinality(Handling') = Cardinality(Handling) + 1
        /\ pc'[w].at = "acquire" /\ \A v \in FileWorkers : v # w => pc'[v] = pc[v]
        /\ AtHand' = AtHand /\ (FileTxDropped' <=> FileTxDropped) /\ (Done' <=> Done)
    BY <2>1, WorkerCounts
  <2>4. FilesAddUp'
    <3>1. Settled' = Settled /\ metrics'.files_scanned = metrics.files_scanned
      BY <2>1 DEF Settled
    <3> QED
      BY <2>2, <2>3, <3>1, CountsAreNumbers DEF CountsInv, FilesAddUp
  <2> QED
    BY <1>1, <2>1, <2>3, <2>4 DEF CountsInv, PermitsAreHeld, LeavingIsSound
<1>3. CASE FileAcquire(w)
  <2>1. /\ pc[w].at = "acquire" /\ granted' = granted + 1 /\ UNCHANGED <<fileQ, metrics>>
        /\ MovesTo(w, "delete")
    BY <1>3, Moves DEF FileAcquire, At, queueVars
  <2>2. /\ Cardinality(Holders') = Cardinality(Holders) + 1
        /\ Cardinality(Handling') = Cardinality(Handling)
        /\ pc'[w].at = "delete" /\ \A v \in FileWorkers : v # w => pc'[v] = pc[v]
        /\ AtHand' = AtHand /\ (FileTxDropped' <=> FileTxDropped) /\ (Done' <=> Done)
    BY <2>1, WorkerCounts
  <2> QED
    BY <1>1, <2>1, <2>2 DEF CountsInv, PermitsAreHeld, FilesAddUp, Settled, LeavingIsSound
<1>4. CASE FileDelete(w)
  <2>1. /\ pc[w].at = "delete" /\ granted' = granted - 1 /\ UNCHANGED fileQ
    BY <1>4 DEF FileDelete, At, queueVars
  <2>2. MovesTo(w, "complete") /\ \E f \in {"files_deleted", "file_failures"} : Count(f)
    BY <1>4, Moves DEF FileDelete
  <2>3. /\ Cardinality(Holders') = Cardinality(Holders) - 1
        /\ Cardinality(Handling') = Cardinality(Handling) - 1
        /\ pc'[w].at = "complete" /\ \A v \in FileWorkers : v # w => pc'[v] = pc[v]
        /\ AtHand' = AtHand /\ (FileTxDropped' <=> FileTxDropped) /\ (Done' <=> Done)
    BY <2>1, <2>2, WorkerCounts
  <2>4. Settled' = Settled + 1 /\ metrics'.files_scanned = metrics.files_scanned
    <3>1. PICK f \in {"files_deleted", "file_failures"} : Count(f)
      BY <2>2
    <3> QED
      BY <3>1, Settling DEF FileFields
  <2>5. FilesAddUp'
    BY <2>1, <2>3, <2>4, CountsAreNumbers DEF CountsInv, FilesAddUp
  <2> QED
    BY <1>1, <2>1, <2>3, <2>5 DEF CountsInv, PermitsAreHeld, LeavingIsSound
<1>5. CASE FileExit(w)
  <2>1. /\ pc[w].at = "recv" /\ fileQ = <<>> /\ FileTxDropped
        /\ UNCHANGED <<granted, fileQ, metrics>>
        /\ MovesTo(w, "exited")
    BY <1>5, Moves DEF FileExit, At, semVars, queueVars
  <2>2. /\ Cardinality(Holders') = Cardinality(Holders)
        /\ Cardinality(Handling') = Cardinality(Handling)
        /\ pc'[w].at = "exited" /\ \A v \in FileWorkers : v # w => pc'[v] = pc[v]
        /\ AtHand' = AtHand /\ (FileTxDropped' <=> FileTxDropped) /\ (Done' <=> Done)
    BY <2>1, WorkerCounts DEF Working
  <2> QED
    BY <1>1, <2>1, <2>2 DEF CountsInv, PermitsAreHeld, FilesAddUp, Settled, LeavingIsSound
<1> QED
  BY <1>2, <1>3, <1>4, <1>5

\* The sums after a step of a directory worker.
LEMMA DirCounts ==
    ASSUME TypeInv, CountsInv, NEW w \in DirWorkers, DirReceive(w) \/ DirAttempt(w) \/ DirExit(w)
    PROVE  CountsInv'
<1>1. w \in Threads \ FileWorkers /\ w # Coordinator
  BY PipelineAssumption DEF Threads
<1>2. UNCHANGED <<granted, fileQ>> /\ pc[w].at \in {"recv", "attempt"}
  BY DEF DirReceive, DirAttempt, DirExit, At, semVars, queueVars
<1>3. \A f \in FileFields : metrics'[f] = metrics[f]
  <2>1. \/ UNCHANGED metrics
        \/ \E g \in {"dirs_retained", "dirs_deleted", "dir_failures"} : Count(g)
    <3>1. CASE DirAttempt(w)
      BY <3>1 DEF DirAttempt, DirPreserveRoot, DirSimulate, DirDelete
    <3>2. CASE DirReceive(w) \/ DirExit(w)
      BY <3>2 DEF DirReceive, DirExit
    <3> QED
      BY <3>1, <3>2
  <2> QED
    BY <2>1, Counting, Fields, CountsAreNumbers DEF FileFields, TypeInv
<1>4. \E step \in {"recv", "attempt", "complete", "exited"} : MovesTo(w, step)
  <2>1. CASE DirAttempt(w)
    <3>1. \E n, still : Finish(w, n, still)
      BY <2>1 DEF DirAttempt, DirPreserveRoot, DirSimulate, DirDelete
    <3> QED
      BY <3>1, Moves DEF Finish
  <2>2. CASE DirReceive(w)
    <3>1. PICK c : c = [at |-> "attempt", node |-> Head(readyQ).dir,
                        still |-> Head(readyQ).simulated_non_empty]
      OBVIOUS
    <3>2. pc' = [pc EXCEPT ![w] = c] /\ c.at = "attempt"
      BY <2>2, <3>1 DEF DirReceive
    <3> QED
      BY <3>2 DEF MovesTo
  <2>3. CASE DirExit(w)
    BY <2>3, Moves DEF DirExit
  <2> QED
    BY <2>1, <2>2, <2>3
<1> QED
  BY <1>1, <1>2, <1>3, <1>4, QuietMove DEF Working

\* No step breaks the sums.
LEMMA CountsKept == TypeInv /\ CountsInv /\ [Next]_vars => CountsInv'
<1> SUFFICES ASSUME TypeInv, CountsInv, [Next]_vars PROVE CountsInv'
  OBVIOUS
<1>1. CASE Walk
  BY <1>1, StandingStill DEF Walk, semVars
<1>2. CASE Coordinate \/ Sample
  BY <1>2, CoordinatorCounts, TrackerCounts, CoordinatorIsAThread DEF Coordinate
<1>3. ASSUME NEW w \in FileWorkers, FileWorker(w) PROVE CountsInv'
  BY <1>3, FileCounts, TrackerCounts DEF FileWorker, Threads
<1>4. ASSUME NEW w \in DirWorkers, DirWorker(w) PROVE CountsInv'
  BY <1>4, DirCounts, TrackerCounts DEF DirWorker, Threads
<1>5. CASE Cancel \/ Meddle
  BY <1>5, StandingStill DEF Cancel, Meddle, semVars, queueVars
<1>6. CASE UNCHANGED vars
  BY <1>6, StandingStill DEF vars
<1> QED
  BY <1>1, <1>2, <1>3, <1>4, <1>5, <1>6 DEF Next

-----------------------------------------------------------------------------
(* The theorems. *)

IInv == TypeInv /\ StaysInv /\ CountsInv

\* The inductive invariant: what each thread and channel has hold of, what is
\* still in the tree, and where each file scanned is (pipeline.rs, walk.rs).
THEOREM Invariance == Spec => []IInv
<1>1. Init => IInv
  BY InitTypes, InitStays, InitCounts DEF IInv
<1>2. IInv /\ [Next]_vars => IInv'
  BY TypesKept, StaysKept, CountsKept DEF IInv
<1> QED
  BY <1>1, <1>2, PTL DEF Spec

\* Types, and the capacities of the three channels, for any number of threads
\* (pipeline.rs:30-32, 135-137).
THEOREM TypeCorrect == Spec => []TypeOK
<1>1. IInv => TypeOK
  <2> SUFFICES ASSUME IInv PROVE TypeOK
    OBVIOUS
  <2>1. job \in Jobs /\ fs \subseteq Nodes /\ meddling \in 0 .. MaxMeddling /\ cancel \in BOOLEAN
    BY DEF IInv, TypeInv, JobInv, FsInv
  <2>2. /\ walk.at \in {"pop", "entries", "error", "flush", "exited"}
        /\ walk.dir \in Dirs /\ walk.unsent \subseteq Nodes
        /\ \A i \in DOMAIN walk.stack : walk.stack[i] \in Dirs
    BY DEF IInv, TypeInv, WalkInv, WalkType
  <2>3. /\ Len(enumQ) <= EnumCap /\ Len(fileQ) <= FileCap /\ Len(readyQ) <= ReadyCap
        /\ rootDone \in 0 .. 1
    BY DEF IInv, TypeInv, WalkInv, FileQInv, ReadyQInv
  <2>4. granted \in Nat /\ capacity \in Capacities
    BY SetsAreFinite DEF IInv, TypeInv, CountsInv, PermitsAreHeld, CapacityInv
  <2> QED
    BY <2>1, <2>2, <2>3, <2>4
       DEF TypeOK, IInv, TypeInv, TrackerInv, CallInv, CallType, MetricsInv
<1> QED
  BY <1>1, Invariance, PTL

\* Whatever the tree, the schedule and the moment it is cancelled, a run deletes
\* neither what its filters retain nor a directory above it
\* (pipeline.rs:351-386, 596-609).
THEOREM RetainedStaysHolds == Spec => []RetainedStays
<1>1. IInv => RetainedStays
  BY DEF IInv, StaysInv, RetainedStays
<1> QED
  BY <1>1, Invariance, PTL

DryRunChangesNothing == meddling = 0 /\ job.dry_run => fs = job.tree

\* A dry run changes nothing, at any moment (pipeline.rs:365-371, 584-590).
THEOREM DryRunHolds == Spec => []DryRunChangesNothing
<1>1. IInv => DryRunChangesNothing
  BY DEF IInv, StaysInv, DryRunChangesNothing
<1> QED
  BY <1>1, Invariance, PTL

\* When run returns, each file scanned is deleted, retained or failed, once: no
\* file is left in a channel or with a thread, and none is counted twice
\* (pipeline.rs:143-149).
THEOREM FilesBalanceHolds == Spec => [](Done => FilesBalance)
<1>1. IInv => (Done => FilesBalance)
  <2> SUFFICES ASSUME IInv, Done PROVE FilesBalance
    OBVIOUS
  <2>1. \A w \in FileWorkers : pc[w].at = "exited" /\ fileQ = <<>>
    BY DEF IInv, CountsInv, LeavingIsSound
  <2>2. Handling = {} /\ fileQ = <<>>
    BY <2>1, PipelineAssumption DEF Handling
  <2>3. Cardinality(Handling) = 0 /\ Len(fileQ) = 0
    BY <2>2, FS_EmptySet
  <2>4. AtHand = 0
    BY DEF AtHand, Done, At
  <2> QED
    BY <2>3, <2>4, CountsAreNumbers
       DEF FilesBalance, IInv, CountsInv, FilesAddUp, Settled, FileFields
<1> QED
  BY <1>1, Invariance, PTL

\* A permit is taken out exactly while a file is being deleted, so no more files
\* are deleted at once than there are permits out (pipeline.rs:401-405).
THEOREM PermitsHold == Spec => []PermitsAreHeld
<1>1. IInv => PermitsAreHeld
  BY DEF IInv, CountsInv
<1> QED
  BY <1>1, Invariance, PTL

-----------------------------------------------------------------------------
(* Where everything is: the invariant of the walk, the events, the threads *)
(* and the tracker's map.                                                  *)

\* Event e is among the first i - 1 of the channel.
SentBefore(i, e) == \E j \in 1 .. Len(enumQ) : j < i /\ enumQ[j] = e

\* Entry n is found, or directory d listed to its end, once the coordinator has
\* received the first i - 1 events.
FoundBy(i, n) == n \in progress.discovered \/ SentBefore(i, Event("entry", n))
EndedBy(i, d) == d \in progress.listed \/ SentBefore(i, Event("complete", d))
Found(n) == FoundBy(Len(enumQ) + 1, n)
Ended(d) == EndedBy(Len(enumQ) + 1, d)
ErrorSent(d) == \E i \in 1 .. Len(enumQ) : enumQ[i] = Event("error", d)

\* The events come in an order the tracker can follow: a directory before what is
\* in it, its end after that, and nothing twice.
EventOK(i) ==
    LET n == enumQ[i].node
    IN  /\ enumQ[i].kind = "entry" =>
              /\ ~ FoundBy(i, n)
              /\ FoundBy(i, Parent[n])
              /\ ~ EndedBy(i, Parent[n])
        /\ enumQ[i].kind # "entry" => FoundBy(i, n) /\ ~ EndedBy(i, n)
EventsInv == \A i \in 1 .. Len(enumQ) : EventOK(i)

\* A directory on the stack has been announced and nothing in it yet; the one
\* being listed has been announced, and not its end.
Stacked(d) == \E i \in 1 .. Len(walk.stack) : walk.stack[i] = d
StackOK(d) ==
    /\ Found(d) /\ ~ Ended(d)
    /\ \A n \in Nodes \ {Root} : Parent[n] = d => ~ Found(n)
StackInv ==
    /\ \A i, j \in 1 .. Len(walk.stack) : walk.stack[i] = walk.stack[j] => i = j
    /\ \A d \in Dirs : Stacked(d) => StackOK(d)
ListingInv ==
    /\ walk.at \in {"entries", "error"} =>
          Found(walk.dir) /\ ~ Ended(walk.dir) /\ ~ Stacked(walk.dir)
    /\ walk.unsent # {} => walk.at = "entries"
    /\ \A n \in walk.unsent : Parent[n] = walk.dir /\ ~ Found(n)

\* What the coordinator has been told hangs together.
ProgressInv ==
    /\ progress \in [discovered : SUBSET Nodes, listed : SUBSET Dirs,
                     resolved : SUBSET (Nodes \ {Root}), sent : [Dirs -> Nat]]
    /\ IsFiniteSet(progress.discovered)
    /\ Root \in progress.discovered
    /\ \A n \in progress.discovered \ {Root} : Parent[n] \in progress.discovered
    /\ progress.listed \subseteq progress.discovered
    /\ progress.resolved \subseteq progress.discovered

\* The entries found in d that are not done with.
FoundIn(d) == {n \in progress.discovered \ {Root} : Parent[n] = d}
Outstanding(d) == FoundIn(d) \ progress.resolved
Open == progress.discovered \ progress.resolved

\* Between these steps a thread has an entry to itself.
Holding == {"decide", "enqueue", "acquire", "delete", "attempt", "complete", "send"}
Holds(t, n) == pc[t].at \in Holding /\ pc[t].node = n

ThreadOK(t) ==
    LET n == pc[t].node
    IN  /\ pc[t].at \in Holding => n \in Open
        /\ pc[t].at = "complete" /\ n \in Dirs =>
              progress.sent[n] = 1 /\ ~ Tracked(tracker, n)
        /\ pc[t].at = "attempt" => progress.sent[n] = 1 /\ Tracked(tracker, n)
        /\ pc[t].at = "send" =>
              progress.sent[n] = 0 /\ Tracked(tracker, n) /\ tracker[n].finalised
        /\ pc[t].at = "try_finalise" => n \in progress.listed /\ Outstanding(n) = {}
ThreadsInv == \A t \in Threads : ThreadOK(t)
UniqueInv == \A t, u \in Threads, n \in Nodes : Holds(t, n) /\ Holds(u, n) => t = u

\* What is in a channel is not done with, is there once, and nobody holds it.
FilesQueued ==
    /\ \A i \in 1 .. Len(fileQ) : /\ fileQ[i] \in Open
                                  /\ \A t \in Threads : ~ Holds(t, fileQ[i])
    /\ \A i, j \in 1 .. Len(fileQ) : fileQ[i] = fileQ[j] => i = j
DirsQueued ==
    /\ \A i \in 1 .. Len(readyQ) :
          LET d == readyQ[i].dir
          IN  /\ d \in Open /\ progress.sent[d] = 1 /\ Tracked(tracker, d)
              /\ \A t \in Threads : ~ Holds(t, d)
    /\ \A i, j \in 1 .. Len(readyQ) : readyQ[i].dir = readyQ[j].dir => i = j

DirOK(d) ==
    /\ progress.sent[d] <= 1
    /\ progress.sent[d] = 1 =>
          /\ d \in progress.listed /\ Outstanding(d) = {}
          /\ Tracked(tracker, d) => tracker[d].finalised
    /\ d \in progress.discovered /\ ~ Tracked(tracker, d) => progress.sent[d] = 1
    /\ d \in progress.resolved => ~ Tracked(tracker, d)
    /\ Tracked(tracker, d) =>
          /\ d \in progress.discovered
          /\ tracker[d].enumeration_done <=> d \in progress.listed
          /\ tracker[d].finalised => d \in progress.listed /\ Outstanding(d) = {}
          /\ tracker[d].pending = Cardinality(Outstanding(d))
DirsInv == \A d \in Dirs : DirOK(d)

RootInv == rootDone > 0 \/ Shutdown => ~ Tracked(tracker, Root)

OrderInv ==
    /\ EventsInv /\ StackInv /\ ListingInv /\ ProgressInv /\ ThreadsInv /\ UniqueInv
    /\ FilesQueued /\ DirsQueued /\ DirsInv /\ RootInv

-----------------------------------------------------------------------------
(* The channel of events. *)

\* An event is its kind and its node.
LEMMA Events ==
    /\ \A k1, k2, n1, n2 : Event(k1, n1) = Event(k2, n2) <=> k1 = k2 /\ n1 = n2
    /\ \A k, n : Event(k, n).kind = k /\ Event(k, n).node = n
    /\ \A e \in EventType : e = Event(e.kind, e.node)
<1>1. \A k, n : Event(k, n).kind = k /\ Event(k, n).node = n
  BY DEF Event
<1>2. \A e \in EventType : e = Event(e.kind, e.node)
  BY DEF Event, EventType
<1> QED
  BY <1>1, <1>2

\* An event is sent.
LEMMA Sending ==
    ASSUME enumQ \in Seq(EventType), NEW e \in EventType, Send(e), UNCHANGED progress
    PROVE  /\ Len(enumQ) \in Nat /\ Len(enumQ') = Len(enumQ) + 1
           /\ \A i \in 1 .. Len(enumQ) : enumQ'[i] = enumQ[i]
           /\ enumQ'[Len(enumQ) + 1] = e
           /\ \A i \in 1 .. Len(enumQ) + 1 :
                 \A x : SentBefore(i, x)' <=> SentBefore(i, x)
           /\ \A n : Found(n)' <=> Found(n) \/ e = Event("entry", n)
           /\ \A d : Ended(d)' <=> Ended(d) \/ e = Event("complete", d)
           /\ \A d : ErrorSent(d)' <=> ErrorSent(d) \/ e = Event("error", d)
<1>1. /\ Len(enumQ) \in Nat /\ Len(enumQ') = Len(enumQ) + 1
      /\ \A i \in 1 .. Len(enumQ) : enumQ'[i] = enumQ[i]
      /\ enumQ'[Len(enumQ) + 1] = e
  BY DEF Send
<1>2. ASSUME NEW i \in 1 .. Len(enumQ) + 1, NEW x
      PROVE  SentBefore(i, x)' <=> SentBefore(i, x)
  BY <1>1 DEF SentBefore
<1>3. ASSUME NEW x
      PROVE  SentBefore(Len(enumQ) + 1, x)' <=> SentBefore(Len(enumQ) + 1, x) \/ e = x
  BY <1>1 DEF SentBefore
<1>4. \A n : Found(n)' <=> Found(n) \/ e = Event("entry", n)
  BY <1>3 DEF Found, FoundBy
<1>5. \A d : Ended(d)' <=> Ended(d) \/ e = Event("complete", d)
  BY <1>3 DEF Ended, EndedBy
<1>6. \A d : ErrorSent(d)' <=> ErrorSent(d) \/ e = Event("error", d)
  BY <1>1 DEF ErrorSent
<1> QED
  BY <1>1, <1>2, <1>4, <1>5, <1>6

\* It keeps the order if it is in order itself.
LEMMA EventsAfterSending ==
    ASSUME enumQ \in Seq(EventType), EventsInv, NEW e \in EventType, Send(e),
           UNCHANGED progress,
           e.kind = "entry" =>
               ~ Found(e.node) /\ Found(Parent[e.node]) /\ ~ Ended(Parent[e.node]),
           e.kind # "entry" => Found(e.node) /\ ~ Ended(e.node)
    PROVE  EventsInv'
<1>1. /\ Len(enumQ) \in Nat /\ Len(enumQ') = Len(enumQ) + 1
      /\ \A i \in 1 .. Len(enumQ) : enumQ'[i] = enumQ[i]
      /\ enumQ'[Len(enumQ) + 1] = e
      /\ \A i \in 1 .. Len(enumQ) + 1 :
            \A x : SentBefore(i, x)' <=> SentBefore(i, x)
  BY Sending
<1>2. \A i \in 1 .. Len(enumQ) + 1 : \A n : /\ FoundBy(i, n)' <=> FoundBy(i, n)
                                            /\ EndedBy(i, n)' <=> EndedBy(i, n)
  BY <1>1 DEF FoundBy, EndedBy
<1> SUFFICES ASSUME NEW i \in 1 .. Len(enumQ')
             PROVE  EventOK(i)'
  BY DEF EventsInv
<1>3. CASE i \in 1 .. Len(enumQ)
  BY <1>1, <1>2, <1>3 DEF EventsInv, EventOK
<1>4. CASE i = Len(enumQ) + 1
  BY <1>1, <1>2, <1>4 DEF EventOK, Found, Ended
<1> QED
  BY <1>1, <1>3, <1>4

\* The coordinator receives an event, and knows then what it says.
LEMMA Receiving ==
    ASSUME enumQ \in Seq(EventType), enumQ # <<>>, enumQ' = Tail(enumQ),
           progress'.discovered = progress.discovered
               \cup (IF Head(enumQ).kind = "entry" THEN {Head(enumQ).node} ELSE {}),
           progress'.listed = progress.listed
               \cup (IF Head(enumQ).kind = "complete" THEN {Head(enumQ).node} ELSE {}),
           EventsInv
    PROVE  /\ EventsInv'
           /\ \A n : Found(n)' <=> Found(n)
           /\ \A d : Ended(d)' <=> Ended(d)
           /\ \A d : ErrorSent(d) <=> ErrorSent(d)' \/ Head(enumQ) = Event("error", d)
<1> DEFINE e == enumQ[1]
<1>1. /\ Len(enumQ) \in Nat \ {0} /\ Len(enumQ') = Len(enumQ) - 1
      /\ \A i \in 1 .. Len(enumQ') : enumQ'[i] = enumQ[i + 1]
      /\ e \in EventType /\ Head(enumQ) = e
  BY HeadTailProperties
<1>2. ASSUME NEW i \in 1 .. Len(enumQ), NEW x
      PROVE  SentBefore(i + 1, x) <=> SentBefore(i, x)' \/ e = x
  <2>1. ASSUME SentBefore(i + 1, x), e # x
        PROVE  SentBefore(i, x)'
    <3>1. PICK j \in 1 .. Len(enumQ) : j < i + 1 /\ enumQ[j] = x
      BY <2>1 DEF SentBefore
    <3>2. j # 1
      BY <2>1, <3>1
    <3>3. j - 1 \in 1 .. Len(enumQ') /\ j - 1 < i /\ enumQ'[j - 1] = x
      BY <1>1, <3>1, <3>2
    <3> QED
      BY <3>3 DEF SentBefore
  <2>2. ASSUME SentBefore(i, x)'
        PROVE  SentBefore(i + 1, x)
    <3>1. PICK j \in 1 .. Len(enumQ') : j < i /\ enumQ'[j] = x
      BY <2>2 DEF SentBefore
    <3>2. j + 1 \in 1 .. Len(enumQ) /\ j + 1 < i + 1 /\ enumQ[j + 1] = x
      BY <1>1, <3>1
    <3> QED
      BY <3>2 DEF SentBefore
  <2>3. ASSUME e = x
        PROVE  SentBefore(i + 1, x)
    <3>1. 1 \in 1 .. Len(enumQ) /\ 1 < i + 1 /\ enumQ[1] = x
      BY <1>1, <2>3
    <3> QED
      BY <3>1 DEF SentBefore
  <2> QED
    BY <2>1, <2>2, <2>3
<1>3. e = Event(e.kind, e.node)
  BY <1>1, Events
<1> HIDE DEF e
<1>4. ASSUME NEW i \in 1 .. Len(enumQ), NEW n
      PROVE  FoundBy(i, n)' <=> FoundBy(i + 1, n)
  <2>1. SentBefore(i + 1, Event("entry", n))
           <=> SentBefore(i, Event("entry", n))' \/ (e.kind = "entry" /\ e.node = n)
    BY <1>2, <1>3, Events
  <2> QED
    BY <1>1, <2>1 DEF FoundBy
<1>5. ASSUME NEW i \in 1 .. Len(enumQ), NEW d
      PROVE  EndedBy(i, d)' <=> EndedBy(i + 1, d)
  <2>1. SentBefore(i + 1, Event("complete", d))
           <=> SentBefore(i, Event("complete", d))' \/ (e.kind = "complete" /\ e.node = d)
    BY <1>2, <1>3, Events
  <2> QED
    BY <1>1, <2>1 DEF EndedBy
<1>6. EventsInv'
  <2> SUFFICES ASSUME NEW i \in 1 .. Len(enumQ')
               PROVE  EventOK(i)'
    BY DEF EventsInv
  <2>1. i \in 1 .. Len(enumQ) /\ i + 1 \in 1 .. Len(enumQ) /\ enumQ'[i] = enumQ[i + 1]
    BY <1>1
  <2>2. EventOK(i + 1)
    BY <2>1 DEF EventsInv
  <2> QED
    BY <1>4, <1>5, <2>1, <2>2 DEF EventOK
<1>7. Len(enumQ) \in 1 .. Len(enumQ) /\ Len(enumQ') + 1 = Len(enumQ)
  BY <1>1
<1>8. \A n : Found(n)' <=> Found(n)
  BY <1>4, <1>7 DEF Found
<1>9. \A d : Ended(d)' <=> Ended(d)
  BY <1>5, <1>7 DEF Ended
<1>10. ASSUME NEW d
       PROVE  ErrorSent(d) <=> ErrorSent(d)' \/ e = Event("error", d)
  <2>1. PICK len \in 1 .. Len(enumQ) : len = Len(enumQ)
    BY <1>7
  <2>2. ErrorSent(d) <=> SentBefore(len + 1, Event("error", d))
    BY <1>1, <2>1 DEF ErrorSent, SentBefore
  <2>3. ErrorSent(d)' <=> SentBefore(len, Event("error", d))'
    <3>1. \A j \in 1 .. Len(enumQ') : j < len
      BY <1>1, <2>1
    <3>2. Event("error", d)' = Event("error", d)
      BY DEF Event
    <3> QED
      BY <3>1, <3>2 DEF ErrorSent, SentBefore
  <2> QED
    BY <1>2, <2>2, <2>3
<1> QED
  BY <1>1, <1>6, <1>8, <1>9, <1>10

\* What has been found lies in what has been found.
LEMMA FoundIsClosed ==
    ASSUME enumQ \in Seq(EventType), EventsInv, ProgressInv, NEW n \in Nodes \ {Root}, Found(n)
    PROVE  Found(Parent[n])
<1>1. Len(enumQ) \in Nat
  OBVIOUS
<1>2. CASE n \in progress.discovered
  BY <1>2 DEF ProgressInv, Found, FoundBy
<1>3. CASE n \notin progress.discovered
  <2>1. PICK j \in 1 .. Len(enumQ) : enumQ[j] = Event("entry", n)
    BY <1>3 DEF Found, FoundBy, SentBefore
  <2>2. FoundBy(j, Parent[n])
    BY <2>1, Events DEF EventsInv, EventOK
  <2> QED
    BY <1>1, <2>2 DEF Found, FoundBy, SentBefore
<1> QED
  BY <1>2, <1>3

\* A directory whose end was announced was announced itself.
LEMMA EndedIsFound ==
    ASSUME enumQ \in Seq(EventType), EventsInv, ProgressInv, NEW d, Ended(d)
    PROVE  Found(d)
<1>1. Len(enumQ) \in Nat
  OBVIOUS
<1>2. CASE d \in progress.listed
  BY <1>2 DEF ProgressInv, Found, FoundBy
<1>3. CASE d \notin progress.listed
  <2>1. PICK j \in 1 .. Len(enumQ) : enumQ[j] = Event("complete", d)
    BY <1>3 DEF Ended, EndedBy, SentBefore
  <2>2. FoundBy(j, d)
    BY <2>1, Events DEF EventsInv, EventOK
  <2> QED
    BY <1>1, <2>2 DEF Found, FoundBy, SentBefore
<1> QED
  BY <1>2, <1>3

-----------------------------------------------------------------------------
(* The walk. *)

WalkOrderInv == EventsInv /\ StackInv /\ ListingInv

\* As long as nothing is sent, the same is found and ended.
LEMMA NothingSent ==
    ASSUME UNCHANGED <<enumQ, progress>>
    PROVE  /\ EventsInv <=> EventsInv'
           /\ \A n : Found(n)' <=> Found(n)
           /\ \A d : Ended(d)' <=> Ended(d)
           /\ \A d : ErrorSent(d)' <=> ErrorSent(d)
  BY DEF EventsInv, EventOK, Found, FoundBy, Ended, EndedBy, SentBefore, ErrorSent

\* The walk takes the next directory from its stack (walker.rs:36-46).
LEMMA PopOrder ==
    ASSUME TypeInv, WalkOrderInv, WalkPop, UNCHANGED progress
    PROVE  WalkOrderInv'
<1> DEFINE d == Top(walk.stack)
           len == Len(walk.stack)
<1>1. /\ walk.stack \in Seq(Dirs) /\ walk.stack # <<>> /\ len \in Nat \ {0}
      /\ fs \subseteq Nodes
  BY DEF TypeInv, WalkInv, WalkType, FsInv, WalkPop
<1>2. d = walk.stack[len] /\ d \in Dirs
  BY <1>1 DEF Top
<1>3. PICK listable \in BOOLEAN :
         walk' = [at     |-> IF listable THEN "entries" ELSE "error",
                  dir    |-> d,
                  stack  |-> Rest(walk.stack),
                  unsent |-> IF listable THEN ChildrenIn(d, fs) ELSE {}]
  <2>1. PICK listable \in BOOLEAN : listable = (d \in fs /\ d \notin job.unlistable)
    OBVIOUS
  <2> QED
    BY <2>1 DEF WalkPop
<1>4. /\ Len(walk'.stack) = len - 1
      /\ \A i \in 1 .. len - 1 : walk'.stack[i] = walk.stack[i]
  <2>1. walk'.stack = SubSeq(walk.stack, 1, len - 1)
    BY <1>3 DEF Rest
  <2> QED
    BY <1>1, <2>1, SubSeqProperties
<1>5. EventsInv' /\ (\A n : Found(n)' <=> Found(n)) /\ (\A x : Ended(x)' <=> Ended(x))
  BY NothingSent DEF WalkPop, WalkOrderInv
<1>6. Stacked(d) /\ StackOK(d)
  BY <1>1, <1>2 DEF Stacked, WalkOrderInv, StackInv
<1>7. \A x : Stacked(x)' => Stacked(x) /\ x # d
  <2> SUFFICES ASSUME NEW x, Stacked(x)' PROVE Stacked(x) /\ x # d
    OBVIOUS
  <2>1. PICK i \in 1 .. len - 1 : walk.stack[i] = x
    BY <1>4 DEF Stacked
  <2>2. i \in 1 .. len /\ len \in 1 .. len /\ i # len
    BY <1>1
  <2> QED
    BY <1>2, <2>1, <2>2 DEF Stacked, WalkOrderInv, StackInv
<1>8. StackInv'
  <2>1. \A i, j \in 1 .. Len(walk'.stack) : walk'.stack[i] = walk'.stack[j] => i = j
    <3>1. \A i \in 1 .. len - 1 : i \in 1 .. len
      BY <1>1
    <3> QED
      BY <1>4, <3>1 DEF WalkOrderInv, StackInv
  <2>2. \A x \in Dirs : Stacked(x)' => StackOK(x)'
    BY <1>5, <1>7 DEF WalkOrderInv, StackInv, StackOK
  <2> QED
    BY <2>1, <2>2 DEF StackInv
<1>9. ListingInv'
  <2>1. \A n \in walk'.unsent : n \in Nodes \ {Root} /\ Parent[n] = d
    BY <1>1, <1>3 DEF ChildrenIn
  <2>2. walk'.dir = d /\ walk'.unsent # {} => walk'.at = "entries"
    BY <1>3
  <2>3. walk'.dir = d
    BY <1>3
  <2> QED
    BY <1>5, <1>6, <1>7, <2>1, <2>2, <2>3 DEF ListingInv, StackOK
<1> QED
  BY <1>5, <1>8, <1>9 DEF WalkOrderInv

\* The walk announces an entry, and stacks a directory.
LEMMA EntryOrder ==
    ASSUME TypeInv, WalkOrderInv, ProgressInv, WalkEntry, UNCHANGED progress
    PROVE  WalkOrderInv'
<1>1. /\ walk \in WalkType /\ walk.at = "entries" /\ enumQ \in Seq(EventType)
      /\ walk.stack \in Seq(Dirs) /\ Len(walk.stack) \in Nat
  BY DEF TypeInv, WalkInv, WalkType, WalkEntry
<1>2. PICK n \in walk.unsent :
         /\ Send(Event("entry", n))
         /\ walk' = [walk EXCEPT !.unsent = @ \ {n},
                                 !.stack = IF n \in Dirs THEN Append(@, n) ELSE @]
  BY DEF WalkEntry
<1>3. n \in Nodes \ {Root} /\ Parent[n] = walk.dir /\ ~ Found(n)
  BY <1>1 DEF WalkType, WalkOrderInv, ListingInv
<1>4. /\ walk'.unsent = walk.unsent \ {n} /\ walk'.at = walk.at /\ walk'.dir = walk.dir
      /\ walk'.stack = IF n \in Dirs THEN Append(walk.stack, n) ELSE walk.stack
  BY <1>1, <1>2 DEF WalkType
<1>5. /\ Found(walk.dir) /\ ~ Ended(walk.dir) /\ ~ Stacked(walk.dir) /\ walk.dir # n
  BY <1>1, <1>3 DEF WalkOrderInv, ListingInv
<1>6. Event("entry", n) \in EventType
  BY <1>3 DEF Event, EventType
<1>7. /\ \A x : Found(x)' <=> Found(x) \/ x = n
      /\ \A x : Ended(x)' <=> Ended(x)
  BY <1>1, <1>2, <1>6, Sending, Events
<1>8. EventsInv'
  BY <1>1, <1>2, <1>3, <1>5, <1>6, EventsAfterSending, Events DEF WalkOrderInv
<1>9. ~ Stacked(n)
  BY <1>1, <1>3 DEF Stacked, WalkOrderInv, StackInv, StackOK
<1>10. \A x : Stacked(x)' <=> Stacked(x) \/ (x = n /\ n \in Dirs)
  <2>1. CASE n \notin Dirs
    BY <1>4, <2>1 DEF Stacked
  <2>2. CASE n \in Dirs
    BY <1>1, <1>4, <2>2 DEF Stacked
  <2> QED
    BY <2>1, <2>2
<1>11. StackInv'
  <2>1. \A i, j \in 1 .. Len(walk'.stack) : walk'.stack[i] = walk'.stack[j] => i = j
    <3>1. CASE n \notin Dirs
      BY <1>4, <3>1 DEF WalkOrderInv, StackInv
    <3>2. CASE n \in Dirs
      <4>1. \A i \in 1 .. Len(walk.stack) : walk.stack[i] # n
        BY <1>9 DEF Stacked
      <4>2. /\ Len(walk'.stack) = Len(walk.stack) + 1
            /\ \A i \in 1 .. Len(walk.stack) : walk'.stack[i] = walk.stack[i]
            /\ walk'.stack[Len(walk.stack) + 1] = n
        BY <1>1, <1>4, <3>2
      <4>3. \A i, j \in 1 .. Len(walk.stack) : walk.stack[i] = walk.stack[j] => i = j
        BY DEF WalkOrderInv, StackInv
      <4> SUFFICES ASSUME NEW i \in 1 .. Len(walk'.stack), NEW j \in 1 .. Len(walk'.stack),
                          walk'.stack[i] = walk'.stack[j]
                   PROVE  i = j
        OBVIOUS
      <4>4. \A k \in 1 .. Len(walk'.stack) :
               k \in 1 .. Len(walk.stack) \/ k = Len(walk.stack) + 1
        BY <1>1, <4>2
      <4> QED
        BY <4>1, <4>2, <4>3, <4>4
    <3> QED
      BY <3>1, <3>2
  <2>2. ASSUME NEW x \in Dirs, Stacked(x)'
        PROVE  StackOK(x)'
    <3>1. CASE x = n
      <4>1. ~ Ended(n)
        BY <1>1, <1>3, EndedIsFound DEF WalkOrderInv
      <4>2. \A m \in Nodes \ {Root} : Parent[m] = n => ~ Found(m) /\ m # n
        BY <1>1, <1>3, <1>5, FoundIsClosed DEF WalkOrderInv
      <4> QED
        BY <1>7, <3>1, <4>1, <4>2 DEF StackOK
    <3>2. CASE x # n
      <4>1. StackOK(x) /\ x # walk.dir
        BY <1>5, <1>10, <2>2, <3>2 DEF WalkOrderInv, StackInv
      <4> QED
        BY <1>3, <1>7, <3>2, <4>1 DEF StackOK
    <3> QED
      BY <3>1, <3>2
  <2> QED
    BY <2>1, <2>2 DEF StackInv
<1>12. ListingInv'
  BY <1>1, <1>3, <1>4, <1>5, <1>7, <1>10 DEF WalkOrderInv, ListingInv
<1> QED
  BY <1>8, <1>11, <1>12 DEF WalkOrderInv

\* No step of the walk breaks the order of the events.
LEMMA WalkOrder ==
    ASSUME TypeInv, WalkOrderInv, ProgressInv, Walk
    PROVE  WalkOrderInv'
<1>1. UNCHANGED progress /\ enumQ \in Seq(EventType)
      /\ walk \in WalkType /\ walk.stack \in Seq(Dirs) /\ walk.dir \in Dirs
  BY DEF Walk, TypeInv, WalkInv, WalkType
<1>2. CASE WalkPop
  BY <1>1, <1>2, PopOrder
<1>3. CASE WalkEntry
  BY <1>1, <1>3, EntryOrder
<1>4. \A d \in Dirs : Event("complete", d) \in EventType /\ Event("error", d) \in EventType
  BY DEF Event, EventType
<1>5. CASE WalkError
  <2>1. /\ walk.at = "error" /\ Send(Event("error", walk.dir))
        /\ walk'.at = "entries" /\ walk'.dir = walk.dir /\ walk'.stack = walk.stack
        /\ walk'.unsent = walk.unsent
    BY <1>1, <1>5 DEF WalkError, WalkType
  <2>2. Found(walk.dir) /\ ~ Ended(walk.dir) /\ ~ Stacked(walk.dir)
    BY <2>1 DEF WalkOrderInv, ListingInv
  <2>3. (\A n : Found(n)' <=> Found(n)) /\ (\A d : Ended(d)' <=> Ended(d))
    BY <1>1, <1>4, <2>1, Sending, Events
  <2>4. EventsInv'
    BY <1>1, <1>4, <2>1, <2>2, EventsAfterSending, Events DEF WalkOrderInv
  <2>5. StackInv'
    BY <2>1, <2>3 DEF WalkOrderInv, StackInv, Stacked, StackOK
  <2>6. ListingInv'
    BY <2>1, <2>2, <2>3 DEF WalkOrderInv, ListingInv, Stacked
  <2> QED
    BY <2>4, <2>5, <2>6 DEF WalkOrderInv
<1>6. CASE WalkComplete
  <2>1. /\ walk.at = "entries" /\ walk.unsent = {} /\ Send(Event("complete", walk.dir))
        /\ walk'.at = "pop" /\ walk'.stack = walk.stack /\ walk'.unsent = walk.unsent
    BY <1>1, <1>6 DEF WalkComplete, WalkType
  <2>2. Found(walk.dir) /\ ~ Ended(walk.dir) /\ ~ Stacked(walk.dir)
    BY <2>1 DEF WalkOrderInv, ListingInv
  <2>3. (\A n : Found(n)' <=> Found(n))
        /\ (\A d : Ended(d)' <=> Ended(d) \/ d = walk.dir)
    BY <1>1, <1>4, <2>1, Sending, Events
  <2>4. EventsInv'
    BY <1>1, <1>4, <2>1, <2>2, EventsAfterSending, Events DEF WalkOrderInv
  <2>5. StackInv'
    BY <2>1, <2>2, <2>3 DEF WalkOrderInv, StackInv, Stacked, StackOK
  <2>6. ListingInv'
    BY <2>1 DEF ListingInv
  <2> QED
    BY <2>4, <2>5, <2>6 DEF WalkOrderInv
<1>7. CASE WalkCancelled \/ WalkExit
  <2>1. /\ walk.at \in {"pop", "flush"} /\ walk'.at \in {"flush", "exited"}
        /\ walk'.stack = walk.stack /\ walk'.unsent = walk.unsent /\ UNCHANGED enumQ
    BY <1>1, <1>7 DEF WalkCancelled, WalkExit, WalkType
  <2>2. EventsInv' /\ (\A n : Found(n)' <=> Found(n)) /\ (\A d : Ended(d)' <=> Ended(d))
    BY <1>1, <2>1, NothingSent DEF WalkOrderInv
  <2>3. StackInv'
    BY <2>1, <2>2 DEF WalkOrderInv, StackInv, Stacked, StackOK
  <2>4. ListingInv'
    BY <2>1 DEF WalkOrderInv, ListingInv
  <2> QED
    BY <2>2, <2>3, <2>4 DEF WalkOrderInv
<1>8. CASE WalkFlush
  <2> DEFINE d == Head(walk.stack)
  <2>1. /\ walk.at = "flush" /\ walk.stack # <<>> /\ Send(Event("complete", d))
        /\ walk'.at = "flush" /\ walk'.stack = Tail(walk.stack) /\ walk'.unsent = walk.unsent
    BY <1>1, <1>8 DEF WalkFlush, WalkType
  <2>2. /\ d = walk.stack[1] /\ d \in Dirs /\ Len(walk.stack) \in Nat \ {0}
        /\ Len(walk'.stack) = Len(walk.stack) - 1
        /\ \A i \in 1 .. Len(walk'.stack) : walk'.stack[i] = walk.stack[i + 1]
    BY <1>1, <2>1, HeadTailProperties
  <2>3. Stacked(d) /\ StackOK(d)
    BY <2>2 DEF Stacked, WalkOrderInv, StackInv
  <2>4. (\A n : Found(n)' <=> Found(n)) /\ (\A x : Ended(x)' <=> Ended(x) \/ x = d)
    BY <1>1, <1>4, <2>1, <2>2, Sending, Events
  <2>5. EventsInv'
    BY <1>1, <1>4, <2>1, <2>2, <2>3, EventsAfterSending, Events DEF WalkOrderInv, StackOK
  <2>6. \A i \in 1 .. Len(walk'.stack) : i + 1 \in 1 .. Len(walk.stack) /\ i + 1 # 1
    BY <2>2
  <2>7. 1 \in 1 .. Len(walk.stack)
    BY <2>2
  <2>8. \A i, j \in 1 .. Len(walk.stack) : walk.stack[i] = walk.stack[j] => i = j
    BY DEF WalkOrderInv, StackInv
  <2>9. \A x : Stacked(x)' => Stacked(x) /\ x # d
    BY <2>2, <2>6, <2>7, <2>8 DEF Stacked
  <2>10. StackInv'
    <3>1. \A i, j \in 1 .. Len(walk'.stack) : walk'.stack[i] = walk'.stack[j] => i = j
      <4> SUFFICES ASSUME NEW i \in 1 .. Len(walk'.stack), NEW j \in 1 .. Len(walk'.stack),
                          walk'.stack[i] = walk'.stack[j]
                   PROVE  i = j
        OBVIOUS
      <4>1. i + 1 = j + 1
        BY <2>2, <2>6, <2>8
      <4> QED
        BY <4>1
    <3>2. \A x \in Dirs : Stacked(x)' => StackOK(x)'
      BY <2>4, <2>9 DEF WalkOrderInv, StackInv, StackOK
    <3> QED
      BY <3>1, <3>2 DEF StackInv
  <2>11. ListingInv'
    BY <2>1 DEF WalkOrderInv, ListingInv
  <2> QED
    BY <2>5, <2>10, <2>11 DEF WalkOrderInv
<1> QED
  BY <1>2, <1>3, <1>5, <1>6, <1>7, <1>8 DEF Walk

-----------------------------------------------------------------------------
(* Threads, channels and the map. *)

TrackingInv ==
    ProgressInv /\ ThreadsInv /\ UniqueInv /\ FilesQueued /\ DirsQueued /\ DirsInv /\ RootInv

\* One more element makes a finite set one larger, one less one smaller.
LEMMA CardinalityStep ==
    ASSUME NEW S, IsFiniteSet(S), NEW x
    PROVE  /\ Cardinality(S) \in Nat
           /\ Cardinality(S) = 0 <=> S = {}
           /\ x \notin S => Cardinality(S \cup {x}) = Cardinality(S) + 1
           /\ x \in S => Cardinality(S \ {x}) = Cardinality(S) - 1
<1>1. Cardinality(S) \in Nat
  BY FS_CardinalityType
<1>2. Cardinality(S) = 0 <=> S = {}
  BY FS_EmptySet
<1>3. x \notin S => Cardinality(S \cup {x}) = Cardinality(S) + 1
  BY FS_AddElement
<1>4. x \in S => Cardinality(S \ {x}) = Cardinality(S) - 1
  BY FS_RemoveElement
<1> QED
  BY <1>1, <1>2, <1>3, <1>4

\* What is open in a directory is finite, as what was found is.
LEMMA OutstandingFinite ==
    ASSUME ProgressInv, NEW d
    PROVE  IsFiniteSet(Outstanding(d))
<1>1. Outstanding(d) \subseteq progress.discovered
  BY DEF Outstanding, FoundIn
<1> QED
  BY <1>1, FS_Subset DEF ProgressInv

\* What a thread has in hand by its place in its call.
LEMMA CallFacts ==
    ASSUME TypeInv, NEW t \in Threads
    PROVE  /\ pc[t] \in CallType /\ pc[t].at \in Steps /\ pc[t].node \in Nodes
           /\ pc[t].still \in BOOLEAN
           /\ pc[t].at \in {"try_finalise", "send", "attempt"} => pc[t].node \in Dirs
           /\ pc[t].at = "complete" => pc[t].node # Root
           /\ pc[t].at \in {"decide", "enqueue", "acquire", "delete"} =>
                 pc[t].node \in Leaves /\ pc[t].node \notin Dirs /\ pc[t].node # Root
<1>1. pc[t] \in CallType /\ CallIsSound(pc[t])
  BY DEF TypeInv, CallInv
<1> QED
  BY <1>1, PipelineAssumption DEF CallIsSound, CallType, Deletable

\* Thread t moves on to c.
LEMMA MovingOn ==
    ASSUME TypeInv, NEW t \in Threads, NEW c, pc' = [pc EXCEPT ![t] = c]
    PROVE  /\ pc'[t] = c
           /\ \A u \in Threads : u # t => pc'[u] = pc[u]
           /\ \A u \in Threads : \A n : u # t => (Holds(u, n)' <=> Holds(u, n))
           /\ \A n : Holds(t, n)' <=> c.at \in Holding /\ c.node = n
  BY DEF TypeInv, CallInv, Holds

\* The directory of an entry that is not done with is in the map and open.
LEMMA ParentIsTracked ==
    ASSUME ProgressInv, DirsInv, NEW n \in Open \ {Root}
    PROVE  /\ Parent[n] \in Dirs /\ Parent[n] \in progress.discovered
           /\ n \in Outstanding(Parent[n])
           /\ Tracked(tracker, Parent[n]) /\ ~ tracker[Parent[n]].finalised
           /\ progress.sent[Parent[n]] = 0
<1> DEFINE p == Parent[n]
<1>1. n \in Nodes /\ n \in progress.discovered /\ n \notin progress.resolved
  BY DEF ProgressInv, Open
<1>2. p \in Dirs /\ p \in progress.discovered
  BY <1>1, PipelineAssumption DEF ProgressInv
<1>3. n \in Outstanding(p)
  BY <1>1 DEF Outstanding, FoundIn
<1>4. DirOK(p) /\ progress.sent[p] \in Nat
  BY <1>2 DEF DirsInv, ProgressInv
<1>5. progress.sent[p] = 0
  BY <1>3, <1>4 DEF DirOK
<1> QED
  BY <1>2, <1>3, <1>4, <1>5 DEF DirOK

\* The channels are as they were if nobody takes hold of what is in them.
LEMMA QueuesKeep ==
    ASSUME FilesQueued, DirsQueued, UNCHANGED <<fileQ, readyQ>>,
           \A n \in Open : (\A t \in Threads : ~ Holds(t, n)) =>
               n \in Open' /\ \A t \in Threads : ~ Holds(t, n)',
           \A d \in Open : /\ \A t \in Threads : ~ Holds(t, d)
                           /\ progress.sent[d] = 1 /\ Tracked(tracker, d)
                           => progress'.sent[d] = 1 /\ Tracked(tracker', d)
    PROVE  FilesQueued' /\ DirsQueued'
<1>1. FilesQueued'
  <2>1. ASSUME NEW i \in 1 .. Len(fileQ)
        PROVE  fileQ'[i] \in Open' /\ \A t \in Threads : ~ Holds(t, fileQ[i])'
    BY DEF FilesQueued
  <2> QED
    BY <2>1 DEF FilesQueued, Holds
<1>2. DirsQueued'
  <2>1. ASSUME NEW i \in 1 .. Len(readyQ)
        PROVE  LET d == readyQ[i].dir
               IN  /\ d \in Open' /\ progress'.sent[d] = 1 /\ Tracked(tracker', d)
                   /\ \A t \in Threads : ~ Holds(t, d)'
    BY DEF DirsQueued
  <2> QED
    BY <2>1 DEF DirsQueued, Holds
<1> QED
  BY <1>1, <1>2

\* No two threads hold the same if t takes hold of nothing anybody else holds.
LEMMA UniqueKept ==
    ASSUME TypeInv, UniqueInv, NEW t \in Threads, NEW c, pc' = [pc EXCEPT ![t] = c],
           c.at \in Holding => \A u \in Threads \ {t} : ~ Holds(u, c.node)
    PROVE  UniqueInv'
<1>1. /\ \A u \in Threads : \A n : u # t => (Holds(u, n)' <=> Holds(u, n))
      /\ \A n : Holds(t, n)' <=> c.at \in Holding /\ c.node = n
  BY MovingOn
<1> SUFFICES ASSUME NEW u \in Threads, NEW v \in Threads, NEW n \in Nodes,
                    Holds(u, n)', Holds(v, n)'
             PROVE  u = v
  BY DEF UniqueInv
<1>2. CASE u # t /\ v # t
  BY <1>1, <1>2 DEF UniqueInv
<1>3. CASE u = t /\ v # t
  BY <1>1, <1>3
<1>4. CASE u # t /\ v = t
  BY <1>1, <1>4
<1> QED
  BY <1>2, <1>3, <1>4

\* A thread moves and neither the map nor what is known changes.
LEMMA MapAlone ==
    ASSUME TypeInv, ProgressInv, ThreadsInv, DirsInv, UNCHANGED <<progress, tracker>>,
           NEW t \in Threads, NEW c, pc' = [pc EXCEPT ![t] = c], ThreadOK(t)'
    PROVE  ProgressInv' /\ ThreadsInv' /\ DirsInv' /\ Open' = Open
<1>1. ProgressInv'
  BY DEF ProgressInv
<1>2. DirsInv'
  BY DEF DirsInv, DirOK, Outstanding, FoundIn
<1>3. \A u \in Threads : ThreadOK(u)'
  <2> SUFFICES ASSUME NEW u \in Threads, u # t PROVE ThreadOK(u)'
    OBVIOUS
  <2>1. pc'[u] = pc[u] /\ ThreadOK(u)
    BY MovingOn DEF ThreadsInv
  <2> QED
    BY <2>1 DEF ThreadOK, Open, Outstanding, FoundIn
<1> QED
  BY <1>1, <1>2, <1>3 DEF ThreadsInv, Open

\* A thread puts down nothing and takes up nothing.
LEMMA QuietOrder ==
    ASSUME TypeInv, TrackingInv, UNCHANGED <<progress, tracker, fileQ, readyQ>>,
           rootDone' = rootDone \/ ~ Tracked(tracker, Root),
           NEW t \in Threads, NEW c, pc' = [pc EXCEPT ![t] = c],
           \/ c.at \notin Holding \cup {"try_finalise"}
           \/ /\ c.at \in {"enqueue", "delete", "complete"} /\ c.node \notin Dirs
              /\ Holds(t, c.node),
           t = Coordinator /\ c.at \in {"join", "done"} => ~ Tracked(tracker, Root)
    PROVE  TrackingInv'
<1>1. ThreadOK(t)'
  <2>1. pc'[t] = c /\ ThreadOK(t)
    BY MovingOn DEF TrackingInv, ThreadsInv
  <2> QED
    BY <2>1 DEF ThreadOK, Holding, Open, Holds
<1>2. ProgressInv' /\ ThreadsInv' /\ DirsInv' /\ Open' = Open
  BY <1>1, MapAlone DEF TrackingInv
<1>3. \A u \in Threads : u # t => pc'[u] = pc[u]
  BY MovingOn
<1>4. UniqueInv'
  <2>1. ASSUME c.at \in Holding, NEW u \in Threads \ {t}, Holds(u, c.node)
        PROVE  FALSE
    <3>1. Holds(t, c.node)
      BY <2>1 DEF Holding
    <3>2. c.node \in Nodes
      BY <3>1, CallFacts DEF Holds
    <3> QED
      BY <2>1, <3>1, <3>2 DEF TrackingInv, UniqueInv
  <2> QED
    BY <2>1, UniqueKept DEF TrackingInv
<1>5. FilesQueued' /\ DirsQueued'
  <2>1. ASSUME NEW n, \A u \in Threads : ~ Holds(u, n), NEW u \in Threads
        PROVE  ~ Holds(u, n)'
    <3>1. u # t => (Holds(u, n)' <=> Holds(u, n))
      BY MovingOn
    <3>2. Holds(t, n)' <=> c.at \in Holding /\ c.node = n
      BY MovingOn
    <3>3. c.at \in Holding => Holds(t, c.node)
      BY DEF Holding
    <3> QED
      BY <2>1, <3>1, <3>2, <3>3
  <2> QED
    BY <1>2, <2>1, QueuesKeep DEF TrackingInv
<1>6. RootInv'
  <2>1. t # Coordinator => pc'[Coordinator] = pc[Coordinator]
    BY <1>3, CoordinatorIsAThread
  <2>2. t = Coordinator => pc'[Coordinator] = c
    BY MovingOn
  <2> QED
    BY <2>1, <2>2 DEF TrackingInv, RootInv, Shutdown
<1> QED
  BY <1>2, <1>4, <1>5, <1>6 DEF TrackingInv

\* Nothing of it changes.
LEMMA TrackingStands ==
    ASSUME TrackingInv, UNCHANGED <<progress, tracker, fileQ, readyQ, rootDone, pc>>
    PROVE  TrackingInv'
<1>1. Open' = Open /\ (\A d : Outstanding(d)' = Outstanding(d))
      /\ (\A t, n : Holds(t, n)' <=> Holds(t, n))
  BY DEF Open, Outstanding, FoundIn, Holds
<1>2. ProgressInv' /\ UniqueInv' /\ RootInv'
  BY <1>1 DEF TrackingInv, ProgressInv, UniqueInv, RootInv, Shutdown
<1>3. ThreadsInv'
  BY <1>1 DEF TrackingInv, ThreadsInv, ThreadOK
<1>4. FilesQueued' /\ DirsQueued'
  BY <1>1 DEF TrackingInv, FilesQueued, DirsQueued
<1>5. DirsInv'
  BY <1>1 DEF TrackingInv, DirsInv, DirOK
<1> QED
  BY <1>2, <1>3, <1>4, <1>5 DEF TrackingInv

\* The coordinator learns of an entry and counts it in its directory.
LEMMA DiscoverOrder ==
    ASSUME TypeInv, TrackingInv, NEW n \in Nodes \ {Root}, n \notin progress.discovered,
           Parent[n] \in progress.discovered \ progress.listed,
           UNCHANGED <<fileQ, readyQ, rootDone>>,
           progress' = [progress EXCEPT !.discovered = @ \cup {n}],
           \/ /\ n \in Dirs /\ tracker' = AddPending(Insert(tracker, n), Parent[n])
              /\ UNCHANGED pc
           \/ /\ n \notin Dirs /\ tracker' = AddPending(tracker, Parent[n])
              /\ pc' = [pc EXCEPT ![Coordinator] =
                           [at |-> "decide", node |-> n, still |-> FALSE]]
    PROVE  TrackingInv'
<1> DEFINE p == Parent[n]
<1>1. /\ p \in Dirs /\ p # n
      /\ progress \in [discovered : SUBSET Nodes, listed : SUBSET Dirs,
                       resolved : SUBSET (Nodes \ {Root}), sent : [Dirs -> Nat]]
  BY PipelineAssumption DEF TrackingInv, ProgressInv
<1>2. /\ progress'.discovered = progress.discovered \cup {n}
      /\ progress'.listed = progress.listed /\ progress'.resolved = progress.resolved
      /\ progress'.sent = progress.sent
  BY <1>1
<1>3. DirOK(p) /\ progress.sent[p] \in Nat /\ ~ (p \in progress.listed)
  BY <1>1 DEF TrackingInv, DirsInv
<1>4. progress.sent[p] = 0 /\ Tracked(tracker, p) /\ ~ tracker[p].finalised
  BY <1>3 DEF DirOK
<1>5. n \in Dirs => ~ Tracked(tracker, n) /\ progress.sent[n] = 0 /\ n \notin progress.listed
  BY <1>1 DEF TrackingInv, ProgressInv, DirsInv, DirOK
<1>6. n \notin Open /\ n \notin progress.resolved /\ \A t \in Threads : ~ Holds(t, n)
  BY DEF Open, TrackingInv, ProgressInv, ThreadsInv, ThreadOK, Holds
<1>7. Open' = Open \cup {n}
  BY <1>2, <1>6 DEF Open
<1>8. /\ Outstanding(p)' = Outstanding(p) \cup {n} /\ n \notin Outstanding(p)
      /\ \A d : d # p => Outstanding(d)' = Outstanding(d)
  BY <1>2, <1>6 DEF Outstanding, FoundIn
<1>9. ProgressInv'
  <2>1. IsFiniteSet(progress'.discovered)
    BY <1>2, FS_AddElement DEF TrackingInv, ProgressInv
  <2>2. progress' \in [discovered : SUBSET Nodes, listed : SUBSET Dirs,
                       resolved : SUBSET (Nodes \ {Root}), sent : [Dirs -> Nat]]
    BY <1>1
  <2> QED
    BY <1>2, <2>1, <2>2 DEF TrackingInv, ProgressInv
<1>10. /\ DOMAIN tracker' = DOMAIN tracker \cup (IF n \in Dirs THEN {n} ELSE {})
       /\ tracker'[p] = [tracker[p] EXCEPT !.pending = @ + 1]
       /\ \A d \in DOMAIN tracker : d # p => tracker'[d] = tracker[d]
       /\ n \in Dirs => tracker'[n] = NewDirState
  <2>1. CASE n \notin Dirs
    BY <1>4, <2>1 DEF AddPending, Update, Tracked
  <2>2. CASE n \in Dirs
    <3> DEFINE mid == Insert(tracker, n)
    <3>1. /\ DOMAIN mid = DOMAIN tracker \cup {n} /\ mid[n] = NewDirState
          /\ \A d \in DOMAIN tracker : mid[d] = tracker[d]
      BY <1>5, <2>2 DEF Insert, Tracked
    <3>2. tracker' = AddPending(mid, p)
      BY <2>2
    <3> HIDE DEF mid
    <3> QED
      BY <1>1, <1>4, <2>2, <3>1, <3>2 DEF AddPending, Update, Tracked
  <2> QED
    BY <2>1, <2>2
<1>11. /\ tracker[p] \in DirState
       /\ tracker'[p].pending = tracker[p].pending + 1
       /\ tracker'[p].finalised = tracker[p].finalised
       /\ tracker'[p].enumeration_done = tracker[p].enumeration_done
  BY <1>4, <1>10 DEF TypeInv, TrackerInv, Tracked, DirState
<1>12. ASSUME NEW t \in Threads, pc'[t] = pc[t]
       PROVE  ThreadOK(t)'
  <2>1. ThreadOK(t)
    BY DEF TrackingInv, ThreadsInv
  <2>2. pc[t].at \in Holding \cup {"try_finalise"} => pc[t].node # n
    BY <1>5, <1>6, <2>1, CallFacts DEF ThreadOK, Holds
  <2>3. pc[t].at = "try_finalise" => pc[t].node # p
    BY <1>3, <2>1 DEF ThreadOK
  <2>4. pc[t].node # n => (Tracked(tracker', pc[t].node) <=> Tracked(tracker, pc[t].node))
    BY <1>10 DEF Tracked
  <2>5. Tracked(tracker, pc[t].node) => tracker'[pc[t].node].finalised
                                           = tracker[pc[t].node].finalised
    BY <1>10, <1>11 DEF Tracked
  <2> QED
    BY <1>2, <1>7, <1>8, <1>12, <2>1, <2>2, <2>3, <2>4, <2>5 DEF ThreadOK, Holding
<1>13. ThreadsInv' /\ UniqueInv'
       /\ \A m \in Open : (\A t \in Threads : ~ Holds(t, m)) => \A t \in Threads : ~ Holds(t, m)'
  <2>1. CASE UNCHANGED pc
    <3>1. \A t, m : Holds(t, m)' <=> Holds(t, m)
      BY <2>1 DEF Holds
    <3> QED
      BY <1>12, <2>1, <3>1 DEF ThreadsInv, TrackingInv, UniqueInv
  <2>2. CASE ~ UNCHANGED pc
    <3>1. PICK c : c = [at |-> "decide", node |-> n, still |-> FALSE]
      OBVIOUS
    <3>2. n \notin Dirs /\ pc' = [pc EXCEPT ![Coordinator] = c]
          /\ c.at = "decide" /\ c.node = n
      BY <2>2, <3>1
    <3>3. /\ pc'[Coordinator] = c
          /\ \A u \in Threads : u # Coordinator => pc'[u] = pc[u]
          /\ \A u \in Threads : \A m : u # Coordinator => (Holds(u, m)' <=> Holds(u, m))
          /\ \A m : Holds(Coordinator, m)' <=> c.at \in Holding /\ c.node = m
      BY ONLY TypeInv, <3>2, CoordinatorIsAThread, MovingOn
    <3>4. ThreadOK(Coordinator)'
      BY <1>7, <3>2, <3>3 DEF ThreadOK
    <3>5. ThreadsInv'
      BY <1>12, <3>3, <3>4 DEF ThreadsInv
    <3>6. UniqueInv'
      BY <1>6, <3>2, CoordinatorIsAThread, UniqueKept DEF TrackingInv
    <3> QED
      BY <1>6, <3>2, <3>3, <3>5, <3>6
  <2> QED
    BY <2>1, <2>2
<1>14. FilesQueued' /\ DirsQueued'
  <2>1. \A d : Tracked(tracker, d) => Tracked(tracker', d)
    BY <1>10 DEF Tracked
  <2> QED
    BY <1>2, <1>7, <1>13, <2>1, QueuesKeep DEF TrackingInv
<1>15. DirsInv'
  <2> SUFFICES ASSUME NEW d \in Dirs PROVE DirOK(d)'
    BY DEF DirsInv
  <2>1. DirOK(d)
    BY DEF TrackingInv, DirsInv
  <2>2. CASE d = n
    <3>1. Outstanding(n) = {} /\ Outstanding(n)' = Outstanding(n)
      BY <1>1, <1>8 DEF Outstanding, FoundIn, TrackingInv, ProgressInv
    <3>2. /\ d \in DOMAIN tracker' /\ tracker'[d].pending = 0
          /\ ~ tracker'[d].enumeration_done /\ ~ tracker'[d].finalised
      BY <1>10, <2>2 DEF NewDirState
    <3> QED
      BY <1>2, <1>5, <1>6, <2>2, <3>1, <3>2, FS_EmptySet DEF DirOK, Tracked
  <2>3. CASE d = p
    <3>1. Cardinality(Outstanding(p)') = Cardinality(Outstanding(p)) + 1
      BY <1>8, OutstandingFinite, CardinalityStep DEF TrackingInv
    <3>2. p \in DOMAIN tracker'
      BY <1>4, <1>10 DEF Tracked
    <3> QED
      BY <1>2, <1>4, <1>11, <2>1, <2>3, <3>1, <3>2 DEF DirOK, Tracked
  <2>4. CASE d # n /\ d # p
    BY <1>2, <1>8, <1>10, <2>1, <2>4 DEF DirOK, Tracked
  <2> QED
    BY <2>2, <2>3, <2>4
<1>16. RootInv'
  <2>1. Shutdown' => Shutdown
    <3>1. CASE UNCHANGED pc
      BY <3>1 DEF Shutdown
    <3>2. CASE ~ UNCHANGED pc
      <4>1. pc' = [pc EXCEPT ![Coordinator] = [at |-> "decide", node |-> n, still |-> FALSE]]
        BY <3>2
      <4>2. pc'[Coordinator].at = "decide"
        BY <4>1, CoordinatorIsAThread DEF TypeInv, CallInv
      <4> QED
        BY <4>2 DEF Shutdown
    <3> QED
      BY <3>1, <3>2
  <2>2. Tracked(tracker', Root) => Tracked(tracker, Root)
    BY <1>10 DEF Tracked
  <2> QED
    BY <2>1, <2>2 DEF TrackingInv, RootInv
<1> QED
  BY <1>9, <1>13, <1>14, <1>15, <1>16 DEF TrackingInv

\* The coordinator learns that a listing has come to its end.
LEMMA ListedOrder ==
    ASSUME TypeInv, TrackingInv, NEW d \in progress.discovered \ progress.listed, d \in Dirs,
           UNCHANGED <<fileQ, readyQ, rootDone>>,
           progress' = [progress EXCEPT !.listed = @ \cup {d}],
           tracker' = SetEnumerationDone(tracker, d),
           IF ReadyAfterEnumeration(tracker, d)
           THEN Goto(Coordinator, "try_finalise", d) ELSE UNCHANGED pc,
           pc[Coordinator].at = "recv"
    PROVE  TrackingInv'
<1>1. progress \in [discovered : SUBSET Nodes, listed : SUBSET Dirs,
                    resolved : SUBSET (Nodes \ {Root}), sent : [Dirs -> Nat]]
  BY DEF TrackingInv, ProgressInv
<1>2. /\ progress'.discovered = progress.discovered /\ progress'.resolved = progress.resolved
      /\ progress'.listed = progress.listed \cup {d} /\ progress'.sent = progress.sent
  BY <1>1
<1>3. DirOK(d) /\ progress.sent[d] \in Nat
  BY <1>1 DEF TrackingInv, DirsInv
<1>4. progress.sent[d] = 0 /\ Tracked(tracker, d) /\ ~ tracker[d].finalised
  BY <1>3 DEF DirOK
<1>5. /\ Open' = Open /\ \A e : Outstanding(e)' = Outstanding(e)
  BY <1>2 DEF Open, Outstanding, FoundIn
<1>6. ProgressInv'
  BY <1>1, <1>2 DEF TrackingInv, ProgressInv
<1>7. /\ DOMAIN tracker' = DOMAIN tracker
      /\ \A e \in DOMAIN tracker : e # d => tracker'[e] = tracker[e]
      /\ \A e \in DOMAIN tracker : /\ tracker'[e].finalised = tracker[e].finalised
                                   /\ tracker'[e].pending = tracker[e].pending
      /\ tracker'[d].enumeration_done
  <2>1. tracker[d] \in DirState
    BY <1>4 DEF TypeInv, TrackerInv, Tracked
  <2>2. /\ DOMAIN tracker' = DOMAIN tracker
        /\ \A e \in DOMAIN tracker : e # d => tracker'[e] = tracker[e]
        /\ tracker'[d] = [tracker[d] EXCEPT !.enumeration_done = TRUE]
    BY <1>4 DEF SetEnumerationDone, Update, Tracked
  <2> QED
    BY <2>1, <2>2 DEF DirState
<1>8. DirsInv'
  <2> SUFFICES ASSUME NEW e \in Dirs PROVE DirOK(e)'
    BY DEF DirsInv
  <2>1. DirOK(e)
    BY DEF TrackingInv, DirsInv
  <2>2. CASE e = d
    BY <1>2, <1>4, <1>5, <1>7, <2>1, <2>2 DEF DirOK, Tracked
  <2>3. CASE e # d
    BY <1>2, <1>5, <1>7, <2>1, <2>3 DEF DirOK, Tracked
  <2> QED
    BY <2>2, <2>3
<1>9. ASSUME NEW t \in Threads, pc'[t] = pc[t]
      PROVE  ThreadOK(t)'
  BY <1>2, <1>5, <1>7, <1>9 DEF TrackingInv, ThreadsInv, ThreadOK, Tracked
<1>10. ReadyAfterEnumeration(tracker, d) => Outstanding(d) = {}
  <2>1. ReadyAfterEnumeration(tracker, d) => Cardinality(Outstanding(d)) = 0
    BY <1>3, <1>4 DEF ReadyAfterEnumeration, DirOK
  <2> QED
    BY <2>1, OutstandingFinite, FS_EmptySet DEF TrackingInv
<1>11. ThreadsInv' /\ UniqueInv' /\ (\A t, n : t \in Threads => (Holds(t, n)' <=> Holds(t, n)))
       /\ (Shutdown' <=> Shutdown)
  <2>1. CASE UNCHANGED pc
    BY <1>9, <2>1 DEF ThreadsInv, TrackingInv, UniqueInv, Holds, Shutdown
  <2>2. CASE ~ UNCHANGED pc
    <3>1. PICK c : c = [at |-> "try_finalise", node |-> d, still |-> FALSE]
      OBVIOUS
    <3>2. /\ ReadyAfterEnumeration(tracker, d) /\ pc' = [pc EXCEPT ![Coordinator] = c]
          /\ c.at = "try_finalise" /\ c.node = d
      BY <2>2, <3>1 DEF Goto
    <3>3. /\ pc'[Coordinator] = c
          /\ \A u \in Threads : u # Coordinator => pc'[u] = pc[u]
          /\ \A u \in Threads : \A m : u # Coordinator => (Holds(u, m)' <=> Holds(u, m))
          /\ \A m : Holds(Coordinator, m)' <=> c.at \in Holding /\ c.node = m
      BY <3>2, CoordinatorIsAThread, MovingOn
    <3>4. ThreadOK(Coordinator)'
      BY <1>2, <1>5, <1>10, <3>2, <3>3 DEF ThreadOK, Holding
    <3>5. UniqueInv'
      BY <3>2, CoordinatorIsAThread, UniqueKept DEF TrackingInv, Holding
    <3>6. \A m : ~ Holds(Coordinator, m) /\ ~ Holds(Coordinator, m)'
      BY <3>2, <3>3 DEF Holds, Holding
    <3> QED
      BY <1>9, <3>2, <3>3, <3>4, <3>5, <3>6 DEF ThreadsInv, Shutdown
  <2> QED
    BY <2>1, <2>2
<1>12. FilesQueued' /\ DirsQueued'
  BY <1>2, <1>5, <1>7, <1>11, QueuesKeep DEF TrackingInv, Tracked
<1>13. RootInv'
  BY <1>7, <1>11 DEF TrackingInv, RootInv, Tracked
<1> QED
  BY <1>6, <1>8, <1>11, <1>12, <1>13 DEF TrackingInv

\* complete_child: the entry is done with, its directory counts one less.
LEMMA CompleteOrder ==
    ASSUME TypeInv, TrackingInv, NEW t \in Threads, CompleteChild(t)
    PROVE  TrackingInv'
<1>a. PICK n : n = pc[t].node
  OBVIOUS
<1>b. PICK p : p = Parent[n]
  OBVIOUS
<1> USE <1>a, <1>b
<1>1. /\ pc[t].at = "complete" /\ n \in Nodes \ {Root} /\ ThreadOK(t)
  BY CallFacts DEF CompleteChild, At, TrackingInv, ThreadsInv
<1>2. n \in Open \ {Root} /\ (n \in Dirs => progress.sent[n] = 1 /\ ~ Tracked(tracker, n))
  BY <1>1 DEF ThreadOK, Holding
<1>3. /\ p \in Dirs /\ p \in progress.discovered /\ n \in Outstanding(p)
      /\ Tracked(tracker, p) /\ ~ tracker[p].finalised /\ progress.sent[p] = 0 /\ p # n
  BY <1>2, ParentIsTracked DEF TrackingInv
<1>4. /\ progress \in [discovered : SUBSET Nodes, listed : SUBSET Dirs,
                       resolved : SUBSET (Nodes \ {Root}), sent : [Dirs -> Nat]]
      /\ progress' = [progress EXCEPT !.resolved = @ \cup {n}]
      /\ UNCHANGED <<fileQ, readyQ, rootDone>>
  BY DEF TrackingInv, ProgressInv, CompleteChild, queueVars
<1>5. /\ progress'.discovered = progress.discovered /\ progress'.listed = progress.listed
      /\ progress'.resolved = progress.resolved \cup {n} /\ progress'.sent = progress.sent
  BY <1>4
<1>6. /\ Open' = Open \ {n} /\ Outstanding(p)' = Outstanding(p) \ {n}
      /\ \A d : d # p => Outstanding(d)' = Outstanding(d)
      /\ \A d : Outstanding(d)' \subseteq Outstanding(d)
  BY <1>5 DEF Open, Outstanding, FoundIn
<1>7. ProgressInv'
  <2>1. n \in progress.discovered /\ n \in Nodes \ {Root}
    BY <1>1, <1>2 DEF Open
  <2> QED
    BY <1>4, <1>5, <2>1 DEF TrackingInv, ProgressInv
<1>8. /\ tracker' = SubtractPending(tracker, p, pc[t].still)
      /\ IF ReadyAfterChild(tracker', p) THEN Goto(t, "try_finalise", p) ELSE Return(t)
  BY DEF CompleteChild
<1>9. /\ DOMAIN tracker' = DOMAIN tracker
      /\ \A d \in DOMAIN tracker : d # p => tracker'[d] = tracker[d]
      /\ tracker'[p].pending = tracker[p].pending - 1
      /\ tracker'[p].finalised = tracker[p].finalised
      /\ tracker'[p].enumeration_done = tracker[p].enumeration_done
      /\ tracker[p].pending \in Int
  <2>1. tracker[p] \in DirState
    BY <1>3 DEF TypeInv, TrackerInv, Tracked
  <2>2. /\ DOMAIN tracker' = DOMAIN tracker
        /\ \A d \in DOMAIN tracker : d # p => tracker'[d] = tracker[d]
        /\ tracker'[p] = [tracker[p] EXCEPT !.pending = @ - 1,
                                            !.still_present = @ \/ pc[t].still]
    BY <1>3, <1>8 DEF SubtractPending, Update, Tracked
  <2> QED
    BY <2>1, <2>2 DEF DirState
<1>10. Cardinality(Outstanding(p)') = Cardinality(Outstanding(p)) - 1
  BY <1>3, <1>6, OutstandingFinite, CardinalityStep DEF TrackingInv
<1>11. DirsInv'
  <2> SUFFICES ASSUME NEW d \in Dirs PROVE DirOK(d)'
    BY DEF DirsInv
  <2>1. DirOK(d)
    BY DEF TrackingInv, DirsInv
  <2>2. d \in DOMAIN tracker => tracker'[d].finalised = tracker[d].finalised
                                /\ tracker'[d].enumeration_done = tracker[d].enumeration_done
    BY <1>9
  <2>3. d \in DOMAIN tracker => tracker'[d].pending = Cardinality(Outstanding(d)')
    <3>1. CASE d = p
      BY <1>9, <1>10, <2>1, <3>1 DEF DirOK, Tracked
    <3>2. CASE d # p
      BY <1>6, <1>9, <2>1, <3>2 DEF DirOK, Tracked
    <3> QED
      BY <3>1, <3>2
  <2>4. d \in DOMAIN tracker' <=> d \in DOMAIN tracker
    BY <1>9
  <2>5. Outstanding(d) = {} => Outstanding(d)' = {}
    BY <1>6
  <2>6. d \in progress'.resolved => ~ Tracked(tracker, d)
    BY <1>2, <1>5, <2>1 DEF DirOK
  <2> QED
    BY <1>5, <2>1, <2>2, <2>3, <2>4, <2>5, <2>6 DEF DirOK, Tracked
<1>12. PICK c : /\ pc' = [pc EXCEPT ![t] = c]
                /\ c.at \notin Holding
                /\ c.at \in {"recv", "try_finalise"}
                /\ c.at = "try_finalise" => c.node = p /\ ReadyAfterChild(tracker', p)
  <2>1. CASE ReadyAfterChild(tracker', p)
    <3>1. PICK x : x = [at |-> "try_finalise", node |-> p, still |-> FALSE]
      OBVIOUS
    <3>2. pc' = [pc EXCEPT ![t] = x] /\ x.at = "try_finalise" /\ x.node = p
      BY <1>8, <2>1, <3>1 DEF Goto
    <3>3. x.at \notin Holding
      BY <3>2 DEF Holding
    <3> QED
      BY <2>1, <3>2, <3>3
  <2>2. CASE ~ ReadyAfterChild(tracker', p)
    BY <1>8, <2>2, Idling DEF Return, Holding
  <2> QED
    BY <2>1, <2>2
<1>13. /\ pc'[t] = c
       /\ \A u \in Threads : u # t => pc'[u] = pc[u]
       /\ \A u \in Threads : \A m : u # t => (Holds(u, m)' <=> Holds(u, m))
       /\ \A m : Holds(t, m)' <=> c.at \in Holding /\ c.node = m
  BY <1>12, MovingOn
<1>14. \A u \in Threads \ {t} : ~ Holds(u, n)
  <2>1. Holds(t, n) /\ n \in Nodes
    BY <1>1 DEF Holds, Holding
  <2> QED
    BY <2>1 DEF TrackingInv, UniqueInv
<1>15. ASSUME NEW u \in Threads, u # t
       PROVE  ThreadOK(u)'
  <2>1. ThreadOK(u) /\ pc'[u] = pc[u]
    BY <1>13, <1>15 DEF TrackingInv, ThreadsInv
  <2>2. pc[u].at \in Holding => pc[u].node # n
    BY <1>14, <1>15 DEF Holds
  <2>3. \A d \in DOMAIN tracker : tracker'[d].finalised = tracker[d].finalised
    BY <1>9
  <2>4. pc[u].at = "try_finalise" => Outstanding(pc[u].node)' = {}
    <3>1. Outstanding(pc[u].node)' \subseteq Outstanding(pc[u].node)
      BY <1>6, <2>1
    <3> QED
      BY <2>1, <3>1 DEF ThreadOK
  <2> QED
    BY <1>5, <1>6, <1>9, <2>1, <2>2, <2>3, <2>4 DEF ThreadOK, Tracked
<1>16. ThreadOK(t)'
  <2>1. CASE c.at = "recv"
    BY <1>13, <2>1 DEF ThreadOK, Holding
  <2>2. CASE c.at = "try_finalise"
    <3>1. /\ tracker'[p].enumeration_done /\ tracker'[p].pending <= 0
      BY <1>12, <2>2 DEF ReadyAfterChild
    <3>2. p \in progress.listed
      BY <1>3, <1>9, <3>1 DEF TrackingInv, DirsInv, DirOK
    <3>3. tracker'[p].pending = Cardinality(Outstanding(p)')
      BY <1>3, <1>9, <1>11 DEF DirsInv, DirOK, Tracked
    <3>4. Outstanding(p)' = {}
      <4>1. IsFiniteSet(Outstanding(p)')
        BY <1>6, OutstandingFinite, FS_Subset DEF TrackingInv
      <4>2. Cardinality(Outstanding(p)') = 0
        BY <3>1, <3>3, <4>1, FS_CardinalityType
      <4> QED
        BY <4>1, <4>2, FS_EmptySet
    <3> QED
      BY <1>5, <1>12, <1>13, <2>2, <3>2, <3>4 DEF ThreadOK, Holding
  <2> QED
    BY <1>12, <2>1, <2>2
<1>17. UniqueInv'
  BY <1>12, UniqueKept DEF TrackingInv
<1>18. FilesQueued' /\ DirsQueued'
  <2>1. ASSUME NEW m \in Open, \A u \in Threads : ~ Holds(u, m)
        PROVE  m \in Open' /\ \A u \in Threads : ~ Holds(u, m)'
    <3>1. m # n
      BY <1>1, <2>1 DEF Holds, Holding
    <3>2. ASSUME NEW u \in Threads PROVE ~ Holds(u, m)'
      BY <1>12, <1>13, <2>1, <3>2
    <3> QED
      BY <1>6, <3>1, <3>2
  <2> QED
    BY <1>4, <1>5, <1>9, <2>1, QueuesKeep DEF TrackingInv, Tracked
<1>19. RootInv'
  <2>1. Shutdown' => Shutdown
    BY <1>12, <1>13, CoordinatorIsAThread DEF Shutdown
  <2> QED
    BY <1>4, <1>9, <2>1 DEF TrackingInv, RootInv, Tracked
<1> QED
  BY <1>7, <1>11, <1>15, <1>16, <1>17, <1>18, <1>19 DEF TrackingInv, ThreadsInv

\* try_finalise: at most one thread gets to send the directory.
LEMMA FinaliseOrder ==
    ASSUME TypeInv, TrackingInv, NEW t \in Threads, TryFinalise(t)
    PROVE  TrackingInv'
<1>a. PICK d : d = pc[t].node
  OBVIOUS
<1> USE <1>a
<1>1. /\ pc[t].at = "try_finalise" /\ d \in Dirs /\ d \in Nodes /\ ThreadOK(t)
      /\ UNCHANGED <<fileQ, readyQ, rootDone, progress>>
  BY CallFacts DEF TryFinalise, At, TrackingInv, ThreadsInv, queueVars
<1>2. d \in progress.listed /\ Outstanding(d) = {} /\ d \in progress.discovered
  BY <1>1 DEF ThreadOK, TrackingInv, ProgressInv
<1>3. CASE ~ MayFinalise(tracker, d)
  <2>1. pc' = [pc EXCEPT ![t] = Idle] /\ UNCHANGED tracker
    BY <1>3 DEF TryFinalise, Return
  <2>2. Idle.at \notin Holding \cup {"try_finalise", "join", "done"}
    BY Idling DEF Holding
  <2> QED
    BY <1>1, <2>1, <2>2, QuietOrder
<1>4. CASE MayFinalise(tracker, d)
  <2>1. PICK c : c = [at |-> "send", node |-> d, still |-> tracker[d].still_present]
    OBVIOUS
  <2>2. /\ tracker' = SetFinalised(tracker, d) /\ pc' = [pc EXCEPT ![t] = c]
        /\ c.at = "send" /\ c.node = d
        /\ Tracked(tracker, d) /\ ~ tracker[d].finalised
    BY <1>4, <2>1 DEF TryFinalise, MayFinalise
  <2>3. DirOK(d) /\ progress.sent[d] \in Nat
    BY <1>1 DEF TrackingInv, DirsInv, ProgressInv
  <2>4. progress.sent[d] = 0 /\ d \in Open
    BY <1>2, <2>2, <2>3 DEF DirOK, Open
  <2>5. /\ DOMAIN tracker' = DOMAIN tracker
        /\ \A e \in DOMAIN tracker : e # d => tracker'[e] = tracker[e]
        /\ tracker'[d].finalised /\ tracker'[d].pending = tracker[d].pending
        /\ tracker'[d].enumeration_done = tracker[d].enumeration_done
    <3>1. tracker[d] \in DirState
      BY <2>2 DEF TypeInv, TrackerInv, Tracked
    <3>2. /\ DOMAIN tracker' = DOMAIN tracker
          /\ \A e \in DOMAIN tracker : e # d => tracker'[e] = tracker[e]
          /\ tracker'[d] = [tracker[d] EXCEPT !.finalised = TRUE]
      BY <2>2 DEF SetFinalised, Update, Tracked
    <3> QED
      BY <3>1, <3>2 DEF DirState
  <2>6. \A u \in Threads : ~ Holds(u, d)
    <3> SUFFICES ASSUME NEW u \in Threads, Holds(u, d) PROVE FALSE
      OBVIOUS
    <3>1. ThreadOK(u) /\ pc[u].at \in Holding /\ pc[u].node = d
      BY DEF TrackingInv, ThreadsInv, Holds
    <3>2. pc[u].at \in {"attempt", "complete", "send"}
      BY <1>1, <3>1, CallFacts DEF Holding
    <3> QED
      BY <1>1, <2>2, <2>3, <2>4, <3>1, <3>2 DEF ThreadOK
  <2>7. /\ Open' = Open /\ \A e : Outstanding(e)' = Outstanding(e)
    BY <1>1 DEF Open, Outstanding, FoundIn
  <2>8. /\ pc'[t] = c
        /\ \A u \in Threads : u # t => pc'[u] = pc[u]
        /\ \A u \in Threads : \A m : u # t => (Holds(u, m)' <=> Holds(u, m))
        /\ \A m : Holds(t, m)' <=> c.at \in Holding /\ c.node = m
    BY <2>2, MovingOn
  <2>9. ProgressInv'
    BY <1>1 DEF TrackingInv, ProgressInv
  <2>10. DirsInv'
    <3> SUFFICES ASSUME NEW e \in Dirs PROVE DirOK(e)'
      BY DEF DirsInv
    <3>1. DirOK(e)
      BY DEF TrackingInv, DirsInv
    <3>2. CASE e = d
      BY <1>1, <1>2, <2>5, <2>7, <3>1, <3>2 DEF DirOK, Tracked
    <3>3. CASE e # d
      BY <1>1, <2>5, <2>7, <3>1, <3>3 DEF DirOK, Tracked
    <3> QED
      BY <3>2, <3>3
  <2>11. ThreadsInv'
    <3> SUFFICES ASSUME NEW u \in Threads PROVE ThreadOK(u)'
      BY DEF ThreadsInv
    <3>1. CASE u = t
      BY <1>1, <2>2, <2>4, <2>5, <2>7, <2>8, <3>1 DEF ThreadOK, Tracked
    <3>2. CASE u # t
      <4>1. ThreadOK(u) /\ pc'[u] = pc[u]
        BY <2>8, <3>2 DEF TrackingInv, ThreadsInv
      <4>2. pc[u].at = "send" => pc[u].node # d
        BY <2>6 DEF Holds, Holding
      <4> QED
        BY <1>1, <2>5, <2>7, <4>1, <4>2 DEF ThreadOK, Tracked
    <3> QED
      BY <3>1, <3>2
  <2>12. UniqueInv'
    BY <2>2, <2>6, UniqueKept DEF TrackingInv
  <2>13. FilesQueued' /\ DirsQueued'
    <3>1. \A i \in 1 .. Len(readyQ) : readyQ[i].dir # d
      BY <2>4 DEF TrackingInv, DirsQueued
    <3>2. \A i \in 1 .. Len(fileQ) : fileQ[i] # d
      BY <1>1, PipelineAssumption DEF TypeInv, FileQInv, Deletable
    <3>3. \A m : m # d /\ (\A u \in Threads : ~ Holds(u, m)) => \A u \in Threads : ~ Holds(u, m)'
      BY <2>2, <2>8
    <3>4. FilesQueued'
      BY <1>1, <2>7, <3>2, <3>3 DEF TrackingInv, FilesQueued
    <3>5. DirsQueued'
      BY <1>1, <2>5, <2>7, <3>1, <3>3 DEF TrackingInv, DirsQueued, Tracked
    <3> QED
      BY <3>4, <3>5
  <2>14. RootInv'
    <3>1. Shutdown' => Shutdown
      BY <2>2, <2>8, CoordinatorIsAThread DEF Shutdown
    <3> QED
      BY <1>1, <2>5, <3>1 DEF TrackingInv, RootInv, Tracked
  <2> QED
    BY <2>9, <2>10, <2>11, <2>12, <2>13, <2>14 DEF TrackingInv
<1> QED
  BY <1>3, <1>4

\* A channel one longer.
LEMMA Longer ==
    ASSUME NEW S, NEW q \in Seq(S), NEW e \in S, NEW r, r = Append(q, e)
    PROVE  /\ Len(q) \in Nat /\ Len(r) = Len(q) + 1 /\ r[Len(q) + 1] = e
           /\ \A i \in 1 .. Len(q) : i \in 1 .. Len(r) /\ r[i] = q[i]
           /\ \A i \in 1 .. Len(r) : i \in 1 .. Len(q) \/ i = Len(q) + 1
<1>1. Len(q) \in Nat /\ Len(r) = Len(q) + 1 /\ r[Len(q) + 1] = e
  OBVIOUS
<1>2. \A i \in 1 .. Len(q) : r[i] = q[i]
  OBVIOUS
<1> QED
  BY <1>1, <1>2

\* The same for a channel one shorter.
LEMMA Shorter ==
    ASSUME NEW S, NEW q \in Seq(S), q # <<>>, NEW r, r = Tail(q)
    PROVE  /\ Len(q) \in Nat /\ Len(r) = Len(q) - 1
           /\ 1 \in 1 .. Len(q) /\ Head(q) = q[1] /\ Head(q) \in S
           /\ \A i \in 1 .. Len(r) : i + 1 \in 1 .. Len(q) /\ i + 1 # 1 /\ r[i] = q[i + 1]
<1>1. /\ Len(q) \in Nat \ {0} /\ Len(r) = Len(q) - 1 /\ Head(q) = q[1] /\ Head(q) \in S
      /\ \A i \in 1 .. Len(r) : r[i] = q[i + 1]
  BY HeadTailProperties
<1> QED
  BY <1>1

\* What it takes for the channels to be in order after a step.
LEMMA FilesInPlace ==
    ASSUME \A i \in 1 .. Len(fileQ') : \A m : m = fileQ'[i] =>
               m \in Open' /\ \A u \in Threads : ~ Holds(u, m)',
           \A i, j \in 1 .. Len(fileQ') : fileQ'[i] = fileQ'[j] => i = j
    PROVE  FilesQueued'
<1>1. ASSUME NEW i \in 1 .. Len(fileQ')
      PROVE  fileQ'[i] \in Open' /\ \A u \in Threads :
                 ~ (pc'[u].at \in Holding /\ pc'[u].node = fileQ'[i])
  <2>1. PICK m : m = fileQ'[i]
    OBVIOUS
  <2>2. m \in Open' /\ \A u \in Threads : ~ Holds(u, m)'
    BY <2>1
  <2> QED
    BY <2>1, <2>2 DEF Holds
<1> QED
  BY <1>1 DEF FilesQueued, Holds

\* The same for the channel of directories.
LEMMA DirsInPlace ==
    ASSUME \A i \in 1 .. Len(readyQ') : \A m : m = readyQ'[i].dir =>
               /\ m \in Open' /\ progress'.sent[m] = 1 /\ Tracked(tracker', m)
               /\ \A u \in Threads : ~ Holds(u, m)',
           \A i, j \in 1 .. Len(readyQ') : readyQ'[i].dir = readyQ'[j].dir => i = j
    PROVE  DirsQueued'
<1>1. ASSUME NEW i \in 1 .. Len(readyQ')
      PROVE  /\ readyQ'[i].dir \in Open' /\ progress'.sent[readyQ'[i].dir] = 1
             /\ Tracked(tracker', readyQ'[i].dir)
             /\ \A u \in Threads :
                    ~ (pc'[u].at \in Holding /\ pc'[u].node = readyQ'[i].dir)
  <2>1. PICK m : m = readyQ'[i].dir
    OBVIOUS
  <2>2. /\ m \in Open' /\ progress'.sent[m] = 1 /\ Tracked(tracker', m)
        /\ \A u \in Threads : ~ Holds(u, m)'
    BY <2>1
  <2> QED
    BY <2>1, <2>2 DEF Holds
<1> QED
  BY <1>1 DEF DirsQueued, Holds

\* A thread sends a directory that is listed and in which nothing is outstanding.
LEMMA SendOrder ==
    ASSUME TypeInv, TrackingInv, NEW t \in Threads, SendReady(t)
    PROVE  TrackingInv'
<1>a. PICK d : d = pc[t].node
  OBVIOUS
<1> USE <1>a
<1>1. /\ pc[t].at = "send" /\ d \in Dirs /\ ThreadOK(t) /\ pc[t].still \in BOOLEAN
      /\ UNCHANGED <<fileQ, rootDone, tracker>> /\ pc' = [pc EXCEPT ![t] = Idle]
  BY CallFacts DEF SendReady, At, TrackingInv, ThreadsInv, Return
<1>2. /\ d \in Open /\ progress.sent[d] = 0 /\ Tracked(tracker, d) /\ tracker[d].finalised
      /\ Holds(t, d) /\ d \in Nodes
  BY <1>1, Leafs DEF ThreadOK, Holding, Holds
<1>3. d \in progress.listed /\ Outstanding(d) = {}
  BY <1>1, <1>2 DEF TrackingInv, DirsInv, DirOK
<1>4. /\ progress \in [discovered : SUBSET Nodes, listed : SUBSET Dirs,
                       resolved : SUBSET (Nodes \ {Root}), sent : [Dirs -> Nat]]
      /\ progress' = [progress EXCEPT !.sent[d] = @ + 1]
  BY DEF TrackingInv, ProgressInv, SendReady
<1>5. /\ progress'.discovered = progress.discovered /\ progress'.listed = progress.listed
      /\ progress'.resolved = progress.resolved
      /\ progress'.sent = [progress.sent EXCEPT ![d] = @ + 1]
  BY <1>4
<1>6. /\ progress'.sent \in [Dirs -> Nat] /\ progress'.sent[d] = 1
      /\ \A e \in Dirs : e # d => progress'.sent[e] = progress.sent[e]
  BY <1>1, <1>2, <1>4, <1>5
<1>7. /\ Open' = Open /\ \A e : Outstanding(e)' = Outstanding(e)
  BY <1>5 DEF Open, Outstanding, FoundIn
<1>8. ProgressInv'
  <2>1. progress' \in [discovered : SUBSET Nodes, listed : SUBSET Dirs,
                       resolved : SUBSET (Nodes \ {Root}), sent : [Dirs -> Nat]]
    BY <1>4, <1>5, <1>6
  <2> QED
    BY <1>5, <2>1 DEF TrackingInv, ProgressInv
<1>9. PICK c : c = Idle /\ c.at = "recv" /\ c.at \notin Holding
  BY Idling DEF Holding
<1>10. /\ pc'[t] = c
       /\ \A u \in Threads : u # t => pc'[u] = pc[u]
       /\ \A u \in Threads : \A m : u # t => (Holds(u, m)' <=> Holds(u, m))
       /\ \A m : ~ Holds(t, m)'
  BY <1>1, <1>9, MovingOn
<1>11. \A u \in Threads \ {t} : ~ Holds(u, d)
  BY <1>2 DEF TrackingInv, UniqueInv
<1>12. ThreadsInv'
  <2> SUFFICES ASSUME NEW u \in Threads PROVE ThreadOK(u)'
    BY DEF ThreadsInv
  <2>1. CASE u = t
    BY <1>9, <1>10, <2>1 DEF ThreadOK, Holding
  <2>2. CASE u # t
    <3>1. ThreadOK(u) /\ pc'[u] = pc[u]
      BY <1>10, <2>2 DEF TrackingInv, ThreadsInv
    <3>2. pc[u].at \in Holding => pc[u].node # d
      BY <1>11, <2>2 DEF Holds
    <3>3. pc[u].at \in {"send", "attempt"} => pc[u].node \in Dirs
      BY CallFacts
    <3> QED
      BY <1>1, <1>5, <1>6, <1>7, <3>1, <3>2, <3>3 DEF ThreadOK, Holding
  <2> QED
    BY <2>1, <2>2
<1>13. UniqueInv'
  BY <1>1, <1>9, UniqueKept DEF TrackingInv
<1>14. FilesQueued'
  <2>1. \A m : (\A u \in Threads : ~ Holds(u, m)) => \A u \in Threads : ~ Holds(u, m)'
    BY <1>10
  <2> QED
    BY <1>1, <1>7, <2>1 DEF TrackingInv, FilesQueued
<1>15. DirsQueued'
  <2>a. PICK m : m = [dir |-> d, simulated_non_empty |-> pc[t].still]
    OBVIOUS
  <2>1. readyQ \in Seq(ReadyType) /\ m \in ReadyType /\ readyQ' = Append(readyQ, m)
        /\ m.dir = d
    BY <1>1, <2>a DEF TypeInv, ReadyQInv, ReadyType, SendReady
  <2>2. /\ Len(readyQ) \in Nat /\ Len(readyQ') = Len(readyQ) + 1 /\ readyQ'[Len(readyQ) + 1] = m
        /\ \A i \in 1 .. Len(readyQ) : i \in 1 .. Len(readyQ') /\ readyQ'[i] = readyQ[i]
        /\ \A i \in 1 .. Len(readyQ') : i \in 1 .. Len(readyQ) \/ i = Len(readyQ) + 1
    BY <2>1, Longer
  <2>3. \A i \in 1 .. Len(readyQ) : readyQ[i].dir # d
    BY <1>2 DEF TrackingInv, DirsQueued
  <2>4. ASSUME NEW i \in 1 .. Len(readyQ'), NEW e, e = readyQ'[i].dir
        PROVE  /\ e \in Open' /\ progress'.sent[e] = 1 /\ Tracked(tracker', e)
               /\ \A u \in Threads : ~ Holds(u, e)'
    <3>1. CASE i = Len(readyQ) + 1
      <4>1. \A u \in Threads : ~ Holds(u, d)'
        BY <1>10, <1>11
      <4>2. e = d
        BY <2>1, <2>2, <2>4, <3>1
      <4> QED
        BY <1>1, <1>2, <1>6, <1>7, <4>1, <4>2
    <3>2. CASE i \in 1 .. Len(readyQ)
      <4>1. e = readyQ[i].dir /\ readyQ[i] \in ReadyType
        BY <2>1, <2>2, <2>4, <3>2
      <4>2. e \in Open /\ progress.sent[e] = 1 /\ Tracked(tracker, e)
            /\ (\A u \in Threads : ~ Holds(u, e)) /\ e # d
        BY <2>3, <3>2, <4>1 DEF TrackingInv, DirsQueued
      <4>3. e \in Dirs
        BY <4>1 DEF ReadyType
      <4>4. \A u \in Threads : ~ Holds(u, e)'
        BY <1>10, <4>2
      <4> QED
        BY <1>1, <1>6, <1>7, <4>2, <4>3, <4>4
    <3> QED
      BY <2>2, <3>1, <3>2
  <2>5. \A i, j \in 1 .. Len(readyQ') : readyQ'[i].dir = readyQ'[j].dir => i = j
    <3> SUFFICES ASSUME NEW i \in 1 .. Len(readyQ'), NEW j \in 1 .. Len(readyQ'),
                        readyQ'[i].dir = readyQ'[j].dir
                 PROVE  i = j
      OBVIOUS
    <3>1. \A k, l \in 1 .. Len(readyQ) : readyQ[k].dir = readyQ[l].dir => k = l
      BY DEF TrackingInv, DirsQueued
    <3> QED
      BY <2>1, <2>2, <2>3, <3>1
  <2> QED
    BY <2>4, <2>5, DirsInPlace
<1>16. DirsInv'
  <2> SUFFICES ASSUME NEW e \in Dirs PROVE DirOK(e)'
    BY DEF DirsInv
  <2>1. DirOK(e)
    BY DEF TrackingInv, DirsInv
  <2>2. CASE e = d
    BY <1>1, <1>2, <1>3, <1>5, <1>6, <1>7, <2>1, <2>2 DEF DirOK
  <2>3. CASE e # d
    BY <1>1, <1>5, <1>6, <1>7, <2>1, <2>3 DEF DirOK
  <2> QED
    BY <2>2, <2>3
<1>17. RootInv'
  <2>1. Shutdown' => Shutdown
    BY <1>9, <1>10, CoordinatorIsAThread DEF Shutdown
  <2> QED
    BY <1>1, <2>1 DEF TrackingInv, RootInv
<1> QED
  BY <1>8, <1>12, <1>13, <1>14, <1>15, <1>16, <1>17 DEF TrackingInv

\* A directory is forgotten, and its entry in the directory above is to be
\* completed, or the root is done with.
LEMMA FinishOrder ==
    ASSUME TypeInv, TrackingInv, NEW t \in Threads, pc[t].at = "attempt", NEW s,
           Finish(t, pc[t].node, s), UNCHANGED <<fileQ, readyQ, progress>>
    PROVE  TrackingInv'
<1>a. PICK d : d = pc[t].node
  OBVIOUS
<1> USE <1>a
<1>1. d \in Dirs /\ ThreadOK(t) /\ d \in Nodes
  BY CallFacts DEF TrackingInv, ThreadsInv
<1>2. /\ d \in Open /\ progress.sent[d] = 1 /\ Tracked(tracker, d) /\ Holds(t, d)
  BY <1>1 DEF ThreadOK, Holding, Holds
<1>3. /\ DOMAIN tracker' = DOMAIN tracker \ {d}
      /\ \A e \in DOMAIN tracker : e # d => tracker'[e] = tracker[e]
  BY DEF Finish, Remove
<1>4. /\ Open' = Open /\ \A e : Outstanding(e)' = Outstanding(e)
  BY DEF Open, Outstanding, FoundIn
<1>5. PICK c : /\ pc' = [pc EXCEPT ![t] = c]
               /\ \/ c.at = "recv" /\ d = Root
                  \/ c.at = "complete" /\ c.node = d /\ d # Root /\ UNCHANGED rootDone
  <2>1. CASE d = Root
    BY <2>1, Idling DEF Finish, Return
  <2>2. CASE d # Root
    <3>1. PICK x : x = [at |-> "complete", node |-> d, still |-> s]
      OBVIOUS
    <3>2. pc' = [pc EXCEPT ![t] = x] /\ x.at = "complete" /\ x.node = d /\ UNCHANGED rootDone
      BY <2>2, <3>1 DEF Finish, Complete
    <3> QED
      BY <2>2, <3>2
  <2> QED
    BY <2>1, <2>2
<1>6. /\ pc'[t] = c
      /\ \A u \in Threads : u # t => pc'[u] = pc[u]
      /\ \A u \in Threads : \A m : u # t => (Holds(u, m)' <=> Holds(u, m))
      /\ \A m : Holds(t, m)' <=> c.at \in Holding /\ c.node = m
  BY <1>5, MovingOn
<1>7. \A u \in Threads \ {t} : ~ Holds(u, d)
  BY <1>1, <1>2 DEF TrackingInv, UniqueInv
<1>8. c.at \in Holding => c.node = d
  BY <1>5 DEF Holding
<1>9. ProgressInv'
  BY DEF TrackingInv, ProgressInv
<1>10. DirsInv'
  <2> SUFFICES ASSUME NEW e \in Dirs PROVE DirOK(e)'
    BY DEF DirsInv
  <2>1. DirOK(e)
    BY DEF TrackingInv, DirsInv
  <2>2. CASE e = d
    BY <1>2, <1>3, <1>4, <2>1, <2>2 DEF DirOK, Tracked
  <2>3. CASE e # d
    BY <1>3, <1>4, <2>1, <2>3 DEF DirOK, Tracked
  <2> QED
    BY <2>2, <2>3
<1>11. ThreadsInv'
  <2> SUFFICES ASSUME NEW u \in Threads PROVE ThreadOK(u)'
    BY DEF ThreadsInv
  <2>1. CASE u = t
    BY <1>2, <1>3, <1>4, <1>5, <1>6, <2>1 DEF ThreadOK, Holding, Tracked
  <2>2. CASE u # t
    <3>1. ThreadOK(u) /\ pc'[u] = pc[u]
      BY <1>6, <2>2 DEF TrackingInv, ThreadsInv
    <3>2. pc[u].at \in Holding => pc[u].node # d
      BY <1>7, <2>2 DEF Holds
    <3>3. /\ pc[u].at = "complete" => pc[u].at \in Holding
          /\ pc[u].at = "attempt" => pc[u].at \in Holding
          /\ pc[u].at = "send" => pc[u].at \in Holding
      BY DEF Holding
    <3> QED
      BY <1>3, <1>4, <3>1, <3>2, <3>3 DEF ThreadOK, Tracked
  <2> QED
    BY <2>1, <2>2
<1>12. UniqueInv'
  BY <1>5, <1>7, <1>8, UniqueKept DEF TrackingInv
<1>13. \A m \in Nodes : (\A u \in Threads : ~ Holds(u, m)) => \A u \in Threads : ~ Holds(u, m)'
  <2> SUFFICES ASSUME NEW m, \A u \in Threads : ~ Holds(u, m), NEW u \in Threads
               PROVE  ~ Holds(u, m)'
    OBVIOUS
  <2>1. m # d
    BY <1>2
  <2> QED
    BY <1>6, <1>8, <2>1
<1>14. FilesQueued' /\ DirsQueued'
  <2>1. \A m \in Open : m \in Nodes
    BY DEF Open, TrackingInv, ProgressInv
  <2>2. \A e : (\A u \in Threads : ~ Holds(u, e)) => e # d
    BY <1>2
  <2> QED
    BY <1>3, <1>4, <1>13, <2>1, <2>2, QueuesKeep DEF TrackingInv, Tracked
<1>15. RootInv'
  <2>1. Shutdown' => Shutdown
    BY <1>5, <1>6, CoordinatorIsAThread DEF Shutdown
  <2>2. CASE d = Root
    BY <1>3, <2>2 DEF RootInv, Tracked
  <2>3. CASE d # Root
    BY <1>3, <1>5, <2>1, <2>3 DEF TrackingInv, RootInv, Tracked
  <2> QED
    BY <2>2, <2>3
<1> QED
  BY <1>9, <1>10, <1>11, <1>12, <1>14, <1>15 DEF TrackingInv

\* The coordinator queues a leaf.
LEMMA EnqueueOrder ==
    ASSUME TypeInv, TrackingInv, CoordinatorEnqueue
    PROVE  TrackingInv'
<1>a. PICK t \in Threads : t = Coordinator
  BY CoordinatorIsAThread
<1>b. PICK n : n = pc[t].node
  OBVIOUS
<1> USE <1>a, <1>b
<1>1. /\ pc[t].at = "enqueue" /\ n \in Nodes /\ n \notin Dirs /\ ThreadOK(t)
      /\ UNCHANGED <<readyQ, rootDone, tracker, progress>> /\ pc' = [pc EXCEPT ![t] = Idle]
      /\ fileQ' = Append(fileQ, n)
  BY CallFacts DEF CoordinatorEnqueue, At, TrackingInv, ThreadsInv, Return
<1>2. n \in Open /\ Holds(t, n)
  BY <1>1 DEF ThreadOK, Holding, Holds
<1>3. PICK c : c = Idle /\ c.at = "recv" /\ c.at \notin Holding
  BY Idling DEF Holding
<1>4. /\ pc'[t] = c
      /\ \A u \in Threads : \A m : u # t => (Holds(u, m)' <=> Holds(u, m))
      /\ \A m : ~ Holds(t, m)'
  BY <1>1, <1>3, MovingOn
<1>5. ThreadOK(t)'
  BY <1>3, <1>4 DEF ThreadOK, Holding
<1>6. ProgressInv' /\ ThreadsInv' /\ DirsInv' /\ Open' = Open
  BY <1>1, <1>5, MapAlone DEF TrackingInv
<1>7. UniqueInv'
  BY <1>1, <1>3, UniqueKept DEF TrackingInv
<1>8. \A u \in Threads \ {t} : ~ Holds(u, n)
  BY <1>1, <1>2 DEF TrackingInv, UniqueInv
<1>9. \A m : (\A u \in Threads : ~ Holds(u, m)) => \A u \in Threads : ~ Holds(u, m)'
  BY <1>4
<1>10. DirsQueued'
  BY <1>1, <1>6, <1>9 DEF TrackingInv, DirsQueued
<1>11. FilesQueued'
  <2>1. fileQ \in Seq(Nodes)
    <3>1. fileQ \in Seq(Deletable) /\ Deletable \subseteq Nodes
      BY Leafs DEF TypeInv, FileQInv, Deletable
    <3> QED
      BY <3>1
  <2>2. /\ Len(fileQ) \in Nat /\ Len(fileQ') = Len(fileQ) + 1 /\ fileQ'[Len(fileQ) + 1] = n
        /\ \A i \in 1 .. Len(fileQ) : i \in 1 .. Len(fileQ') /\ fileQ'[i] = fileQ[i]
        /\ \A i \in 1 .. Len(fileQ') : i \in 1 .. Len(fileQ) \/ i = Len(fileQ) + 1
    BY <1>1, <2>1, Longer
  <2>3. \A i \in 1 .. Len(fileQ) : fileQ[i] # n
    BY <1>2 DEF TrackingInv, FilesQueued
  <2>4. ASSUME NEW i \in 1 .. Len(fileQ'), NEW m, m = fileQ'[i]
        PROVE  m \in Open' /\ \A u \in Threads : ~ Holds(u, m)'
    <3>1. CASE i = Len(fileQ) + 1
      <4>1. \A u \in Threads : ~ Holds(u, n)'
        BY <1>4, <1>8
      <4>2. m = n
        BY <2>2, <2>4, <3>1
      <4> QED
        BY <1>2, <1>6, <4>1, <4>2
    <3>2. CASE i \in 1 .. Len(fileQ)
      <4>1. m = fileQ[i]
        BY <2>2, <2>4, <3>2
      <4>2. m \in Open /\ \A u \in Threads : ~ Holds(u, m)
        BY <3>2, <4>1 DEF TrackingInv, FilesQueued
      <4>3. \A u \in Threads : ~ Holds(u, m)'
        BY <1>9, <4>2
      <4> QED
        BY <1>6, <4>2, <4>3
    <3> QED
      BY <2>2, <3>1, <3>2
  <2>5. \A i, j \in 1 .. Len(fileQ') : fileQ'[i] = fileQ'[j] => i = j
    <3>1. \A k, l \in 1 .. Len(fileQ) : fileQ[k] = fileQ[l] => k = l
      BY DEF TrackingInv, FilesQueued
    <3> SUFFICES ASSUME NEW i \in 1 .. Len(fileQ'), NEW j \in 1 .. Len(fileQ'),
                        fileQ'[i] = fileQ'[j]
                 PROVE  i = j
      OBVIOUS
    <3> QED
      BY <2>2, <2>3, <3>1
  <2> QED
    BY <2>4, <2>5, FilesInPlace
<1>12. RootInv'
  BY <1>1, <1>3, <1>4 DEF TrackingInv, RootInv, Shutdown
<1> QED
  BY <1>6, <1>7, <1>10, <1>11, <1>12 DEF TrackingInv

\* A worker takes the leaf at the head of its channel.
LEMMA FileReceiveOrder ==
    ASSUME TypeInv, TrackingInv, NEW t \in Threads, t # Coordinator, FileReceive(t)
    PROVE  TrackingInv'
<1>a. PICK n : n = Head(fileQ)
  OBVIOUS
<1>b. PICK c : c = [at |-> "acquire", node |-> n, still |-> FALSE]
  OBVIOUS
<1> USE <1>a, <1>b
<1>1. /\ pc[t].at = "recv" /\ fileQ # <<>> /\ fileQ' = Tail(fileQ)
      /\ UNCHANGED <<readyQ, rootDone, tracker, progress>> /\ pc' = [pc EXCEPT ![t] = c]
  BY DEF FileReceive, At, Goto
<1>2. fileQ \in Seq(Leaves)
  <2>1. fileQ \in Seq(Deletable) /\ Deletable \subseteq Leaves
    BY DEF TypeInv, FileQInv, Deletable
  <2> QED
    BY <2>1
<1>3. /\ Len(fileQ) \in Nat /\ Len(fileQ') = Len(fileQ) - 1
      /\ 1 \in 1 .. Len(fileQ) /\ n = fileQ[1] /\ n \in Leaves
      /\ \A i \in 1 .. Len(fileQ') :
            i + 1 \in 1 .. Len(fileQ) /\ i + 1 # 1 /\ fileQ'[i] = fileQ[i + 1]
  BY <1>1, <1>2, Shorter
<1>4. n \in Open /\ n \notin Dirs /\ \A u \in Threads : ~ Holds(u, n)
  BY <1>3, PipelineAssumption DEF TrackingInv, FilesQueued
<1>5. /\ pc'[t] = c /\ pc'[Coordinator] = pc[Coordinator]
      /\ \A u \in Threads : \A m : u # t => (Holds(u, m)' <=> Holds(u, m))
      /\ \A m : Holds(t, m)' <=> c.at \in Holding /\ c.node = m
  BY ONLY TypeInv, t \in Threads, t # Coordinator, <1>1, MovingOn, CoordinatorIsAThread
<1>6. ThreadOK(t)'
  <2>1. Open' = Open
    BY <1>1 DEF Open
  <2> QED
    BY <1>4, <1>5, <2>1 DEF ThreadOK, Holding
<1>7. ProgressInv' /\ ThreadsInv' /\ DirsInv' /\ Open' = Open
  BY <1>1, <1>6, MapAlone DEF TrackingInv
<1>8. UniqueInv'
  BY <1>1, <1>4, UniqueKept DEF TrackingInv
<1>9. \A m : m # n /\ (\A u \in Threads : ~ Holds(u, m)) => \A u \in Threads : ~ Holds(u, m)'
  BY <1>5
<1>10. DirsQueued'
  <2>1. ASSUME NEW i \in 1 .. Len(readyQ)
        PROVE  readyQ[i].dir \in Dirs
    <3>1. readyQ[i] \in ReadyType
      BY DEF TypeInv, ReadyQInv
    <3> QED
      BY <3>1 DEF ReadyType
  <2> QED
    BY <1>1, <1>4, <1>7, <1>9, <2>1 DEF TrackingInv, DirsQueued
<1>11. FilesQueued'
  <2>1. \A k, l \in 1 .. Len(fileQ) : fileQ[k] = fileQ[l] => k = l
    BY DEF TrackingInv, FilesQueued
  <2>2. ASSUME NEW i \in 1 .. Len(fileQ'), NEW m, m = fileQ'[i]
        PROVE  m \in Open' /\ \A u \in Threads : ~ Holds(u, m)'
    <3>1. i + 1 \in 1 .. Len(fileQ) /\ i + 1 # 1 /\ m = fileQ[i + 1]
      BY <1>3, <2>2
    <3>2. m \in Open /\ (\A u \in Threads : ~ Holds(u, m)) /\ m # n
      BY <1>3, <2>1, <3>1 DEF TrackingInv, FilesQueued
    <3> QED
      BY <1>7, <1>9, <3>2
  <2>3. ASSUME NEW i \in 1 .. Len(fileQ'), NEW j \in 1 .. Len(fileQ'), fileQ'[i] = fileQ'[j]
        PROVE  i = j
    <3>1. i + 1 = j + 1
      BY <1>3, <2>1, <2>3
    <3> QED
      BY <3>1
  <2> QED
    BY <2>2, <2>3, FilesInPlace
<1>12. RootInv'
  BY <1>1, <1>5 DEF TrackingInv, RootInv, Shutdown
<1> QED
  BY <1>7, <1>8, <1>10, <1>11, <1>12 DEF TrackingInv

\* A worker takes the directory at the head of its channel.
LEMMA DirReceiveOrder ==
    ASSUME TypeInv, TrackingInv, NEW t \in Threads, t # Coordinator, DirReceive(t)
    PROVE  TrackingInv'
<1>a. PICK d : d = Head(readyQ).dir
  OBVIOUS
<1>b. PICK c : c = [at |-> "attempt", node |-> d, still |-> Head(readyQ).simulated_non_empty]
  OBVIOUS
<1> USE <1>a, <1>b
<1>1. /\ pc[t].at = "recv" /\ readyQ # <<>> /\ readyQ' = Tail(readyQ)
      /\ UNCHANGED <<fileQ, rootDone, tracker, progress>> /\ pc' = [pc EXCEPT ![t] = c]
  BY DEF DirReceive, At
<1>2. readyQ \in Seq(ReadyType)
  BY DEF TypeInv, ReadyQInv
<1>3. /\ Len(readyQ) \in Nat /\ Len(readyQ') = Len(readyQ) - 1
      /\ 1 \in 1 .. Len(readyQ) /\ d = readyQ[1].dir /\ d \in Dirs
      /\ \A i \in 1 .. Len(readyQ') :
            i + 1 \in 1 .. Len(readyQ) /\ i + 1 # 1 /\ readyQ'[i] = readyQ[i + 1]
  <2>1. /\ Len(readyQ) \in Nat /\ Len(readyQ') = Len(readyQ) - 1
        /\ 1 \in 1 .. Len(readyQ) /\ Head(readyQ) = readyQ[1] /\ Head(readyQ) \in ReadyType
        /\ \A i \in 1 .. Len(readyQ') :
              i + 1 \in 1 .. Len(readyQ) /\ i + 1 # 1 /\ readyQ'[i] = readyQ[i + 1]
    BY <1>1, <1>2, Shorter
  <2>2. Head(readyQ).dir \in Dirs
    BY <2>1 DEF ReadyType
  <2> QED
    BY <2>1, <2>2
<1>4. /\ d \in Open /\ progress.sent[d] = 1 /\ Tracked(tracker, d)
      /\ \A u \in Threads : ~ Holds(u, d)
  BY <1>3 DEF TrackingInv, DirsQueued
<1>5. /\ pc'[t] = c /\ pc'[Coordinator] = pc[Coordinator]
      /\ \A u \in Threads : \A m : u # t => (Holds(u, m)' <=> Holds(u, m))
      /\ \A m : Holds(t, m)' <=> c.at \in Holding /\ c.node = m
  BY ONLY TypeInv, t \in Threads, t # Coordinator, <1>1, MovingOn, CoordinatorIsAThread
<1>6. ThreadOK(t)'
  <2>1. Open' = Open
    BY <1>1 DEF Open
  <2> QED
    BY <1>1, <1>4, <1>5, <2>1 DEF ThreadOK, Holding
<1>7. ProgressInv' /\ ThreadsInv' /\ DirsInv' /\ Open' = Open
  BY <1>1, <1>6, MapAlone DEF TrackingInv
<1>8. UniqueInv'
  BY <1>1, <1>4, UniqueKept DEF TrackingInv
<1>9. \A m : m # d /\ (\A u \in Threads : ~ Holds(u, m)) => \A u \in Threads : ~ Holds(u, m)'
  BY <1>5
<1>10. FilesQueued'
  <2>1. \A i \in 1 .. Len(fileQ) : fileQ[i] # d
    BY <1>3, PipelineAssumption DEF TypeInv, FileQInv, Deletable
  <2> QED
    BY <1>1, <1>7, <1>9, <2>1 DEF TrackingInv, FilesQueued
<1>11. DirsQueued'
  <2>1. \A k, l \in 1 .. Len(readyQ) : readyQ[k].dir = readyQ[l].dir => k = l
    BY DEF TrackingInv, DirsQueued
  <2>2. ASSUME NEW i \in 1 .. Len(readyQ'), NEW m, m = readyQ'[i].dir
        PROVE  /\ m \in Open' /\ progress'.sent[m] = 1 /\ Tracked(tracker', m)
               /\ \A u \in Threads : ~ Holds(u, m)'
    <3>1. i + 1 \in 1 .. Len(readyQ) /\ i + 1 # 1 /\ m = readyQ[i + 1].dir
      BY <1>3, <2>2
    <3>2. /\ m \in Open /\ progress.sent[m] = 1 /\ Tracked(tracker, m)
          /\ (\A u \in Threads : ~ Holds(u, m)) /\ m # d
      BY <1>3, <2>1, <3>1 DEF TrackingInv, DirsQueued
    <3> QED
      BY <1>1, <1>7, <1>9, <3>2
  <2>3. ASSUME NEW i \in 1 .. Len(readyQ'), NEW j \in 1 .. Len(readyQ'),
               readyQ'[i].dir = readyQ'[j].dir
        PROVE  i = j
    <3>1. i + 1 = j + 1
      BY <1>3, <2>1, <2>3
    <3> QED
      BY <3>1
  <2> QED
    BY <2>2, <2>3, DirsInPlace
<1>12. RootInv'
  BY <1>1, <1>5 DEF TrackingInv, RootInv, Shutdown
<1> QED
  BY <1>7, <1>8, <1>10, <1>11, <1>12 DEF TrackingInv

-----------------------------------------------------------------------------
(* Every step keeps the order. *)

\* What is next to be received.
LEMMA FirstEvent ==
    ASSUME enumQ \in Seq(EventType), enumQ # <<>>, EventsInv, NEW e, e = Head(enumQ)
    PROVE  /\ e \in EventType
           /\ e.kind = "entry" =>
                 /\ e.node \in Nodes \ {Root} /\ e.node \notin progress.discovered
                 /\ Parent[e.node] \in progress.discovered \ progress.listed
           /\ e.kind # "entry" =>
                 e.node \in Dirs /\ e.node \in progress.discovered \ progress.listed
<1>1. Len(enumQ) \in Nat /\ 1 \in 1 .. Len(enumQ) /\ e = enumQ[1] /\ e \in EventType
  <2>1. PICK q : q = Tail(enumQ)
    OBVIOUS
  <2> QED
    BY <2>1, Shorter
<1>2. EventOK(1)
  BY <1>1 DEF EventsInv
<1>3. \A x : ~ SentBefore(1, x)
  BY DEF SentBefore
<1>4. \A n : FoundBy(1, n) <=> n \in progress.discovered
  BY <1>3 DEF FoundBy
<1>5. \A d : EndedBy(1, d) <=> d \in progress.listed
  BY <1>3 DEF EndedBy
<1> QED
  BY <1>1, <1>2, <1>4, <1>5 DEF EventOK, EventType

\* The walk keeps its order while others move.
LEMMA WalkStands ==
    ASSUME StackInv, ListingInv, UNCHANGED walk,
           \A n : Found(n)' <=> Found(n), \A d : Ended(d)' <=> Ended(d)
    PROVE  StackInv' /\ ListingInv'
<1>1. \A d : Stacked(d)' <=> Stacked(d)
  BY DEF Stacked
<1>2. \A d : StackOK(d) => StackOK(d)'
  BY DEF StackOK
<1>3. StackInv'
  BY <1>1, <1>2 DEF StackInv
<1>4. ListingInv'
  BY <1>1 DEF ListingInv
<1> QED
  BY <1>3, <1>4

\* Without a step of the walk or an event heard, what is announced stands.
LEMMA NothingHeard ==
    ASSUME UNCHANGED <<walk, enumQ>>, WalkOrderInv,
           progress'.discovered = progress.discovered, progress'.listed = progress.listed
    PROVE  /\ WalkOrderInv'
           /\ \A n : Found(n)' <=> Found(n)
           /\ \A d : Ended(d)' <=> Ended(d)
           /\ \A d : ErrorSent(d)' <=> ErrorSent(d)
<1>1. /\ EventsInv' /\ (\A n : Found(n)' <=> Found(n)) /\ (\A d : Ended(d)' <=> Ended(d))
      /\ \A d : ErrorSent(d)' <=> ErrorSent(d)
  BY DEF WalkOrderInv, EventsInv, EventOK, Found, FoundBy, Ended, EndedBy, SentBefore,
         ErrorSent
<1> QED
  BY <1>1, WalkStands DEF WalkOrderInv

\* What an event tells the coordinator was found or ended before it was received.
LEMMA Heard ==
    ASSUME TypeInv, OrderInv, CoordinatorEvent, NEW e, e = Head(enumQ)
    PROVE  /\ e \in EventType /\ enumQ # <<>> /\ enumQ' = Tail(enumQ)
           /\ enumQ \in Seq(EventType)
           /\ progress'.discovered = progress.discovered
                  \cup (IF e.kind = "entry" THEN {e.node} ELSE {})
           /\ progress'.listed = progress.listed
                  \cup (IF e.kind = "complete" THEN {e.node} ELSE {})
           /\ progress'.resolved = progress.resolved /\ progress'.sent = progress.sent
           /\ e.kind = "entry" =>
                 progress' = [progress EXCEPT !.discovered = @ \cup {e.node}]
           /\ e.kind = "complete" =>
                 progress' = [progress EXCEPT !.listed = @ \cup {e.node}]
           /\ e.kind = "error" => progress' = progress
<1>1. /\ progress \in [discovered : SUBSET Nodes, listed : SUBSET Dirs,
                       resolved : SUBSET (Nodes \ {Root}), sent : [Dirs -> Nat]]
      /\ enumQ \in Seq(EventType) /\ EventsInv
  BY DEF OrderInv, ProgressInv, TypeInv, WalkInv
<1>2. enumQ # <<>> /\ enumQ' = Tail(enumQ)
  BY DEF CoordinatorEvent, CoordinatorDirectory, CoordinatorLeaf, CoordinatorListed,
         CoordinatorListError, ReceiveEvent
<1>3. e \in EventType
  BY <1>1, <1>2, FirstEvent
<1>4. CASE CoordinatorDirectory \/ CoordinatorLeaf
  <2>1. e.kind = "entry" /\ progress' = [progress EXCEPT !.discovered = @ \cup {e.node}]
    BY <1>4 DEF CoordinatorDirectory, CoordinatorLeaf, ReceiveEvent
  <2> QED
    BY <1>1, <1>2, <1>3, <2>1
<1>5. CASE CoordinatorListed
  <2>1. e.kind = "complete" /\ progress' = [progress EXCEPT !.listed = @ \cup {e.node}]
    BY <1>5 DEF CoordinatorListed, ReceiveEvent
  <2> QED
    BY <1>1, <1>2, <1>3, <2>1
<1>6. CASE CoordinatorListError
  <2>1. e.kind = "error" /\ progress' = progress
    BY <1>6 DEF CoordinatorListError, ReceiveEvent
  <2> QED
    BY <1>1, <1>2, <1>3, <2>1
<1> QED
  BY <1>4, <1>5, <1>6 DEF CoordinatorEvent

\* Hearing the first event moves it from the channel into the progress.
LEMMA HeardOrder ==
    ASSUME TypeInv, OrderInv, CoordinatorEvent
    PROVE  /\ WalkOrderInv'
           /\ \A n : Found(n)' <=> Found(n)
           /\ \A d : Ended(d)' <=> Ended(d)
           /\ \A d : ErrorSent(d) <=> ErrorSent(d)' \/ Head(enumQ) = Event("error", d)
<1>1. PICK e : e = Head(enumQ)
  OBVIOUS
<1>2. /\ enumQ \in Seq(EventType) /\ enumQ # <<>> /\ enumQ' = Tail(enumQ)
      /\ progress'.discovered = progress.discovered
             \cup (IF e.kind = "entry" THEN {e.node} ELSE {})
      /\ progress'.listed = progress.listed
             \cup (IF e.kind = "complete" THEN {e.node} ELSE {})
  BY ONLY TypeInv, OrderInv, CoordinatorEvent, <1>1, Heard
<1>3. /\ EventsInv' /\ (\A n : Found(n)' <=> Found(n)) /\ (\A d : Ended(d)' <=> Ended(d))
      /\ \A d : ErrorSent(d) <=> ErrorSent(d)' \/ Head(enumQ) = Event("error", d)
  BY <1>1, <1>2, Receiving DEF OrderInv
<1>4. StackInv' /\ ListingInv'
  BY <1>3, WalkStands DEF OrderInv, CoordinatorEvent
<1> QED
  BY <1>3, <1>4 DEF WalkOrderInv

\* An event is heard: an entry is registered, or a listing has ended.
LEMMA EventOrder ==
    ASSUME TypeInv, OrderInv, CoordinatorEvent
    PROVE  TrackingInv'
<1>1. PICK e : e = Head(enumQ)
  OBVIOUS
<1>2. /\ enumQ \in Seq(EventType) /\ enumQ # <<>>
      /\ e.kind = "entry" =>
             progress' = [progress EXCEPT !.discovered = @ \cup {e.node}]
      /\ e.kind = "complete" =>
             progress' = [progress EXCEPT !.listed = @ \cup {e.node}]
      /\ e.kind = "error" => progress' = progress
  BY <1>1, Heard
<1>3. /\ e.kind = "entry" =>
             /\ e.node \in Nodes \ {Root} /\ e.node \notin progress.discovered
             /\ Parent[e.node] \in progress.discovered \ progress.listed
      /\ e.kind # "entry" =>
             e.node \in Dirs /\ e.node \in progress.discovered \ progress.listed
  BY <1>1, <1>2, FirstEvent DEF OrderInv
<1>4. TrackingInv /\ UNCHANGED <<fileQ, readyQ, rootDone>>
  BY DEF OrderInv, TrackingInv, CoordinatorEvent
<1>5. CASE CoordinatorDirectory
  <2>1. /\ e.kind = "entry" /\ e.node \in Dirs
        /\ tracker' = AddPending(Insert(tracker, e.node), Parent[e.node]) /\ UNCHANGED pc
    BY <1>1, <1>5 DEF CoordinatorDirectory, ReceiveEvent
  <2> QED
    BY <1>2, <1>3, <1>4, <2>1, DiscoverOrder
<1>6. CASE CoordinatorLeaf
  <2>1. /\ e.kind = "entry" /\ e.node \notin Dirs
        /\ tracker' = AddPending(tracker, Parent[e.node])
        /\ pc' = [pc EXCEPT ![Coordinator] =
                     [at |-> "decide", node |-> e.node, still |-> FALSE]]
    BY <1>1, <1>6, PipelineAssumption DEF CoordinatorLeaf, ReceiveEvent, Goto
  <2> QED
    BY <1>2, <1>3, <1>4, <2>1, DiscoverOrder
<1>7. CASE CoordinatorListed
  <2>1. /\ e.kind = "complete" /\ tracker' = SetEnumerationDone(tracker, e.node)
        /\ IF ReadyAfterEnumeration(tracker, e.node)
           THEN Goto(Coordinator, "try_finalise", e.node) ELSE UNCHANGED pc
        /\ pc[Coordinator].at = "recv"
    BY <1>1, <1>7 DEF CoordinatorListed, ReceiveEvent, At
  <2> QED
    BY <1>2, <1>3, <1>4, <2>1, ListedOrder
<1>8. CASE CoordinatorListError
  BY <1>1, <1>2, <1>4, <1>8, TrackingStands DEF CoordinatorListError, ReceiveEvent
<1> QED
  BY <1>5, <1>6, <1>7, <1>8 DEF CoordinatorEvent

\* At the start only the root is known, and it is in nobody's hands.
LEMMA InitOrder == Init => OrderInv
<1> SUFFICES ASSUME Init PROVE OrderInv
  OBVIOUS
<1> USE DEF Init
<1>1. Root \in Dirs /\ Root \in Nodes
  BY Leafs
<1>2. /\ Len(enumQ) = 0 /\ Len(fileQ) = 0 /\ Len(readyQ) = 0
      /\ \A i, x : ~ SentBefore(i, x)
  BY DEF SentBefore
<1>3. /\ \A n : Found(n) <=> n = Root
      /\ \A d : ~ Ended(d)
  BY <1>2 DEF Found, FoundBy, Ended, EndedBy
<1>4. /\ \A n : FoundIn(n) = {} /\ Outstanding(n) = {}
      /\ Open = {Root}
  BY DEF FoundIn, Outstanding, Open
<1>5. EventsInv
  BY <1>2 DEF EventsInv
<1>6. \A d : Stacked(d) <=> d = Root
  BY DEF Stacked
<1>7. StackInv /\ ListingInv
  BY <1>3, <1>6 DEF StackInv, StackOK, ListingInv
<1>8. ProgressInv
  <2>1. IsFiniteSet({Root})
    BY FS_Singleton
  <2> QED
    BY <1>1, <2>1 DEF ProgressInv
<1>9. \A t \in Threads : pc[t].at = "recv" /\ pc[t].at \notin Holding
  BY Idling DEF Holding
<1>10. ThreadsInv /\ UniqueInv /\ FilesQueued /\ DirsQueued
  BY <1>2, <1>9 DEF ThreadsInv, ThreadOK, Holding, UniqueInv, Holds, FilesQueued, DirsQueued
<1>11. /\ \A d : Tracked(tracker, d) <=> d = Root
       /\ tracker[Root] = NewDirState
  BY DEF Insert, Tracked
<1>12. DirsInv
  <2>1. /\ tracker[Root].pending = 0 /\ tracker[Root].enumeration_done = FALSE
        /\ tracker[Root].finalised = FALSE
    BY <1>11 DEF NewDirState
  <2>2. Cardinality({}) = 0
    BY FS_EmptySet
  <2>3. \A d \in Dirs : progress.sent[d] = 0 /\ d \notin progress.listed
    OBVIOUS
  <2>4. progress.discovered = {Root} /\ progress.resolved = {}
    OBVIOUS
  <2> SUFFICES ASSUME NEW d \in Dirs PROVE DirOK(d)
    BY DEF DirsInv
  <2> QED
    BY ONLY <1>4, <1>11, <2>1, <2>2, <2>3, <2>4 DEF DirOK
<1>13. RootInv
  BY <1>9, CoordinatorIsAThread DEF RootInv, Shutdown
<1> QED
  BY <1>5, <1>7, <1>8, <1>10, <1>12, <1>13 DEF OrderInv

\* The steps that put nothing down and take nothing up.
LEMMA QuietSteps ==
    ASSUME TypeInv, TrackingInv,
           \/ CoordinatorDecide \/ CoordinatorEnd \/ RootIsDone \/ Join
           \/ \E w \in FileWorkers : FileAcquire(w) \/ FileDelete(w) \/ FileExit(w)
           \/ \E w \in DirWorkers : DirExit(w)
    PROVE  TrackingInv'
<1>1. /\ Coordinator \in Threads /\ FileWorkers \subseteq Threads /\ DirWorkers \subseteq Threads
      /\ Coordinator \notin FileWorkers \cup DirWorkers
  BY PipelineAssumption DEF Threads
<1>2. CASE CoordinatorDecide
  <2>1. PICK c : /\ pc' = [pc EXCEPT ![Coordinator] = c]
                 /\ c.at \in {"enqueue", "complete"} /\ c.node = pc[Coordinator].node
    <3>1. PICK a, b1, b2 :
              /\ a = [at |-> "enqueue", node |-> pc[Coordinator].node, still |-> FALSE]
              /\ b1 = [at |-> "complete", node |-> pc[Coordinator].node, still |-> TRUE]
              /\ b2 = [at |-> "complete", node |-> pc[Coordinator].node, still |-> FALSE]
      OBVIOUS
    <3>2. \/ pc' = [pc EXCEPT ![Coordinator] = a]
          \/ pc' = [pc EXCEPT ![Coordinator] = b1]
          \/ pc' = [pc EXCEPT ![Coordinator] = b2]
      BY <1>2, <3>1 DEF CoordinatorDecide, Complete, Goto
    <3>3. \A c \in {a, b1, b2} :
             c.at \in {"enqueue", "complete"} /\ c.node = pc[Coordinator].node
      BY <3>1
    <3> QED
      BY <3>2, <3>3
  <2>2. /\ pc[Coordinator].at = "decide" /\ c.node \notin Dirs /\ Holds(Coordinator, c.node)
        /\ UNCHANGED <<progress, tracker, fileQ, readyQ, rootDone>>
    BY <1>1, <1>2, <2>1, CallFacts DEF CoordinatorDecide, At, Holds, Holding, queueVars
  <2> QED
    BY <1>1, <2>1, <2>2, QuietOrder
<1>3. CASE CoordinatorEnd
  <2>1. PICK c : c = [at |-> "wait", node |-> Root, still |-> FALSE]
    OBVIOUS
  <2>2. /\ pc' = [pc EXCEPT ![Coordinator] = c] /\ c.at = "wait"
        /\ UNCHANGED <<progress, tracker, fileQ, readyQ, rootDone>>
    BY <1>3, <2>1 DEF CoordinatorEnd, Goto, queueVars
  <2>3. c.at \notin Holding \cup {"try_finalise", "join", "done"}
    BY <2>2 DEF Holding
  <2> QED
    BY <1>1, <2>2, <2>3, QuietOrder
<1>4. CASE RootIsDone
  <2>1. PICK c : c = [at |-> "join", node |-> Root, still |-> FALSE]
    OBVIOUS
  <2>2. /\ pc' = [pc EXCEPT ![Coordinator] = c] /\ c.at = "join"
        /\ UNCHANGED <<progress, tracker, fileQ, readyQ>>
    BY <1>4, <2>1 DEF RootIsDone, Goto
  <2>3. c.at \notin Holding \cup {"try_finalise"}
    BY <2>2 DEF Holding
  <2>4. ~ Tracked(tracker, Root)
    BY <1>4 DEF RootIsDone, TrackingInv, RootInv
  <2> QED
    BY <1>1, <2>2, <2>3, <2>4, QuietOrder
<1>5. CASE Join
  <2>1. PICK c : c = [at |-> "done", node |-> Root, still |-> FALSE]
    OBVIOUS
  <2>2. /\ pc' = [pc EXCEPT ![Coordinator] = c] /\ c.at = "done"
        /\ UNCHANGED <<progress, tracker, fileQ, readyQ, rootDone>>
    BY <1>5, <2>1 DEF Join, Goto, queueVars
  <2>3. c.at \notin Holding \cup {"try_finalise"}
    BY <2>2 DEF Holding
  <2>4. ~ Tracked(tracker, Root)
    BY <1>5 DEF Join, At, TrackingInv, RootInv, Shutdown
  <2> QED
    BY <1>1, <2>2, <2>3, <2>4, QuietOrder
<1>6. ASSUME NEW w \in FileWorkers, FileAcquire(w) \/ FileDelete(w)
      PROVE  TrackingInv'
  <2>1. PICK c : /\ pc' = [pc EXCEPT ![w] = c]
                 /\ c.at \in {"delete", "complete"} /\ c.node = pc[w].node
    <3>1. PICK a, b1, b2 : /\ a = [at |-> "delete", node |-> pc[w].node, still |-> FALSE]
                           /\ b1 = [at |-> "complete", node |-> pc[w].node, still |-> TRUE]
                           /\ b2 = [at |-> "complete", node |-> pc[w].node, still |-> FALSE]
      OBVIOUS
    <3>2. \/ pc' = [pc EXCEPT ![w] = a]
          \/ pc' = [pc EXCEPT ![w] = b1]
          \/ pc' = [pc EXCEPT ![w] = b2]
      BY <1>6, <3>1 DEF FileAcquire, FileDelete, Complete, Goto
    <3>3. \A c \in {a, b1, b2} :
             c.at \in {"delete", "complete"} /\ c.node = pc[w].node
      BY <3>1
    <3> QED
      BY <3>2, <3>3
  <2>2. /\ pc[w].at \in {"acquire", "delete"}
        /\ UNCHANGED <<progress, tracker, fileQ, readyQ, rootDone>>
    BY <1>6 DEF FileAcquire, FileDelete, At, queueVars
  <2>3. c.node \notin Dirs /\ Holds(w, c.node)
    BY <1>1, <2>1, <2>2, CallFacts DEF Holds, Holding
  <2> QED
    BY <1>1, <2>1, <2>2, <2>3, QuietOrder
<1>7. ASSUME NEW w \in FileWorkers \cup DirWorkers, FileExit(w) \/ DirExit(w)
      PROVE  TrackingInv'
  <2>1. PICK c : c = [at |-> "exited", node |-> Root, still |-> FALSE]
    OBVIOUS
  <2>2. /\ pc' = [pc EXCEPT ![w] = c] /\ c.at = "exited"
        /\ UNCHANGED <<progress, tracker, fileQ, readyQ, rootDone>>
    BY <1>7, <2>1 DEF FileExit, DirExit, Goto, queueVars
  <2>3. c.at \notin Holding \cup {"try_finalise", "join", "done"}
    BY <2>2 DEF Holding
  <2> QED
    BY <1>1, <2>2, <2>3, QuietOrder
<1> QED
  BY <1>2, <1>3, <1>4, <1>5, <1>6, <1>7

\* A directory worker's attempt ends in a Finish.
LEMMA AttemptFinishes ==
    ASSUME TypeInv, NEW w, DirAttempt(w)
    PROVE  /\ pc[w].at = "attempt"
           /\ \E s : Finish(w, pc[w].node, s)
           /\ UNCHANGED <<job, meddling, cancel, walk, enumQ, fileQ, readyQ, semVars, progress>>
<1>1. pc[w].at = "attempt"
      /\ UNCHANGED <<job, meddling, cancel, walk, enumQ, fileQ, readyQ, semVars, progress>>
  BY DEF DirAttempt, At
<1>2. \/ pc[w].node = Root /\ Finish(w, Root, TRUE)
      \/ Finish(w, pc[w].node, pc[w].still) \/ Finish(w, pc[w].node, TRUE)
      \/ Finish(w, pc[w].node, FALSE)
  BY DEF DirAttempt, DirPreserveRoot, DirSimulate, DirDelete
<1> QED
  BY <1>1, <1>2

\* The steps of the threads that change what the tracker or the channels hold.
LEMMA BusySteps ==
    ASSUME TypeInv, TrackingInv,
           \/ \E t \in Threads : TrackerCall(t)
           \/ CoordinatorEnqueue
           \/ \E w \in FileWorkers : FileReceive(w)
           \/ \E w \in DirWorkers : DirReceive(w) \/ DirAttempt(w)
    PROVE  TrackingInv'
<1>1. /\ FileWorkers \subseteq Threads /\ DirWorkers \subseteq Threads
      /\ Coordinator \notin FileWorkers \cup DirWorkers
  BY PipelineAssumption DEF Threads
<1>2. ASSUME NEW t \in Threads, TrackerCall(t)
      PROVE  TrackingInv'
  BY <1>2, CompleteOrder, FinaliseOrder, SendOrder DEF TrackerCall
<1>3. ASSUME NEW w \in FileWorkers, FileReceive(w)
      PROVE  TrackingInv'
  BY <1>1, <1>3, FileReceiveOrder
<1>4. ASSUME NEW w \in DirWorkers, DirReceive(w)
      PROVE  TrackingInv'
  BY <1>1, <1>4, DirReceiveOrder
<1>5. ASSUME NEW w \in DirWorkers, DirAttempt(w)
      PROVE  TrackingInv'
  <2>1. /\ pc[w].at = "attempt" /\ UNCHANGED <<fileQ, readyQ, progress>>
        /\ \E s : Finish(w, pc[w].node, s)
    BY ONLY TypeInv, <1>5, AttemptFinishes
  <2>2. PICK s : Finish(w, pc[w].node, s)
    BY <2>1
  <2> QED
    BY ONLY TypeInv, TrackingInv, <1>1, <2>1, <2>2, w \in DirWorkers, FinishOrder
<1> QED
  BY <1>2, <1>3, <1>4, <1>5, EnqueueOrder

\* What the steps other than the walk's and the events' leave alone.
LEMMA NoEvent ==
    ASSUME TypeInv, TrackingInv,
           \/ \E t \in Threads : TrackerCall(t)
           \/ CoordinatorDecide \/ CoordinatorEnqueue \/ CoordinatorEnd \/ RootIsDone \/ Join
           \/ Sample \/ Cancel \/ Meddle \/ UNCHANGED vars
           \/ \E w \in FileWorkers :
                 FileReceive(w) \/ FileAcquire(w) \/ FileDelete(w) \/ FileExit(w)
           \/ \E w \in DirWorkers : DirReceive(w) \/ DirAttempt(w) \/ DirExit(w)
    PROVE  /\ UNCHANGED <<walk, enumQ>>
           /\ progress'.discovered = progress.discovered /\ progress'.listed = progress.listed
<1>1. progress \in [discovered : SUBSET Nodes, listed : SUBSET Dirs,
                    resolved : SUBSET (Nodes \ {Root}), sent : [Dirs -> Nat]]
  BY DEF TrackingInv, ProgressInv
<1>2. ASSUME NEW t \in Threads, TrackerCall(t)
      PROVE  /\ UNCHANGED <<walk, enumQ>>
             /\ progress'.discovered = progress.discovered
             /\ progress'.listed = progress.listed
  BY <1>1, <1>2 DEF TrackerCall, CompleteChild, TryFinalise, SendReady, queueVars
<1>3. ASSUME \/ CoordinatorDecide \/ CoordinatorEnqueue \/ CoordinatorEnd \/ RootIsDone \/ Join
             \/ Sample \/ Cancel \/ Meddle \/ UNCHANGED vars
      PROVE  UNCHANGED <<walk, enumQ, progress>>
  BY <1>3 DEF CoordinatorDecide, CoordinatorEnqueue, CoordinatorEnd, RootIsDone, Join,
              Sample, Cancel, Meddle, vars, queueVars
<1>4. ASSUME NEW w, FileReceive(w) \/ FileAcquire(w) \/ FileDelete(w) \/ FileExit(w)
      PROVE  UNCHANGED <<walk, enumQ, progress>>
  BY <1>4 DEF FileReceive, FileAcquire, FileDelete, FileExit, queueVars
<1>5. ASSUME NEW w, DirReceive(w) \/ DirAttempt(w) \/ DirExit(w)
      PROVE  UNCHANGED <<walk, enumQ, progress>>
  BY <1>5 DEF DirReceive, DirAttempt, DirExit, queueVars
<1> QED
  BY <1>2, <1>3, <1>4, <1>5

\* Each step is one of these.
LEMMA StepsAre ==
    ASSUME [Next]_vars
    PROVE  \/ Walk \/ CoordinatorEvent
           \/ \E t \in Threads : TrackerCall(t)
           \/ CoordinatorDecide \/ CoordinatorEnqueue \/ CoordinatorEnd \/ RootIsDone \/ Join
           \/ Sample \/ Cancel \/ Meddle \/ UNCHANGED vars
           \/ \E w \in FileWorkers :
                 FileReceive(w) \/ FileAcquire(w) \/ FileDelete(w) \/ FileExit(w)
           \/ \E w \in DirWorkers : DirReceive(w) \/ DirAttempt(w) \/ DirExit(w)
<1>1. /\ Coordinator \in Threads /\ FileWorkers \subseteq Threads /\ DirWorkers \subseteq Threads
  BY DEF Threads
<1> QED
  BY <1>1 DEF Next, Coordinate, FileWorker, DirWorker

\* No step breaks the order.
LEMMA OrderKept == TypeInv /\ OrderInv /\ [Next]_vars => OrderInv'
<1> SUFFICES ASSUME TypeInv, OrderInv, [Next]_vars PROVE OrderInv'
  OBVIOUS
<1>1. TrackingInv /\ WalkOrderInv
  BY DEF OrderInv, TrackingInv, WalkOrderInv
<1>2. WalkOrderInv' /\ TrackingInv' => OrderInv'
  BY DEF OrderInv, TrackingInv, WalkOrderInv
<1>3. CASE Walk
  <2>1. WalkOrderInv'
    BY <1>1, <1>3, WalkOrder DEF TrackingInv
  <2>2. TrackingInv'
    BY <1>1, <1>3, TrackingStands DEF Walk
  <2> QED
    BY <1>2, <2>1, <2>2
<1>4. CASE CoordinatorEvent
  BY <1>2, <1>4, HeardOrder, EventOrder
<1>5. CASE Sample \/ Cancel \/ Meddle \/ UNCHANGED vars
  <2>1. UNCHANGED <<progress, tracker, fileQ, readyQ, rootDone, pc>>
    BY <1>5 DEF Sample, Cancel, Meddle, vars, queueVars
  <2>2. TrackingInv'
    BY <1>1, <2>1, TrackingStands
  <2> QED
    BY <1>1, <1>2, <1>5, <2>2, NoEvent, NothingHeard
<1>6. CASE \/ CoordinatorDecide \/ CoordinatorEnd \/ RootIsDone \/ Join
           \/ \E w \in FileWorkers : FileAcquire(w) \/ FileDelete(w) \/ FileExit(w)
           \/ \E w \in DirWorkers : DirExit(w)
  <2>1. TrackingInv'
    BY <1>1, <1>6, QuietSteps
  <2>2. WalkOrderInv'
    BY <1>1, <1>6, NoEvent, NothingHeard
  <2> QED
    BY <1>2, <2>1, <2>2
<1>7. CASE \/ \E t \in Threads : TrackerCall(t)
           \/ CoordinatorEnqueue
           \/ \E w \in FileWorkers : FileReceive(w)
           \/ \E w \in DirWorkers : DirReceive(w) \/ DirAttempt(w)
  <2>1. TrackingInv'
    BY <1>1, <1>7, BusySteps
  <2>2. WalkOrderInv'
    BY <1>1, <1>7, NoEvent, NothingHeard
  <2> QED
    BY <1>2, <2>1, <2>2
<1> QED
  BY <1>3, <1>4, <1>5, <1>6, <1>7, StepsAre

\* Where everything is, always.
THEOREM OrderInvariance == Spec => [](TypeInv /\ OrderInv)
<1>1. Init => TypeInv /\ OrderInv
  BY InitTypes, InitOrder
<1>2. TypeInv /\ OrderInv /\ [Next]_vars => (TypeInv /\ OrderInv)'
  BY TypesKept, OrderKept
<1> QED
  BY <1>1, <1>2, PTL DEF Spec

-----------------------------------------------------------------------------
(* The pipeline implements DirectoryCompletion. *)

\* The steps that change what is discovered, listed, resolved or sent are steps
\* of DirectoryCompletion.
LEMMA CompletionStep ==
    ASSUME TypeInv, OrderInv, [Next]_vars
    PROVE  [Completion!Next]_Completion!vars
<1>1. /\ progress \in [discovered : SUBSET Nodes, listed : SUBSET Dirs,
                       resolved : SUBSET (Nodes \ {Root}), sent : [Dirs -> Nat]]
      /\ TrackingInv
  BY DEF OrderInv, ProgressInv, TrackingInv
<1>2. UNCHANGED progress => UNCHANGED Completion!vars
  BY DEF Completion!vars
<1>3. ASSUME NEW t \in Threads, TrackerCall(t)
      PROVE  [Completion!Next]_Completion!vars
  <2>a. PICK n : n = pc[t].node
    OBVIOUS
  <2> USE <2>a
  <2>1. CASE TryFinalise(t)
    BY <1>2, <2>1 DEF TryFinalise
  <2>2. CASE CompleteChild(t)
    <3>1. /\ pc[t].at = "complete" /\ n \in Nodes \ {Root} /\ ThreadOK(t)
          /\ progress' = [progress EXCEPT !.resolved = @ \cup {n}]
      BY <1>1, <2>2, CallFacts DEF CompleteChild, At, TrackingInv, ThreadsInv
    <3>2. n \in progress.discovered \ progress.resolved /\ (n \in Dirs => progress.sent[n] = 1)
      BY <3>1 DEF ThreadOK, Holding, Open
    <3>3. Completion!Resolve(n)
      BY <1>1, <3>1, <3>2 DEF Completion!Resolve
    <3> QED
      BY <3>1, <3>3 DEF Completion!Next, Completion!Nodes, Nodes
  <2>3. CASE SendReady(t)
    <3>1. /\ pc[t].at = "send" /\ n \in Dirs /\ ThreadOK(t)
          /\ progress' = [progress EXCEPT !.sent[n] = @ + 1]
      BY <1>1, <2>3, CallFacts DEF SendReady, At, TrackingInv, ThreadsInv
    <3>2. progress.sent[n] = 0 /\ Tracked(tracker, n) /\ tracker[n].finalised
      BY <3>1 DEF ThreadOK
    <3>3. n \in progress.listed /\ Outstanding(n) = {}
      BY <1>1, <3>1, <3>2 DEF TrackingInv, DirsInv, DirOK
    <3>4. Completion!FoundIn(n) \subseteq progress.resolved
      BY <3>3 DEF Outstanding, FoundIn, Completion!FoundIn
    <3>5. /\ progress'.discovered = progress.discovered /\ progress'.listed = progress.listed
          /\ progress'.resolved = progress.resolved
          /\ progress'.sent = [progress.sent EXCEPT ![n] = 1]
      BY <1>1, <3>1, <3>2
    <3>6. Completion!HandOver(n)
      BY <3>2, <3>3, <3>4, <3>5 DEF Completion!HandOver
    <3> QED
      BY <3>1, <3>6 DEF Completion!Next
  <2> QED
    BY <1>3, <2>1, <2>2, <2>3 DEF TrackerCall
<1>4. ASSUME CoordinatorEvent
      PROVE  [Completion!Next]_Completion!vars
  <2>1. PICK e : e = Head(enumQ)
    OBVIOUS
  <2>2. /\ e \in EventType /\ enumQ \in Seq(EventType) /\ enumQ # <<>>
        /\ progress'.discovered = progress.discovered
               \cup (IF e.kind = "entry" THEN {e.node} ELSE {})
        /\ progress'.listed = progress.listed
               \cup (IF e.kind = "complete" THEN {e.node} ELSE {})
        /\ progress'.resolved = progress.resolved /\ progress'.sent = progress.sent
        /\ e.kind = "error" => progress' = progress
    BY ONLY TypeInv, OrderInv, <1>4, <2>1, Heard
  <2>3. /\ e.kind = "entry" =>
               /\ e.node \in Nodes \ {Root} /\ e.node \notin progress.discovered
               /\ Parent[e.node] \in progress.discovered \ progress.listed
        /\ e.kind # "entry" =>
               e.node \in Dirs /\ e.node \in progress.discovered \ progress.listed
    BY <2>1, <2>2, FirstEvent DEF OrderInv
  <2>4. CASE e.kind = "entry"
    <3>1. Completion!Discover(e.node)
      BY <2>2, <2>3, <2>4 DEF Completion!Discover
    <3> QED
      BY <2>3, <2>4, <3>1 DEF Completion!Next, Completion!Nodes, Nodes
  <2>5. CASE e.kind = "complete"
    <3>1. Completion!ListingDone(e.node)
      BY <2>2, <2>3, <2>5 DEF Completion!ListingDone
    <3> QED
      BY <2>3, <2>5, <3>1 DEF Completion!Next
  <2>6. CASE e.kind = "error"
    BY <1>2, <2>2, <2>6
  <2> QED
    BY <2>2, <2>4, <2>5, <2>6 DEF EventType
<1>5. CASE \/ Walk \/ CoordinatorDecide \/ CoordinatorEnqueue \/ CoordinatorEnd
           \/ RootIsDone \/ Join \/ Sample \/ Cancel \/ Meddle \/ UNCHANGED vars
  BY <1>2, <1>5
     DEF Walk, CoordinatorDecide, CoordinatorEnqueue, CoordinatorEnd, RootIsDone, Join,
         Sample, Cancel, Meddle, vars
<1>6. ASSUME NEW w, FileReceive(w) \/ FileAcquire(w) \/ FileDelete(w) \/ FileExit(w)
      PROVE  UNCHANGED progress
  BY <1>6 DEF FileReceive, FileAcquire, FileDelete, FileExit
<1>7. ASSUME NEW w, DirReceive(w) \/ DirAttempt(w) \/ DirExit(w)
      PROVE  UNCHANGED progress
  BY <1>7 DEF DirReceive, DirAttempt, DirExit
<1> QED
  BY <1>2, <1>3, <1>4, <1>5, <1>6, <1>7, StepsAre

\* The pipeline drives the tracker as DirectoryCompletion has it, whatever is
\* cancelled or fails: nothing is resolved twice, no directory is handed over
\* before it is listed and everything in it is resolved, and none twice
\* (pipeline.rs:286-420, 500-620; tracker.rs).
THEOREM Refinement == Spec => CompletionSpec
<1>1. Init => Completion!Init
  BY DEF Init, Completion!Init
<1>2. TypeInv /\ OrderInv /\ [Next]_vars => [Completion!Next]_Completion!vars
  BY CompletionStep
<1> QED
  BY <1>1, <1>2, OrderInvariance, PTL DEF Spec, CompletionSpec, Completion!Spec

-----------------------------------------------------------------------------
(* The root is done with last. *)

\* Once the root is forgotten there is nothing left to do.
LEMMA NothingIsLeft ==
    ASSUME TypeInv, OrderInv, ~ Tracked(tracker, Root)
    PROVE  /\ progress.discovered \ {Root} \subseteq progress.resolved
           /\ DOMAIN tracker = {}
           /\ enumQ = <<>> /\ fileQ = <<>> /\ readyQ = <<>>
           /\ walk.stack = <<>> /\ walk.unsent = {}
           /\ \A n : Found(n) <=> n \in progress.discovered
           /\ \A d \in Dirs \cap progress.discovered : Ended(d)
           /\ walk.at \notin {"entries", "error"}
           /\ \A t \in Threads : pc[t].at \notin Holding \ {"attempt", "send"}
<1>1. ProgressInv /\ DirsInv /\ Root \in Dirs
  BY Leafs DEF OrderInv
<1>2. progress.discovered \ {Root} \subseteq progress.resolved
  <2> SUFFICES ASSUME progress.discovered \ ({Root} \cup progress.resolved) # {} PROVE FALSE
    OBVIOUS
  <2>1. PICK S \in SUBSET (Nodes \ {Root}) :
           S = progress.discovered \ ({Root} \cup progress.resolved)
    BY <1>1 DEF ProgressInv
  <2>2. PICK n \in S : Parent[n] \notin S
    BY <2>1, PipelineAssumption
  <2>3. n \in Open \ {Root} /\ n \in progress.discovered
    BY <2>1 DEF Open
  <2>4. /\ Parent[n] \in Dirs /\ Parent[n] \in progress.discovered
        /\ Tracked(tracker, Parent[n])
    BY <1>1, <2>3, ParentIsTracked
  <2>5. Parent[n] \in progress.resolved
    BY <2>1, <2>2, <2>4
  <2> QED
    BY <1>1, <2>4, <2>5 DEF DirsInv, DirOK
<1>3. Open = {Root}
  BY <1>1, <1>2 DEF Open, ProgressInv
<1>4. \A d : ~ Tracked(tracker, d)
  <2> SUFFICES ASSUME NEW d, Tracked(tracker, d) PROVE FALSE
    OBVIOUS
  <2>1. d \in Dirs /\ d # Root
    BY DEF TypeInv, TrackerInv, Tracked
  <2> QED
    BY <1>1, <1>2, <2>1 DEF DirsInv, DirOK
<1>5. \A d \in Dirs : d \in progress.discovered => d \in progress.listed
  BY <1>1, <1>4 DEF DirsInv, DirOK
<1>6. DOMAIN tracker = {}
  BY <1>4 DEF Tracked
<1>7. enumQ = <<>>
  <2> SUFFICES ASSUME enumQ # <<>> PROVE FALSE
    OBVIOUS
  <2>1. PICK e : e = Head(enumQ)
    OBVIOUS
  <2>2. /\ e.kind = "entry" =>
               /\ e.node \in Nodes \ {Root} /\ e.node \notin progress.discovered
               /\ Parent[e.node] \in progress.discovered \ progress.listed
        /\ e.kind # "entry" =>
               e.node \in Dirs /\ e.node \in progress.discovered \ progress.listed
    BY <2>1, FirstEvent DEF OrderInv, TypeInv, WalkInv
  <2> QED
    BY <1>5, <2>2, PipelineAssumption
<1>8. /\ \A n : Found(n) <=> n \in progress.discovered
      /\ \A d : Ended(d) <=> d \in progress.listed
  <2>1. \A i, x : ~ SentBefore(i, x)
    BY <1>7 DEF SentBefore
  <2> QED
    BY <2>1 DEF Found, FoundBy, Ended, EndedBy
<1>9. walk \in WalkType
  BY DEF TypeInv, WalkInv
<1>10. walk.stack = <<>>
  <2> SUFFICES ASSUME walk.stack # <<>> PROVE FALSE
    OBVIOUS
  <2>1. 1 \in 1 .. Len(walk.stack) /\ walk.stack[1] \in Dirs
    BY <1>9 DEF WalkType
  <2>2. StackOK(walk.stack[1])
    BY <2>1 DEF Stacked, OrderInv, StackInv
  <2> QED
    BY <1>5, <1>8, <2>1, <2>2 DEF StackOK
<1>11. walk.at \notin {"entries", "error"} /\ walk.unsent = {}
  <2>1. walk.dir \in Dirs
    BY <1>9 DEF WalkType
  <2> QED
    BY <1>5, <1>8, <2>1 DEF OrderInv, ListingInv
<1>12. fileQ = <<>>
  <2> SUFFICES ASSUME fileQ # <<>> PROVE FALSE
    OBVIOUS
  <2>1. fileQ \in Seq(Deletable) /\ Deletable \subseteq Leaves
    BY DEF TypeInv, FileQInv, Deletable
  <2>2. 1 \in 1 .. Len(fileQ) /\ fileQ[1] \in Leaves
    BY <2>1
  <2>3. fileQ[1] \in Open
    BY <2>2 DEF OrderInv, FilesQueued
  <2> QED
    BY <1>3, <2>2, <2>3, Leafs
<1>13. readyQ = <<>>
  <2> SUFFICES ASSUME readyQ # <<>> PROVE FALSE
    OBVIOUS
  <2>1. readyQ \in Seq(ReadyType)
    BY DEF TypeInv, ReadyQInv
  <2>2. 1 \in 1 .. Len(readyQ)
    BY <2>1
  <2>3. Tracked(tracker, readyQ[1].dir)
    BY <2>2 DEF OrderInv, DirsQueued
  <2> QED
    BY <1>4, <2>3
<1>14. \A t \in Threads : pc[t].at \notin Holding \ {"attempt", "send"}
  <2> SUFFICES ASSUME NEW t \in Threads, pc[t].at \in Holding \ {"attempt", "send"}
               PROVE  FALSE
    OBVIOUS
  <2>1. pc[t].node \in Open
    BY DEF OrderInv, ThreadsInv, ThreadOK
  <2>2. pc[t].node # Root
    BY CallFacts DEF Holding
  <2> QED
    BY <1>3, <2>1, <2>2
<1> QED
  BY <1>2, <1>5, <1>6, <1>7, <1>8, <1>10, <1>11, <1>12, <1>13, <1>14

\* "The root is done" is said when nothing is left anywhere: no event, no entry in
\* a channel or with a thread, no directory in the map, no permit
\* (pipeline.rs:257, 620-640).
THEOREM RootIsDoneLastHolds == Spec => []RootIsDoneLast
<1>1. TypeInv /\ OrderInv /\ PermitsAreHeld => RootIsDoneLast
  <2> SUFFICES ASSUME TypeInv, OrderInv, PermitsAreHeld, rootDone > 0 \/ Shutdown
               PROVE  /\ enumQ = <<>> /\ fileQ = <<>> /\ readyQ = <<>>
                      /\ walk.stack = <<>> /\ walk.unsent = {}
                      /\ progress.discovered \ {Root} \subseteq progress.resolved
                      /\ DOMAIN tracker = {}
                      /\ granted = 0
    BY DEF RootIsDoneLast
  <2>1. ~ Tracked(tracker, Root)
    BY DEF OrderInv, RootInv
  <2>2. Holders = {}
    <3>1. \A w \in FileWorkers : pc[w].at # "delete"
      BY <2>1, NothingIsLeft DEF Holding, Threads
    <3> QED
      BY <3>1 DEF Holders
  <2>3. granted = 0
    BY <2>2, FS_EmptySet DEF PermitsAreHeld
  <2> QED
    BY <2>1, <2>3, NothingIsLeft
<1> QED
  BY <1>1, OrderInvariance, PermitsHold, PTL

-----------------------------------------------------------------------------
(* What is still in the tree, what failed, and what has been counted. *)

\* The entries that have had their turn: leaves decided on, directories forgotten.
Completing(t, n) == pc[t].at = "complete" /\ pc[t].node = n
HadTurn(n) ==
    IF n \in Dirs THEN ~ Tracked(tracker, n)
    ELSE n \in progress.resolved \/ \E t \in Threads : Completing(t, n)
Past == {n \in progress.discovered : HadTurn(n)}

Failures == metrics.file_failures + metrics.dir_failures + metrics.list_failures
Troubled == walk.at = "error" \/ \E d \in Dirs : ErrorSent(d)

\* Only what had its turn is gone, and what is found was there.
PresentInv ==
    meddling = 0 =>
        /\ \A n \in Nodes : Found(n) \/ n \in walk.unsent => n \in job.tree
        /\ job.tree \ fs \subseteq Past

\* A cancelled walk does not come back to listing.
FlushInv == walk.at = "flush" => cancel

\* A directory that was listed without an error has had all that is in it found.
CompleteInv ==
    meddling = 0 /\ ~ cancel /\ metrics.list_failures = 0 =>
        \A n \in job.tree \ {Root} :
            LET d == Parent[n]
            IN  Ended(d) \/ (walk.at = "entries" /\ walk.dir = d)
                  => Found(n) \/ n \in walk.unsent \/ ErrorSent(d)

\* Nothing fails in a tree in which nothing refuses.
Obliging == meddling = 0 /\ job.stubborn = {} /\ job.unlistable = {}
FailInv == Obliging => Failures = 0 /\ ~ Troubled

\* What is left of what had its turn is to remain.
Remains == Above(job.keep \cap job.tree)
RemainsInv ==
    meddling = 0 /\ ~ cancel /\ ~ job.dry_run /\ Failures = 0 => Past \cap fs \subseteq Remains

\* The report counts what is gone.
GoneInv ==
    meddling = 0 /\ ~ job.dry_run =>
        /\ metrics.files_deleted = Cardinality((job.tree \ fs) \cap Leaves)
        /\ metrics.dirs_deleted = Cardinality((job.tree \ fs) \cap Dirs)

\* A dry run counts what would be gone, and what it passes on says so.
Exact(d) == d # Root \/ ~ job.preserve_root
FlagOK(c) ==
    /\ c.at = "complete" => (c.still <=> c.node \in Remains)
    /\ c.at \in {"send", "attempt"} /\ Exact(c.node) => (c.still <=> c.node \in Remains)
MessageOK(m) == Exact(m.dir) => (m.simulated_non_empty <=> m.dir \in Remains)
EntryOK(d) ==
    tracker[d].still_present <=> \E n \in FoundIn(d) : n \in progress.resolved /\ n \in Remains
CountsExact ==
    /\ metrics.files_deleted = Cardinality((Past \cap Leaves) \ Remains)
    /\ metrics.dirs_deleted = Cardinality((Past \cap Dirs) \ Remains)
FlagsExact    == \A t \in Threads : FlagOK(pc[t])
MessagesExact == \A i \in 1 .. Len(readyQ) : MessageOK(readyQ[i])
MapExact      == \A d \in DOMAIN tracker : EntryOK(d)
Simulating    == Undisturbed /\ job.dry_run
Simulated     == CountsExact /\ FlagsExact /\ MessagesExact /\ MapExact
SimulationInv == Simulating => Simulated

\* Each directory scanned is in the map or has been counted; a preserved root is not.
DirsSettled == metrics.dirs_deleted + metrics.dirs_retained + metrics.dir_failures
DirsAddUp ==
    metrics.dirs_scanned =
        DirsSettled + Cardinality(DOMAIN tracker)
          + (IF job.preserve_root /\ ~ Tracked(tracker, Root) THEN 1 ELSE 0)

TallyInv ==
    /\ PresentInv /\ FlushInv /\ CompleteInv /\ FailInv /\ RemainsInv /\ GoneInv
    /\ DirsAddUp

-----------------------------------------------------------------------------
(* Who had their turn. *)

\* Only the thread that moves comes to complete an entry, or ceases to.
LEMMA CompletingMoves ==
    ASSUME TypeInv, NEW t \in Threads, NEW c, pc' = [pc EXCEPT ![t] = c]
    PROVE  /\ \A u \in Threads : \A n : u # t => (Completing(u, n)' <=> Completing(u, n))
           /\ \A n : Completing(t, n)' <=> c.at = "complete" /\ c.node = n
  BY DEF TypeInv, CallInv, Completing

\* Who had their turn was found before, and a directory's listing had ended.
LEMMA PastFacts ==
    ASSUME OrderInv
    PROVE  /\ Past \subseteq progress.discovered /\ IsFiniteSet(Past)
           /\ \A n : n \in Past => Found(n) /\ n \in Nodes
           /\ \A d \in Dirs : d \in Past => Ended(d) /\ ~ Tracked(tracker, d)
           /\ \A n \in progress.resolved : n \in Past
<1>1. Past \subseteq progress.discovered
  BY DEF Past
<1>2. IsFiniteSet(Past) /\ \A n \in Past : n \in Nodes
  BY <1>1, FS_Subset DEF OrderInv, ProgressInv
<1>3. \A n : n \in Past => Found(n)
  BY <1>1 DEF Found, FoundBy
<1>4. ASSUME NEW d \in Dirs, d \in Past
      PROVE  Ended(d) /\ ~ Tracked(tracker, d)
  <2>1. d \in progress.discovered /\ ~ Tracked(tracker, d)
    BY <1>4 DEF Past, HadTurn
  <2>2. d \in progress.listed
    BY <2>1 DEF OrderInv, DirsInv, DirOK
  <2> QED
    BY <2>1, <2>2 DEF Ended, EndedBy
<1>5. ASSUME NEW n \in progress.resolved
      PROVE  n \in Past
  <2>1. n \in progress.discovered
    BY DEF OrderInv, ProgressInv
  <2>2. n \in Dirs => ~ Tracked(tracker, n)
    BY DEF OrderInv, DirsInv, DirOK
  <2> QED
    BY <2>1, <2>2 DEF Past, HadTurn
<1> QED
  BY <1>1, <1>2, <1>3, <1>4, <1>5

\* A thread goes on without completing a leaf.
LEMMA PastAlone ==
    ASSUME TypeInv, progress'.discovered = progress.discovered,
           progress'.resolved = progress.resolved, DOMAIN tracker' = DOMAIN tracker,
           NEW t \in Threads, NEW c, pc' = [pc EXCEPT ![t] = c],
           pc[t].at # "complete", c.at = "complete" => c.node \in Dirs
    PROVE  Past' = Past
<1>1. /\ \A u \in Threads : \A n : u # t => (Completing(u, n)' <=> Completing(u, n))
      /\ \A n : Completing(t, n)' <=> c.at = "complete" /\ c.node = n
  BY CompletingMoves
<1>2. \A n : ~ Completing(t, n)
  BY DEF Completing
<1>3. ASSUME NEW n PROVE HadTurn(n)' <=> HadTurn(n)
  <2>1. CASE n \in Dirs
    BY <2>1 DEF HadTurn, Tracked
  <2>2. CASE n \notin Dirs
    BY <1>1, <1>2, <2>2 DEF HadTurn
  <2> QED
    BY <2>1, <2>2
<1> QED
  BY <1>3 DEF Past

\* A leaf has its turn: it was deleted, failed or was passed over.
LEMMA PastOfLeaf ==
    ASSUME TypeInv, OrderInv, UNCHANGED <<progress, tracker>>,
           NEW t \in Threads, NEW c, pc' = [pc EXCEPT ![t] = c],
           pc[t].at \in {"decide", "delete"}, c.at = "complete", c.node = pc[t].node
    PROVE  Past' = Past \cup {pc[t].node} /\ pc[t].node \notin Past
<1>a. PICK n : n = pc[t].node
  OBVIOUS
<1> USE <1>a
<1>1. n \in Nodes /\ n \notin Dirs /\ Holds(t, n) /\ n \in Open
  BY CallFacts DEF OrderInv, ThreadsInv, ThreadOK, Holding, Holds
<1>2. /\ \A u \in Threads : \A m : u # t => (Completing(u, m)' <=> Completing(u, m))
      /\ \A m : Completing(t, m)' <=> c.at = "complete" /\ c.node = m
  BY CompletingMoves
<1>3. n \in progress.discovered /\ n \notin progress.resolved
  BY <1>1 DEF Open
<1>4. \A u \in Threads : ~ Completing(u, n)
  <2> SUFFICES ASSUME NEW u \in Threads, Completing(u, n) PROVE FALSE
    OBVIOUS
  <2>1. Holds(u, n)
    BY DEF Completing, Holds, Holding
  <2>2. u = t
    BY <1>1, <2>1 DEF OrderInv, UniqueInv
  <2> QED
    BY <2>2 DEF Completing
<1>5. ~ HadTurn(n)
  BY <1>1, <1>3, <1>4 DEF HadTurn
<1>6. \A m : ~ Completing(t, m)
  BY DEF Completing
<1>7. ASSUME NEW m PROVE HadTurn(m)' <=> HadTurn(m) \/ m = n
  <2>1. CASE m \in Dirs
    BY <1>1, <2>1 DEF HadTurn
  <2>2. CASE m \notin Dirs
    BY <1>2, <1>6, <2>2 DEF HadTurn
  <2> QED
    BY <2>1, <2>2
<1> QED
  BY <1>3, <1>5, <1>7 DEF Past

\* A directory has its turn.
LEMMA PastOfDirectory ==
    ASSUME TypeInv, OrderInv, UNCHANGED progress, NEW t \in Threads, pc[t].at = "attempt",
           NEW s, Finish(t, pc[t].node, s)
    PROVE  /\ Past' = Past \cup {pc[t].node} /\ pc[t].node \notin Past
           /\ pc[t].node \in Dirs /\ Tracked(tracker, pc[t].node)
           /\ pc[t].node \in progress.discovered
           /\ DOMAIN tracker' = DOMAIN tracker \ {pc[t].node}
<1>a. PICK d : d = pc[t].node
  OBVIOUS
<1> USE <1>a
<1>1. d \in Dirs /\ d \in Open /\ Tracked(tracker, d) /\ d \in progress.discovered
  BY CallFacts DEF OrderInv, ThreadsInv, ThreadOK, Holding, Open
<1>2. DOMAIN tracker' = DOMAIN tracker \ {d}
  BY DEF Finish, Remove
<1>3. PICK c : /\ pc' = [pc EXCEPT ![t] = c]
               /\ c.at = "complete" => c.node \in Dirs
  <2>1. CASE d = Root
    BY <2>1, Idling DEF Finish, Return
  <2>2. CASE d # Root
    <3>1. PICK x : x = [at |-> "complete", node |-> d, still |-> s]
      OBVIOUS
    <3>2. pc' = [pc EXCEPT ![t] = x] /\ x.node = d
      BY <2>2, <3>1 DEF Finish, Complete
    <3> QED
      BY <1>1, <3>2
  <2> QED
    BY <2>1, <2>2
<1>4. /\ \A u \in Threads : \A m : u # t => (Completing(u, m)' <=> Completing(u, m))
      /\ \A m : Completing(t, m)' <=> c.at = "complete" /\ c.node = m
  BY <1>3, CompletingMoves
<1>5. \A m : ~ Completing(t, m)
  BY DEF Completing
<1>6. ASSUME NEW m PROVE HadTurn(m)' <=> HadTurn(m) \/ m = d
  <2>1. CASE m \in Dirs
    BY <1>2, <2>1 DEF HadTurn, Tracked
  <2>2. CASE m \notin Dirs
    BY <1>1, <1>3, <1>4, <1>5, <2>2 DEF HadTurn
  <2> QED
    BY <2>1, <2>2
<1>7. ~ HadTurn(d)
  BY <1>1 DEF HadTurn
<1> QED
  BY <1>1, <1>2, <1>6, <1>7 DEF Past

\* What complete_child is called for has had its turn before.
LEMMA PastOfCompleted ==
    ASSUME TypeInv, OrderInv, NEW t \in Threads, CompleteChild(t)
    PROVE  Past' = Past /\ DOMAIN tracker' = DOMAIN tracker
<1>a. PICK n : n = pc[t].node
  OBVIOUS
<1> USE <1>a
<1>1. pc[t].at = "complete" /\ Completing(t, n)
  BY DEF CompleteChild, At, Completing
<1>2. /\ progress \in [discovered : SUBSET Nodes, listed : SUBSET Dirs,
                       resolved : SUBSET (Nodes \ {Root}), sent : [Dirs -> Nat]]
      /\ progress' = [progress EXCEPT !.resolved = @ \cup {n}]
      /\ tracker' = SubtractPending(tracker, Parent[n], pc[t].still)
  BY DEF OrderInv, ProgressInv, CompleteChild
<1>3. /\ progress'.discovered = progress.discovered
      /\ progress'.resolved = progress.resolved \cup {n}
      /\ DOMAIN tracker' = DOMAIN tracker
  BY <1>2 DEF SubtractPending, Update
<1>4. PICK c : pc' = [pc EXCEPT ![t] = c] /\ c.at \in {"recv", "try_finalise"}
  <2>1. PICK x : x = [at |-> "try_finalise", node |-> Parent[n], still |-> FALSE]
    OBVIOUS
  <2>2. \/ pc' = [pc EXCEPT ![t] = x]
        \/ pc' = [pc EXCEPT ![t] = Idle]
    BY <2>1 DEF CompleteChild, Goto, Return
  <2> QED
    BY <2>1, <2>2, Idling
<1>5. /\ \A u \in Threads : \A m : u # t => (Completing(u, m)' <=> Completing(u, m))
      /\ \A m : Completing(t, m)' <=> c.at = "complete" /\ c.node = m
  BY <1>4, CompletingMoves
<1>6. \A m : Completing(t, m) => m = n
  BY DEF Completing
<1>7. ASSUME NEW m PROVE HadTurn(m)' <=> HadTurn(m)
  <2>1. CASE m \in Dirs
    BY <1>3, <2>1 DEF HadTurn, Tracked
  <2>2. CASE m \notin Dirs
    BY <1>1, <1>3, <1>4, <1>5, <1>6, <2>2 DEF HadTurn
  <2> QED
    BY <2>1, <2>2
<1> QED
  BY <1>3, <1>7 DEF Past

-----------------------------------------------------------------------------
(* What is to remain, and what is left in a directory that is attempted. *)

\* What is to remain is what is kept with all that is above it.
LEMMA RemainsFacts ==
    ASSUME JobInv
    PROVE  /\ Remains \subseteq job.tree
           /\ job.keep \cap job.tree \subseteq Remains
           /\ job.preserve_root => Root \in Remains
           /\ ~ job.preserve_root => Remains = {}
           /\ \A n \in Remains \ {Root} : Parent[n] \in Remains
           /\ \A n \in Leaves \ job.keep : n \notin Remains
           /\ \A d \in Dirs \cap Remains :
                 (d = Root /\ job.preserve_root)
                 \/ \E n \in Remains \ {Root} : Parent[n] = d
<1> DEFINE base == (job.keep \cap job.tree) \cup (IF job.preserve_root THEN {Root} ELSE {})
           Closed(S) == \A n \in S \ {Root} : Parent[n] \in S
<1>1. /\ job.tree \subseteq Nodes /\ Root \in job.tree /\ job.preserve_root \in BOOLEAN
      /\ job.keep # {} => job.preserve_root
  BY PipelineAssumption DEF JobInv, Job
<1>2. Remains = {n \in Nodes : \A S \in SUBSET Nodes : base \subseteq S /\ Closed(S) => n \in S}
  BY DEF Above, Remains
<1>3. base \subseteq Nodes
  BY <1>1
<1>4. job.keep \cap job.tree \subseteq base /\ (job.preserve_root => Root \in base)
  OBVIOUS
<1>5. ~ job.preserve_root => base = {}
  BY <1>1
<1>6. /\ Remains \subseteq job.tree
      /\ \A n \in Leaves \ job.keep : n \notin Remains
      /\ \A d \in Dirs \cap Remains :
            (d = Root /\ job.preserve_root)
            \/ \E n \in Remains \ {Root} : Parent[n] = d
  BY AboveIsClosed DEF Remains
<1> HIDE DEF base
<1>7. base \subseteq Remains
  BY <1>2, <1>3
<1>8. ~ job.preserve_root => Remains = {}
  <2> SUFFICES ASSUME ~ job.preserve_root, NEW n \in Remains PROVE FALSE
    OBVIOUS
  <2>1. {} \in SUBSET Nodes /\ base \subseteq {} /\ Closed({})
    BY <1>5
  <2>2. n \in {}
    BY <1>2, <2>1
  <2> QED
    BY <2>2
<1>9. ASSUME NEW n \in Remains \ {Root}
      PROVE  Parent[n] \in Remains
  <2>1. Parent[n] \in Nodes
    BY <1>2, Leafs, PipelineAssumption
  <2>2. ASSUME NEW S \in SUBSET Nodes, base \subseteq S, Closed(S)
        PROVE  Parent[n] \in S
    BY <1>2, <1>9, <2>2
  <2> QED
    BY <1>2, <2>1, <2>2
<1> QED
  BY <1>4, <1>6, <1>7, <1>8, <1>9

\* In a directory that is listed and has nothing outstanding, all there was has
\* been found and resolved, if no listing failed and nobody cancelled.
LEMMA ChildHadTurn ==
    ASSUME TypeInv, OrderInv, CompleteInv, meddling = 0, ~ cancel,
           metrics.list_failures = 0,
           NEW d \in Dirs, d \in progress.listed, Outstanding(d) = {},
           NEW n \in job.tree \ {Root}, Parent[n] = d
    PROVE  n \in FoundIn(d) /\ n \in progress.resolved /\ n \in Past
<1>1. Ended(d) /\ enumQ \in Seq(EventType)
  BY DEF Ended, EndedBy, TypeInv, WalkInv
<1>2. Found(n) \/ n \in walk.unsent \/ ErrorSent(d)
  BY <1>1 DEF CompleteInv
<1>3. ~ ErrorSent(d)
  <2> SUFFICES ASSUME ErrorSent(d) PROVE FALSE
    OBVIOUS
  <2>1. PICK i \in 1 .. Len(enumQ) : enumQ[i] = Event("error", d)
    BY DEF ErrorSent
  <2>2. ~ EndedBy(i, d)
    BY <2>1, Events DEF OrderInv, EventsInv, EventOK
  <2> QED
    BY <2>2 DEF EndedBy
<1>4. n \notin walk.unsent
  BY <1>1 DEF OrderInv, ListingInv
<1>5. n \in progress.discovered
  <2>1. CASE SentBefore(Len(enumQ) + 1, Event("entry", n))
    <3>1. PICK i \in 1 .. Len(enumQ) : enumQ[i] = Event("entry", n)
      BY <2>1 DEF SentBefore
    <3>2. ~ EndedBy(i, d)
      BY <3>1, Events DEF OrderInv, EventsInv, EventOK
    <3> QED
      BY <3>2 DEF EndedBy
  <2> QED
    BY <1>2, <1>3, <1>4, <2>1 DEF Found, FoundBy
<1>6. n \in FoundIn(d)
  BY <1>5 DEF FoundIn
<1>7. n \in progress.resolved
  BY <1>6 DEF Outstanding
<1> QED
  BY <1>6, <1>7, PastFacts

\* What a directory worker finds left in its directory is to remain.
LEMMA LeftRemains ==
    ASSUME TypeInv, StaysInv, OrderInv, TallyInv, meddling = 0, ~ cancel, ~ job.dry_run,
           Failures = 0, NEW t \in Threads, pc[t].at = "attempt",
           ChildrenIn(pc[t].node, fs) # {}
    PROVE  pc[t].node \in Remains
<1>a. PICK d : d = pc[t].node
  OBVIOUS
<1> USE <1>a
<1>1. d \in Dirs /\ progress.sent[d] = 1
  BY CallFacts DEF OrderInv, ThreadsInv, ThreadOK
<1>2. d \in progress.listed /\ Outstanding(d) = {}
  BY <1>1 DEF OrderInv, DirsInv, DirOK
<1>3. PICK n \in fs \ {Root} : Parent[n] = d
  BY DEF ChildrenIn
<1>4. n \in job.tree
  BY <1>3 DEF StaysInv
<1>5. metrics.list_failures = 0
  <2>1. /\ metrics.file_failures \in Nat /\ metrics.dir_failures \in Nat
        /\ metrics.list_failures \in Nat
    BY Fields DEF TypeInv, MetricsInv
  <2> QED
    BY <2>1 DEF Failures
<1>6. n \in Past
  BY <1>1, <1>2, <1>3, <1>4, <1>5, ChildHadTurn DEF TallyInv
<1>7. n \in Remains
  BY <1>3, <1>6 DEF TallyInv, RemainsInv
<1> QED
  BY <1>3, <1>7, RemainsFacts DEF TypeInv

-----------------------------------------------------------------------------
(* What each kind of step does to the tally. *)

\* The counters count.
LEMMA MetricsAreNumbers ==
    ASSUME TypeInv
    PROVE  /\ metrics.files_deleted \in Nat /\ metrics.files_retained \in Nat
           /\ metrics.file_failures \in Nat
           /\ metrics.dirs_scanned \in Nat /\ metrics.dirs_deleted \in Nat
           /\ metrics.dirs_retained \in Nat
           /\ metrics.dir_failures \in Nat /\ metrics.list_failures \in Nat
  BY Fields DEF TypeInv, MetricsInv

\* The map holds finitely many directories, and only such as were found.
LEMMA TrackedAreFinite ==
    ASSUME TypeInv, OrderInv
    PROVE  IsFiniteSet(DOMAIN tracker) /\ DOMAIN tracker \subseteq progress.discovered
<1>1. DOMAIN tracker \subseteq progress.discovered
  BY DEF TypeInv, TrackerInv, OrderInv, DirsInv, DirOK, Tracked
<1> QED
  BY <1>1, FS_Subset DEF OrderInv, ProgressInv

\* Nothing that the tally is about changes, but that the run may be cancelled.
LEMMA TallyStands ==
    ASSUME TallyInv, WalkOrderInv, UNCHANGED <<job, fs, meddling, walk, enumQ, metrics>>,
           Past' = Past, cancel => cancel',
           progress'.discovered = progress.discovered, progress'.listed = progress.listed,
           DOMAIN tracker' = DOMAIN tracker
    PROVE  TallyInv'
<1>1. /\ \A n : Found(n)' <=> Found(n)
      /\ \A d : Ended(d)' <=> Ended(d)
      /\ \A d : ErrorSent(d)' <=> ErrorSent(d)
  BY NothingHeard
<1>2. Failures' = Failures /\ (Troubled' <=> Troubled) /\ (Obliging' <=> Obliging)
      /\ Remains' = Remains
  BY <1>1 DEF Failures, Troubled, Obliging, Remains, Above
<1>3. PresentInv'
  BY <1>1 DEF TallyInv, PresentInv
<1>4. FlushInv'
  BY DEF TallyInv, FlushInv
<1>5. CompleteInv'
  BY <1>1 DEF TallyInv, CompleteInv
<1>6. FailInv'
  BY <1>2 DEF TallyInv, FailInv
<1>7. RemainsInv'
  BY <1>2 DEF TallyInv, RemainsInv
<1>8. GoneInv'
  BY DEF TallyInv, GoneInv
<1>9. DirsAddUp'
  BY DEF TallyInv, DirsAddUp, DirsSettled, Tracked
<1> QED
  BY <1>3, <1>4, <1>5, <1>6, <1>7, <1>8, <1>9 DEF TallyInv

\* A leaf has its turn.
LEMMA TallyOfLeaf ==
    ASSUME TypeInv, StaysInv, OrderInv, TallyInv,
           UNCHANGED <<job, meddling, cancel, walk, enumQ, progress, tracker>>,
           NEW t \in Threads, NEW c, pc' = [pc EXCEPT ![t] = c],
           pc[t].at \in {"decide", "delete"}, c.at = "complete", c.node = pc[t].node,
           \/ fs' = fs \ {pc[t].node} /\ Count("files_deleted") /\ ~ job.dry_run
           \/ pc[t].node \in job.stubborn /\ Count("file_failures") /\ UNCHANGED fs
           \/ (cancel \/ pc[t].node \in job.keep) /\ Count("files_retained") /\ UNCHANGED fs
           \/ job.dry_run /\ Count("files_deleted") /\ UNCHANGED fs
    PROVE  TallyInv'
<1>a. PICK n : n = pc[t].node
  OBVIOUS
<1> USE <1>a
<1>1. Past' = Past \cup {n} /\ n \notin Past
  BY PastOfLeaf
<1>2. /\ n \in Leaves /\ n \notin Dirs /\ n \in Nodes
      /\ n \in progress.discovered /\ Found(n)
  BY CallFacts DEF OrderInv, ThreadsInv, ThreadOK, Holding, Open, Found, FoundBy
<1>3. /\ \A m : Found(m)' <=> Found(m)
      /\ \A d : Ended(d)' <=> Ended(d)
      /\ \A d : ErrorSent(d)' <=> ErrorSent(d)
  BY NothingHeard DEF OrderInv, WalkOrderInv
<1>4. (Troubled' <=> Troubled) /\ (Obliging' <=> Obliging) /\ Remains' = Remains
  BY <1>3 DEF Troubled, Obliging, Remains, Above
<1>5. PICK field \in {"files_deleted", "file_failures", "files_retained"} :
         /\ Count(field)
         /\ \/ field = "files_deleted" /\ fs' = fs \ {n} /\ ~ job.dry_run
            \/ field = "file_failures" /\ n \in job.stubborn /\ UNCHANGED fs
            \/ field = "files_retained" /\ (cancel \/ n \in job.keep) /\ UNCHANGED fs
            \/ field = "files_deleted" /\ job.dry_run /\ UNCHANGED fs
  OBVIOUS
<1>6. \A f \in DOMAIN NoMetrics : metrics'[f] = metrics[f] + (IF f = field THEN 1 ELSE 0)
  BY <1>5, Fields, Counting DEF TypeInv
<1>7. /\ metrics'.list_failures = metrics.list_failures
      /\ metrics'.dirs_scanned = metrics.dirs_scanned
      /\ metrics'.dirs_deleted = metrics.dirs_deleted
      /\ metrics'.dirs_retained = metrics.dirs_retained
      /\ metrics'.dir_failures = metrics.dir_failures
      /\ metrics'.file_failures
            = metrics.file_failures + (IF field = "file_failures" THEN 1 ELSE 0)
      /\ metrics'.files_deleted
            = metrics.files_deleted + (IF field = "files_deleted" THEN 1 ELSE 0)
  BY <1>5, <1>6, Fields, MetricsAreNumbers
<1>8. /\ field = "file_failures" => Failures' # 0
      /\ field # "file_failures" => Failures' = Failures
  BY <1>7, MetricsAreNumbers DEF Failures
<1>9. PresentInv'
  BY <1>1, <1>3, <1>5 DEF TallyInv, PresentInv
<1>10. FlushInv' /\ CompleteInv'
  BY <1>3, <1>7 DEF TallyInv, FlushInv, CompleteInv
<1>11. FailInv'
  BY <1>4, <1>5, <1>8 DEF TallyInv, FailInv, Obliging
<1>12. RemainsInv'
  <2> SUFFICES ASSUME meddling = 0, ~ cancel, ~ job.dry_run, Failures' = 0
               PROVE  Past' \cap fs' \subseteq Remains
    BY <1>4 DEF RemainsInv
  <2>1. Past \cap fs \subseteq Remains
    BY <1>8 DEF TallyInv, RemainsInv
  <2>2. CASE fs' = fs \ {n}
    BY <1>1, <2>1, <2>2
  <2>3. CASE n \in job.keep /\ UNCHANGED fs
    <3>1. n \in job.tree
      BY <1>2 DEF TallyInv, PresentInv
    <3>2. n \in Remains
      BY <2>3, <3>1, RemainsFacts DEF TypeInv
    <3> QED
      BY <1>1, <2>1, <2>3, <3>2
  <2> QED
    BY <1>5, <1>8, <2>2, <2>3
<1>13. GoneInv'
  <2> SUFFICES ASSUME meddling = 0, ~ job.dry_run
               PROVE  /\ metrics'.files_deleted = Cardinality((job.tree \ fs') \cap Leaves)
                      /\ metrics'.dirs_deleted = Cardinality((job.tree \ fs') \cap Dirs)
    BY DEF GoneInv
  <2>1. /\ metrics.files_deleted = Cardinality((job.tree \ fs) \cap Leaves)
        /\ metrics.dirs_deleted = Cardinality((job.tree \ fs) \cap Dirs)
    BY DEF TallyInv, GoneInv
  <2>2. CASE field # "files_deleted" /\ UNCHANGED fs
    BY <1>7, <2>1, <2>2, MetricsAreNumbers
  <2>3. CASE fs' = fs \ {n} /\ field = "files_deleted"
    <3>1. n \in job.tree /\ n \in fs /\ job.tree \ fs \subseteq Past
      BY <1>1, <1>2 DEF TallyInv, PresentInv
    <3>2. /\ (job.tree \ fs') \cap Leaves = ((job.tree \ fs) \cap Leaves) \cup {n}
          /\ (job.tree \ fs') \cap Dirs = (job.tree \ fs) \cap Dirs
          /\ n \notin (job.tree \ fs) \cap Leaves
      BY <1>2, <2>3, <3>1
    <3>3. IsFiniteSet((job.tree \ fs) \cap Leaves)
      BY <3>1, PastFacts, FS_Subset
    <3>4. PICK S : S = (job.tree \ fs) \cap Leaves
      OBVIOUS
    <3>5. Cardinality(S \cup {n}) = Cardinality(S) + 1
      BY <3>2, <3>3, <3>4, CardinalityStep
    <3> QED
      BY <1>7, <2>1, <2>3, <3>2, <3>4, <3>5
  <2> QED
    BY <1>5, <2>2, <2>3
<1>14. DirsAddUp'
  BY <1>7 DEF TallyInv, DirsAddUp, DirsSettled, Tracked
<1> QED
  BY <1>9, <1>10, <1>11, <1>12, <1>13, <1>14 DEF TallyInv

\* A directory has its turn.
LEMMA TallyOfDirectory ==
    ASSUME TypeInv, StaysInv, OrderInv, TallyInv, NEW t \in Threads, DirAttempt(t)
    PROVE  TallyInv'
<1>a. PICK d : d = pc[t].node
  OBVIOUS
<1> USE <1>a
<1>1. /\ pc[t].at = "attempt"
      /\ UNCHANGED <<job, meddling, cancel, walk, enumQ, progress>>
      /\ \E s : Finish(t, d, s)
  BY AttemptFinishes
<1>2. /\ Past' = Past \cup {d} /\ d \notin Past /\ d \in Dirs /\ Tracked(tracker, d)
      /\ d \in progress.discovered /\ DOMAIN tracker' = DOMAIN tracker \ {d}
  BY <1>1, PastOfDirectory
<1>3. Found(d) /\ d \in Nodes /\ d \notin Leaves
  BY <1>2, Leafs, PipelineAssumption DEF Found, FoundBy
<1>4. /\ \A m : Found(m)' <=> Found(m)
      /\ \A x : Ended(x)' <=> Ended(x)
      /\ \A x : ErrorSent(x)' <=> ErrorSent(x)
  BY <1>1, NothingHeard DEF OrderInv, WalkOrderInv
<1>5. (Troubled' <=> Troubled) /\ (Obliging' <=> Obliging) /\ Remains' = Remains
  BY <1>1, <1>4 DEF Troubled, Obliging, Remains, Above
<1>6. PICK field :
         \/ /\ field = "none" /\ UNCHANGED <<metrics, fs>> /\ d = Root /\ job.preserve_root
         \/ /\ field \in {"dirs_deleted", "dirs_retained"} /\ Count(field) /\ UNCHANGED fs
            /\ job.dry_run /\ ~ (d = Root /\ job.preserve_root)
         \/ /\ field = "dirs_deleted" /\ Count(field) /\ fs' = fs \ {d}
            /\ ~ job.dry_run /\ ~ (d = Root /\ job.preserve_root)
         \/ /\ field = "dirs_retained" /\ Count(field) /\ UNCHANGED fs
            /\ ~ job.dry_run /\ ~ (d = Root /\ job.preserve_root)
            /\ ChildrenIn(d, fs) # {}
         \/ /\ field = "dir_failures" /\ Count(field) /\ UNCHANGED fs
            /\ ~ job.dry_run /\ ~ (d = Root /\ job.preserve_root)
            /\ \/ ChildrenIn(d, fs) # {} /\ ~ job.preserve_root /\ ~ cancel
               \/ d \in job.stubborn
  <2>1. CASE DirPreserveRoot(t)
    BY <2>1 DEF DirPreserveRoot
  <2>2. CASE DirSimulate(t)
    BY <2>2 DEF DirSimulate
  <2>3. CASE DirDelete(t)
    <3>1. \/ fs' = fs \ {d} /\ Count("dirs_deleted")
          \/ ChildrenIn(d, fs) # {} /\ Count("dirs_retained") /\ UNCHANGED fs
          \/ /\ \/ ChildrenIn(d, fs) # {} /\ ~ job.preserve_root /\ ~ cancel
                \/ d \in job.stubborn
             /\ Count("dir_failures") /\ UNCHANGED fs
      BY <2>3 DEF DirDelete
    <3>2. ~ (d = Root /\ job.preserve_root) /\ ~ job.dry_run
      BY <2>3 DEF DirDelete
    <3> QED
      BY <3>1, <3>2
  <2> QED
    BY <2>1, <2>2, <2>3 DEF DirAttempt
<1>7. field \in {"none", "dirs_deleted", "dirs_retained", "dir_failures"}
  BY <1>6
<1>8. /\ metrics'.file_failures = metrics.file_failures
      /\ metrics'.list_failures = metrics.list_failures
      /\ metrics'.files_deleted = metrics.files_deleted
      /\ metrics'.dirs_scanned = metrics.dirs_scanned
      /\ metrics'.dirs_deleted
            = metrics.dirs_deleted + (IF field = "dirs_deleted" THEN 1 ELSE 0)
      /\ metrics'.dirs_retained
            = metrics.dirs_retained + (IF field = "dirs_retained" THEN 1 ELSE 0)
      /\ metrics'.dir_failures
            = metrics.dir_failures + (IF field = "dir_failures" THEN 1 ELSE 0)
  <2>1. CASE field = "none"
    BY <1>6, <2>1, MetricsAreNumbers
  <2>2. CASE field # "none"
    <3>1. field \in DOMAIN NoMetrics /\ Count(field)
      BY <1>6, <2>2, Fields
    <3>2. \A f \in DOMAIN NoMetrics : metrics'[f] = metrics[f] + (IF f = field THEN 1 ELSE 0)
      BY <3>1, Counting DEF TypeInv
    <3> QED
      BY <1>7, <3>2, Fields, MetricsAreNumbers
  <2> QED
    BY <2>1, <2>2
<1>9. /\ field = "dir_failures" => Failures' # 0
      /\ field # "dir_failures" => Failures' = Failures
  BY <1>8, MetricsAreNumbers DEF Failures
<1>10. meddling = 0 /\ ~ cancel /\ ~ job.dry_run /\ Failures = 0 /\ ChildrenIn(d, fs) # {}
          => d \in Remains
  BY <1>1, LeftRemains
<1>11. PresentInv'
  <2>1. fs' = fs \ {d} \/ UNCHANGED fs
    BY <1>6
  <2> QED
    BY <1>1, <1>2, <1>4, <2>1 DEF TallyInv, PresentInv
<1>12. FlushInv' /\ CompleteInv'
  BY <1>1, <1>4, <1>8 DEF TallyInv, FlushInv, CompleteInv
<1>13. FailInv'
  <2>1. CASE field # "dir_failures"
    BY <1>5, <1>9, <2>1 DEF TallyInv, FailInv
  <2>2. CASE field = "dir_failures"
    <3> SUFFICES ASSUME Obliging PROVE FALSE
      BY <1>5 DEF FailInv
    <3>1. meddling = 0 /\ job.stubborn = {} /\ Failures = 0
      BY DEF Obliging, TallyInv, FailInv
    <3>2. ChildrenIn(d, fs) # {} /\ ~ job.preserve_root /\ ~ cancel /\ ~ job.dry_run
      BY <1>6, <2>2, <3>1
    <3>3. d \in Remains
      BY <1>10, <3>1, <3>2
    <3> QED
      BY <3>2, <3>3, RemainsFacts DEF TypeInv
  <2> QED
    BY <2>1, <2>2
<1>14. RemainsInv'
  <2> SUFFICES ASSUME meddling = 0, ~ cancel, ~ job.dry_run, Failures' = 0
               PROVE  Past' \cap fs' \subseteq Remains
    BY <1>1, <1>5 DEF RemainsInv
  <2>1. Failures = 0 /\ Past \cap fs \subseteq Remains /\ field # "dir_failures"
    BY <1>9 DEF TallyInv, RemainsInv
  <2>2. fs' = fs \ {d} \/ (UNCHANGED fs /\ d \in Remains)
    BY <1>6, <1>10, <2>1, RemainsFacts DEF TypeInv
  <2> QED
    BY <1>2, <2>1, <2>2
<1>15. GoneInv'
  <2> SUFFICES ASSUME meddling = 0, ~ job.dry_run
               PROVE  /\ metrics'.files_deleted = Cardinality((job.tree \ fs') \cap Leaves)
                      /\ metrics'.dirs_deleted = Cardinality((job.tree \ fs') \cap Dirs)
    BY <1>1 DEF GoneInv
  <2>1. /\ metrics.files_deleted = Cardinality((job.tree \ fs) \cap Leaves)
        /\ metrics.dirs_deleted = Cardinality((job.tree \ fs) \cap Dirs)
    BY DEF TallyInv, GoneInv
  <2>2. CASE field # "dirs_deleted"
    <3>1. UNCHANGED fs
      BY <1>6, <2>2
    <3> QED
      BY <1>8, <2>1, <2>2, <3>1, MetricsAreNumbers
  <2>3. CASE field = "dirs_deleted"
    <3>1. fs' = fs \ {d}
      BY <1>6, <2>3
    <3>2. d \in job.tree /\ d \in fs /\ job.tree \ fs \subseteq Past
      BY <1>2, <1>3 DEF TallyInv, PresentInv
    <3>3. /\ (job.tree \ fs') \cap Dirs = ((job.tree \ fs) \cap Dirs) \cup {d}
          /\ (job.tree \ fs') \cap Leaves = (job.tree \ fs) \cap Leaves
          /\ d \notin (job.tree \ fs) \cap Dirs
      BY <1>2, <1>3, <3>1, <3>2
    <3>4. PICK S : S = (job.tree \ fs) \cap Dirs
      OBVIOUS
    <3>5. IsFiniteSet(S)
      BY <3>2, <3>4, PastFacts, FS_Subset
    <3>6. Cardinality(S \cup {d}) = Cardinality(S) + 1
      BY <3>3, <3>4, <3>5, CardinalityStep
    <3> QED
      BY <1>8, <2>1, <2>3, <3>3, <3>4, <3>6
  <2> QED
    BY <2>2, <2>3
<1>16. DirsAddUp'
  <2>1. PICK k \in Nat : /\ k = Cardinality(DOMAIN tracker')
                         /\ Cardinality(DOMAIN tracker) = k + 1
    <3>1. PICK S : S = DOMAIN tracker
      OBVIOUS
    <3>2. IsFiniteSet(S) /\ d \in S
      BY <1>2, <3>1, TrackedAreFinite DEF Tracked
    <3>3. IsFiniteSet(S \ {d}) /\ Cardinality(S \ {d}) = Cardinality(S) - 1
          /\ Cardinality(S) \in Nat
      BY <3>2, CardinalityStep, FS_RemoveElement
    <3>4. Cardinality(S \ {d}) \in Nat
      BY <3>3, FS_CardinalityType
    <3> QED
      BY <1>2, <3>1, <3>3, <3>4
  <2>2. /\ DirsSettled \in Nat
        /\ DirsSettled' = DirsSettled + (IF field = "none" THEN 0 ELSE 1)
    BY <1>7, <1>8, MetricsAreNumbers DEF DirsSettled
  <2>3. metrics.dirs_scanned =
            DirsSettled + (k + 1)
              + (IF job.preserve_root /\ ~ Tracked(tracker, Root) THEN 1 ELSE 0)
    BY <2>1 DEF TallyInv, DirsAddUp
  <2>4. Tracked(tracker', Root) <=> Tracked(tracker, Root) /\ d # Root
    BY <1>2 DEF Tracked
  <2>5. field = "none" <=> d = Root /\ job.preserve_root
    BY <1>6
  <2>6. metrics'.dirs_scanned =
            DirsSettled' + k + (IF job.preserve_root /\ ~ Tracked(tracker', Root) THEN 1 ELSE 0)
    <3>1. CASE d = Root /\ job.preserve_root
      BY <1>2, <1>8, <2>2, <2>3, <2>4, <2>5, <3>1
    <3>2. CASE ~ (d = Root /\ job.preserve_root)
      <4>1. (job.preserve_root /\ ~ Tracked(tracker', Root))
               <=> (job.preserve_root /\ ~ Tracked(tracker, Root))
        BY <2>4, <3>2
      <4> QED
        BY <1>8, <2>2, <2>3, <2>5, <3>2, <4>1
    <3> QED
      BY <3>1, <3>2
  <2> QED
    BY <1>1, <2>1, <2>6 DEF DirsAddUp
<1> QED
  BY <1>11, <1>12, <1>13, <1>14, <1>15, <1>16 DEF TallyInv

\* The coordinator hears of something.
LEMMA TallyOfEvent ==
    ASSUME TypeInv, OrderInv, TallyInv, CoordinatorEvent
    PROVE  TallyInv' /\ Past' = Past
<1>1. PICK e : e = Head(enumQ)
  OBVIOUS
<1>2. /\ e \in EventType /\ enumQ \in Seq(EventType) /\ enumQ # <<>>
      /\ progress'.discovered = progress.discovered
             \cup (IF e.kind = "entry" THEN {e.node} ELSE {})
      /\ progress'.resolved = progress.resolved
  BY ONLY TypeInv, OrderInv, CoordinatorEvent, <1>1, Heard
<1>3. /\ e.kind = "entry" =>
             /\ e.node \in Nodes \ {Root} /\ e.node \notin progress.discovered
             /\ Parent[e.node] \in progress.discovered \ progress.listed
      /\ e.kind # "entry" =>
             e.node \in Dirs /\ e.node \in progress.discovered \ progress.listed
  BY <1>1, <1>2, FirstEvent DEF OrderInv
<1>4. /\ \A n : Found(n)' <=> Found(n)
      /\ \A d : Ended(d)' <=> Ended(d)
      /\ \A d : ErrorSent(d) <=> ErrorSent(d)' \/ e = Event("error", d)
  BY <1>1, HeardOrder
<1>5. UNCHANGED <<job, fs, meddling, cancel, walk>>
  BY DEF CoordinatorEvent, fsVars
<1>6. /\ e.kind = "entry" => e.node \notin DOMAIN tracker
      /\ IsFiniteSet(DOMAIN tracker)
  BY <1>3, TrackedAreFinite
<1>7. DOMAIN tracker' = DOMAIN tracker
         \cup (IF e.kind = "entry" /\ e.node \in Dirs THEN {e.node} ELSE {})
  BY <1>1, PipelineAssumption
     DEF CoordinatorEvent, CoordinatorDirectory, CoordinatorLeaf, CoordinatorListed,
         CoordinatorListError, ReceiveEvent, AddPending, Insert, SetEnumerationDone, Update
<1>8. Past' = Past
  <2>1. ASSUME NEW u \in Threads, NEW n
        PROVE  Completing(u, n)' <=> Completing(u, n)
    <3>1. \/ UNCHANGED pc
          \/ \E c : /\ pc' = [pc EXCEPT ![Coordinator] = c]
                    /\ c.at \in {"decide", "try_finalise"}
      <4>1. CASE CoordinatorDirectory \/ CoordinatorListError
        BY <4>1 DEF CoordinatorDirectory, CoordinatorListError
      <4>2. CASE CoordinatorLeaf
        <5>1. PICK x : x = [at |-> "decide", node |-> e.node, still |-> FALSE]
          OBVIOUS
        <5>2. pc' = [pc EXCEPT ![Coordinator] = x] /\ x.at = "decide"
          BY <1>1, <4>2, <5>1 DEF CoordinatorLeaf, Goto
        <5> QED
          BY <5>2
      <4>3. CASE CoordinatorListed
        <5>1. PICK x : x = [at |-> "try_finalise", node |-> e.node, still |-> FALSE]
          OBVIOUS
        <5>2. x.at = "try_finalise" /\
              (pc' = [pc EXCEPT ![Coordinator] = x] \/ UNCHANGED pc)
          BY <1>1, <4>3, <5>1 DEF CoordinatorListed, Goto
        <5> QED
          BY <5>2
      <4> QED
        BY <4>1, <4>2, <4>3 DEF CoordinatorEvent
    <3>2. pc[Coordinator].at = "recv"
      BY DEF CoordinatorEvent, CoordinatorDirectory, CoordinatorLeaf, CoordinatorListed,
             CoordinatorListError, ReceiveEvent, At
    <3>3. CASE UNCHANGED pc
      BY <3>3 DEF Completing
    <3>4. ASSUME NEW c, pc' = [pc EXCEPT ![Coordinator] = c],
                 c.at \in {"decide", "try_finalise"}
          PROVE  Completing(u, n)' <=> Completing(u, n)
      <4>1. /\ \A v \in Threads : \A m : v # Coordinator => (Completing(v, m)' <=> Completing(v, m))
            /\ \A m : Completing(Coordinator, m)' <=> c.at = "complete" /\ c.node = m
        BY ONLY TypeInv, <3>4, CoordinatorIsAThread, CompletingMoves
      <4>2. ~ Completing(Coordinator, n)
        BY <3>2 DEF Completing
      <4> QED
        BY <3>4, <4>1, <4>2
    <3> QED
      BY <3>1, <3>3, <3>4
  <2>2. ASSUME NEW n \in progress'.discovered
        PROVE  HadTurn(n)' <=> (n \in progress.discovered /\ HadTurn(n))
    <3>1. CASE n \in progress.discovered
      BY <1>2, <1>3, <1>7, <2>1, <3>1 DEF HadTurn, Tracked
    <3>2. CASE n \notin progress.discovered
      <4>1. e.kind = "entry" /\ n = e.node
        BY <1>2, <2>2, <3>2
      <4>2. CASE n \in Dirs
        BY <1>7, <3>2, <4>1, <4>2 DEF HadTurn, Tracked
      <4>3. CASE n \notin Dirs
        <5>1. n \notin progress.resolved
          BY <3>2 DEF OrderInv, ProgressInv
        <5>2. \A u \in Threads : ~ Completing(u, n)
          BY <3>2 DEF OrderInv, ThreadsInv, ThreadOK, Holding, Open, Completing
        <5> QED
          BY <1>2, <2>1, <4>3, <5>1, <5>2 DEF HadTurn
      <4> QED
        BY <4>2, <4>3
    <3> QED
      BY <3>1, <3>2
  <2>3. progress.discovered \subseteq progress'.discovered
    BY <1>2
  <2> QED
    BY <2>2, <2>3 DEF Past
<1>9. PICK field \in {"files_scanned", "dirs_scanned", "list_failures", "none"} :
         /\ field = "none" => UNCHANGED metrics
         /\ field # "none" => Count(field)
         /\ e.kind = "error" <=> field = "list_failures"
         /\ e.kind = "entry" /\ e.node \in Dirs <=> field = "dirs_scanned"
  <2>1. CASE CoordinatorDirectory
    BY <1>1, <2>1 DEF CoordinatorDirectory, ReceiveEvent
  <2>2. CASE CoordinatorLeaf
    BY <1>1, <2>2, PipelineAssumption DEF CoordinatorLeaf, ReceiveEvent
  <2>3. CASE CoordinatorListed
    BY <1>1, <2>3 DEF CoordinatorListed, ReceiveEvent
  <2>4. CASE CoordinatorListError
    BY <1>1, <2>4 DEF CoordinatorListError, ReceiveEvent
  <2> QED
    BY <2>1, <2>2, <2>3, <2>4 DEF CoordinatorEvent
<1>10. /\ metrics'.file_failures = metrics.file_failures
       /\ metrics'.dir_failures = metrics.dir_failures
       /\ metrics'.files_deleted = metrics.files_deleted
       /\ metrics'.dirs_deleted = metrics.dirs_deleted
       /\ metrics'.dirs_retained = metrics.dirs_retained
       /\ metrics'.list_failures
             = metrics.list_failures + (IF field = "list_failures" THEN 1 ELSE 0)
       /\ metrics'.dirs_scanned
             = metrics.dirs_scanned + (IF field = "dirs_scanned" THEN 1 ELSE 0)
  <2>1. CASE field = "none"
    BY <1>9, <2>1, MetricsAreNumbers
  <2>2. CASE field # "none"
    <3>1. field \in DOMAIN NoMetrics /\ Count(field)
      BY <1>9, <2>2, Fields
    <3>2. \A f \in DOMAIN NoMetrics : metrics'[f] = metrics[f] + (IF f = field THEN 1 ELSE 0)
      BY <3>1, Counting DEF TypeInv
    <3> QED
      BY <3>2, Fields, MetricsAreNumbers
  <2> QED
    BY <2>1, <2>2
<1>11. e.kind # "error" => \A d : ErrorSent(d)' <=> ErrorSent(d)
  BY <1>4, Events
<1>12. e.kind = "error" => ErrorSent(e.node) /\ e.node \in Dirs
  BY <1>2, <1>3, <1>4, Events
<1>13. (Obliging' <=> Obliging) /\ Remains' = Remains /\ (Troubled' => Troubled)
  BY <1>4, <1>5 DEF Obliging, Remains, Above, Troubled
<1>14. /\ field = "list_failures" => Failures' # 0
       /\ field # "list_failures" => Failures' = Failures
  BY <1>10, MetricsAreNumbers DEF Failures
<1>15. PresentInv' /\ FlushInv'
  BY <1>4, <1>5, <1>8 DEF TallyInv, PresentInv, FlushInv
<1>16. CompleteInv'
  <2>1. metrics'.list_failures = 0 => metrics.list_failures = 0 /\ e.kind # "error"
    BY <1>9, <1>10, MetricsAreNumbers
  <2> QED
    BY <1>4, <1>5, <1>11, <2>1 DEF TallyInv, CompleteInv
<1>17. FailInv'
  <2>1. Obliging => e.kind # "error"
    BY <1>12 DEF TallyInv, FailInv, Troubled
  <2> QED
    BY <1>9, <1>13, <1>14, <2>1 DEF TallyInv, FailInv
<1>18. RemainsInv'
  BY <1>5, <1>8, <1>13, <1>14 DEF TallyInv, RemainsInv
<1>19. GoneInv'
  BY <1>5, <1>10 DEF TallyInv, GoneInv
<1>20. DirsAddUp'
  <2>1. PICK k, k1 \in Nat : /\ k = Cardinality(DOMAIN tracker)
                             /\ k1 = Cardinality(DOMAIN tracker')
                             /\ k1 = k + (IF field = "dirs_scanned" THEN 1 ELSE 0)
    <3>1. PICK S : S = DOMAIN tracker
      OBVIOUS
    <3>2. IsFiniteSet(S) /\ Cardinality(S) \in Nat
      BY <1>6, <3>1, CardinalityStep
    <3>3. e.kind = "entry" => Cardinality(S \cup {e.node}) = Cardinality(S) + 1
      BY <1>6, <3>1, <3>2, CardinalityStep
    <3>4. CASE field = "dirs_scanned"
      BY <1>7, <1>9, <3>1, <3>2, <3>3, <3>4
    <3>5. CASE field # "dirs_scanned"
      BY <1>7, <1>9, <3>1, <3>2, <3>5
    <3> QED
      BY <3>4, <3>5
  <2>2. DirsSettled \in Nat /\ DirsSettled' = DirsSettled
    BY <1>10, MetricsAreNumbers DEF DirsSettled
  <2>3. Tracked(tracker', Root) <=> Tracked(tracker, Root)
    BY <1>3, <1>7 DEF Tracked
  <2>4. metrics.dirs_scanned =
            DirsSettled + k + (IF job.preserve_root /\ ~ Tracked(tracker, Root) THEN 1 ELSE 0)
    BY <2>1 DEF TallyInv, DirsAddUp
  <2>5. metrics'.dirs_scanned =
            DirsSettled + k1 + (IF job.preserve_root /\ ~ Tracked(tracker, Root) THEN 1 ELSE 0)
    BY <1>10, <2>1, <2>2, <2>4
  <2> QED
    BY <1>5, <2>1, <2>2, <2>3, <2>5 DEF DirsAddUp
<1> QED
  BY <1>8, <1>15, <1>16, <1>17, <1>18, <1>19, <1>20 DEF TallyInv

\* A step of the walk changes nothing that was counted.
LEMMA WalkTally ==
    ASSUME TallyInv, Walk, PresentInv', FlushInv', CompleteInv', FailInv'
    PROVE  TallyInv' /\ Past' = Past
<1>1. UNCHANGED <<job, fs, meddling, cancel, tracker, pc, metrics, progress>>
  BY DEF Walk, fsVars
<1>2. Past' = Past
  BY <1>1 DEF Past, HadTurn, Completing
<1>3. RemainsInv' /\ GoneInv' /\ DirsAddUp'
  BY <1>1, <1>2
     DEF TallyInv, RemainsInv, GoneInv, DirsAddUp, DirsSettled, Failures, Remains, Above, Tracked
<1> QED
  BY <1>2, <1>3 DEF TallyInv

\* The walk turns to a directory: what is in it now is to be sent, and what is not
\* there any more has had its turn.
LEMMA TallyOfPop ==
    ASSUME TypeInv, StaysInv, OrderInv, TallyInv, WalkPop, Walk
    PROVE  PresentInv' /\ FlushInv' /\ CompleteInv' /\ FailInv'
<1>1. UNCHANGED <<job, fs, meddling, cancel, tracker, pc, metrics, progress>>
  BY DEF Walk, fsVars
<1>2. Past' = Past /\ (Obliging' <=> Obliging) /\ Failures' = Failures
  BY <1>1 DEF Past, HadTurn, Completing, Obliging, Failures
<1>3. /\ \A n : Found(n)' <=> Found(n)
      /\ \A d : Ended(d)' <=> Ended(d)
      /\ \A d : ErrorSent(d)' <=> ErrorSent(d)
  BY <1>1, NothingSent DEF WalkPop
<1>4. PICK d : d = Top(walk.stack)
  OBVIOUS
<1>5. walk.stack \in Seq(Dirs) /\ walk.stack # <<>>
  BY DEF TypeInv, WalkInv, WalkType, WalkPop
<1>6. d \in Dirs /\ Stacked(d)
  BY <1>4, <1>5 DEF Top, Stacked
<1>7. StackOK(d)
  BY <1>6 DEF OrderInv, StackInv
<1>8. walk.unsent = {}
  BY DEF OrderInv, ListingInv, WalkPop
<1>9. /\ walk'.at = IF d \in fs /\ d \notin job.unlistable THEN "entries" ELSE "error"
      /\ walk'.dir = d
      /\ walk'.unsent = IF d \in fs /\ d \notin job.unlistable THEN ChildrenIn(d, fs) ELSE {}
  BY <1>4 DEF WalkPop
<1>10. PresentInv'
  <2>1. meddling = 0 => \A n \in walk'.unsent : n \in job.tree
    BY <1>9 DEF StaysInv, ChildrenIn
  <2> QED
    BY <1>1, <1>2, <1>3, <2>1 DEF TallyInv, PresentInv
<1>11. FlushInv'
  BY <1>9 DEF FlushInv
<1>12. CompleteInv'
  <2> SUFFICES ASSUME meddling = 0, ~ cancel, metrics.list_failures = 0,
                      NEW n \in job.tree \ {Root},
                      Ended(Parent[n])' \/ (walk'.at = "entries" /\ walk'.dir = Parent[n])
               PROVE  Found(n)' \/ n \in walk'.unsent \/ ErrorSent(Parent[n])'
    BY <1>1 DEF CompleteInv
  <2>1. CASE Ended(Parent[n])
    BY <1>3, <1>8, <2>1 DEF TallyInv, CompleteInv
  <2>2. CASE walk'.at = "entries" /\ d = Parent[n]
    <3>1. walk'.unsent = ChildrenIn(d, fs)
      BY <1>9, <2>2
    <3>2. n \in fs \/ n \in Past
      BY DEF TallyInv, PresentInv
    <3> QED
      BY <1>3, <2>2, <3>1, <3>2, PastFacts DEF ChildrenIn
  <2> QED
    BY <1>3, <1>9, <2>1, <2>2
<1>13. FailInv'
  <2> SUFFICES ASSUME Obliging PROVE Failures = 0 /\ ~ Troubled'
    BY <1>2 DEF FailInv
  <2>1. Failures = 0 /\ ~ Troubled /\ meddling = 0 /\ job.unlistable = {}
    BY DEF TallyInv, FailInv, Obliging
  <2>2. d \in job.tree
    BY <1>6, <1>7, <2>1, Leafs DEF StackOK, TallyInv, PresentInv
  <2>3. d \in fs
    BY <1>6, <1>7, <2>1, <2>2, PastFacts DEF StackOK, TallyInv, PresentInv
  <2> QED
    BY <1>3, <1>9, <2>1, <2>3 DEF Troubled
<1> QED
  BY <1>10, <1>11, <1>12, <1>13

\* The walk sends what it has found.
LEMMA TallyOfSend ==
    ASSUME TypeInv, OrderInv, TallyInv, WalkEntry \/ WalkError \/ WalkComplete \/ WalkFlush,
           Walk
    PROVE  PresentInv' /\ FlushInv' /\ CompleteInv' /\ FailInv'
<1>1. UNCHANGED <<job, fs, meddling, cancel, tracker, pc, metrics, progress>>
  BY DEF Walk, fsVars
<1>2. Past' = Past /\ (Obliging' <=> Obliging) /\ Failures' = Failures
  BY <1>1 DEF Past, HadTurn, Completing, Obliging, Failures
<1>3. /\ enumQ \in Seq(EventType) /\ walk \in WalkType
      /\ walk.at # "entries" => walk.unsent = {}
  BY DEF TypeInv, WalkInv, OrderInv, ListingInv
<1>4. ASSUME NEW e \in EventType, Send(e)
      PROVE  /\ \A n : Found(n)' <=> Found(n) \/ e = Event("entry", n)
             /\ \A d : Ended(d)' <=> Ended(d) \/ e = Event("complete", d)
             /\ \A d : ErrorSent(d)' <=> ErrorSent(d) \/ e = Event("error", d)
  BY <1>1, <1>3, <1>4, Sending
<1>5. CASE WalkEntry
  <2>1. PICK n \in walk.unsent :
           /\ Send(Event("entry", n))
           /\ walk' = [walk EXCEPT !.unsent = @ \ {n},
                                   !.stack = IF n \in Dirs THEN Append(@, n) ELSE @]
    BY <1>5 DEF WalkEntry
  <2>2. Event("entry", n) \in EventType
    BY <1>3 DEF EventType, Event, WalkType
  <2>3. /\ \A m : Found(m)' <=> Found(m) \/ m = n
        /\ \A d : Ended(d)' <=> Ended(d)
        /\ \A d : ErrorSent(d)' <=> ErrorSent(d)
    BY <1>4, <2>1, <2>2, Events
  <2>4. /\ walk'.at = walk.at /\ walk'.dir = walk.dir /\ walk'.unsent = walk.unsent \ {n}
    BY <1>3, <2>1 DEF WalkType
  <2>5. PresentInv'
    BY <1>1, <1>2, <2>3, <2>4 DEF TallyInv, PresentInv
  <2>6. FlushInv' /\ CompleteInv'
    BY <1>1, <2>3, <2>4 DEF TallyInv, FlushInv, CompleteInv
  <2>7. FailInv'
    BY <1>2, <2>3, <2>4 DEF TallyInv, FailInv, Troubled
  <2> QED
    BY <2>5, <2>6, <2>7
<1>6. CASE WalkError
  <2>1. /\ Send(Event("error", walk.dir)) /\ walk.at = "error"
        /\ walk' = [walk EXCEPT !.at = "entries"]
    BY <1>6 DEF WalkError
  <2>2. Event("error", walk.dir) \in EventType
    BY <1>3 DEF EventType, Event, WalkType
  <2>3. /\ \A m : Found(m)' <=> Found(m)
        /\ \A d : Ended(d)' <=> Ended(d)
        /\ \A d : ErrorSent(d)' <=> ErrorSent(d) \/ d = walk.dir
    BY <1>4, <2>1, <2>2, Events
  <2>4. /\ walk'.at = "entries" /\ walk'.dir = walk.dir /\ walk'.unsent = walk.unsent
    BY <1>3, <2>1 DEF WalkType
  <2>5. PresentInv'
    BY <1>1, <1>2, <2>3, <2>4 DEF TallyInv, PresentInv
  <2>6. FlushInv' /\ CompleteInv'
    BY <1>1, <2>3, <2>4 DEF TallyInv, FlushInv, CompleteInv
  <2>7. FailInv'
    BY <1>2, <2>1 DEF TallyInv, FailInv, Troubled
  <2> QED
    BY <2>5, <2>6, <2>7
<1>7. CASE WalkComplete
  <2>1. /\ Send(Event("complete", walk.dir)) /\ walk.at = "entries" /\ walk.unsent = {}
        /\ walk' = [walk EXCEPT !.at = "pop", !.dir = Root]
    BY <1>7 DEF WalkComplete
  <2>2. Event("complete", walk.dir) \in EventType
    BY <1>3 DEF EventType, Event, WalkType
  <2>3. /\ \A m : Found(m)' <=> Found(m)
        /\ \A d : Ended(d)' <=> Ended(d) \/ d = walk.dir
        /\ \A d : ErrorSent(d)' <=> ErrorSent(d)
    BY <1>4, <2>1, <2>2, Events
  <2>4. /\ walk'.at = "pop" /\ walk'.unsent = {}
    BY <1>3, <2>1 DEF WalkType
  <2>5. PresentInv'
    BY <1>1, <1>2, <2>3, <2>4 DEF TallyInv, PresentInv
  <2>6. FlushInv' /\ CompleteInv'
    BY <1>1, <2>1, <2>3, <2>4 DEF TallyInv, FlushInv, CompleteInv
  <2>7. FailInv'
    BY <1>2, <2>3, <2>4 DEF TallyInv, FailInv, Troubled
  <2> QED
    BY <2>5, <2>6, <2>7
<1>8. CASE WalkFlush
  <2>1. /\ Send(Event("complete", Head(walk.stack))) /\ walk.at = "flush"
        /\ walk.stack # <<>> /\ walk' = [walk EXCEPT !.stack = Tail(@)]
    BY <1>8 DEF WalkFlush
  <2>2. Event("complete", Head(walk.stack)) \in EventType
    BY <1>3, <2>1 DEF EventType, Event, WalkType
  <2>3. /\ \A m : Found(m)' <=> Found(m)
        /\ \A d : ErrorSent(d)' <=> ErrorSent(d)
    BY <1>4, <2>1, <2>2, Events
  <2>4. /\ walk'.at = "flush" /\ walk'.unsent = {} /\ cancel
    BY <1>3, <2>1 DEF WalkType, TallyInv, FlushInv
  <2>5. PresentInv'
    BY <1>1, <1>2, <2>3, <2>4 DEF TallyInv, PresentInv
  <2>6. FlushInv' /\ CompleteInv'
    BY <1>1, <2>4 DEF FlushInv, CompleteInv
  <2>7. FailInv'
    BY <1>2, <2>3, <2>4 DEF TallyInv, FailInv, Troubled
  <2> QED
    BY <2>5, <2>6, <2>7
<1> QED
  BY <1>5, <1>6, <1>7, <1>8

\* Whatever the walk does, the tally holds.
LEMMA TallyOfWalk ==
    ASSUME TypeInv, StaysInv, OrderInv, TallyInv, Walk
    PROVE  TallyInv' /\ Past' = Past
<1>1. CASE WalkPop
  BY <1>1, TallyOfPop, WalkTally
<1>2. CASE WalkEntry \/ WalkError \/ WalkComplete \/ WalkFlush
  BY <1>2, TallyOfSend, WalkTally
<1>3. CASE WalkCancelled \/ WalkExit
  <2>1. UNCHANGED <<job, fs, meddling, cancel, tracker, pc, metrics, progress, enumQ>>
    BY <1>3 DEF Walk, fsVars, WalkCancelled, WalkExit
  <2>2. Past' = Past /\ (Obliging' <=> Obliging) /\ Failures' = Failures
    BY <2>1 DEF Past, HadTurn, Completing, Obliging, Failures
  <2>3. /\ \A n : Found(n)' <=> Found(n)
        /\ \A d : Ended(d)' <=> Ended(d)
        /\ \A d : ErrorSent(d)' <=> ErrorSent(d)
    BY <2>1, NothingSent
  <2>4. walk \in WalkType
    BY DEF TypeInv, WalkInv
  <2>5. /\ walk.at \in {"pop", "flush"} /\ walk'.at \in {"flush", "exited"}
        /\ walk'.unsent = walk.unsent /\ (walk'.at = "flush" => cancel)
    BY <1>3, <2>4 DEF WalkCancelled, WalkExit, WalkType
  <2>6. PresentInv'
    BY <2>1, <2>2, <2>3, <2>5 DEF TallyInv, PresentInv
  <2>7. FlushInv' /\ CompleteInv'
    BY <2>1, <2>3, <2>5 DEF TallyInv, FlushInv, CompleteInv
  <2>8. FailInv'
    BY <2>2, <2>3, <2>5 DEF TallyInv, FailInv, Troubled
  <2> QED
    BY <2>6, <2>7, <2>8, WalkTally
<1> QED
  BY <1>1, <1>2, <1>3 DEF Walk

\* Another program changes the tree: from here on only the counts have to agree.
LEMMA TallyOfMeddle ==
    ASSUME TypeInv, TallyInv, Meddle
    PROVE  TallyInv'
<1>1. meddling' # 0
  BY PipelineAssumption DEF Meddle, TypeInv, FsInv
<1>2. UNCHANGED <<job, cancel, walk, tracker, metrics>>
  BY DEF Meddle
<1>3. PresentInv' /\ CompleteInv' /\ FailInv' /\ RemainsInv' /\ GoneInv'
  BY <1>1 DEF PresentInv, CompleteInv, FailInv, Obliging, RemainsInv, GoneInv
<1>4. FlushInv' /\ DirsAddUp'
  BY <1>2 DEF TallyInv, FlushInv, DirsAddUp, DirsSettled, Tracked
<1> QED
  BY <1>3, <1>4 DEF TallyInv

\* A thread goes on, and nothing is counted.
LEMMA TallyOfMove ==
    ASSUME TypeInv, OrderInv, TallyInv, NEW t \in Threads, NEW step, MovesTo(t, step),
           step # "complete", pc[t].at # "complete",
           UNCHANGED <<job, fs, meddling, cancel, walk, enumQ, metrics>>,
           progress'.discovered = progress.discovered, progress'.listed = progress.listed,
           progress'.resolved = progress.resolved, DOMAIN tracker' = DOMAIN tracker
    PROVE  TallyInv' /\ Past' = Past
<1>1. PICK c : pc' = [pc EXCEPT ![t] = c] /\ c.at = step
  BY DEF MovesTo
<1>2. Past' = Past
  BY <1>1, PastAlone
<1> QED
  BY <1>2, TallyStands DEF OrderInv, WalkOrderInv

\* The calls on the tracker count nothing: who had their turn stays the same.
LEMMA TallyOfCall ==
    ASSUME TypeInv, OrderInv, TallyInv, NEW t \in Threads, TrackerCall(t)
    PROVE  TallyInv' /\ Past' = Past
<1>1. /\ UNCHANGED <<walk, enumQ>>
      /\ progress'.discovered = progress.discovered /\ progress'.listed = progress.listed
  BY NoEvent DEF OrderInv, TrackingInv
<1>2. UNCHANGED <<job, fs, meddling, cancel, metrics>>
  BY DEF TrackerCall, CompleteChild, TryFinalise, SendReady, fsVars
<1>3. CASE CompleteChild(t)
  <2>1. Past' = Past /\ DOMAIN tracker' = DOMAIN tracker
    BY <1>3, PastOfCompleted
  <2> QED
    BY <1>1, <1>2, <2>1, TallyStands DEF OrderInv, WalkOrderInv
<1>4. CASE TryFinalise(t)
  <2>1. /\ pc[t].at = "try_finalise" /\ progress' = progress
        /\ DOMAIN tracker' = DOMAIN tracker
    BY <1>4 DEF TryFinalise, At, SetFinalised, Update
  <2>2. MovesTo(t, "send") \/ MovesTo(t, "recv")
    <3>1. PICK x : x = [at |-> "send", node |-> pc[t].node,
                        still |-> tracker[pc[t].node].still_present]
      OBVIOUS
    <3>2. pc' = [pc EXCEPT ![t] = x] \/ Return(t)
      BY <1>4, <3>1 DEF TryFinalise
    <3>3. x.at = "send"
      BY <3>1
    <3>4. CASE pc' = [pc EXCEPT ![t] = x]
      BY ONLY <3>3, <3>4 DEF MovesTo
    <3> QED
      BY <3>2, <3>4, Moves
  <2> QED
    BY <1>1, <1>2, <2>1, <2>2, TallyOfMove
<1>5. CASE SendReady(t)
  <2>1. pc[t].at = "send" /\ Return(t) /\ tracker' = tracker
    BY <1>5 DEF SendReady, At
  <2>2. progress'.resolved = progress.resolved
    BY <1>5 DEF SendReady, OrderInv, ProgressInv
  <2> QED
    BY <1>1, <1>2, <2>1, <2>2, Moves, TallyOfMove
<1> QED
  BY <1>3, <1>4, <1>5 DEF TrackerCall

\* The steps that are about neither the tree nor the totals.
LEMMA TallyOfQuiet ==
    ASSUME TypeInv, OrderInv, TallyInv,
           \/ CoordinatorEnqueue \/ CoordinatorEnd \/ RootIsDone \/ Join
           \/ \E w \in FileWorkers : FileReceive(w) \/ FileAcquire(w) \/ FileExit(w)
           \/ \E w \in DirWorkers : DirExit(w)
    PROVE  TallyInv' /\ Past' = Past
<1>1. /\ Coordinator \in Threads /\ FileWorkers \subseteq Threads /\ DirWorkers \subseteq Threads
  BY DEF Threads
<1>2. CASE CoordinatorEnqueue \/ CoordinatorEnd \/ RootIsDone \/ Join
  <2>1. /\ UNCHANGED <<job, fs, meddling, cancel, walk, enumQ, metrics, progress, tracker>>
        /\ pc[Coordinator].at # "complete"
    BY <1>2 DEF CoordinatorEnqueue, CoordinatorEnd, RootIsDone, Join, fsVars, queueVars, At
  <2>2. PICK step \in {"recv", "wait", "join", "done"} : MovesTo(Coordinator, step)
    BY <1>2, Moves DEF CoordinatorEnqueue, CoordinatorEnd, RootIsDone, Join
  <2> QED
    BY <1>1, <2>1, <2>2, TallyOfMove
<1>3. ASSUME NEW w \in FileWorkers, FileReceive(w) \/ FileAcquire(w) \/ FileExit(w)
      PROVE  TallyInv' /\ Past' = Past
  <2>1. /\ UNCHANGED <<job, fs, meddling, cancel, walk, enumQ, metrics, progress, tracker>>
        /\ pc[w].at # "complete"
    BY <1>3 DEF FileReceive, FileAcquire, FileExit, fsVars, queueVars, At
  <2>2. PICK step \in {"acquire", "delete", "exited"} : MovesTo(w, step)
    BY <1>3, Moves DEF FileReceive, FileAcquire, FileExit
  <2> QED
    BY <1>1, <2>1, <2>2, TallyOfMove
<1>4. ASSUME NEW w \in DirWorkers, DirExit(w)
      PROVE  TallyInv' /\ Past' = Past
  <2>1. /\ UNCHANGED <<job, fs, meddling, cancel, walk, enumQ, metrics, progress, tracker>>
        /\ pc[w].at # "complete" /\ MovesTo(w, "exited")
    BY <1>4, Moves DEF DirExit, fsVars, queueVars, At
  <2> QED
    BY <1>1, <2>1, TallyOfMove
<1> QED
  BY <1>2, <1>3, <1>4

\* A directory worker takes a directory: the tally stands.
LEMMA TallyOfReceive ==
    ASSUME TypeInv, OrderInv, TallyInv, NEW w \in DirWorkers, DirReceive(w)
    PROVE  TallyInv' /\ Past' = Past
<1>1. /\ UNCHANGED <<job, fs, meddling, cancel, walk, enumQ, metrics, progress, tracker>>
      /\ pc[w].at # "complete" /\ w \in Threads
  BY DEF DirReceive, fsVars, At, Threads
<1>2. PICK x : x = [at |-> "attempt", node |-> Head(readyQ).dir,
                    still |-> Head(readyQ).simulated_non_empty]
  OBVIOUS
<1>3. pc' = [pc EXCEPT ![w] = x] /\ x.at = "attempt"
  BY <1>2 DEF DirReceive
<1>4. MovesTo(w, "attempt")
  BY ONLY <1>3 DEF MovesTo
<1> QED
  BY <1>1, <1>4, TallyOfMove

\* The coordinator decides on a leaf, or a worker deletes one.
LEMMA TallyOfDecision ==
    ASSUME TypeInv, StaysInv, OrderInv, TallyInv,
           CoordinatorDecide \/ \E w \in FileWorkers : FileDelete(w)
    PROVE  TallyInv'
<1>1. Coordinator \in Threads /\ FileWorkers \subseteq Threads
  BY DEF Threads
<1>2. CASE CoordinatorDecide
  <2>1. /\ UNCHANGED <<job, fs, meddling, cancel, walk, enumQ, progress, tracker>>
        /\ pc[Coordinator].at = "decide"
    BY <1>2 DEF CoordinatorDecide, fsVars, queueVars, At
  <2>2. CASE Goto(Coordinator, "enqueue", pc[Coordinator].node) /\ UNCHANGED metrics
    BY <1>1, <2>1, <2>2, Moves, TallyOfMove
  <2>3. ASSUME NEW s, Complete(Coordinator, pc[Coordinator].node, s),
               \/ /\ cancel \/ pc[Coordinator].node \in job.keep
                  /\ Count("files_retained")
               \/ job.dry_run /\ Count("files_deleted")
        PROVE  TallyInv'
    <3>1. PICK c : c = [at |-> "complete", node |-> pc[Coordinator].node, still |-> s]
      OBVIOUS
    <3>2. /\ pc' = [pc EXCEPT ![Coordinator] = c]
          /\ c.at = "complete" /\ c.node = pc[Coordinator].node
      BY <2>3, <3>1 DEF Complete
    <3> QED
      BY <1>1, <2>1, <2>3, <3>2, TallyOfLeaf
  <2> QED
    BY <1>2, <2>2, <2>3 DEF CoordinatorDecide
<1>3. ASSUME NEW w \in FileWorkers, FileDelete(w)
      PROVE  TallyInv'
  <2>1. /\ UNCHANGED <<job, meddling, cancel, walk, enumQ, progress, tracker>>
        /\ pc[w].at = "delete"
    BY <1>3 DEF FileDelete, queueVars, At
  <2>2. ~ job.dry_run
    BY <1>1, <2>1 DEF TypeInv, CallInv, CallIsSound, Deletable
  <2>3. PICK s : /\ Complete(w, pc[w].node, s)
                 /\ \/ fs' = fs \ {pc[w].node} /\ Count("files_deleted")
                    \/ pc[w].node \in job.stubborn /\ Count("file_failures") /\ UNCHANGED fs
    BY <1>3 DEF FileDelete
  <2>4. PICK c : c = [at |-> "complete", node |-> pc[w].node, still |-> s]
    OBVIOUS
  <2>5. /\ pc' = [pc EXCEPT ![w] = c] /\ c.at = "complete" /\ c.node = pc[w].node
    BY <2>3, <2>4 DEF Complete
  <2> QED
    BY <1>1, <2>1, <2>2, <2>3, <2>5, TallyOfLeaf
<1> QED
  BY <1>2, <1>3

\* At the start nobody had their turn and nothing is counted but the root.
LEMMA InitTally == Init => TallyInv
<1> SUFFICES ASSUME Init PROVE TallyInv
  OBVIOUS
<1>1. Root \in Dirs /\ JobInv /\ Root \in job.tree
  BY InitTypes, PipelineAssumption DEF TypeInv, JobInv
<1>2. /\ Len(enumQ) = 0 /\ walk.at = "pop" /\ walk.unsent = {}
      /\ progress.discovered = {Root} /\ progress.listed = {} /\ fs = job.tree
  BY DEF Init
<1>3. \A i, x : ~ SentBefore(i, x)
  BY <1>2 DEF SentBefore
<1>4. /\ \A n : Found(n) <=> n = Root
      /\ \A d : ~ Ended(d) /\ ~ ErrorSent(d)
  BY <1>2, <1>3 DEF Found, FoundBy, Ended, EndedBy, ErrorSent
<1>5. DOMAIN tracker = {Root}
  BY DEF Init, Insert
<1>6. Past = {}
  BY <1>1, <1>2, <1>5 DEF Past, HadTurn, Tracked
<1>7. /\ metrics.files_deleted = 0 /\ metrics.dirs_deleted = 0 /\ metrics.dirs_retained = 0
      /\ metrics.file_failures = 0 /\ metrics.dir_failures = 0 /\ metrics.list_failures = 0
      /\ metrics.dirs_scanned = 1
  BY DEF Init, NoMetrics
<1>8. PresentInv /\ FlushInv /\ CompleteInv
  BY <1>1, <1>2, <1>4 DEF PresentInv, FlushInv, CompleteInv
<1>9. FailInv
  BY <1>2, <1>4, <1>7 DEF FailInv, Failures, Troubled
<1>10. RemainsInv
  BY <1>6 DEF RemainsInv
<1>11. GoneInv
  <2>1. (job.tree \ fs) \cap Leaves = {} /\ (job.tree \ fs) \cap Dirs = {}
    BY <1>2
  <2> QED
    BY <1>7, <2>1, FS_EmptySet DEF GoneInv
<1>12. DirsAddUp
  <2>1. Cardinality(DOMAIN tracker) = 1
    BY <1>5, FS_Singleton
  <2>2. Tracked(tracker, Root)
    BY <1>5 DEF Tracked
  <2> QED
    BY <1>7, <2>1, <2>2 DEF DirsAddUp, DirsSettled
<1> QED
  BY <1>8, <1>9, <1>10, <1>11, <1>12 DEF TallyInv

\* No step breaks the tally.
LEMMA TallyKept ==
    TypeInv /\ StaysInv /\ OrderInv /\ TallyInv /\ [Next]_vars => TallyInv'
<1> SUFFICES ASSUME TypeInv, StaysInv, OrderInv, TallyInv, [Next]_vars PROVE TallyInv'
  OBVIOUS
<1>1. FileWorkers \subseteq Threads /\ DirWorkers \subseteq Threads
  BY DEF Threads
<1>2. CASE Sample \/ Cancel \/ UNCHANGED vars
  <2>1. /\ UNCHANGED <<job, fs, meddling, walk, enumQ, metrics, progress, tracker, pc>>
        /\ cancel => cancel'
    BY <1>2 DEF Sample, Cancel, vars, fsVars, queueVars
  <2>2. Past' = Past
    BY <2>1 DEF Past, HadTurn, Completing
  <2> QED
    BY <2>1, <2>2, TallyStands DEF OrderInv, WalkOrderInv
<1>3. CASE \E w \in DirWorkers : DirReceive(w) \/ DirAttempt(w)
  BY <1>1, <1>3, TallyOfReceive, TallyOfDirectory
<1> QED
  BY <1>2, <1>3, StepsAre, TallyOfWalk, TallyOfEvent, TallyOfCall, TallyOfQuiet,
     TallyOfDecision, TallyOfMeddle

\* What is in the tree, what failed and what was counted agree, always.
THEOREM TallyInvariance == Spec => [](IInv /\ OrderInv /\ TallyInv)
<1>1. Init => TallyInv
  BY InitTally
<1>2. IInv /\ OrderInv /\ TallyInv /\ [Next]_vars => TallyInv'
  BY TallyKept DEF IInv
<1> QED
  BY <1>1, <1>2, Invariance, OrderInvariance, PTL DEF Spec

-----------------------------------------------------------------------------
(* What the report says. *)

\* A run that has ended has forgotten the root.
LEMMA DoneMeansForgotten == ASSUME OrderInv, Done PROVE ~ Tracked(tracker, Root)
  BY DEF OrderInv, RootInv, Done, Shutdown, At

\* If no listing failed and nobody cancelled, everything has had its turn when the
\* root is forgotten.
LEMMA AllHadTheirTurn ==
    ASSUME TypeInv, OrderInv, TallyInv, ~ Tracked(tracker, Root), ~ cancel, meddling = 0,
           metrics.list_failures = 0
    PROVE  job.tree = Past
<1>1. /\ progress.discovered \ {Root} \subseteq progress.resolved
      /\ enumQ = <<>> /\ walk.unsent = {}
      /\ \A n : Found(n) <=> n \in progress.discovered
      /\ \A d \in Dirs \cap progress.discovered : Ended(d)
  BY NothingIsLeft
<1>2. /\ job.tree \subseteq Nodes /\ Root \in job.tree
      /\ \A n \in job.tree \ {Root} : Parent[n] \in job.tree /\ Parent[n] \in Dirs
  BY PipelineAssumption DEF TypeInv, JobInv, Job
<1>3. job.tree \subseteq progress.discovered
  <2> SUFFICES ASSUME job.tree \ progress.discovered # {} PROVE FALSE
    OBVIOUS
  <2>1. PICK S \in SUBSET (Nodes \ {Root}) : S = job.tree \ progress.discovered
    BY <1>2 DEF OrderInv, ProgressInv
  <2>2. PICK n \in S : Parent[n] \notin S
    BY <2>1, PipelineAssumption
  <2>3. n \in job.tree \ {Root} /\ Parent[n] \in Dirs \cap progress.discovered
    BY <1>2, <2>1, <2>2
  <2>4. Found(n) \/ n \in walk.unsent \/ ErrorSent(Parent[n])
    BY <1>1, <2>3 DEF TallyInv, CompleteInv
  <2>5. ~ ErrorSent(Parent[n])
    BY <1>1 DEF ErrorSent
  <2> QED
    BY <1>1, <2>1, <2>4, <2>5
<1>4. progress.discovered \subseteq Past
  <2>1. Root \in Past
    BY Leafs DEF Past, HadTurn, OrderInv, ProgressInv
  <2> QED
    BY <1>1, <2>1, PastFacts
<1>5. Past \subseteq job.tree
  BY PastFacts DEF TallyInv, PresentInv
<1> QED
  BY <1>3, <1>4, <1>5

\* A cancelled run, and one whose filters retain something, reports no failure in a
\* tree in which nothing refuses to be listed or deleted (pipeline.rs:603-607).
THEOREM CancelIsNoFailureHolds == Spec => []CancelIsNoFailure
<1>1. TallyInv => CancelIsNoFailure
  BY DEF CancelIsNoFailure, TallyInv, FailInv, Obliging, Failures
<1> QED
  BY <1>1, TallyInvariance, PTL

\* The totals are what is gone from the tree, whatever failed and whenever the run
\* was cancelled; after a dry run nothing is gone (pipeline.rs:143-149).
THEOREM ReportIsTruthfulHolds == Spec => []ReportIsTruthful
<1>1. ASSUME TypeInv, StaysInv, OrderInv, TallyInv PROVE ReportIsTruthful
  <2> SUFFICES ASSUME meddling = 0, ~ job.dry_run
               PROVE  /\ Cardinality(job.tree \ fs)
                            = metrics.files_deleted + metrics.dirs_deleted
                      /\ Cardinality((job.tree \ fs) \cap Dirs) = metrics.dirs_deleted
    BY <1>1 DEF ReportIsTruthful, StaysInv
  <2>1. PICK L, D : L = (job.tree \ fs) \cap Leaves /\ D = (job.tree \ fs) \cap Dirs
    OBVIOUS
  <2>2. metrics.files_deleted = Cardinality(L) /\ metrics.dirs_deleted = Cardinality(D)
    BY <1>1, <2>1 DEF TallyInv, GoneInv
  <2>3. job.tree \ fs = L \cup D /\ L \cap D = {}
    BY <1>1, <2>1, PipelineAssumption DEF TypeInv, JobInv, Job, Nodes
  <2>4. IsFiniteSet(L) /\ IsFiniteSet(D)
    BY <1>1, <2>1, PastFacts, FS_Subset DEF TallyInv, PresentInv
  <2>5. Cardinality(L \cup D) = Cardinality(L) + Cardinality(D)
    <3>1. Cardinality(L \cup D) = Cardinality(L) + Cardinality(D) - Cardinality(L \cap D)
      BY <2>4, FS_Union
    <3>2. Cardinality(L \cap D) = 0
      BY <2>3, FS_EmptySet
    <3>3. Cardinality(L) \in Nat /\ Cardinality(D) \in Nat
      BY <2>4, FS_CardinalityType
    <3> QED
      BY <3>1, <3>2, <3>3
  <2> QED
    BY <2>1, <2>2, <2>3, <2>5
<1> QED
  BY <1>1, TallyInvariance, PTL DEF IInv

\* Every file and every directory scanned is deleted, retained or failed when the
\* run ends, but for a preserved root.
THEOREM AccountsBalanceHolds == Spec => []AccountsBalance
<1>1. ASSUME TypeInv, OrderInv, TallyInv, Done => FilesBalance PROVE AccountsBalance
  <2> SUFFICES ASSUME Done
               PROVE  metrics.dirs_scanned =
                         metrics.dirs_deleted + metrics.dirs_retained + metrics.dir_failures
                           + (IF job.preserve_root THEN 1 ELSE 0)
    BY <1>1 DEF AccountsBalance
  <2>1. ~ Tracked(tracker, Root) /\ DOMAIN tracker = {}
    BY <1>1, DoneMeansForgotten, NothingIsLeft
  <2>2. Cardinality(DOMAIN tracker) = 0
    BY <2>1, FS_EmptySet
  <2>3. metrics.dirs_scanned = DirsSettled + 0 + (IF job.preserve_root THEN 1 ELSE 0)
    BY <1>1, <2>1, <2>2 DEF TallyInv, DirsAddUp
  <2> QED
    BY <1>1, <2>3, MetricsAreNumbers DEF DirsSettled
<1> QED
  BY <1>1, TallyInvariance, FilesBalanceHolds, PTL DEF IInv

\* A run that reports no failure, was not cancelled and had no filters has emptied
\* the tree, however its threads were interleaved (EXIT_CODES.md:12, 80).
THEOREM SuccessMeansEmptyHolds == Spec => []SuccessMeansEmpty
<1>1. ASSUME TypeInv, StaysInv, OrderInv, TallyInv PROVE SuccessMeansEmpty
  <2> SUFFICES ASSUME Done, ~ cancel, meddling = 0, ~ job.dry_run, ~ job.preserve_root,
                      Failures = 0
               PROVE  fs = {}
    BY DEF SuccessMeansEmpty, Failures
  <2>1. metrics.list_failures = 0
    BY <1>1, MetricsAreNumbers DEF Failures
  <2>2. job.tree = Past
    BY <1>1, <2>1, DoneMeansForgotten, AllHadTheirTurn
  <2>3. fs \subseteq Past
    BY <1>1, <2>2 DEF StaysInv
  <2>4. Past \cap fs \subseteq Remains /\ Remains = {}
    BY <1>1, RemainsFacts DEF TallyInv, RemainsInv, TypeInv
  <2> QED
    BY <2>3, <2>4
<1> QED
  BY <1>1, TallyInvariance, PTL DEF IInv

-----------------------------------------------------------------------------
(* The dry run. *)

\* A dry run that is undisturbed after a step was so before it.
LEMMA SimulatingBefore ==
    ASSUME TypeInv, [Next]_vars, Simulating'
    PROVE  /\ Simulating /\ UNCHANGED <<job, cancel, meddling>> /\ Remains' = Remains
           /\ ~ cancel /\ meddling = 0 /\ job.dry_run /\ Obliging
<1>1. UNCHANGED job
  <2>1. ASSUME NEW t \in Threads, TrackerCall(t) PROVE UNCHANGED job
    BY <2>1 DEF TrackerCall, CompleteChild, TryFinalise, SendReady
  <2>2. ASSUME NEW w, FileReceive(w) \/ FileAcquire(w) \/ FileDelete(w) \/ FileExit(w)
        PROVE  UNCHANGED job
    BY <2>2 DEF FileReceive, FileAcquire, FileDelete, FileExit
  <2>3. ASSUME NEW w, DirReceive(w) \/ DirAttempt(w) \/ DirExit(w)
        PROVE  UNCHANGED job
    BY <2>3 DEF DirReceive, DirAttempt, DirExit
  <2>4. CASE \/ Walk \/ CoordinatorEvent
             \/ CoordinatorDecide \/ CoordinatorEnqueue \/ CoordinatorEnd \/ RootIsDone \/ Join
             \/ Sample \/ Cancel \/ Meddle \/ UNCHANGED vars
    BY <2>4 DEF Walk, CoordinatorEvent, CoordinatorDecide, CoordinatorEnqueue, CoordinatorEnd,
                RootIsDone, Join, Sample, Cancel, Meddle, vars
  <2> QED
    BY <2>1, <2>2, <2>3, <2>4, StepsAre
<1>2. UNCHANGED <<cancel, meddling>>
  <2>1. ASSUME NEW t \in Threads, TrackerCall(t) PROVE UNCHANGED <<cancel, meddling>>
    BY <2>1 DEF TrackerCall, CompleteChild, TryFinalise, SendReady, fsVars
  <2>2. ASSUME NEW w, FileReceive(w) \/ FileAcquire(w) \/ FileDelete(w) \/ FileExit(w)
        PROVE  UNCHANGED <<cancel, meddling>>
    BY <2>2 DEF FileReceive, FileAcquire, FileDelete, FileExit, fsVars
  <2>3. ASSUME NEW w, DirReceive(w) \/ DirAttempt(w) \/ DirExit(w)
        PROVE  UNCHANGED <<cancel, meddling>>
    BY <2>3 DEF DirReceive, DirAttempt, DirExit, fsVars
  <2>4. CASE \/ Walk \/ CoordinatorEvent
             \/ CoordinatorDecide \/ CoordinatorEnqueue \/ CoordinatorEnd \/ RootIsDone \/ Join
             \/ Sample \/ UNCHANGED vars
    BY <2>4 DEF Walk, CoordinatorEvent, CoordinatorDecide, CoordinatorEnqueue, CoordinatorEnd,
                RootIsDone, Join, Sample, vars, fsVars
  <2>5. ~ Cancel /\ ~ Meddle
    BY PipelineAssumption
       DEF Cancel, Meddle, Simulating, Undisturbed, TypeInv, FsInv
  <2> QED
    BY <2>1, <2>2, <2>3, <2>4, <2>5, StepsAre
<1>3. Remains' = Remains
  BY <1>1 DEF Remains, Above
<1> QED
  BY <1>1, <1>2, <1>3 DEF Simulating, Undisturbed, Obliging

\* One thread moves, with a flag that is right.
LEMMA FlagsKept ==
    ASSUME TypeInv, FlagsExact, NEW t \in Threads, NEW c, pc' = [pc EXCEPT ![t] = c],
           FlagOK(c), UNCHANGED job, Remains' = Remains
    PROVE  FlagsExact'
<1>1. \A x : FlagOK(x)' <=> FlagOK(x)
  <2> SUFFICES ASSUME NEW x PROVE FlagOK(x)' <=> FlagOK(x)
    OBVIOUS
  <2> QED
    BY DEF FlagOK, Exact
<1>2. pc'[t] = c /\ \A u \in Threads : u # t => pc'[u] = pc[u]
  BY MovingOn
<1> QED
  BY <1>1, <1>2 DEF FlagsExact

\* No thread has a flag that matters unless it is at one of three steps.
LEMMA FlagOfMove ==
    ASSUME NEW c, c.at \notin {"complete", "send", "attempt"}
    PROVE  FlagOK(c)
  BY DEF FlagOK

\* Without a send the messages stay as exact as they were.
LEMMA MessagesKept ==
    ASSUME MessagesExact, UNCHANGED <<job, readyQ>>, Remains' = Remains
    PROVE  MessagesExact'
  BY DEF MessagesExact, MessageOK, Exact

\* An entry of the map that keeps its mark stays exact.
LEMMA MapKeepsFlags ==
    ASSUME MapExact, Remains' = Remains, progress'.discovered = progress.discovered,
           progress'.resolved = progress.resolved, DOMAIN tracker' \subseteq DOMAIN tracker,
           \A d \in DOMAIN tracker' : tracker'[d].still_present = tracker[d].still_present
    PROVE  MapExact'
<1> SUFFICES ASSUME NEW d \in DOMAIN tracker' PROVE EntryOK(d)'
  BY DEF MapExact
<1>1. FoundIn(d)' = FoundIn(d)
  BY DEF FoundIn
<1>2. EntryOK(d)
  BY DEF MapExact
<1> QED
  BY <1>1, <1>2 DEF EntryOK

\* Without a turn taken the counts stay exact.
LEMMA CountsKeep ==
    ASSUME CountsExact, Past' = Past, Remains' = Remains,
           metrics'.files_deleted = metrics.files_deleted,
           metrics'.dirs_deleted = metrics.dirs_deleted
    PROVE  CountsExact'
  BY DEF CountsExact

\* A thread moves between steps that carry no flag.
LEMMA SimulatedMove ==
    ASSUME TypeInv, Simulated, NEW t \in Threads, NEW step, MovesTo(t, step),
           step \notin {"complete", "send", "attempt"},
           UNCHANGED <<job, readyQ, metrics, progress, tracker>>,
           Remains' = Remains, Past' = Past
    PROVE  Simulated'
<1>1. PICK c : pc' = [pc EXCEPT ![t] = c] /\ c.at = step
  BY DEF MovesTo
<1> QED
  BY <1>1, FlagsKept, FlagOfMove, MessagesKept, MapKeepsFlags, CountsKeep DEF Simulated

\* What is new in the map has nothing in it that is done with.
LEMMA MapOfNew ==
    ASSUME MapExact, ProgressInv, Remains' = Remains,
           progress.discovered \subseteq progress'.discovered,
           progress'.resolved = progress.resolved,
           \A d \in DOMAIN tracker' :
               \/ /\ d \in DOMAIN tracker
                  /\ tracker'[d].still_present = tracker[d].still_present
               \/ d \notin progress.discovered /\ ~ tracker'[d].still_present
    PROVE  MapExact'
<1> SUFFICES ASSUME NEW d \in DOMAIN tracker' PROVE EntryOK(d)'
  BY DEF MapExact
<1>1. \A n : n \in FoundIn(d)' /\ n \in progress.resolved
               <=> n \in FoundIn(d) /\ n \in progress.resolved
  BY DEF FoundIn, ProgressInv
<1>2. CASE /\ d \in DOMAIN tracker
           /\ tracker'[d].still_present = tracker[d].still_present
  <2>1. EntryOK(d)
    BY <1>2 DEF MapExact
  <2> QED
    BY <1>1, <1>2, <2>1 DEF EntryOK
<1>3. CASE d \notin progress.discovered /\ ~ tracker'[d].still_present
  <2>1. \A n : ~ (n \in FoundIn(d) /\ n \in progress.resolved)
    BY <1>3 DEF FoundIn, ProgressInv
  <2> QED
    BY <1>1, <1>3, <2>1 DEF EntryOK
<1> QED
  BY <1>2, <1>3

\* The coordinator hears of something.
LEMMA SimulatedEvent ==
    ASSUME TypeInv, OrderInv, TallyInv, Simulated, CoordinatorEvent, UNCHANGED job,
           Remains' = Remains
    PROVE  Simulated'
<1>1. PICK e : e = Head(enumQ)
  OBVIOUS
<1>2. /\ e \in EventType /\ enumQ \in Seq(EventType) /\ enumQ # <<>>
      /\ progress'.discovered = progress.discovered
             \cup (IF e.kind = "entry" THEN {e.node} ELSE {})
      /\ progress'.resolved = progress.resolved
  BY ONLY TypeInv, OrderInv, CoordinatorEvent, <1>1, Heard
<1>3. e.kind = "entry" =>
          /\ e.node \notin progress.discovered
          /\ Parent[e.node] \in progress.discovered \ progress.listed
  BY <1>1, <1>2, FirstEvent DEF OrderInv
<1>4. tracker \in [DOMAIN tracker -> DirState]
  BY DEF TypeInv, TrackerInv
<1>5. CountsExact'
  <2>1. Past' = Past
    BY TallyOfEvent
  <2>2. metrics' = metrics \/ Count("files_scanned") \/ Count("dirs_scanned")
          \/ Count("list_failures")
    BY DEF CoordinatorEvent, CoordinatorDirectory, CoordinatorLeaf, CoordinatorListed,
           CoordinatorListError
  <2>3. /\ metrics'.files_deleted = metrics.files_deleted
        /\ metrics'.dirs_deleted = metrics.dirs_deleted
    BY <2>2, Fields DEF Count, TypeInv, MetricsInv
  <2> QED
    BY <2>1, <2>3, CountsKeep DEF Simulated
<1>6. FlagsExact'
  <2>1. CASE UNCHANGED pc
    BY <2>1 DEF Simulated, FlagsExact, FlagOK, Exact
  <2>2. ASSUME NEW step \in {"decide", "try_finalise"}, NEW n, Goto(Coordinator, step, n)
        PROVE  FlagsExact'
    <3>1. PICK c : c = [at |-> step, node |-> n, still |-> FALSE]
      OBVIOUS
    <3>2. pc' = [pc EXCEPT ![Coordinator] = c]
      BY <2>2, <3>1 DEF Goto
    <3>3. FlagOK(c)
      BY <3>1, FlagOfMove
    <3> QED
      BY <3>2, <3>3, FlagsKept, CoordinatorIsAThread DEF Simulated
  <2> QED
    BY <2>1, <2>2 DEF CoordinatorEvent, CoordinatorDirectory, CoordinatorLeaf,
                      CoordinatorListed, CoordinatorListError
<1>7. MessagesExact'
  BY MessagesKept DEF CoordinatorEvent, Simulated
<1>8. MapExact'
  <2>1. \A d \in DOMAIN tracker' :
           \/ /\ d \in DOMAIN tracker
              /\ tracker'[d].still_present = tracker[d].still_present
           \/ d \notin progress.discovered /\ ~ tracker'[d].still_present
    <3>1. CASE CoordinatorDirectory
      <4>1. /\ tracker' = AddPending(Insert(tracker, e.node), Parent[e.node])
            /\ e.kind = "entry"
        BY <1>1, <3>1 DEF CoordinatorDirectory, ReceiveEvent
      <4>2. Parent[e.node] # e.node /\ e.node \notin progress.discovered
        BY <1>3, <4>1
      <4>3. PICK map : map = Insert(tracker, e.node)
        OBVIOUS
      <4>4. /\ DOMAIN map = DOMAIN tracker \cup {e.node}
            /\ map[e.node] = NewDirState
            /\ \A d \in DOMAIN map : map[d] \in DirState
            /\ \A d \in DOMAIN tracker : d # e.node => map[d] = tracker[d]
        BY <1>4, <4>3 DEF Insert, NewDirState, DirState
      <4>5. /\ DOMAIN tracker' = DOMAIN map
            /\ \A d \in DOMAIN map : tracker'[d].still_present = map[d].still_present
        BY <4>1, <4>3, <4>4 DEF AddPending, Update, DirState
      <4> QED
        BY <4>2, <4>4, <4>5 DEF NewDirState
    <3>2. CASE CoordinatorLeaf
      <4>1. tracker' = AddPending(tracker, Parent[e.node])
        BY <1>1, <3>2 DEF CoordinatorLeaf
      <4> QED
        BY <1>4, <4>1 DEF AddPending, Update, DirState
    <3>3. CASE CoordinatorListed
      <4>1. tracker' = SetEnumerationDone(tracker, e.node)
        BY <1>1, <3>3 DEF CoordinatorListed
      <4> QED
        BY <1>4, <4>1 DEF SetEnumerationDone, Update, DirState
    <3>4. CASE CoordinatorListError
      BY <3>4 DEF CoordinatorListError
    <3> QED
      BY <3>1, <3>2, <3>3, <3>4 DEF CoordinatorEvent
  <2> QED
    BY <1>2, <2>1, MapOfNew DEF OrderInv, Simulated
<1> QED
  BY <1>5, <1>6, <1>7, <1>8 DEF Simulated

\* A child that is done with leaves its mark on its directory.
LEMMA SimulatedCompletion ==
    ASSUME TypeInv, OrderInv, TallyInv, Simulated, NEW t \in Threads, CompleteChild(t),
           UNCHANGED job, Remains' = Remains
    PROVE  Simulated'
<1>a. PICK n : n = pc[t].node
  OBVIOUS
<1> USE <1>a
<1>1. /\ pc[t].at = "complete" /\ UNCHANGED <<metrics, readyQ>>
      /\ tracker' = SubtractPending(tracker, Parent[n], pc[t].still)
      /\ progress' = [progress EXCEPT !.resolved = @ \cup {n}]
  BY DEF CompleteChild, At, queueVars
<1>2. /\ progress'.discovered = progress.discovered
      /\ progress'.resolved = progress.resolved \cup {n}
  BY <1>1 DEF OrderInv, ProgressInv
<1>3. n # Root /\ n \in progress.discovered
  BY <1>1, CallFacts DEF OrderInv, ThreadsInv, ThreadOK, Holding, Open
<1>4. pc[t].still <=> n \in Remains
  BY <1>1 DEF Simulated, FlagsExact, FlagOK
<1>5. CountsExact'
  BY <1>1, PastOfCompleted, CountsKeep DEF Simulated
<1>6. FlagsExact'
  <2>1. PICK c : pc' = [pc EXCEPT ![t] = c] /\ c.at \in {"recv", "try_finalise"}
    <3>1. MovesTo(t, "recv") \/ MovesTo(t, "try_finalise")
      BY Moves DEF CompleteChild
    <3> QED
      BY <3>1 DEF MovesTo
  <2> QED
    BY <2>1, FlagsKept, FlagOfMove DEF Simulated
<1>7. MessagesExact'
  BY <1>1, MessagesKept DEF Simulated
<1>8. MapExact'
  <2> SUFFICES ASSUME NEW d \in DOMAIN tracker' PROVE EntryOK(d)'
    BY DEF MapExact
  <2>1. /\ d \in DOMAIN tracker /\ tracker[d] \in DirState
        /\ d # Parent[n] => tracker'[d] = tracker[d]
        /\ d = Parent[n] => tracker'[d].still_present
                               = (tracker[d].still_present \/ pc[t].still)
    BY <1>1 DEF SubtractPending, Update, TypeInv, TrackerInv, DirState
  <2>2. FoundIn(d)' = FoundIn(d)
    BY <1>2 DEF FoundIn
  <2>3. EntryOK(d)
    BY <2>1 DEF Simulated, MapExact
  <2>4. CASE d # Parent[n]
    <3>1. n \notin FoundIn(d)
      BY <2>4 DEF FoundIn
    <3> QED
      BY <1>2, <2>1, <2>2, <2>3, <2>4, <3>1 DEF EntryOK
  <2>5. CASE d = Parent[n]
    <3>1. n \in FoundIn(d)
      BY <1>3, <2>5 DEF FoundIn
    <3> QED
      BY <1>2, <1>4, <2>1, <2>2, <2>3, <2>5, <3>1 DEF EntryOK
  <2> QED
    BY <2>4, <2>5
<1> QED
  BY <1>5, <1>6, <1>7, <1>8 DEF Simulated

\* What a directory is marked with when it is finalised is what is to be said of it.
LEMMA FinalFlag ==
    ASSUME TypeInv, OrderInv, TallyInv, Obliging, ~ cancel, MapExact, NEW d \in Dirs,
           Tracked(tracker, d), d \in progress.listed, Outstanding(d) = {}, Exact(d)
    PROVE  tracker[d].still_present <=> d \in Remains
<1>1. EntryOK(d)
  BY DEF MapExact, Tracked
<1>2. meddling = 0 /\ metrics.list_failures = 0
  BY MetricsAreNumbers DEF Obliging, TallyInv, FailInv, Failures
<1>3. ASSUME NEW n \in FoundIn(d), n \in Remains
      PROVE  d \in Remains
  <2>1. n # Root /\ Parent[n] = d
    BY DEF FoundIn
  <2> QED
    BY <1>3, <2>1, RemainsFacts DEF TypeInv
<1>4. ASSUME d \in Remains
      PROVE  \E n \in FoundIn(d) : n \in progress.resolved /\ n \in Remains
  <2>1. PICK n \in Remains \ {Root} : Parent[n] = d
    BY <1>4, RemainsFacts DEF TypeInv, Exact
  <2>2. n \in job.tree \ {Root}
    BY RemainsFacts DEF TypeInv
  <2>3. n \in FoundIn(d) /\ n \in progress.resolved
    BY <1>2, <2>1, <2>2, ChildHadTurn DEF TallyInv
  <2> QED
    BY <2>1, <2>3
<1> QED
  BY <1>1, <1>3, <1>4 DEF EntryOK

\* A directory is finalised, and its message put together.
LEMMA SimulatedFinalise ==
    ASSUME TypeInv, OrderInv, TallyInv, Obliging, ~ cancel, Simulated, NEW t \in Threads,
           TryFinalise(t), UNCHANGED job, Remains' = Remains
    PROVE  Simulated'
<1>a. PICK d : d = pc[t].node
  OBVIOUS
<1> USE <1>a
<1>1. /\ pc[t].at = "try_finalise" /\ UNCHANGED <<metrics, readyQ, progress>>
  BY DEF TryFinalise, At, queueVars
<1>2. d \in Dirs /\ d \in progress.listed /\ Outstanding(d) = {}
  BY <1>1, CallFacts DEF OrderInv, ThreadsInv, ThreadOK
<1>3. CountsExact' /\ MessagesExact'
  <2>1. Past' = Past
    BY TallyOfCall DEF TrackerCall
  <2> QED
    BY <1>1, <2>1, CountsKeep, MessagesKept DEF Simulated
<1>4. CASE MayFinalise(tracker, d)
  <2>1. PICK c : c = [at |-> "send", node |-> d, still |-> tracker[d].still_present]
    OBVIOUS
  <2>2. /\ tracker' = SetFinalised(tracker, d) /\ pc' = [pc EXCEPT ![t] = c]
    BY <1>4, <2>1 DEF TryFinalise
  <2>3. Exact(d) => (tracker[d].still_present <=> d \in Remains)
    BY <1>2, <1>4, FinalFlag DEF MayFinalise, Simulated
  <2>4. FlagOK(c)
    BY <2>1, <2>3 DEF FlagOK
  <2>5. FlagsExact'
    BY <2>2, <2>4, FlagsKept DEF Simulated
  <2>6. /\ DOMAIN tracker' = DOMAIN tracker
        /\ \A x \in DOMAIN tracker : tracker'[x].still_present = tracker[x].still_present
    BY <2>2 DEF SetFinalised, Update, TypeInv, TrackerInv, DirState
  <2>7. MapExact'
    BY <1>1, <2>6, MapKeepsFlags DEF Simulated
  <2> QED
    BY <1>3, <2>5, <2>7 DEF Simulated
<1>5. CASE ~ MayFinalise(tracker, d)
  <2>1. UNCHANGED tracker /\ pc' = [pc EXCEPT ![t] = Idle]
    BY <1>5 DEF TryFinalise, Return
  <2>2. FlagsExact'
    BY <2>1, Idling, FlagsKept, FlagOfMove DEF Simulated
  <2>3. MapExact'
    BY <1>1, <2>1, MapKeepsFlags DEF Simulated
  <2> QED
    BY <1>3, <2>2, <2>3 DEF Simulated
<1> QED
  BY <1>4, <1>5

\* The message is sent.
LEMMA SimulatedSend ==
    ASSUME TypeInv, OrderInv, TallyInv, Simulated, NEW t \in Threads, SendReady(t),
           UNCHANGED job, Remains' = Remains
    PROVE  Simulated'
<1>1. PICK m : m = [dir |-> pc[t].node, simulated_non_empty |-> pc[t].still]
  OBVIOUS
<1>2. /\ pc[t].at = "send" /\ UNCHANGED <<metrics, tracker>>
      /\ readyQ' = Append(readyQ, m) /\ pc' = [pc EXCEPT ![t] = Idle]
      /\ progress'.discovered = progress.discovered
      /\ progress'.resolved = progress.resolved
  BY <1>1 DEF SendReady, At, Return, OrderInv, ProgressInv
<1>3. CountsExact' /\ MapExact'
  <2>1. Past' = Past
    BY TallyOfCall DEF TrackerCall
  <2> QED
    BY <1>2, <2>1, CountsKeep, MapKeepsFlags DEF Simulated
<1>4. FlagsExact'
  BY <1>2, Idling, FlagsKept, FlagOfMove DEF Simulated
<1>5. MessageOK(m)
  BY <1>1, <1>2 DEF Simulated, FlagsExact, FlagOK, MessageOK
<1>6. MessagesExact'
  <2>1. m \in ReadyType /\ readyQ \in Seq(ReadyType)
    BY <1>1, <1>2, CallFacts DEF ReadyType, TypeInv, ReadyQInv
  <2>2. PICK r : r = readyQ'
    OBVIOUS
  <2>3. \A i \in 1 .. Len(r) : (i \in 1 .. Len(readyQ) /\ r[i] = readyQ[i]) \/ r[i] = m
    BY ONLY <1>2, <2>1, <2>2, Longer
  <2>4. \A i \in 1 .. Len(r) : MessageOK(r[i])
    BY <1>5, <2>3 DEF Simulated, MessagesExact
  <2> QED
    BY <2>2, <2>4 DEF MessagesExact, MessageOK, Exact
<1> QED
  BY <1>3, <1>4, <1>6 DEF Simulated

\* The message is received.
LEMMA SimulatedReceive ==
    ASSUME TypeInv, OrderInv, TallyInv, Simulated, NEW w \in DirWorkers, DirReceive(w),
           UNCHANGED job, Remains' = Remains
    PROVE  Simulated'
<1>1. w \in Threads /\ readyQ \in Seq(ReadyType) /\ readyQ # <<>>
      /\ UNCHANGED <<metrics, tracker, progress>>
  BY DEF Threads, TypeInv, ReadyQInv, DirReceive
<1>2. PICK r : r = readyQ'
  OBVIOUS
<1>3. r = Tail(readyQ)
  BY <1>2 DEF DirReceive
<1>4. /\ 1 \in 1 .. Len(readyQ) /\ Head(readyQ) = readyQ[1]
      /\ \A i \in 1 .. Len(r) : i + 1 \in 1 .. Len(readyQ) /\ r[i] = readyQ[i + 1]
  BY ONLY <1>1, <1>3, Shorter
<1>5. PICK c : c = [at |-> "attempt", node |-> Head(readyQ).dir,
                    still |-> Head(readyQ).simulated_non_empty]
  OBVIOUS
<1>6. pc' = [pc EXCEPT ![w] = c]
  BY <1>5 DEF DirReceive
<1>7. FlagOK(c)
  <2>1. MessageOK(Head(readyQ))
    BY <1>4 DEF Simulated, MessagesExact
  <2> QED
    BY <1>5, <2>1 DEF FlagOK, MessageOK
<1>8. FlagsExact'
  BY <1>1, <1>6, <1>7, FlagsKept DEF Simulated
<1>9. MessagesExact'
  <2>1. \A i \in 1 .. Len(r) : MessageOK(r[i])
    BY <1>4 DEF Simulated, MessagesExact
  <2> QED
    BY <1>2, <2>1 DEF MessagesExact, MessageOK, Exact
<1>10. CountsExact' /\ MapExact'
  BY <1>1, TallyOfReceive, CountsKeep, MapKeepsFlags DEF Simulated
<1> QED
  BY <1>8, <1>9, <1>10 DEF Simulated

\* The coordinator decides on a leaf.
LEMMA SimulatedDecision ==
    ASSUME TypeInv, OrderInv, TallyInv, Simulated, CoordinatorDecide, job.dry_run, ~ cancel,
           meddling = 0, UNCHANGED job, Remains' = Remains
    PROVE  Simulated'
<1>a. PICK n : n = pc[Coordinator].node
  OBVIOUS
<1> USE <1>a
<1>1. /\ pc[Coordinator].at = "decide" /\ UNCHANGED <<progress, tracker, readyQ>>
      /\ Coordinator \in Threads
  BY DEF CoordinatorDecide, At, queueVars, Threads
<1>2. n \in Leaves /\ n \notin Dirs /\ n \in job.tree
  <2>1. n \in Leaves /\ n \notin Dirs /\ n \in Nodes
    BY <1>1, CallFacts
  <2>2. Found(n)
    BY <1>1 DEF OrderInv, ThreadsInv, ThreadOK, Holding, Open, Found, FoundBy
  <2> QED
    BY <2>1, <2>2 DEF TallyInv, PresentInv
<1>3. n \in Remains <=> n \in job.keep
  BY <1>2, RemainsFacts DEF TypeInv
<1>4. PICK c : c = [at |-> "complete", node |-> n, still |-> n \in Remains]
  OBVIOUS
<1>5. /\ pc' = [pc EXCEPT ![Coordinator] = c]
      /\ n \in Remains => Count("files_retained")
      /\ n \notin Remains => Count("files_deleted")
  <2>1. CASE n \in Remains
    <3>1. (n \in Remains) = TRUE
      BY <2>1
    <3> QED
      BY <1>3, <1>4, <2>1, <3>1 DEF CoordinatorDecide, Complete
  <2>2. CASE n \notin Remains
    <3>1. (n \in Remains) = FALSE
      BY <2>2
    <3> QED
      BY <1>3, <1>4, <2>2, <3>1 DEF CoordinatorDecide, Complete
  <2> QED
    BY <2>1, <2>2
<1>6. FlagOK(c)
  BY <1>4 DEF FlagOK
<1>7. FlagsExact'
  BY <1>1, <1>5, <1>6, FlagsKept DEF Simulated
<1>8. MessagesExact' /\ MapExact'
  BY <1>1, MessagesKept, MapKeepsFlags DEF Simulated
<1>9. CountsExact'
  <2>1. Past' = Past \cup {n} /\ n \notin Past
    BY <1>1, <1>4, <1>5, PastOfLeaf
  <2>2. PICK S, D : S = (Past \cap Leaves) \ Remains /\ D = (Past \cap Dirs) \ Remains
    OBVIOUS
  <2>3. /\ metrics.files_deleted = Cardinality(S) /\ metrics.dirs_deleted = Cardinality(D)
        /\ IsFiniteSet(S) /\ n \notin S
    BY <2>1, <2>2, PastFacts, FS_Subset DEF Simulated, CountsExact
  <2>4. (Past' \cap Dirs) \ Remains = D
    BY <1>2, <2>1, <2>2
  <2>5. CASE n \in Remains
    <3>1. (Past' \cap Leaves) \ Remains = S
      BY <2>1, <2>2, <2>5
    <3>2. /\ metrics'.files_deleted = metrics.files_deleted
          /\ metrics'.dirs_deleted = metrics.dirs_deleted
      BY <1>5, <2>5, Fields DEF Count, TypeInv, MetricsInv
    <3> QED
      BY <2>3, <2>4, <3>1, <3>2 DEF CountsExact
  <2>6. CASE n \notin Remains
    <3>1. (Past' \cap Leaves) \ Remains = S \cup {n}
      BY <1>2, <2>1, <2>2, <2>6
    <3>2. /\ metrics'.files_deleted = metrics.files_deleted + 1
          /\ metrics'.dirs_deleted = metrics.dirs_deleted
      BY <1>5, <2>6, Fields DEF Count, TypeInv, MetricsInv
    <3>3. Cardinality(S \cup {n}) = Cardinality(S) + 1
      BY <2>3, CardinalityStep
    <3> QED
      BY <2>3, <2>4, <3>1, <3>2, <3>3 DEF CountsExact
  <2> QED
    BY <2>5, <2>6
<1> QED
  BY <1>7, <1>8, <1>9 DEF Simulated

\* A directory is looked at.
LEMMA SimulatedAttempt ==
    ASSUME TypeInv, StaysInv, OrderInv, TallyInv, Simulated, NEW t \in Threads, DirAttempt(t),
           job.dry_run, UNCHANGED job, Remains' = Remains
    PROVE  Simulated'
<1>a. PICK d : d = pc[t].node
  OBVIOUS
<1> USE <1>a
<1>1. /\ pc[t].at = "attempt" /\ UNCHANGED <<progress, readyQ>>
      /\ \E s : Finish(t, d, s)
  BY AttemptFinishes
<1>2. /\ Past' = Past \cup {d} /\ d \notin Past /\ d \in Dirs
      /\ DOMAIN tracker' = DOMAIN tracker \ {d}
  BY <1>1, PastOfDirectory
<1>3. /\ d \notin Leaves
      /\ tracker' = Remove(tracker, d)
  BY <1>1, <1>2, PipelineAssumption DEF Finish
<1>4. MessagesExact' /\ MapExact'
  BY <1>1, <1>3, MessagesKept, MapKeepsFlags DEF Simulated, Remove
<1>5. PICK S, D : S = (Past \cap Leaves) \ Remains /\ D = (Past \cap Dirs) \ Remains
  OBVIOUS
<1>6. /\ metrics.files_deleted = Cardinality(S) /\ metrics.dirs_deleted = Cardinality(D)
      /\ IsFiniteSet(D) /\ d \notin D /\ (Past' \cap Leaves) \ Remains = S
  BY <1>2, <1>3, <1>5, PastFacts, FS_Subset DEF Simulated, CountsExact
<1>7. CASE d = Root /\ job.preserve_root
  <2>1. UNCHANGED metrics /\ pc' = [pc EXCEPT ![t] = Idle]
    BY <1>7 DEF DirAttempt, DirPreserveRoot, DirSimulate, DirDelete, Finish, Return
  <2>2. FlagsExact'
    BY <2>1, Idling, FlagsKept, FlagOfMove DEF Simulated
  <2>3. (Past' \cap Dirs) \ Remains = D
    BY <1>2, <1>5, <1>7, RemainsFacts DEF TypeInv
  <2>4. CountsExact'
    BY <1>6, <2>1, <2>3 DEF CountsExact
  <2> QED
    BY <1>4, <2>2, <2>4 DEF Simulated
<1>8. CASE ~ (d = Root /\ job.preserve_root)
  <2>1. DirSimulate(t)
    BY <1>8 DEF DirAttempt, DirPreserveRoot, DirDelete
  <2>2. Exact(d)
    BY <1>8 DEF Exact
  <2>3. pc[t].still <=> d \in Remains
    BY <1>1, <2>2 DEF Simulated, FlagsExact, FlagOK
  <2>4. FlagsExact'
    <3>1. CASE d = Root
      <4>1. pc' = [pc EXCEPT ![t] = Idle]
        BY <2>1, <3>1 DEF DirSimulate, Finish, Return
      <4> QED
        BY <4>1, Idling, FlagsKept, FlagOfMove DEF Simulated
    <3>2. CASE d # Root
      <4>1. PICK c : c = [at |-> "complete", node |-> d, still |-> pc[t].still]
        OBVIOUS
      <4>2. pc' = [pc EXCEPT ![t] = c]
        BY <2>1, <3>2, <4>1 DEF DirSimulate, Finish, Complete
      <4>3. FlagOK(c)
        BY <2>3, <4>1 DEF FlagOK
      <4> QED
        BY <4>2, <4>3, FlagsKept DEF Simulated
    <3> QED
      BY <3>1, <3>2
  <2>5. CountsExact'
    <3>1. CASE d \in Remains
      <4>1. Count("dirs_retained")
        BY <2>1, <2>3, <3>1 DEF DirSimulate
      <4>2. /\ metrics'.files_deleted = metrics.files_deleted
            /\ metrics'.dirs_deleted = metrics.dirs_deleted
        BY <4>1, Fields DEF Count, TypeInv, MetricsInv
      <4>3. (Past' \cap Dirs) \ Remains = D
        BY <1>2, <1>5, <3>1
      <4> QED
        BY <1>6, <4>2, <4>3 DEF CountsExact
    <3>2. CASE d \notin Remains
      <4>1. Count("dirs_deleted")
        BY <2>1, <2>3, <3>2 DEF DirSimulate
      <4>2. /\ metrics'.files_deleted = metrics.files_deleted
            /\ metrics'.dirs_deleted = metrics.dirs_deleted + 1
        BY <4>1, Fields DEF Count, TypeInv, MetricsInv
      <4>3. (Past' \cap Dirs) \ Remains = D \cup {d}
        BY <1>2, <1>5, <3>2
      <4>4. Cardinality(D \cup {d}) = Cardinality(D) + 1
        BY <1>6, CardinalityStep
      <4> QED
        BY <1>6, <4>2, <4>3, <4>4 DEF CountsExact
    <3> QED
      BY <3>1, <3>2
  <2> QED
    BY <1>4, <2>4, <2>5 DEF Simulated
<1> QED
  BY <1>7, <1>8

\* What a dry run does not do: nothing is queued for a file worker.
LEMMA NothingDeletable ==
    ASSUME TypeInv, job.dry_run, NEW t \in Threads
    PROVE  pc[t].at \notin {"enqueue", "acquire", "delete"}
  BY DEF TypeInv, CallInv, CallIsSound, Deletable

\* No step of an undisturbed dry run makes it inexact.
LEMMA SimulationKept ==
    TypeInv /\ StaysInv /\ OrderInv /\ TallyInv /\ SimulationInv /\ [Next]_vars
        => SimulationInv'
<1> SUFFICES ASSUME TypeInv, StaysInv, OrderInv, TallyInv, SimulationInv, [Next]_vars,
                    Simulating'
             PROVE  Simulated'
  BY DEF SimulationInv
<1>1. /\ Simulating /\ UNCHANGED <<job, cancel, meddling>> /\ Remains' = Remains
      /\ ~ cancel /\ meddling = 0 /\ job.dry_run /\ Obliging
  BY SimulatingBefore
<1>2. Simulated
  BY <1>1 DEF SimulationInv
<1>3. /\ Coordinator \in Threads /\ FileWorkers \subseteq Threads /\ DirWorkers \subseteq Threads
  BY DEF Threads
<1>4. CASE Walk \/ Sample \/ UNCHANGED vars
  <2>1. UNCHANGED <<readyQ, metrics, progress, tracker, pc>>
    BY <1>4 DEF Walk, Sample, vars, queueVars
  <2>2. Past' = Past
    BY <2>1 DEF Past, HadTurn, Completing
  <2>3. FlagsExact'
    BY <1>1, <1>2, <2>1 DEF Simulated, FlagsExact, FlagOK, Exact
  <2> QED
    BY <1>1, <1>2, <2>1, <2>2, <2>3, MessagesKept, MapKeepsFlags, CountsKeep DEF Simulated
<1>5. CASE CoordinatorEvent
  BY <1>1, <1>2, <1>5, SimulatedEvent
<1>6. CASE \E t \in Threads : TrackerCall(t)
  BY <1>1, <1>2, <1>6, SimulatedCompletion, SimulatedFinalise, SimulatedSend DEF TrackerCall
<1>7. CASE CoordinatorDecide
  BY <1>1, <1>2, <1>7, SimulatedDecision
<1>8. CASE CoordinatorEnd \/ RootIsDone \/ Join
  <2>1. Past' = Past
    BY <1>8, TallyOfQuiet
  <2>2. UNCHANGED <<readyQ, metrics, progress, tracker>>
    BY <1>8 DEF CoordinatorEnd, RootIsDone, Join, queueVars
  <2>3. PICK step \in {"wait", "join", "done"} : MovesTo(Coordinator, step)
    BY <1>8, Moves DEF CoordinatorEnd, RootIsDone, Join
  <2> QED
    BY <1>1, <1>2, <1>3, <2>1, <2>2, <2>3, SimulatedMove
<1>9. ASSUME NEW w \in FileWorkers, FileReceive(w) \/ FileExit(w)
      PROVE  Simulated'
  <2>1. Past' = Past
    BY <1>9, TallyOfQuiet
  <2>2. UNCHANGED <<readyQ, metrics, progress, tracker>>
    BY <1>9 DEF FileReceive, FileExit, queueVars
  <2>3. PICK step \in {"acquire", "exited"} : MovesTo(w, step)
    BY <1>9, Moves DEF FileReceive, FileExit
  <2> QED
    BY <1>1, <1>2, <1>3, <2>1, <2>2, <2>3, SimulatedMove
<1>10. ASSUME NEW w \in DirWorkers, DirExit(w)
       PROVE  Simulated'
  <2>1. Past' = Past
    BY <1>10, TallyOfQuiet
  <2>2. UNCHANGED <<readyQ, metrics, progress, tracker>> /\ MovesTo(w, "exited")
    BY <1>10, Moves DEF DirExit, queueVars
  <2> QED
    BY <1>1, <1>2, <1>3, <2>1, <2>2, SimulatedMove
<1>11. ASSUME NEW w \in DirWorkers, DirReceive(w) \/ DirAttempt(w)
       PROVE  Simulated'
  BY <1>1, <1>2, <1>3, <1>11, SimulatedReceive, SimulatedAttempt
<1>12. /\ ~ CoordinatorEnqueue /\ \A w \in FileWorkers : ~ FileAcquire(w) /\ ~ FileDelete(w)
       /\ ~ Cancel /\ ~ Meddle
  <2>1. ~ CoordinatorEnqueue /\ \A w \in FileWorkers : ~ FileAcquire(w) /\ ~ FileDelete(w)
    BY <1>1, <1>3, NothingDeletable DEF CoordinatorEnqueue, FileAcquire, FileDelete, At
  <2>2. ~ Cancel
    BY <1>1 DEF Cancel
  <2>3. ~ Meddle
    BY <1>1 DEF Meddle
  <2> QED
    BY <2>1, <2>2, <2>3
<1> QED
  BY <1>4, <1>5, <1>6, <1>7, <1>8, <1>9, <1>10, <1>11, <1>12, StepsAre

\* At the start there is nothing a dry run could have wrong.
LEMMA InitSimulation == Init => SimulationInv
<1> SUFFICES ASSUME Init PROVE Simulated
  BY DEF SimulationInv
<1>1. /\ Root \in Dirs /\ progress.discovered = {Root} /\ DOMAIN tracker = {Root}
      /\ ~ tracker[Root].still_present /\ progress.resolved = {}
  BY Leafs DEF Init, Insert, NewDirState
<1>2. Past = {}
  BY <1>1 DEF Past, HadTurn, Tracked
<1>3. CountsExact
  <2>1. (Past \cap Leaves) \ Remains = {} /\ (Past \cap Dirs) \ Remains = {}
    BY <1>2
  <2>2. metrics.files_deleted = 0 /\ metrics.dirs_deleted = 0
    BY DEF Init, NoMetrics
  <2> QED
    BY <2>1, <2>2, FS_EmptySet DEF CountsExact
<1>4. FlagsExact
  BY DEF Init, Idle, FlagsExact, FlagOK
<1>5. MessagesExact
  BY DEF Init, MessagesExact
<1>6. MapExact
  BY <1>1 DEF MapExact, EntryOK
<1> QED
  BY <1>3, <1>4, <1>5, <1>6 DEF Simulated

\* An undisturbed run deletes all but the retained leaves and the directories above
\* them, and a dry run counts what such a run deletes (pipeline.rs:500-620).
THEOREM CleanRunIsExactHolds == Spec => []CleanRunIsExact
<1>1. Init => SimulationInv
  BY InitSimulation
<1>2. IInv /\ OrderInv /\ TallyInv /\ SimulationInv /\ [Next]_vars => SimulationInv'
  BY SimulationKept DEF IInv
<1>3. ASSUME TypeInv, StaysInv, OrderInv, TallyInv, SimulationInv PROVE CleanRunIsExact
  <2> SUFFICES ASSUME Done, Undisturbed
               PROVE  /\ ~ job.dry_run => fs = Remains
                      /\ metrics.files_deleted = Cardinality((job.tree \cap Leaves) \ Remains)
                      /\ metrics.dirs_deleted = Cardinality((job.tree \cap Dirs) \ Remains)
    BY DEF CleanRunIsExact, Remains
  <2>1. Failures = 0 /\ meddling = 0 /\ ~ cancel /\ metrics.list_failures = 0
    BY <1>3, MetricsAreNumbers DEF TallyInv, FailInv, Obliging, Undisturbed, Failures
  <2>2. job.tree = Past
    BY <1>3, <2>1, DoneMeansForgotten, AllHadTheirTurn
  <2>3. CASE job.dry_run
    BY <1>3, <2>2, <2>3 DEF SimulationInv, Simulating, Simulated, CountsExact
  <2>4. CASE ~ job.dry_run
    <3>1. fs \subseteq job.tree /\ Remains \cap job.tree \subseteq fs
      BY <1>3, <2>1 DEF StaysInv, Remains
    <3>2. fs \subseteq Remains
      BY <1>3, <2>1, <2>2, <2>4, <3>1 DEF TallyInv, RemainsInv
    <3>3. fs = Remains
      BY <1>3, <3>1, <3>2, RemainsFacts DEF TypeInv
    <3>4. /\ (job.tree \ fs) \cap Leaves = (job.tree \cap Leaves) \ Remains
          /\ (job.tree \ fs) \cap Dirs = (job.tree \cap Dirs) \ Remains
      BY <3>3
    <3> QED
      BY <1>3, <2>1, <2>4, <3>3, <3>4 DEF TallyInv, GoneInv
  <2> QED
    BY <2>3, <2>4
<1> QED
  BY <1>1, <1>2, <1>3, TallyInvariance, PTL DEF Spec, IInv
=============================================================================
