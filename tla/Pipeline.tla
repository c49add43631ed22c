------------------------------ MODULE Pipeline ------------------------------
(***************************************************************************)
(* One `run` of the deletion pipeline on a directory target                *)
(* (cursdel-core/src/pipeline.rs, walk.rs): an enumerator thread walks the *)
(* tree and streams events to the coordinator, which registers them with   *)
(* the directory tracker and queues the leaves to delete; file workers     *)
(* delete leaves, directory workers delete directories once the tracker    *)
(* says that everything in them is resolved.  The three channels between   *)
(* them are bounded.  The operator may cancel at any moment, deletions and *)
(* listings may fail, and other programs may change the tree meanwhile.    *)
(*                                                                         *)
(* DirectoryTracker.tla looks at the tracker alone, one critical section   *)
(* at a time.                                                              *)
(***************************************************************************)
EXTENDS TrackerMap, Sequences, FiniteSets

CONSTANTS
    Dirs, Leaves, Root,   \* everything that may ever exist at or under the target
    Parent,               \* the directory each of it is in, except the root
    Jobs,                 \* the runs to look at, see Job
    Coordinator,          \* the thread that called run
    FileWorkers,
    DirWorkers,
    EnumCap,              \* ENUM_CHANNEL_CAP
    FileCap,              \* FILE_CHANNEL_CAP
    ReadyCap,             \* DIR_CHANNEL_CAP
    Capacities,           \* the worker counts the adaptive controller may set
    MaxMeddling           \* bound: changes made to the tree by other programs

Nodes   == Dirs \cup Leaves
Threads == {Coordinator} \cup FileWorkers \cup DirWorkers

\* What one run is given, and what goes wrong in it.
Job == [tree         : SUBSET Nodes,    \* what is there when it starts
        dry_run      : BOOLEAN,
        preserve_root : BOOLEAN,        \* OperationOptions: some filter is active
        keep         : SUBSET Leaves,   \* the leaves evaluate_file retains
        unlistable   : SUBSET Dirs,     \* the directories list_children fails on
        stubborn     : SUBSET Nodes]    \* what the engine may fail to delete

ASSUME PipelineAssumption ==
    /\ Root \in Dirs
    /\ Dirs \cap Leaves = {}
    /\ Parent \in [Nodes \ {Root} -> Dirs]
    /\ \A S \in SUBSET (Nodes \ {Root}) :     \* all of it is under the root
          S # {} => \E n \in S : Parent[n] \notin S
    /\ IsFiniteSet(FileWorkers) /\ FileWorkers # {}
    /\ Coordinator \notin FileWorkers \cup DirWorkers
    /\ FileWorkers \cap DirWorkers = {}
    /\ EnumCap \in Nat \ {0} /\ FileCap \in Nat \ {0} /\ ReadyCap \in Nat \ {0}
    /\ MaxMeddling \in Nat
    /\ Capacities # {} /\ Capacities \subseteq Nat \ {0}
    /\ \A job \in Jobs :
          /\ job \in Job
          /\ Root \in job.tree
          /\ \A n \in job.tree \ {Root} : Parent[n] \in job.tree
          /\ job.keep # {} => job.preserve_root

VARIABLES
    job,         \* the options and the circumstances of the run
    fs,          \* what exists now, at or under the target
    meddling,    \* how often other programs have changed it
    cancel,      \* the CancelToken
    walk,        \* the enumerator: where it is, its stack, what it has yet to send
    enumQ,       \* the channel of EnumEvents
    fileQ,       \* the channel of FileWorkItems
    readyQ,      \* the channel of ReadyDirectory messages
    rootDone,    \* the channel that tells run that the root is done with
    tracker,     \* the DirectoryTracker's map
    pc,          \* what each thread is about to do, and with which entry
    granted,     \* ResizableSemaphore: permits taken
    capacity,    \* ... and permits there are
    metrics,     \* OperationMetrics
    progress     \* history: what has been discovered, listed, resolved, sent

vars == <<job, fs, meddling, cancel, walk, enumQ, fileQ, readyQ, rootDone,
          tracker, pc, granted, capacity, metrics, progress>>

walkVars   == <<walk, enumQ>>
fsVars     == <<fs, meddling>>
semVars    == <<granted, capacity>>
queueVars  == <<enumQ, fileQ, readyQ, rootDone>>

ChildrenIn(d, present) == {n \in present \ {Root} : Parent[n] = d}

-----------------------------------------------------------------------------
(* Init: what `run` sets up before it spawns its threads. *)

NoMetrics == [files_scanned |-> 0, files_deleted |-> 0, files_retained |-> 0,
              file_failures |-> 0,
              dirs_scanned  |-> 0, dirs_deleted  |-> 0, dirs_retained  |-> 0,
              dir_failures  |-> 0, list_failures |-> 0]

Count(field) == metrics' = [metrics EXCEPT ![field] = @ + 1]

Idle == [at |-> "recv", node |-> Root, still |-> FALSE]

Init ==
    /\ job \in Jobs
    /\ fs = job.tree
    /\ meddling = 0
    /\ cancel = FALSE
    /\ walk = [at |-> "pop", dir |-> Root, stack |-> <<Root>>, unsent |-> {}]
    /\ enumQ = <<>>
    /\ fileQ = <<>>
    /\ readyQ = <<>>
    /\ rootDone = 0
    /\ tracker = Insert(<<>>, Root)
    /\ pc = [t \in Threads |-> Idle]
    /\ granted = 0
    /\ capacity \in Capacities
    /\ metrics = [NoMetrics EXCEPT !.dirs_scanned = 1]
    /\ progress = [discovered |-> {Root}, listed |-> {}, resolved |-> {},
                   sent |-> [d \in Dirs |-> 0]]

At(t, step)       == pc[t].at = step
Goto(t, step, n)  == pc' = [pc EXCEPT ![t] = [at |-> step, node |-> n, still |-> FALSE]]
Complete(t, n, stillPresent) ==
    pc' = [pc EXCEPT ![t] = [at |-> "complete", node |-> n, still |-> stillPresent]]
Return(t)         == pc' = [pc EXCEPT ![t] = Idle]

-----------------------------------------------------------------------------
(* The enumerator thread: stream_tree. *)

Send(event) == Len(enumQ) < EnumCap /\ enumQ' = Append(enumQ, event)

Event(kind, n) == [kind |-> kind, node |-> n]

Top(stack) == stack[Len(stack)]
Rest(stack) == SubSeq(stack, 1, Len(stack) - 1)

\* A directory is popped only if the run is not cancelled, and then listed.
WalkPop ==
    /\ walk.at = "pop" /\ walk.stack # <<>> /\ ~ cancel
    /\ LET d == Top(walk.stack)
           listable == d \in fs /\ d \notin job.unlistable
       IN  walk' = [at     |-> IF listable THEN "entries" ELSE "error",
                    dir    |-> d,
                    stack  |-> Rest(walk.stack),
                    unsent |-> IF listable THEN ChildrenIn(d, fs) ELSE {}]
    /\ UNCHANGED enumQ

\* The platform lists the children in an order of its own.
WalkEntry ==
    /\ walk.at = "entries"
    /\ \E n \in walk.unsent :
          /\ Send(Event("entry", n))
          /\ walk' = [walk EXCEPT !.unsent = @ \ {n},
                                  !.stack = IF n \in Dirs THEN Append(@, n) ELSE @]

WalkError ==
    /\ walk.at = "error"
    /\ Send(Event("error", walk.dir))
    /\ walk' = [walk EXCEPT !.at = "entries"]

WalkComplete ==
    /\ walk.at = "entries" /\ walk.unsent = {}
    /\ Send(Event("complete", walk.dir))
    /\ walk' = [walk EXCEPT !.at = "pop", !.dir = Root]

\* Mutant: a cancelled walk returns without announcing the end of the
\* directories on its stack.
WalkGivesUp ==
    /\ walk.at = "pop" /\ walk.stack # <<>> /\ cancel
    /\ walk' = [walk EXCEPT !.at = "flush", !.stack = <<>>]
    /\ UNCHANGED enumQ

WalkCancelled ==
    /\ walk.at = "pop" /\ walk.stack # <<>> /\ cancel
    /\ walk' = [walk EXCEPT !.at = "flush"]
    /\ UNCHANGED enumQ

WalkFlush ==
    /\ walk.at = "flush" /\ walk.stack # <<>>
    /\ Send(Event("complete", Head(walk.stack)))
    /\ walk' = [walk EXCEPT !.stack = Tail(@)]

\* Returning drops the sink, and with it the last sender of the channel.
WalkExit ==
    /\ walk.at \in {"pop", "flush"} /\ walk.stack = <<>>
    /\ walk' = [walk EXCEPT !.at = "exited"]
    /\ UNCHANGED enumQ

Walk ==
    /\ \/ WalkPop \/ WalkEntry \/ WalkError \/ WalkComplete
       \/ WalkCancelled \/ WalkFlush \/ WalkExit
    /\ UNCHANGED <<job, fsVars, cancel, fileQ, readyQ, rootDone, tracker, pc,
                   semVars, metrics, progress>>

-----------------------------------------------------------------------------
(* The tracker's calls, by whichever thread. *)

\* complete_child of the entry t is done with.
CompleteChild(t) ==
    /\ At(t, "complete")
    /\ LET n == pc[t].node
           d == Parent[n]
           after == SubtractPending(tracker, d, pc[t].still)
       IN  /\ tracker' = after
           /\ IF ReadyAfterChild(after, d) THEN Goto(t, "try_finalise", d)
                                           ELSE Return(t)
           /\ progress' = [progress EXCEPT !.resolved = @ \cup {n}]
    /\ UNCHANGED <<job, fsVars, cancel, walk, queueVars, semVars, metrics>>

\* The message is put together here and kept by the thread until it is sent.
TryFinalise(t) ==
    /\ At(t, "try_finalise")
    /\ LET d == pc[t].node
       IN  IF MayFinalise(tracker, d)
           THEN /\ tracker' = SetFinalised(tracker, d)
                /\ pc' = [pc EXCEPT ![t] = [at |-> "send", node |-> d,
                                            still |-> tracker[d].still_present]]
           ELSE Return(t) /\ UNCHANGED tracker
    /\ UNCHANGED <<job, fsVars, cancel, walk, queueVars, semVars, metrics, progress>>

\* ready_tx.send blocks while the channel is full.
SendReady(t) ==
    /\ At(t, "send")
    /\ Len(readyQ) < ReadyCap
    /\ readyQ' = Append(readyQ, [dir |-> pc[t].node, simulated_non_empty |-> pc[t].still])
    /\ Return(t)
    /\ progress' = [progress EXCEPT !.sent[pc[t].node] = @ + 1]
    /\ UNCHANGED <<job, fsVars, cancel, walk, enumQ, fileQ, rootDone, tracker,
                   semVars, metrics>>

TrackerCall(t) == CompleteChild(t) \/ TryFinalise(t) \/ SendReady(t)

-----------------------------------------------------------------------------
(* The thread of `run`: coordinator_loop, handle_entry, then the wait. *)

ReceiveEvent(kind) ==
    /\ At(Coordinator, "recv")
    /\ enumQ # <<>>
    /\ Head(enumQ).kind = kind
    /\ enumQ' = Tail(enumQ)

\* register_directory: nobody else knows of the new entry before its parent
\* counts it, so its two critical sections are one step here.
CoordinatorDirectory ==
    /\ ReceiveEvent("entry")
    /\ LET d == Head(enumQ).node
       IN  /\ d \in Dirs
           /\ tracker' = AddPending(Insert(tracker, d), Parent[d])
           /\ progress' = [progress EXCEPT !.discovered = @ \cup {d}]
    /\ Count("dirs_scanned")
    /\ UNCHANGED pc

CoordinatorLeaf ==
    /\ ReceiveEvent("entry")
    /\ LET n == Head(enumQ).node
       IN  /\ n \in Leaves
           /\ tracker' = AddPending(tracker, Parent[n])
           /\ progress' = [progress EXCEPT !.discovered = @ \cup {n}]
           /\ Goto(Coordinator, "decide", n)
    /\ Count("files_scanned")

CoordinatorListed ==
    /\ ReceiveEvent("complete")
    /\ LET d == Head(enumQ).node
       IN  /\ tracker' = SetEnumerationDone(tracker, d)
           /\ progress' = [progress EXCEPT !.listed = @ \cup {d}]
           /\ IF ReadyAfterEnumeration(tracker, d)
              THEN Goto(Coordinator, "try_finalise", d)
              ELSE UNCHANGED pc
    /\ UNCHANGED metrics

CoordinatorListError ==
    /\ ReceiveEvent("error")
    /\ Count("list_failures")
    /\ UNCHANGED <<tracker, pc, progress>>

CoordinatorEvent ==
    /\ \/ CoordinatorDirectory \/ CoordinatorLeaf
       \/ CoordinatorListed \/ CoordinatorListError
    /\ UNCHANGED <<job, fsVars, cancel, walk, fileQ, readyQ, rootDone, semVars>>

\* Mutants: the filters are asked after the dry run is over, and what a dry run
\* would delete stays in the way of its directory.
DecideUnfiltered ==
    /\ At(Coordinator, "decide")
    /\ LET n == pc[Coordinator].node
       IN  IF cancel
           THEN Count("files_retained") /\ Complete(Coordinator, n, TRUE)
           ELSE IF job.dry_run
           THEN Count("files_deleted") /\ Complete(Coordinator, n, FALSE)
           ELSE Goto(Coordinator, "enqueue", n) /\ UNCHANGED metrics
    /\ UNCHANGED <<job, fsVars, cancel, walk, queueVars, tracker, semVars, progress>>
DryRunKeeps ==
    /\ At(Coordinator, "decide")
    /\ LET n == pc[Coordinator].node
       IN  IF cancel \/ n \in job.keep
           THEN Count("files_retained") /\ Complete(Coordinator, n, TRUE)
           ELSE IF job.dry_run
           THEN Count("files_deleted") /\ Complete(Coordinator, n, TRUE)
           ELSE Goto(Coordinator, "enqueue", n) /\ UNCHANGED metrics
    /\ UNCHANGED <<job, fsVars, cancel, walk, queueVars, tracker, semVars, progress>>

\* handle_entry once the leaf is registered: cancelled, filtered, dry run, or
\* on to the file workers.
CoordinatorDecide ==
    /\ At(Coordinator, "decide")
    /\ LET n == pc[Coordinator].node
       IN  IF cancel \/ n \in job.keep
           THEN Count("files_retained") /\ Complete(Coordinator, n, TRUE)
           ELSE IF job.dry_run
           THEN Count("files_deleted") /\ Complete(Coordinator, n, FALSE)
           ELSE Goto(Coordinator, "enqueue", n) /\ UNCHANGED metrics
    /\ UNCHANGED <<job, fsVars, cancel, walk, queueVars, tracker, semVars, progress>>

CoordinatorEnqueue ==
    /\ At(Coordinator, "enqueue")
    /\ Len(fileQ) < FileCap
    /\ fileQ' = Append(fileQ, pc[Coordinator].node)
    /\ Return(Coordinator)
    /\ UNCHANGED <<job, fsVars, cancel, walk, enumQ, readyQ, rootDone, tracker,
                   semVars, metrics, progress>>

\* The event channel is drained and closed; file_tx is dropped.
CoordinatorEnd ==
    /\ At(Coordinator, "recv")
    /\ enumQ = <<>> /\ walk.at = "exited"
    /\ Goto(Coordinator, "wait", Root)
    /\ UNCHANGED <<job, fsVars, cancel, walk, queueVars, tracker, semVars, metrics,
                   progress>>

\* recv_timeout ran out: the adaptive controller may resize the semaphore.
Sample ==
    /\ At(Coordinator, "wait")
    /\ capacity' \in Capacities
    /\ UNCHANGED <<job, fsVars, cancel, walk, queueVars, tracker, pc, granted,
                   metrics, progress>>

\* The root is done with: dir_workers_done is set and the scope joins ...
RootIsDone ==
    /\ At(Coordinator, "wait")
    /\ rootDone > 0
    /\ rootDone' = rootDone - 1
    /\ Goto(Coordinator, "join", Root)
    /\ UNCHANGED <<job, fsVars, cancel, walk, enumQ, fileQ, readyQ, tracker,
                   semVars, metrics, progress>>

\* ... every thread it has spawned.
Join ==
    /\ At(Coordinator, "join")
    /\ walk.at = "exited"
    /\ \A t \in Threads \ {Coordinator} : At(t, "exited")
    /\ Goto(Coordinator, "done", Root)
    /\ UNCHANGED <<job, fsVars, cancel, walk, queueVars, tracker, semVars, metrics,
                   progress>>

Coordinate ==
    \/ CoordinatorEvent \/ CoordinatorDecide \/ CoordinatorEnqueue
    \/ CoordinatorEnd \/ RootIsDone \/ Join
    \/ TrackerCall(Coordinator)

-----------------------------------------------------------------------------
(* The file workers: file_worker_loop. *)

FileTxDropped == pc[Coordinator].at \in {"wait", "join", "done"}
Shutdown      == pc[Coordinator].at \in {"join", "done"}

FileReceive(w) ==
    /\ At(w, "recv")
    /\ fileQ # <<>>
    /\ Goto(w, "acquire", Head(fileQ))
    /\ fileQ' = Tail(fileQ)
    /\ UNCHANGED <<job, fsVars, cancel, walk, enumQ, readyQ, rootDone, tracker,
                   semVars, metrics, progress>>

FileAcquire(w) ==
    /\ At(w, "acquire")
    /\ granted < capacity
    /\ granted' = granted + 1
    /\ Goto(w, "delete", pc[w].node)
    /\ UNCHANGED <<job, fsVars, cancel, walk, queueVars, tracker, capacity, metrics,
                   progress>>

\* Mutant: what fails is counted as deleted as well.
CountEveryDelete(w) ==
    /\ At(w, "delete")
    /\ LET n == pc[w].node
       IN  \/ fs' = fs \ {n}
           \/ n \in fs \cap job.stubborn /\ UNCHANGED fs
    /\ Count("files_deleted")
    /\ Complete(w, pc[w].node, FALSE)
    /\ granted' = granted - 1
    /\ UNCHANGED <<job, meddling, cancel, walk, queueVars, tracker, capacity, progress>>

\* process_one as the pipeline sees it (a leaf that is gone counts as deleted),
\* then the release of the permit.
FileDelete(w) ==
    /\ At(w, "delete")
    /\ LET n == pc[w].node
       IN  \/ /\ fs' = fs \ {n}
              /\ Count("files_deleted")
              /\ Complete(w, n, FALSE)
           \/ /\ n \in fs \cap job.stubborn
              /\ Count("file_failures")
              /\ Complete(w, n, TRUE)
              /\ UNCHANGED fs
    /\ granted' = granted - 1
    /\ UNCHANGED <<job, meddling, cancel, walk, queueVars, tracker, capacity, progress>>

FileExit(w) ==
    /\ At(w, "recv")
    /\ fileQ = <<>> /\ FileTxDropped
    /\ Goto(w, "exited", Root)
    /\ UNCHANGED <<job, fsVars, cancel, walk, queueVars, tracker, semVars, metrics,
                   progress>>

FileWorker(w) ==
    \/ FileReceive(w) \/ FileAcquire(w) \/ FileDelete(w) \/ FileExit(w)
    \/ TrackerCall(w)

-----------------------------------------------------------------------------
(* The directory workers: dir_worker_loop. *)

DirReceive(w) ==
    /\ At(w, "recv")
    /\ readyQ # <<>>
    /\ pc' = [pc EXCEPT ![w] = [at |-> "attempt", node |-> Head(readyQ).dir,
                                still |-> Head(readyQ).simulated_non_empty]]
    /\ readyQ' = Tail(readyQ)
    /\ UNCHANGED <<job, fsVars, cancel, walk, enumQ, fileQ, rootDone, tracker,
                   semVars, metrics, progress>>

\* forget, then complete_child in the parent or the end of the run.
Finish(w, d, stillPresent) ==
    /\ tracker' = Remove(tracker, d)
    /\ IF d = Root
       THEN rootDone < 1 /\ rootDone' = rootDone + 1 /\ Return(w)
       ELSE Complete(w, d, stillPresent) /\ UNCHANGED rootDone

\* Mutant: a preserved root is counted as retained.
CountPreservedRoot(w) ==
    /\ pc[w].node = Root /\ job.preserve_root
    /\ Finish(w, Root, TRUE)
    /\ Count("dirs_retained")
    /\ UNCHANGED fs

DirPreserveRoot(w) ==
    /\ pc[w].node = Root /\ job.preserve_root
    /\ Finish(w, Root, TRUE)
    /\ UNCHANGED <<fs, metrics>>

DirSimulate(w) ==
    /\ ~ (pc[w].node = Root /\ job.preserve_root)
    /\ job.dry_run
    /\ Count(IF pc[w].still THEN "dirs_retained" ELSE "dirs_deleted")
    /\ Finish(w, pc[w].node, pc[w].still)
    /\ UNCHANGED fs

\* Mutants: NotEmpty is a failure although the run was cancelled, or is none at
\* all.
CancelledIsFailure(w) ==
    LET d == pc[w].node
        empty == ChildrenIn(d, fs) = {}
    IN  /\ ~ (d = Root /\ job.preserve_root)
        /\ ~ job.dry_run
        /\ \/ /\ empty
              /\ fs' = fs \ {d}
              /\ Count("dirs_deleted")
              /\ Finish(w, d, FALSE)
           \/ /\ ~ empty
              /\ Count(IF job.preserve_root THEN "dirs_retained" ELSE "dir_failures")
              /\ Finish(w, d, TRUE)
              /\ UNCHANGED fs
NotEmptyIsRetained(w) ==
    LET d == pc[w].node
        empty == ChildrenIn(d, fs) = {}
    IN  /\ ~ (d = Root /\ job.preserve_root)
        /\ ~ job.dry_run
        /\ IF empty /\ d \notin job.stubborn
           THEN fs' = fs \ {d} /\ Count("dirs_deleted") /\ Finish(w, d, FALSE)
           ELSE Count("dirs_retained") /\ Finish(w, d, TRUE) /\ UNCHANGED fs

\* delete_dir removes an empty directory and refuses any other (NotEmpty).
DirDelete(w) ==
    LET d == pc[w].node
        empty == ChildrenIn(d, fs) = {}
    IN  /\ ~ (d = Root /\ job.preserve_root)
        /\ ~ job.dry_run
        /\ \/ /\ empty
              /\ fs' = fs \ {d}
              /\ Count("dirs_deleted")
              /\ Finish(w, d, FALSE)
           \/ /\ ~ empty /\ (job.preserve_root \/ cancel)
              /\ Count("dirs_retained")
              /\ Finish(w, d, TRUE)
              /\ UNCHANGED fs
           \/ /\ \/ ~ empty /\ ~ job.preserve_root /\ ~ cancel
                 \/ d \in fs \cap job.stubborn
              /\ Count("dir_failures")
              /\ Finish(w, d, TRUE)
              /\ UNCHANGED fs

DirAttempt(w) ==
    /\ At(w, "attempt")
    /\ DirPreserveRoot(w) \/ DirSimulate(w) \/ DirDelete(w)
    /\ UNCHANGED <<job, meddling, cancel, walk, enumQ, fileQ, readyQ, semVars, progress>>

\* recv_timeout ran out, and the shutdown flag is set.
DirExit(w) ==
    /\ At(w, "recv")
    /\ readyQ = <<>> /\ Shutdown
    /\ Goto(w, "exited", Root)
    /\ UNCHANGED <<job, fsVars, cancel, walk, queueVars, tracker, semVars, metrics,
                   progress>>

DirWorker(w) == DirReceive(w) \/ DirAttempt(w) \/ DirExit(w) \/ TrackerCall(w)

-----------------------------------------------------------------------------
(* The environment. *)

Cancel ==
    /\ ~ cancel
    /\ ~ At(Coordinator, "done")
    /\ cancel' = TRUE
    /\ UNCHANGED <<job, fsVars, walk, queueVars, tracker, pc, semVars, metrics, progress>>

\* Another program removes a leaf or writes one.
Meddle ==
    /\ meddling < MaxMeddling
    /\ ~ At(Coordinator, "done")
    /\ meddling' = meddling + 1
    /\ \E n \in Leaves :
          \/ n \in fs /\ fs' = fs \ {n}
          \/ n \notin fs /\ Parent[n] \in fs /\ fs' = fs \cup {n}
    /\ UNCHANGED <<job, cancel, walk, queueVars, tracker, pc, semVars, metrics, progress>>

Next ==
    \/ Walk
    \/ Coordinate
    \/ Sample
    \/ \E w \in FileWorkers : FileWorker(w)
    \/ \E w \in DirWorkers : DirWorker(w)
    \/ Cancel
    \/ Meddle

Spec == Init /\ [][Next]_vars

\* Every thread runs whenever it can.  Nobody has to cancel, to meddle, or to
\* sample.
Fairness ==
    /\ WF_vars(Walk)
    /\ WF_vars(Coordinate)
    /\ \A w \in FileWorkers : WF_vars(FileWorker(w))
    /\ \A w \in DirWorkers : WF_vars(DirWorker(w))

FairSpec == Spec /\ Fairness

-----------------------------------------------------------------------------
(* Properties *)

Steps == {"recv", "decide", "enqueue", "wait", "join", "done",
          "acquire", "delete", "attempt", "exited",
          "complete", "try_finalise", "send"}

TypeOK ==
    /\ job \in Jobs
    /\ fs \subseteq Nodes
    /\ meddling \in 0 .. MaxMeddling
    /\ cancel \in BOOLEAN
    /\ walk.at \in {"pop", "entries", "error", "flush", "exited"}
    /\ walk.dir \in Dirs /\ walk.unsent \subseteq Nodes
    /\ \A i \in DOMAIN walk.stack : walk.stack[i] \in Dirs
    /\ Len(enumQ) <= EnumCap /\ Len(fileQ) <= FileCap /\ Len(readyQ) <= ReadyCap
    /\ rootDone \in 0 .. 1
    /\ DOMAIN tracker \subseteq Dirs
    /\ tracker \in [DOMAIN tracker -> DirState]
    /\ pc \in [Threads -> [at : Steps, node : Nodes, still : BOOLEAN]]
    /\ granted \in Nat /\ capacity \in Capacities
    /\ metrics \in [DOMAIN NoMetrics -> Nat]

Done == At(Coordinator, "done")

\* The pipeline drives the tracker as DirectoryTracker.tla assumes, whatever is
\* cancelled or fails: no directory is attempted before everything found in it
\* is resolved, and each is attempted once.
Completion == INSTANCE DirectoryCompletion WITH
    discovered <- progress.discovered,
    listed     <- progress.listed,
    resolved   <- progress.resolved,
    handedOver <- progress.sent
CompletionSpec == Completion!Spec

\* "the root is done" (pipeline.rs:257) is what ends a run: when it is said,
\* nothing is left in any channel, no thread still works on an entry, every
\* entry found is resolved and the tracker is empty.
RootIsDoneLast ==
    rootDone > 0 \/ Shutdown =>
        /\ enumQ = <<>> /\ fileQ = <<>> /\ readyQ = <<>>
        /\ walk.stack = <<>> /\ walk.unsent = {}
        /\ progress.discovered \ {Root} \subseteq progress.resolved
        /\ DOMAIN tracker = {}
        /\ granted = 0

\* pipeline.rs:143-149: the totals of the report cohere.  Each file scanned was
\* deleted, retained or failed, each directory too; but a preserved root is
\* scanned and nothing else.
FilesBalance ==
    metrics.files_scanned =
        metrics.files_deleted + metrics.files_retained + metrics.file_failures
AccountsBalance ==
    Done =>
        /\ FilesBalance
        /\ metrics.dirs_scanned =
              metrics.dirs_deleted + metrics.dirs_retained + metrics.dir_failures
                + (IF job.preserve_root THEN 1 ELSE 0)

\* What a real run reports deleted is what is gone, also when it was cancelled or
\* failed in part; a dry run leaves everything where it was.
ReportIsTruthful ==
    Done /\ meddling = 0 =>
        IF job.dry_run
        THEN fs = job.tree
        ELSE /\ fs \subseteq job.tree
             /\ Cardinality(job.tree \ fs) = metrics.files_deleted + metrics.dirs_deleted
             /\ Cardinality((job.tree \ fs) \cap Dirs) = metrics.dirs_deleted

\* EXIT_CODES.md:12, 80: a run without failures that was not cancelled, and whose
\* filters made it keep nothing, has deleted the target and all there was in it.
\* Whatever a lost event or a miscount left behind would be reported a success.
SuccessMeansEmpty ==
    Done /\ ~ cancel /\ meddling = 0 /\ ~ job.dry_run /\ ~ job.preserve_root
      /\ metrics.file_failures + metrics.dir_failures + metrics.list_failures = 0
        => fs = {}

\* The leaves to keep and the directories they are in, the target among them if
\* it is to be preserved.
Above(kept) ==
    LET closed(S) == \A n \in S \ {Root} : Parent[n] \in S
        base == kept \cup (IF job.preserve_root THEN {Root} ELSE {})
    IN  {n \in Nodes : \A S \in SUBSET Nodes : base \subseteq S /\ closed(S) => n \in S}

Undisturbed ==
    ~ cancel /\ meddling = 0 /\ job.stubborn = {} /\ job.unlistable = {}

\* Undisturbed, a run deletes everything but the retained leaves and the
\* directories above them, and a dry run counts exactly that.
CleanRunIsExact ==
    Done /\ Undisturbed =>
        LET remains == Above(job.keep \cap job.tree)
        IN  /\ ~ job.dry_run => fs = remains
            /\ metrics.files_deleted = Cardinality((job.tree \cap Leaves) \ remains)
            /\ metrics.dirs_deleted = Cardinality((job.tree \cap Dirs) \ remains)

\* Cancelling never turns into a failure (pipeline.rs:603-607), nor does what the
\* filters retain, at whatever moment the run is cancelled.
CancelIsNoFailure ==
    Done /\ meddling = 0 /\ job.stubborn = {} /\ job.unlistable = {} =>
        metrics.file_failures + metrics.dir_failures + metrics.list_failures = 0

\* No interleaving and no cancellation makes a run delete what its filters
\* retain, or a directory above it.
RetainedStays == meddling = 0 => Above(job.keep \cap job.tree) \cap job.tree \subseteq fs

\* Every run ends, cancelled or not, whatever fails in it.  It holds where the
\* channel of ready directories has room for all of them, and only there.
Terminates == <>Done

\* ADR-0002:104-110: a cancelled run still reaches "a consistent terminal state
\* and reports accurate partial results rather than hanging".
CancelledRunsTerminate == cancel ~> Done
=============================================================================
