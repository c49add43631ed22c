------------------------------ MODULE Recovery ------------------------------
(***************************************************************************)
(* What a file or directory worker does to delete one object, and what     *)
(* becomes of it in the report: process_one, delete_with_remediation, the  *)
(* failure log (cursdel-core/src/pipeline.rs) and Summary::exit_code       *)
(* (report.rs).  Several workers do so at once, the operator may cancel,   *)
(* and the engine answers each call as it likes.                           *)
(*                                                                         *)
(* When each object's turn comes is the business of Pipeline.tla.          *)
(***************************************************************************)
EXTENDS Integers, Sequences, FiniteSets

CONSTANTS
    Files, Dirs,         \* what the run is going to delete
    Workers,             \* any thread that deletes
    Options,             \* the runs to look at, see Option
    MaxStoredFailures    \* MAX_STORED_FAILURES

Objects == Files \cup Dirs

Option == [allow_remediation : BOOLEAN, kill_locks : BOOLEAN,
           close_remote_locks : BOOLEAN, preserve_root : BOOLEAN]

ASSUME RecoveryAssumption ==
    /\ Files \cap Dirs = {} /\ IsFiniteSet(Objects)
    /\ Options \subseteq Option
    /\ MaxStoredFailures \in Nat \ {0}

VARIABLES
    opts,        \* DeleteOptions and preserve_root
    cancel,      \* the CancelToken
    todo,        \* the objects no worker has taken yet
    work,        \* what each worker is about to do, see Idle
    metrics,     \* OperationMetrics
    log,         \* FailureLog::failures: the categories
    truncated,   \* FailureLog::truncated
    exit,        \* the exit code, once there is one
    answers,     \* history: what the engine answered to each delete of an object
    recovered    \* history: which recoveries the engine said had worked

vars == <<opts, cancel, todo, work, metrics, log, truncated, exit, answers, recovered>>

\* Deleted and AlreadyGone are one answer here, AccessDenied and
\* ReparsePointRefused another, and what nothing is done about a third.
Success    == {"deleted"}
Remediable == {"access_denied"}

\* delete_file has no answer "not_empty".
Answers(o) == Success \cup Remediable \cup {"sharing_violation", "other"}
                 \cup (IF o \in Dirs THEN {"not_empty"} ELSE {})

Recoveries == {"remediation", "local", "remote"}

\* Every answer there is, those of remote resolution included.
AllAnswers == {"deleted", "access_denied", "sharing_violation", "other", "not_empty",
               "remote_lock_unsupported", "remote_lock_failed"}

\* A worker is about to take the step `at` on object `on`; `answer` is the
\* outcome so far and `tried` the recovery that led to it.
Idle == [at |-> "idle", on |-> "nothing", answer |-> "none", tried |-> "nothing"]

NoMetrics == [deleted |-> 0, dirs_retained |-> 0, failures |-> 0,
              remediation_attempts |-> 0, remediation_successes |-> 0,
              local_locks_resolved |-> 0, remote_locks_resolved |-> 0, retries |-> 0]

Counted(fields) == [f \in DOMAIN metrics |->
                        IF f \in fields THEN metrics[f] + 1 ELSE metrics[f]]

Init ==
    /\ opts \in Options
    /\ cancel = FALSE
    /\ todo = Objects
    /\ work = [w \in Workers |-> Idle]
    /\ metrics = NoMetrics
    /\ log = <<>>
    /\ truncated = FALSE
    /\ exit = "none"
    /\ answers = [o \in Objects |-> <<>>]
    /\ recovered = [o \in Objects |-> {}]

-----------------------------------------------------------------------------
\* Mutant: a local lock is resolved as often as it is met.
NextStepAgain(o, answer, tried) ==
    IF answer \in Remediable /\ opts.allow_remediation /\ tried = "nothing"
    THEN "remediation"
    ELSE IF answer = "sharing_violation" /\ o \in Files /\ opts.kill_locks
    THEN "local"
    ELSE IF answer = "sharing_violation" /\ o \in Files /\ opts.close_remote_locks
              /\ tried # "remote"
    THEN "remote"
    ELSE "record"

\* The recovery that is next for an answer, after those that were tried: each
\* at most once, in this order, the locks for files only.
NextStep(o, answer, tried) ==
    IF answer \in Remediable /\ opts.allow_remediation /\ tried = "nothing"
    THEN "remediation"
    ELSE IF answer = "sharing_violation" /\ o \in Files /\ opts.kill_locks
              /\ tried \in {"nothing", "remediation"}
    THEN "local"
    ELSE IF answer = "sharing_violation" /\ o \in Files /\ opts.close_remote_locks
              /\ tried # "remote"
    THEN "remote"
    ELSE "record"

\* Worker w holds `answer` for its object after it tried a recovery.
Proceed(w, answer, tried) ==
    work' = [work EXCEPT ![w] = [@ EXCEPT !.at = NextStep(work[w].on, answer, tried),
                                          !.answer = answer, !.tried = tried]]

Take(w, o) ==
    /\ work[w].at = "idle"
    /\ o \in todo
    /\ todo' = todo \ {o}
    /\ work' = [work EXCEPT ![w] = [Idle EXCEPT !.at = "delete", !.on = o]]
    /\ UNCHANGED <<opts, cancel, metrics, log, truncated, exit, answers, recovered>>

\* base_delete, the first time or again.
Delete(w) ==
    /\ work[w].at = "delete"
    /\ LET o == work[w].on
       IN  \E answer \in Answers(o) :
              /\ answers' = [answers EXCEPT ![o] = Append(@, answer)]
              /\ Proceed(w, answer, work[w].tried)
    /\ UNCHANGED <<opts, cancel, todo, metrics, log, truncated, exit, recovered>>

\* The engine says that the obstacle is gone: count it, and delete once more.
Retry(w, recovery, fields) ==
    /\ metrics' = Counted(fields \cup {"retries"})
    /\ recovered' = [recovered EXCEPT ![work[w].on] = @ \cup {recovery}]
    /\ work' = [work EXCEPT ![w].at = "delete", ![w].tried = recovery]

Remediate(w) ==
    /\ work[w].at = "remediation"
    /\ \/ Retry(w, "remediation", {"remediation_attempts", "remediation_successes"})
       \/ /\ metrics' = Counted({"remediation_attempts"})
          /\ Proceed(w, work[w].answer, "remediation")
          /\ UNCHANGED recovered
    /\ UNCHANGED <<opts, cancel, todo, log, truncated, exit, answers>>

ResolveLocalLock(w) ==
    /\ work[w].at = "local"
    /\ \/ Retry(w, "local", {"local_locks_resolved"})
       \/ /\ Proceed(w, work[w].answer, "local")
          /\ UNCHANGED <<metrics, recovered>>
    /\ UNCHANGED <<opts, cancel, todo, log, truncated, exit, answers>>

\* What the engine could not do becomes the failure's category.
ResolveRemoteLock(w) ==
    /\ work[w].at = "remote"
    /\ \/ Retry(w, "remote", {"remote_locks_resolved"})
       \/ /\ \E category \in {"remote_lock_unsupported", "remote_lock_failed"} :
                Proceed(w, category, "remote")
          /\ UNCHANGED <<metrics, recovered>>
    /\ UNCHANGED <<opts, cancel, todo, log, truncated, exit, answers>>

-----------------------------------------------------------------------------
\* Mutant: the log says too early that it is truncated.
PushAndTruncate(category) ==
    /\ log' = IF Len(log) < MaxStoredFailures THEN Append(log, category) ELSE log
    /\ truncated' = (truncated \/ Len(log) + 1 >= MaxStoredFailures)

\* The worker loops: count the outcome, and log a failure.
PushFailure(category) ==
    IF Len(log) < MaxStoredFailures
    THEN log' = Append(log, category) /\ UNCHANGED truncated
    ELSE truncated' = TRUE /\ UNCHANGED log

\* Mutant: a directory that is not empty is never a failure.
NotEmptyIsFine(o, answer) == o \in Dirs /\ answer = "not_empty"

Expected(o, answer) ==
    o \in Dirs /\ answer = "not_empty" /\ (opts.preserve_root \/ cancel)

Record(w) ==
    /\ work[w].at = "record"
    /\ LET o == work[w].on
           answer == work[w].answer
       IN  \/ /\ answer \in Success
              /\ metrics' = Counted({"deleted"})
              /\ UNCHANGED <<log, truncated>>
           \/ /\ Expected(o, answer)
              /\ metrics' = Counted({"dirs_retained"})
              /\ UNCHANGED <<log, truncated>>
           \/ /\ answer \notin Success /\ ~ Expected(o, answer)
              /\ metrics' = Counted({"failures"})
              /\ PushFailure(answer)
    /\ work' = [work EXCEPT ![w] = Idle]
    /\ UNCHANGED <<opts, cancel, todo, exit, answers, recovered>>

-----------------------------------------------------------------------------
\* Summary::exit_code, of the log as far as it was kept.
Logged(categories) == \E i \in DOMAIN log : log[i] \in categories

\* Mutant: one attempt at remediation is enough for the privilege code.
PrivilegeOnAttempt ==
    IF cancel THEN "Interrupted"
    ELSE IF log = <<>> THEN "Success"
    ELSE IF opts.allow_remediation /\ metrics.remediation_attempts > 0
    THEN "PrivilegeRequirementNotSatisfied"
    ELSE "CompletedWithFailures"

ExitCode ==
    IF cancel THEN "Interrupted"
    ELSE IF log = <<>> THEN "Success"
    ELSE IF Logged({"remote_lock_failed", "remote_lock_unsupported"})
               /\ opts.close_remote_locks
    THEN "RemoteLockHandlingFailed"
    ELSE IF Logged({"local_lock_unresolved"}) /\ opts.kill_locks
    THEN "LockResolutionFailed"
    ELSE IF opts.allow_remediation /\ metrics.remediation_attempts > 0
               /\ metrics.remediation_successes = 0
    THEN "PrivilegeRequirementNotSatisfied"
    ELSE "CompletedWithFailures"

\* build_summary once every thread has been joined.
Summarise ==
    /\ todo = {} /\ \A w \in Workers : work[w].at = "idle"
    /\ exit = "none"
    /\ exit' = ExitCode
    /\ UNCHANGED <<opts, cancel, todo, work, metrics, log, truncated, answers, recovered>>

Cancel ==
    /\ ~ cancel /\ exit = "none"
    /\ cancel' = TRUE
    /\ UNCHANGED <<opts, todo, work, metrics, log, truncated, exit, answers, recovered>>

Next ==
    \/ \E w \in Workers :
          \/ \E o \in Objects : Take(w, o)
          \/ Delete(w) \/ Remediate(w) \/ ResolveLocalLock(w) \/ ResolveRemoteLock(w)
          \/ Record(w)
    \/ Summarise
    \/ Cancel

Spec == Init /\ [][Next]_vars

-----------------------------------------------------------------------------
(* Properties *)

TypeOK ==
    /\ opts \in Options
    /\ cancel \in BOOLEAN /\ truncated \in BOOLEAN
    /\ todo \subseteq Objects
    /\ work \in [Workers -> [at : {"idle", "delete", "record"} \cup Recoveries,
                             on : Objects \cup {"nothing"}, answer : AllAnswers \cup {"none"},
                             tried : {"nothing"} \cup Recoveries]]
    /\ metrics \in [DOMAIN NoMetrics -> Nat]
    /\ log \in Seq(AllAnswers) /\ Len(log) <= MaxStoredFailures
    /\ answers \in [Objects -> Seq(AllAnswers)]
    /\ recovered \in [Objects -> SUBSET Recoveries]

Done == exit # "none"

LastAnswer(o) == answers[o][Len(answers[o])]

\* What an object ends as: the engine's last word on it.
Gone(o) == answers[o] # <<>> /\ LastAnswer(o) \in Success

\* JSON_OUTPUT.md:100: `retries` is the number of deletes that were tried again,
\* and no object is tried again without a recovery or after it is gone.
RetriesAreExact ==
    Done =>
        /\ \A o \in Objects :
              /\ Len(answers[o]) = 1 + Cardinality(recovered[o])
              /\ \A i \in 1 .. Len(answers[o]) - 1 : answers[o][i] \notin Success
        /\ metrics.retries = metrics.remediation_successes
              + metrics.local_locks_resolved + metrics.remote_locks_resolved
        /\ Cardinality({x \in Objects \X Recoveries : x[2] \in recovered[x[1]]})
              = metrics.retries

\* report.rs:32-36: the count of failures is exact although the log is capped, and
\* only a capped log is said to be truncated.
FailuresAreExact ==
    Done =>
        /\ metrics.deleted = Cardinality({o \in Objects : Gone(o)})
        /\ metrics.deleted + metrics.dirs_retained + metrics.failures
              = Cardinality(Objects)
        /\ truncated <=> metrics.failures > MaxStoredFailures
        /\ ~ truncated => Len(log) = metrics.failures

\* EXIT_CODES.md:12, 80: zero is the only clean result.  Whatever was capped or
\* cancelled, a run that exits with Success left behind only what its filters
\* made it retain.
SuccessMeansGone ==
    exit = "Success" =>
        \A o \in Objects : Gone(o) \/ (o \in Dirs /\ opts.preserve_root)

\* report.rs:44-51: the cap on the log can only hide the specific codes behind the
\* general one; it never turns a failure into a success, nor an object that was
\* refused for want of a privilege into a lock.
CapOnlyGeneralises ==
    Done /\ ~ cancel =>
        /\ exit = "Success" <=> metrics.failures = 0
        /\ exit = "RemoteLockHandlingFailed" =>
              \E o \in Files : ~ Gone(o) /\ "remote" \notin recovered[o]
                                /\ LastAnswer(o) = "sharing_violation"
        /\ exit = "PrivilegeRequirementNotSatisfied" =>
              \A o \in Objects : "remediation" \notin recovered[o]
=============================================================================
