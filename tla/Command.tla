------------------------------- MODULE Command -------------------------------
(***************************************************************************)
(* `cursdel <path> [options]` from its arguments to its exit code          *)
(* (cursdel-cli/src/main.rs, cursdel-core/src/options.rs, and run and      *)
(* run_single_object of pipeline.rs): the options in the order in which    *)
(* they are read, the licence that --close-remote-locks needs, the         *)
(* filters, the target, and a target that is not a directory up to the     *)
(* report.  What happens in a directory is the business of Pipeline.tla,   *)
(* and what the engine does that of Engine.tla.                            *)
(***************************************************************************)
EXTENDS TargetPath, FileFilter, LicenseResolution

CONSTANTS
    CommandLines,      \* what may have been typed, see below
    Machines,          \* the machines a licence is looked for on
    Attributes,        \* what a single object may be like: its size and times
    Now,               \* the time at which the filters are built
    NewCandidates, NewCertificates, NewSignatures, LaterTimes   \* for the properties

\* Numbers are numbers, no file is as large as a size can be, a file has at most one
\* time of a kind, and times are after the beginning of the clock.
ASSUME CommandAssumption ==
    /\ Now \in Nat /\ LaterTimes \subseteq Nat
    /\ \A typed \in CommandLines :
          \A t \in typed[2].age \cup typed[2].min_size \cup typed[2].max_size :
             t.quarters \in Nat
    /\ \A a \in Attributes :
          /\ a.size \in Nat /\ a.size < MaxSize
          /\ \A basis \in {"modified", "created", "accessed"} :
                /\ a.times[basis] \subseteq Nat
                /\ \A s, t \in a.times[basis] : s = t
    /\ \A m \in Machines : IsMachine(m)
    /\ \A doc \in NewCandidates \cup NewCertificates : IsDocument(doc)

VARIABLES
    platform,
    line,        \* the command line
    at,          \* what is done next
    machine,     \* the machine that is looked at for a licence
    licensed,    \* whether a licence for --close-remote-locks was found on it
    filters,
    target,      \* what validate_target said
    meta,        \* what symlink_metadata said of a single object
    present,     \* whether the single object is still there
    failure,     \* the failure that was met last, or "none"
    recovered,   \* how many of process_one's recoveries have been considered
    handed,      \* what was handed to the engine, and with which options
    exit         \* the exit code, or -1

vars == <<platform, line, at, machine, licensed, filters, target, meta, present, failure,
          recovered, handed, exit>>

\* The command line, in the parts that the code looks at.  What is not given is {}.
Plain == [parse |-> "ok", target |-> {}, mode |-> "normal", workers |-> "auto", age |-> {},
          age_by |-> "modified", min_size |-> {}, max_size |-> {}, include |-> {},
          exclude |-> {}, kill_locks |-> FALSE, close_remote_locks |-> FALSE,
          dry_run |-> FALSE]

\* exit_code.rs; a Rust program that panics exits with 101.
Success == 0
InvalidArgsOrTarget == 1
LicenseRequired == 7
CliUsageError == 64
Panicked == 101
\* The codes of a run with failures, and of one that was interrupted
\* (Recovery.ExitCode tells which).
FailureCodes == 2 .. 5
Interrupted == 6

NoFilters == FilterSet({}, {}, {}, {}, {}, "modified", Now)

Init ==
    /\ \E typed \in CommandLines : platform = typed[1] /\ line = typed[2]
    /\ at = "parse"
    /\ machine = {} /\ licensed = FALSE /\ filters = NoFilters
    /\ target = Refused("none") /\ meta = {} /\ present = TRUE
    /\ failure = "none" /\ recovered = 0 /\ handed = {} /\ exit = -1

-----------------------------------------------------------------------------
(* Reading the line *)

Stop(code) == at' = "end" /\ exit' = code
Goto(step) == at' = step /\ UNCHANGED exit

\* A check of the line, which goes on or ends with the code.
Check(step, passes, next, code) ==
    /\ at = step
    /\ IF passes THEN Goto(next) ELSE Stop(code)
    /\ UNCHANGED <<platform, line, machine, licensed, filters, target, meta, present, failure,
                   recovered, handed>>

\* Help and version are no errors; clap's other errors do not have its exit code.
Parse == Check("parse", line.parse = "ok", "target",
               IF line.parse = "help" THEN Success ELSE CliUsageError)

ReadTarget == Check("target", line.target # {}, "workers", CliUsageError)

\* WorkerPolicy::from_str
ReadWorkers == Check("workers", line.workers \in {"auto", "positive"}, "age", CliUsageError)

ReadAge == Check("age", \A t \in line.age : AgeIsAccepted(t) /\ ~ AgePanics(t), "age_by",
                 IF \E t \in line.age : AgePanics(t) THEN Panicked ELSE CliUsageError)

ReadAgeBy == Check("age_by", line.age_by \in {"modified", "created", "accessed"}, "min_size",
                   CliUsageError)

ReadMinSize == Check("min_size", \A t \in line.min_size : SizeIsAccepted(t), "max_size",
                     CliUsageError)

ReadMaxSize == Check("max_size", \A t \in line.max_size : SizeIsAccepted(t), "licence",
                     CliUsageError)

\* Only --close-remote-locks looks for a licence.
CheckLicence ==
    /\ at = "licence"
    /\ IF line.close_remote_locks
       THEN \E m \in Machines :
               /\ machine' = {m}
               /\ licensed' = CloseRemoteLocksIsEnabled(m)
               /\ IF licensed' THEN Goto("filters") ELSE Stop(LicenseRequired)
       ELSE Goto("filters") /\ UNCHANGED <<machine, licensed>>
    /\ UNCHANGED <<platform, line, filters, target, meta, present, failure, recovered, handed>>

\* The time of the filters is that of this step.
BuildFilters ==
    /\ at = "filters"
    /\ machine' = {}
    /\ IF Compiles(line.include \cup line.exclude)
       THEN /\ filters' = FilterSet(line.include, line.exclude, line.min_size, line.max_size,
                                    line.age, line.age_by, Now)
            /\ Goto("validate")
       ELSE Stop(CliUsageError) /\ UNCHANGED filters
    /\ UNCHANGED <<platform, line, licensed, target, meta, present, failure, recovered, handed>>

-----------------------------------------------------------------------------
(* The operation *)

Path == CHOOSE path \in line.target : TRUE

\* run: a directory goes to the pipeline, anything else is a single object.
Validate ==
    /\ at = "validate"
    /\ target' = ValidateTarget(platform, Path)
    /\ IF target'.result # "ok" THEN Stop(InvalidArgsOrTarget)
       ELSE Goto(IF target'.is_dir THEN "pipeline" ELSE "metadata")
    /\ UNCHANGED <<platform, line, machine, licensed, filters, meta, present, failure, recovered,
                   handed>>

\* OperationOptions::delete_options; --destroy wins over --force.
DeleteOptions ==
    [allow_remediation |-> line.mode \in {"force", "destroy"},
     kill_locks |-> line.kill_locks \/ line.mode = "destroy",
     close_remote_locks |-> line.close_remote_locks]

\* A directory is gone through from its canonical path, unless the run is a dry one.
RunPipeline ==
    /\ at = "pipeline"
    /\ handed' = IF line.dry_run THEN {} ELSE {<<o, DeleteOptions>> : o \in target.canonical}
    /\ \E code \in {Success, Interrupted} \cup FailureCodes : Stop(code)
    /\ UNCHANGED <<platform, line, machine, licensed, filters, target, meta, present, failure,
                   recovered>>

\* Another program removes the object: before it is looked at, between two of
\* process_one's attempts, or after the last of them.
OtherRemoves ==
    /\ at \in {"metadata", "evaluate", "delete", "recover", "summary"}
    /\ present
    /\ present' = FALSE
    /\ UNCHANGED <<platform, line, at, machine, licensed, filters, target, meta, failure,
                   recovered, handed, exit>>

\* run_single_object looks at the object once more.
FileName == LET named == WithoutTail(Path.parts)
            IN  IF named = <<>> \/ Last(named) = ".." THEN "" ELSE Last(named)

Metadata ==
    /\ at = "metadata"
    /\ IF present
       THEN /\ \E a \in Attributes : meta' = {[name |-> FileName, size |-> a.size,
                                               times |-> a.times]}
            /\ Goto("evaluate")
            /\ UNCHANGED failure
       ELSE failure' = "other" /\ Goto("summary") /\ UNCHANGED meta
    /\ UNCHANGED <<platform, line, machine, licensed, filters, target, present, recovered,
                   handed>>

\* What is retained, and what a dry run would delete, is left alone.
Verdict == EvaluateFile(filters, CHOOSE file \in meta : TRUE)

Evaluate ==
    /\ at = "evaluate"
    /\ Goto(IF Verdict = "delete" /\ ~ line.dry_run THEN "delete" ELSE "summary")
    /\ UNCHANGED <<platform, line, machine, licensed, filters, target, meta, present, failure,
                   recovered, handed>>

\* The POSIX engines open the directory part of a path, and that of a bare name is
\* empty: nothing has such a name, and the engine takes the object for gone.
IsBareName(path) == path.form = "relative" /\ Len(WithoutTail(path.parts)) = 1
PassedBy == platform = "posix" /\ IsBareName(Path)

\* What the recoveries tell apart: AccessDenied or ReparsePointRefused,
\* SharingViolation, and the rest.
Failures == {"access", "sharing", "other"}

\* Mutant: what the engine could not delete is in the log, and not in the count.
DeleteUncounted ==
    /\ at = "delete"
    /\ handed' = {<<o, DeleteOptions>> : o \in target.object}
    /\ failure' = "none" /\ Goto("summary")
    /\ \/ present' = FALSE
       \/ UNCHANGED present
    /\ UNCHANGED <<platform, line, machine, licensed, filters, target, meta, recovered>>

\* One attempt of process_one: the engine deletes the object, or finds it gone; or it
\* fails, for whatever reason.
Delete ==
    /\ at = "delete"
    /\ handed' = {<<o, DeleteOptions>> : o \in target.object}
    /\ \/ /\ failure' = "none" /\ Goto("summary")
          /\ IF PassedBy THEN UNCHANGED present ELSE present' = FALSE
       \/ /\ ~ PassedBy
          /\ failure' \in Failures /\ Goto("recover") /\ UNCHANGED present
    /\ UNCHANGED <<platform, line, machine, licensed, filters, target, meta, recovered>>

\* process_one considers three recoveries, one after the other, each in view of the
\* failure that was met last; after one that worked it tries again.  (Recovery.tla has
\* what they do to the engine's answers, and which failure is counted.)
Recoveries == << /\ failure = "access"  /\ DeleteOptions.allow_remediation,
                 /\ failure = "sharing" /\ DeleteOptions.kill_locks,
                 /\ failure = "sharing" /\ DeleteOptions.close_remote_locks >>

Recover ==
    /\ at = "recover" /\ recovered < 3
    /\ recovered' = recovered + 1
    /\ \/ Recoveries[recovered'] /\ Goto("delete")
       \/ Goto("recover")
    /\ UNCHANGED <<platform, line, machine, licensed, filters, target, meta, present, failure,
                   handed>>

GiveUp ==
    /\ at = "recover" /\ recovered = 3
    /\ Goto("summary")
    /\ UNCHANGED <<platform, line, machine, licensed, filters, target, meta, present, failure,
                   recovered, handed>>

\* Summary::exit_code
Summarise ==
    /\ at = "summary"
    /\ \E code \in IF failure = "none" THEN {Success} ELSE FailureCodes : Stop(code)
    /\ UNCHANGED <<platform, line, machine, licensed, filters, target, meta, present, failure,
                   recovered, handed>>

Next ==
    \/ Parse \/ ReadTarget \/ ReadWorkers \/ ReadAge \/ ReadAgeBy \/ ReadMinSize \/ ReadMaxSize
    \/ CheckLicence \/ BuildFilters \/ Validate \/ RunPipeline
    \/ OtherRemoves \/ Metadata \/ Evaluate \/ Delete \/ Recover \/ GiveUp \/ Summarise

Spec == Init /\ [][Next]_vars

-----------------------------------------------------------------------------
(* Properties *)

Worked == {h[1] : h \in handed}

\* SAFETY_MODEL.md, "Root and share-root protection": whatever way a path to a root
\* is spelled or disguised, with dots, separators, verbatim prefixes and links, no
\* root is handed to the engine or gone through.
RootIsNeverTheTarget == Worked \cap Roots = {}

\* COMMAND_REFERENCE.md:25-27: "a single symlink target deletes the link itself, never
\* whatever it points to".
LinkIsDeletedItself ==
    LET named == Lookup(platform, Absolute(platform, [Path EXCEPT !.parts = WithoutTail(@)]))
    IN  Worked # {} /\ named \cap Links # {} => Worked = named

\* What the options say, in the numbers that were typed: at least so old at the time
\* of the command, at least and at most so large, give or take `slack` quarters of a
\* byte, named so and not so.
AskedFor(file, slack) ==
    /\ \A t \in line.age : \E stamp \in file.times[line.age_by] : stamp + AgeOf(t) <= Now
    /\ \A t \in line.min_size : 4 * file.size + slack >= t.quarters * SizeUnits[t.unit]
    /\ \A t \in line.max_size : 4 * file.size <= t.quarters * SizeUnits[t.unit] + slack
    /\ \A g \in line.include : file.name \in Matched[g]
    /\ \A g \in line.exclude : file.name \notin Matched[g]

\* filter.rs, RETENTION.md: a file is handed to the engine only if every filter that
\* was typed lets it, and one that is left alone in a run without failures was kept
\* by one of them, or by --dry-run.
FiltersDecide ==
    /\ at \in {"summary", "end"} /\ meta # {} =>
          \A file \in meta :
             /\ handed # {} => AskedFor(file, 2) /\ ~ line.dry_run
             /\ handed = {} => ~ AskedFor(file, 0) \/ line.dry_run

\* EXIT_CODES.md: a command refused, for its line (64), its licence (7) or its target
\* (1), has touched nothing; a success on a single object, however often its deletion
\* was tried, means that it was kept on purpose or is not there any more; and remote
\* locks may be closed for no one unlicensed.  Bare names are left out on POSIX: what
\* they name is passed by, and the run engine_bare_name shows it.
ExitCodeTellsTheTruth ==
    /\ exit \in {InvalidArgsOrTarget, LicenseRequired, CliUsageError, Panicked} => handed = {}
    /\ exit = Success /\ target.result = "ok" /\ ~ target.is_dir =>
          \/ ~ present
          \/ line.dry_run \/ \E file \in meta : ~ AskedFor(file, 0)
          \/ PassedBy
    /\ \A h \in handed : h[2].close_remote_locks => licensed

\* resolve.rs:3-8, envelope.rs:26-32: a licence file or a certificate that is added,
\* wherever it stands among the others and whatever is wrong with it, never lowers the
\* edition.  Nor does a signature by another key, wherever it stands and whether or not
\* this build can use it, unless there is no room for it or it can be used and does not
\* verify (envelope.rs:140-150, 171-187); and one that cannot be used, or does not
\* verify, never raises it.
MoreNeverMeansLess ==
    \A m \in machine :
        /\ \A doc \in NewCandidates, i \in 0 .. Len(m.candidates) :
              EditionRank(WithCandidate(m, doc, i)) >= EditionRank(m)
        /\ \A cert \in NewCertificates, i \in 0 .. Len(m.certificates) :
              EditionRank(WithCertificate(m, cert, i)) >= EditionRank(m)
        /\ \A s \in NewSignatures, i \in DOMAIN m.candidates :
           \A j \in 0 .. Len(m.candidates[i].signatures) :
              /\ MayAlsoSign(m.candidates[i], s) =>
                    EditionRank(WithSignature(m, i, s, j)) >= EditionRank(m)
              /\ ~ (Usable(s) /\ Verifies(s)) =>
                    EditionRank(WithSignature(m, i, s, j)) <= EditionRank(m)

\* validate.rs:104-108 and 162-175: the clock alone gives nothing back: what has expired,
\* or has not been refreshed in time, does not become usable again.
TimeOnlyTakesAway ==
    \A m \in machine, now \in LaterTimes :
        now >= m.now => EditionRank(Later(m, now)) <= EditionRank(m)
=============================================================================
