# CurseDelete in TLA+

Models of CurseDelete (`cursdel`), a bulk deletion tool written in Rust: what its
threads do to a directory tree, what its platform engines do to a file system
that others use as well, and what its licence commands do to the files they
keep. They are checked with TLC on small instances, and the parts where
interleavings matter most are proved with TLAPS for instances of every size.

Paths like `pipeline.rs:391` are in `crates/cursdel-core/src/` unless they say
otherwise. `PROJECT.json` lists the components, runs, mutants, findings, hazards
and theorems, and the source lines of every definition.

## The system

    operator, Ctrl+C ──► CLI (main.rs) ──► pipeline::run(engine, options, filters, cancel)
                                               │
      engine.enumerate ── EnumEvent ──► coordinator ── FileWorkItem ──► file workers
      (walk.rs)            channel      │  tracker        channel       │  semaphore
                                        ▼                               ▼
                                 DirectoryTracker ◄── complete_child ───┘
                                        │ ReadyDirectory channel
                                        ▼
                                 directory workers ── root is done ──► run joins, reports

| Component | State | Operations | What is hard | What makes it correct |
|---|---|---|---|---|
| Pipeline (`pipeline.rs`) | four bounded channels, counters, failure log, cancel and shutdown flags | `run`, `coordinator_loop`, `handle_entry`, `file_worker_loop`, `dir_worker_loop` | five kinds of threads, back-pressure in a cycle, cancellation at any moment, a tree that changes meanwhile | ends; ends last; deletes what it should and nothing it should keep; its totals add up and are true |
| Walker (`walk.rs`) | a stack of open directories | `stream_tree` | cancellation with directories on the stack, listings that fail | every directory announced is completed, once |
| Directory tracker (`directory_tracker.rs`) | a sharded map of pending counts and flags | `register_directory`, `register_leaf_child`, `mark_enumeration_done`, `complete_child`, `forget` | no lock spans two critical sections | each directory is handed over once, after everything in it |
| Semaphore (`sync.rs`) | `granted`, `capacity`, a mutex, a condition variable | `acquire`, `release`, `set_capacity` | notifications after the mutex is dropped; shrinking below what is granted | no permit and no wakeup is lost |
| Adaptive controller (`adaptive.rs`) | worker count, step, trend, last throughput, holds | `on_sample` | long sequences of windows | stays in bounds, does not drift, backs off, converges |
| Recovery and report (`pipeline.rs`, `report.rs`) | counters, capped failure log | `process_one`, `delete_with_remediation`, `FailureLog::push`, `Summary::exit_code` | up to three retries in turn, a capped log that decides the exit code | retries and failures are exact; success means that everything is gone |
| Licence store and commands (`cursdel-license`, `cursdel-cli/src/license_cmd.rs`) | licence, certificate, credentials, revocations, per scope | `install`, `activate`, `deactivate`, `renew`, `status` | crashes between two files, two commands at once, a server that does not answer | never a certificate without its credentials; no seat stranded; a revoked licence is not used |
| Licence resolution and validation (`resolve.rs`, `validate.rs`, `claims.rs`, `envelope.rs`) | none | `resolve`, `verify_license`, `verify_activation`, `open` | several candidates, certificates and signatures, each with an order of checks of its own | one document more never means less; time alone only takes away |
| Target validation (`target.rs`) | none | `validate_target` | a path read once as text and once by the system; links, dots, verbatim prefixes | no root is ever a target; a link is deleted itself |
| Filters, durations, sizes (`filter.rs`, `duration.rs`, `size.rs`) | none | `evaluate_file`, the parsers | boundaries, rounding, overflow | only what every filter that was typed lets is deleted |
| Engines (`cursdel-linux`, `-macos`, `-windows`) | none between two calls | `list_children`, `delete_file`, `delete_dir`, `remediate`, `resolve_local_lock`, `resolve_remote_lock` | other programs replace, rename and remove entries between two system calls | answers are true; nothing behind a link in place of an opened directory is touched; only holders are ended |
| Command line (`cursdel-cli/src/main.rs`, `args.rs`) | none | parsing, licence check, `run_single_object`, exit code | an order of checks; an object looked at three times | a refused command touches nothing; the exit code tells the truth |
| Device identity, packaging, tests | none | | tables and I/O | |

## The modules

| Module | What it is |
|---|---|
| `TrackerMap` | the tracker's critical sections as operators on its map; used by the two modules below, so that what is proved about the tracker is about the operators the pipeline uses |
| `DirectoryTracker` | the tracker alone under any number of threads, one action per critical section |
| `DirectoryCompletion` | what the tracker promises: found, listed, resolved, handed over once |
| `DirectoryTracker_proofs` | proofs about `DirectoryTracker` |
| `Pipeline` | one `run` on a directory: walker, coordinator, file and directory workers, channels with their capacities, cancellation, failing listings and deletions, other programs |
| `Pipeline_proofs` | proofs about it: types, what stays, the order of events up to the refinement of `DirectoryCompletion`, the totals, the dry run |
| `ResizableSemaphore`, `CountingSemaphore`, `ResizableSemaphore_proofs` | the semaphore down to its mutex and condition variable; what it promises; proofs |
| `AdaptiveController`, `AdaptiveController_proofs` | `on_sample` branch by branch under arbitrary windows; proofs |
| `AdaptiveConvergence` | the controller in a loop with a target whose throughput is a curve over the worker count |
| `Recovery` | what one worker does to delete one object, the failure log and the exit code, with several workers |
| `Recovery_proofs` | proofs about it |
| `LicenseStore` | the files of the two licence stores and what they entitle to |
| `LicenseCommands`, `LicenseCommands_proofs` | `install`, `activate`, `deactivate` and `renew` against the licensing server, one step per call and per file; proofs |
| `FileSystem` | external: directory entries, links, rights, open handles and processes, and what other programs do to them |
| `EngineCall` | the contract of an engine: the calls, their answers, and the history of a call |
| `PosixEngine`, `WindowsEngine` | the calls of the engines, one step per system call; Linux and macOS share their code but for a few places, which `platform` tells apart |
| `Engine` | composes the two with a worker that lists, deletes and recovers, and with other programs |
| `Engine_proofs` | proofs about it, for the three platforms |
| `TargetPath` | `validate_target`: the lexical reading of a path and the system's |
| `FileFilter` | durations, sizes and `evaluate_file` |
| `LicenseResolution` | the edition in effect on a machine: envelope, claims, certificates, choice |
| `Command`, `Command_proofs` | composes the three with the command line: from the arguments to the exit code, and a target that is not a directory; proofs about this and about `LicenseResolution` |
| `MC*` | instances for TLC; each `MC*.cfg` is one run |

An operator commented as a *mutant* is not part of any specification. It is a
plausible mistake in the definition that follows it; putting it in that
definition's place makes the property named in `PROJECT.json` fail, which shows
that the property depends on the code.

### Code and model

*Directory tracker.* `state` is the `DashMap`; each operator of `TrackerMap` is
what the code does while it holds one entry of it. `complete_child` and
`mark_enumeration_done` are two critical sections each (the count and the
finalisation) and a send, so a thread's `call` says which it is about to do and
for which entry. `register_directory` is two (insert, count in the parent). The
other variables are history: what was discovered, listed, resolved, kept, sent.
`still_present` is a count in the code of which only the sign is read; it is a
Boolean here.

*Pipeline.* `job` holds what the run is given and what goes wrong in it: the
tree, dry run or not, whether a filter is active (`preserve_root`) and which
leaves it retains, the directories that cannot be listed and the entries that
may refuse to be deleted. `pc[t]` is what thread t is about to do and with which
entry. Three simplifications beyond `DirectoryTracker`: `register_directory` is
one step (nobody else knows of the entry before its parent counts it; the
tracker's own module has both steps); a file worker deletes, releases its permit
and bumps the counters in one step, and a directory worker attempts, counts and
forgets in one step (the counters are only read after the join, and between
forgetting and completing a child no other thread has business with the entry).
The semaphore is the `CountingSemaphore` the real one is proved to implement. The
failure counter of the code is split by where it is bumped, so that totals can be
related. A leaf that is gone counts as deleted (`AlreadyGone`), as in the code.
Other programs remove and write leaves (`Meddle`), which is external.
Directory workers poll with a timeout; the model lets them stop when the poll
would see the shutdown flag and an empty channel.

*Semaphore.* `AcquireLock`, `Take`, `Wait` are `acquire`; `Wait` gives up the
mutex and sleeps in one step, as `Condvar::wait` does. `release` and
`set_capacity` notify in a step of their own, after the mutex is free.

*Adaptive controller.* Windows are of equal length, so throughput is a count; a
window's error rate is above the threshold or not. `Improved` and `Worsened` are
the comparison with 5% in integers. The code compares floating-point numbers;
the values used here are not within rounding of the threshold. `window` and
`settled` are history.

*Licences.* `files[s]` is the directory of store s with its four files. `cmd[p]` is
the command process p runs: the step it is at and what it has read or been given.
Every file is replaced or removed in one step, because `write_atomic` renames a
finished temporary file into place; between any two steps a command may be
killed, and any write may fail (`MaxMishaps`). The server (`withdrawn`,
`activations`) follows `docs/LICENSING-SERVER-BRIEF.md`, section 5, which is the
contract the client is written against; a client secret is the number of the
command that generated it. Left out: expiry (an expired file counts as absent, an
expired answer as lost), reads that fail, and several licences in the system
store. `reported`, `abandoned` and `shared` are history: what `renew` recorded as
revoked, which activations the user was told to release, and which stores had two
commands on them at once.

*Recovery.* `work[w]` is the object a worker is on, the engine's last answer and
the recovery that led to it; `NextStep` is the sequence of conditions in
`delete_with_remediation` and `process_one`. `AlreadyGone` and `Deleted` are one
answer, as are the two remediable categories and all categories nothing is done
about.

*Engines.* `entries[d][n]` is the object that name n stands for in directory d.
A path is one to three names below a directory, and in full, relative or a share's:
with two, what is replaced can be the directory that a call opens, with three also
one further up, on the way to it. `call` is the
call in progress: its step, the object it has open (`fd`), what it has still to go
through and what it has found. A step is one call of the system, with the errors
it may return: POSIX engines open the parent without following links and work
relative to it, and look at each entry again after `readdir`; on Windows every
call resolves the path anew, opens for deletion with the disposition call and its
classic fallback, and attributes, owner and rights are changed by path. `seen`,
`stable` and `detour` are history: what the path stood for during the call, what
was in the directory all along, and whether at some moment of the call the directory
that it opens was to be found behind a link further up. `Engine` begins calls as the walker and `process_one` do: it lists
directories it has discovered, deletes what it has discovered and recovers from
the failure it was told. Security descriptors are one right that an object
withholds or not, and a process that holds a file is protected, another user's,
CurseDelete's own, or none of these.

`NothingBehindALink` leaves one case out, as the code does. `open_dir_nofollow`
(`cursdel-linux/src/sys.rs:25-37`) refuses a link in place of the directory it
opens, and nothing further up: when `Top/a/b/f` is deleted after `a` has been
replaced by a link, what is deleted is the `b/f` behind that link.
`docs/SAFETY_MODEL.md:160-185` and `docs/adr/0006-posix-toctou.md:48-64` describe
this race between ancestors and accept it. The model has it, the run `engine` reaches
it, and the property excuses such a call (`=> detour`); without that excuse the run
finds it violated. It is a disclosed limit of the code and not a finding.

*Command.* `at` is the next check of `main`, in its order; each check goes on or
stops with an exit code. A path is the form it begins with and its parts;
`TargetPath` reads it as text (`Classify`, as `target.rs` does before it looks
at the disk) and as the system does, links followed (`Lookup`). Durations and sizes are
quarters of a unit, so that a fraction has something to round; `Duration::MAX` and
`u64::MAX` are small numbers. A signature is what verifying it says; a certificate
and a licence are records of the claims the code looks at. A directory target ends
in `RunPipeline`, whose outcome is any that `Pipeline` and `Recovery` allow. For a
single object each attempt of `process_one` to delete it is a step (`Delete`), and
so is each of the three recoveries that it considers (`Recover`); another program may
remove the object before, between and after them. A bare name is passed by on POSIX
(`PassedBy`): the engine answers that the object is gone, and it stays.
`ExitCodeTellsTheTruth` leaves that case out, which is the subject of
`engine_bare_name`; without the exclusion the run `command` finds it violated too.
On Windows an answer `Deleted` is taken for what it says (but see the observations
on the classic fallback and on names that are not Unicode). `licensed` is history:
whether the machine's licence allowed remote locks to be closed.

## The runs

| Run | Shows | Instance |
|---|---|---|
| `tracker` | every safety property of the tracker, that it implements `DirectoryCompletion`, and that every directory found is handed over | three nested directories and three leaves, of which every part may or may not be found; one file and two directory workers |
| `pipeline` | an undisturbed run is exact; cancelling is no failure; what is retained stays; the end comes last; the report is true; success means empty; the pipeline implements `DirectoryCompletion` | trees of up to four directories and two leaves, real and simulated, filtered or not; the whole tree with directories not listable and entries stubborn; channels of one |
| `pipeline_live` | every run ends, and its totals add up while the tree changes and the semaphore is resized | one job of each kind, two workers of each kind, one change from outside |
| `semaphore` | permits and wakeups are kept, a counting semaphore is implemented; everybody is served | three workers, two uses each, two resizes, capacities from zero to more than the workers |
| `adaptive` | bounds and absence of drift; the controller settles within one worker of the peak | 80 argument triples with zero, equal, inverted and wide ranges, throughputs less than, about and more than 5% apart; every unimodal curve over seven workers whose neighbours differ by 10% or 33% |
| `recovery` | retries, failures and exit codes | two files, one directory, two workers, every set of options, every answer of the engine at each call, a log of one failure |
| `licence` | the licence stores stay consistent, every seat can be released, revocations hold, nothing usable is lost in between | a Business and another licence, two processes, three commands, one event elsewhere and one mishap; either licence may be installed or revoked at the start |
| `engine` | answers are true, nothing behind a link in place of the directory that a call opens is touched, listings are complete, locks end only holders, remote closes only the object's own opens | a directory in a directory, in the inner one a file and a link, and two directories of the same names elsewhere that links lead to, one of which can take the place of the inner directory and one that of the outer; three kinds of obstacles, three calls and two steps of other programs, on each platform |
| `command` | no root is a target, the filters decide, the exit code tells the truth, a document more never means less, time only takes away | every path of up to three parts over two roots, three links and two dots, on POSIX and Windows; every option with a file, and recoveries also with a bare name; 0 to 2 licence files and certificates, certificates that must be refreshed within a limit, and documents and signatures added at every place |
| `pipeline_hang`, `engine_bare_name`, `command_link` | see Findings | the smallest instances that show them |

Why the bounds are enough to be interesting: two workers of each kind are what a
race needs, and a third file thread is the coordinator; the tree has a directory
in a directory, siblings, and leaves on two levels, so that a directory can be
completed by a leaf, by a directory or by its own listing; channels of one make
every sender block; the log of one failure overflows. Three licence commands are
an activation in each store and one that finds it changed, or two revocations
and what comes between. In `engine` three calls are a listing, a failed deletion
and its recovery, or a recovery between two deletions. One step of others moves
a directory away with a link in its place, so that two of them do it on two
levels, or do it and remove the link again. A path of three names is not listed,
since paths would get longer. Three parts of a path are a link, something behind
it and what leads out again. `MaxMeddling`, `MaxUses`, `MaxResizes`,
`MaxCommands`, `MaxEvents`, `MaxMishaps` and `MaxCalls` bound only the
environment; `MaxActivations` is as many as the events can use up. The theorems
hold for every value of these bounds.

Deadlock is not checked (`CHECK_DEADLOCK FALSE`) where the system stops when it
is done: a run that has been joined, a semaphore nobody uses any more, a command
that has ended, an engine after its last call. That the threads stop only then is
what the liveness properties say.

### Fairness

`Pipeline!Fairness`: each thread (walker, coordinator, each worker) keeps running
when it can. They are threads of the operating system and none of them spins on
another. Nothing is assumed of the operator, of other programs, or of sampling.
`DirectoryTracker!Fairness` adds that every directory found is completed, which
`stream_tree` does on all its paths. `ResizableSemaphore!Fairness` is strong for
taking the mutex (a thread that keeps finding it free gets it, which is what a
mutex of the standard library gives in practice) and weak for everything else;
nobody is assumed to be woken without reason, nor to ask for a permit.
`AdaptiveConvergence` assumes that windows keep coming.

### Findings

Runs that show where the code and what is said of it part:

- `pipeline_hang`: **the pipeline can deadlock.** Directory workers, when they
  complete the last child of a directory, send that directory to the bounded
  channel (4096) that only they drain. With the channel full and all four in
  that send, nobody receives; `run` waits for the root for ever, and Ctrl+C does
  not help. It takes more ready directories than the channel holds and parents
  that become ready through their subdirectories; the run shows it with one
  place and two workers, and `pipeline_live` that it is the only way to hang in
  the instance.
- `engine_bare_name`: **a file named without a directory is reported deleted and
  stays.** The parent of `file.txt` is the empty path. The POSIX engines open the
  parent first, `open("")` fails with `ENOENT`, and `unlink_leaf` takes that for
  the object's own absence: `AlreadyGone`, which counts as deleted, exit code 0.
  `run_single_object` hands the path on as it was typed; a directory is gone
  through by its canonical path and does not have the problem.
- `command_link`: **a link written with a separator or a dot behind it is
  followed.** `cursdel link/` asks `symlink_metadata` of `link/`, which the system
  resolves, so the target is a directory and what the link leads to is deleted;
  `docs/COMMAND_REFERENCE.md:25-27` says that the link itself is. Roots are refused
  all the same, because the canonical path is checked as well.

### Observations without a run

Plain from the text of the code, and so not worth a run each:

- A dry run counts a directory that cannot be listed, and those above it, as
  ones that would be deleted (`pipeline.rs:584`); a real run deletes none of
  them. `docs/JSON_OUTPUT.md:91` says that `dirsDeleted` counts those that would
  be. `CleanRunIsExact` is therefore about trees that can be listed.
- The adaptive controller is sampled in the loop that follows
  `coordinator_loop` (`pipeline.rs:257`), so not while the tree is enumerated,
  although files are deleted from the start.
  `docs/adr/0003-adaptive-workers.md:39` says every 400 ms.
- Recoveries are counted as successful before the delete is retried
  (`pipeline.rs:484`), and stay so when the retry fails;
  `docs/JSON_OUTPUT.md:97-99` says that they were followed by a success.
- A window in which everything failed completes nothing and is a hold
  (`adaptive.rs:113`), where `docs/adr/0003-adaptive-workers.md:43` has the
  controller back off at once.
- After `activate` and `activate --system` the server knows only the second
  secret, so `renew` and `deactivate` are refused in the first store;
  `SeatCanBeReleased` says that one store can still release the seat.
- `clear_revocation` clears the list of its own store (`store.rs:286`): a licence
  recorded as revoked in the other store stays unusable after a successful
  renewal, where `docs/LICENSING.md:149-150` says that it is restored.
- When the server activates an expired subscription, as its contract allows, the
  client drops the answer (`license_cmd.rs:375`): the seat is taken and, when it
  was held already, its secret replaced, while the message says that nothing was
  changed.
- An unreadable list of revocations is replaced by one with a single entry
  (`store.rs:277`).
- Nothing locks a store. Two commands at once on the same one can lose a
  revocation or restore an activation that was released; the properties of
  `LicenseCommands` are about stores on which commands do not meet.
- A controller at its minimum does not look at the error rate and may grow on a
  failing window (`adaptive.rs:119`).
- On the concave curve of the repository's own test with its peak at 10 and a
  range of 1 to 32, the controller cycles for ever between 1 and 23 workers.
  `ConvergesToThePeak` is about ranges of seven.
- Nothing produces `LocalLockUnresolved`, so exit code 4, which
  `docs/EXIT_CODES.md:16` describes, is never returned.
- An activation stored for the user and for the machine is one seat with two
  certificates. When the seat is released and `renew` finds out in one store, the
  certificate in the other keeps Business features on (`license_cmd.rs:577`),
  although `docs/LICENSING.md:151-153` says that they stop.
- `duration.rs:96` compares with `Duration::MAX` as a float, which is one more than
  it is: an age of 2^64 seconds passes and `from_secs_f64` panics, exit code 101.
- The classic fallback of the Windows engine answers `Deleted` when the name stays
  until the last handle is closed; its directory is then not empty.
- `remediate` of the POSIX engines changes the mode of the parent by its path, which
  follows links, and answers `Applied` also when only the object's own mode could be
  changed, which does not help to unlink it.
- `to_verbatim` of the Windows engine replaces what is not Unicode in a name; the
  object is then not found, and reported as already gone.
- The Linux engine strips ` (deleted)` from what `/proc/*/fd` leads to
  (`cursdel-linux/src/lock.rs:166-175`), so a process that has only a deleted file
  open that once was at the same place is ended by `--kill-locks` as well.
- `docs/COMMAND_REFERENCE.md` says that `--destroy` always chooses the number of
  workers itself; in `main.rs` a `--workers N` wins.
- A file from the future has an age of zero. On POSIX `//a/b` is refused as the root
  of a share. Both err on the side of keeping.
- `take_window` reads and clears two counters one after the other, so that a window
  may have a success of one moment and an error of another; the controller is
  checked under all windows.

## The proofs

*Directory tracker* (any tree, any number of threads). `IInv` is the type
invariant and six conjuncts: the entries found form a tree (`TreeInv`); what a
thread's place in its call says of the entry it works on (`CallInv`), and that
no two threads are at the same decisive place with the same entry (`UniqueInv`);
what the map and the counts of messages say of each directory (`DirInv`);
`PendingIsOutstanding`; and the same for `still_present` (`SimulationInv`). The
safety properties alone are not inductive: that a directory is sent once needs
that only one thread is about to send it, which needs that `finalised` is set in
the same section that decides it; that the count is right needs that no
completion comes twice or after the entry is forgotten, which needs to know where
each directory is between being received and being completed. Each action has a
lemma with a step per conjunct; `CountChild` and `CardinalityStep` do the
arithmetic of the counts. `Invariance` puts them together, the theorems on
`HandedOverOnce`, `HandedOverLast`, `NoCompletionIsLost`, `PendingIsOutstanding`
and `SimulationIsExact` follow from it, and `Refinement` shows that each action is
a step of `DirectoryCompletion` or a stutter. `RootIsForgottenLast` is about trees of
any depth. The induction over the depth it calls for is put into the invariant:
`FoundFromRoot` says that every set of found entries without the root has one whose
parent is outside the set, which each registration keeps. A set of tracked
directories without the root would then have a parent that is forgotten before its
child, which `DirInv` excludes. Assumed: `TreeAssumption` (finite
sets, directories and leaves are disjoint, everything but the root has a parent)
and `ThreadAssumption` (the kinds of threads are disjoint).

*Semaphore* (any number of workers, uses and resizes). The conjunction of the
type invariant, `PermitsAreHeld` and `NoWakeupIsLost` is inductive. The last says
that while somebody waits there are at least as many threads awake (on their way
to the mutex, or about to notify) as there are free permits; `GiveBack` frees a
permit and becomes one of them, `NotifyOne` hands its place to the one it wakes.
`Refinement` maps the holders to the workers between `Take` and `GiveBack`.

*Adaptive controller* (all arguments, all throughputs). `DriftInv` says on which
side of where it settled the controller is, by the direction of the next probe,
and that it is off by at most one probe; it needs the step and the worker count
in bounds, and these need only themselves. The step sizes, with their divisions,
are lemmas.

*Recovery* (any objects, workers, options and answers). `WorkIsSound` says what
each worker knows of the object it is on: which recoveries are behind it, that the
answer it goes by is the engine's last, and that a lock which could not be removed
at the other end is the last word. `ObjectsAreSound` says of each object how its answers and recoveries fit, and
`CountsAreExact` adds the counters and the log up over the objects that are
settled. The counts are not inductive without the first two: that a retry is
counted once needs that no recovery is made twice on one object, which needs the
order of the recoveries.

*Licence commands* (any number of processes, licences, commands and mishaps).
`CommandIsSound` says, for each step of each command, what it has read and what
has been written before it; `HalfWayIsSound` that credentials are there before the
certificate is written and after it is removed; `Remembers` that a store on which
commands do not meet has, on disk or in the hands of the one command that rewrites
the list, every revocation reported. `CertificateHasCredentials` and
`RevokedIsNotUsed` hold for stores on which commands do not meet and would not be
inductive without these: a command that cleans up is between two files.
`NeverInterrupted` adds what a command was granted (`WritesWhatIsGranted`): a new
certificate is for the licence of the one that it replaces. For `SeatCanBeReleased`,
`SeatInv` follows each seat from the server to a file: a secret that was not sent
yet is nowhere else (`SecretsInv`), a command that has credentials has those of its
store or new ones, it cleans up only after a seat that is inactive, and a file
is only replaced by credentials that release the same seat or by those of another,
which the user is told about (`StoresInv`); so a seat that is taken is in a store or in the
hands of the command that is about to write it (`SeatsAreHeld`). The first is what
the others need: without it the credentials in a store could release a seat that
the server has just given anew. Assumed: `CommandsAssumption` (the bounds are
numbers, and `None` is no certificate and no credentials).

*Pipeline* (any tree and job, any finite number of file workers, any number of
directory workers, any capacities). The invariant grows in five layers, each proved
inductive with the help of those before it.

1. `TypeInv` types the threads and the channels with what may be in them: what
   reaches the file workers is a leaf that the filters let, and no dry run has any.
2. `StaysInv` says what is still in the tree; that a directory above a retained leaf
   is never deleted follows from `AboveIsClosed`, because one is only removed when it
   is empty. `CountsInv` says where each file scanned is: settled, at hand, in the
   channel, or with a worker (`FilesAddUp`), that permits are held by deletions
   (`PermitsAreHeld`), and that a file worker leaves only when the channel is closed
   and empty (`LeavingIsSound`), without which the files in the channel at the end
   would be unaccounted for. Steps that neither take up a file nor put one down are
   one lemma (`QuietMove`).
3. `OrderInv` says where every entry is. Events reach the coordinator in an order
   that the tracker can follow (`EventsInv`: a directory before what is in it, its end
   after that, nothing twice), which needs to know what is on the walker's stack and
   in the listing at hand (`StackInv`, `ListingInv`). An entry that was found is in
   one place at a time, in the hands of one thread, in one channel or resolved
   (`ThreadsInv`, `UniqueInv`, `FilesQueued`, `DirsQueued`), and the tracker's map agrees
   with that: the pending count is the number of children that are not resolved, and
   a directory is sent once, after its listing and its last child (`DirsInv`).
   Here the messages of two producers, the listing and the completions, meet; the
   count alone is not inductive, because a decrement is right only if the child
   was registered before and is not completed twice, wherever it has been in
   between. From this layer follow `Refinement` (every step of the pipeline is a step
   of `DirectoryCompletion` or a stutter) and `RootIsDoneLast`.
4. `TallyInv` relates three things: what is gone from the tree, what *had its turn*
   (a leaf that is completed, a directory that the tracker has forgotten), and what
   was counted. Only what had its turn is gone (`PresentInv`), the counters are the
   numbers of what is gone (`GoneInv`), each directory scanned is in the map or has been
   counted (`DirsAddUp`), a directory listed without error had all of its entries
   found (`CompleteInv`), in a tree in which nothing refuses nothing fails (`FailInv`),
   and without a failure what is left of those that had their turn is what is to
   remain (`RemainsInv`). The last step is `AllHadTheirTurn`: when the run is done
   everything in the tree was found and had its turn. It gives `ReportIsTruthful`,
   `AccountsBalance`, `SuccessMeansEmpty` and `CancelIsNoFailure`.
5. `SimulationInv` is for the dry run, where nothing in the tree shows what would be
   gone. What the counters say is the number of entries that had their turn and are
   not to remain, and the flag `still_present` of a call, `simulated_non_empty` of a
   message and the mark of a directory in the map each say whether the entry, or
   something in the directory, is to remain. Each of them is computed from
   another, so that they are inductive only together. It gives `CleanRunIsExact`.

What is said of the tree holds as long as no other program changes it, as in the
properties. Assumed: `PipelineAssumption`: leaves and directories are disjoint,
everything but the root has a parent and lies under the root, the threads are
disjoint, capacities are positive, and a job's tree is closed under parents.

*Command* (any file system, command line, attributes of a file, machine and additions
to it). `IInv` says which parts of the line have been checked by the step that is
next, that the filters are those that were typed, that the target and what was
handed over contain no root, and how the handing over, the failure met last and the
exit code fit. The first is what makes `FiltersDecide` inductive: that a verdict means
what was typed needs that the texts it was computed from are among the accepted
ones. The rest are lemmas about operators. `TargetIsNoRoot`: a root that a path
names is no link, so it is among what the path leads to, and however
`fs::canonicalize` spells it, it is read as a root. `SizeIsRounded` and
`FiltersMeanWhatWasTyped`: rounding to a byte and clamping at `u64::MAX` move no file
to the other side by more than half a byte. `EditionIsHighest`: resolve's choice
exists and is the highest. From it, `NoLower` compares two machines, and
`LaterIsNoHigher`, `CandidateIsNoLoss`, `CertificateIsNoLoss` and
`SignatureIsNoLoss` apply it. The last compares the order in which `open` meets a
document's signatures with and without the one that is inserted; that no signature
ever lowers the edition would be false, since a ninth one, a second one by the same
key and a usable one that does not verify make the whole document invalid
(`envelope.rs:140-150`, `171-187`), which is why `MoreNeverMeansLess` names them.
`LicenceIsSound` says that remote locks are not handed over before a licence for
them was found. Assumed: `TargetAssumption` (the roots are
directories without names of their own, no link is a directory),
`FilterAssumption` (units are positive), `CommandAssumption` (numbers are natural,
every file is smaller than `u64::MAX` and has at most one time of a kind, machines and
documents have the shape the parser gives them) and `ResolutionAssumption`.

*Engines* (any files, directories and links in `Top` and in the directories in it, any
rights, any meddling between two steps of a call, any number of calls, on each
platform). What makes an answer true is what was seen on the way: a call is several
system calls, and between any two of them another program can rename, replace or
remove what the path stood for.

- `EntriesInv` keeps the shape of the tree: whatever is moved, a directory that is
  outside is only in one that is outside, and one that is not only in one that is not,
  so that only a link leads from one to the other; and while nobody meddles everything
  is at home. `CallInv` says which step can belong to which call and that
  what the path stands for now is among what it has stood for.
- `DeleteInv` says what the handle is at each step: on POSIX the parent that was opened,
  with an entry that the path has stood for; on Windows the object itself. `WasObject`
  and `WasEntry` speak of the call's history, which only grows, so that an answer
  given from an old handle is still the truth of some moment of the call.
  `AnswersAreTrue` follows from it. An `unlinkat` that finds nothing says so of the
  directory that was opened, which need not be where the path leads by then; in that
  case the path itself has stood for nothing at some moment (`WasNothing`).
- `ListInv` splits what was there all along into what is still to be read, what is
  being looked up and what was told exactly once; `ListingIsComplete` is its last case.
- `LinksInv` is `NothingBehindALink` with what it takes: what the call has open is
  not outside (`CallInside`) unless the directory that it opened has been behind a link
  further up (`detour`), and, on Windows, where paths are followed by the system at
  every call, every path known or in use is free of links (`KnownStraight`,
  `CallStraight`) as long as nobody meddles.
- `LockInv` and `CloseInv` say that signals go to holders that are not protected, with
  leave, and that what is closed at the other end is what was asked for. In the
  second, `Matches` compares names from the end of the path; that it cannot take
  another share's file for this one needs that the drive's letter with its colon is the
  first component of a path and nowhere else.

Hypotheses of the theorems: `NoBareNames` for `AnswersAreTrue`, because without it
the theorem is false (run `engine_bare_name`); `UnicodeNames` for that and
`NothingBehindALink`, because `to_verbatim` goes through `to_string_lossy` and a name
that is not Unicode becomes another name. Both hold in the run `engine`. Assumed of the
constants: `FileSystemAssumption` (directories, files and links are disjoint, every
object but `Top` has a home, the processes are finite), `WindowsAssumption` (names
can be lowered, the share has a root on a drive, a drive occurs only at the front)
and `EngineAssumption` (`Top` is not outside, and a directory's home is outside exactly
if the directory is).

Only model-checked: everything about liveness (`Terminates`,
`EveryDirectoryIsHandedOver` and convergence; no temporal reasoning of that kind is
available in the prover).

## Plan

Done: everything above. Left, in this order:

1. Licence commands that meet on one store. Nothing in the code keeps them apart, so
   the properties to state are those of a lock that is not there yet.
2. `take_window` against workers that record meanwhile.

## Not modelled

Glob matching, JSON, cryptography, HTTP and the system calls behind the engines
are libraries' or the platform's: their answers appear as nondeterministic
choices. Text and JSON output change no state. The device's identity is one hash
of what the platform says (`device.rs`); the tables of features, addresses and keys
in `cursdel-policy`, the re-exports of the crate roots and the signers in
`testing.rs` have no behaviour to check. Packaging, continuous integration and
the benchmarks are outside the program.
