----------------------------- MODULE EngineCall -----------------------------
(***************************************************************************)
(* The contract of a platform engine (cursdel-core/src/engine.rs): the     *)
(* calls a worker makes, the answers it may get, and what of a call is     *)
(* remembered until the next one.  PosixEngine and WindowsEngine take the  *)
(* steps of the calls.                                                     *)
(***************************************************************************)
EXTENDS FileSystem

CONSTANTS
    Ours,        \* the process of CurseDelete itself
    Protected,   \* processes the system needs: init and kthreadd, or those whose
                 \* name is on the list or that are critical to Windows
    Foreign,     \* processes this user may not end, or not even look at
    Owned,       \* what this user owns; the rest is not his to change
    Outside      \* directories that only links lead to

VARIABLES
    platform,    \* "linux", "macos" or "windows"
    old_driver,  \* Windows: the file system knows no FileDispositionInfoEx
    pending,     \* Windows: entries that go once nobody has their object open
    opens,       \* Windows: what clients of the file server have open
    call,        \* the call in progress, or the last one
    seen,        \* history: the entries that the path of the call has stood for since its
                 \* start, and what has been in them since: <<directory, name, object or
                 \* None>>; or None, where it led to no directory
    stable,      \* history: what has been in the listed directory all along
    detour       \* history: whether the directory that the call opens has been
                 \* behind a link since its start

engine == <<platform, old_driver, pending, opens, call, seen, stable, detour>>

\* DeleteOptions
Options == [allow_remediation : BOOLEAN, kill_locks : BOOLEAN, close_remote_locks : BOOLEAN]
NoOptions == [allow_remediation |-> FALSE, kill_locks |-> FALSE, close_remote_locks |-> FALSE]

\* DeleteOutcome, RemediationOutcome and LockResolution, and a listing.  Only a
\* failed delete has a category, and only a listing has children.
Answer(kind) == [kind |-> kind, category |-> "none", children |-> {}]
Failed(category) == [Answer("failed") EXCEPT !.category = category]
Listing(children) == [Answer("listed") EXCEPT !.children = children]

\* A call is about to take the step `at`; `fd` is the object it has open, `rest`
\* what it has still to go through, `found` what it has found, and `done` what
\* it has brought about: entries removed, processes ended, rights changed.
NoCall == [at |-> "idle", op |-> "none", path |-> [names |-> <<None>>, form |-> "full"],
           as_dir |-> FALSE, opts |-> NoOptions, fd |-> None, rest |-> {}, found |-> {},
           done |-> {}, answer |-> Answer("none")]

InProgress == call.at # "idle"

\* PlatformEngine and DirLister: a call begins with the step of its name.  What
\* remediate is told of the failure is the last answer.
Calls == {"delete", "remediate", "resolve_local_lock", "resolve_remote_lock", "list_children"}

Begin(op, path, as_dir, opts) ==
    call' = [NoCall EXCEPT !.at = op, !.op = op, !.path = path, !.as_dir = as_dir,
                           !.opts = opts, !.answer = call.answer]

Return(answer) == call' = [call EXCEPT !.at = "idle", !.answer = answer]
ReturnAfter(effect, answer) ==
    call' = [call EXCEPT !.at = "idle", !.answer = answer, !.done = @ \cup {effect}]

\* What the path stands for: the entry and the object in it.  POSIX engines take
\* the last directory of the path for itself, Windows follows links up to there.
Parent(path) == IF platform = "windows" THEN ParentThrough(path) ELSE ParentItself(path)

Meaning(path) ==
    IF Parent(path) \notin Dirs THEN None
    ELSE LET e == <<Parent(path), LeafName(path)>> IN <<e[1], e[2], At(e)>>

\* The directory that a call opens: the one that is listed, or the parent.  Its last
\* name may be a link, and there may be one in front of it.
Opened(c) ==
    IF c.op = "list_children" THEN c.path.names ELSE SubSeq(c.path.names, 1, Len(c.path.names) - 1)

BehindALink(names) == Len(names) > 1 /\ entries[Top][names[1]] \in Links

\* What a call records of an entry that it removes.
Removing(e) == <<e[1], e[2], At(e)>>

\* The history of a call, updated at every step of anybody.
Observe ==
    /\ seen' = IF ~ InProgress /\ call'.at = "idle" THEN seen
               ELSE LET before == IF InProgress THEN seen ELSE {}
                        now(s) == <<s[1], s[2], entries'[s[1]][s[2]]>>
                    IN  before \cup {now(s) : s \in before \ {None}} \cup {Meaning(call.path)'}
    /\ detour' = IF ~ InProgress /\ call'.at = "idle" THEN detour
                 ELSE (InProgress /\ detour) \/ BehindALink(Opened(call))'
    /\ LET inside(d) == {<<n, entries'[d][n]>> : n \in Names} \ {<<n, None>> : n \in Names}
       IN  stable' = IF call'.op # "list_children" \/ call'.fd = None THEN {}
                     ELSE IF call.fd = None THEN inside(call'.fd)
                     ELSE IF InProgress THEN stable \cap inside(call'.fd) ELSE stable
=============================================================================
