------------------------------- MODULE Engine -------------------------------
(***************************************************************************)
(* One worker and the engine of its platform, with other programs at work  *)
(* in the same directories: the worker lists what it has discovered as a   *)
(* directory, deletes what it has discovered, and recovers from failures   *)
(* as process_one does (Recovery.tla).                                     *)
(***************************************************************************)
EXTENDS PosixEngine, WindowsEngine

CONSTANTS
    Platforms,
    Spare,           \* objects that are not there at first
    Forms,           \* how the user may have named the target on each platform
    Obstacles,       \* which objects may be barred, read-only or open at first
    MaxCalls         \* bound on the calls of the engine

\* What is in a directory that only links lead to has no other way to it.
ASSUME EngineAssumption ==
    /\ Outside \subseteq Dirs \ {Top}
    /\ \A d \in Dirs \ (Spare \cup {Top}) : d \in Outside <=> Home[d][1] \in Outside

VARIABLES
    known,           \* the paths discovered, and whether as directories
    calls            \* how many calls there have been

engineVars == <<files, engine, known, calls>>

Known(path, is_dir, is_link) == [path |-> path, is_dir |-> is_dir, is_link |-> is_link]

PathOf(names, form) == [names |-> names, form |-> form]

\* The walker has listed what is below Top; or the user has named an object there.
FirstKnown(p, there, form) ==
    LET sort(names, o) == Known(PathOf(names, form),
                                o \in Dirs \/ (p = "windows" /\ IsDirectory(o)), o \in Links)
        below(names, d) == {sort(Append(names, n), there[d][n]) :
                               n \in {n \in Names : there[d][n] # None}}
        dirs(d) == {n \in Names : there[d][n] \in Dirs}
    IN  UNION ({below(<<>>, Top)}
               \cup {below(<<m>>, there[Top][m]) : m \in dirs(Top)}
               \cup {below(<<m[1], m[2]>>, there[there[Top][m[1]]][m[2]]) :
                        m \in {m \in dirs(Top) \X Names : m[2] \in dirs(there[Top][m[1]])}})

Init ==
    /\ platform \in Platforms
    /\ old_driver \in IF platform = "windows" THEN BOOLEAN ELSE {FALSE}
    /\ entries = EntriesWithout(Spare)
    /\ \E obstacle \in Obstacles :
          /\ barred = IF platform = "windows" THEN obstacle.barred ELSE obstacle.barred \cap Dirs
          /\ readonly = IF platform = "windows" THEN obstacle.readonly ELSE {}
          /\ holders = obstacle.holders
    /\ pending = {} /\ opens = Opens /\ meddled = 0
    /\ call = NoCall /\ calls = 0
    /\ seen = {} /\ stable = {} /\ detour = FALSE
    /\ \E form \in Forms[platform] : known = FirstKnown(platform, entries, form)

\* What the worker does next: after a failure the recovery for it, after a
\* recovery the delete once more.
MayBegin(op, k, opts) ==
    LET failure == IF call.op = "delete" /\ call.path = k.path THEN call.answer.category
                   ELSE "none"
    IN  CASE op = "list_children" -> /\ k.is_dir /\ ~ k.is_link /\ opts = NoOptions
                                     /\ Len(k.path.names) < 3    \* as long as paths get
          [] op = "delete"        -> opts = NoOptions
          [] op = "remediate"     -> /\ failure \in {"access_denied", "reparse_point_refused"}
                                     /\ opts = [NoOptions EXCEPT !.allow_remediation = TRUE]
          [] op = "resolve_local_lock" -> /\ failure = "sharing_violation"
                                          /\ \E on \in BOOLEAN : opts = [NoOptions EXCEPT !.kill_locks = on]
          [] op = "resolve_remote_lock" -> /\ failure = "sharing_violation"
                                           /\ \E on \in BOOLEAN : opts = [NoOptions EXCEPT !.close_remote_locks = on]

BeginCall ==
    /\ ~ InProgress /\ calls < MaxCalls
    /\ calls' = calls + 1
    /\ \E op \in Calls, k \in known, opts \in Options :
          /\ MayBegin(op, k, opts)
          /\ Begin(op, k.path, k.is_dir, opts)
    /\ UNCHANGED <<files, platform, old_driver, pending, opens, known>>

\* The walker's next paths are those of the listing.
Discover ==
    known' = IF call'.at = "idle" /\ InProgress /\ call'.answer.kind = "listed"
             THEN known \cup {Known(PathOf(Append(call.path.names, c.name), call.path.form),
                                    c.is_dir, c.is_reparse_point) : c \in call'.answer.children}
             ELSE known

EngineStep ==
    /\ \/ platform # "windows" /\ PosixStep /\ UNCHANGED <<pending, opens>>
       \/ platform = "windows" /\ WindowsStep
    /\ Discover
    /\ UNCHANGED <<platform, old_driver, calls>>

\* Nothing is looked at after the last call.
Others ==
    /\ InProgress \/ calls < MaxCalls
    /\ Meddling
    /\ UNCHANGED <<platform, old_driver, pending, opens, call, known, calls>>

Next == (BeginCall \/ EngineStep \/ Others) /\ Observe

Spec == Init /\ [][Next]_engineVars

-----------------------------------------------------------------------------
(* Properties *)

Returned(op) == ~ InProgress /\ call.op = op

\* engine.rs:118-125: a delete that says Deleted has removed one object, which the
\* path stood for while it ran; one that says AlreadyGone found nothing in an entry
\* that the path stood for, or no directory to look in; and one that failed has removed
\* nothing.
AnswersAreTrue ==
    Returned("delete") =>
        \/ /\ call.answer.kind = "deleted"
           /\ \E r \in call.done :
                 /\ call.done = {r}
                 /\ \E s \in seen \ {None} : (s[1] = r[1] /\ s[2] = r[2]) \/ s[3] = r[3]
        \/ /\ call.answer.kind = "already_gone"
           /\ call.done = {}
           /\ \E s \in seen : s = None \/ s[3] = None
        \/ /\ call.answer.kind = "failed"
           /\ call.done = {}
           /\ call.answer.category # "not_found"
           /\ call.answer.category = "not_empty" => call.as_dir

\* The call lists what is Outside, or has removed something there.
Strays ==
    \/ call.op = "list_children" /\ call.fd \in Outside
    \/ call.op = "delete" /\ \E r \in call.done : r[1] \in Outside

\* SAFETY_MODEL.md:156-163: on POSIX, when the directory that a call opens, the one it
\* lists or the parent of what it deletes, is replaced by a link, nothing of what the
\* link leads to is listed or deleted.  A directory further up in the path may be
\* replaced all the same, and then the call goes where that link leads (`detour`;
\* SAFETY_MODEL.md:160-185 and ADR 0006 leave this open).  Windows follows links in
\* front of the last name (ADR 0007), so there this is claimed only for links that
\* were there all along.
NothingBehindALink ==
    /\ platform # "windows" /\ Strays => detour
    /\ platform = "windows" /\ meddled = 0 => ~ Strays

\* dirlist.rs: a listing that succeeds has everything that was in the directory all
\* along, once, and for what it is: a link is never taken for a directory to descend
\* into.
ListingIsComplete ==
    Returned("list_children") /\ call.answer.kind = "listed" =>
        \A entry \in stable :
            \E c \in call.answer.children :
                /\ {d \in call.answer.children : d.name = entry[1]} = {c}
                /\ c.name = entry[1]
                /\ (c.is_dir /\ ~ c.is_reparse_point) <=> entry[2] \in Dirs
                /\ c.is_reparse_point <=> entry[2] \in Links

\* lock.rs: only processes that were found to have the object open are ended, never
\* CurseDelete itself or one the system needs, and none at all if the answer is not
\* that the lock is resolved.
LocksEndOnlyHolders ==
    Returned("resolve_local_lock") =>
        LET ended == {p \in Processes : <<"signal", p>> \in call.done}
        IN  /\ ended \subseteq call.found \ (Protected \cup {Ours})
            /\ call.answer.kind = "resolved" <=> ended # {}
            /\ ended # {} => call.opts.kill_locks
            /\ Cardinality(call.done) = Cardinality(ended)

\* lock.rs (windows):314-320: only opens of the object itself are closed, not those of
\* an object of the same name in another share of the server.
ClosesOnlyItsOwn ==
    Returned("resolve_remote_lock") =>
        LET closed == {id \in Opens : <<"close", id>> \in call.done}
        IN  /\ \A id \in closed :
                  Folded(OpenPath[id]) = Folded(ShareRoot \o call.path.names)
            /\ call.answer.kind = "resolved" <=> closed # {}
            /\ opens = opens \ closed
=============================================================================
