----------------------------- MODULE PosixEngine -----------------------------
(***************************************************************************)
(* The Linux and macOS engines: cursdel-linux/src and cursdel-macos/src.   *)
(* They are the same code but for the holders of a file (/proc here, lsof  *)
(* there), the protected processes, and what chmod says of a link.  Every  *)
(* system call is a step of its own; other programs act in between.        *)
(***************************************************************************)
EXTENDS EngineCall

-----------------------------------------------------------------------------
(* errno_map.rs and sys.rs *)

Categorize(errno) ==
    CASE errno \in {"EACCES", "EPERM"}  -> "access_denied"
      [] errno \in {"EBUSY", "ETXTBSY"} -> "sharing_violation"
      [] errno = "ENOENT"               -> "not_found"
      [] errno = "ENOTEMPTY"            -> "not_empty"
      [] errno = "ELOOP"                -> "reparse_point_refused"
      [] errno = "ENAMETOOLONG"         -> "path_too_long"
      [] OTHER                          -> "io"

\* open_dir_nofollow: what open says of a directory's path.
OpenErrors(node) ==
    CASE node = None   -> {"ENOENT"}
      [] node \in Links -> {"ELOOP", "ENOTDIR"}
      [] node \in Files -> {"ENOTDIR"}
      [] OTHER          -> {}

\* The parent of a bare name is the empty path, which open does not find.
OpenParent(path) ==
    IF path.form = "relative" /\ Len(path.names) = 1 THEN None ELSE ParentItself(path)

-----------------------------------------------------------------------------
(* ops.rs: unlink_leaf and unlink_relative *)

\* Mutant: a parent that cannot be opened has taken the object with it.
AnswerToGone(errno) ==
    IF errno \in {"ENOENT", "ENOTDIR"} THEN Answer("already_gone")
    ELSE Failed(Categorize(errno))

AnswerTo(errno) ==
    IF errno = "ENOENT" THEN Answer("already_gone") ELSE Failed(Categorize(errno))

\* Mutant: the parent is opened through a link.
UnlinkOpenThrough ==
    /\ call.at = "delete"
    /\ LET parent == ParentThrough(call.path)
       IN  IF OpenErrors(parent) = {}
           THEN call' = [call EXCEPT !.at = "unlink", !.fd = parent]
           ELSE \E errno \in OpenErrors(parent) : Return(AnswerTo(errno))
    /\ UNCHANGED files

UnlinkOpen ==
    /\ call.at = "delete"
    /\ LET parent == OpenParent(call.path)
       IN  IF OpenErrors(parent) = {}
           THEN call' = [call EXCEPT !.at = "unlink", !.fd = parent]
           ELSE \E errno \in OpenErrors(parent) : Return(AnswerTo(errno))
    /\ UNCHANGED files

\* Why unlinkat may refuse: in the order in which the kernel looks.
UnlinkErrors(entry, as_dir) ==
    LET o == At(entry)
    IN  IF o = None                        THEN {"ENOENT"}
        ELSE IF entry[1] \in barred        THEN {"EACCES", "EPERM"}
        ELSE IF o \in Dirs /\ ~ as_dir     THEN {IF platform = "macos" THEN "EPERM" ELSE "EISDIR"}
        ELSE IF o \notin Dirs /\ as_dir    THEN {"ENOTDIR"}
        ELSE IF o \in Dirs /\ ~ Empty(o)   THEN {"ENOTEMPTY"}
        ELSE IF Held(o)                    THEN {"EBUSY", "none"}
        ELSE {"none"}

Unlinkat ==
    /\ call.at = "unlink"
    /\ LET entry == <<call.fd, LeafName(call.path)>>
       IN  \E errno \in UnlinkErrors(entry, call.as_dir) :
              IF errno = "none"
              THEN /\ Erase(entry)
                   /\ ReturnAfter(Removing(entry), Answer("deleted"))
              ELSE /\ Return(AnswerTo(errno))
                   /\ UNCHANGED entries
    /\ UNCHANGED <<barred, readonly, holders, meddled>>

-----------------------------------------------------------------------------
(* ops.rs: remediate.  The object's own mode first, its parent's next; one  *)
(* of the two is enough.  chmod follows links.                              *)

\* glibc cannot change the mode of a link.
MayChange(o) == o \in Owned /\ ~ (o \in Links /\ platform = "linux")

RemediateObject ==
    /\ call.at = "remediate"
    /\ LET parent == OpenParent(call.path)
           o == Within(parent, LeafName(call.path))
       IN  IF parent \notin Dirs
           THEN Return(Answer("not_applicable"))
           ELSE call' = [call EXCEPT !.at = "change_parent",
                                     !.done = IF MayChange(o) THEN {<<"mode", o>>} ELSE {}]
    /\ UNCHANGED files

RemediateParent ==
    /\ call.at = "change_parent"
    /\ LET parent == ParentThrough(call.path)
           parent_ok == parent \in Owned
       IN  /\ IF parent_ok
              THEN ReturnAfter(<<"mode", parent>>, Answer("applied"))
              ELSE Return(Answer(IF call.done # {} THEN "applied" ELSE "failed"))
           /\ barred' = IF parent_ok THEN barred \ {parent} ELSE barred
    /\ UNCHANGED <<entries, readonly, holders, meddled>>

-----------------------------------------------------------------------------
(* lock.rs: resolve_local_lock *)

\* find_holding_pids: what the path leads to, links followed.
Canonical(path) ==
    Follow(Within(ParentThrough(path), LeafName(path)))

\* fd_target_matches compares names, so that an open file which was deleted is taken
\* for what is at its old place now, even for nothing.
Namesakes(path) ==
    LET target == Canonical(path)
        place == IF target # None THEN {Home[target]}
                 ELSE IF path.form = "full" /\ Within(Top, path.names[1]) \notin Links
                 THEN EntryIn(ParentItself(path), path) ELSE {}
    IN  ({target} \ {None}) \cup {o \in Nodes \ (Linked \cup {Top}) : Home[o] \in place}

\* Processes of other users cannot be looked into.
HoldersOf(objects) ==
    {p \in Processes \ Foreign : \E o \in objects : <<p, o>> \in holders}

\* lsof reports on the object itself.
MacHolders(path) == HoldersOf({Canonical(path)} \ {None})

FindHoldingPids(path) ==
    IF platform = "linux" THEN HoldersOf(Namesakes(path)) ELSE MacHolders(path)

FindHolders ==
    /\ call.at = "resolve_local_lock"
    /\ LET pids == FindHoldingPids(call.path)
       IN  IF ~ call.opts.kill_locks THEN Return(Answer("unsupported"))
           ELSE \/ Return(Answer("unsupported"))    \* no /proc, or no lsof
                \/ IF pids = {} THEN Return(Answer("failed"))
                   ELSE call' = [call EXCEPT !.at = "signal", !.rest = pids, !.found = pids]
    /\ UNCHANGED files

\* Mutant: the process itself is no exception.
IsInitOnly(p) == p \in Protected

\* is_protected_pid
IsProtectedPid(p) == p \in Protected \cup {Ours}

\* kill fails when the process has gone, or belongs to someone else.
Signal(p) ==
    /\ call.at = "signal" /\ p \in call.rest
    /\ \/ call' = [call EXCEPT !.rest = @ \ {p}]
       \/ /\ ~ IsProtectedPid(p)
          /\ call' = [call EXCEPT !.rest = @ \ {p}, !.done = @ \cup {<<"signal", p>>}]
    /\ UNCHANGED files

\* After the loop, and a moment for the processes to let go.
Signalled ==
    /\ call.at = "signal" /\ call.rest = {}
    /\ Return(Answer(IF call.done = {} THEN "failed" ELSE "resolved"))
    /\ UNCHANGED files

\* resolve_remote_lock
NoRemoteLocks ==
    /\ call.at = "resolve_remote_lock"
    /\ Return(Answer("unsupported"))
    /\ UNCHANGED files

-----------------------------------------------------------------------------
(* dirlist.rs: list_children.  The order of readdir is arbitrary, and each   *)
(* entry is looked at when its turn comes.                                  *)

OpenDir ==
    /\ call.at = "list_children"
    /\ LET dir == Within(ParentThrough(call.path), LeafName(call.path))
       IN  \/ /\ OpenErrors(dir) # {}
              /\ Return(Answer("failed"))
           \/ /\ OpenErrors(dir) = {}
              /\ call' = [call EXCEPT !.at = "read", !.fd = dir, !.rest = Names]
    /\ UNCHANGED files

\* Mutant: a link is what it leads to.
ChildThrough(n, o) ==
    [name |-> n, is_reparse_point |-> FALSE,
     is_dir |-> o \in Dirs \/ (o \in Links /\ Destination[o] \in Dirs)]

Child(n, o) == [name |-> n, is_dir |-> o \in Dirs, is_reparse_point |-> o \in Links]

\* One entry.  The directory type of readdir is trusted, every other needs a
\* look, and by then the entry may be gone.
ReadEntry(n) ==
    /\ call.at = "read" /\ n \in call.rest
    /\ LET o == entries[call.fd][n]
       IN  \/ /\ o \in Dirs \cup {None}
              /\ call' = [call EXCEPT !.rest = @ \ {n},
                              !.found = IF o = None THEN @ ELSE @ \cup {Child(n, o)}]
           \/ /\ o # None    \* DT_UNKNOWN, or anything but a directory
              /\ call' = [call EXCEPT !.at = "lookup", !.rest = @ \ {n}, !.done = {<<"name", n>>}]
    /\ UNCHANGED files

\* lookup_metadata: an entry that is gone is passed over, any other error ends
\* the listing.
LookupMetadata ==
    /\ call.at = "lookup"
    /\ \E entry \in call.done :
          LET n == entry[2]
              o == entries[call.fd][n]
          IN  \/ call' = [call EXCEPT !.at = "read", !.done = {},
                              !.found = IF o = None THEN @ ELSE @ \cup {Child(n, o)}]
              \/ /\ call.fd \in barred
                 /\ call' = [call EXCEPT !.at = "idle", !.done = {}, !.answer = Answer("failed")]
    /\ UNCHANGED files

\* The end of the stream, or an error of readdir in the middle.
EndOfStream ==
    /\ call.at = "read"
    /\ \/ call.rest = {} /\ Return(Listing(call.found))
       \/ call.fd \in barred /\ Return(Answer("failed"))
    /\ UNCHANGED files

-----------------------------------------------------------------------------
(* The calls, on each of the two platforms *)

Delete == UnlinkOpen \/ Unlinkat
Remediate == RemediateObject \/ RemediateParent
ResolveLocalLock == FindHolders \/ (\E p \in Processes : Signal(p)) \/ Signalled
ListChildren == OpenDir \/ (\E n \in Names : ReadEntry(n)) \/ LookupMetadata \/ EndOfStream

LinuxDelete           == platform = "linux" /\ Delete
LinuxRemediate        == platform = "linux" /\ Remediate
LinuxResolveLocalLock == platform = "linux" /\ ResolveLocalLock
LinuxListChildren     == platform = "linux" /\ ListChildren

MacDelete             == platform = "macos" /\ Delete
MacRemediate          == platform = "macos" /\ Remediate
MacResolveLocalLock   == platform = "macos" /\ ResolveLocalLock
MacListChildren       == platform = "macos" /\ ListChildren

LinuxStep == LinuxDelete \/ LinuxRemediate \/ LinuxResolveLocalLock \/ LinuxListChildren
MacStep   == MacDelete \/ MacRemediate \/ MacResolveLocalLock \/ MacListChildren

PosixStep == LinuxStep \/ MacStep \/ NoRemoteLocks
=============================================================================
