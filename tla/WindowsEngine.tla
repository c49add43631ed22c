---------------------------- MODULE WindowsEngine ----------------------------
(***************************************************************************)
(* The Windows engine: cursdel-windows/src.  A path is resolved anew by    *)
(* every call of the system, links on the way followed and the last name   *)
(* never; other programs act in between.                                   *)
(***************************************************************************)
EXTENDS EngineCall, SequencesExt

CONSTANTS
    ShareRoot,   \* the server's own path of the share in a UNC path
    Opens,       \* what other clients may have open on the server
    OpenPath,    \* the server's path of each
    Lower,       \* the lower case of a path component
    Lossy        \* what to_string_lossy makes of a name

\* A path of the server begins with a drive, and a colon is in no other name.
ASSUME WindowsAssumption ==
    /\ Names \subseteq DOMAIN Lower
    /\ ShareRoot \in Seq(DOMAIN Lower) /\ ShareRoot # <<>>
    /\ OpenPath \in [Opens -> Seq(DOMAIN Lower)]
    /\ \A id \in Opens : \A i \in DOMAIN OpenPath[id] :
          Lower[OpenPath[id][i]] = Lower[ShareRoot[1]] => i = 1

-----------------------------------------------------------------------------
(* errmap.rs *)

Category(code) ==
    CASE code = 5                      -> "access_denied"
      [] code \in {32, 33}             -> "sharing_violation"
      [] code \in {2, 3}               -> "not_found"
      [] code = 145                    -> "not_empty"
      [] code \in {111, 206}           -> "path_too_long"
      [] code \in {4393, 4394, 4395}   -> "reparse_point_refused"
      [] OTHER                         -> "io"

IsNotFound(code) == code \in {2, 3}

\* sys.rs, to_verbatim: a relative path becomes absolute, and names that are not
\* Unicode are replaced.
Verbatim(path) ==
    [path EXCEPT !.names = [i \in DOMAIN @ |-> Lossy[@[i]]],
                 !.form = IF @ = "relative" THEN "full" ELSE @]

Entry(path) == LET v == Verbatim(path) IN EntryIn(ParentThrough(v), v)
Object(path) == IF Entry(path) = {} THEN None ELSE At(CHOOSE e \in Entry(path) : TRUE)

\* A delete is pending.
Going(path) == Entry(path) # {} /\ Entry(path) \subseteq pending

\* Directories, and links to directories, have the directory attribute.
IsDirectory(o) == o \in Dirs \/ (o \in Links /\ Destination[o] \in Dirs)

-----------------------------------------------------------------------------
(* ops.rs: delete_object *)

NotThere(path) == IF Entry(path) = {} THEN {3} ELSE {2}

\* CreateFileW for DELETE; without backup semantics a directory cannot be opened.
OpenCodes(path, as_dir) ==
    LET o == Object(path)
    IN  IF o = None                          THEN NotThere(path)
        ELSE IF o \in barred \/ Going(path)  THEN {5}
        ELSE IF IsDirectory(o) /\ ~ as_dir   THEN {5}
        ELSE IF Held(o)                      THEN {0, 32}
        ELSE {0}

\* disposition_delete, first half: every error but "not found" goes on to the
\* classic calls.
DispositionOpen ==
    /\ call.at = "delete"
    /\ \E code \in OpenCodes(call.path, call.as_dir) :
          CASE code = 0        -> call' = [call EXCEPT !.at = "dispose", !.fd = Object(call.path)]
            [] IsNotFound(code) -> Return(Answer("already_gone"))
            [] OTHER           -> call' = [call EXCEPT !.at = "classic"]
    /\ UNCHANGED <<files, pending, opens>>

\* Second half: the object goes from wherever it is by now.
Dispose ==
    /\ call.at = "dispose"
    /\ LET o == call.fd
           where == {e \in Dirs \X Names : At(e) = o}
       IN  IF old_driver \/ where = {} \/ (o \in Dirs /\ ~ Empty(o))
           THEN /\ call' = [call EXCEPT !.at = "classic"]
                /\ UNCHANGED entries
           ELSE \E e \in where :
                   /\ Erase(e)
                   /\ ReturnAfter(Removing(e), Answer("deleted"))
    /\ UNCHANGED <<barred, readonly, holders, meddled, pending, opens>>

\* DeleteFileW and RemoveDirectoryW.
ClassicCodes(path, as_dir) ==
    LET o == Object(path)
    IN  IF o = None                                     THEN NotThere(path)
        ELSE IF o \in barred \cup readonly \/ Going(path) THEN {5}
        ELSE IF as_dir /\ ~ IsDirectory(o)              THEN {267}
        ELSE IF ~ as_dir /\ IsDirectory(o)              THEN {5}
        ELSE IF o \in Dirs /\ ~ Empty(o)                THEN {145}
        ELSE IF Held(o)                                 THEN {0, 32}
        ELSE {0}

\* classic_delete.  While somebody has the object open, the name stays.
Classic ==
    /\ call.at = "classic"
    /\ \E code \in ClassicCodes(call.path, call.as_dir) :
          \/ /\ code = 0
             /\ \E e \in Entry(call.path) :
                   /\ ReturnAfter(Removing(e), Answer("deleted"))
                   /\ IF Held(At(e)) THEN pending' = pending \cup {e} /\ UNCHANGED entries
                                     ELSE Erase(e) /\ UNCHANGED pending
          \/ /\ code # 0
             /\ Return(IF IsNotFound(code) THEN Answer("already_gone") ELSE Failed(Category(code)))
             /\ UNCHANGED <<entries, pending>>
    /\ UNCHANGED <<barred, readonly, holders, meddled, opens>>

\* The last handle is closed.
DeleteCompletes ==
    /\ \E e \in pending :
          /\ ~ Held(At(e))
          /\ Erase(e)
          /\ pending' = pending \ {e}
    /\ UNCHANGED <<barred, readonly, holders, meddled, opens, call>>

-----------------------------------------------------------------------------
(* ops.rs: remediate *)

\* clear_readonly_attribute; only for failures that rights can explain.
ClearReadonly ==
    /\ call.at = "remediate"
    /\ LET o == Object(call.path)
       IN  IF \/ ~ call.opts.allow_remediation
              \/ call.answer.category \notin {"access_denied", "reparse_point_refused"}
           THEN Return(Answer("not_applicable")) /\ UNCHANGED readonly
           ELSE /\ call' = [call EXCEPT !.at = "take_ownership",
                               !.done = IF o \in readonly \ barred THEN {<<"mode", o>>} ELSE {}]
                /\ readonly' = IF o \in barred THEN readonly ELSE readonly \ {o}
    /\ UNCHANGED <<entries, barred, holders, meddled, pending, opens>>

\* take_ownership_and_grant_current_user: one of the two is enough.
TakeOwnership ==
    /\ call.at = "take_ownership"
    /\ LET o == Object(call.path)
       IN  IF o \in Owned
           THEN ReturnAfter(<<"mode", o>>, Answer("applied")) /\ barred' = barred \ {o}
           ELSE /\ Return(Answer(IF call.done # {} THEN "applied" ELSE "failed"))
                /\ UNCHANGED barred
    /\ UNCHANGED <<entries, readonly, holders, meddled, pending, opens>>

-----------------------------------------------------------------------------
(* lock.rs: resolve_local_lock *)

\* restart_manager_find_holders
RestartManager ==
    /\ call.at = "resolve_local_lock"
    /\ LET pids == {p \in Processes : <<p, Object(call.path)>> \in holders}
       IN  IF ~ call.opts.kill_locks THEN Return(Answer("unsupported"))
           ELSE \/ Return(Answer("failed"))    \* the session could not be used
                \/ IF pids = {} THEN Return(Answer("failed"))
                   ELSE call' = [call EXCEPT !.at = "terminate", !.rest = pids, !.found = pids]
    /\ UNCHANGED <<files, pending, opens>>

\* A process whose program cannot be named is left alone, as are those that are
\* critical or on the list, and CurseDelete.
IsSpared(p) == p \in Protected \cup Foreign \cup {Ours}

\* terminate_process
Terminate(p) ==
    /\ call.at = "terminate" /\ p \in call.rest
    /\ \/ /\ call' = [call EXCEPT !.rest = @ \ {p}]
          /\ UNCHANGED holders
       \/ /\ ~ IsSpared(p)
          /\ call' = [call EXCEPT !.rest = @ \ {p}, !.done = @ \cup {<<"signal", p>>}]
          /\ holders' = {h \in holders : h[1] # p}
    /\ UNCHANGED <<entries, barred, readonly, meddled, pending, opens>>

Terminated ==
    /\ call.at = "terminate" /\ call.rest = {}
    /\ Return(Answer(IF call.done = {} THEN "failed" ELSE "resolved"))
    /\ UNCHANGED <<files, pending, opens>>

-----------------------------------------------------------------------------
(* lock.rs: resolve_remote_lock *)

Folded(components) == [i \in DOMAIN components |-> Lower[components[i]]]

\* path_ends_with_components
EndsWith(full, suffix) == suffix # <<>> /\ IsSuffix(Folded(suffix), Folded(full))

\* Mutant: the path below the share is enough.
MatchesBelowTheShare(path) == {id \in opens : EndsWith(OpenPath[id], path.names)}

\* resolve_share_local_path and enumerate_server_open_files
Matches(path) == {id \in opens : EndsWith(OpenPath[id], ShareRoot \o path.names)}

\* parse_unc takes the `\\?\` of a verbatim local path for a server, which then
\* is not found.
RemoteQuery ==
    /\ call.at = "resolve_remote_lock"
    /\ IF ~ call.opts.close_remote_locks \/ call.path.form # "unc"
       THEN Return(Answer("unsupported"))
       ELSE \/ Return(Answer("unsupported"))    \* the server does not answer
            \/ IF Matches(call.path) = {} THEN Return(Answer("failed"))
               ELSE call' = [call EXCEPT !.at = "close", !.rest = Matches(call.path),
                                         !.found = Matches(call.path)]
    /\ UNCHANGED <<files, pending, opens>>

\* NetFileClose, which may fail; a client may have closed the file itself.
CloseRemote(id) ==
    /\ call.at = "close" /\ id \in call.rest
    /\ \/ /\ call' = [call EXCEPT !.rest = @ \ {id}]
          /\ UNCHANGED opens
       \/ /\ id \in opens
          /\ call' = [call EXCEPT !.rest = @ \ {id}, !.done = @ \cup {<<"close", id>>}]
          /\ opens' = opens \ {id}
    /\ UNCHANGED <<files, pending>>

RemoteClosed ==
    /\ call.at = "close" /\ call.rest = {}
    /\ Return(Answer(IF call.done = {} THEN "failed" ELSE "resolved"))
    /\ UNCHANGED <<files, pending, opens>>

-----------------------------------------------------------------------------
(* dirlist.rs: list_children.  FindFirstFileExW lists what a link leads to,  *)
(* and every entry comes with its attributes.                               *)

FindFirst ==
    /\ call.at = "list_children"
    /\ LET o == Object(call.path)
           dir == Follow(o)
       IN  IF dir \in Dirs \ barred
           THEN call' = [call EXCEPT !.at = "find_next", !.fd = dir, !.rest = Names]
           ELSE Return(Answer("failed"))
    /\ UNCHANGED <<files, pending, opens>>

\* raw_child_from_find_data
FoundChild(n, o) ==
    [name |-> n, is_dir |-> IsDirectory(o), is_reparse_point |-> o \in Links]

FindNext(n) ==
    /\ call.at = "find_next" /\ n \in call.rest
    /\ LET o == entries[call.fd][n]
       IN  call' = [call EXCEPT !.rest = @ \ {n},
                       !.found = IF o = None THEN @ ELSE @ \cup {FoundChild(n, o)}]
    /\ UNCHANGED <<files, pending, opens>>

\* The end, or an error in the middle, which discards what was found.
FindEnds ==
    /\ call.at = "find_next"
    /\ \/ call.rest = {} /\ Return(Listing(call.found))
       \/ call.fd \in barred /\ Return(Answer("failed"))
    /\ UNCHANGED <<files, pending, opens>>

WindowsStep ==
    \/ DispositionOpen \/ Dispose \/ Classic \/ DeleteCompletes
    \/ ClearReadonly \/ TakeOwnership
    \/ RestartManager \/ (\E p \in Processes : Terminate(p)) \/ Terminated
    \/ RemoteQuery \/ (\E id \in Opens : CloseRemote(id)) \/ RemoteClosed
    \/ FindFirst \/ (\E n \in Names : FindNext(n)) \/ FindEnds
=============================================================================
