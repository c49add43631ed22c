---------------------------- MODULE Engine_proofs ----------------------------
(***************************************************************************)
(* Engine for any directories, files and links, any user's rights, any     *)
(* meddling of other programs and any number of calls: what the answers of *)
(* the three platforms' engines say is true, nothing behind a link at the  *)
(* end of what a call opens is listed or deleted, a listing is complete,   *)
(* and locks are taken from their holders only.                            *)
(***************************************************************************)
EXTENDS Engine, FiniteSetTheorems, TLAPS

-----------------------------------------------------------------------------
(* Operators and hypotheses. *)

NameSeqs == {ns \in Seq(Names) : Len(ns) \in 1 .. 3}

\* Where names are made Unicode, they are.
UnicodeNames == "windows" \in Platforms => \A n \in Names : Lossy[n] = n

\* Where paths are not made absolute, the user names no object relative to the current
\* directory.
NoBareNames == \A p \in Platforms : p # "windows" => "relative" \notin Forms[p]

\* The steps that each call goes through.
StepsOf == [delete              |-> {"delete", "unlink", "dispose", "classic"},
            remediate           |-> {"remediate", "change_parent", "take_ownership"},
            resolve_local_lock  |-> {"resolve_local_lock", "signal", "terminate"},
            resolve_remote_lock |-> {"resolve_remote_lock", "close"},
            list_children       |-> {"list_children", "read", "lookup", "find_next"}]

IsCall(c) == c = [at |-> c.at, op |-> c.op, path |-> c.path, as_dir |-> c.as_dir,
                  opts |-> c.opts, fd |-> c.fd, rest |-> c.rest, found |-> c.found,
                  done |-> c.done, answer |-> c.answer]

-----------------------------------------------------------------------------
(* The directories, the paths and the call. *)

\* Top is in no directory, and a directory is Outside just when the one it is in is.  As
\* long as nobody meddles, everything is at home.
EntriesInv ==
    /\ entries \in [Dirs -> [Names -> Nodes \cup {None}]]
    /\ \A d \in Dirs, n \in Names :
          entries[d][n] \in Dirs => /\ entries[d][n] # Top
                                    /\ entries[d][n] \in Outside <=> d \in Outside
    /\ meddled \in Nat
    /\ meddled = 0 => \A d \in Dirs, n \in Names :
                         entries[d][n] # None => Home[entries[d][n]] = <<d, n>>

IsPath(path) ==
    /\ path = [names |-> path.names, form |-> path.form]
    /\ path.names \in NameSeqs
    /\ platform # "windows" /\ NoBareNames => path.form # "relative"

CallInv ==
    /\ platform \in Platforms
    /\ \A k \in known : IsPath(k.path)
    /\ IsCall(call) /\ call.op \in Calls \cup {"none"}
    /\ call.op # "none" => IsPath(call.path)
    /\ call.op = "list_children" => Len(call.path.names) < 3
    /\ InProgress => call.op # "none" /\ call.at \in StepsOf[call.op]
    /\ InProgress => Meaning(call.path) \in seen
    /\ InProgress /\ call.op = "list_children" => \A c \in call.found : c.name \in Names
    /\ call.at = "lookup" => \E n \in Names : call.done = {<<"name", n>>}

-----------------------------------------------------------------------------
(* delete *)

\* The path has stood for nothing; for that object; for that entry.
WasNothing     == \E s \in seen : s = None \/ s[3] = None
WasObject(o)   == \E s \in seen \ {None} : s[3] = o
WasEntry(d, n) == \E s \in seen \ {None} : s[1] = d /\ s[2] = n

\* An entry and what is in it now, which is remembered with it.
EntryNow(d, n) == <<d, n, entries[d][n]>>

DeleteInv ==
    call.op = "delete" =>
        /\ InProgress => call.done = {}
        /\ call.at = "unlink" =>
              /\ platform # "windows" /\ call.fd \in Dirs
              /\ EntryNow(call.fd, LeafName(call.path)) \in seen
        /\ call.at = "dispose" => call.fd # None /\ WasObject(call.fd)

-----------------------------------------------------------------------------
(* list_children *)

\* c is what the listing has to say of the object o, called n.
Tells(c, n, o) ==
    /\ c.name = n
    /\ (c.is_dir /\ ~ c.is_reparse_point) <=> o \in Dirs
    /\ c.is_reparse_point <=> o \in Links

ToldOnce(n, o, found) == \E c \in found : {d \in found : d.name = n} = {c} /\ Tells(c, n, o)

\* What is there all along is still to come, is looked up, or was told; and nothing was
\* told twice.
Reading == call.at \in {"read", "lookup", "find_next"}
LookedUp == IF call.at = "lookup" THEN {e[2] : e \in call.done} ELSE {}
ListInv ==
    call.op = "list_children" =>
        /\ call.at = "list_children" => call.fd = None /\ call.found = {}
        /\ Reading =>
              /\ call.fd \in Dirs
              /\ \A e \in stable : /\ e = <<e[1], e[2]>> /\ e[1] \in Names /\ e[2] # None
                                   /\ entries[call.fd][e[1]] = e[2]
              /\ call.at = "lookup" => \E n \in Names \ call.rest : call.done = {<<"name", n>>}
              /\ \A e \in stable : \/ e[1] \in call.rest \cup LookedUp
                                   \/ ToldOnce(e[1], e[2], call.found)
              /\ \A c \in call.found : c.name \notin call.rest \cup LookedUp
        /\ ~ InProgress /\ call.answer.kind = "listed" =>
              \A e \in stable : ToldOnce(e[1], e[2], call.answer.children)

-----------------------------------------------------------------------------
(* Links *)

\* What a path stands for; no link is in front of its last name; it stands for none.
ThingAt(path) == Within(ParentThrough(path), LeafName(path))
Straight(path) ==
    LET ns == path.names
    IN  /\ Len(ns) > 1 => Within(Top, ns[1]) \notin Links
        /\ Len(ns) > 2 => Within(Within(Top, ns[1]), ns[2]) \notin Links
NoLink(path) == ThingAt(path) \notin Links

\* Nothing that the call has open is Outside, nor has it removed anything there.
CallInside ==
    /\ call.op = "delete" => /\ \A r \in call.done : r[1] \notin Outside
                             /\ call.at = "unlink" => call.fd \notin Outside
    /\ call.op = "list_children" => call.fd \notin Outside

\* Windows: what is known leads through no link, nor does the call.
KnownStraight == \A k \in known : Straight(k.path) /\ (~ k.is_link => NoLink(k.path))
CallStraight ==
    /\ call.op \in {"delete", "list_children"} => Straight(call.path)
    /\ call.op = "list_children" => NoLink(call.path)
    /\ call.op = "delete" /\ call.at = "dispose" =>
          call.fd # None /\ \A d \in Outside, n \in Names : entries[d][n] # call.fd
    /\ call.op = "list_children" /\ call.at = "find_next" =>
          /\ call.fd \in Dirs
          /\ ThingAt(call.path) \in {call.fd, None}
          /\ \A c \in call.found : ~ c.is_reparse_point => entries[call.fd][c.name] \notin Links

LinksInv ==
    /\ platform # "windows" =>
          /\ InProgress /\ BehindALink(Opened(call)) => detour
          /\ CallInside \/ detour
    /\ platform = "windows" /\ meddled = 0 => CallInside /\ KnownStraight /\ CallStraight

-----------------------------------------------------------------------------
(* resolve_local_lock and resolve_remote_lock *)

Signals(S) == {<<"signal", p>> : p \in S}
Closes(S)  == {<<"close", id>> : id \in S}

LockInv ==
    call.op = "resolve_local_lock" =>
        /\ call.at = "resolve_local_lock" => call.done = {}
        /\ call.found \subseteq Processes
        /\ call.at \in {"signal", "terminate"} =>
              call.rest \subseteq call.found /\ call.opts.kill_locks
        /\ call.done \subseteq Signals(call.found \ (Protected \cup {Ours}))
        /\ ~ InProgress => /\ call.answer.kind = "resolved" <=> call.done # {}
                           /\ call.done # {} => call.opts.kill_locks

CloseInv ==
    /\ opens \subseteq Opens
    /\ call.op = "resolve_remote_lock" =>
        /\ call.at = "resolve_remote_lock" => call.done = {}
        /\ call.found \subseteq Opens
        /\ call.at = "close" => call.rest \subseteq call.found
        /\ call.done \subseteq Closes(call.found \ opens)
        /\ \A id \in call.found : EndsWith(OpenPath[id], ShareRoot \o call.path.names)
        /\ ~ InProgress => (call.answer.kind = "resolved" <=> call.done # {})

-----------------------------------------------------------------------------
(* Lemmas about paths. *)

\* A path has one to three names.
LEMMA NamesOfPath ==
    ASSUME NEW ns \in NameSeqs
    PROVE  /\ Len(ns) = 1 \/ Len(ns) = 2 \/ Len(ns) = 3
           /\ \A i \in 1 .. Len(ns) : ns[i] \in Names
           /\ ns[1] \in Names /\ ns[Len(ns)] \in Names
           /\ Len(ns) > 1 => ns[Len(ns) - 1] \in Names
           /\ Len(ns) = 3 => ns[2] \in Names
<1>1. ns \in Seq(Names) /\ (Len(ns) = 1 \/ Len(ns) = 2 \/ Len(ns) = 3)
  BY DEF NameSeqs
<1>2. \A i \in 1 .. Len(ns) : ns[i] \in Names
  BY <1>1
<1> QED
  BY <1>1, <1>2

\* The names of a path are names.
LEMMA LeafOfPath ==
    ASSUME NEW path, IsPath(path)
    PROVE  LeafName(path) \in Names /\ path.names[1] \in Names
  BY NamesOfPath DEF IsPath, LeafName

\* A path goes on with one more name.
Longer(ns, n) == Append(ns, n)

\* What is added to a path is its last name, and what was before it is as it was.
LEMMA AppendToPath ==
    ASSUME NEW ns \in NameSeqs, NEW n \in Names, Len(ns) = 1 \/ Len(ns) = 2
    PROVE  /\ Longer(ns, n) \in NameSeqs /\ Longer(ns, n)[1] = ns[1]
           /\ Len(ns) = 1 => Len(Longer(ns, n)) = 2 /\ Longer(ns, n)[2] = n
           /\ Len(ns) = 2 => /\ Len(Longer(ns, n)) = 3
                             /\ Longer(ns, n)[2] = ns[2] /\ Longer(ns, n)[3] = n
<1>1. ns \in Seq(Names)
  BY DEF NameSeqs
<1>2. /\ Append(ns, n) \in Seq(Names) /\ Len(Append(ns, n)) = Len(ns) + 1
      /\ Append(ns, n)[Len(ns) + 1] = n
      /\ \A i \in 1 .. Len(ns) : Append(ns, n)[i] = ns[i]
  BY <1>1
<1>3. Append(ns, n) \in NameSeqs
  <2>1. CASE Len(ns) = 1
    <3>1. Len(Append(ns, n)) = 2
      BY <1>2, <2>1
    <3> QED
      BY <1>2, <3>1 DEF NameSeqs
  <2>2. CASE Len(ns) = 2
    <3>1. Len(Append(ns, n)) = 3
      BY <1>2, <2>2
    <3> QED
      BY <1>2, <3>1 DEF NameSeqs
  <2> QED
    BY <2>1, <2>2
<1>4. CASE Len(ns) = 1
  BY <1>2, <1>3, <1>4 DEF Longer
<1>5. CASE Len(ns) = 2
  BY <1>2, <1>3, <1>5 DEF Longer
<1> QED
  BY <1>4, <1>5

\* Where every name is Unicode, the path that Windows is given means the same.
LEMMA SameVerbatim ==
    ASSUME UnicodeNames, "windows" \in Platforms, NEW path, IsPath(path)
    PROVE  Entry(path) = EntryIn(ParentThrough(path), path)
<1> DEFINE v == Verbatim(path)
           ns == path.names
<1>1. v.names = [i \in DOMAIN ns |-> Lossy[ns[i]]]
  BY DEF Verbatim, IsPath
<1>2. ns \in Seq(Names) /\ DOMAIN ns = 1 .. Len(ns)
  BY DEF IsPath, NameSeqs
<1>3. \A i \in DOMAIN ns : Lossy[ns[i]] = ns[i]
  BY <1>2 DEF UnicodeNames
<1>4. v.names = ns
  BY <1>1, <1>2, <1>3
<1> QED
  BY <1>4 DEF Entry, EntryIn, ParentThrough, ParentItself, Above, LeafName

\* What is in a directory, and what a link leads to.
LEMMA WithinFacts ==
    ASSUME EntriesInv, NEW n \in Names
    PROVE  /\ \A d : Within(d, n) \in Nodes \cup {None}
           /\ \A o \in Nodes \cup {None} : /\ Follow(o) \in Nodes \cup {None}
                                          /\ o \notin Links => Follow(o) = o
           /\ Within(None, n) = None /\ None \notin Dirs /\ None \notin Links
  BY FileSystemAssumption DEF EntriesInv, Within, Follow, Nodes

\* What Windows finds is what the path stands for.
LEMMA ObjectIsMeant ==
    ASSUME UnicodeNames, "windows" \in Platforms, platform = "windows",
           NEW path, IsPath(path)
    PROVE  LET p == ParentThrough(path)
           IN  /\ p \in Dirs =>
                     /\ Entry(path) = {<<p, LeafName(path)>>}
                     /\ Object(path) = entries[p][LeafName(path)]
                     /\ Meaning(path) = <<p, LeafName(path), Object(path)>>
               /\ p \notin Dirs =>
                     Entry(path) = {} /\ Object(path) = None /\ Meaning(path) = None
<1> DEFINE p == ParentThrough(path)
           n == LeafName(path)
<1>1. CASE p \in Dirs
  <2>1. Entry(path) = {<<p, n>>}
    BY <1>1, SameVerbatim DEF EntryIn
  <2>2. (CHOOSE e \in Entry(path) : TRUE) = <<p, n>>
    BY <2>1
  <2>3. Object(path) = entries[p][n]
    BY <2>1, <2>2 DEF Object, At
  <2> QED
    BY <1>1, <2>1, <2>3 DEF Meaning, Parent, At
<1>2. CASE p \notin Dirs
  BY <1>2, SameVerbatim DEF EntryIn, Object, Meaning, Parent
<1> QED
  BY <1>1, <1>2

-----------------------------------------------------------------------------
(* Lemmas about the steps: the call goes on, and returns. *)

\* What a call is when it returns, and when one begins.
LEMMA CallReturns ==
    ASSUME IsCall(call), NEW answer, Return(answer)
    PROVE  /\ IsCall(call') /\ call'.op = call.op /\ call'.path = call.path
           /\ call'.as_dir = call.as_dir /\ call'.opts = call.opts
           /\ call'.at = "idle" /\ call'.fd = call.fd /\ call'.rest = call.rest
           /\ call'.found = call.found /\ call'.done = call.done /\ call'.answer = answer
  BY DEF IsCall, Return

\* What a call is when it returns after an effect.
LEMMA CallReturnsAfter ==
    ASSUME IsCall(call), NEW effect, NEW answer, ReturnAfter(effect, answer)
    PROVE  /\ IsCall(call') /\ call'.op = call.op /\ call'.path = call.path
           /\ call'.as_dir = call.as_dir /\ call'.opts = call.opts
           /\ call'.at = "idle" /\ call'.fd = call.fd /\ call'.rest = call.rest
           /\ call'.found = call.found /\ call'.done = call.done \cup {effect}
           /\ call'.answer = answer
  BY DEF IsCall, ReturnAfter

\* What a call is when it begins.
LEMMA CallBegins ==
    ASSUME NEW op, NEW path, NEW as_dir, NEW opts, Begin(op, path, as_dir, opts)
    PROVE  /\ IsCall(call') /\ call'.op = op /\ call'.path = path
           /\ call'.as_dir = as_dir /\ call'.opts = opts
           /\ call'.at = op /\ call'.fd = None /\ call'.rest = {} /\ call'.found = {}
           /\ call'.done = {} /\ call'.answer = call.answer
  BY DEF IsCall, Begin, NoCall

-----------------------------------------------------------------------------
(* Lemmas about the steps of the calls. *)

DeleteStep ==
    \/ platform # "windows" /\ (UnlinkOpen \/ Unlinkat)
    \/ platform = "windows" /\ (DispositionOpen \/ Dispose \/ Classic)
RemediateStep ==
    \/ platform # "windows" /\ (RemediateObject \/ RemediateParent)
    \/ platform = "windows" /\ (ClearReadonly \/ TakeOwnership)
LockStep ==
    \/ platform # "windows" /\ (FindHolders \/ (\E p \in Processes : Signal(p)) \/ Signalled)
    \/ platform = "windows" /\ (RestartManager \/ (\E p \in Processes : Terminate(p))
                                \/ Terminated)
CloseStep ==
    \/ platform # "windows" /\ NoRemoteLocks
    \/ platform = "windows" /\ (RemoteQuery \/ (\E id \in Opens : CloseRemote(id))
                                \/ RemoteClosed)
ListStep ==
    \/ /\ platform # "windows"
       /\ OpenDir \/ (\E n \in Names : ReadEntry(n)) \/ LookupMetadata \/ EndOfStream
    \/ platform = "windows" /\ (FindFirst \/ (\E n \in Names : FindNext(n)) \/ FindEnds)

\* A step of the engine is one of the call that is under way, or Windows completes a
\* delete of an earlier one.
LEMMA StepsOfCalls ==
    ASSUME CallInv, EngineStep
    PROVE  \/ /\ InProgress
              /\ \/ call.op = "delete" /\ DeleteStep
                 \/ call.op = "remediate" /\ RemediateStep
                 \/ call.op = "resolve_local_lock" /\ LockStep
                 \/ call.op = "resolve_remote_lock" /\ CloseStep
                 \/ call.op = "list_children" /\ ListStep
           \/ platform = "windows" /\ DeleteCompletes
<1>1. CASE DeleteCompletes /\ platform = "windows"
  BY <1>1
<1>2. CASE ~ (DeleteCompletes /\ platform = "windows")
  <2>1. \/ DeleteStep /\ call.at \in {"delete", "unlink", "dispose", "classic"}
        \/ RemediateStep /\ call.at \in {"remediate", "change_parent", "take_ownership"}
        \/ LockStep /\ call.at \in {"resolve_local_lock", "signal", "terminate"}
        \/ CloseStep /\ call.at \in {"resolve_remote_lock", "close"}
        \/ ListStep /\ call.at \in {"list_children", "read", "lookup", "find_next"}
    <3>1. CASE platform # "windows" /\ PosixStep /\ UNCHANGED <<pending, opens>>
      <4>1. \/ Delete \/ Remediate \/ ResolveLocalLock \/ ListChildren \/ NoRemoteLocks
        BY <3>1 DEF PosixStep, LinuxStep, MacStep, LinuxDelete, LinuxRemediate,
           LinuxResolveLocalLock, LinuxListChildren, MacDelete, MacRemediate,
           MacResolveLocalLock, MacListChildren
      <4>2. Delete => DeleteStep /\ call.at \in {"delete", "unlink"}
        BY <3>1 DEF Delete, DeleteStep, UnlinkOpen, Unlinkat
      <4>3. Remediate => RemediateStep /\ call.at \in {"remediate", "change_parent"}
        BY <3>1 DEF Remediate, RemediateStep, RemediateObject, RemediateParent
      <4>4. ResolveLocalLock => LockStep /\ call.at \in {"resolve_local_lock", "signal"}
        BY <3>1 DEF ResolveLocalLock, LockStep, FindHolders, Signal, Signalled
      <4>5. ListChildren => ListStep /\ call.at \in {"list_children", "read", "lookup"}
        BY <3>1
        DEF ListChildren, ListStep, OpenDir, ReadEntry, LookupMetadata, EndOfStream
      <4>6. NoRemoteLocks => CloseStep /\ call.at = "resolve_remote_lock"
        BY <3>1 DEF CloseStep, NoRemoteLocks
      <4> QED
        BY <4>1, <4>2, <4>3, <4>4, <4>5, <4>6
    <3>2. CASE platform = "windows" /\ WindowsStep
      <4>1. DispositionOpen \/ Dispose \/ Classic
               => DeleteStep /\ call.at \in {"delete", "dispose", "classic"}
        BY <3>2 DEF DeleteStep, DispositionOpen, Dispose, Classic
      <4>2. ClearReadonly \/ TakeOwnership
               => RemediateStep /\ call.at \in {"remediate", "take_ownership"}
        BY <3>2 DEF RemediateStep, ClearReadonly, TakeOwnership
      <4>3. RestartManager \/ (\E p \in Processes : Terminate(p)) \/ Terminated
               => LockStep /\ call.at \in {"resolve_local_lock", "terminate"}
        BY <3>2 DEF LockStep, RestartManager, Terminate, Terminated
      <4>4. RemoteQuery \/ (\E id \in Opens : CloseRemote(id)) \/ RemoteClosed
               => CloseStep /\ call.at \in {"resolve_remote_lock", "close"}
        BY <3>2 DEF CloseStep, RemoteQuery, CloseRemote, RemoteClosed
      <4>5. FindFirst \/ (\E n \in Names : FindNext(n)) \/ FindEnds
               => ListStep /\ call.at \in {"list_children", "find_next"}
        BY <3>2 DEF ListStep, FindFirst, FindNext, FindEnds
      <4> QED
        BY <1>2, <3>2, <4>1, <4>2, <4>3, <4>4, <4>5 DEF WindowsStep
    <3> QED
      BY <3>1, <3>2 DEF EngineStep
  <2>2. InProgress
    BY <2>1 DEF InProgress
  <2>3. call.op \in Calls /\ call.at \in StepsOf[call.op]
    BY <2>2 DEF CallInv
  <2> QED
    BY <2>1, <2>2, <2>3 DEF Calls, StepsOf
<1> QED
  BY <1>1, <1>2

\* What a step of a call leaves of the call, and where it goes.
Continues ==
    /\ IsCall(call') /\ call'.op = call.op /\ call'.path = call.path
    /\ call'.as_dir = call.as_dir /\ call'.opts = call.opts
    /\ call'.at \in {"idle"} \cup StepsOf[call.op]

\* What a step of the engine does to entries: it removes some.
Removes ==
    /\ entries' \in [Dirs -> [Names -> Nodes \cup {None}]]
    /\ \A d \in Dirs, n \in Names : entries'[d][n] \in {entries[d][n], None}

\* To erase an entry removes it.
LEMMA EraseRemoves ==
    ASSUME EntriesInv, NEW e, Erase(e)
    PROVE  Removes
  BY DEF EntriesInv, Erase, Removes

\* To change nothing removes nothing.
LEMMA SameRemoves ==
    ASSUME EntriesInv, UNCHANGED entries
    PROVE  Removes
  BY DEF EntriesInv, Removes

\* The steps of a delete.
LEMMA DeleteContinues ==
    ASSUME EntriesInv, CallInv, call.op = "delete", DeleteStep
    PROVE  Continues /\ Removes /\ meddled' = meddled
<1> USE DEF files
<1>1. IsCall(call) /\ {"unlink", "dispose", "classic"} \subseteq StepsOf[call.op]
  BY DEF CallInv, StepsOf
<1>2. ASSUME NEW answer, Return(answer) PROVE Continues
  BY <1>1, <1>2, CallReturns DEF Continues
<1>3. ASSUME NEW effect, NEW answer, ReturnAfter(effect, answer) PROVE Continues
  BY <1>1, <1>3, CallReturnsAfter DEF Continues
<1>4. CASE UnlinkOpen
  <2>1. ASSUME NEW parent, call' = [call EXCEPT !.at = "unlink", !.fd = parent]
        PROVE  Continues
    BY <1>1, <2>1 DEF IsCall, Continues
  <2> QED
    BY <1>2, <1>4, <2>1, SameRemoves DEF UnlinkOpen
<1>5. CASE Unlinkat
  BY <1>2, <1>3, <1>5, SameRemoves, EraseRemoves DEF Unlinkat
<1>6. ASSUME call' = [call EXCEPT !.at = "classic"]
      PROVE  Continues
  BY <1>1, <1>6 DEF IsCall, Continues
<1>7. CASE DispositionOpen
  <2>1. ASSUME NEW o, call' = [call EXCEPT !.at = "dispose", !.fd = o]
        PROVE  Continues
    BY <1>1, <2>1 DEF IsCall, Continues
  <2> QED
    BY <1>2, <1>6, <1>7, <2>1, SameRemoves DEF DispositionOpen
<1>8. CASE Dispose
  BY <1>3, <1>6, <1>8, SameRemoves, EraseRemoves DEF Dispose
<1>9. CASE Classic
  BY <1>2, <1>3, <1>9, SameRemoves, EraseRemoves DEF Classic
<1> QED
  BY <1>4, <1>5, <1>7, <1>8, <1>9 DEF DeleteStep

\* The steps of a remediation.
LEMMA RemediateContinues ==
    ASSUME EntriesInv, CallInv, call.op = "remediate", RemediateStep
    PROVE  Continues /\ Removes /\ meddled' = meddled
<1> USE DEF files
<1>1. IsCall(call) /\ {"change_parent", "take_ownership"} \subseteq StepsOf[call.op]
  BY DEF CallInv, StepsOf
<1>2. ASSUME NEW answer, Return(answer) PROVE Continues
  BY <1>1, <1>2, CallReturns DEF Continues
<1>3. ASSUME NEW effect, NEW answer, ReturnAfter(effect, answer) PROVE Continues
  BY <1>1, <1>3, CallReturnsAfter DEF Continues
<1>4. ASSUME NEW at \in {"change_parent", "take_ownership"}, NEW done,
             call' = [call EXCEPT !.at = at, !.done = done]
      PROVE  Continues
  BY <1>1, <1>4 DEF IsCall, Continues
<1>5. CASE RemediateObject
  BY <1>2, <1>4, <1>5, SameRemoves DEF RemediateObject
<1>6. CASE RemediateParent
  BY <1>2, <1>3, <1>6, SameRemoves DEF RemediateParent
<1>7. CASE ClearReadonly
  BY <1>2, <1>4, <1>7, SameRemoves DEF ClearReadonly
<1>8. CASE TakeOwnership
  BY <1>2, <1>3, <1>8, SameRemoves DEF TakeOwnership
<1> QED
  BY <1>5, <1>6, <1>7, <1>8 DEF RemediateStep

\* The steps of ending the holders of a file.
LEMMA LockContinues ==
    ASSUME EntriesInv, CallInv, call.op = "resolve_local_lock", LockStep
    PROVE  Continues /\ Removes /\ meddled' = meddled
<1> USE DEF files
<1>1. IsCall(call) /\ {"signal", "terminate"} \subseteq StepsOf[call.op]
  BY DEF CallInv, StepsOf
<1>2. ASSUME NEW answer, Return(answer) PROVE Continues
  BY <1>1, <1>2, CallReturns DEF Continues
<1>3. ASSUME NEW at \in {"signal", "terminate"}, NEW pids,
             call' = [call EXCEPT !.at = at, !.rest = pids, !.found = pids]
      PROVE  Continues
  BY <1>1, <1>3 DEF IsCall, Continues
<1>4. CASE FindHolders
  BY <1>2, <1>3, <1>4, SameRemoves DEF FindHolders
<1>5. ASSUME NEW p \in Processes, Signal(p)
      PROVE  Continues /\ Removes /\ meddled' = meddled
  <2>1. Removes /\ meddled' = meddled
    BY <1>5, SameRemoves DEF Signal
  <2>2. Continues
    BY <1>1, <1>5 DEF Signal, IsCall, Continues
  <2> QED
    BY <2>1, <2>2
<1>6. CASE RestartManager
  BY <1>2, <1>3, <1>6, SameRemoves DEF RestartManager
<1>7. ASSUME NEW p \in Processes, Terminate(p)
      PROVE  Continues /\ Removes /\ meddled' = meddled
  <2>1. Removes /\ meddled' = meddled
    BY <1>7, SameRemoves DEF Terminate
  <2>2. Continues
    BY <1>1, <1>7 DEF Terminate, IsCall, Continues
  <2> QED
    BY <2>1, <2>2
<1>8. CASE Signalled \/ Terminated
  BY <1>2, <1>8, SameRemoves DEF Signalled, Terminated
<1> QED
  BY <1>4, <1>5, <1>6, <1>7, <1>8 DEF LockStep

\* The steps of closing what clients have open.
LEMMA CloseContinues ==
    ASSUME EntriesInv, CallInv, call.op = "resolve_remote_lock", CloseStep
    PROVE  Continues /\ Removes /\ meddled' = meddled
<1> USE DEF files
<1>1. IsCall(call) /\ {"close"} \subseteq StepsOf[call.op]
  BY DEF CallInv, StepsOf
<1>2. ASSUME NEW answer, Return(answer) PROVE Continues
  BY <1>1, <1>2, CallReturns DEF Continues
<1>3. ASSUME NEW ids,
             call' = [call EXCEPT !.at = "close", !.rest = ids, !.found = ids]
      PROVE  Continues
  BY <1>1, <1>3 DEF IsCall, Continues
<1>4. ASSUME NEW p, NEW effect, call.at = "close",
             \/ call' = [call EXCEPT !.rest = @ \ {p}]
             \/ call' = [call EXCEPT !.rest = @ \ {p}, !.done = @ \cup {effect}]
      PROVE  Continues
  BY <1>1, <1>4 DEF IsCall, Continues
<1>5. CASE RemoteQuery
  BY <1>2, <1>3, <1>5, SameRemoves DEF RemoteQuery
<1>6. ASSUME NEW id \in Opens, CloseRemote(id)
      PROVE  Continues /\ Removes /\ meddled' = meddled
  BY <1>4, <1>6, SameRemoves DEF CloseRemote
<1>7. CASE NoRemoteLocks \/ RemoteClosed
  BY <1>2, <1>7, SameRemoves DEF NoRemoteLocks, RemoteClosed
<1> QED
  BY <1>5, <1>6, <1>7 DEF CloseStep

\* The steps of a listing.
LEMMA ListContinues ==
    ASSUME EntriesInv, CallInv, call.op = "list_children", ListStep
    PROVE  Continues /\ Removes /\ meddled' = meddled
<1> USE DEF files
<1>1. IsCall(call) /\ {"read", "lookup", "find_next"} \subseteq StepsOf[call.op]
  BY DEF CallInv, StepsOf
<1>2. ASSUME NEW answer, Return(answer) PROVE Continues
  BY <1>1, <1>2, CallReturns DEF Continues
<1>3. ASSUME NEW at \in {"read", "find_next"}, NEW dir,
             call' = [call EXCEPT !.at = at, !.fd = dir, !.rest = Names]
      PROVE  Continues
  BY <1>1, <1>3 DEF IsCall, Continues
<1>4. ASSUME NEW n, NEW done,
             call' = [call EXCEPT !.at = "lookup", !.rest = @ \ {n}, !.done = done]
      PROVE  Continues
  BY <1>1, <1>4 DEF IsCall, Continues
<1>5. ASSUME NEW found,
             call' = [call EXCEPT !.at = "read", !.done = {}, !.found = found]
      PROVE  Continues
  BY <1>1, <1>5 DEF IsCall, Continues
<1>6. ASSUME NEW answer,
             call' = [call EXCEPT !.at = "idle", !.done = {}, !.answer = answer]
      PROVE  Continues
  BY <1>1, <1>6 DEF IsCall, Continues
<1>7. CASE OpenDir
  BY <1>2, <1>3, <1>7, SameRemoves DEF OpenDir
<1>8. ASSUME NEW n \in Names, ReadEntry(n)
      PROVE  Continues /\ Removes /\ meddled' = meddled
  <2>1. call.at = "read"
    BY <1>8 DEF ReadEntry
  <2>2. CASE call' = [call EXCEPT !.at = "lookup", !.rest = @ \ {n}, !.done = {<<"name", n>>}]
    BY <1>4, <1>8, <2>2, SameRemoves DEF ReadEntry
  <2>3. CASE call' = [call EXCEPT !.rest = @ \ {n},
                         !.found = IF entries[call.fd][n] = None THEN @
                                   ELSE @ \cup {Child(n, entries[call.fd][n])}]
    <3>1. PICK rest, found : call' = [call EXCEPT !.rest = rest, !.found = found]
      BY <2>3
    <3>2. Continues
      BY <1>1, <2>1, <3>1 DEF IsCall, Continues
    <3> QED
      BY <1>8, <3>2, SameRemoves DEF ReadEntry
  <2> QED
    BY <1>8, <2>2, <2>3 DEF ReadEntry
<1>9. CASE LookupMetadata
  BY <1>5, <1>6, <1>9, SameRemoves DEF LookupMetadata
<1>10. CASE FindFirst
  BY <1>2, <1>3, <1>10, SameRemoves DEF FindFirst
<1>11. ASSUME NEW n \in Names, FindNext(n)
       PROVE  Continues /\ Removes /\ meddled' = meddled
  <2>1. /\ call.at = "find_next" /\ UNCHANGED files
        /\ call' = [call EXCEPT !.rest = @ \ {n},
                       !.found = IF entries[call.fd][n] = None THEN @
                                 ELSE @ \cup {FoundChild(n, entries[call.fd][n])}]
    BY <1>11 DEF FindNext
  <2>2. PICK rest, found : call' = [call EXCEPT !.rest = rest, !.found = found]
    BY <2>1
  <2>3. Continues
    BY <1>1, <2>1, <2>2 DEF IsCall, Continues
  <2> QED
    BY <2>1, <2>3, SameRemoves
<1>12. CASE EndOfStream \/ FindEnds
  BY <1>2, <1>12, SameRemoves DEF EndOfStream, FindEnds
<1> QED
  BY <1>7, <1>8, <1>9, <1>10, <1>11, <1>12 DEF ListStep

\* A step of the engine: it goes on with the call, removes entries at most, and ends no
\* open that it does not name.
LEMMA EngineStepFacts ==
    ASSUME EntriesInv, CallInv, EngineStep
    PROVE  /\ Removes /\ meddled' = meddled /\ platform' = platform
           /\ opens' \subseteq opens
           /\ \/ InProgress /\ Continues
              \/ call' = call
<1>1. platform' = platform
  BY DEF EngineStep
<1>2. opens' \subseteq opens
  <2>1. CASE platform # "windows"
    BY <2>1 DEF EngineStep
  <2>2. CASE platform = "windows"
    BY <2>2 DEF EngineStep, WindowsStep, DispositionOpen, Dispose, Classic, DeleteCompletes,
       ClearReadonly, TakeOwnership, RestartManager, Terminate, Terminated, RemoteQuery,
       CloseRemote, RemoteClosed, FindFirst, FindNext, FindEnds
  <2> QED
    BY <2>1, <2>2
<1>3. CASE DeleteCompletes
  BY <1>1, <1>2, <1>3, EraseRemoves DEF DeleteCompletes
<1>4. CASE ~ DeleteCompletes
  BY <1>1, <1>2, <1>4, StepsOfCalls, DeleteContinues, RemediateContinues, LockContinues,
     CloseContinues, ListContinues
<1> QED
  BY <1>3, <1>4

-----------------------------------------------------------------------------
(* The directories. *)

\* What any step does to entries: directories move within a directory only, and as long as
\* nobody meddles entries only go.
Moves ==
    /\ entries' \in [Dirs -> [Names -> Nodes \cup {None}]]
    /\ \A d \in Dirs, n \in Names : entries'[d][n] \in Dirs =>
          \E m \in Names : entries[d][m] = entries'[d][n]
    /\ meddled' \in Nat
    /\ meddled' = 0 => meddled = 0 /\ Removes

\* Moves is enough to keep EntriesInv.
LEMMA MovesKeepEntries ==
    ASSUME EntriesInv, Moves
    PROVE  EntriesInv'
<1>1. ASSUME NEW d \in Dirs, NEW n \in Names, entries'[d][n] \in Dirs
      PROVE  /\ entries'[d][n] # Top
             /\ entries'[d][n] \in Outside <=> d \in Outside
  BY <1>1, FileSystemAssumption DEF EntriesInv, Moves
<1>2. ASSUME meddled' = 0, NEW d \in Dirs, NEW n \in Names, entries'[d][n] # None
      PROVE  Home[entries'[d][n]] = <<d, n>>
  <2>1. entries'[d][n] = entries[d][n] /\ meddled = 0
    BY <1>2 DEF Moves, Removes
  <2> QED
    BY <1>2, <2>1 DEF EntriesInv
<1> QED
  BY <1>1, <1>2 DEF EntriesInv, Moves

\* Removing entries moves nothing.
LEMMA RemovingMoves ==
    ASSUME EntriesInv, Removes, meddled' = meddled
    PROVE  Moves
<1>1. ASSUME NEW d \in Dirs, NEW n \in Names
      PROVE  entries'[d][n] \in {entries[d][n], None}
  BY <1>1 DEF Removes
<1>2. None \notin Dirs
  BY FileSystemAssumption DEF Nodes
<1> QED
  BY <1>1, <1>2, FileSystemAssumption DEF EntriesInv, Moves, Removes

\* What other programs do.
LEMMA MeddlingMoves ==
    ASSUME EntriesInv, Meddling
    PROVE  Moves
<1> DEFINE Table == [Dirs -> [Names -> Nodes \cup {None}]]
<1>1. /\ entries \in Table /\ meddled \in Nat
      /\ None \notin Dirs /\ Top \in Dirs
  BY FileSystemAssumption DEF EntriesInv, Nodes
<1>2. ASSUME Meddle
      PROVE  meddled' \in Nat /\ meddled' # 0
  BY <1>1, <1>2 DEF Meddle
<1>3. ASSUME NEW d \in Dirs, NEW n \in Names, OtherRemoves(d, n)
      PROVE  Moves
  <2>1. Removes
    BY <1>3, EraseRemoves DEF OtherRemoves
  <2>2. \A e \in Dirs, m \in Names : entries'[e][m] \in {entries[e][m], None}
    BY <2>1 DEF Removes
  <2> QED
    BY <1>1, <1>2, <1>3, <2>1, <2>2 DEF OtherRemoves, Moves, Removes
<1>4. ASSUME NEW o \in Nodes, OtherCreates(o)
      PROVE  Moves
  <2>1. PICK d \in Dirs, n \in Names : Home[o] = <<d, n>>
    BY <1>4, FileSystemAssumption DEF OtherCreates, Nodes
  <2>2. /\ entries' = [entries EXCEPT ![d][n] = o] /\ entries[d][n] = None /\ Meddle
    BY <1>4, <2>1 DEF OtherCreates, At
  <2>3. o \notin Dirs
    BY <1>4, FileSystemAssumption DEF OtherCreates
  <2>4. entries' \in Table
    BY <1>1, <2>2
  <2>5. \A e \in Dirs, m \in Names :
           entries'[e][m] = IF e = d /\ m = n THEN o ELSE entries[e][m]
    BY <1>1, <2>2
  <2> QED
    BY <1>1, <1>2, <2>2, <2>3, <2>4, <2>5 DEF Moves
<1>5. ASSUME NEW link \in Links, NEW away \in Names, OtherReplaces(link, away)
      PROVE  Moves
  <2>1. PICK d \in Dirs, n \in Names : Home[link] = <<d, n>>
    BY <1>5, FileSystemAssumption DEF Nodes
  <2>2. /\ entries[d][n] \in Dirs /\ entries[d][away] = None /\ Meddle
        /\ entries' = [entries EXCEPT ![d] = [entries[d] EXCEPT ![away] = entries[d][n],
                                                                ![n] = link]]
    BY <1>5, <2>1 DEF OtherReplaces, At
  <2>3. link \notin Dirs /\ link \in Nodes
    BY <1>5, FileSystemAssumption DEF Nodes
  <2>4. away # n
    BY <1>1, <2>2
  <2>5. \A e \in Dirs, m \in Names :
           entries'[e][m] = IF e = d /\ m = away THEN entries[d][n]
                            ELSE IF e = d /\ m = n THEN link
                            ELSE entries[e][m]
    BY <1>1, <2>2, <2>4
  <2>6. entries' \in Table
    BY <1>1, <2>2, <2>3 DEF Nodes
  <2> QED
    BY <1>1, <1>2, <2>2, <2>3, <2>5, <2>6 DEF Moves
<1>6. ASSUME NEW p \in Processes, OtherCloses(p)
      PROVE  Moves
  <2>1. Removes /\ entries' = entries
    BY <1>6, SameRemoves DEF OtherCloses
  <2> QED
    BY <1>1, <1>2, <1>6, <2>1 DEF OtherCloses, Moves
<1> QED
  BY <1>3, <1>4, <1>5, <1>6 DEF Meddling

\* EntriesInv holds at first, and every step keeps it.
LEMMA EntriesInit ==
    ASSUME Init
    PROVE  EntriesInv
<1> DEFINE Here(d, n) == {o \in Nodes \ Spare : o # Top /\ Home[o] = <<d, n>>}
<1>1. entries = [d \in Dirs |-> [n \in Names |->
                    IF Here(d, n) = {} THEN None ELSE CHOOSE o \in Here(d, n) : TRUE]]
  BY DEF Init, EntriesWithout
<1>2. ASSUME NEW d \in Dirs, NEW n \in Names
      PROVE  entries[d][n] = None \/ entries[d][n] \in Here(d, n)
  <2>1. entries[d][n] = IF Here(d, n) = {} THEN None ELSE CHOOSE o \in Here(d, n) : TRUE
    BY <1>1
  <2> QED
    BY <2>1
<1>3. entries \in [Dirs -> [Names -> Nodes \cup {None}]]
  <2>1. \A d \in Dirs, n \in Names :
           (IF Here(d, n) = {} THEN None ELSE CHOOSE o \in Here(d, n) : TRUE)
              \in Nodes \cup {None}
    BY <1>1, <1>2
  <2> QED
    BY <1>1, <2>1
<1>4. ASSUME NEW d \in Dirs, NEW n \in Names, entries[d][n] \in Dirs
      PROVE  /\ entries[d][n] # Top
             /\ entries[d][n] \in Outside <=> d \in Outside
  <2>1. entries[d][n] \in Here(d, n)
    BY <1>2, <1>4, FileSystemAssumption DEF Nodes
  <2>2. PICK o : o = entries[d][n]
    OBVIOUS
  <2>3. o \in Dirs \ (Spare \cup {Top}) /\ Home[o] = <<d, n>>
    BY <1>4, <2>1, <2>2
  <2> QED
    BY <2>2, <2>3, EngineAssumption
<1>5. ASSUME NEW d \in Dirs, NEW n \in Names, entries[d][n] # None
      PROVE  Home[entries[d][n]] = <<d, n>>
  BY <1>2, <1>5
<1>6. meddled = 0
  BY DEF Init
<1> QED
  BY <1>3, <1>4, <1>5, <1>6 DEF EntriesInv

\* Every step moves entries in this way.
LEMMA NextMoves ==
    ASSUME EntriesInv, CallInv, Next
    PROVE  EntriesInv' /\ Moves
<1>1. CASE BeginCall
  <2>1. entries' = entries /\ meddled' = meddled
    BY <1>1 DEF BeginCall, files
  <2> QED
    BY <2>1, SameRemoves, RemovingMoves, MovesKeepEntries
<1>2. CASE EngineStep
  BY <1>2, EngineStepFacts, RemovingMoves, MovesKeepEntries
<1>3. CASE Others
  BY <1>3, MeddlingMoves, MovesKeepEntries DEF Others
<1> QED
  BY <1>1, <1>2, <1>3 DEF Next

-----------------------------------------------------------------------------
(* The call. *)

\* What the answers are.
LEMMA AnswerFacts ==
    /\ \A kind : /\ Answer(kind).kind = kind /\ Answer(kind).category = "none"
                 /\ Answer(kind).children = {}
    /\ \A category : Failed(category).kind = "failed" /\ Failed(category).category = category
    /\ \A children : Listing(children).kind = "listed" /\ Listing(children).children = children
  BY DEF Answer, Failed, Listing

\* An error is a failure, or says that the object has gone.
LEMMA AnswerToFacts ==
    ASSUME NEW errno
    PROVE  AnswerTo(errno).kind \in {"already_gone", "failed"}
  BY AnswerFacts DEF AnswerTo

\* Nothing but a listing is answered with one.
LEMMA NoListing ==
    ASSUME CallInv, call'.at = "idle",
           DeleteStep \/ RemediateStep \/ LockStep \/ CloseStep
    PROVE  call'.answer.kind # "listed"
<1>1. IsCall(call)
  BY DEF CallInv
<1>2. /\ \A kind : kind # "listed" /\ Return(Answer(kind)) => call'.answer.kind # "listed"
      /\ \A category : Return(Failed(category)) => call'.answer.kind # "listed"
      /\ \A errno : Return(AnswerTo(errno)) => call'.answer.kind # "listed"
  BY <1>1, CallReturns, AnswerFacts, AnswerToFacts
<1>3. \A effect, kind : kind # "listed" /\ ReturnAfter(effect, Answer(kind))
                           => call'.answer.kind # "listed"
  BY <1>1, CallReturnsAfter, AnswerFacts
<1>4. ASSUME NEW at, at # "idle", call' = [call EXCEPT !.at = at]
      PROVE  FALSE
  BY <1>1, <1>4 DEF IsCall
<1>5. CASE DeleteStep
  <2>1. ASSUME NEW parent, call' = [call EXCEPT !.at = "unlink", !.fd = parent]
        PROVE  FALSE
    BY <1>1, <2>1 DEF IsCall
  <2>2. ASSUME NEW o, call' = [call EXCEPT !.at = "dispose", !.fd = o]
        PROVE  FALSE
    BY <1>1, <2>2 DEF IsCall
  <2>3. CASE UnlinkOpen
    BY <1>2, <2>1, <2>3 DEF UnlinkOpen
  <2>4. CASE Unlinkat
    BY <1>2, <1>3, <2>4 DEF Unlinkat
  <2>5. CASE DispositionOpen
    BY <1>2, <1>4, <2>2, <2>5 DEF DispositionOpen
  <2>6. CASE Dispose
    BY <1>3, <1>4, <2>6 DEF Dispose
  <2>7. CASE Classic
    BY <1>2, <1>3, <2>7 DEF Classic
  <2> QED
    BY <1>5, <2>3, <2>4, <2>5, <2>6, <2>7 DEF DeleteStep
<1>6. CASE RemediateStep
  <2>1. ASSUME NEW at \in {"change_parent", "take_ownership"}, NEW done,
               call' = [call EXCEPT !.at = at, !.done = done]
        PROVE  FALSE
    BY <1>1, <2>1 DEF IsCall
  <2>2. CASE RemediateObject
    BY <1>2, <2>1, <2>2 DEF RemediateObject
  <2>3. CASE RemediateParent
    BY <1>2, <1>3, <2>3 DEF RemediateParent
  <2>4. CASE ClearReadonly
    BY <1>2, <2>1, <2>4 DEF ClearReadonly
  <2>5. CASE TakeOwnership
    BY <1>2, <1>3, <2>5 DEF TakeOwnership
  <2> QED
    BY <1>6, <2>2, <2>3, <2>4, <2>5 DEF RemediateStep
<1>7. CASE LockStep
  <2>1. ASSUME NEW at \in {"signal", "terminate"}, NEW pids,
               call' = [call EXCEPT !.at = at, !.rest = pids, !.found = pids]
        PROVE  FALSE
    BY <1>1, <2>1 DEF IsCall
  <2>2. CASE FindHolders \/ RestartManager
    BY <1>2, <2>1, <2>2 DEF FindHolders, RestartManager
  <2>3. ASSUME NEW p \in Processes, Signal(p) \/ Terminate(p)
        PROVE  FALSE
    BY <1>1, <2>3 DEF IsCall, Signal, Terminate
  <2>4. CASE Signalled \/ Terminated
    BY <1>2, <2>4 DEF Signalled, Terminated
  <2> QED
    BY <1>7, <2>2, <2>3, <2>4 DEF LockStep
<1>8. CASE CloseStep
  <2>1. ASSUME NEW ids,
               call' = [call EXCEPT !.at = "close", !.rest = ids, !.found = ids]
        PROVE  FALSE
    BY <1>1, <2>1 DEF IsCall
  <2>2. CASE RemoteQuery
    BY <1>2, <2>1, <2>2 DEF RemoteQuery
  <2>3. ASSUME NEW id \in Opens, CloseRemote(id)
        PROVE  FALSE
    BY <1>1, <2>3 DEF IsCall, CloseRemote
  <2>4. CASE NoRemoteLocks \/ RemoteClosed
    BY <1>2, <2>4 DEF NoRemoteLocks, RemoteClosed
  <2> QED
    BY <1>8, <2>2, <2>3, <2>4 DEF CloseStep
<1> QED
  BY <1>5, <1>6, <1>7, <1>8

\* Every name of a listing is a name.
NamesListed ==
    /\ call'.at # "idle" => \A c \in call'.found : c.name \in Names
    /\ call'.at = "lookup" => \E n \in Names : call'.done = {<<"name", n>>}
    /\ call'.at = "idle" /\ call'.answer.kind = "listed" =>
          \A c \in call'.answer.children : c.name \in Names

\* The names of a listing are names, at every step of it.
LEMMA ListNames ==
    ASSUME CallInv, call.op = "list_children", ListStep
    PROVE  NamesListed
<1>1. /\ IsCall(call) /\ InProgress
      /\ \A c \in call.found : c.name \in Names
      /\ call.at = "lookup" => \E n \in Names : call.done = {<<"name", n>>}
  BY DEF CallInv, ListStep, OpenDir, ReadEntry, LookupMetadata, EndOfStream, FindFirst,
         FindNext, FindEnds, InProgress
<1>2. ASSUME Return(Answer("failed")) PROVE NamesListed
  BY <1>1, <1>2, CallReturns, AnswerFacts DEF NamesListed
<1>3. ASSUME Return(Listing(call.found)), call.at \in {"read", "find_next"} PROVE NamesListed
  BY <1>1, <1>3, CallReturns, AnswerFacts DEF NamesListed
<1>4. ASSUME NEW at \in {"read", "find_next"}, NEW dir, NEW rest,
             call' = [call EXCEPT !.at = at, !.fd = dir, !.rest = rest]
      PROVE  NamesListed
  BY <1>1, <1>4 DEF IsCall, NamesListed
<1>6. CASE OpenDir
  <2>1. CASE \E dir : call' = [call EXCEPT !.at = "read", !.fd = dir, !.rest = Names]
    BY <1>1, <2>1 DEF IsCall, NamesListed
  <2> QED
    BY <1>2, <1>6, <2>1 DEF OpenDir
<1>7. CASE FindFirst
  BY <1>2, <1>4, <1>7 DEF FindFirst
<1>8. ASSUME NEW n \in Names
      PROVE  \A o : Child(n, o).name \in Names /\ FoundChild(n, o).name \in Names
  BY <1>8 DEF Child, FoundChild
<1>9. ASSUME NEW n \in Names, ReadEntry(n)
      PROVE  NamesListed
  <2>1. CASE call' = [call EXCEPT !.at = "lookup", !.rest = @ \ {n}, !.done = {<<"name", n>>}]
    BY <1>1, <2>1 DEF IsCall, NamesListed
  <2>2. CASE call' = [call EXCEPT !.rest = @ \ {n},
                          !.found = IF entries[call.fd][n] = None THEN @
                                    ELSE @ \cup {Child(n, entries[call.fd][n])}]
    <3>1. PICK found : /\ \A c \in found : c.name \in Names
                       /\ call' = [call EXCEPT !.rest = @ \ {n}, !.found = found]
      BY <1>1, <1>8, <2>2
    <3> QED
      BY <1>1, <1>9, <3>1 DEF IsCall, NamesListed, ReadEntry
  <2> QED
    BY <1>9, <2>1, <2>2 DEF ReadEntry
<1>10. CASE LookupMetadata
  <2>1. PICK entry \in call.done :
           \/ call' = [call EXCEPT !.at = "read", !.done = {},
                          !.found = IF entries[call.fd][entry[2]] = None THEN @
                                    ELSE @ \cup {Child(entry[2], entries[call.fd][entry[2]])}]
           \/ call' = [call EXCEPT !.at = "idle", !.done = {}, !.answer = Answer("failed")]
    BY <1>10 DEF LookupMetadata
  <2>2. entry[2] \in Names
    BY <1>1, <1>10, <2>1 DEF LookupMetadata
  <2>3. CASE call' = [call EXCEPT !.at = "read", !.done = {},
                          !.found = IF entries[call.fd][entry[2]] = None THEN @
                                    ELSE @ \cup {Child(entry[2], entries[call.fd][entry[2]])}]
    <3>1. PICK found : /\ \A c \in found : c.name \in Names
                       /\ call' = [call EXCEPT !.at = "read", !.done = {}, !.found = found]
      BY <1>1, <1>8, <2>2, <2>3
    <3> QED
      BY <1>1, <3>1 DEF IsCall, NamesListed
  <2>4. CASE call' = [call EXCEPT !.at = "idle", !.done = {}, !.answer = Answer("failed")]
    BY <1>1, <2>4, AnswerFacts DEF IsCall, NamesListed
  <2> QED
    BY <2>1, <2>3, <2>4
<1>11. ASSUME NEW n \in Names, FindNext(n)
       PROVE  NamesListed
  <2>1. PICK found : /\ \A c \in found : c.name \in Names
                     /\ call' = [call EXCEPT !.rest = @ \ {n}, !.found = found]
    BY <1>1, <1>8, <1>11 DEF FindNext
  <2> QED
    BY <1>1, <1>11, <2>1 DEF IsCall, NamesListed, FindNext
<1>12. CASE EndOfStream \/ FindEnds
  BY <1>2, <1>3, <1>12 DEF EndOfStream, FindEnds
<1> QED
  BY <1>6, <1>7, <1>9, <1>10, <1>11, <1>12 DEF ListStep

\* A path of one name.
LEMMA OneName ==
    ASSUME NEW n \in Names
    PROVE  \E ns : ns = <<n>> /\ ns \in NameSeqs /\ Len(ns) = 1 /\ ns[1] = n
<1>1. <<n>> \in NameSeqs
  BY DEF NameSeqs
<1>2. Len(<<n>>) = 1 /\ <<n>>[1] = n
  OBVIOUS
<1> QED
  BY <1>1, <1>2

\* The same of two.
LEMMA TwoNames ==
    ASSUME NEW m \in Names, NEW n \in Names
    PROVE  \E ns : ns = <<m, n>> /\ ns \in NameSeqs /\ Len(ns) = 2 /\ ns[1] = m /\ ns[2] = n
<1>1. <<m, n>> \in NameSeqs
  BY DEF NameSeqs
<1>2. Len(<<m, n>>) = 2 /\ <<m, n>>[1] = m /\ <<m, n>>[2] = n
  OBVIOUS
<1> QED
  BY <1>1, <1>2

\* k is known at first: its path has one to three names and leads to something through no
\* link.
FirstPath(k, form) ==
    LET ns == k.path.names
        d == entries[Top][ns[1]]
        e == entries[d][ns[2]]
    IN  /\ k.path = [names |-> ns, form |-> k.path.form] /\ k.path.form = form
        /\ ns \in NameSeqs
        /\ \/ Len(ns) = 1 /\ (k.is_link <=> d \in Links)
           \/ Len(ns) = 2 /\ d \in Dirs /\ (k.is_link <=> e \in Links)
           \/ /\ Len(ns) = 3 /\ d \in Dirs /\ e \in Dirs
              /\ k.is_link <=> entries[e][ns[3]] \in Links

\* What is known at first.
LEMMA FirstPaths ==
    ASSUME NEW p, NEW form, NEW k \in FirstKnown(p, entries, form)
    PROVE  FirstPath(k, form)
<1> DEFINE sort(ns, o) == Known(PathOf(ns, form),
                                o \in Dirs \/ (p = "windows" /\ IsDirectory(o)), o \in Links)
           below(ns, d) == {sort(Append(ns, n), entries[d][n]) :
                               n \in {n \in Names : entries[d][n] # None}}
           dirs(d) == {n \in Names : entries[d][n] \in Dirs}
<1>1. ASSUME NEW ns, NEW o, k = sort(ns, o)
      PROVE  /\ k.path.names = ns /\ k.path = [names |-> ns, form |-> k.path.form]
             /\ k.path.form = form
             /\ k.is_link <=> o \in Links
  BY <1>1 DEF Known, PathOf
<1>2. \/ k \in below(<<>>, Top)
      \/ \E m \in dirs(Top) : k \in below(<<m>>, entries[Top][m])
      \/ \E m \in dirs(Top) : \E n \in dirs(entries[Top][m]) :
            k \in below(<<m, n>>, entries[entries[Top][m]][n])
  <2> DEFINE seconds == {below(<<m>>, entries[Top][m]) : m \in dirs(Top)}
             pairs == {m \in dirs(Top) \X Names : m[2] \in dirs(entries[Top][m[1]])}
             thirds == {below(<<m[1], m[2]>>, entries[entries[Top][m[1]]][m[2]]) : m \in pairs}
  <2>1. k \in UNION ({below(<<>>, Top)} \cup seconds \cup thirds)
    BY DEF FirstKnown
  <2> HIDE DEF below, dirs
  <2>2. ASSUME k \in UNION seconds
        PROVE  \E m \in dirs(Top) : k \in below(<<m>>, entries[Top][m])
    BY <2>2
  <2>3. ASSUME k \in UNION thirds
        PROVE  \E m \in dirs(Top) : \E n \in dirs(entries[Top][m]) :
                  k \in below(<<m, n>>, entries[entries[Top][m]][n])
    <3>1. PICK m \in pairs : k \in below(<<m[1], m[2]>>, entries[entries[Top][m[1]]][m[2]])
      BY <2>3
    <3>2. m[1] \in dirs(Top) /\ m[2] \in dirs(entries[Top][m[1]])
      BY <3>1
    <3> QED
      BY <3>1, <3>2
  <2> HIDE DEF seconds, thirds
  <2>4. k \in below(<<>>, Top) \/ k \in UNION seconds \/ k \in UNION thirds
    BY <2>1
  <2> QED
    BY <2>2, <2>3, <2>4, Zenon
<1> HIDE DEF sort
<1>3. CASE k \in below(<<>>, Top)
  <2>1. PICK n \in Names : k = sort(Append(<<>>, n), entries[Top][n])
    BY <1>3
  <2>2. k = sort(<<n>>, entries[Top][n])
    <3>1. Append(<<>>, n) = <<n>>
      OBVIOUS
    <3> QED
      BY <2>1, <3>1
  <2>3. PICK ns : ns = <<n>> /\ ns \in NameSeqs /\ Len(ns) = 1 /\ ns[1] = n
    BY <2>1, OneName
  <2>4. /\ k.path.names = ns /\ k.path = [names |-> ns, form |-> k.path.form]
        /\ k.path.form = form
        /\ k.is_link <=> entries[Top][n] \in Links
    BY <1>1, <2>2, <2>3
  <2> QED
    BY <2>3, <2>4 DEF FirstPath
<1>4. ASSUME NEW m \in dirs(Top), k \in below(<<m>>, entries[Top][m])
      PROVE  FirstPath(k, form)
  <2>1. PICK ms : ms = <<m>> /\ ms \in NameSeqs /\ Len(ms) = 1 /\ ms[1] = m
    BY OneName
  <2>2. PICK n \in Names : k = sort(Longer(ms, n), entries[entries[Top][m]][n])
    BY <1>4, <2>1 DEF Longer
  <2>3. PICK ns : /\ ns = Longer(ms, n) /\ ns \in NameSeqs
                  /\ Len(ns) = 2 /\ ns[1] = m /\ ns[2] = n
    <3>1. /\ Longer(ms, n) \in NameSeqs /\ Len(Longer(ms, n)) = 2
          /\ Longer(ms, n)[1] = m /\ Longer(ms, n)[2] = n
      <4>1. ms \in NameSeqs /\ Len(ms) = 1 /\ ms[1] = m /\ n \in Names
        BY <2>1, <2>2
      <4> QED
        BY <4>1, AppendToPath
    <3> QED
      BY <3>1
  <2>4. /\ k.path.names = ns /\ k.path = [names |-> ns, form |-> k.path.form]
        /\ k.path.form = form
        /\ k.is_link <=> entries[entries[Top][m]][n] \in Links
    BY <1>1, <2>2, <2>3
  <2> QED
    BY <2>3, <2>4 DEF FirstPath
<1>5. ASSUME NEW m \in dirs(Top), NEW n \in dirs(entries[Top][m]),
             k \in below(<<m, n>>, entries[entries[Top][m]][n])
      PROVE  FirstPath(k, form)
  <2>1. PICK ms : /\ ms = <<m, n>> /\ ms \in NameSeqs /\ Len(ms) = 2
                  /\ ms[1] = m /\ ms[2] = n
    BY TwoNames
  <2>2. PICK l \in Names :
           k = sort(Longer(ms, l), entries[entries[entries[Top][m]][n]][l])
    BY <1>5, <2>1 DEF Longer
  <2>3. PICK ns : /\ ns = Longer(ms, l) /\ ns \in NameSeqs
                  /\ Len(ns) = 3 /\ ns[1] = m /\ ns[2] = n /\ ns[3] = l
    <3>1. /\ Longer(ms, l) \in NameSeqs /\ Len(Longer(ms, l)) = 3
          /\ Longer(ms, l)[1] = m /\ Longer(ms, l)[2] = n /\ Longer(ms, l)[3] = l
      <4>1. ms \in NameSeqs /\ Len(ms) = 2 /\ ms[1] = m /\ ms[2] = n /\ l \in Names
        BY <2>1, <2>2
      <4> QED
        BY <4>1, AppendToPath
    <3> QED
      BY <3>1
  <2>4. /\ k.path.names = ns /\ k.path = [names |-> ns, form |-> k.path.form]
        /\ k.path.form = form
        /\ k.is_link <=> entries[entries[entries[Top][m]][n]][l] \in Links
    BY <1>1, <2>2, <2>3
  <2> QED
    BY <2>3, <2>4 DEF FirstPath
<1> QED
  BY <1>2, <1>3, <1>4, <1>5

\* CallInv holds at first, and every step keeps it.
LEMMA CallInit ==
    ASSUME Init
    PROVE  CallInv
<1>1. /\ platform \in Platforms /\ call = NoCall
      /\ entries = EntriesWithout(Spare) /\ EntriesInv
  BY EntriesInit DEF Init
<1>2. PICK form \in Forms[platform] : known = FirstKnown(platform, entries, form)
  BY DEF Init
<1>3. ASSUME NEW k \in FirstKnown(platform, entries, form)
      PROVE  /\ k.path.names \in NameSeqs /\ k.path.form = form
             /\ k.path = [names |-> k.path.names, form |-> k.path.form]
  <2>1. FirstPath(k, form)
    BY <1>3, FirstPaths
  <2> QED
    BY <2>1 DEF FirstPath
<1>4. \A k \in known : IsPath(k.path)
  <2>1. platform # "windows" /\ NoBareNames => form # "relative"
    BY <1>1, <1>2 DEF NoBareNames
  <2> QED
    BY <1>2, <1>3, <2>1 DEF IsPath
<1>5. /\ IsCall(call) /\ call.op = "none" /\ call.at = "idle"
  BY <1>1 DEF IsCall, NoCall
<1> QED
  BY <1>1, <1>4, <1>5 DEF CallInv, InProgress

\* What the worker learns from a listing are paths.
LEMMA DiscoverKeepsPaths ==
    ASSUME CallInv, EngineStep, InProgress, platform' = platform
    PROVE  \A k \in known' : IsPath(k.path)'
<1>1. Discover /\ IsPath(call.path)
  BY DEF EngineStep, CallInv
<1>2. ASSUME NEW k \in known
      PROVE  IsPath(k.path)'
  BY <1>2 DEF CallInv, IsPath
<1>3. CASE call'.at = "idle" /\ call'.answer.kind = "listed"
  <2>1. call.op = "list_children" /\ ListStep
    BY <1>3, StepsOfCalls, NoListing DEF DeleteCompletes, InProgress
  <2>2. \A c \in call'.answer.children : c.name \in Names
    BY <1>3, <2>1, ListNames DEF NamesListed
  <2>3. ASSUME NEW c \in call'.answer.children,
               NEW k, k = Known(PathOf(Append(call.path.names, c.name), call.path.form),
                                c.is_dir, c.is_reparse_point)
        PROVE  IsPath(k.path)'
    <3>1. Longer(call.path.names, c.name) \in NameSeqs
      BY <1>1, <2>1, <2>2, <2>3, AppendToPath DEF IsPath, CallInv, NameSeqs
    <3>2. k.path = PathOf(Longer(call.path.names, c.name), call.path.form)
      BY <2>3 DEF Known, Longer
    <3> QED
      BY <1>1, <3>1, <3>2 DEF IsPath, PathOf
  <2> QED
    BY <1>1, <1>2, <1>3, <2>3 DEF Discover
<1>4. CASE ~ (call'.at = "idle" /\ call'.answer.kind = "listed")
  BY <1>1, <1>2, <1>4 DEF Discover
<1> QED
  BY <1>3, <1>4

\* Every step keeps CallInv.
LEMMA CallNext ==
    ASSUME EntriesInv, CallInv, Next
    PROVE  CallInv'
<1>1. Observe
  BY DEF Next
<1>2. InProgress' => Meaning(call.path)' \in seen'
  BY <1>1 DEF Observe, InProgress
<1>3. CASE call' = call /\ platform' = platform /\ known' = known
  BY <1>2, <1>3 DEF CallInv, InProgress, IsPath
<1>4. CASE BeginCall
  <2>1. PICK op \in Calls, k \in known, opts \in Options :
           MayBegin(op, k, opts) /\ Begin(op, k.path, k.is_dir, opts)
    BY <1>4 DEF BeginCall
  <2>2. /\ IsCall(call') /\ call'.op = op /\ call'.path = k.path
        /\ call'.at = op /\ call'.found = {}
    BY <2>1, CallBegins
  <2>3. op \in StepsOf[op] /\ op # "lookup" /\ op # "none"
    BY DEF Calls, StepsOf
  <2>4. platform' = platform /\ known' = known
    BY <1>4 DEF BeginCall
  <2>5. op = "list_children" => Len(k.path.names) < 3
    BY <2>1 DEF MayBegin
  <2> QED
    BY <1>2, <2>2, <2>3, <2>4, <2>5 DEF CallInv, IsPath, InProgress
<1>5. CASE EngineStep /\ InProgress /\ Continues /\ call' # call
  <2>1. platform' = platform
    BY <1>5 DEF EngineStep
  <2>2. \A k \in known' : IsPath(k.path)'
    BY <1>5, <2>1, DiscoverKeepsPaths
  <2>3. InProgress' => call'.op # "none" /\ call'.at \in StepsOf[call'.op]
    BY <1>5 DEF CallInv, Continues, InProgress
  <2>4. CASE call.op = "list_children"
    <3>1. NamesListed
      BY <1>5, <2>4, StepsOfCalls, ListNames DEF DeleteCompletes
    <3> QED
      BY <1>2, <1>5, <2>1, <2>2, <2>3, <3>1
      DEF CallInv, Continues, IsPath, InProgress, NamesListed
  <2>5. CASE call.op # "list_children"
    <3>1. call'.at # "lookup"
      BY <1>5, <2>5 DEF CallInv, Continues, StepsOf, Calls
    <3> QED
      BY <1>2, <1>5, <2>1, <2>2, <2>3, <2>5, <3>1 DEF CallInv, Continues, IsPath, InProgress
  <2> QED
    BY <2>4, <2>5
<1>6. CASE Others
  BY <1>3, <1>6 DEF Others
<1>7. CASE EngineStep /\ call' = call
  <2>1. known' = known
    BY <1>7 DEF EngineStep, Discover, InProgress
  <2> QED
    BY <1>3, <1>7, <2>1 DEF EngineStep
<1> QED
  BY <1>4, <1>5, <1>6, <1>7, EngineStepFacts DEF Next

-----------------------------------------------------------------------------
(* delete *)

\* What a path stands for is an entry, if its parent is a directory.
LEMMA MeaningOfPath ==
    ASSUME EntriesInv, NEW path, IsPath(path)
    PROVE  LET p == Parent(path)
               n == LeafName(path)
           IN  /\ p \in Dirs => Meaning(path) = <<p, n, entries[p][n]>> /\ Meaning(path) # None
               /\ p \notin Dirs => Meaning(path) = None
<1> DEFINE p == Parent(path)
           n == LeafName(path)
<1>1. CASE p \in Dirs
  <2>1. Meaning(path) = <<p, n, entries[p][n]>>
    BY <1>1 DEF Meaning, At
  <2>2. n \in Names /\ entries[p][n] \in Nodes \cup {None}
    BY <1>1, LeafOfPath DEF EntriesInv
  <2>3. <<p, n, entries[p][n]>> \in Dirs \X Names \X (Nodes \cup {None})
    BY <1>1, <2>2
  <2> QED
    BY <1>1, <2>1, <2>3, FileSystemAssumption
<1>2. CASE p \notin Dirs
  BY <1>2 DEF Meaning
<1> QED
  BY <1>1, <1>2

\* What the path of the call stands for now, it has stood for.
LEMMA NowIsSeen ==
    ASSUME EntriesInv, CallInv, InProgress
    PROVE  LET p == Parent(call.path)
               n == LeafName(call.path)
           IN  /\ p \in Dirs => WasEntry(p, n) /\ WasObject(entries[p][n])
               /\ p \notin Dirs \/ entries[p][n] = None => WasNothing
<1> DEFINE p == Parent(call.path)
           n == LeafName(call.path)
<1>1. IsPath(call.path) /\ Meaning(call.path) \in seen
  BY DEF CallInv
<1>2. CASE p \in Dirs
  <2>1. PICK s \in seen \ {None} : s = <<p, n, entries[p][n]>>
    BY <1>1, <1>2, MeaningOfPath
  <2>2. s[1] = p /\ s[2] = n /\ s[3] = entries[p][n]
    BY <2>1
  <2> QED
    BY <1>2, <2>2 DEF WasEntry, WasObject, WasNothing
<1>3. CASE p \notin Dirs
  <2>1. None \in seen
    BY <1>1, <1>3, MeaningOfPath
  <2> QED
    BY <1>3, <2>1 DEF WasNothing
<1> QED
  BY <1>2, <1>3

\* What an entry holds now is what has been seen of it, if it is remembered.
LEMMA EntryNowIsSeen ==
    ASSUME EntriesInv, NEW d \in Dirs, NEW n \in Names, EntryNow(d, n) \in seen
    PROVE  /\ WasEntry(d, n) /\ WasObject(entries[d][n])
           /\ entries[d][n] = None => WasNothing
<1>1. entries[d][n] \in Nodes \cup {None}
  BY DEF EntriesInv
<1>2. EntryNow(d, n) # None
  BY <1>1, FileSystemAssumption DEF EntryNow
<1>3. PICK s \in seen \ {None} : s = <<d, n, entries[d][n]>>
  BY <1>2 DEF EntryNow
<1>4. s[1] = d /\ s[2] = n /\ s[3] = entries[d][n]
  BY <1>3
<1> QED
  BY <1>3, <1>4 DEF WasEntry, WasObject, WasNothing

\* An entry that is remembered is remembered with what is in it after the next step.
LEMMA EntryStaysSeen ==
    ASSUME EntriesInv, Observe, InProgress, NEW d \in Dirs, NEW n \in Names,
           EntryNow(d, n) \in seen
    PROVE  <<d, n, entries'[d][n]>> \in seen'
<1> DEFINE now(s) == <<s[1], s[2], entries'[s[1]][s[2]]>>
           e == EntryNow(d, n)
<1>1. e # None
  BY FileSystemAssumption DEF EntriesInv, EntryNow
<1>2. now(e) = <<d, n, entries'[d][n]>>
  BY DEF EntryNow
<1>3. {now(s) : s \in seen \ {None}} \subseteq seen'
  BY DEF Observe
<1> HIDE DEF now, e
<1>4. now(e) \in {now(s) : s \in seen \ {None}}
  BY <1>1 DEF e
<1> QED
  BY <1>2, <1>3, <1>4

\* What has been seen remains seen.
LEMMA SeenStaysSeen ==
    ASSUME seen \subseteq seen'
    PROVE  /\ WasNothing => WasNothing'
           /\ \A o : WasObject(o) => WasObject(o)'
           /\ \A d, n : WasEntry(d, n) => WasEntry(d, n)'
  BY DEF WasNothing, WasObject, WasEntry

\* The four ways in which a delete returns, each of them the truth.
LEMMA DeleteReturns ==
    ASSUME CallInv, DeleteInv, InProgress, call.op = "delete", seen \subseteq seen',
           \/ /\ Return(Answer("already_gone")) /\ WasNothing
           \/ \E category : /\ Return(Failed(category)) /\ category # "not_found"
                            /\ category = "not_empty" => call.as_dir
           \/ \E d \in Dirs, n \in Names :
                 /\ ReturnAfter(<<d, n, entries[d][n]>>, Answer("deleted"))
                 /\ WasEntry(d, n) \/ WasObject(entries[d][n])
    PROVE  DeleteInv' /\ AnswersAreTrue'
<1>1. IsCall(call) /\ call.done = {}
  BY DEF CallInv, DeleteInv
<1>2. CASE Return(Answer("already_gone")) /\ WasNothing
  <2>1. /\ call'.at = "idle" /\ call'.op = "delete" /\ call'.done = {}
        /\ call'.answer.kind = "already_gone"
    BY <1>1, <1>2, CallReturns, AnswerFacts
  <2>2. WasNothing'
    BY <1>2, SeenStaysSeen
  <2> QED
    BY <2>1, <2>2 DEF DeleteInv, AnswersAreTrue, Returned, InProgress, WasNothing
<1>3. ASSUME NEW category, Return(Failed(category)), category # "not_found",
             category = "not_empty" => call.as_dir
      PROVE  DeleteInv' /\ AnswersAreTrue'
  <2>1. /\ call'.at = "idle" /\ call'.op = "delete" /\ call'.done = {}
        /\ call'.answer.kind = "failed" /\ call'.answer.category = category
        /\ call'.as_dir = call.as_dir
    BY <1>1, <1>3, CallReturns, AnswerFacts
  <2> QED
    BY <1>3, <2>1 DEF DeleteInv, AnswersAreTrue, Returned, InProgress
<1>4. ASSUME NEW d \in Dirs, NEW n \in Names,
             ReturnAfter(<<d, n, entries[d][n]>>, Answer("deleted")),
             WasEntry(d, n) \/ WasObject(entries[d][n])
      PROVE  DeleteInv' /\ AnswersAreTrue'
  <2> DEFINE r == <<d, n, entries[d][n]>>
  <2>1. /\ call'.at = "idle" /\ call'.op = "delete" /\ call'.done = {r}
        /\ call'.answer.kind = "deleted"
    BY <1>1, <1>4, CallReturnsAfter, AnswerFacts
  <2>2. PICK s \in seen' \ {None} : (s[1] = d /\ s[2] = n) \/ s[3] = entries[d][n]
    BY <1>4 DEF WasEntry, WasObject
  <2>3. r \in call'.done /\ ((s[1] = r[1] /\ s[2] = r[2]) \/ s[3] = r[3])
    BY <2>1, <2>2
  <2>4. AnswersAreTrue'
    BY <2>1, <2>2, <2>3 DEF AnswersAreTrue, Returned, InProgress
  <2> QED
    BY <2>1, <2>4 DEF DeleteInv, InProgress
<1> QED
  BY <1>2, <1>3, <1>4

\* The steps of a delete on Linux and macOS.
LEMMA UnlinkSteps ==
    ASSUME NoBareNames, EntriesInv, CallInv, DeleteInv, InProgress, call.op = "delete",
           platform # "windows", platform' = platform, UnlinkOpen \/ Unlinkat,
           seen \subseteq seen', InProgress' => Meaning(call.path)' \in seen'
    PROVE  DeleteInv' /\ AnswersAreTrue'
<1> DEFINE p == ParentItself(call.path)
           n == LeafName(call.path)
<1>1. IsCall(call) /\ IsPath(call.path) /\ Parent(call.path) = p /\ n \in Names
  BY LeafOfPath DEF CallInv, Parent
<1>2. p \in Nodes \cup {None}
  BY <1>1, NamesOfPath, WithinFacts, FileSystemAssumption DEF ParentItself, IsPath, Nodes
<1>3. CASE UnlinkOpen
  <2>1. OpenParent(call.path) = p
    BY <1>1 DEF OpenParent, IsPath
  <2>2. CASE call' = [call EXCEPT !.at = "unlink", !.fd = p] /\ OpenErrors(p) = {}
    <3>1. p \in Dirs
      BY <1>2, <2>2 DEF OpenErrors, Nodes
    <3>2. /\ call'.at = "unlink" /\ call'.fd = p /\ call'.op = call.op
          /\ call'.path = call.path /\ call'.done = call.done
      BY <1>1, <2>2 DEF IsCall
    <3>3. ParentItself(call.path)' = p /\ LeafName(call.path)' = n /\ entries' = entries
      BY <1>3, <3>2 DEF UnlinkOpen, files, ParentItself, Above, Within, Follow, LeafName
    <3>4. Meaning(call.path)' = <<p, n, entries'[p][n]>>
      BY <3>1, <3>3 DEF Meaning, Parent, At
    <3>5. EntryNow(call.fd, LeafName(call.path))' \in seen'
      BY <3>2, <3>3, <3>4 DEF EntryNow, InProgress
    <3> QED
      BY <1>1, <3>1, <3>2, <3>5 DEF DeleteInv, AnswersAreTrue, Returned, InProgress
  <2>3. ASSUME NEW errno \in OpenErrors(p), Return(AnswerTo(errno))
        PROVE  DeleteInv' /\ AnswersAreTrue'
    <3>1. \/ errno = "ENOENT" /\ p = None
          \/ errno \in {"ELOOP", "ENOTDIR"}
      BY <2>3 DEF OpenErrors
    <3>2. CASE errno = "ENOENT" /\ p = None
      <4>1. WasNothing
        BY <1>1, <3>2, NowIsSeen, FileSystemAssumption DEF Nodes
      <4> QED
        BY <2>3, <3>2, <4>1, DeleteReturns DEF AnswerTo
    <3>3. CASE errno \in {"ELOOP", "ENOTDIR"}
      <4>1. /\ Categorize(errno) \in {"reparse_point_refused", "io"}
            /\ AnswerTo(errno) = Failed(Categorize(errno))
        BY <3>3 DEF Categorize, AnswerTo
      <4> QED
        BY <2>3, <4>1, DeleteReturns
    <3> QED
      BY <3>1, <3>2, <3>3
  <2> QED
    BY <1>3, <2>1, <2>2, <2>3 DEF UnlinkOpen
<1>4. CASE Unlinkat
  <2> DEFINE d == call.fd
             o == entries[d][n]
  <2>1. d \in Dirs /\ WasEntry(d, n) /\ (entries[d][n] = None => WasNothing)
    <3>1. d \in Dirs /\ EntryNow(d, n) \in seen
      BY <1>4 DEF DeleteInv, Unlinkat
    <3> QED
      BY <1>1, <3>1, EntryNowIsSeen
  <2>2. PICK errno \in UnlinkErrors(<<d, n>>, call.as_dir) :
           IF errno = "none"
           THEN ReturnAfter(Removing(<<d, n>>), Answer("deleted"))
           ELSE Return(AnswerTo(errno))
    BY <1>4 DEF Unlinkat
  <2>3. Removing(<<d, n>>) = <<d, n, o>> /\ At(<<d, n>>) = o
    BY DEF Removing, At
  <2>4. CASE errno = "none"
    BY <1>1, <2>1, <2>2, <2>3, <2>4, DeleteReturns
  <2>5. CASE errno = "ENOENT"
    <3>1. o = None
      BY <2>3, <2>5 DEF UnlinkErrors
    <3>2. WasNothing
      BY <2>1, <3>1
    <3>3. Return(Answer("already_gone"))
      BY <2>2, <2>5 DEF AnswerTo
    <3> QED
      BY <3>2, <3>3, DeleteReturns
  <2>6. CASE errno = "ENOTEMPTY"
    <3>1. call.as_dir
      BY <2>3, <2>6 DEF UnlinkErrors
    <3>2. Return(Failed("not_empty"))
      BY <2>2, <2>6 DEF AnswerTo, Categorize
    <3> QED
      BY <3>1, <3>2, DeleteReturns
  <2>7. CASE errno \in {"EACCES", "EPERM", "EISDIR", "ENOTDIR", "EBUSY"}
    <3>1. /\ Categorize(errno) \in {"access_denied", "sharing_violation", "io"}
          /\ Return(Failed(Categorize(errno)))
      BY <2>2, <2>7 DEF AnswerTo, Categorize
    <3> QED
      BY <3>1, DeleteReturns
  <2>8. errno \in {"none", "ENOENT", "ENOTEMPTY"}
                     \cup {"EACCES", "EPERM", "EISDIR", "ENOTDIR", "EBUSY"}
    BY <2>2 DEF UnlinkErrors
  <2> QED
    BY <2>4, <2>5, <2>6, <2>7, <2>8
<1> QED
  BY <1>3, <1>4

\* What Windows finds of the path of the call, the path has stood for.
LEMMA FoundIsSeen ==
    ASSUME UnicodeNames, EntriesInv, CallInv, InProgress, platform = "windows"
    PROVE  /\ Object(call.path) = None => WasNothing
           /\ WasObject(Object(call.path)) \/ Object(call.path) = None
           /\ \A e \in Entry(call.path) :
                 \E d \in Dirs, n \in Names : e = <<d, n>> /\ WasEntry(d, n)
<1> DEFINE p == ParentThrough(call.path)
           n == LeafName(call.path)
<1>1. /\ IsPath(call.path) /\ Parent(call.path) = p /\ n \in Names
      /\ "windows" \in Platforms
  BY LeafOfPath DEF CallInv, Parent
<1>2. CASE p \in Dirs
  <2>1. Entry(call.path) = {<<p, n>>} /\ Object(call.path) = entries[p][n]
    BY <1>1, <1>2, ObjectIsMeant
  <2>2. WasEntry(p, n) /\ WasObject(entries[p][n]) /\ (entries[p][n] = None => WasNothing)
    BY <1>1, <1>2, NowIsSeen
  <2> QED
    BY <1>1, <1>2, <2>1, <2>2
<1>3. CASE p \notin Dirs
  <2>1. Entry(call.path) = {} /\ Object(call.path) = None
    BY <1>1, <1>3, ObjectIsMeant
  <2>2. WasNothing
    BY <1>1, <1>3, NowIsSeen
  <2> QED
    BY <2>1, <2>2
<1> QED
  BY <1>2, <1>3

\* The steps of a delete on Windows.
LEMMA WindowsDeleteSteps ==
    ASSUME UnicodeNames, EntriesInv, CallInv, DeleteInv, InProgress, call.op = "delete",
           platform = "windows", platform' = platform, seen \subseteq seen',
           DispositionOpen \/ Dispose \/ Classic
    PROVE  DeleteInv' /\ AnswersAreTrue'
<1> DEFINE o == Object(call.path)
<1>1. IsCall(call) /\ call.done = {} /\ IsPath(call.path)
  BY DEF CallInv, DeleteInv
<1>2. ASSUME call' = [call EXCEPT !.at = "classic"]
      PROVE  DeleteInv' /\ AnswersAreTrue'
  <2>1. call'.at = "classic" /\ call'.op = "delete" /\ call'.done = {}
    BY <1>1, <1>2 DEF IsCall
  <2> QED
    BY <2>1 DEF DeleteInv, AnswersAreTrue, Returned, InProgress
<1>3. CASE DispositionOpen
  <2>1. PICK code \in OpenCodes(call.path, call.as_dir) :
           /\ code = 0 => call' = [call EXCEPT !.at = "dispose", !.fd = o]
           /\ code \in {2, 3} => Return(Answer("already_gone"))
           /\ code \notin {0, 2, 3} => call' = [call EXCEPT !.at = "classic"]
    BY <1>3 DEF DispositionOpen, IsNotFound
  <2>2. CASE code = 0
    <3>1. o # None
      BY <2>1, <2>2 DEF OpenCodes, NotThere
    <3>2. WasObject(o)
      BY <3>1, FoundIsSeen
    <3>3. call'.at = "dispose" /\ call'.fd = o /\ call'.op = "delete" /\ call'.done = {}
      BY <1>1, <2>1, <2>2 DEF IsCall
    <3>4. \E s \in seen' \ {None} : s[3] = o
      BY <3>2 DEF WasObject
    <3> QED
      BY <3>1, <3>3, <3>4 DEF DeleteInv, AnswersAreTrue, Returned, InProgress, WasObject
  <2>3. CASE code \in {2, 3}
    <3>1. o = None
      BY <2>1, <2>3 DEF OpenCodes
    <3> QED
      BY <2>1, <2>3, <3>1, FoundIsSeen, DeleteReturns
  <2> QED
    BY <1>2, <2>1, <2>2, <2>3
<1>4. CASE Dispose
  <2>1. CASE call' = [call EXCEPT !.at = "classic"]
    BY <1>2, <2>1
  <2>2. ASSUME NEW e \in Dirs \X Names, At(e) = call.fd,
               ReturnAfter(Removing(e), Answer("deleted"))
        PROVE  DeleteInv' /\ AnswersAreTrue'
    <3>1. PICK d \in Dirs, n \in Names : e = <<d, n>>
      OBVIOUS
    <3>2. Removing(e) = <<d, n, entries[d][n]>> /\ entries[d][n] = call.fd
      BY <2>2, <3>1 DEF Removing, At
    <3>3. WasObject(entries[d][n])
      BY <1>4, <3>2 DEF Dispose, DeleteInv
    <3> QED
      BY <2>2, <3>2, <3>3, DeleteReturns
  <2> QED
    BY <1>4, <2>1, <2>2 DEF Dispose
<1>5. CASE Classic
  <2>1. PICK code \in ClassicCodes(call.path, call.as_dir) :
           \/ /\ code = 0
              /\ \E e \in Entry(call.path) : ReturnAfter(Removing(e), Answer("deleted"))
           \/ /\ code \in {2, 3}
              /\ Return(Answer("already_gone"))
           \/ /\ code \notin {0, 2, 3}
              /\ Return(Failed(Category(code)))
    BY <1>5 DEF Classic, IsNotFound
  <2>2. CASE code = 0
    <3>1. PICK e \in Entry(call.path) : ReturnAfter(Removing(e), Answer("deleted"))
      BY <2>1, <2>2
    <3>2. PICK d \in Dirs, n \in Names : e = <<d, n>> /\ WasEntry(d, n)
      BY <3>1, FoundIsSeen
    <3>3. Removing(e) = <<d, n, entries[d][n]>>
      BY <3>2 DEF Removing, At
    <3> QED
      BY <3>1, <3>2, <3>3, DeleteReturns
  <2>3. CASE code \in {2, 3}
    <3>1. o = None
      BY <2>1, <2>3 DEF ClassicCodes
    <3> QED
      BY <2>1, <2>3, <3>1, FoundIsSeen, DeleteReturns
  <2>4. CASE code \notin {0, 2, 3}
    <3>1. code \in {5, 267, 145, 32} /\ (code = 145 => call.as_dir)
      BY <2>1, <2>4 DEF ClassicCodes, NotThere, IsDirectory
    <3>2. /\ code = 145 => Category(code) = "not_empty"
          /\ code # 145 => Category(code) \in {"access_denied", "sharing_violation", "io"}
      BY <3>1 DEF Category
    <3>3. Return(Failed(Category(code)))
      BY <2>1, <2>4
    <3> QED
      BY <3>1, <3>2, <3>3, DeleteReturns
  <2> QED
    BY <2>2, <2>3, <2>4
<1> QED
  BY <1>3, <1>4, <1>5

\* While the call stands still, or has returned, what is known of it remains true.
LEMMA DeleteStandsStill ==
    ASSUME EntriesInv, CallInv, DeleteInv, AnswersAreTrue,
           call' = call, platform' = platform, Observe
    PROVE  DeleteInv' /\ AnswersAreTrue'
<1>1. CASE InProgress /\ call.op = "delete"
  <2>1. seen \subseteq seen' /\ InProgress'
    BY <1>1 DEF Observe, InProgress
  <2>2. CASE call.at = "unlink"
    <3> DEFINE n == LeafName(call.path)
    <3>1. platform # "windows" /\ call.fd \in Dirs /\ EntryNow(call.fd, n) \in seen
      BY <1>1, <2>2 DEF DeleteInv
    <3>2. n \in Names
      BY <1>1, LeafOfPath DEF CallInv
    <3>3. EntryNow(call.fd, LeafName(call.path))' \in seen'
      BY <1>1, <3>1, <3>2, EntryStaysSeen DEF EntryNow, LeafName
    <3> QED
      BY <1>1, <2>1, <2>2, <3>1, <3>3 DEF DeleteInv, AnswersAreTrue, Returned, InProgress
  <2>3. CASE call.at = "dispose"
    <3>1. WasObject(call.fd)' /\ call.fd # None
      BY <1>1, <2>1, <2>3 DEF DeleteInv, WasObject
    <3> QED
      BY <1>1, <2>1, <2>3, <3>1 DEF DeleteInv, AnswersAreTrue, Returned, InProgress
  <2>4. CASE call.at \notin {"unlink", "dispose"}
    BY <1>1, <2>1, <2>4 DEF DeleteInv, AnswersAreTrue, Returned, InProgress
  <2> QED
    BY <2>2, <2>3, <2>4
<1>2. CASE ~ InProgress
  <2>1. seen' = seen
    BY <1>2 DEF Observe, InProgress
  <2> QED
    BY <1>2, <2>1 DEF DeleteInv, AnswersAreTrue, Returned, InProgress
<1>3. CASE call.op # "delete"
  BY <1>3 DEF DeleteInv, AnswersAreTrue, Returned
<1> QED
  BY <1>1, <1>2, <1>3

\* Every step keeps what is known of a delete, and its answer true.
LEMMA DeleteNext ==
    ASSUME UnicodeNames, NoBareNames, EntriesInv, CallInv, CallInv',
           DeleteInv, AnswersAreTrue, Next
    PROVE  DeleteInv' /\ AnswersAreTrue'
<1>1. Observe
  BY DEF Next
<1>2. CASE BeginCall
  <2>1. PICK op \in Calls, k \in known, opts \in Options : Begin(op, k.path, k.is_dir, opts)
    BY <1>2 DEF BeginCall
  <2>2. /\ call'.op = op /\ call'.at = op /\ call'.done = {} /\ op # "idle"
        /\ op \notin {"unlink", "dispose"}
    BY <2>1, CallBegins DEF Calls
  <2> QED
    BY <2>2 DEF DeleteInv, AnswersAreTrue, Returned, InProgress
<1>3. CASE EngineStep /\ InProgress /\ call' # call
  <2>1. platform' = platform /\ seen \subseteq seen' /\ call'.op = call.op
    BY <1>1, <1>3, EngineStepFacts DEF Observe, Continues
  <2>2. CASE call.op = "delete"
    <3>1. DeleteStep
      BY <1>3, <2>2, StepsOfCalls DEF DeleteCompletes
    <3>2. InProgress' => Meaning(call.path)' \in seen'
      BY <1>1 DEF Observe, InProgress
    <3> QED
      BY <1>3, <2>1, <2>2, <3>1, <3>2, UnlinkSteps, WindowsDeleteSteps DEF DeleteStep
  <2>3. CASE call.op # "delete"
    BY <2>1, <2>3 DEF DeleteInv, AnswersAreTrue, Returned
  <2> QED
    BY <2>2, <2>3
<1>4. CASE (EngineStep \/ Others) /\ call' = call
  <2>1. platform' = platform
    BY <1>4 DEF EngineStep, Others
  <2> QED
    BY <1>1, <1>4, <2>1, DeleteStandsStill
<1> QED
  BY <1>2, <1>3, <1>4, EngineStepFacts DEF Next, Others

-----------------------------------------------------------------------------
(* The theorem about delete. *)

Inv == EntriesInv /\ CallInv

\* Inv holds at first.
LEMMA InvInit ==
    ASSUME Init
    PROVE  Inv
  BY EntriesInit, CallInit DEF Inv

\* Every step keeps Inv.
LEMMA InvNext ==
    ASSUME Inv, [Next]_engineVars
    PROVE  Inv' /\ (Moves \/ UNCHANGED engineVars)
<1>1. CASE Next
  BY <1>1, NextMoves, CallNext DEF Inv
<1>2. CASE UNCHANGED engineVars
  <2>1. UNCHANGED <<files, engine, known>>
    BY <1>2 DEF engineVars
  <2>2. Meaning(call.path)' = Meaning(call.path)
    BY <2>1 DEF Meaning, Parent, ParentThrough, ParentItself, Above, Within, Follow, At,
       LeafName, files, engine
  <2>3. EntriesInv'
    BY <2>1 DEF Inv, EntriesInv, files
  <2>4. CallInv'
    BY <2>1, <2>2 DEF Inv, CallInv, IsPath, InProgress, engine
  <2> QED
    BY <1>2, <2>3, <2>4 DEF Inv
<1> QED
  BY <1>1, <1>2

\* The directories, the paths and the calls are what their types say, and no directory
\* comes from Outside or goes there.
THEOREM EngineIsWellFormed == Spec => []Inv
<1>1. Init => Inv
  BY InvInit
<1>2. Inv /\ [Next]_engineVars => Inv'
  BY InvNext
<1> QED
  BY <1>1, <1>2, PTL DEF Spec

DeleteTruth == DeleteInv /\ AnswersAreTrue

\* What a delete answers is true: engine.rs:118-125.
THEOREM AnswersAreTrueHolds ==
    ASSUME UnicodeNames, NoBareNames
    PROVE  Spec => []AnswersAreTrue
<1>1. Init => DeleteTruth
  <2>1. Init => call.op = "none"
    BY DEF Init, NoCall
  <2> QED
    BY <2>1 DEF DeleteTruth, DeleteInv, AnswersAreTrue, Returned
<1>2. Inv /\ Inv' /\ DeleteTruth /\ [Next]_engineVars => DeleteTruth'
  <2> SUFFICES ASSUME Inv, Inv', DeleteTruth, [Next]_engineVars
               PROVE  DeleteTruth'
    OBVIOUS
  <2>1. CASE Next
    BY <2>1, NextMoves, DeleteNext DEF Inv, DeleteTruth
  <2>2. CASE UNCHANGED engineVars
    BY <2>2 DEF DeleteTruth, DeleteInv, AnswersAreTrue, Returned, InProgress, EntryNow,
       WasObject, LeafName, engineVars, files, engine
  <2> QED
    BY <2>1, <2>2
<1>3. DeleteTruth => AnswersAreTrue
  BY DEF DeleteTruth
<1> QED
  BY <1>1, <1>2, <1>3, EngineIsWellFormed, PTL DEF Spec

-----------------------------------------------------------------------------
(* list_children *)

\* Both engines tell of an object what it is.
LEMMA ChildTells ==
    ASSUME NEW n, NEW o
    PROVE  Tells(Child(n, o), n, o) /\ Tells(FoundChild(n, o), n, o)
<1>1. ~ (o \in Dirs /\ o \in Links)
  BY FileSystemAssumption
<1>2. Tells(Child(n, o), n, o)
  BY <1>1 DEF Child, Tells
<1>3. Tells(FoundChild(n, o), n, o)
  BY <1>1 DEF FoundChild, Tells, IsDirectory
<1> QED
  BY <1>2, <1>3

\* A name that is told for the first time is told once.
LEMMA ToldNow ==
    ASSUME NEW n, NEW o, NEW found, NEW c, Tells(c, n, o), \A d \in found : d.name # n
    PROVE  ToldOnce(n, o, found \cup {c})
<1>1. c.name = n
  BY DEF Tells
<1>2. {d \in found \cup {c} : d.name = n} = {c}
  BY <1>1
<1> QED
  BY <1>2 DEF ToldOnce

\* A name that was told once stays so when another is told.
LEMMA ToldBefore ==
    ASSUME NEW m, NEW o, NEW found, NEW c, ToldOnce(m, o, found), c.name # m
    PROVE  ToldOnce(m, o, found \cup {c})
<1>1. PICK b \in found : {d \in found : d.name = m} = {b} /\ Tells(b, m, o)
  BY DEF ToldOnce
<1>2. {d \in found \cup {c} : d.name = m} = {b}
  BY <1>1
<1> QED
  BY <1>1, <1>2 DEF ToldOnce

\* What has been there all along has been there before the step, and is there after it.
LEMMA StableStep ==
    ASSUME EntriesInv, ListInv, call.op = "list_children", Reading, Observe,
           call'.op = "list_children", call'.fd = call.fd
    PROVE  \A e \in stable' : /\ e \in stable /\ e = <<e[1], e[2]>> /\ e[1] \in Names
                              /\ e[2] # None /\ entries[call.fd][e[1]] = e[2]
                              /\ entries'[call.fd][e[1]] = e[2]
<1>1. call.fd \in Dirs /\ call.fd # None /\ InProgress
  BY FileSystemAssumption DEF ListInv, Reading, InProgress, Nodes
<1>2. stable' = stable \cap ({<<n, entries'[call.fd][n]>> : n \in Names}
                                \ {<<n, None>> : n \in Names})
  BY <1>1 DEF Observe
<1>3. ASSUME NEW e \in stable'
      PROVE  /\ e \in stable /\ e = <<e[1], e[2]>> /\ e[1] \in Names
             /\ e[2] # None /\ entries[call.fd][e[1]] = e[2]
  BY <1>2 DEF ListInv
<1>4. ASSUME NEW e \in stable'
      PROVE  entries'[call.fd][e[1]] = e[2]
  <2>1. PICK n \in Names : e = <<n, entries'[call.fd][n]>>
    BY <1>2
  <2> QED
    BY <2>1
<1> QED
  BY <1>3, <1>4

\* A listing goes on: what was to come, or was looked up, is still to come, or is told.
LEMMA ListGoesOn ==
    ASSUME EntriesInv, ListInv, call.op = "list_children", Reading, Observe,
           IsCall(call'), call'.op = "list_children", call'.fd = call.fd,
           call'.at \in {"read", "lookup", "find_next"},
           call'.at = "lookup" => \E n \in Names \ call'.rest : call'.done = {<<"name", n>>},
           \/ /\ call'.rest \cup LookedUp' = call.rest \cup LookedUp
              /\ call'.found = call.found
           \/ \E n \in call.rest \cup LookedUp :
                 /\ call'.rest \cup LookedUp' = (call.rest \cup LookedUp) \ {n}
                 /\ \/ entries[call.fd][n] = None /\ call'.found = call.found
                    \/ \E c : /\ Tells(c, n, entries[call.fd][n])
                              /\ call'.found = call.found \cup {c}
    PROVE  ListInv'
<1> DEFINE o(n) == entries[call.fd][n]
           left == call.rest \cup LookedUp
           Left == call'.rest \cup LookedUp'
<1>1. \A e \in stable' : /\ e \in stable /\ e = <<e[1], e[2]>> /\ e[1] \in Names
                         /\ e[2] # None /\ o(e[1]) = e[2]
                         /\ entries'[call.fd][e[1]] = e[2]
  BY StableStep
<1>2. /\ call.fd \in Dirs
      /\ \A e \in stable : e[1] \in left \/ ToldOnce(e[1], e[2], call.found)
      /\ \A c \in call.found : c.name \notin left
  BY DEF ListInv, Reading
<1>3. /\ \A e \in stable' : e[1] \in Left \/ ToldOnce(e[1], e[2], call'.found)
      /\ \A c \in call'.found : c.name \notin Left
  <2>1. CASE Left = left /\ call'.found = call.found
    BY <1>1, <1>2, <2>1
  <2>2. ASSUME NEW n \in left, Left = left \ {n},
               o(n) = None, call'.found = call.found
        PROVE  /\ \A e \in stable' : e[1] \in Left \/ ToldOnce(e[1], e[2], call'.found)
               /\ \A c \in call'.found : c.name \notin Left
    BY <1>1, <1>2, <2>2
  <2>3. ASSUME NEW n \in left, Left = left \ {n}, NEW c, Tells(c, n, o(n)),
               call'.found = call.found \cup {c}
        PROVE  /\ \A e \in stable' : e[1] \in Left \/ ToldOnce(e[1], e[2], call'.found)
               /\ \A d \in call'.found : d.name \notin Left
    <3>1. c.name = n
      BY <2>3 DEF Tells
    <3>2. \A d \in call.found : d.name # n
      BY <1>2
    <3>3. ASSUME NEW e \in stable', e[1] \notin Left
          PROVE  ToldOnce(e[1], e[2], call'.found)
      <4>1. CASE e[1] = n
        <5>1. e[2] = o(n)
          BY <1>1, <4>1
        <5>2. ToldOnce(n, o(n), call.found \cup {c})
          BY <2>3, <3>2, ToldNow
        <5> QED
          BY <2>3, <4>1, <5>1, <5>2
      <4>2. CASE e[1] # n
        <5>1. ToldOnce(e[1], e[2], call.found)
          BY <1>1, <1>2, <2>3, <3>3, <4>2
        <5>2. ToldOnce(e[1], e[2], call.found \cup {c})
          BY <3>1, <4>2, <5>1, ToldBefore
        <5> QED
          BY <2>3, <5>2
      <4> QED
        BY <4>1, <4>2
    <3> QED
      BY <1>2, <2>3, <3>1, <3>3
  <2> QED
    BY <2>1, <2>2, <2>3
<1>4. InProgress'
  BY DEF InProgress
<1> HIDE DEF o
<1> QED
  BY <1>1, <1>2, <1>3, <1>4 DEF ListInv, Reading

\* A listing begins: everything is still to come.
LEMMA ListOpens ==
    ASSUME EntriesInv, CallInv, ListInv, call.op = "list_children",
           call.at = "list_children", Observe, NEW dir \in Dirs,
           NEW at \in {"read", "find_next"}, UNCHANGED entries,
           call' = [call EXCEPT !.at = at, !.fd = dir, !.rest = Names]
    PROVE  ListInv'
<1>1. /\ call'.at = at /\ call'.fd = dir /\ call'.rest = Names /\ call'.found = {}
      /\ call'.op = "list_children"
  BY DEF CallInv, IsCall, ListInv
<1>2. call.fd = None /\ dir # None
  BY FileSystemAssumption DEF ListInv, Nodes
<1>3. stable' = {<<n, entries[dir][n]>> : n \in Names} \ {<<n, None>> : n \in Names}
  BY <1>1, <1>2 DEF Observe
<1>4. ASSUME NEW e \in stable'
      PROVE  /\ e = <<e[1], e[2]>> /\ e[1] \in Names /\ e[2] # None /\ entries[dir][e[1]] = e[2]
  BY <1>3
<1>5. LookedUp' = {}
  BY <1>1 DEF LookedUp
<1> QED
  BY <1>1, <1>4, <1>5 DEF ListInv, Reading, InProgress

\* A listing fails.
LEMMA ListFails ==
    ASSUME call'.at = "idle", call'.answer.kind = "failed"
    PROVE  ListInv'
  BY DEF ListInv, Reading, InProgress

\* A listing succeeds: nothing is still to come.
LEMMA ListSucceeds ==
    ASSUME EntriesInv, CallInv, ListInv, call.op = "list_children",
           call.at \in {"read", "find_next"}, call.rest = {}, Return(Listing(call.found)),
           Observe
    PROVE  ListInv'
<1>1. /\ call'.at = "idle" /\ call'.op = "list_children" /\ call'.fd = call.fd
      /\ call'.answer.children = call.found
  BY CallReturns, AnswerFacts DEF CallInv
<1>2. Reading /\ LookedUp = {}
  BY DEF Reading, LookedUp
<1>3. \A e \in stable' : e \in stable
  BY <1>1, <1>2, StableStep
<1>4. \A e \in stable : ToldOnce(e[1], e[2], call.found)
  BY <1>2 DEF ListInv
<1> QED
  BY <1>1, <1>3, <1>4 DEF ListInv, Reading, InProgress

\* The steps of a listing keep ListInv.
LEMMA ListSteps ==
    ASSUME EntriesInv, CallInv, ListInv, call.op = "list_children", ListStep, Observe
    PROVE  ListInv'
<1>1. IsCall(call)
  BY DEF CallInv
<1>2. ASSUME Return(Answer("failed"))
      PROVE  ListInv'
  BY <1>1, <1>2, CallReturns, AnswerFacts, ListFails
<1>3. CASE OpenDir
  <2>1. PICK dir : \/ Return(Answer("failed"))
                   \/ /\ OpenErrors(dir) = {} /\ dir \in Nodes \cup {None}
                      /\ call' = [call EXCEPT !.at = "read", !.fd = dir, !.rest = Names]
    <3> DEFINE d == Within(ParentThrough(call.path), LeafName(call.path))
    <3>1. d \in Nodes \cup {None}
      BY LeafOfPath, WithinFacts DEF CallInv
    <3>2. \/ Return(Answer("failed"))
          \/ /\ OpenErrors(d) = {}
             /\ call' = [call EXCEPT !.at = "read", !.fd = d, !.rest = Names]
      BY <1>3 DEF OpenDir
    <3> HIDE DEF d
    <3> QED
      BY <3>1, <3>2
  <2>2. OpenErrors(dir) = {} /\ dir \in Nodes \cup {None} => dir \in Dirs
    BY DEF OpenErrors, Nodes
  <2>3. CASE /\ OpenErrors(dir) = {} /\ dir \in Nodes \cup {None}
             /\ call' = [call EXCEPT !.at = "read", !.fd = dir, !.rest = Names]
    <3>1. call.at = "list_children" /\ UNCHANGED entries
      BY <1>3 DEF OpenDir, files
    <3> QED
      BY <2>2, <2>3, <3>1, ListOpens
  <2> QED
    BY <1>2, <2>1, <2>3
<1>4. CASE FindFirst
  <2>1. PICK dir : \/ Return(Answer("failed"))
                   \/ /\ dir \in Dirs
                      /\ call' = [call EXCEPT !.at = "find_next", !.fd = dir, !.rest = Names]
    BY <1>4 DEF FindFirst
  <2>2. call.at = "list_children" /\ UNCHANGED entries
    BY <1>4 DEF FindFirst, files
  <2> QED
    BY <1>2, <2>1, <2>2, ListOpens
<1>5. ASSUME NEW n \in Names, ReadEntry(n)
      PROVE  ListInv'
  <2> DEFINE o == entries[call.fd][n]
  <2>1. call.at = "read" /\ n \in call.rest /\ Reading /\ LookedUp = {}
    BY <1>5 DEF ReadEntry, Reading, LookedUp
  <2>2. CASE call' = [call EXCEPT !.at = "lookup", !.rest = @ \ {n}, !.done = {<<"name", n>>}]
    <3>1. /\ IsCall(call') /\ call'.op = "list_children" /\ call'.fd = call.fd
          /\ call'.at = "lookup" /\ call'.rest = call.rest \ {n} /\ call'.found = call.found
          /\ call'.done = {<<"name", n>>}
      BY <1>1, <2>2 DEF IsCall
    <3>2. LookedUp' = {n}
      <4>1. LookedUp' = {e[2] : e \in {<<"name", n>>}}
        BY <3>1 DEF LookedUp
      <4> QED
        BY <4>1
    <3>3. call'.rest \cup LookedUp' = call.rest \cup LookedUp
      BY <2>1, <3>1, <3>2
    <3> QED
      BY <2>1, <3>1, <3>3, ListGoesOn
  <2>3. CASE call' = [call EXCEPT !.rest = @ \ {n},
                          !.found = IF o = None THEN @ ELSE @ \cup {Child(n, o)}]
    <3>1. PICK c : Tells(c, n, o) /\ c = Child(n, o)
      BY ChildTells
    <3>2. /\ IsCall(call') /\ call'.op = "list_children" /\ call'.fd = call.fd
          /\ call'.at = "read" /\ call'.rest = call.rest \ {n}
          /\ call'.found = IF o = None THEN call.found ELSE call.found \cup {c}
      BY <1>1, <2>1, <2>3, <3>1 DEF IsCall
    <3>3. LookedUp' = {}
      BY <3>2 DEF LookedUp
    <3>4. call'.rest \cup LookedUp' = (call.rest \cup LookedUp) \ {n}
      BY <2>1, <3>2, <3>3
    <3> HIDE DEF o
    <3> QED
      BY <2>1, <3>1, <3>2, <3>4, ListGoesOn DEF o
  <2> QED
    BY <1>5, <2>2, <2>3 DEF ReadEntry
<1>6. CASE LookupMetadata
  <2>1. PICK n \in Names \ call.rest : call.done = {<<"name", n>>}
    BY <1>6 DEF LookupMetadata, ListInv, Reading
  <2>2. call.at = "lookup" /\ Reading
    BY <1>6 DEF LookupMetadata, Reading
  <2>3. LookedUp = {n}
    <3>1. LookedUp = {e[2] : e \in {<<"name", n>>}}
      BY <2>1, <2>2 DEF LookedUp
    <3> QED
      BY <3>1
  <2>4. PICK entry \in call.done :
           \/ call' = [call EXCEPT !.at = "read", !.done = {},
                          !.found = IF entries[call.fd][entry[2]] = None THEN @
                                    ELSE @ \cup {Child(entry[2], entries[call.fd][entry[2]])}]
           \/ call' = [call EXCEPT !.at = "idle", !.done = {}, !.answer = Answer("failed")]
    BY <1>6 DEF LookupMetadata
  <2>5. entry[2] = n
    BY <2>1, <2>4
  <2> DEFINE o == entries[call.fd][entry[2]]
  <2>6. CASE call' = [call EXCEPT !.at = "read", !.done = {},
                          !.found = IF o = None THEN @ ELSE @ \cup {Child(entry[2], o)}]
    <3>1. PICK c : Tells(c, entry[2], o) /\ c = Child(entry[2], o)
      BY ChildTells
    <3>2. /\ IsCall(call') /\ call'.op = "list_children" /\ call'.fd = call.fd
          /\ call'.at = "read" /\ call'.rest = call.rest
          /\ call'.found = IF o = None THEN call.found ELSE call.found \cup {c}
      BY <1>1, <2>6, <3>1 DEF IsCall
    <3>3. LookedUp' = {}
      BY <3>2 DEF LookedUp
    <3>4. call'.rest \cup LookedUp' = (call.rest \cup LookedUp) \ {n}
      BY <2>1, <2>3, <3>2, <3>3
    <3>5. o = entries[call.fd][n] /\ Tells(c, n, o) /\ n \in call.rest \cup LookedUp
      BY <2>3, <2>5, <3>1
    <3> HIDE DEF o
    <3> QED
      BY <2>2, <3>2, <3>4, <3>5, ListGoesOn
  <2>7. CASE call' = [call EXCEPT !.at = "idle", !.done = {}, !.answer = Answer("failed")]
    BY <1>1, <2>7, AnswerFacts, ListFails DEF IsCall
  <2> QED
    BY <2>4, <2>6, <2>7
<1>7. ASSUME NEW n \in Names, FindNext(n)
      PROVE  ListInv'
  <2> DEFINE o == entries[call.fd][n]
  <2>1. call.at = "find_next" /\ n \in call.rest /\ Reading /\ LookedUp = {}
    BY <1>7 DEF FindNext, Reading, LookedUp
  <2>2. PICK c : Tells(c, n, o) /\ c = FoundChild(n, o)
    BY ChildTells
  <2>3. /\ IsCall(call') /\ call'.op = "list_children" /\ call'.fd = call.fd
        /\ call'.at = "find_next" /\ call'.rest = call.rest \ {n}
        /\ call'.found = IF o = None THEN call.found ELSE call.found \cup {c}
    BY <1>1, <1>7, <2>1, <2>2 DEF IsCall, FindNext
  <2>4. LookedUp' = {}
    BY <2>3 DEF LookedUp
  <2>5. call'.rest \cup LookedUp' = (call.rest \cup LookedUp) \ {n}
    BY <2>1, <2>3, <2>4
  <2> HIDE DEF o
  <2> QED
    BY <2>1, <2>2, <2>3, <2>5, ListGoesOn DEF o
<1>8. CASE EndOfStream \/ FindEnds
  BY <1>2, <1>8, ListSucceeds DEF EndOfStream, FindEnds
<1> QED
  BY <1>3, <1>4, <1>5, <1>6, <1>7, <1>8 DEF ListStep

\* While the call stands still, what has been there all along is there.
LEMMA ListStandsStill ==
    ASSUME EntriesInv, ListInv, call' = call, Observe
    PROVE  ListInv'
<1>1. CASE call.op = "list_children" /\ Reading
  <2>1. call.fd \in Dirs /\ LookedUp' = LookedUp /\ Reading' /\ InProgress'
    BY <1>1 DEF ListInv, LookedUp, Reading, InProgress
  <2>2. \A e \in stable' : /\ e \in stable /\ e = <<e[1], e[2]>> /\ e[1] \in Names
                           /\ e[2] # None /\ entries'[call.fd][e[1]] = e[2]
    BY <1>1, StableStep
  <2> QED
    BY <1>1, <2>1, <2>2 DEF ListInv, Reading
<1>2. CASE call.op = "list_children" /\ ~ Reading
  <2>1. stable' = {} \/ stable' = stable \/ InProgress
    BY <1>2 DEF Observe
  <2> QED
    BY <1>2, <2>1 DEF ListInv, Reading, InProgress
<1>3. CASE call.op # "list_children"
  BY <1>3 DEF ListInv
<1> QED
  BY <1>1, <1>2, <1>3

\* Every step keeps ListInv.
LEMMA ListNext ==
    ASSUME EntriesInv, CallInv, ListInv, Next
    PROVE  ListInv'
<1>1. Observe
  BY DEF Next
<1>2. CASE BeginCall
  <2>1. PICK op \in Calls, k \in known, opts \in Options : Begin(op, k.path, k.is_dir, opts)
    BY <1>2 DEF BeginCall
  <2>2. /\ call'.op = op /\ call'.at = op /\ call'.fd = None /\ call'.found = {}
        /\ op \notin {"idle", "read", "lookup", "find_next"}
    BY <2>1, CallBegins DEF Calls
  <2> QED
    BY <2>2 DEF ListInv, Reading, InProgress
<1>3. CASE EngineStep /\ InProgress /\ call' # call
  <2>1. CASE call.op = "list_children"
    <3>1. ListStep
      BY <1>3, <2>1, StepsOfCalls DEF DeleteCompletes
    <3> QED
      BY <1>1, <2>1, <3>1, ListSteps
  <2>2. CASE call.op # "list_children"
    <3>1. call'.op = call.op
      BY <1>3, EngineStepFacts DEF Continues
    <3> QED
      BY <2>2, <3>1 DEF ListInv
  <2> QED
    BY <2>1, <2>2
<1>4. CASE (EngineStep \/ Others) /\ call' = call
  BY <1>1, <1>4, ListStandsStill
<1> QED
  BY <1>2, <1>3, <1>4, EngineStepFacts DEF Next, Others

\* A listing that succeeds has everything that was there all along, once, and for what it
\* is: dirlist.rs.
THEOREM ListingIsCompleteHolds == Spec => []ListingIsComplete
<1>1. Init => ListInv
  <2>1. Init => call.op = "none"
    BY DEF Init, NoCall
  <2> QED
    BY <2>1 DEF ListInv
<1>2. Inv /\ ListInv /\ [Next]_engineVars => ListInv'
  <2> SUFFICES ASSUME Inv, ListInv, [Next]_engineVars
               PROVE  ListInv'
    OBVIOUS
  <2>1. CASE Next
    BY <2>1, ListNext DEF Inv
  <2>2. CASE UNCHANGED engineVars
    BY <2>2 DEF ListInv, Reading, LookedUp, InProgress, engineVars, files, engine
  <2> QED
    BY <2>1, <2>2
<1>3. ListInv => ListingIsComplete
  <2> SUFFICES ASSUME ListInv, Returned("list_children"), call.answer.kind = "listed",
                      NEW e \in stable
               PROVE  \E c \in call.answer.children :
                         /\ {d \in call.answer.children : d.name = e[1]} = {c}
                         /\ Tells(c, e[1], e[2])
    BY DEF ListingIsComplete, Tells
  <2>1. ToldOnce(e[1], e[2], call.answer.children)
    BY DEF ListInv, Returned
  <2> QED
    BY <2>1 DEF ToldOnce
<1> QED
  BY <1>1, <1>2, <1>3, EngineIsWellFormed, PTL DEF Spec

-----------------------------------------------------------------------------
(* resolve_local_lock *)

\* The steps of ending the holders of a file keep LockInv.
LEMMA LockSteps ==
    ASSUME CallInv, LockInv, call.op = "resolve_local_lock", LockStep
    PROVE  LockInv'
<1>1. IsCall(call)
  BY DEF CallInv
<1>2. ASSUME NEW kind, kind # "resolved", Return(Answer(kind)), call.at = "resolve_local_lock"
      PROVE  LockInv'
  <2>1. /\ call'.at = "idle" /\ call'.done = {} /\ call'.answer.kind = kind
        /\ call'.found = call.found
    BY <1>1, <1>2, CallReturns, AnswerFacts DEF LockInv
  <2> QED
    BY <1>2, <2>1 DEF LockInv, InProgress
<1>3. ASSUME NEW pids \in SUBSET Processes, NEW at \in {"signal", "terminate"},
             call.at = "resolve_local_lock", call.opts.kill_locks,
             call' = [call EXCEPT !.at = at, !.rest = pids, !.found = pids]
      PROVE  LockInv'
  <2>1. /\ call'.at = at /\ call'.rest = pids /\ call'.found = pids /\ call'.done = {}
        /\ call'.opts = call.opts
    BY <1>1, <1>3 DEF IsCall, LockInv
  <2> QED
    BY <1>3, <2>1 DEF LockInv, InProgress
<1>4. CASE FindHolders
  <2>1. FindHoldingPids(call.path) \subseteq Processes
    BY DEF FindHoldingPids, HoldersOf, MacHolders
  <2> QED
    BY <1>2, <1>3, <1>4, <2>1 DEF FindHolders
<1>5. CASE RestartManager
  BY <1>2, <1>3, <1>5 DEF RestartManager
<1>6. ASSUME NEW p \in Processes, Signal(p) \/ Terminate(p)
      PROVE  LockInv'
  <2>1. call.at \in {"signal", "terminate"} /\ p \in call.rest
    BY <1>6 DEF Signal, Terminate
  <2>2. /\ call'.at = call.at /\ call'.rest = call.rest \ {p} /\ call'.found = call.found
        /\ call'.opts = call.opts
        /\ \/ call'.done = call.done
           \/ p \notin Protected \cup {Ours} /\ call'.done = call.done \cup {<<"signal", p>>}
    BY <1>1, <1>6 DEF IsCall, Signal, Terminate, IsProtectedPid, IsSpared
  <2>3. /\ call.rest \subseteq call.found /\ call.found \subseteq Processes
        /\ call.opts.kill_locks
        /\ call.done \subseteq Signals(call.found \ (Protected \cup {Ours}))
    BY <2>1 DEF LockInv
  <2>4. call'.done \subseteq Signals(call'.found \ (Protected \cup {Ours}))
    BY <2>1, <2>2, <2>3 DEF Signals
  <2> QED
    BY <2>1, <2>2, <2>3, <2>4 DEF LockInv, InProgress
<1>7. CASE Signalled \/ Terminated
  <2>1. /\ call.at \in {"signal", "terminate"}
        /\ Return(Answer(IF call.done = {} THEN "failed" ELSE "resolved"))
    BY <1>7 DEF Signalled, Terminated
  <2>2. /\ call'.at = "idle" /\ call'.done = call.done /\ call'.found = call.found
        /\ call'.opts = call.opts
        /\ call'.answer.kind = IF call.done = {} THEN "failed" ELSE "resolved"
    BY <1>1, <2>1, CallReturns, AnswerFacts
  <2> QED
    BY <2>1, <2>2 DEF LockInv, InProgress
<1> QED
  BY <1>4, <1>5, <1>6, <1>7 DEF LockStep

\* A step of a call of another kind, or of none, and the begin of one: whatever is said of
\* the calls of this kind goes on.
LEMMA StepKinds ==
    ASSUME EntriesInv, CallInv, Next
    PROVE  \/ \E op \in Calls : /\ call'.op = op /\ call'.at = op /\ call'.done = {}
                                /\ call'.found = {} /\ call'.fd = None /\ opens' = opens
           \/ EngineStep /\ InProgress /\ Continues /\ call' # call
           \/ call' = call /\ opens' = opens
<1>1. CASE BeginCall
  <2>1. PICK op \in Calls, k \in known, opts \in Options : Begin(op, k.path, k.is_dir, opts)
    BY <1>1 DEF BeginCall
  <2> QED
    BY <1>1, <2>1, CallBegins DEF BeginCall
<1>2. CASE EngineStep /\ call' = call
  <2>1. CASE platform # "windows"
    BY <1>2, <2>1 DEF EngineStep
  <2>2. CASE platform = "windows" /\ ~ DeleteCompletes
    <3>1. InProgress /\ Continues
      BY <1>2, <2>2, StepsOfCalls, DeleteContinues, RemediateContinues, LockContinues,
         CloseContinues, ListContinues
    <3>2. CASE \E id \in Opens : CloseRemote(id)
      BY <1>2, <3>1, <3>2 DEF CallInv, IsCall, CloseRemote
    <3>3. CASE ~ \E id \in Opens : CloseRemote(id)
      BY <1>2, <2>2, <3>3 DEF EngineStep, WindowsStep, DispositionOpen, Dispose, Classic,
         ClearReadonly, TakeOwnership, RestartManager, Terminate, Terminated, RemoteQuery,
         RemoteClosed, FindFirst, FindNext, FindEnds
    <3> QED
      BY <3>2, <3>3
  <2>3. CASE DeleteCompletes
    BY <1>2, <2>3 DEF DeleteCompletes
  <2> QED
    BY <2>1, <2>2, <2>3
<1>3. CASE Others
  BY <1>3 DEF Others
<1> QED
  BY <1>1, <1>2, <1>3, EngineStepFacts DEF Next

\* Every step keeps LockInv.
LEMMA LockNext ==
    ASSUME EntriesInv, CallInv, LockInv, Next
    PROVE  LockInv'
<1>1. ASSUME NEW op \in Calls, call'.op = op, call'.at = op, call'.done = {}, call'.found = {}
      PROVE  LockInv'
  BY <1>1 DEF LockInv, InProgress, Calls
<1>2. CASE EngineStep /\ InProgress /\ Continues /\ call' # call
  <2>1. CASE call.op = "resolve_local_lock"
    BY <1>2, <2>1, StepsOfCalls, LockSteps DEF DeleteCompletes
  <2>2. CASE call.op # "resolve_local_lock"
    BY <1>2, <2>2 DEF LockInv, Continues
  <2> QED
    BY <2>1, <2>2
<1>3. CASE call' = call
  BY <1>3 DEF LockInv, InProgress
<1> QED
  BY <1>1, <1>2, <1>3, StepKinds

\* Only processes found to have the object open are ended, and none that is protected:
\* lock.rs of each platform.
THEOREM LocksEndOnlyHoldersHolds == Spec => []LocksEndOnlyHolders
<1>1. Init => LockInv
  <2>1. Init => call.op = "none"
    BY DEF Init, NoCall
  <2> QED
    BY <2>1 DEF LockInv
<1>2. Inv /\ LockInv /\ [Next]_engineVars => LockInv'
  <2> SUFFICES ASSUME Inv, LockInv, [Next]_engineVars
               PROVE  LockInv'
    OBVIOUS
  <2>1. CASE Next
    BY <2>1, LockNext DEF Inv
  <2>2. CASE UNCHANGED engineVars
    BY <2>2 DEF LockInv, InProgress, engineVars, files, engine
  <2> QED
    BY <2>1, <2>2
<1>3. LockInv => LocksEndOnlyHolders
  <2> SUFFICES ASSUME LockInv, Returned("resolve_local_lock")
               PROVE  LocksEndOnlyHolders
    BY DEF LocksEndOnlyHolders
  <2> DEFINE ended == {p \in Processes : <<"signal", p>> \in call.done}
  <2>1. /\ call.found \subseteq Processes
        /\ call.done \subseteq Signals(call.found \ (Protected \cup {Ours}))
        /\ call.answer.kind = "resolved" <=> call.done # {}
        /\ call.done # {} => call.opts.kill_locks
    BY DEF LockInv, Returned
  <2>2. ended \subseteq call.found \ (Protected \cup {Ours})
    BY <2>1 DEF Signals
  <2>3. call.done = Signals(ended)
    BY <2>1 DEF Signals
  <2>4. Cardinality(call.done) = Cardinality(ended)
    <3> DEFINE f == [p \in ended |-> <<"signal", p>>]
    <3>1. IsFiniteSet(ended)
      BY FS_Subset, FileSystemAssumption
    <3>2. f \in Bijection(ended, call.done)
      BY <2>3 DEF Signals, Bijection, Injection, Surjection, IsInjective
    <3> QED
      BY <3>1, <3>2, FS_Bijection DEF ExistsBijection
  <2>5. call.done # {} <=> ended # {}
    BY <2>3 DEF Signals
  <2> HIDE DEF ended
  <2>6. /\ ended \subseteq call.found \ (Protected \cup {Ours})
        /\ call.answer.kind = "resolved" <=> ended # {}
        /\ ended # {} => call.opts.kill_locks
        /\ Cardinality(call.done) = Cardinality(ended)
    BY <2>1, <2>2, <2>4, <2>5
  <2> QED
    BY <2>6 DEF LocksEndOnlyHolders, ended
<1> QED
  BY <1>1, <1>2, <1>3, EngineIsWellFormed, PTL DEF Spec

-----------------------------------------------------------------------------
(* resolve_remote_lock *)

\* What a reversed sequence is.
LEMMA ReverseOf ==
    ASSUME NEW S, NEW s \in Seq(S)
    PROVE  /\ Reverse(s) \in Seq(S) /\ Len(Reverse(s)) = Len(s)
           /\ \A j \in 1 .. Len(s) : Reverse(s)[j] = s[Len(s) - j + 1]
<1>1. \A j \in 1 .. Len(s) : Len(s) - j + 1 \in 1 .. Len(s)
  OBVIOUS
<1>2. Reverse(s) \in [1 .. Len(s) -> S]
  BY <1>1 DEF Reverse
<1> QED
  BY <1>2 DEF Reverse

\* A suffix is the end of the sequence.
LEMMA SuffixOf ==
    ASSUME NEW S, NEW s \in Seq(S), NEW t \in Seq(S), IsSuffix(s, t)
    PROVE  /\ Len(s) <= Len(t)
           /\ \A i \in 1 .. Len(s) : s[i] = t[Len(t) - Len(s) + i]
<1> DEFINE m == Len(s)
           k == Len(t)
           rs == Reverse(s)
           rt == Reverse(t)
<1>1. /\ rs \in Seq(S) /\ Len(rs) = m /\ \A j \in 1 .. m : rs[j] = s[m - j + 1]
      /\ rt \in Seq(S) /\ Len(rt) = k /\ \A j \in 1 .. k : rt[j] = t[k - j + 1]
  BY ReverseOf
<1>2. m \in Nat /\ k \in Nat /\ m <= k /\ SubSeq(rs, 1, m) = SubSeq(rt, 1, m)
  BY <1>1 DEF IsSuffix, IsPrefix
<1> HIDE DEF rs, rt
<1>3. ASSUME NEW i \in 1 .. m
      PROVE  s[i] = t[k - m + i]
  <2>1. PICK j \in 1 .. m : j = m - i + 1
    <3>1. m - i + 1 \in 1 .. m
      BY <1>2
    <3> QED
      BY <3>1
  <2>2. SubSeq(rs, 1, m)[j] = rs[j] /\ SubSeq(rt, 1, m)[j] = rt[j]
    BY <1>1, <1>2
  <2>3. rs[j] = s[m - j + 1] /\ rt[j] = t[k - j + 1]
    BY <1>1, <1>2
  <2>4. m - j + 1 = i /\ k - j + 1 = k - m + i
    BY <1>2, <2>1
  <2> QED
    BY <1>2, <2>2, <2>3, <2>4
<1> QED
  BY <1>2, <1>3

\* A path of the server that ends with the full path of the object is that path: the drive
\* is in no other place.
LEMMA EndsWithIsEqual ==
    ASSUME NEW id \in Opens, NEW ns \in NameSeqs, EndsWith(OpenPath[id], ShareRoot \o ns)
    PROVE  Folded(OpenPath[id]) = Folded(ShareRoot \o ns)
<1> DEFINE full == OpenPath[id]
           suffix == ShareRoot \o ns
           s == Folded(suffix)
           t == Folded(full)
           m == Len(suffix)
           k == Len(full)
<1>1. ns \in Seq(DOMAIN Lower)
  <2>1. Names \subseteq DOMAIN Lower /\ ns \in Seq(Names)
    BY WindowsAssumption DEF NameSeqs
  <2> QED
    BY <2>1
<1>2. /\ suffix \in Seq(DOMAIN Lower) /\ full \in Seq(DOMAIN Lower)
      /\ m \in Nat \ {0} /\ k \in Nat /\ suffix[1] = ShareRoot[1]
  <2>1. ShareRoot \in Seq(DOMAIN Lower) /\ ShareRoot # <<>> /\ full \in Seq(DOMAIN Lower)
    BY WindowsAssumption
  <2>2. Len(ShareRoot) \in Nat \ {0} /\ Len(ns) \in Nat
    BY <1>1, <2>1
  <2>3. m = Len(ShareRoot) + Len(ns) /\ suffix \in Seq(DOMAIN Lower)
    BY <1>1, <2>1
  <2>4. suffix[1] = ShareRoot[1]
    BY <1>1, <2>1, <2>2
  <2> QED
    BY <2>1, <2>2, <2>3, <2>4
<1>3. /\ s = [i \in 1 .. m |-> Lower[suffix[i]]] /\ t = [i \in 1 .. k |-> Lower[full[i]]]
      /\ s \in Seq({Lower[x] : x \in DOMAIN Lower}) /\ t \in Seq({Lower[x] : x \in DOMAIN Lower})
      /\ Len(s) = m /\ Len(t) = k
  <2>1. DOMAIN suffix = 1 .. m /\ DOMAIN full = 1 .. k
    BY <1>2
  <2>2. s = [i \in 1 .. m |-> Lower[suffix[i]]] /\ t = [i \in 1 .. k |-> Lower[full[i]]]
    BY <2>1 DEF Folded
  <2>3. s \in Seq({Lower[x] : x \in DOMAIN Lower}) /\ t \in Seq({Lower[x] : x \in DOMAIN Lower})
    BY <1>2, <2>2
  <2> QED
    BY <1>2, <2>2, <2>3
<1>4. m <= k /\ \A i \in 1 .. m : s[i] = t[k - m + i]
  <2>1. IsSuffix(s, t)
    BY DEF EndsWith
  <2>2. PICK S : s \in Seq(S) /\ t \in Seq(S)
    BY <1>3
  <2> HIDE DEF s, t
  <2>3. Len(s) <= Len(t) /\ \A i \in 1 .. Len(s) : s[i] = t[Len(t) - Len(s) + i]
    BY <2>1, <2>2, SuffixOf
  <2> QED
    BY <1>3, <2>3
<1> HIDE DEF s, t, m, k, suffix, full
<1>5. m = k
  <2>1. PICK j \in 1 .. k : j = k - m + 1
    BY <1>2, <1>4
  <2>2. s[1] = t[j]
    BY <1>2, <1>4, <2>1
  <2>3. s[1] = Lower[suffix[1]] /\ t[j] = Lower[full[j]]
    BY <1>2, <1>3
  <2>4. Lower[full[j]] = Lower[ShareRoot[1]]
    BY <1>2, <2>2, <2>3
  <2>5. j \in DOMAIN full
    BY <1>2 DEF k
  <2>6. j = 1
    BY <2>4, <2>5, WindowsAssumption DEF full
  <2> QED
    BY <1>2, <2>1, <2>6
<1>6. \A i \in 1 .. m : s[i] = t[i]
  BY <1>2, <1>4, <1>5
<1>7. s = t
  BY <1>3, <1>5, <1>6
<1> QED
  BY <1>7 DEF s, t, suffix, full

\* The steps of closing what clients have open keep CloseInv.
LEMMA CloseSteps ==
    ASSUME CallInv, CloseInv, call.op = "resolve_remote_lock", CloseStep,
           platform # "windows" => opens' = opens
    PROVE  CloseInv'
<1>1. IsCall(call) /\ opens \subseteq Opens
  BY DEF CallInv, CloseInv
<1>2. ASSUME NEW kind, kind # "resolved", Return(Answer(kind)),
             call.at = "resolve_remote_lock", opens' = opens
      PROVE  CloseInv'
  <2>1. /\ call'.at = "idle" /\ call'.done = {} /\ call'.answer.kind = kind
        /\ call'.found = call.found /\ call'.path = call.path
    BY <1>1, <1>2, CallReturns, AnswerFacts DEF CloseInv
  <2> QED
    BY <1>2, <2>1 DEF CloseInv, InProgress
<1>3. CASE NoRemoteLocks /\ opens' = opens
  BY <1>2, <1>3 DEF NoRemoteLocks
<1>4. CASE RemoteQuery
  <2>1. CASE call' = [call EXCEPT !.at = "close", !.rest = Matches(call.path),
                                  !.found = Matches(call.path)]
    <3>1. /\ call'.at = "close" /\ call'.rest = Matches(call.path)
          /\ call'.found = Matches(call.path) /\ call'.done = {} /\ call'.path = call.path
      BY <1>1, <1>4, <2>1 DEF IsCall, CloseInv, RemoteQuery
    <3>2. \A id \in Matches(call.path) :
             id \in opens /\ EndsWith(OpenPath[id], ShareRoot \o call.path.names)
      BY DEF Matches
    <3> QED
      BY <1>1, <1>4, <3>1, <3>2 DEF CloseInv, InProgress, RemoteQuery
  <2>2. call.at = "resolve_remote_lock" /\ opens' = opens
    BY <1>4 DEF RemoteQuery
  <2> QED
    BY <1>2, <1>4, <2>1, <2>2 DEF RemoteQuery
<1>5. ASSUME NEW id \in Opens, CloseRemote(id)
      PROVE  CloseInv'
  <2>1. call.at = "close" /\ id \in call.rest /\ id \in call.found
    BY <1>5 DEF CloseRemote, CloseInv
  <2>2. /\ call'.at = "close" /\ call'.rest = call.rest \ {id} /\ call'.found = call.found
        /\ call'.path = call.path
        /\ \/ call'.done = call.done /\ opens' = opens
           \/ call'.done = call.done \cup {<<"close", id>>} /\ opens' = opens \ {id}
    BY <1>1, <1>5, <2>1 DEF IsCall, CloseRemote
  <2>3. call'.done \subseteq Closes(call'.found \ opens')
    <3>1. call.done \subseteq Closes(call.found \ opens)
      BY DEF CloseInv
    <3> QED
      BY <2>1, <2>2, <3>1 DEF Closes
  <2> QED
    BY <1>1, <2>1, <2>2, <2>3 DEF CloseInv, InProgress
<1>6. CASE RemoteClosed
  <2>1. /\ call.at = "close" /\ opens' = opens
        /\ Return(Answer(IF call.done = {} THEN "failed" ELSE "resolved"))
    BY <1>6 DEF RemoteClosed
  <2>2. /\ call'.at = "idle" /\ call'.done = call.done /\ call'.found = call.found
        /\ call'.path = call.path
        /\ call'.answer.kind = IF call.done = {} THEN "failed" ELSE "resolved"
    BY <1>1, <2>1, CallReturns, AnswerFacts
  <2> QED
    BY <2>1, <2>2 DEF CloseInv, InProgress
<1> QED
  BY <1>3, <1>4, <1>5, <1>6 DEF CloseStep

\* Every step keeps CloseInv.
LEMMA CloseNext ==
    ASSUME EntriesInv, CallInv, CloseInv, Next
    PROVE  CloseInv'
<1>1. ASSUME NEW op \in Calls, call'.op = op, call'.at = op, call'.done = {},
             call'.found = {}, opens' = opens
      PROVE  CloseInv'
  BY <1>1 DEF CloseInv, InProgress, Calls
<1>2. CASE EngineStep /\ InProgress /\ Continues /\ call' # call
  <2>1. CASE call.op = "resolve_remote_lock"
    <3>1. platform # "windows" => opens' = opens
      BY <1>2 DEF EngineStep
    <3> QED
      BY <1>2, <2>1, <3>1, StepsOfCalls, CloseSteps DEF DeleteCompletes
  <2>2. CASE call.op # "resolve_remote_lock"
    BY <1>2, <2>2, EngineStepFacts DEF CloseInv, Continues
  <2> QED
    BY <2>1, <2>2
<1>3. CASE call' = call /\ opens' = opens
  BY <1>3 DEF CloseInv, InProgress
<1> QED
  BY <1>1, <1>2, <1>3, StepKinds

\* Only opens of the object itself are closed: lock.rs (windows).
THEOREM ClosesOnlyItsOwnHolds == Spec => []ClosesOnlyItsOwn
<1>1. Init => CloseInv
  <2>1. Init => call.op = "none" /\ opens = Opens
    BY DEF Init, NoCall
  <2> QED
    BY <2>1 DEF CloseInv
<1>2. Inv /\ CloseInv /\ [Next]_engineVars => CloseInv'
  <2> SUFFICES ASSUME Inv, CloseInv, [Next]_engineVars
               PROVE  CloseInv'
    OBVIOUS
  <2>1. CASE Next
    BY <2>1, CloseNext DEF Inv
  <2>2. CASE UNCHANGED engineVars
    BY <2>2 DEF CloseInv, InProgress, engineVars, files, engine
  <2> QED
    BY <2>1, <2>2
<1>3. Inv /\ CloseInv => ClosesOnlyItsOwn
  <2> SUFFICES ASSUME Inv, CloseInv, Returned("resolve_remote_lock")
               PROVE  ClosesOnlyItsOwn
    BY DEF ClosesOnlyItsOwn
  <2> DEFINE closed == {id \in Opens : <<"close", id>> \in call.done}
  <2>1. /\ call.done \subseteq Closes(call.found \ opens) /\ opens \subseteq Opens
        /\ call.found \subseteq Opens
        /\ \A id \in call.found : EndsWith(OpenPath[id], ShareRoot \o call.path.names)
        /\ call.answer.kind = "resolved" <=> call.done # {}
    BY DEF CloseInv, Returned
  <2>2. \A id \in closed : id \in call.found /\ id \notin opens
    BY <2>1 DEF Closes
  <2>3. call.path.names \in NameSeqs
    BY DEF Inv, CallInv, IsPath, Returned
  <2>4. \A id \in closed : Folded(OpenPath[id]) = Folded(ShareRoot \o call.path.names)
    BY <2>1, <2>2, <2>3, EndsWithIsEqual
  <2> HIDE DEF closed
  <2>5. call.done # {} <=> closed # {}
    BY <2>1 DEF Closes, closed
  <2> QED
    BY <2>1, <2>2, <2>4, <2>5 DEF ClosesOnlyItsOwn, closed
<1> QED
  BY <1>1, <1>2, <1>3, EngineIsWellFormed, PTL DEF Spec

-----------------------------------------------------------------------------
(* Links *)

\* A POSIX engine opens nothing Outside, unless there is a link further up in the path.
LEMMA OutsideIsBehindALink ==
    ASSUME EntriesInv, NEW path, IsPath(path)
    PROVE  /\ ParentItself(path) \in Outside =>
                 Len(path.names) = 3 /\ entries[Top][path.names[1]] \in Links
           /\ ThingAt(path) \in Outside /\ Len(path.names) < 3 =>
                 Len(path.names) = 2 /\ entries[Top][path.names[1]] \in Links
<1> DEFINE ns == path.names
           first == entries[Top][ns[1]]
<1>1. /\ Len(ns) = 1 \/ Len(ns) = 2 \/ Len(ns) = 3
      /\ ns[1] \in Names /\ ns[Len(ns)] \in Names
      /\ Len(ns) = 3 => ns[2] \in Names
  BY NamesOfPath DEF IsPath
<1>2. Top \in Dirs /\ Top \notin Outside /\ Outside \subseteq Dirs /\ None \notin Outside
      /\ Top \notin Links
  BY FileSystemAssumption, EngineAssumption DEF Nodes
<1>3. \A d : \A n \in Names : Within(d, n) \in Outside => d \in Outside
  BY <1>2 DEF Within, EntriesInv
<1>4. Within(Top, ns[1]) = first /\ first \notin Outside
  BY <1>1, <1>2, <1>3 DEF Within
<1>5. Follow(first) \in Outside => first \in Links
  BY <1>4 DEF Follow
<1>6. CASE Len(ns) = 1
  <2>1. ParentItself(path) = Top /\ ParentThrough(path) = Top
    BY <1>2, <1>6 DEF ParentItself, ParentThrough, Follow
  <2>2. ThingAt(path) \notin Outside
    BY <1>1, <1>2, <1>3, <2>1 DEF ThingAt, LeafName
  <2> QED
    BY <1>2, <2>1, <2>2
<1>7. CASE Len(ns) = 2
  <2>1. ParentItself(path) = first /\ ParentThrough(path) = Follow(first)
    BY <1>4, <1>7 DEF ParentItself, ParentThrough, Above
  <2>2. ThingAt(path) \in Outside => Follow(first) \in Outside
    BY <1>1, <1>3, <2>1 DEF ThingAt, LeafName
  <2> QED
    BY <1>4, <1>5, <1>7, <2>1, <2>2
<1>8. CASE Len(ns) = 3
  <2>1. ParentItself(path) = Within(Follow(first), ns[2])
    BY <1>4, <1>8 DEF ParentItself, Above
  <2> QED
    BY <1>1, <1>3, <1>5, <1>8, <2>1
<1> QED
  BY <1>1, <1>6, <1>7, <1>8

\* The same in terms of the call.
LEMMA OpensBehindALink ==
    ASSUME EntriesInv, CallInv, call.op \in {"delete", "list_children"}
    PROVE  /\ call.op = "delete" /\ ParentItself(call.path) \in Outside =>
                 BehindALink(Opened(call))
           /\ call.op = "list_children" /\ ThingAt(call.path) \in Outside =>
                 BehindALink(Opened(call))
<1> DEFINE ns == call.path.names
<1>1. IsPath(call.path) /\ ns \in Seq(Names)
  BY DEF CallInv, IsPath, NameSeqs
<1>2. CASE call.op = "delete" /\ ParentItself(call.path) \in Outside
  <2>1. Len(ns) = 3 /\ entries[Top][ns[1]] \in Links
    BY <1>1, <1>2, OutsideIsBehindALink
  <2>2. Opened(call) = SubSeq(ns, 1, 2)
    BY <1>2, <2>1 DEF Opened
  <2>3. Len(SubSeq(ns, 1, 2)) = 2 /\ SubSeq(ns, 1, 2)[1] = ns[1]
    BY <1>1, <2>1
  <2> QED
    BY <1>2, <2>1, <2>2, <2>3 DEF BehindALink
<1>3. CASE call.op = "list_children" /\ ThingAt(call.path) \in Outside
  <2>1. Len(ns) = 2 /\ entries[Top][ns[1]] \in Links
    BY <1>1, <1>3, OutsideIsBehindALink DEF CallInv
  <2> QED
    BY <1>3, <2>1 DEF BehindALink, Opened
<1> QED
  BY <1>2, <1>3

\* Where no link is in a path, it does not lead Outside.
LEMMA StraightIsInside ==
    ASSUME EntriesInv, NEW path, IsPath(path), Straight(path)
    PROVE  ParentThrough(path) \notin Outside
<1> DEFINE ns == path.names
           first == Within(Top, ns[1])
           second == Within(first, ns[2])
<1>1. /\ Len(ns) = 1 \/ Len(ns) = 2 \/ Len(ns) = 3
      /\ ns[1] \in Names
      /\ Len(ns) = 3 => ns[2] \in Names
  BY NamesOfPath DEF IsPath
<1>2. /\ Top \in Dirs /\ Top \notin Outside /\ Outside \subseteq Dirs /\ None \notin Outside
      /\ Top \notin Links
  BY FileSystemAssumption, EngineAssumption DEF Nodes
<1>3. \A d : \A n \in Names : Within(d, n) \in Outside => d \in Outside
  BY <1>2 DEF Within, EntriesInv
<1>4. CASE Len(ns) = 1
  BY <1>2, <1>4 DEF ParentThrough, ParentItself, Follow
<1>5. CASE Len(ns) = 2
  <2>1. first \notin Links
    BY <1>5 DEF Straight
  <2>2. ParentThrough(path) = first
    BY <1>5, <2>1 DEF ParentThrough, ParentItself, Above, Follow
  <2> QED
    BY <1>1, <1>2, <1>3, <2>2
<1>6. CASE Len(ns) = 3
  <2>1. first \notin Links /\ second \notin Links
    BY <1>6 DEF Straight
  <2>2. Above(path) = first
    BY <1>6, <2>1 DEF Above, Follow
  <2>3. ParentThrough(path) = second
    BY <1>6, <2>1, <2>2 DEF ParentThrough, ParentItself, Follow
  <2> QED
    BY <1>1, <1>2, <1>3, <1>6, <2>3
<1> QED
  BY <1>1, <1>4, <1>5, <1>6

\* As long as entries only go, a path stands for what it stood for or for nothing, and no
\* link comes into it.
LEMMA StraightStays ==
    ASSUME EntriesInv, Removes, NEW path, IsPath(path)
    PROVE  /\ Straight(path) => Straight(path)'
           /\ ThingAt(path)' \in {ThingAt(path), None}
           /\ NoLink(path) => NoLink(path)'
<1> DEFINE ns == path.names
           Now(d, n) == IF d \in Dirs THEN entries'[d][n] ELSE None
<1>1. /\ Len(ns) = 1 \/ Len(ns) = 2 \/ Len(ns) = 3
      /\ ns[1] \in Names /\ ns[Len(ns)] \in Names
      /\ Len(ns) = 3 => ns[2] \in Names
  BY NamesOfPath DEF IsPath
<1>2. Top \in Dirs /\ None \notin Links /\ None \notin Dirs /\ Top \notin Links
  BY FileSystemAssumption DEF Nodes
<1>3. \A d, n : Within(d, n)' = Now(d, n)
  BY DEF Within
<1>4. \A d : \A n \in Names : Now(d, n) \in {Within(d, n), None}
  BY DEF Removes, Within
<1>5. Follow(None) = None /\ \A n : Now(None, n) = None
  BY <1>2 DEF Follow
<1>6. ASSUME NEW d, NEW e \in {d, None}, NEW n \in Names
      PROVE  Now(e, n) \in {Within(d, n), None}
  BY <1>4, <1>5, <1>6
<1> HIDE DEF Now
<1>7. Straight(path) => Straight(path)'
  <2>1. Now(Top, ns[1]) \in {Within(Top, ns[1]), None}
    BY <1>1, <1>4
  <2>2. Len(ns) = 3 =>
           Now(Now(Top, ns[1]), ns[2]) \in {Within(Within(Top, ns[1]), ns[2]), None}
    BY <1>1, <1>6, <2>1
  <2>3. /\ Within(Top, ns[1])' = Now(Top, ns[1])
        /\ Within(Within(Top, ns[1]), ns[2])' = Now(Now(Top, ns[1]), ns[2])
    BY DEF Within, Now
  <2> QED
    BY <1>1, <1>2, <2>1, <2>2, <2>3 DEF Straight
<1>8. ParentThrough(path)' \in {ParentThrough(path), None}
  <2>1. Above(path)' \in {Above(path), None}
    <3>1. Now(Top, ns[1]) \in {Within(Top, ns[1]), None}
      BY <1>1, <1>4
    <3>2. Above(path)' = IF Len(ns) = 3 THEN Follow(Now(Top, ns[1])) ELSE Top
      BY DEF Above, Within, Now
    <3> QED
      BY <1>5, <3>1, <3>2 DEF Above
  <2>2. CASE Len(ns) = 1
    BY <2>2 DEF ParentThrough, ParentItself
  <2>3. CASE Len(ns) \in {2, 3}
    <3> DEFINE n == ns[Len(ns) - 1]
    <3>1. n \in Names
      BY <2>3, NamesOfPath DEF IsPath
    <3>2. ParentItself(path)' = Now(Above(path)', n)
      BY <2>3 DEF ParentItself, Within, Now
    <3>3. ParentItself(path) = Within(Above(path), n)
      BY <2>3 DEF ParentItself
    <3>4. ParentItself(path)' \in {ParentItself(path), None}
      BY <1>6, <2>1, <3>1, <3>2, <3>3
    <3> QED
      BY <1>5, <3>4 DEF ParentThrough
  <2> QED
    BY <1>1, <2>2, <2>3
<1>9. ThingAt(path)' \in {ThingAt(path), None}
  <2>1. LeafName(path) \in Names /\ LeafName(path)' = LeafName(path)
    BY <1>1 DEF LeafName
  <2>2. ThingAt(path)' = Now(ParentThrough(path)', LeafName(path))
    BY <2>1 DEF ThingAt, Within, Now
  <2> QED
    BY <1>6, <1>8, <2>1, <2>2 DEF ThingAt
<1> QED
  BY <1>2, <1>7, <1>9 DEF NoLink

\* The steps of a delete and of a listing on Linux and macOS.
LEMMA PosixInside ==
    ASSUME EntriesInv, CallInv, CallInside,
           InProgress /\ BehindALink(Opened(call)) => detour,
           \/ call.op = "delete" /\ (UnlinkOpen \/ Unlinkat)
           \/ /\ call.op = "list_children"
              /\ OpenDir \/ (\E n \in Names : ReadEntry(n)) \/ LookupMetadata \/ EndOfStream
    PROVE  CallInside' \/ detour
<1>1. IsCall(call) /\ InProgress
  BY DEF CallInv, UnlinkOpen, Unlinkat, OpenDir, ReadEntry, LookupMetadata, EndOfStream,
         InProgress
<1>2. None \notin Outside
  BY FileSystemAssumption, EngineAssumption DEF Nodes
<1>3. ASSUME NEW answer, Return(answer)
      PROVE  CallInside'
  BY <1>1, <1>3, CallReturns DEF CallInside
<1>4. CASE call.op = "delete" /\ UnlinkOpen
  <2>1. CASE call' = [call EXCEPT !.at = "unlink", !.fd = OpenParent(call.path)]
    <3>1. OpenParent(call.path) \in Outside => ParentItself(call.path) \in Outside
      BY <1>2 DEF OpenParent
    <3>2. OpenParent(call.path) \notin Outside \/ detour
      BY <1>1, <1>4, <3>1, OpensBehindALink
    <3>3. /\ call'.at = "unlink" /\ call'.op = "delete" /\ call'.done = call.done
          /\ call'.fd = OpenParent(call.path)
      BY <1>1, <1>4, <2>1 DEF IsCall
    <3> QED
      BY <1>4, <3>2, <3>3 DEF CallInside
  <2> QED
    BY <1>3, <1>4, <2>1 DEF UnlinkOpen
<1>5. CASE call.op = "delete" /\ Unlinkat
  <2> DEFINE r == Removing(<<call.fd, LeafName(call.path)>>)
  <2>1. CASE ReturnAfter(r, Answer("deleted"))
    <3>1. r[1] = call.fd /\ call.fd \notin Outside
      BY <1>5 DEF Removing, CallInside, Unlinkat
    <3> HIDE DEF r
    <3>2. call'.at = "idle" /\ call'.op = "delete" /\ call'.done = call.done \cup {r}
      BY <1>1, <1>5, <2>1, CallReturnsAfter
    <3> QED
      BY <1>5, <3>1, <3>2 DEF CallInside
  <2> QED
    BY <1>3, <1>5, <2>1 DEF Unlinkat
<1>6. CASE call.op = "list_children" /\ OpenDir
  <2>1. \/ Return(Answer("failed"))
        \/ call' = [call EXCEPT !.at = "read", !.fd = ThingAt(call.path), !.rest = Names]
    BY <1>6 DEF OpenDir, ThingAt
  <2>2. CASE call' = [call EXCEPT !.at = "read", !.fd = ThingAt(call.path), !.rest = Names]
    <3>1. ThingAt(call.path) \notin Outside \/ detour
      BY <1>1, <1>6, OpensBehindALink
    <3>2. call'.op = "list_children" /\ call'.fd = ThingAt(call.path)
      BY <1>1, <1>6, <2>2 DEF IsCall
    <3> QED
      BY <3>1, <3>2 DEF CallInside
  <2> QED
    BY <1>3, <2>1, <2>2
<1>7. CASE /\ call.op = "list_children"
           /\ (\E n \in Names : ReadEntry(n)) \/ LookupMetadata \/ EndOfStream
  <2>1. call'.op = "list_children" /\ call'.fd = call.fd
    BY <1>1, <1>7 DEF IsCall, ReadEntry, LookupMetadata, EndOfStream, Return
  <2> QED
    BY <1>7, <2>1 DEF CallInside
<1> QED
  BY <1>4, <1>5, <1>6, <1>7

\* The same on Windows, where paths are followed but no link is in them.
LEMMA WindowsInside ==
    ASSUME UnicodeNames, EntriesInv, CallInv, ListInv, CallInside, CallStraight, Removes,
           platform = "windows", meddled = 0, InProgress, Continues,
           \/ call.op = "delete" /\ (DispositionOpen \/ Dispose \/ Classic)
           \/ /\ call.op = "list_children"
              /\ FindFirst \/ (\E n \in Names : FindNext(n)) \/ FindEnds
    PROVE  CallInside' /\ CallStraight'
<1> DEFINE path == call.path
           p == ParentThrough(path)
           l == LeafName(path)
           o == Object(path)
<1>1. /\ IsCall(call) /\ IsPath(path) /\ l \in Names /\ "windows" \in Platforms
      /\ Straight(path)
  BY LeafOfPath DEF CallInv, CallStraight
<1>2. /\ p \in Dirs => Entry(path) = {<<p, l>>} /\ o = entries[p][l] /\ p \notin Outside
      /\ p \notin Dirs => Entry(path) = {} /\ o = None
  BY <1>1, ObjectIsMeant, StraightIsInside
<1>3. /\ Straight(call.path)'
      /\ call.op = "list_children" => NoLink(call.path)'
      /\ ThingAt(call.path)' \in {ThingAt(path), None}
  <2>1. PICK q : q = path
    OBVIOUS
  <2>2. /\ Straight(q)' /\ ThingAt(q)' \in {ThingAt(q), None}
        /\ call.op = "list_children" => NoLink(q)'
    BY <1>1, <2>1, StraightStays DEF CallStraight
  <2>3. call'.path = q
    BY <2>1 DEF Continues
  <2> QED
    BY <2>1, <2>2, <2>3 DEF Straight, NoLink, ThingAt, ParentThrough, ParentItself, Above, LeafName
<1>4. ASSUME NEW e, NEW answer, ReturnAfter(e, answer), call.op = "delete", e[1] \notin Outside
      PROVE  CallInside' /\ CallStraight'
  <2>1. call'.at = "idle" /\ call'.op = "delete" /\ call'.done = call.done \cup {e}
    BY <1>1, <1>4, CallReturnsAfter
  <2> QED
    BY <1>3, <1>4, <2>1 DEF CallInside, CallStraight
<1>5. ASSUME NEW answer, Return(answer)
      PROVE  CallInside' /\ CallStraight'
  <2>1. /\ call'.at = "idle" /\ call'.op = call.op /\ call'.done = call.done
        /\ call'.fd = call.fd
    BY <1>1, <1>5, CallReturns
  <2> QED
    BY <1>3, <2>1 DEF CallInside, CallStraight
<1>6. ASSUME call' = [call EXCEPT !.at = "classic"], call.op = "delete"
      PROVE  CallInside' /\ CallStraight'
  <2>1. /\ call'.at = "classic" /\ call'.op = call.op /\ call'.done = call.done
        /\ call'.fd = call.fd
    BY <1>1, <1>6 DEF IsCall
  <2> QED
    BY <1>3, <1>6, <2>1 DEF CallInside, CallStraight
<1>7. CASE call.op = "delete" /\ DispositionOpen
  <2>1. CASE o # None /\ call' = [call EXCEPT !.at = "dispose", !.fd = o] /\ UNCHANGED entries
    <3>1. /\ call'.at = "dispose" /\ call'.op = "delete" /\ call'.done = call.done
          /\ call'.fd = o
      BY <1>1, <1>7, <2>1 DEF IsCall
    <3>2. Home[o] = <<p, l>> /\ p \notin Outside
      BY <1>1, <1>2, <2>1 DEF EntriesInv
    <3>3. ASSUME NEW d \in Outside, NEW n \in Names, entries[d][n] = o
          PROVE  FALSE
      <4>1. Home[o] = <<d, n>>
        BY <2>1, <3>3, EngineAssumption DEF EntriesInv
      <4> QED
        BY <3>2, <4>1
    <3> QED
      BY <1>3, <1>7, <2>1, <3>1, <3>3 DEF CallInside, CallStraight
  <2>2. \/ o # None /\ call' = [call EXCEPT !.at = "dispose", !.fd = o] /\ UNCHANGED entries
        \/ Return(Answer("already_gone"))
        \/ call' = [call EXCEPT !.at = "classic"]
    <3>1. PICK code \in OpenCodes(path, call.as_dir) :
             /\ code = 0 => call' = [call EXCEPT !.at = "dispose", !.fd = o]
             /\ code \in {2, 3} => Return(Answer("already_gone"))
             /\ code \notin {0, 2, 3} => call' = [call EXCEPT !.at = "classic"]
      BY <1>7 DEF DispositionOpen, IsNotFound
    <3>2. code = 0 => o # None
      BY <3>1 DEF OpenCodes, NotThere
    <3> QED
      BY <1>7, <3>1, <3>2 DEF DispositionOpen, files
  <2> QED
    BY <1>5, <1>6, <1>7, <2>1, <2>2
<1>8. CASE call.op = "delete" /\ Dispose
  <2>1. ASSUME NEW e \in Dirs \X Names, At(e) = call.fd,
               ReturnAfter(Removing(e), Answer("deleted"))
        PROVE  CallInside' /\ CallStraight'
    <3>1. e[1] \notin Outside
      BY <1>8, <2>1 DEF CallStraight, Dispose, At
    <3>2. Removing(e)[1] = e[1]
      BY DEF Removing
    <3> QED
      BY <1>4, <1>8, <2>1, <3>1, <3>2
  <2> QED
    BY <1>6, <1>8, <2>1 DEF Dispose
<1>9. CASE call.op = "delete" /\ Classic
  <2>1. ASSUME NEW e \in Entry(path), ReturnAfter(Removing(e), Answer("deleted"))
        PROVE  CallInside' /\ CallStraight'
    <3>1. Removing(e)[1] = p /\ p \notin Outside
      BY <1>2, <2>1 DEF Removing
    <3> QED
      BY <1>4, <1>9, <2>1, <3>1
  <2> QED
    BY <1>5, <1>9, <2>1 DEF Classic
<1>10. CASE call.op = "list_children" /\ FindFirst
  <2>1. o = ThingAt(path) /\ o \notin Links
    BY <1>2, <1>10 DEF ThingAt, Within, CallStraight, NoLink
  <2>2. Follow(o) = o
    BY <2>1 DEF Follow
  <2>3. CASE o \in Dirs /\ call' = [call EXCEPT !.at = "find_next", !.fd = o, !.rest = Names]
    <3>1. p \in Dirs /\ o \notin Outside
      BY <1>1, <1>2, <2>3, FileSystemAssumption DEF EntriesInv, Nodes
    <3>2. /\ call'.at = "find_next" /\ call'.op = "list_children" /\ call'.fd = o
          /\ call'.found = {}
      BY <1>1, <1>10, <2>3 DEF IsCall, ListInv, FindFirst
    <3> QED
      BY <1>3, <1>10, <2>1, <2>3, <3>1, <3>2 DEF CallInside, CallStraight
  <2> QED
    BY <1>5, <1>10, <2>2, <2>3 DEF FindFirst
<1>11. ASSUME NEW n \in Names, call.op = "list_children", FindNext(n)
       PROVE  CallInside' /\ CallStraight'
  <2> DEFINE x == entries[call.fd][n]
  <2>1. call.at = "find_next" /\ entries' = entries
    BY <1>11 DEF FindNext, files
  <2>2. PICK c : c = FoundChild(n, x)
    OBVIOUS
  <2>3. /\ call'.at = "find_next" /\ call'.op = "list_children" /\ call'.fd = call.fd
        /\ call'.found \subseteq call.found \cup {c}
    BY <1>1, <1>11, <2>1, <2>2 DEF IsCall, FindNext
  <2>4. c.name = n /\ (~ c.is_reparse_point => x \notin Links)
    BY <2>2 DEF FoundChild
  <2> QED
    BY <1>3, <1>11, <2>1, <2>3, <2>4 DEF CallInside, CallStraight
<1>12. CASE call.op = "list_children" /\ FindEnds
  BY <1>5, <1>12 DEF FindEnds
<1> QED
  BY <1>7, <1>8, <1>9, <1>10, <1>11, <1>12

\* A path that goes on with a name of something else than a link.
LEMMA LongerIsStraight ==
    ASSUME EntriesInv, NEW path, IsPath(path), Len(path.names) = 1 \/ Len(path.names) = 2,
           NEW n \in Names, NEW longer, longer.names = Longer(path.names, n),
           Straight(path), ThingAt(path) \notin Links
    PROVE  Straight(longer) /\ ThingAt(longer) = Within(ThingAt(path), n)
<1> DEFINE ns == path.names
           ms == longer.names
           first == Within(Top, ns[1])
           second == Within(first, ns[2])
<1>1. ns \in NameSeqs /\ Top \notin Links
  BY FileSystemAssumption DEF IsPath, Nodes
<1>2. /\ ms[1] = ns[1]
      /\ Len(ns) = 1 => Len(ms) = 2 /\ ms[2] = n
      /\ Len(ns) = 2 => Len(ms) = 3 /\ ms[2] = ns[2] /\ ms[3] = n
  BY <1>1, AppendToPath
<1>3. CASE Len(ns) = 1
  <2>1. ParentThrough(path) = Top
    BY <1>1, <1>3 DEF ParentThrough, ParentItself, Follow
  <2>2. ThingAt(path) = first
    BY <1>3, <2>1 DEF ThingAt, LeafName
  <2>3. Len(ms) = 2 /\ ms[1] = ns[1] /\ ms[2] = n
    BY <1>2, <1>3
  <2>4. Straight(longer)
    BY <2>2, <2>3 DEF Straight
  <2>5. ParentThrough(longer) = first
    BY <2>2, <2>3 DEF ParentThrough, ParentItself, Above, Follow
  <2>6. LeafName(longer) = n
    BY <2>3 DEF LeafName
  <2> QED
    BY <2>2, <2>4, <2>5, <2>6 DEF ThingAt
<1>4. CASE Len(ns) = 2
  <2>1. first \notin Links
    BY <1>4 DEF Straight
  <2>2. ParentThrough(path) = first
    BY <1>4, <2>1 DEF ParentThrough, ParentItself, Above, Follow
  <2>3. ThingAt(path) = second
    BY <1>4, <2>2 DEF ThingAt, LeafName
  <2>4. Len(ms) = 3 /\ ms[1] = ns[1] /\ ms[2] = ns[2] /\ ms[3] = n
    BY <1>2, <1>4
  <2>5. Straight(longer)
    BY <2>1, <2>3, <2>4 DEF Straight
  <2>6. Above(longer) = first
    BY <2>1, <2>4 DEF Above, Follow
  <2>7. ParentThrough(longer) = second
    BY <2>3, <2>4, <2>6 DEF ParentThrough, ParentItself, Follow
  <2>8. LeafName(longer) = n
    BY <2>4 DEF LeafName
  <2> QED
    BY <2>3, <2>5, <2>7, <2>8 DEF ThingAt
<1> QED
  BY <1>3, <1>4

\* What the walker learns from a listing on Windows leads through no link.
LEMMA WindowsDiscovers ==
    ASSUME EntriesInv, EntriesInv', CallInv, KnownStraight, CallStraight, Removes,
           platform = "windows", InProgress, EngineStep
    PROVE  KnownStraight'
<1>1. ASSUME NEW k \in known
      PROVE  Straight(k.path)' /\ (~ k.is_link => NoLink(k.path)')
  BY <1>1, StraightStays DEF KnownStraight, CallInv
<1>2. CASE call'.at = "idle" /\ call'.answer.kind = "listed"
  <2> DEFINE path == call.path
             Told(c) == Known(PathOf(Append(path.names, c.name), path.form),
                              c.is_dir, c.is_reparse_point)
  <2>1. call.op = "list_children" /\ ListStep
    BY <1>2, StepsOfCalls, NoListing DEF DeleteCompletes, InProgress
  <2>2. call.at = "find_next" /\ call'.answer.children = call.found
    <3>1. IsCall(call)
      BY DEF CallInv
    <3>2. ASSUME Return(Answer("failed")) PROVE FALSE
      BY <1>2, <3>1, <3>2, CallReturns, AnswerFacts
    <3>3. ASSUME Return(Listing(call.found))
          PROVE  call'.answer.children = call.found
      BY <3>1, <3>3, CallReturns, AnswerFacts
    <3>4. ~ FindFirst
      BY <1>2, <3>1, <3>2 DEF FindFirst, IsCall
    <3>5. ASSUME NEW n \in Names, FindNext(n)
          PROVE  FALSE
      BY <1>2, <3>1, <3>5 DEF FindNext, IsCall
    <3>6. FindEnds
      BY <2>1, <3>4, <3>5 DEF ListStep
    <3> QED
      BY <3>2, <3>3, <3>6 DEF FindEnds
  <2>3. /\ call.fd \in Dirs /\ ThingAt(path) \in {call.fd, None} /\ Straight(path)
        /\ IsPath(path) /\ (Len(path.names) = 1 \/ Len(path.names) = 2)
        /\ \A c \in call.found : /\ c.name \in Names
                                 /\ ~ c.is_reparse_point => entries[call.fd][c.name] \notin Links
    <3>1. IsPath(path) /\ (Len(path.names) = 1 \/ Len(path.names) = 2)
      <4>1. IsPath(path) /\ Len(path.names) < 3
        BY <2>1 DEF CallInv
      <4> QED
        BY <4>1 DEF IsPath, NameSeqs
    <3> QED
      BY <2>1, <2>2, <3>1 DEF CallStraight, CallInv, InProgress
  <2>4. call.fd \notin Links /\ None \notin Links /\ None \notin Dirs
    BY <2>3, FileSystemAssumption DEF Nodes
  <2>5. ASSUME NEW c \in call.found, NEW k, k = Told(c)
        PROVE  Straight(k.path)' /\ (~ k.is_link => NoLink(k.path)')
    <3>1. /\ k.path.names = Longer(path.names, c.name) /\ k.is_link = c.is_reparse_point
          /\ c.name \in Names
      BY <2>3, <2>5 DEF Known, PathOf, Longer
    <3>2. PICK longer : longer = k.path
      OBVIOUS
    <3>3. IsPath(longer)
      <4>1. Longer(path.names, c.name) \in NameSeqs
        BY <2>3, <3>1, AppendToPath DEF IsPath
      <4>2. k.path = [names |-> k.path.names, form |-> path.form]
        BY <2>5 DEF Known, PathOf
      <4> QED
        BY <2>3, <3>1, <3>2, <4>1, <4>2 DEF IsPath
    <3>4. Straight(longer) /\ ThingAt(longer) = Within(ThingAt(path), c.name)
      BY <2>3, <2>4, <3>1, <3>2, LongerIsStraight
    <3>5. ~ k.is_link => NoLink(longer)
      BY <2>3, <2>4, <3>1, <3>4 DEF Within, NoLink
    <3>6. Straight(longer)' /\ (~ k.is_link => NoLink(longer)')
      BY <3>3, <3>4, <3>5, StraightStays
    <3> QED
      BY <3>2, <3>6
  <2>6. \A k \in known' : k \in known \/ \E c \in call.found : k = Told(c)
    BY <1>2, <2>2 DEF EngineStep, Discover
  <2> QED
    BY <1>1, <2>5, <2>6 DEF KnownStraight
<1>3. CASE ~ (call'.at = "idle" /\ call'.answer.kind = "listed")
  BY <1>1, <1>3 DEF KnownStraight, EngineStep, Discover
<1> QED
  BY <1>2, <1>3

\* While the call stands still, and entries only go.
LEMMA WindowsStandsStill ==
    ASSUME EntriesInv, CallInv, CallStraight, Removes, call' = call, call.op # "none"
    PROVE  CallStraight'
<1>1. IsPath(call.path)
  BY DEF CallInv
<1>2. PICK q : q = call.path
  OBVIOUS
<1>3. /\ Straight(q) => Straight(q)'
      /\ NoLink(q) => NoLink(q)'
      /\ ThingAt(q)' \in {ThingAt(q), None}
  BY <1>1, <1>2, StraightStays
<1>4. /\ Straight(call.path) => Straight(call.path)'
      /\ NoLink(call.path) => NoLink(call.path)'
      /\ ThingAt(call.path)' \in {ThingAt(call.path), None}
  BY <1>2, <1>3 DEF Straight, NoLink, ThingAt, ParentThrough, ParentItself, Above, LeafName
<1>5. call.op = "delete" /\ call.at = "dispose" =>
         call.fd # None /\ \A d \in Outside, n \in Names : entries'[d][n] # call.fd
  BY EngineAssumption DEF CallStraight, Removes
<1>6. call.op = "list_children" /\ call.at = "find_next" =>
         /\ call.fd \in Dirs
         /\ ThingAt(call.path)' \in {call.fd, None}
         /\ \A c \in call.found : ~ c.is_reparse_point => entries'[call.fd][c.name] \notin Links
  <2> SUFFICES ASSUME call.op = "list_children", call.at = "find_next"
               PROVE  /\ call.fd \in Dirs
                      /\ ThingAt(call.path)' \in {call.fd, None}
                      /\ \A c \in call.found :
                            ~ c.is_reparse_point => entries'[call.fd][c.name] \notin Links
    OBVIOUS
  <2>1. \A c \in call.found : c.name \in Names
    BY DEF CallInv, InProgress
  <2> QED
    BY <1>4, <2>1, FileSystemAssumption DEF CallStraight, Removes, Nodes
<1> QED
  BY <1>4, <1>5, <1>6 DEF CallStraight

\* LinksInv holds at first.
LEMMA LinksInit ==
    ASSUME Init
    PROVE  LinksInv
<1>1. call = NoCall /\ EntriesInv
  BY EntriesInit DEF Init
<1>2. CallInside /\ CallStraight /\ ~ InProgress
  BY <1>1 DEF NoCall, CallInside, CallStraight, InProgress
<1>3. KnownStraight
  <2>1. PICK form \in Forms[platform] : known = FirstKnown(platform, entries, form)
    BY DEF Init
  <2> SUFFICES ASSUME NEW k \in FirstKnown(platform, entries, form)
               PROVE  Straight(k.path) /\ (~ k.is_link => NoLink(k.path))
    BY <2>1 DEF KnownStraight
  <2> DEFINE ns == k.path.names
             first == entries[Top][ns[1]]
             second == entries[first][ns[2]]
  <2>2. Top \in Dirs /\ Dirs \cap Links = {}
    BY FileSystemAssumption
  <2>3. /\ \/ Len(ns) = 1 /\ (k.is_link <=> first \in Links)
           \/ Len(ns) = 2 /\ first \in Dirs /\ (k.is_link <=> second \in Links)
           \/ /\ Len(ns) = 3 /\ first \in Dirs /\ second \in Dirs
              /\ k.is_link <=> entries[second][ns[3]] \in Links
        /\ Within(Top, ns[1]) = first
        /\ first \in Dirs => Within(first, ns[2]) = second
        /\ second \in Dirs => Within(second, ns[3]) = entries[second][ns[3]]
    BY <2>2, FirstPaths DEF FirstPath, Within
  <2> HIDE DEF first, second
  <2>4. CASE Len(ns) = 1
    BY <2>2, <2>3, <2>4 DEF Straight, NoLink, ThingAt, ParentThrough, ParentItself, Follow,
       LeafName
  <2>5. CASE Len(ns) = 2
    BY <2>2, <2>3, <2>5 DEF Straight, NoLink, ThingAt, ParentThrough, ParentItself, Above,
       Follow, LeafName
  <2>6. CASE Len(ns) = 3
    BY <2>2, <2>3, <2>6 DEF Straight, NoLink, ThingAt, ParentThrough, ParentItself, Above,
       Follow, LeafName
  <2> QED
    BY <2>3, <2>4, <2>5, <2>6
<1> QED
  BY <1>1, <1>2, <1>3 DEF LinksInv

\* Every step keeps LinksInv: first where paths are not followed.
LEMMA PosixLinksNext ==
    ASSUME EntriesInv, CallInv, LinksInv, Next, platform # "windows"
    PROVE  /\ InProgress' /\ BehindALink(Opened(call))' => detour'
           /\ CallInside' \/ detour'
<1>1. Observe
  BY DEF Next
<1>2. /\ InProgress /\ BehindALink(Opened(call)) => detour
      /\ CallInside \/ detour
  BY DEF LinksInv
<1>3. /\ InProgress' /\ BehindALink(Opened(call))' => detour'
      /\ detour /\ (InProgress \/ call'.at = "idle") => detour'
  BY <1>1 DEF Observe, InProgress
<1>4. CASE BeginCall
  <2>1. PICK op \in Calls, k \in known, opts \in Options :
           Begin(op, k.path, k.is_dir, opts)
    BY <1>4 DEF BeginCall
  <2>2. call'.at = op /\ call'.fd = None /\ call'.done = {} /\ op # "unlink"
    BY <2>1, CallBegins DEF Calls
  <2>3. None \notin Outside
    BY FileSystemAssumption, EngineAssumption DEF Nodes
  <2> QED
    BY <1>3, <2>2, <2>3 DEF CallInside
<1>5. CASE EngineStep /\ InProgress /\ Continues
  <2>1. CASE call.op \in {"delete", "list_children"} /\ CallInside
    <3>1. CallInside' \/ detour
      BY <1>2, <1>5, <2>1, StepsOfCalls, PosixInside DEF DeleteStep, ListStep
    <3> QED
      BY <1>3, <1>5, <3>1
  <2>2. CASE call.op \notin {"delete", "list_children"}
    BY <1>3, <1>5, <2>2 DEF Continues, CallInside
  <2> QED
    BY <1>2, <1>3, <1>5, <2>1, <2>2
<1>6. CASE call' = call
  <2>1. CallInside => CallInside'
    BY <1>6 DEF CallInside
  <2>2. detour => detour'
    BY <1>3, <1>6 DEF InProgress
  <2> QED
    BY <1>2, <1>3, <2>1, <2>2
<1> QED
  BY <1>4, <1>5, <1>6, EngineStepFacts DEF Next, Others

\* Then where they are.
LEMMA LinksNext ==
    ASSUME UnicodeNames, EntriesInv, EntriesInv', CallInv, CallInv', ListInv, LinksInv,
           Moves, Next
    PROVE  LinksInv'
<1>1. Observe /\ platform' = platform
  BY DEF Next, BeginCall, EngineStep, Others
<1>2. CASE platform # "windows"
  BY <1>1, <1>2, PosixLinksNext DEF LinksInv
<1>3. CASE platform = "windows" /\ meddled' = 0
  <2>1. /\ platform' = "windows"
        /\ CallInside /\ KnownStraight /\ CallStraight /\ meddled = 0 /\ Removes
    BY <1>1, <1>3 DEF LinksInv, Moves
  <2>2. ASSUME known' = known
        PROVE  KnownStraight'
    BY <2>1, <2>2, StraightStays DEF KnownStraight, CallInv
  <2>3. CASE BeginCall
    <3>1. PICK op \in Calls, k \in known, opts \in Options :
             MayBegin(op, k, opts) /\ Begin(op, k.path, k.is_dir, opts)
      BY <2>3 DEF BeginCall
    <3>2. /\ call'.op = op /\ call'.path = k.path /\ call'.at = op /\ call'.fd = None
          /\ call'.done = {} /\ op \notin {"unlink", "dispose", "find_next"}
          /\ known' = known
      BY <2>3, <3>1, CallBegins DEF Calls, BeginCall
    <3>3. None \notin Outside
      BY FileSystemAssumption, EngineAssumption DEF Nodes
    <3>4. CallInside'
      BY <3>2, <3>3 DEF CallInside
    <3>5. op = "list_children" => ~ k.is_link
      BY <3>1 DEF MayBegin
    <3>6. KnownStraight'
      BY <2>2, <3>2
    <3>7. CallStraight'
      <4>1. PICK q : q = k.path
        OBVIOUS
      <4>2. Straight(q)' /\ (~ k.is_link => NoLink(q)')
        BY <3>1, <3>2, <3>6, <4>1 DEF KnownStraight
      <4>3. call'.path = q
        BY <3>2, <4>1
      <4>4. Straight(call.path)' /\ (~ k.is_link => NoLink(call.path)')
        BY <4>2, <4>3 DEF Straight, NoLink, ThingAt, ParentThrough, ParentItself, Above, LeafName
      <4> QED
        BY <3>2, <3>5, <4>4 DEF CallStraight
    <3> QED
      BY <2>1, <3>4, <3>6, <3>7 DEF LinksInv
  <2>4. CASE EngineStep /\ InProgress /\ Continues /\ call' # call
    <3>1. KnownStraight'
      BY <1>3, <2>1, <2>4, WindowsDiscovers
    <3>2. CASE call.op \in {"delete", "list_children"}
      <4>1. CallInside' /\ CallStraight'
        BY <1>3, <2>1, <2>4, <3>2, StepsOfCalls, WindowsInside
        DEF DeleteStep, ListStep, DeleteCompletes
      <4> QED
        BY <2>1, <3>1, <4>1 DEF LinksInv
    <3>3. CASE call.op \notin {"delete", "list_children"}
      <4>1. CallInside' /\ CallStraight'
        BY <2>4, <3>3 DEF Continues, CallInside, CallStraight
      <4> QED
        BY <2>1, <3>1, <4>1 DEF LinksInv
    <3> QED
      BY <3>2, <3>3
  <2>5. CASE (EngineStep \/ Others) /\ call' = call
    <3>1. known' = known
      BY <2>5 DEF EngineStep, Discover, InProgress, Others
    <3>2. CallInside'
      BY <2>1, <2>5 DEF CallInside
    <3>3. CallStraight'
      <4>1. CASE call.op = "none"
        BY <2>5, <4>1 DEF CallStraight
      <4>2. CASE call.op # "none"
        BY <2>1, <2>5, <4>2, WindowsStandsStill
      <4> QED
        BY <4>1, <4>2
    <3> QED
      BY <2>1, <2>2, <3>1, <3>2, <3>3 DEF LinksInv
  <2> QED
    BY <2>3, <2>4, <2>5, EngineStepFacts DEF Next, Others
<1>4. CASE platform = "windows" /\ meddled' # 0
  BY <1>1, <1>4 DEF LinksInv
<1> QED
  BY <1>2, <1>3, <1>4

\* On POSIX nothing of what a link leads to is listed or deleted when a link replaces the
\* directory that a call opens; where one replaces a directory further up in the path, this
\* says nothing (sys.rs:25-37, SAFETY_MODEL.md:160-185).
THEOREM NothingBehindALinkHolds ==
    ASSUME UnicodeNames
    PROVE  Spec => []NothingBehindALink
<1>1. Init => ListInv /\ LinksInv
  <2>1. Init => call.op = "none"
    BY DEF Init, NoCall
  <2> QED
    BY <2>1, LinksInit DEF ListInv
<1>2. Inv /\ Inv' /\ (ListInv /\ LinksInv) /\ [Next]_engineVars => (ListInv /\ LinksInv)'
  <2> SUFFICES ASSUME Inv, Inv', ListInv, LinksInv, [Next]_engineVars
               PROVE  (ListInv /\ LinksInv)'
    OBVIOUS
  <2>1. CASE Next
    BY <2>1, NextMoves, ListNext, LinksNext DEF Inv
  <2>2. CASE UNCHANGED engineVars
    <3>1. UNCHANGED <<files, engine, known>>
      BY <2>2 DEF engineVars
    <3>2. ListInv'
      BY <3>1 DEF ListInv, Reading, LookedUp, InProgress, files, engine
    <3>3. BehindALink(Opened(call))' <=> BehindALink(Opened(call))
      BY <3>1 DEF BehindALink, Opened, files, engine
    <3>4. ASSUME NEW path
          PROVE  /\ Straight(path)' <=> Straight(path)
                 /\ ThingAt(path)' = ThingAt(path)
      BY <3>1 DEF Straight, ThingAt, ParentThrough, ParentItself, Above, Within, LeafName,
         files
    <3>5. /\ Straight(call.path)' <=> Straight(call.path)
          /\ ThingAt(call.path)' = ThingAt(call.path)
      BY <3>1 DEF Straight, ThingAt, ParentThrough, ParentItself, Above, Within, LeafName,
         files, engine
    <3>6. KnownStraight' <=> KnownStraight
      BY <3>1, <3>4 DEF KnownStraight, NoLink
    <3>7. (CallInside' <=> CallInside) /\ (CallStraight' <=> CallStraight)
      BY <3>1, <3>5 DEF CallInside, CallStraight, NoLink, files, engine
    <3>8. LinksInv'
      BY <3>1, <3>3, <3>6, <3>7 DEF LinksInv, InProgress, files, engine
    <3> QED
      BY <3>2, <3>8
  <2> QED
    BY <2>1, <2>2
<1>3. ListInv /\ LinksInv => NothingBehindALink
  BY DEF LinksInv, NothingBehindALink, Strays, CallInside
<1> QED
  BY <1>1, <1>2, <1>3, EngineIsWellFormed, PTL DEF Spec
=============================================================================
