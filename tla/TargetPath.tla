------------------------------ MODULE TargetPath ------------------------------
(***************************************************************************)
(* Which object the target of a command is, and which targets are refused  *)
(* (cursdel-core/src/target.rs): the lexical reading of the path, and the  *)
(* file system's.                                                          *)
(*                                                                         *)
(* A path is the form in which it begins and its parts between separators; *)
(* "" is the part between two of them, or after the last.  Which of the    *)
(* two separators was typed makes no difference here, and on POSIX only    *)
(* paths that begin with "/" or are relative are considered.               *)
(***************************************************************************)
EXTENDS Naturals, Sequences, SequencesExt

CONSTANTS
    Dirs, Files, Links,
    Location,        \* where each object is: the root it is under, and its names
    Destination,     \* what a link leads to in the end; itself, if it dangles
    FsRoot, ShareRoot,
    Server, Share,   \* the names by which ShareRoot is reached
    Cwd              \* the current directory

Nodes == Dirs \cup Files \cup Links

Roots == {FsRoot, ShareRoot}

ASSUME TargetAssumption ==
    /\ FsRoot \in Dirs /\ ShareRoot \in Dirs /\ Cwd \in Dirs
    /\ Dirs \cap Links = {}
    /\ \A l \in Links : Destination[l] \in Dirs \cup Files \cup {l}
    /\ \A r \in Roots : Location[r].names = <<>>

\* "relative" a\b, "rooted" \a\b, "double" \\server\share\a, "drive" C:\a, and the
\* last two after \\?\ ("verbatim" and "verbatim_unc").
Forms == {"relative", "rooted", "double", "drive", "verbatim", "verbatim_unc"}

-----------------------------------------------------------------------------
(* The file system, which the repository relies on *)

Child(d, name) ==
    {o \in Nodes : /\ Location[o].root = Location[d].root
                   /\ Location[o].names = Append(Location[d].names, name)}

Up(d) ==
    IF Location[d].names = <<>> THEN d
    ELSE CHOOSE o \in Dirs : /\ Location[o].root = Location[d].root
                             /\ Location[o].names = Front(Location[d].names)

\* The directory that an object is, links followed; none for a file.
Enter(o) == (IF o \in Links THEN {Destination[o]} ELSE {o}) \cap Dirs

\* One part further from an object: whatever follows it, even "" or ".", makes it
\* the directory that it leads to.
Onwards(objects, part) ==
    UNION {CASE part \in {"", "."} -> {d}
             [] part = ".."        -> {Up(d)}
             [] OTHER              -> Child(d, part) : d \in UNION {Enter(o) : o \in objects}}

WithoutTail(parts) ==
    IF \A i \in DOMAIN parts : parts[i] \in {"", "."} THEN <<>>
    ELSE SubSeq(parts, 1, CHOOSE i \in DOMAIN parts :
                              /\ parts[i] \notin {"", "."}
                              /\ \A j \in i + 1 .. Len(parts) : parts[j] \in {"", "."})

\* resolve_dot_components: "." and "" say nothing, and ".." takes back the part
\* before it, or nothing.
ResolveDotComponents(parts) ==
    FoldLeft(LAMBDA stack, part :
                 CASE part \in {"", "."} -> stack
                   [] part = ".."        -> IF stack = <<>> THEN stack ELSE Front(stack)
                   [] OTHER              -> Append(stack, part),
             <<>>, parts)

\* symlink_metadata: the object itself, a link included.  Windows resolves dots by
\* name, and not at all in a verbatim path; POSIX as it meets them.
Lookup(platform, path) ==
    LET from(root, parts) == FoldLeft(Onwards, {root}, parts)
        rest == SubSeq(path.parts, 3, Len(path.parts))
        shared == Len(path.parts) >= 2 /\ path.parts[1] = Server /\ path.parts[2] = Share
    IN  IF platform = "posix" THEN from(FsRoot, path.parts)
        ELSE CASE path.form \in {"rooted", "drive"} -> from(FsRoot, ResolveDotComponents(path.parts))
               [] path.form = "double" /\ shared -> from(ShareRoot, ResolveDotComponents(rest))
               [] path.form = "verbatim" -> from(FsRoot, SelectSeq(path.parts, LAMBDA p : p # ""))
               [] path.form = "verbatim_unc" /\ shared ->
                      from(ShareRoot, SelectSeq(rest, LAMBDA p : p # ""))
               [] OTHER -> {}

-----------------------------------------------------------------------------
(* The lexical reading *)

\* classify.  parse_unc_body takes the first two parts for server and share.
Classify(path) ==
    LET unc == path.form \in {"double", "verbatim_unc"}
    IN  [prefix |-> CASE unc -> "unc"
                      [] path.form \in {"drive", "verbatim"} -> "drive"
                      [] path.form = "rooted" -> "posix_absolute"
                      [] path.form = "relative" -> "relative",
         components |-> ResolveDotComponents(
                            IF unc THEN SubSeq(path.parts, 3, Len(path.parts))
                            ELSE path.parts)]

IsProtectedRoot(lexical) == lexical.prefix # "relative" /\ lexical.components = <<>>

\* A relative path is read from the current directory.
Absolute(platform, path) ==
    IF Classify(path).prefix # "relative" THEN path
    ELSE [form |-> IF platform = "posix" THEN "rooted" ELSE "drive",
          parts |-> Location[Cwd].names \o path.parts]

\* How fs::canonicalize spells an object.
Canonical(platform, o) ==
    IF platform = "posix" THEN [form |-> "rooted", parts |-> Location[o].names]
    ELSE IF Location[o].root = FsRoot
    THEN [form |-> "verbatim", parts |-> Location[o].names]
    ELSE [form |-> "verbatim_unc", parts |-> <<Server, Share>> \o Location[o].names]

-----------------------------------------------------------------------------
(* validate_target *)

\* canonicalize_defensively: what the path leads to, or else, if it leads nowhere,
\* its last name in what its parent leads to.  There is no last name after "..".
CanonicalizeDefensively(platform, path) ==
    LET found == Lookup(platform, path)
        leads == UNION {(IF o \in Links THEN {Destination[o]} \ {o} ELSE {o}) : o \in found}
        named == WithoutTail(path.parts)
    IN  IF leads # {} THEN leads
        ELSE IF named = <<>> \/ Last(named) = ".." THEN {}
        ELSE LET parent == Lookup(platform, [path EXCEPT !.parts = Front(named)])
             IN  UNION {Child(d, Last(named)) : d \in UNION {Enter(o) : o \in parent}}

Refused(why) == [result |-> why, object |-> {}, canonical |-> {}, is_dir |-> FALSE]

\* Mutant: the first reading is enough.
ValidateByName(platform, path) ==
    LET absolute == Absolute(platform, path)
        leaf == Lookup(platform, absolute)
        canonical == CanonicalizeDefensively(platform, absolute)
    IN  IF path.form = "relative" /\ path.parts = <<"">> THEN Refused("empty_path")
        ELSE IF IsProtectedRoot(Classify(absolute)) THEN Refused("root")
        ELSE IF leaf = {} THEN Refused("not_found")
        ELSE IF canonical = {} THEN Refused("canonicalize")
        ELSE [result |-> "ok", object |-> leaf, canonical |-> canonical,
              is_dir |-> leaf \subseteq Dirs]

\* The target, `object`, is what the path names as the calls of a deletion will find
\* it; a directory is gone through by its canonical path.
ValidateTarget(platform, path) ==
    LET absolute == Absolute(platform, path)
        leaf == Lookup(platform, absolute)
        canonical == CanonicalizeDefensively(platform, absolute)
    IN  IF path.form = "relative" /\ path.parts = <<"">> THEN Refused("empty_path")
        ELSE IF IsProtectedRoot(Classify(absolute)) THEN Refused("root")
        ELSE IF leaf = {} THEN Refused("not_found")
        ELSE IF canonical = {} THEN Refused("canonicalize")
        ELSE IF \E o \in canonical : IsProtectedRoot(Classify(Canonical(platform, o)))
        THEN Refused("resolves_to_root")
        ELSE [result |-> "ok", object |-> leaf, canonical |-> canonical,
              is_dir |-> leaf \subseteq Dirs]
=============================================================================
