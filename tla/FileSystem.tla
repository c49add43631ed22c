----------------------------- MODULE FileSystem -----------------------------
(***************************************************************************)
(* What the platform engines work on: directory entries, links, rights,    *)
(* open handles and processes, and what other programs do to them between  *)
(* two system calls.  The operating system is not part of the repository;  *)
(* this module has of it what the engines' calls rely on.                  *)
(***************************************************************************)
EXTENDS Naturals, Sequences, FiniteSets

CONSTANTS
    Top,             \* the directory in which the paths below begin
    Dirs, Files, Links,
    Destination,     \* what each link leads to
    Home,            \* the entry each object was made in: <<directory, name>>
    Names, None,
    Processes,
    MaxMeddling      \* bound on the steps of other programs

Nodes == Dirs \cup Files \cup Links

ASSUME FileSystemAssumption ==
    /\ Top \in Dirs /\ None \notin Nodes
    /\ Dirs \cap Files = {} /\ Dirs \cap Links = {} /\ Files \cap Links = {}
    /\ Destination \in [Links -> Dirs \cup Files]
    /\ Home \in [Nodes \ {Top} -> Dirs \X Names]
    /\ None \notin Dirs \X Names \X (Nodes \cup {None})
    /\ IsFiniteSet(Processes)
    /\ MaxMeddling \in Nat

VARIABLES
    entries,    \* what each name of each directory stands for
    barred,     \* the objects this user's rights do not let go of: on POSIX
                \* directories that cannot be changed, on Windows objects
    readonly,   \* files with the read-only attribute (Windows)
    holders,    \* which process has which object open
    meddled     \* how often other programs have meddled

files == <<entries, barred, readonly, holders, meddled>>

\* Where the objects are before anything happens: each in its home, but for the
\* spare ones, which other programs put there later.
EntriesWithout(spare) ==
    [d \in Dirs |-> [n \in Names |->
        LET here == {o \in Nodes \ spare : o # Top /\ Home[o] = <<d, n>>}
        IN  IF here = {} THEN None ELSE CHOOSE o \in here : TRUE]]

Linked == {entries[d][n] : d \in Dirs, n \in Names} \ {None}
Held(o) == \E p \in Processes : <<p, o>> \in holders
Empty(d) == \A n \in Names : entries[d][n] = None

-----------------------------------------------------------------------------
(* Paths: one to three names below Top, which is where a full path leads    *)
(* to, the current directory of a relative one, and the root of the share   *)
(* of a UNC path.  With three names there is a directory above the parent.  *)

Path == [names : UNION {[1 .. n -> Names] : n \in 1 .. 3},
         form : {"full", "relative", "unc"}]

LeafName(path) == path.names[Len(path.names)]

Follow(o) == IF o \in Links THEN Destination[o] ELSE o
Within(d, n) == IF d \in Dirs THEN entries[d][n] ELSE None

\* The object in which the parent is looked up: on the way to it links are followed.
Above(path) ==
    IF Len(path.names) = 3 THEN Follow(Within(Top, path.names[1])) ELSE Top

\* The object in front of the last name; if it is a link, the link itself.
ParentItself(path) ==
    IF Len(path.names) = 1 THEN Top ELSE Within(Above(path), path.names[Len(path.names) - 1])

\* The same, but a link is followed.
ParentThrough(path) == Follow(ParentItself(path))

\* The entry a path stands for, or {}, when its parent is not a directory.
EntryIn(parent, path) ==
    IF parent \in Dirs THEN {<<parent, LeafName(path)>>} ELSE {}

At(entry) == entries[entry[1]][entry[2]]

Erase(entry) == entries' = [entries EXCEPT ![entry[1]][entry[2]] = None]

-----------------------------------------------------------------------------
(* Other programs *)

Meddle ==
    /\ meddled < MaxMeddling
    /\ meddled' = meddled + 1

\* Something is deleted; whoever has it open keeps it.
OtherRemoves(d, n) ==
    /\ entries[d][n] \in Files \cup Links \/ (entries[d][n] \in Dirs /\ Empty(entries[d][n]))
    /\ Erase(<<d, n>>)
    /\ Meddle
    /\ UNCHANGED <<barred, readonly, holders>>

\* A new object takes a free name.
OtherCreates(o) ==
    /\ o \in (Files \cup Links) \ Linked
    /\ ~ Held(o)
    /\ At(Home[o]) = None
    /\ entries' = [entries EXCEPT ![Home[o][1]][Home[o][2]] = o]
    /\ Meddle
    /\ UNCHANGED <<barred, readonly, holders>>

\* A directory is moved away and a link put in its place.
OtherReplaces(link, away) ==
    /\ link \in Links \ Linked
    /\ At(Home[link]) \in Dirs
    /\ LET d == Home[link][1]
       IN  /\ entries[d][away] = None
           /\ entries' = [entries EXCEPT ![d] = [@ EXCEPT ![away] = At(Home[link]),
                                                          ![Home[link][2]] = link]]
    /\ Meddle
    /\ UNCHANGED <<barred, readonly, holders>>

\* A process closes what it has open, or ends.
OtherCloses(p) ==
    /\ \E o \in Nodes : <<p, o>> \in holders
    /\ holders' = {h \in holders : h[1] # p}
    /\ Meddle
    /\ UNCHANGED <<entries, barred, readonly>>

\* What links lead to is left alone.
Meddling ==
    \/ \E d \in Dirs, n \in Names :
          (\A link \in Links : Destination[link] # d) /\ OtherRemoves(d, n)
    \/ \E o \in Nodes : OtherCreates(o)
    \/ \E link \in Links, away \in Names : OtherReplaces(link, away)
    \/ \E p \in Processes : OtherCloses(p)
=============================================================================
