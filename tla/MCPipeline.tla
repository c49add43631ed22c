----------------------------- MODULE MCPipeline -----------------------------
(* Small trees and the jobs to run on them. *)
EXTENDS Pipeline, TLC

CONSTANTS r, a, b, c, x, y

\* r holds two directories; a holds a directory b and a leaf x, c holds a leaf y.
TreeDirs   == {r, a, b, c}
TreeLeaves == {x, y}
TreeParent == (a :> r) @@ (b :> a) @@ (c :> r) @@ (x :> a) @@ (y :> c)

Trees == {T \in SUBSET (TreeDirs \cup TreeLeaves) :
            r \in T /\ \A n \in T \ {r} : TreeParent[n] \in T}

Plain == [tree |-> TreeDirs \cup TreeLeaves, dry_run |-> FALSE,
          preserve_root |-> FALSE, keep |-> {}, unlistable |-> {}, stubborn |-> {}]

\* Every tree, with and without filters, real and simulated.
CleanJobs ==
    {[Plain EXCEPT !.tree = T, !.dry_run = dry, !.preserve_root = TRUE, !.keep = K] :
        T \in Trees, dry \in BOOLEAN, K \in SUBSET TreeLeaves}
    \cup {[Plain EXCEPT !.tree = T, !.dry_run = dry] : T \in Trees, dry \in BOOLEAN}

\* The whole tree; at most one directory cannot be listed, and one entry may
\* refuse to be deleted.
FaultyJobs ==
    {[Plain EXCEPT !.preserve_root = filtered, !.unlistable = U, !.stubborn = S] :
        filtered \in BOOLEAN, U \in {{}, {r}, {a}}, S \in {{x}, {b}, {x, b}}}

SafetyJobs == CleanJobs \cup FaultyJobs

\* The whole tree: plain, with a filter that retains x, simulated, and with a
\* directory that cannot be listed and a leaf that refuses to be deleted.
MixedJobs == {
    Plain,
    [Plain EXCEPT !.preserve_root = TRUE, !.keep = {x}],
    [Plain EXCEPT !.dry_run = TRUE],
    [Plain EXCEPT !.unlistable = {a}, !.stubborn = {y}]}

\* Workers of a kind run the same loop.
Workers == Permutations(FileWorkers) \cup Permutations(DirWorkers)
=============================================================================
