------------------------- MODULE MCDirectoryTracker -------------------------
(* A root with a leaf and a directory, which holds two leaves and a         *)
(* directory; every smaller tree in it is found by some behaviour.          *)
EXTENDS DirectoryTracker, TLC

CONSTANTS r, a, b, x, y, z

TreeDirs   == {r, a, b}
TreeLeaves == {x, y, z}
TreeParent == (a :> r) @@ (b :> a) @@ (x :> a) @@ (y :> r) @@ (z :> a)

\* Workers of a kind run the same loop.
Workers == Permutations(FileWorkers) \cup Permutations(DirWorkers)
=============================================================================
