--------------------------- MODULE MCPipelineHang ---------------------------
(* A tree that produces more ready directories than their channel holds.    *)
EXTENDS Pipeline, TLC

CONSTANTS r, p1, p2, p3, c1, c2, c3

\* r holds three directories, each of which holds an empty one.
TreeDirs   == {r, p1, p2, p3, c1, c2, c3}
TreeParent == (p1 :> r) @@ (p2 :> r) @@ (p3 :> r)
                @@ (c1 :> p1) @@ (c2 :> p2) @@ (c3 :> p3)

WideJobs == {[tree |-> TreeDirs, dry_run |-> FALSE, preserve_root |-> FALSE,
              keep |-> {}, unlistable |-> {}, stubborn |-> {}]}
=============================================================================
