------------------------------ MODULE MCEngine ------------------------------
(* A directory outer, in it one, inner, with a file and a link, and elsewhere *)
(* directories of the same names.  One link takes the place of inner, which   *)
(* is opened, and one that of outer, further up in the paths of what is in it. *)
EXTENDS Engine, TLC

CONSTANTS top, outer, inner, out, oute, x, z, k, l, swap, turn, Holder, Init1, Other

SomeDirs == {top, outer, inner, out, oute}
SomeFiles == {x, z, k}
SomeLinks == {l, swap, turn}
SomeDestinations == (l :> oute) @@ (swap :> oute) @@ (turn :> out)
SomeNames == {"d", "x"}
\* x and z have the same home: z is the file that takes x's place; swap takes
\* inner's, and turn takes outer's, so that the path of inner leads to the directory
\* of its name elsewhere.
SomeHomes == (outer :> <<top, "d">>) @@ (inner :> <<outer, "d">>) @@ (x :> <<inner, "x">>)
             @@ (z :> <<inner, "x">>) @@ (l :> <<inner, "d">>) @@ (swap :> <<outer, "d">>)
             @@ (turn :> <<top, "d">>) @@ (k :> <<oute, "x">>) @@ (oute :> <<out, "d">>)
             @@ (out :> <<out, "x">>)

Obstacle(b, r, h) == [barred |-> b, readonly |-> r, holders |-> h]

\* Rights, with a read-only file; only the rights of a file, which on POSIX is nothing
\* in the way; and a file open in a process that may be ended and in others that may not.
SomeObstacles ==
    {Obstacle({inner}, {x}, {}), Obstacle({x}, {}, {}),
     Obstacle({}, {}, {<<p, x>> : p \in {Holder, Ours, Init1, Other}})}

\* A share on Windows, where the server is asked for its open files.
SomeForms == [p \in {"linux", "macos", "windows"} |-> IF p = "windows" THEN {"unc"} ELSE {"full"}]

\* Opens of clients: of d\d\x, under another capitalisation, and of the file of the
\* same name in another share.
OpenIds == {1, 2}
ServerRoot == <<"C:", "data">>
ServerPaths == (1 :> <<"c:", "Data", "d", "d", "x">>)
               @@ (2 :> <<"C:", "backup", "d", "d", "x">>)
LowerCase == [c \in {"C:", "c:", "data", "Data", "backup", "d", "x"} |->
                 CASE c = "C:" -> "c:" [] c = "Data" -> "data" [] OTHER -> c]
WellFormed == [n \in SomeNames |-> n]

-----------------------------------------------------------------------------
(* A single file in the current directory, named by its bare name.           *)
NoDestinations == [n \in {} |-> out]
SingleHome == (x :> <<top, "x">>)
RelativeForms == [p \in {"linux", "macos", "windows"} |-> {"relative"}]
NoObstacles == {Obstacle({}, {}, {})}
=============================================================================
