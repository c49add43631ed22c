----------------------------- MODULE MCAdaptive -----------------------------
EXTENDS AdaptiveConvergence, Functions

CONSTANT Ceiling    \* the largest worker count of a curve

\* Bounds of zero, equal, inverted and apart, initial counts inside and outside;
\* and those of the curves.
AnyArguments == [min : 0 .. 3, max : {0, 2, 3, 8, 13}, initial : {0, 2, 5, 20}]
                    \cup [min : {1}, max : {Ceiling}, initial : {1, 4, Ceiling}]

-----------------------------------------------------------------------------
(* Every curve over a few workers that rises to a peak and falls after it.  *)

\* Throughputs 10% apart.
Levels == <<1000, 1100, 1210, 1331, 1464, 1610, 1771, 1948, 2143, 2357, 2593,
            2852, 3137, 3451, 3796, 4175, 4593, 5052, 5557, 6113, 6724, 7397>>

\* How many levels lie between the peak and w, by the drop at each worker.
Depth(drop, peak, w) ==
    FoldFunctionOnSet(+, 0, drop, IF w < peak THEN w .. peak - 1 ELSE peak + 1 .. w)

Unimodal ==
    {[peak |-> peak,
      throughput |-> [w \in 1 .. Ceiling |-> Levels[Len(Levels) - Depth(drop, peak, w)]]] :
        peak \in 1 .. Ceiling, drop \in [1 .. Ceiling -> {1, 3}]}

Shown == Sampled \cup {c.throughput[w] : c \in Curves, w \in 1 .. Ceiling}
=============================================================================
