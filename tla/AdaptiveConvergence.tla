------------------------- MODULE AdaptiveConvergence -------------------------
(***************************************************************************)
(* What the adaptive controller samples: windows that show anything, or a  *)
(* target whose throughput is a fixed curve over the worker count, free of *)
(* errors, which the tests of adaptive.rs simulate for single curves.      *)
(***************************************************************************)
EXTENDS AdaptiveController, Sequences

CONSTANTS
    Curves,       \* records: a throughput for each worker count, and its peak
    Sampled,      \* the throughputs of windows that show anything
    Tolerance     \* how far from the peak is near

VARIABLE curve    \* the curve, or NoCurve for windows that show anything

curveVars == <<vars, curve>>

NoCurve == [peak |-> 0, throughput |-> <<>>]

\* A curve has a throughput for every worker count.
CurveInit ==
    /\ Init
    /\ curve \in {NoCurve} \cup {c \in Curves : DOMAIN c.throughput = min .. max}

AnySample ==
    /\ curve = NoCurve
    /\ \E w \in Windows : (w.completed => w.throughput \in Sampled) /\ OnSample(w)
    /\ UNCHANGED curve

\* The next window shows what the current worker count yields.
CurveSample ==
    /\ curve # NoCurve
    /\ OnSample([completed |-> TRUE, failing |-> FALSE,
                 throughput |-> curve.throughput[current]])
    /\ UNCHANGED curve

CurveNext == AnySample \/ CurveSample

\* Every window ends: the coordinator samples until the run is over.
CurveSpec == CurveInit /\ [][CurveNext]_curveVars /\ WF_curveVars(CurveSample)

-----------------------------------------------------------------------------
\* adaptive.rs:267-272: on a curve with a single peak "the controller should
\* converge to within a small tolerance of the peak and stay there".
ConvergesToThePeak ==
    curve # NoCurve => <>[](current - curve.peak \in -Tolerance .. Tolerance)
=============================================================================
