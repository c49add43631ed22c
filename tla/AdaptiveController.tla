------------------------- MODULE AdaptiveController -------------------------
(***************************************************************************)
(* AdaptiveController (cursdel-core/src/adaptive.rs), the hill climber     *)
(* behind `--workers auto`: fed with one sampling window after another, it *)
(* grows, shrinks or holds the number of workers.                          *)
(*                                                                         *)
(* Windows have all the same length, so throughput is a count; the error   *)
(* rate matters only as being above ERROR_RATE_BACKOFF or not.             *)
(***************************************************************************)
EXTENDS Integers

CONSTANTS
    Arguments,     \* what `new` may be called with: [min, max, initial]
    Throughputs    \* the throughputs a window may show

ASSUME ControllerAssumption ==
    /\ Arguments \subseteq [min : Nat, max : Nat, initial : Nat]
    /\ Throughputs \subseteq Nat \ {0}

VARIABLES
    min, max,            \* the bounds `new` has settled on
    current, step, trend, last_throughput, holds, reprobe_grow_next,
    window,              \* history: the last window fed in
    settled              \* history: `current` when the throughput became flat

bounds == <<min, max>>
vars == <<min, max, current, step, trend, last_throughput, holds,
          reprobe_grow_next, window, settled>>

REPROBE_AFTER_HOLDS == 6
None == 0    \* last_throughput before the first window; no window shows it

Least(i, j)    == IF i <= j THEN i ELSE j
Greatest(i, j) == IF i >= j THEN i ELSE j

\* A window in which nothing completed shows no throughput, and its error rate
\* is zero or one.
Windows == [completed : {FALSE}, failing : BOOLEAN, throughput : {None}]
              \cup [completed : {TRUE}, failing : BOOLEAN, throughput : Throughputs]

NoWindow == [completed |-> FALSE, failing |-> FALSE, throughput |-> None]

-----------------------------------------------------------------------------
DefaultStep(lo, hi) == Greatest(Greatest(hi - lo, 4) \div 4, 1)
MaxStep == Greatest(Greatest(max - min, 2) \div 2, 1)

Init ==
    \E args \in Arguments :
        /\ min = Greatest(args.min, 1)
        /\ max = Greatest(args.max, min)
        /\ current = Least(Greatest(args.initial, min), max)
        /\ step = DefaultStep(args.min, max)
        /\ trend = "growing"
        /\ last_throughput = None
        /\ holds = 0
        /\ reprobe_grow_next = TRUE
        /\ window = NoWindow
        /\ settled = current

GrowStep   == Least(Greatest(step + step \div 2, 1), MaxStep)

\* Mutant: a step of one is halved to none.
VanishingStep == step \div 2

ShrinkStep == Greatest(step \div 2, 1)

\* Mutant: growth is not capped.
GrowUncapped(t, stride, held) ==
    /\ last_throughput' = t
    /\ trend' = "growing"
    /\ step' = stride
    /\ current' = current + stride
    /\ holds' = 0

\* apply_grow and apply_shrink, with the step and the count of holds they find.
ApplyGrow(t, stride, held) ==
    /\ last_throughput' = t
    /\ trend' = "growing"
    /\ step' = stride
    /\ current' = Least(current + stride, max)
    /\ holds' = IF current' = current THEN held ELSE 0

ApplyShrink(t, stride, held) ==
    /\ last_throughput' = t
    /\ trend' = "shrinking"
    /\ step' = stride
    /\ current' = Greatest(current - stride, min)
    /\ holds' = IF current' = current THEN held ELSE 0

Improved(t) == 20 * (t - last_throughput) >= last_throughput
Worsened(t) == 20 * (last_throughput - t) >= last_throughput

BacksOff(w) == w.failing /\ current > min

-----------------------------------------------------------------------------
(* on_sample, branch by branch. *)

\* Nothing completed: hold, whatever the errors.
NothingCompleted(w) ==
    /\ ~ w.completed
    /\ UNCHANGED <<current, step, trend, last_throughput, holds,
                   reprobe_grow_next, settled>>

BackOff(w) ==
    /\ w.completed /\ BacksOff(w)
    /\ ApplyShrink(w.throughput, step, holds)
    /\ UNCHANGED reprobe_grow_next
    /\ settled' = current'

FirstSample(w) ==
    /\ w.completed /\ ~ BacksOff(w) /\ last_throughput = None
    /\ ApplyGrow(w.throughput, step, holds)
    /\ UNCHANGED reprobe_grow_next
    /\ settled' = current'

Compared(w) == w.completed /\ ~ BacksOff(w) /\ last_throughput # None

\* The last move helped: the same way on, with a longer step.
GoOn(w) ==
    /\ Compared(w) /\ Improved(w.throughput)
    /\ IF trend = "growing" THEN ApplyGrow(w.throughput, GrowStep, holds)
                            ELSE ApplyShrink(w.throughput, GrowStep, holds)
    /\ UNCHANGED reprobe_grow_next
    /\ settled' = current'

\* The last move hurt: back, with a shorter one.
TurnBack(w) ==
    /\ Compared(w) /\ Worsened(w.throughput)
    /\ IF trend = "growing" THEN ApplyShrink(w.throughput, ShrinkStep, holds)
                            ELSE ApplyGrow(w.throughput, ShrinkStep, holds)
    /\ UNCHANGED reprobe_grow_next
    /\ settled' = current'

IsFlat(w) == Compared(w) /\ ~ Improved(w.throughput) /\ ~ Worsened(w.throughput)

HoldOn(w) ==
    /\ IsFlat(w)
    /\ holds + 1 < REPROBE_AFTER_HOLDS
    /\ holds' = holds + 1
    /\ last_throughput' = w.throughput
    /\ UNCHANGED <<current, step, trend, reprobe_grow_next, settled>>

\* Mutant: every probe grows (the drift ADR-0003:50-57 tells of).
AlwaysProbeUp(w) ==
    /\ IsFlat(w)
    /\ holds + 1 >= REPROBE_AFTER_HOLDS
    /\ ApplyGrow(w.throughput, Least(step, 2), 0)
    /\ reprobe_grow_next' = ~ reprobe_grow_next
    /\ UNCHANGED settled

\* Every few windows that were held, a small step up and down in turn.
Reprobe(w) ==
    /\ IsFlat(w)
    /\ holds + 1 >= REPROBE_AFTER_HOLDS
    /\ IF reprobe_grow_next THEN ApplyGrow(w.throughput, Least(step, 2), 0)
                            ELSE ApplyShrink(w.throughput, Least(step, 2), 0)
    /\ reprobe_grow_next' = ~ reprobe_grow_next
    /\ UNCHANGED settled

OnSample(w) ==
    /\ \/ NothingCompleted(w) \/ BackOff(w) \/ FirstSample(w)
       \/ GoOn(w) \/ TurnBack(w) \/ HoldOn(w) \/ Reprobe(w)
    /\ window' = w
    /\ UNCHANGED bounds

Next == \E w \in Windows : OnSample(w)

Spec == Init /\ [][Next]_vars

-----------------------------------------------------------------------------
(* Properties *)

TypeOK ==
    /\ min \in Nat \ {0} /\ max \in Nat \ {0}
    /\ current \in Int /\ settled \in Int
    /\ step \in Int
    /\ trend \in {"growing", "shrinking"}
    /\ last_throughput \in Throughputs \cup {None}
    /\ holds \in 0 .. REPROBE_AFTER_HOLDS - 1
    /\ reprobe_grow_next \in BOOLEAN
    /\ window \in Windows

\* Whatever arguments `new` is given, zero and inverted bounds included, and
\* whatever the windows show, the worker count stays within the bounds and no
\* step is longer than half of the range (the tests never_exceeds_configured_max
\* and never_goes_below_configured_min).
WithinBounds ==
    /\ min <= max
    /\ current \in min .. max
    /\ step \in 1 .. MaxStep

\* adaptive.rs:78-85: on a flat throughput the re-probes up and down cancel out,
\* also where a bound cuts one of them short: however long it stays flat, the
\* worker count stays within two of where it was when it became flat.
FlatThroughputDoesNotDrift == current - settled \in -2 .. 2

-----------------------------------------------------------------------------
\* The inductive invariant of FlatThroughputDoesNotDrift: the controller is off
\* by at most the length of a probe, on the side the next probe leads away from.
Probe == Least(step, 2)

DriftInv ==
    IF reprobe_grow_next
    THEN settled - Probe <= current /\ current <= settled
    ELSE settled <= current /\ current <= settled + Probe

IInv == TypeOK /\ WithinBounds /\ settled \in min .. max /\ DriftInv
=============================================================================
