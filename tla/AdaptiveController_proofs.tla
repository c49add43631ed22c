--------------------- MODULE AdaptiveController_proofs ---------------------
(***************************************************************************)
(* AdaptiveController for every argument of `new` and every sequence of    *)
(* windows: the worker count stays within its bounds, and a flat           *)
(* throughput does not make it drift.                                      *)
(***************************************************************************)
EXTENDS AdaptiveController, TLAPS

\* What the arithmetic of the steps yields, whatever the bounds.
LEMMA Halves ==
    ASSUME NEW n \in Nat
    PROVE  n \div 2 \in Nat /\ n \div 2 <= n /\ 2 * (n \div 2) <= n
  OBVIOUS

LEMMA MaxStepType ==
    ASSUME min \in Nat, max \in Nat, min <= max
    PROVE  MaxStep \in Nat /\ MaxStep >= 1
  BY DEF MaxStep, Greatest

\* `new` starts with a step that on_sample could have arrived at, although it
\* takes it from the bound it was given and not from the one it keeps.
LEMMA DefaultStepBound ==
    ASSUME NEW lo \in Nat, NEW hi \in Nat, Greatest(lo, 1) <= hi
    PROVE  /\ DefaultStep(lo, hi) \in Nat
           /\ DefaultStep(lo, hi) >= 1
           /\ DefaultStep(lo, hi) <= Greatest(Greatest(hi - Greatest(lo, 1), 2) \div 2, 1)
  BY DEF DefaultStep, Greatest

LEMMA InitInv == Init => IInv
<1> SUFFICES ASSUME Init PROVE IInv
  OBVIOUS
<1>1. PICK args \in Arguments :
        /\ min = Greatest(args.min, 1)
        /\ max = Greatest(args.max, min)
        /\ current = Least(Greatest(args.initial, min), max)
        /\ step = DefaultStep(args.min, max)
  BY DEF Init
<1>2. args.min \in Nat /\ args.max \in Nat /\ args.initial \in Nat
  BY ControllerAssumption
<1>3. /\ min \in Nat \ {0} /\ max \in Nat \ {0} /\ min <= max
      /\ current \in min .. max
  BY <1>1, <1>2 DEF Greatest, Least
<1>4. step \in Nat /\ step >= 1 /\ step <= MaxStep
  BY <1>1, <1>2, <1>3, DefaultStepBound DEF MaxStep
<1>5. /\ trend = "growing" /\ last_throughput = None /\ holds = 0
      /\ reprobe_grow_next = TRUE /\ window = NoWindow /\ settled = current
  BY DEF Init
<1>6. TypeOK
  BY <1>3, <1>4, <1>5 DEF TypeOK, REPROBE_AFTER_HOLDS, Windows, NoWindow, None
<1>7. WithinBounds
  BY <1>3, <1>4, MaxStepType DEF WithinBounds
<1>8. DriftInv
  BY <1>3, <1>4, <1>5 DEF DriftInv, Probe, Least
<1> QED
  BY <1>3, <1>5, <1>6, <1>7, <1>8 DEF IInv

-----------------------------------------------------------------------------
\* Growing or shrinking by an admissible stride stays within the bounds.
LEMMA ApplyInv ==
    ASSUME IInv, UNCHANGED bounds,
           NEW t \in Throughputs, NEW stride \in 1 .. MaxStep,
           NEW held \in 0 .. REPROBE_AFTER_HOLDS - 1,
           ApplyGrow(t, stride, held) \/ ApplyShrink(t, stride, held)
    PROVE  /\ current' \in min .. max /\ min' = min /\ max' = max
           /\ step' = stride /\ MaxStep' = MaxStep
           /\ last_throughput' = t
           /\ trend' \in {"growing", "shrinking"}
           /\ holds' \in 0 .. REPROBE_AFTER_HOLDS - 1
<1>1. /\ min \in Nat /\ max \in Nat /\ min <= max
      /\ current \in min .. max /\ stride \in Nat /\ stride >= 1
  BY MaxStepType DEF IInv, TypeOK, WithinBounds
<1>2. min' = min /\ max' = max /\ MaxStep' = MaxStep
  BY DEF bounds, MaxStep
<1>3. CASE ApplyGrow(t, stride, held)
  BY <1>1, <1>2, <1>3 DEF ApplyGrow, Least, REPROBE_AFTER_HOLDS
<1>4. CASE ApplyShrink(t, stride, held)
  BY <1>1, <1>2, <1>4 DEF ApplyShrink, Greatest, REPROBE_AFTER_HOLDS
<1> QED
  BY <1>3, <1>4

\* A window after which `settled` is reset: the invariant starts afresh.
LEMMA MovedInv ==
    ASSUME IInv, UNCHANGED bounds, NEW w \in Windows, w.completed, window' = w,
           NEW stride \in 1 .. MaxStep,
           ApplyGrow(w.throughput, stride, holds) \/ ApplyShrink(w.throughput, stride, holds),
           UNCHANGED reprobe_grow_next, settled' = current'
    PROVE  IInv'
<1>1. w.throughput \in Throughputs
  BY DEF Windows
<1>2. holds \in 0 .. REPROBE_AFTER_HOLDS - 1
  BY DEF IInv, TypeOK
<1>3. /\ current' \in min .. max /\ min' = min /\ max' = max
      /\ step' = stride /\ MaxStep' = MaxStep
      /\ last_throughput' = w.throughput
      /\ trend' \in {"growing", "shrinking"}
      /\ holds' \in 0 .. REPROBE_AFTER_HOLDS - 1
  BY <1>1, <1>2, ApplyInv
<1>4. /\ min \in Nat \ {0} /\ max \in Nat \ {0} /\ min <= max
      /\ MaxStep \in Nat /\ stride \in Nat /\ stride >= 1
      /\ reprobe_grow_next \in BOOLEAN
  BY MaxStepType DEF IInv, TypeOK, WithinBounds
<1>5. TypeOK'
  BY <1>1, <1>3, <1>4 DEF TypeOK
<1>6. WithinBounds'
  BY <1>3, <1>4 DEF WithinBounds
<1>7. DriftInv'
  <2>1. PICK p \in Nat : p = Probe'
    BY <1>3, <1>4 DEF Probe, Least
  <2>2. PICK c \in Int : c = current' /\ c = settled'
    BY <1>3, <1>4
  <2>3. c - p <= c /\ c <= c /\ c <= c + p
    OBVIOUS
  <2> QED
    BY <2>1, <2>2, <2>3, Zenon DEF DriftInv
<1> QED
  BY <1>3, <1>5, <1>6, <1>7 DEF IInv

LEMMA StepSizes ==
    ASSUME IInv
    PROVE  /\ step \in 1 .. MaxStep /\ GrowStep \in 1 .. MaxStep
           /\ ShrinkStep \in 1 .. MaxStep
           /\ Least(step, 2) \in 1 .. MaxStep
<1>1. step \in Nat /\ step >= 1 /\ step <= MaxStep /\ MaxStep \in Nat
  BY MaxStepType DEF IInv, TypeOK, WithinBounds
<1>2. step \div 2 \in Nat /\ step \div 2 <= step
  BY <1>1, Halves
<1>3. GrowStep \in 1 .. MaxStep
  BY <1>1, <1>2 DEF GrowStep, Least, Greatest
<1>4. ShrinkStep \in 1 .. MaxStep
  BY <1>1, <1>2 DEF ShrinkStep, Greatest
<1>5. Least(step, 2) \in 1 .. MaxStep
  BY <1>1 DEF Least
<1> QED
  BY <1>1, <1>3, <1>4, <1>5

\* A probe leads back towards `settled`, or from it by its own length.
LEMMA ReprobeInv ==
    ASSUME IInv, UNCHANGED bounds, NEW w \in Windows, Reprobe(w), window' = w
    PROVE  IInv'
<1>1. w.completed /\ w.throughput \in Throughputs
  BY DEF Reprobe, IsFlat, Compared, Windows
<1>2. /\ Probe \in 1 .. MaxStep /\ MaxStep \in Nat /\ Probe <= 2
      /\ 0 \in 0 .. REPROBE_AFTER_HOLDS - 1
  BY StepSizes, MaxStepType DEF Probe, REPROBE_AFTER_HOLDS, IInv, TypeOK, WithinBounds, Least
<1>3. IF reprobe_grow_next THEN ApplyGrow(w.throughput, Probe, 0)
                           ELSE ApplyShrink(w.throughput, Probe, 0)
  BY DEF Reprobe, Probe
<1>4. /\ current' \in min .. max /\ min' = min /\ max' = max
      /\ step' = Probe /\ MaxStep' = MaxStep
      /\ last_throughput' = w.throughput
      /\ trend' \in {"growing", "shrinking"}
      /\ holds' \in 0 .. REPROBE_AFTER_HOLDS - 1
  BY <1>1, <1>2, <1>3, ApplyInv
<1>5. /\ min \in Nat \ {0} /\ max \in Nat \ {0} /\ min <= max
      /\ current \in min .. max /\ settled \in min .. max /\ settled' = settled
      /\ reprobe_grow_next \in BOOLEAN /\ reprobe_grow_next' = ~ reprobe_grow_next
  BY DEF IInv, TypeOK, WithinBounds, Reprobe
<1>6. TypeOK'
  BY <1>1, <1>2, <1>4, <1>5 DEF TypeOK
<1>7. WithinBounds'
  BY <1>2, <1>4, <1>5 DEF WithinBounds
<1>8. Probe' = Probe
  BY <1>2, <1>4 DEF Probe, Least
<1>9. DriftInv'
  <2>1. CASE reprobe_grow_next
    <3>1. settled - Probe <= current /\ current <= settled
      BY <2>1 DEF IInv, DriftInv
    <3>2. current' = Least(current + Probe, max)
      BY <1>3, <2>1 DEF ApplyGrow
    <3>3. settled <= current' /\ current' <= settled + Probe
      BY <1>2, <1>5, <3>1, <3>2 DEF Least
    <3> QED
      BY <1>5, <1>8, <2>1, <3>3 DEF DriftInv
  <2>2. CASE ~ reprobe_grow_next
    <3>1. settled <= current /\ current <= settled + Probe
      BY <2>2 DEF IInv, DriftInv
    <3>2. current' = Greatest(current - Probe, min)
      BY <1>3, <2>2 DEF ApplyShrink
    <3>3. settled - Probe <= current' /\ current' <= settled
      BY <1>2, <1>5, <3>1, <3>2 DEF Greatest
    <3> QED
      BY <1>5, <1>8, <2>2, <3>3 DEF DriftInv
  <2> QED
    BY <2>1, <2>2
<1> QED
  BY <1>4, <1>5, <1>6, <1>7, <1>9 DEF IInv

-----------------------------------------------------------------------------
LEMMA StepInv == IInv /\ [Next]_vars => IInv'
<1> SUFFICES ASSUME IInv, [Next]_vars PROVE IInv'
  OBVIOUS
<1>1. ASSUME NEW w \in Windows, OnSample(w) PROVE IInv'
  <2>0. window' = w /\ UNCHANGED bounds
    BY <1>1 DEF OnSample
  <2>1. CASE NothingCompleted(w)
    BY <2>0, <2>1 DEF NothingCompleted, IInv, TypeOK, WithinBounds, DriftInv, Probe,
       MaxStep, bounds
  <2>2. CASE BackOff(w)
    BY <2>0, <2>2, StepSizes, MovedInv DEF BackOff
  <2>3. CASE FirstSample(w)
    BY <2>0, <2>3, StepSizes, MovedInv DEF FirstSample
  <2>4. CASE GoOn(w)
    BY <2>0, <2>4, StepSizes, MovedInv DEF GoOn, Compared
  <2>5. CASE TurnBack(w)
    BY <2>0, <2>5, StepSizes, MovedInv DEF TurnBack, Compared
  <2>6. CASE HoldOn(w)
    <3>1. w.throughput \in Throughputs
      BY <2>6 DEF HoldOn, IsFlat, Compared, Windows
    <3> QED
      BY <2>0, <2>6, <3>1 DEF HoldOn, IInv, TypeOK, WithinBounds, DriftInv, Probe,
         MaxStep, bounds, REPROBE_AFTER_HOLDS
  <2>7. CASE Reprobe(w)
    BY <2>0, <2>7, ReprobeInv
  <2> QED
    BY <1>1, <2>1, <2>2, <2>3, <2>4, <2>5, <2>6, <2>7 DEF OnSample
<1>2. CASE UNCHANGED vars
  BY <1>2 DEF vars, IInv, TypeOK, WithinBounds, DriftInv, Probe, MaxStep
<1> QED
  BY <1>1, <1>2 DEF Next

\* The invariant holds of every behaviour.
THEOREM Invariance == Spec => []IInv
  BY InitInv, StepInv, PTL DEF Spec

\* For all bounds `new` may be given, however wrong, and all windows, the
\* worker count is within the bounds and the step is within half of the range.
THEOREM WithinBoundsHolds == Spec => []WithinBounds
<1>1. IInv => WithinBounds
  BY DEF IInv
<1> QED
  BY Invariance, <1>1, PTL

\* adaptive.rs:78-85: however long the throughput stays flat, the alternating
\* probes keep the worker count within two of where it was.
THEOREM FlatThroughputDoesNotDriftHolds == Spec => []FlatThroughputDoesNotDrift
<1>1. IInv => FlatThroughputDoesNotDrift
  BY DEF IInv, TypeOK, WithinBounds, DriftInv, Probe, Least, FlatThroughputDoesNotDrift
<1> QED
  BY Invariance, <1>1, PTL
=============================================================================
