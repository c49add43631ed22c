------------------------------ MODULE FileFilter ------------------------------
(***************************************************************************)
(* `--age`, `--min-size`, `--max-size`, `--include` and `--exclude`: what  *)
(* the texts mean (duration.rs, size.rs) and which files they keep         *)
(* (filter.rs).                                                            *)
(*                                                                         *)
(* A text is a number of quarters of its unit, so that there are fractions *)
(* to round; `sort` tells texts that are no such thing.  Times are numbers *)
(* on a scale on which a quarter of every unit is whole: the rounding to   *)
(* nanoseconds, and that of numbers with more digits than a float has, is  *)
(* left out.  A value that may be missing is a set of at most one element. *)
(***************************************************************************)
EXTENDS Naturals

CONSTANTS
    AgeUnits,       \* a quarter of each unit of time
    SizeUnits,      \* bytes in each unit of size
    MaxDuration,    \* the longest Duration
    MaxSize,        \* u64::MAX
    Matched         \* the names that each glob that compiles matches

ASSUME FilterAssumption ==
    /\ MaxDuration \in Nat /\ MaxSize \in Nat
    /\ \A unit \in DOMAIN AgeUnits : AgeUnits[unit] \in Nat \ {0}
    /\ \A unit \in DOMAIN SizeUnits : SizeUnits[unit] \in Nat \ {0}

Text == [sort : {"number", "empty", "no_unit", "no_number"}, quarters : Nat, unit : STRING]

\* AgeDuration: positive, with a unit, and no longer than Duration::MAX - which as
\* a float is one more than it is.
AgeIsAccepted(text) ==
    /\ text.sort = "number" /\ text.unit \in DOMAIN AgeUnits
    /\ text.quarters > 0
    /\ text.quarters * AgeUnits[text.unit] <= MaxDuration + 1

\* Duration::from_secs_f64 panics on that one.
AgePanics(text) ==
    AgeIsAccepted(text) /\ text.quarters * AgeUnits[text.unit] > MaxDuration

AgeOf(text) == text.quarters * AgeUnits[text.unit]

\* ByteSize: zero is a size, and a bare number is bytes ("" is a unit).
SizeIsAccepted(text) == text.sort = "number" /\ text.unit \in DOMAIN SizeUnits

\* round() and `as u64`: half a byte goes up, and what does not fit is the largest.
SizeOf(text) ==
    LET bytes == (text.quarters * SizeUnits[text.unit] + 2) \div 4
    IN  IF bytes > MaxSize THEN MaxSize ELSE bytes

\* FilterSet::build
FilterSet(include, exclude, min, max, age, basis, now) ==
    [include |-> include, exclude |-> exclude,
     min_size |-> {SizeOf(t) : t \in min}, max_size |-> {SizeOf(t) : t \in max},
     age |-> {AgeOf(t) : t \in age}, age_basis |-> basis, reference_time |-> now]

Compiles(globs) == globs \subseteq DOMAIN Matched

\* Mutant: how far the two times are apart, whichever is the later.
Apart(reference, stamp) ==
    IF stamp > reference THEN stamp - reference ELSE reference - stamp

\* duration_since, or nothing for a time that is still to come.
Elapsed(reference, stamp) == IF stamp > reference THEN 0 ELSE reference - stamp

\* evaluate_file: the reason to retain a file, or to delete it.
EvaluateFile(f, file) ==
    CASE \E g \in f.exclude : file.name \in Matched[g] -> "excluded_by_pattern"
      [] \A g \in f.exclude : file.name \notin Matched[g] ->
    IF \E g \in f.include : file.name \notin Matched[g] THEN "not_included_by_pattern"
    ELSE IF \E n \in f.min_size : file.size < n THEN "too_small"
    ELSE IF \E n \in f.max_size : file.size > n THEN "too_large"
    ELSE IF f.age = {} THEN "delete"
    ELSE IF file.times[f.age_basis] = {} THEN "timestamp_unavailable"
    ELSE IF \E stamp \in file.times[f.age_basis], age \in f.age :
                Elapsed(f.reference_time, stamp) < age
    THEN "too_young"
    ELSE "delete"
=============================================================================
