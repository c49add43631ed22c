--------------------------- MODULE Recovery_proofs ---------------------------
(***************************************************************************)
(* Recovery for any number of workers and objects, every answer of the     *)
(* engine and every cap on the log: the report counts what was done, and   *)
(* a success leaves nothing behind by accident.                            *)
(***************************************************************************)
EXTENDS Recovery, FiniteSetTheorems, TLAPS

\* What a worker's entry in `work` may be.
WorkType == [at : {"idle", "delete", "record"} \cup Recoveries,
             on : Objects \cup {"nothing"}, answer : AllAnswers \cup {"none"},
             tried : {"nothing"} \cup Recoveries]

Busy(w) == work[w].at # "idle"

\* The objects that a worker is done with.
Settled == {o \in Objects : o \notin todo /\ \A w \in Workers : Busy(w) => work[w].on # o}

\* The recoveries that may have worked by the time `tried` was the last.
Before(tried) ==
    CASE tried = "nothing"     -> {}
      [] tried = "remediation" -> {"remediation"}
      [] tried = "local"       -> {"remediation", "local"}
      [] tried = "remote"      -> Recoveries

NeverSucceeded(o) == \A i \in 1 .. Len(answers[o]) : answers[o][i] \notin Success

RemoteCategories == {"remote_lock_unsupported", "remote_lock_failed"}

\* The lock that remote resolution could not remove.
StillLocked(o) ==
    /\ o \in Files /\ ~ Gone(o)
    /\ "remote" \notin recovered[o]
    /\ LastAnswer(o) = "sharing_violation"

\* What a worker knows of its object.
WorkIsSound(w) ==
    LET o == work[w].on
    IN  Busy(w) =>
          /\ o \in Objects \ todo
          /\ recovered[o] \subseteq Before(work[w].tried)
          /\ work[w].at = "delete" =>
                Len(answers[o]) = Cardinality(recovered[o]) /\ NeverSucceeded(o)
          /\ work[w].at # "delete" =>
                /\ Len(answers[o]) = 1 + Cardinality(recovered[o])
                /\ work[w].answer \in AllAnswers
                /\ work[w].answer \in Success <=> LastAnswer(o) \in Success
                /\ work[w].answer \in RemoteCategories =>
                      work[w].at = "record" /\ StillLocked(o)
          /\ work[w].at \in Recoveries =>
                /\ work[w].at \notin Before(work[w].tried)
                /\ work[w].answer = LastAnswer(o) /\ work[w].answer \notin Success
                /\ work[w].at # "remediation" =>
                      o \in Files /\ work[w].answer = "sharing_violation"

\* Two workers have two objects.
OwnObjects ==
    \A v, w \in Workers : Busy(v) /\ Busy(w) /\ work[v].on = work[w].on => v = w

\* What is known of an object at any time, and of one that is settled.
ObjectsAreSound ==
    /\ \A o \in todo : answers[o] = <<>> /\ recovered[o] = {}
    /\ \A o \in Objects :
          \A i \in 1 .. Len(answers[o]) - 1 : answers[o][i] \notin Success
    /\ \A o \in Settled : Len(answers[o]) = 1 + Cardinality(recovered[o])

Recovered == {x \in Objects \X Recoveries : x[2] \in recovered[x[1]]}

CountsAreExact ==
    /\ metrics.retries = metrics.remediation_successes
          + metrics.local_locks_resolved + metrics.remote_locks_resolved
    /\ metrics.retries = Cardinality(Recovered)
    /\ (\E o \in Objects : "remediation" \in recovered[o]) => metrics.remediation_successes > 0
    /\ metrics.deleted = Cardinality({o \in Settled : Gone(o)})
    /\ metrics.deleted + metrics.dirs_retained + metrics.failures = Cardinality(Settled)

LogIsSound ==
    /\ Len(log) = IF metrics.failures > MaxStoredFailures THEN MaxStoredFailures
                  ELSE metrics.failures
    /\ truncated <=> metrics.failures > MaxStoredFailures
    /\ metrics.failures = 0 =>
          \A o \in Settled : Gone(o) \/ (o \in Dirs /\ (opts.preserve_root \/ cancel))
    /\ Logged(RemoteCategories) => \E o \in Settled : StillLocked(o)

\* After the exit code nothing happens any more.
EndIsFinal == Done => todo = {} /\ (\A w \in Workers : ~ Busy(w)) /\ exit = ExitCode

IInv ==
    /\ TypeOK
    /\ \A w \in Workers : WorkIsSound(w)
    /\ OwnObjects /\ ObjectsAreSound /\ CountsAreExact /\ LogIsSound /\ EndIsFinal

-----------------------------------------------------------------------------
(* Finite sets, counters, and the fields of `work`. *)

LEMMA FiniteSets ==
    /\ IsFiniteSet(Settled) /\ Cardinality(Settled) \in Nat
    /\ \A S : S \subseteq Objects => IsFiniteSet(S) /\ Cardinality(S) \in Nat
    /\ \A S \in SUBSET Recoveries : IsFiniteSet(S) /\ Cardinality(S) \in Nat
    /\ \A S \in SUBSET (Objects \X Recoveries) : IsFiniteSet(S) /\ Cardinality(S) \in Nat
<1>1. IsFiniteSet(Objects) /\ Settled \subseteq Objects
  BY RecoveryAssumption DEF Settled
<1>2. IsFiniteSet(Recoveries)
  <2>1. IsFiniteSet({"remediation"}) /\ IsFiniteSet({"local"}) /\ IsFiniteSet({"remote"})
    BY FS_Singleton
  <2>2. IsFiniteSet({"remediation"} \cup {"local"})
    BY <2>1, FS_Union
  <2>3. IsFiniteSet(({"remediation"} \cup {"local"}) \cup {"remote"})
    BY <2>1, <2>2, FS_Union
  <2>4. Recoveries = ({"remediation"} \cup {"local"}) \cup {"remote"}
    BY DEF Recoveries
  <2> QED
    BY <2>3, <2>4
<1>3. IsFiniteSet(Objects \X Recoveries)
  BY <1>1, <1>2, FS_Product
<1> QED
  BY <1>1, <1>2, <1>3, FS_Subset, FS_CardinalityType

LEMMA Counting ==
    ASSUME TypeOK, NEW fields, metrics' = Counted(fields)
    PROVE  /\ metrics' \in [DOMAIN NoMetrics -> Nat]
           /\ \A f \in DOMAIN NoMetrics :
                 metrics'[f] = metrics[f] + (IF f \in fields THEN 1 ELSE 0)
  BY DEF TypeOK, Counted

LEMMA IdleIsWork == Idle \in WorkType /\ Idle.at = "idle"
  BY DEF Idle, WorkType

LEMMA Taken ==
    ASSUME NEW o \in Objects
    PROVE  LET r == [Idle EXCEPT !.at = "delete", !.on = o]
           IN  r \in WorkType /\ r.at = "delete" /\ r.on = o /\ r.tried = "nothing"
  BY DEF Idle, WorkType

LEMMA Appended ==
    ASSUME NEW s \in Seq(AllAnswers), NEW answer \in AllAnswers
    PROVE  /\ Append(s, answer) \in Seq(AllAnswers)
           /\ Len(Append(s, answer)) = Len(s) + 1
           /\ Append(s, answer)[Len(s) + 1] = answer
           /\ \A i \in 1 .. Len(s) : Append(s, answer)[i] = s[i]
  OBVIOUS

\* Worker w is given a new entry.
LEMMA Assigned ==
    ASSUME work \in [Workers -> WorkType], NEW w \in Workers, NEW r \in WorkType,
           work' = [work EXCEPT ![w] = r]
    PROVE  /\ work' \in [Workers -> WorkType] /\ work'[w] = r
           /\ \A v \in Workers : v # w => work'[v] = work[v]
  OBVIOUS

\* What NextStep says of the answer.
LEMMA NextStepIsSound ==
    ASSUME NEW o, NEW answer, NEW tried \in {"nothing"} \cup Recoveries
    PROVE  LET at == NextStep(o, answer, tried)
           IN  /\ at \in {"record"} \cup Recoveries
               /\ at \in Recoveries =>
                     /\ at \notin Before(tried)
                     /\ answer \notin Success /\ answer \notin RemoteCategories
                     /\ at # "remediation" => o \in Files /\ answer = "sharing_violation"
  BY DEF NextStep, Recoveries, Before, Success, Remediable, RemoteCategories

LEMMA RecoveryAfterRecovery ==
    ASSUME NEW o, NEW answer, NEW tried \in Recoveries, NextStep(o, answer, tried) \in Recoveries
    PROVE  /\ NextStep(o, answer, tried) \notin Before(tried)
           /\ answer \notin Success /\ answer \notin RemoteCategories
           /\ NextStep(o, answer, tried) # "remediation" =>
                 o \in Files /\ answer = "sharing_violation"
<1>1. tried \in {"nothing"} \cup Recoveries
  OBVIOUS
<1> QED
  BY <1>1, NextStepIsSound

LEMMA Proceeds ==
    ASSUME TypeOK, NEW w \in Workers, NEW answer \in AllAnswers,
           NEW tried \in {"nothing"} \cup Recoveries, Proceed(w, answer, tried)
    PROVE  /\ work' \in [Workers -> WorkType]
           /\ \A v \in Workers : v # w => work'[v] = work[v]
           /\ work'[w].at = NextStep(work[w].on, answer, tried)
           /\ work'[w].at \in {"record"} \cup Recoveries
           /\ work'[w].on = work[w].on
           /\ work'[w].answer = answer /\ work'[w].tried = tried
<1>1. NextStep(work[w].on, answer, tried) \in {"record"} \cup Recoveries
  BY NextStepIsSound
<1>2. work' = [work EXCEPT ![w] = [work[w] EXCEPT !.at = NextStep(work[w].on, answer, tried),
                                                  !.answer = answer, !.tried = tried]]
  BY DEF Proceed
<1> HIDE DEF Proceed
<1> DEFINE at == NextStep(work[w].on, answer, tried)
<1>3. at \in {"record"} \cup Recoveries
  BY <1>1
<1>4. work' = [work EXCEPT ![w] = [work[w] EXCEPT !.at = at, !.answer = answer, !.tried = tried]]
  BY <1>2
<1>5. work'[w].at = at
  BY <1>4 DEF TypeOK, WorkType
<1> HIDE DEF at
<1>6. /\ work' \in [Workers -> WorkType]
      /\ \A v \in Workers : v # w => work'[v] = work[v]
      /\ work'[w].on = work[w].on /\ work'[w].answer = answer /\ work'[w].tried = tried
  BY <1>3, <1>4 DEF TypeOK, WorkType
<1> QED
  BY <1>3, <1>5, <1>6 DEF at

LEMMA Retries ==
    ASSUME TypeOK, NEW w \in Workers, NEW recovery \in Recoveries, NEW fields,
           work[w].on \in Objects, Retry(w, recovery, fields)
    PROVE  /\ work' \in [Workers -> WorkType]
           /\ \A v \in Workers : v # w => work'[v] = work[v]
           /\ work'[w].at = "delete" /\ work'[w].on = work[w].on
           /\ work'[w].tried = recovery
           /\ recovered' \in [Objects -> SUBSET Recoveries]
           /\ \A o \in Objects : recovered'[o] = IF o = work[w].on
                                                  THEN recovered[o] \cup {recovery}
                                                  ELSE recovered[o]
  BY DEF TypeOK, WorkType, Retry

-----------------------------------------------------------------------------
LEMMA InitInv == Init => IInv
<1> SUFFICES ASSUME Init PROVE IInv
  OBVIOUS
<1> USE DEF Init
<1>1. TypeOK
  <2>1. metrics \in [DOMAIN NoMetrics -> Nat]
    BY DEF NoMetrics
  <2>2. log \in Seq(AllAnswers) /\ Len(log) <= MaxStoredFailures
    BY RecoveryAssumption
  <2>3. answers \in [Objects -> Seq(AllAnswers)]
    OBVIOUS
  <2>4. work \in [Workers -> WorkType]
    BY IdleIsWork
  <2> QED
    BY <2>1, <2>2, <2>3, <2>4 DEF TypeOK, WorkType
<1>2. \A w \in Workers : ~ Busy(w)
  BY DEF Busy, Idle
<1>3. Settled = {} /\ Recovered = {} /\ {o \in Settled : Gone(o)} = {}
  BY DEF Settled, Recovered
<1>4. CountsAreExact
  BY <1>3, FS_EmptySet DEF CountsAreExact, NoMetrics
<1>5. LogIsSound
  BY <1>3, RecoveryAssumption DEF LogIsSound, NoMetrics, Logged
<1>6. ObjectsAreSound
  BY <1>3 DEF ObjectsAreSound
<1> QED
  BY <1>1, <1>2, <1>4, <1>5, <1>6 DEF IInv, WorkIsSound, OwnObjects, EndIsFinal, Done

-----------------------------------------------------------------------------
\* Worker w goes on with its object, and touches nothing of the others.
GoesOn(w) ==
    /\ Busy(w) /\ Busy(w)' /\ work'[w].on = work[w].on
    /\ \A v \in Workers : v # w => work'[v] = work[v]
    /\ \A o \in Objects : o # work[w].on =>
          answers'[o] = answers[o] /\ recovered'[o] = recovered[o]
    /\ metrics'.deleted = metrics.deleted /\ metrics'.failures = metrics.failures
    /\ metrics'.dirs_retained = metrics.dirs_retained
    /\ UNCHANGED <<opts, cancel, todo, log, truncated, exit>>

\* Then everything that is not about its own object stays as it was.
LEMMA OthersAreUntouched ==
    ASSUME IInv, NEW w \in Workers, GoesOn(w)
    PROVE  /\ Settled' = Settled /\ work[w].on \in Objects \ (Settled \cup todo)
           /\ {o \in Settled : Gone(o)}' = {o \in Settled : Gone(o)}
           /\ \A v \in Workers : v # w => WorkIsSound(v)'
           /\ OwnObjects' /\ LogIsSound' /\ EndIsFinal'
<1>1. work[w].on \in Objects \ todo /\ work[w].on \notin Settled
  BY DEF IInv, WorkIsSound, GoesOn, Settled
<1>2. \A v \in Workers : Busy(v)' <=> Busy(v)
  BY DEF GoesOn, Busy
<1>3. \A v \in Workers : work'[v].on = work[v].on
  BY DEF GoesOn
<1>4. Settled' = Settled
  BY <1>2, <1>3 DEF Settled, GoesOn
<1>5. \A o \in Settled : o \in Objects /\ answers'[o] = answers[o] /\ recovered'[o] = recovered[o]
  BY <1>1 DEF GoesOn, Settled
<1>6. \A o \in Settled : Gone(o)' <=> Gone(o)
  BY <1>5 DEF Gone, LastAnswer
<1>7. {o \in Settled : Gone(o)}' = {o \in Settled : Gone(o)}
  BY <1>4, <1>6
<1>8. ASSUME NEW v \in Workers, v # w
      PROVE  WorkIsSound(v)'
  <2>1. work'[v] = work[v] /\ todo' = todo /\ WorkIsSound(v)
    BY <1>8 DEF GoesOn, IInv
  <2> SUFFICES ASSUME Busy(v)
              PROVE  WorkIsSound(v)'
    BY <1>2 DEF WorkIsSound
  <2>2. work[v].on \in Objects /\ work[v].on # work[w].on
    BY <1>8, <2>1 DEF IInv, OwnObjects, GoesOn, WorkIsSound
  <2>3. answers'[work[v].on] = answers[work[v].on] /\ recovered'[work[v].on] = recovered[work[v].on]
    BY <2>2 DEF GoesOn
  <2> QED
    BY <2>1, <2>2, <2>3
       DEF WorkIsSound, Busy, NeverSucceeded, StillLocked, Gone, LastAnswer
<1>9. OwnObjects'
  BY <1>2, <1>3 DEF OwnObjects, IInv
<1>10. LogIsSound'
  <2>1. \A o \in Settled : StillLocked(o)' <=> StillLocked(o)
    BY <1>5, <1>6 DEF StillLocked, LastAnswer
  <2> QED
    BY <1>4, <1>6, <2>1 DEF IInv, LogIsSound, Logged, GoesOn
<1>11. EndIsFinal'
  BY DEF IInv, EndIsFinal, Done, GoesOn
<1> QED
  BY <1>1, <1>4, <1>7, <1>8, <1>9, <1>10, <1>11

\* What is left to show of a step that GoesOn.
LEMMA GoingOnKeepsInv ==
    ASSUME IInv, NEW w \in Workers, GoesOn(w), TypeOK', WorkIsSound(w)',
           \A i \in 1 .. Len(answers'[work[w].on]) - 1 : answers'[work[w].on][i] \notin Success,
           metrics'.retries = metrics'.remediation_successes
              + metrics'.local_locks_resolved + metrics'.remote_locks_resolved,
           metrics'.retries = Cardinality(Recovered'),
           (\E o \in Objects : "remediation" \in recovered'[o]) =>
              metrics'.remediation_successes > 0
    PROVE  IInv'
<1>1. /\ Settled' = Settled /\ work[w].on \in Objects \ (Settled \cup todo)
      /\ {o \in Settled : Gone(o)}' = {o \in Settled : Gone(o)}
      /\ \A v \in Workers : v # w => WorkIsSound(v)'
      /\ OwnObjects' /\ LogIsSound' /\ EndIsFinal'
  BY OthersAreUntouched
<1>2. CountsAreExact'
  BY <1>1 DEF IInv, CountsAreExact, GoesOn
<1>3. ObjectsAreSound'
  <2>1. \A o \in Objects : o # work[w].on =>
           answers'[o] = answers[o] /\ recovered'[o] = recovered[o]
    BY DEF GoesOn
  <2>2. todo' = todo /\ todo \subseteq Objects /\ Settled \subseteq Objects
    BY DEF GoesOn, IInv, TypeOK, Settled
  <2>3. \A o \in todo' : answers'[o] = <<>> /\ recovered'[o] = {}
    BY <1>1, <2>1, <2>2 DEF IInv, ObjectsAreSound
  <2>4. \A o \in Objects :
           \A i \in 1 .. Len(answers'[o]) - 1 : answers'[o][i] \notin Success
    BY <2>1 DEF IInv, ObjectsAreSound
  <2>5. \A o \in Settled' : Len(answers'[o]) = 1 + Cardinality(recovered'[o])
    BY <1>1, <2>1, <2>2 DEF IInv, ObjectsAreSound
  <2> QED
    BY <2>3, <2>4, <2>5 DEF ObjectsAreSound
<1> QED
  BY <1>1, <1>2, <1>3 DEF IInv

-----------------------------------------------------------------------------
LEMMA TakeKeepsInv ==
    ASSUME IInv, NEW w \in Workers, NEW o \in Objects, Take(w, o)
    PROVE  IInv'
<1>1. /\ work' \in [Workers -> WorkType] /\ ~ Busy(w) /\ Busy(w)'
      /\ \A v \in Workers : v # w => work'[v] = work[v]
      /\ work'[w].at = "delete" /\ work'[w].on = o /\ work'[w].tried = "nothing"
  <2> DEFINE r == [Idle EXCEPT !.at = "delete", !.on = o]
  <2>1. r \in WorkType /\ r.at = "delete" /\ r.on = o /\ r.tried = "nothing"
    BY Taken
  <2>2. work' = [work EXCEPT ![w] = r] /\ work[w].at = "idle"
    BY DEF Take
  <2> HIDE DEF r
  <2>3. work \in [Workers -> WorkType]
    BY DEF IInv, TypeOK, WorkType
  <2>4. /\ work' \in [Workers -> WorkType] /\ work'[w] = r
        /\ \A v \in Workers : v # w => work'[v] = work[v]
    BY <2>1, <2>2, <2>3, Assigned
  <2> QED
    BY <2>1, <2>2, <2>4 DEF Busy
<1>2. /\ o \in todo /\ todo' = todo \ {o}
      /\ UNCHANGED <<opts, cancel, metrics, log, truncated, exit, answers, recovered>>
  BY DEF Take
<1>3. answers[o] = <<>> /\ recovered[o] = {}
  BY <1>2 DEF IInv, ObjectsAreSound
<1>4. \A v \in Workers : v # w => (Busy(v)' <=> Busy(v))
  BY <1>1 DEF Busy
<1>5. Settled' = Settled
  BY <1>1, <1>2, <1>4 DEF Settled
<1>6. TypeOK'
  BY <1>1, <1>2 DEF IInv, TypeOK, WorkType
<1>7. \A v \in Workers : WorkIsSound(v)'
  <2>1. WorkIsSound(w)'
    BY <1>1, <1>2, <1>3, FS_EmptySet
       DEF WorkIsSound, Before, NeverSucceeded, Recoveries
  <2>2. ASSUME NEW v \in Workers, v # w
        PROVE  WorkIsSound(v)'
    <3>1. work'[v] = work[v] /\ WorkIsSound(v)
      BY <1>1, <2>2 DEF IInv
    <3> QED
      BY <1>2, <3>1
         DEF WorkIsSound, Busy, NeverSucceeded, StillLocked, Gone, LastAnswer
  <2> QED
    BY <2>1, <2>2
<1>8. OwnObjects'
  <2>1. \A v \in Workers : Busy(v) => work[v].on # o
    BY <1>2 DEF IInv, WorkIsSound
  <2> QED
    BY <1>1, <1>4, <2>1 DEF IInv, OwnObjects
<1>9. \A p \in Objects : (Gone(p)' <=> Gone(p)) /\ (StillLocked(p)' <=> StillLocked(p))
  BY <1>2 DEF Gone, StillLocked, LastAnswer
<1>10. Settled \subseteq Objects
  BY DEF Settled
<1>11. ObjectsAreSound'
  BY <1>2, <1>5 DEF IInv, ObjectsAreSound
<1>12. CountsAreExact'
  <2>1. {p \in Settled : Gone(p)}' = {p \in Settled : Gone(p)}
    BY <1>5, <1>9, <1>10
  <2>2. Recovered' = Recovered
    BY <1>2 DEF Recovered
  <2> QED
    BY <1>2, <1>5, <2>1, <2>2 DEF IInv, CountsAreExact
<1>13. LogIsSound'
  BY <1>2, <1>5, <1>9, <1>10 DEF IInv, LogIsSound, Logged
<1>14. EndIsFinal'
  BY <1>2 DEF IInv, EndIsFinal, Done
<1> QED
  BY <1>6, <1>7, <1>8, <1>11, <1>12, <1>13, <1>14 DEF IInv

LEMMA DeleteKeepsInv ==
    ASSUME IInv, NEW w \in Workers, Delete(w)
    PROVE  IInv'
<1>1. work[w].at = "delete" /\ Busy(w) /\ WorkIsSound(w)
  BY DEF Delete, Busy, IInv
<1>o. PICK o \in Objects : o = work[w].on
  BY <1>1 DEF WorkIsSound
<1>2. work[w].on \in Objects /\ work[w].tried \in {"nothing"} \cup Recoveries
  BY <1>1 DEF IInv, TypeOK, WorkIsSound
<1>3. PICK answer \in Answers(o) :
         /\ answers' = [answers EXCEPT ![o] = Append(@, answer)]
         /\ Proceed(w, answer, work[w].tried)
  BY <1>o DEF Delete
<1>4. answer \in AllAnswers /\ answer \notin RemoteCategories
  BY DEF Answers, AllAnswers, Success, Remediable, RemoteCategories
<1>5. UNCHANGED <<opts, cancel, todo, metrics, log, truncated, exit, recovered>>
  BY DEF Delete
<1>6. /\ work' \in [Workers -> WorkType]
      /\ \A v \in Workers : v # w => work'[v] = work[v]
      /\ work'[w].at = NextStep(o, answer, work[w].tried)
      /\ work'[w].at \in {"record"} \cup Recoveries
      /\ work'[w].on = o /\ work'[w].answer = answer /\ work'[w].tried = work[w].tried
  BY <1>o, <1>2, <1>3, <1>4, Proceeds DEF IInv
<1>7. /\ answers' \in [Objects -> Seq(AllAnswers)]
      /\ answers'[o] = Append(answers[o], answer) /\ answers[o] \in Seq(AllAnswers)
      /\ \A p \in Objects : p # o => answers'[p] = answers[p]
  BY <1>2, <1>3, <1>4 DEF IInv, TypeOK
<1>8. Len(answers[o]) = Cardinality(recovered[o]) /\ NeverSucceeded(o)
      /\ recovered[o] \subseteq Before(work[w].tried) /\ o \notin todo
  BY <1>1, <1>o DEF WorkIsSound
<1>9. /\ Len(answers'[o]) = 1 + Cardinality(recovered'[o]) /\ LastAnswer(o)' = answer
      /\ \A i \in 1 .. Len(answers'[o]) - 1 : answers'[o][i] \notin Success
  <2>1. /\ Len(answers'[o]) = Len(answers[o]) + 1 /\ Len(answers[o]) \in Nat
        /\ answers'[o][Len(answers[o]) + 1] = answer
        /\ \A i \in 1 .. Len(answers[o]) : answers'[o][i] = answers[o][i]
    BY <1>4, <1>7, Appended
  <2>2. recovered'[o] = recovered[o]
    BY <1>5
  <2>3. Len(answers'[o]) - 1 = Len(answers[o]) /\ Len(answers'[o]) = 1 + Len(answers[o])
    BY <2>1
  <2>4. \A i \in 1 .. Len(answers'[o]) - 1 : answers'[o][i] \notin Success
    BY <1>8, <2>1, <2>3 DEF NeverSucceeded
  <2> QED
    BY <1>8, <2>1, <2>2, <2>3, <2>4 DEF LastAnswer
<1>10. work'[w].at \in Recoveries =>
         /\ work'[w].at \notin Before(work[w].tried)
         /\ answer \notin Success
         /\ work'[w].at # "remediation" => o \in Files /\ answer = "sharing_violation"
  <2>1. NextStep(o, answer, work[w].tried) \in Recoveries =>
           /\ NextStep(o, answer, work[w].tried) \notin Before(work[w].tried)
           /\ answer \notin Success
           /\ NextStep(o, answer, work[w].tried) # "remediation" =>
                 o \in Files /\ answer = "sharing_violation"
    BY <1>2, NextStepIsSound
  <2> QED
    BY <1>6, <2>1
<1>11. work'[w].at # "delete" /\ Busy(w)'
  BY <1>6 DEF Recoveries, Busy
<1>12. WorkIsSound(w)'
  BY <1>4, <1>5, <1>6, <1>8, <1>9, <1>10, <1>11 DEF WorkIsSound
<1>13. GoesOn(w)
  BY <1>o, <1>1, <1>5, <1>6, <1>7, <1>11 DEF GoesOn
<1>14. TypeOK'
  BY <1>5, <1>6, <1>7 DEF IInv, TypeOK, WorkType
<1>15. Recovered' = Recovered
  BY <1>5 DEF Recovered
<1> QED
  BY <1>o, <1>5, <1>9, <1>12, <1>13, <1>14, <1>15, GoingOnKeepsInv DEF IInv, CountsAreExact

\* The order of the recoveries: one that has not been tried comes after the last.
LEMMA InOrder ==
    ASSUME NEW tried \in {"nothing"} \cup Recoveries,
           NEW recovery \in Recoveries \ Before(tried)
    PROVE  Before(tried) \cup {recovery} \subseteq Before(recovery)
  BY DEF Before, Recoveries

\* A recovery that worked.
LEMMA RetryKeepsInv ==
    ASSUME IInv, NEW w \in Workers, NEW recovery \in Recoveries, NEW fields,
           work[w].at = recovery, Retry(w, recovery, fields),
           \/ recovery = "remediation" /\ fields = {"remediation_attempts", "remediation_successes"}
           \/ recovery = "local" /\ fields = {"local_locks_resolved"}
           \/ recovery = "remote" /\ fields = {"remote_locks_resolved"},
           UNCHANGED <<opts, cancel, todo, log, truncated, exit, answers>>
    PROVE  IInv'
<1>1. Busy(w) /\ WorkIsSound(w)
  BY DEF Busy, IInv, Recoveries
<1>2. PICK o \in Objects : o = work[w].on
  BY <1>1 DEF WorkIsSound
<1>3. /\ o \notin todo /\ recovered[o] \subseteq Before(work[w].tried)
      /\ Len(answers[o]) = 1 + Cardinality(recovered[o])
      /\ recovery \notin Before(work[w].tried) /\ LastAnswer(o) \notin Success
      /\ work[w].tried \in {"nothing"} \cup Recoveries
  <2>1. work[w].at # "delete"
    BY DEF Recoveries
  <2> QED
    BY <1>1, <1>2, <2>1 DEF WorkIsSound, IInv, TypeOK
<1>4. /\ work' \in [Workers -> WorkType]
      /\ \A v \in Workers : v # w => work'[v] = work[v]
      /\ work'[w].at = "delete" /\ work'[w].on = o /\ work'[w].tried = recovery
      /\ recovered' \in [Objects -> SUBSET Recoveries]
      /\ \A p \in Objects : recovered'[p] = IF p = o THEN recovered[p] \cup {recovery}
                                                       ELSE recovered[p]
  BY <1>2, Retries DEF IInv
<1>5. /\ metrics' \in [DOMAIN NoMetrics -> Nat]
      /\ \A f \in DOMAIN NoMetrics :
            metrics'[f] = metrics[f] + (IF f \in fields \cup {"retries"} THEN 1 ELSE 0)
  BY Counting DEF Retry, IInv
<1>6. /\ metrics'.deleted = metrics.deleted /\ metrics'.failures = metrics.failures
      /\ metrics'.dirs_retained = metrics.dirs_retained
      /\ metrics'.retries = metrics.retries + 1
      /\ metrics'.remediation_successes + metrics'.local_locks_resolved
            + metrics'.remote_locks_resolved
         = metrics.remediation_successes + metrics.local_locks_resolved
            + metrics.remote_locks_resolved + 1
      /\ recovery = "remediation" => metrics'.remediation_successes > 0
      /\ metrics'.remediation_successes >= metrics.remediation_successes
  <2>1. metrics \in [DOMAIN NoMetrics -> Nat]
    BY DEF IInv, TypeOK
  <2> QED
    BY <1>5, <2>1 DEF NoMetrics
<1>7. recovered[o] \in SUBSET Recoveries /\ recovery \notin recovered[o]
  BY <1>3 DEF IInv, TypeOK
<1>8. /\ recovered'[o] = recovered[o] \cup {recovery}
      /\ Cardinality(recovered'[o]) = Cardinality(recovered[o]) + 1
      /\ recovered'[o] \subseteq Before(recovery)
  <2>1. recovered'[o] = recovered[o] \cup {recovery}
    BY <1>4
  <2>2. IsFiniteSet(recovered[o])
    BY <1>7, FiniteSets
  <2>3. Cardinality(recovered[o] \cup {recovery}) = Cardinality(recovered[o]) + 1
    BY <1>7, <2>2, FS_AddElement
  <2>4. Before(work[w].tried) \cup {recovery} \subseteq Before(recovery)
    BY <1>3, InOrder
  <2> QED
    BY <1>3, <2>1, <2>3, <2>4
<1>9. Cardinality(Recovered') = Cardinality(Recovered) + 1
  <2>1. <<o, recovery>> \notin Recovered /\ Recovered \in SUBSET (Objects \X Recoveries)
    BY <1>7 DEF Recovered
  <2>2. Recovered' = Recovered \cup {<<o, recovery>>}
    <3>1. \A p \in Objects, r \in Recoveries :
             r \in recovered'[p] <=> r \in recovered[p] \/ (p = o /\ r = recovery)
      BY <1>4
    <3> QED
      BY <3>1 DEF Recovered
  <2>3. IsFiniteSet(Recovered)
    BY <2>1, FiniteSets
  <2> QED
    BY <2>1, <2>2, <2>3, FS_AddElement
<1>10. \A i \in 1 .. Len(answers[o]) : answers[o][i] \notin Success
  <2>1. \A i \in 1 .. Len(answers[o]) - 1 : answers[o][i] \notin Success
    BY DEF IInv, ObjectsAreSound
  <2>2. Len(answers[o]) \in Nat /\ answers[o][Len(answers[o])] \notin Success
    BY <1>3 DEF IInv, TypeOK, LastAnswer
  <2> QED
    BY <2>1, <2>2
<1>11. Busy(w)' /\ "delete" \notin Recoveries
  BY <1>4 DEF Busy, Recoveries
<1>12. WorkIsSound(w)'
  <2>1. NeverSucceeded(o)'
    BY <1>10 DEF NeverSucceeded
  <2>2. Len(answers'[o]) = Cardinality(recovered'[o])
    <3>1. Cardinality(recovered[o]) \in Nat
      BY <1>7, FiniteSets
    <3> QED
      BY <1>3, <1>8, <3>1
  <2> QED
    BY <1>3, <1>4, <1>8, <1>11, <2>1, <2>2 DEF WorkIsSound
<1>13. GoesOn(w)
  BY <1>1, <1>2, <1>4, <1>6, <1>11 DEF GoesOn
<1>14. TypeOK'
  BY <1>4, <1>5 DEF IInv, TypeOK, WorkType
<1>15. (\E p \in Objects : "remediation" \in recovered'[p]) => metrics'.remediation_successes > 0
  <2>1. (\E p \in Objects : "remediation" \in recovered[p]) => metrics.remediation_successes > 0
    BY DEF IInv, CountsAreExact
  <2>2. metrics.remediation_successes \in Nat /\ metrics'.remediation_successes \in Nat
    BY <1>5 DEF IInv, TypeOK, NoMetrics
  <2> QED
    BY <1>4, <1>6, <2>1, <2>2
<1>16. /\ metrics'.retries = metrics'.remediation_successes
             + metrics'.local_locks_resolved + metrics'.remote_locks_resolved
       /\ metrics'.retries = Cardinality(Recovered')
  BY <1>6, <1>9 DEF IInv, CountsAreExact
<1> QED
  BY <1>2, <1>10, <1>12, <1>13, <1>14, <1>15, <1>16, GoingOnKeepsInv DEF IInv, ObjectsAreSound

\* A recovery that did not.
LEMMA ProceedKeepsInv ==
    ASSUME IInv, NEW w \in Workers, NEW recovery \in Recoveries, NEW answer \in AllAnswers,
           work[w].at = recovery, Proceed(w, answer, recovery),
           \/ answer = work[w].answer
           \/ recovery = "remote" /\ answer \in RemoteCategories,
           metrics' = metrics \/ metrics' = Counted({"remediation_attempts"}),
           UNCHANGED <<opts, cancel, todo, log, truncated, exit, answers, recovered>>
    PROVE  IInv'
<1>1. Busy(w) /\ WorkIsSound(w)
  BY DEF Busy, IInv, Recoveries
<1>2. PICK o \in Objects : o = work[w].on
  BY <1>1 DEF WorkIsSound
<1>3. /\ o \notin todo /\ recovered[o] \subseteq Before(work[w].tried)
      /\ Len(answers[o]) = 1 + Cardinality(recovered[o])
      /\ recovery \notin Before(work[w].tried) /\ LastAnswer(o) \notin Success
      /\ work[w].answer = LastAnswer(o)
      /\ recovery # "remediation" => o \in Files /\ work[w].answer = "sharing_violation"
      /\ work[w].tried \in {"nothing"} \cup Recoveries
      /\ work[w].answer \notin RemoteCategories
  <2>1. work[w].at # "delete" /\ work[w].at # "record"
    BY DEF Recoveries
  <2> QED
    BY <1>1, <1>2, <2>1 DEF WorkIsSound, IInv, TypeOK
<1>4. /\ work' \in [Workers -> WorkType]
      /\ \A v \in Workers : v # w => work'[v] = work[v]
      /\ work'[w].at = NextStep(o, answer, recovery)
      /\ work'[w].at \in {"record"} \cup Recoveries
      /\ work'[w].on = o /\ work'[w].answer = answer /\ work'[w].tried = recovery
  BY <1>2, Proceeds DEF IInv
<1>5. work'[w].at \in Recoveries =>
         /\ work'[w].at \notin Before(recovery)
         /\ answer \notin Success /\ answer \notin RemoteCategories
         /\ work'[w].at # "remediation" => o \in Files /\ answer = "sharing_violation"
  <2> SUFFICES ASSUME NextStep(o, answer, recovery) \in Recoveries
              PROVE  /\ NextStep(o, answer, recovery) \notin Before(recovery)
                     /\ answer \notin Success /\ answer \notin RemoteCategories
                     /\ NextStep(o, answer, recovery) # "remediation" =>
                           o \in Files /\ answer = "sharing_violation"
    BY <1>4
  <2> QED
    BY RecoveryAfterRecovery
<1>6. recovered[o] \subseteq Before(recovery) /\ recovered'[o] = recovered[o]
  BY <1>3, InOrder
<1>7. Busy(w)' /\ work'[w].at # "delete"
  BY <1>4 DEF Busy, Recoveries
<1>8. answer \notin Success /\ LastAnswer(o)' = LastAnswer(o)
  BY <1>3 DEF Success, RemoteCategories, LastAnswer
<1>9. answer \in RemoteCategories => work'[w].at = "record" /\ StillLocked(o)'
  <2> SUFFICES ASSUME answer \in RemoteCategories
              PROVE  work'[w].at = "record" /\ StillLocked(o)'
    OBVIOUS
  <2>1. work'[w].at = "record"
    BY <1>4, <1>5
  <2>2. recovery = "remote"
    BY <1>3
  <2>3. o \in Files /\ LastAnswer(o) = "sharing_violation" /\ "remote" \notin recovered[o]
    BY <1>3, <2>2
  <2> QED
    BY <1>3, <2>1, <2>3 DEF StillLocked, Gone, LastAnswer, Success
<1>10. WorkIsSound(w)'
  <2>1. work'[w].at \in Recoveries => answer = LastAnswer(o)'
    BY <1>3, <1>5, <1>8
  <2> QED
    BY <1>3, <1>4, <1>5, <1>6, <1>7, <1>8, <1>9, <2>1 DEF WorkIsSound
<1>11. /\ metrics' \in [DOMAIN NoMetrics -> Nat]
       /\ \A f \in DOMAIN NoMetrics \ {"remediation_attempts"} : metrics'[f] = metrics[f]
  <2>1. metrics \in [DOMAIN NoMetrics -> Nat]
    BY DEF IInv, TypeOK
  <2>2. ASSUME metrics' = Counted({"remediation_attempts"})
        PROVE  /\ metrics' \in [DOMAIN NoMetrics -> Nat]
               /\ \A f \in DOMAIN NoMetrics :
                     metrics'[f] = metrics[f] + (IF f \in {"remediation_attempts"} THEN 1 ELSE 0)
    BY <2>2, Counting DEF IInv
  <2> QED
    BY <2>1, <2>2
<1>12. /\ metrics'.deleted = metrics.deleted /\ metrics'.failures = metrics.failures
       /\ metrics'.dirs_retained = metrics.dirs_retained
       /\ metrics'.retries = metrics.retries
       /\ metrics'.remediation_successes = metrics.remediation_successes
       /\ metrics'.local_locks_resolved = metrics.local_locks_resolved
       /\ metrics'.remote_locks_resolved = metrics.remote_locks_resolved
  BY <1>11 DEF NoMetrics
<1>13. GoesOn(w)
  BY <1>1, <1>2, <1>4, <1>7, <1>12 DEF GoesOn
<1>14. TypeOK'
  BY <1>4, <1>11 DEF IInv, TypeOK, WorkType
<1>15. Recovered' = Recovered
  BY DEF Recovered
<1> QED
  BY <1>2, <1>10, <1>12, <1>13, <1>14, <1>15, GoingOnKeepsInv
     DEF IInv, CountsAreExact, ObjectsAreSound

LEMMA RecoveriesKeepInv ==
    ASSUME IInv, NEW w \in Workers,
           Remediate(w) \/ ResolveLocalLock(w) \/ ResolveRemoteLock(w)
    PROVE  IInv'
<1>1. work[w].at \in Recoveries => work[w].answer \in AllAnswers
  BY DEF IInv, WorkIsSound, Busy, Recoveries
<1>2. CASE Remediate(w)
  <2>1. CASE Retry(w, "remediation", {"remediation_attempts", "remediation_successes"})
    BY <1>2, <2>1, RetryKeepsInv DEF Remediate, Recoveries
  <2>2. CASE /\ metrics' = Counted({"remediation_attempts"})
             /\ Proceed(w, work[w].answer, "remediation")
             /\ UNCHANGED recovered
    BY <1>1, <1>2, <2>2, ProceedKeepsInv DEF Remediate, Recoveries
  <2> QED
    BY <1>2, <2>1, <2>2 DEF Remediate
<1>3. CASE ResolveLocalLock(w)
  <2>1. CASE Retry(w, "local", {"local_locks_resolved"})
    BY <1>3, <2>1, RetryKeepsInv DEF ResolveLocalLock, Recoveries
  <2>2. CASE Proceed(w, work[w].answer, "local") /\ UNCHANGED <<metrics, recovered>>
    BY <1>1, <1>3, <2>2, ProceedKeepsInv DEF ResolveLocalLock, Recoveries
  <2> QED
    BY <1>3, <2>1, <2>2 DEF ResolveLocalLock
<1>4. CASE ResolveRemoteLock(w)
  <2>1. CASE Retry(w, "remote", {"remote_locks_resolved"})
    BY <1>4, <2>1, RetryKeepsInv DEF ResolveRemoteLock, Recoveries
  <2>2. ASSUME NEW category \in RemoteCategories, Proceed(w, category, "remote"),
               UNCHANGED <<metrics, recovered>>
        PROVE  IInv'
    <3>1. category \in AllAnswers /\ "remote" \in Recoveries
      BY DEF RemoteCategories, AllAnswers, Recoveries
    <3> QED
      BY <1>4, <2>2, <3>1, ProceedKeepsInv DEF ResolveRemoteLock
  <2> QED
    BY <1>4, <2>1, <2>2 DEF ResolveRemoteLock, RemoteCategories
<1> QED
  BY <1>2, <1>3, <1>4

-----------------------------------------------------------------------------
LEMMA RecordKeepsInv ==
    ASSUME IInv, NEW w \in Workers, Record(w)
    PROVE  IInv'
<1>1. Busy(w) /\ WorkIsSound(w) /\ work[w].at = "record" /\ "record" \notin Recoveries
  BY DEF Record, Busy, IInv, Recoveries
<1>2. PICK o \in Objects : o = work[w].on
  BY <1>1 DEF WorkIsSound
<1>3. UNCHANGED <<opts, cancel, todo, exit, answers, recovered>>
  BY DEF Record
<1>4. /\ work' \in [Workers -> WorkType] /\ ~ Busy(w)'
      /\ \A v \in Workers : v # w => work'[v] = work[v]
  <2>1. work \in [Workers -> WorkType]
    BY DEF IInv, TypeOK, WorkType
  <2> QED
    BY <2>1, Assigned, IdleIsWork DEF Record, Busy
<1>5. /\ o \notin todo /\ Len(answers[o]) = 1 + Cardinality(recovered[o])
      /\ work[w].answer \in Success <=> LastAnswer(o) \in Success
      /\ work[w].answer \in RemoteCategories => StillLocked(o)
  BY <1>1, <1>2 DEF WorkIsSound
<1>6. Gone(o) <=> work[w].answer \in Success
  <2>1. answers[o] # <<>>
    <3>1. Cardinality(recovered[o]) \in Nat
      BY FiniteSets DEF IInv, TypeOK
    <3> QED
      BY <1>5, <3>1
  <2> QED
    BY <1>5, <2>1 DEF Gone
<1>7. \A v \in Workers : v # w => (Busy(v)' <=> Busy(v))
  BY <1>4 DEF Busy
<1>8. Settled' = Settled \cup {o} /\ o \notin Settled
  <2>1. \A v \in Workers : Busy(v) /\ v # w => work[v].on # o
    BY <1>1, <1>2 DEF IInv, OwnObjects
  <2>2. \A p \in Objects : p \in Settled' <=> p \in Settled \/ p = o
    BY <1>1, <1>2, <1>3, <1>4, <1>5, <1>7, <2>1 DEF Settled
  <2>3. Settled \subseteq Objects /\ Settled' \subseteq Objects
    BY DEF Settled
  <2> QED
    BY <1>1, <1>2, <2>2, <2>3 DEF Settled
<1>9. \A p \in Objects : (Gone(p)' <=> Gone(p)) /\ (StillLocked(p)' <=> StillLocked(p))
  BY <1>3 DEF Gone, StillLocked, LastAnswer
<1>10. Settled \subseteq Objects
  BY DEF Settled
<1>11. Cardinality(Settled') = Cardinality(Settled) + 1
  BY <1>8, FiniteSets, FS_AddElement
<1>12. Cardinality({p \in Settled : Gone(p)}')
         = Cardinality({p \in Settled : Gone(p)}) + (IF Gone(o) THEN 1 ELSE 0)
  <2> DEFINE G == {p \in Settled : Gone(p)}
  <2>1. IsFiniteSet(G) /\ Cardinality(G) \in Nat /\ o \notin G
    <3>1. G \subseteq Objects /\ o \notin G
      BY <1>8, <1>10
    <3> QED
      BY <3>1, FiniteSets
  <2>2. G' = IF Gone(o) THEN G \cup {o} ELSE G
    BY <1>8, <1>9, <1>10
  <2>3. Cardinality(G') = Cardinality(G) + (IF Gone(o) THEN 1 ELSE 0)
    <3>1. CASE Gone(o)
      BY <2>1, <2>2, <3>1, FS_AddElement
    <3>2. CASE ~ Gone(o)
      BY <2>1, <2>2, <3>2
    <3> QED
      BY <3>1, <3>2
  <2> QED
    BY <2>3
<1>13. Recovered' = Recovered
  BY <1>3 DEF Recovered
<1> DEFINE field == IF work[w].answer \in Success THEN "deleted"
                    ELSE IF Expected(work[w].on, work[w].answer) THEN "dirs_retained"
                    ELSE "failures"
<1>14. metrics' = Counted({field})
  BY DEF Record, Success, Expected
<1>15. field \notin {"deleted", "dirs_retained"} => PushFailure(work[w].answer)
  BY DEF Record
<1>16. field \in {"deleted", "dirs_retained"} => UNCHANGED <<log, truncated>>
  BY DEF Record, Success, Expected
<1>17. /\ metrics' \in [DOMAIN NoMetrics -> Nat]
       /\ \A f \in DOMAIN NoMetrics : metrics'[f] = metrics[f] + (IF f = field THEN 1 ELSE 0)
  <2>1. \A f \in DOMAIN NoMetrics :
           metrics'[f] = metrics[f] + (IF f \in {field} THEN 1 ELSE 0)
    BY <1>14, Counting DEF IInv
  <2> QED
    BY <1>14, <2>1, Counting DEF IInv
<1>18. field \in {"deleted", "dirs_retained", "failures"} /\ (field = "deleted" <=> Gone(o))
  BY <1>6
<1>19. field = "dirs_retained" => o \in Dirs /\ (opts.preserve_root \/ cancel)
  BY <1>2 DEF Expected
<1> HIDE DEF field
<1>20. /\ metrics'.retries = metrics.retries
       /\ metrics'.remediation_successes = metrics.remediation_successes
       /\ metrics'.local_locks_resolved = metrics.local_locks_resolved
       /\ metrics'.remote_locks_resolved = metrics.remote_locks_resolved
       /\ metrics'.deleted = metrics.deleted + (IF Gone(o) THEN 1 ELSE 0)
       /\ metrics'.failures = metrics.failures + (IF field = "failures" THEN 1 ELSE 0)
       /\ metrics'.deleted + metrics'.dirs_retained + metrics'.failures
            = metrics.deleted + metrics.dirs_retained + metrics.failures + 1
       /\ metrics.failures \in Nat
  <2>1. metrics \in [DOMAIN NoMetrics -> Nat]
    BY DEF IInv, TypeOK
  <2> QED
    BY <1>17, <1>18, <2>1 DEF NoMetrics
<1>21. CountsAreExact'
  BY <1>3, <1>11, <1>12, <1>13, <1>20 DEF IInv, CountsAreExact
<1>22. /\ log' \in Seq(AllAnswers) /\ Len(log') <= MaxStoredFailures
       /\ truncated' \in BOOLEAN
       /\ Len(log') = IF metrics'.failures > MaxStoredFailures THEN MaxStoredFailures
                      ELSE metrics'.failures
       /\ truncated' <=> metrics'.failures > MaxStoredFailures
       /\ \A i \in DOMAIN log' : (i \in DOMAIN log /\ log'[i] = log[i])
                                  \/ log'[i] = work[w].answer
  <2>1. /\ log \in Seq(AllAnswers) /\ Len(log) <= MaxStoredFailures
        /\ truncated \in BOOLEAN
        /\ Len(log) = IF metrics.failures > MaxStoredFailures THEN MaxStoredFailures
                      ELSE metrics.failures
        /\ truncated <=> metrics.failures > MaxStoredFailures
        /\ MaxStoredFailures \in Nat \ {0}
    BY RecoveryAssumption DEF IInv, TypeOK, LogIsSound
  <2>2. CASE field # "failures"
    BY <1>16, <1>18, <1>20, <2>1, <2>2
  <2>3. CASE field = "failures" /\ Len(log) < MaxStoredFailures
    <3>1. log' = Append(log, work[w].answer) /\ truncated' = truncated
      BY <1>15, <2>3 DEF PushFailure
    <3>2. work[w].answer \in AllAnswers
      BY <1>1 DEF WorkIsSound
    <3>3. /\ log' \in Seq(AllAnswers) /\ Len(log') = Len(log) + 1
          /\ log'[Len(log) + 1] = work[w].answer
          /\ \A i \in 1 .. Len(log) : log'[i] = log[i]
      BY <2>1, <3>1, <3>2, Appended
    <3>4. DOMAIN log = 1 .. Len(log) /\ DOMAIN log' = 1 .. Len(log) + 1 /\ Len(log) \in Nat
      BY <2>1, <3>3
    <3>5. \A i \in DOMAIN log' : (i \in DOMAIN log /\ log'[i] = log[i])
                                  \/ log'[i] = work[w].answer
      BY <3>3, <3>4
    <3> QED
      BY <1>20, <2>1, <2>3, <3>1, <3>3, <3>5
  <2>4. CASE field = "failures" /\ ~ Len(log) < MaxStoredFailures
    <3>1. log' = log /\ truncated' = TRUE
      BY <1>15, <2>4 DEF PushFailure
    <3> QED
      BY <1>20, <2>1, <2>4, <3>1
  <2> QED
    BY <2>2, <2>3, <2>4
<1>23. LogIsSound'
  <2>1. metrics'.failures = 0 =>
           \A p \in Settled' : Gone(p)' \/ (p \in Dirs /\ (opts'.preserve_root \/ cancel'))
    BY <1>3, <1>8, <1>9, <1>10, <1>18, <1>19, <1>20 DEF IInv, LogIsSound
  <2>2. Logged(RemoteCategories)' => \E p \in Settled' : StillLocked(p)'
    BY <1>5, <1>8, <1>9, <1>10, <1>22 DEF IInv, LogIsSound, Logged
  <2> QED
    BY <1>22, <2>1, <2>2 DEF LogIsSound
<1>24. TypeOK'
  BY <1>3, <1>4, <1>17, <1>22 DEF IInv, TypeOK, WorkType
<1>25. \A v \in Workers : WorkIsSound(v)'
  <2>1. WorkIsSound(w)'
    BY <1>4 DEF WorkIsSound
  <2>2. ASSUME NEW v \in Workers, v # w
        PROVE  WorkIsSound(v)'
    <3>1. work'[v] = work[v] /\ WorkIsSound(v)
      BY <1>4, <2>2 DEF IInv
    <3> QED
      BY <1>3, <3>1
         DEF WorkIsSound, Busy, NeverSucceeded, StillLocked, Gone, LastAnswer
  <2> QED
    BY <2>1, <2>2
<1>26. OwnObjects'
  BY <1>4, <1>7 DEF IInv, OwnObjects
<1>27. ObjectsAreSound'
  BY <1>3, <1>5, <1>8 DEF IInv, ObjectsAreSound
<1>28. EndIsFinal'
  BY <1>1, <1>3 DEF IInv, EndIsFinal, Done
<1> QED
  BY <1>21, <1>23, <1>24, <1>25, <1>26, <1>27, <1>28 DEF IInv

-----------------------------------------------------------------------------
\* Nothing of the objects moves when the exit code is made, or the run cancelled.
LEMMA EndKeepsInv ==
    ASSUME IInv, Summarise \/ Cancel
    PROVE  IInv'
<1>1. /\ UNCHANGED <<opts, todo, work, metrics, log, truncated, answers, recovered>>
      /\ cancel \in BOOLEAN /\ cancel' \in BOOLEAN /\ (cancel => cancel')
  BY DEF IInv, TypeOK, Summarise, Cancel
<1>2. /\ Settled' = Settled /\ Recovered' = Recovered
      /\ {o \in Settled : Gone(o)}' = {o \in Settled : Gone(o)}
  BY <1>1 DEF Settled, Recovered, Gone, LastAnswer, Busy
<1>3. TypeOK'
  BY <1>1 DEF IInv, TypeOK
<1>4. (\A w \in Workers : WorkIsSound(w)') /\ OwnObjects'
  BY <1>1 DEF IInv, WorkIsSound, OwnObjects, Busy, NeverSucceeded, StillLocked, Gone, LastAnswer
<1>5. ObjectsAreSound' /\ CountsAreExact'
  BY <1>1, <1>2 DEF IInv, ObjectsAreSound, CountsAreExact
<1>6. LogIsSound'
  BY <1>1, <1>2 DEF IInv, LogIsSound, Logged, StillLocked, Gone, LastAnswer
<1>7. EndIsFinal'
  <2>1. CASE Summarise
    BY <1>1, <2>1 DEF Summarise, EndIsFinal, Busy, ExitCode, Logged
  <2>2. CASE Cancel
    BY <2>2 DEF Cancel, EndIsFinal, Done
  <2> QED
    BY <2>1, <2>2
<1> QED
  BY <1>3, <1>4, <1>5, <1>6, <1>7 DEF IInv

\* The inductive invariant: what each worker knows of its object, and what the
\* counters and the log say of those that are settled.
THEOREM Invariance == Spec => []IInv
<1>1. IInv /\ [Next]_vars => IInv'
  <2> SUFFICES ASSUME IInv, [Next]_vars PROVE IInv'
    OBVIOUS
  <2>1. ASSUME NEW w \in Workers, NEW o \in Objects, Take(w, o) PROVE IInv'
    BY <2>1, TakeKeepsInv
  <2>2. ASSUME NEW w \in Workers, Delete(w) PROVE IInv'
    BY <2>2, DeleteKeepsInv
  <2>3. ASSUME NEW w \in Workers,
               Remediate(w) \/ ResolveLocalLock(w) \/ ResolveRemoteLock(w)
        PROVE  IInv'
    BY <2>3, RecoveriesKeepInv
  <2>4. ASSUME NEW w \in Workers, Record(w) PROVE IInv'
    BY <2>4, RecordKeepsInv
  <2>5. CASE Summarise \/ Cancel
    BY <2>5, EndKeepsInv
  <2>6. CASE UNCHANGED vars
    <3>1. UNCHANGED <<opts, cancel, todo, work, metrics, log, truncated, exit, answers, recovered>>
      BY <2>6 DEF vars
    <3>2. /\ Settled' = Settled /\ Recovered' = Recovered
          /\ {o \in Settled : Gone(o)}' = {o \in Settled : Gone(o)}
      BY <3>1 DEF Settled, Recovered, Gone, LastAnswer, Busy
    <3>3. TypeOK' /\ OwnObjects' /\ ObjectsAreSound' /\ CountsAreExact'
      BY <3>1, <3>2 DEF IInv, TypeOK, OwnObjects, Busy, ObjectsAreSound, CountsAreExact
    <3>4. \A w \in Workers : WorkIsSound(w)'
      BY <3>1 DEF IInv, WorkIsSound, Busy, NeverSucceeded, StillLocked, Gone, LastAnswer
    <3>5. LogIsSound' /\ EndIsFinal'
      BY <3>1, <3>2 DEF IInv, LogIsSound, EndIsFinal, Done, ExitCode, Busy, Logged, StillLocked,
                        Gone, LastAnswer
    <3> QED
      BY <3>3, <3>4, <3>5 DEF IInv
  <2> QED
    BY <2>1, <2>2, <2>3, <2>4, <2>5, <2>6 DEF Next
<1> QED
  BY <1>1, InitInv, PTL DEF Spec

\* At the end there is no object that is not settled.
LEMMA AllIsSettled == ASSUME IInv, Done PROVE Settled = Objects /\ exit = ExitCode
  BY DEF IInv, EndIsFinal, Settled

\* pipeline.rs:562-600: every delete that is tried again follows one recovery the
\* engine reported, and the counters of the recoveries add up to the retries.
THEOREM RetriesAreExactHolds == Spec => []RetriesAreExact
<1>1. IInv => RetriesAreExact
  <2> SUFFICES ASSUME IInv, Done PROVE RetriesAreExact
    BY DEF RetriesAreExact
  <2> QED
    BY AllIsSettled DEF IInv, RetriesAreExact, ObjectsAreSound, CountsAreExact, Recovered
<1> QED
  BY <1>1, Invariance, PTL

\* report.rs:32-36: deleted, retained and failed objects add up to all there were,
\* however many failures the log had room for.
THEOREM FailuresAreExactHolds == Spec => []FailuresAreExact
<1>1. IInv => FailuresAreExact
  <2> SUFFICES ASSUME IInv, Done PROVE FailuresAreExact
    BY DEF FailuresAreExact
  <2>1. Settled = Objects
    BY AllIsSettled
  <2>2. metrics.failures \in Nat /\ MaxStoredFailures \in Nat \ {0}
    BY RecoveryAssumption DEF IInv, TypeOK, NoMetrics
  <2> QED
    BY <2>1, <2>2 DEF IInv, FailuresAreExact, CountsAreExact, LogIsSound
<1> QED
  BY <1>1, Invariance, PTL

\* What the two theorems on the exit code have in common.
LEMMA EmptyLogMeansNoFailure ==
    ASSUME IInv
    PROVE  log = <<>> <=> metrics.failures = 0
<1>1. /\ log \in Seq(AllAnswers) /\ metrics.failures \in Nat /\ MaxStoredFailures \in Nat \ {0}
      /\ Len(log) = IF metrics.failures > MaxStoredFailures THEN MaxStoredFailures
                    ELSE metrics.failures
  BY RecoveryAssumption DEF IInv, TypeOK, NoMetrics, LogIsSound
<1>2. log = <<>> <=> Len(log) = 0
  BY <1>1
<1> QED
  BY <1>1, <1>2

\* EXIT_CODES.md:12: exit code zero is given only when every object is gone, but for
\* the directories that a filter kept something in.
THEOREM SuccessMeansGoneHolds == Spec => []SuccessMeansGone
<1>1. IInv => SuccessMeansGone
  <2> SUFFICES ASSUME IInv, exit = "Success"
              PROVE  \A o \in Objects : Gone(o) \/ (o \in Dirs /\ opts.preserve_root)
    BY DEF SuccessMeansGone
  <2>1. Settled = Objects /\ exit = ExitCode
    BY AllIsSettled DEF Done
  <2>2. ~ cancel /\ log = <<>>
    BY <2>1 DEF ExitCode
  <2> QED
    BY <2>1, <2>2, EmptyLogMeansNoFailure DEF IInv, LogIsSound
<1> QED
  BY <1>1, Invariance, PTL

\* report.rs:44-51: a log that is full never makes a success of a failure, and the
\* specific exit codes are never given without their cause.
THEOREM CapOnlyGeneralisesHolds == Spec => []CapOnlyGeneralises
<1>1. IInv => CapOnlyGeneralises
  <2> SUFFICES ASSUME IInv, Done, ~ cancel PROVE CapOnlyGeneralises
    BY DEF CapOnlyGeneralises
  <2>1. Settled = Objects /\ exit = ExitCode
    BY AllIsSettled
  <2>2. exit = "Success" <=> metrics.failures = 0
    BY <2>1, EmptyLogMeansNoFailure DEF ExitCode
  <2>3. exit = "RemoteLockHandlingFailed" => \E o \in Settled : StillLocked(o)
    <3>1. exit = "RemoteLockHandlingFailed" => Logged(RemoteCategories)
      BY <2>1 DEF ExitCode, RemoteCategories, Logged
    <3> QED
      BY <3>1 DEF IInv, LogIsSound
  <2>4. exit = "PrivilegeRequirementNotSatisfied" =>
           \A o \in Objects : "remediation" \notin recovered[o]
    <3>1. exit = "PrivilegeRequirementNotSatisfied" => metrics.remediation_successes = 0
      BY <2>1 DEF ExitCode
    <3> QED
      BY <3>1 DEF IInv, CountsAreExact
  <2> QED
    BY <2>2, <2>3, <2>4 DEF CapOnlyGeneralises, StillLocked
<1> QED
  BY <1>1, Invariance, PTL
=============================================================================
