---------------------- MODULE ResizableSemaphore_proofs ----------------------
(***************************************************************************)
(* ResizableSemaphore for any number of workers, capacities, uses and      *)
(* resizes: permits balance, no wakeup is lost, and the mutex and the      *)
(* condition variable implement CountingSemaphore.                         *)
(***************************************************************************)
EXTENDS ResizableSemaphore, FiniteSetTheorems, TLAPS

\* PermitsAreHeld gives release a permit to give back, and NoWakeupIsLost
\* needs that the count is exact; neither needs the mutex to be exclusive,
\* because Take, Wait, GiveBack and SetCapacity are single steps.
IInv == TypeOK /\ PermitsAreHeld /\ NoWakeupIsLost

-----------------------------------------------------------------------------
LEMMA FiniteWorkerSets ==
    /\ IsFiniteSet(Holders) /\ Cardinality(Holders) \in Nat
    /\ IsFiniteSet(Awake) /\ Cardinality(Awake) \in Nat
<1>1. Holders \subseteq Workers /\ Awake \subseteq Workers
  BY DEF Holders, Awake
<1> QED
  BY <1>1, SemaphoreAssumption, FS_Subset, FS_CardinalityType

\* The same of the next state, where the sets are new.
LEMMA FiniteWorkerSetsNext ==
    /\ IsFiniteSet(Holders') /\ Cardinality(Holders') \in Nat
    /\ IsFiniteSet(Awake') /\ Cardinality(Awake') \in Nat
<1>1. Holders' \subseteq Workers /\ Awake' \subseteq Workers
  BY DEF Holders, Awake
<1> QED
  BY <1>1, SemaphoreAssumption, FS_Subset, FS_CardinalityType

LEMMA AtLeastOneType ==
    ASSUME NEW c \in {AtLeastOne(n) : n \in Capacities}
    PROVE  c \in Nat /\ c >= 1
  BY SemaphoreAssumption DEF AtLeastOne

-----------------------------------------------------------------------------
LEMMA InitInv == Init => IInv
<1> SUFFICES ASSUME Init PROVE IInv
  OBVIOUS
<1>1. TypeOK
  BY DEF Init, TypeOK, Steps, Threads, Free
<1>2. Holders = {} /\ Waiting = {}
  BY DEF Init, Holders, Waiting, Threads
<1>3. PermitsAreHeld
  BY <1>2, FS_EmptySet DEF Init, PermitsAreHeld
<1> QED
  BY <1>1, <1>2, <1>3 DEF IInv, NoWakeupIsLost

LEMMA TypePreserved == TypeOK /\ [Next]_vars => TypeOK'
<1> SUFFICES ASSUME TypeOK, [Next]_vars PROVE TypeOK'
  OBVIOUS
<1> USE DEF TypeOK, Steps, Threads, Goto, Lock, Unlock
<1>1. ASSUME NEW w \in Workers, Acquire(w) PROVE TypeOK'
  BY <1>1 DEF Acquire
<1>2. ASSUME NEW w \in Workers, AcquireLock(w) PROVE TypeOK'
  BY <1>2 DEF AcquireLock
<1>3. ASSUME NEW w \in Workers, Take(w) PROVE TypeOK'
  BY <1>3 DEF Take
<1>4. ASSUME NEW w \in Workers, Wait(w) PROVE TypeOK'
  BY <1>4 DEF Wait
<1>5. ASSUME NEW w \in Workers, SpuriousWakeup(w) PROVE TypeOK'
  BY <1>5 DEF SpuriousWakeup
<1>6. ASSUME NEW w \in Workers, ReleaseLock(w) PROVE TypeOK'
  BY <1>6 DEF ReleaseLock
<1>7. ASSUME NEW w \in Workers, GiveBack(w) PROVE TypeOK'
  BY <1>7 DEF GiveBack
<1>8. ASSUME NEW w \in Workers, NotifyOne(w) PROVE TypeOK'
  BY <1>8 DEF NotifyOne, Waiting
<1>9. CASE ResizeLock
  BY <1>9 DEF ResizeLock
<1>10. CASE SetCapacity
  BY <1>10 DEF SetCapacity
<1>11. CASE NotifyAll
  BY <1>11 DEF NotifyAll
<1>12. CASE UNCHANGED vars
  BY <1>12 DEF vars
<1> QED
  BY <1>1, <1>2, <1>3, <1>4, <1>5, <1>6, <1>7, <1>8, <1>9, <1>10, <1>11, <1>12
  DEF Next, WorkerStep

-----------------------------------------------------------------------------
\* What the steps do to the sets the invariant counts.

\* A step that moves one worker and no permit keeps the holders, and can only
\* add to the workers that are awake.
LEMMA TakeMoves ==
    ASSUME TypeOK, NEW w \in Workers, Take(w)
    PROVE  /\ w \notin Holders /\ Holders' = Holders \cup {w}
           /\ w \in Awake /\ Awake' = Awake \ {w}
           /\ Waiting' = Waiting
           /\ pc'[Manager] = pc[Manager]
  BY SemaphoreAssumption
  DEF Take, Goto, TypeOK, Threads, Holders, Awake, Waiting

LEMMA GiveBackMoves ==
    ASSUME TypeOK, NEW w \in Workers, GiveBack(w)
    PROVE  /\ w \in Holders /\ Holders' = Holders \ {w}
           /\ w \notin Awake /\ Awake' = Awake \cup {w}
           /\ Waiting' = Waiting
           /\ pc'[Manager] = pc[Manager]
  BY SemaphoreAssumption
  DEF GiveBack, Goto, TypeOK, Threads, Holders, Awake, Waiting

\* NotifyOne passes the turn from the worker that notifies to the one it wakes.
LEMMA NotifyOneMoves ==
    ASSUME TypeOK, NEW w \in Workers, NotifyOne(w), Waiting # {}
    PROVE  /\ Holders' = Holders
           /\ pc'[Manager] = pc[Manager]
           /\ w \in Awake
           /\ \E v \in Waiting : v \notin Awake /\ Awake' = (Awake \ {w}) \cup {v}
<1>1. PICK v \in Waiting : pc' = [pc EXCEPT ![w] = "outside", ![v] = "acquire"]
  BY DEF NotifyOne
<1>2. v \in Workers /\ pc[v] = "waiting" /\ pc[w] = "notify_one"
  BY <1>1 DEF NotifyOne, Waiting
<1>3. /\ w \in Threads /\ v \in Threads /\ Manager \notin {v, w}
      /\ \A u \in Threads : pc'[u] = IF u = v THEN "acquire"
                                     ELSE IF u = w THEN "outside" ELSE pc[u]
  BY <1>1, <1>2, SemaphoreAssumption DEF TypeOK, Threads
<1>4. Holders' = Holders /\ pc'[Manager] = pc[Manager]
  BY <1>2, <1>3 DEF Holders, Threads
<1>5. v \notin Awake /\ w \in Awake /\ Awake' = (Awake \ {w}) \cup {v}
  BY <1>2, <1>3 DEF Awake, Threads
<1> QED
  BY <1>1, <1>4, <1>5

\* No other step changes the holders.
LEMMA HoldersUnchanged ==
    ASSUME TypeOK, [Next]_vars,
           ~ \E w \in Workers : Take(w) \/ GiveBack(w)
    PROVE  Holders' = Holders /\ granted' = granted
<1> USE SemaphoreAssumption DEF TypeOK, Threads, Holders, Goto
<1>1. ASSUME NEW w \in Workers, Acquire(w) PROVE Holders' = Holders /\ granted' = granted
  BY <1>1 DEF Acquire
<1>2. ASSUME NEW w \in Workers, AcquireLock(w) PROVE Holders' = Holders /\ granted' = granted
  BY <1>2 DEF AcquireLock
<1>3. ASSUME NEW w \in Workers, Wait(w) PROVE Holders' = Holders /\ granted' = granted
  BY <1>3 DEF Wait
<1>4. ASSUME NEW w \in Workers, SpuriousWakeup(w) PROVE Holders' = Holders /\ granted' = granted
  BY <1>4 DEF SpuriousWakeup
<1>5. ASSUME NEW w \in Workers, ReleaseLock(w) PROVE Holders' = Holders /\ granted' = granted
  BY <1>5 DEF ReleaseLock
<1>6. ASSUME NEW w \in Workers, NotifyOne(w) PROVE Holders' = Holders /\ granted' = granted
  <2>1. granted' = granted
    BY <1>6 DEF NotifyOne
  <2>2. CASE Waiting = {}
    BY <1>6, <2>1, <2>2 DEF NotifyOne
  <2> QED
    BY <1>6, <2>1, <2>2, NotifyOneMoves
<1>7. CASE ResizeLock
  BY <1>7 DEF ResizeLock
<1>8. CASE SetCapacity
  BY <1>8 DEF SetCapacity
<1>9. CASE NotifyAll
  BY <1>9 DEF NotifyAll
<1>10. CASE UNCHANGED vars
  BY <1>10 DEF vars
<1> QED
  BY <1>1, <1>2, <1>3, <1>4, <1>5, <1>6, <1>7, <1>8, <1>9, <1>10 DEF Next, WorkerStep

-----------------------------------------------------------------------------
LEMMA PermitsPreserved == IInv /\ [Next]_vars => PermitsAreHeld'
<1> SUFFICES ASSUME IInv, [Next]_vars PROVE PermitsAreHeld'
  OBVIOUS
<1>0. TypeOK /\ granted = Cardinality(Holders) /\ granted \in Nat
  BY DEF IInv, PermitsAreHeld, TypeOK
<1>1. ASSUME NEW w \in Workers, Take(w) PROVE PermitsAreHeld'
  <2>1. Cardinality(Holders') = Cardinality(Holders) + 1
    BY <1>0, <1>1, TakeMoves, FiniteWorkerSets, FS_AddElement
  <2> QED
    BY <1>0, <1>1, <2>1 DEF Take, PermitsAreHeld
<1>2. ASSUME NEW w \in Workers, GiveBack(w) PROVE PermitsAreHeld'
  <2>1. Cardinality(Holders') = Cardinality(Holders) - 1
    BY <1>0, <1>2, GiveBackMoves, FiniteWorkerSets, FS_RemoveElement
  <2>2. granted > 0
    BY <1>0, <2>1, FiniteWorkerSetsNext
  <2> QED
    BY <1>0, <1>2, <2>1, <2>2 DEF GiveBack, PermitsAreHeld
<1>3. CASE ~ \E w \in Workers : Take(w) \/ GiveBack(w)
  BY <1>0, <1>3, HoldersUnchanged DEF PermitsAreHeld
<1> QED
  BY <1>1, <1>2, <1>3

-----------------------------------------------------------------------------
LEMMA WakeupPreserved == IInv /\ [Next]_vars => NoWakeupIsLost'
<1> SUFFICES ASSUME IInv, [Next]_vars,
                    Waiting' # {}, pc'[Manager] # "notify_all"
             PROVE  capacity' - granted' <= Cardinality(Awake')
  BY DEF NoWakeupIsLost
<1> DEFINE Goal == capacity' - granted' <= Cardinality(Awake')
<1>0. /\ TypeOK
      /\ granted = Cardinality(Holders)
      /\ granted \in Nat /\ capacity \in Nat
      /\ Waiting # {} /\ pc[Manager] # "notify_all" => capacity - granted <= Cardinality(Awake)
  BY AtLeastOneType DEF IInv, PermitsAreHeld, NoWakeupIsLost, TypeOK
<1>m. ASSUME granted' = granted, capacity' = capacity,
             Waiting # {}, pc[Manager] # "notify_all", Awake \subseteq Awake'
      PROVE  Goal
  <2>1. Cardinality(Awake) <= Cardinality(Awake')
    BY <1>m, FiniteWorkerSetsNext, FS_Subset
  <2> QED
    BY <1>0, <1>m, <2>1, FiniteWorkerSets, FiniteWorkerSetsNext
<1> USE SemaphoreAssumption DEF Threads
<1>1. ASSUME NEW w \in Workers, Acquire(w) PROVE Goal
  BY <1>0, <1>1, <1>m DEF Acquire, Goto, TypeOK, Waiting, Awake
<1>2. ASSUME NEW w \in Workers, AcquireLock(w) PROVE Goal
  BY <1>0, <1>2, <1>m DEF AcquireLock, Goto, TypeOK, Waiting, Awake
<1>3. ASSUME NEW w \in Workers, Take(w) PROVE Goal
  <2>1. Cardinality(Awake') = Cardinality(Awake) - 1
    BY <1>0, <1>3, TakeMoves, FiniteWorkerSets, FS_RemoveElement
  <2>2. capacity - granted <= Cardinality(Awake)
    BY <1>0, <1>3, TakeMoves
  <2> QED
    BY <1>0, <1>3, <2>1, <2>2, FiniteWorkerSets DEF Take
<1>4. ASSUME NEW w \in Workers, Wait(w) PROVE Goal
  BY <1>0, <1>4, FiniteWorkerSetsNext DEF Wait
<1>5. ASSUME NEW w \in Workers, SpuriousWakeup(w) PROVE Goal
  BY <1>0, <1>5, <1>m DEF SpuriousWakeup, Goto, TypeOK, Waiting, Awake
<1>6. ASSUME NEW w \in Workers, ReleaseLock(w) PROVE Goal
  BY <1>0, <1>6, <1>m DEF ReleaseLock, Goto, TypeOK, Waiting, Awake
<1>7. ASSUME NEW w \in Workers, GiveBack(w) PROVE Goal
  <2>1. Cardinality(Awake') = Cardinality(Awake) + 1
    BY <1>0, <1>7, GiveBackMoves, FiniteWorkerSets, FS_AddElement
  <2>2. capacity - granted <= Cardinality(Awake)
    BY <1>0, <1>7, GiveBackMoves
  <2>3. capacity' = capacity /\ granted' \in Nat /\ granted' >= granted - 1
    BY <1>0, <1>7 DEF GiveBack
  <2> QED
    BY <1>0, <2>1, <2>2, <2>3, FiniteWorkerSets
<1>8. ASSUME NEW w \in Workers, NotifyOne(w) PROVE Goal
  <2>1. granted' = granted /\ capacity' = capacity
    BY <1>8 DEF NotifyOne
  <2>2. Waiting # {}
    <3> SUFFICES ASSUME Waiting = {} PROVE FALSE
      OBVIOUS
    <3>1. pc' = [pc EXCEPT ![w] = "outside"]
      BY <1>8 DEF NotifyOne, Goto
    <3> QED
      BY <1>0, <3>1 DEF TypeOK, Waiting
  <2>3. PICK v \in Waiting : v \notin Awake /\ Awake' = (Awake \ {w}) \cup {v}
    BY <1>0, <1>8, <2>2, NotifyOneMoves
  <2>4. w \in Awake /\ pc[Manager] # "notify_all"
    BY <1>0, <1>8, <2>2, NotifyOneMoves
  <2>5. /\ IsFiniteSet(Awake \ {w})
        /\ Cardinality(Awake \ {w}) = Cardinality(Awake) - 1
    BY <2>4, FiniteWorkerSets, FS_RemoveElement
  <2>6. v \notin Awake \ {w}
    BY <2>3
  <2>7. Cardinality((Awake \ {w}) \cup {v}) = Cardinality(Awake \ {w}) + 1
    BY <2>5, <2>6, FS_AddElement
  <2>8. Cardinality(Awake') = Cardinality(Awake)
    BY <2>3, <2>5, <2>7, FiniteWorkerSets
  <2> QED
    BY <1>0, <2>1, <2>2, <2>4, <2>8
<1>9. CASE ResizeLock
  BY <1>0, <1>9, <1>m DEF ResizeLock, Goto, TypeOK, Waiting, Awake
<1>10. CASE SetCapacity
  BY <1>0, <1>10 DEF SetCapacity, Goto, TypeOK
<1>11. CASE NotifyAll
  BY <1>0, <1>11 DEF NotifyAll, TypeOK, Waiting
<1>12. CASE UNCHANGED vars
  BY <1>0, <1>12, <1>m DEF vars, Waiting, Awake
<1> QED
  BY <1>1, <1>2, <1>3, <1>4, <1>5, <1>6, <1>7, <1>8, <1>9, <1>10, <1>11, <1>12
  DEF Next, WorkerStep

\* The invariant holds of every behaviour.
THEOREM Invariance == Spec => []IInv
<1>1. IInv /\ [Next]_vars => IInv'
  BY TypePreserved, PermitsPreserved, WakeupPreserved DEF IInv
<1> QED
  BY InitInv, <1>1, PTL DEF Spec

\* sync.rs:43-48: `granted` is the number of workers that hold a permit, for
\* any number of workers and any sequence of resizes.
THEOREM PermitsAreHeldHolds == Spec => []PermitsAreHeld
<1>1. IInv => PermitsAreHeld
  BY DEF IInv
<1> QED
  BY Invariance, <1>1, PTL

\* sync.rs:46-47, 56-57: although both calls drop the mutex before they notify,
\* a free permit never goes unnoticed while workers wait.
THEOREM NoWakeupIsLostHolds == Spec => []NoWakeupIsLost
<1>1. IInv => NoWakeupIsLost
  BY DEF IInv
<1> QED
  BY Invariance, <1>1, PTL

-----------------------------------------------------------------------------
\* The mutex and the condition variable implement a counting semaphore: Take is
\* its Acquire, GiveBack its Release, SetCapacity its Resize, and every other
\* step leaves it as it is.
THEOREM Refinement == Spec => SemaphoreSpec
<1>1. Init => Semaphore!Init
  BY DEF Init, Semaphore!Init, Holders, Threads
<1>2. IInv /\ [Next]_vars => [Semaphore!Next]_(Semaphore!vars)
  <2> SUFFICES ASSUME IInv, [Next]_vars
               PROVE  [Semaphore!Next]_(Semaphore!vars)
    OBVIOUS
  <2>0. TypeOK /\ granted = Cardinality(Holders)
    BY DEF IInv, PermitsAreHeld
  <2>1. ASSUME NEW w \in Workers, Take(w) PROVE Semaphore!Acquire(w)
    <3>1. Semaphore!Cardinality(Holders) = Cardinality(Holders)
      BY DEF Semaphore!Cardinality, Cardinality
    <3> QED
      BY <2>0, <2>1, <3>1, TakeMoves DEF Take, Semaphore!Acquire
  <2>2. ASSUME NEW w \in Workers, GiveBack(w) PROVE Semaphore!Release(w)
    BY <2>0, <2>2, GiveBackMoves DEF GiveBack, Semaphore!Release
  <2>3. CASE ~ \E w \in Workers : Take(w) \/ GiveBack(w)
    <3>1. Holders' = Holders
      BY <2>0, <2>3, HoldersUnchanged
    <3>2. CASE SetCapacity
      BY <3>1, <3>2 DEF SetCapacity, Semaphore!Next, Semaphore!Resize
    <3>3. CASE ~ SetCapacity
      <4>1. capacity' = capacity
        BY <2>3, <3>3 DEF Next, WorkerStep, vars, Acquire, AcquireLock, Wait,
           SpuriousWakeup, ReleaseLock, NotifyOne, ResizeLock, NotifyAll
      <4> QED
        BY <3>1, <4>1 DEF Semaphore!vars
    <3> QED
      BY <3>2, <3>3
  <2> QED
    BY <2>1, <2>2, <2>3 DEF Semaphore!Next
<1> QED
  BY Invariance, <1>1, <1>2, PTL DEF Spec, SemaphoreSpec, Semaphore!Spec
=============================================================================
