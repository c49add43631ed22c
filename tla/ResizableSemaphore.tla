------------------------- MODULE ResizableSemaphore -------------------------
(***************************************************************************)
(* ResizableSemaphore (cursdel-core/src/sync.rs): a mutex, a condition     *)
(* variable and two counters.  The file workers acquire and release        *)
(* permits, the thread of `run` changes the capacity.  release and         *)
(* set_capacity let go of the mutex before they notify, so other threads   *)
(* may run in between.                                                     *)
(***************************************************************************)
EXTENDS Integers, FiniteSets

CONSTANTS
    Workers,      \* the file workers
    Manager,      \* the thread that resizes
    Capacities,   \* the values set_capacity is called with
    MaxUses,      \* bound: how often each worker takes a permit
    MaxResizes    \* bound: how often the manager resizes

Threads == Workers \cup {Manager}
Free == "free"    \* nobody holds the mutex

ASSUME SemaphoreAssumption ==
    /\ IsFiniteSet(Workers)
    /\ Manager \notin Workers
    /\ Free \notin Threads
    /\ Capacities \subseteq Nat
    /\ MaxUses \in Nat /\ MaxResizes \in Nat

VARIABLES
    mutex,      \* the thread that holds it, or Free
    granted,    \* State::granted
    capacity,   \* State::capacity
    pc,         \* where each thread is
    uses,       \* how many permits each worker has taken
    resizes     \* how many times set_capacity was called

vars == <<mutex, granted, capacity, pc, uses, resizes>>

\* State::capacity is never zero: `new` and `set_capacity` raise it to one.
AtLeastOne(c) == IF c >= 1 THEN c ELSE 1

Steps == {"outside", "acquire", "check", "waiting", "holding", "release",
          "notify_one", "resize", "notify_all"}

Init ==
    /\ mutex = Free
    /\ granted = 0
    /\ capacity \in {AtLeastOne(c) : c \in Capacities}
    /\ pc = [t \in Threads |-> "outside"]
    /\ uses = [w \in Workers |-> 0]
    /\ resizes = 0

Goto(t, step) == pc' = [pc EXCEPT ![t] = step]

Lock(t)   == mutex = Free /\ mutex' = t
Unlock(t) == mutex = t /\ mutex' = Free

-----------------------------------------------------------------------------
\* A worker calls acquire ...
Acquire(w) ==
    /\ pc[w] = "outside"
    /\ uses[w] < MaxUses
    /\ uses' = [uses EXCEPT ![w] = @ + 1]
    /\ Goto(w, "acquire")
    /\ UNCHANGED <<mutex, granted, capacity, resizes>>

\* ... and, now or after a wait, gets hold of the mutex ...
AcquireLock(w) ==
    /\ pc[w] = "acquire"
    /\ Lock(w)
    /\ Goto(w, "check")
    /\ UNCHANGED <<granted, capacity, uses, resizes>>

\* Mutant: acquire takes a permit without looking.
TakeAnyway(w) ==
    /\ pc[w] = "check"
    /\ granted' = granted + 1
    /\ Unlock(w)
    /\ Goto(w, "holding")
    /\ UNCHANGED <<capacity, uses, resizes>>

\* ... and either takes a permit ...
Take(w) ==
    /\ pc[w] = "check"
    /\ granted < capacity
    /\ granted' = granted + 1
    /\ Unlock(w)
    /\ Goto(w, "holding")
    /\ UNCHANGED <<capacity, uses, resizes>>

\* ... or lets go of the mutex and waits, in one step.
Wait(w) ==
    /\ pc[w] = "check"
    /\ granted >= capacity
    /\ Unlock(w)
    /\ Goto(w, "waiting")
    /\ UNCHANGED <<granted, capacity, uses, resizes>>

\* A condition variable may wake a waiter for no reason.
SpuriousWakeup(w) ==
    /\ pc[w] = "waiting"
    /\ Goto(w, "acquire")
    /\ UNCHANGED <<mutex, granted, capacity, uses, resizes>>

ReleaseLock(w) ==
    /\ pc[w] = "holding"
    /\ Lock(w)
    /\ Goto(w, "release")
    /\ UNCHANGED <<granted, capacity, uses, resizes>>

\* saturating_sub, then drop(state).
GiveBack(w) ==
    /\ pc[w] = "release"
    /\ granted' = IF granted > 0 THEN granted - 1 ELSE 0
    /\ Unlock(w)
    /\ Goto(w, "notify_one")
    /\ UNCHANGED <<capacity, uses, resizes>>

Waiting == {w \in Workers : pc[w] = "waiting"}

\* Mutant: release does not notify.
NotifyNobody(w) ==
    /\ pc[w] = "notify_one"
    /\ Goto(w, "outside")
    /\ UNCHANGED <<mutex, granted, capacity, uses, resizes>>

\* notify_one: one waiter goes back for the mutex, if there is one.
NotifyOne(w) ==
    /\ pc[w] = "notify_one"
    /\ IF Waiting = {}
       THEN Goto(w, "outside")
       ELSE \E v \in Waiting :
               pc' = [pc EXCEPT ![w] = "outside", ![v] = "acquire"]
    /\ UNCHANGED <<mutex, granted, capacity, uses, resizes>>

-----------------------------------------------------------------------------
ResizeLock ==
    /\ pc[Manager] = "outside"
    /\ resizes < MaxResizes
    /\ resizes' = resizes + 1
    /\ Lock(Manager)
    /\ Goto(Manager, "resize")
    /\ UNCHANGED <<granted, capacity, uses>>

SetCapacity ==
    /\ pc[Manager] = "resize"
    /\ \E c \in Capacities : capacity' = AtLeastOne(c)
    /\ Unlock(Manager)
    /\ Goto(Manager, "notify_all")
    /\ UNCHANGED <<granted, uses, resizes>>

NotifyAll ==
    /\ pc[Manager] = "notify_all"
    /\ pc' = [t \in Threads |-> IF t = Manager THEN "outside"
                                ELSE IF pc[t] = "waiting" THEN "acquire"
                                ELSE pc[t]]
    /\ UNCHANGED <<mutex, granted, capacity, uses, resizes>>

-----------------------------------------------------------------------------
\* What a worker does once it is under way.
WorkerStep(w) ==
    \/ AcquireLock(w) \/ Take(w) \/ Wait(w)
    \/ ReleaseLock(w) \/ GiveBack(w) \/ NotifyOne(w)

Next ==
    \/ \E w \in Workers : Acquire(w) \/ WorkerStep(w) \/ SpuriousWakeup(w)
    \/ ResizeLock \/ SetCapacity \/ NotifyAll

Spec == Init /\ [][Next]_vars

\* A thread that can run does, and a lock that keeps being free is got; whoever
\* calls set_capacity finishes the call.  No wakeup is taken for granted.
Fairness ==
    /\ \A w \in Workers : SF_vars(AcquireLock(w)) /\ SF_vars(ReleaseLock(w))
    /\ \A w \in Workers : WF_vars(Take(w) \/ Wait(w) \/ GiveBack(w) \/ NotifyOne(w))
    /\ WF_vars(SetCapacity) /\ WF_vars(NotifyAll)

FairSpec == Spec /\ Fairness

-----------------------------------------------------------------------------
(* Properties *)

TypeOK ==
    /\ mutex \in Threads \cup {Free}
    /\ granted \in Nat
    /\ capacity \in {AtLeastOne(c) : c \in Capacities}
    /\ pc \in [Threads -> Steps]
    /\ uses \in [Workers -> Nat]
    /\ resizes \in Nat

Holders == {w \in Workers : pc[w] \in {"holding", "release"}}

\* Permits are neither lost nor made up, so the saturating_sub of release never
\* saturates.
PermitsAreHeld == granted = Cardinality(Holders)

\* On their way to a permit, or about to send somebody else on it.
Awake == {w \in Workers : pc[w] \in {"acquire", "check", "notify_one"}}

\* No wakeup is lost although the mutex is dropped before the notification
\* (sync.rs:46, 56): while workers wait, every permit that is free has a worker
\* awake that will look at it, or notify_all is still to come.
NoWakeupIsLost ==
    Waiting # {} /\ pc[Manager] # "notify_all"
        => capacity - granted <= Cardinality(Awake)

\* It implements CountingSemaphore, which Pipeline.tla uses in its place.
Semaphore == INSTANCE CountingSemaphore WITH
    holders <- Holders,
    Capacities <- {AtLeastOne(c) : c \in Capacities}
SemaphoreSpec == Semaphore!Spec

\* Every worker that asks for a permit gets it, if every holder releases its own.
EveryoneIsServed == \A w \in Workers : pc[w] = "acquire" ~> pc[w] = "holding"
=============================================================================
