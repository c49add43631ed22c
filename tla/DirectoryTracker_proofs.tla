---------------------- MODULE DirectoryTracker_proofs -----------------------
(***************************************************************************)
(* DirectoryTracker's invariants, and that it implements                   *)
(* DirectoryCompletion, for every tree and every number of workers.        *)
(***************************************************************************)
EXTENDS DirectoryTracker, FiniteSetTheorems, TLAPS

-----------------------------------------------------------------------------
(* Finite sets and the map's operators. *)

\* One more element makes a finite set one larger, one less one smaller.
LEMMA CardinalityStep ==
    ASSUME NEW S, IsFiniteSet(S), NEW x
    PROVE  /\ Cardinality(S) \in Nat
           /\ Cardinality(S) = 0 <=> S = {}
           /\ x \notin S => Cardinality(S \cup {x}) = Cardinality(S) + 1
           /\ x \in S => Cardinality(S \ {x}) = Cardinality(S) - 1
<1>1. Cardinality(S) \in Nat
  BY FS_CardinalityType
<1>2. Cardinality(S) = 0 <=> S = {}
  BY FS_EmptySet
<1>3. x \notin S => Cardinality(S \cup {x}) = Cardinality(S) + 1
  BY FS_AddElement
<1>4. x \in S => Cardinality(S \ {x}) = Cardinality(S) - 1
  BY FS_RemoveElement
<1>5. QED
  BY <1>1, <1>2, <1>3, <1>4

\* The children found in a directory are a finite set: the tree is.
LEMMA OutstandingFinite ==
    ASSUME TypeOK, NEW d \in Dirs
    PROVE  IsFiniteSet(Outstanding(d))
<1>1. Outstanding(d) \subseteq Dirs \cup Leaves
  BY DEF TypeOK, Outstanding, FoundIn, Nodes
<1>2. QED
  BY <1>1, TreeAssumption, FS_Subset

\* While a child of p is outstanding, p is in the map and not finalised.
LEMMA ParentIsTracked ==
    ASSUME IInv, NEW n \in discovered \ (resolved \cup {Root})
    PROVE  /\ Parent[n] \in Dirs
           /\ Parent[n] \in discovered
           /\ n \in Outstanding(Parent[n])
           /\ Tracked(state, Parent[n])
           /\ ~ state[Parent[n]].finalised
           /\ sent[Parent[n]] = 0
<1> DEFINE p == Parent[n]
<1>1. p \in Dirs /\ p \in discovered
  BY TreeAssumption DEF IInv, TypeOK, TreeInv, Nodes
<1>2. n \in Outstanding(p)
  BY DEF Outstanding, FoundIn
<1>3. sent[p] # 1
  BY <1>1, <1>2 DEF IInv, DirInv, DirOK
<1>4. sent[p] = 0 /\ received[p] = 0
  <2>1. sent[p] \in Nat /\ received[p] \in Nat
    BY <1>1 DEF IInv, TypeOK
  <2>2. received[p] <= sent[p] /\ sent[p] <= 1
    BY <1>1 DEF IInv, DirInv, DirOK
  <2>3. QED
    BY <1>3, <2>1, <2>2
<1>5. Tracked(state, p)
  BY <1>1, <1>4 DEF IInv, DirInv, DirOK
<1>6. ~ state[p].finalised
  BY <1>1, <1>2, <1>5 DEF IInv, DirInv, DirOK
<1>7. QED
  BY <1>1, <1>2, <1>4, <1>5, <1>6

-----------------------------------------------------------------------------
(* Init and the steps, one lemma each. *)

LEMMA InitIInv == Init => IInv
<1> SUFFICES ASSUME Init PROVE IInv
  OBVIOUS
<1>1. \A d \in Dirs : FoundIn(d) = {} /\ Outstanding(d) = {}
  BY DEF Init, FoundIn, Outstanding
<1>2. TypeOK
  BY TreeAssumption DEF Init, TypeOK, DirState, NewDirState, Steps, Idle, Nodes
<1>3. TreeInv
  BY DEF Init, TreeInv
<1>4. CallInv
  BY DEF Init, CallInv, CallOK, Idle
<1>5. UniqueInv
  BY DEF Init, UniqueInv, Idle
<1>6. DirInv
  BY <1>1, TreeAssumption DEF Init, DirInv, DirOK, NewDirState, Tracked
<1>7. PendingIsOutstanding
  BY <1>1, FS_EmptySet, TreeAssumption DEF Init, PendingIsOutstanding, NewDirState
<1>8. SimulationInv
  BY <1>1 DEF Init, SimulationInv, SimulationOK, NewDirState, Tracked
<1>9. QED
  BY <1>2, <1>3, <1>4, <1>5, <1>6, <1>7, <1>8 DEF IInv

LEMMA RegisterDirectoryStep ==
    ASSUME IInv, NEW d \in Dirs \ {Root}, RegisterDirectory(d)
    PROVE  IInv'
<1>1. /\ call[Coordinator].at = "idle"
      /\ d \in Dirs /\ d \notin discovered
      /\ Parent[d] \in discovered \ listed
      /\ Coordinator \in Threads
  BY DEF RegisterDirectory, IsIdle, Discoverable, Threads
<1>2. ~ Tracked(state, d)
  BY <1>1 DEF IInv, DirInv, DirOK, At
<1>3. state' = Insert(state, d)
  BY DEF RegisterDirectory
<1>4. /\ DOMAIN state' = DOMAIN state \cup {d}
      /\ state'[d] = NewDirState
      /\ \A e \in DOMAIN state : state'[e] = state[e]
  BY <1>2, <1>3 DEF Insert, Tracked
<1>5. call' = [call EXCEPT ![Coordinator] = [at |-> "add_pending", node |-> d]]
  BY DEF RegisterDirectory, Goto
<1>6. UNCHANGED <<discovered, listed, claimed, resolved, kept, sent, received,
                  simulated>>
  BY DEF RegisterDirectory
<1>7. \A e \in Dirs : FoundIn(e)' = FoundIn(e) /\ Outstanding(e)' = Outstanding(e)
  BY <1>6 DEF FoundIn, Outstanding
<1>8. FoundIn(d) = {} /\ Outstanding(d) = {}
  BY <1>1 DEF IInv, TreeInv, FoundIn, Outstanding
<1>9. sent[d] # 1 /\ received[d] # 1
  BY <1>1 DEF IInv, TypeOK, TreeInv, DirInv, DirOK
<1>10. TypeOK'
  <2>1. state' \in [DOMAIN state' -> DirState]
    BY <1>3, <1>4 DEF IInv, TypeOK, Insert, DirState, NewDirState
  <2>2. QED
    BY <2>1, <1>1, <1>4, <1>5, <1>6 DEF IInv, TypeOK, Steps, Nodes
<1>11. TreeInv'
  BY <1>6 DEF IInv, TreeInv
<1>12. CallInv'
  <2> SUFFICES ASSUME NEW t \in Threads
               PROVE  CallOK(t)'
    BY DEF CallInv
  <2>1. CASE t = Coordinator
    BY <2>1, <1>1, <1>4, <1>5, <1>6 DEF IInv, TypeOK, CallOK, Tracked
  <2>2. CASE t # Coordinator
    <3>1. \/ call'[t] = call[t] /\ call[t].node # d
          \/ call[t].at \in {"idle", "try_finalise"}
      BY <2>2, <1>1, <1>2, <1>5, <1>9 DEF IInv, TypeOK, CallInv, CallOK, Steps
    <3>2. QED
      BY <2>2, <3>1, <1>1, <1>4, <1>5, <1>6, <1>7 DEF IInv, TypeOK, CallInv, CallOK, Tracked
  <2>3. QED
    BY <2>1, <2>2
<1>13. UniqueInv'
  BY <1>5, <1>1 DEF IInv, TypeOK, UniqueInv
<1>14. DirInv'
  <2> SUFFICES ASSUME NEW e \in Dirs
               PROVE  DirOK(e)'
    BY DEF DirInv
  <2>1. DirOK(e)
    BY DEF IInv, DirInv
  <2>2. CASE e = d
    <3>1. sent[d] = 0 /\ received[d] = 0 /\ d \notin listed /\ d \notin resolved
      BY <1>1, <1>9, <2>1, <2>2 DEF IInv, TypeOK, TreeInv, DirOK
    <3>2. At(Coordinator, "add_pending", d)'
      BY <1>1, <1>5 DEF At, IInv, TypeOK
    <3>3. QED
      BY <2>2, <3>1, <3>2, <1>1, <1>4, <1>6 DEF DirOK, Tracked, NewDirState
  <2>3. CASE e # d
    <3>1. Tracked(state, e)' <=> Tracked(state, e)
      BY <2>3, <1>4 DEF Tracked
    <3>2. Tracked(state, e) => e \in discovered /\ state'[e] = state[e]
      BY <1>1, <1>4, <2>1 DEF DirOK, Tracked, At
    <3>3. QED
      BY <2>1, <3>1, <3>2, <1>6, <1>7 DEF DirOK
  <2>4. QED
    BY <2>2, <2>3
<1>15. PendingIsOutstanding'
  <2> SUFFICES ASSUME NEW e \in DOMAIN state'
               PROVE  state'[e].pending = Cardinality(Outstanding(e)')
    BY DEF PendingIsOutstanding
  <2>1. CASE e = d
    BY <2>1, <1>1, <1>4, <1>7, <1>8, FS_EmptySet DEF NewDirState
  <2>2. CASE e # d
    BY <2>2, <1>4, <1>7 DEF IInv, TypeOK, PendingIsOutstanding
  <2>3. QED
    BY <2>1, <2>2
<1>16. SimulationInv'
  BY <1>1, <1>2, <1>4, <1>6, <1>7, <1>8, <1>9
     DEF IInv, TypeOK, TreeInv, SimulationInv, SimulationOK, Tracked, NewDirState
<1>17. QED
  BY <1>10, <1>11, <1>12, <1>13, <1>14, <1>15, <1>16 DEF IInv

\* Counting a new child n in its parent, which is still being listed.
LEMMA CountChild ==
    ASSUME IInv,
           NEW n \in Nodes \ {Root},
           n \notin discovered,
           Parent[n] \in discovered \ listed,
           state' = AddPending(state, Parent[n]),
           discovered' = discovered \cup {n},
           UNCHANGED <<listed, claimed, resolved, kept, sent, received, simulated>>
    PROVE  /\ Parent[n] \in Dirs /\ Parent[n] # n
           /\ DOMAIN state' = DOMAIN state
           /\ state' \in [DOMAIN state' -> DirState]
           /\ \A e \in DOMAIN state : /\ state'[e].finalised = state[e].finalised
                                      /\ state'[e].enumeration_done = state[e].enumeration_done
           /\ \A e \in Dirs \ {Parent[n]} : Outstanding(e)' = Outstanding(e)
           /\ ~ (Tracked(state, Parent[n]) /\ state[Parent[n]].finalised)
           /\ TreeInv' /\ PendingIsOutstanding' /\ SimulationInv'
<1> DEFINE p == Parent[n]
<1>1. p \in Dirs /\ p # n
  BY TreeAssumption DEF Nodes
<1>2. DirOK(p) /\ sent[p] \in Nat /\ received[p] \in Nat
  BY <1>1 DEF IInv, DirInv, TypeOK
<1>3. Tracked(state, p) /\ ~ state[p].finalised
  BY <1>2 DEF DirOK
<1>4. /\ DOMAIN state' = DOMAIN state
      /\ state'[p] = [state[p] EXCEPT !.pending = @ + 1]
      /\ \A e \in DOMAIN state : e # p => state'[e] = state[e]
  BY <1>3 DEF AddPending, Update, Tracked
<1>5. /\ state[p] \in DirState
      /\ state'[p].pending = state[p].pending + 1
      /\ state'[p].finalised = state[p].finalised
      /\ state'[p].enumeration_done = state[p].enumeration_done
      /\ state'[p].still_present = state[p].still_present
      /\ state'[p] \in DirState
  BY <1>3, <1>4 DEF IInv, TypeOK, Tracked, DirState
<1>6. state' \in [DOMAIN state' -> DirState]
  BY <1>4, <1>5 DEF IInv, TypeOK, AddPending, Update
<1>7. /\ FoundIn(p)' = FoundIn(p) \cup {n}
      /\ \A e \in Dirs \ {p} : FoundIn(e)' = FoundIn(e)
  BY DEF FoundIn
<1>8. n \notin resolved /\ n \notin kept /\ n \notin FoundIn(p)
  BY DEF IInv, TypeOK, TreeInv, FoundIn
<1>9. /\ Outstanding(p)' = Outstanding(p) \cup {n}
      /\ n \notin Outstanding(p)
      /\ \A e \in Dirs \ {p} : Outstanding(e)' = Outstanding(e)
  BY <1>7, <1>8 DEF Outstanding
<1>10. TreeInv'
  BY <1>1 DEF IInv, TypeOK, TreeInv
<1>11. PendingIsOutstanding'
  <2> SUFFICES ASSUME NEW e \in DOMAIN state'
               PROVE  state'[e].pending = Cardinality(Outstanding(e)')
    BY DEF PendingIsOutstanding
  <2>1. e \in Dirs /\ state[e].pending = Cardinality(Outstanding(e))
    BY <1>4 DEF IInv, TypeOK, PendingIsOutstanding
  <2>2. CASE e = p
    <3>1. Cardinality(Outstanding(p)') = Cardinality(Outstanding(p)) + 1
      BY <1>1, <1>9, OutstandingFinite, CardinalityStep DEF IInv
    <3>2. QED
      BY <2>1, <2>2, <3>1, <1>5
  <2>3. CASE e # p
    BY <2>1, <2>3, <1>4, <1>9
  <2>4. QED
    BY <2>2, <2>3
<1>12. SimulationInv'
  <2>1. \A e \in Dirs : FoundIn(e)' \cap kept' = FoundIn(e) \cap kept
    BY <1>7, <1>8
  <2>2. \A e \in DOMAIN state :
           /\ state'[e].still_present = state[e].still_present
           /\ state'[e].finalised = state[e].finalised
    BY <1>4, <1>5
  <2>3. QED
    BY <2>1, <2>2, <1>4 DEF IInv, SimulationInv, SimulationOK, Tracked
<1>13. QED
  BY <1>1, <1>3, <1>4, <1>5, <1>6, <1>9, <1>10, <1>11, <1>12

LEMMA AddPendingStep ==
    ASSUME IInv, NEW d \in Dirs \ {Root}, AddPendingOfDirectory(d)
    PROVE  IInv'
<1> DEFINE p == Parent[d]
<1>1. /\ Coordinator \in Threads
      /\ call[Coordinator].at = "add_pending" /\ call[Coordinator].node = d
      /\ d \in Nodes \ {Root} /\ d \notin discovered
      /\ p \in discovered \ listed
      /\ Tracked(state, d)
  BY DEF AddPendingOfDirectory, At, Threads, IInv, CallInv, CallOK, Nodes
<1>2. /\ state' = AddPending(state, p)
      /\ discovered' = discovered \cup {d}
      /\ call' = [call EXCEPT ![Coordinator] = Idle]
      /\ UNCHANGED <<listed, claimed, resolved, kept, sent, received, simulated>>
  BY DEF AddPendingOfDirectory, Return
<1>3. /\ p \in Dirs /\ p # d
      /\ DOMAIN state' = DOMAIN state
      /\ state' \in [DOMAIN state' -> DirState]
      /\ \A e \in DOMAIN state : /\ state'[e].finalised = state[e].finalised
                                 /\ state'[e].enumeration_done = state[e].enumeration_done
      /\ \A e \in Dirs \ {p} : Outstanding(e)' = Outstanding(e)
      /\ ~ (Tracked(state, p) /\ state[p].finalised)
      /\ TreeInv' /\ PendingIsOutstanding' /\ SimulationInv'
  BY <1>1, <1>2, CountChild
<1>4. TypeOK'
  BY <1>1, <1>2, <1>3, TreeAssumption DEF IInv, TypeOK, Idle, Steps, Nodes
<1>5. CallInv'
  <2> SUFFICES ASSUME NEW t \in Threads PROVE CallOK(t)'
    BY DEF CallInv
  <2>1. CASE t = Coordinator
    BY <2>1, <1>1, <1>2 DEF IInv, TypeOK, CallOK, Idle
  <2>2. CASE t # Coordinator
    <3>1. CallOK(t) /\ call'[t] = call[t] /\ call[t].at # "add_pending"
      BY <2>2, <1>2 DEF IInv, TypeOK, CallInv, CallOK
    <3>2. call[t].at = "try_finalise" => call[t].node # p
      BY <3>1, <1>1 DEF CallOK
    <3>3. QED
      BY <3>1, <3>2, <1>2, <1>3 DEF CallOK, Tracked
  <2>3. QED
    BY <2>1, <2>2
<1>6. UniqueInv'
  BY <1>1, <1>2 DEF IInv, TypeOK, UniqueInv, Idle
<1>7. DirInv'
  <2> SUFFICES ASSUME NEW e \in Dirs PROVE DirOK(e)'
    BY DEF DirInv
  <2>1. DirOK(e) /\ (Tracked(state, e)' <=> Tracked(state, e))
    BY <1>3 DEF IInv, DirInv, Tracked
  <2>2. CASE e = d
    <3>1. sent[d] # 1 /\ received[d] # 1 /\ d \notin resolved
      BY <1>1, <2>1, <2>2 DEF DirOK, IInv, TypeOK, TreeInv
    <3>2. Outstanding(e)' = Outstanding(e)
      BY <2>2, <1>3
    <3>3. QED
      BY <2>1, <2>2, <3>1, <3>2, <1>1, <1>2, <1>3 DEF DirOK, Tracked
  <2>3. CASE e # d
    <3>1. Tracked(state, e) => e \in discovered
      BY <2>1, <2>3, <1>1 DEF DirOK, At
    <3>2. e = p => sent[e] # 1
      BY <2>1, <1>1 DEF DirOK
    <3>3. QED
      BY <2>1, <2>3, <3>1, <3>2, <1>2, <1>3 DEF DirOK, Tracked
  <2>4. QED
    BY <2>2, <2>3
<1>8. QED
  BY <1>3, <1>4, <1>5, <1>6, <1>7 DEF IInv

LEMMA RegisterLeafStep ==
    ASSUME IInv, NEW n \in Leaves, RegisterLeafChild(n)
    PROVE  IInv'
<1> DEFINE p == Parent[n]
<1>1. /\ n \in Nodes \ {Root} /\ n \notin Dirs /\ n \notin discovered
      /\ p \in discovered \ listed
      /\ call[Coordinator].at = "idle"
  BY TreeAssumption DEF RegisterLeafChild, Discoverable, IsIdle, Nodes
<1>2. /\ state' = AddPending(state, p)
      /\ discovered' = discovered \cup {n}
      /\ UNCHANGED <<call, listed, claimed, resolved, kept, sent, received, simulated>>
  BY DEF RegisterLeafChild
<1>3. /\ p \in Dirs
      /\ DOMAIN state' = DOMAIN state
      /\ state' \in [DOMAIN state' -> DirState]
      /\ \A e \in DOMAIN state : /\ state'[e].finalised = state[e].finalised
                                 /\ state'[e].enumeration_done = state[e].enumeration_done
      /\ \A e \in Dirs \ {p} : Outstanding(e)' = Outstanding(e)
      /\ ~ (Tracked(state, p) /\ state[p].finalised)
      /\ TreeInv' /\ PendingIsOutstanding' /\ SimulationInv'
  BY <1>1, <1>2, CountChild
<1>4. TypeOK'
  BY <1>1, <1>2, <1>3 DEF IInv, TypeOK
<1>5. CallInv'
  <2> SUFFICES ASSUME NEW t \in Threads PROVE CallOK(t)'
    BY DEF CallInv
  <2>1. CallOK(t) /\ call[t].at # "add_pending"
    BY <1>1 DEF IInv, CallInv, CallOK
  <2>2. call[t].at = "try_finalise" => call[t].node # p
    BY <2>1, <1>1 DEF CallOK
  <2>3. QED
    BY <2>1, <2>2, <1>2, <1>3 DEF CallOK, Tracked
<1>6. UniqueInv'
  BY <1>2 DEF IInv, UniqueInv
<1>7. DirInv'
  <2> SUFFICES ASSUME NEW e \in Dirs PROVE DirOK(e)'
    BY DEF DirInv
  <2>1. DirOK(e) /\ (Tracked(state, e)' <=> Tracked(state, e))
    BY <1>3 DEF IInv, DirInv, Tracked
  <2>2. (e = p => sent[e] # 1) /\ e # n
    BY <2>1, <1>1 DEF DirOK
  <2>3. At(Coordinator, "add_pending", e)' <=> At(Coordinator, "add_pending", e)
    BY <1>2 DEF At
  <2>4. QED
    BY <2>1, <2>2, <2>3, <1>2, <1>3 DEF DirOK, Tracked
<1>8. QED
  BY <1>3, <1>4, <1>5, <1>6, <1>7 DEF IInv

LEMMA MarkEnumerationDoneStep ==
    ASSUME IInv, NEW d \in Dirs, MarkEnumerationDone(d)
    PROVE  IInv'
<1>1. /\ call[Coordinator].at = "idle"
      /\ d \in discovered /\ d \notin listed
      /\ Coordinator \in Threads
  BY DEF MarkEnumerationDone, IsIdle, Threads
<1>2. /\ state' = SetEnumerationDone(state, d)
      /\ listed' = listed \cup {d}
      /\ UNCHANGED <<discovered, claimed, resolved, kept, sent, received, simulated>>
  BY DEF MarkEnumerationDone
<1>3. \/ /\ ReadyAfterEnumeration(state, d)
         /\ call' = [call EXCEPT ![Coordinator] = [at |-> "try_finalise", node |-> d]]
      \/ ~ ReadyAfterEnumeration(state, d) /\ call' = call
  BY DEF MarkEnumerationDone, Goto
<1>4. \A e \in Dirs : FoundIn(e)' = FoundIn(e) /\ Outstanding(e)' = Outstanding(e)
  BY <1>2 DEF FoundIn, Outstanding
<1>5. DirOK(d) /\ sent[d] = 0 /\ received[d] = 0
  BY <1>1 DEF IInv, TypeOK, DirInv, DirOK
<1>6. Tracked(state, d) /\ ~ state[d].finalised
  BY <1>1, <1>5 DEF DirOK
<1>7. /\ DOMAIN state' = DOMAIN state
      /\ state' \in [DOMAIN state' -> DirState]
      /\ state'[d].enumeration_done
      /\ \A e \in DOMAIN state : /\ state'[e].pending = state[e].pending
                                 /\ state'[e].still_present = state[e].still_present
                                 /\ state'[e].finalised = state[e].finalised
                                 /\ e # d => state'[e] = state[e]
  BY <1>2, <1>6 DEF IInv, TypeOK, SetEnumerationDone, Update, Tracked, DirState
<1>8. ReadyAfterEnumeration(state, d) => Outstanding(d) = {}
  <2>1. Tracked(state, d) => state[d].pending = Cardinality(Outstanding(d))
    BY DEF IInv, PendingIsOutstanding, Tracked
  <2>2. QED
    BY <2>1, OutstandingFinite, CardinalityStep DEF ReadyAfterEnumeration, IInv
<1>9. TypeOK'
  BY <1>1, <1>2, <1>3, <1>7 DEF IInv, TypeOK, Steps, Nodes
<1>10. TreeInv'
  BY <1>1, <1>2 DEF IInv, TreeInv
<1>11. CallInv'
  <2> SUFFICES ASSUME NEW t \in Threads PROVE CallOK(t)'
    BY DEF CallInv
  <2>1. CASE call'[t] = call[t]
    <3>1. CallOK(t) /\ call[t].at # "add_pending"
      BY <1>1 DEF IInv, CallInv, CallOK
    <3>2. QED
      BY <2>1, <3>1, <1>2, <1>4, <1>7 DEF CallOK, Tracked, IInv, TypeOK
  <2>2. CASE call'[t] # call[t]
    <3>1. call'[t] = [at |-> "try_finalise", node |-> d] /\ ReadyAfterEnumeration(state, d)
      BY <2>2, <1>3 DEF IInv, TypeOK
    <3>2. QED
      BY <3>1, <1>2, <1>4, <1>8 DEF CallOK
  <2>3. QED
    BY <2>1, <2>2
<1>12. UniqueInv'
  BY <1>1, <1>3 DEF IInv, TypeOK, UniqueInv
<1>13. DirInv'
  <2> SUFFICES ASSUME NEW e \in Dirs PROVE DirOK(e)'
    BY DEF DirInv
  <2>1. DirOK(e) /\ (Tracked(state, e)' <=> Tracked(state, e))
    BY <1>7 DEF IInv, DirInv, Tracked
  <2>2. Tracked(state, e) => e \in discovered
    BY <2>1, <1>1 DEF DirOK, At
  <2>3. CASE e = d
    BY <2>1, <2>2, <2>3, <1>2, <1>4, <1>5, <1>6, <1>7 DEF DirOK, Tracked
  <2>4. CASE e # d
    BY <2>1, <2>2, <2>4, <1>2, <1>4, <1>7 DEF DirOK, Tracked
  <2>5. QED
    BY <2>3, <2>4
<1>14. PendingIsOutstanding'
  BY <1>4, <1>7 DEF IInv, TypeOK, PendingIsOutstanding
<1>15. SimulationInv'
  <2>1. \A e \in Dirs : FoundIn(e)' \cap kept' = FoundIn(e) \cap kept
    BY <1>2, <1>4
  <2>2. QED
    BY <2>1, <1>2, <1>7 DEF IInv, TypeOK, SimulationInv, SimulationOK, Tracked
<1>16. QED
  BY <1>9, <1>10, <1>11, <1>12, <1>13, <1>14, <1>15 DEF IInv

LEMMA ClaimLeafStep ==
    ASSUME IInv, NEW t \in Threads, NEW n \in Leaves, ClaimLeaf(t, n)
    PROVE  IInv'
<1>1. /\ call[t].at = "idle"
      /\ n \in discovered \ claimed
      /\ claimed' = claimed \cup {n}
      /\ call' = [call EXCEPT ![t] = [at |-> "complete_child", node |-> n]]
      /\ UNCHANGED <<state, discovered, listed, resolved, kept, sent, received, simulated>>
  BY DEF ClaimLeaf, IsIdle, Goto
<1>2. n \notin resolved /\ n # Root /\ n \notin Dirs
  BY <1>1, TreeAssumption DEF IInv, TreeInv
<1>3. \A e \in Dirs : FoundIn(e)' = FoundIn(e) /\ Outstanding(e)' = Outstanding(e)
  BY <1>1 DEF FoundIn, Outstanding
<1>4. TypeOK'
  BY <1>1 DEF IInv, TypeOK, Steps, Nodes
<1>5. TreeInv'
  BY <1>1 DEF IInv, TreeInv
<1>6. CallInv'
  <2> SUFFICES ASSUME NEW u \in Threads PROVE CallOK(u)'
    BY DEF CallInv
  <2>1. CASE u = t
    BY <2>1, <1>1, <1>2 DEF IInv, TypeOK, CallOK
  <2>2. CASE u # t
    BY <2>2, <1>1, <1>3 DEF IInv, TypeOK, CallInv, CallOK, Tracked
  <2>3. QED
    BY <2>1, <2>2
<1>7. UniqueInv'
  <2>1. \A u \in Threads : call[u] # [at |-> "complete_child", node |-> n]
    BY <1>1 DEF IInv, CallInv, CallOK
  <2>2. QED
    BY <2>1, <1>1 DEF IInv, TypeOK, UniqueInv
<1>8. DirInv'
  <2> SUFFICES ASSUME NEW e \in Dirs PROVE DirOK(e)'
    BY DEF DirInv
  <2>1. DirOK(e) /\ (At(Coordinator, "add_pending", e) => At(Coordinator, "add_pending", e)')
    BY <1>1 DEF IInv, TypeOK, DirInv, At
  <2>2. QED
    BY <2>1, <1>1, <1>3 DEF DirOK, Tracked
<1>9. PendingIsOutstanding' /\ SimulationInv'
  <2>1. \A e \in Dirs : FoundIn(e)' \cap kept' = FoundIn(e) \cap kept
    BY <1>1, <1>3
  <2>2. QED
    BY <2>1, <1>1, <1>3 DEF IInv, TypeOK, PendingIsOutstanding, SimulationInv, SimulationOK, Tracked
<1>10. QED
  BY <1>4, <1>5, <1>6, <1>7, <1>8, <1>9 DEF IInv

LEMMA CompleteChildStep ==
    ASSUME IInv, NEW t \in Threads, NEW n \in Nodes \ {Root},
           NEW stillPresent \in BOOLEAN, CompleteChild(t, n, stillPresent)
    PROVE  IInv'
<1> DEFINE p == Parent[n]
<1>1. /\ call[t].at = "complete_child" /\ call[t].node = n
      /\ CallOK(t)
      /\ n \in discovered \ (resolved \cup {Root})
  BY DEF CompleteChild, At, IInv, CallInv, CallOK
<1>2. /\ state' = SubtractPending(state, p, stillPresent)
      /\ resolved' = resolved \cup {n}
      /\ kept' = IF stillPresent THEN kept \cup {n} ELSE kept
      /\ UNCHANGED <<discovered, listed, claimed, sent, received, simulated>>
      /\ \/ /\ ReadyAfterChild(state', p)
            /\ call' = [call EXCEPT ![t] = [at |-> "try_finalise", node |-> p]]
         \/ call' = [call EXCEPT ![t] = Idle]
  BY DEF CompleteChild, Goto, Return
<1>3. /\ p \in Dirs
      /\ n \in Outstanding(p)
      /\ Tracked(state, p)
      /\ ~ state[p].finalised
      /\ sent[p] = 0
  BY <1>1, ParentIsTracked
<1>4. /\ DOMAIN state' = DOMAIN state
      /\ state'[p] = [state[p] EXCEPT !.pending = @ - 1,
                                      !.still_present = @ \/ stillPresent]
      /\ \A e \in DOMAIN state : e # p => state'[e] = state[e]
  BY <1>2, <1>3 DEF SubtractPending, Update, Tracked
<1>5. /\ state'[p].pending = state[p].pending - 1
      /\ state'[p].still_present = (state[p].still_present \/ stillPresent)
      /\ state'[p].finalised = state[p].finalised
      /\ state'[p].enumeration_done = state[p].enumeration_done
      /\ state'[p] \in DirState
  <2>1. /\ state[p] \in DirState
        /\ (state[p].still_present \/ stillPresent) \in BOOLEAN
    BY <1>3 DEF IInv, TypeOK, Tracked
  <2>3. state[p].pending - 1 \in Int
    BY <2>1 DEF DirState
  <2>4. PICK b \in BOOLEAN : b = (state[p].still_present \/ stillPresent)
    BY <2>1
  <2>5. state'[p] = [state[p] EXCEPT !.pending = state[p].pending - 1,
                                    !.still_present = b]
    BY <1>4, <2>4
  <2>6. /\ state'[p] \in DirState
        /\ state'[p].pending = state[p].pending - 1
        /\ state'[p].still_present = b
        /\ state'[p].finalised = state[p].finalised
        /\ state'[p].enumeration_done = state[p].enumeration_done
    BY <2>1, <2>3, <2>5 DEF DirState
  <2>7. QED
    BY <2>4, <2>6
<1>6. state' \in [DOMAIN state' -> DirState]
  BY <1>2, <1>3, <1>4, <1>5 DEF IInv, TypeOK, SubtractPending, Update, Tracked
<1>7. /\ \A e \in Dirs : FoundIn(e)' = FoundIn(e)
      /\ \A e \in Dirs : Outstanding(e)' = Outstanding(e) \ {n}
      /\ \A e \in Dirs \ {p} : n \notin FoundIn(e)
  BY <1>2 DEF FoundIn, Outstanding
<1>8. Cardinality(Outstanding(p)') = Cardinality(Outstanding(p)) - 1
  BY <1>3, <1>7, OutstandingFinite, CardinalityStep DEF IInv
<1>9. PendingIsOutstanding'
  <2> SUFFICES ASSUME NEW e \in DOMAIN state'
               PROVE  state'[e].pending = Cardinality(Outstanding(e)')
    BY DEF PendingIsOutstanding
  <2>1. e \in Dirs /\ state[e].pending = Cardinality(Outstanding(e))
    BY <1>4 DEF IInv, TypeOK, PendingIsOutstanding
  <2>2. CASE e = p
    BY <2>1, <2>2, <1>5, <1>8
  <2>3. CASE e # p
    BY <2>1, <2>3, <1>4, <1>7 DEF Outstanding
  <2>4. QED
    BY <2>2, <2>3
<1>10. ReadyAfterChild(state', p) => p \in listed /\ Outstanding(p)' = {}
  <2> SUFFICES ASSUME ReadyAfterChild(state', p)
               PROVE  p \in listed /\ Outstanding(p)' = {}
    OBVIOUS
  <2>1. state'[p].enumeration_done /\ state'[p].pending <= 0
    BY DEF ReadyAfterChild
  <2>2. p \in listed
    BY <2>1, <1>3, <1>5 DEF IInv, DirInv, DirOK
  <2>3. IsFiniteSet(Outstanding(p)')
    BY <1>3, <1>7, OutstandingFinite, FS_RemoveElement DEF IInv
  <2>4. state'[p].pending = Cardinality(Outstanding(p)')
    BY <1>3, <1>4, <1>9 DEF PendingIsOutstanding, Tracked
  <2>5. Cardinality(Outstanding(p)') \in Nat
    BY <2>3, FS_CardinalityType
  <2>6. Cardinality(Outstanding(p)') = 0
    BY <2>1, <2>4, <2>5
  <2>7. QED
    BY <2>2, <2>3, <2>6, FS_EmptySet
<1>11. TypeOK'
  <2>1. call' \in [Threads -> [at : Steps, node : Nodes]]
    BY <1>2, <1>3, TreeAssumption DEF IInv, TypeOK, Steps, Nodes, Idle
  <2>2. QED
    BY <2>1, <1>2, <1>4, <1>6 DEF IInv, TypeOK
<1>12. TreeInv'
  BY <1>1, <1>2 DEF IInv, TreeInv, CallOK
<1>13. CallInv'
  <2> SUFFICES ASSUME NEW u \in Threads PROVE CallOK(u)'
    BY DEF CallInv
  <2>1. CASE u = t
    <3>1. CASE call'[t] = Idle
      BY <2>1, <3>1 DEF CallOK, Idle
    <3>2. CASE call'[t] # Idle
      BY <2>1, <3>2, <1>2, <1>3, <1>10 DEF CallOK, IInv, TypeOK
    <3>3. QED
      BY <3>1, <3>2
  <2>2. CASE u # t
    <3>1. CallOK(u) /\ call'[u] = call[u]
      BY <2>2, <1>2 DEF IInv, TypeOK, CallInv
    <3>2. call[u].at = "complete_child" => call[u].node # n
      BY <2>2, <1>1 DEF IInv, TypeOK, UniqueInv
    <3>3. call[u].at = "attempt" => call[u].node # n
      BY <3>1, <1>1 DEF CallOK
    <3>4. call[u].at = "send" => call[u].node # p
      BY <3>1, <1>3 DEF CallOK
    <3>5. QED
      BY <3>1, <3>2, <3>3, <3>4, <1>2, <1>3, <1>4, <1>5, <1>7 DEF CallOK, Tracked
  <2>3. QED
    BY <2>1, <2>2
<1>14. UniqueInv'
  BY <1>2 DEF IInv, TypeOK, UniqueInv, Idle
<1>15. DirInv'
  <2> SUFFICES ASSUME NEW e \in Dirs PROVE DirOK(e)'
    BY DEF DirInv
  <2>1. DirOK(e) /\ (Tracked(state, e)' <=> Tracked(state, e))
    BY <1>4 DEF IInv, DirInv, Tracked
  <2>2. At(Coordinator, "add_pending", e) => At(Coordinator, "add_pending", e)'
    BY <1>1, <1>2 DEF At, IInv, TypeOK, Threads
  <2>3. e = n => received[e] = 1 /\ ~ Tracked(state, e)
    BY <1>1 DEF CallOK
  <2>4. Tracked(state, e) => /\ state'[e].finalised = state[e].finalised
                             /\ state'[e].enumeration_done = state[e].enumeration_done
    BY <1>4, <1>5 DEF Tracked
  <2>5. QED
    BY <2>1, <2>2, <2>3, <2>4, <1>2, <1>7 DEF DirOK
<1>16. SimulationInv'
  <2>1. \A e \in Dirs \ {p} : FoundIn(e)' \cap kept' = FoundIn(e) \cap kept
    BY <1>2, <1>7
  <2>2. FoundIn(p)' \cap kept' # {} <=> FoundIn(p) \cap kept # {} \/ stillPresent
    BY <1>2, <1>3, <1>7 DEF Outstanding
  <2>3. p \notin simulated
    BY <1>3 DEF IInv, SimulationInv, SimulationOK
  <2>4. \A e \in DOMAIN state \ {p} : state'[e] = state[e]
    BY <1>4
  <2>5. state'[p].still_present <=> FoundIn(p)' \cap kept' # {}
    BY <2>2, <1>3, <1>5 DEF IInv, SimulationInv, SimulationOK
  <2>6. simulated' = simulated /\ sent' = sent /\ listed' = listed
    BY <1>2
  <2>7. SimulationInv
    BY DEF IInv
  <2>8. \A e \in Dirs : Tracked(state, e)' <=> Tracked(state, e)
    BY <1>4 DEF Tracked
  <2>9. simulated' \subseteq listed'
    BY <2>6, <2>7 DEF SimulationInv
  <2>10. ASSUME NEW e \in Dirs PROVE SimulationOK(e)'
    <3>1. SimulationOK(e)
      BY <2>7 DEF SimulationInv
    <3>2. CASE e = p
      BY <3>2, <2>3, <2>5, <2>6, <1>3, <1>5 DEF SimulationOK
    <3>3. CASE e # p
      BY <3>1, <3>3, <2>1, <2>4, <2>6, <2>8 DEF SimulationOK, Tracked
    <3>4. QED
      BY <3>2, <3>3
  <2>11. QED
    BY <2>9, <2>10 DEF SimulationInv
<1>17. QED
  BY <1>9, <1>11, <1>12, <1>13, <1>14, <1>15, <1>16 DEF IInv

LEMMA TryFinaliseStep ==
    ASSUME IInv, NEW t \in Threads, NEW d \in Dirs, TryFinalise(t, d)
    PROVE  IInv'
<1>1. /\ call[t].at = "try_finalise" /\ call[t].node = d
      /\ d \in listed /\ Outstanding(d) = {}
  BY DEF TryFinalise, At, IInv, CallInv, CallOK
<1>2. UNCHANGED <<discovered, listed, claimed, resolved, kept, sent, received>>
  BY DEF TryFinalise
<1>3. \A e \in Dirs : FoundIn(e)' = FoundIn(e) /\ Outstanding(e)' = Outstanding(e)
  BY <1>2 DEF FoundIn, Outstanding
<1>4. TreeInv'
  BY <1>2 DEF IInv, TreeInv
<1>5. CASE MayFinalise(state, d)
  <2>1. /\ state' = SetFinalised(state, d)
        /\ simulated' = IF state[d].still_present THEN simulated \cup {d} ELSE simulated
        /\ call' = [call EXCEPT ![t] = [at |-> "send", node |-> d]]
        /\ Tracked(state, d) /\ ~ state[d].finalised
    BY <1>5 DEF TryFinalise, MayFinalise, Goto
  <2>2. /\ DOMAIN state' = DOMAIN state
        /\ state' \in [DOMAIN state' -> DirState]
        /\ state'[d].finalised
        /\ \A e \in DOMAIN state :
              /\ state'[e].pending = state[e].pending
              /\ state'[e].still_present = state[e].still_present
              /\ state'[e].enumeration_done = state[e].enumeration_done
              /\ e # d => state'[e] = state[e]
    BY <2>1 DEF IInv, TypeOK, SetFinalised, Update, Tracked, DirState
  <2>3. sent[d] = 0
    <3>1. DirOK(d) /\ sent[d] \in Nat
      BY DEF IInv, TypeOK, DirInv
    <3>2. QED
      BY <3>1, <2>1 DEF DirOK
  <2>4. TypeOK'
    BY <1>2, <2>1, <2>2 DEF IInv, TypeOK, Steps, Nodes
  <2>5. CallInv'
    <3> SUFFICES ASSUME NEW u \in Threads PROVE CallOK(u)'
      BY DEF CallInv
    <3>1. CASE u = t
      BY <3>1, <1>2, <2>1, <2>2, <2>3 DEF IInv, TypeOK, CallOK, Tracked
    <3>2. CASE u # t
      <4>1. CallOK(u) /\ call'[u] = call[u]
        BY <3>2, <2>1 DEF IInv, TypeOK, CallInv
      <4>2. QED
        BY <4>1, <1>2, <1>3, <2>1, <2>2 DEF CallOK, Tracked
    <3>3. QED
      BY <3>1, <3>2
  <2>6. UniqueInv'
    <3>1. \A u \in Threads : call[u] # [at |-> "send", node |-> d]
      BY <2>1 DEF IInv, CallInv, CallOK
    <3>2. QED
      BY <3>1, <2>1 DEF IInv, TypeOK, UniqueInv
  <2>7. DirInv'
    <3> SUFFICES ASSUME NEW e \in Dirs PROVE DirOK(e)'
      BY DEF DirInv
    <3>1. DirOK(e) /\ (Tracked(state, e)' <=> Tracked(state, e))
      BY <2>2 DEF IInv, DirInv, Tracked
    <3>2. At(Coordinator, "add_pending", e) => At(Coordinator, "add_pending", e)'
      BY <1>1, <2>1 DEF At, IInv, TypeOK, Threads
    <3>3. CASE e = d
      BY <3>1, <3>2, <3>3, <1>1, <1>2, <1>3, <2>1, <2>2 DEF DirOK, Tracked
    <3>4. CASE e # d
      BY <3>1, <3>2, <3>4, <1>2, <1>3, <2>2 DEF DirOK, Tracked
    <3>5. QED
      BY <3>3, <3>4
  <2>8. PendingIsOutstanding'
    BY <1>3, <2>2 DEF IInv, TypeOK, PendingIsOutstanding
  <2>9. SimulationInv'
    <3>1. \A e \in Dirs : FoundIn(e)' \cap kept' = FoundIn(e) \cap kept
      BY <1>2, <1>3
    <3>2. d \in simulated' <=> FoundIn(d)' \cap kept' # {}
      BY <3>1, <2>1 DEF IInv, SimulationInv, SimulationOK
    <3>3. \A e \in Dirs \ {d} : e \in simulated' <=> e \in simulated
      BY <2>1
    <3>4. simulated' \subseteq listed'
      BY <1>1, <1>2, <2>1 DEF IInv, SimulationInv, SimulationOK
    <3>5. QED
      BY <3>1, <3>2, <3>3, <3>4, <1>2, <2>2 DEF IInv, TypeOK, SimulationInv, SimulationOK, Tracked
  <2>10. QED
    BY <1>4, <2>4, <2>5, <2>6, <2>7, <2>8, <2>9 DEF IInv
<1>6. CASE ~ MayFinalise(state, d)
  <2>1. call' = [call EXCEPT ![t] = Idle] /\ UNCHANGED <<state, simulated>>
    BY <1>6 DEF TryFinalise, Return
  <2>2. TypeOK'
    BY <1>2, <2>1, TreeAssumption DEF IInv, TypeOK, Steps, Nodes, Idle
  <2>3. CallInv'
    <3> SUFFICES ASSUME NEW u \in Threads PROVE CallOK(u)'
      BY DEF CallInv
    <3>1. CASE u = t
      BY <3>1, <2>1 DEF IInv, TypeOK, CallOK, Idle
    <3>2. CASE u # t
      BY <3>2, <1>2, <1>3, <2>1 DEF IInv, TypeOK, CallInv, CallOK, Tracked
    <3>3. QED
      BY <3>1, <3>2
  <2>4. UniqueInv'
    BY <2>1 DEF IInv, TypeOK, UniqueInv, Idle
  <2>5. DirInv'
    <3> SUFFICES ASSUME NEW e \in Dirs PROVE DirOK(e)'
      BY DEF DirInv
    <3>1. DirOK(e)
      BY DEF IInv, DirInv
    <3>2. At(Coordinator, "add_pending", e) => At(Coordinator, "add_pending", e)'
      BY <1>1, <2>1 DEF At, IInv, TypeOK, Threads
    <3>3. QED
      BY <3>1, <3>2, <1>2, <1>3, <2>1 DEF DirOK, Tracked
  <2>6. PendingIsOutstanding' /\ SimulationInv'
    <3>1. \A e \in Dirs : FoundIn(e)' \cap kept' = FoundIn(e) \cap kept
      BY <1>2, <1>3
    <3>2. QED
      BY <3>1, <1>2, <1>3, <2>1
         DEF IInv, TypeOK, PendingIsOutstanding, SimulationInv, SimulationOK, Tracked
  <2>7. QED
    BY <1>4, <2>2, <2>3, <2>4, <2>5, <2>6 DEF IInv
<1>7. QED
  BY <1>5, <1>6

LEMMA SendReadyStep ==
    ASSUME IInv, NEW t \in Threads, NEW d \in Dirs, SendReady(t, d)
    PROVE  IInv'
<1>1. /\ call[t].at = "send" /\ call[t].node = d
      /\ sent[d] = 0 /\ Tracked(state, d) /\ state[d].finalised
  BY DEF SendReady, At, IInv, CallInv, CallOK
<1>2. /\ sent' = [sent EXCEPT ![d] = 1]
      /\ call' = [call EXCEPT ![t] = Idle]
      /\ UNCHANGED <<state, discovered, listed, claimed, resolved, kept, received,
                     simulated>>
  BY <1>1 DEF SendReady, Return, IInv, TypeOK
<1>3. /\ sent' \in [Dirs -> Nat] /\ sent'[d] = 1
      /\ \A e \in Dirs : e # d => sent'[e] = sent[e]
  BY <1>2 DEF IInv, TypeOK
<1>4. \A e \in Dirs : FoundIn(e)' = FoundIn(e) /\ Outstanding(e)' = Outstanding(e)
  BY <1>2 DEF FoundIn, Outstanding
<1>5. TypeOK' /\ TreeInv'
  BY <1>2, <1>3, TreeAssumption DEF IInv, TypeOK, TreeInv, Steps, Nodes, Idle
<1>6. CallInv'
  <2> SUFFICES ASSUME NEW u \in Threads PROVE CallOK(u)'
    BY DEF CallInv
  <2>1. CASE u = t
    BY <2>1, <1>2 DEF IInv, TypeOK, CallOK, Idle
  <2>2. CASE u # t
    <3>1. CallOK(u) /\ call'[u] = call[u]
      BY <2>2, <1>2 DEF IInv, TypeOK, CallInv
    <3>2. call[u].at = "send" => call[u].node # d
      BY <2>2, <1>1 DEF IInv, TypeOK, UniqueInv
    <3>3. QED
      BY <3>1, <3>2, <1>2, <1>3, <1>4 DEF CallOK, Tracked
  <2>3. QED
    BY <2>1, <2>2
<1>7. UniqueInv'
  BY <1>2 DEF IInv, TypeOK, UniqueInv, Idle
<1>8. DirInv'
  <2> SUFFICES ASSUME NEW e \in Dirs PROVE DirOK(e)'
    BY DEF DirInv
  <2>1. DirOK(e) /\ received[e] \in Nat /\ sent[e] \in Nat
    BY DEF IInv, DirInv, TypeOK
  <2>2. At(Coordinator, "add_pending", e) => At(Coordinator, "add_pending", e)'
    BY <1>1, <1>2 DEF At, IInv, TypeOK, Threads
  <2>3. CASE e = d
    BY <2>1, <2>2, <2>3, <1>1, <1>2, <1>3, <1>4 DEF DirOK, Tracked
  <2>4. CASE e # d
    BY <2>1, <2>2, <2>4, <1>2, <1>3, <1>4 DEF DirOK, Tracked
  <2>5. QED
    BY <2>3, <2>4
<1>9. PendingIsOutstanding'
  BY <1>2, <1>4 DEF IInv, TypeOK, PendingIsOutstanding
<1>10. SimulationInv'
  <2>1. ASSUME NEW e \in Dirs PROVE SimulationOK(e)'
    <3>1. SimulationOK(e) /\ FoundIn(e)' \cap kept' = FoundIn(e) \cap kept
      BY <1>2, <1>4 DEF IInv, SimulationInv
    <3>2. QED
      BY <3>1, <1>1, <1>2, <1>3 DEF SimulationOK, Tracked
  <2>2. QED
    BY <2>1, <1>2 DEF IInv, SimulationInv
<1>11. QED
  BY <1>5, <1>6, <1>7, <1>8, <1>9, <1>10 DEF IInv

LEMMA ReceiveReadyStep ==
    ASSUME IInv, NEW t \in Threads, NEW d \in Dirs, ReceiveReady(t, d)
    PROVE  IInv'
<1>1. /\ call[t].at = "idle"
      /\ received[d] < sent[d]
      /\ received' = [received EXCEPT ![d] = @ + 1]
      /\ call' = [call EXCEPT ![t] = [at |-> "attempt", node |-> d]]
      /\ UNCHANGED <<state, discovered, listed, claimed, resolved, kept, sent, simulated>>
  BY DEF ReceiveReady, IsIdle, Goto
<1>2. DirOK(d) /\ received[d] \in Nat /\ sent[d] \in Nat
  BY DEF IInv, DirInv, TypeOK
<1>3. received[d] = 0 /\ sent[d] = 1
  BY <1>1, <1>2 DEF DirOK
<1>4. /\ received' \in [Dirs -> Nat] /\ received'[d] = 1
      /\ \A e \in Dirs : e # d => received'[e] = received[e]
  BY <1>1, <1>3 DEF IInv, TypeOK
<1>5. d \in discovered /\ d \notin resolved /\ Tracked(state, d)
  BY <1>2, <1>3 DEF DirOK, IInv, TreeInv
<1>6. \A e \in Dirs : FoundIn(e)' = FoundIn(e) /\ Outstanding(e)' = Outstanding(e)
  BY <1>1 DEF FoundIn, Outstanding
<1>7. TypeOK' /\ TreeInv'
  BY <1>1, <1>4 DEF IInv, TypeOK, TreeInv, Steps, Nodes
<1>8. \A u \in Threads : call[u] # [at |-> "attempt", node |-> d]
  BY <1>3 DEF IInv, CallInv, CallOK
<1>9. CallInv'
  <2> SUFFICES ASSUME NEW u \in Threads PROVE CallOK(u)'
    BY DEF CallInv
  <2>1. CASE u = t
    BY <2>1, <1>1, <1>4, <1>5 DEF IInv, TypeOK, CallOK, Tracked
  <2>2. CASE u # t
    <3>1. CallOK(u) /\ call'[u] = call[u]
      BY <2>2, <1>1 DEF IInv, TypeOK, CallInv
    <3>2. QED
      BY <3>1, <1>1, <1>3, <1>4, <1>6 DEF CallOK, Tracked
  <2>3. QED
    BY <2>1, <2>2
<1>10. UniqueInv'
  BY <1>1, <1>8 DEF IInv, TypeOK, UniqueInv
<1>11. DirInv'
  <2> SUFFICES ASSUME NEW e \in Dirs PROVE DirOK(e)'
    BY DEF DirInv
  <2>1. DirOK(e)
    BY DEF IInv, DirInv
  <2>2. At(Coordinator, "add_pending", e) => At(Coordinator, "add_pending", e)'
    BY <1>1 DEF At, IInv, TypeOK, Threads
  <2>3. CASE e = d
    BY <2>1, <2>2, <2>3, <1>1, <1>3, <1>4, <1>5, <1>6 DEF DirOK, Tracked
  <2>4. CASE e # d
    BY <2>1, <2>2, <2>4, <1>1, <1>4, <1>6 DEF DirOK, Tracked
  <2>5. QED
    BY <2>3, <2>4
<1>12. PendingIsOutstanding'
  BY <1>1, <1>6 DEF IInv, TypeOK, PendingIsOutstanding
<1>13. SimulationInv'
  <2>1. \A e \in Dirs : FoundIn(e)' \cap kept' = FoundIn(e) \cap kept
    BY <1>1, <1>6
  <2>2. QED
    BY <2>1, <1>1 DEF IInv, SimulationInv, SimulationOK, Tracked
<1>14. QED
  BY <1>7, <1>9, <1>10, <1>11, <1>12, <1>13 DEF IInv

LEMMA ForgetStep ==
    ASSUME IInv, NEW t \in Threads, NEW d \in Dirs, Forget(t, d)
    PROVE  IInv'
<1>1. /\ call[t].at = "attempt" /\ call[t].node = d
      /\ d \notin resolved /\ received[d] = 1 /\ Tracked(state, d)
  BY DEF Forget, At, IInv, CallInv, CallOK
<1>2. /\ state' = Remove(state, d)
      /\ UNCHANGED <<discovered, listed, claimed, resolved, kept, sent, received,
                     simulated>>
      /\ \/ d = Root /\ call' = [call EXCEPT ![t] = Idle]
         \/ d # Root /\ call' = [call EXCEPT ![t] = [at |-> "complete_child", node |-> d]]
  BY DEF Forget, Goto, Return
<1>3. /\ DOMAIN state' = DOMAIN state \ {d}
      /\ \A e \in DOMAIN state \ {d} : state'[e] = state[e]
      /\ state' \in [DOMAIN state' -> DirState]
  BY <1>2 DEF Remove, IInv, TypeOK
<1>4. DirOK(d) /\ received[d] \in Nat /\ sent[d] \in Nat
  BY DEF IInv, DirInv, TypeOK
<1>5. sent[d] = 1 /\ d \in listed /\ d \in discovered
  BY <1>1, <1>4 DEF DirOK, IInv, TreeInv
<1>6. \A e \in Dirs : FoundIn(e)' = FoundIn(e) /\ Outstanding(e)' = Outstanding(e)
  BY <1>2 DEF FoundIn, Outstanding
<1>7. TypeOK' /\ TreeInv'
  <2>1. call' \in [Threads -> [at : Steps, node : Nodes]]
    BY <1>2, TreeAssumption DEF IInv, TypeOK, Steps, Nodes, Idle
  <2>2. QED
    BY <2>1, <1>2, <1>3 DEF IInv, TypeOK, TreeInv
<1>8. CallInv'
  <2> SUFFICES ASSUME NEW u \in Threads PROVE CallOK(u)'
    BY DEF CallInv
  <2>1. CASE u = t
    <3>1. d \notin Leaves /\ ~ Tracked(state, d)'
      BY <1>3, TreeAssumption DEF Tracked
    <3>2. QED
      BY <2>1, <3>1, <1>1, <1>2, <1>5 DEF IInv, TypeOK, CallOK, Idle
  <2>2. CASE u # t
    <3>1. CallOK(u) /\ call'[u] = call[u]
      BY <2>2, <1>2 DEF IInv, TypeOK, CallInv
    <3>2. call[u].at = "attempt" => call[u].node # d
      BY <2>2, <1>1 DEF IInv, TypeOK, UniqueInv
    <3>3. call[u].at \in {"send", "add_pending"} => call[u].node # d
      BY <3>1, <1>5 DEF CallOK
    <3>4. QED
      BY <3>1, <3>2, <3>3, <1>2, <1>3, <1>6 DEF CallOK, Tracked
  <2>3. QED
    BY <2>1, <2>2
<1>9. UniqueInv'
  <2>1. \A u \in Threads : call[u] # [at |-> "complete_child", node |-> d]
    BY <1>1 DEF IInv, CallInv, CallOK
  <2>2. QED
    BY <2>1, <1>2 DEF IInv, TypeOK, UniqueInv, Idle
<1>10. DirInv'
  <2> SUFFICES ASSUME NEW e \in Dirs PROVE DirOK(e)'
    BY DEF DirInv
  <2>1. DirOK(e)
    BY DEF IInv, DirInv
  <2>2. At(Coordinator, "add_pending", e) => At(Coordinator, "add_pending", e)'
    BY <1>1, <1>2 DEF At, IInv, TypeOK, Threads
  <2>3. CASE e = d
    BY <2>1, <2>3, <1>1, <1>2, <1>3, <1>5, <1>6 DEF DirOK, Tracked
  <2>4. CASE e # d
    BY <2>1, <2>2, <2>4, <1>2, <1>3, <1>6 DEF DirOK, Tracked
  <2>5. QED
    BY <2>3, <2>4
<1>11. PendingIsOutstanding'
  BY <1>3, <1>6 DEF IInv, TypeOK, PendingIsOutstanding
<1>12. SimulationInv'
  <2>1. ASSUME NEW e \in Dirs PROVE SimulationOK(e)'
    <3>1. SimulationOK(e) /\ FoundIn(e)' \cap kept' = FoundIn(e) \cap kept
      BY <1>2, <1>6 DEF IInv, SimulationInv
    <3>2. CASE e = d
      BY <3>1, <3>2, <1>2, <1>3, <1>5 DEF SimulationOK, Tracked
    <3>3. CASE e # d
      BY <3>1, <3>3, <1>2, <1>3 DEF SimulationOK, Tracked
    <3>4. QED
      BY <3>2, <3>3
  <2>2. QED
    BY <2>1, <1>2 DEF IInv, SimulationInv
<1>13. QED
  BY <1>7, <1>8, <1>9, <1>10, <1>11, <1>12 DEF IInv

LEMMA StutterStep ==
    ASSUME IInv, UNCHANGED vars
    PROVE  IInv'
<1>1. \A e \in Dirs : FoundIn(e)' = FoundIn(e) /\ Outstanding(e)' = Outstanding(e)
  BY DEF vars, FoundIn, Outstanding
<1>2. TypeOK' /\ TreeInv' /\ UniqueInv'
  BY DEF vars, IInv, TypeOK, TreeInv, UniqueInv
<1>3. CallInv'
  BY <1>1 DEF vars, IInv, TypeOK, CallInv, CallOK, Tracked
<1>4. DirInv'
  BY <1>1 DEF vars, IInv, DirInv, DirOK, Tracked, At
<1>5. PendingIsOutstanding'
  BY <1>1 DEF vars, IInv, TypeOK, PendingIsOutstanding
<1>6. SimulationInv'
  <2>1. \A e \in Dirs : FoundIn(e)' \cap kept' = FoundIn(e) \cap kept
    BY <1>1 DEF vars
  <2>2. QED
    BY <2>1 DEF vars, IInv, SimulationInv, SimulationOK, Tracked
<1>7. QED
  BY <1>2, <1>3, <1>4, <1>5, <1>6 DEF IInv

LEMMA NextIInv == IInv /\ [Next]_vars => IInv'
<1> SUFFICES ASSUME IInv, [Next]_vars PROVE IInv'
  OBVIOUS
<1>1. ASSUME NEW d \in Dirs \ {Root}, RegisterDirectory(d) PROVE IInv'
  BY <1>1, RegisterDirectoryStep
<1>2. ASSUME NEW d \in Dirs \ {Root}, AddPendingOfDirectory(d) PROVE IInv'
  BY <1>2, AddPendingStep
<1>3. ASSUME NEW n \in Leaves, RegisterLeafChild(n) PROVE IInv'
  BY <1>3, RegisterLeafStep
<1>4. ASSUME NEW d \in Dirs, MarkEnumerationDone(d) PROVE IInv'
  BY <1>4, MarkEnumerationDoneStep
<1>5. ASSUME NEW t \in Threads, NEW n \in Leaves, ClaimLeaf(t, n) PROVE IInv'
  BY <1>5, ClaimLeafStep
<1>6. ASSUME NEW t \in Threads, NEW n \in Nodes \ {Root},
             NEW stillPresent \in BOOLEAN, CompleteChild(t, n, stillPresent)
      PROVE  IInv'
  BY <1>6, CompleteChildStep
<1>7. ASSUME NEW t \in Threads, NEW d \in Dirs, TryFinalise(t, d) PROVE IInv'
  BY <1>7, TryFinaliseStep
<1>8. ASSUME NEW t \in Threads, NEW d \in Dirs, SendReady(t, d) PROVE IInv'
  BY <1>8, SendReadyStep
<1>9. ASSUME NEW t \in Threads, NEW d \in Dirs, ReceiveReady(t, d) PROVE IInv'
  BY <1>9, ReceiveReadyStep
<1>10. ASSUME NEW t \in Threads, NEW d \in Dirs, Forget(t, d) PROVE IInv'
  BY <1>10, ForgetStep
<1>11. CASE UNCHANGED vars
  BY <1>11, StutterStep
<1>12. DirWorkers \subseteq Threads
  BY DEF Threads
<1>13. QED
  BY <1>1, <1>2, <1>3, <1>4, <1>5, <1>6, <1>7, <1>8, <1>9, <1>10, <1>11, <1>12
     DEF Next, Discover, Enumerated, ResolveStep, LeafStep, DirWorkerStep

-----------------------------------------------------------------------------
(* The theorems. *)

\* The inductive invariant holds of every reachable state.
THEOREM Invariance == Spec => []IInv
<1>1. Init => IInv
  BY InitIInv
<1>2. IInv /\ [Next]_vars => IInv'
  BY NextIInv
<1>3. QED
  BY <1>1, <1>2, PTL DEF Spec

\* directory_tracker.rs:38-42: a directory is sent to the ready channel once at
\* most, for any tree and any number of file and directory workers.
THEOREM HandedOverOnceHolds == Spec => []HandedOverOnce
<1>1. IInv => HandedOverOnce
  BY DEF IInv, DirInv, DirOK, HandedOverOnce
<1>2. QED
  BY <1>1, Invariance, PTL

\* directory_tracker.rs:1-3: and only after its enumeration is complete and
\* every child found in it is resolved.
THEOREM HandedOverLastHolds == Spec => []HandedOverLast
<1>1. IInv => HandedOverLast
  <2> SUFFICES ASSUME IInv, NEW d \in Dirs, sent[d] > 0
               PROVE  d \in listed /\ Outstanding(d) = {}
    BY DEF HandedOverLast
  <2>1. DirOK(d) /\ sent[d] \in Nat
    BY DEF IInv, DirInv, TypeOK
  <2>2. sent[d] = 1
    BY <2>1 DEF DirOK
  <2>3. QED
    BY <2>1, <2>2 DEF DirOK
<1>2. QED
  BY <1>1, Invariance, PTL

\* add_pending and complete_child never miss their directory in the map.
THEOREM NoCompletionIsLostHolds == Spec => []NoCompletionIsLost
<1>1. IInv => NoCompletionIsLost
  <2> SUFFICES ASSUME IInv, NEW t \in Threads,
                      call[t].at \in {"add_pending", "complete_child"}
               PROVE  Tracked(state, Parent[call[t].node])
    BY DEF NoCompletionIsLost
  <2> DEFINE n == call[t].node
             p == Parent[n]
  <2>1. CallOK(t) /\ n \in Nodes
    BY DEF IInv, CallInv, TypeOK
  <2>2. CASE call[t].at = "complete_child"
    <3>1. n \in discovered \ (resolved \cup {Root})
      BY <2>1, <2>2 DEF CallOK
    <3>2. QED
      BY <3>1, ParentIsTracked
  <2>3. CASE call[t].at = "add_pending"
    <3>1. p \in discovered \ listed /\ n \in Dirs \ discovered
      BY <2>1, <2>3 DEF CallOK
    <3>2. p \in Dirs
      BY <3>1, TreeAssumption DEF IInv, TreeInv
    <3>3. DirOK(p) /\ sent[p] \in Nat /\ received[p] \in Nat
      BY <3>2 DEF IInv, DirInv, TypeOK
    <3>4. QED
      BY <3>1, <3>3 DEF DirOK
  <2>4. QED
    BY <2>2, <2>3
<1>2. QED
  BY <1>1, Invariance, PTL

\* `pending` is the number of children still to be resolved, and never negative
\* (the debug_assert of complete_child).
THEOREM PendingIsOutstandingHolds == Spec => []PendingIsOutstanding
<1>1. IInv => PendingIsOutstanding
  BY DEF IInv
<1>2. QED
  BY <1>1, Invariance, PTL

\* What a dry run is told about a directory is the truth about its children.
THEOREM SimulationIsExactHolds == Spec => []SimulationIsExact
<1>1. IInv => SimulationIsExact
  <2> SUFFICES ASSUME IInv, NEW d \in Dirs, sent[d] > 0
               PROVE  d \in simulated <=> FoundIn(d) \cap kept # {}
    BY DEF SimulationIsExact
  <2>1. DirOK(d) /\ sent[d] \in Nat /\ SimulationOK(d)
    BY DEF IInv, DirInv, TypeOK, SimulationInv
  <2>2. sent[d] = 1
    BY <2>1 DEF DirOK
  <2>3. QED
    BY <2>1, <2>2 DEF SimulationOK
<1>2. QED
  BY <1>1, Invariance, PTL

-----------------------------------------------------------------------------
(* The tracker implements DirectoryCompletion. *)

LEMMA CompletionInit == Init => Completion!Init
BY DEF Init, Completion!Init

\* Every step is a step of DirectoryCompletion or leaves its variables alone:
\* a child is discovered when it is counted, a directory is handed over when
\* its message is sent.
LEMMA CompletionStep ==
    ASSUME IInv, [Next]_vars
    PROVE  [Completion!Next]_Completion!vars
<1> USE DEF Completion!vars
<1>1. ASSUME NEW d \in Dirs \ {Root}, RegisterDirectory(d)
      PROVE  UNCHANGED Completion!vars
  BY <1>1 DEF RegisterDirectory
<1>2. ASSUME NEW d \in Dirs \ {Root}, AddPendingOfDirectory(d)
      PROVE  Completion!Discover(d)
  <2>1. d \notin discovered /\ Parent[d] \in discovered \ listed
    BY <1>2 DEF AddPendingOfDirectory, At, Threads, IInv, CallInv, CallOK
  <2>2. QED
    BY <1>2, <2>1 DEF AddPendingOfDirectory, Completion!Discover
<1>3. ASSUME NEW n \in Leaves, RegisterLeafChild(n)
      PROVE  Completion!Discover(n)
  BY <1>3 DEF RegisterLeafChild, Discoverable, Completion!Discover
<1>4. ASSUME NEW d \in Dirs, MarkEnumerationDone(d)
      PROVE  Completion!ListingDone(d)
  BY <1>4 DEF MarkEnumerationDone, Completion!ListingDone
<1>5. ASSUME NEW t \in Threads, NEW n \in Leaves, ClaimLeaf(t, n)
      PROVE  UNCHANGED Completion!vars
  BY <1>5 DEF ClaimLeaf
<1>6. ASSUME NEW t \in Threads, NEW n \in Nodes \ {Root},
             NEW stillPresent \in BOOLEAN, CompleteChild(t, n, stillPresent)
      PROVE  Completion!Resolve(n)
  <2>1. CallOK(t) /\ call[t].at = "complete_child" /\ call[t].node = n
    BY <1>6 DEF CompleteChild, At, IInv, CallInv
  <2>2. n \in discovered \ (resolved \cup {Root})
    BY <2>1 DEF CallOK
  <2>3. n \in Dirs => sent[n] = 1
    <3> SUFFICES ASSUME n \in Dirs PROVE sent[n] = 1
      OBVIOUS
    <3>1. received[n] = 1
      BY <2>1 DEF CallOK
    <3>2. DirOK(n) /\ sent[n] \in Nat
      BY DEF IInv, DirInv, TypeOK
    <3>3. QED
      BY <3>1, <3>2 DEF DirOK
  <2>4. QED
    BY <1>6, <2>2, <2>3 DEF CompleteChild, Completion!Resolve
<1>7. ASSUME NEW t \in Threads, NEW d \in Dirs, TryFinalise(t, d)
      PROVE  UNCHANGED Completion!vars
  BY <1>7 DEF TryFinalise
<1>8. ASSUME NEW t \in Threads, NEW d \in Dirs, SendReady(t, d)
      PROVE  Completion!HandOver(d)
  <2>1. sent[d] = 0 /\ Tracked(state, d) /\ state[d].finalised
    BY <1>8 DEF SendReady, At, IInv, CallInv, CallOK
  <2>2. d \in listed /\ Outstanding(d) = {}
    BY <2>1 DEF IInv, DirInv, DirOK
  <2>3. Completion!FoundIn(d) \subseteq resolved
    BY <2>2 DEF Outstanding, FoundIn, Completion!FoundIn
  <2>4. QED
    BY <1>8, <2>1, <2>2, <2>3 DEF SendReady, Completion!HandOver
<1>9. ASSUME NEW t \in Threads, NEW d \in Dirs, ReceiveReady(t, d) \/ Forget(t, d)
      PROVE  UNCHANGED Completion!vars
  BY <1>9 DEF ReceiveReady, Forget
<1>10. CASE UNCHANGED vars
  BY <1>10 DEF vars
<1>11. DirWorkers \subseteq Threads /\ Leaves \subseteq Nodes
  BY DEF Threads, Nodes
<1>12. Leaves \cap {Root} = {}
  BY TreeAssumption
<1>13. QED
  BY <1>1, <1>2, <1>3, <1>4, <1>5, <1>6, <1>7, <1>8, <1>9, <1>10, <1>11, <1>12
     DEF Next, Discover, Enumerated, ResolveStep, LeafStep, DirWorkerStep,
         Completion!Next, Completion!Nodes, Nodes

\* The tracker implements its abstract specification.
THEOREM Refinement == Spec => CompletionSpec
<1>1. Init => Completion!Init
  BY CompletionInit
<1>2. IInv /\ [Next]_vars => [Completion!Next]_Completion!vars
  BY CompletionStep
<1>3. QED
  BY <1>1, <1>2, Invariance, PTL DEF Spec, CompletionSpec, Completion!Spec

-----------------------------------------------------------------------------
(* The root is the last to be forgotten. *)

\* Every entry found hangs on the root: no set of entries is its own parents.
\* It takes the place of an induction over the depth of the tree.
FoundFromRoot ==
    \A S \in SUBSET (discovered \ {Root}) : S # {} => \E n \in S : Parent[n] \notin S

\* An entry is found in a directory found before it.
LEMMA FoundFromRootKept ==
    ASSUME IInv, FoundFromRoot, [Next]_vars
    PROVE  FoundFromRoot'
<1>1. CASE discovered' = discovered
  BY <1>1 DEF FoundFromRoot
<1>2. ASSUME NEW x \in Nodes \ {Root}, Completion!Discover(x)
      PROVE  FoundFromRoot'
  <2>1. x \notin discovered /\ Parent[x] \in discovered /\ discovered' = discovered \cup {x}
    BY <1>2 DEF Completion!Discover
  <2>2. \A n \in discovered \ {Root} : Parent[n] # x
    BY <2>1 DEF IInv, TreeInv
  <2> SUFFICES ASSUME NEW S \in SUBSET (discovered' \ {Root}), S # {}
               PROVE  \E n \in S : Parent[n] \notin S
    BY DEF FoundFromRoot
  <2>3. CASE S \ {x} = {}
    <3>1. S = {x} /\ Parent[x] \notin S
      BY <2>1, <2>3
    <3> QED
      BY <3>1
  <2>4. CASE S \ {x} # {}
    <3>1. S \ {x} \in SUBSET (discovered \ {Root})
      BY <2>1
    <3>2. PICK n \in S \ {x} : Parent[n] \notin S \ {x}
      BY <2>4, <3>1 DEF FoundFromRoot
    <3>3. Parent[n] # x
      BY <2>2, <3>1, <3>2
    <3> QED
      BY <3>2, <3>3
  <2> QED
    BY <2>3, <2>4
<1>3. [Completion!Next]_Completion!vars
  BY CompletionStep
<1> QED
  BY <1>1, <1>2, <1>3, TreeAssumption
     DEF Completion!Next, Completion!Nodes, Nodes, Completion!vars, Completion!Resolve,
         Completion!ListingDone, Completion!HandOver

\* What is not resolved keeps its directory from being handed over, and so from
\* being resolved; once the root is forgotten nothing can be left.
LEMMA NothingIsLeft ==
    ASSUME IInv, FoundFromRoot, ~ Tracked(state, Root)
    PROVE  discovered \ {Root} \subseteq resolved /\ DOMAIN state = {}
<1> DEFINE left == discovered \ (resolved \cup {Root})
<1>1. \A d \in Dirs : DirOK(d) /\ sent[d] \in Nat /\ received[d] \in Nat
  BY DEF IInv, DirInv, TypeOK
<1>2. ASSUME NEW d \in Dirs, d \in discovered, d = Root \/ d \in resolved
      PROVE  d \in listed /\ Outstanding(d) = {} /\ ~ Tracked(state, d)
  <2>1. received[d] = 1 /\ ~ Tracked(state, d)
    BY <1>1, <1>2 DEF DirOK
  <2>2. sent[d] = 1
    BY <1>1, <2>1 DEF DirOK
  <2> QED
    BY <1>1, <2>1, <2>2 DEF DirOK
<1>3. ASSUME NEW n \in left
      PROVE  Parent[n] \in left
  <2>1. Parent[n] \in Dirs /\ Parent[n] \in discovered /\ n \in Outstanding(Parent[n])
    BY ParentIsTracked
  <2> QED
    BY <1>2, <2>1
<1>4. left \in SUBSET (discovered \ {Root})
  OBVIOUS
<1>5. left = {}
  BY <1>3, <1>4 DEF FoundFromRoot
<1>6. \A d \in Dirs \cap discovered : d \in listed /\ ~ Tracked(state, d)
  BY <1>2, <1>5
<1>7. ASSUME NEW d \in DOMAIN state
      PROVE  FALSE
  <2>1. d \in Dirs /\ d \notin discovered /\ At(Coordinator, "add_pending", d)
    BY <1>1, <1>6, <1>7 DEF DirOK, Tracked, IInv, TypeOK
  <2>2. Parent[d] \in discovered \ listed
    BY <2>1 DEF At, IInv, CallInv, CallOK, Threads
  <2>3. Parent[d] \in Dirs
    BY <2>1, TreeAssumption DEF IInv, TreeInv
  <2> QED
    BY <1>6, <2>2, <2>3
<1> QED
  BY <1>5, <1>7

\* When the root leaves the map it is empty, whatever the threads do and however
\* deep the tree is (directory_tracker.rs:171).
THEOREM RootIsForgottenLastHolds == Spec => []RootIsForgottenLast
<1>1. Init => FoundFromRoot
  BY DEF Init, FoundFromRoot
<1>2. IInv /\ FoundFromRoot /\ [Next]_vars => FoundFromRoot'
  BY FoundFromRootKept
<1>3. IInv /\ FoundFromRoot => RootIsForgottenLast
  BY NothingIsLeft DEF RootIsForgottenLast
<1> QED
  BY <1>1, <1>2, <1>3, Invariance, PTL DEF Spec
=============================================================================
