----------------------- MODULE TrackReservationProofs -----------------------
(***************************************************************************)
(* Proofs about TrackReservation, for every track graph, every set of      *)
(* trains and every width of the generation counter.                       *)
(*                                                                         *)
(* Every request that succeeds is a Commit or a release, every other one   *)
(* leaves the table alone.  The lemmas say what those two do to the table; *)
(* each theorem follows from them without looking at the request again.    *)
(***************************************************************************)
EXTENDS TrackReservation, TLAPS

TableTypes ==
  /\ owner \in [Nodes -> Trains \cup {NoTrain}]
  /\ destination \in [Trains -> Nodes \cup {NoNode}]
  /\ generation \in [Trains -> Generations]

TableInv == TableTypes /\ DirectionsTogether /\ PlanHasFootprint

\* What a successful request for a plan does: train t gets the footprint
\* and the destination d, under the old generation only if d was its plan.
Granted(t, route, d) ==
  /\ Conflicts(t, route) = {}
  /\ Commit(t, route, d)
  /\ \/ Advance(t)
     \/ generation' = generation /\ destination[t] = d /\ generation[t] # 0

\* What a release does.
Freed(t) ==
  /\ owner' = [n \in Nodes |-> IF owner[n] = t THEN NoTrain ELSE owner[n]]
  /\ destination' = [destination EXCEPT ![t] = NoNode]
  /\ IF HadPlan(t) THEN Advance(t) ELSE UNCHANGED generation

\* Every step of the server grants one plan, frees one train or leaves the
\* table as it is.
LEMMA StepKinds ==
  ASSUME Next
  PROVE  \/ \E t \in Trains, route \in Routes, d \in Nodes : Granted(t, route, d) /\ reply'.status = "ok"
         \/ \E t \in Trains : Freed(t) /\ reply'.status = "ok"
         \/ UNCHANGED table
<1> DEFINE Goal ==
     \/ \E t \in Trains, route \in Routes, d \in Nodes : Granted(t, route, d) /\ reply'.status = "ok"
     \/ \E t \in Trains : Freed(t) /\ reply'.status = "ok"
     \/ UNCHANGED table
<1>1. ASSUME NEW t \in Trains, NEW route \in Routes, NEW d \in Nodes, Acquire(t, route, d)
      PROVE  Goal
  BY <1>1 DEF Acquire, Conflict, Granted, Reserved, Reply
<1>2. ASSUME NEW t \in Trains, NEW route \in Routes, NEW d \in Nodes, NEW g \in Generations,
             Move(t, route, d, g)
      PROVE  Goal
  BY <1>2 DEF Move, Refused, Conflict, Granted, PlanIs, Reserved, Reply, table
<1>3. ASSUME Refused PROVE Goal
  BY <1>3 DEF Refused
<1>4. ASSUME NEW t \in Trains, Release(t) PROVE Goal
  BY <1>4 DEF Release, Freed, Reserved, Reply
<1>5. ASSUME NEW n \in Nodes, LookupNode(n) PROVE Goal
  BY <1>5 DEF LookupNode
<1>6. ASSUME NEW t \in Trains, Plan(t) PROVE Goal
  <2> HIDE DEF Goal
  <2>1. PICK route \in Routes, d \in Nodes :
          \/ Reserve(t, route, d)
          \/ ReserveWindow(t, route, d)
          \/ \E g \in Generations :
               \/ UpdateFootprint(t, route, d, g)
               \/ UpdateWindow(t, route, d, g)
               \/ \E old \in Nodes : \/ ReplacePlanExpected(t, route, old, g, d)
                                     \/ ReplaceWindowExpected(t, route, old, g, d)
    BY <1>6 DEF Plan
  <2>2. CASE Reserve(t, route, d) \/ ReserveWindow(t, route, d)
    BY <2>2, <1>1, <1>3 DEF Reserve, ReserveWindow
  <2>3. CASE \E g \in Generations : UpdateFootprint(t, route, d, g) \/ UpdateWindow(t, route, d, g)
    BY <2>3, <1>2, <1>3 DEF UpdateFootprint, UpdateWindow
  <2>4. CASE \E g \in Generations, old \in Nodes : ReplacePlanExpected(t, route, old, g, d)
                                                \/ ReplaceWindowExpected(t, route, old, g, d)
    BY <2>4, <1>1, <1>3 DEF ReplacePlanExpected, ReplaceWindowExpected, Replace
  <2> QED BY <2>1, <2>2, <2>3, <2>4
<1> QED
  <2> HIDE DEF Goal
  <2>1. Goal BY <1>3, <1>4, <1>5, <1>6 DEF Next, Malformed
  <2> QED BY <2>1 DEF Goal

-----------------------------------------------------------------------------
(* The two changes.                                                        *)

\* The generation after an advance differs from the one before and names a
\* plan, whatever the width of the counter.
LEMMA Advances ==
  ASSUME NEW g \in Generations
  PROVE  /\ NextGeneration(g) \in Generations
         /\ NextGeneration(g) # 0
         /\ NextGeneration(g) # g
  BY GenerationAssumption DEF NextGeneration, Generations

\* The reverse of an occupied node is occupied.
LEMMA OccupiedPairs ==
  ASSUME NEW route \in Routes
  PROVE  /\ Occupied(route) \subseteq Nodes
         /\ Occupied(route) # {}
         /\ \A n \in Nodes : Reverse[n] # NoNode =>
              (n \in Occupied(route) <=> Reverse[n] \in Occupied(route))
  BY TrackAssumption DEF Occupied, Routes

LEMMA GrantedEffect ==
  ASSUME TableInv, NEW t \in Trains, NEW route \in Routes, NEW d \in Nodes,
         Granted(t, route, d)
  PROVE  /\ TableInv'
         /\ Owns(t)' = Occupied(route)
         /\ \A u \in Trains \ {t} : Owns(u)' = Owns(u)
         /\ destination'[t] # destination[t] => generation'[t] # generation[t]
         /\ \A u \in Trains \ {t} : destination'[u] = destination[u] /\ generation'[u] = generation[u]
         /\ \A u \in Trains \ {t} : Owns(u) \cap Occupied(route) = {}
<1> USE DEF TableInv, TableTypes, Granted
<1>1. \A n \in Nodes : owner'[n] = IF n \in Occupied(route) THEN t
                                   ELSE IF owner[n] = t THEN NoTrain ELSE owner[n]
  BY DEF Commit
<1>2. \A n \in Occupied(route) : owner[n] \in {NoTrain, t}
  BY DEF Conflicts
<1>3. /\ owner' \in [Nodes -> Trains \cup {NoTrain}]
      /\ destination' \in [Trains -> Nodes \cup {NoNode}]
  BY DEF Commit
<1>4. \A u \in Trains : destination'[u] = IF u = t THEN d ELSE destination[u]
  BY DEF Commit
<1>5. /\ generation' \in [Trains -> Generations]
      /\ \A u \in Trains \ {t} : generation'[u] = generation[u]
      /\ generation'[t] # 0
      /\ generation'[t] = generation[t] => destination[t] = d
  BY Advances DEF Advance
<1>6. DirectionsTogether'
  BY <1>1, OccupiedPairs, TrackAssumption DEF DirectionsTogether
<1>7. Owns(t)' = Occupied(route)
  BY <1>1, OccupiedPairs, TrackAssumption DEF Owns
<1>8. \A u \in Trains \ {t} : Owns(u)' = Owns(u)
  BY <1>1, <1>2, TrackAssumption DEF Owns
<1>9. PlanHasFootprint'
  <2> SUFFICES ASSUME NEW u \in Trains
               PROVE  /\ (destination'[u] # NoNode) <=> (Owns(u)' # {})
                      /\ destination'[u] # NoNode => generation'[u] # 0
    BY DEF PlanHasFootprint
  <2>1. CASE u = t
    BY <2>1, <1>4, <1>5, <1>7, OccupiedPairs, TrackAssumption
  <2>2. CASE u # t
    BY <2>2, <1>4, <1>5, <1>8 DEF PlanHasFootprint
  <2> QED BY <2>1, <2>2
<1>10. \A u \in Trains \ {t} : Owns(u) \cap Occupied(route) = {}
  BY <1>2, TrackAssumption DEF Owns
<1> QED
  BY <1>3, <1>4, <1>5, <1>6, <1>7, <1>8, <1>9, <1>10

LEMMA FreedEffect ==
  ASSUME TableInv, NEW t \in Trains, Freed(t)
  PROVE  /\ TableInv'
         /\ Owns(t)' = {}
         /\ \A u \in Trains \ {t} : Owns(u)' = Owns(u)
         /\ destination[t] # NoNode => generation'[t] # generation[t]
         /\ destination'[t] = NoNode
         /\ \A u \in Trains \ {t} : destination'[u] = destination[u] /\ generation'[u] = generation[u]
<1> USE DEF TableInv, TableTypes, Freed
<1>1. \A n \in Nodes : owner'[n] = IF owner[n] = t THEN NoTrain ELSE owner[n]
  OBVIOUS
<1>2. /\ owner' \in [Nodes -> Trains \cup {NoTrain}]
      /\ destination' \in [Trains -> Nodes \cup {NoNode}]
      /\ \A u \in Trains : destination'[u] = IF u = t THEN NoNode ELSE destination[u]
  OBVIOUS
<1>3. /\ generation' \in [Trains -> Generations]
      /\ \A u \in Trains \ {t} : generation'[u] = generation[u]
      /\ destination[t] # NoNode => generation'[t] # generation[t]
  BY Advances DEF Advance, HadPlan
<1>4. DirectionsTogether'
  BY <1>1, TrackAssumption DEF DirectionsTogether
<1>5. Owns(t)' = {} /\ \A u \in Trains \ {t} : Owns(u)' = Owns(u)
  BY <1>1, TrackAssumption DEF Owns
<1>6. PlanHasFootprint'
  BY <1>2, <1>3, <1>5 DEF PlanHasFootprint
<1> QED
  BY <1>2, <1>3, <1>4, <1>5, <1>6

-----------------------------------------------------------------------------
LEMMA InitEstablishes == Init => TableInv
<1> SUFFICES ASSUME Init PROVE TableInv OBVIOUS
<1>1. TableTypes
  BY GenerationAssumption DEF Init, TableTypes, Generations
<1>2. DirectionsTogether
  BY TrackAssumption DEF Init, DirectionsTogether
<1>3. PlanHasFootprint
  BY TrackAssumption DEF Init, PlanHasFootprint, Owns
<1> QED BY <1>1, <1>2, <1>3 DEF TableInv

LEMMA StepPreserves == TableInv /\ [Next]_vars => TableInv'
<1> SUFFICES ASSUME TableInv, [Next]_vars PROVE TableInv' OBVIOUS
<1>1. CASE UNCHANGED table
  BY <1>1 DEF table, TableInv, TableTypes, DirectionsTogether, PlanHasFootprint, Owns
<1>2. CASE Next
  BY <1>1, <1>2, StepKinds, GrantedEffect, FreedEffect
<1> QED BY <1>1, <1>2 DEF vars

\* The table invariant holds in every reachable state.
THEOREM TableInvariant == Spec => []TableInv
  BY InitEstablishes, StepPreserves, PTL DEF Spec

\* Whatever the requests, a node and its reverse have the same owner: a
\* section of track is never given to two trains.
THEOREM SectionsHaveOneOwner == Spec => []DirectionsTogether
<1>1. TableInv => DirectionsTogether BY DEF TableInv
<1> QED BY <1>1, TableInvariant, PTL

\* A train owns track exactly while it has a plan, and the plan has a
\* generation that can be compared.
THEOREM PlansConsistent == Spec => []PlanHasFootprint
<1>1. TableInv => PlanHasFootprint BY DEF TableInv
<1> QED BY <1>1, TableInvariant, PTL

\* No change of destination keeps the generation.
THEOREM PlanChangesAreVisible == Spec => PlanChangeVisible
<1>1. TableInv /\ [Next]_vars =>
        [\A t \in Trains :
           destination'[t] # destination[t] => generation'[t] # generation[t]]_vars
  <2> SUFFICES ASSUME TableInv, Next, NEW t \in Trains, destination'[t] # destination[t]
               PROVE  generation'[t] # generation[t]
    OBVIOUS
  <2>1. CASE \E u \in Trains, route \in Routes, d \in Nodes : Granted(u, route, d)
    BY <2>1, GrantedEffect
  <2>2. CASE \E u \in Trains : Freed(u)
    BY <2>2, FreedEffect
  <2> QED BY <2>1, <2>2, StepKinds DEF table
<1> QED BY <1>1, TableInvariant, PTL DEF Spec, PlanChangeVisible

\* An owned node leaves its owner only by becoming free.
THEOREM OwnersAreNeverRobbed == Spec => NeverStolen
<1>1. TableInv /\ [Next]_vars =>
        [\A n \in Nodes : owner[n] # NoTrain => owner'[n] \in {owner[n], NoTrain}]_vars
  <2> SUFFICES ASSUME TableInv, Next, NEW n \in Nodes, owner[n] # NoTrain
               PROVE  owner'[n] \in {owner[n], NoTrain}
    OBVIOUS
  <2>1. ASSUME NEW t \in Trains, NEW route \in Routes, NEW d \in Nodes, Granted(t, route, d)
        PROVE  owner'[n] \in {owner[n], NoTrain}
    BY <2>1 DEF Granted, Commit, Conflicts
  <2>2. ASSUME NEW t \in Trains, Freed(t) PROVE owner'[n] \in {owner[n], NoTrain}
    BY <2>2 DEF Freed
  <2> QED BY <2>1, <2>2, StepKinds DEF table
<1> QED BY <1>1, TableInvariant, PTL DEF Spec, NeverStolen

\* A refused request changes nothing; a granted one concerns one train.
THEOREM RequestsAreAtomic == Spec => AllOrNothing
<1> DEFINE Same(t) == /\ generation'[t] = generation[t]
                      /\ destination'[t] = destination[t]
                      /\ Owns(t)' = Owns(t)
           OneAtMost == \A t, u \in Trains : t # u => Same(t) \/ Same(u)
           Atomic == /\ reply'.status \in {"conflict", "invalid"} => UNCHANGED table
                     /\ OneAtMost
<1>1. ASSUME TableInv, Next PROVE Atomic
  <2>1. CASE UNCHANGED table
    BY <2>1 DEF table, Owns
  <2>2. ASSUME NEW t \in Trains, NEW route \in Routes, NEW d \in Nodes,
               Granted(t, route, d), reply'.status = "ok"
        PROVE  Atomic
    BY <1>1, <2>2, GrantedEffect
  <2>3. ASSUME NEW t \in Trains, Freed(t), reply'.status = "ok" PROVE Atomic
    BY <1>1, <2>3, FreedEffect
  <2> QED BY <1>1, <2>1, <2>2, <2>3, StepKinds
<1>2. TableInv /\ [Next]_vars =>
        [/\ reply'.status \in {"conflict", "invalid"} => UNCHANGED table
         /\ \A t, u \in Trains :
              t # u => \/ generation'[t] = generation[t] /\ destination'[t] = destination[t]
                                                         /\ Owns(t)' = Owns(t)
                       \/ generation'[u] = generation[u] /\ destination'[u] = destination[u]
                                                         /\ Owns(u)' = Owns(u)]_vars
  BY <1>1
<1> QED BY <1>2, TableInvariant, PTL DEF Spec, AllOrNothing

-----------------------------------------------------------------------------
\* The reservation table implements one lock per section of track.
THEOREM ReservationsAreLocks == Spec => ImplementsLocks
<1>1. Init => Locks!Init
  <2> SUFFICES ASSUME Init PROVE Locks!Init OBVIOUS
  <2>1. \A t \in Trains : Owns(t) = {} BY TrackAssumption DEF Init, Owns
  <2>2. generation \in [Trains -> Generations]
    BY GenerationAssumption DEF Init, Generations
  <2> QED BY <2>1, <2>2 DEF Locks!Init, HeldBy
<1>2. TableInv /\ [Next]_vars => [Locks!Next]_<<HeldBy, generation>>
  <2> SUFFICES ASSUME TableInv, [Next]_vars PROVE Locks!Next \/ UNCHANGED <<HeldBy, generation>>
    OBVIOUS
  <2>1. CASE UNCHANGED table
    BY <2>1 DEF table, HeldBy, Owns
  <2>2. ASSUME NEW t \in Trains, NEW route \in Routes, NEW d \in Nodes, Granted(t, route, d)
        PROVE  Locks!Next
    <3>1. /\ TableInv'
          /\ Owns(t)' = Occupied(route)
          /\ \A u \in Trains \ {t} : Owns(u)' = Owns(u) /\ generation'[u] = generation[u]
          /\ \A u \in Trains \ {t} : Owns(u) \cap Occupied(route) = {}
      BY <2>2, GrantedEffect
    <3>2. HeldBy' = [HeldBy EXCEPT ![t] = Occupied(route)]
      BY <3>1 DEF HeldBy
    <3>3. Locks!Whole(Occupied(route))
      BY OccupiedPairs, TrackAssumption DEF Locks!Whole, Section
    <3>4. Locks!OnlyFor(t)
      BY <3>1 DEF Locks!OnlyFor, HeldBy
    <3>5. generation' \in [Trains -> Generations]
      BY <3>1 DEF TableInv, TableTypes
    <3>6. \A u \in Trains \ {t} : HeldBy[u] \cap Occupied(route) = {}
      BY <3>1 DEF HeldBy
    <3>7. Occupied(route) \in (SUBSET Nodes) \ {{}}
      BY OccupiedPairs
    <3>8. Locks!Take(t, Occupied(route))
      BY <3>2, <3>3, <3>4, <3>5, <3>6 DEF Locks!Take
    <3> QED BY <3>7, <3>8 DEF Locks!Next
  <2>3. ASSUME NEW t \in Trains, Freed(t) PROVE Locks!Next
    <3>1. /\ TableInv'
          /\ Owns(t)' = {}
          /\ \A u \in Trains \ {t} : Owns(u)' = Owns(u) /\ generation'[u] = generation[u]
          /\ destination[t] # NoNode => generation'[t] # generation[t]
      BY <2>3, FreedEffect
    <3>2. HeldBy' = [HeldBy EXCEPT ![t] = {}]
      BY <3>1 DEF HeldBy
    <3>3. Locks!OnlyFor(t)
      BY <3>1 DEF Locks!OnlyFor, HeldBy
    <3>4. HeldBy[t] # {} => generation'[t] # generation[t]
      BY <3>1 DEF HeldBy, TableInv, PlanHasFootprint
    <3>5. generation' \in [Trains -> Generations]
      BY <3>1 DEF TableInv, TableTypes
    <3>6. Locks!GiveUp(t)
      BY <3>2, <3>3, <3>4, <3>5 DEF Locks!GiveUp
    <3> QED BY <3>6 DEF Locks!Next
  <2>4. CASE Next
    BY <2>1, <2>2, <2>3, <2>4, StepKinds
  <2> QED BY <2>1, <2>4 DEF vars
<1> QED BY <1>1, <1>2, TableInvariant, PTL DEF Spec, ImplementsLocks, Locks!Spec
=============================================================================
