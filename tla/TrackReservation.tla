-------------------------- MODULE TrackReservation --------------------------
(***************************************************************************)
(* The track reservation server: track_reservation.c behind the message    *)
(* loop of track_reservation_server.c.                                     *)
(*                                                                         *)
(* The server is the only writer of its table and handles one message at a *)
(* time, so a request is one step.  A route is abstracted to the non-empty *)
(* set of nodes it lists; the order of the list only decides which of      *)
(* several conflicts the reply names.                                      *)
(***************************************************************************)
EXTENDS Integers, FiniteSets

CONSTANTS
  Nodes,          \* 0 .. TRACK_MAX-1 of the track graph
  Trains,         \* train numbers a request may name (1..255 in the code)
  Reverse,        \* the node of the same track in the other direction
  NoNode,         \* -1: no destination, no conflict, no reverse node
  NoTrain,        \* 0: nobody owns the node
  MaxGeneration   \* largest unsigned int (2^32 - 1): then it wraps past 0

\* The track data pairs nodes: the reverse of the reverse is the node.
ASSUME TrackAssumption ==
  /\ NoNode \notin Nodes
  /\ NoTrain \notin Trains
  /\ Reverse \in [Nodes -> Nodes \cup {NoNode}]
  /\ \A n \in Nodes : Reverse[n] # NoNode => Reverse[Reverse[n]] = n

ASSUME GenerationAssumption == MaxGeneration \in Nat /\ MaxGeneration >= 2

Generations == 0 .. MaxGeneration

VARIABLES
  owner,        \* owner_by_node
  destination,  \* destination_by_train
  generation,   \* generation_by_train
  reply         \* what the last request answered

table == <<owner, destination, generation>>
vars  == <<table, reply>>

Reply(status, node, train, g) ==
  [status |-> status, node |-> node, train |-> train, generation |-> g]

Init ==
  /\ owner       = [n \in Nodes |-> NoTrain]
  /\ destination = [t \in Trains |-> NoNode]
  /\ generation  = [t \in Trains |-> 0]
  /\ reply       = Reply("none", NoNode, NoTrain, 0)

-----------------------------------------------------------------------------
\* Mutant: the footprint alone, without the nodes of the other direction.
FootprintAlone(route) == route

\* What a route occupies: its nodes and, for each, its reverse if it has one.
Occupied(route) == route \cup ({Reverse[n] : n \in route} \ {NoNode})

Owns(t) == {n \in Nodes : owner[n] = t}

\* Mutant: a wrap that lands on 0, the generation of no plan.
PlainSuccessor(g) == (g + 1) % (MaxGeneration + 1)

\* advance_train_generation: 0 stays reserved for a train without a plan.
NextGeneration(g) == IF g = MaxGeneration THEN 1 ELSE g + 1

\* Mutant: only the generation is compared.
SameGeneration(t, d, g) == g # 0 /\ d \in Nodes /\ generation[t] = g

\* The plan the sender believes its train to have is the one it has.
PlanIs(t, d, g) ==
  /\ g # 0 /\ d \in Nodes
  /\ generation[t] = g
  /\ destination[t] = d

Conflicts(t, route) == {n \in Occupied(route) : owner[n] \notin {NoTrain, t}}

\* The footprint replaces whatever the train owned, in one go.
Commit(t, route, d) ==
  /\ owner' = [n \in Nodes |->
                 IF n \in Occupied(route) THEN t
                 ELSE IF owner[n] = t THEN NoTrain ELSE owner[n]]
  /\ destination' = [destination EXCEPT ![t] = d]

Advance(t) == generation' = [generation EXCEPT ![t] = NextGeneration(@)]

Refused ==
  /\ reply' = Reply("invalid", NoNode, NoTrain, 0)
  /\ UNCHANGED table

Conflict(t, route) ==
  /\ \E n \in Conflicts(t, route) :
       reply' = Reply("conflict", n, owner[n], 0)
  /\ UNCHANGED table

Reserved(t) == reply' = Reply("ok", NoNode, NoTrain, generation'[t])

-----------------------------------------------------------------------------
(* try_route_to, in the two forms the requests use it.                     *)

\* A first plan: no identity to compare, a new generation.
Acquire(t, route, d) ==
  \/ Conflict(t, route)
  \/ /\ Conflicts(t, route) = {}
     /\ Commit(t, route, d)
     /\ Advance(t)
     /\ Reserved(t)

\* RESERVE: the destination has to be on the route.
Reserve(t, route, d) ==
  IF d \in route THEN Acquire(t, route, d) ELSE Refused

\* RESERVE_WINDOW: the first window of a plan that ends elsewhere.
ReserveWindow(t, route, d) == Acquire(t, route, d)

\* A new footprint under the same plan: the generation stays.
Move(t, route, d, g) ==
  IF ~PlanIs(t, d, g) THEN Refused
  ELSE \/ Conflict(t, route)
       \/ /\ Conflicts(t, route) = {}
          /\ Commit(t, route, d)
          /\ UNCHANGED generation
          /\ Reserved(t)

\* UPDATE_FOOTPRINT: the destination has to stay on the footprint.
UpdateFootprint(t, route, d, g) ==
  IF d \in route THEN Move(t, route, d, g) ELSE Refused

\* UPDATE_WINDOW: a rolling authority window need not reach the destination.
UpdateWindow(t, route, d, g) == Move(t, route, d, g)

\* A new plan in the place of the plan the sender names.
Replace(t, route, old, g, new) ==
  IF PlanIs(t, old, g) THEN Acquire(t, route, new) ELSE Refused

ReplacePlanExpected(t, route, old, g, new) ==
  IF new \in route THEN Replace(t, route, old, g, new) ELSE Refused

ReplaceWindowExpected(t, route, old, g, new) == Replace(t, route, old, g, new)

-----------------------------------------------------------------------------
\* A release of nothing is no change of plan.
HadPlan(t) == destination[t] # NoNode \/ Owns(t) # {}

Release(t) ==
  /\ owner' = [n \in Nodes |-> IF owner[n] = t THEN NoTrain ELSE owner[n]]
  /\ destination' = [destination EXCEPT ![t] = NoNode]
  /\ IF HadPlan(t) THEN Advance(t) ELSE UNCHANGED generation
  /\ Reserved(t)

\* LOOKUP_NODE: the owner of a node and the plan it holds it under.
Lookup(n) ==
  IF owner[n] = NoTrain THEN [train |-> NoTrain, node |-> NoNode, generation |-> 0]
  ELSE [train |-> owner[n], node |-> destination[owner[n]],
        generation |-> generation[owner[n]]]

LookupNode(n) ==
  /\ reply' = Reply("ok", Lookup(n).node, Lookup(n).train, Lookup(n).generation)
  /\ UNCHANGED table

\* A message of a wrong length or type, or a train or node out of range.
Malformed == Refused

Routes == (SUBSET Nodes) \ {{}}

Plan(t) ==
  \E route \in Routes, d \in Nodes :
    \/ Reserve(t, route, d)
    \/ ReserveWindow(t, route, d)
    \/ \E g \in Generations :
         \/ UpdateFootprint(t, route, d, g)
         \/ UpdateWindow(t, route, d, g)
         \/ \E old \in Nodes : \/ ReplacePlanExpected(t, route, old, g, d)
                               \/ ReplaceWindowExpected(t, route, old, g, d)

Next ==
  \/ \E t \in Trains : Plan(t) \/ Release(t)
  \/ \E n \in Nodes : LookupNode(n)
  \/ Malformed

Spec == Init /\ [][Next]_vars

-----------------------------------------------------------------------------
(* Correctness.                                                            *)

TypeOK ==
  /\ owner \in [Nodes -> Trains \cup {NoTrain}]
  /\ destination \in [Trains -> Nodes \cup {NoNode}]
  /\ generation \in [Trains -> Generations]
  /\ reply \in [status : {"none", "ok", "conflict", "invalid"},
                node : Nodes \cup {NoNode}, train : Trains \cup {NoTrain},
                generation : Generations]

\* Track is owned as physical track: a node and its reverse have one owner,
\* so no train can be given the same section from the other end.
DirectionsTogether ==
  \A n \in Nodes : Reverse[n] # NoNode => owner[n] = owner[Reverse[n]]

\* Ownership and plans come and go together: a train owns track exactly
\* while it has a destination, and then its generation identifies the plan.
PlanHasFootprint ==
  \A t \in Trains :
    /\ (destination[t] # NoNode) <=> (Owns(t) # {})
    /\ destination[t] # NoNode => generation[t] # 0

\* A change of destination or a release is never hidden behind the old
\* generation: evidence stamped with it cannot match the new plan.
PlanChangeVisible ==
  [][\A t \in Trains :
       destination'[t] # destination[t] => generation'[t] # generation[t]]_vars

\* No request takes track from under a train: an owned node passes to
\* another train only through a step in which its owner gave it up.
NeverStolen ==
  [][\A n \in Nodes : owner[n] # NoTrain => owner'[n] \in {owner[n], NoTrain}]_vars

\* A request that fails leaves the table as it was, and one that succeeds
\* disturbs the plan of one train only.
AllOrNothing ==
  [][/\ reply'.status \in {"conflict", "invalid"} => UNCHANGED table
     /\ \A t, u \in Trains :
          t # u => \/ generation'[t] = generation[t] /\ destination'[t] = destination[t]
                                                     /\ Owns(t)' = Owns(t)
                   \/ generation'[u] = generation[u] /\ destination'[u] = destination[u]
                                                     /\ Owns(u)' = Owns(u)]_vars

-----------------------------------------------------------------------------
Section == [n \in Nodes |-> {n, Reverse[n]} \ {NoNode}]
HeldBy  == [t \in Trains |-> Owns(t)]

Locks == INSTANCE SectionLocks WITH
           SectionOf <- Section, Tickets <- Generations,
           held <- HeldBy, ticket <- generation

\* The node table is a lock per section of track.
ImplementsLocks == Locks!Spec
=============================================================================
